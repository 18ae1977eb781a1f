----------------------------- MODULE VulnGraph -----------------------------
(***************************************************************************)
(* src/vuln: the evidence graph built from the tables of an analysis       *)
(* (graph_builder.rs), the summaries, taint marks, dominators and alias    *)
(* classes computed on it, and the candidate chains the templates find.    *)
(*                                                                         *)
(* Everything here is a function of the tables, a record of sequences.     *)
(* Names are compared in lower case by the code and are lower case here;   *)
(* addresses are small numbers.                                            *)
(***************************************************************************)
EXTENDS Integers, Sequences, FiniteSets, FiniteSetsExt, SequencesExt, Functions

CONSTANTS
    Contained,     \* the catalogue names, needles and tokens each name of the tables contains
    Normal,        \* normalize_fact_value: what is left of a value without blanks, quotes and case
    Window         \* WINDOW_BEFORE and WINDOW_AFTER of the bridge between calls and values

None == "none"

Has(name, needles) == Contained[name] \cap needles # {}

-----------------------------------------------------------------------------
(* The graph: node payloads and edges in the order they were added; two     *)
(* nodes may be joined by several edges of one kind.                        *)

Empty == [nodes |-> <<>>, edges |-> <<>>]

AddNode(g, payload) == [g EXCEPT !.nodes = Append(@, payload)]
AddEdge(g, a, b, kind) == [g EXCEPT !.edges = Append(@, <<a, b, kind>>)]
AddEdges(g, pairs, kind) == [g EXCEPT !.edges = @ \o [i \in DOMAIN pairs |-> <<pairs[i][1], pairs[i][2], kind>>]]

NodesOfKind(g, kind) == {n \in DOMAIN g.nodes : g.nodes[n].kind = kind}
InOrder(s) == SetToSortSeq(s, <)

\* The neighbours of a node along edges of a kind: petgraph gives the newest edge first.
Out(g, n, kind) ==
    LET e == SelectSeq(g.edges, LAMBDA x : x[1] = n /\ x[3] = kind) IN Reverse([i \in DOMAIN e |-> e[i][2]])
In(g, n, kind) ==
    LET e == SelectSeq(g.edges, LAMBDA x : x[2] = n /\ x[3] = kind) IN Reverse([i \in DOMAIN e |-> e[i][1]])
OfKind(g, nodes, kind) == SelectSeq(nodes, LAMBDA n : g.nodes[n].kind = kind)

\* The last node of the kind at an address: <<>> or one node.
ByVa(g, kind, va) ==
    LET s == {n \in NodesOfKind(g, kind) : g.nodes[n].va = va} IN IF s = {} THEN <<>> ELSE <<Max(s)>>

BlockByVa(g, f, va) ==
    InOrder({n \in NodesOfKind(g, "BasicBlock") : g.nodes[n].fn = f /\ g.nodes[n].va = va})

\* Everything reached from the set s along the relation e.
Reach(s, e) ==
    LET R[k \in 0..Cardinality(e)] ==
            IF k = 0 THEN s
            ELSE LET r == R[k - 1] IN r \cup {x[2] : x \in {y \in e : y[1] \in r}}
    IN  R[Cardinality(e)]

EdgesOf(g, kind) == {<<x[1], x[2]>> : x \in {y \in Range(g.edges) : y[3] = kind}}

\* The pairs of two optional nodes, for the edge that is added when both are there.
Both(a, b) == IF a = <<>> \/ b = <<>> THEN <<>> ELSE << <<a[1], b[1]>> >>

\* The pairs that Pair gives for the elements of a table, in order.
Pairs(table, Pair(_)) == FlattenSeq([i \in DOMAIN table |-> Pair(table[i])])

-----------------------------------------------------------------------------
(* Ingestion, table by table                                               *)

IngestFunctions(g0, functions) ==
    LET g1 == FoldLeft(LAMBDA g, f : AddNode(g, [kind |-> "Function", va |-> f.start]), g0, functions)
        Fn(va) == ByVa(g1, "Function", va)
    IN  AddEdges(g1, Pairs(functions, LAMBDA f : Pairs(f.calls, LAMBDA c : Both(Fn(f.start), Fn(c)))), "Calls")

AddBlock(g, f, b) ==
    IF BlockByVa(g, f, b.start) # <<>> THEN g
    ELSE AddNode(g, [kind |-> "BasicBlock", fn |-> f, va |-> b.start, end |-> b.end])

IngestCfg(g0, cfgs) ==
    LET One(g, c) ==
            LET g1 == FoldLeft(LAMBDA x, b : AddBlock(x, c.function, b), g, c.blocks)
                Block(va) == BlockByVa(g1, c.function, va)
            IN  IF ByVa(g, "Function", c.function) = <<>> THEN g
                ELSE AddEdges(g1, Pairs(c.edges, LAMBDA e : Both(Block(e[1]), Block(e[2]))), "ControlFlow")
    IN  FoldLeft(One, g0, cfgs)

XrefKind(x) ==
    IF x.kind = "code" THEN "Calls"
    ELSE IF x.role = "write" THEN "WritesTo"
    ELSE IF x.role = "read" THEN "ReadsFrom"
    ELSE "DataFlow"

IngestXrefs(g0, xrefs) ==
    FoldLeft(LAMBDA g, x : AddEdges(g, Both(ByVa(g, "Function", x.from), ByVa(g, "Function", x.target)), XrefKind(x)),
             g0, SelectSeq(xrefs, LAMBDA x : x.kind \in {"code", "data"}))

\* ssa_index: the last node made for a value.
SsaNode(g, id) ==
    LET s == {n \in NodesOfKind(g, "Copy") : g.nodes[n].ssa = id} IN IF s = {} THEN <<>> ELSE <<Max(s)>>

IngestSsa(g0, ssa) ==
    FoldLeft(LAMBDA g, s : AddNode(g, [kind |-> "Copy", ssa |-> s.id, va |-> s.site]), g0, ssa)

IngestDataflow(g, dataflow) ==
    AddEdges(g, Pairs(dataflow, LAMBDA d : Both(SsaNode(g, d[1]), SsaNode(g, d[2]))), "DataFlow")

\* width_of: the tokens of the wider types are looked for first.
WidthTokens ==
    (128 :> {"i128", "u128"}) @@ (64 :> {"int64", "uint64", "i64", "u64", "long", "qword", "ptr"})
    @@ (32 :> {"int32", "uint32", "i32", "u32", "dword", "int", "uint"})
    @@ (16 :> {"int16", "uint16", "i16", "u16", "short", "word"}) @@ (8 :> {"int8", "uint8", "i8", "u8", "byte"})
WidthOf(type) ==
    LET w == {b \in DOMAIN WidthTokens : Has(type, WidthTokens[b])} IN IF w = {} THEN 0 ELSE Max(w)

\* A value whose inferred type tells a width gets a cast node, if its definition has one.
IngestValueGraph(g0, values) ==
    LET One(g, v) ==
            IF WidthOf(v.type) = 0 \/ SsaNode(g, v.id) = <<>> THEN g
            ELSE LET g1 == AddNode(g, [kind |-> "TypeCast", bits |-> WidthOf(v.type), va |-> v.site])
                 IN  AddEdge(g1, Len(g1.nodes), SsaNode(g, v.id)[1], "DerivedFrom")
    IN  FoldLeft(One, g0, values)

\* bracket: the location starts with "[".
IngestVsa(g0, vsa) ==
    LET One(g, v) ==
            IF Has(v.type, {"alloc", "heap"}) THEN AddNode(g, [kind |-> "Allocation", va |-> v.site])
            ELSE IF v.bracket \/ Has(v.type, {"pointer"}) THEN AddNode(g, [kind |-> "PointerDerivation", va |-> v.site])
            ELSE g
    IN  FoldLeft(One, g0, vsa)

\* Techniques and behaviours: a node that the functions among the evidence reach.
IngestLabels(g0, labels) ==
    LET One(g, l) ==
            LET g1 == AddNode(g, [kind |-> "GlobalState", tag |-> l.tag])
            IN  AddEdges(g1, Pairs(l.vas, LAMBDA va : Both(ByVa(g, "Function", va), <<Len(g1.nodes)>>)), "Reaches")
    IN  FoldLeft(One, g0, labels)

\* A call node and the sink node behind it, new ones even if the address has them.
AddCall(g, fn, va, api) ==
    LET g1 == AddNode(AddNode(g, [kind |-> "CallSite", va |-> va, api |-> api]),
                      [kind |-> "Sink", va |-> va, api |-> api])
        n  == Len(g1.nodes)
    IN  AddEdge(AddEdge(g1, fn, n - 1, "ControlFlow"), n - 1, n, "DataFlow")

\* A flow that says anything of an argument leaves a fact; index is -1 if not known.
IngestApiFlows(g0, flows) ==
    LET One(g, f) ==
            LET fn == ByVa(g, "Function", f.function)
                g1 == AddCall(g, fn[1], f.callsite, f.api)
                g2 == AddNode(g1, [kind |-> "GlobalState", tag |-> "api_arg",
                                   site |-> f.callsite, index |-> f.index, value |-> f.value])
            IN  IF fn = <<>> THEN g
                ELSE IF f.index < 0 /\ ~f.named /\ f.value = "" THEN g1
                ELSE AddEdge(g2, Len(g1.nodes) - 1, Len(g2.nodes), "ReadsFrom")
    IN  FoldLeft(One, g0, flows)

FormatSinks == <<"__stdio_common_vfprintf", "vfprintf", "printf">>
FormatSink(name) ==
    LET hit == SelectSeq(FormatSinks, LAMBDA s : s \in Contained[name]) IN IF hit = <<>> THEN None ELSE hit[1]

\* The API a small wrapper forwards to: its own imports, then the thunks it
\* calls, then its callees, two calls deep.
ForwardedSinkApi(start, functions, thunks) ==
    LET At(va) == {i \in DOMAIN functions : functions[i].start = va}
        First(apis) == LET hit == SelectSeq(apis, LAMBDA a : a # None) IN IF hit = <<>> THEN None ELSE hit[1]
        FirstSink(names) == First([i \in DOMAIN names |-> FormatSink(names[i])])
        Thunks(f) == Pairs(f.calls, LAMBDA c : IF c \in DOMAIN thunks THEN <<thunks[c]>> ELSE <<>>)
        Api[d \in 0..2, va \in {functions[i].start : i \in DOMAIN functions}] ==
            LET f    == functions[Max(At(va))]
                own  == First(<<FirstSink(f.imports), FirstSink(Thunks(f))>>)
                next == SelectSeq(f.calls, LAMBDA c : At(c) # {})
            IN  IF own # None \/ d = 0 THEN own ELSE First([i \in DOMAIN next |-> Api[d - 1, next[i]]])
    IN  Api[2, start]

IngestLocalSinkWrappers(g0, functions, xrefs) ==
    LET imports(va) == {i \in DOMAIN xrefs : xrefs[i].kind = "import" /\ xrefs[i].from = va /\ xrefs[i].symbol # None}
        thunks == [va \in {v \in {xrefs[i].from : i \in DOMAIN xrefs} : imports(v) # {}} |-> xrefs[Max(imports(va))].symbol]
        Starts == {functions[i].start : i \in DOMAIN functions}
        Containing(va) == {f.start : f \in {h \in Range(functions) : h.start <= va /\ va < h.end}}
        One(g, x) ==
            IF x.kind # "code" \/ x.role # "call" \/ x.target \notin Starts THEN g
            ELSE LET api == ForwardedSinkApi(x.target, functions, thunks)
                     caller == Containing(x.from)
                 IN  IF api = None \/ ByVa(g, "Sink", x.from) # <<>> \/ caller = {} THEN g
                     ELSE AddCall(g, ByVa(g, "Function", Max(caller))[1], x.from, api)
    IN  FoldLeft(One, g0, xrefs)

\* callsite_function_va: the address of the function a call is in, <<>> if there is none.
CallsiteFunction(g, c) ==
    LET f == OfKind(g, In(g, c, "ControlFlow"), "Function") IN IF f = <<>> THEN <<>> ELSE <<g.nodes[f[1]].va>>

\* is_call_register_storage
CallRegisters == {"rax", "rcx", "rdx", "r8", "r9", "r10", "r11", "rdi", "rsi",
                  "eax", "ecx", "edx", "r8d", "r9d", "r10d", "r11d", "edi", "esi"}

\* Calls and the values of call registers close to them are joined both ways.
\* All calls at an address are taken to be in the function of the first that has one.
IngestBridge(g0, ssa) ==
    LET calls == InOrder(NodesOfKind(g0, "CallSite"))
        At(va) == SelectSeq(calls, LAMBDA c : g0.nodes[c].va = va)
        Near(va) ==
            LET fn == Pairs(At(va), LAMBDA c : CallsiteFunction(g0, c))
                s  == {i \in DOMAIN ssa : /\ ssa[i].storage \in CallRegisters /\ fn # <<>> /\ ssa[i].function = fn[1]
                                          /\ va - Window <= ssa[i].site /\ ssa[i].site < va + Window}
            IN  SetToSortSeq(s, LAMBDA i, j : ssa[i].site < ssa[j].site \/ (ssa[i].site = ssa[j].site /\ i < j))
        Joins(va) == Pairs(Near(va), LAMBDA i : Pairs(At(va), LAMBDA c :
                        <<<<c, SsaNode(g0, ssa[i].id)[1]>>, <<SsaNode(g0, ssa[i].id)[1], c>>>>))
    IN  AddEdges(g0, Pairs(InOrder({g0.nodes[c].va : c \in Range(calls)}), Joins), "DataFlow")

\* An import that is no function of the program becomes one.
IngestImports(g0, imports) ==
    FoldLeft(LAMBDA g, va : IF ByVa(g, "Function", va) # <<>> THEN g
                            ELSE AddNode(g, [kind |-> "Function", va |-> va]), g0, imports)

BuildGraph(t) ==
    LET g1 == IngestXrefs(IngestCfg(IngestFunctions(Empty, t.functions), t.cfgs), t.xrefs)
        g2 == IngestValueGraph(IngestDataflow(IngestSsa(g1, t.ssa), t.dataflow), t.values)
        g3 == IngestLabels(IngestLabels(IngestVsa(g2, t.vsa), t.attack), t.dossiers)
        g4 == IngestLocalSinkWrappers(IngestApiFlows(g3, t.flows), t.functions, t.xrefs)
    IN  IngestBridge(IngestImports(g4, t.imports), t.ssa)

-----------------------------------------------------------------------------
(* Summaries of functions and taint                                        *)

CopyApis   == {"memcpy", "memmove", "rtlcopymemory", "strcpy", "strncpy", "strcat"}
PrintApis  == {"printf", "sprintf", "snprintf", "fprintf", "vfprintf", "vsprintf", "__stdio_common_vfprintf"}
IoctlApis  == {"deviceiocontrol", "ntdeviceiocontrolfile"}
AllocApis  == {"malloc", "calloc", "realloc", "virtualalloc"}
FileApis   == {"createfile", "fopen", "open", "unlink", "deletefile", "rename"}
InputApis  == {"recv", "wsarecv", "readfile", "fread", "fgets", "_read", "internetreadfile", "winhttpreaddata"}

\* apply_api_semantics: the arguments calling an API reads and fills.
Semantics(api) ==
    LET when(needles, bits) == IF Has(api, needles) THEN bits ELSE {}
    IN  [in  |-> when(IoctlApis, {2, 3}) \cup when(CopyApis, {1, 2}) \cup when(PrintApis, {0, 1, 2})
                 \cup when(AllocApis, {0, 1, 2, 3}) \cup when(FileApis, {0, 1}),
         out |-> when(InputApis, {0, 1}) \cup when(IoctlApis, {4, 5}) \cup when(CopyApis \cup AllocApis, {0})
                 \cup when({"sprintf", "snprintf", "vsprintf"}, {0})]

MergeSummary(dst, src) ==
    [in |-> dst.in \cup src.in, out |-> dst.out \cup src.out, sinks |-> dst.sinks \cup src.sinks]

OwnSummary(g, f) ==
    LET calls == {c \in NodesOfKind(g, "CallSite") : f \in Range(In(g, c, "ControlFlow"))}
        sinks == UNION {Range(OfKind(g, Out(g, c, "DataFlow"), "Sink")) : c \in calls}
    IN  [in    |-> UNION {Semantics(g.nodes[c].api).in : c \in calls},
         out   |-> UNION {Semantics(g.nodes[c].api).out : c \in calls},
         sinks |-> {<<g.nodes[s].api, g.nodes[s].va>> : s \in sinks}]

\* Summaries by function node; the code keys them by address, and a function
\* node is the only one at its address.
ComputeSummaries(g) ==
    LET fns   == NodesOfKind(g, "Function")
        edges == Pairs(InOrder(fns), LAMBDA f : LET callees == OfKind(g, Out(g, f, "Calls"), "Function")
                                                IN  [i \in DOMAIN callees |-> <<f, callees[i]>>])
        Round(s0) == FoldLeft(LAMBDA s, e : [s EXCEPT ![e[1]] = MergeSummary(@, s[e[2]])], s0, edges)
        R[k \in 0..Cardinality(fns)] ==
            IF k = 0 THEN [f \in fns |-> OwnSummary(g, f)] ELSE Round(R[k - 1])
    IN  R[Cardinality(fns)]

\* V1_0_SOURCES with the weights of their trust boundaries, in hundredths.
SourceCatalog == <<
    [kind |-> "network_recv",             weight |-> 100, apis |-> {"recv", "recvfrom", "wsarecv", "wsarecvfrom"}],
    [kind |-> "network_accept_then_recv", weight |-> 100, apis |-> {"accept", "wsaaccept"}],
    [kind |-> "file_read",                weight |-> 60,  apis |-> {"readfile", "fread", "fgets", "readfileex", "_read"}],
    [kind |-> "argv",                     weight |-> 60,  apis |-> {"getcommandline", "getcommandlinea", "getcommandlinew", "commandlinetoargv"}],
    [kind |-> "environment_variable",     weight |-> 60,  apis |-> {"getenvironmentvariable", "getenv", "_wgetenv"}],
    [kind |-> "ioctl_input_buffer",       weight |-> 60,  apis |-> IoctlApis],
    [kind |-> "registry_value",           weight |-> 30,  apis |-> {"regqueryvalueex", "reggetvalue", "regenumvalue"}],
    [kind |-> "ipc_pipe",                 weight |-> 60,  apis |-> {"readfile/pipe", "ntreadfile", "transactnamedpipe"}],
    [kind |-> "com_server_ingress",       weight |-> 55,  apis |-> {"cocreateinstance", "dllgetclassobject"}],
    [kind |-> "rpc_inbound",              weight |-> 80,  apis |-> {"rpcserverlisten", "ndrservercall"}],
    [kind |-> "url_or_uri",               weight |-> 100, apis |-> {"internetreadfile", "winhttpreaddata", "httpqueryinfo"}],
    [kind |-> "dns_response",             weight |-> 100, apis |-> {"dnsquery", "getaddrinfo", "gethostbyname"}] >>

\* match_api: of the sources an API may be, the first with the greatest weight.
SourceKind(api) ==
    LET hit == {i \in DOMAIN SourceCatalog : Has(api, SourceCatalog[i].apis)}
        best == {i \in hit : \A j \in hit : SourceCatalog[j].weight <= SourceCatalog[i].weight}
    IN  IF hit = {} THEN None ELSE SourceCatalog[Min(best)].kind

Sources(g) == {c \in NodesOfKind(g, "CallSite") : SourceKind(g.nodes[c].api) # None}

\* Mutant: a mark that is already there keeps its distance.
AddMarkFirst(m, n, mark) ==
    IF \E i \in DOMAIN m[n] : m[n][i].source = mark.source /\ m[n][i].mode = mark.mode THEN m
    ELSE [m EXCEPT ![n] = Append(@, mark)]

\* Marks are kept in the order they were added, one per source and mode.
AddMark(m, n, mark) ==
    LET old == {i \in DOMAIN m[n] : m[n][i].source = mark.source /\ m[n][i].mode = mark.mode}
    IN  IF old = {} THEN [m EXCEPT ![n] = Append(@, mark)]
        ELSE LET i == Min(old) IN
             IF mark.hop < m[n][i].hop THEN [m EXCEPT ![n][i].hop = mark.hop] ELSE m

AddMarks(m0, n, marks) == FoldLeft(LAMBDA m, k : AddMark(m, n, k), m0, marks)

PropagateIntra(g) ==
    LET flow == EdgesOf(g, "DataFlow")
        order == InOrder(Sources(g))
    IN  [n \in DOMAIN g.nodes |->
            LET hits == SelectSeq(order, LAMBDA s : n \in Reach({s}, flow))
            IN  [i \in DOMAIN hits |-> [source |-> hits[i], mode |-> "Exact", hop |-> 0]]]

Accepts(summary) == summary.in # {} \/ summary.out # {} \/ summary.sinks # {}

Hop(marks) == [i \in DOMAIN marks |-> [marks[i] EXCEPT !.mode = "Summary", !.hop = @ + 1]]

\* One function of one round: its summary marks go to the sinks it reaches,
\* all marks in it go to the callees that take part in taint.
PropagateFrom(g, sums, m, f) ==
    LET here  == m[f] \o Pairs(Out(g, f, "ControlFlow"), LAMBDA c : m[c])
        down  == Hop(SelectSeq(m[f], LAMBDA k : k.mode = "Summary"))
        sinks == {ByVa(g, "Sink", s[2])[1] : s \in sums[f].sinks}
        takers == SelectSeq(OfKind(g, Out(g, f, "Calls"), "Function"), LAMBDA c : Accepts(sums[c]))
        m1 == FoldLeft(LAMBDA x, s : AddMarks(x, s, down), m, InOrder(sinks))
    IN  IF here = <<>> THEN m
        ELSE FoldLeft(LAMBDA x, c : AddMarks(x, c, Hop(here)), m1, takers)

PropagateRound(g, sums, m) ==
    FoldLeft(LAMBDA x, f : PropagateFrom(g, sums, x, f), m, InOrder(NodesOfKind(g, "Function")))

-----------------------------------------------------------------------------
(* Guards and dominators in the flow graph of one function                 *)

Blocks(g, f) == {n \in NodesOfKind(g, "BasicBlock") : g.nodes[n].fn = f}
Flow(g, f) == {e \in EdgesOf(g, "ControlFlow") : {e[1], e[2]} \subseteq Blocks(g, f)}

\* dominators_for_function gives a tree: the function has blocks and one starts at its address.
HasTree(g, f) == BlockByVa(g, f, f) # <<>>

\* dominates: the walk over immediate dominators finds a; a block the entry does
\* not reach has none.
Dominates(g, f, a, b) ==
    LET entry == Range(BlockByVa(g, f, f))
        avoiding == Reach(entry \ {a}, {e \in Flow(g, f) : e[2] # a})
    IN  a = b \/ (b \in Reach(entry, Flow(g, f)) /\ b \notin avoiding)

\* extract_guards: a block with more than one edge to blocks of the function.
Guards(g, f) ==
    {b \in Blocks(g, f) : Len(SelectSeq(Out(g, b, "ControlFlow"), LAMBDA x : x \in Blocks(g, f))) > 1}

\* The block that holds a site; failing that the last one that starts before it.
BlockForSite(g, f, va) ==
    LET holds == {b \in Blocks(g, f) : g.nodes[b].va <= va /\ va < g.nodes[b].end}
        before == {b \in Blocks(g, f) : g.nodes[b].va <= va}
    IN  IF holds # {} THEN {Min(holds)}
        ELSE {b \in before : \A c \in before : g.nodes[c].va <= g.nodes[b].va}

CountDominatingGuards(g, f, va) ==
    IF ~HasTree(g, f) THEN 0
    ELSE LET at == BlockForSite(g, f, va)
         IN  Cardinality({b \in Guards(g, f) : \A s \in at : Dominates(g, f, b, s)})

CallDominatesOrPrecedes(g, f, before, after) ==
    LET a == BlockForSite(g, f, before)
        b == BlockForSite(g, f, after)
    IN  /\ before < after
        /\ \/ a = {} \/ b = {} \/ a = b
           \/ HasTree(g, f) /\ \A x \in a, y \in b : Dominates(g, f, x, y)

LockApis == {"entercriticalsection", "acquiresrwlock", "waitforsingleobject", "lockfile", "flock",
             "pthread_mutex_lock", "mutex_lock"}

\* The call may be in another function: its address is all that is asked.
HasDominatingLock(g, f, va) ==
    \E c \in NodesOfKind(g, "CallSite") :
        /\ Has(g.nodes[c].api, LockApis) /\ g.nodes[c].va # va
        /\ CallDominatesOrPrecedes(g, f, g.nodes[c].va, va)

-----------------------------------------------------------------------------
(* Sinks                                                                   *)

\* V1_0_SINKS: a name, and the arguments that are byte counts and paths.
Sk(api, counts, paths) == [api |-> api, ByteCount |-> counts, Path |-> paths]
SinkCatalog == <<
    Sk("memcpy", {2}, {}), Sk("memmove", {2}, {}), Sk("strcpy", {}, {}), Sk("strcat", {}, {}),
    Sk("strncpy", {2}, {}), Sk("rtlcopymemory", {2}, {}), Sk("sprintf", {}, {}), Sk("snprintf", {1}, {}),
    Sk("printf", {}, {}), Sk("fprintf", {}, {}), Sk("vfprintf", {}, {}), Sk("vsprintf", {}, {}),
    Sk("__stdio_common_vfprintf", {}, {}), Sk("malloc", {}, {}), Sk("calloc", {}, {}), Sk("realloc", {}, {}),
    Sk("virtualalloc", {}, {}), Sk("virtualallocex", {}, {}), Sk("virtualprotect", {}, {}),
    Sk("writeprocessmemory", {3}, {}), Sk("createremotethread", {}, {}), Sk("deviceiocontrol", {3, 5}, {}),
    Sk("createfile", {}, {0}), Sk("fopen", {}, {0}), Sk("open", {}, {0}), Sk("unlink", {}, {0}),
    Sk("deletefile", {}, {0}), Sk("rename", {}, {0, 1}), Sk("accesscheck", {}, {}),
    Sk("impersonatenamedpipeclient", {}, {}), Sk("binaryformatter::deserialize", {}, {}), Sk("pickle.loads", {}, {}) >>

\* lookup: the entry with the longest name the API contains, the last of them; <<>> if there is none.
LookupSink(api) ==
    LET hit == {i \in DOMAIN SinkCatalog : SinkCatalog[i].api \in Contained[api]}
        longest == {i \in hit : \A j \in hit : Len(SinkCatalog[j].api) <= Len(SinkCatalog[i].api)}
    IN  IF hit = {} THEN <<>> ELSE <<SinkCatalog[Max(longest)]>>

Canonical(api) == IF LookupSink(api) = <<>> THEN api ELSE LookupSink(api)[1].api

\* parse_api_arg_fact: the facts about arguments; a technique or a behaviour is none.
ArgFacts(g) == {g.nodes[n] : n \in {x \in NodesOfKind(g, "GlobalState") : g.nodes[x].tag = "api_arg"}}

\* What the facts say of the arguments of a call that have the role.
ArgValuesForRole(g, api, va, role) ==
    LET sink == LookupSink(api)
    IN  IF sink = <<>> THEN {}
        ELSE {f.value : f \in {x \in ArgFacts(g) : x.site = va /\ x.index \in sink[1][role]}}

-----------------------------------------------------------------------------
(* Templates and chains                                                    *)

Copies == {"memcpy", "memmove", "strncpy", "rtlcopymemory"}
Tp(id, kinds, sinks, requirement, guard, pattern) ==
    [id |-> id, kinds |-> kinds, sinks |-> sinks, requirement |-> requirement, guard |-> guard, pattern |-> pattern]
MemoryTemplates == <<
    Tp("unchecked_copy_length", {}, Copies, "DestSizeKnownByteCountUnbounded", "NoDominatingGuard", "DontCare"),
    Tp("tainted_allocation_size", {}, {"malloc", "calloc", "realloc", "virtualalloc", "virtualallocex"},
       "TaintedArgRole", "NoDominatingGuard", "DontCare"),
    Tp("integer_overflow_before_alloc", {}, {"malloc", "calloc", "realloc"}, "TaintedArgRole", "DontCare", "OverflowPossible"),
    Tp("signed_unsigned_length_confusion", {}, Copies, "TaintedArgRole", "DontCare", "SignedUnsignedCast"),
    Tp("missing_bounds_check_var_mismatch", {}, Copies, "TaintedArgRole", "DominatingGuardPresent", "DontCare"),
    Tp("dangerous_memory_perm_transition", {}, {"virtualprotect"}, "PrecedingTaintedWrite", "DontCare", "DontCare") >>
AuthTemplates == <<
    Tp("auth_check_after_action", {}, {"accesscheck"}, "AnyCall", "DominatingGuardPresent", "DontCare"),
    Tp("missing_caller_validation",
       {"network_recv", "ipc_pipe", "com_server_ingress", "rpc_inbound", "ioctl_input_buffer"},
       {"writeprocessmemory", "virtualallocex", "createremotethread", "deletefile", "unlink"},
       "AnyCall", "NoDominatingGuard", "DontCare") >>
DataTemplates == <<
    Tp("deserialization_to_dangerous_type", {}, {"binaryformatter::deserialize", "pickle.loads"},
       "TaintedArgRole", "DontCare", "DontCare"),
    Tp("format_string_controlled", {}, PrintApis, "TaintedArgRole", "DontCare", "DontCare"),
    Tp("path_traversal_to_file_op", {}, FileApis \ {"rename"}, "TaintedArgRole", "NoDominatingGuard", "DontCare"),
    Tp("toctou_file_access", {}, FileApis \ {"deletefile"}, "AnyCall", "DominatingGuardPresent", "DontCare") >>
Templates == MemoryTemplates \o AuthTemplates \o DataTemplates

\* How many checks before the sink are of another variable than its byte count;
\* {} where that cannot be told.
CountBoundsMismatchGuards(g, f, va, api) ==
    LET values == ArgValuesForRole(g, api, va, "ByteCount")
        at == BlockForSite(g, f, va)
        checks == {n \in NodesOfKind(g, "BoundsCheck") :
                     /\ \E b \in BlockForSite(g, f, g.nodes[n].va), s \in at : Dominates(g, f, b, s)
                     /\ Normal[g.nodes[n].var] # ""
                     /\ \A v \in values : Normal[v] # Normal[g.nodes[n].var]}
    IN  IF values = {} \/ ~HasTree(g, f) \/ at = {} THEN {} ELSE {Cardinality(checks)}

PrivilegedApis == FileApis \cup {"writeprocessmemory", "createremotethread", "virtualprotect", "virtualallocex", "deviceiocontrol"}

AuthAfterActionMatches(g, f, va) ==
    \E s \in NodesOfKind(g, "Sink") :
        /\ g.nodes[s].va # va /\ Has(g.nodes[s].api, PrivilegedApis)
        /\ CallDominatesOrPrecedes(g, f, g.nodes[s].va, va)

ToctouMatches(g, f, va, api) ==
    LET values == ArgValuesForRole(g, api, va, "Path")
    IN  /\ ~HasDominatingLock(g, f, va)
        /\ \E s \in NodesOfKind(g, "Sink") :
              /\ g.nodes[s].va # va /\ Has(g.nodes[s].api, FileApis)
              /\ ~HasDominatingLock(g, f, g.nodes[s].va)
              /\ \E v \in values, w \in ArgValuesForRole(g, g.nodes[s].api, g.nodes[s].va, "Path") :
                    Normal[v] # "" /\ Normal[w] = Normal[v]

GuardRequirementSatisfied(req, count) ==
    CASE req = "DontCare" -> TRUE
      [] req = "NoDominatingGuard" -> count = 0
      [] req = "DominatingGuardPresent" -> count > 0

\* The guards a chain of the template reports, {} where it has none to report.
GuardCount(t, g, f, va, api) ==
    CASE t.id = "missing_bounds_check_var_mismatch" -> CountBoundsMismatchGuards(g, f, va, api) \ {0}
      [] t.id = "auth_check_after_action" -> IF AuthAfterActionMatches(g, f, va) THEN {1} ELSE {}
      [] t.id = "toctou_file_access" -> IF ToctouMatches(g, f, va, api) THEN {1} ELSE {}
      [] OTHER -> {n \in {CountDominatingGuards(g, f, va)} : GuardRequirementSatisfied(t.guard, n)}

\* path_has_integer_op, path_has_type_cast: the path is not looked at.
IntegerPattern(pattern, g) ==
    CASE pattern = "DontCare" -> TRUE
      [] pattern = "OverflowPossible" -> NodesOfKind(g, "IntegerOp") # {}
      [] pattern = "SignedUnsignedCast" -> NodesOfKind(g, "TypeCast") # {}

\* function_of_callsite of a call or of the sink behind it; 0 if it has none.
FunctionOf(g, n) ==
    LET f == CallsiteFunction(g, n)
             \o Pairs(OfKind(g, In(g, n, "DataFlow"), "CallSite"), LAMBDA c : CallsiteFunction(g, c))
    IN  IF f = <<>> THEN 0 ELSE f[1]

FormatAfterRecv(t, g, src, sink) ==
    /\ t.id = "format_string_controlled" /\ SourceKind(g.nodes[src].api) = "network_recv"
    /\ FunctionOf(g, src) # 0 /\ FunctionOf(g, src) = FunctionOf(g, sink)
    /\ g.nodes[src].va < g.nodes[sink].va
    /\ Has(Canonical(g.nodes[sink].api), {"printf", "vfprintf"})

\* Whether the taint at the sink comes from this source is not asked.
ChainSatisfiesTaint(t, taint, src, sink) == t.requirement = "AnyCall" \/ taint[sink] # <<>>

\* The chain of a template, a source and a sink: <<>> or one.
ChainOf(t, g, taint, src, sink) ==
    LET f   == FunctionOf(g, sink)
        va  == g.nodes[sink].va
        api == Canonical(g.nodes[sink].api)
        guards == GuardCount(t, g, f, va, api)
        first == IF taint[sink] = <<>> THEN [mode |-> "Exact", hop |-> 0] ELSE Head(taint[sink])
    IN  IF /\ ChainSatisfiesTaint(t, taint, src, sink) \/ FormatAfterRecv(t, g, src, sink)
           /\ guards # {} /\ IntegerPattern(t.pattern, g)
        THEN <<[template |-> t.id, kind |-> SourceKind(g.nodes[src].api), api |-> api,
                source |-> g.nodes[src].va, from |-> FunctionOf(g, src), sink |-> va, in |-> f,
                mode |-> first.mode, hop |-> first.hop, guards |-> Min(guards)]>>
        ELSE <<>>

\* The chains in the order of their ids.
DiscoverChains(g, taint) ==
    LET sources(t) == InOrder({c \in Sources(g) : t.kinds = {} \/ SourceKind(g.nodes[c].api) \in t.kinds})
        sinks(t) == InOrder({s \in NodesOfKind(g, "Sink") : Canonical(g.nodes[s].api) \in t.sinks})
    IN  Pairs(Templates, LAMBDA t : Pairs(sources(t), LAMBDA a : Pairs(sinks(t), LAMBDA b : ChainOf(t, g, taint, a, b))))

-----------------------------------------------------------------------------
(* Alias classes and lifetime candidates                                   *)

CopyFlow(g) == LET e == {x \in EdgesOf(g, "DataFlow") : {x[1], x[2]} \subseteq NodesOfKind(g, "Copy")}
               IN  e \cup {<<x[2], x[1]>> : x \in e}

MayAlias(g, a, b) == b \in Reach({a}, CopyFlow(g))

FreeApis == {"free", "heapfree", "localfree", "globalfree", "rtlfreeheap", "virtualfree", "operator delete", "kfree", "g_free"}

\* The values that flow into a call, the one joined last first: that one is taken for the pointer.
CopiesInto(g, c) == OfKind(g, In(g, c, "DataFlow"), "Copy")

FreeSites(g) ==
    InOrder({c \in NodesOfKind(g, "CallSite") : Has(g.nodes[c].api, FreeApis) /\ CopiesInto(g, c) # <<>>})

\* A lifetime chain of two calls.
LifetimeChain(g, template, a, b) ==
    [template |-> template, source |-> g.nodes[a].va, from |-> FunctionOf(g, a), sink |-> g.nodes[b].va, in |-> FunctionOf(g, b)]

DoubleFrees(g) ==
    LET frees == FreeSites(g)
        Later(i) == [k \in 1..(Len(frees) - i) |-> frees[i + k]]
        Alias(a, b) == MayAlias(g, CopiesInto(g, a)[1], CopiesInto(g, b)[1])
    IN  FlattenSeq([i \in DOMAIN frees |-> Pairs(Later(i), LAMBDA b :
            IF Alias(frees[i], b) THEN <<LifetimeChain(g, "double_free_candidate", frees[i], b)>> ELSE <<>>)])

\* At most one use is reported for a free: the first call that takes an alias, before it or after it.
UsesAfterFree(g) ==
    LET uses(a) == {c \in NodesOfKind(g, "CallSite") :
                      /\ ~Has(g.nodes[c].api, FreeApis)
                      /\ \E n \in Range(CopiesInto(g, c)) : MayAlias(g, n, CopiesInto(g, a)[1])}
    IN  Pairs(FreeSites(g), LAMBDA a :
            IF uses(a) = {} THEN <<>> ELSE <<LifetimeChain(g, "uaf_candidate", a, Min(uses(a)))>>)

-----------------------------------------------------------------------------
(* Reference definitions                                                   *)

\* What a function's summary must be: its own and that of everything it calls.
ReferenceSummary(g, f) ==
    LET all == {OwnSummary(g, h) : h \in Reach({f}, EdgesOf(g, "Calls"))}
    IN  [in |-> UNION {s.in : s \in all}, out |-> UNION {s.out : s \in all}, sinks |-> UNION {s.sinks : s \in all}]

\* The functions reached from those that hold source s by k calls to functions that take taint.
CallLevels(g, sums, s) ==
    LET holds == {f \in NodesOfKind(g, "Function") :
                    \E n \in {f} \cup Range(Out(g, f, "ControlFlow")) : n \in Reach({s}, EdgesOf(g, "DataFlow"))}
        L[k \in 0..Cardinality(NodesOfKind(g, "Function"))] ==
            IF k = 0 THEN holds
            ELSE LET l == L[k - 1] IN {c \in UNION {Range(Out(g, f, "Calls")) : f \in l} : Accepts(sums[c])}
    IN  L

\* The Calls edges crossed on the shortest way of source s to node n, a function or a
\* sink in the summary of one, as a set with at most one element.
CallsCrossed(g, sums, s, n) ==
    LET L == CallLevels(g, sums, s)
        at(f) == {k \in DOMAIN L \ {0} : f \in L[k]}
        via == IF g.nodes[n].kind = "Function" THEN at(n)
               ELSE IF ByVa(g, "Sink", g.nodes[n].va) # <<n>> THEN {}
               ELSE UNION {at(f) : f \in {h \in NodesOfKind(g, "Function") :
                                              \E x \in sums[h].sinks : x[2] = g.nodes[n].va}}
    IN  IF via = {} THEN {} ELSE {Min(via)}

\* The hop count of the mark of source s at node n: a sink's has one more than the
\* calls crossed, for the step from the function's summary to the sink.
ReferenceHop(g, sums, s, n) ==
    {k + (IF g.nodes[n].kind = "Sink" THEN 1 ELSE 0) : k \in CallsCrossed(g, sums, s, n)}

\* The blocks of f on a way from its entry to the block of a site.
OnTheWay(g, f, va) ==
    LET back == {<<e[2], e[1]>> : e \in Flow(g, f)}
    IN  Reach(Range(BlockByVa(g, f, f)), Flow(g, f)) \cap Reach(BlockForSite(g, f, va), back)
=============================================================================
