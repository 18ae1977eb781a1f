----------------------------- MODULE MCAnalyses -----------------------------
(* Small tables, given to what draws conclusions from them; then the passes  *)
(* over a program and the reports about it, all families in one run.         *)
EXTENDS MCImages, MCProgram, Bench

-----------------------------------------------------------------------------
(* Up to three raw records of two processes, one without a schema, some of    *)
(* which find the channel full or are left in it, collected, reported and     *)
(* stored after an earlier run in the same file; and JSON values.             *)

TrPatterns ==
    [runkey |-> {"run_key"}, tempfile |-> {"temp"}, plain |-> {}, svckey |-> {"services"}, task |-> {"tasks", "temp"},
     svcfull |-> {"services", "imagepath", "defender"}, cookies |-> {"browser"}, ImagePath |-> {"imagepath"}]
TrHas(text, pattern) == pattern \in TrPatterns[text]
TrService(text) == text
TrTool(image) == image = "whoami"
Tr == INSTANCE TraceAnalysis WITH EpochTicks <- 2, TickNs <- 3, MaxTime <- 10, PidSize <- 4,
        HasPattern <- TrHas, ServiceName <- TrService, DiscoveryTool <- TrTool,
        EvidenceCap <- 3, RefCap <- 1, StoreRefCap <- 1, TopCap <- 3

TrRec(tid, provider, pid, raw, opcode, fields) ==
    [provider |-> provider, pid |-> pid, tid |-> tid, raw |-> raw, opcode |-> opcode, fields |-> fields, schema |-> tid # 16]
TrRecords ==
    {TrRec(1, "file", 1, 5, 37, "OpenPath" :> "tempfile"), TrRec(2, "file", 1, 8, 37, "FileName" :> "plain" @@ "IoSize" :> "4"),
     TrRec(3, "file", 1, 1, 37, "FilePath" :> "task"), TrRec(4, "file", 1, 3, 36, "OpenPath" :> "cookies"),
     TrRec(5, "file", 1, 3, 37, "OpenPath" :> "" @@ "FileName" :> "tempfile"),
     TrRec(6, "network", 1, 4, 10, "daddr" :> "peer"), TrRec(7, "network", 2, 5, 12, <<>>), TrRec(8, "network", 1, 3, 16, <<>>),
     TrRec(9, "registry", 1, 5, 14, "KeyName" :> "svckey" @@ "ValueName" :> "ImagePath"),
     TrRec(10, "registry", 1, 3, 14, "KeyName" :> "svcfull" @@ "ValueName" :> ""), TrRec(11, "registry", 2, 3, 10, "ValueName" :> "runkey"),
     TrRec(12, "process", 1, 3, 1, "ImageName" :> "whoami"), TrRec(13, "image", 1, 3, 10, "FileName" :> "plain"),
     TrRec(14, "dns", 1, 3, 0, "DnsServer" :> "peer"), TrRec(15, "file", 1, 3, 37, "OpenPath" :> "tempfile"),
     TrRec(16, "network", 1, 4, 10, "daddr" :> "peer")}
TraceInputs ==
    {[records |-> s, full |-> f[1], left |-> f[2], filter |-> p] :
        s \in BoundedSeq(TrRecords, 2) \cup {<<a, b, c>> : a \in TrRecords, b, c \in {r \in TrRecords : r.tid \in {1, 3, 6, 9}}},
        f \in ((SUBSET {1, 3}) \X {0}) \cup {<<{}, 1>>}, p \in {Tr!None, Tr!Some(1)}}
TraceStep ==
    Compute("trace", LAMBDA x :
        LET earlier == Tr!Collect(Reverse(x.records), [run_id |-> "earlier", filter |-> Tr!None], {})
            sent == Tr!Collect(x.records, [run_id |-> "now", filter |-> x.filter], x.full)
            now == Tr!Drain(sent, Len(sent.events) - x.left)
        IN  [sent |-> sent, collected |-> now, report |-> Tr!EmitAll(now.events, now.drops),
             store |-> Tr!StoreRun(Tr!StoreRun(Tr!EmptyStore, earlier.events), now.events),
             edges |-> Tr!StoreEdges(Tr!EmptyStore, now.events).edges])

TrEvents == result.of.collected.events
RawOf(ev) == (CHOOSE r \in TrRecords : r.tid = ev.tid).raw

\* The events sent are those of the records that say something and found room; their
\* ids grow, and exactly as many are missing as the channel dropped: a record
\* that is filtered out, says nothing or has no schema takes no id.
IdsCountLosses ==
    Done("trace") =>
        Tr!CollectedTruly(result.of.sent, input.records, [run_id |-> "now", filter |-> input.filter], input.full)

\* Of two events the one with the earlier clock has no later time, at either
\* end of the range too.
TimesKeepOrder ==
    Done("trace") =>
        \A i, j \in DOMAIN TrEvents : RawOf(TrEvents[i]) <= RawOf(TrEvents[j]) => TrEvents[i].ts_ns <= TrEvents[j].ts_ns

\* The pack says that no outbound activity was observed only of what the session took
\* in: an event the channel dropped is never passed over, but a record without a schema
\* and an event left in the channel at the end are.
SilenceIsEarned ==
    Done("trace") =>
        Tr!SilenceEarned(result.of.report.summary, input.records, [run_id |-> "now", filter |-> input.filter], Len(TrEvents))

\* Refuted by both.
SilenceIsAlwaysEarned ==
    Done("trace") /\ result.of.report.summary.network = "none observed" =>
        \A i \in DOMAIN input.records : ~Tr!Outbound(input.records[i], [run_id |-> "now", filter |-> input.filter])

\* The events a fact cites make the same fact on their own (exfiltration aside
\* when its evidence was cut).
EvidenceSuffices ==
    Done("trace") =>
        \A i \in DOMAIN result.of.report.facts :
            LET f == result.of.report.facts[i]
                cited == SelectSeq(TrEvents, LAMBDA ev : \E k \in DOMAIN f.evidence : f.evidence[k] = ev.event_id)
                again == Tr!ExtractFacts(cited, 0)
            IN  \/ f.category = "exfil_staging" /\ Len(f.evidence) = 3
                \/ \E k \in DOMAIN again : again[k].category = f.category /\ again[k].score = f.score /\
                                           {again[k].evidence[j] : j \in DOMAIN again[k].evidence} = {f.evidence[j] : j \in DOMAIN f.evidence}

\* The events that facts cite come before all others in the pack.
CitedComeFirst ==
    Done("trace") =>
        LET top == result.of.report.top_events
            cited(id) == Tr!FactRefs(result.of.report.facts, id) > 0
        IN  \A i, j \in DOMAIN top : i < j /\ cited(top[j]) => cited(top[i])

\* An edge of the graph counts the events between its two entities and spans
\* their times, in whatever order they arrived.
EdgesSpanTheirEvents ==
    Done("trace") =>
        \A key \in DOMAIN result.of.report.edges :
            LET e == result.of.report.edges[key]
                of == {i \in DOMAIN TrEvents : TrEvents[i].object # <<>> /\ Tr!EdgeKey(TrEvents[i]) = key}
                times == {TrEvents[i].ts_ns : i \in of}
            IN  /\ e.count = Cardinality(of) /\ e.first = Min(times) /\ e.last = Max(times)
                /\ {key[1], key[2]} \subseteq result.of.report.nodes

\* In the store, the rows of this run are its events, though ids start over
\* and an earlier run's rows may be there.
StoreKeepsThisRun ==
    Done("trace") =>
        {ev \in Range(result.of.store.events) : ev.run_id = "now"} = Range(TrEvents)

\* For events that arrive in the order of their times, the edges of the store
\* are those of the graph.
StoreEdgesAgree ==
    Done("trace") /\ (\A i, j \in DOMAIN TrEvents : i < j => TrEvents[i].ts_ns <= TrEvents[j].ts_ns) =>
        /\ DOMAIN result.of.edges = DOMAIN result.of.report.edges
        /\ \A key \in DOMAIN result.of.edges :
            LET s == result.of.edges[key]
                g == result.of.report.edges[key]
            IN  <<s.first, s.last, s.count>> = <<g.first, g.last, g.count>>

-----------------------------------------------------------------------------
TrOwn == [event_id |-> 1, run_id |-> "other", ts_ns |-> 9, pid |-> 3, tid |-> 0, type |-> <<"dns", "query">>]
TrValue(own, parses, type, pid, ts, subject) ==
    [own |-> own, parses |-> parses, type |-> type, pid |-> pid, tid |-> 0, ts |-> ts, subject |-> subject, object |-> Tr!None, args |-> <<>>]
TrValues ==
    {TrValue(Tr!Some(TrOwn), p, <<"dns", "query">>, Tr!None, Tr!None, Tr!None) : p \in BOOLEAN} \cup
    {TrValue(Tr!None, TRUE, type, pid, ts, s) :
        type \in {<<"file", "open">>, <<"file", "load">>}, pid \in {Tr!None, Tr!Some(1), Tr!Some(5)}, ts \in {Tr!None, Tr!Some(4)},
        s \in {Tr!None, Tr!Some(Tr!Process(1, ""))}}
JsonInputs == BoundedSeq({v \in TrValues : Cardinality({f \in {"pid", "ts", "subject"} : v[f] = Tr!None}) # 2}, 3)
JsonStep ==
    Compute("trace_json", LAMBDA values :
        FoldLeft(LAMBDA t, v :
            LET n == Tr!NormalizeJsonl(t.counter, v, [run_id |-> "now", filter |-> Tr!None])
            IN  [counter |-> n.counter, events |-> t.events \o n.event], [counter |-> 0, events |-> <<>>], values))

\* JSON values that the tracer numbers itself get 1, 2, 3 and so on, whatever
\* values with ids of their own or without an event come between them; no
\* value is lost that has a known type, a process, a time and a subject.
JsonIdsAreNew ==
    Done("trace_json") =>
        LET numbered == SelectSeq(result.of.events, LAMBDA ev : ev.run_id = "now")
            whole == SelectSeq(input, LAMBDA v : v.own = Tr!None /\ v.type = <<"file", "open">> /\ v.pid # Tr!None /\ v.ts # Tr!None /\ v.subject # Tr!None)
        IN  /\ Tr!Ids(numbered) = [i \in DOMAIN whole |-> i]
            /\ \A i \in DOMAIN numbered : numbered[i].pid = whole[i].pid[1] % 4

-----------------------------------------------------------------------------
(* The evidence graph of the vulnerability search: three functions that call  *)
(* each other in every way, with sources, sinks, guards and values.           *)

Contained ==
    [a \in {"recv", "fread", "ntreadfile", "memcpy", "malloc", "printf", "vsprintf", "vfprintf", "__stdio_common_vfprintf",
            "unlink", "open", "rename", "accesscheck", "virtualprotect", "mutex_lock", "free", "puts",
            "int32_t", "void", "heap", "pointer"} |->
        CASE a = "ntreadfile" -> {"readfile", "ntreadfile"}
          [] a = "vsprintf" -> {"printf", "sprintf", "vsprintf"}
          [] a = "vfprintf" -> {"printf", "fprintf", "vfprintf"}
          [] a = "__stdio_common_vfprintf" -> {"printf", "fprintf", "vfprintf", "__stdio_common_vfprintf"}
          [] a = "int32_t" -> {"int", "int32"}
          [] a \in {"puts", "void"} -> {}
          [] OTHER -> {a}]

V == INSTANCE VulnGraph WITH Window <- 3, Normal <- [v \in {"", "p", "P", "n"} |-> IF v = "P" THEN "p" ELSE v]

Fn(start, calls, imports) == [start |-> start, end |-> start + 10, calls |-> calls, imports |-> imports]

\* f = 10 reads input, g = 20 and h = 30 are called, back or in a chain; h may forward to a sink.
CallTables == {<<Fn(10, a, <<>>), Fn(20, b, <<>>), Fn(30, c, i)>>
    : a \in {<<>>, <<20>>, <<20, 30>>}, b \in {<<>>, <<30>>, <<30, 10>>}, c \in {<<>>, <<10>>},
      i \in {<<>>, <<"__stdio_common_vfprintf">>}}

Chain3 == <<Fn(10, <<20>>, <<>>), Fn(20, <<30>>, <<>>), Fn(30, <<10>>, <<"__stdio_common_vfprintf">>)>>

Arg(f, at, api, index, val) ==
    [function |-> f, callsite |-> at, api |-> api, index |-> index, named |-> FALSE, value |-> val]
Flow(f, at, api) == Arg(f, at, api, -1, "")

\* A call with two arguments has two records, and so two nodes.
FlowTables == {
    <<Flow(10, 12, "recv")>>,
    <<Flow(10, 12, "recv"), Flow(10, 14, "vfprintf"), Arg(20, 24, "memcpy", 1, "p"), Arg(20, 24, "memcpy", 2, "n")>>,
    <<Flow(30, 32, "memcpy"), Flow(20, 24, "fread"), Flow(10, 12, "recv"), Flow(20, 26, "malloc")>>,
    <<Flow(10, 12, "ntreadfile"), Arg(20, 22, "open", 0, "p"), Flow(20, 26, "accesscheck"), Arg(20, 28, "rename", 1, "P")>>,
    <<Flow(10, 12, "recv"), Flow(20, 21, "mutex_lock"), Arg(20, 22, "open", 0, "p"), Arg(20, 28, "unlink", 0, "p")>>,
    <<Flow(10, 12, "recv"), Flow(20, 22, "free"), Flow(20, 26, "free"), Flow(20, 28, "virtualprotect")>> }

Ssa(id, f, at) == [id |-> id, function |-> f, site |-> at, storage |-> "rcx"]
Values3 == <<Ssa("a", 10, 13), Ssa("b", 20, 23), Ssa("c", 20, 27)>>
ValueTables == {<< <<>>, <<>> >>} \cup ({Values3} \X {<< <<"b", "c">> >>, << <<"c", "b">>, <<"a", "c">> >>})

\* A diamond cut short, a loop, and a branch both of whose ways lead to one block.
CfgBlocks == <<[start |-> 20, end |-> 23], [start |-> 23, end |-> 25], [start |-> 25, end |-> 30]>>
CfgTables == {
    <<>>,
    <<[function |-> 20, blocks |-> CfgBlocks, edges |-> << <<20, 23>>, <<20, 25>>, <<23, 25>> >>]>>,
    <<[function |-> 20, blocks |-> CfgBlocks, edges |-> << <<20, 23>>, <<23, 20>> >>]>>,
    <<[function |-> 20, blocks |-> CfgBlocks, edges |-> << <<20, 23>>, <<23, 25>>, <<23, 25>> >>]>> }

XrefTables == {
    <<>>,
    <<[kind |-> "code", role |-> "call", from |-> 18, target |-> 30, symbol |-> "none"],
      [kind |-> "data", role |-> "other", from |-> 10, target |-> 20, symbol |-> "none"],
      [kind |-> "import", role |-> "call", from |-> 20, target |-> 0, symbol |-> "vsprintf"]>> }

VulnInputs ==
    {[functions |-> c, cfgs |-> g, xrefs |-> x, ssa |-> s, dataflow |-> d, flows |-> f,
      values |-> <<[id |-> "a", type |-> "int32_t", site |-> 13], [id |-> "b", type |-> "void", site |-> 23]>>,
      vsa |-> <<[type |-> "heap", bracket |-> TRUE, site |-> 13], [type |-> "pointer", bracket |-> FALSE, site |-> 23],
                [type |-> "void", bracket |-> FALSE, site |-> 27]>>,
      attack |-> <<[tag |-> "attack", vas |-> <<20, 21>>]>>, dossiers |-> <<[tag |-> "behavior", vas |-> <<10>>]>>,
      imports |-> <<20, 40>>]
     : <<c, g, x>> \in (CallTables \X {<<>>} \X {<<>>}) \cup ({Chain3} \X CfgTables \X XrefTables),
       <<s, d>> \in ValueTables, f \in FlowTables}

VulnBuild ==
    /\ At("vuln_graph", "start")
    /\ LET g == V!BuildGraph(input)
       IN  result' = [stage |-> "taint", graph |-> g, sums |-> V!ComputeSummaries(g),
                      taint |-> V!PropagateIntra(g), round |-> 0]
    /\ UNCHANGED <<family, input>>

\* The code stops at the first round that changes nothing, or after node_count rounds.
VulnRound ==
    /\ At("vuln_graph", "taint")
    /\ LET next == V!PropagateRound(result.graph, result.sums, result.taint)
           last == next = result.taint \/ result.round + 1 = Len(result.graph.nodes)
       IN  result' = [result EXCEPT !.taint = next, !.round = @ + 1, !.stage = IF last THEN "chains" ELSE "taint"]
    /\ UNCHANGED <<family, input>>

VulnChains ==
    /\ At("vuln_graph", "chains")
    /\ result' = [stage |-> "done", graph |-> result.graph, sums |-> result.sums, taint |-> result.taint,
                  chains |-> V!DiscoverChains(result.graph, result.taint),
                  doubleFrees |-> V!DoubleFrees(result.graph), uses |-> V!UsesAfterFree(result.graph)]
    /\ UNCHANGED <<family, input>>

\* compute_summaries: when its rounds are over, a function's summary is the union
\* of its own and of everything it calls, whatever the order of the call edges. It
\* is what the code computes; the comment at call_summaries.rs:44-56 describes another
\* one, all of whose bits are TRUE and which has no fixpoint yet (BitsAreAllTrue).
SummariesAreUnions ==
    Done("vuln_graph") => \A f \in DOMAIN result.sums : result.sums[f] = V!ReferenceSummary(result.graph, f)

\* The marks of source s at node n that a summary left.
HopsTo(s, n) ==
    {result.taint[n][i].hop : i \in {j \in DOMAIN result.taint[n] :
         result.taint[n][j].source = s /\ result.taint[n][j].mode = "Summary"}}

\* propagate_interprocedural: when it stops, a function or a sink is marked for a
\* source exactly when calls lead to it, and the hop count is that of the
\* shortest way, although marks are moved in the order of the nodes: the Calls edges
\* crossed for a function, and one more than these for a sink (taint.rs:206-213).
TaintIsShortest ==
    Done("vuln_graph") => \A s \in V!Sources(result.graph), n \in V!NodesOfKind(result.graph, "Function")
                                                       \cup V!NodesOfKind(result.graph, "Sink") :
        HopsTo(s, n) = V!ReferenceHop(result.graph, result.sums, s, n)

\* What taint.rs:43 says of hop_count, and the code refutes at sinks: it is the
\* number of Calls edges crossed from the source to the node, whatever the node is.
HopsAreCalls ==
    Done("vuln_graph") => \A s \in V!Sources(result.graph), n \in V!NodesOfKind(result.graph, "Function")
                                                       \cup V!NodesOfKind(result.graph, "Sink") :
        HopsTo(s, n) = V!CallsCrossed(result.graph, result.sums, s, n)

\* What call_summaries.rs:44-49 says of the bits, and the code refutes: "marked
\* uniformly TRUE", that is, every function takes taint and hands it on.
BitsAreAllTrue ==
    Done("vuln_graph") => \A f \in DOMAIN result.sums : result.sums[f].in # {} /\ result.sums[f].out # {}

\* discover_chains: a template that wants no dominating guard fires only at a sink
\* that straight-line code leads to: no block on a way to it has two successors.
UnguardedSinkIsStraightLine ==
    Done("vuln_graph") => \A i \in DOMAIN result.chains :
        LET c == result.chains[i]
        IN  c.template \in {"unchecked_copy_length", "tainted_allocation_size", "missing_caller_validation", "path_traversal_to_file_op"} =>
                \A b \in V!OnTheWay(result.graph, c.in, c.sink) :
                    Cardinality({e \in V!Flow(result.graph, c.in) : e[1] = b}) <= 1

-----------------------------------------------------------------------------
(* Symbol rows and the entity graph built on them: two functions that may     *)
(* overlap, symbols and lines that are empty, nested or at the last address.  *)

L == INSTANCE Reports WITH
    NameKeys <- [l \in {"m", "f.c", "g.c", "Foo", "ns::Foo", "foo", "T"} |->
        CASE l = "ns::Foo" -> {"ns::Foo", "ns::foo", "Foo", "foo"} [] l = "Foo" -> {"Foo", "foo"}
          [] l = "T" -> {"T", "t"} [] OTHER -> {l}],
    Lower <- [k \in {"Foo", "foo", "ns::Foo", "ns::foo", "T", "t", "m", "f.c", "g.c"} |->
        CASE k = "Foo" -> "foo" [] k = "ns::Foo" -> "ns::foo" [] k = "T" -> "t" [] OTHER -> k],
    MaxLines <- 2, MaxHits <- 2, MaxNearby <- 1, MaxContext <- 2,
    StringCap <- 2, ShownCap <- 1, Comma <- 0,
    SafeName <- [s \in {"rax", "RAX", "stack[+8]", "stack[-8]"} |->
        CASE s \in {"rax", "RAX"} -> "rax" [] OTHER -> "stack__8_"],
    TopVa <- 12, MaxSources <- 1, MaxPacks <- 1, MaxVulnPacks <- 1

Symbol(id, name, rva, end, fn) == [id |-> id, module |-> "m", name |-> name, rva |-> rva, end |-> end, function |-> fn]
Line(id, rva, end, file, line) == [id |-> id, rva |-> rva, end |-> end, file |-> file, line |-> line]

SymbolTables == {
    <<Symbol(1, "ns::Foo", a, b, TRUE), Symbol(2, "foo", c, d, g), Symbol(3, "Foo", 6, 9, TRUE)>>
    : <<a, b>> \in {<<0, 4>>, <<3, 3>>, <<3, 9>>}, <<c, d>> \in {<<1, 3>>, <<8, 8>>}, g \in BOOLEAN}

LineTables == {
    <<>>,
    <<Line(1, 2, 4, "f.c", 10), Line(2, 0, 2, "g.c", 90), Line(3, 3, 9, "f.c", 12)>>,
    <<Line(1, 2, 2, "unknown", 7), Line(2, 2, 4, "f.c", 3)>> }

DebugTables == {
    [modules |-> <<[id |-> "m", base |-> base, entry |-> 0]>>, files |-> <<"f.c", "g.c">>, symbols |-> s, lines |-> l,
     scopes |-> <<[id |-> 1, name |-> "Foo", rva |-> 2, end |-> 3, file |-> "f.c", line |-> 10]>>,
     types |-> <<"T", "Foo">>, uncertainties |-> <<[id |-> 1, module |-> "m"]>>]
    : base \in {0, 4}, s \in SymbolTables, l \in LineTables}

Cfg(f, blocks, edges) == [function |-> f, blocks |-> blocks, edges |-> edges]
Block(a, b) == [start |-> a, end |-> b]
Fact(kind, id, f, site) == [kind |-> kind, id |-> id, function |-> f, site |-> site]

CodeTables == {
    [functions |-> fs, cfgs |-> cs, ir |-> <<4, 5, 7, 8, 9>>,
     imports |-> <<[symbol |-> "open", va |-> 11], [symbol |-> "open", va |-> 12]>>, strings |-> <<10, 10>>,
     xrefs |-> <<[from |-> 4, target |-> 11, symbol |-> "open"], [from |-> 7, target |-> 10, symbol |-> "none"],
                 [from |-> 8, target |-> 10, symbol |-> "none"]>>,
     calls |-> <<[caller |-> 4, callee |-> 7, import |-> "open", site |-> 5], [caller |-> 7, callee |-> 7, import |-> "none", site |-> 8]>>,
     ssa |-> <<[id |-> "a", function |-> 4, storage |-> "rax", site |-> 4], [id |-> "b", function |-> 4, storage |-> "RAX", site |-> 5],
               [id |-> "a", function |-> 7, storage |-> "stack[-8]", site |-> 7], [id |-> "c", function |-> 7, storage |-> "stack[+8]", site |-> 8]>>,
     dataflow |-> <<(<<"a", "b">>), (<<"b", "z">>)>>,
     hints |-> <<[id |-> 1, function |-> 4, storage |-> "rax", site |-> 4]>>,
     facts |-> <<Fact("api_flow", 1, 4, 5), Fact("vuln_lead", 1, -1, 5), Fact("vuln_lead", 2, 7, 8), Fact("uncertainty", 1, 4, 4),
                 Fact("uncertainty", 2, 99, 99)>>,
     loops |-> <<[function |-> 4, order |-> {4, 6}, from |-> 6, to |-> 5]>>,
     dossiers |-> <<[function |-> 4, score |-> s], [function |-> 7, score |-> 2]>>]
    : fs \in { <<[start |-> 4, end |-> 7], [start |-> 7, end |-> 10]>>, <<[start |-> 4, end |-> 9], [start |-> 7, end |-> 10]>>,
               <<[start |-> 7, end |-> 10], [start |-> 4, end |-> 9]>> },
      cs \in { <<Cfg(4, <<Block(4, 6), Block(6, 6), Block(6, 7)>>, <<(<<5, 6>>), (<<6, 4>>)>>), Cfg(7, <<Block(7, 10)>>, <<>>)>>,
               <<Cfg(7, <<Block(7, 8), Block(9, 9)>>, <<(<<7, 9>>)>>), Cfg(4, <<Block(4, 9), Block(6, 9)>>, <<(<<4, 6>>)>>)>> },
      s \in {1, 3} }

LlmInputs == [debug : DebugTables, code : CodeTables]

GraphTables(in, rows) ==
    in.code @@ [modules |-> in.debug.modules, symbols |-> in.debug.symbols, files |-> in.debug.files,
                lines |-> in.debug.lines, graph |-> rows]

LlmCompute ==
    /\ At("llm_graph", "start")
    /\ LET rows == L!BuildSymbolGraph(input.debug)
           t    == GraphTables(input, rows)
       IN  result' = [stage |-> "done", rows |-> rows, packets |-> L!BuildPackets(rows, 2),
                      graph |-> L!WriteLlmArtifacts(t, "top"), hits |-> [va \in 0..9 |-> L!AddressHits(rows, va)]]
    /\ UNCHANGED <<family, input>>

LlmNode(id) == {n \in Range(result.graph.nodes) : n.id = id}
LlmEdges(kinds) == {e \in Range(result.graph.edges) : e.kind \in kinds}

\* most_specific_address_hits: a range that lies inside another one and holds the
\* address too is named before it, and is not what the limit on hits cuts off.
InnermostFirst ==
    Done("llm_graph") => \A va \in DOMAIN result.hits : \A k \in DOMAIN result.hits[va] : \A i \in L!AddressIndex(result.rows) :
        LET out == result.rows[result.hits[va][k]]
            in  == result.rows[i]
        IN  (in.rva <= va /\ va < in.end /\ out.rva <= in.rva /\ in.end <= out.end /\ in.end - in.rva < out.end - out.rva)
                => \E j \in 1..(k - 1) : result.hits[va][j] = i

\* build_packets and query_symbol_packet: the function a packet was written for is
\* among what a query for its name finds when the rows are read back.
PacketsAnswerable ==
    Done("llm_graph") => \A p \in Range(result.packets) :
        p.exact[1] \in Range(L!QueryName(result.rows, result.rows[p.exact[1]].label).exact)

\* build_edges: an edge that says a block holds an instruction, or a function a
\* symbol or a line, is true of their addresses, and both ends are of one function.
ContainmentIsTrue ==
    Done("llm_graph") =>
        /\ \A e \in LlmEdges({"contains"}) : \A n \in LlmNode(e.to), m \in LlmNode(e.from) :
               /\ n.function = m.function
               /\ m.kind = "block" => \E c \in Range(input.code.cfgs) : c.function = m.function /\
                      \E b \in Range(c.blocks) : b.start = m.va /\ n.va \in b.start..Max({b.start, b.end - 1})
        /\ \A e \in LlmEdges({"resolves_symbol", "has_source_line"}) :
               LET f == CHOOSE g \in Range(input.code.functions) : L!FunctionId(g.start) = e.from
                   r == IF e.kind = "resolves_symbol" THEN CHOOSE s \in Range(input.debug.symbols) : <<"symbol", s.id>> = e.to
                        ELSE CHOOSE l \in Range(input.debug.lines) : <<"line", l.id>> = e.to
                   base == input.debug.modules[1].base
               IN  f.start..(f.end - 1) \cap ((base + r.rva)..(base + Max({r.end, r.rva + 1}) - 1)) # {}

\* build_nodes, build_edges: a function or an import that a row names is joined to
\* it when it is in the tables, and a reference without a symbol to the string at
\* its target exactly when there is one, whatever ids other rows took before.
RowsAreJoined ==
    Done("llm_graph") =>
        /\ \A r \in {x \in Range(input.code.facts) : \E f \in Range(input.code.functions) : f.start = x.function} :
               \E e \in LlmEdges({r.kind}) : e.from = L!FunctionId(r.function) /\ e.to = <<r.kind, r.id>>
        /\ \A x \in {y \in Range(input.code.xrefs) : y.symbol # "none" /\ y.from \in Range(input.code.ir)} :
               \E e \in LlmEdges({"xref"}), i \in DOMAIN input.code.imports :
                   e.from = L!OpId(x.from) /\ e.to = <<"import", i>> /\ input.code.imports[i].symbol = x.symbol
        /\ \A x \in {y \in Range(input.code.xrefs) : y.symbol = "none" /\ y.from \in Range(input.code.ir)} :
               (\E e \in LlmEdges({"xref"}) : e.from = L!OpId(x.from) /\ e.to = <<"string", x.target>>)
                   <=> x.target \in Range(input.code.strings)
        /\ \A s \in Range(input.debug.symbols), f \in Range(input.code.functions) :
               (input.debug.modules[1].base + s.rva \in f.start..(f.end - 1)) =>
                   \E e \in LlmEdges({"resolves_symbol"}) : e.from = L!FunctionId(f.start) /\ e.to = <<"symbol", s.id>>
        /\ \A i, j \in DOMAIN result.graph.nodes : result.graph.nodes[i].id = result.graph.nodes[j].id => i = j

-----------------------------------------------------------------------------
(* Two runs whose tables are there, missing, unreadable or partly broken.     *)

DfRow(text) == [parses |-> TRUE, text |-> text]
DfTable(rows) == [state |-> "there", rows |-> rows]
DfGone == [state |-> "missing", rows |-> <<>>]
DfRun(d, i, s, c) == [analysis |-> "there", dossiers |-> d, imports |-> i, strings |-> s, capabilities |-> c]
DfAlone(run) == [run |-> run, subdirs |-> <<>>]

DossierRows ==
    {[parses |-> TRUE, va |-> va, size |-> 1, imports |-> <<>>, strings |-> s] :
        va \in 1..2, s \in {<<>>, <<<<2>>, <<1>>>>}} \cup
    {[parses |-> TRUE, va |-> va, size |-> 1, imports |-> <<>>, strings |-> <<<<1, 0, 2>>>>] : va \in {2, -1}} \cup
    {[parses |-> FALSE, va |-> 2, size |-> 0, imports |-> <<>>, strings |-> <<>>]}
DossierTables == {DfTable(t) : t \in BoundedSeq(DossierRows, 2)} \cup {DfGone}
TextTables ==
    {DfTable([i \in DOMAIN t |-> DfRow(t[i])]) : t \in BoundedSeq({<<1>>, <<2>>, <<3>>, <<1, 0>>}, 2)} \cup
    {DfGone, [state |-> "unreadable", rows |-> <<>>], DfTable(<<DfRow(<<1>>), [parses |-> FALSE, text |-> <<2>>]>>),
     DfTable(<<DfRow(<<3>>), DfRow(<<1>>), DfRow(<<2>>)>>)}
CapabilityLists ==
    BoundedSeq({[name |-> n, status |-> s] : n \in {"solve", "fuzz"}, s \in {"executed", "planned"}}, 2)

DfSides ==
    {<<DfRun(a, DfGone, DfGone, <<>>), DfRun(b, DfGone, DfGone, <<>>)>> : a, b \in DossierTables} \cup
    {<<DfRun(DfGone, DfGone, a, <<>>), DfRun(DfGone, DfGone, b, <<>>)>> : a, b \in TextTables} \cup
    {<<DfRun(DfGone, a, DfGone, c), DfRun(DfGone, DfGone, DfGone, d)>> : a \in {DfGone, DfTable(<<DfRow(<<1>>), DfRow(<<1>>)>>)}, c, d \in CapabilityLists}
DiffInputs ==
    {[left |-> DfAlone(s[1]), right |-> DfAlone(s[2])] : s \in DfSides} \cup
    {[left |-> [run |-> own, subdirs |-> subs], right |-> DfAlone(DfRun(DfGone, DfGone, DfGone, <<>>))] :
        own \in {L!NoRun, [analysis |-> "unreadable"], DfRun(DfGone, DfGone, DfTable(<<DfRow(<<1>>)>>), <<>>)},
        subs \in BoundedSeq({L!NoRun, [analysis |-> "unreadable"], DfRun(DfGone, DfGone, DfTable(<<DfRow(<<2>>)>>), <<>>)}, 2)}

DiffStep ==
    Compute("diff", LAMBDA x :
        LET report == L!RunDiff(x.left, x.right)
        IN  [left |-> L!LoadSide(x.left), right |-> L!LoadSide(x.right), report |-> report,
             text |-> IF report.ok THEN L!RenderMd(report) ELSE <<>>])

\* The report turns the left functions into the right ones: taking away what
\* it calls removed or modified and putting in what it calls added, and what
\* the modified ones became, gives the fingerprints of the right side; each
\* fingerprint of the left is counted once.
DiffTransforms ==
    Done("diff") /\ result.of.report.ok =>
        LET r == result.of.report
            left == L!Fingerprints(result.of.left.functions)
            right == L!Fingerprints(result.of.right.functions)
            gone == {f.fp : f \in r.removed} \cup {m.from : m \in r.modified}
        IN  /\ (left \ gone) \cup {f.fp : f \in r.added} \cup {m.to : m \in r.modified} = right
            /\ Cardinality(r.removed) + Cardinality(r.modified) + r.unchanged = Cardinality(left)
            /\ \A c \in result.of.text.rows : c[2] > 0

\* What diff.rs:133 says of the lists, and the code refutes: no modified function
\* "shows up in both lists". What is compared is the text "from -> to" of the
\* modified ones, which no added one has, so that nothing is taken out (RetainAdded).
ModifiedIsNotAdded ==
    Done("diff") /\ result.of.report.ok =>
        {f.fp : f \in result.of.report.added} \cap {m.to : m \in result.of.report.modified} = {}

\* What the header and the counts of one report together suggest, and the code
\* refutes: each function of the left run is unchanged, removed or modified.
\* Functions that share a fingerprint are counted as one.
EveryFunctionIsCounted ==
    Done("diff") /\ result.of.report.ok =>
        LET r == result.of.report
        IN  r.unchanged + Cardinality(r.removed) + Cardinality(r.modified) = r.functions[1]

\* A report with nothing in it means two runs with the same imports, strings,
\* capabilities and function fingerprints; two such runs give an empty report.
EmptyReportMeansSame ==
    Done("diff") /\ result.of.report.ok =>
        LET r == result.of.report
            same(side) == <<side.imports, side.strings, side.capabilities, L!Fingerprints(side.functions)>>
        IN  (result.of.text.rows = {} /\ ~result.of.text.capabilities) <=> same(result.of.left) = same(result.of.right)

-----------------------------------------------------------------------------
(* Three sources that speak of up to two classes, in every order.             *)

CmField(off, score, name, sites) == [offset |-> off, size |-> [value |-> score, score |-> score], sites |-> sites, name |-> name, type |-> ""]
CmName(v, s) == IF s = -1 THEN L!NoClaim ELSE [value |-> v, score |-> s]
CmFact(c, src, score, nameScore, fields, abi) ==
    [class |-> c, source |-> src, score |-> score, demangled |-> CmName(src, nameScore), mangled |-> IF abi = "unknown" THEN "" ELSE src,
     size |-> CmName(src, score), abi |-> abi, methods |-> <<[id |-> 1, from |-> src]>>, fields |-> fields, destructors |-> {score}]
\* The score of a source and of its name, and what it knows of the fields.
CmFacts(src, scores, site) ==
    {CmFact(c, src, s, n, f, abi) :
        c \in {1, 2}, s \in scores, n \in {-1, site},
        f \in {<<>>, <<CmField(0, site, "", {site})>>, <<CmField(0, 100 - site, src, {site, 40}), CmField(8, site, "", {site})>>},
        abi \in {"unknown", src}}
CmInputsOf == {<<a, b, c>> : a \in {f \in CmFacts("pdb", {99}, 50) : f.class = 1}, b \in CmFacts("rtti", {88}, 60), c \in CmFacts("guess", {30}, 70)}
ClassInputs == {x \in CmInputsOf : x[1].abi = "unknown" \/ x[2].abi = "unknown"}
CmOrders == {p \in [1..3 -> 1..3] : Cardinality(Range(p)) = 3}
CmHints == 40 :> "handle" @@ 60 :> "string"
ClassStep ==
    Compute("classes", LAMBDA facts :
        {L!EnrichFieldTypes(L!MergeClasses([i \in 1..3 |-> facts[p[i]]]), CmHints) : p \in CmOrders})

\* Which collector runs first does not matter when no two of them are equally
\* sure: every order of the facts gives the same rows.
MergeIsOrderFree == Done("classes") => Cardinality(result.of) = 1

\* A field is in the row with every site any source saw and with the surest size;
\* of the names its sources give it, it has the one of the surest of them that
\* gives any (solver.rs:168-173). The surest source stands for the row.
SurestFactsSurvive ==
    Done("classes") =>
        \A rows \in result.of, k \in 1..3 :
            LET row == CHOOSE r \in Range(rows) : r.class = input[k].class
                peers == {j \in 1..3 : input[j].class = input[k].class}
                Names(j, g) == {f \in Range(input[j].fields) : f.offset = g.offset /\ f.name # ""}
            IN  /\ \A i \in DOMAIN input[k].fields :
                     LET f == input[k].fields[i]
                     IN  \E g \in Range(row.fields) : g.offset = f.offset /\ f.sites \subseteq g.sites /\ g.size.score >= f.size.score
                /\ \A g \in Range(row.fields) :
                     (Names(k, g) # {} /\ \A j \in peers : Names(j, g) # {} => input[j].score <= input[k].score)
                         => g.name \in {f.name : f \in Names(k, g)}
                /\ (\A j \in peers : input[j].score <= input[k].score) =>
                     row.source = input[k].source /\ row.size = input[k].size /\ row.score = input[k].score
                /\ row.demangled.score = Max({input[j].demangled.score : j \in peers})

\* What a merge that loses nothing would give, and the code does not: every name
\* a source has for a field is in the row.
EveryNameSurvives ==
    Done("classes") =>
        \A rows \in result.of, k \in 1..3 : \A f \in Range(input[k].fields) :
            f.name # "" => \E r \in Range(rows) : r.class = input[k].class /\
                              \E g \in Range(r.fields) : g.offset = f.offset /\ g.name = f.name

-----------------------------------------------------------------------------
(* The benchmark runner: five or six cases of two kinds, so that the gates    *)
(* that need five can pass; staging of two cases on every machine.            *)


Row(id, class, sink, risk, chain) ==
    [id |-> id, bug_class |-> class, kind |-> "recv", api |-> "memcpy", risk |-> risk,
     chain |-> chain, sink |-> sink, status |-> "None", sources |-> {}]
Want(class) == ExpectedFinding(class, {"recv"}, {"memcpy"})

CaseKinds ==
    {[BenchmarkCase EXCEPT !.expected = <<Want("copy")>>, !.need_packets = TRUE],
     [BenchmarkCase EXCEPT !.expected_clean = TRUE],
     [BenchmarkCase EXCEPT !.signatures = <<"fmt">>, !.expected = <<[Want("copy") EXCEPT !.missed_ok = TRUE]>>,
                             !.fp_cap = 0],
     [BenchmarkCase EXCEPT !.expected = <<[Want("copy") EXCEPT !.evidence_source = "debug_probe", !.min_rank = 1,
                                                                  !.label = "a"],
                                            [Want("fmt") EXCEPT !.duplicates = FALSE, !.label = "a"]>>,
                             !.jobs = <<DynamicJob("debug_probe", "s1")>>, !.allowed_misses = 1],
     [BenchmarkCase EXCEPT !.expected = <<[Want("copy") EXCEPT !.min_status = "reached_only"]>>,
                             !.probe = <<DynamicProbe("None")>>,
                             !.jobs = <<DynamicJob("debug_probe", "s1")>>, !.need_dynamic = TRUE]}

RowSets ==
    {<<>>,
     <<Row("F1", "copy", "s1", 1, "C1")>>,
     <<Row("F1", "copy", "s1", 1, "C1"), Row("F2", "fmt", "s2", 2, "C2")>>,
     <<Row("F1", "copy", "s1", 2, "C1"), Row("F2", "copy", "s2", 2, "C2"), Row("F3", "fmt", "s2", 1, "C3")>>}

Packet == [status |-> "None", sources |-> {}, sink |-> "s1"]
Worlds ==
    [rows : RowSets, packets : {<<>>, [id \in {"F1"} |-> Packet]},
     endings : {<<"good", "good">>, <<"slow", "good">>, <<"good", "unspawned">>},
     fails_at : {"never", "second"}, prepare : {"present"}, build : {FALSE}, unreadable : {FALSE}]
    \cup [rows : {<<>>}, packets : {<<>>}, endings : {<<"good", "good">>}, fails_at : {"static"},
          prepare : {"present", "error", "absent"}, build : BOOLEAN, unreadable : BOOLEAN]

BenchArgs ==
    [preset : {"real-5", "real-8", "real-9"}, jobs : {"off", "auto", "debug_probe"}, allow : BOOLEAN,
     build_fixtures : {FALSE}]
Good == [rows |-> <<Row("F1", "copy", "s1", 1, "C1")>>, packets |-> [id \in {"F1"} |-> Packet],
         endings |-> <<"good", "good">>, fails_at |-> "never", prepare |-> "present",
         build |-> FALSE, unreadable |-> FALSE]

\* Four cases of one good kind and one or two of any.
BenchInputs ==
    {[args |-> a, cases |-> [k \in 1..n |-> IF k <= 4 THEN b ELSE c],
      worlds |-> [k \in 1..n |-> IF k <= 4 THEN Good ELSE w], reasons |-> {}] :
        a \in BenchArgs, b \in {k \in CaseKinds : k.probe = <<>> /\ (k.jobs # <<>> \/ k.need_packets)},
        c \in CaseKinds, n \in {5, 6}, w \in Worlds}

-----------------------------------------------------------------------------
StageCases ==
    {[url |-> u[1], ref |-> u[2], pinned |-> u[2] \in {"r1", "r2"}, subdir |-> p[1], kind |-> p[2]] :
        u \in {<<"None", "r1">>, <<"u1", "None">>, <<"u1", "main">>, <<"u1", "r1">>, <<"u1", "r2">>},
        p \in {<<"None", "None">>, <<"sub", "None">>, <<"None", "cmake_cares_aresfuzz">>}}
Machines ==
    [git : BOOLEAN, mkdir : {TRUE}, clone : BOOLEAN, fetch : {"ok", "full", "no"}, checkout : BOOLEAN,
     lands : {"r1", "r2"}, build_sh : BOOLEAN, cmake_lists : BOOLEAN]
    \cup [git : {TRUE}, mkdir : {FALSE}, clone : {TRUE}, fetch : {"ok"}, checkout : {TRUE},
          lands : {"r1"}, build_sh : {FALSE}, cmake_lists : {TRUE}]

StageDirs ==
    {[p \in {"u1"} \X {"r1", "r2"} |-> IF p[2] = "r1" THEN d ELSE "absent"] : d \in {"absent", "plain", "r1", "r2", "None"}}
StageInputs ==
    {[mode |-> m, cases |-> <<[url |-> "u1", ref |-> "r1", pinned |-> TRUE, subdir |-> "sub", kind |-> "None"], c>>,
      dirs |-> d, machine |-> w] :
        m \in {"fetch", "build"}, c \in StageCases, d \in StageDirs, w \in Machines}
    \cup
    {[mode |-> "off", cases |-> <<c, c>>, dirs |-> d, machine |-> w] :
        c \in StageCases, d \in StageDirs, w \in {x \in Machines : ~x.mkdir}}

PrepareInputs ==
    {[args |-> a, build |-> b, files |-> f, machine |-> w] :
        a \in [build_fixtures : BOOLEAN, preset : {"real-8", "real-9"}, build : {"never", "missing", "always"}],
        b \in BOOLEAN, f \in SUBSET {"source", "output", "nominal"},
        w \in [explicit : BOOLEAN, installed : {{}, {"gcc"}}, compiles : BOOLEAN, writes_output : BOOLEAN]}

\* What is scored, staged and prepared here is input of the code.
ASSUME BenchInputsAreInputs ==
    /\ \A x \in BenchInputs : IsScoreInput(x)
    /\ \A x \in StageInputs : IsStageInput(x)
    /\ \A x \in PrepareInputs : IsPrepareInput(x)

-----------------------------------------------------------------------------
\* The report of a trace follows from the events the session took in, tells how many
\* the channel had no room for, and agrees with the store.
TraceIsTold ==
    /\ IdsCountLosses /\ TimesKeepOrder /\ JsonIdsAreNew
    /\ SilenceIsEarned /\ EvidenceSuffices /\ CitedComeFirst
    /\ EdgesSpanTheirEvents /\ StoreKeepsThisRun /\ StoreEdgesAgree

\* A candidate chain of the vulnerability search rests on calls, taint and
\* guards as the graph has them.
ChainsAreJustified == SummariesAreUnions /\ TaintIsShortest /\ UnguardedSinkIsStraightLine

\* What a reader is given can be followed to the tables it came from, and does not
\* depend on the order they were read in.
ReportsAgree ==
    /\ InnermostFirst /\ PacketsAnswerable /\ ContainmentIsTrue /\ RowsAreJoined
    /\ MergeIsOrderFree /\ SurestFactsSurvive
    /\ DiffTransforms /\ EmptyReportMeansSame

-----------------------------------------------------------------------------
(* All families                                                              *)

AInit ==
    /\ result = NotYet
    /\ \/ family = "vuln_graph" /\ input \in VulnInputs
       \/ family = "llm_graph" /\ input \in LlmInputs
       \/ family = "bench_score" /\ input \in BenchInputs
       \/ family = "bench_stage" /\ input \in StageInputs
       \/ family = "bench_prepare" /\ input \in PrepareInputs
       \/ family = "pe_image" /\ input \in PeInputs
       \/ family = "snapshot_image" /\ input \in SnapshotInputs
       \/ family = "object_image" /\ input \in ObjectInputs
       \/ family = "debug_symbols" /\ input \in DebugSymbolInputs
       \/ family = "rsds" /\ input \in RsdsInputs
       \/ family = "build_id" /\ input \in NoteInputs
       \/ family = "vsa_linear" /\ input \in LinearInputs
       \/ family = "vsa_cfg" /\ input \in CfgInputs
       \/ family = "jump_table" /\ input \in TableInputs
       \/ family = "switch" /\ input \in GuardInputs
       \/ family = "compare_tree" /\ input \in ChainInputs
       \/ family = "idoms" /\ input \in IdomInputs
       \/ family = "diff" /\ input \in DiffInputs
       \/ family = "trace" /\ input \in TraceInputs
       \/ family = "trace_json" /\ input \in JsonInputs
       \/ family = "ssa" /\ input \in SsaInputs
       \/ family = "api_flows" /\ input \in ApiInputs
       \/ family = "second_pass" /\ input \in SecondInputs
       \/ family = "flow" /\ input \in FlowInputs
       \/ family = "disasm" /\ input \in DisasmInputs
       \/ family = "indirect" /\ input \in IndirectInputs
       \/ family = "classes" /\ input \in ClassInputs
       \/ family = "straight" /\ input \in StraightInputs
       \/ family = "control" /\ input \in ControlInputs
       \/ family = "c_types" /\ input \in TypeInputs
       \/ family = "c_choice" /\ input \in ChoiceInputs

ANext ==
    \/ VulnBuild
    \/ VulnRound
    \/ VulnChains
    \/ LlmCompute
    \/ ScoreStep
    \/ StageStep
    \/ PrepareStep
    \/ PeStep
    \/ SnapshotStep
    \/ ObjectStep
    \/ DebugSymbolsStep
    \/ RsdsStep
    \/ NotesStep
    \/ LinearStep
    \/ CfgStep
    \/ TableStep
    \/ GuardStep
    \/ ChainStep
    \/ IdomStep
    \/ DiffStep
    \/ TraceStep
    \/ JsonStep
    \/ SsaStep
    \/ ApiStep
    \/ SecondStep
    \/ FlowStep
    \/ DisasmStep
    \/ IndirectStep
    \/ ClassStep
    \/ StraightStep
    \/ ControlStep
    \/ TypeStep
    \/ ChoiceStep

ASpec == AInit /\ [][ANext]_avars
=============================================================================
