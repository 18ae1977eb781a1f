------------------------------ MODULE Reports ------------------------------
(* What is written for the reader of a run: entity graph and packs, symbol rows*)
(* and packets, the comparison of two runs, and the merge of class facts.    *)
EXTENDS Integers, Sequences, FiniteSets, FiniteSetsExt, SequencesExt, Functions, TLC

-----------------------------------------------------------------------------
(***************************************************************************)
(* src/llm_artifacts.rs: the entity graph, the source views, the review    *)
(* packs and the artifact index written for a reader that has only them.   *)
(*                                                                         *)
(* The input is a record of tables, sequences of rows.  A node id is a     *)
(* tuple that starts with its namespace; labels and attributes are left    *)
(* out, except the ones an edge is looked up by.                           *)
(***************************************************************************)

CONSTANTS
    SafeName,     \* storage -> its lowercased safe_file_component
    TopVa,        \* u64::MAX
    MaxSources,   \* source views when not all are wanted
    MaxPacks,     \* function packs
    MaxVulnPacks  \* packs for vulnerability leads

NoFunction == -1

Saturate(v) == IF v > TopVa THEN TopVa ELSE v
ImageBase(t) == IF t.modules = <<>> THEN 0 ELSE t.modules[1].base
Va(t, rva) == Saturate(ImageBase(t) + rva)

\* The first function of the table that holds the address.
FunctionFor(t, va) ==
    LET hit == SelectSeq(t.functions, LAMBDA f : f.start <= va /\ va < f.end)
    IN  IF hit = <<>> THEN NoFunction ELSE hit[1].start

\* Ranges are half open; an empty one stands for its first address.
RangesOverlap(a, b, c, d) ==
    LET end(from, to) == Max({to, Saturate(from + 1)})
    IN  a < end(c, d) /\ c < end(a, b)

\* Mutant: the block that starts last at or before the address.
BlockBefore(cfg, va) ==
    LET s == {b.start : b \in {x \in Range(cfg.blocks) : x.start <= va}} IN IF s = {} THEN {} ELSE {Max(s)}

\* The first block that holds the address, or else an empty one that starts there.
BlockForAddress(cfg, va) ==
    LET hold == SelectSeq(cfg.blocks, LAMBDA b : b.start <= va /\ va < b.end)
        at   == SelectSeq(cfg.blocks, LAMBDA b : b.start = va)
    IN  IF hold # <<>> THEN {hold[1].start} ELSE {b.start : b \in Range(at)}

BlockForStructured(flow, va) ==
    LET s == {b \in flow.order : b <= va} IN IF s = {} THEN {} ELSE {Max(s)}

FunctionId(va) == <<"function", va>>
BlockId(f, va) == <<"block", f, va>>
OpId(va)       == <<"op", va>>
VarId(f, storage) == <<"var", f, SafeName[storage]>>

-----------------------------------------------------------------------------
(* Nodes                                                                   *)

Node(id, kind, f, va) == [id |-> id, kind |-> kind, function |-> f, va |-> va]
Rows(table, Make(_)) == [i \in DOMAIN table |-> Make(table[i])]

\* A node whose id is taken is dropped.
PushNode(nodes, n) == IF \E i \in DOMAIN nodes : nodes[i].id = n.id THEN nodes ELSE Append(nodes, n)

DebugNodes(t) ==
    Rows(t.modules, LAMBDA r : Node(<<"module", r.id>>, "debug_module", NoFunction, r.base))
    \o Rows(t.symbols, LAMBDA r : Node(<<"symbol", r.id>>, "symbol", FunctionFor(t, Va(t, r.rva)), Va(t, r.rva)))

LineNodes(t) ==
    Rows(t.files, LAMBDA r : Node(<<"file", r>>, "source_file", NoFunction, 0))
    \o Rows(t.lines, LAMBDA r : Node(<<"line", r.id>>, "line_entry", FunctionFor(t, Va(t, r.rva)), Va(t, r.rva)))

SymbolGraphNodes(t) ==
    Rows(t.graph, LAMBDA r : Node(<<"symbol_graph", r.id>>, r.kind,
        IF r.rva < 0 THEN NoFunction ELSE FunctionFor(t, Va(t, r.rva)), IF r.rva < 0 THEN 0 ELSE Va(t, r.rva)))

CodeNodes(t) ==
    Rows(t.functions, LAMBDA f : Node(FunctionId(f.start), "function", f.start, f.start))
    \o FlattenSeq(Rows(t.cfgs, LAMBDA c : Rows(c.blocks, LAMBDA b : Node(BlockId(c.function, b.start), "block", c.function, b.start))))
    \o Rows(t.ir, LAMBDA va : Node(OpId(va), "pcode_op", FunctionFor(t, va), va))

\* An import id has its position, so that a symbol imported twice has two nodes.
ImportNodes(t) ==
    [i \in DOMAIN t.imports |-> Node(<<"import", i>>, "import", NoFunction, t.imports[i].va)]
    \o Rows(t.strings, LAMBDA va : Node(<<"string", va>>, "string", NoFunction, va))

\* A value and, the first time, the storage it is a version of.
ValueNodes(t) ==
    FlattenSeq(Rows(t.ssa, LAMBDA s : <<Node(<<"ssa", s.id>>, "ssa_value", s.function, s.site),
                                        Node(VarId(s.function, s.storage), "recovered_var", s.function, 0)>>))
    \o Rows(t.hints, LAMBDA h : Node(<<"type", h.id>>, "type", h.function, h.site))

\* api_flow, behavior, vuln_lead and uncertainty rows have one shape.
FactNodes(t) == Rows(t.facts, LAMBDA r : Node(<<r.kind, r.id>>, r.kind, r.function, r.site))

BuildNodes(t) ==
    FoldLeft(PushNode, <<>>, <<Node(<<"lifter", 0>>, "unsupported_lifter", NoFunction, 0)>> \o DebugNodes(t)
        \o LineNodes(t) \o SymbolGraphNodes(t) \o CodeNodes(t) \o ImportNodes(t) \o ValueNodes(t) \o FactNodes(t))

-----------------------------------------------------------------------------
(* Edges                                                                   *)

Edge(kind, from, to, f, va) == [kind |-> kind, from |-> from, to |-> to, function |-> f, va |-> va]
Each(set, Make(_)) == SetToSeq({Make(x) : x \in set})

CfgEdges(t) ==
    FlattenSeq(Rows(t.cfgs, LAMBDA c :
        Rows(c.blocks, LAMBDA b : Edge("contains", FunctionId(c.function), BlockId(c.function, b.start), c.function, b.start))
        \o FlattenSeq(Rows(c.edges, LAMBDA e :
            LET block(va) == BlockForAddress(c, va)
            IN  IF block(e[1]) = {} \/ block(e[2]) = {} THEN <<>>
                ELSE <<Edge("control_flow", BlockId(c.function, Max(block(e[1]))),
                            BlockId(c.function, Max(block(e[2]))), c.function, e[1])>>))))

\* An instruction goes to its block in the first flow graph of its first function.
OpEdges(t) ==
    FlattenSeq(Rows(t.ir, LAMBDA va :
        LET f    == FunctionFor(t, va)
            cfg  == SelectSeq(t.cfgs, LAMBDA c : c.function = f)
            hold == IF cfg = <<>> THEN {} ELSE BlockForAddress(cfg[1], va)
        IN  IF f = NoFunction THEN <<>> ELSE Each(hold, LAMBDA b : Edge("contains", BlockId(f, b), OpId(va), f, va))))

\* import_nodes: the last import with the symbol.
ImportOf(t, symbol) ==
    LET s == {i \in DOMAIN t.imports : t.imports[i].symbol = symbol} IN IF s = {} THEN {} ELSE {<<"import", Max(s)>>}

\* A reference with a symbol goes to the import or nowhere.
XrefEdges(t) ==
    FlattenSeq(Rows(t.xrefs, LAMBDA x :
        Each(IF x.symbol # "none" THEN ImportOf(t, x.symbol) ELSE {<<"string", x.target>>},
             LAMBDA to : Edge("xref", OpId(x.from), to, FunctionFor(t, x.from), x.from))))

\* Every function that a symbol or a line lies in.
Covered(t, kind, id, from, to) ==
    LET hit == SelectSeq(t.functions, LAMBDA f : RangesOverlap(f.start, f.end, Va(t, from), Va(t, to)))
    IN  Rows(hit, LAMBDA f : Edge(kind, FunctionId(f.start), id, f.start, Max({f.start, Va(t, from)})))

DebugEdges(t) ==
    FlattenSeq(Rows(t.symbols, LAMBDA s :
        <<Edge("defines_symbol", <<"module", s.module>>, <<"symbol", s.id>>, NoFunction, Va(t, s.rva))>>
        \o Covered(t, "resolves_symbol", <<"symbol", s.id>>, s.rva, s.end)))
    \o FlattenSeq(Rows(t.lines, LAMBDA l :
        <<Edge("symbol_source_file", <<"line", l.id>>, <<"file", l.file>>, FunctionFor(t, Va(t, l.rva)), Va(t, l.rva))>>
        \o Covered(t, "has_source_line", <<"line", l.id>>, l.rva, l.end)))

\* A row without an end covers one address.
SymbolGraphEdges(t) ==
    FlattenSeq(Rows(t.graph, LAMBDA r :
        Rows(r.related, LAMBDA o : Edge("symbol_graph_related", <<"symbol_graph", r.id>>, <<"symbol_graph", o>>, NoFunction, 0))
        \o (IF r.rva < 0 \/ r.kind \notin {"function_symbol", "data_symbol", "line_row"} THEN <<>>
            ELSE Covered(t, IF r.kind = "line_row" THEN "symbol_graph_source_line" ELSE "symbol_graph_resolves",
                         <<"symbol_graph", r.id>>, r.rva, IF r.end < 0 THEN r.rva + 1 ELSE r.end))))

CallEdges(t) ==
    FlattenSeq(Rows(t.calls, LAMBDA c :
        <<Edge("call", FunctionId(c.caller), FunctionId(c.callee), c.caller, c.site)>>
        \o Each(ImportOf(t, c.import), LAMBDA i : Edge("call_import", FunctionId(c.caller), i, c.caller, c.site))))

ValueEdges(t) ==
    Rows(t.dataflow, LAMBDA d : Edge("dataflow", <<"ssa", d[1]>>, <<"ssa", d[2]>>, NoFunction, 0))
    \o Rows(t.ssa, LAMBDA s : Edge("storage_instance", VarId(s.function, s.storage), <<"ssa", s.id>>, s.function, s.site))
    \o Rows(t.hints, LAMBDA h : Edge("type_constraint", <<"type", h.id>>, VarId(h.function, h.storage), h.function, h.site))

FactEdges(t) ==
    Rows(SelectSeq(t.facts, LAMBDA r : r.function # NoFunction),
         LAMBDA r : Edge(r.kind, FunctionId(r.function), <<r.kind, r.id>>, r.function, r.site))

LoopEdges(t) ==
    FlattenSeq(Rows(t.loops, LAMBDA l :
        LET block(va) == BlockForStructured(l, va)
        IN  IF block(l.from) = {} \/ block(l.to) = {} THEN <<>>
            ELSE <<Edge("loop_backedge", BlockId(l.function, Max(block(l.from))),
                        BlockId(l.function, Max(block(l.to))), l.function, l.from)>>))

\* push_edge drops an edge to an unknown node or to itself and numbers the others.
PushEdges(nodes, edges) ==
    LET ids  == {nodes[i].id : i \in DOMAIN nodes}
        kept == SelectSeq(edges, LAMBDA e : e.from \in ids /\ e.to \in ids /\ e.from # e.to)
    IN  [i \in DOMAIN kept |-> [id |-> <<kept[i].kind, i - 1>>] @@ kept[i]]

BuildEdges(t, nodes) ==
    PushEdges(nodes, CfgEdges(t) \o OpEdges(t) \o XrefEdges(t) \o DebugEdges(t) \o SymbolGraphEdges(t)
                     \o CallEdges(t) \o ValueEdges(t) \o FactEdges(t) \o LoopEdges(t))

-----------------------------------------------------------------------------
(* Source views, review packs and the index                                *)

\* The functions with dossiers, or all of them when there are none.
SourceViews(t, mode) ==
    LET chosen == IF t.dossiers = <<>> THEN {f.start : f \in Range(t.functions)} ELSE {d.function : d \in Range(t.dossiers)}
        order  == SetToSortSeq(chosen, <)
    IN  IF mode = "off" THEN <<>>
        ELSE SubSeq(order, 1, IF mode = "all" THEN Len(order) ELSE Min({MaxSources, Len(order)}))

\* A stable sort by falling score.
Ranked(dossiers) ==
    LET before(i, j) == dossiers[i].score > dossiers[j].score \/ (dossiers[i].score = dossiers[j].score /\ i < j)
        order == SetToSortSeq(DOMAIN dossiers, before)
    IN  [k \in DOMAIN order |-> dossiers[order[k]]]

\* A pack has the symbols at its function's first address or in its range.
PackSymbols(t, f) ==
    LET own == SelectSeq(t.functions, LAMBDA g : g.start = f)
    IN  {s.id : s \in {r \in Range(t.symbols) :
            \/ RangesOverlap(f, Saturate(f + 1), Va(t, r.rva), Va(t, r.end))
            \/ own # <<>> /\ RangesOverlap(f, own[1].end, Va(t, r.rva), Va(t, r.end))}}

ReviewPacks(t, mode) ==
    LET ranked == Ranked(t.dossiers)
        leads  == SelectSeq(t.facts, LAMBDA r : r.kind = "vuln_lead")
        head(s, n) == SubSeq(s, 1, Min({n, Len(s)}))
    IN  IF mode = "off" THEN <<>>
        ELSE Rows(head(ranked, MaxPacks), LAMBDA d :
                [function |-> d.function, score |-> d.score, symbols |-> PackSymbols(t, d.function),
                 facts |-> {<<r.kind, r.id>> : r \in {x \in Range(t.facts) : x.function = d.function /\ x.kind # "behavior"}}])
             \o Rows(head(leads, MaxVulnPacks), LAMBDA r :
                [function |-> r.function, score |-> 0, symbols |-> {}, facts |-> {<<r.kind, r.id>>}])

WriteLlmArtifacts(t, mode) ==
    LET nodes == BuildNodes(t)
    IN  [nodes |-> nodes, edges |-> BuildEdges(t, nodes), sources |-> SourceViews(t, mode), packs |-> ReviewPacks(t, mode)]

-----------------------------------------------------------------------------
(***************************************************************************)
(* src/symbol_graph.rs: the rows of symbol_graph.jsonl from the debug      *)
(* symbols of a program, the indexes over them, the packets written for    *)
(* functions, and the query that reads the rows back.                      *)
(*                                                                         *)
(* Labels are model values; the keys a label is found by and the order of  *)
(* ids are given.  A row without an address has -1.                        *)
(***************************************************************************)

CONSTANTS
    NameKeys,      \* label -> the keys name_keys gives for it, the label itself included
    Lower,         \* key -> its lower case form
    MaxLines,      \* line entries a symbol is related to
    MaxHits,       \* hits of an address query
    MaxNearby,     \* neighbours in a packet
    MaxContext     \* rows of context of each kind in a packet

Nowhere == -1
AddressKinds == {"function_symbol", "data_symbol", "line_row", "inline_site"}
NamedKinds == {"function_symbol", "data_symbol", "type_def", "compile_unit", "source_file"}

Larger(a, b) == IF a < b THEN b ELSE a
Smaller(a, b) == IF a < b THEN a ELSE b
LexLess(a, b) == \E k \in DOMAIN a : a[k] < b[k] /\ \A j \in 1..(k - 1) : a[j] = b[j]
\* The positions of a table that pass a test, in the order of a key.
Positions(table, Test(_), Key(_)) ==
    SortSeq(SelectSeq([i \in DOMAIN table |-> i], Test), LAMBDA i, j : LexLess(Key(i), Key(j)))

Take(s, n) == SubSeq(s, 1, Smaller(n, Len(s)))

\* An empty range stands for its first address.
End(r) == Larger(r.end, r.rva + 1)
Overlap(a, b) == a.rva < End(b) /\ b.rva < End(a)

Row(id, kind, label, rva, end, file, first, last, related) ==
    [id |-> id, kind |-> kind, label |-> label, rva |-> rva, end |-> end, file |-> file,
     first |-> first, last |-> last, related |-> related]

-----------------------------------------------------------------------------
(* Rows                                                                    *)

ModuleRow(m) == Row(<<"debug_module", m.id>>, "debug_module", m.id, m.entry, m.entry + 1, "none", 0, 0, <<>>)

SourceFileRow(f) == Row(<<"file", f>>, "source_file", f, Nowhere, Nowhere, f, 0, 0, <<>>)
CompileUnitRow(f) == Row(<<"unit", f>>, "compile_unit", f, Nowhere, Nowhere, f, 0, 0, <<(<<"file", f>>)>>)

OverlappingLines(d, s) ==
    Take(Positions(d.lines, LAMBDA i : Overlap(s, d.lines[i]), LAMBDA i : <<d.lines[i].rva, d.lines[i].id>>), MaxLines)

\* The file is that of the first line whose file is known; until one is found,
\* each line replaces the span, and from then on a line of any file widens it.
Span(d, s) ==
    FoldLeft(LAMBDA acc, i :
                LET l == d.lines[i] IN
                IF acc.file = "none"
                THEN [file |-> IF l.file \in Range(d.files) THEN l.file ELSE "none", first |-> l.line, last |-> l.line]
                ELSE [acc EXCEPT !.first = Smaller(@, l.line), !.last = Larger(@, l.line)],
             [file |-> "none", first |-> 0, last |-> 0], OverlappingLines(d, s))

SymbolRow(d, s) ==
    LET lines == OverlappingLines(d, s)
        span  == Span(d, s)
    IN  Row(<<"symbol", s.id>>, IF s.function THEN "function_symbol" ELSE "data_symbol", s.name, s.rva, End(s),
            span.file, span.first, span.last,
            <<(<<"debug_module", s.module>>)>> \o [k \in DOMAIN lines |-> <<"line", d.lines[lines[k]].id>>])

LineRow(d, l) ==
    Row(<<"line", l.id>>, "line_row", "line", l.rva, End(l), IF l.file \in Range(d.files) THEN l.file ELSE "none",
        l.line, l.line, <<(<<"file", l.file>>)>>)

InlineRow(s) == Row(<<"inline", s.id>>, "inline_site", s.name, s.rva, End(s), s.file, s.line, s.line, <<(<<"file", s.file>>)>>)
TypeRow(ty) == Row(<<"type", ty>>, "type_def", ty, Nowhere, Nowhere, "none", 0, 0, <<>>)
UncertaintyRow(u) == Row(<<"uncertainty", u.id>>, "symbol_evidence", "code", Nowhere, Nowhere, "none", 0, 0,
                         <<(<<"debug_module", u.module>>)>>)

\* Rows by kind, then address, rows without one last.
KindOrder == <<"compile_unit", "data_symbol", "debug_module", "function_symbol", "inline_site", "line_row",
               "source_file", "symbol_evidence", "type_def">>

SortRows(rows) ==
    LET rank(r) == CHOOSE k \in DOMAIN KindOrder : KindOrder[k] = r.kind
        order == Positions(rows, LAMBDA i : TRUE, LAMBDA i : <<rank(rows[i]), rows[i].rva, i>>)
    IN  [k \in DOMAIN order |-> rows[order[k]]]

BuildSymbolGraph(d) ==
    LET each(t, Make(_)) == [i \in DOMAIN t |-> Make(t[i])]
    IN  SortRows(each(d.modules, ModuleRow) \o each(d.files, SourceFileRow) \o each(d.files, CompileUnitRow)
                 \o each(d.symbols, LAMBDA s : SymbolRow(d, s)) \o each(d.lines, LAMBDA l : LineRow(d, l))
                 \o each(d.scopes, InlineRow) \o each(d.types, TypeRow) \o each(d.uncertainties, UncertaintyRow))

-----------------------------------------------------------------------------
(* Indexes, queries and packets                                            *)

AddressIndex(rows) == {i \in DOMAIN rows : rows[i].kind \in AddressKinds /\ rows[i].rva < rows[i].end}

KeysOf(row) == IF row.kind \in NamedKinds THEN NameKeys[row.label] ELSE {}

\* The rows filed under a key; failing that, under its lower case form.
LookupName(rows, key) ==
    LET under(k) == {i \in DOMAIN rows : k \in KeysOf(rows[i])}
    IN  IF under(key) # {} THEN under(key) ELSE under(Lower[key])

LookupType(rows, key) ==
    LET under(k) == {i \in DOMAIN rows : rows[i].kind = "type_def" /\ k \in {rows[i].label, Lower[rows[i].label]}}
    IN  IF under(key) # {} THEN under(key) ELSE under(Lower[key])

\* The smallest ranges first, among equals the one that starts last.
AddressHits(rows, va) ==
    Take(Positions(rows, LAMBDA i : i \in AddressIndex(rows) /\ rows[i].rva <= va /\ va < rows[i].end,
                   LAMBDA i : <<rows[i].end - rows[i].rva, -rows[i].rva, i>>), MaxHits)

\* The function symbols closest to the first match that has an address.
NearbySymbols(rows, exact) ==
    LET placed == SelectSeq(exact, LAMBDA i : rows[i].rva # Nowhere)
        far(i) == LET x == rows[i].rva - rows[placed[1]].rva IN IF x < 0 THEN -x ELSE x
    IN  IF placed = <<>> THEN <<>>
        ELSE Take(Positions(rows, LAMBDA i : rows[i].kind = "function_symbol" /\ i \notin Range(exact),
                            LAMBDA i : <<far(i), rows[i].rva, i>>), MaxNearby)

\* Rows of a kind that overlap a match, in order of the matches.
Context(rows, exact, kind) ==
    LET all == {i \in DOMAIN rows : rows[i].kind = kind /\
                    \E k \in DOMAIN exact : rows[exact[k]].rva # Nowhere /\ Overlap(rows[exact[k]], rows[i])}
    IN  Take(Positions(rows, LAMBDA i : i \in all, LAMBDA i : <<i>>), MaxContext)

TypeContext(rows, exact) ==
    LET all == UNION {UNION {LookupType(rows, k) : k \in KeysOf(rows[exact[e]])} : e \in DOMAIN exact}
    IN  Take(Positions(rows, LAMBDA i : i \in all, LAMBDA i : <<i>>), MaxContext)

PacketForMatches(rows, exact) ==
    [exact |-> exact, nearby |-> NearbySymbols(rows, exact), lines |-> Context(rows, exact, "line_row"),
     inlined |-> Context(rows, exact, "inline_site"), types |-> TypeContext(rows, exact),
     warnings |-> {i \in DOMAIN rows : rows[i].id[1] = "uncertainty"}]

\* Packets are made for the first functions, each from its own row.
BuildPackets(rows, limit) ==
    LET fns == SelectSeq([i \in DOMAIN rows |-> i], LAMBDA i : rows[i].kind = "function_symbol")
    IN  [k \in DOMAIN Take(fns, limit) |-> PacketForMatches(rows, <<fns[k]>>)]

\* query_symbol_packet reads the rows back and indexes them again.
QueryName(rows, name) == PacketForMatches(rows, Positions(rows, LAMBDA i : i \in LookupName(rows, name), LAMBDA i : <<i>>))

-----------------------------------------------------------------------------
(* The comparison of two analysis runs (diff.rs): each side is loaded from    *)
(* the tables of its run directory, functions are matched by a fingerprint of *)
(* what they refer to, and what is left is told apart by address.             *)
(*                                                                            *)
(* A text is a sequence of character codes.  A directory is                   *)
(* [run |-> a run or NoRun, subdirs |-> the runs or NoRun of its              *)
(* subdirectories, in the order the file system lists them].                  *)

CONSTANTS
    StringCap,   \* the strings a report lists (200)
    ShownCap,    \* the rows of a list the text shows (30)
    Comma        \* the character code of the separator

NoRun == [analysis |-> "missing"]
Failed == [ok |-> FALSE]

-----------------------------------------------------------------------------
(* Loading a side.                                                            *)

\* A table that is not there is an empty one; lines that do not parse are
\* skipped.  A table that cannot be opened ends the comparison.
ReadJsonl(file) == [ok |-> file.state # "unreadable",
                    rows |-> IF file.state = "there" THEN SelectSeq(file.rows, LAMBDA r : r.parses) ELSE <<>>]

\* The directory itself, else the first subdirectory with an analysis.json.
FindRunDir(dir) ==
    LET found == SelectSeq(dir.subdirs, LAMBDA r : r.analysis # "missing")
    IN  IF dir.run.analysis # "missing" \/ found = <<>> THEN dir.run ELSE Head(found)

TextLess(a, b) ==
    \/ IsStrictPrefix(a, b)
    \/ \E i \in DOMAIN a : i \in DOMAIN b /\ a[i] < b[i] /\ SubSeq(a, 1, i - 1) = SubSeq(b, 1, i - 1)
Joined(texts) ==
    LET sorted == SortSeq(texts, TextLess)
    IN  FlattenSeq([i \in DOMAIN sorted |-> IF i = 1 THEN sorted[i] ELSE <<Comma>> \o sorted[i]])

\* The digest is taken of the size and of the sorted, joined references; it
\* is taken to be free of collisions.
Sha256Short(size, imports, strings) == <<size, imports, strings>>

\* A dossier without an address or a size is skipped (-1: absent; a size that
\* is no number counts as 0).
Fingerprint(row) ==
    [fp |-> Sha256Short(row.size, Joined(row.imports), Joined(row.strings)),
     va |-> row.va, size |-> row.size]
FunctionFingerprints(dossiers) ==
    LET rows == SelectSeq(dossiers, LAMBDA r : r.va >= 0 /\ r.size >= 0)
    IN  [i \in DOMAIN rows |-> Fingerprint(rows[i])]

\* The last status given for a capability counts.
CapabilityMap(caps) ==
    LET Last_(name) == Max({i \in DOMAIN caps : caps[i].name = name})
    IN  [name \in {caps[i].name : i \in DOMAIN caps} |-> caps[Last_(name)].status]

LoadSide(dir) ==
    LET run == FindRunDir(dir)
    IN  IF run.analysis # "there" THEN Failed
        ELSE LET imports == ReadJsonl(run.imports)
                 strings == ReadJsonl(run.strings)
                 dossiers == ReadJsonl(run.dossiers)
             IN  IF ~(imports.ok /\ strings.ok /\ dossiers.ok) THEN Failed
                 ELSE [ok |-> TRUE,
                       imports |-> {imports.rows[i].text : i \in DOMAIN imports.rows},
                       strings |-> {strings.rows[i].text : i \in DOMAIN strings.rows},
                       functions |-> FunctionFingerprints(dossiers.rows),
                       capabilities |-> CapabilityMap(run.capabilities)]

-----------------------------------------------------------------------------
(* The comparison.                                                            *)

Fingerprints(fns) == {fns[i].fp : i \in DOMAIN fns}
\* The first function of a fingerprint, and the last at an address, stand for
\* the others.
ByFp(fns, fp) == fns[Min({i \in DOMAIN fns : fns[i].fp = fp})]
AtVa(fns, va) ==
    LET at == {i \in DOMAIN fns : fns[i].va = va}
    IN  IF at = {} THEN <<>> ELSE <<fns[Max(at)]>>

Unchanged(left, right) == Fingerprints(left) \cap Fingerprints(right)
\* What the right side has and the left has not.
FunctionsAdded(left, right) ==
    {[fp |-> fp, va |-> ByFp(right, fp).va] : fp \in Fingerprints(right) \ Fingerprints(left)}
\* What the left side has and the right has not is modified when the right
\* has another function at its address, else removed.
FunctionsModified(left, right) ==
    {[from |-> fp, to |-> AtVa(right, ByFp(left, fp).va)[1].fp, va |-> ByFp(left, fp).va] :
        fp \in {g \in Fingerprints(left) \ Fingerprints(right) : AtVa(right, ByFp(left, g).va) # <<>>}}
FunctionsRemoved(left, right) ==
    {[fp |-> fp, va |-> ByFp(left, fp).va] :
        fp \in {g \in Fingerprints(left) \ Fingerprints(right) : AtVa(right, ByFp(left, g).va) = <<>>}}
\* Added functions are dropped when a modified row has their fingerprint; a
\* modified row has the text "from -> to", which no added one has.
ModifiedText(m) == <<m.from, m.to>>
RetainAdded(added, modified) == {f \in added : <<f.fp>> \notin {ModifiedText(m) : m \in modified}}

StatusChanges(left, right) ==
    {[capability |-> n, left |-> left[n], right |-> right[n]] : n \in {m \in DOMAIN left \cap DOMAIN right : left[m] # right[m]}}

\* The first ones, in the order of the texts.
FirstTexts(texts, n) ==
    LET sorted == SetToSortSeq(texts, TextLess) IN SubSeq(sorted, 1, IF Len(sorted) < n THEN Len(sorted) ELSE n)
StringDelta(of, against) == FirstTexts(of \ against, StringCap)

RunDiff(left_dir, right_dir) ==
    LET left == LoadSide(left_dir)
        right == LoadSide(right_dir)
    IN  IF ~left.ok \/ ~right.ok THEN Failed
        ELSE LET modified == FunctionsModified(left.functions, right.functions)
             IN  [ok |-> TRUE,
                  functions |-> <<Len(left.functions), Len(right.functions)>>,
                  imports_added |-> right.imports \ left.imports,
                  imports_removed |-> left.imports \ right.imports,
                  imports_shared |-> Cardinality(left.imports \cap right.imports),
                  unchanged |-> Cardinality(Unchanged(left.functions, right.functions)),
                  added |-> RetainAdded(FunctionsAdded(left.functions, right.functions), modified),
                  modified |-> modified,
                  removed |-> FunctionsRemoved(left.functions, right.functions),
                  capabilities_added |-> DOMAIN right.capabilities \ DOMAIN left.capabilities,
                  capabilities_removed |-> DOMAIN left.capabilities \ DOMAIN right.capabilities,
                  status_changes |-> StatusChanges(left.capabilities, right.capabilities),
                  strings_added |-> StringDelta(right.strings, left.strings),
                  strings_removed |-> StringDelta(left.strings, right.strings)]

\* What the text says: counts of everything and the first rows of each list;
\* a section with nothing in it is left out, and no list says it was cut.
Capped(n) == IF n < ShownCap THEN n ELSE ShownCap
RenderMd(report) ==
    LET functions == {<<"added", Cardinality(report.added)>>, <<"removed", Cardinality(report.removed)>>,
                      <<"modified", Cardinality(report.modified)>>}
        lists == functions \cup
                 {<<"new imports", Cardinality(report.imports_added)>>, <<"dropped imports", Cardinality(report.imports_removed)>>,
                  <<"new strings", Len(report.strings_added)>>, <<"dropped strings", Len(report.strings_removed)>>}
    IN  [counts |-> functions \cup {<<"unchanged", report.unchanged>>},
         rows |-> {<<l[1], Capped(l[2])>> : l \in {m \in lists : m[2] > 0}},
         capabilities |-> report.capabilities_added # {} \/ report.capabilities_removed # {} \/ report.status_changes # {}]

-----------------------------------------------------------------------------
(* What the sources say of a C++ class, merged into one row (cpp_classes/     *)
(* solver.rs). A claim is [value, score], scores in hundredths.               *)

NoClaim == [value |-> "", score |-> -1]

Band(score) == IF score >= 85 THEN "high" ELSE IF score >= 60 THEN "medium" ELSE IF score >= 35 THEN "low" ELSE "unknown"

\* The last of the highest: a later claim replaces an equal one.
PickHighest(claims) ==
    FoldLeft(LAMBDA best, c : IF c # NoClaim /\ c.score >= best.score THEN c ELSE best, NoClaim, claims)

\* The first of the surest sizes, the first name and the first guess.
MergedField(old, f) ==
    [old EXCEPT !.size = IF f.size.score > @.score THEN f.size ELSE @, !.sites = @ \cup f.sites,
                !.name = IF @ = "" THEN f.name ELSE @, !.type = IF @ = "" THEN f.type ELSE @]
MergeFields(group) ==
    LET fields == FlattenSeq([i \in DOMAIN group |-> group[i].fields])
        Merge(acc, f) ==
            LET same == {x \in acc : x.offset = f.offset}
            IN  (acc \ same) \cup {IF same = {} THEN f ELSE MergedField(CHOOSE x \in same : TRUE, f)}
    IN  SetToSortSeq(FoldLeft(Merge, {}, fields), LAMBDA a, b : a.offset < b.offset)

\* A stable sort, the surest fact first.
BySureness(group) ==
    LET Before(i, j) == group[i].score > group[j].score \/ (group[i].score = group[j].score /\ i < j)
        order == SetToSortSeq(DOMAIN group, Before)
    IN  [k \in DOMAIN order |-> group[order[k]]]

FirstNonEmpty(seq, empty) == FoldLeft(LAMBDA best, x : IF best = empty THEN x ELSE best, empty, seq)

\* methods stands for the vtables and the bases too: keyed by identity, the first
\* row of an identity kept.
FirstOfEach(rows) ==
    {rows[i] : i \in {k \in DOMAIN rows : \A j \in 1..(k - 1) : rows[j].id # rows[k].id}}

\* destructors stands for the constructors too.
MergeGroup(facts) ==
    LET group == BySureness(facts)
        Of(Field(_)) == [i \in DOMAIN group |-> Field(group[i])]
        best == Max({0} \cup {group[i].score : i \in DOMAIN group})
    IN  [class |-> group[1].class,
         source |-> group[1].source,
         demangled |-> PickHighest(Of(LAMBDA f : f.demangled)),
         mangled |-> FirstNonEmpty(Of(LAMBDA f : f.mangled), ""),
         size |-> PickHighest(Of(LAMBDA f : f.size)),
         abi |-> FirstNonEmpty(Of(LAMBDA f : f.abi), "unknown"),
         methods |-> FirstOfEach(FlattenSeq(Of(LAMBDA f : f.methods))),
         fields |-> MergeFields(group),
         destructors |-> UNION {group[i].destructors : i \in DOMAIN group},
         sources |-> {group[i].source : i \in DOMAIN group},
         score |-> best, band |-> Band(best)]

MergeClasses(facts) ==
    LET classes == SetToSortSeq({facts[i].class : i \in DOMAIN facts}, <)
    IN  [k \in DOMAIN classes |-> MergeGroup(SelectSeq(facts, LAMBDA f : f.class = classes[k]))]

\* hints: the tag of an access site. Only a field with no guess takes one, that
\* of its first site that has a hint.
EnrichField(f, hints) ==
    LET sites == f.sites \cap DOMAIN hints
    IN  IF f.type = "" /\ sites # {} THEN [f EXCEPT !.type = hints[Min(sites)]] ELSE f
EnrichFieldTypes(rows, hints) ==
    [k \in DOMAIN rows |-> [rows[k] EXCEPT !.fields = [i \in DOMAIN rows[k].fields |-> EnrichField(rows[k].fields[i], hints)]]]
=============================================================================
