---------------------------- MODULE ProgramFlow ----------------------------
(* From bytes to control flow: the listing, the graph of a function with its *)
(* loops and gotos, and the switches rebuilt from jump tables and compares.  *)
EXTENDS Integers, Sequences, FiniteSets, SequencesExt, FiniteSetsExt, Functions

-----------------------------------------------------------------------------
(* The linear sweep over the code ranges (disasm.rs) and the resolution of    *)
(* indirect calls from the value sets (indirect_resolver.rs).                 *)

CONSTANTS
    Instr(_, _),        \* external: what the bytes of a section decode to at an address: [size, kind, target, rip]
    MaxXrefs, MaxInstructions

NoVa == -1

\* sections: [va, size, exec] with the bytes of the file; a range names one.
SectionForVa(image, va) == {s \in image.sections : s.va <= va /\ va < s.va + s.size}

XrefKind(image, target) ==
    IF target \in DOMAIN image.imports THEN "import"
    ELSE IF target \in image.strings THEN "string"
    ELSE IF \E s \in SectionForVa(image, target) : s.exec THEN "code" ELSE "data"

\* The limit is not reported.
AddXref(image, xrefs, from, target, role) ==
    IF Len(xrefs) >= MaxXrefs THEN xrefs
    ELSE IF target \in DOMAIN image.imports \/ target \in image.strings \/ SectionForVa(image, target) # {}
    THEN Append(xrefs, [kind |-> XrefKind(image, target), from |-> from, target |-> target, role |-> role])
    ELSE xrefs

\* An instruction that the end of the range cuts is decoded as invalid and
\* takes what is left.
Decoded(va, end, s) ==
    LET i == Instr(s, va)
    IN  IF va + i.size > end THEN [va |-> va, size |-> end - va, kind |-> "invalid", target |-> NoVa, rip |-> NoVa] ELSE [va |-> va] @@ i

CodeTarget(image, i) == i.kind = "call" /\ i.target # NoVa /\ \E s \in SectionForVa(image, i.target) : s.exec
TakeInstruction(image, state, i) ==
    LET withRip == IF i.rip = NoVa THEN state.xrefs
                   ELSE AddXref(image, state.xrefs, i.va, i.rip, IF i.kind = "call" THEN "call" ELSE "operand")
        withTarget == IF i.kind \notin {"call", "jump"} \/ i.target = NoVa THEN withRip
                      ELSE AddXref(image, withRip, i.va, i.target, IF i.kind = "call" THEN "call" ELSE "branch")
    IN  [state EXCEPT !.xrefs = withTarget,
                      !.targets = IF CodeTarget(image, i) THEN @ \cup {i.target} ELSE @,
                      !.instructions = Append(@, i)]

Seen(state, va) == \E k \in DOMAIN state.instructions : state.instructions[k].va = va
Full(state) == Len(state.instructions) >= MaxInstructions

\* An address that an earlier range decoded is decoded again, and dropped.
RECURSIVE SweepFrom(_, _, _, _, _)
SweepFrom(image, s, va, end, state) ==
    IF va >= end THEN state
    ELSE IF Full(state) THEN [state EXCEPT !.capped = TRUE]
    ELSE LET i == Decoded(va, end, s)
         IN  SweepFrom(image, s, va + i.size, end, IF Seen(state, va) THEN state ELSE TakeInstruction(image, state, i))

\* Once the limit is reached no later range is looked at. A range of no section
\* is passed over.
SweepRange(image, state, r) ==
    IF Full(state) THEN [state EXCEPT !.capped = TRUE]
    ELSE IF r.section = NoVa THEN state
    ELSE LET s == CHOOSE x \in image.sections : x.va = r.section
         IN  SweepFrom(image, s, r.start, Min({r.end, s.va + s.size}), state)

Disassemble(image, ranges) ==
    LET done == FoldLeft(LAMBDA state, r : SweepRange(image, state, r),
                         [instructions |-> <<>>, xrefs |-> <<>>, targets |-> {}, capped |-> FALSE], ranges)
    IN  [done EXCEPT !.instructions = SortSeq(@, LAMBDA a, b : a.va < b.va), !.xrefs = SortSeq(@, LAMBDA a, b : a.from < b.from)]

(*************************** indirect_resolver.rs *****************************)
ConfidenceRank(c) == CASE c \in {"high", "definite"} -> 3 [] c = "medium" -> 2 [] c = "low" -> 1 [] OTHER -> 0
ResolvedConfidence(c) == CASE c = "high" -> "high" [] c \in {"medium", "definite"} -> "medium" [] OTHER -> "low"

\* The first of the strongest values.
Stronger(best, v) == IF best = <<>> \/ ConfidenceRank(v[1].confidence) > ConfidenceRank(best[1].confidence) THEN v ELSE best
ValueAt(values, function, site, reg) ==
    FoldLeft(LAMBDA best, v : IF v.target # NoVa /\ v.function = function /\ v.site = site /\ v.location = reg THEN Stronger(best, <<v>>) ELSE best,
             <<>>, values)

\* Of nested functions the later in the list counts.
FunctionOf(functions, va) ==
    LET in == {k \in DOMAIN functions : functions[k].start <= va /\ va < functions[k].end}
    IN  IF in = {} THEN NoVa ELSE functions[Max(in)].start

\* reg: the register that holds the target, or the base of the operand that does.
ResolveIndirect(functions, ir, values, imports) ==
    LET Site(i) ==
            LET function == FunctionOf(functions, i.va)
                v == ValueAt(values, function, i.va, i.reg)
            IN  IF i.kind \notin {"call", "jump"} \/ i.direct \/ function = NoVa \/ i.reg = "" \/ v = <<>> \/ v[1].target = 0 THEN <<>>
                ELSE <<[site |-> i.va, kind |-> i.kind, function |-> function, target |-> v[1].target,
                        confidence |-> ResolvedConfidence(v[1].confidence),
                        symbol |-> IF v[1].target \in DOMAIN imports THEN imports[v[1].target] ELSE v[1].expression]>>
    IN  FlattenSeq([k \in DOMAIN ir |-> Site(ir[k])])

-----------------------------------------------------------------------------
(* The loops, switches and gotos of a function's control-flow graph           *)
(* (structured.rs) and the graph itself (cfg.rs). A block is [start, end],    *)
(* sorted by start; an edge goes from the address of an instruction to an     *)
(* address.                                                                   *)

CONSTANTS MaxBlocks, MaxEdges    \* beyond these no dominators are computed

NoBlock == -1

(********************************* cfg.rs *************************************)
\* insns: the function's instructions in address order, [va, size, kind, target];
\* a target outside the function is no target here.
Inside(f, i) == i.target # NoBlock /\ f.start <= i.target /\ i.target < f.end
NextVa(i) == i.va + i.size
HasNext(insns, i) == \E j \in DOMAIN insns : insns[j].va = NextVa(i)

\* Only a call and a conditional jump fall through: an instruction that ends a
\* block because a target follows it has no edge.
EdgesOf(f, insns, i) ==
    (IF Inside(f, i) THEN <<[from |-> i.va, to |-> i.target, type |-> "branch"]>> ELSE <<>>) \o
    (IF i.kind \in {"call", "jcc"} /\ HasNext(insns, i) THEN <<[from |-> i.va, to |-> NextVa(i), type |-> "fallthrough"]>> ELSE <<>>)

BlockStarts(f, insns) ==
    {f.start} \cup {i.target : i \in {j \in Range(insns) : Inside(f, j)}} \cup
    {NextVa(i) : i \in {j \in Range(insns) : j.kind \in {"call", "jcc", "jmp"} /\ HasNext(insns, j)}}

\* A start with no instruction before the next start is no block.
BuildCfg(f, insns) ==
    LET starts == BlockStarts(f, insns)
        Following(s) == Min({t \in starts : t > s} \cup {f.end})
        Held(s) == {i \in Range(insns) : s <= i.va /\ i.va < Following(s)}
        used == SetToSortSeq({s \in starts : Held(s) # {}}, <)
    IN  [function |-> f.start,
         blocks |-> [k \in DOMAIN used |-> [start |-> used[k], end |-> Max({NextVa(i) : i \in Held(used[k])})]],
         edges |-> FlattenSeq([k \in DOMAIN insns |-> EdgesOf(f, insns, insns[k])])]

(****************************** structured.rs *********************************)
BlockForAddress(cfg, va) ==
    LET inside == {i \in DOMAIN cfg.blocks : cfg.blocks[i].start <= va /\ va < cfg.blocks[i].end}
        atStart == {i \in DOMAIN cfg.blocks : cfg.blocks[i].start = va}
    IN  IF inside # {} THEN cfg.blocks[Min(inside)].start ELSE IF atStart # {} THEN va ELSE NoBlock

\* The block an edge leads to; an address outside the blocks stands for itself.
ToBlock(cfg, va) == IF BlockForAddress(cfg, va) = NoBlock THEN va ELSE BlockForAddress(cfg, va)

PredecessorsByBlock(cfg, block) ==
    {BlockForAddress(cfg, cfg.edges[i].from) : i \in {j \in DOMAIN cfg.edges : ToBlock(cfg, cfg.edges[j].to) = block}} \ {NoBlock}

\* A block without predecessors is dominated by itself alone.
NextDominators(cfg, doms, block) ==
    LET preds == PredecessorsByBlock(cfg, block)
    IN  {block} \cup IF preds = {} THEN {} ELSE {d \in doms[CHOOSE p \in preds : TRUE] : \A p \in preds : d \in doms[p]}

\* Passes over the blocks in order, until one changes nothing.
RECURSIVE DominatorPasses(_, _)
DominatorPasses(cfg, doms) ==
    LET Visit(d, b) == LET next == NextDominators(cfg, d, b.start) IN [v \in DOMAIN d |-> IF v = b.start THEN next ELSE d[v]]
        after == FoldLeft(Visit, doms, Tail(cfg.blocks))
    IN  IF after = doms THEN doms ELSE DominatorPasses(cfg, after)
DominatorSets(cfg) ==
    LET starts == {cfg.blocks[i].start : i \in DOMAIN cfg.blocks}
    IN  DominatorPasses(cfg, [v \in starts |-> IF v = cfg.blocks[1].start THEN {v} ELSE starts])

FallbackBackedges(edges) == SelectSeq(edges, LAMBDA e : e.to <= e.from)

\* Only an edge that goes back in address order counts.
NaturalEdge(cfg, doms, e) ==
    /\ e.to <= e.from
    /\ BlockForAddress(cfg, e.from) # NoBlock
    /\ ToBlock(cfg, e.to) \in doms[BlockForAddress(cfg, e.from)]

NaturalBackedges(cfg) ==
    IF cfg.blocks = <<>> \/ Len(cfg.blocks) > MaxBlocks \/ Len(cfg.edges) > MaxEdges THEN FallbackBackedges(cfg.edges)
    ELSE LET doms == DominatorSets(cfg) IN SelectSeq(cfg.edges, LAMBDA e : NaturalEdge(cfg, doms, e))

\* Targets of two edges, whether or not they return.
SharedReturnBlocks(edges) == {v \in {edges[i].to : i \in DOMAIN edges} : Cardinality({i \in DOMAIN edges : edges[i].to = v}) >= 2}

SwitchCandidates(edges) ==
    LET many == SelectSeq(edges, LAMBDA e : e.type = "branch" /\ Cardinality({i \in DOMAIN edges : edges[i].from = e.from}) >= 3)
    IN  [i \in DOMAIN many |-> many[i].from]

\* known: the function has a record of its graph.
BuildStructuredFlow(known, cfg, returns) ==
    LET edges == IF known THEN cfg.edges ELSE <<>>
        backedges == IF known THEN NaturalBackedges(cfg) ELSE FallbackBackedges(edges)
    IN  [function |-> cfg.function, order |-> IF known THEN {cfg.blocks[i].start : i \in DOMAIN cfg.blocks} ELSE {},
         branches |-> SelectSeq(edges, LAMBDA e : e.type = "branch"),
         fallthroughs |-> SelectSeq(edges, LAMBDA e : e.type = "fallthrough"),
         backedges |-> backedges, returns |-> returns, shared |-> SharedReturnBlocks(edges), candidates |-> SwitchCandidates(edges),
         cases |-> {}, gotos |-> <<>>, regions |-> {}, notes |-> {}, refined |-> FALSE,
         confidence |-> IF known THEN "medium" ELSE "low"]

IsGoto(row, e) == e.to < e.from \/ (row.order # {} /\ ~({e.from, e.to} \subseteq row.order))

\* Lists that the code sorts and dedups are sets here.
RefineRow(row, tables) ==
    LET own == {t \in tables : t.function = row.function}
        gotos == SelectSeq(row.branches, LAMBDA e : IsGoto(row, e))
        cases == row.cases \cup UNION {t.targets : t \in own}
    IN  [row EXCEPT
            !.cases = cases,
            !.gotos = gotos,
            !.regions = {r \in {"loop", "if", "switch", "goto", "return"} :
                            \/ r = "loop" /\ row.backedges # <<>>
                            \/ r = "if" /\ row.branches # <<>>
                            \/ r = "switch" /\ own # {}
                            \/ r = "goto" /\ gotos # <<>>
                            \/ r = "return" /\ row.returns # {}},
            !.notes = row.notes \cup {n \in {"natural_loop_backedge", "tail_merge_or_backward_branch", "shared_return_or_common_epilogue"} :
                            \/ n = "natural_loop_backedge" /\ row.backedges # <<>>
                            \/ n = "tail_merge_or_backward_branch" /\ gotos # <<>>
                            \/ n = "shared_return_or_common_epilogue" /\ row.shared # {}},
            !.refined = TRUE,
            !.confidence = IF cases = {} /\ gotos = <<>> THEN "medium" ELSE "high"]

\* An empty selection selects every row.
RefineSelected(rows, selected, tables) ==
    [i \in DOMAIN rows |-> IF selected = {} \/ rows[i].function \in selected THEN RefineRow(rows[i], tables) ELSE rows[i]]

-----------------------------------------------------------------------------
(***************************************************************************)
(* Jump tables (jump_tables.rs) and the switches rebuilt from them, from   *)
(* compare chains and from bit tests (switches.rs), with the dominators    *)
(* that module computes.                                                   *)
(*                                                                         *)
(* A section's data is a sequence of dwords.  An instruction is [va, mn,   *)
(* imm, reads, write, target, jump, rip, base, index, scale, disp, mem].   *)
(***************************************************************************)

CONSTANTS
    DwordBits,      \* 32, scaled down
    AddressBits,    \* 64, scaled down
    MaxImmediate,   \* largest bound taken from a guard (4096)
    LimitWindow,    \* instructions searched for the size of a table (12)
    GuardWindow,    \* instructions searched for the guard (16)
    BranchWindow,   \* instructions a bit test's branch may be away (3)
    MaskWindow      \* instructions searched for a bit test's mask (8)

Nothing == -1
Addresses == 2^AddressBits
Take(s, n) == SubSeq(s, 1, Min({n, Len(s)}))
SignedDword(d) == IF d >= 2^(DwordBits - 1) THEN d - 2^DwordBits ELSE d

-----------------------------------------------------------------------------
(* Reading a table: entries while they are executable, at least two.         *)

Executable(entries, exec) ==
    LET stops == {i \in DOMAIN entries : entries[i] \notin exec}
        kept == IF stops = {} THEN entries ELSE SubSeq(entries, 1, Min(stops) - 1)
    IN  IF Len(kept) >= 2 THEN kept ELSE <<>>

AbsoluteEntries(data, exec, max) ==
    Executable(Take([i \in 1..(Len(data) \div 2) |-> data[2 * i - 1] + data[2 * i] * 2^DwordBits], max), exec)
RvaEntries(data, base, exec, max) ==
    Executable(Take([i \in DOMAIN data |-> base + data[i]], max), exec)
RelativeEntries(table, data, exec, max) ==
    Executable(Take([i \in DOMAIN data |-> (table + SignedDword(data[i])) % Addresses], max), exec)

\* resolve_table_entries: the first reading that gives two targets.
ResolveTable(table, data, base, exec, max) ==
    LET abs == AbsoluteEntries(data, exec, max)
        rva == RvaEntries(data, base, exec, max)
        rel == RelativeEntries(table, data, exec, max)
    IN  CASE abs # <<>> -> [kind |-> "absolute", targets |-> abs, size |-> 8]
          [] abs = <<>> /\ rva # <<>> -> [kind |-> "rva", targets |-> rva, size |-> 4]
          [] OTHER -> [kind |-> "relative", targets |-> rel, size |-> 4]

Indirect(ins) == ins.jump /\ ins.target = Nothing

\* latest_value: a binary search that takes the rows to be in address order.
LatestValue(values, reg, va) ==
    LET rows == SelectSeq(values, LAMBDA r : r.loc = reg)
        n == Cardinality({i \in DOMAIN rows : rows[i].site <= va})
    IN  IF n = 0 THEN [lo |-> Nothing, target |-> Nothing] ELSE rows[n]

\* candidate_table_va: the address named, or base + low end of the index.
CandidateTableVa(ins, values) ==
    LET b == LatestValue(values, ins.base, ins.va)
        base == IF b.target # Nothing THEN b.target ELSE b.lo
        i == IF ins.index = "" THEN Nothing ELSE LatestValue(values, ins.index, ins.va).lo
    IN  CASE ins.rip # Nothing -> ins.rip
          [] ins.rip = Nothing /\ ins.base = "" -> IF ins.disp > 0 /\ ins.mem THEN ins.disp ELSE Nothing
          [] OTHER -> IF base = Nothing THEN Nothing
                      ELSE (base + (IF i = Nothing THEN 0 ELSE i * Max({ins.scale, 1})) + ins.disp) % Addresses

\* Mutant: one entry past the bound.
EntryLimitPast(code, at) ==
    LET before == Reverse(SelectSeq(code, LAMBDA ins : ins.va < at))
        guards == SelectSeq(Take(before, LimitWindow),
                            LAMBDA ins : ins.mn \in {"cmp", "sub", "and"} /\ ins.imm > 0 /\ ins.imm <= MaxImmediate)
    IN  IF guards = <<>> THEN Nothing ELSE guards[1].imm + 2
\* infer_switch_entry_limit: the nearest bound before the jump.
EntryLimit(code, at) ==
    LET before == Reverse(SelectSeq(code, LAMBDA ins : ins.va < at))
        guards == SelectSeq(Take(before, LimitWindow),
                            LAMBDA ins : ins.mn \in {"cmp", "sub", "and"} /\ ins.imm > 0 /\ ins.imm <= MaxImmediate)
    IN  IF guards = <<>> THEN Nothing ELSE guards[1].imm + 1

\* build_jump_tables, for one function of the second pass; section is [va, data].
BuildJumpTables(code, section, base, exec, values, max) ==
    LET Limit(ins) == LET n == EntryLimit(code, ins.va) IN IF n = Nothing THEN max ELSE Min({n, max})
        Data(va) == SubSeq(section.data, va - section.va + 1, Len(section.data))
        Found(ins) ==
            LET va == CandidateTableVa(ins, values)
                r == ResolveTable(va, Data(va), base, exec, Limit(ins))
            IN  IF va \notin section.va..(section.va + Len(section.data) - 1) \/ r.targets = <<>> THEN <<>>
                ELSE <<[jump |-> ins.va, table |-> va, size |-> r.size, targets |-> r.targets]>>
    IN  FlattenSeq([k \in DOMAIN code |-> IF Indirect(code[k]) THEN Found(code[k]) ELSE <<>>])

-----------------------------------------------------------------------------
(* Switches.                                                                 *)

Case(v, t) == [value |-> v, target |-> t]
Fact(at, index, low, high, default, cases, lowering) ==
    [at |-> at, index |-> index, low |-> low, high |-> high, default |-> default, cases |-> cases, lowering |-> lowering, mask |-> 0]

ClassifyLowering(size, format) ==
    CASE size = 4 /\ format = "pe" -> "msvc_rva_table"
      [] size = 4 /\ format # "pe" -> "pic_offset_table"
      [] OTHER -> "msvc_absolute_table"

\* find_range_guard: the last bound and the last unsigned branch of the window,
\* which need not belong together.
RangeGuard(code, at) ==
    LET pos == CHOOSE i \in DOMAIN code : code[i].va = at
        window == SubSeq(code, Max({pos - GuardWindow, 1}), pos - 1)
        bounds == SelectSeq(window, LAMBDA ins : ins.mn \in {"cmp", "sub"} /\ ins.imm > 0 /\ ins.imm <= MaxImmediate)
        outs == SelectSeq(window, LAMBDA ins : ins.mn \in {"ja", "jae", "jnbe", "jnb"} /\ ins.target # Nothing)
    IN  [low |-> IF bounds = <<>> THEN Nothing ELSE 0,
         high |-> IF bounds = <<>> THEN Nothing ELSE Last(bounds).imm,
         default |-> IF outs = <<>> THEN Nothing ELSE Last(outs).target]

BuildIndexExpr(ins) == IF ins.mem THEN ins.index ELSE ins.base

BuildTableFact(code, ins, jt, format) ==
    LET g == RangeGuard(code, ins.va)
    IN  Fact(ins.va, BuildIndexExpr(ins), g.low, g.high, g.default,
             [i \in DOMAIN jt.targets |-> Case(i - 1, jt.targets[i])], ClassifyLowering(jt.size, format))

IsCmpRegImm(ins) == ins.mn = "cmp" /\ ins.imm # Nothing /\ ins.reads # <<>>
IsEqBranch(ins) == ins.mn \in {"je", "jz"} /\ ins.target # Nothing

\* How many compare-and-branch pairs on one register start at i.
ChainLength(code, i) ==
    LET Pair(k) == /\ i + 2 * k + 1 <= Len(code)
                   /\ IsCmpRegImm(code[i + 2 * k]) /\ IsEqBranch(code[i + 2 * k + 1])
                   /\ code[i + 2 * k].reads[1] = code[i].reads[1]
    IN  IF ~(i + 1 <= Len(code) /\ IsCmpRegImm(code[i]) /\ IsEqBranch(code[i + 1])) THEN 0
        ELSE CHOOSE n \in 1..Len(code) : ~Pair(n) /\ \A k \in 0..(n - 1) : Pair(k)

BuildCompareTreeFact(code, i, n) ==
    Fact(code[i].va, code[i].reads[1], Nothing, Nothing, Nothing,
         [k \in 1..n |-> Case(code[i + 2 * k - 2].imm, code[i + 2 * k - 1].target)], "compare_tree")

\* detect_compare_trees: chains of two pairs or more, none inside another.
DetectCompareTrees(code) ==
    FoldLeft(LAMBDA acc, i :
                 LET n == ChainLength(code, i)
                 IN  IF i < acc.next \/ n < 2 THEN acc
                     ELSE [next |-> i + 2 * n, facts |-> Append(acc.facts, BuildCompareTreeFact(code, i, n))],
             [next |-> 1, facts |-> <<>>], [i \in DOMAIN code |-> i]).facts

\* find_recent_constant: the nearest constant moved into the register, even when
\* something else was written to it since.
RecentConstant(prior, reg) ==
    LET movs == SelectSeq(Take(Reverse(prior), MaskWindow), LAMBDA ins : ins.mn = "mov" /\ ins.write = reg /\ ins.imm # Nothing)
    IN  IF movs = <<>> THEN 0 ELSE movs[1].imm

DetectBitTests(code) ==
    LET Carries(i) == {k \in 1..BranchWindow : i + k <= Len(code) /\ code[i + k].mn \in {"jc", "jb", "jnae"} /\ code[i + k].target # Nothing}
        At(i) == [Fact(code[i].va, "", Nothing, Nothing, code[i + Min(Carries(i))].target, <<>>, "bit_test")
                    EXCEPT !.mask = IF code[i].reads = <<>> THEN 0 ELSE RecentConstant(SubSeq(code, 1, i - 1), code[i].reads[1])]
    IN  FlattenSeq([i \in DOMAIN code |-> IF code[i].mn = "bt" /\ Carries(i) # {} THEN <<At(i)>> ELSE <<>>])

\* build_switches, for one function.
BuildSwitches(code, tables, format) ==
    LET Of(va) == SelectSeq(tables, LAMBDA t : t.jump = va)
        Table(ins) == IF Indirect(ins) /\ Of(ins.va) # <<>> THEN <<BuildTableFact(code, ins, Last(Of(ins.va)), format)>> ELSE <<>>
    IN  FlattenSeq([i \in DOMAIN code |-> Table(code[i])]) \o DetectCompareTrees(code) \o DetectBitTests(code)

-----------------------------------------------------------------------------
(* compute_idoms.                                                            *)

Preds(edges, b) == {e[1] : e \in {x \in edges : x[2] = b}}

Meet(doms, preds) == {d \in UNION {doms[p] : p \in preds} : \A p \in preds : d \in doms[p]}

\* One sweep in block order, seeing what it has already changed.
DominatorSweep(blocks, edges, entry, doms) ==
    FoldLeft(LAMBDA d, b : IF b = entry \/ Preds(edges, b) = {} THEN d ELSE [x \in blocks |-> IF x = b THEN Meet(d, Preds(edges, b)) \cup {b} ELSE d[x]],
             doms, SetToSortSeq(blocks, <))
RECURSIVE Dominators(_, _, _, _)
Dominators(blocks, edges, entry, doms) ==
    LET next == DominatorSweep(blocks, edges, entry, doms)
    IN  IF next = doms THEN doms ELSE Dominators(blocks, edges, entry, next)

\* The strict dominator with most dominators of its own, the last such block; 0
\* for the entry and for a block with none.
ComputeIdoms(blocks, edges, entry) ==
    LET doms == Dominators(blocks, edges, entry, [b \in blocks |-> IF b = entry THEN {entry} ELSE blocks])
        Most(s) == Max({Cardinality(doms[d]) : d \in s})
    IN  [b \in blocks |->
            IF b = entry \/ entry \notin blocks \/ doms[b] = {b} THEN 0
            ELSE Max({d \in doms[b] \ {b} : Cardinality(doms[d]) = Most(doms[b] \ {b})})]
=============================================================================
