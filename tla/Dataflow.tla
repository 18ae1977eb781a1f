------------------------------ MODULE Dataflow ------------------------------
(* What is known of values: definitions and uses, value sets, the strings that*)
(* reach API calls, and the functions chosen to be looked at again.          *)
EXTENDS Integers, Sequences, FiniteSets, SequencesExt, FiniteSetsExt, Functions, TLC

-----------------------------------------------------------------------------
(* The value numbering of functions (ssa.rs): one walk over the instructions  *)
(* in the order of their addresses, a new version for every write, a phi      *)
(* where the blocks before a join disagree, and an edge from each definition  *)
(* to the values that use it.                                                 *)
(*                                                                            *)
(* An instruction is [va, mn, write, reads, mread, mwrite, slot] with "" for  *)
(* no register and no slot; a graph is [blocks, edges], blocks a sequence of  *)
(* [start, end] and edges a sequence of [from, to].                           *)

CONSTANTS
    FlagWriters,     \* the mnemonics that set the flags
    Flags            \* the flags that are tracked, in the order they are written

None == -1

-----------------------------------------------------------------------------
\* The first block that holds the address.
BlockFor(cfg, va) ==
    LET at == {i \in DOMAIN cfg.blocks : cfg.blocks[i].start <= va /\ va < cfg.blocks[i].end}
    IN  IF at = {} THEN None ELSE cfg.blocks[Min(at)].start
\* The blocks before a join, in order; fewer than two make no join.
PredecessorBlocks(cfg, block) ==
    LET from == {BlockFor(cfg, e.from) : e \in {f \in Range(cfg.edges) : f.to = block}} \ {None}
    IN  IF Cardinality(from) > 1 THEN SetToSortSeq(from, <) ELSE <<>>

ReadStorages(ins) == Range(ins.reads) \cup (IF ins.mread /\ ins.slot # "" THEN {ins.slot} ELSE {})
WriteStorages(ins) ==
    (IF ins.write = "" THEN <<>> ELSE <<ins.write>>) \o
    (IF ins.mwrite THEN (IF ins.slot = "" THEN <<"mem">> ELSE <<ins.slot, "mem">>) ELSE <<>>) \o
    (IF ins.mn \in FlagWriters THEN Flags ELSE <<>>)

\* Where the walk is: the values and edges so far, the version of each storage
\* (those not there have none), the definition each storage holds, what each
\* block leaves, and the blocks that were entered.
NewWalk == [values |-> <<>>, edges |-> {}, versions |-> <<>>, current |-> <<>>, out |-> <<>>, entered |-> {}, caps |-> FALSE]

\* A value is named by its storage, its version and its place.
NewValue(w, site, storage, source) ==
    [id |-> <<storage, (IF storage \in DOMAIN w.versions THEN w.versions[storage] ELSE 0) + 1, Len(w.values)>>,
     site |-> site, storage |-> storage, source |-> source]
Define(w, value, inputs) ==
    [w EXCEPT !.values = Append(@, value),
              !.edges = @ \cup {<<d, value.id>> : d \in inputs},
              !.versions = (value.storage :> value.id[2]) @@ @,
              !.current = (value.storage :> value.id) @@ @]

\* A phi for every storage of which the blocks before the join hold different
\* definitions; a block that was not walked yet holds none.
Incoming(w, preds, storage) ==
    {w.out[preds[i]][storage] : i \in {j \in DOMAIN preds : preds[j] \in DOMAIN w.out /\ storage \in DOMAIN w.out[preds[j]]}}
JoinStorages(w, preds) == UNION {DOMAIN w.out[preds[i]] : i \in {j \in DOMAIN preds : preds[j] \in DOMAIN w.out}}
\* Mutant: the phi does not become the current definition.
EmitJoinPhisForgets(w, block, preds, cap) ==
    FoldLeft(LAMBDA v, s : IF Len(v.values) >= cap THEN v
                           ELSE [Define(v, NewValue(v, block, s, "phi"), Incoming(v, preds, s)) EXCEPT !.current = v.current],
             w, SetToSeq({s \in JoinStorages(w, preds) : Cardinality(Incoming(w, preds, s)) >= 2}))
EmitJoinPhis(w, block, preds, cap) ==
    FoldLeft(LAMBDA v, s : IF Len(v.values) >= cap THEN v ELSE Define(v, NewValue(v, block, s, "phi"), Incoming(v, preds, s)),
             w, SetToSeq({s \in JoinStorages(w, preds) : Cardinality(Incoming(w, preds, s)) >= 2}))
Enter(w, cfg, block, cap) ==
    IF block = None \/ block \in w.entered THEN w
    ELSE LET v == [w EXCEPT !.entered = @ \cup {block}]
             preds == PredecessorBlocks(cfg, block)
         IN  IF preds = <<>> THEN v ELSE EmitJoinPhis(v, block, preds, cap)

InputDefs(w, ins) ==
    {w.current[s] : s \in (ReadStorages(ins) \cup (IF ins.mread THEN {"mem"} ELSE {})) \cap DOMAIN w.current}
WriteValues(w, ins, inputs, cap) ==
    FoldLeft(LAMBDA v, s : IF Len(v.values) >= cap THEN [v EXCEPT !.caps = TRUE]
                           ELSE Define(v, NewValue(v, ins.va, s, ins.mn), inputs),
             w, WriteStorages(ins))
\* At the cap the walk ends, before the instruction or after its phis.
VisitInstruction(w, cfg, ins, cap) ==
    LET block == BlockFor(cfg, ins.va)
        v == Enter(w, cfg, block, cap)
        u == WriteValues(v, ins, InputDefs(v, ins), cap)
    IN  CASE w.caps -> w
          [] Len(w.values) >= cap -> [w EXCEPT !.caps = TRUE]
          [] Len(v.values) >= cap -> [v EXCEPT !.caps = TRUE]
          [] OTHER -> IF block = None THEN u ELSE [u EXCEPT !.out = (block :> u.current) @@ @]
ProcessFunctionSlice(code, cfg, cap) == FoldLeft(LAMBDA w, ins : VisitInstruction(w, cfg, ins, cap), NewWalk, code)

\* Functions are walked on their own, in parallel; the results are put
\* together in their order.  With targets only those are walked.
BuildSsa(functions, selected, cap) ==
    LET chosen == SelectSeq(functions, LAMBDA f : f.start \in selected)
        walks == [i \in DOMAIN chosen |-> ProcessFunctionSlice(chosen[i].code, chosen[i].cfg, cap)]
    IN  [values |-> FlattenSeq([i \in DOMAIN walks |-> walks[i].values]),
         edges |-> UNION {{<<chosen[i].start, e>> : e \in walks[i].edges} : i \in DOMAIN walks},
         caps_hit |-> \E i \in DOMAIN walks : walks[i].caps]

-----------------------------------------------------------------------------
(***************************************************************************)
(* Value-set analysis (vsa.rs): what registers and stack slots may hold,   *)
(* along a function's instructions or over its control-flow graph with a   *)
(* worklist, a limit of visits per block and a limit of rows.              *)
(*                                                                         *)
(* An abstract value is [kind, lo, hi, poss, stride, target, region]; an   *)
(* instruction is [address, mn, write, reads, imm, slot, mread, mwrite,    *)
(* jump, target, base, disp, rip].  A state is [regs, stack], two functions of  *)
(* what is known.                                                          *)
(***************************************************************************)

CONSTANTS
    Bits,           \* of an address or a register, scaled down
    MaxSet          \* values of a constant_set (8), scaled down

Nothing == -1
Modulus == 2^Bits
NoState == [regs |-> [n \in {} |-> 0], stack |-> [n \in {} |-> 0]]

Known(m, k, v) == [n \in DOMAIN m \cup {k} |-> IF n = k THEN v ELSE m[n]]
Forgotten(m, k) == [n \in DOMAIN m \ {k} |-> m[n]]

Value(kind, lo, hi, poss, target, region) ==
    [kind |-> kind, lo |-> lo, hi |-> hi, poss |-> poss, stride |-> 1, target |-> target, region |-> region]
Constant(v) == Value("constant", v, v, <<v>>, Nothing, "integer")
Unknown == Value("none", Nothing, Nothing, <<>>, Nothing, "unknown")

-----------------------------------------------------------------------------
(* Transfer.                                                                 *)

\* Both ends move and wrap on their own, so an interval may end up reversed.
Arithmetic(source, op, imm) ==
    LET d == IF op = "sub" THEN -imm ELSE imm
        lo == (source.lo + d) % Modulus
        hi == (source.hi + d) % Modulus
    IN  [source EXCEPT !.lo = lo, !.hi = hi, !.kind = IF lo = hi THEN "constant" ELSE "interval", !.poss = <<lo, hi>>]

Shift(source, op, imm) ==
    LET By(v) == IF op = "shl" THEN (v * 2^imm) % Modulus ELSE v \div 2^imm
        a == By(source.lo)
        b == By(source.hi)
    IN  IF imm >= Bits THEN Unknown
        ELSE [source EXCEPT !.lo = Min({a, b}), !.hi = Max({a, b}),
                            !.kind = IF a = b THEN "constant" ELSE "interval", !.poss = <<a, b>>]

PointerOrConstant(strings, v) ==
    IF v \in strings THEN Value("string_pointer", v, v, <<v>>, v, "string") ELSE Constant(v)

\* lea: the low end of the base plus the displacement; zero is no pointer.
PointerExpression(ins, regs, strings) ==
    LET base == IF ins.base \in DOMAIN regs THEN regs[ins.base].lo ELSE 0
        target == (base + ins.disp) % Modulus
    IN  IF target = 0 THEN Unknown
        ELSE Value("pointer_expression", target, target, <<target>>, target, IF target \in strings THEN "string" ELSE "data")

\* value_for_instruction: the first rule that applies; the last one copies the
\* first register read, whatever the operation.
ValueForInstruction(ins, strings, st) ==
    LET first == IF ins.reads = <<>> THEN "" ELSE ins.reads[1]
        source == IF first \in DOMAIN st.regs THEN st.regs[first] ELSE Unknown
        operand == source # Unknown /\ ins.imm # Nothing
        pointer == PointerExpression(ins, st.regs, strings)
    IN  CASE ins.mn = "xor" /\ ins.write # "" /\ ins.write = first -> Constant(0)
          [] ins.mn \in {"add", "sub"} /\ operand -> Arithmetic(source, ins.mn, ins.imm)
          [] ins.mn \in {"shl", "shr", "sar"} /\ operand -> Shift(source, ins.mn, ins.imm)
          [] ins.mn = "and" /\ ins.imm # Nothing -> Value("interval", 0, ins.imm, <<0, ins.imm>>, Nothing, "integer")
          [] ins.mn = "lea" /\ ins.rip = Nothing /\ (ins.base # "" \/ ins.disp # 0) /\ pointer # Unknown -> pointer
          [] ins.rip # Nothing -> PointerOrConstant(strings, ins.rip)
          [] ins.mn \in {"mov", "movzx", "lea"} /\ ins.imm # Nothing -> PointerOrConstant(strings, ins.imm)
          [] ins.mread /\ ins.slot \in DOMAIN st.stack -> st.stack[ins.slot]
          [] OTHER -> source

\* transfer_instruction: [st, loc, value], loc "" when nothing is reported.  A
\* move of an unknown value leaves what was known of the register.
TransferInstruction(ins, strings, st) ==
    LET v == ValueForInstruction(ins, strings, st)
    IN  CASE ins.mwrite /\ ins.slot # Nothing /\ v # Unknown ->
                [st |-> [st EXCEPT !.stack = Known(@, ins.slot, v)], loc |-> "stack", value |-> v]
          [] ~(ins.mwrite /\ ins.slot # Nothing) /\ ins.write # "" /\ v # Unknown ->
                [st |-> [st EXCEPT !.regs = Known(@, ins.write, v)], loc |-> ins.write, value |-> v]
          [] ins.write # "" /\ v = Unknown /\ ins.mn \notin {"mov", "lea", "movzx"} ->
                [st |-> [st EXCEPT !.regs = Forgotten(@, ins.write)], loc |-> "", value |-> v]
          [] OTHER -> [st |-> st, loc |-> "", value |-> v]

Row(ins, done) == [site |-> ins.address, loc |-> done.loc, kind |-> done.value.kind, lo |-> done.value.lo, hi |-> done.value.hi]
CapRow(site, kind) == [site |-> site, loc |-> kind, kind |-> "cap", lo |-> Nothing, hi |-> Nothing]

\* analyze_linear_slice: without a graph, in address order.
AnalyzeLinear(code, strings, cap, budget) ==
    FoldLeft(LAMBDA acc, i :
                 LET done == TransferInstruction(code[i], strings, acc.st)
                 IN  CASE acc.over -> acc
                       [] ~acc.over /\ (Len(acc.rows) >= cap \/ i > budget) ->
                            [acc EXCEPT !.over = TRUE, !.rows = Append(@, CapRow(code[i].address, "analysis_budget"))]
                       [] OTHER -> [acc EXCEPT !.st = done.st, !.rows = IF done.loc = "" THEN @ ELSE Append(@, Row(code[i], done))],
             [st |-> NoState, rows |-> <<>>, over |-> FALSE], [i \in DOMAIN code |-> i]).rows

-----------------------------------------------------------------------------
(* Join and refinement.                                                      *)

PossibleValues(v) ==
    CASE v.poss # <<>> -> v.poss
      [] v.poss = <<>> /\ v.lo = v.hi -> <<v.lo>>
      [] OTHER -> <<v.lo, v.hi>>

Gcd[a \in Nat, b \in Nat] == IF b = 0 THEN a ELSE Gcd[b, a % b]
StrideFor(values) ==
    Max({1, FoldLeft(LAMBDA g, i : Gcd[g, values[i + 1] - values[i]], 0, [i \in 1..(Len(values) - 1) |-> i])})

\* Equal values stay; others become the set of both, a constant_set while small.
JoinValues(l, r) ==
    LET values == SetToSortSeq(ToSet(PossibleValues(l)) \cup ToSet(PossibleValues(r)), <)
    IN  IF l = r THEN l
        ELSE [kind |-> IF Len(values) > 1 /\ Len(values) <= MaxSet THEN "constant_set" ELSE "interval",
              lo |-> values[1], hi |-> values[Len(values)], poss |-> values, stride |-> StrideFor(values),
              target |-> IF l.target = r.target THEN l.target ELSE Nothing,
              region |-> IF l.region = r.region THEN l.region ELSE "unknown"]

JoinMaps(l, r) ==
    [k \in DOMAIN l \cup DOMAIN r |->
        CASE k \in DOMAIN l \cap DOMAIN r -> JoinValues(l[k], r[k])
          [] k \in DOMAIN l \ DOMAIN r -> l[k]
          [] OTHER -> r[k]]
\* What only one side knows is kept.
JoinStates(l, r) == [regs |-> JoinMaps(l.regs, r.regs), stack |-> JoinMaps(l.stack, r.stack)]

RefineUpper(st, reg, hi) ==
    IF reg \notin DOMAIN st.regs THEN st
    ELSE LET v == st.regs[reg]
             top == Min({v.hi, hi})
         IN  [st EXCEPT !.regs[reg] = [v EXCEPT !.kind = IF v.lo = top THEN "constant" ELSE "interval",
                 !.lo = Min({v.lo, top}), !.hi = top, !.poss = IF v.lo = top THEN <<v.lo>> ELSE <<v.lo, top>>,
                 !.region = IF @ = "unknown" THEN "integer" ELSE @]]
RefineLower(st, reg, lo) ==
    IF reg \notin DOMAIN st.regs THEN st
    ELSE LET v == st.regs[reg]
             bottom == Max({v.lo, lo})
         IN  [st EXCEPT !.regs[reg] = [v EXCEPT !.kind = IF bottom = v.hi THEN "constant" ELSE "interval",
                 !.lo = Min({bottom, v.hi}), !.hi = Max({v.hi, bottom}),
                 !.poss = IF bottom = v.hi THEN <<bottom>> ELSE <<bottom, v.hi>>]]
RefineExact(st, reg, v) ==
    IF reg \notin DOMAIN st.regs THEN st
    ELSE [st EXCEPT !.regs[reg] = [@ EXCEPT !.kind = "constant", !.lo = v, !.hi = v, !.poss = <<v>>,
                                            !.target = Nothing, !.region = "integer"]]

\* refine_state_for_edge: the last direct branch of the block and the comparison
\* with an immediate before it.
RefineForEdge(st, block, edge) ==
    LET jumps == {i \in DOMAIN block : block[i].jump /\ block[i].target # Nothing}
        j == Max(jumps)
        cmps == {i \in 1..(j - 1) : block[i].mn \in {"cmp", "test"}}
        c == block[Max(cmps)]
        reg == c.reads[1]
        taken == block[j].target = edge.to
        fall == edge.type = "fallthrough" /\ ~taken
        mn == block[j].mn
    IN  IF jumps = {} THEN st
        ELSE IF cmps = {} THEN st
        ELSE IF c.reads = <<>> \/ c.imm = Nothing THEN st
        ELSE CASE mn = "jbe" -> IF taken THEN RefineUpper(st, reg, c.imm)
                                ELSE IF fall THEN RefineLower(st, reg, c.imm + 1) ELSE st
               [] mn = "jb" -> IF taken THEN RefineUpper(st, reg, Max({c.imm - 1, 0}))
                               ELSE IF fall THEN RefineLower(st, reg, c.imm) ELSE st
               [] mn = "jae" -> IF taken THEN RefineLower(st, reg, c.imm)
                                ELSE IF fall THEN RefineUpper(st, reg, Max({c.imm - 1, 0})) ELSE st
               [] mn = "ja" -> IF taken THEN RefineLower(st, reg, c.imm + 1)
                               ELSE IF fall THEN RefineUpper(st, reg, c.imm) ELSE st
               [] mn = "je" -> IF taken THEN RefineExact(st, reg, c.imm) ELSE st
               [] OTHER -> st

-----------------------------------------------------------------------------
(* The worklist.                                                             *)

\* Blocks nothing else leads to, or the first when there is none.
EntryBlocks(cfg) ==
    LET entries == SelectSeq(cfg.order, LAMBDA b : \A e \in cfg.edges : e.to = b => e.from = b)
    IN  IF entries = <<>> THEN <<cfg.order[1]>> ELSE entries

StateOf(w, b) == IF b \in DOMAIN w.in THEN w.in[b] ELSE NoState

\* The edges out of a block, by target then type.
OutEdges(cfg, b) ==
    SetToSortSeq({e \in cfg.edges : e.from = b}, LAMBDA x, y : x.to < y.to \/ (x.to = y.to /\ x.type = "branch" /\ y.type # "branch"))

\* A block's instructions until the row limit.
BlockRows(block, strings, cap, w, st) ==
    FoldLeft(LAMBDA acc, ins :
                 LET done == TransferInstruction(ins, strings, acc.st)
                 IN  CASE acc.over -> acc
                       [] ~acc.over /\ Len(acc.rows) >= cap ->
                            [acc EXCEPT !.over = TRUE, !.rows = Append(@, CapRow(ins.address, "analysis_budget"))]
                       [] OTHER -> [acc EXCEPT !.st = done.st, !.rows = IF done.loc = "" THEN @ ELSE Append(@, Row(ins, done))],
             [st |-> st, rows |-> w.rows, over |-> FALSE], block)

\* A successor is visited again when its state changes; a block that leads to
\* itself always is.
Propagate(cfg, w, b, st) ==
    FoldLeft(LAMBDA acc, e :
                 LET old == StateOf(acc, e.to)
                     joined == JoinStates(old, RefineForEdge(st, cfg.code[b], e))
                 IN  IF old # joined \/ e.to = b
                     THEN [acc EXCEPT !.in = Known(@, e.to, joined), !.work = Append(@, e.to)]
                     ELSE acc,
             w, OutEdges(cfg, b))

\* One block off the worklist.
VisitBlock(cfg, strings, cap, limit, w) ==
    LET b == Head(w.work)
        popped == [w EXCEPT !.work = Tail(@), !.visits = Known(@, b, IF b \in DOMAIN @ THEN @[b] + 1 ELSE 1)]
        run == BlockRows(cfg.code[b], strings, cap, w, StateOf(w, b))
    IN  CASE Len(w.rows) >= cap -> [w EXCEPT !.work = <<>>, !.rows = Append(@, CapRow(b, "analysis_budget"))]
          [] Len(w.rows) < cap /\ popped.visits[b] > limit ->
                IF b \in w.capped THEN popped
                ELSE [popped EXCEPT !.capped = @ \cup {b}, !.rows = Append(@, CapRow(b, "loop_limit"))]
          [] OTHER -> IF run.over THEN [popped EXCEPT !.work = <<>>, !.rows = run.rows]
                      ELSE Propagate(cfg, [popped EXCEPT !.rows = run.rows], b, run.st)

RECURSIVE WorkList(_, _, _, _, _)
WorkList(cfg, strings, cap, limit, w) ==
    IF w.work = <<>> THEN w ELSE WorkList(cfg, strings, cap, limit, VisitBlock(cfg, strings, cap, limit, w))

AnalyzeCfgFunction(cfg, strings, cap, limit) ==
    LET entries == EntryBlocks(cfg)
    IN  WorkList(cfg, strings, cap, limit,
                 [work |-> entries, in |-> [b \in ToSet(entries) |-> NoState], visits |-> [b \in {} |-> 0],
                  capped |-> {}, rows |-> <<>>])

-----------------------------------------------------------------------------
(* The strings that reach the arguments of API calls (dataflow.rs): how a     *)
(* call site gets the name of an API, how strings move through registers and  *)
(* stack slots along the code, and the flows reported for each call.          *)
(*                                                                            *)
(* An instruction is [va, mn, write, reads, mread, mwrite, slot, rip, imm,    *)
(* call], with "" or -1 for what it has not.  Strings is a function from      *)
(* addresses to texts.                                                        *)

CONSTANTS
    ArgRegisters,       \* the registers of the arguments an API takes a text in, in their order
    Categorised(_),     \* whether import_categories knows the API
    Tagged(_),          \* whether classify_string has anything to say of a text
    HeuristicStrings    \* the strings of a function that are tried for a call

Found(x) == <<x>>
Missing == <<>>
At(f, x) == IF x \in DOMAIN f THEN Found(f[x]) ELSE Missing
Without(f, x) == [y \in DOMAIN f \ {x} |-> f[y]]

-----------------------------------------------------------------------------
(* The API of a call site.                                                    *)

ImportCalls(xrefs) ==
    LET rows == {x \in xrefs : x.kind = "import" /\ x.role \in {"call", "operand"}}
    IN  [va \in {x.from : x \in rows} |-> (CHOOSE x \in rows : x.from = va).symbol]
\* A jump through an import is a thunk.
JmpAddresses(code) == {ins.va : ins \in {i \in Range(code) : ~i.call /\ i.mn = "jmp"}}
ThunkToImport(code, xrefs) ==
    LET rows == {x \in xrefs : x.kind = "import" /\ x.role = "operand" /\ x.from \in JmpAddresses(code)}
    IN  [va \in {x.from : x \in rows} |-> (CHOOSE x \in rows : x.from = va).symbol]
\* An instruction that loads an import into a register.
MovToImport(code, xrefs) ==
    LET loads == {ins.va : ins \in {i \in Range(code) : ~i.call /\ i.write # ""}} \ JmpAddresses(code)
        rows == {x \in xrefs : x.kind = "import" /\ x.role = "operand" /\ x.from \in loads}
    IN  [va \in {x.from : x \in rows} |-> (CHOOSE x \in rows : x.from = va).symbol]
\* What was resolved counts first, then the import at the site, then the
\* thunk it calls.
CallBySite(code, xrefs, resolved) ==
    LET thunks == ThunkToImport(code, xrefs)
        calls == {x \in xrefs : x.kind = "code" /\ x.role = "call" /\ x.target \in DOMAIN thunks}
    IN  resolved @@ ImportCalls(xrefs) @@
        [va \in {x.from : x \in calls} |-> thunks[(CHOOSE x \in calls : x.from = va).target]]

\* Any other write of the register ends what it is known to hold.
TrackImport(held, ins, movs) ==
    IF ins.write = "" THEN held
    ELSE IF ins.va \in DOMAIN movs THEN (ins.write :> movs[ins.va]) @@ held ELSE Without(held, ins.write)
ResolveCall(ins, bySite, held) ==
    IF ins.va \in DOMAIN bySite THEN Found(bySite[ins.va])
    ELSE IF ins.reads = <<>> THEN Missing ELSE At(held, Head(ins.reads))

-----------------------------------------------------------------------------
(* Strings in registers and slots.  A tracked value is [value, from].         *)

StringValue(target, strings, va) == IF target \in DOMAIN strings THEN Found([value |-> strings[target], from |-> va]) ELSE Missing
FirstRead(ins, regs) == IF ins.reads = <<>> THEN Missing ELSE At(regs, Head(ins.reads))
StoreSlot(ins, st) ==
    IF ins.mwrite /\ ins.slot # "" /\ FirstRead(ins, st.regs) # Missing
    THEN [st EXCEPT !.stack = (ins.slot :> FirstRead(ins, st.regs)[1]) @@ @] ELSE st

\* What a write gives the register: a string its operand names, what the slot
\* it reads holds, else what its first operand holds.
ValueOf(ins, strings, st) ==
    LET fromSlot == IF ins.mread /\ ins.slot # "" THEN At(st.stack, ins.slot) ELSE Missing
        tries == SelectSeq(<<StringValue(ins.rip, strings, ins.va), StringValue(ins.imm, strings, ins.va), fromSlot, FirstRead(ins, st.regs)>>,
                           LAMBDA v : v # Missing)
    IN  IF tries = <<>> THEN Missing ELSE Head(tries)
\* A plain move of something unknown leaves what the register was thought to
\* hold.
UpdateState(ins, strings, st) ==
    IF ins.mn = "xor"
    THEN IF ins.write # "" /\ ins.write \in Range(ins.reads) THEN [st EXCEPT !.regs = Without(@, ins.write)] ELSE st
    ELSE LET s == StoreSlot(ins, st)
             v == ValueOf(ins, strings, s)
         IN  IF ins.write = "" THEN s
             ELSE IF v # Missing THEN [s EXCEPT !.regs = (ins.write :> v[1]) @@ @]
             ELSE IF ins.mn \in {"mov", "lea", "movzx", "movsxd"} THEN s
             ELSE [s EXCEPT !.regs = Without(@, ins.write)]

-----------------------------------------------------------------------------
(* The flows.                                                                 *)

\* The last value indexed for the register at or before the call; the index
\* keeps the order of the rows, which is that of their addresses.
LatestIndexedValue(values, register, va) ==
    LET rows == SelectSeq(values, LAMBDA v : v.location = register /\ v.at <= va)
    IN  IF rows = <<>> THEN Missing ELSE Found(Last(rows))

ProvenFlows(ins, api, values, st) ==
    LET regs == ArgRegisters[api]
        text(r) == IF LatestIndexedValue(values, r, ins.va) # Missing
                   THEN Found(LatestIndexedValue(values, r, ins.va)[1].value)
                   ELSE IF r \in DOMAIN st.regs THEN Found(st.regs[r].value) ELSE Missing
        known == SelectSeq(regs, LAMBDA r : text(r) # Missing)
    IN  [i \in DOMAIN known |-> [site |-> ins.va, api |-> api, register |-> known[i], value |-> text(known[i])[1], mode |-> "proven"]]
\* Without a proven flow, the first strings of the function that mean something.
HeuristicFlows(function, ins, api) ==
    LET tried == SubSeq(function.strings, 1, IF Len(function.strings) < HeuristicStrings THEN Len(function.strings) ELSE HeuristicStrings)
        kept == SelectSeq(tried, LAMBDA s : Tagged(s))
    IN  IF ~Categorised(api) THEN <<>>
        ELSE [i \in DOMAIN kept |-> [site |-> ins.va, api |-> api, register |-> "", value |-> kept[i], mode |-> "heuristic"]]

Step(w, function, ins, env) ==
    LET st == UpdateState(ins, env.strings, w.st)
        held == TrackImport(w.held, ins, env.movs)
        api == ResolveCall(ins, env.bySite, held)
        proven == ProvenFlows(ins, api[1], env.values, st)
    IN  IF ~ins.call \/ api = Missing THEN [w EXCEPT !.st = st, !.held = held]
        ELSE IF proven # <<>> THEN [w EXCEPT !.st = st, !.held = held, !.rows = @ \o proven]
        ELSE [w EXCEPT !.st = st, !.held = held, !.rows = @ \o HeuristicFlows(function, ins, api[1]),
                       !.capped = @ \/ (Categorised(api[1]) /\ Len(function.strings) > HeuristicStrings)]
BuildApiFlows(function, xrefs, resolved, strings, values) ==
    LET env == [strings |-> strings, values |-> values, movs |-> MovToImport(function.code, xrefs),
                bySite |-> CallBySite(function.code, xrefs, resolved)]
    IN  FoldLeft(LAMBDA w, ins : Step(w, function, ins, env),
                 [st |-> [regs |-> <<>>, stack |-> <<>>], held |-> <<>>, rows |-> <<>>, capped |-> FALSE], function.code)

-----------------------------------------------------------------------------
(* The selection of the functions that are analysed again (second_pass.rs):   *)
(* candidates from what the first pass left open, the best of them up to the  *)
(* budget, and a row for every uncertainty that remains.                      *)

CONSTANTS
    ReasonRank(_),      \* the place of a reason in the order of their names
    TargetCap           \* the targets of the budget (512, 2048 or no limit)

NoSite == -1
Candidate(function, reason, priority, site, uncertainty) ==
    [function |-> function, reason |-> reason, priority |-> priority, site |-> site, uncertainty |-> uncertainty]

-----------------------------------------------------------------------------
(* The candidates.                                                            *)

\* Indirect calls and jumps that are neither imports nor resolved.
UnresolvedSites(x) ==
    {ins \in Range(x.ir) : (ins.call \/ ins.jump) /\ ~ins.direct /\ ins.va \notin x.imports /\ ins.va \notin x.resolved}
UnresolvedIndirectCandidates(x) ==
    LET open == SelectSeq(x.ir, LAMBDA ins : ins \in UnresolvedSites(x))
    IN  [i \in DOMAIN open |->
            IF open[i].call THEN Candidate(open[i].function, "unresolved_indirect_call", 100, open[i].va, "indirect_call_unresolved")
            ELSE Candidate(open[i].function, "unresolved_indirect_jump", 90, open[i].va, "indirect_jump_unresolved")]

ObfuscationCandidates(x) ==
    [i \in DOMAIN x.hints |->
        LET h == x.hints[i]
        IN  Candidate(h.function, h.kind, IF h.kind = "api_hash_candidate" THEN 95 ELSE 55, h.site,
                      CASE h.kind = "api_hash_candidate" -> "api_hash_unresolved"
                        [] h.kind = "encoded_blob_hint" -> "packed_or_encoded_blob"
                        [] OTHER -> "obfuscation_candidate_unresolved")]
BehaviorFlowCandidates(x) ==
    LET flows == SelectSeq(x.flows, LAMBDA f : f.malware)
    IN  [i \in DOMAIN flows |->
            Candidate(flows[i].function, "malware_relevant_api_flow",
                      CASE flows[i].relevance = "high" -> 85 [] flows[i].relevance = "medium" -> 70 [] OTHER -> 45, flows[i].site, "")]
LowConfidenceHighValueCandidates(x) ==
    LET rows == SelectSeq(x.dossiers, LAMBDA d : d.low /\ d.score >= 50)
    IN  [i \in DOMAIN rows |-> Candidate(rows[i].function, "high_priority_low_confidence", rows[i].score, NoSite, "")]
ClassDispatchCandidates(x) ==
    LET rows == SelectSeq(x.structured, LAMBDA s : s.switches # <<>>)
    IN  [i \in DOMAIN rows |->
            Candidate(rows[i].function, "unclear_dispatch_structure", IF rows[i].function \in x.recovered THEN 75 ELSE 60,
                      Head(rows[i].switches), "")]

\* Of candidates of one function, reason and site the first stays, whatever
\* the priorities.
DedupeCandidates(rows) ==
    FoldLeft(LAMBDA kept, c : IF \E i \in DOMAIN kept : <<kept[i].function, kept[i].reason, kept[i].site>> = <<c.function, c.reason, c.site>>
                              THEN kept ELSE Append(kept, c), <<>>, rows)
AutoCandidates(x) ==
    DedupeCandidates(UnresolvedIndirectCandidates(x) \o ObfuscationCandidates(x) \o BehaviorFlowCandidates(x) \o
                     LowConfidenceHighValueCandidates(x) \o ClassDispatchCandidates(x))
AllFunctionCandidates(x) == [i \in DOMAIN x.functions |-> Candidate(x.functions[i], "policy_all", 1, NoSite, "")]

-----------------------------------------------------------------------------
(* The pass.                                                                  *)

\* By priority, then function, reason and site.
Before(a, b) ==
    \/ a.priority > b.priority
    \/ a.priority = b.priority /\
       \/ a.function < b.function
       \/ a.function = b.function /\
          \/ ReasonRank(a.reason) < ReasonRank(b.reason)
          \/ ReasonRank(a.reason) = ReasonRank(b.reason) /\ a.site < b.site
Functions_(rows) == {rows[i].function : i \in DOMAIN rows}

SeverityForReason(reason) ==
    CASE reason \in {"unresolved_indirect_call", "api_hash_candidate"} -> "high"
      [] reason \in {"unresolved_indirect_jump", "malware_relevant_api_flow"} -> "medium"
      [] OTHER -> "low"
Uncertainties(targets) ==
    LET open == SelectSeq(targets, LAMBDA t : t.uncertainty # "")
    IN  [i \in DOMAIN open |-> [function |-> open[i].function, site |-> open[i].site, reason |-> open[i].uncertainty,
                                severity |-> SeverityForReason(open[i].reason)]]

Disabled == [status |-> "disabled", eligible |-> 0, analyzed |-> 0, skipped |-> 0, targets |-> <<>>, uncertainties |-> <<>>]
Status(caps) == IF caps THEN "completed_with_caps" ELSE "completed"
CapsHit(candidates) == Len(candidates) > TargetCap
RunSecondPass(x) ==
    LET candidates == SortSeq(IF x.policy = "all" THEN AllFunctionCandidates(x) ELSE AutoCandidates(x), Before)
        caps == CapsHit(candidates)
        targets == SubSeq(candidates, 1, IF Len(candidates) < TargetCap THEN Len(candidates) ELSE TargetCap)
        eligible == Cardinality(Functions_(candidates))
        analyzed == Cardinality(Functions_(targets))
    IN  IF x.policy = "off" THEN Disabled
        ELSE [status |-> Status(caps), eligible |-> eligible, analyzed |-> analyzed,
              skipped |-> IF caps THEN eligible - analyzed ELSE 0,
              targets |-> targets, uncertainties |-> Uncertainties(targets)]
=============================================================================
