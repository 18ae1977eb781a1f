----------------------------- MODULE FuzzInputs -----------------------------
(* What the fuzz loop tries and what it aims at.                             *)
EXTENDS Integers, Sequences, FiniteSets, SequencesExt, FiniteSetsExt, Functions

-----------------------------------------------------------------------------
(* The mutation primitives of the fuzz loop (fuzzer/mutators.rs).  A          *)
(* primitive is the set of buffers its random choices can lead to; an index   *)
(* or a slice outside the buffer is the outcome Panic.                        *)

CONSTANTS
    ByteSize,        \* the values of a byte (256)
    MaxStack,        \* the operations stacked by one havoc (4)
    MaxRun,          \* the bytes one insertion or deletion touches (8)
    MaxDelta,        \* the largest arithmetic step (35)
    ValueWidth,      \* the bytes of a boundary value (8)
    BoundaryTable,   \* the boundary values, by the low bits of the seed
    Panic            \* a value that is no buffer

Bytes == 0..(ByteSize - 1)
MinOf(a, b) == IF a < b THEN a ELSE b
\* Random index below n; 0 when there is none.
Rng(n) == IF n = 0 THEN {0} ELSE 0..(n - 1)

\* Offsets count from 0, as in the code.
Insert(buf, pos, bytes) ==
    IF pos > Len(buf) THEN Panic ELSE SubSeq(buf, 1, pos) \o bytes \o SubSeq(buf, pos + 1, Len(buf))
Drain(buf, pos, count) ==
    IF pos + count > Len(buf) THEN Panic ELSE SubSeq(buf, 1, pos) \o SubSeq(buf, pos + count + 1, Len(buf))
CopyAt(buf, pos, bytes) ==
    IF pos + Len(bytes) > Len(buf) THEN Panic
    ELSE SubSeq(buf, 1, pos) \o bytes \o SubSeq(buf, pos + Len(bytes) + 1, Len(buf))

-----------------------------------------------------------------------------
(* Havoc.                                                                     *)

\* A byte replaced by one of f's values; nothing for an empty buffer.
AtByte(buf, f(_)) ==
    IF buf = <<>> THEN {buf}
    ELSE UNION {{CopyAt(buf, i, <<b>>) : b \in f(buf[i + 1])} : i \in Rng(Len(buf))}

RECURSIVE Pow2(_)
Pow2(n) == IF n = 0 THEN 1 ELSE 2 * Pow2(n - 1)
FlipBit(b, bit) == IF (b \div Pow2(bit)) % 2 = 1 THEN b - Pow2(bit) ELSE b + Pow2(bit)
HavocByteFlip(buf) == AtByte(buf, LAMBDA b : {FlipBit(b, bit) : bit \in {n \in 0..7 : Pow2(n) < ByteSize}})

HavocByteArith(buf) ==
    AtByte(buf, LAMBDA b : {(b + d) % ByteSize : d \in 1..MaxDelta} \cup {(b - d) % ByteSize : d \in 1..MaxDelta})

\* The exclusive or with any byte is any byte.
HavocByteXor(buf) == AtByte(buf, LAMBDA b : Bytes)
HavocByteOverwrite(buf) == AtByte(buf, LAMBDA b : Bytes)

HavocInsert(buf) ==
    {Insert(buf, pos, bytes) : pos \in Rng(Len(buf) + 1), bytes \in UNION {[1..n -> Bytes] : n \in 1..MaxRun}}

HavocDelete(buf) ==
    IF Len(buf) < 2 THEN {buf}
    ELSE {Drain(buf, pos, MinOf(count, Len(buf) - pos)) : pos \in Rng(Len(buf)), count \in 1..MaxRun}

HavocChunkSwap(buf) ==
    IF Len(buf) < 4 THEN {buf}
    ELSE UNION {{CopyAt(buf, dst, SubSeq(buf, src + 1, src + chunk)) :
                    src \in Rng(Len(buf) - chunk + 1), dst \in Rng(Len(buf) - chunk + 1)} : chunk \in 1..(Len(buf) \div 2)}

HavocOp(buf) ==
    IF buf = Panic THEN {Panic}
    ELSE HavocByteFlip(buf) \cup HavocByteArith(buf) \cup HavocByteXor(buf) \cup HavocByteOverwrite(buf) \cup
         HavocInsert(buf) \cup HavocDelete(buf) \cup HavocChunkSwap(buf)
ApplyHavoc(input) ==
    LET Stack[n \in 1..MaxStack] == UNION {HavocOp(b) : b \in IF n = 1 THEN {input} ELSE Stack[n - 1]}
    IN  UNION {Stack[n] : n \in 1..MaxStack}

-----------------------------------------------------------------------------
(* Splice, dictionary and boundary values.  No outcome at all is "None".      *)

\* A prefix of the input that lacks at least its last byte, and a suffix of an
\* entry of the pool; an empty entry gives nothing.
SpliceFrom(input, pool) ==
    [none |-> pool = <<>> \/ \E i \in DOMAIN pool : pool[i] = <<>>,
     some |-> UNION {{SubSeq(input, 1, a) \o SubSeq(pool[i], b + 1, Len(pool[i])) : a \in Rng(Len(input)), b \in Rng(Len(pool[i]))} :
                        i \in {j \in DOMAIN pool : pool[j] # <<>>}}]

\* A token is inserted, or written over the input where it fits.
ApplyDict(input, dict) ==
    [none |-> dict = <<>>,
     some |-> UNION {UNION {{Insert(input, pos, dict[i])} \cup
                            (IF pos + Len(dict[i]) > Len(input) THEN {} ELSE {CopyAt(input, pos, dict[i])}) :
                            pos \in IF input = <<>> THEN {0} ELSE Rng(Len(input) + 1)} : i \in DOMAIN dict}]

\* By the low three bits of the seed; the last of them keeps the seed.
BoundaryValue(seed) == IF (seed % 8) + 1 \in DOMAIN BoundaryTable THEN BoundaryTable[(seed % 8) + 1] ELSE seed
RECURSIVE ToLeBytes(_, _)
ToLeBytes(v, n) == IF n = 0 THEN <<>> ELSE <<v % ByteSize>> \o ToLeBytes(v \div ByteSize, n - 1)
RECURSIVE SeedCount(_)
SeedCount(n) == IF n = 0 THEN 1 ELSE ByteSize * SeedCount(n - 1)

\* An input that is too short stays as it is.
ApplyBoundaryValue(input) ==
    IF Len(input) < ValueWidth THEN {input}
    ELSE {CopyAt(input, pos, ToLeBytes(BoundaryValue(seed), ValueWidth)) :
            pos \in Rng(Len(input) - (ValueWidth - 1)), seed \in 0..(SeedCount(ValueWidth) - 1)}

-----------------------------------------------------------------------------
Labelled(bufs, label) == {[out |-> b, label |-> label] : b \in bufs}
\* A mutator without what it needs falls back on havoc, and the result says so.
ApplyMutation(input, mutator, dict, pool) ==
    LET tried == IF mutator = "splice" THEN SpliceFrom(input, pool) ELSE ApplyDict(input, dict)
    IN  CASE mutator \in {"havoc", "cmp_guided"} -> Labelled(ApplyHavoc(input), "havoc")
          [] mutator = "boundary_value" -> Labelled(ApplyBoundaryValue(input), "boundary_value")
          [] OTHER -> Labelled(tried.some, mutator) \cup
                      (IF tried.none THEN Labelled(ApplyHavoc(input), "havoc") ELSE {})

Truncate(buf, max_len) == IF buf = Panic THEN Panic ELSE SubSeq(buf, 1, MinOf(Len(buf), max_len))
\* One mutator picked at random (their weights aside), the result cut to the
\* longest input.
ApplyRandomMutation(input, dict, pool, max_len) ==
    UNION {{[r EXCEPT !.out = Truncate(r.out, max_len)] : r \in ApplyMutation(input, m, dict, pool)} :
            m \in {"havoc", "boundary_value", "splice", "dict", "cmp_guided"}}

-----------------------------------------------------------------------------
(* What directed fuzzing aims at (fuzzer/targets.rs) and how far a reached    *)
(* function is from it in the call graph (fuzzer/reachability.rs).            *)

CONSTANTS MaxDist,    \* reachability.rs MAX_DIST
          MaxBonus    \* the bonus of a function that is a target

None == -1

(***************************** targets.rs *************************************)
KindOrder == <<"vuln_candidate", "catch_handler", "destructor", "unsafe_block", "user_defined">>

\* Priorities in hundredths.
VulnPriority(confidence) ==
    CASE confidence = "high" -> 95
      [] confidence = "medium" -> 80
      [] OTHER -> 60

CatchPriority(catch) ==
    CASE catch = "typed_named" -> 75
      [] catch = "typed" -> 65
      [] catch = "ellipsis" -> 55
      [] OTHER -> 50

\* A candidate with neither a function nor a site is no target.
TargetFromVuln(vc) ==
    LET va == IF vc.function # None THEN vc.function ELSE vc.site
    IN  IF va = None THEN <<>>
        ELSE <<[kind |-> "vuln_candidate", va |-> va, name |-> "", priority |-> VulnPriority(vc.confidence), evidence |-> vc.evidence]>>

TargetFromCatch(h) ==
    <<[kind |-> "catch_handler", va |-> h.va, name |-> "", priority |-> CatchPriority(h.catch),
       evidence |-> IF h.catch \in {"typed", "typed_named"} THEN <<h.va, h.descriptor>> ELSE <<h.va>>]>>

TargetsFromClass(c) ==
    [i \in DOMAIN c.destructors |->
        [kind |-> "destructor", va |-> c.destructors[i], name |-> c.name, priority |-> 65, evidence |-> <<c.destructors[i]>>]]

TargetFromUser(u) == <<[kind |-> "user_defined", va |-> u.va, name |-> u.name, priority |-> 100, evidence |-> <<u.va>>]>>

\* acc holds at most one target of a kind at an address.
SameTarget(t, u) == t.kind = u.kind /\ t.va = u.va
MergedTarget(old, t) ==
    [old EXCEPT !.priority = IF t.priority > old.priority THEN t.priority ELSE old.priority,
                !.evidence = old.evidence \o t.evidence,
                !.name = IF old.name = "" THEN t.name ELSE old.name]
MergeTarget(acc, t) ==
    LET same == {old \in acc : SameTarget(old, t)}
    IN  (acc \ same) \cup {IF same = {} THEN t ELSE MergedTarget(CHOOSE old \in same : TRUE, t)}

Rank(kind) == CHOOSE i \in DOMAIN KindOrder : KindOrder[i] = kind
TargetBefore(t, u) == Rank(t.kind) < Rank(u.kind) \/ (t.kind = u.kind /\ t.va < u.va)

DeriveTargets(facts) ==
    LET found == FlattenSeq([i \in DOMAIN facts.vulns |-> TargetFromVuln(facts.vulns[i])]) \o
                 FlattenSeq([i \in DOMAIN facts.handlers |-> TargetFromCatch(facts.handlers[i])]) \o
                 FlattenSeq([i \in DOMAIN facts.classes |-> TargetsFromClass(facts.classes[i])]) \o
                 FlattenSeq([i \in DOMAIN facts.users |-> TargetFromUser(facts.users[i])])
    IN  SetToSortSeq(FoldLeft(MergeTarget, {}, found), TargetBefore)

(*************************** reachability.rs **********************************)
CallWeight(call) ==
    CASE call.confidence = "high" -> 1
      [] call.confidence = "medium" -> 2
      [] OTHER -> IF call.kind \in {"tail", "jump"} THEN 3 ELSE 2

\* The callers of a function with the weight of each call, in the order of the
\* records; a call with no known callee is left out.
ReverseCallgraph(calls, va) ==
    LET known == SelectSeq(calls, LAMBDA c : c.callee = va)
    IN  [i \in DOMAIN known |-> [caller |-> known[i].caller, weight |-> CallWeight(known[i])]]

\* Mutant: the first distance found for a function stands.
RelaxOnce(current, state, pred) ==
    LET new == current + pred.weight
    IN  IF new > MaxDist \/ pred.caller \in DOMAIN state.dist THEN state
        ELSE [dist |-> [v \in DOMAIN state.dist \cup {pred.caller} |-> IF v = pred.caller THEN new ELSE state.dist[v]],
              queue |-> Append(state.queue, pred.caller)]
Relax(current, state, pred) ==
    LET new == current + pred.weight
    IN  IF new > MaxDist \/ (pred.caller \in DOMAIN state.dist /\ new >= state.dist[pred.caller]) THEN state
        ELSE [dist |-> [v \in DOMAIN state.dist \cup {pred.caller} |-> IF v = pred.caller THEN new ELSE state.dist[v]],
              queue |-> Append(state.queue, pred.caller)]

\* The functions from which start is called, each with its distance; a function
\* whose distance gets shorter is queued again.
RECURSIVE Backward(_, _)
Backward(calls, state) ==
    IF state.queue = <<>> THEN state.dist
    ELSE LET node == Head(state.queue)
             Step(s, pred) == Relax(state.dist[node], s, pred)
         IN  Backward(calls, FoldLeft(Step, [state EXCEPT !.queue = Tail(@)], ReverseCallgraph(calls, node)))
BfsBackward(start, calls) == Backward(calls, [dist |-> [v \in {start} |-> 0], queue |-> <<start>>])

BuildReachability(calls, targets) ==
    [targets |-> [i \in DOMAIN targets |-> targets[i].va],
     distances |-> [va \in {targets[i].va : i \in DOMAIN targets} |-> BfsBackward(va, calls)]]

Nowhere == [target |-> None, distance |-> None]
Distance(graph, fn, target) ==
    IF target \in DOMAIN graph.distances /\ fn \in DOMAIN graph.distances[target] THEN graph.distances[target][fn] ELSE None

\* The first of the nearest: a later one replaces it only if it is nearer.
Nearer(best, next) ==
    IF next.distance = None \/ (best.distance # None /\ best.distance <= next.distance) THEN best ELSE next
ClosestTarget(graph, fn) ==
    FoldLeft(LAMBDA best, t : Nearer(best, [target |-> t, distance |-> Distance(graph, fn, t)]), Nowhere, graph.targets)

Observe(graph, reached) ==
    LET closest == FoldLeft(LAMBDA best, fn : Nearer(best, ClosestTarget(graph, fn)), Nowhere, reached)
    IN  [closest |-> closest.target, distance |-> closest.distance,
         newly |-> {reached[i] : i \in DOMAIN reached} \cap {graph.targets[i] : i \in DOMAIN graph.targets}]

BonusFor(graph, reached) ==
    LET near == {ClosestTarget(graph, reached[i]).distance : i \in DOMAIN reached} \ {None}
    IN  IF near = {} THEN 0 ELSE MaxBonus - Min({Min(near), MaxBonus})

=============================================================================
