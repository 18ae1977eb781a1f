----------------------- MODULE ConcolicEngines_proofs -----------------------
(***************************************************************************)
(* Proofs about the engines a concolic session drives: the constraint      *)
(* slicer (Slicer), the ladder of solver backends (SolveLadder), the       *)
(* backlog of branches to flip (ConcolicBacklog) and the solver of the     *)
(* first tier (PureFastSolver), for any path, any list of backends, any    *)
(* keys, any capacity and any constant of a branch.                        *)
(***************************************************************************)
EXTENDS Slicer, SolveLadder, ConcolicBacklog, TLAPS,
        SequenceTheorems, FunctionTheorems, FiniteSetTheorems

-----------------------------------------------------------------------------
(* Slicer: a reported fixpoint is closed, the slice is minimal, and a model *)
(* of a closed slice extends to a model of the whole path.                  *)

(* The inductive invariant.  While a pass has not grown, every constraint   *)
(* it has passed is either in the slice or disjoint from it; the last pass  *)
(* has passed them all.                                                     *)

Sound ==
    /\ tvars \subseteq reachable
    /\ \A c \in included : cvars[c] \subseteq reachable /\ cvars[c] \cap reachable # {}

PassedOver ==
    ~grew => \A c \in Path : c < pos => c \in included \/ cvars[c] \cap reachable = {}

IInv == TypeOK /\ Sound /\ PassedOver /\ FixpointIsClosed /\ SliceMinimal

LEMMA InitIInv == Init => IInv
<1> SUFFICES ASSUME Init PROVE IInv
  OBVIOUS
<1>1. pos \in 1..(N + 1) /\ iterations \in 1..MaxIterations
  BY SlicerAssumption DEF Init
<1>2. TypeOK
  BY <1>1 DEF Init, TypeOK
<1>3. PassedOver
  BY SlicerAssumption DEF Init, PassedOver, Path
<1>4. Sound /\ FixpointIsClosed /\ SliceMinimal
  BY DEF Init, Sound, FixpointIsClosed, SliceMinimal
<1>5. QED BY <1>2, <1>3, <1>4 DEF IInv

LEMMA TypeStep == TypeOK /\ [Next]_vars => TypeOK'
<1> SUFFICES ASSUME TypeOK, [Next]_vars PROVE TypeOK'
  OBVIOUS
<1> USE DEF TypeOK, given
<1>1. CASE Examine
  <2>1. pos' \in 1..(N + 1)
    BY <1>1, SlicerAssumption DEF Examine, Path
  <2>2. reachable' \subseteq Vars /\ included' \subseteq Path
    BY <1>1 DEF Examine
  <2>3. grew' \in BOOLEAN
    BY <1>1 DEF Examine
  <2>4. QED BY <1>1, <2>1, <2>2, <2>3 DEF Examine
<1>2. CASE EndPass
  <2>1. pos' \in 1..(N + 1) /\ iterations' \in 1..MaxIterations
    BY <1>2, SlicerAssumption DEF EndPass
  <2>2. grew' \in BOOLEAN /\ done' \in BOOLEAN /\ fixpoint' \in BOOLEAN
    BY <1>2 DEF EndPass
  <2>3. QED BY <1>2, <2>1, <2>2 DEF EndPass
<1>3. CASE UNCHANGED vars
  BY <1>3 DEF vars
<1>4. QED BY <1>1, <1>2, <1>3 DEF Next

LEMMA IInvStep == IInv /\ [Next]_vars => IInv'
<1> SUFFICES ASSUME IInv, [Next]_vars PROVE IInv'
  OBVIOUS
<1>t. TypeOK /\ TypeOK'
  BY TypeStep DEF IInv
<1>1. CASE Examine
  <2>1. pos \in Path /\ pos' = pos + 1 /\ UNCHANGED <<cvars, tvars, fixpoint>> /\ ~done
    BY <1>1 DEF Examine, given
  <2>2. CASE pos \in included \/ cvars[pos] \cap reachable = {}
    <3>1. UNCHANGED <<reachable, included, grew>>
      BY <1>1, <2>2 DEF Examine
    <3>2. PassedOver'
      BY <1>t, <2>1, <2>2, <3>1 DEF IInv, PassedOver, Path, TypeOK
    <3>3. Sound' /\ FixpointIsClosed' /\ SliceMinimal'
      BY <2>1, <3>1 DEF IInv, Sound, FixpointIsClosed, SliceClosed, SliceMinimal, ClosedUnderPath
    <3>4. QED BY <1>t, <3>2, <3>3 DEF IInv
  <2>3. CASE pos \notin included /\ cvars[pos] \cap reachable # {}
    <3>1. /\ included' = included \cup {pos} /\ reachable' = reachable \cup cvars[pos]
          /\ grew' = TRUE
      BY <1>1, <2>3 DEF Examine
    <3>2. Sound'
      BY <2>1, <2>3, <3>1 DEF IInv, Sound
    <3>3. PassedOver'
      BY <3>1 DEF PassedOver
    <3>4. FixpointIsClosed'
      \* a slicer that reported its fixpoint examines nothing any more
      <4>1. ~fixpoint
        BY <2>1, <2>3 DEF IInv, FixpointIsClosed, SliceClosed
      <4>2. QED BY <2>1, <4>1 DEF FixpointIsClosed
    <3>5. SliceMinimal'
      <4> SUFFICES ASSUME NEW S \in SUBSET Vars, tvars \subseteq S, ClosedUnderPath(S)
                   PROVE  reachable' \subseteq S /\ \A c \in included' : cvars[c] \subseteq S
        BY <2>1 DEF SliceMinimal, ClosedUnderPath
      <4>1. reachable \subseteq S /\ \A c \in included : cvars[c] \subseteq S
        BY DEF IInv, SliceMinimal
      <4>2. cvars[pos] \subseteq S
        BY <2>1, <2>3, <4>1 DEF ClosedUnderPath
      <4>3. QED BY <3>1, <4>1, <4>2
    <3>6. QED BY <1>t, <3>2, <3>3, <3>4, <3>5 DEF IInv
  <2>4. QED BY <2>2, <2>3
<1>2. CASE EndPass
  <2>1. UNCHANGED <<cvars, tvars, reachable, included>> /\ pos = N + 1
    BY <1>2 DEF EndPass, given
  <2>2. Sound' /\ SliceMinimal'
    BY <2>1 DEF IInv, Sound, SliceMinimal, ClosedUnderPath
  <2>3. CASE ~grew
    <3>1. \A c \in Path : c \in included \/ cvars[c] \cap reachable = {}
      BY <2>1, <2>3, SlicerAssumption DEF IInv, PassedOver, Path
    <3>2. SliceClosed
      BY <3>1 DEF IInv, Sound, SliceClosed, ClosedUnderPath
    <3>3. FixpointIsClosed'
      BY <2>1, <3>2 DEF FixpointIsClosed, SliceClosed, ClosedUnderPath
    <3>4. UNCHANGED <<pos, grew>>
      BY <1>2, <2>3 DEF EndPass
    <3>5. PassedOver'
      BY <2>1, <3>4 DEF IInv, PassedOver
    <3>6. QED BY <1>t, <2>2, <3>3, <3>5 DEF IInv
  <2>4. CASE grew
    <3>1. fixpoint' = fixpoint /\ (grew' \/ pos' = 1)
      BY <1>2, <2>4 DEF EndPass
    <3>2. FixpointIsClosed'
      BY <2>1, <3>1 DEF IInv, FixpointIsClosed, SliceClosed, ClosedUnderPath
    <3>3. PassedOver'
      BY <3>1, SlicerAssumption DEF PassedOver, Path
    <3>4. QED BY <1>t, <2>2, <3>2, <3>3 DEF IInv
  <2>5. QED BY <2>3, <2>4 DEF TypeOK, IInv
<1>3. CASE UNCHANGED vars
  BY <1>3 DEF vars, IInv, TypeOK, Sound, PassedOver, FixpointIsClosed, SliceClosed, SliceMinimal,
     ClosedUnderPath
<1>4. QED BY <1>1, <1>2, <1>3 DEF Next

\* A fixpoint the slicer reports is closed: nothing it dropped touches it.
THEOREM FixpointsAreClosed == Spec => []FixpointIsClosed
<1>1. IInv => FixpointIsClosed
  BY DEF IInv
<1>2. QED
  BY <1>1, InitIInv, IInvStep, PTL DEF Spec

\* The slice never takes in a constraint unrelated to the target.
THEOREM SlicesAreMinimal == Spec => []SliceMinimal
<1>1. IInv => SliceMinimal
  BY DEF IInv
<1>2. QED
  BY <1>1, InitIInv, IInvStep, PTL DEF Spec

\* slicer.rs: whatever the path and the cap, a slice keeps what solving needs and
\* nothing unrelated.
THEOREM SlicesAreExact == Spec => []SliceIsExact
<1>1. IInv => SliceIsExact
  BY DEF IInv, SliceIsExact
<1>2. QED
  BY <1>1, InitIInv, IInvStep, PTL DEF Spec

\* Why solving a closed slice is enough (slicer.rs:3-7): the path constraints
\* hold of the seed that was executed, so a model m of the slice, completed
\* with the seed outside the variables of the slice, satisfies the whole path
\* and agrees with m on the target.
THEOREM SliceModelExtends ==
    ASSUME NEW Vals, NEW R \in SUBSET Vars, NEW Inc \in SUBSET Path,
           NEW cv \in [Path -> SUBSET Vars],
           NEW sat \in [Path -> SUBSET [Vars -> Vals]],
           \A c \in Path : \A a, b \in [Vars -> Vals] :
               (\A v \in cv[c] : a[v] = b[v]) => (a \in sat[c] <=> b \in sat[c]),
           \A c \in Inc : cv[c] \subseteq R,
           \A c \in Path \ Inc : cv[c] \cap R = {},
           NEW seed \in [Vars -> Vals], \A c \in Path : seed \in sat[c],
           NEW m \in [Vars -> Vals], \A c \in Inc : m \in sat[c]
    PROVE  \E full \in [Vars -> Vals] :
               /\ \A c \in Path : full \in sat[c]
               /\ \A v \in R : full[v] = m[v]
<1> DEFINE mix == [v \in Vars |-> IF v \in R THEN m[v] ELSE seed[v]]
<1>1. mix \in [Vars -> Vals] /\ \A v \in R : mix[v] = m[v]
  OBVIOUS
<1>2. ASSUME NEW c \in Path PROVE mix \in sat[c]
  <2>1. CASE c \in Inc
    <3>1. \A v \in cv[c] : mix[v] = m[v]
      BY <2>1
    <3>2. QED BY <1>1, <2>1, <3>1
  <2>2. CASE c \notin Inc
    <3>1. cv[c] \in SUBSET Vars /\ \A v \in cv[c] : v \notin R
      BY <2>2
    <3>2. \A v \in cv[c] : mix[v] = seed[v]
      BY <3>1
    <3>3. QED BY <1>1, <3>2
  <2>3. QED BY <2>1, <2>2
<1>3. QED BY <1>1, <1>2

-----------------------------------------------------------------------------
(* SolveLadder: a branch the ladder marks unreachable is unreachable, and   *)
(* the outcome it returns is that of the best attempt.                      *)

\* The lines of a model are no status words.
LEMMA ModelLinesPlain ==
    ASSUME NEW m
    PROVE  /\ Len(ModelLines(m)) = 2 * InputBytes
           /\ \A i \in 1..(2 * InputBytes) : ModelLines(m)[i].kind \notin StatusWords
           /\ \E S : ModelLines(m) \in Seq(S)
<1>1. \A i \in 1..(2 * InputBytes) : ModelLines(m)[i].kind \notin StatusWords
  BY DEF ModelLines, Define, Literal, StatusWords
<1>2. ModelLines(m) \in [1..(2 * InputBytes) -> {ModelLines(m)[i] : i \in 1..(2 * InputBytes)}]
  BY DEF ModelLines
<1>3. ModelLines(m) \in Seq({ModelLines(m)[i] : i \in 1..(2 * InputBytes)})
  <2>1. ASSUME NEW n \in Nat, NEW S, NEW f \in [1..n -> S] PROVE f \in Seq(S)
    OBVIOUS
  <2>2. 2 * InputBytes \in Nat
    BY InputBytesAssumption
  <2> QED BY <1>2, <2>1, <2>2, Zenon
<1>4. Len(ModelLines(m)) = 2 * InputBytes
  BY <1>2, InputBytesAssumption DEF ModelLines
<1> QED BY <1>1, <1>3, <1>4

\* The elements of a concatenation whose first and last part have one element.
LEMMA ThreeParts ==
    ASSUME NEW T, NEW p \in Seq(T), NEW q \in Seq(T), NEW r \in Seq(T),
           Len(p) = 1, Len(r) = 1,
           NEW i \in 1..Len((p \o q) \o r)
    PROVE  /\ i = 1 => ((p \o q) \o r)[i] = p[1]
           /\ i \in 2..(1 + Len(q)) => ((p \o q) \o r)[i] = q[i - 1]
           /\ i = Len(q) + 2 => ((p \o q) \o r)[i] = r[1]
           /\ i \in 1..(Len(q) + 2)
<1>1. /\ p \o q \in Seq(T) /\ Len(p \o q) = 1 + Len(q)
      /\ \A k \in 1..(1 + Len(q)) : (p \o q)[k] = IF k = 1 THEN p[1] ELSE q[k - 1]
  <2>1. Len(q) \in Nat
    OBVIOUS
  <2>2. p \o q \in Seq(T) /\ Len(p \o q) = Len(p) + Len(q)
    BY ConcatProperties, Zenon
  <2>3. \A k \in 1..(Len(p) + Len(q)) :
            (p \o q)[k] = IF k =< Len(p) THEN p[k] ELSE q[k - Len(p)]
    BY ConcatProperties, Zenon
  <2> QED BY <2>1, <2>2, <2>3
<1>2. /\ Len((p \o q) \o r) = 2 + Len(q)
      /\ \A k \in 1..(2 + Len(q)) :
            ((p \o q) \o r)[k] = IF k =< 1 + Len(q) THEN (p \o q)[k] ELSE r[k - (1 + Len(q))]
  BY <1>1
<1> QED BY <1>1, <1>2

\* A status word in an output of Z3 is its verdict: neither the model nor the
\* core can be taken for one.
LEMMA StatusIsVerdict ==
    ASSUME NEW a, NEW i \in 1..Len(Stdout(a)), Stdout(a)[i].kind \in StatusWords
    PROVE  Stdout(a)[i].kind = a.verdict
<1> DEFINE p1 == CheckSat(a)
           p2 == GetModel(a)
           p3 == GetUnsatCore(a)
<1>1. /\ Len(p1) = 1 /\ p1[1].kind = a.verdict
      /\ p1 \in Seq({p1[1]})
  BY DEF CheckSat, OutputLine
<1>2. /\ Len(p2) \in Nat
      /\ \A j \in 1..Len(p2) : p2[j].kind \notin StatusWords
      /\ \E S : p2 \in Seq(S)
  <2>1. CASE a.verdict = "sat"
    BY <2>1, ModelLinesPlain, InputBytesAssumption DEF GetModel
  <2>2. CASE a.verdict # "sat"
    <3>1. p2 = <<OutputLine("error")>>
      BY <2>2 DEF GetModel
    <3>2. OutputLine("error").kind \notin StatusWords
      BY DEF OutputLine, StatusWords
    <3>3. Len(p2) = 1 /\ p2[1] = OutputLine("error") /\ p2 \in Seq({OutputLine("error")})
      BY <3>1
    <3> QED BY <3>2, <3>3
  <2> QED BY <2>1, <2>2
<1>3. /\ Len(p3) = 1 /\ p3[1].kind \notin StatusWords
      /\ p3 \in Seq({p3[1]})
  <2>1. PICK l : p3 = <<l>> /\ l.kind \notin StatusWords
    BY DEF GetUnsatCore, Core, OutputLine, StatusWords
  <2> QED BY <2>1
<1>4. PICK S : p2 \in Seq(S)
  BY <1>2
<1> DEFINE T == S \cup {p1[1]} \cup {p3[1]}
<1>5. p1 \in Seq(T) /\ p2 \in Seq(T) /\ p3 \in Seq(T)
  BY <1>1, <1>3, <1>4
<1>6. Stdout(a) = (p1 \o p2) \o p3
  BY DEF Stdout
<1> HIDE DEF p1, p2, p3, T
<1>7. i \in 1..Len((p1 \o p2) \o p3)
  BY <1>6
<1>8. /\ i = 1 => Stdout(a)[i] = p1[1]
      /\ i \in 2..(1 + Len(p2)) => Stdout(a)[i] = p2[i - 1]
      /\ i = Len(p2) + 2 => Stdout(a)[i] = p3[1]
      /\ i \in 1..(Len(p2) + 2)
  BY <1>1, <1>3, <1>5, <1>6, <1>7, ThreeParts
<1> QED BY <1>1, <1>2, <1>3, <1>8

\* An Unsat that parse_z3_response reads off a prefix of the output was Z3's.
LEMMA ParsedUnsat ==
    ASSUME NEW a, NEW n \in 0..Len(Stdout(a)),
           ParseResponse(SubSeq(Stdout(a), 1, n)).status = "Unsat"
    PROVE  a.verdict = "unsat"
<1> DEFINE out == SubSeq(Stdout(a), 1, n)
<1>1. StatusWord(out) = "unsat"
  BY DEF ParseResponse, Report, Unanswered
<1> DEFINE Status(i) == out[i].kind \in StatusWords
           First(i)  == Status(i) /\ \A j \in 1..(i - 1) : ~Status(j)
<1>2. \E i \in 1..Len(out) : First(i)
  BY <1>1 DEF StatusWord
<1>3. PICK i \in 1..Len(out) : First(i) /\ out[i].kind = "unsat"
  BY <1>1, <1>2 DEF StatusWord
<1>4. i \in 1..Len(Stdout(a)) /\ out[i] = Stdout(a)[i]
  OBVIOUS
<1> QED BY <1>3, <1>4, StatusIsVerdict DEF StatusWords

\* An answer that may mark the branch is right about what the backend was
\* asked, hence about the whole path: the slice is a part of it.
LEMMA AuthoritativeIsSound ==
    ASSUME NEW b, NEW ans \in Answers(b), Authoritative(b, ans[1])
    PROVE  query.truth # "full"
<1>1. b.tier # "PureFast" /\ ans[1].status = "Unsat"
  BY DEF Authoritative, CanMarkUnreachable, IsAuthoritative
<1>2. CASE b.tier = "Z3External"
  <2>1. ans \in External(b)
    BY <1>2 DEF Answers
  <2>2. ans # <<Unanswered("Unknown"), NoAnswer>>
    BY <1>1 DEF Unanswered, Report
  <2>3. PICK a \in Z3Answers(Satisfiable(b)) :
            \E n \in 0..Len(Stdout(a)) : ans[1] = ParseResponse(SubSeq(Stdout(a), 1, n))
    BY <2>1, <2>2 DEF External
  <2>4. a.verdict = "unsat"
    BY <1>1, <2>3, ParsedUnsat
  <2>5. ~Satisfiable(b)
    BY <2>4 DEF Z3Answers
  <2> QED BY <2>5 DEF Satisfiable
<1>3. CASE b.tier # "Z3External"
  <2>1. PICK r \in InProcess(b) : ans[1] = r
    BY <1>1, <1>3 DEF Answers
  <2>2. ~Satisfiable(b)
    BY <1>1, <2>1 DEF InProcess, Unanswered, Report
  <2> QED BY <2>2 DEF Satisfiable
<1> QED BY <1>2, <1>3

\* What is marked, or waits in best_authoritative to be, is unreachable.
BestIsUnreachable == best # 0 \/ outcome.marked => query.truth # "full"

\* The branch a LadderOutcome marks unreachable cannot be reached, whatever the
\* lower tiers claimed (SolveLadder::solve).
THEOREM MarksAreSound == LadderSpec => []MarkedIsUnreachable
<1>1. LadderInit => BestIsUnreachable
  BY DEF LadderInit, BestIsUnreachable, Running
<1>2. BestIsUnreachable /\ [LadderNext]_ladderVars => BestIsUnreachable'
  <2> SUFFICES ASSUME BestIsUnreachable, [LadderNext]_ladderVars
               PROVE  BestIsUnreachable'
    OBVIOUS
  <2>1. CASE ConstantFold
    <3>1. outcome' = outcome \/ ~outcome'.marked
      <4>1. \/ outcome' = Return("ConstantFold", Report("Sat", ZeroVector, {}, FALSE), FALSE)
            \/ outcome' = outcome
        BY <2>1, Zenon DEF ConstantFold
      <4>2. Return("ConstantFold", Report("Sat", ZeroVector, {}, FALSE), FALSE).marked = FALSE
        BY DEF Return
      <4> QED BY <4>1, <4>2, Zenon
    <3>2. query' = query /\ best' = best
      BY <2>1 DEF ConstantFold
    <3> QED BY <3>1, <3>2 DEF BestIsUnreachable
  <2>2. CASE TryBackend
    <3>1. PICK ans \in Answers(ladder[at]) :
            LET auth == Authoritative(ladder[at], ans[1])
            IN  IF ans[1].status = "Sat"
                THEN outcome' = Return(ladder[at].tier, ans[1], FALSE) /\ UNCHANGED best
                ELSE /\ best' = IF auth THEN Len(attempts') ELSE best
                     /\ UNCHANGED outcome
      BY <2>2 DEF TryBackend
    <3>2. query' = query
      BY <2>2 DEF TryBackend
    <3>3. CASE Authoritative(ladder[at], ans[1])
      BY <3>2, <3>3, AuthoritativeIsSound DEF BestIsUnreachable
    <3>4. CASE ~Authoritative(ladder[at], ans[1])
      BY <3>1, <3>2, <3>4 DEF BestIsUnreachable, Return
    <3> QED BY <3>3, <3>4
  <2>3. CASE Finish
    BY <2>3 DEF Finish, BestIsUnreachable, Return
  <2>4. CASE UNCHANGED ladderVars
    BY <2>4 DEF ladderVars, BestIsUnreachable
  <2> QED BY <2>1, <2>2, <2>3, <2>4 DEF LadderNext
<1>3. BestIsUnreachable => MarkedIsUnreachable
  BY DEF BestIsUnreachable, MarkedIsUnreachable
<1> QED BY <1>1, <1>2, <1>3, PTL DEF LadderSpec

-----------------------------------------------------------------------------
(* The outcome is the best attempt                                         *)

\* While the cascade runs there is no model, best_authoritative is the newest
\* authoritative attempt and last_report the newest attempt of all.
LadderTracks ==
    /\ \E S : attempts \in Seq(S)
    /\ at = 0 => attempts = <<>>
    /\ ~outcome.done =>
         /\ outcome = Running
         /\ \A i \in Index : attempts[i].report.status # "Sat"
         /\ best \in 0..Len(attempts) /\ last = Len(attempts)
         /\ best # 0 => attempts[best].auth
         /\ \A i \in Index : attempts[i].auth => i =< best

\* Appending keeps the old elements and adds the new one at the end.
LEMMA Appended ==
    ASSUME NEW S, NEW q \in Seq(S), NEW e
    PROVE  /\ Append(q, e) \in Seq(S \cup {e})
           /\ Len(Append(q, e)) = Len(q) + 1
           /\ \A i \in 1..Len(q) : Append(q, e)[i] = q[i]
           /\ Append(q, e)[Len(q) + 1] = e
<1>1. q \in Seq(S \cup {e}) /\ e \in S \cup {e}
  OBVIOUS
<1> QED BY <1>1, AppendProperties
\* SolveLadder::solve returns the attempt that found a model, else the highest
\* authoritative Unsat, else the last attempt, for every list of backends and
\* whatever they answer.
THEOREM OutcomeIsBest == LadderSpec => []OutcomeIsBestAttempt
<1> DEFINE Inv == LadderTracks /\ OutcomeIsBestAttempt
<1>1. LadderInit => Inv
  BY DEF LadderInit, LadderTracks, OutcomeIsBestAttempt, Running, Index
<1>2. Inv /\ [LadderNext]_ladderVars => Inv'
  <2> SUFFICES ASSUME Inv, [LadderNext]_ladderVars PROVE Inv'
    OBVIOUS
  <2>0. PICK S : attempts \in Seq(S)
    BY DEF LadderTracks
  <2>1. CASE ConstantFold
    <3>1. attempts = <<>> /\ outcome = Running /\ best = 0 /\ last = 0
      BY <2>1 DEF ConstantFold, LadderTracks
    <3>2. at' = 1 /\ best' = 0
      BY <2>1, <3>1 DEF ConstantFold
    <3>3. CASE UNCHANGED <<attempts, last, outcome>>
      BY <3>1, <3>2, <3>3 DEF LadderTracks, OutcomeIsBestAttempt, Running, Index
    <3>4. CASE /\ attempts' = <<Attempt("ConstantFold", Unanswered("Unsat"), FALSE, NoAnswer)>>
               /\ last' = 1 /\ UNCHANGED outcome
      <4> DEFINE a == Attempt("ConstantFold", Unanswered("Unsat"), FALSE, NoAnswer)
      <4>1. ~a.auth /\ a.report.status # "Sat"
        BY DEF Attempt, Unanswered, Report
      <4> HIDE DEF a
      <4>2. Len(attempts') = 1 /\ attempts'[1] = a /\ attempts' \in Seq({a})
        BY <3>4 DEF a
      <4>3. outcome' = Running /\ ~outcome'.done
        BY <3>1, <3>4 DEF Running
      <4>4. \E T : attempts' \in Seq(T)
        BY <4>2
      <4>5. OutcomeIsBestAttempt'
        BY <4>3 DEF OutcomeIsBestAttempt
      <4>6. LadderTracks'
        <5>1. Index' = {1} /\ best' = 0 /\ last' = 1 /\ at' = 1
          BY <3>2, <3>4, <4>2 DEF Index
        <5> QED BY <4>1, <4>2, <4>3, <4>4, <5>1 DEF LadderTracks
      <4> QED BY <4>5, <4>6
    <3>5. ASSUME NEW r, r = Report("Sat", ZeroVector, {}, FALSE),
                 attempts' = <<Attempt("ConstantFold", r, FALSE, NoAnswer)>>,
                 outcome' = Return("ConstantFold", r, FALSE), UNCHANGED last
          PROVE  Inv'
      <4> DEFINE a == Attempt("ConstantFold", r, FALSE, NoAnswer)
      <4>0. a.tier = "ConstantFold" /\ a.report = r /\ ~a.auth
        BY DEF Attempt
      <4> HIDE DEF a
      <4>1. Len(attempts') = 1 /\ attempts'[1] = a /\ attempts' \in Seq({a})
        BY <3>5 DEF a
      <4>2. /\ outcome'.done /\ outcome'.tier = "ConstantFold" /\ outcome'.report = r
            /\ ~outcome'.marked
        BY <3>5 DEF Return
      <4>3. r.status = "Sat"
        BY <3>5 DEF Report
      <4> QED BY <3>2, <4>0, <4>1, <4>2, <4>3 DEF LadderTracks, OutcomeIsBestAttempt, Index
    <3> QED BY <2>1, <3>3, <3>4, <3>5 DEF ConstantFold
  <2>2. CASE TryBackend
    <3>1. PICK ans \in Answers(ladder[at]) :
            LET b == ladder[at]
                r == ans[1]
                auth == Authoritative(b, r)
            IN  /\ attempts' = Append(attempts, Attempt(b.tier, r, auth, ans[2]))
                /\ IF r.status = "Sat"
                   THEN outcome' = Return(b.tier, r, FALSE) /\ UNCHANGED <<best, last>>
                   ELSE /\ last' = Len(attempts')
                        /\ best' = IF auth THEN Len(attempts') ELSE best
                        /\ UNCHANGED outcome
      BY <2>2 DEF TryBackend
    <3> DEFINE b == ladder[at]
               r == ans[1]
               auth == Authoritative(b, r)
               new == Attempt(b.tier, r, auth, ans[2])
    <3>2. /\ new.tier = b.tier /\ new.report = r /\ (new.auth <=> auth)
      BY DEF Attempt, Authoritative
    <3>3. at' # 0 /\ ~outcome.done
      BY <2>2 DEF TryBackend
    <3>4. auth => r.status # "Sat"
      BY DEF Authoritative, IsAuthoritative
    <3> HIDE DEF new, auth, r, b
    <3>5. /\ \E T : attempts' \in Seq(T)
          /\ Len(attempts') = Len(attempts) + 1 /\ Len(attempts) \in Nat
          /\ \A i \in 1..Len(attempts) : attempts'[i] = attempts[i]
          /\ attempts'[Len(attempts) + 1] = new
      <4>1. attempts' = Append(attempts, new)
        BY <3>1 DEF new, auth, r, b
      <4>2. /\ attempts' \in Seq(S \cup {new})
            /\ Len(attempts') = Len(attempts) + 1
            /\ \A i \in 1..Len(attempts) : attempts'[i] = attempts[i]
            /\ attempts'[Len(attempts) + 1] = new
        BY <2>0, <4>1, Appended, SMTT(30)
      <4> QED BY <2>0, <4>2
    <3>6. CASE r.status = "Sat"
      <4>1. /\ outcome'.done /\ outcome'.tier = b.tier /\ outcome'.report = r
            /\ ~outcome'.marked
        BY <3>1, <3>6 DEF Return, b, r
      <4>2. \A i \in 1..Len(attempts) : attempts'[i].report.status # "Sat"
        BY <3>3, <3>5 DEF LadderTracks, Index
      <4> QED BY <3>2, <3>3, <3>5, <3>6, <4>1, <4>2 DEF LadderTracks, OutcomeIsBestAttempt, Index
    <3>7. CASE r.status # "Sat"
      <4>1. /\ outcome' = outcome /\ last' = Len(attempts')
            /\ best' = IF auth THEN Len(attempts') ELSE best
        BY <3>1, <3>7 DEF b, r, auth
      <4> QED BY <3>2, <3>3, <3>5, <3>7, <4>1 DEF LadderTracks, OutcomeIsBestAttempt, Index
    <3> QED BY <3>6, <3>7
  <2>3. CASE Finish
    <3>1. /\ ~outcome.done /\ UNCHANGED <<at, attempts, best, last>>
          /\ outcome' = IF best # 0 THEN Return(attempts[best].tier, attempts[best].report, TRUE)
                        ELSE IF last # 0 THEN Return(attempts[last].tier, attempts[last].report, FALSE)
                        ELSE Return("Unknown", Unanswered("Unknown"), FALSE)
      BY <2>3 DEF Finish
    <3>2. outcome'.done
      BY <3>1 DEF Return
    <3>3. LadderTracks'
      BY <3>1, <3>2 DEF LadderTracks, Index
    <3>4. /\ \A i \in Index : attempts[i].report.status # "Sat"
          /\ best \in 0..Len(attempts) /\ last = Len(attempts) /\ Len(attempts) \in Nat
          /\ best # 0 => attempts[best].auth
          /\ \A i \in Index : attempts[i].auth => i =< best
      BY <2>0, <3>1 DEF LadderTracks
    <3> DEFINE sat == {i \in Index : attempts[i].report.status = "Sat"}
               auths == {i \in Index : attempts[i].auth}
               Picks(i) == outcome'.tier = attempts[i].tier /\ outcome'.report = attempts[i].report
    <3>a. sat = {}
      BY <3>4
    <3>b. SUFFICES /\ outcome'.marked <=> auths # {}
                   /\ auths # {} => \E i \in auths : Picks(i) /\ \A j \in auths : j =< i
                   /\ auths = {} =>
                        IF attempts # <<>> THEN Picks(Len(attempts)) ELSE outcome'.tier = "Unknown"
      BY <3>1, <3>2, <3>3, <3>a DEF OutcomeIsBestAttempt, Index
    <3>5. CASE best # 0
      <4>1. outcome'.tier = attempts[best].tier /\ outcome'.report = attempts[best].report /\ outcome'.marked
        BY <3>1, <3>5 DEF Return
      <4>2. best \in auths /\ Picks(best) /\ \A j \in auths : j =< best
        BY <3>4, <3>5, <4>1 DEF Index
      <4> QED BY <4>1, <4>2
    <3>6. CASE best = 0 /\ last # 0
      <4>1. outcome'.tier = attempts[last].tier /\ outcome'.report = attempts[last].report /\ ~outcome'.marked
        BY <3>1, <3>6 DEF Return
      <4>2. auths = {} /\ attempts # <<>>
        BY <3>4, <3>6 DEF Index
      <4> QED BY <3>4, <4>1, <4>2
    <3>7. CASE best = 0 /\ last = 0
      <4>1. outcome'.tier = "Unknown" /\ ~outcome'.marked
        BY <3>1, <3>7 DEF Return
      <4>2. attempts = <<>>
        BY <2>0, <3>4, <3>7, EmptySeq
      <4> QED BY <3>4, <3>7, <4>1, <4>2 DEF Index
    <3> QED BY <3>5, <3>6, <3>7
  <2>4. CASE UNCHANGED ladderVars
    BY <2>4 DEF ladderVars, LadderTracks, OutcomeIsBestAttempt, Index
  <2> QED BY <2>1, <2>2, <2>3, <2>4 DEF LadderNext
<1> QED BY <1>1, <1>2, PTL DEF LadderSpec

-----------------------------------------------------------------------------
(* ConcolicBacklog: the map, the heap and the age list agree.               *)

-----------------------------------------------------------------------------
(* Lists                                                                   *)

\* A list whose elements differ is a permutation of its set of elements.
LEMMA ListOfSet ==
    ASSUME NEW S, IsFiniteSet(S), NEW f \in [1..Cardinality(S) -> S],
           \A i, j \in 1..Cardinality(S) : f[i] = f[j] => i = j
    PROVE  /\ f \in Seq(S) /\ Len(f) = Cardinality(S)
           /\ ToSet(f) = S
<1> DEFINE n == Cardinality(S)
<1>1. n \in Nat
  BY FS_CardinalityType
<1>2. f \in Injection(1..n, S)
  BY Fun_IsInj
<1>3. IsFiniteSet(1..n) /\ Cardinality(1..n) = n
  BY <1>1, FS_Interval
<1>4. f \in Surjection(1..n, S)
  BY <1>2, <1>3, FS_Injection
<1>5. \A x \in S : \E i \in 1..n : f[i] = x
  BY <1>4 DEF Surjection
<1> QED BY <1>1, <1>5 DEF ToSet

\* SetToSeq lists a finite set.
LEMMA SetToSeqLists ==
    ASSUME NEW S, IsFiniteSet(S)
    PROVE  /\ SetToSeq(S) \in Seq(S) /\ Len(SetToSeq(S)) = Cardinality(S)
           /\ ToSet(SetToSeq(S)) = S
<1>1. PICK g : g \in Bijection(1..Cardinality(S), S)
  BY FS_CardinalityType DEF ExistsBijection
<1>2. g \in [1..Cardinality(S) -> S] /\ \A i, j \in 1..Cardinality(S) : g[i] = g[j] => i = j
  BY <1>1, Fun_BijectionProperties
<1>3. IsInjective(g)
  BY <1>2 DEF IsInjective
<1>4. SetToSeq(S) \in [1..Cardinality(S) -> S] /\ IsInjective(SetToSeq(S))
  BY <1>2, <1>3 DEF SetToSeq
<1>5. \A i, j \in 1..Cardinality(S) : SetToSeq(S)[i] = SetToSeq(S)[j] => i = j
  BY <1>4 DEF IsInjective
<1> QED BY <1>4, <1>5, ListOfSet

\* What RemoveAt leaves.
LEMMA RemoveAtLeaves ==
    ASSUME NEW S, NEW q \in Seq(S), NEW i \in 1..Len(q)
    PROVE  /\ RemoveAt(q, i) \in Seq(S)
           /\ Len(RemoveAt(q, i)) = Len(q) - 1
           /\ \A j \in 1..(Len(q) - 1) :
                RemoveAt(q, i)[j] = IF j < i THEN q[j] ELSE q[j + 1]
<1> DEFINE a == SubSeq(q, 1, i - 1)
           b == SubSeq(q, i + 1, Len(q))
<1>1. Len(q) \in Nat
  OBVIOUS
<1>2. /\ a \in Seq(S) /\ Len(a) = i - 1
      /\ \A j \in 1..(i - 1) : a[j] = q[j]
  BY <1>1
<1>3. /\ b \in Seq(S) /\ Len(b) = Len(q) - i
      /\ \A j \in 1..(Len(q) - i) : b[j] = q[i + j]
  BY <1>1
<1> HIDE DEF a, b
<1>4. /\ a \o b \in Seq(S) /\ Len(a \o b) = Len(a) + Len(b)
      /\ \A j \in 1..(Len(a) + Len(b)) : (a \o b)[j] = IF j <= Len(a) THEN a[j] ELSE b[j - Len(a)]
  BY <1>2, <1>3, ConcatProperties
<1>5. RemoveAt(q, i) = a \o b
  BY DEF RemoveAt, a, b
<1>6. Len(RemoveAt(q, i)) = Len(q) - 1
  <2>1. Len(a) + Len(b) = Len(q) - 1
    BY <1>1, <1>2, <1>3
  <2> QED BY <1>4, <1>5, <2>1, Zenon
<1>7. ASSUME NEW j \in 1..(Len(q) - 1)
      PROVE  RemoveAt(q, i)[j] = IF j < i THEN q[j] ELSE q[j + 1]
  <2>1. RemoveAt(q, i)[j] = IF j <= i - 1 THEN a[j] ELSE b[j - (i - 1)]
    <3>1. Len(a) + Len(b) = Len(q) - 1 /\ Len(a) = i - 1
      BY <1>1, <1>2, <1>3
    <3> QED BY <1>4, <1>5, <3>1, Zenon
  <2>2. CASE j < i
    BY <2>1, <2>2, <1>1, <1>2
  <2>3. CASE ~(j < i)
    <3>1. j - (i - 1) \in 1..(Len(q) - i) /\ i + (j - (i - 1)) = j + 1 /\ ~(j <= i - 1)
      BY <2>3, <1>1
    <3> QED BY <2>1, <2>3, <3>1, <1>3
  <2> QED BY <2>2, <2>3
<1> QED BY <1>4, <1>5, <1>6, <1>7

\* A list without duplicates.
Distinct(q) == \A i, j \in DOMAIN q : q[i] = q[j] => i = j

\* Removing an element of a list without duplicates removes it from its set.
LEMMA RemoveFirstLeaves ==
    ASSUME NEW S, NEW q \in Seq(S), Distinct(q), NEW k \in ToSet(q)
    PROVE  /\ RemoveFirst(q, k) \in Seq(S)
           /\ Len(RemoveFirst(q, k)) = Len(q) - 1
           /\ ToSet(RemoveFirst(q, k)) = ToSet(q) \ {k}
           /\ Distinct(RemoveFirst(q, k))
<1> DEFINE I == {i \in 1..Len(q) : q[i] = k}
<1>1. PICK i \in 1..Len(q) : q[i] = k
  BY DEF ToSet
<1>2. I = {i}
  BY <1>1 DEF Distinct
<1>3. Min(I) = i
  BY <1>2 DEF Min
<1>4. RemoveFirst(q, k) = RemoveAt(q, i)
  BY <1>1, <1>2, <1>3 DEF RemoveFirst, SelectInSeq
<1> DEFINE r == RemoveAt(q, i)
<1>5. /\ r \in Seq(S) /\ Len(r) = Len(q) - 1 /\ Len(q) \in Nat
      /\ \A j \in 1..(Len(q) - 1) : r[j] = IF j < i THEN q[j] ELSE q[j + 1]
  <2>1. Len(q) \in Nat
    OBVIOUS
  <2> QED BY <2>1, RemoveAtLeaves, Zenon
<1> HIDE DEF r
<1>6. DOMAIN r = 1..(Len(q) - 1) /\ DOMAIN q = 1..Len(q)
  BY <1>5
<1>7. Distinct(r)
  <2> SUFFICES ASSUME NEW j \in 1..(Len(q) - 1), NEW l \in 1..(Len(q) - 1), r[j] = r[l]
               PROVE  j = l
    BY <1>6 DEF Distinct
  <2>1. \A x, y \in 1..Len(q) : q[x] = q[y] => x = y
    BY <1>6 DEF Distinct
  <2>2. /\ r[j] = IF j < i THEN q[j] ELSE q[j + 1]
        /\ r[l] = IF l < i THEN q[l] ELSE q[l + 1]
    BY <1>5
  <2>3. j \in 1..Len(q) /\ j + 1 \in 1..Len(q) /\ l \in 1..Len(q) /\ l + 1 \in 1..Len(q)
    BY <1>5
  <2> HIDE DEF I
  <2>4. CASE j < i /\ l < i
    BY <2>1, <2>2, <2>3, <2>4
  <2>5. CASE j < i /\ ~(l < i)
    <3>1. q[j] = q[l + 1]
      BY <2>2, <2>5
    <3>2. j = l + 1
      BY <2>1, <2>3, <3>1, Zenon
    <3> QED BY <2>3, <2>5, <3>2
  <2>6. CASE ~(j < i) /\ l < i
    <3>1. q[j + 1] = q[l]
      BY <2>2, <2>6
    <3>2. j + 1 = l
      BY <2>1, <2>3, <3>1, Zenon
    <3> QED BY <2>3, <2>6, <3>2
  <2>7. CASE ~(j < i) /\ ~(l < i)
    <3>1. j + 1 = l + 1
      BY <2>1, <2>2, <2>3, <2>7
    <3> QED BY <3>1
  <2> QED BY <2>4, <2>5, <2>6, <2>7
<1>8. ToSet(r) \subseteq ToSet(q) \ {k}
  BY <1>1, <1>5, <1>6 DEF Distinct, ToSet
<1>9. ASSUME NEW x \in ToSet(q) \ {k} PROVE x \in ToSet(r)
  <2>1. PICK j \in 1..Len(q) : q[j] = x
    BY <1>6 DEF ToSet
  <2>2. CASE j < i
    <3>1. j \in 1..(Len(q) - 1) /\ r[j] = x
      BY <1>5, <2>1, <2>2
    <3> QED BY <1>6, <3>1 DEF ToSet
  <2>3. CASE j > i
    <3>1. j - 1 \in 1..(Len(q) - 1) /\ r[j - 1] = x
      BY <1>5, <2>1, <2>3
    <3> QED BY <1>6, <3>1 DEF ToSet
  <2> QED BY <1>1, <2>1, <2>2, <2>3
<1> QED BY <1>4, <1>5, <1>7, <1>8, <1>9 DEF r

\* Dropping the front of a list without duplicates drops one element.
LEMMA TailLeaves ==
    ASSUME NEW S, NEW q \in Seq(S), Distinct(q), q # <<>>
    PROVE  /\ Tail(q) \in Seq(S) /\ Len(Tail(q)) = Len(q) - 1
           /\ ToSet(Tail(q)) = ToSet(q) \ {Head(q)}
           /\ Distinct(Tail(q)) /\ Head(q) \in ToSet(q)
<1>1. /\ Len(q) \in Nat \ {0} /\ Head(q) = q[1] /\ DOMAIN q = 1..Len(q)
      /\ Tail(q) \in Seq(S) /\ Len(Tail(q)) = Len(q) - 1
      /\ \A j \in 1..(Len(q) - 1) : Tail(q)[j] = q[j + 1]
  BY EmptySeq, HeadTailProperties
<1> DEFINE r == Tail(q)
<1>2. DOMAIN r = 1..(Len(q) - 1)
  BY <1>1
<1> HIDE DEF r
<1>3. \A x, y \in 1..Len(q) : q[x] = q[y] => x = y
  BY <1>1 DEF Distinct
<1>4. ASSUME NEW j \in 1..(Len(q) - 1) PROVE r[j] = q[j + 1] /\ j + 1 \in 1..Len(q) /\ j + 1 # 1
  BY <1>1 DEF r
<1>5. Distinct(r)
  <2> SUFFICES ASSUME NEW j \in 1..(Len(q) - 1), NEW l \in 1..(Len(q) - 1), r[j] = r[l]
               PROVE  j = l
    BY <1>2 DEF Distinct
  <2>1. j + 1 = l + 1
    BY <1>3, <1>4
  <2> QED BY <2>1
<1>6. ToSet(r) \subseteq ToSet(q) \ {q[1]}
  <2> SUFFICES ASSUME NEW j \in 1..(Len(q) - 1) PROVE r[j] \in ToSet(q) \ {q[1]}
    BY <1>2 DEF ToSet
  <2>1. q[j + 1] # q[1]
    BY <1>1, <1>3, <1>4
  <2> QED BY <1>1, <1>4, <2>1 DEF ToSet
<1>7. ASSUME NEW x \in ToSet(q) \ {q[1]} PROVE x \in ToSet(r)
  <2>1. PICK j \in 1..Len(q) : q[j] = x
    BY <1>1 DEF ToSet
  <2>2. j - 1 \in 1..(Len(q) - 1) /\ (j - 1) + 1 = j
    BY <1>1, <2>1
  <2>3. r[j - 1] = x
    BY <1>4, <2>1, <2>2
  <2> QED BY <1>2, <2>2, <2>3 DEF ToSet
<1>8. q[1] \in ToSet(q)
  BY <1>1 DEF ToSet
<1> QED BY <1>1, <1>5, <1>6, <1>7, <1>8 DEF r

\* Appending a new element.
LEMMA AppendAdds ==
    ASSUME NEW S, NEW q \in Seq(S), NEW k \in S
    PROVE  /\ Append(q, k) \in Seq(S) /\ Len(Append(q, k)) = Len(q) + 1
           /\ \A i \in 1..Len(q) : Append(q, k)[i] = q[i]
           /\ Append(q, k)[Len(q) + 1] = k
           /\ ToSet(Append(q, k)) = ToSet(q) \cup {k}
           /\ Distinct(q) /\ k \notin ToSet(q) => Distinct(Append(q, k))
<1> DEFINE r == Append(q, k)
<1>1. /\ r \in Seq(S) /\ Len(r) = Len(q) + 1 /\ Len(q) \in Nat
      /\ \A i \in 1..Len(q) : r[i] = q[i]
      /\ r[Len(q) + 1] = k
      /\ DOMAIN r = 1..(Len(q) + 1) /\ DOMAIN q = 1..Len(q)
  BY AppendProperties
<1> HIDE DEF r
<1>2. ToSet(r) = ToSet(q) \cup {k}
  <2>1. ToSet(q) \subseteq ToSet(r) /\ k \in ToSet(r)
    BY <1>1 DEF ToSet
  <2>2. ASSUME NEW i \in 1..(Len(q) + 1) PROVE r[i] \in ToSet(q) \cup {k}
    <3>1. i \in 1..Len(q) \/ i = Len(q) + 1
      BY <1>1
    <3> QED BY <1>1, <3>1 DEF ToSet
  <2>3. ToSet(r) \subseteq ToSet(q) \cup {k}
    BY <1>1, <2>2 DEF ToSet
  <2> QED BY <2>1, <2>3
<1>3. ASSUME Distinct(q), k \notin ToSet(q) PROVE Distinct(r)
  <2> SUFFICES ASSUME NEW i \in 1..(Len(q) + 1), NEW j \in 1..(Len(q) + 1), r[i] = r[j]
               PROVE  i = j
    BY <1>1 DEF Distinct
  <2>1. \A x \in 1..Len(q) : q[x] # k
    BY <1>1, <1>3 DEF ToSet
  <2>2. \A x, y \in 1..Len(q) : q[x] = q[y] => x = y
    BY <1>1, <1>3 DEF Distinct
  <2>3. /\ i \in 1..Len(q) \/ i = Len(q) + 1
        /\ j \in 1..Len(q) \/ j = Len(q) + 1
    BY <1>1
  <2> QED BY <1>1, <2>1, <2>2, <2>3
<1> QED BY <1>1, <1>2, <1>3 DEF r

-----------------------------------------------------------------------------
(* The inductive invariant                                                 *)

Item == [base : Int, novelty : 0..NoveltyCap]

\* The map and the LRU list hold the same keys, each once, and every item is in
\* the heap.  The type of the items is what keeps the scores natural, and the
\* distinctness of the list what makes an eviction remove one item.
LruListsItems ==
    /\ IsFiniteSet(Live) /\ Cardinality(Live) <= Cap /\ Live \subseteq Keys
    /\ lru \in Seq(Keys) /\ Distinct(lru)
    /\ ToSet(lru) = Live /\ Len(lru) = Cardinality(Live)

BacklogInv ==
    /\ busy \in BOOLEAN
    /\ byKey \in [Live -> Item]
    /\ heap \in Seq(Nat \X Keys) /\ Len(heap) <= MaxHeap
    /\ LruListsItems
    /\ LiveItemsQueued

LEMMA BacklogInvImplies == BacklogInv => IndicesAgree
<1> SUFFICES ASSUME BacklogInv PROVE IndicesAgree
  OBVIOUS
<1>1. \A k \in Live : byKey[k].novelty \in 0..NoveltyCap
  BY DEF BacklogInv, Item
<1>2. \A i \in DOMAIN heap : heap[i][1] \in Nat /\ heap[i][2] \in Keys
  <2>1. \A i \in DOMAIN heap : heap[i] \in Nat \X Keys
    BY DEF BacklogInv
  <2> QED BY <2>1
<1> QED BY <1>1, <1>2 DEF BacklogInv, LruListsItems, IndicesAgree, BacklogTypeOK, LruMatchesItems

\* A score is a natural number.
LEMMA ScoreType == \A i \in Item : ScoreItem(i) \in Nat
<1> SUFFICES ASSUME NEW i \in Item PROVE ScoreItem(i) \in Nat
  OBVIOUS
<1>1. i.base \in Int /\ i.novelty \in Int
  BY BacklogAssumption DEF Item
<1>2. i.base + 4 * i.novelty \in Int
  BY <1>1
<1> QED BY <1>2 DEF ScoreItem

-----------------------------------------------------------------------------
(* The steps                                                               *)

\* The LRU list of a push before the key is appended lists the keys that stay.
LEMMA PushKeepsList ==
    ASSUME BacklogInv, NEW k \in Keys, NEW o \in Offers, Push(k, o)
    PROVE  \E R, rest :
             /\ R \subseteq Live /\ k \notin R /\ IsFiniteSet(R) /\ Cardinality(R) + 1 <= Cap
             /\ rest \in Seq(Keys) /\ Distinct(rest) /\ ToSet(rest) = R /\ Len(rest) = Cardinality(R)
             /\ lru' = Append(rest, k)
             /\ DOMAIN byKey' = R \cup {k}
             /\ byKey'[k] = o /\ \A x \in R : byKey'[x] = byKey[x]
<1> USE DEF BacklogInv, LruListsItems
<1>0. Cardinality(Live) \in Nat /\ Cap \in Nat \ {0}
  BY FS_CardinalityType, BacklogAssumption
<1>1. CASE k \notin Live /\ Cardinality(Live) >= Cap
  <2> DEFINE h == Head(lru)
             R == Live \ {h}
  <2>1. byKey' = Set(Without(byKey, h), k, o) /\ lru' = Append(Tail(lru), k)
    BY <1>1 DEF Push
  <2>2. lru # <<>>
    BY <1>0, <1>1
  <2>3. /\ Tail(lru) \in Seq(Keys) /\ Len(Tail(lru)) = Len(lru) - 1
        /\ ToSet(Tail(lru)) = R /\ Distinct(Tail(lru)) /\ h \in Live
    BY <2>2, TailLeaves
  <2>4. IsFiniteSet(R) /\ Cardinality(R) = Cardinality(Live) - 1
    BY <2>3, FS_RemoveElement
  <2>5. /\ DOMAIN byKey' = R \cup {k}
        /\ byKey'[k] = o /\ \A x \in R : byKey'[x] = byKey[x]
    BY <1>1, <2>1 DEF Set, Without, Live
  <2>6. R \subseteq Live /\ k \notin R /\ Cardinality(R) + 1 <= Cap /\ Len(Tail(lru)) = Cardinality(R)
    BY <1>0, <1>1, <2>3, <2>4
  <2> QED BY <2>1, <2>3, <2>4, <2>5, <2>6, Zenon
<1>2. CASE k \in Live
  <2> DEFINE R == Live \ {k}
  <2>1. byKey' = Set(byKey, k, o) /\ lru' = Append(RemoveFirst(lru, k), k)
    BY <1>2 DEF Push
  <2>2. /\ RemoveFirst(lru, k) \in Seq(Keys) /\ Len(RemoveFirst(lru, k)) = Len(lru) - 1
        /\ ToSet(RemoveFirst(lru, k)) = R /\ Distinct(RemoveFirst(lru, k))
    BY <1>2, RemoveFirstLeaves
  <2>3. IsFiniteSet(R) /\ Cardinality(R) = Cardinality(Live) - 1
    BY <1>2, FS_RemoveElement
  <2>4. /\ DOMAIN byKey' = R \cup {k}
        /\ byKey'[k] = o /\ \A x \in R : byKey'[x] = byKey[x]
    BY <1>2, <2>1 DEF Set, Live
  <2>5. /\ R \subseteq Live /\ k \notin R /\ Cardinality(R) + 1 <= Cap
        /\ Len(RemoveFirst(lru, k)) = Cardinality(R)
    BY <1>0, <2>2, <2>3
  <2> QED BY <2>1, <2>2, <2>3, <2>4, <2>5, Zenon
<1>3. CASE k \notin Live /\ ~(Cardinality(Live) >= Cap)
  <2>1. byKey' = Set(byKey, k, o) /\ lru' = Append(lru, k)
    BY <1>3 DEF Push
  <2>2. /\ DOMAIN byKey' = Live \cup {k}
        /\ byKey'[k] = o /\ \A x \in Live : byKey'[x] = byKey[x]
    BY <1>3, <2>1 DEF Set, Live
  <2>3. Cardinality(Live) + 1 <= Cap
    BY <1>0, <1>3
  <2> QED BY <1>3, <2>1, <2>2, <2>3, Zenon
<1> QED BY <1>1, <1>2, <1>3

LEMMA PushKeeps ==
    ASSUME BacklogInv, NEW k \in Keys, NEW o \in Offers, Push(k, o)
    PROVE  BacklogInv'
<1>1. PICK R, rest :
        /\ R \subseteq Live /\ k \notin R /\ IsFiniteSet(R) /\ Cardinality(R) + 1 <= Cap
        /\ rest \in Seq(Keys) /\ Distinct(rest) /\ ToSet(rest) = R /\ Len(rest) = Cardinality(R)
        /\ lru' = Append(rest, k)
        /\ DOMAIN byKey' = R \cup {k}
        /\ byKey'[k] = o /\ \A x \in R : byKey'[x] = byKey[x]
  BY PushKeepsList
<1>2. LruListsItems'
  <2>1. Live' = R \cup {k} /\ IsFiniteSet(R \cup {k}) /\ Cardinality(R \cup {k}) = Cardinality(R) + 1
    BY <1>1, FS_AddElement DEF Live
  <2>2. /\ lru' \in Seq(Keys) /\ Len(lru') = Len(rest) + 1
        /\ ToSet(lru') = R \cup {k} /\ Distinct(lru')
    BY <1>1, AppendAdds
  <2>3. R \cup {k} \subseteq Keys
    BY <1>1 DEF BacklogInv, LruListsItems
  <2> QED BY <1>1, <2>1, <2>2, <2>3 DEF LruListsItems
<1>3. o \in Item
  BY BacklogAssumption DEF Item
<1>4. byKey' \in [Live' -> Item]
  <2>1. byKey' = [x \in DOMAIN byKey' |-> byKey'[x]]
    BY DEF Push, Set
  <2>2. \A x \in R \cup {k} : byKey'[x] \in Item
    BY <1>1, <1>3 DEF BacklogInv
  <2> QED BY <1>1, <2>1, <2>2 DEF Live
<1> DEFINE e == <<ScoreItem(o), k>>
<1>5. heap' = Append(heap, e) /\ Len(heap) < MaxHeap /\ busy' = busy
  BY DEF Push
<1>6. e \in Nat \X Keys
  BY <1>3, ScoreType
<1> HIDE DEF e
<1>7. /\ heap' \in Seq(Nat \X Keys) /\ Len(heap') = Len(heap) + 1
      /\ \A i \in 1..Len(heap) : heap'[i] = heap[i]
      /\ heap'[Len(heap) + 1] = e
      /\ Len(heap) \in Nat
  BY <1>5, <1>6, AppendAdds DEF BacklogInv
<1>8. LiveItemsQueued'
  <2> SUFFICES ASSUME NEW x \in R \cup {k}
               PROVE  \E i \in DOMAIN heap' : heap'[i] = <<ScoreItem(byKey'[x]), x>>
    BY <1>1 DEF LiveItemsQueued, Live, ScoreItem
  <2>0. DOMAIN heap' = 1..(Len(heap) + 1) /\ DOMAIN heap = 1..Len(heap)
    BY <1>7 DEF BacklogInv
  <2>1. CASE x = k
    <3>1. Len(heap) + 1 \in DOMAIN heap' /\ heap'[Len(heap) + 1] = <<ScoreItem(byKey'[x]), x>>
      BY <1>1, <1>7, <2>0, <2>1 DEF e
    <3> QED BY <3>1
  <2>2. CASE x \in R
    <3>1. PICK i \in DOMAIN heap : heap[i] = <<ScoreItem(byKey[x]), x>>
      BY <1>1, <2>2 DEF BacklogInv, LiveItemsQueued
    <3>2. i \in DOMAIN heap' /\ heap'[i] = heap[i]
      BY <1>7, <2>0, <3>1
    <3> QED BY <1>1, <2>2, <3>1, <3>2
  <2> QED BY <2>1, <2>2
<1>9. Len(heap') <= MaxHeap
  BY <1>5, <1>7, BacklogAssumption
<1> QED BY <1>2, <1>4, <1>5, <1>7, <1>8, <1>9 DEF BacklogInv

\* A stale entry that leaves the heap belongs to no live item.
LEMMA StaleKeeps ==
    ASSUME BacklogInv, NEW i \in DOMAIN heap, heap[i][2] \notin Live,
           heap' = RemoveAt(heap, i), UNCHANGED <<busy, byKey, lru>>
    PROVE  BacklogInv'
<1>1. /\ heap \in Seq(Nat \X Keys) /\ DOMAIN heap = 1..Len(heap) /\ Len(heap) \in Nat
  BY DEF BacklogInv
<1>2. /\ heap' \in Seq(Nat \X Keys) /\ Len(heap') = Len(heap) - 1
      /\ \A j \in 1..(Len(heap) - 1) : heap'[j] = IF j < i THEN heap[j] ELSE heap[j + 1]
  <2>1. i \in 1..Len(heap)
    BY <1>1
  <2> DEFINE h == RemoveAt(heap, i)
  <2>2. /\ h \in Seq(Nat \X Keys) /\ Len(h) = Len(heap) - 1
        /\ \A j \in 1..(Len(heap) - 1) : h[j] = IF j < i THEN heap[j] ELSE heap[j + 1]
    BY <1>1, <2>1, RemoveAtLeaves, Zenon
  <2>3. heap' = h
    OBVIOUS
  <2> HIDE DEF h
  <2> QED BY <2>2, <2>3, Zenon
<1>3. DOMAIN heap' = 1..(Len(heap) - 1)
  <2>1. DOMAIN heap' = 1..Len(heap')
    BY <1>2, LenProperties, Zenon
  <2> QED BY <1>2, <2>1
<1>4. LiveItemsQueued'
  <2> SUFFICES ASSUME NEW x \in Live
               PROVE  \E j \in DOMAIN heap' : heap'[j] = <<ScoreItem(byKey[x]), x>>
    BY DEF LiveItemsQueued, Live, ScoreItem
  <2>1. PICK j \in 1..Len(heap) : heap[j] = <<ScoreItem(byKey[x]), x>>
    BY <1>1 DEF BacklogInv, LiveItemsQueued
  <2>2. j # i
    BY <2>1
  <2>3. CASE j < i
    <3>1. j \in 1..(Len(heap) - 1) /\ heap'[j] = heap[j]
      BY <1>1, <1>2, <2>3
    <3> QED BY <1>3, <2>1, <3>1
  <2>4. CASE j > i
    <3>1. j - 1 \in 1..(Len(heap) - 1) /\ heap'[j - 1] = heap[j]
      BY <1>1, <1>2, <2>4
    <3> QED BY <1>3, <2>1, <3>1
  <2> QED BY <1>1, <2>2, <2>3, <2>4
<1>5. Len(heap') <= MaxHeap
  BY <1>1, <1>2, BacklogAssumption DEF BacklogInv
<1>6. LruListsItems'
  BY DEF BacklogInv, LruListsItems, Live
<1> QED BY <1>2, <1>4, <1>5, <1>6 DEF BacklogInv, Live

\* Every live item has an entry of its own, so the heap is at least as long as
\* the map is large.
LEMMA HeapHoldsItems == BacklogInv => Cardinality(Live) <= Len(heap)
<1> SUFFICES ASSUME BacklogInv PROVE Cardinality(Live) <= Len(heap)
  OBVIOUS
<1> DEFINE Entry(k) == CHOOSE i \in DOMAIN heap : heap[i] = <<ScoreItem(byKey[k]), k>>
           f == [k \in Live |-> Entry(k)]
<1>1. DOMAIN heap = 1..Len(heap) /\ Len(heap) \in Nat
  BY DEF BacklogInv
<1>2. \A k \in Live : Entry(k) \in 1..Len(heap) /\ heap[Entry(k)] = <<ScoreItem(byKey[k]), k>>
  BY <1>1 DEF BacklogInv, LiveItemsQueued
<1> HIDE DEF Entry
<1>3. f \in [Live -> 1..Len(heap)] /\ \A a, b \in Live : f[a] = f[b] => a = b
  BY <1>2
<1>4. f \in Injection(Live, 1..Len(heap))
  BY <1>3, Fun_IsInj
<1>5. IsFiniteSet(1..Len(heap)) /\ Cardinality(1..Len(heap)) = Len(heap)
  <2> SUFFICES ASSUME NEW n \in Nat PROVE IsFiniteSet(1..n) /\ Cardinality(1..n) = n
    BY <1>1
  <2> QED BY FS_Interval
<1> QED BY <1>4, <1>5, FS_Injection

\* An aged item is an item.
LEMMA AgeType == \A i \in Item : AgeItem(i) \in Item
<1> SUFFICES ASSUME NEW i \in Item PROVE AgeItem(i) \in Item
  OBVIOUS
<1>1. i.novelty \in 0..NoveltyCap /\ NoveltyCap \in Nat
  BY BacklogAssumption DEF Item
<1>2. (IF i.novelty = 0 \/ i.novelty = NoveltyCap THEN i.novelty ELSE i.novelty + 1) \in 0..NoveltyCap
  BY <1>1
<1> QED BY <1>2 DEF AgeItem, Item

\* The sweep rebuilds the three indices from the survivors.
LEMMA AgeKeeps ==
    ASSUME BacklogInv, NEW k \in Live, AgeOthers(Without(byKey, k)), busy' \in BOOLEAN
    PROVE  BacklogInv'
<1> DEFINE R == Live \ {k}
           aged == [x \in R |-> AgeItem(byKey[x])]
           entry == [x \in R |-> <<ScoreItem(aged[x]), x>>]
           H == {<<ScoreItem(aged[x]), x>> : x \in R}
<1>0. /\ IsFiniteSet(Live) /\ Live \subseteq Keys /\ Cardinality(Live) <= Cap
      /\ byKey \in [Live -> Item]
  BY DEF BacklogInv, LruListsItems
<1>1. /\ byKey' = aged /\ lru' \in SetToSeqs(R) /\ heap' = SetToSeq(H)
  <2>1. DOMAIN Without(byKey, k) = R /\ \A x \in R : Without(byKey, k)[x] = byKey[x]
    BY DEF Without, Live
  <2>2. [x \in DOMAIN Without(byKey, k) |-> AgeItem(Without(byKey, k)[x])] = aged
    BY <2>1
  <2>3. DOMAIN aged = R
    OBVIOUS
  <2> HIDE DEF aged
  <2> QED BY <2>2, <2>3 DEF AgeOthers
<1>2. IsFiniteSet(R) /\ Cardinality(R) = Cardinality(Live) - 1 /\ Cardinality(Live) \in Nat
  BY <1>0, FS_RemoveElement, FS_CardinalityType
<1>3. Live' = R /\ \A x \in R : aged[x] \in Item /\ byKey'[x] = aged[x]
  BY <1>0, <1>1, AgeType DEF Live
<1>4. byKey' \in [Live' -> Item]
  BY <1>1, <1>3
<1>5. LruListsItems'
  <2>1. /\ lru' \in [1..Cardinality(R) -> R]
        /\ \A i, j \in 1..Cardinality(R) : lru'[i] = lru'[j] => i = j
    BY <1>1 DEF SetToSeqs
  <2>2. lru' \in Seq(R) /\ Len(lru') = Cardinality(R) /\ ToSet(lru') = R
    BY <1>2, <2>1, ListOfSet
  <2>3. Distinct(lru')
    BY <2>1 DEF Distinct
  <2>4. lru' \in Seq(Keys) /\ Cardinality(R) <= Cap
    BY <1>0, <1>2, <2>2, BacklogAssumption
  <2> QED BY <1>0, <1>2, <1>3, <2>2, <2>3, <2>4 DEF LruListsItems
<1> HIDE DEF aged
<1>6. IsFiniteSet(H) /\ Cardinality(H) = Cardinality(R)
  <2>1. entry \in [R -> H] /\ \A a, b \in R : entry[a] = entry[b] => a = b
    OBVIOUS
  <2>2. \A t \in H : \E a \in R : entry[a] = t
    OBVIOUS
  <2>3. entry \in Bijection(R, H)
    BY <2>1, <2>2, Fun_IsBij
  <2> HIDE DEF entry, H, R
  <2>4. ExistsBijection(R, H)
    BY <2>3 DEF ExistsBijection
  <2> QED BY <1>2, <2>4, FS_Bijection
<1>7. H \subseteq Nat \X Keys
  BY <1>0, <1>3, ScoreType
<1>8. heap' \in Seq(H) /\ Len(heap') = Cardinality(R) /\ ToSet(heap') = H
  BY <1>1, <1>6, SetToSeqLists
<1>9. LiveItemsQueued'
  <2> SUFFICES ASSUME NEW x \in R
               PROVE  \E i \in DOMAIN heap' : heap'[i] = <<ScoreItem(byKey'[x]), x>>
    BY <1>3 DEF LiveItemsQueued, ScoreItem
  <2>1. <<ScoreItem(byKey'[x]), x>> \in ToSet(heap')
    BY <1>3, <1>8
  <2> QED BY <2>1 DEF ToSet
<1>10. heap' \in Seq(Nat \X Keys)
  BY <1>7, <1>8
<1>11. Len(heap') <= MaxHeap
  <2>1. Cardinality(Live) <= Len(heap) /\ Len(heap) <= MaxHeap /\ Len(heap) \in Nat
    BY HeapHoldsItems DEF BacklogInv
  <2> QED BY <1>2, <1>8, <2>1, BacklogAssumption
<1> QED BY <1>4, <1>5, <1>9, <1>10, <1>11 DEF BacklogInv

\* With no survivor nothing is re-scored.
LEMMA LastKeeps ==
    ASSUME BacklogInv, NEW k, Live = {k}, NEW i \in DOMAIN heap, busy' \in BOOLEAN,
           byKey' = Without(byKey, k), lru' = RemoveFirst(lru, k), heap' = RemoveAt(heap, i)
    PROVE  BacklogInv'
<1>1. Live' = {} /\ byKey' \in [{} -> Item]
  BY DEF Without, Live
<1>2. /\ lru' \in Seq(Keys) /\ Len(lru') = Len(lru) - 1 /\ ToSet(lru') = {} /\ Distinct(lru')
  BY RemoveFirstLeaves DEF BacklogInv, LruListsItems
<1>3. Len(lru) = 1
  BY FS_Singleton DEF BacklogInv, LruListsItems
<1>4. /\ IsFiniteSet({}) /\ Cardinality({}) = 0
  BY FS_EmptySet
<1>5. LruListsItems'
  BY <1>1, <1>2, <1>3, <1>4, BacklogAssumption DEF LruListsItems
<1>6. LiveItemsQueued'
  BY <1>1 DEF LiveItemsQueued
<1>7. heap' \in Seq(Nat \X Keys) /\ Len(heap') <= MaxHeap
  <2>1. heap \in Seq(Nat \X Keys) /\ Len(heap) \in Nat /\ i \in 1..Len(heap) /\ Len(heap) <= MaxHeap
    BY DEF BacklogInv
  <2>2. heap' \in Seq(Nat \X Keys) /\ Len(heap') = Len(heap) - 1
    BY <2>1, RemoveAtLeaves
  <2> QED BY <2>1, <2>2, BacklogAssumption
<1> QED BY <1>1, <1>5, <1>6, <1>7 DEF BacklogInv

\* push, pop and the aging sweep keep the heap, the item map and the LRU list in
\* step: every live item is queued under its current score, the list holds each
\* live key once, and the capacity is kept.
THEOREM BacklogIndicesAgree == BacklogSpec => []IndicesAgree
<1>1. BacklogInit => BacklogInv
  <2> SUFFICES ASSUME BacklogInit PROVE BacklogInv
    OBVIOUS
  <2>1. Live = {} /\ byKey \in [{} -> Item]
    BY DEF BacklogInit, Live
  <2>2. IsFiniteSet({}) /\ Cardinality({}) = 0
    BY FS_EmptySet
  <2>3. heap \in Seq(Nat \X Keys) /\ Len(heap) = 0 /\ lru \in Seq(Keys) /\ Len(lru) = 0
        /\ ToSet(lru) = {} /\ Distinct(lru) /\ busy \in BOOLEAN
    <3>1. heap = <<>> /\ lru = <<>> /\ busy = FALSE
      BY DEF BacklogInit
    <3>2. ToSet(<<>>) = {} /\ Distinct(<<>>)
      BY DEF ToSet, Distinct
    <3>3. \A S : <<>> \in Seq(S) /\ Len(<<>>) = 0
      BY EmptySeq
    <3> QED BY <3>1, <3>2, <3>3, Zenon
  <2> QED BY <2>1, <2>2, <2>3, BacklogAssumption DEF BacklogInv, LruListsItems, LiveItemsQueued
<1>2. BacklogInv /\ [BacklogNext]_backlogVars => BacklogInv'
  <2> SUFFICES ASSUME BacklogInv, [BacklogNext]_backlogVars PROVE BacklogInv'
    OBVIOUS
  <2>1. ASSUME NEW k \in Keys, NEW o \in Offers, Push(k, o) PROVE BacklogInv'
    BY <2>1, PushKeeps
  <2>2. CASE UNCHANGED <<heap, byKey, lru>> /\ busy' \in BOOLEAN
    BY <2>2 DEF BacklogInv, LruListsItems, LiveItemsQueued, Live
  <2>3. CASE StartPop
    BY <2>2, <2>3 DEF StartPop
  <2>4. CASE PopNone
    BY <2>2, <2>4 DEF PopNone
  <2>5. CASE PopTop
    <3>1. PICK i \in DOMAIN heap :
            IF heap[i][2] \notin Live
            THEN heap' = RemoveAt(heap, i) /\ UNCHANGED <<busy, byKey, lru>>
            ELSE /\ busy' = FALSE
                 /\ IF Live = {heap[i][2]}
                    THEN /\ byKey' = Without(byKey, heap[i][2]) /\ lru' = RemoveFirst(lru, heap[i][2])
                         /\ heap' = RemoveAt(heap, i)
                    ELSE AgeOthers(Without(byKey, heap[i][2]))
      BY <2>5 DEF PopTop
    <3>2. CASE heap[i][2] \notin Live
      BY <3>1, <3>2, StaleKeeps
    <3>3. CASE heap[i][2] \in Live /\ Live = {heap[i][2]}
      BY <3>1, <3>3, LastKeeps
    <3>4. CASE heap[i][2] \in Live /\ Live # {heap[i][2]}
      BY <3>1, <3>4, AgeKeeps
    <3> QED BY <3>2, <3>3, <3>4
  <2>6. CASE UNCHANGED backlogVars
    BY <2>2, <2>6 DEF backlogVars, BacklogInv
  <2> QED BY <2>1, <2>3, <2>4, <2>5, <2>6 DEF BacklogNext, Pop
<1> QED BY <1>1, <1>2, BacklogInvImplies, PTL DEF BacklogSpec

-----------------------------------------------------------------------------
(* PureFastSolver: the answers of the first tier, from its table, hold for    *)
(* every constant.  Only comparisons of an unwidened byte are claimed, so the *)
(* width ExtBits of an extension does not matter.                             *)

CONSTANT ExtBits

P == INSTANCE PureFastSolver

(* A comparison of an input byte that is not widened.                         *)
IsByteQuery(q) == q \in P!Queries /\ q.shape = "Var"

LEMMA ByteQueryType ==
    ASSUME NEW q, IsByteQuery(q)
    PROVE  /\ q.rel \in P!ExprRels /\ q.negated \in BOOLEAN /\ q.swapped \in BOOLEAN
           /\ q.c \in 0..255 /\ q.c % 256 = q.c
           /\ P!Width(q.shape) = 8
<1>1. PICK s \in P!Shapes :
        q \in [rel : P!ExprRels, negated : BOOLEAN, swapped : BOOLEAN, shape : {s},
               c : P!ConstsOf(s), widthsAgree : BOOLEAN, index : {InputBytes - 1, InputBytes}]
  BY DEF IsByteQuery, P!Queries
<1>2. s = "Var" /\ q.rel \in P!ExprRels /\ q.negated \in BOOLEAN /\ q.swapped \in BOOLEAN /\ q.c \in P!ConstsOf(s)
  BY <1>1 DEF IsByteQuery
<1>3. P!Width("Var") = 8
  BY DEF P!Width
<1>4. P!ConstsOf("Var") = 0..255
  <2>1. 2^8 = 256
    BY SMT
  <2>2. P!ConstsOf("Var") = 0..(2^8 - 1)
    BY <1>3 DEF P!ConstsOf
  <2>3. QED BY <2>1, <2>2
<1>5. q.c \in 0..255
  BY <1>2, <1>4
<1>6. q.c % 256 = q.c
  BY <1>5, SMT
<1>7. QED BY <1>2, <1>3, <1>5, <1>6 DEF IsByteQuery

(* The two readings of a byte as signed, of the reference and of the code.    *)
LEMMA SignedByte ==
    ASSUME NEW v \in 0..255
    PROVE  P!Signed(v, 8) = P!AsI8(v) /\ P!AsI8(v) \in -128..127
           /\ v = (IF P!AsI8(v) < 0 THEN P!AsI8(v) + 256 ELSE P!AsI8(v))
<1>1. 2^(8 - 1) = 128 /\ 2^8 = 256
  BY SMT
<1>2. QED BY <1>1 DEF P!Signed, P!AsI8

(* What i8::checked_add and checked_sub by one make of a byte, and try_from.  *)
LEMMA StepsOfAByte ==
    ASSUME NEW c \in 0..255
    PROVE  /\ P!CheckedI8(P!AsI8(c) - 1) = (IF c = 128 THEN -1 ELSE IF c = 0 THEN 255 ELSE c - 1)
           /\ P!CheckedI8(P!AsI8(c) + 1) = (IF c = 127 THEN -1 ELSE IF c = 255 THEN 0 ELSE c + 1)
           /\ P!CheckedI8(c) = (IF c < 128 THEN c ELSE -1)
<1>0. ASSUME NEW i \in -128..127
      PROVE  i % 256 = IF i < 0 THEN i + 256 ELSE i
  <2>1. CASE i >= 0 BY <2>1, SMT
  <2>2. CASE i < 0 BY <2>2, SMT
  <2>4. QED BY <2>1, <2>2
<1>1. CASE c = 0
  <2>1. P!AsI8(c) - 1 = -1 /\ P!AsI8(c) + 1 = 1
    BY <1>1, SMT DEF P!AsI8
  <2>2. (-1) % 256 = 255 /\ 1 % 256 = 1 /\ 0 % 256 = 0
    BY <1>0
  <2>3. P!CheckedI8(-1) = 255 /\ P!CheckedI8(1) = 1 /\ P!CheckedI8(0) = 0
    BY <2>2, SMT DEF P!CheckedI8, P!AsU8, P!NoByte
  <2>4. QED BY <1>1, <2>1, <2>3
<1>2. CASE c \in 1..127
  BY <1>2 DEF P!CheckedI8, P!AsU8, P!AsI8, P!NoByte
<1>3. CASE c = 128
  <2>1. P!AsI8(c) - 1 = -129 /\ P!AsI8(c) + 1 = -127
    BY <1>3, SMT DEF P!AsI8
  <2>2. (-127) % 256 = 129
    BY <1>0
  <2>3. P!CheckedI8(-129) = -1 /\ P!CheckedI8(-127) = 129 /\ P!CheckedI8(128) = -1
    BY <2>2, SMT DEF P!CheckedI8, P!AsU8, P!NoByte
  <2>4. QED BY <1>3, <2>1, <2>3
<1>4. CASE c \in 129..255
  BY <1>4 DEF P!CheckedI8, P!AsU8, P!AsI8, P!NoByte
<1>5. QED BY <1>1, <1>2, <1>3, <1>4

(* Signed or not, the relation between a byte and a byte constant, negation   *)
(* folded into the relation.                                                  *)
Holds(rel, a, b) ==
    IF rel = "Eq" THEN a = b
    ELSE IF rel = "Ne" THEN a # b
    ELSE IF rel = "Ult" THEN a < b
    ELSE IF rel = "Uge" THEN ~(a < b)
    ELSE IF rel = "Ule" THEN a =< b
    ELSE IF rel = "Ugt" THEN ~(a =< b)
    ELSE IF rel = "Slt" THEN P!AsI8(a) < P!AsI8(b)
    ELSE IF rel = "Sge" THEN ~(P!AsI8(a) < P!AsI8(b))
    ELSE IF rel = "Sle" THEN P!AsI8(a) =< P!AsI8(b)
    ELSE ~(P!AsI8(a) =< P!AsI8(b))

AllRels == {"Eq", "Ne", "Ult", "Uge", "Ule", "Ugt", "Slt", "Sge", "Sle", "Sgt"}

(* Each negation by name, so that no CASE is left to unfold.                  *)
LEMMA InvertedRelation ==
    /\ P!Invert("Eq") = "Ne" /\ P!Invert("Ult") = "Uge" /\ P!Invert("Ule") = "Ugt"
    /\ P!Invert("Slt") = "Sge" /\ P!Invert("Sle") = "Sgt"
<1>1. P!Invert("Eq") = "Ne" BY Zenon DEF P!Invert
<1>2. P!Invert("Ult") = "Uge" BY Zenon DEF P!Invert
<1>3. P!Invert("Ule") = "Ugt" BY Zenon DEF P!Invert
<1>4. P!Invert("Slt") = "Sge" BY Zenon DEF P!Invert
<1>5. P!Invert("Sle") = "Sgt" BY Zenon DEF P!Invert
<1>6. QED BY <1>1, <1>2, <1>3, <1>4, <1>5

(* Holds, relation by relation.                                               *)
LEMMA HoldsByRelation ==
    ASSUME NEW a \in 0..255, NEW b \in 0..255
    PROVE  /\ Holds("Eq", a, b) <=> a = b
           /\ Holds("Ne", a, b) <=> ~(a = b)
           /\ Holds("Ult", a, b) <=> a < b
           /\ Holds("Uge", a, b) <=> ~(a < b)
           /\ Holds("Ule", a, b) <=> a =< b
           /\ Holds("Ugt", a, b) <=> ~(a =< b)
           /\ Holds("Slt", a, b) <=> P!AsI8(a) < P!AsI8(b)
           /\ Holds("Sge", a, b) <=> ~(P!AsI8(a) < P!AsI8(b))
           /\ Holds("Sle", a, b) <=> P!AsI8(a) =< P!AsI8(b)
           /\ Holds("Sgt", a, b) <=> ~(P!AsI8(a) =< P!AsI8(b))
<1>1. P!AsI8(a) \in -128..127 /\ P!AsI8(b) \in -128..127
  BY SignedByte
<1>2. Holds("Eq", a, b) <=> a = b BY Zenon DEF Holds
<1>3. Holds("Ne", a, b) <=> ~(a = b) BY Zenon DEF Holds
<1>4. Holds("Ult", a, b) <=> a < b BY Zenon DEF Holds
<1>5. Holds("Uge", a, b) <=> ~(a < b) BY Zenon DEF Holds
<1>6. Holds("Ule", a, b) <=> a =< b BY Zenon DEF Holds
<1>7. Holds("Ugt", a, b) <=> ~(a =< b) BY Zenon DEF Holds
<1>8. Holds("Slt", a, b) <=> P!AsI8(a) < P!AsI8(b) BY Zenon DEF Holds
<1>9. Holds("Sge", a, b) <=> ~(P!AsI8(a) < P!AsI8(b)) BY Zenon DEF Holds
<1>10. Holds("Sle", a, b) <=> P!AsI8(a) =< P!AsI8(b) BY Zenon DEF Holds
<1>11. Holds("Sgt", a, b) <=> ~(P!AsI8(a) =< P!AsI8(b)) BY Zenon DEF Holds
<1>12. QED BY <1>2, <1>3, <1>4, <1>5, <1>6, <1>7, <1>8, <1>9, <1>10, <1>11, Zenon

(* The relation left when the negation is folded in.                          *)
IsFlag(v) == v \in BOOLEAN
Want(rel, neg) == IF neg THEN P!Invert(rel) ELSE rel

(* The branch goes the wanted way exactly if the folded relation holds.       *)
LEMMA WantedHolds ==
    ASSUME NEW rel \in P!ExprRels, NEW neg, IsFlag(neg), NEW a \in 0..255, NEW b \in 0..255
    PROVE  Want(rel, neg) \in AllRels /\ ((P!Compare(rel, a, b, 8) # neg) <=> Holds(Want(rel, neg), a, b))
<1> DEFINE want == Want(rel, neg)
<1>0. SUFFICES ASSUME NEW v \in BOOLEAN, P!Compare(rel, a, b, 8) = v,
                      Holds(rel, a, b) <=> v, Holds(P!Invert(rel), a, b) <=> ~v,
                      rel \in AllRels, P!Invert(rel) \in AllRels
               PROVE  want \in AllRels /\ ((P!Compare(rel, a, b, 8) # neg) <=> Holds(want, a, b))
  <2>1. CASE rel = "Eq"
    <3>1. P!Compare("Eq", a, b, 8) = (a = b)
      BY Zenon DEF P!Compare
    <3>2. (Holds("Eq", a, b) <=> a = b) /\ (Holds("Ne", a, b) <=> ~(a = b))
      BY HoldsByRelation
    <3>3. P!Invert("Eq") = "Ne" /\ "Eq" \in AllRels /\ "Ne" \in AllRels
      BY InvertedRelation DEF AllRels
    <3>4. (a = b) \in BOOLEAN
      OBVIOUS
    <3>5. QED BY <2>1, <3>1, <3>2, <3>3, <3>4, Zenon
  <2>2. CASE rel = "Ult"
    <3>1. P!Compare("Ult", a, b, 8) = (a < b)
      BY Zenon DEF P!Compare
    <3>2. (Holds("Ult", a, b) <=> a < b) /\ (Holds("Uge", a, b) <=> ~(a < b))
      BY HoldsByRelation
    <3>3. P!Invert("Ult") = "Uge" /\ "Ult" \in AllRels /\ "Uge" \in AllRels
      BY InvertedRelation DEF AllRels
    <3>4. (a < b) \in BOOLEAN
      OBVIOUS
    <3>5. QED BY <2>2, <3>1, <3>2, <3>3, <3>4, Zenon
  <2>3. CASE rel = "Ule"
    <3>1. P!Compare("Ule", a, b, 8) = (a =< b)
      BY Zenon DEF P!Compare
    <3>2. (Holds("Ule", a, b) <=> a =< b) /\ (Holds("Ugt", a, b) <=> ~(a =< b))
      BY HoldsByRelation
    <3>3. P!Invert("Ule") = "Ugt" /\ "Ule" \in AllRels /\ "Ugt" \in AllRels
      BY InvertedRelation DEF AllRels
    <3>4. (a =< b) \in BOOLEAN
      OBVIOUS
    <3>5. QED BY <2>3, <3>1, <3>2, <3>3, <3>4, Zenon
  <2>4. CASE rel = "Slt"
    <3>1. P!Compare("Slt", a, b, 8) = (P!AsI8(a) < P!AsI8(b))
      BY SignedByte, Zenon DEF P!Compare
    <3>2. (Holds("Slt", a, b) <=> P!AsI8(a) < P!AsI8(b)) /\ (Holds("Sge", a, b) <=> ~(P!AsI8(a) < P!AsI8(b)))
      BY HoldsByRelation
    <3>3. P!Invert("Slt") = "Sge" /\ "Slt" \in AllRels /\ "Sge" \in AllRels
      BY InvertedRelation DEF AllRels
    <3>4. (P!AsI8(a) < P!AsI8(b)) \in BOOLEAN
      OBVIOUS
    <3>5. QED BY <2>4, <3>1, <3>2, <3>3, <3>4, Zenon
  <2>5. CASE rel = "Sle"
    <3>1. P!Compare("Sle", a, b, 8) = (P!AsI8(a) =< P!AsI8(b))
      BY SignedByte, Zenon DEF P!Compare
    <3>2. (Holds("Sle", a, b) <=> P!AsI8(a) =< P!AsI8(b)) /\ (Holds("Sgt", a, b) <=> ~(P!AsI8(a) =< P!AsI8(b)))
      BY HoldsByRelation
    <3>3. P!Invert("Sle") = "Sgt" /\ "Sle" \in AllRels /\ "Sgt" \in AllRels
      BY InvertedRelation DEF AllRels
    <3>4. (P!AsI8(a) =< P!AsI8(b)) \in BOOLEAN
      OBVIOUS
    <3>5. QED BY <2>5, <3>1, <3>2, <3>3, <3>4, Zenon
  <2>6. QED BY <2>1, <2>2, <2>3, <2>4, <2>5, Zenon DEF P!ExprRels
<1>1. CASE neg = TRUE
  <2>1. want = P!Invert(rel)
    BY <1>1, Zenon DEF Want
  <2>2. QED BY <1>0, <1>1, <2>1, Zenon
<1>2. CASE neg = FALSE
  <2>1. want = rel
    BY <1>2, Zenon DEF Want
  <2>2. QED BY <1>0, <1>2, <2>1, Zenon
<1>3. QED BY <1>1, <1>2, Zenon DEF IsFlag

(* The entries of the table for the byte on the left.                         *)
LEMMA FlipVarConstValues ==
    ASSUME NEW c, c % 256 = c
    PROVE  /\ P!FlipVarConst("Ne", c) = (IF c = 0 THEN 1 ELSE 0)
           /\ P!FlipVarConst("Ult", c) = (P!U8(c - 1))
           /\ P!FlipVarConst("Ugt", c) = (P!U8(c + 1))
           /\ P!FlipVarConst("Slt", c) = (P!CheckedI8(P!AsI8(c) - 1))
           /\ P!FlipVarConst("Sgt", c) = (P!CheckedI8(P!AsI8(c) + 1))
           /\ P!FlipVarConst("Sle", c) = (P!CheckedI8(c))
           /\ P!FlipVarConst("Sge", c) = (P!CheckedI8(c))
           /\ P!FlipVarConst("Eq", c) = (c)
           /\ P!FlipVarConst("Ule", c) = (c)
           /\ P!FlipVarConst("Uge", c) = (c)
<1>1. P!FlipVarConst("Ne", c) = (IF c = 0 THEN 1 ELSE 0) BY Zenon DEF P!FlipVarConst
<1>2. P!FlipVarConst("Ult", c) = (P!U8(c - 1)) BY Zenon DEF P!FlipVarConst
<1>3. P!FlipVarConst("Ugt", c) = (P!U8(c + 1)) BY Zenon DEF P!FlipVarConst
<1>4. P!FlipVarConst("Slt", c) = (P!CheckedI8(P!AsI8(c) - 1)) BY Zenon DEF P!FlipVarConst
<1>5. P!FlipVarConst("Sgt", c) = (P!CheckedI8(P!AsI8(c) + 1)) BY Zenon DEF P!FlipVarConst
<1>6. P!FlipVarConst("Sle", c) = (P!CheckedI8(c)) BY Zenon DEF P!FlipVarConst
<1>7. P!FlipVarConst("Sge", c) = (P!CheckedI8(c)) BY Zenon DEF P!FlipVarConst
<1>8. P!FlipVarConst("Eq", c) = (c) BY Zenon DEF P!FlipVarConst
<1>9. P!FlipVarConst("Ule", c) = (c) BY Zenon DEF P!FlipVarConst
<1>10. P!FlipVarConst("Uge", c) = (c) BY Zenon DEF P!FlipVarConst
<1>11. QED BY <1>1, <1>2, <1>3, <1>4, <1>5, <1>6, <1>7, <1>8, <1>9, <1>10

(* The entries of the table for the byte on the right.                        *)
LEMMA FlipConstVarValues ==
    ASSUME NEW c, c % 256 = c
    PROVE  /\ P!FlipConstVar("Ne", c) = (IF c = 0 THEN 1 ELSE 0)
           /\ P!FlipConstVar("Ult", c) = (P!U8(c + 1))
           /\ P!FlipConstVar("Ugt", c) = (P!U8(c - 1))
           /\ P!FlipConstVar("Slt", c) = (P!CheckedI8(P!AsI8(c) + 1))
           /\ P!FlipConstVar("Sgt", c) = (P!CheckedI8(P!AsI8(c) - 1))
           /\ P!FlipConstVar("Sle", c) = (P!CheckedI8(c))
           /\ P!FlipConstVar("Sge", c) = (P!CheckedI8(c))
           /\ P!FlipConstVar("Eq", c) = (c)
           /\ P!FlipConstVar("Ule", c) = (c)
           /\ P!FlipConstVar("Uge", c) = (c)
<1>1. P!FlipConstVar("Ne", c) = (IF c = 0 THEN 1 ELSE 0) BY Zenon DEF P!FlipConstVar
<1>2. P!FlipConstVar("Ult", c) = (P!U8(c + 1)) BY Zenon DEF P!FlipConstVar
<1>3. P!FlipConstVar("Ugt", c) = (P!U8(c - 1)) BY Zenon DEF P!FlipConstVar
<1>4. P!FlipConstVar("Slt", c) = (P!CheckedI8(P!AsI8(c) + 1)) BY Zenon DEF P!FlipConstVar
<1>5. P!FlipConstVar("Sgt", c) = (P!CheckedI8(P!AsI8(c) - 1)) BY Zenon DEF P!FlipConstVar
<1>6. P!FlipConstVar("Sle", c) = (P!CheckedI8(c)) BY Zenon DEF P!FlipConstVar
<1>7. P!FlipConstVar("Sge", c) = (P!CheckedI8(c)) BY Zenon DEF P!FlipConstVar
<1>8. P!FlipConstVar("Eq", c) = (c) BY Zenon DEF P!FlipConstVar
<1>9. P!FlipConstVar("Ule", c) = (c) BY Zenon DEF P!FlipConstVar
<1>10. P!FlipConstVar("Uge", c) = (c) BY Zenon DEF P!FlipConstVar
<1>11. QED BY <1>1, <1>2, <1>3, <1>4, <1>5, <1>6, <1>7, <1>8, <1>9, <1>10

(* What u8::try_from makes of a byte moved by one.                            *)
LEMMA U8Value ==
    ASSUME NEW i \in -1..256
    PROVE  P!U8(i) = (IF i \in 0..255 THEN i ELSE -1)
BY DEF P!U8, P!Byte, P!NoByte

(* An entry is a byte the relation holds of, or there is no such byte.        *)
LEMMA FlipVarConstAnswers ==
    ASSUME NEW rel \in AllRels, NEW c \in 0..255, c % 256 = c
    PROVE  LET r == P!FlipVarConst(rel, c)
           IN  \/ r \in 0..255 /\ Holds(rel, r, c)
               \/ r = -1 /\ (rel \in {"Sle", "Sge"} \/ \A b \in 0..255 : ~Holds(rel, b, c))
<1> DEFINE r == P!FlipVarConst(rel, c)
           Goal == \/ r \in 0..255 /\ Holds(rel, r, c)
                   \/ r = -1 /\ (rel \in {"Sle", "Sge"} \/ \A b \in 0..255 : ~Holds(rel, b, c))
<1>1. CASE rel = "Eq"
  <2>1. \A b \in 0..255 : Holds(rel, b, c) <=> b = c
    BY <1>1, HoldsByRelation
  <2>2. r = c
    BY <1>1, FlipVarConstValues, Zenon
  <2>3. QED BY <2>1, <2>2
<1>2. CASE rel = "Ule"
  <2>1. \A b \in 0..255 : Holds(rel, b, c) <=> b =< c
    BY <1>2, HoldsByRelation
  <2>2. r = c
    BY <1>2, FlipVarConstValues, Zenon
  <2>3. QED BY <2>1, <2>2
<1>3. CASE rel = "Uge"
  <2>1. \A b \in 0..255 : Holds(rel, b, c) <=> ~(b < c)
    BY <1>3, HoldsByRelation
  <2>2. r = c
    BY <1>3, FlipVarConstValues, Zenon
  <2>3. QED BY <2>1, <2>2
<1>4. CASE rel = "Ne"
  <2>1. \A b \in 0..255 : Holds(rel, b, c) <=> ~(b = c)
    BY <1>4, HoldsByRelation
  <2>2. r = (IF c = 0 THEN 1 ELSE 0)
    BY <1>4, FlipVarConstValues, Zenon
  <2>3. QED BY <2>1, <2>2
<1>5. CASE rel = "Ult"
  <2>1. \A b \in 0..255 : Holds(rel, b, c) <=> b < c
    BY <1>5, HoldsByRelation
  <2>2. r = P!U8(c - 1)
    BY <1>5, FlipVarConstValues, Zenon
  <2>3. r = (IF c - 1 \in 0..255 THEN c - 1 ELSE -1)
    BY <2>2, U8Value
  <2>4. QED BY <2>1, <2>3
<1>6. CASE rel = "Ugt"
  <2>1. \A b \in 0..255 : Holds(rel, b, c) <=> ~(b =< c)
    BY <1>6, HoldsByRelation
  <2>2. r = P!U8(c + 1)
    BY <1>6, FlipVarConstValues, Zenon
  <2>3. r = (IF c + 1 \in 0..255 THEN c + 1 ELSE -1)
    BY <2>2, U8Value
  <2>4. QED BY <2>1, <2>3
<1>7. CASE rel = "Slt"
  <2>1. \A b \in 0..255 : Holds(rel, b, c) <=> P!AsI8(b) < P!AsI8(c)
    BY <1>7, HoldsByRelation
  <2>2. r = P!CheckedI8(P!AsI8(c) - 1)
    BY <1>7, FlipVarConstValues, Zenon
  <2>3. r = (IF c = 128 THEN -1 ELSE IF c = 0 THEN 255 ELSE c - 1)
    BY <2>2, StepsOfAByte
  <2>4. QED BY <2>1, <2>3 DEF P!AsI8
<1>8. CASE rel = "Sgt"
  <2>1. \A b \in 0..255 : Holds(rel, b, c) <=> ~(P!AsI8(b) =< P!AsI8(c))
    BY <1>8, HoldsByRelation
  <2>2. r = P!CheckedI8(P!AsI8(c) + 1)
    BY <1>8, FlipVarConstValues, Zenon
  <2>3. r = (IF c = 127 THEN -1 ELSE IF c = 255 THEN 0 ELSE c + 1)
    BY <2>2, StepsOfAByte
  <2>4. QED BY <2>1, <2>3 DEF P!AsI8
<1>9. CASE rel = "Sle"
  <2>1. \A b \in 0..255 : Holds(rel, b, c) <=> P!AsI8(b) =< P!AsI8(c)
    BY <1>9, HoldsByRelation
  <2>2. r = P!CheckedI8(c)
    BY <1>9, FlipVarConstValues, Zenon
  <2>3. r = c \/ r = -1
    BY <2>2, StepsOfAByte
  <2>4. QED BY <1>9, <2>1, <2>3 DEF P!AsI8
<1>10. CASE rel = "Sge"
  <2>1. \A b \in 0..255 : Holds(rel, b, c) <=> ~(P!AsI8(b) < P!AsI8(c))
    BY <1>10, HoldsByRelation
  <2>2. r = P!CheckedI8(c)
    BY <1>10, FlipVarConstValues, Zenon
  <2>3. r = c \/ r = -1
    BY <2>2, StepsOfAByte
  <2>4. QED BY <1>10, <2>1, <2>3 DEF P!AsI8
<1>11. QED BY <1>1, <1>2, <1>3, <1>4, <1>5, <1>6, <1>7, <1>8, <1>9, <1>10 DEF AllRels

(* The same with the byte on the right.                                       *)
LEMMA FlipConstVarAnswers ==
    ASSUME NEW rel \in AllRels, NEW c \in 0..255, c % 256 = c
    PROVE  LET r == P!FlipConstVar(rel, c)
           IN  \/ r \in 0..255 /\ Holds(rel, c, r)
               \/ r = -1 /\ (rel \in {"Sle", "Sge"} \/ \A b \in 0..255 : ~Holds(rel, c, b))
<1> DEFINE r == P!FlipConstVar(rel, c)
           Goal == \/ r \in 0..255 /\ Holds(rel, c, r)
                   \/ r = -1 /\ (rel \in {"Sle", "Sge"} \/ \A b \in 0..255 : ~Holds(rel, c, b))
<1>1. CASE rel = "Eq"
  <2>1. \A b \in 0..255 : Holds(rel, c, b) <=> c = b
    BY <1>1, HoldsByRelation
  <2>2. r = c
    BY <1>1, FlipConstVarValues, Zenon
  <2>3. QED BY <2>1, <2>2
<1>2. CASE rel = "Ule"
  <2>1. \A b \in 0..255 : Holds(rel, c, b) <=> c =< b
    BY <1>2, HoldsByRelation
  <2>2. r = c
    BY <1>2, FlipConstVarValues, Zenon
  <2>3. QED BY <2>1, <2>2
<1>3. CASE rel = "Uge"
  <2>1. \A b \in 0..255 : Holds(rel, c, b) <=> ~(c < b)
    BY <1>3, HoldsByRelation
  <2>2. r = c
    BY <1>3, FlipConstVarValues, Zenon
  <2>3. QED BY <2>1, <2>2
<1>4. CASE rel = "Ne"
  <2>1. \A b \in 0..255 : Holds(rel, c, b) <=> ~(c = b)
    BY <1>4, HoldsByRelation
  <2>2. r = (IF c = 0 THEN 1 ELSE 0)
    BY <1>4, FlipConstVarValues, Zenon
  <2>3. QED BY <2>1, <2>2
<1>5. CASE rel = "Ult"
  <2>1. \A b \in 0..255 : Holds(rel, c, b) <=> c < b
    BY <1>5, HoldsByRelation
  <2>2. r = P!U8(c + 1)
    BY <1>5, FlipConstVarValues, Zenon
  <2>3. r = (IF c + 1 \in 0..255 THEN c + 1 ELSE -1)
    BY <2>2, U8Value
  <2>4. QED BY <2>1, <2>3
<1>6. CASE rel = "Ugt"
  <2>1. \A b \in 0..255 : Holds(rel, c, b) <=> ~(c =< b)
    BY <1>6, HoldsByRelation
  <2>2. r = P!U8(c - 1)
    BY <1>6, FlipConstVarValues, Zenon
  <2>3. r = (IF c - 1 \in 0..255 THEN c - 1 ELSE -1)
    BY <2>2, U8Value
  <2>4. QED BY <2>1, <2>3
<1>7. CASE rel = "Slt"
  <2>1. \A b \in 0..255 : Holds(rel, c, b) <=> P!AsI8(c) < P!AsI8(b)
    BY <1>7, HoldsByRelation
  <2>2. r = P!CheckedI8(P!AsI8(c) + 1)
    BY <1>7, FlipConstVarValues, Zenon
  <2>3. r = (IF c = 127 THEN -1 ELSE IF c = 255 THEN 0 ELSE c + 1)
    BY <2>2, StepsOfAByte
  <2>4. QED BY <2>1, <2>3 DEF P!AsI8
<1>8. CASE rel = "Sgt"
  <2>1. \A b \in 0..255 : Holds(rel, c, b) <=> ~(P!AsI8(c) =< P!AsI8(b))
    BY <1>8, HoldsByRelation
  <2>2. r = P!CheckedI8(P!AsI8(c) - 1)
    BY <1>8, FlipConstVarValues, Zenon
  <2>3. r = (IF c = 128 THEN -1 ELSE IF c = 0 THEN 255 ELSE c - 1)
    BY <2>2, StepsOfAByte
  <2>4. QED BY <2>1, <2>3 DEF P!AsI8
<1>9. CASE rel = "Sle"
  <2>1. \A b \in 0..255 : Holds(rel, c, b) <=> P!AsI8(c) =< P!AsI8(b)
    BY <1>9, HoldsByRelation
  <2>2. r = P!CheckedI8(c)
    BY <1>9, FlipConstVarValues, Zenon
  <2>3. r = c \/ r = -1
    BY <2>2, StepsOfAByte
  <2>4. QED BY <1>9, <2>1, <2>3 DEF P!AsI8
<1>10. CASE rel = "Sge"
  <2>1. \A b \in 0..255 : Holds(rel, c, b) <=> ~(P!AsI8(c) < P!AsI8(b))
    BY <1>10, HoldsByRelation
  <2>2. r = P!CheckedI8(c)
    BY <1>10, FlipConstVarValues, Zenon
  <2>3. r = c \/ r = -1
    BY <2>2, StepsOfAByte
  <2>4. QED BY <1>10, <2>1, <2>3 DEF P!AsI8
<1>11. QED BY <1>1, <1>2, <1>3, <1>4, <1>5, <1>6, <1>7, <1>8, <1>9, <1>10 DEF AllRels

(* A byte that the fast solver answers makes the branch go the wanted way,   *)
(* and its Unsat is a proof for every relation but Sle and Sge, for every    *)
(* comparison of an unwidened byte of the input with a constant, on either   *)
(* side, negated or not, and for every input length.                         *)
THEOREM FastSolverIsSound ==
    \A q \in P!Queries : P!ModelHolds(q, P!SolveTrivial(q)) /\ P!UnsatHolds(q, P!SolveTrivial(q))
<1> SUFFICES ASSUME NEW q \in P!Queries, q.shape = "Var", P!SolveTrivial(q) # P!Refused
             PROVE  LET r == P!SolveTrivial(q)
                    IN  /\ r # P!NoByte => r \in P!Byte /\ P!Satisfies(q, r)
                        /\ P!Wanted(q) \notin {"Sle", "Sge"} /\ r = P!NoByte => \A b \in P!Byte : ~P!Satisfies(q, b)
  <2>1. P!NoByte # P!Refused
    BY DEF P!NoByte, P!Refused
  <2>2. QED BY <2>1, Zenon DEF P!ModelHolds, P!UnsatHolds
<1> DEFINE r == P!SolveTrivial(q)
           want == Want(q.rel, q.negated)
           sat(b) == IF q.swapped THEN Holds(want, q.c, b) ELSE Holds(want, b, q.c)
<1>1. /\ q.rel \in P!ExprRels /\ q.negated \in BOOLEAN /\ q.swapped \in BOOLEAN
      /\ q.c \in 0..255 /\ q.c % 256 = q.c /\ P!Width(q.shape) = 8
  BY ByteQueryType DEF IsByteQuery
<1>2. IsFlag(q.negated)
  BY <1>1 DEF IsFlag
<1>3. \A rel \in P!ExprRels : \A a \in 0..255 : \A b \in 0..255 :
         Want(rel, q.negated) \in AllRels /\ ((P!Compare(rel, a, b, 8) # q.negated) <=> Holds(Want(rel, q.negated), a, b))
  BY <1>2, WantedHolds
<1>4. \A b \in 0..255 : P!Satisfies(q, b) <=> sat(b)
  <2> TAKE b \in 0..255
  <2>1. P!Widened(q.shape, b) = b
    BY DEF P!Widened
  <2>2. P!Satisfies(q, b) <=> ((IF q.swapped THEN P!Compare(q.rel, q.c, b, 8) ELSE P!Compare(q.rel, b, q.c, 8)) # q.negated)
    BY <1>1, <2>1, Zenon DEF P!Satisfies
  <2>3. (P!Compare(q.rel, b, q.c, 8) # q.negated) <=> Holds(want, b, q.c)
    BY <1>1, <1>3, Zenon
  <2>4. (P!Compare(q.rel, q.c, b, 8) # q.negated) <=> Holds(want, q.c, b)
    BY <1>1, <1>3, Zenon
  <2>5. QED BY <2>2, <2>3, <2>4, Zenon
<1>5. want \in AllRels
  BY <1>1, <1>3, Zenon
<1>6. r = IF q.swapped THEN P!FlipConstVar(want, q.c) ELSE P!FlipVarConst(want, q.c)
  BY Zenon DEF P!SolveTrivial, Want
<1>7. \/ r \in 0..255 /\ sat(r)
      \/ r = -1 /\ (want \in {"Sle", "Sge"} \/ \A b \in 0..255 : ~sat(b))
  <2> HIDE DEF want
  <2>1. CASE q.swapped
    <3> DEFINE f == P!FlipConstVar(want, q.c)
    <3>1. \/ f \in 0..255 /\ Holds(want, q.c, f)
          \/ f = -1 /\ (want \in {"Sle", "Sge"} \/ \A b \in 0..255 : ~Holds(want, q.c, b))
      BY <1>1, <1>5, FlipConstVarAnswers
    <3>2. QED BY <1>6, <2>1, <3>1, Zenon
  <2>2. CASE ~q.swapped
    <3> DEFINE f == P!FlipVarConst(want, q.c)
    <3>1. \/ f \in 0..255 /\ Holds(want, f, q.c)
          \/ f = -1 /\ (want \in {"Sle", "Sge"} \/ \A b \in 0..255 : ~Holds(want, b, q.c))
      BY <1>1, <1>5, FlipVarConstAnswers
    <3>2. QED BY <1>6, <2>2, <3>1, Zenon
  <2>3. QED BY <2>1, <2>2
<1>8. P!Byte = 0..255 /\ P!NoByte = -1 /\ P!Wanted(q) = want /\ ~(-1 \in 0..255)
  BY DEF P!Byte, P!NoByte, P!Wanted, Want
<1>9. QED BY <1>4, <1>7, <1>8, Zenon
=============================================================================
