------------------------------- MODULE Slicer -------------------------------
(***************************************************************************)
(* src/src/concolic/slicer.rs: backward_slice, the fixpoint that keeps the *)
(* path constraints whose variables affect the target branch.  One step    *)
(* examines one constraint, in path order, so that a constraint included   *)
(* early in a pass already feeds the ones after it.                        *)
(*                                                                         *)
(* A constraint is the set of variables collect_vars finds in it.          *)
(***************************************************************************)
EXTENDS Integers

CONSTANTS
    Vars,           \* symbols of the expression DAG
    N,              \* number of path constraints
    MaxIterations   \* MAX_SLICE_ITERATIONS

ASSUME SlicerAssumption == N \in Nat /\ MaxIterations \in Nat \ {0}

Path == 1..N

VARIABLES
    cvars, tvars,   \* input: variables of each path constraint and of the target
    reachable,      \* reachable_vars
    included,       \* constraints in the slice
    pos,              \* next constraint of this pass
    grew,           \* this pass added something
    iterations, done, fixpoint

given == <<cvars, tvars>>
vars  == <<cvars, tvars, reachable, included, pos, grew, iterations, done, fixpoint>>

Init ==
    /\ cvars \in [Path -> SUBSET Vars] /\ tvars \in SUBSET Vars
    /\ reachable = tvars /\ included = {}
    /\ pos = 1 /\ grew = FALSE /\ iterations = 1
    /\ done = FALSE /\ fixpoint = FALSE

\* Mutant: the variables of an included constraint are not folded back.
ExamineNoFold ==
    /\ ~done /\ pos \in Path
    /\ pos' = pos + 1
    /\ IF pos \in included \/ cvars[pos] \cap reachable = {}
       THEN UNCHANGED <<included, grew>>
       ELSE included' = included \cup {pos} /\ grew' = TRUE
    /\ UNCHANGED <<given, reachable, iterations, done, fixpoint>>

\* The body of the inner loop.
Examine ==
    /\ ~done /\ pos \in Path
    /\ pos' = pos + 1
    /\ IF pos \in included \/ cvars[pos] \cap reachable = {}
       THEN UNCHANGED <<reachable, included, grew>>
       ELSE /\ included' = included \cup {pos}
            /\ reachable' = reachable \cup cvars[pos]
            /\ grew' = TRUE
    /\ UNCHANGED <<given, iterations, done, fixpoint>>

\* The end of a pass: a pass without growth is the fixpoint; otherwise
\* another one starts, up to the cap.
EndPass ==
    /\ ~done /\ pos = N + 1
    /\ IF ~grew THEN done' = TRUE /\ fixpoint' = TRUE /\ UNCHANGED <<pos, grew, iterations>>
       ELSE IF iterations = MaxIterations
       THEN done' = TRUE /\ UNCHANGED <<fixpoint, pos, grew, iterations>>
       ELSE /\ iterations' = iterations + 1 /\ pos' = 1 /\ grew' = FALSE
            /\ UNCHANGED <<done, fixpoint>>
    /\ UNCHANGED <<given, reachable, included>>

Next == Examine \/ EndPass

Spec == Init /\ [][Next]_vars

-----------------------------------------------------------------------------
(* Properties                                                              *)

\* The state has its shape; the pass counter never exceeds the cap of the loop.
TypeOK ==
    /\ cvars \in [Path -> SUBSET Vars] /\ tvars \subseteq Vars
    /\ reachable \subseteq Vars /\ included \subseteq Path
    /\ pos \in 1..(N + 1) /\ iterations \in 1..MaxIterations
    /\ grew \in BOOLEAN /\ done \in BOOLEAN /\ fixpoint \in BOOLEAN

\* A set of variables no constraint of the path leads out of.
ClosedUnderPath(S) == \A c \in Path : cvars[c] \cap S # {} => cvars[c] \subseteq S

SliceClosed ==
    /\ tvars \subseteq reachable /\ ClosedUnderPath(reachable)
    /\ \A c \in Path : c \in included <=> cvars[c] \cap reachable # {}

\* When the slicer reports a fixpoint, the constraints it dropped share no
\* variable with what it kept: solving the slice alone loses nothing.
FixpointIsClosed == fixpoint => SliceClosed

\* The slice is never larger than needed: its variables lie in every closed
\* set that holds the variables of the target.
SliceMinimal ==
    \A S \in SUBSET Vars : tvars \subseteq S /\ ClosedUnderPath(S) =>
        reachable \subseteq S /\ \A c \in included : cvars[c] \subseteq S

\* slicer.rs:30-32: when the cap is hit first "the slice is still safe to use
\* (it's a superset of the true minimal slice)": it holds every constraint a
\* closed slice holds.
CappedSliceIsSuperset == done => SliceClosed

\* A slice is what solving needs and no more.
SliceIsExact == TypeOK /\ FixpointIsClosed /\ SliceMinimal
=============================================================================
