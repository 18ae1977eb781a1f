---------------------------- MODULE Computation ----------------------------
(* What the models of pure code share: a behaviour takes one input of one     *)
(* family and computes its result, in one step or stage by stage.             *)
EXTENDS Integers, Sequences, FiniteSets, FiniteSetsExt, SequencesExt, Functions, TLC

VARIABLES
    family,    \* which code is run
    input,     \* what it is given
    result     \* what it has computed, with the stage it is at

avars == <<family, input, result>>

NotYet == [stage |-> "start"]
At(f, stage) == family = f /\ result.stage = stage
Done(f) == At(f, "done")

\* The whole computation in one step.
Compute(f, Result(_)) ==
    /\ At(f, "start")
    /\ result' = [stage |-> "done", of |-> Result(input)]
    /\ UNCHANGED <<family, input>>
=============================================================================
