----------------------------- MODULE MCEngines -----------------------------
(* The engines that decide what an input does and which one to try next: the  *)
(* families of MCExecution beside the constraint slicer, the solve ladder and *)
(* the concolic backlog, which work step by step.                             *)
EXTENDS Slicer, SolveLadder, ConcolicBacklog, MCExecution

PureFastTier == [tier |-> "PureFast", slice |-> FALSE]
QuickTier    == [tier |-> "Z3Quick", slice |-> FALSE]
SlicedTier   == [tier |-> "Z3SlicedAssumptions", slice |-> TRUE]
ExternalTier == [tier |-> "Z3External", slice |-> TRUE]

\* default_for_features, the full cascade of the module's documentation, and
\* the ladder of its tests without backends.
MCLadders ==
    {<<PureFastTier, ExternalTier>>,
     <<PureFastTier, QuickTier, SlicedTier, ExternalTier>>,
     <<>>}

\* Two branches that share a pc (a loop body) and one of its own.
MCKeys == {<<1, 0>>, <<1, 1>>, <<2, 0>>}

\* A never-novel item, a novel one and a penalised one.
MCOffers == {[base |-> 3, novelty |-> 0], [base |-> 0, novelty |-> 1], [base |-> -9, novelty |-> 1]}

SlicerIdle ==
    /\ cvars = [c \in Path |-> {}] /\ tvars = {} /\ reachable = {} /\ included = {}
    /\ pos = 1 /\ grew = FALSE /\ iterations = 1 /\ done = TRUE /\ fixpoint = TRUE

LadderIdle ==
    /\ query = [truth |-> "none", target |-> "open", constPath |-> FALSE] /\ ladder = <<>>
    /\ at = 0 /\ attempts = <<>> /\ best = 0 /\ last = 0 /\ outcome = Running

EngineInputs ==
    \/ family = "pure_solver" /\ input \in PureInputs
    \/ family = "native_emulator" /\ input \in EmulatorInputs
    \/ family = "portable" /\ input \in PortableInputs
    \/ family = "sym_expr" /\ input \in ExprInputs
    \/ family = "smt2_query" /\ input \in QueryInputs
    \/ family = "lift_branch" /\ input \in LiftInputs
    \/ family = "shadow" /\ input \in ProgramInputs
    \/ family = "mutate" /\ input \in MutateInputs
    \/ family = "mutate_reach" /\ input \in ReachInputs
    \/ family = "reach" /\ input \in DistanceInputs
    \/ family = "targets" /\ input \in TargetInputs

EInit ==
    /\ result = NotYet /\ BacklogInit
    /\ \/ family = "slicer" /\ input = <<>> /\ Init /\ LadderIdle
       \/ family = "ladder" /\ input = <<>> /\ SlicerIdle /\ LadderInit
       \/ family = "backlog" /\ input = <<>> /\ SlicerIdle /\ LadderIdle
       \/ EngineInputs /\ SlicerIdle /\ LadderIdle

SlicerStep == Next /\ UNCHANGED <<avars, ladderVars, backlogVars>>
LadderStep == family = "ladder" /\ LadderNext /\ UNCHANGED <<avars, vars, backlogVars>>
BacklogStep == family = "backlog" /\ BacklogNext /\ UNCHANGED <<avars, vars, ladderVars>>
EngineStep ==
    /\ \/ PureSolve
       \/ EmulatorStep
       \/ PortableStep
       \/ ExprStep
       \/ QueryStep
       \/ LiftStep
       \/ ProgramStep
       \/ MutateStep
       \/ ReachStep
       \/ ReachTargetsStep
       \/ TargetsStep
    /\ UNCHANGED <<vars, ladderVars, backlogVars>>
ENext == SlicerStep \/ LadderStep \/ BacklogStep \/ EngineStep

\* The backlog's fairness; it is enabled in the backlog's behaviours only.
ESpec == EInit /\ [][ENext]_<<vars, ladderVars, backlogVars, avars>> /\ WF_backlogVars(Pop)
=============================================================================
