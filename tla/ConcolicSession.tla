-------------------------- MODULE ConcolicSession --------------------------
(***************************************************************************)
(* Concolic sessions that share one fuzz corpus and one global coverage    *)
(* map: ConcolicSession::run_until_drained (concolic/session.rs), the      *)
(* ModelValidator (concolic/validator.rs) and CorpusBridge::promote_if_    *)
(* novel (concolic/fuzzer_bridge.rs).                                      *)
(*                                                                         *)
(* The corpus and the map are Arc<Mutex<..>>: a session takes one lock at  *)
(* a time and drops it between the steps of a promotion, so the sessions   *)
(* interleave there.  A region that only touches memory is one step; the   *)
(* staging of a file under the corpus lock is two, and the lock is kept    *)
(* across them.  The backlog (ConcolicBacklog) and the solver ladder       *)
(* (SolveLadder) are modules of their own: here any pending item may be    *)
(* next and any verdict may come back.                                     *)
(***************************************************************************)
EXTENDS Coverage, RunStatus, FiniteSets

CONSTANTS
    Sessions,    \* concolic sessions of the process
    Models,      \* non-empty input models solvers return
    EmptyModel,  \* the model of a query over zero input bytes
    Items,       \* frontier items
    Frontier,    \* what is enqueued into each session before it runs
    FlipSlot,    \* slot of the edge branch -> expected_flip_pc, None without one
    ProbeSlots,  \* slots edge_was_touched_at probes for the branch
    None,
    MaxIoErrors  \* bound: failing file-system calls

ASSUME ConcolicAssumption ==
    /\ None \notin Models \cup Slots \cup Sessions \cup {EmptyModel} /\ EmptyModel \notin Models
    /\ Frontier \in [Sessions -> SUBSET Items]
    /\ FlipSlot \in [Items -> Slots \cup {None}]
    /\ ProbeSlots \in [Items -> SUBSET Slots]
    /\ MaxIoErrors \in Nat

\* Where each session has one branch, the branch and the slot of its flip edge
\* are named after the session; the slots of the others are those probed for
\* having reached it.
OwnBranch  == [s \in Sessions |-> {s}]
OwnSlot    == [s \in Sessions |-> s]
OtherSlots == [s \in Sessions |-> Sessions \ {s}]

VARIABLES
    pc, backlog, item,
    model,       \* input_model of the current solve
    snap,        \* the clone of the global map the session works on
    local,       \* the executor's per-run map
    ledger,      \* artifacts marked so far
    runStatus,   \* disk: outcome in the session's run_status.json
    staged,      \* disk: queue/.staging/<id>
    queue,       \* disk: queue/<id>
    corpus,      \* FuzzCorpus.by_id
    corpusLock,  \* holder of the corpus mutex
    global,      \* the shared coverage map
    added,       \* history: <<input, map>> pairs that went through corpus.add
    merged,      \* history: the pairs that were merged as well
    addFailed,   \* history: inputs whose add failed, not staged again since
    promoErr,    \* history: sessions that had a promotion error
    crashed,     \* history: models reported as NewCrash
    ioErrors

run    == <<backlog, item, model, snap, local>>
files  == <<runStatus, staged, queue>>
shared == <<corpus, corpusLock, global>>
hist   == <<added, merged, addFailed, promoErr, crashed>>
vars   == <<pc, run, ledger, files, shared, hist, ioErrors>>

Artifacts == {"solves.jsonl", "exprs.jsonl", "branches.jsonl", "traces.jsonl",
              "coverage.jsonl", "smt2"}

Finished == {"done", "err"}

Init ==
    /\ pc = [s \in Sessions |-> "loop"] /\ backlog = Frontier
    /\ item = [s \in Sessions |-> None] /\ model = [s \in Sessions |-> None]
    /\ snap = [s \in Sessions |-> ZeroMap] /\ local = [s \in Sessions |-> ZeroMap]
    /\ ledger = [s \in Sessions |-> EmptyLedger]
    /\ runStatus = [s \in Sessions |-> None]
    /\ staged = [x \in Models |-> "none"] /\ queue = {}
    /\ corpus = {} /\ corpusLock = None /\ global = ZeroMap
    /\ added = {} /\ merged = {} /\ addFailed = {} /\ promoErr = {} /\ crashed = {}
    /\ ioErrors = 0

GoTo(s, l) == pc' = [pc EXCEPT ![s] = l]

-----------------------------------------------------------------------------
(* The loop of run_until_drained                                           *)

\* scheduler.next; an item popped after the time budget ran out is dropped
\* with the rest of the backlog.
PopItem(s) ==
    /\ pc[s] = "loop"
    /\ \/ backlog[s] = {} /\ GoTo(s, "finalize") /\ UNCHANGED <<backlog, item>>
       \/ \E i \in backlog[s] :
            /\ backlog' = [backlog EXCEPT ![s] = @ \ {i}]
            /\ item' = [item EXCEPT ![s] = i]
            /\ GoTo(s, "solve") \/ GoTo(s, "finalize")
    /\ UNCHANGED <<model, snap, local, ledger, files, shared, hist, ioErrors>>

\* ladder.solve: only a Sat report carries a model.
Solve(s) ==
    /\ pc[s] = "solve"
    /\ \E m \in Models \cup {EmptyModel, None} :
         /\ model' = [model EXCEPT ![s] = m]
         /\ GoTo(s, IF m = None THEN "record" ELSE "snapshot")
    /\ UNCHANGED <<backlog, item, snap, local, ledger, files, shared, hist, ioErrors>>

\* The map is cloned under its lock for the validator.
Snapshot(s) ==
    /\ pc[s] = "snapshot"
    /\ snap' = [snap EXCEPT ![s] = global]
    /\ GoTo(s, "validate")
    /\ UNCHANGED <<backlog, item, model, local, ledger, files, shared, hist, ioErrors>>

DeriveStatus(crash, reached, flipped, novel) ==
    IF crash THEN "NewCrash"
    ELSE IF flipped THEN IF novel THEN "NewCoverageConfirmed" ELSE "Valid"
    ELSE IF reached THEN "ModelMismatch" ELSE "UnreachableInRealRun"

Flipped(i, m) == FlipSlot[i] # None /\ m[FlipSlot[i]] > 0
Reached(i, m) == \E slot \in ProbeSlots[i] : m[slot] > 0

\* validate runs the model and the session acts on its status: a crash is
\* counted, confirmed novelty goes to the bridge.  An empty model is not run.
Validate(s) ==
    /\ pc[s] = "validate"
    /\ \/ model[s] = EmptyModel /\ GoTo(s, "record") /\ UNCHANGED <<local, crashed>>
       \/ /\ model[s] # EmptyModel
          /\ \E m \in [Slots -> Hits], crash \in BOOLEAN :
               LET status == DeriveStatus(crash, Reached(item[s], m), Flipped(item[s], m),
                                          IsInteresting(m, snap[s]))
               IN  /\ local' = [local EXCEPT ![s] = m]
                   /\ crashed' = IF status = "NewCrash" THEN crashed \cup {model[s]} ELSE crashed
                   /\ GoTo(s, IF status = "NewCoverageConfirmed" THEN "promote" ELSE "record")
    /\ UNCHANGED <<backlog, item, model, snap, ledger, files, shared,
                   added, merged, addFailed, promoErr, ioErrors>>

\* The solve record is appended to solves.jsonl.
Record(s) ==
    /\ pc[s] = "record"
    /\ GoTo(s, "loop")
    /\ UNCHANGED <<run, ledger, files, shared, hist, ioErrors>>

\* Writers are finalised, every artifact is marked complete and the ledger
\* replaces run_status.json atomically.
Finalize(s) ==
    /\ pc[s] = "finalize"
    /\ ledger' = [ledger EXCEPT ![s] = MarkAll(@, Artifacts, "Complete")]
    /\ runStatus' = [runStatus EXCEPT ![s] = DeriveOutcome(ledger'[s])]
    /\ GoTo(s, "done")
    /\ UNCHANGED <<run, staged, queue, shared, hist, ioErrors>>

-----------------------------------------------------------------------------
(* CorpusBridge::promote_if_novel                                          *)

\* Mutant: coverage::classify, which merges at once, in place of its
\* read-only half.
ClassifyMerges(s) ==
    /\ pc[s] = "promote"
    /\ snap' = [snap EXCEPT ![s] = global]
    /\ global' = MergeIntoGlobal(local[s], global)
    /\ GoTo(s, IF IsInteresting(local[s], global) THEN "stage" ELSE "record")
    /\ UNCHANGED <<backlog, item, model, local, ledger, files, corpus, corpusLock, hist,
                   ioErrors>>

\* Steps 1 and 2: the map is cloned again, under its lock, and the run is
\* classified against the clone.
Classify(s) ==
    /\ pc[s] = "promote"
    /\ snap' = [snap EXCEPT ![s] = global]
    /\ GoTo(s, IF IsInteresting(local[s], global) THEN "stage" ELSE "record")
    /\ UNCHANGED <<backlog, item, model, local, ledger, files, shared, hist, ioErrors>>

\* Step 3a takes the corpus lock; File::create truncates the staging file.
StageCreate(s) ==
    /\ pc[s] = "stage" /\ corpusLock = None
    /\ corpusLock' = s
    /\ staged' = [staged EXCEPT ![model[s]] = "partial"]
    /\ addFailed' = addFailed \ {model[s]}
    /\ GoTo(s, "stage_sync")
    /\ UNCHANGED <<run, ledger, runStatus, queue, corpus, global, added, merged,
                   promoErr, crashed, ioErrors>>

\* write_all and sync_all; the lock is dropped (step 3b).
StageSync(s) ==
    /\ pc[s] = "stage_sync"
    /\ staged' = [staged EXCEPT ![model[s]] = "full"]
    /\ corpusLock' = None
    /\ GoTo(s, "add")
    /\ UNCHANGED <<run, ledger, runStatus, queue, corpus, global, hist, ioErrors>>

\* corpus.add under a fresh acquisition of the lock.
Add(s) ==
    /\ pc[s] = "add" /\ corpusLock = None
    /\ queue' = IF model[s] \in corpus THEN queue ELSE queue \cup {model[s]}
    /\ corpus' = corpus \cup {model[s]}
    /\ added' = added \cup {<<model[s], local[s]>>}
    /\ GoTo(s, "merge")
    /\ UNCHANGED <<run, ledger, runStatus, staged, corpusLock, global, merged, addFailed,
                   promoErr, crashed, ioErrors>>

\* Mutant: the merge is computed on the snapshot the run was classified against.
MergeSnapshot(s) ==
    /\ pc[s] = "merge"
    /\ global' = MergeIntoGlobal(local[s], snap[s])
    /\ merged' = merged \cup {<<model[s], local[s]>>}
    /\ GoTo(s, "record")
    /\ UNCHANGED <<run, ledger, files, corpus, corpusLock, added, addFailed, promoErr,
                   crashed, ioErrors>>

\* Step 4: merge_into_global on the live map, which may have moved on since
\* the snapshot.
Merge(s) ==
    /\ pc[s] = "merge"
    /\ global' = MergeIntoGlobal(local[s], global)
    /\ merged' = merged \cup {<<model[s], local[s]>>}
    /\ GoTo(s, "record")
    /\ UNCHANGED <<run, ledger, files, corpus, corpusLock, added, addFailed, promoErr,
                   crashed, ioErrors>>

\* Mutant: the error path returns with the corpus still locked.
PromoteErrorKeepsLock(s) ==
    /\ pc[s] = "stage_sync" /\ ioErrors < MaxIoErrors
    /\ promoErr' = promoErr \cup {s}
    /\ ledger' = [ledger EXCEPT ![s] = Mark(@, "solves.jsonl", "Partial")]
    /\ GoTo(s, "record") /\ ioErrors' = ioErrors + 1
    /\ UNCHANGED <<run, files, shared, added, merged, addFailed, crashed>>

\* stage or add fails: the guard of the lock is dropped, the session marks
\* solves.jsonl partial and goes on with the record.
PromoteError(s) ==
    /\ pc[s] \in {"stage", "stage_sync", "add"} /\ ioErrors < MaxIoErrors
    /\ corpusLock \in {None, s}
    /\ pc[s] = "add" => model[s] \notin corpus
    /\ corpusLock' = None
    /\ addFailed' = IF pc[s] = "add" THEN addFailed \cup {model[s]} ELSE addFailed
    /\ promoErr' = promoErr \cup {s}
    /\ ledger' = [ledger EXCEPT ![s] = Mark(@, "solves.jsonl", "Partial")]
    /\ GoTo(s, "record") /\ ioErrors' = ioErrors + 1
    /\ UNCHANGED <<run, files, corpus, global, added, merged, crashed>>

\* Appending a record or finalising fails: `?` leaves the run without a ledger.
RunError(s) ==
    /\ pc[s] \in {"record", "finalize"} /\ ioErrors < MaxIoErrors
    /\ GoTo(s, "err") /\ ioErrors' = ioErrors + 1
    /\ UNCHANGED <<run, ledger, files, shared, hist>>

Step(s) ==
    \/ PopItem(s) \/ Solve(s) \/ Snapshot(s) \/ Validate(s) \/ Record(s) \/ Finalize(s)
    \/ Classify(s) \/ StageCreate(s) \/ StageSync(s) \/ Add(s) \/ Merge(s)
    \/ PromoteError(s) \/ RunError(s)

Next == \E s \in Sessions : Step(s)

Spec == Init /\ [][Next]_vars

\* Every session runs on a thread of its own; solvers and executors are
\* called with a timeout, so a step that can be taken is taken.
FairSpec == Spec /\ \A s \in Sessions : WF_vars(Step(s))

-----------------------------------------------------------------------------
(* Properties                                                              *)

Labels == {"loop", "solve", "snapshot", "validate", "record", "finalize", "promote",
           "stage", "stage_sync", "add", "merge", "done", "err"}

TypeOK ==
    /\ pc \in [Sessions -> Labels]
    /\ backlog \in [Sessions -> SUBSET Items] /\ item \in [Sessions -> Items \cup {None}]
    /\ model \in [Sessions -> Models \cup {EmptyModel, None}]
    /\ snap \in [Sessions -> [Slots -> 0..8]] /\ local \in [Sessions -> [Slots -> Hits]]
    /\ \A s \in Sessions : pc[s] \in {"promote", "stage", "stage_sync", "add", "merge"} =>
                             model[s] \in Models
    /\ \A s \in Sessions : pc[s] \in {"snapshot", "validate"} => model[s] # None
    /\ runStatus \in [Sessions -> RunOutcome \cup {None}]
    /\ staged \in [Models -> {"none", "partial", "full"}]
    /\ queue \subseteq Models /\ corpus \subseteq Models
    /\ corpusLock \in Sessions \cup {None} /\ global \in [Slots -> 0..8]
    /\ added \subseteq Models \X [Slots -> Hits] /\ merged \subseteq Models \X [Slots -> Hits]
    /\ addFailed \subseteq Models /\ promoErr \subseteq Sessions
    /\ crashed \subseteq Models /\ ioErrors \in 0..MaxIoErrors

\* The transactional order of the bridge (fuzzer_bridge.rs:4-22): whatever
\* the interleaving and whatever fails, every bucket the shared map credits
\* was seen in a run of an input that has its file in queue/.
CreditHasQueueFile ==
    \A slot \in Slots : global[slot] # 0 =>
        \E p \in added : p[1] \in queue /\ Bucket(p[2][slot]) = global[slot]

\* No update is lost between two sessions that classified against the same
\* snapshot: a merged run stays credited in every slot it touched.
MergedStaysCredited ==
    \A p \in merged, slot \in Slots : Bucket(p[2][slot]) <= global[slot]

\* An input whose corpus.add failed is left whole in the staging directory
\* for orphan recovery (fuzzer_bridge.rs:45-46), until it is staged again.
FailedAddStaysStaged == \A x \in addFailed : staged[x] = "full"

\* No session waits for a lock for ever: every run ends.
AllRunsEnd == <>(\A s \in Sessions : pc[s] \in Finished)

\* run_status.rs:17-20: "any `Failed` or `Partial` -> `Partial`".  A run that
\* marked solves.jsonl partial because a promotion failed does not report
\* itself complete.
PromotionErrorShows == \A s \in promoErr : runStatus[s] # "Complete"

\* validator.rs:45-46 and fuzzer_bridge.rs:123-125 hand NewCrash models to
\* the crash database, which is the session's job: once its run is over, the
\* input of a crash it reports is somewhere on disk.
CrashModelsKept ==
    (\A s \in Sessions : pc[s] = "done") => \A x \in crashed : x \in queue \/ staged[x] # "none"
=============================================================================
