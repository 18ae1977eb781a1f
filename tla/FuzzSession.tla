---------------------------- MODULE FuzzSession ----------------------------
(***************************************************************************)
(* The coverage-guided fuzz loop of src/src/fuzzer: FuzzSession (session), *)
(* FuzzCorpus (corpus), InputStaging (staging), CrashDb (crash), the       *)
(* coverage map (coverage) and the three executors (executor).             *)
(*                                                                         *)
(* One iteration of execute_and_record is a chain of small steps, because  *)
(* the process can be killed between any two of them and every file-system *)
(* call can fail.  The disk (staged, queue, crashInput, crashInfo)         *)
(* survives a kill; the memory of the session does not.                    *)
(*                                                                         *)
(* Inputs stand for byte strings.  input_id is a content hash, so an input *)
(* is its own id.  File names, timestamps and JSON layout are left out.    *)
(***************************************************************************)
EXTENDS Coverage, FiniteSets

CONSTANTS
    Inputs,      \* candidate inputs the mutators can produce
    Frames,      \* normalised top-frame lists of emulator crashes
    PanicKinds,  \* panic messages of in-process harnesses
    Backends,    \* executors the caller hands in
    None,        \* Option::None
    MaxRuns,     \* bound: executions over all sessions
    MaxKills,    \* bound: process kills
    MaxIoErrors  \* bound: failing file-system calls

VARIABLES
    pc,          \* where execute_and_record stands; "down": no process
    cand,        \* the candidate of this iteration
    result,      \* ExecutionResult of this iteration
    staged,      \* disk: queue/.staging/<id>, "none", "partial" or "full"
    queue,       \* disk: queue/<id>
    crashInput,  \* disk: crashes/<sig>/input.bin
    crashInfo,   \* disk: crashes/<sig>/info.json, the input_id it names
    corpus,      \* memory: FuzzCorpus.entries
    seen,        \* memory: CrashDb.seen
    global,      \* memory: coverage_global, the best bucket per slot
    outcome,     \* IterationOutcome of the last finished iteration
    killers,     \* history: inputs that took the process down, not re-run since
    observed,    \* history: <<input, signature>> pairs the executor reported
    pending,     \* history: the part of observed no later verdict on the input replaced
    credited,    \* history: inputs whose non-crashing run raised global
    runs, kills, ioErrors

disk   == <<staged, queue, crashInput, crashInfo>>
memory == <<corpus, seen, global>>
hist   == <<killers, observed, pending, credited>>
bounds == <<runs, kills, ioErrors>>
vars   == <<pc, cand, result, disk, memory, outcome, hist, bounds>>

-----------------------------------------------------------------------------
(* Executors                                                               *)

ExitKind == {"Ok", "Crash", "Timeout", "Sanitizer", "Panic", "EmulatorOOB",
             "EmulatorLowFidelity"}

IsCrashLike(e) == e \in {"Crash", "Sanitizer", "Panic", "EmulatorOOB"}

ShouldDedupe(e) == IsCrashLike(e) \/ e = "Timeout"

EmulatorKind(e) == CASE e = "EmulatorOOB" -> <<"emulator", "oob">>
                     [] e = "Timeout"     -> <<"emulator", "budget_cap">>
                     [] OTHER             -> <<"emulator", "low_fidelity">>

NoFrames == "no_frames"

\* A signature is the crash kind together with the canonical frame list;
\* signature_for ignores the faulting pc.
Kinds == ({"emulator"} \X {"oob", "budget_cap", "low_fidelity"}) \cup
         ({"panic", "primary_only"} \X PanicKinds)
Sigs  == Kinds \X (Frames \cup {NoFrames})

NoCrash(e) == [exit |-> e, crash |-> None]
Crashed(e, kind, frames) == [exit |-> e, crash |-> <<kind, frames>>]

EmulatorResults ==
    {NoCrash("Ok")} \cup
    {Crashed(e, EmulatorKind(e), f) :
        e \in {"EmulatorOOB", "Timeout", "EmulatorLowFidelity"},
        f \in Frames \cup {NoFrames}}

InProcessResults ==
    {NoCrash("Ok")} \cup {Crashed("Panic", <<"panic", k>>, NoFrames) : k \in PanicKinds}

\* The replay backend is the authority on a crash; a crash it does not
\* reproduce is kept under a primary_only kind.
HybridResult(p, r) ==
    IF ~IsCrashLike(p.exit) THEN p
    ELSE IF IsCrashLike(r.exit) THEN r
    ELSE Crashed(p.exit, <<"primary_only", p.crash[1][2]>>, p.crash[2])

Results(b) ==
    CASE b = "Emulator"  -> EmulatorResults
      [] b = "InProcess" -> InProcessResults
      [] OTHER -> {HybridResult(p, r) : p \in InProcessResults, r \in EmulatorResults}

ExecutionResults == [exit : ExitKind, crash : Sigs \cup {None}]

ASSUME FuzzAssumption ==
    /\ None \notin Inputs \cup Sigs
    /\ Backends \subseteq {"Emulator", "InProcess", "Hybrid"}
    /\ MaxRuns \in Nat /\ MaxKills \in Nat /\ MaxIoErrors \in Nat

\* Only the emulator fills its map; the in-process map stays zero, and a
\* hybrid executor lends out the map of its in-process primary.
LocalMaps(b) == IF b = "Emulator" THEN [Slots -> Hits] ELSE {ZeroMap}

-----------------------------------------------------------------------------
(* One iteration                                                           *)

CrashDirComplete(s) == crashInput[s] # None /\ crashInfo[s] # None

Init ==
    /\ pc = "down" /\ cand = None /\ result = NoCrash("Ok")
    /\ staged = [x \in Inputs |-> "none"] /\ queue = {}
    /\ crashInput = [s \in Sigs |-> None] /\ crashInfo = [s \in Sigs |-> None]
    /\ corpus = {} /\ seen = {} /\ global = ZeroMap
    /\ outcome = "Skip"
    /\ killers = {} /\ observed = {} /\ pending = {} /\ credited = {}
    /\ runs = 0 /\ kills = 0 /\ ioErrors = 0

\* FuzzSession::new: opening the corpus and the crash database creates
\* directories and loads nothing back from them.
Open ==
    /\ pc = "down"
    /\ pc' = "idle"
    /\ corpus' = {} /\ seen' = {} /\ global' = ZeroMap
    /\ UNCHANGED <<cand, result, disk, outcome, hist, bounds>>

\* seed_with(x): x comes from the caller, whatever the corpus holds.
SeedWith(x) ==
    /\ pc = "idle" /\ runs < MaxRuns
    /\ pc' = "stage" /\ cand' = x /\ runs' = runs + 1
    /\ UNCHANGED <<result, disk, memory, outcome, hist, kills, ioErrors>>

\* fuzz_one: a parent is picked (every entry has weight at least 1) and
\* mutated into any x; with an empty corpus the iteration is skipped.
FuzzOne(x) ==
    /\ pc = "idle" /\ runs < MaxRuns
    /\ IF corpus = {}
       THEN /\ outcome' = "Skip"
            /\ UNCHANGED <<pc, cand, runs>>
       ELSE /\ pc' = "stage" /\ cand' = x /\ runs' = runs + 1
            /\ UNCHANGED outcome
    /\ UNCHANGED <<result, disk, memory, hist, kills, ioErrors>>

\* stage, first half: File::create truncates whatever the file held.
StageCreate ==
    /\ pc = "stage"
    /\ pc' = "stage_sync"
    /\ staged' = [staged EXCEPT ![cand] = "partial"]
    /\ killers' = killers \ {cand}
    /\ UNCHANGED <<cand, result, queue, crashInput, crashInfo, memory, outcome,
                   observed, pending, credited, bounds>>

\* Mutant: stage returns before the bytes are durable.
StageNoSync ==
    /\ pc = "stage_sync"
    /\ pc' = "execute"
    /\ UNCHANGED <<cand, result, disk, memory, outcome, hist, bounds>>

\* stage, second half: write_all and sync_all.
StageSync ==
    /\ pc = "stage_sync"
    /\ pc' = "execute"
    /\ staged' = [staged EXCEPT ![cand] = "full"]
    /\ UNCHANGED <<cand, result, queue, crashInput, crashInfo, memory, outcome,
                   hist, bounds>>

\* The claims about other inputs: a new verdict replaces those about cand.
OfOthers == {p \in pending : p[1] # cand}

\* executor.run returns; classify scores the local map against the global
\* one and merges it, whatever the exit was.  The branch that follows is
\* chosen by should_dedupe, by the presence of CrashInfo and by novelty.
Execute(b) ==
    /\ pc = "execute"
    /\ \E r \in Results(b), local \in LocalMaps(b) :
         /\ result' = r
         /\ global' = MergeIntoGlobal(local, global)
         /\ IF ShouldDedupe(r.exit)
            THEN /\ IF r.crash = None
                    THEN pc' = "discard_crash" /\ outcome' = "DuplicateCrash"
                    ELSE pc' = "dedup" /\ UNCHANGED outcome
                 /\ observed' = IF r.crash = None THEN observed
                                ELSE observed \cup {<<cand, r.crash>>}
                 /\ pending' = IF r.crash = None THEN OfOthers
                               ELSE OfOthers \cup {<<cand, r.crash>>}
                 /\ UNCHANGED credited
            ELSE /\ IF IsInteresting(local, global)
                    THEN pc' = "add" /\ credited' = credited \cup {cand}
                    ELSE pc' = "discard" /\ UNCHANGED credited
                 /\ pending' = OfOthers
                 /\ UNCHANGED <<outcome, observed>>
    /\ UNCHANGED <<cand, disk, corpus, seen, killers, bounds>>

\* Mutant: the signature is remembered before its files are written.
DedupMarksFirst ==
    /\ pc = "dedup"
    /\ seen' = seen \cup {result.crash}
    /\ IF result.crash \in seen
       THEN pc' = "discard_crash" /\ outcome' = "DuplicateCrash"
       ELSE pc' = "crash_input" /\ UNCHANGED outcome
    /\ UNCHANGED <<cand, result, disk, corpus, global, hist, bounds>>

\* dedup_and_store, lookup: a signature seen in this session is a duplicate.
Dedup ==
    /\ pc = "dedup"
    /\ IF result.crash \in seen
       THEN pc' = "discard_crash" /\ outcome' = "DuplicateCrash"
       ELSE pc' = "crash_input" /\ UNCHANGED outcome
    /\ UNCHANGED <<cand, result, disk, memory, hist, bounds>>

\* Mutant: info.json is written before the input.bin it describes.
PersistInfoFirst ==
    /\ pc = "crash_input"
    /\ pc' = "crash_info"
    /\ crashInfo' = [crashInfo EXCEPT ![result.crash] = cand]
    /\ UNCHANGED <<cand, result, staged, queue, crashInput, memory, outcome, hist, bounds>>

\* persist_crash, first write_atomic.
PersistCrashInput ==
    /\ pc = "crash_input"
    /\ pc' = "crash_info"
    /\ crashInput' = [crashInput EXCEPT ![result.crash] = cand]
    /\ UNCHANGED <<cand, result, staged, queue, crashInfo, memory, outcome, hist, bounds>>

\* persist_crash, second write_atomic, then the signature is remembered.
PersistCrashInfo ==
    /\ pc = "crash_info"
    /\ pc' = "discard_crash"
    /\ crashInfo' = [crashInfo EXCEPT ![result.crash] = cand]
    /\ seen' = seen \cup {result.crash}
    /\ outcome' = "NewCrash"
    /\ UNCHANGED <<cand, result, staged, queue, crashInput, corpus, global, hist, bounds>>

\* corpus.add: an id already in the queue is returned as it is, otherwise
\* the input is written to queue/<id> and remembered.  The staging file is
\* not touched on this path.
Add ==
    /\ pc = "add"
    /\ pc' = "idle"
    /\ queue' = IF cand \in corpus THEN queue ELSE queue \cup {cand}
    /\ corpus' = corpus \cup {cand}
    /\ outcome' = "NewCoverage"
    /\ UNCHANGED <<cand, result, staged, crashInput, crashInfo, seen, global, hist, bounds>>

\* staging().discard on the crash path and on the no-change path.
Discard ==
    /\ pc \in {"discard", "discard_crash"}
    /\ pc' = "idle"
    /\ staged' = [staged EXCEPT ![cand] = "none"]
    /\ outcome' = IF pc = "discard" THEN "NoChange" ELSE outcome
    /\ UNCHANGED <<cand, result, queue, crashInput, crashInfo, memory, hist, bounds>>

-----------------------------------------------------------------------------
(* Failures                                                                *)

\* A file-system call of the current step fails: `?` returns the error to
\* the caller, which may go on using the session.
IoError ==
    /\ pc \in {"stage", "stage_sync", "crash_input", "crash_info", "add",
               "discard", "discard_crash"}
    /\ pc = "add" => cand \notin corpus
    /\ ioErrors < MaxIoErrors
    /\ pc' = "idle" /\ outcome' = "Err" /\ ioErrors' = ioErrors + 1
    /\ UNCHANGED <<cand, result, disk, memory, hist, runs, kills>>

\* The process dies: a native harness crash while a candidate executes, or
\* an external kill at any other point.  Its memory goes with it.
Kill ==
    /\ pc # "down" /\ kills < MaxKills
    /\ pc' = "down" /\ kills' = kills + 1
    /\ cand' = None /\ result' = NoCrash("Ok") /\ outcome' = "Skip"
    /\ corpus' = {} /\ seen' = {} /\ global' = ZeroMap
    /\ killers' = IF pc = "execute" THEN killers \cup {cand} ELSE killers
    /\ credited' = {}
    /\ UNCHANGED <<disk, observed, pending, runs, ioErrors>>

Next ==
    \/ Open
    \/ \E x \in Inputs : SeedWith(x) \/ FuzzOne(x)
    \/ StageCreate \/ StageSync
    \/ \E b \in Backends : Execute(b)
    \/ Dedup \/ PersistCrashInput \/ PersistCrashInfo
    \/ Add \/ Discard
    \/ IoError \/ Kill

Spec == Init /\ [][Next]_vars

-----------------------------------------------------------------------------
(* Properties                                                              *)

\* The state has its shape: a step past the executor has a candidate and its
\* result, and the global map holds buckets, never raw hit counts.
TypeOK ==
    /\ pc \in {"down", "idle", "stage", "stage_sync", "execute", "dedup",
               "crash_input", "crash_info", "add", "discard", "discard_crash"}
    /\ cand \in Inputs \cup {None}
    /\ pc \notin {"down", "idle"} => cand \in Inputs
    /\ result \in ExecutionResults
    /\ pc \in {"dedup", "crash_input", "crash_info"} => result.crash # None
    /\ staged \in [Inputs -> {"none", "partial", "full"}]
    /\ queue \subseteq Inputs /\ corpus \subseteq Inputs
    /\ crashInput \in [Sigs -> Inputs \cup {None}]
    /\ crashInfo \in [Sigs -> Inputs \cup {None}]
    /\ seen \subseteq Sigs
    /\ global \in [Slots -> 0..8]
    /\ outcome \in {"Skip", "NewCoverage", "NewCrash", "DuplicateCrash", "NoChange", "Err"}
    /\ killers \subseteq Inputs /\ credited \subseteq Inputs
    /\ observed \subseteq Inputs \X Sigs /\ pending \subseteq observed
    /\ runs \in 0..MaxRuns /\ kills \in 0..MaxKills /\ ioErrors \in 0..MaxIoErrors

\* An input whose execution took the process down is still whole in the
\* staging directory, where recover_orphans finds it, until a later session
\* stages that same input again.  This is what pre-execute persistence is
\* for (staging.rs, session.rs:197-201).
KillersRecoverable == \A x \in killers : staged[x] = "full"

\* The last verdict on an input, when it is a crash, is not lost to a kill, a
\* failing call or deduplication: its signature has a complete crashes/<sig>/
\* directory, or the input is in the staging directory.  There it may be cut
\* off ("partial") only because the input was staged again: File::create
\* truncates the one copy of a crash whose store had failed, and stays so if
\* that staging is killed or fails.  A duplicate is thrown away only when an
\* equivalent reproducer is on disk.
NoLostCrash ==
    \A p \in pending : CrashDirComplete(p[2]) \/ staged[p[1]] \in {"full", "partial"}

\* What staging.rs would have to do for no reported crash to be lost at all;
\* the re-staging above refutes it.
ReportedCrashKept ==
    \A p \in pending : CrashDirComplete(p[2]) \/ staged[p[1]] = "full"

\* The files of crashes/<sig>/ name inputs that really produced that
\* signature, also when a restarted session (which remembers no signature)
\* stores the same family again and is killed between the two files.
ReproducersReal ==
    \A s \in Sigs :
        /\ crashInput[s] # None => <<crashInput[s], s>> \in observed
        /\ crashInfo[s] # None => <<crashInfo[s], s>> \in observed /\ crashInput[s] # None

\* What the session holds in memory is on disk: every corpus entry has its
\* queue file and every remembered signature its complete crash directory.
MemoryBacked ==
    pc # "down" => corpus \subseteq queue /\ \A s \in seen : CrashDirComplete(s)

\* corpus.rs:182-186 says of stage_for_execution that add() "promotes the
\* staged file to queue/<id>": after an iteration that ended in add, nothing
\* of the input is left in the staging directory.
AddPromotesStaged ==
    pc = "idle" /\ outcome = "NewCoverage" => staged[cand] = "none"

\* fuzzer_bridge.rs:5-10 names marking an edge as covered while leaving no
\* reproducer behind a desync: an input that raised the global map in this
\* session has a file in the queue or in the staging directory.
CoverageHasReproducer ==
    pc # "down" => \A x \in credited : x \in queue \/ staged[x] # "none"

\* What restarts rely on: memory is backed by the disk, and every file of a crash
\* directory is a reproducer of its family.
DiskIsSound == TypeOK /\ ReproducersReal /\ MemoryBacked
=============================================================================
