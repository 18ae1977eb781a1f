-------------------------- MODULE DynTraceSession --------------------------
(***************************************************************************)
(* src/dynamic_trace: one session of the tracer (session.rs), its ETW      *)
(* collector with the callback thread and the bounded channel (etw.rs,     *)
(* collector.rs), the NDJSON writer (store.rs) and the ledger with the     *)
(* loss policy (dyn_run_status.rs).                                        *)
(*                                                                         *)
(* Events are counted, not told apart.  A traced process makes events; the *)
(* kernel buffers them and the callback thread hands them to the channel   *)
(* or counts a drop; the session thread takes them out and writes them.    *)
(* Any call may fail, the host may be killed, Ctrl-C may come at any time. *)
(***************************************************************************)
EXTENDS Naturals, RunStatus

CONSTANTS
    ChannelCap,    \* bounded(65_536)
    FlushEvery,    \* EVENT_FLUSH_EVERY
    MaxEvents,     \* bound: events traced processes make
    MaxErrors      \* bound: calls that fail

ASSUME DynTraceAssumption ==
    /\ ChannelCap \in Nat \ {0} /\ FlushEvery \in Nat \ {0}
    /\ MaxEvents \in Nat /\ MaxErrors \in Nat

VARIABLES
    opts,        \* target, whether there is a duration, loss policy; a build with ETW
    pc,          \* where run_session_windows is
    proc,        \* the target process
    trace,       \* the ETW session
    made,        \* events made so far
    kernel,      \* events in the kernel's buffers
    channel,     \* events in the channel
    emitted,     \* events the channel accepted
    drops,       \* DropCounter
    kept,        \* all_events.len()
    lines,       \* lines given to the NDJSON BufWriter
    durable,     \* lines flushed and synced
    since,       \* since_last_flush
    declared,    \* events_dropped of the ledger
    handler,     \* whose handler Ctrl-C calls
    stop,        \* stop_flag
    late,        \* the deadline has passed
    ledger,      \* outcome in run_status.json
    errors,      \* calls that have failed
    appendFailed \* history: some append returned an error, which is ignored

etwv   == <<made, kernel, channel, emitted, drops>>
filev  == <<kept, lines, durable, since, appendFailed>>
stopv  == <<handler, stop, late>>
endv   == <<declared, ledger>>
vars   == <<opts, pc, proc, trace, etwv, filev, stopv, endv, errors>>

LossPolicy == {"Warn", "Partial", "Fail"}
Options == [target : {"none", "pid", "spawn"}, duration : BOOLEAN, policy : LossPolicy, etw : BOOLEAN]

Init ==
    /\ opts \in Options /\ pc = "probe"
    /\ proc \in IF opts.target = "pid" THEN {"running", "exited"} ELSE {"absent"}
    /\ trace = "off"
    /\ made = 0 /\ kernel = 0 /\ channel = 0 /\ emitted = 0 /\ drops = 0
    /\ kept = 0 /\ lines = 0 /\ durable = 0 /\ since = 0 /\ appendFailed = FALSE
    /\ handler \in {"none", "other"} /\ stop = FALSE /\ late = FALSE
    /\ declared = 0 /\ ledger = "none" /\ errors = 0

Fails == errors < MaxErrors /\ errors' = errors + 1
Works == UNCHANGED errors

-----------------------------------------------------------------------------
(* The ledger                                                              *)

\* apply_loss_policy.
ApplyLossPolicy(derived, policy, dropped) ==
    IF dropped = 0 \/ policy = "Warn" THEN derived
    ELSE IF policy = "Fail" \/ derived = "Failed" THEN "Failed"
    ELSE "Partial"

Artifacts == {"events.ndjson", "trace.sqlite", "entity_graph.json", "behavior_facts.jsonl",
              "behavior_fact_union.jsonl", "evidence_pack.json"}

\* An error return that writes a ledger without artifacts first; whether that
\* succeeds is ignored.
GiveUp ==
    /\ pc' = "err"
    /\ ledger' \in {ledger, ApplyLossPolicy(DeriveOutcome(EmptyLedger), opts.policy, 0)}
    /\ UNCHANGED declared

\* Every other error return (the ? operator): no ledger.
Bail == pc' = "err" /\ UNCHANGED endv

-----------------------------------------------------------------------------
(* Starting: session.rs (1) to (4)                                         *)

\* run_session_unsupported: a ledger without artifacts, and Ok.
Unsupported ==
    /\ pc = "probe" /\ ~opts.etw
    /\ \/ Works /\ pc' = "done" /\ ledger' = DeriveOutcome(EmptyLedger) /\ UNCHANGED declared
       \/ Fails /\ Bail
    /\ UNCHANGED <<opts, proc, trace, etwv, filev, stopv>>

\* create_dir_all, then capability_probe.
Probe ==
    /\ pc = "probe" /\ opts.etw
    /\ \/ Works /\ pc' = "spawn" /\ UNCHANGED endv
       \/ Fails /\ (Bail \/ GiveUp)
    /\ UNCHANGED <<opts, proc, trace, etwv, filev, stopv>>

\* Mutant: the target is created running.
SpawnRunning ==
    /\ pc = "spawn"
    /\ \/ /\ Works /\ pc' = "start" /\ UNCHANGED endv
          /\ proc' = IF opts.target = "spawn" THEN "running" ELSE proc
       \/ opts.target = "spawn" /\ Fails /\ Bail /\ UNCHANGED proc
    /\ UNCHANGED <<opts, trace, etwv, filev, stopv>>

\* spawn_suspended, where there is something to spawn.
Spawn ==
    /\ pc = "spawn"
    /\ \/ /\ Works /\ pc' = "start" /\ UNCHANGED endv
          /\ proc' = IF opts.target = "spawn" THEN "suspended" ELSE proc
       \/ opts.target = "spawn" /\ Fails /\ Bail /\ UNCHANGED proc
    /\ UNCHANGED <<opts, trace, etwv, filev, stopv>>

\* terminate_process_silently is given what spawn_suspended returned, the handle
\* of the main thread; TerminateProcess refuses it and the error is ignored.
TerminateProcessSilently == UNCHANGED proc

\* collector.start.
Start ==
    /\ pc = "start"
    /\ \/ Works /\ pc' = "resume" /\ trace' = "live" /\ UNCHANGED <<proc, endv>>
       \/ Fails /\ GiveUp /\ TerminateProcessSilently /\ UNCHANGED trace
    /\ UNCHANGED <<opts, etwv, filev, stopv>>

\* resume_thread; on an error the collector is stopped.
Resume ==
    /\ pc = "resume"
    /\ \/ /\ Works /\ pc' = "open" /\ UNCHANGED <<trace, kernel, endv>>
          /\ proc' = IF proc = "suspended" THEN "running" ELSE proc
       \/ /\ opts.target = "spawn" /\ Fails /\ GiveUp
          /\ trace' = "off" /\ kernel' = 0 /\ UNCHANGED proc
    /\ UNCHANGED <<opts, made, channel, emitted, drops, filev, stopv>>

\* ctrlc::set_handler, whose refusal is ignored; TraceStore::open and
\* TraceEventWriter::create, whose error drops the collector and leaves the
\* target running.
Open ==
    /\ pc = "open"
    /\ handler' = IF handler = "none" THEN "trace" ELSE handler
    /\ \/ Works /\ pc' = "loop" /\ UNCHANGED <<trace, kernel, endv>>
       \/ Fails /\ Bail /\ trace' = "off" /\ kernel' = 0
    /\ UNCHANGED <<opts, proc, made, channel, emitted, drops, filev, stop, late>>

-----------------------------------------------------------------------------
(* Recording: session.rs (5)                                               *)

\* Mutant: the flush comes one event late.
AppendLate ==
    LET crossed == since + 1 > FlushEvery
    IN  /\ lines' = lines + 1
        /\ since' = IF crossed THEN 0 ELSE since + 1
        /\ durable' = IF crossed THEN lines + 1 ELSE durable

\* TraceEventWriter::append; the EventWriter of the fuzzer is the same.
AppendEvent ==
    LET crossed == since + 1 >= FlushEvery
    IN  /\ lines' = lines + 1
        /\ since' = IF crossed THEN 0 ELSE since + 1
        /\ durable' = IF crossed THEN lines + 1 ELSE durable

\* An append that fails leaves its line in the BufWriter or not, and does not
\* count it.
AppendFails ==
    /\ lines' \in {lines, lines + 1} /\ appendFailed' = TRUE
    /\ UNCHANGED <<since, durable>>

\* insert_event and append, their errors ignored, then push.
Consume ==
    /\ channel > 0
    /\ channel' = channel - 1 /\ kept' = kept + 1
    /\ \/ Works /\ AppendEvent /\ UNCHANGED appendFailed
       \/ Fails /\ AppendFails

\* Mutant: the loop looks at the flag only.
CheckStopFlag ==
    /\ pc = "loop"
    /\ pc' = IF stop THEN "stop" ELSE "recv"
    /\ Works /\ UNCHANGED <<opts, proc, trace, etwv, filev, stopv, endv>>

\* The top of the loop.
CheckStop ==
    /\ pc = "loop"
    /\ pc' = IF stop \/ late THEN "stop" ELSE "recv"
    /\ Works /\ UNCHANGED <<opts, proc, trace, etwv, filev, stopv, endv>>

Recv ==
    /\ pc = "recv" /\ Consume
    /\ pc' = "loop"
    /\ UNCHANGED <<opts, proc, trace, made, kernel, emitted, drops, stopv, endv>>

\* process_is_alive: a process that exited with the code STILL_ACTIVE looks alive.
ProcessIsAlive == proc \in {"suspended", "running", "exited259"}

\* recv_timeout expired.
Timeout ==
    /\ pc = "recv" /\ channel = 0
    /\ pc' = IF opts.target # "none" /\ ~ProcessIsAlive THEN "drain" ELSE "loop"
    /\ Works /\ UNCHANGED <<opts, proc, trace, etwv, filev, stopv, endv>>

\* After the sleep: try_recv until the channel is empty.
Drain ==
    /\ pc = "drain" /\ Consume
    /\ UNCHANGED <<opts, pc, proc, trace, made, kernel, emitted, drops, stopv, endv>>

Drained ==
    /\ pc = "drain" /\ channel = 0
    /\ pc' = "stop"
    /\ Works /\ UNCHANGED <<opts, proc, trace, etwv, filev, stopv, endv>>

-----------------------------------------------------------------------------
(* Ending: session.rs (6) to (9)                                           *)

\* Mutant: the collector is left to its destructor.
StopForgotten ==
    /\ pc = "stop"
    /\ Works /\ pc' = "snapshot"
    /\ UNCHANGED <<opts, proc, trace, etwv, filev, stopv, endv>>

\* collector.stop; after it no event arrives on the channel (collector.rs:120-121).
StopCollector ==
    /\ pc = "stop"
    /\ trace' = "off" /\ kernel' = 0
    /\ \/ Works /\ pc' = "snapshot" /\ UNCHANGED endv
       \/ Fails /\ Bail
    /\ UNCHANGED <<opts, proc, made, channel, emitted, drops, filev, stopv>>

\* drops.snapshot.
Snapshot ==
    /\ pc = "snapshot"
    /\ declared' = drops /\ pc' = "finalize"
    /\ Works /\ UNCHANGED <<opts, proc, trace, etwv, filev, stopv, ledger>>

\* writer.finalize.
FinalizeWriter ==
    /\ pc = "finalize"
    /\ \/ Works /\ pc' = "pack" /\ durable' = lines /\ UNCHANGED endv
       \/ Fails /\ Bail /\ UNCHANGED durable
    /\ UNCHANGED <<opts, proc, trace, etwv, kept, lines, since, appendFailed, stopv>>

\* llm_pack::emit_all.
EmitPack ==
    /\ pc = "pack"
    /\ \/ Works /\ pc' = "ledger" /\ UNCHANGED endv
       \/ Fails /\ Bail
    /\ UNCHANGED <<opts, proc, trace, etwv, filev, stopv>>

\* ledger.finalize_atomic, with every artifact marked complete.
FinalizeLedger ==
    /\ pc = "ledger"
    /\ \/ /\ Works /\ pc' = "done"
          /\ ledger' = ApplyLossPolicy(DeriveOutcome(MarkAll(EmptyLedger, Artifacts, "Complete")),
                                       opts.policy, declared)
          /\ UNCHANGED declared
       \/ Fails /\ Bail
    /\ UNCHANGED <<opts, proc, trace, etwv, filev, stopv>>

SessionStep ==
    \/ Unsupported \/ Probe \/ Spawn \/ Start \/ Resume \/ Open
    \/ CheckStop \/ Recv \/ Timeout \/ Drain \/ Drained
    \/ StopCollector \/ Snapshot \/ FinalizeWriter \/ EmitPack \/ FinalizeLedger

-----------------------------------------------------------------------------
(* The callback thread, the target, the clock, Ctrl-C and the host         *)

Over == pc \in {"done", "err", "killed"}

\* A traced process does something: the target, or any process without one.
MakeEvent ==
    /\ trace = "live" /\ made < MaxEvents /\ pc # "killed"
    /\ opts.target # "none" => proc = "running"
    /\ made' = made + 1 /\ kernel' = kernel + 1
    /\ UNCHANGED <<opts, pc, proc, trace, channel, emitted, drops, filev, stopv, endv, errors>>

\* The callback: try_send, or a drop counted when the channel is full.
Callback ==
    /\ kernel > 0 /\ pc # "killed"
    /\ kernel' = kernel - 1
    /\ IF channel < ChannelCap
       THEN channel' = channel + 1 /\ emitted' = emitted + 1 /\ UNCHANGED drops
       ELSE drops' = drops + 1 /\ UNCHANGED <<channel, emitted>>
    /\ UNCHANGED <<opts, pc, proc, trace, made, filev, stopv, endv, errors>>

TargetExits ==
    /\ proc = "running" /\ proc' \in {"exited", "exited259"}
    /\ UNCHANGED <<opts, pc, trace, etwv, filev, stopv, endv, errors>>

Clock ==
    /\ opts.duration /\ ~late /\ pc \in {"loop", "recv", "drain"}
    /\ late' = TRUE
    /\ UNCHANGED <<opts, pc, proc, trace, etwv, filev, handler, stop, endv, errors>>

\* The handler of the session raises the flag; another one does not.
CtrlC ==
    /\ handler = "trace" /\ ~stop /\ ~Over
    /\ stop' = TRUE
    /\ UNCHANGED <<opts, pc, proc, trace, etwv, filev, handler, late, endv, errors>>

\* The host dies (so does it by a Ctrl-C nobody handles): what is in the
\* channel and in the BufWriter is gone, the ETW session outlives it.
Kill ==
    /\ ~Over
    /\ pc' = "killed"
    /\ UNCHANGED <<opts, proc, trace, etwv, filev, stopv, endv, errors>>

Next ==
    \/ SessionStep
    \/ MakeEvent \/ Callback \/ TargetExits \/ Clock \/ CtrlC \/ Kill

Spec == Init /\ [][Next]_vars

\* The session thread runs and time passes; recv_timeout returns with an event
\* or without.  Nothing is assumed of the target, the kernel or the user.
FairSpec == Spec /\ WF_vars(SessionStep) /\ WF_vars(Clock)

-----------------------------------------------------------------------------
(* Properties                                                              *)

Labels == {"probe", "spawn", "start", "resume", "open", "loop", "recv", "drain", "stop",
           "snapshot", "finalize", "pack", "ledger", "done", "err", "killed"}

\* Types; the channel never holds more than its capacity, and what it accepted
\* is in it or has been taken out.
TypeOK ==
    /\ opts \in Options /\ pc \in Labels
    /\ proc \in {"absent", "suspended", "running", "exited", "exited259"}
    /\ trace \in {"off", "live"}
    /\ made \in 0..MaxEvents /\ kernel \in Nat /\ channel \in 0..ChannelCap
    /\ emitted \in Nat /\ drops \in Nat /\ kept \in Nat /\ lines \in Nat
    /\ durable \in Nat /\ since \in 0..FlushEvery /\ appendFailed \in BOOLEAN
    /\ declared \in Nat /\ handler \in {"none", "other", "trace"}
    /\ stop \in BOOLEAN /\ late \in BOOLEAN
    /\ ledger \in {"none"} \cup RunOutcome /\ errors \in 0..MaxErrors
    /\ emitted = kept + channel /\ emitted + drops + kernel <= made

\* dyn_run_status.rs:164-166 and LossPolicy: the drops in the ledger are all
\* there were, although another thread counts them, and a run with drops is
\* complete only where the policy is Warn, failed where it is Fail.
DropsAreDeclared ==
    pc = "done" /\ drops > 0 =>
        /\ declared = drops
        /\ opts.policy = "Warn" => ledger = "Complete"
        /\ opts.policy = "Partial" => ledger = "Partial"
        /\ opts.policy = "Fail" => ledger = "Failed"

\* session.rs:7-9: a spawned target runs no instruction before the collector
\* is live.
TracedFromTheStart ==
    opts.target = "spawn" /\ pc \in {"spawn", "start", "resume", "open", "loop", "recv", "drain"} =>
        proc \in {"absent", "suspended"} \/ trace = "live"

\* store.rs:11-12: "a parent-process crash bounds data loss to <64 events": of
\* the events taken out of the channel fewer than FlushEvery are not on disk,
\* at whatever point the host dies, as long as no append fails.
CrashLosesFew == ~appendFailed => kept - durable < FlushEvery

\* A run whose ledger was written has every event it counts on disk.
LedgerCountsLines == pc = "done" /\ ~appendFailed => durable = kept

\* mod.rs:119 and session.rs:13-14: recording ends at the deadline, at Ctrl-C
\* where the session has the handler, and when the target has exited.
RecordingEnds ==
    /\ (pc = "loop" /\ opts.duration) ~> Over
    /\ stop ~> Over
    /\ (pc = "loop" /\ opts.target # "none" /\ proc = "exited") ~> Over

\* dyn_run_status.rs:164: "a forensic tool can't claim Complete when events were
\* dropped": in a complete run every event the channel accepted was recorded.
CompleteMeansRecorded ==
    ledger = "Complete" /\ opts.policy # "Warn" => kept = emitted

\* session.rs:10-11: "on failure, TerminateProcess(target) and bail".
FailedStartEndsTarget ==
    pc = "err" /\ opts.target = "spawn" => proc # "suspended"

\* What the file lacks of the events taken is bounded at every moment and
\* nothing once the ledger is written.
LossIsBounded == TypeOK /\ CrashLosesFew /\ LedgerCountsLines
=============================================================================
