--------------------------- MODULE AuroraSession ---------------------------
(***************************************************************************)
(* src/src/unpack/{session,debug_loop,containment,process_control,         *)
(* snapshot_capture,unpack_run_status}.rs: an Aurora unpacking session.    *)
(* One host process runs sessions one after the other.  Each spawns a      *)
(* suspended target, attaches to it, drives the debug loop under a budget  *)
(* and dumps a snapshot, while its watchdog thread, the Ctrl-C handler,    *)
(* the target and the operating system take steps of their own.            *)
(*                                                                         *)
(* Processes are known to the code by pid.  The operating system hands out *)
(* a pid again once its process is dead and nobody holds a handle to it.   *)
(***************************************************************************)
EXTENDS Integers, RunStatus

CONSTANTS
    Pids,          \* process ids of the operating system
    MaxSessions,   \* bound: sessions of one host process
    EventCap       \* event_cap of a Budget

ASSUME AuroraAssumption == MaxSessions \in Nat \ {0} /\ EventCap \in Nat \ {0}

Sessions == 1..MaxSessions
NoPid == "no pid"
Other == 0                           \* owner of a process that is no target

VARIABLES
    host,          \* "up" or "exited"
    proc,          \* by pid: state, owner (a session or Other), debugged by us
    s,             \* the current or last session, 0 before the first
    pc,            \* where run_windows_session is
    pidOf,         \* target.pid of each session
    switch,        \* KILL_SWITCH_PID
    handler,       \* whose handler Ctrl-C calls: a process has one, the first
    interrupted,   \* the flag of the axe program's handler
    dogs,          \* sessions whose watchdog thread runs
    wall,          \* sessions whose wall-clock budget is over
    events,        \* Budget::events_seen of each session
    stats,         \* DebugStats of the current loop, and how the loop ended
    regions,       \* regions captured
    report,        \* what the session wrote and returned
    killer         \* history: who ended the target of the session

procv == <<proc, killer>>
ctrlv == <<switch, handler, interrupted>>
budgv == <<dogs, wall, events>>
resv  == <<regions, report>>
vars  == <<host, proc, s, pc, pidOf, ctrlv, dogs, wall, events, stats, regions, report, killer>>

Free == [state |-> "free", owner |-> Other, debugged |-> FALSE]
NoStats == [exited |-> FALSE, ended |-> "no"]
NoReport == [outcome |-> "none", manifest |-> "none", ledger |-> "none"]

Pid == pidOf[s]
Alive(p) == proc[p].state \in {"suspended", "running"}
OwnerAt(p) == proc[p].owner

Init ==
    /\ host = "up" /\ proc = [p \in Pids |-> Free]
    /\ s = 0 /\ pc = "idle" /\ pidOf = [n \in Sessions |-> NoPid]
    /\ switch = NoPid /\ handler \in {"none", "axe"} /\ interrupted = FALSE
    /\ dogs = {} /\ wall = {} /\ events = [n \in Sessions |-> 0]
    /\ stats = NoStats /\ regions = 0
    /\ report = NoReport /\ killer = "nobody"

-----------------------------------------------------------------------------
(* The budget                                                              *)

\* tick_event.  Bound: counted to one past EventCap, beyond which is_expired
\* tells no values apart.
Tick(n) == [events EXCEPT ![n] = IF @ <= EventCap THEN @ + 1 ELSE @]

\* is_expired.
Expired(n) == n \in wall \/ events[n] >= EventCap

-----------------------------------------------------------------------------
(* Ending processes                                                        *)

\* The processes ps die; for the target of the session the cause is recorded.
Kill(ps, cause) ==
    LET dying == {p \in ps : Alive(p)}
    IN  /\ proc' = [p \in Pids |-> IF p \in dying THEN [proc[p] EXCEPT !.state = "dead"] ELSE proc[p]]
        /\ killer' = IF \E p \in dying : OwnerAt(p) = s THEN cause ELSE killer

\* Mutant: the handles are closed when the debug loop ends.
HandleClosedEarly(p) == host = "up" /\ pc \notin {"idle", "capture", "emit", "finalize"} /\ p = Pid

\* The handles of the current target are open until the session returns.
HandleOpen(p) == host = "up" /\ pc # "idle" /\ p = Pid

-----------------------------------------------------------------------------
(* The session thread                                                      *)

\* Every early return with an error; the drop of TargetProcess only closes its
\* handles.
ReturnErr ==
    /\ pc' = "idle"
    /\ report' = [report EXCEPT !.outcome = "error"]
    /\ UNCHANGED <<proc, killer, regions, stats>>

\* spawn_suspended.
Spawn ==
    /\ host = "up" /\ pc = "idle" /\ s < MaxSessions
    /\ s' = s + 1
    /\ \/ \E p \in Pids :
            /\ proc[p].state = "free"
            /\ proc' = [proc EXCEPT ![p] = [state |-> "suspended", owner |-> s + 1, debugged |-> FALSE]]
            /\ pidOf' = [pidOf EXCEPT ![s + 1] = p]
            /\ pc' = "spawned"
            /\ report' = NoReport
       \/ /\ report' = [NoReport EXCEPT !.outcome = "error"]
          /\ UNCHANGED <<proc, pidOf, pc>>
    /\ stats' = NoStats /\ regions' = 0 /\ killer' = "nobody"
    /\ UNCHANGED <<host, ctrlv, budgv>>

\* install_ctrl_c_kill_switch.  ctrlc::set_handler refuses a second handler, and
\* the session ignores that it did.  The PEB patches and the hook list that
\* follow are best effort and change nothing here.
Arm ==
    /\ host = "up" /\ pc = "spawned"
    /\ switch' = Pid
    /\ handler' = IF handler = "none" THEN "aurora" ELSE handler
    /\ pc' = "armed"
    /\ UNCHANGED <<host, interrupted, procv, s, pidOf, budgv, stats, resv>>

\* attach_debugger.
Attach ==
    /\ host = "up" /\ pc = "armed"
    /\ \/ /\ Alive(Pid)
          /\ proc' = [proc EXCEPT ![Pid].debugged = TRUE]
          /\ pc' = "attached"
          /\ UNCHANGED <<killer, resv, stats>>
       \/ ReturnErr
    /\ UNCHANGED <<host, s, pidOf, ctrlv, budgv>>

\* resume_main_thread.
Resume ==
    /\ host = "up" /\ pc = "attached"
    /\ \/ /\ proc' = [proc EXCEPT ![Pid].state = IF @ = "suspended" THEN "running" ELSE @]
          /\ pc' = "resumed"
          /\ UNCHANGED <<killer, resv, stats>>
       \/ ReturnErr
    /\ UNCHANGED <<host, s, pidOf, ctrlv, budgv>>

\* Budget::new and spawn_budget_watchdog.
StartWatchdog ==
    /\ host = "up" /\ pc = "resumed"
    /\ dogs' = dogs \cup {s}
    /\ pc' = "loop"
    /\ UNCHANGED <<host, procv, s, pidOf, ctrlv, wall, events, stats, resv>>

EndLoop(st) == stats' = st /\ pc' = "capture"

\* The processes this thread debugs; a session that returns does not detach.
Debugged == {p \in Pids : proc[p].debugged}

\* A debug event of any process the thread debugs: the handler ticks the budget
\* and asks to stop when it is over.
DebugEvent ==
    /\ host = "up" /\ pc = "loop"
    /\ \E p \in Debugged : proc[p].state = "running"
    /\ events' = Tick(s)
    /\ UNCHANGED <<host, procv, s, pidOf, ctrlv, dogs, wall, resv>>
    /\ IF Expired(s)'
       THEN EndLoop([stats EXCEPT !.ended = "handler"])
       ELSE UNCHANGED <<stats, pc>>

\* EXIT_PROCESS_DEBUG_EVENT: whatever ended the process, and whichever process
\* it was.
ExitEvent ==
    /\ host = "up" /\ pc = "loop"
    /\ \E p \in Debugged :
        /\ proc[p].state = "dead"
        /\ proc' = [proc EXCEPT ![p].debugged = FALSE]
    /\ events' = Tick(s)
    /\ EndLoop([exited |-> TRUE, ended |-> "exit"])
    /\ UNCHANGED <<host, killer, s, pidOf, ctrlv, dogs, wall, resv>>

\* One WaitForDebugEvent times out: run_loop returns what it has.
WaitTimeout ==
    /\ host = "up" /\ pc = "loop"
    /\ \A p \in Debugged : Alive(p)
    /\ EndLoop([stats EXCEPT !.ended = "timeout"])
    /\ UNCHANGED <<host, procv, s, pidOf, ctrlv, budgv, resv>>

\* WaitForDebugEvent or ContinueDebugEvent fails: the statistics are dropped.
LoopError ==
    /\ host = "up" /\ pc = "loop"
    /\ EndLoop([exited |-> FALSE, ended |-> "error"])
    /\ UNCHANGED <<host, procv, s, pidOf, ctrlv, budgv, resv>>

\* snapshot_capture::capture, empty when it fails.
Capture ==
    /\ host = "up" /\ pc = "capture"
    /\ regions' \in IF Alive(Pid) THEN 0..1 ELSE {0}
    /\ pc' = "emit"
    /\ UNCHANGED <<host, procv, s, pidOf, ctrlv, budgv, stats, report>>

\* execution_provenance of the manifest.
ManifestOutcome ==
    IF stats.exited THEN "target_exited" ELSE IF Expired(s) THEN "timeout" ELSE "stopped"

\* emit_snapshot and the artifacts of the ledger.
Emit ==
    /\ host = "up" /\ pc = "emit"
    /\ \/ /\ report' = [report EXCEPT !.manifest = ManifestOutcome]
          /\ pc' = "finalize"
          /\ UNCHANGED <<proc, killer, stats, regions>>
       \/ ReturnErr
    /\ UNCHANGED <<host, s, pidOf, ctrlv, budgv>>

Artifacts ==
    MarkAll(EmptyLedger, {"unpack_provenance.json"} \cup (IF regions > 0 THEN {"regions"} ELSE {}),
            "Complete")

\* finalize of the ledger and the returned report.
Finalize ==
    /\ host = "up" /\ pc = "finalize"
    /\ \/ /\ report' = [report EXCEPT
                !.ledger = DeriveOutcome(Artifacts),
                !.outcome = IF stats.exited \/ regions > 0 THEN "Complete" ELSE "Partial"]
          /\ pc' = "idle"
          /\ UNCHANGED <<proc, killer, stats, regions>>
       \/ ReturnErr
    /\ UNCHANGED <<host, s, pidOf, ctrlv, budgv>>

SessionStep ==
    \/ Arm \/ Attach \/ Resume \/ StartWatchdog
    \/ DebugEvent \/ ExitEvent
    \/ Capture \/ Emit \/ Finalize

-----------------------------------------------------------------------------
(* The watchdog threads, Ctrl-C, the target and the operating system       *)

WallClock(n) ==
    /\ host = "up" /\ n \in dogs /\ n \notin wall
    /\ wall' = wall \cup {n}
    /\ UNCHANGED <<host, procv, s, pc, pidOf, ctrlv, dogs, events, stats, resv>>

\* Mutant: the watchdog of a session that is over goes home.
WatchdogQuits(n) ==
    /\ host = "up" /\ n \in dogs /\ Expired(n)
    /\ dogs' = dogs \ {n}
    /\ IF n = s /\ pc # "idle" THEN Kill({pidOf[n]}, "watchdog") ELSE UNCHANGED procv
    /\ UNCHANGED <<host, s, pc, pidOf, ctrlv, wall, events, stats, resv>>

\* The watchdog thread opens its pid and terminates what it finds there.
Watchdog(n) ==
    /\ host = "up" /\ n \in dogs /\ Expired(n)
    /\ dogs' = dogs \ {n}
    /\ Kill({pidOf[n]}, "watchdog")
    /\ UNCHANGED <<host, s, pc, pidOf, ctrlv, wall, events, stats, resv>>

\* The host process ends, at its end or by a crash: its threads end and
\* kill-on-exit ends the processes it debugs.
HostExit ==
    /\ host = "up"
    /\ host' = "exited" /\ dogs' = {}
    /\ Kill(Debugged, "kill_on_exit")
    /\ UNCHANGED <<s, pc, pidOf, ctrlv, wall, events, stats, resv>>

\* Ctrl-C with the handler of Aurora: it terminates the stored pid and exits.
CtrlC ==
    /\ host = "up" /\ handler = "aurora"
    /\ host' = "exited" /\ dogs' = {}
    /\ Kill(Debugged \cup {switch}, "ctrl_c")
    /\ UNCHANGED <<ctrlv, s, pc, pidOf, wall, events, stats, resv>>

\* Ctrl-C with the handler the axe program installs before it starts an
\* analysis: the first one raises a flag, the second one exits.
CtrlCInAxe ==
    /\ host = "up" /\ handler = "axe"
    /\ interrupted' = TRUE
    /\ IF interrupted
       THEN host' = "exited" /\ dogs' = {} /\ Kill(Debugged, "kill_on_exit")
       ELSE UNCHANGED <<host, dogs, procv>>
    /\ UNCHANGED <<switch, handler, s, pc, pidOf, wall, events, stats, resv>>

\* A running process ends by itself.
ProcessExits(p) ==
    /\ proc[p].state = "running"
    /\ Kill({p}, "itself")
    /\ UNCHANGED <<host, s, pc, pidOf, ctrlv, budgv, stats, resv>>

\* A dead process without handles frees its pid; some other program takes one.
ReleasePid(p) ==
    /\ proc[p].state = "dead" /\ ~HandleOpen(p)
    /\ host = "up" => ~proc[p].debugged
    /\ proc' = [proc EXCEPT ![p] = Free]
    /\ UNCHANGED <<host, killer, s, pc, pidOf, ctrlv, budgv, stats, resv>>

OtherStarts(p) ==
    /\ proc[p].state = "free"
    /\ proc' = [proc EXCEPT ![p] = [state |-> "running", owner |-> Other, debugged |-> FALSE]]
    /\ UNCHANGED <<host, killer, s, pc, pidOf, ctrlv, budgv, stats, resv>>

Environment ==
    \/ \E p \in Pids : ProcessExits(p) \/ ReleasePid(p) \/ OtherStarts(p)
    \/ HostExit \/ CtrlC \/ CtrlCInAxe

Next ==
    \/ Spawn \/ SessionStep \/ WaitTimeout \/ LoopError \/ Environment
    \/ \E n \in Sessions : WallClock(n) \/ Watchdog(n)

Spec == Init /\ [][Next]_vars

\* The session thread runs on (a wait that brings no event times out, so that the
\* loop goes on or takes WaitTimeout or LoopError), time passes and the watchdog
\* wakes every 50 ms.
\* Nothing is assumed of the target, of Ctrl-C or of the end of the host.
FairSpec ==
    /\ Spec /\ WF_vars(SessionStep)
    /\ \A n \in Sessions : WF_vars(WallClock(n)) /\ WF_vars(Watchdog(n))

-----------------------------------------------------------------------------
(* Properties                                                              *)

\* The state has its shape, and no debug event is handled past the event cap.
TypeOK ==
    /\ host \in {"up", "exited"} /\ s \in 0..MaxSessions
    /\ proc \in [Pids -> [state : {"free", "suspended", "running", "dead"},
                          owner : 0..MaxSessions, debugged : BOOLEAN]]
    /\ pc \in {"idle", "spawned", "armed", "attached", "resumed", "loop", "capture", "emit", "finalize"}
    /\ pidOf \in [Sessions -> Pids \cup {NoPid}] /\ switch \in Pids \cup {NoPid}
    /\ handler \in {"none", "axe", "aurora"} /\ interrupted \in BOOLEAN
    /\ dogs \subseteq Sessions /\ wall \subseteq Sessions
    /\ events \in [Sessions -> 0..EventCap]
    /\ regions \in 0..1

\* Where Aurora's handler is the one in force, Ctrl-C ends the target of the
\* running session from the moment it is armed until the session returns, also
\* in the second session of a host.
CtrlCReachesTarget ==
    host = "up" /\ handler = "aurora" /\ pc \notin {"idle", "spawned"} => switch = Pid

\* containment.rs:90-91: "Once installed, a Ctrl-C in Aurora's console terminates
\* the PID stored here", whatever program the session runs in.
CtrlCEndsTarget ==
    [][(CtrlC \/ CtrlCInAxe) /\ pc \notin {"idle", "spawned"} => ~Alive(Pid)']_vars

\* A pid the session works on denotes its target until the session returns:
\* the open handle keeps the operating system from handing it out again.
SessionPidIsTarget == pc # "idle" /\ host = "up" => OwnerAt(Pid) = s

\* containment.rs:3-4, "every Aurora run is bounded so a hung target cannot run
\* forever": the target of a session that reached its debug loop ends, whatever
\* the target does and also after the session has returned.
WatchedTargetEnds ==
    \A n \in Sessions : n \in dogs ~> ~\E p \in Pids : Alive(p) /\ OwnerAt(p) = n

\* A session returns, also when the target never stops raising events.
SessionReturns == pc # "idle" ~> (pc = "idle" \/ host = "exited")

\* process_control.rs:212-214: "the malware MUST NOT outlive Aurora", here once
\* its session has returned.
NeverOutlivesAurora ==
    host = "exited" /\ pc = "idle" => \A p \in Pids : Alive(p) => OwnerAt(p) = Other

\* session.rs:14-16: the watchdog "hard-kills on expiry"; what it ends is the
\* target of its session.
WatchdogKillsOwnTarget ==
    [][\A n \in Sessions : Watchdog(n) =>
            \A p \in Pids : proc'[p] # proc[p] => OwnerAt(p) = n]_vars

\* debug_loop.rs:128-132: a kill by the budget is to surface as an error; a
\* manifest that says "target reached natural exit" means that the target did.
NaturalExitIsNatural ==
    report.manifest = "target_exited" => killer = "itself"

\* debug_loop.rs:156-158: a wait timeout is a soft exit "so the orchestrator can
\* resume the loop": the loop ends only with the target, the budget or an error.
LoopEndsForAReason == pc = "capture" => stats.ended # "timeout"

\* mod.rs:172-174: Partial is "the run was truncated (timeout or instr-budget
\* hit)": a run that was is not reported Complete.
TruncatedIsPartial ==
    report.manifest = "timeout" => report.outcome # "Complete"

\* Pids are reused: the process the session watches and dumps, and the one that
\* Aurora's Ctrl-C handler ends, is the target that session spawned.
RightProcess == TypeOK /\ SessionPidIsTarget /\ CtrlCReachesTarget

\* A target under a watchdog ends, and a session returns, whatever the target,
\* the user and the operating system do.
TargetsAndSessionsEnd == WatchedTargetEnds /\ SessionReturns
=============================================================================
