------------------------ MODULE AuroraSession_proofs ------------------------
(***************************************************************************)
(* Aurora, for every set of pids, addresses, pages and debug registers and *)
(* every number of sessions, events, samples, regions and steps: pid reuse *)
(* cannot mislead a session, the traps of the tracing primitives do not    *)
(* change what they trace, and what is reported of a target was seen.      *)
(***************************************************************************)
EXTENDS AuroraSession, AuroraTracing, TLAPS, FiniteSetTheorems, SequenceTheorems, WellFoundedInduction

ProcState == [state : {"free", "suspended", "running", "dead"},
              owner : 0..MaxSessions, debugged : BOOLEAN]

\* The pid of a session that has not returned is taken: its handle keeps a dead
\* target's pid from being handed out, so that no other program can start there.
HandleKeepsPid ==
    pc # "idle" =>
        /\ s \in Sessions /\ pidOf[s] \in Pids
        /\ host = "up" => proc[pidOf[s]].owner = s /\ proc[pidOf[s]].state # "free"

\* KILL_SWITCH_PID is that of the running session once it is armed.
SwitchIsCurrent == pc \notin {"idle", "spawned"} => switch = pidOf[s]

\* The debug loop leaves at the event cap, and a session starts without events.
EventsWithinCap ==
    /\ \A n \in Sessions : n > s => events[n] = 0
    /\ pc \in {"spawned", "armed", "attached", "resumed"} => events[s] = 0
    /\ pc = "loop" => events[s] < EventCap

AuroraInv == TypeOK /\ HandleKeepsPid /\ SwitchIsCurrent /\ EventsWithinCap

LEMMA AuroraInvImplies == AuroraInv => RightProcess
BY DEF AuroraInv, HandleKeepsPid, SwitchIsCurrent, RightProcess, SessionPidIsTarget,
       CtrlCReachesTarget, OwnerAt, Pid

\* Ending processes touches neither owners nor free pids.
LEMMA KillKeepsOwners ==
    ASSUME TypeOK, NEW ps, NEW cause, Kill(ps, cause)
    PROVE  /\ proc' \in [Pids -> ProcState]
           /\ \A p \in Pids : /\ proc'[p].owner = proc[p].owner
                              /\ proc'[p].debugged = proc[p].debugged
                              /\ proc[p].state # "free" => proc'[p].state # "free"
<1> DEFINE dying == {p \in ps : Alive(p)}
<1>1. proc' = [p \in Pids |-> IF p \in dying THEN [proc[p] EXCEPT !.state = "dead"] ELSE proc[p]]
  BY DEF Kill
<1> HIDE DEF dying
<1>2. \A p \in Pids : proc[p] \in ProcState
  BY DEF TypeOK, ProcState
<1>3. ASSUME NEW r \in ProcState
      PROVE  /\ [r EXCEPT !.state = "dead"] \in ProcState
             /\ [r EXCEPT !.state = "dead"].owner = r.owner
             /\ [r EXCEPT !.state = "dead"].debugged = r.debugged
             /\ [r EXCEPT !.state = "dead"].state # "free"
  BY DEF ProcState
<1> QED BY <1>1, <1>2, <1>3

\* Nor does the debug flag of a process.
LEMMA FlagKeepsOwners ==
    ASSUME proc \in [Pids -> ProcState], NEW q \in Pids, NEW d \in BOOLEAN,
           proc' = [proc EXCEPT ![q].debugged = d]
    PROVE  /\ proc' \in [Pids -> ProcState]
           /\ \A p \in Pids : /\ proc'[p].owner = proc[p].owner
                              /\ proc'[p].state = proc[p].state
<1>1. ASSUME NEW r \in ProcState
      PROVE  /\ [r EXCEPT !.debugged = d] \in ProcState
             /\ [r EXCEPT !.debugged = d].owner = r.owner
             /\ [r EXCEPT !.debugged = d].state = r.state
  BY DEF ProcState
<1>2. /\ proc[q] \in ProcState
      /\ proc' = [p \in Pids |-> IF p = q THEN [proc[q] EXCEPT !.debugged = d] ELSE proc[p]]
  OBVIOUS
<1> QED BY <1>1, <1>2

\* A step that leaves the session thread where it is, keeps the owner of every
\* process and frees no pid.
LEMMA OutsideKeeps ==
    ASSUME AuroraInv, UNCHANGED <<s, pc, pidOf, switch, handler, events, regions>>,
           proc' \in [Pids -> ProcState],
           \A p \in Pids : /\ proc'[p].owner = proc[p].owner
                           /\ proc[p].state # "free" => proc'[p].state # "free",
           host' \in {"up", "exited"}, host' = "up" => host = "up",
           interrupted' \in BOOLEAN, dogs' \subseteq Sessions, wall' \subseteq Sessions
    PROVE  AuroraInv'
<1>1. TypeOK'
  BY DEF AuroraInv, TypeOK, ProcState
<1>2. HandleKeepsPid'
  BY DEF AuroraInv, HandleKeepsPid
<1>3. SwitchIsCurrent' /\ EventsWithinCap'
  BY DEF AuroraInv, SwitchIsCurrent, EventsWithinCap
<1> QED BY <1>1, <1>2, <1>3 DEF AuroraInv

\* A step of the session thread past the spawn that keeps owners and pids.
LEMMA ThreadKeeps ==
    ASSUME AuroraInv, UNCHANGED <<host, s, pidOf, switch, handler, interrupted, wall, events>>,
           proc' \in [Pids -> ProcState],
           \A p \in Pids : /\ proc'[p].owner = proc[p].owner
                           /\ proc[p].state # "free" => proc'[p].state # "free",
           pc \notin {"idle", "spawned"},
           \/ pc' \in {"idle", "capture", "emit", "finalize"}
           \/ pc = "armed" /\ pc' = "attached"
           \/ pc = "attached" /\ pc' = "resumed"
           \/ pc = "resumed" /\ pc' = "loop",
           dogs' \subseteq Sessions, regions' \in 0..1
    PROVE  AuroraInv'
<1>1. TypeOK'
  BY DEF AuroraInv, TypeOK, ProcState
<1>2. HandleKeepsPid'
  BY DEF AuroraInv, HandleKeepsPid
<1>3. SwitchIsCurrent'
  BY DEF AuroraInv, SwitchIsCurrent
<1>4. EventsWithinCap'
  BY AuroraAssumption DEF AuroraInv, EventsWithinCap
<1> QED BY <1>1, <1>2, <1>3, <1>4 DEF AuroraInv

\* A debug event adds at most one to a count below the cap.
LEMMA TickWithinCap ==
    ASSUME AuroraInv, pc = "loop", events' = Tick(s)
    PROVE  /\ s \in Sessions /\ events' \in [Sessions -> 0..EventCap]
           /\ events'[s] = events[s] + 1
           /\ \A n \in Sessions : n # s => events'[n] = events[n]
<1>1. s \in Sessions /\ events[s] < EventCap /\ events \in [Sessions -> 0..EventCap]
  BY DEF AuroraInv, HandleKeepsPid, EventsWithinCap, TypeOK
<1>2. events[s] \in Nat /\ EventCap \in Nat
  BY <1>1, AuroraAssumption
<1>3. events' = [events EXCEPT ![s] = events[s] + 1]
  <2>1. events[s] <= EventCap
    BY <1>1, <1>2
  <2> QED BY <2>1 DEF Tick
<1> QED BY <1>1, <1>2, <1>3

\* The process a session watches and dumps, and the one Aurora's Ctrl-C handler
\* ends, is the target it spawned, although pids are reused (run_windows_session,
\* install_ctrl_c_kill_switch); no event is handled past the cap of the budget.
THEOREM SessionSeesItsTarget == Spec => []RightProcess
<1>1. Init => AuroraInv
  <2> SUFFICES ASSUME Init PROVE AuroraInv
    OBVIOUS
  <2>1. TypeOK
    <3>1. Free \in ProcState /\ 0 \in 0..MaxSessions /\ 0 \in 0..EventCap
      BY AuroraAssumption DEF Free, Other, ProcState
    <3>2. proc \in [Pids -> ProcState]
      BY <3>1 DEF Init
    <3>3. events \in [Sessions -> 0..EventCap] /\ pidOf \in [Sessions -> Pids \cup {NoPid}]
      BY <3>1 DEF Init
    <3>4. /\ host = "up" /\ s = 0 /\ pc = "idle" /\ switch = NoPid /\ handler \in {"none", "axe"}
          /\ interrupted \in BOOLEAN /\ dogs = {} /\ wall = {} /\ regions = 0
      BY DEF Init
    <3> QED BY <3>1, <3>2, <3>3, <3>4 DEF TypeOK, ProcState
  <2>2. HandleKeepsPid /\ SwitchIsCurrent
    BY DEF Init, HandleKeepsPid, SwitchIsCurrent
  <2>3. EventsWithinCap
    BY DEF Init, EventsWithinCap
  <2> QED BY <2>1, <2>2, <2>3 DEF AuroraInv
<1>2. AuroraInv /\ [Next]_vars => AuroraInv'
  <2> SUFFICES ASSUME AuroraInv, [Next]_vars PROVE AuroraInv'
    OBVIOUS
  <2>0. /\ proc \in [Pids -> ProcState] /\ host \in {"up", "exited"} /\ interrupted \in BOOLEAN
        /\ dogs \subseteq Sessions /\ wall \subseteq Sessions /\ regions \in 0..1
        /\ TypeOK
    BY DEF AuroraInv, TypeOK, ProcState
  <2>1. CASE Spawn
    <3>1. /\ host = "up" /\ pc = "idle" /\ s < MaxSessions /\ s' = s + 1 /\ s \in 0..MaxSessions
          /\ UNCHANGED <<host, switch, handler, interrupted, dogs, wall, events>> /\ regions' = 0
      BY <2>0, <2>1 DEF Spawn, ctrlv, budgv, TypeOK
    <3>2. s + 1 \in Sessions /\ s + 1 \in 0..MaxSessions /\ events[s + 1] = 0
      BY <3>1, AuroraAssumption DEF Sessions, AuroraInv, EventsWithinCap
    <3>3. EventsWithinCap'
      <4>1. \A n \in Sessions : n > s + 1 => events[n] = 0
        BY <3>1, AuroraAssumption DEF Sessions, AuroraInv, EventsWithinCap
      <4>2. pc' \in {"idle", "spawned"}
        BY <2>1, <3>1 DEF Spawn
      <4> QED BY <3>1, <3>2, <4>1, <4>2 DEF EventsWithinCap
    <3>4. CASE UNCHANGED <<proc, pidOf, pc>>
      <4>1. TypeOK'
        BY <2>0, <3>1, <3>2, <3>4 DEF TypeOK
      <4> QED BY <3>1, <3>3, <3>4, <4>1 DEF AuroraInv, HandleKeepsPid, SwitchIsCurrent
    <3>5. ASSUME NEW p \in Pids, pc' = "spawned",
                 proc' = [proc EXCEPT ![p] = [state |-> "suspended", owner |-> s + 1, debugged |-> FALSE]],
                 pidOf' = [pidOf EXCEPT ![s + 1] = p]
          PROVE  AuroraInv'
      <4>1. [state |-> "suspended", owner |-> s + 1, debugged |-> FALSE] \in ProcState
        BY <3>2 DEF ProcState
      <4>2. proc' \in [Pids -> ProcState] /\ pidOf' \in [Sessions -> Pids \cup {NoPid}]
        BY <2>0, <3>2, <3>5, <4>1 DEF TypeOK
      <4>3. TypeOK'
        BY <2>0, <3>1, <3>2, <3>5, <4>2 DEF TypeOK, ProcState
      <4>4. pidOf'[s'] = p /\ proc'[p].owner = s' /\ proc'[p].state # "free"
        BY <2>0, <3>1, <3>2, <3>5 DEF TypeOK
      <4>5. HandleKeepsPid'
        BY <3>1, <3>2, <4>4 DEF HandleKeepsPid
      <4> QED BY <3>3, <3>5, <4>3, <4>5 DEF AuroraInv, SwitchIsCurrent
    <3> QED BY <2>1, <3>4, <3>5 DEF Spawn
  <2>2. CASE Arm
    <3>1. /\ pc = "spawned" /\ pc' = "armed" /\ switch' = pidOf[s]
          /\ handler' = IF handler = "none" THEN "aurora" ELSE handler
          /\ UNCHANGED <<host, interrupted, proc, s, pidOf, dogs, wall, events, regions>>
      BY <2>2 DEF Arm, Pid, procv, budgv, resv
    <3>2. s \in Sessions /\ pidOf[s] \in Pids
      BY <3>1 DEF AuroraInv, HandleKeepsPid
    <3>3. TypeOK'
      BY <2>0, <3>1, <3>2 DEF TypeOK
    <3> QED BY <3>1, <3>3 DEF AuroraInv, HandleKeepsPid, SwitchIsCurrent, EventsWithinCap
  <2>3. CASE Attach
    <3>1. /\ pc = "armed"
          /\ UNCHANGED <<host, s, pidOf, switch, handler, interrupted, dogs, wall, events, regions>>
          /\ \/ pc' = "attached" /\ proc' = [proc EXCEPT ![pidOf[s]].debugged = TRUE]
             \/ pc' = "idle" /\ proc' = proc
      BY <2>3 DEF Attach, ReturnErr, ctrlv, budgv, resv, Pid
    <3>2. pidOf[s] \in Pids
      BY <3>1 DEF AuroraInv, HandleKeepsPid
    <3>3. /\ proc' \in [Pids -> ProcState]
          /\ \A p \in Pids : /\ proc'[p].owner = proc[p].owner
                             /\ proc'[p].state = proc[p].state
      BY <2>0, <3>1, <3>2, FlagKeepsOwners
    <3> QED BY <2>0, <3>1, <3>3, ThreadKeeps
  <2>4. CASE Resume
    <3>1. /\ pc = "attached"
          /\ UNCHANGED <<host, s, pidOf, switch, handler, interrupted, dogs, wall, events, regions>>
          /\ \/ /\ pc' = "resumed"
                /\ proc' = [proc EXCEPT ![pidOf[s]].state = IF @ = "suspended" THEN "running" ELSE @]
             \/ pc' = "idle" /\ proc' = proc
      BY <2>4 DEF Resume, ReturnErr, ctrlv, budgv, resv, Pid
    <3>2. pidOf[s] \in Pids
      BY <3>1 DEF AuroraInv, HandleKeepsPid
    <3>3. /\ proc' \in [Pids -> ProcState]
          /\ \A p \in Pids : /\ proc'[p].owner = proc[p].owner
                             /\ proc[p].state # "free" => proc'[p].state # "free"
      BY <2>0, <3>1, <3>2 DEF ProcState
    <3> QED BY <2>0, <3>1, <3>3, ThreadKeeps
  <2>5. CASE StartWatchdog
    <3>1. s \in Sessions
      BY <2>5 DEF StartWatchdog, AuroraInv, HandleKeepsPid
    <3>2. /\ pc = "resumed" /\ pc' = "loop" /\ dogs' = dogs \cup {s}
          /\ UNCHANGED <<host, proc, s, pidOf, switch, handler, interrupted, wall, events, regions>>
      BY <2>5 DEF StartWatchdog, ctrlv, procv, resv
    <3> QED BY <2>0, <3>1, <3>2, ThreadKeeps
  <2>6. CASE DebugEvent \/ ExitEvent
    <3>1. /\ pc = "loop" /\ events' = Tick(s)
          /\ UNCHANGED <<host, s, pidOf, switch, handler, interrupted, dogs, wall, regions>>
          /\ \/ pc' = "capture"
             \/ pc' = "loop" /\ ~(events'[s] >= EventCap)
      BY <2>6 DEF DebugEvent, ExitEvent, EndLoop, Expired, ctrlv, resv
    <3>2. /\ proc' \in [Pids -> ProcState]
          /\ \A p \in Pids : /\ proc'[p].owner = proc[p].owner
                             /\ proc'[p].state = proc[p].state
      <4>1. CASE DebugEvent
        BY <2>0, <4>1 DEF DebugEvent, procv
      <4>2. CASE ExitEvent
        BY <2>0, <4>2, FlagKeepsOwners DEF ExitEvent, Debugged
      <4> QED BY <2>6, <4>1, <4>2
    <3>3. /\ s \in Sessions /\ events' \in [Sessions -> 0..EventCap]
          /\ events'[s] = events[s] + 1
          /\ \A n \in Sessions : n # s => events'[n] = events[n]
      BY <3>1, TickWithinCap
    <3>4. TypeOK'
      BY <2>0, <3>1, <3>2, <3>3 DEF TypeOK, ProcState
    <3>5. EventsWithinCap'
      BY <3>1, <3>3, AuroraAssumption DEF AuroraInv, EventsWithinCap, Sessions
    <3>6. HandleKeepsPid' /\ SwitchIsCurrent'
      BY <3>1, <3>2 DEF AuroraInv, HandleKeepsPid, SwitchIsCurrent
    <3> QED BY <3>4, <3>5, <3>6 DEF AuroraInv
  <2>7. CASE WaitTimeout \/ LoopError
    <3>1. /\ pc = "loop" /\ pc' = "capture"
          /\ UNCHANGED <<host, proc, s, pidOf, switch, handler, interrupted, dogs, wall, events, regions>>
      BY <2>7 DEF WaitTimeout, LoopError, EndLoop, ctrlv, procv, budgv, resv
    <3> QED BY <2>0, <3>1, ThreadKeeps
  <2>8. CASE Capture \/ Emit \/ Finalize
    <3>1. /\ pc \in {"capture", "emit", "finalize"} /\ pc' \in {"idle", "capture", "emit", "finalize"}
          /\ UNCHANGED <<host, proc, s, pidOf, switch, handler, interrupted, dogs, wall, events>>
          /\ regions' \in 0..1
      <4>1. CASE Capture
        BY <4>1 DEF Capture, ctrlv, procv, budgv
      <4>2. CASE Emit \/ Finalize
        BY <2>0, <4>2 DEF Emit, Finalize, ReturnErr, ctrlv, budgv
      <4> QED BY <2>8, <4>1, <4>2
    <3> QED BY <2>0, <3>1, ThreadKeeps
  <2>9. ASSUME NEW n \in Sessions, WallClock(n) PROVE AuroraInv'
    <3>1. /\ wall' = wall \cup {n}
          /\ UNCHANGED <<host, proc, s, pc, pidOf, switch, handler, interrupted, dogs, events, regions>>
      BY <2>9 DEF WallClock, ctrlv, procv, resv
    <3> QED BY <2>0, <3>1, OutsideKeeps
  <2>10. ASSUME NEW n \in Sessions, Watchdog(n) PROVE AuroraInv'
    <3>1. /\ Kill({pidOf[n]}, "watchdog") /\ dogs' = dogs \ {n}
          /\ UNCHANGED <<host, s, pc, pidOf, switch, handler, interrupted, wall, events, regions>>
      BY <2>10 DEF Watchdog, ctrlv, resv
    <3> QED BY <2>0, <3>1, KillKeepsOwners, OutsideKeeps
  <2>11. CASE HostExit \/ CtrlC \/ CtrlCInAxe
    <3>1. /\ \/ \E ps, cause : Kill(ps, cause)
             \/ proc' = proc
          /\ host = "up" /\ host' \in {"up", "exited"} /\ interrupted' \in BOOLEAN /\ dogs' \subseteq dogs
          /\ UNCHANGED <<s, pc, pidOf, switch, handler, wall, events, regions>>
      BY <2>0, <2>11 DEF HostExit, CtrlC, CtrlCInAxe, ctrlv, procv, resv
    <3>2. /\ proc' \in [Pids -> ProcState]
          /\ \A p \in Pids : /\ proc'[p].owner = proc[p].owner
                             /\ proc[p].state # "free" => proc'[p].state # "free"
      BY <2>0, <3>1, KillKeepsOwners
    <3> QED BY <2>0, <3>1, <3>2, OutsideKeeps
  <2>12. ASSUME NEW p \in Pids, ProcessExits(p) PROVE AuroraInv'
    <3>1. /\ Kill({p}, "itself")
          /\ UNCHANGED <<host, s, pc, pidOf, switch, handler, interrupted, dogs, wall, events, regions>>
      BY <2>12 DEF ProcessExits, ctrlv, budgv, resv
    <3> QED BY <2>0, <3>1, KillKeepsOwners, OutsideKeeps
  <2>13. ASSUME NEW p \in Pids, ReleasePid(p) \/ OtherStarts(p) PROVE AuroraInv'
    <3>1. UNCHANGED <<host, s, pc, pidOf, switch, handler, interrupted, dogs, wall, events, regions>>
      BY <2>13 DEF ReleasePid, OtherStarts, ctrlv, budgv, resv
    <3>2. PICK r \in ProcState : proc' = [proc EXCEPT ![p] = r]
      <4>1. Free \in ProcState /\ [state |-> "running", owner |-> Other, debugged |-> FALSE] \in ProcState
        BY AuroraAssumption DEF Free, Other, ProcState
      <4> QED BY <2>13, <4>1 DEF ReleasePid, OtherStarts
    <3>3. pc # "idle" /\ host = "up" => p # pidOf[s]
      BY <2>13 DEF ReleasePid, OtherStarts, HandleOpen, Pid, AuroraInv, HandleKeepsPid
    <3>4. TypeOK'
      BY <2>0, <3>1, <3>2 DEF TypeOK, ProcState
    <3>5. HandleKeepsPid'
      BY <2>0, <3>1, <3>2, <3>3 DEF AuroraInv, HandleKeepsPid
    <3>6. SwitchIsCurrent' /\ EventsWithinCap'
      BY <3>1 DEF AuroraInv, SwitchIsCurrent, EventsWithinCap
    <3> QED BY <3>4, <3>5, <3>6 DEF AuroraInv
  <2>14. CASE UNCHANGED vars
    BY <2>0, <2>14, OutsideKeeps DEF vars, ctrlv
  <2> QED BY <2>1, <2>2, <2>3, <2>4, <2>5, <2>6, <2>7, <2>8, <2>9, <2>10, <2>11, <2>12, <2>13, <2>14
      DEF Next, SessionStep, Environment
<1> QED BY <1>1, <1>2, AuroraInvImplies, PTL DEF Spec

-----------------------------------------------------------------------------
(* Breakpoints *)

\* What is held has the bytes of the code, and no other than the target's but in
\* the two cases of the property.
SoftInv ==
    /\ code \in [CodeVas -> Bytes \cup {Int3}] /\ target \in [CodeVas -> Bytes]
    /\ \A b \in soft : b.address \in CodeVas /\ b.original \in Bytes \cup {Int3}
    /\ CodeIsTargets

\* The byte a breakpoint takes is the target's: no other one is held at its address.
LEMMA SoftInstallKeeps ==
    ASSUME SoftInv, NEW a \in CodeVas, SoftInstall(a) PROVE SoftInv'
<1> USE DEF SoftInv, CodeIsTargets, SoftInstall, Held
<1>1. code' \in [CodeVas -> Bytes \cup {Int3}] /\ target' \in [CodeVas -> Bytes]
  OBVIOUS
<1>2. CASE /\ soft' = soft \cup {[address |-> a, original |-> code[a]]}
           /\ UNCHANGED unrecorded
  <2>1. \A b \in soft' : b.address \in CodeVas /\ b.original \in Bytes \cup {Int3}
    BY <1>2
  <2>2. ASSUME NEW c \in CodeVas, c \notin unrecorded' \cup patched'
        PROVE  /\ ~Held(c)' => code'[c] = target'[c]
               /\ \A b \in soft' : b.address = c => b.original = target'[c]
    <3>1. CASE c = a
      <4> DEFINE b == [address |-> a, original |-> code[a]]
      <4>1. code[a] = target[a] /\ target' = target /\ \A d \in soft : d.address # a
        BY <1>2, <2>2, <3>1
      <4>2. b \in soft' /\ b.address = a /\ b.original = target[a]
        BY <1>2, <4>1
      <4>3. \A d \in soft' : d \in soft \/ d = b
        BY <1>2
      <4> HIDE DEF b
      <4> QED BY <3>1, <4>1, <4>2, <4>3
    <3>2. CASE c # a
      BY <1>2, <2>2, <3>2
    <3> QED BY <3>1, <3>2
  <2> QED BY <1>1, <2>1, <2>2
<1>3. CASE unrecorded' = unrecorded \cup {a} /\ UNCHANGED soft
  BY <1>1, <1>3
<1> QED BY <1>2, <1>3

LEMMA SoftRestoreKeeps ==
    ASSUME SoftInv, NEW b \in soft, SoftRestore(b) PROVE SoftInv'
<1> USE DEF SoftInv, CodeIsTargets, SoftRestore, Held
<1>1. code' \in [CodeVas -> Bytes \cup {Int3}] /\ target' \in [CodeVas -> Bytes]
  OBVIOUS
<1>2. \A c \in soft' : c.address \in CodeVas /\ c.original \in Bytes \cup {Int3}
  OBVIOUS
<1>3. ASSUME NEW c \in CodeVas, c \notin unrecorded' \cup patched'
      PROVE  /\ ~Held(c)' => code'[c] = target'[c]
             /\ \A d \in soft' : d.address = c => d.original = target'[c]
  <2>1. CASE c = b.address
    BY <1>3, <2>1
  <2>2. CASE c # b.address
    BY <1>3, <2>2
  <2> QED BY <2>1, <2>2
<1> QED BY <1>1, <1>2, <1>3

LEMMA TargetWritesKeeps ==
    ASSUME SoftInv, NEW a \in CodeVas, NEW v \in Bytes, TargetWrites(a, v) PROVE SoftInv'
<1> USE DEF SoftInv, CodeIsTargets, TargetWrites, Held
<1>1. code' \in [CodeVas -> Bytes \cup {Int3}] /\ target' \in [CodeVas -> Bytes] /\ soft' = soft
  OBVIOUS
<1>2. ASSUME NEW c \in CodeVas, c \notin unrecorded' \cup patched'
      PROVE  /\ ~Held(c)' => code'[c] = target'[c]
             /\ \A d \in soft' : d.address = c => d.original = target'[c]
  <2>1. CASE c = a
    BY <1>2, <2>1
  <2>2. CASE c # a
    BY <1>2, <2>2
  <2> QED BY <2>1, <2>2
<1> QED BY <1>1, <1>2

LEMMA SoftStepKeeps == SoftInv /\ BpSoftStep => SoftInv'
  BY SoftInstallKeeps, SoftRestoreKeeps, TargetWritesKeeps DEF BpSoftStep

-----------------------------------------------------------------------------
(* Debug registers *)

Threads == [dr : [HwSlots -> {0, 1}], dr7 : SUBSET (0..31), tf : BOOLEAN, rip : {0, 1}, suspended : Nat]

\* While a call is in progress it holds a suspension of its own, beside those of the
\* calls that could not take theirs back, and the context it has read is the thread's.
HwInv ==
    /\ thread \in Threads
    /\ hw \in [HwSlots -> [kind : HwKinds, size : HwSizes] \cup {Absent}]
    /\ control = [tf |-> thread.tf, rip |-> thread.rip]
    /\ stuck \in Nat
    /\ \/ call = NoCall /\ thread.suspended = stuck
       \/ call.stage \in {"suspended", "read", "set"} /\ call.op \in HwOps /\ thread.suspended = stuck + 1
    /\ call.stage = "read" => call.ctx = thread
    /\ Dr7MatchesSlots

\* The end of a call, which takes back its suspension or fails to.
LEMMA EndCallKeeps ==
    ASSUME HwInv, call # NoCall, EndCall, UNCHANGED <<hw, control>> PROVE HwInv'
<1> USE DEF HwInv, EndCall, NoCall
<1>1. thread \in Threads /\ stuck \in Nat /\ thread.suspended = stuck + 1 /\ call' = NoCall
  OBVIOUS
<1>2. CASE thread' = [thread EXCEPT !.suspended = @ - 1] /\ UNCHANGED stuck
  <2>1. thread' = [thread EXCEPT !.suspended = stuck]
    BY <1>1, <1>2 DEF Threads
  <2>2. thread' \in Threads /\ thread'.suspended = stuck' /\ thread'.tf = thread.tf /\ thread'.rip = thread.rip
        /\ thread'.dr7 = thread.dr7 /\ thread'.dr = thread.dr
    BY <1>1, <1>2, <2>1 DEF Threads
  <2> QED BY <1>1, <1>2, <2>2 DEF Dr7MatchesSlots
<1>3. CASE stuck' = stuck + 1 /\ UNCHANGED thread
  BY <1>1, <1>3 DEF Dr7MatchesSlots
<1> QED BY <1>2, <1>3

LEMMA GetContextKeeps == HwInv /\ GetContext => HwInv'
<1> SUFFICES ASSUME HwInv, GetContext PROVE HwInv'
  OBVIOUS
<1>1. call # NoCall /\ call.op \in HwOps /\ thread.suspended = stuck + 1
  BY DEF HwInv, GetContext, NoCall
<1>2. CASE call' = [stage |-> "read", op |-> call.op, ctx |-> thread] /\ UNCHANGED <<thread, stuck>>
  BY <1>1, <1>2 DEF HwInv, GetContext, Dr7MatchesSlots
<1>3. CASE EndCall
  BY <1>1, <1>3, EndCallKeeps DEF GetContext
<1> QED BY <1>2, <1>3 DEF GetContext

\* The bits of a slot.
BitsOf(i) == {LocalEnable(i), GlobalEnable(i)} \cup Field(RwShift(i)) \cup Field(LenShift(i))

\* The bits of two slots in DR7 do not overlap.
LEMMA SlotsAreApart ==
    ASSUME NEW i \in 0..3, NEW j \in 0..3, i # j PROVE BitsOf(i) \cap BitsOf(j) = {}
  BY DEF BitsOf, LocalEnable, GlobalEnable, Field, RwShift, LenShift

\* The bits new are dr7 with a breakpoint in slot i.
SlotEnabled(new, dr7, i, kind, size) ==
    /\ new \subseteq 0..31 /\ new \ BitsOf(i) = dr7 \ BitsOf(i)
    /\ LocalEnable(i) \in new /\ (GlobalEnable(i) \in new <=> GlobalEnable(i) \in dr7)
    /\ new \cap Field(RwShift(i)) = Placed(RwShift(i), RwBits(kind))
    /\ new \cap Field(LenShift(i)) = Placed(LenShift(i), LenBits(size))

LEMMA EnableSlot ==
    ASSUME NEW dr7 \in SUBSET (0..31), NEW i \in 0..3, NEW kind \in HwKinds, NEW size \in {1, 2, 4, 8}
    PROVE  SlotEnabled(Dr7EnableSlot(dr7, i, kind, size), dr7, i, kind, size)
<1> DEFINE rw == RwBits(kind)
           ln == LenBits(size)
           new == Dr7EnableSlot(dr7, i, kind, size)
           old7 == dr7 \cup {LocalEnable(i)}
           typed == (old7 \ Field(RwShift(i))) \cup Placed(RwShift(i), rw)
<1>1. rw \subseteq {0, 1} /\ ln \subseteq {0, 1}
  BY DEF HwKinds, RwBits, LenBits
<1>2. new = (typed \ Field(LenShift(i))) \cup Placed(LenShift(i), ln)
  BY DEF Dr7EnableSlot
<1> HIDE DEF rw, ln, new
<1>3. Placed(RwShift(i), rw) \subseteq Field(RwShift(i)) /\ Placed(LenShift(i), ln) \subseteq Field(LenShift(i))
  BY <1>1 DEF Placed, Field, RwShift, LenShift
<1>4. /\ LocalEnable(i) \in 0..7 /\ GlobalEnable(i) \in 0..7 /\ LocalEnable(i) # GlobalEnable(i)
      /\ Field(RwShift(i)) \subseteq 16..31 /\ Field(LenShift(i)) \subseteq 16..31
      /\ Field(RwShift(i)) \cap Field(LenShift(i)) = {}
  BY DEF LocalEnable, GlobalEnable, Field, RwShift, LenShift
<1>5. \A b \in 0..7 : b \notin 16..31
  OBVIOUS
<1>6. 16..31 \subseteq 0..31 /\ 0..7 \subseteq 0..31
  OBVIOUS
<1>7. new \subseteq 0..31 /\ new \ BitsOf(i) = dr7 \ BitsOf(i)
  BY <1>2, <1>3, <1>4, <1>6 DEF BitsOf
<1>8. LocalEnable(i) \in new /\ (GlobalEnable(i) \in new <=> GlobalEnable(i) \in dr7)
  BY <1>2, <1>3, <1>4, <1>5
<1>9. new \cap Field(RwShift(i)) = Placed(RwShift(i), rw) /\ new \cap Field(LenShift(i)) = Placed(LenShift(i), ln)
  BY <1>2, <1>3, <1>4
<1> QED BY <1>7, <1>8, <1>9 DEF rw, ln, new, SlotEnabled

LEMMA DisableSlot ==
    ASSUME NEW dr7 \in SUBSET (0..31), NEW i \in 0..3
    PROVE  Dr7DisableSlot(dr7, i) = dr7 \ BitsOf(i)
  BY DEF Dr7DisableSlot, BitsOf

\* What the properties say of one slot.
SlotMatches(dr, dr7, h, i) ==
    /\ (LocalEnable(i) \in dr7) = (h # Absent) /\ GlobalEnable(i) \notin dr7
    /\ h # Absent => /\ dr7 \cap Field(RwShift(i)) = Placed(RwShift(i), RwBits(h.kind))
                     /\ dr7 \cap Field(LenShift(i)) = Placed(LenShift(i), LenBits(h.size))
                     /\ dr[i] # 0

LEMMA MatchesSlotwise == Dr7MatchesSlots <=> \A i \in HwSlots : SlotMatches(thread.dr, thread.dr7, hw[i], i)
  BY DEF Dr7MatchesSlots, SlotMatches

\* A slot is matched or not by its own bits alone.
LEMMA OtherSlots ==
    ASSUME NEW i \in 0..3, NEW j \in 0..3, i # j, NEW dr, NEW new_dr, NEW dr7, NEW new7, NEW h,
           SlotMatches(dr, dr7, h, i), new_dr[i] = dr[i], new7 \ BitsOf(j) = dr7 \ BitsOf(j)
    PROVE  SlotMatches(new_dr, new7, h, i)
<1>1. \A b \in BitsOf(i) : b \in new7 <=> b \in dr7
  BY SlotsAreApart
<1>2. /\ LocalEnable(i) \in BitsOf(i) /\ GlobalEnable(i) \in BitsOf(i)
      /\ Field(RwShift(i)) \subseteq BitsOf(i) /\ Field(LenShift(i)) \subseteq BitsOf(i)
  BY DEF BitsOf
<1>3. new7 \cap Field(RwShift(i)) = dr7 \cap Field(RwShift(i)) /\ new7 \cap Field(LenShift(i)) = dr7 \cap Field(LenShift(i))
  BY <1>1, <1>2
<1> QED BY <1>1, <1>2, <1>3 DEF SlotMatches

LEMMA SetContextKeeps == HwInv /\ SetContext => HwInv'
<1> SUFFICES ASSUME HwInv, SetContext PROVE HwInv'
  OBVIOUS
<1> DEFINE op == call.op
           new == Change(op, thread)
<1>1. op \in HwOps /\ thread.suspended = stuck + 1 /\ stuck' = stuck /\ stuck \in Nat /\ call.ctx = thread
  BY DEF HwInv, SetContext, NoCall
<1>2. thread \in Threads /\ HwSlots \subseteq 0..3 /\ HwSizes \subseteq {1, 2, 4, 8}
  BY BreakpointAssumption DEF HwInv
<1>3. call' = [stage |-> "set", op |-> op]
  BY DEF SetContext
<1>4. CASE op.do \in {"set_tf", "clear_tf"}
  <2>1. thread' = [thread EXCEPT !.tf = (op.do = "set_tf")] /\ hw' = hw /\ control' = [control EXCEPT !.tf = (op.do = "set_tf")]
    BY <1>1, <1>2, <1>4 DEF SetContext, Change, Threads
  <2>2. thread' \in Threads /\ thread'.dr = thread.dr /\ thread'.dr7 = thread.dr7 /\ thread'.suspended = stuck + 1
        /\ thread'.tf = (op.do = "set_tf") /\ thread'.rip = thread.rip
    BY <1>1, <1>2, <2>1 DEF Threads
  <2>3. control' = [tf |-> thread'.tf, rip |-> thread'.rip]
    BY <2>1, <2>2 DEF HwInv
  <2> QED BY <1>1, <1>3, <2>1, <2>2, <2>3 DEF HwInv, Dr7MatchesSlots
<1>5. CASE op.do \in {"install", "clear"}
  <2> DEFINE i == op.slot
  <2>1. i \in HwSlots /\ i \in 0..3
    BY <1>1, <1>2, <1>5 DEF HwOps
  <2>2. /\ thread' = [thread EXCEPT !.dr = new.dr, !.dr7 = new.dr7] /\ control' = control
        /\ hw' = IF op.do = "install" THEN [hw EXCEPT ![i] = [kind |-> op.kind, size |-> op.size]] ELSE [hw EXCEPT ![i] = Absent]
    BY <1>1, <1>5 DEF SetContext
  <2>3. \A j \in HwSlots : j # i => SlotMatches(thread.dr, thread.dr7, hw[j], j)
    BY MatchesSlotwise DEF HwInv
  <2>4. CASE op.do = "install"
    <3>1. op.kind \in HwKinds /\ op.size \in HwSizes
      BY <1>1, <2>4 DEF HwOps
    <3>2. new = [thread EXCEPT !.dr[i] = 1, !.dr7 = Dr7EnableSlot(thread.dr7, i, op.kind, op.size)]
      BY <2>4 DEF Change
    <3> DEFINE seven == Dr7EnableSlot(thread.dr7, i, op.kind, op.size)
    <3>3. /\ seven \subseteq 0..31 /\ seven \ BitsOf(i) = thread.dr7 \ BitsOf(i)
          /\ LocalEnable(i) \in seven /\ (GlobalEnable(i) \in seven <=> GlobalEnable(i) \in thread.dr7)
          /\ seven \cap Field(RwShift(i)) = Placed(RwShift(i), RwBits(op.kind))
          /\ seven \cap Field(LenShift(i)) = Placed(LenShift(i), LenBits(op.size))
      <4>1. thread.dr7 \in SUBSET (0..31) /\ op.size \in {1, 2, 4, 8}
        BY <1>2, <3>1 DEF Threads
      <4>2. SlotEnabled(seven, thread.dr7, i, op.kind, op.size)
        <5> HIDE DEF i, op, new
        <5> QED BY <2>1, <3>1, <4>1, EnableSlot, Zenon
      <4> HIDE DEF i, op, new, seven
      <4> QED BY <4>2 DEF SlotEnabled
    <3> HIDE DEF seven, new
    <3>4. new.dr = [thread.dr EXCEPT ![i] = 1] /\ new.dr7 = seven
      BY <1>2, <3>2 DEF Threads, seven
    <3>5. thread' \in Threads /\ thread'.dr = [thread.dr EXCEPT ![i] = 1] /\ thread'.dr7 = seven
          /\ thread'.tf = thread.tf /\ thread'.rip = thread.rip /\ thread'.suspended = stuck + 1
      BY <1>1, <1>2, <2>2, <3>3, <3>4 DEF Threads
    <3>6. hw' = [hw EXCEPT ![i] = [kind |-> op.kind, size |-> op.size]]
      BY <2>2, <2>4
    <3>7. hw' \in [HwSlots -> [kind : HwKinds, size : HwSizes] \cup {Absent}]
      BY <3>1, <3>6 DEF HwInv
    <3>8. \A j \in HwSlots : SlotMatches(thread'.dr, thread'.dr7, hw'[j], j)
      <4> SUFFICES ASSUME NEW j \in HwSlots PROVE SlotMatches(thread'.dr, thread'.dr7, hw'[j], j)
        OBVIOUS
      <4> HIDE DEF i, op
      <4>0. i \in DOMAIN hw /\ j \in DOMAIN hw /\ j \in 0..3 /\ j \in DOMAIN thread.dr /\ i \in DOMAIN thread.dr
        BY <1>2, <2>1 DEF HwInv, Threads
      <4>1. CASE j = i
        <5>1. hw'[i] = [kind |-> op.kind, size |-> op.size] /\ thread'.dr[i] = 1
          BY <3>5, <3>6, <4>0
        <5>2. hw'[i] # Absent
          BY <3>1, <5>1 DEF Absent, HwKinds
        <5>3. GlobalEnable(i) \notin thread.dr7
          BY <2>1 DEF HwInv, Dr7MatchesSlots
        <5> QED BY <3>3, <3>5, <4>1, <5>1, <5>2, <5>3 DEF SlotMatches
      <4>2. CASE j # i
        <5>1. hw'[j] = hw[j] /\ thread'.dr[j] = thread.dr[j]
          BY <3>5, <3>6, <4>0, <4>2
        <5>2. thread'.dr7 \ BitsOf(i) = thread.dr7 \ BitsOf(i)
          BY <3>3, <3>5
        <5>3. SlotMatches(thread.dr, thread.dr7, hw[j], j)
          BY <2>3, <4>2
        <5>4. SlotMatches(thread'.dr, thread'.dr7, hw[j], j)
          BY <2>1, <4>0, <4>2, <5>1, <5>2, <5>3, OtherSlots
        <5> QED BY <5>1, <5>4
      <4> QED BY <4>1, <4>2
    <3>9. Dr7MatchesSlots'
      BY <3>8 DEF Dr7MatchesSlots, SlotMatches
    <3> QED BY <1>1, <1>3, <2>2, <3>5, <3>7, <3>9 DEF HwInv
  <2>5. CASE op.do = "clear"
    <3>2. new = [thread EXCEPT !.dr[i] = 0, !.dr7 = Dr7DisableSlot(thread.dr7, i)]
      BY <2>5 DEF Change
    <3> DEFINE seven == thread.dr7 \ BitsOf(i)
    <3>3. Dr7DisableSlot(thread.dr7, i) = seven
      <4>1. thread.dr7 \in SUBSET (0..31)
        BY <1>2 DEF Threads
      <4> QED BY <2>1, <4>1, DisableSlot
    <3> HIDE DEF new
    <3>4. new.dr = [thread.dr EXCEPT ![i] = 0] /\ new.dr7 = seven
      BY <1>2, <3>2, <3>3 DEF Threads
    <3>5. thread' \in Threads /\ thread'.dr = [thread.dr EXCEPT ![i] = 0] /\ thread'.dr7 = seven
          /\ thread'.tf = thread.tf /\ thread'.rip = thread.rip /\ thread'.suspended = stuck + 1
      BY <1>1, <1>2, <2>2, <3>4 DEF Threads
    <3>6. hw' = [hw EXCEPT ![i] = Absent]
      BY <2>2, <2>5
    <3>7. hw' \in [HwSlots -> [kind : HwKinds, size : HwSizes] \cup {Absent}]
      BY <3>6 DEF HwInv
    <3>8. \A j \in HwSlots : SlotMatches(thread'.dr, thread'.dr7, hw'[j], j)
      <4> SUFFICES ASSUME NEW j \in HwSlots PROVE SlotMatches(thread'.dr, thread'.dr7, hw'[j], j)
        OBVIOUS
      <4> HIDE DEF i, op
      <4>0. i \in DOMAIN hw /\ j \in DOMAIN hw /\ j \in 0..3 /\ j \in DOMAIN thread.dr /\ i \in DOMAIN thread.dr
        BY <1>2, <2>1 DEF HwInv, Threads
      <4>1. CASE j = i
        <5>1. hw'[i] = Absent
          BY <3>6, <4>0
        <5> QED BY <3>5, <4>1, <5>1 DEF SlotMatches, BitsOf
      <4>2. CASE j # i
        <5>1. hw'[j] = hw[j] /\ thread'.dr[j] = thread.dr[j]
          BY <3>5, <3>6, <4>0, <4>2
        <5>2. thread'.dr7 \ BitsOf(i) = thread.dr7 \ BitsOf(i)
          BY <3>5
        <5>3. SlotMatches(thread.dr, thread.dr7, hw[j], j)
          BY <2>3, <4>2
        <5>4. SlotMatches(thread'.dr, thread'.dr7, hw[j], j)
          BY <2>1, <4>0, <4>2, <5>1, <5>2, <5>3, OtherSlots
        <5> QED BY <5>1, <5>4
      <4> QED BY <4>1, <4>2
    <3>9. Dr7MatchesSlots'
      BY <3>8 DEF Dr7MatchesSlots, SlotMatches
    <3> QED BY <1>1, <1>3, <2>2, <3>5, <3>7, <3>9 DEF HwInv
  <2> QED BY <1>5, <2>4, <2>5
<1> QED BY <1>1, <1>4, <1>5 DEF HwOps

LEMMA HwStepKeeps == HwInv /\ BpHwStep => HwInv'
<1> SUFFICES ASSUME HwInv, BpHwStep PROVE HwInv'
  OBVIOUS
<1>1. ASSUME NEW op \in HwOps, Suspend(op) PROVE HwInv'
  <2>1. thread' = [thread EXCEPT !.suspended = stuck + 1] /\ stuck' = stuck /\ stuck \in Nat
    BY <1>1 DEF HwInv, Suspend, Threads, NoCall
  <2>2. thread' \in Threads /\ thread'.suspended = stuck + 1 /\ thread'.tf = thread.tf /\ thread'.rip = thread.rip
        /\ thread'.dr7 = thread.dr7 /\ thread'.dr = thread.dr
    BY <2>1 DEF HwInv, Threads
  <2> QED BY <1>1, <2>2 DEF HwInv, Suspend, Dr7MatchesSlots
<1>2. ASSUME SetContextFails PROVE HwInv'
  BY <1>2 DEF HwInv, SetContextFails, Dr7MatchesSlots, NoCall
<1>3. ASSUME ResumeThread PROVE HwInv'
  BY <1>3, EndCallKeeps DEF ResumeThread, NoCall
<1>4. ASSUME TargetRuns PROVE HwInv'
  <2>1. PICK f \in BOOLEAN : thread' = [thread EXCEPT !.rip = 1 - @, !.tf = f] /\ control' = [tf |-> f, rip |-> 1 - control.rip]
    BY <1>4 DEF TargetRuns
  <2>0. thread \in Threads /\ thread.suspended = 0 /\ 1 - thread.rip \in {0, 1}
    BY <1>4 DEF HwInv, Threads, TargetRuns
  <2>2. thread' \in Threads /\ thread'.suspended = 0 /\ thread'.tf = f /\ thread'.rip = 1 - thread.rip
        /\ thread'.dr7 = thread.dr7 /\ thread'.dr = thread.dr
    <3>1. thread' = [dr |-> thread.dr, dr7 |-> thread.dr7, tf |-> f, rip |-> 1 - thread.rip, suspended |-> thread.suspended]
      BY <2>0, <2>1 DEF Threads
    <3> QED BY <2>0, <3>1 DEF Threads
  <2>3. call = NoCall /\ stuck = 0
    BY <1>4 DEF HwInv, TargetRuns
  <2> QED BY <1>4, <2>1, <2>2, <2>3 DEF HwInv, TargetRuns, Dr7MatchesSlots, NoCall
<1> QED BY <1>1, <1>2, <1>3, <1>4, GetContextKeeps, SetContextKeeps DEF BpHwStep

-----------------------------------------------------------------------------
(* Guard pages *)

Protects == [base : Rights, guard : BOOLEAN]

\* What a page has or would get back is what the target wants, unless the target
\* changed it meanwhile.
PageInv(p) ==
    p \notin outdated =>
        /\ protect[p].base = wanted[p]
        /\ asked[p] # None => asked[p].base = wanted[p]
        /\ old[p] # None => old[p].base = wanted[p]

GuardInv ==
    /\ wanted \in [Pages -> Rights]
    /\ protect \in [Pages -> Protects]
    /\ old \in [Pages -> Protects \cup {None}] /\ asked \in [Pages -> Protects \cup {None}]
    /\ entries \in Seq([access : Accesses, page : Pages]) /\ seen \in Seq([access : Accesses, page : Pages])
    /\ dropped \in Nat
    /\ LogIsNewest /\ \A p \in Pages : PageInv(p)

\* Appending to the end of a sequence is appending to its last part.
LEMMA AppendToEnd ==
    ASSUME NEW S, NEW all \in Seq(S), NEW e \in S, NEW k \in 1..(Len(all) + 1)
    PROVE  Append(SubSeq(all, k, Len(all)), e) = SubSeq(Append(all, e), k, Len(all) + 1)
<1> DEFINE len == Len(all)
           new == Append(all, e)
           part == SubSeq(all, k, len)
           end == SubSeq(new, k, len + 1)
<1>1. len \in Nat /\ k \in Nat /\ k >= 1 /\ k <= len + 1
  BY LenProperties
<1>2. /\ new \in Seq(S) /\ Len(new) = len + 1
      /\ \A i \in 1..len : new[i] = all[i]
      /\ new[len + 1] = e
  BY AppendProperties
<1>3. \A i \in k..len : all[i] \in S
  BY <1>1, ElementOfSeq
<1>4. \A i \in k..(len + 1) : new[i] \in S
  BY <1>1, <1>2, ElementOfSeq
<1> HIDE DEF len, new
<1>5. part \in Seq(S) /\ Len(part) = len - k + 1 /\ \A i \in 1..(len - k + 1) : part[i] = all[k + i - 1]
  <2>1. k \in Int /\ len \in Int
    BY <1>1
  <2>2. Len(part) = IF k <= len THEN len - k + 1 ELSE 0
    BY <1>3, <2>1, SubSeqProperties
  <2> QED BY <1>1, <1>3, <2>1, <2>2, SubSeqProperties
<1>6. end \in Seq(S) /\ Len(end) = len - k + 2 /\ \A i \in 1..(len - k + 2) : end[i] = new[k + i - 1]
  <2>1. k \in Int /\ len + 1 \in Int /\ k <= len + 1
    BY <1>1
  <2>2. end \in Seq(S) /\ Len(end) = (len + 1) - k + 1 /\ \A i \in 1..((len + 1) - k + 1) : end[i] = new[k + i - 1]
    BY <1>4, <2>1, SubSeqProperties
  <2> QED BY <1>1, <2>2
<1> HIDE DEF part, end
<1>7. /\ Append(part, e) \in Seq(S) /\ Len(Append(part, e)) = len - k + 2
      /\ \A i \in 1..(len - k + 1) : Append(part, e)[i] = part[i]
      /\ Append(part, e)[len - k + 2] = e
  <2>1. /\ Append(part, e) \in Seq(S) /\ Len(Append(part, e)) = Len(part) + 1
        /\ \A i \in 1..Len(part) : Append(part, e)[i] = part[i]
        /\ Append(part, e)[Len(part) + 1] = e
    <3>1. part \in Seq(S)
      BY <1>5
    <3> QED BY <3>1, AppendProperties
  <2>2. Len(part) + 1 = len - k + 2
    BY <1>1, <1>5
  <2> QED BY <1>5, <2>1, <2>2
<1>8. ASSUME NEW i \in 1..(len - k + 2) PROVE Append(part, e)[i] = end[i]
  <2>1. CASE i = len - k + 2
    <3>1. k + i - 1 = len + 1
      BY <1>1, <2>1
    <3> QED BY <1>2, <1>6, <1>7, <2>1, <3>1
  <2>2. CASE i # len - k + 2
    <3>1. i \in 1..(len - k + 1) /\ k + i - 1 \in 1..len
      BY <1>1, <2>2
    <3>2. Append(part, e)[i] = all[k + i - 1]
      BY <1>5, <1>7, <3>1
    <3>3. end[i] = new[k + i - 1]
      BY <1>6
    <3> QED BY <1>2, <3>1, <3>2, <3>3
  <2> QED BY <2>1, <2>2
<1>9. Append(part, e) = end
  BY <1>6, <1>7, <1>8, SeqEqual
<1> QED BY <1>9 DEF part, end, new, len

\* LogIsNewest, of any log; and the count after one more entry.
IsNewest(log, all, n) == n + Len(log) = Len(all) /\ log = SubSeq(all, n + 1, Len(all))
Counted(log, n) == n + (IF Len(log) >= LogCap THEN 1 ELSE 0)

\* A full log makes room for one more, and still holds the newest.
LEMMA RoomIsMade ==
    ASSUME NEW S, NEW all \in Seq(S), NEW log \in Seq(S), NEW n \in Nat, IsNewest(log, all, n), Len(log) >= LogCap
    PROVE  Tail(log) \in Seq(S) /\ IsNewest(Tail(log), all, n + 1) /\ n + 1 <= Len(all)
<1>1. LogCap \in Nat \ {0} /\ Len(log) \in Nat /\ Len(all) \in Nat
  BY GuardAssumption, LenProperties
<1>2. log # <<>>
  BY <1>1, EmptySeq
<1>3. Tail(log) \in Seq(S) /\ Len(Tail(log)) = Len(log) - 1
  BY <1>2, HeadTailProperties
<1>4. n + Len(log) = Len(all) /\ log = SubSeq(all, n + 1, Len(all))
  BY DEF IsNewest
<1>5. n + 1 \in 1..Len(all) /\ Len(all) \in (n + 1)..Len(all)
  <2>1. n + Len(log) = Len(all)
    BY <1>4
  <2> QED BY <1>1, <2>1
<1>6. Tail(SubSeq(all, n + 1, Len(all))) = SubSeq(all, (n + 1) + 1, Len(all))
  BY <1>5, HeadTailOfSubSeq
<1>7. n + 1 + Len(Tail(log)) = Len(all) /\ n + 1 <= Len(all)
  <2>1. n + Len(log) = Len(all)
    BY <1>4
  <2> QED BY <1>1, <1>3, <2>1
<1> QED BY <1>3, <1>4, <1>6, <1>7 DEF IsNewest

\* Whatever has been kept, the entry is the newest.
LEMMA AppendIsNewest ==
    ASSUME NEW S, NEW all \in Seq(S), NEW kept \in Seq(S), NEW m \in Nat, NEW e \in S, IsNewest(kept, all, m)
    PROVE  IsNewest(Append(kept, e), Append(all, e), m)
<1>1. Len(kept) \in Nat /\ Len(all) \in Nat
  BY LenProperties
<1>2. Len(Append(kept, e)) = Len(kept) + 1 /\ Len(Append(all, e)) = Len(all) + 1
  BY AppendProperties
<1>3. m + Len(kept) = Len(all) /\ kept = SubSeq(all, m + 1, Len(all))
  BY DEF IsNewest
<1>4. m + 1 \in 1..(Len(all) + 1) /\ m + Len(Append(kept, e)) = Len(Append(all, e))
  <2>1. m + Len(kept) = Len(all)
    BY <1>3
  <2> QED BY <1>1, <1>2, <2>1
<1>5. Append(SubSeq(all, m + 1, Len(all)), e) = SubSeq(Append(all, e), m + 1, Len(all) + 1)
  BY <1>4, AppendToEnd
<1> QED BY <1>2, <1>3, <1>4, <1>5 DEF IsNewest

\* One more violation: the oldest entry makes room, and the count says so.
LEMMA RecordIsNewest ==
    ASSUME NEW S, NEW all \in Seq(S), NEW log \in Seq(S), NEW n \in Nat, NEW e \in S, IsNewest(log, all, n)
    PROVE  /\ Record(log, e) \in Seq(S) /\ Append(all, e) \in Seq(S) /\ Counted(log, n) \in Nat
           /\ IsNewest(Record(log, e), Append(all, e), Counted(log, n))
<1>1. CASE Len(log) >= LogCap
  <2>1. Tail(log) \in Seq(S) /\ IsNewest(Tail(log), all, n + 1) /\ n + 1 \in Nat
    BY <1>1, RoomIsMade
  <2>2. Record(log, e) = Append(Tail(log), e) /\ Counted(log, n) = n + 1
    BY <1>1 DEF Record, Counted
  <2>3. IsNewest(Append(Tail(log), e), Append(all, e), n + 1)
    BY <2>1, AppendIsNewest
  <2>4. Append(Tail(log), e) \in Seq(S)
    BY <2>1, AppendProperties
  <2> QED BY <2>1, <2>2, <2>3, <2>4, AppendProperties
<1>2. CASE ~(Len(log) >= LogCap)
  <2>2. Record(log, e) = Append(log, e) /\ Counted(log, n) = n
    BY <1>2 DEF Record, Counted
  <2>3. IsNewest(Append(log, e), Append(all, e), n)
    BY AppendIsNewest
  <2> QED BY <2>2, <2>3, AppendProperties
<1> QED BY <1>1, <1>2

LEMMA GuardStepKeeps == GuardInv /\ GuardStep => GuardInv'
<1> SUFFICES ASSUME GuardInv, GuardStep PROVE GuardInv'
  OBVIOUS
<1> USE DEF Protects
<1>1. PICK p \in Pages :
         \/ QueryProtect(p) \/ InstallGuard(p) \/ InstallGuardKnown(p) \/ RestoreProtect(p)
         \/ \E r \in Rights : TargetProtects(p, r)
         \/ \E a \in Accesses : Violation(p, a, <<>>) \/ Violation(p, a, <<a, p>>)
  BY DEF GuardStep
<1>2. CASE QueryProtect(p)
  BY <1>2 DEF GuardInv, PageInv, LogIsNewest, QueryProtect
<1>3. CASE InstallGuard(p)
  <2>1. asked[p] \in Protects
    BY <1>3 DEF GuardInv, InstallGuard
  <2> QED BY <1>3, <2>1 DEF GuardInv, PageInv, LogIsNewest, InstallGuard, Guard
<1>4. CASE InstallGuardKnown(p)
  <2>1. old[p] \in Protects
    BY <1>4 DEF GuardInv, InstallGuardKnown
  <2> QED BY <1>4, <2>1 DEF GuardInv, PageInv, LogIsNewest, InstallGuardKnown, Guard
<1>5. CASE RestoreProtect(p)
  <2>1. old[p] \in Protects
    BY <1>5 DEF GuardInv, RestoreProtect
  <2> QED BY <1>5, <2>1 DEF GuardInv, PageInv, LogIsNewest, RestoreProtect
<1>7. ASSUME NEW r \in Rights, TargetProtects(p, r) PROVE GuardInv'
  <2>1. \A q \in Pages : PageInv(q)'
    BY <1>7 DEF GuardInv, PageInv, TargetProtects
  <2> QED BY <1>7, <2>1 DEF GuardInv, LogIsNewest, TargetProtects
<1>6. ASSUME NEW a \in Accesses, NEW info, Violation(p, a, info) PROVE GuardInv'
  <2> DEFINE e == [access |-> a, page |-> p]
  <2>1. protect' \in [Pages -> Protects] /\ \A q \in Pages : PageInv(q)'
    BY <1>6 DEF GuardInv, PageInv, Violation
  <2>2. CASE ~Decode("STATUS_GUARD_PAGE_VIOLATION", info)
    BY <1>6, <2>1, <2>2 DEF GuardInv, LogIsNewest, Violation
  <2>3. CASE Decode("STATUS_GUARD_PAGE_VIOLATION", info)
    <3>1. entries' = Record(entries, e) /\ dropped' = dropped + (IF Len(entries) >= LogCap THEN 1 ELSE 0)
          /\ seen' = Append(seen, e) /\ UNCHANGED <<asked, old, wanted>>
      BY <1>6, <2>3 DEF Violation
    <3>2. e \in [access : Accesses, page : Pages]
      OBVIOUS
    <3> HIDE DEF e
    <3> DEFINE S == [access : Accesses, page : Pages]
    <3>3. seen \in Seq(S) /\ entries \in Seq(S) /\ dropped \in Nat /\ IsNewest(entries, seen, dropped)
      BY DEF GuardInv, LogIsNewest, IsNewest
    <3>4. e \in S
      BY <3>2
    <3> HIDE DEF S
    <3>5. /\ Record(entries, e) \in Seq(S) /\ Append(seen, e) \in Seq(S) /\ Counted(entries, dropped) \in Nat
          /\ IsNewest(Record(entries, e), Append(seen, e), Counted(entries, dropped))
      BY <3>3, <3>4, RecordIsNewest
    <3>6. entries' = Record(entries, e) /\ seen' = Append(seen, e) /\ dropped' = Counted(entries, dropped)
      BY <3>1 DEF Counted
    <3>7. /\ entries' \in Seq(S) /\ seen' \in Seq(S) /\ dropped' \in Nat /\ LogIsNewest'
      <4>1. LogIsNewest' <=> IsNewest(entries', seen', dropped')
        BY DEF LogIsNewest, IsNewest
      <4> QED BY <3>5, <3>6, <4>1
    <3> QED BY <2>1, <3>1, <3>7 DEF S, GuardInv
  <2> QED BY <2>2, <2>3
<1> QED BY <1>1, <1>2, <1>3, <1>4, <1>5, <1>6, <1>7

-----------------------------------------------------------------------------
(* Candidates *)

Signals == {"execute_from_newly_allocated", "entropy_drop", "function_prologue_match", "iat_call_pattern"}

OepInv ==
    /\ DOMAIN candidates \subseteq Vas /\ IsFiniteSet(DOMAIN candidates)
    /\ candidates \in [DOMAIN candidates -> [signals : SUBSET Signals, region : RegionIds]]
    /\ samples \in Seq([ts : Nat, region : RegionIds, level : Levels])
    /\ CandidatesWereExecuted

\* A strict total order on the members of a set.
TotalOrder(S, R) ==
    /\ \A a \in S : <<a, a>> \notin R
    /\ \A a, b \in S : a # b => <<a, b>> \in R \/ <<b, a>> \in R
    /\ \A a, b, c \in S : <<a, b>> \in R /\ <<b, c>> \in R => <<a, c>> \in R

Before(S, R, a) == {b \in S : <<b, a>> \in R}

LEMMA BeforeGrows ==
    ASSUME NEW S, IsFiniteSet(S), NEW R, TotalOrder(S, R), NEW a \in S, NEW b \in S, <<a, b>> \in R
    PROVE  Cardinality(Before(S, R, a)) < Cardinality(Before(S, R, b))
<1>1. Before(S, R, a) \in SUBSET S /\ Before(S, R, b) \in SUBSET S
  BY DEF Before
<1>2. IsFiniteSet(Before(S, R, a)) /\ IsFiniteSet(Before(S, R, b))
  BY <1>1, FS_Subset
<1>3. a \notin Before(S, R, a) /\ Before(S, R, a) \cup {a} \in SUBSET Before(S, R, b)
  BY DEF Before, TotalOrder
<1>4. Cardinality(Before(S, R, a) \cup {a}) = Cardinality(Before(S, R, a)) + 1
  <2>1. a \notin Before(S, R, a)
    BY <1>3
  <2> QED BY <1>2, <2>1, FS_AddElement
<1>5. Cardinality(Before(S, R, a) \cup {a}) <= Cardinality(Before(S, R, b))
  BY <1>2, <1>3, FS_Subset
<1> QED BY <1>2, <1>4, <1>5, FS_CardinalityType

\* A finite set can be put in order: a member's place is the number of those
\* before it and one, different members have different places, and so every
\* place is taken.
LEMMA OrderExists ==
    ASSUME NEW S, IsFiniteSet(S), NEW R, TotalOrder(S, R)
    PROVE  \E f \in [1..Cardinality(S) -> S] : \A i, j \in DOMAIN f : i < j => <<f[i], f[j]>> \in R
<1> DEFINE n == Cardinality(S)
           place == [a \in S |-> Cardinality(Before(S, R, a)) + 1]
<1>1. n \in Nat
  BY FS_CardinalityType
<1>2. \A a \in S : place[a] \in 1..n
  <2> SUFFICES ASSUME NEW a \in S PROVE place[a] \in 1..n
    OBVIOUS
  <2>1. IsFiniteSet(S \ {a}) /\ Cardinality(S \ {a}) = n - 1
    BY FS_RemoveElement
  <2>2. Before(S, R, a) \in SUBSET (S \ {a})
    BY DEF Before, TotalOrder
  <2>3. IsFiniteSet(Before(S, R, a)) /\ Cardinality(Before(S, R, a)) <= n - 1
    BY <2>1, <2>2, FS_Subset
  <2>4. Cardinality(Before(S, R, a)) \in Nat
    BY <2>3, FS_CardinalityType
  <2> QED BY <1>1, <2>3, <2>4
<1>3. \A a, b \in S : <<a, b>> \in R => place[a] < place[b]
  <2> SUFFICES ASSUME NEW a \in S, NEW b \in S, <<a, b>> \in R PROVE place[a] < place[b]
    OBVIOUS
  <2>1. Cardinality(Before(S, R, a)) < Cardinality(Before(S, R, b))
    BY BeforeGrows
  <2>2. place[a] \in 1..n /\ place[b] \in 1..n
    BY <1>2
  <2>3. place[a] = Cardinality(Before(S, R, a)) + 1 /\ place[b] = Cardinality(Before(S, R, b)) + 1
    OBVIOUS
  <2>4. Cardinality(Before(S, R, a)) \in Nat /\ Cardinality(Before(S, R, b)) \in Nat
    BY FS_CardinalityType, FS_Subset DEF Before
  <2> QED BY <2>1, <2>3, <2>4
<1>4. place \in [S -> 1..n]
  BY <1>2
<1> HIDE DEF place
<1>5. \A a, b \in S : a # b => place[a] # place[b]
  <2> SUFFICES ASSUME NEW a \in S, NEW b \in S, a # b PROVE place[a] # place[b]
    OBVIOUS
  <2>1. place[a] \in 1..n /\ place[b] \in 1..n
    BY <1>2
  <2>2. <<a, b>> \in R \/ <<b, a>> \in R
    BY DEF TotalOrder
  <2>3. place[a] < place[b] \/ place[b] < place[a]
    BY <1>3, <2>2
  <2> HIDE DEF n
  <2> QED BY <1>1, <2>1, <2>3
<1>6. place \in Injection(S, 1..n)
  BY <1>4, <1>5 DEF Injection, IsInjective
<1>7. IsFiniteSet(1..n) /\ Cardinality(1..n) = n
  BY <1>1, FS_Interval
<1>8. place \in Surjection(S, 1..n)
  BY <1>6, <1>7, FS_Injection
<1>9. \A k \in 1..n : \E a \in S : place[a] = k
  BY <1>8 DEF Surjection
<1> DEFINE f == [k \in 1..n |-> CHOOSE a \in S : place[a] = k]
<1>10. f \in [1..n -> S] /\ \A k \in 1..n : place[f[k]] = k
  BY <1>9
<1>11. \A i, j \in 1..n : i < j => <<f[i], f[j]>> \in R
  <2> SUFFICES ASSUME NEW i \in 1..n, NEW j \in 1..n, i < j PROVE <<f[i], f[j]>> \in R
    OBVIOUS
  <2> HIDE DEF f
  <2>1. f[i] \in S /\ f[j] \in S /\ place[f[i]] = i /\ place[f[j]] = j
    BY <1>10
  <2>2. f[i] # f[j] /\ <<f[j], f[i]>> \notin R
    BY <1>1, <1>3, <2>1
  <2> QED BY <2>1, <2>2 DEF TotalOrder
<1> HIDE DEF f
<1> QED BY <1>10, <1>11

\* The members of a finite set, ordered totally, can be listed in that order.
LEMMA InOrderIsSorted ==
    ASSUME NEW S, IsFiniteSet(S), NEW R, TotalOrder(S, R)
    PROVE  /\ InOrder(S, R) \in [1..Cardinality(S) -> S]
           /\ \A i, j \in DOMAIN InOrder(S, R) : i < j => <<InOrder(S, R)[i], InOrder(S, R)[j]>> \in R
  BY OrderExists DEF InOrder

\* What DropsOf and ScoreAll list is in order.
LEMMA DropsFromInv == OepInv => DropsGoForward
<1> SUFFICES ASSUME OepInv PROVE DropsGoForward
  OBVIOUS
<1> SUFFICES ASSUME NEW r \in RegionIds, NEW d \in DropsOf(r)
             PROVE \E i, j \in DOMAIN samples :
        /\ samples[i].region = d.region /\ samples[j].region = d.region /\ samples[j].ts = d.ts
        /\ samples[i].ts < samples[j].ts \/ (samples[i].ts = samples[j].ts /\ i < j)
        /\ samples[i].level >= HighLevel /\ samples[i].level - samples[j].level >= Delta
  BY DEF DropsGoForward, DetectDrops
<1> DEFINE own == {i \in DOMAIN samples : samples[i].region = r}
           before == {p \in own \X own :
                         \/ samples[p[1]].ts < samples[p[2]].ts
                         \/ samples[p[1]].ts = samples[p[2]].ts /\ p[1] < p[2]}
           order == InOrder(own, before)
           n == Cardinality(own)
<1>1. DOMAIN samples = 1..Len(samples) /\ Len(samples) \in Nat
  BY DEF OepInv
<1>2. own \in SUBSET DOMAIN samples /\ \A i \in own : i \in Nat /\ samples[i].ts \in Nat /\ samples[i].level \in Int
  <2>1. \A i \in DOMAIN samples : samples[i] \in [ts : Nat, region : RegionIds, level : Levels]
    <3>1. samples \in Seq([ts : Nat, region : RegionIds, level : Levels])
      BY DEF OepInv
    <3> SUFFICES ASSUME NEW i \in 1..Len(samples)
                 PROVE samples[i] \in [ts : Nat, region : RegionIds, level : Levels]
      BY <1>1
    <3> QED BY <3>1, ElementOfSeq
  <2>2. \A i \in DOMAIN samples : samples[i].ts \in Nat /\ samples[i].level \in Levels
    BY <2>1
  <2>3. own \in SUBSET DOMAIN samples
    OBVIOUS
  <2>4. Levels \subseteq Int
    BY CandidateAssumption
  <2>5. ASSUME NEW i \in DOMAIN samples PROVE i \in Nat /\ samples[i].ts \in Nat /\ samples[i].level \in Int
    <3>1. i \in Nat
      BY <1>1
    <3> QED BY <2>2, <2>4, <3>1
  <2> HIDE DEF own
  <2> QED BY <2>3, <2>5
<1>3. IsFiniteSet(own)
  <2>1. IsFiniteSet(1..Len(samples))
    BY <1>1, FS_Interval
  <2> QED BY <1>1, <1>2, <2>1, FS_Subset
<1>4. TotalOrder(own, before)
  <2>1. \A a, b \in own : <<a, b>> \in before <=>
            samples[a].ts < samples[b].ts \/ (samples[a].ts = samples[b].ts /\ a < b)
    OBVIOUS
  <2> HIDE DEF own, before
  <2> QED BY <1>2, <2>1 DEF TotalOrder
<1>5. order \in [1..n -> own] /\ \A i, j \in 1..n : i < j => <<order[i], order[j]>> \in before
  <2> HIDE DEF own, before
  <2>1. /\ order \in [1..n -> own]
        /\ \A i, j \in DOMAIN order : i < j => <<order[i], order[j]>> \in before
    BY <1>3, <1>4, InOrderIsSorted
  <2> HIDE DEF order, n
  <2> QED BY <2>1
<1>6. n \in Nat
  BY <1>3, FS_CardinalityType
<1>7. InTimeOrder(r) = [k \in 1..n |-> samples[order[k]]]
  <2>1. InTimeOrder(r) = [k \in DOMAIN order |-> samples[order[k]]]
    BY DEF InTimeOrder
  <2> HIDE DEF order, n, own, before
  <2> QED BY <1>5, <2>1
<1> DEFINE list == InTimeOrder(r)
<1>8. PICK k \in DOMAIN list :
         /\ k + 1 \in DOMAIN list /\ list[k].level >= HighLevel /\ list[k].level - list[k + 1].level >= Delta
         /\ d = [region |-> r, ts |-> list[k + 1].ts, before |-> list[k].level, after |-> list[k + 1].level]
  BY DEF DropsOf
<1> DEFINE i == order[k]
           j == order[k + 1]
<1>9. k \in 1..n /\ k + 1 \in 1..n /\ k < k + 1
  <2> HIDE DEF order, n, own, before
  <2> QED BY <1>6, <1>7, <1>8
<1>10. list[k] = samples[i] /\ list[k + 1] = samples[j]
  <2> HIDE DEF order, n, own, before
  <2> QED BY <1>7, <1>9
<1>11. i \in own /\ j \in own /\ <<i, j>> \in before
  <2> HIDE DEF order, n, own, before
  <2> QED BY <1>5, <1>9
<1>12. /\ d.region = r /\ d.ts = samples[j].ts
       /\ samples[i].level >= HighLevel /\ samples[i].level - samples[j].level >= Delta
  <2> HIDE DEF list, i, j
  <2> QED BY <1>8, <1>10
<1> HIDE DEF order, n, list, i, j
<1>13. /\ i \in DOMAIN samples /\ j \in DOMAIN samples /\ samples[i].region = r /\ samples[j].region = r
       /\ samples[i].ts < samples[j].ts \/ (samples[i].ts = samples[j].ts /\ i < j)
  BY <1>11
<1> QED BY <1>12, <1>13

\* More signals are a higher score, and a higher score comes first.
LEMMA BestFirstFromInv == OepInv => BestFirst
<1> SUFFICES ASSUME OepInv PROVE BestFirst
  OBVIOUS
<1> DEFINE vas == DOMAIN candidates
           before == {p \in vas \X vas : Score(p[1]) > Score(p[2]) \/ (Score(p[1]) = Score(p[2]) /\ p[1] < p[2])}
           order == InOrder(vas, before)
           n == Cardinality(vas)
<1>1. \A va \in vas : va \in Nat /\ IsFiniteSet(candidates[va].signals) /\ Score(va) \in Nat
  <2> SUFFICES ASSUME NEW va \in vas PROVE va \in Nat /\ IsFiniteSet(candidates[va].signals) /\ Score(va) \in Nat
    OBVIOUS
  <2>1. va \in Nat /\ candidates[va].signals \in SUBSET Signals
    BY CandidateAssumption DEF OepInv
  <2>2. IsFiniteSet(Signals)
    <3>1. IsFiniteSet({}) /\ \A S, x : IsFiniteSet(S) => IsFiniteSet(S \cup {x})
      BY FS_EmptySet, FS_AddElement
    <3>2. Signals = ((({} \cup {"execute_from_newly_allocated"}) \cup {"entropy_drop"})
                       \cup {"function_prologue_match"}) \cup {"iat_call_pattern"}
      BY DEF Signals
    <3> QED BY <3>1, <3>2
  <2>3. IsFiniteSet(candidates[va].signals)
    BY <2>1, <2>2, FS_Subset
  <2> QED BY <2>1, <2>3, FS_CardinalityType DEF Score
<1>2. IsFiniteSet(vas)
  BY DEF OepInv
<1>3. TotalOrder(vas, before)
  <2>1. \A a, b \in vas : <<a, b>> \in before <=> Score(a) > Score(b) \/ (Score(a) = Score(b) /\ a < b)
    OBVIOUS
  <2> HIDE DEF vas, before
  <2> QED BY <1>1, <2>1 DEF TotalOrder
<1>4. order \in [1..n -> vas] /\ \A i, j \in 1..n : i < j => <<order[i], order[j]>> \in before
  <2> HIDE DEF vas, before
  <2>1. /\ order \in [1..n -> vas]
        /\ \A i, j \in DOMAIN order : i < j => <<order[i], order[j]>> \in before
    BY <1>2, <1>3, InOrderIsSorted
  <2> HIDE DEF order, n
  <2> QED BY <2>1
<1>5. DOMAIN ScoreAll = 1..n /\ \A k \in 1..n : ScoreAll[k].va = order[k]
  <2>1. ScoreAll = [k \in DOMAIN order |-> [va |-> order[k], score |-> Score(order[k]), tier |-> Tier(Score(order[k]))]]
    BY DEF ScoreAll
  <2> HIDE DEF order, n, vas, before
  <2> QED BY <1>4, <2>1
<1> SUFFICES ASSUME NEW i \in 1..n, NEW j \in 1..n, i < j,
                    candidates[order[i]].signals \subseteq candidates[order[j]].signals,
                    candidates[order[i]].signals # candidates[order[j]].signals
             PROVE FALSE
  <2> HIDE DEF order, n, vas, before
  <2> QED BY <1>5 DEF BestFirst
<1> DEFINE a == order[i]
           b == order[j]
<1>6. a \in vas /\ b \in vas /\ <<a, b>> \in before
  <2> HIDE DEF order, n, vas, before
  <2> QED BY <1>4
<1>7. candidates[a].signals \in SUBSET candidates[b].signals /\ candidates[a].signals # candidates[b].signals
  OBVIOUS
<1>8. Score(a) >= Score(b)
  <2>1. Score(a) > Score(b) \/ Score(a) = Score(b)
    BY <1>6
  <2> HIDE DEF a, b, vas
  <2> QED BY <1>1, <1>6, <2>1
<1> HIDE DEF a, b, vas, before, order, n
<1>9. Score(a) <= Score(b) /\ (Score(b) = Score(a) => candidates[b].signals = candidates[a].signals)
  BY <1>1, <1>6, <1>7, FS_Subset DEF Score
<1> QED BY <1>1, <1>6, <1>7, <1>8, <1>9

LEMMA MarkKeeps ==
    ASSUME OepInv, NEW vas, NEW signal \in {"function_prologue_match", "iat_call_pattern"}, MarkAt(vas, signal),
           UNCHANGED <<allocations, samples, ran, reported>>
    PROVE  OepInv'
<1>1. DOMAIN candidates' = DOMAIN candidates
  BY DEF MarkAt
<1>2. \A va \in DOMAIN candidates :
         /\ candidates'[va] \in [signals : SUBSET Signals, region : RegionIds]
         /\ candidates'[va].region = candidates[va].region
         /\ candidates[va].signals \subseteq candidates'[va].signals
         /\ "entropy_drop" \in candidates'[va].signals => "entropy_drop" \in candidates[va].signals
  <2> SUFFICES ASSUME NEW va \in DOMAIN candidates
               PROVE  /\ candidates'[va] \in [signals : SUBSET Signals, region : RegionIds]
                      /\ candidates'[va].region = candidates[va].region
                      /\ candidates[va].signals \subseteq candidates'[va].signals
                      /\ "entropy_drop" \in candidates'[va].signals => "entropy_drop" \in candidates[va].signals
    OBVIOUS
  <2>1. candidates[va] \in [signals : SUBSET Signals, region : RegionIds] /\ signal \in Signals
    BY DEF OepInv, Signals
  <2>2. candidates'[va] = IF va \in vas THEN [candidates[va] EXCEPT !.signals = @ \cup {signal}] ELSE candidates[va]
    BY DEF MarkAt
  <2> QED BY <2>1, <2>2
<1>3. candidates' \in [DOMAIN candidates' -> [signals : SUBSET Signals, region : RegionIds]]
  BY <1>1, <1>2 DEF MarkAt
<1>4. CandidatesWereExecuted'
  BY <1>1, <1>2 DEF OepInv, CandidatesWereExecuted, InAllocation
<1> QED BY <1>1, <1>3, <1>4 DEF OepInv

LEMMA ExecutionKeeps ==
    ASSUME OepInv, NEW va \in Vas, NEW r \in RegionIds, RecordExecution(va, r) PROVE OepInv'
<1> DEFINE T == [signals : SUBSET Signals, region : RegionIds]
           one == {"execute_from_newly_allocated"}
<1>1. candidates \in [DOMAIN candidates -> T] /\ one \in SUBSET Signals /\ IsFiniteSet(DOMAIN candidates)
  BY DEF OepInv, Signals
<1>2. ran' = ran \cup {<<va, r>>} /\ UNCHANGED <<allocations, samples, reported>>
  BY DEF RecordExecution
<1>3. CASE ~InAllocation(va)
  BY <1>2, <1>3 DEF RecordExecution, OepInv, CandidatesWereExecuted, InAllocation
<1>4. CASE InAllocation(va) /\ va \in DOMAIN candidates
  <2>1. candidates' = [candidates EXCEPT ![va].signals = @ \cup one]
    BY <1>4 DEF RecordExecution
  <2>2. DOMAIN candidates' = DOMAIN candidates /\ candidates' \in [DOMAIN candidates -> T]
    BY <1>1, <1>4, <2>1
  <2>3. \A a \in DOMAIN candidates : candidates'[a].region = candidates[a].region
             /\ candidates[a].signals \subseteq candidates'[a].signals
             /\ ("entropy_drop" \in candidates'[a].signals => "entropy_drop" \in candidates[a].signals)
    BY <1>1, <1>4, <2>1
  <2>4. CandidatesWereExecuted'
    BY <1>2, <2>2, <2>3 DEF OepInv, CandidatesWereExecuted, InAllocation
  <2> QED BY <1>2, <2>2, <2>4 DEF OepInv
<1>5. CASE InAllocation(va) /\ va \notin DOMAIN candidates
  <2>1. candidates' = [a \in DOMAIN candidates \cup {va} |->
                          IF a = va THEN [signals |-> one, region |-> r] ELSE candidates[a]]
    BY <1>5 DEF RecordExecution
  <2>2. DOMAIN candidates' = DOMAIN candidates \cup {va} /\ IsFiniteSet(DOMAIN candidates')
    BY <1>1, <2>1, FS_AddElement
  <2>3. candidates' \in [DOMAIN candidates' -> T]
    BY <1>1, <2>1
  <2>4. candidates'[va] = [signals |-> one, region |-> r] /\ \A a \in DOMAIN candidates : candidates'[a] = candidates[a]
    BY <1>5, <2>1
  <2>5. CandidatesWereExecuted'
    BY <1>2, <1>5, <2>2, <2>4 DEF OepInv, CandidatesWereExecuted, InAllocation
  <2> QED BY <1>2, <2>2, <2>3, <2>5 DEF OepInv
<1> QED BY <1>3, <1>4, <1>5

LEMMA EntropyDropKeeps ==
    ASSUME OepInv, NEW r \in RegionIds, RecordEntropyDrop(r) PROVE OepInv'
<1>1. DOMAIN candidates' = DOMAIN candidates /\ reported' = reported \cup {r} /\ UNCHANGED <<allocations, samples, ran>>
  BY DEF RecordEntropyDrop
<1>2. \A va \in DOMAIN candidates :
         /\ candidates'[va] \in [signals : SUBSET Signals, region : RegionIds]
         /\ candidates'[va].region = candidates[va].region
         /\ candidates[va].signals \subseteq candidates'[va].signals
         /\ candidates[va].region # r => candidates'[va] = candidates[va]
  <2> SUFFICES ASSUME NEW va \in DOMAIN candidates
               PROVE  /\ candidates'[va] \in [signals : SUBSET Signals, region : RegionIds]
                      /\ candidates'[va].region = candidates[va].region
                      /\ candidates[va].signals \subseteq candidates'[va].signals
                      /\ candidates[va].region # r => candidates'[va] = candidates[va]
    OBVIOUS
  <2>1. candidates[va] \in [signals : SUBSET Signals, region : RegionIds] /\ "entropy_drop" \in Signals
    BY DEF OepInv, Signals
  <2>2. candidates'[va] = IF candidates[va].region = r THEN [candidates[va] EXCEPT !.signals = @ \cup {"entropy_drop"}]
                          ELSE candidates[va]
    BY DEF RecordEntropyDrop
  <2> QED BY <2>1, <2>2
<1>3. candidates' \in [DOMAIN candidates' -> [signals : SUBSET Signals, region : RegionIds]]
  BY <1>1, <1>2 DEF RecordEntropyDrop
<1>4. CandidatesWereExecuted'
  BY <1>1, <1>2 DEF OepInv, CandidatesWereExecuted, InAllocation
<1> QED BY <1>1, <1>3, <1>4 DEF OepInv

LEMMA SampleKeeps ==
    ASSUME OepInv, NEW ts \in Nat, NEW r \in RegionIds, NEW l \in Levels, Sample(ts, r, l) PROVE OepInv'
<1>1. samples' \in Seq([ts : Nat, region : RegionIds, level : Levels])
  <2>1. [ts |-> ts, region |-> r, level |-> l] \in [ts : Nat, region : RegionIds, level : Levels]
    OBVIOUS
  <2>2. samples \in Seq([ts : Nat, region : RegionIds, level : Levels])
    BY DEF OepInv
  <2>3. samples' = Append(samples, [ts |-> ts, region |-> r, level |-> l])
    BY DEF Sample
  <2> QED BY <2>1, <2>2, <2>3
<1> QED BY <1>1 DEF OepInv, Sample, CandidatesWereExecuted, InAllocation

LEMMA OepStepKeeps == OepInv /\ (OepStep \/ EntropyStep) => OepInv'
<1> SUFFICES ASSUME OepInv, OepStep \/ EntropyStep PROVE OepInv'
  OBVIOUS
<1>1. ASSUME NEW b \in Vas, NEW n \in 1..2, RecordAllocation(b, n) PROVE OepInv'
  BY <1>1 DEF RecordAllocation, OepInv, CandidatesWereExecuted, InAllocation
<1>2. ASSUME NEW b \in Buffers, ScanForFunctionPrologues(b) PROVE OepInv'
  BY <1>2, MarkKeeps DEF ScanForFunctionPrologues
<1>3. ASSUME NEW b \in Buffers, ScanForIatCalls(b) PROVE OepInv'
  BY <1>3, MarkKeeps DEF ScanForIatCalls
<1>4. ASSUME NEW ts \in 1..2, NEW r \in RegionIds, NEW l \in Levels, Sample(ts, r, l) PROVE OepInv'
  BY <1>4, SampleKeeps
<1> QED BY <1>1, <1>2, <1>3, <1>4, ExecutionKeeps, EntropyDropKeeps DEF OepStep, EntropyStep

-----------------------------------------------------------------------------
(* Snapshots *)

Regions == [base : Nat, size : Nat, type : PageTypes]
Buffered == [base : Nat, size : Nat]

\* The regions of a list lie behind one another, from one address to another.
InRow(list, from, to) ==
    /\ \A i \in DOMAIN list : from <= list[i].base /\ list[i].base + list[i].size <= to
    /\ \A i, j \in DOMAIN list : i < j => list[i].base + list[i].size <= list[j].base

Walks == [stage : {"idle", "walk", "capture", "emit"}, addr : 0..Ceiling, out : Seq(Regions), captured : Seq(Buffered)]

\* The regions captured lie before those that wait, and these before the address
\* asked for next.
WalkInv ==
    /\ page \in [0..(Ceiling - 1) -> PageTypes] /\ walk \in Walks
    /\ \E m \in 0..walk.addr : InRow(walk.captured, 0, m) /\ InRow(walk.out, m, walk.addr)

\* A blob of this run holds the region of its index, and only a session that
\* writes has any; the manifest is of an earlier run until the session is over.
BlobsInv ==
    /\ run \in Nat
    /\ blobs \in [DOMAIN blobs -> [run : Nat, region : Buffered]] /\ DOMAIN blobs \subseteq Nat \ {0}
    /\ manifest \in [run : Nat, regions : Seq(Buffered)]
    /\ manifest.run <= run /\ (manifest.run = run => walk.stage = "idle")
    /\ \A i \in DOMAIN blobs :
          /\ blobs[i].run <= run
          /\ blobs[i].run = run /\ walk.stage # "idle" =>
                walk.stage = "emit" /\ i \in DOMAIN walk.captured /\ blobs[i].region = walk.captured[i]
    /\ ManifestHasBlobs

MmInv == WalkInv /\ BlobsInv

Smaller == {p \in Nat \X Nat : p[1] < p[2]}

LEMMA SmallerIsWellFounded == IsWellFoundedOn(Smaller, Nat)
  BY NatLessThanWellFounded DEF OpToRel, Smaller

\* A set of numbers up to n has a greatest member: the one that is least far from n.
LEMMA MaxOfUpTo ==
    ASSUME NEW n \in Nat, NEW S \in SUBSET (0..n), S # {}
    PROVE  Max(S) \in S /\ \A y \in S : Max(S) >= y
<1> DEFINE gaps == {n - x : x \in S}
<1>0. \A x \in S : x \in Nat /\ x <= n
  OBVIOUS
<1>1. gaps \subseteq Nat /\ gaps # {}
  <2>1. gaps \subseteq Nat
    BY <1>0
  <2>2. gaps # {}
    OBVIOUS
  <2> QED BY <2>1, <2>2
<1>2. \E g \in gaps : \A h \in gaps : ~(<<h, g>> \in Smaller)
  <2> HIDE DEF gaps
  <2> QED BY <1>1, SmallerIsWellFounded, WFMin
<1> SUFFICES ASSUME NEW g \in gaps, \A h \in gaps : ~(<<h, g>> \in Smaller)
             PROVE Max(S) \in S /\ \A y \in S : Max(S) >= y
  BY <1>2
<1>3. PICK x \in S : g = n - x
  OBVIOUS
<1>4. \A y \in S : x >= y
  <2> SUFFICES ASSUME NEW y \in S PROVE x >= y
    OBVIOUS
  <2>1. n - y \in gaps /\ n - y \in Nat /\ g \in Nat
    BY <1>1
  <2>2. ~(n - y < g)
    BY <2>1 DEF Smaller
  <2> QED BY <1>3, <2>2
<1> QED BY <1>3, <1>4 DEF Max

\* A query describes a region that starts where it was asked for and ends below the
\* ceiling.
LEMMA RegionFits ==
    ASSUME page \in [0..(Ceiling - 1) -> PageTypes], NEW a \in 0..Ceiling, a < Ceiling
    PROVE  RegionAt(a) \in Regions /\ RegionAt(a).base = a /\ a + RegionAt(a).size <= Ceiling
<1> DEFINE same == {n \in 1..(Ceiling - a) : \A k \in a..(a + n - 1) : page[k] = page[a]}
<1>1. Ceiling \in Nat /\ Ceiling - a \in Nat /\ page[a] \in PageTypes
  BY MemoryAssumption
<1>2. same \in SUBSET (0..(Ceiling - a)) /\ 1 \in same
  <2>1. 1 \in 1..(Ceiling - a) /\ a..(a + 1 - 1) = {a}
    BY <1>1
  <2> QED BY <1>1, <2>1
<1>3. RegionAt(a) = [base |-> a, size |-> Max(same), type |-> page[a]]
  BY DEF RegionAt
<1> HIDE DEF same
<1>4. Max(same) \in same
  BY <1>1, <1>2, MaxOfUpTo
<1>5. Max(same) \in 1..(Ceiling - a)
  BY <1>4 DEF same
<1> QED BY <1>1, <1>3, <1>5 DEF Regions

LEMMA EndsNoLater == \A base, size, b, c \in Nat : base + size <= b /\ b <= c => base + size <= c
  OBVIOUS

\* A list in a range stays one when a region that follows it is appended ...
LEMMA AppendInRow ==
    ASSUME NEW S, \A x \in S : x.base \in Nat /\ x.size \in Nat, NEW list \in Seq(S), NEW r \in S,
           NEW from \in Nat, NEW mid \in Nat, NEW to \in Nat,
           InRow(list, from, mid), from <= mid, mid <= r.base, r.base + r.size <= to
    PROVE  Append(list, r) \in Seq(S) /\ InRow(Append(list, r), from, to)
<1> DEFINE new == Append(list, r)
           n == Len(list)
<1>1. n \in Nat /\ DOMAIN list = 1..n /\ \A i \in 1..n : list[i] \in S
  BY LenProperties, ElementOfSeq
<1>2. new \in Seq(S) /\ Len(new) = n + 1 /\ (\A i \in 1..n : new[i] = list[i]) /\ new[n + 1] = r
  BY AppendProperties
<1>3. DOMAIN new = 1..(n + 1)
  BY <1>2, LenProperties
<1> HIDE DEF new, n
<1>4. ASSUME NEW i \in 1..(n + 1) PROVE from <= new[i].base /\ new[i].base + new[i].size <= to
  <2>1. CASE i = n + 1
    <3>1. new[i] = r
      BY <1>2, <2>1
    <3>2. r.base \in Nat /\ r.size \in Nat
      OBVIOUS
    <3> QED BY <3>1, <3>2
  <2>2. CASE i # n + 1
    <3>1. i \in 1..n
      BY <1>1, <2>2
    <3>2. new[i] = list[i] /\ list[i].base \in Nat /\ list[i].size \in Nat
      BY <1>1, <1>2, <3>1
    <3>3. from <= list[i].base /\ list[i].base + list[i].size <= mid
      BY <1>1, <3>1 DEF InRow
    <3>4. mid <= to
      <4>1. r.base \in Nat /\ r.size \in Nat /\ mid <= r.base /\ r.base + r.size <= to
        OBVIOUS
      <4> QED BY <4>1
    <3>5. list[i].base + list[i].size <= to
      BY <3>2, <3>3, <3>4, EndsNoLater, Zenon
    <3> QED BY <3>2, <3>3, <3>5
  <2> QED BY <2>1, <2>2
<1>5. ASSUME NEW i \in 1..(n + 1), NEW j \in 1..(n + 1), i < j PROVE new[i].base + new[i].size <= new[j].base
  <2>0. i \in 1..n
    BY <1>1, <1>5
  <2>1. new[i] = list[i] /\ list[i].base \in Nat /\ list[i].size \in Nat
    BY <1>1, <1>2, <2>0
  <2>2. CASE j = n + 1
    <3>1. new[j] = r
      BY <1>2, <2>2
    <3>2. list[i].base + list[i].size <= mid
      BY <1>1, <2>0 DEF InRow
    <3>3. mid \in Nat /\ r.base \in Nat /\ mid <= r.base
      OBVIOUS
    <3>4. list[i].base + list[i].size <= r.base
      BY <2>1, <3>2, <3>3, EndsNoLater, Zenon
    <3> QED BY <2>1, <3>1, <3>4
  <2>3. CASE j # n + 1
    <3>1. j \in 1..n
      BY <1>1, <2>3
    <3>2. new[j] = list[j]
      BY <1>2, <3>1
    <3>3. list[i].base + list[i].size <= list[j].base
      BY <1>1, <1>5, <2>0, <3>1 DEF InRow
    <3> QED BY <2>1, <3>2, <3>3
  <2> QED BY <2>2, <2>3
<1> QED BY <1>2, <1>3, <1>4, <1>5 DEF InRow, new

\* ... and what remains of it follows the region that is taken off.
LEMMA TailInRow ==
    ASSUME NEW S, \A x \in S : x.base \in Nat /\ x.size \in Nat, NEW list \in Seq(S), list # <<>>,
           NEW from \in Nat, NEW to \in Nat, InRow(list, from, to)
    PROVE  /\ Tail(list) \in Seq(S) /\ Head(list) \in S
           /\ from <= Head(list).base /\ Head(list).base + Head(list).size <= to
           /\ InRow(Tail(list), Head(list).base + Head(list).size, to)
<1> DEFINE n == Len(list)
           tail == Tail(list)
<1>1. n \in Nat \ {0} /\ DOMAIN list = 1..n
  BY LenProperties, EmptySeq
<1>2. tail \in Seq(S) /\ Len(tail) = n - 1 /\ \A i \in 1..Len(tail) : tail[i] = list[i + 1]
  BY HeadTailProperties
<1>3. DOMAIN tail = 1..(n - 1)
  BY <1>2, LenProperties
<1>4. Head(list) = list[1] /\ Head(list) \in S
  BY HeadTailProperties
<1> HIDE DEF n, tail
<1>5. from <= list[1].base /\ list[1].base + list[1].size <= to
  BY <1>1 DEF InRow
<1>6. ASSUME NEW i \in 1..(n - 1)
      PROVE  list[1].base + list[1].size <= tail[i].base /\ tail[i].base + tail[i].size <= to
  <2>1. i + 1 \in 1..n /\ 1 \in 1..n /\ 1 < i + 1
    BY <1>1
  <2>2. tail[i] = list[i + 1]
    BY <1>2
  <2> QED BY <1>1, <2>1, <2>2 DEF InRow
<1>7. ASSUME NEW i \in 1..(n - 1), NEW j \in 1..(n - 1), i < j PROVE tail[i].base + tail[i].size <= tail[j].base
  <2>1. i + 1 \in 1..n /\ j + 1 \in 1..n /\ i + 1 < j + 1
    BY <1>1, <1>7
  <2>2. tail[i] = list[i + 1] /\ tail[j] = list[j + 1]
    BY <1>2
  <2> QED BY <1>1, <2>1, <2>2 DEF InRow
<1> QED BY <1>2, <1>3, <1>4, <1>5, <1>6, <1>7 DEF InRow, tail

\* A list that lies in a range lies in a wider one.
LEMMA WidenInRow ==
    ASSUME NEW S, \A x \in S : x.base \in Nat /\ x.size \in Nat, NEW list \in Seq(S),
           NEW from \in Nat, NEW mid \in Nat, NEW to \in Nat, InRow(list, from, mid), mid <= to
    PROVE  InRow(list, from, to)
<1>1. \A i \in DOMAIN list : list[i].base \in Nat /\ list[i].size \in Nat
  BY LenProperties, ElementOfSeq
<1> QED BY <1>1 DEF InRow

LEMMA EmptyInRow == \A from, to : InRow(<<>>, from, to)
  BY DEF InRow

LEMMA WalksApart == WalkInv => RegionsAreDisjoint
<1> SUFFICES ASSUME WalkInv PROVE RegionsAreDisjoint
  OBVIOUS
<1>1. walk.addr <= Ceiling
  BY MemoryAssumption DEF WalkInv, Walks
<1>2. PICK m \in 0..walk.addr : InRow(walk.captured, 0, m) /\ InRow(walk.out, m, walk.addr)
  BY DEF WalkInv
<1> QED BY <1>1, <1>2 DEF RegionsAreDisjoint, InRow

\* What is captured lies before what waits, which lies before the next address.
LEMMA WalkStepKeeps == WalkInv /\ MmStep => WalkInv'
<1> SUFFICES ASSUME WalkInv, MmStep PROVE WalkInv'
  OBVIOUS
<1>0. Ceiling \in Nat /\ walk \in Walks /\ walk.addr \in 0..Ceiling
  BY MemoryAssumption DEF WalkInv, Walks
<1>1. PICK m \in 0..walk.addr : InRow(walk.captured, 0, m) /\ InRow(walk.out, m, walk.addr)
  BY DEF WalkInv
<1>2. \A x \in Regions : x.base \in Nat /\ x.size \in Nat
  BY DEF Regions
<1>3. \A x \in Buffered : x.base \in Nat /\ x.size \in Nat
  BY DEF Buffered
<1>4. Idle \in Walks /\ [Idle EXCEPT !.stage = "walk"] \in Walks
  <2>1. [Idle EXCEPT !.stage = "walk"] = [stage |-> "walk", addr |-> 0, out |-> <<>>, captured |-> <<>>]
    BY DEF Idle
  <2>2. 0 \in 0..Ceiling /\ <<>> \in Seq(Regions) /\ <<>> \in Seq(Buffered)
    BY <1>0
  <2> QED BY <2>1, <2>2 DEF Idle, Walks
<1>5. CASE StartWalk \/ Abandon \/ WriteManifest
  <2>1. walk' \in Walks /\ walk'.addr = 0 /\ walk'.out = <<>> /\ walk'.captured = <<>> /\ page' = page
    BY <1>4, <1>5 DEF StartWalk, Abandon, WriteManifest, Idle
  <2>2. InRow(<<>>, 0, 0)
    BY EmptyInRow
  <2> QED BY <2>1, <2>2 DEF WalkInv
<1>6. CASE EndWalk \/ StartEmit
  <2>1. walk' \in Walks /\ walk'.addr = walk.addr /\ walk'.out = walk.out /\ walk'.captured = walk.captured /\ page' = page
    BY <1>0, <1>6 DEF EndWalk, StartEmit, Walks
  <2> QED BY <1>1, <2>1 DEF WalkInv
<1>7. CASE WriteBlob
  BY <1>7 DEF WriteBlob, WalkInv
<1>8. ASSUME NEW a \in 0..(Ceiling - 1), NEW t \in PageTypes, TargetMaps(a, t) PROVE WalkInv'
  BY <1>8 DEF TargetMaps, WalkInv
<1>9. CASE Enumerate
  <2> DEFINE r == RegionAt(walk.addr)
  <2>1. r \in Regions /\ r.base = walk.addr /\ walk.addr + r.size <= Ceiling
    BY <1>0, <1>9, RegionFits DEF Enumerate, WalkInv
  <2>2. walk' = [walk EXCEPT !.out = Append(walk.out, r), !.addr = r.base + r.size] /\ page' = page
    BY <1>9 DEF Enumerate
  <2> HIDE DEF r
  <2>3. walk.out \in Seq(Regions) /\ m \in Nat /\ walk.addr \in Nat /\ r.base + r.size \in 0..Ceiling /\ m <= walk.addr
        /\ walk.addr <= r.base + r.size
    BY <1>0, <1>1, <1>2, <2>1 DEF Walks
  <2>4. Append(walk.out, r) \in Seq(Regions) /\ InRow(Append(walk.out, r), m, r.base + r.size)
    BY <1>0, <1>1, <1>2, <2>1, <2>3, AppendInRow
  <2>5. walk' \in Walks /\ walk'.addr = r.base + r.size /\ walk'.out = Append(walk.out, r) /\ walk'.captured = walk.captured
    BY <1>0, <2>2, <2>3, <2>4 DEF Walks
  <2>6. m \in 0..walk'.addr
    BY <1>0, <2>3, <2>5
  <2> QED BY <1>1, <2>2, <2>4, <2>5, <2>6 DEF WalkInv
<1>10. CASE CaptureOne
  <2> DEFINE r == Head(walk.out)
             end == r.base + r.size
             kept == IF Wanted(r) THEN Append(walk.captured, ReadRegion(r)) ELSE walk.captured
  <2>1. /\ walk.out \in Seq(Regions) /\ walk.out # <<>> /\ walk.captured \in Seq(Buffered)
        /\ m \in Nat /\ walk.addr \in Nat /\ walk.addr <= Ceiling
    BY <1>0, <1>10 DEF Walks, CaptureOne
  <2>2. /\ Tail(walk.out) \in Seq(Regions) /\ r \in Regions
        /\ m <= r.base /\ end <= walk.addr /\ InRow(Tail(walk.out), end, walk.addr)
    BY <1>1, <1>2, <2>1, TailInRow
  <2>3. walk' = [walk EXCEPT !.out = Tail(walk.out), !.captured = kept] /\ page' = page
    BY <1>10 DEF CaptureOne
  <2> HIDE DEF r
  <2>4. r.base \in Nat /\ r.size \in Nat /\ end \in 0..walk.addr /\ end \in Nat /\ m <= end
    BY <1>2, <2>1, <2>2
  <2>5. ReadRegion(r) \in Buffered /\ ReadRegion(r).base = r.base /\ ReadRegion(r).base + ReadRegion(r).size <= end
    BY <2>4 DEF ReadRegion, Buffered
  <2> HIDE DEF end
  <2>6. kept \in Seq(Buffered) /\ InRow(kept, 0, end)
    <3>1. CASE Wanted(r)
      <4>1. m <= ReadRegion(r).base
        BY <2>2, <2>5
      <4>2. Append(walk.captured, ReadRegion(r)) \in Seq(Buffered) /\ InRow(Append(walk.captured, ReadRegion(r)), 0, end)
        BY <1>1, <1>3, <2>1, <2>4, <2>5, <4>1, AppendInRow
      <4> QED BY <3>1, <4>2
    <3>2. CASE ~Wanted(r)
      <4>1. InRow(walk.captured, 0, end)
        BY <1>1, <1>3, <2>1, <2>4, WidenInRow
      <4> QED BY <2>1, <3>2, <4>1
    <3> QED BY <3>1, <3>2
  <2> HIDE DEF kept
  <2>7. walk' \in Walks /\ walk'.addr = walk.addr /\ walk'.out = Tail(walk.out) /\ walk'.captured = kept
    BY <1>0, <2>2, <2>3, <2>6 DEF Walks
  <2> QED BY <2>2, <2>3, <2>4, <2>6, <2>7 DEF WalkInv
<1> QED BY <1>5, <1>6, <1>7, <1>8, <1>9, <1>10 DEF MmStep

\* Nothing of the disk changes, and the walk does not move to where its blobs
\* would have to be right.
LEMMA BlobsKept ==
    ASSUME BlobsInv, UNCHANGED <<blobs, manifest, run>>,
           walk'.stage = "idle" \/ (walk.stage # "idle" /\ walk.stage # "emit")
           \/ (walk.stage = "emit" /\ walk' = walk),
           walk.stage = "idle" => walk'.stage = "idle"
    PROVE  BlobsInv'
<1>1. ManifestHasBlobs'
  BY DEF BlobsInv, ManifestHasBlobs
<1>2. manifest'.run <= run' /\ (manifest'.run = run' => walk'.stage = "idle")
  BY DEF BlobsInv
<1>3. ASSUME NEW i \in DOMAIN blobs', blobs'[i].run = run', walk'.stage # "idle"
      PROVE  walk'.stage = "emit" /\ i \in DOMAIN walk'.captured /\ blobs'[i].region = walk'.captured[i]
  BY <1>3 DEF BlobsInv
<1> QED BY <1>1, <1>2, <1>3 DEF BlobsInv

\* The blobs of this run are as many as its first regions, so the next one is new.
LEMMA WriteBlobKeeps == WalkInv /\ BlobsInv /\ WriteBlob => BlobsInv'
<1> SUFFICES ASSUME WalkInv, BlobsInv, WriteBlob PROVE BlobsInv'
  OBVIOUS
<1> DEFINE done == {i \in DOMAIN blobs : i <= Len(walk.captured) /\ blobs[i].run = run}
           next == Cardinality(done) + 1
           blob == [run |-> run, region |-> walk.captured[next]]
<1>1. walk.captured \in Seq(Buffered) /\ Len(walk.captured) \in Nat /\ DOMAIN walk.captured = 1..Len(walk.captured)
  <2>1. walk.captured \in Seq(Buffered)
    BY DEF WalkInv, Walks
  <2> QED BY <2>1, LenProperties
<1>2. done \subseteq 1..Len(walk.captured)
  BY <1>1 DEF BlobsInv
<1>3. Cardinality(done) \in Nat
  <2>1. IsFiniteSet(1..Len(walk.captured))
    BY <1>1, FS_Interval
  <2> QED BY <1>2, <2>1, FS_Subset, FS_CardinalityType
<1> DEFINE new == [i \in DOMAIN blobs \cup {next} |-> IF i = next THEN [run |-> run, region |-> walk.captured[i]] ELSE blobs[i]]
<1>4. /\ walk.stage = "emit" /\ next <= Len(walk.captured) /\ blobs' = new
      /\ UNCHANGED <<page, walk, manifest, run, changes>>
  BY DEF WriteBlob
<1> HIDE DEF done
<1>5. next \in 1..Len(walk.captured) /\ next \in Nat \ {0}
  BY <1>1, <1>3, <1>4
<1> HIDE DEF next
<1>6. walk.captured[next] \in Buffered
  BY <1>1, <1>5, ElementOfSeq
<1>7. /\ DOMAIN blobs' = DOMAIN blobs \cup {next} /\ blobs'[next] = blob
      /\ \A i \in DOMAIN blobs : i # next => blobs'[i] = blobs[i]
  BY <1>4
<1>8. run \in Nat /\ run' = run /\ walk' = walk /\ manifest' = manifest
  BY <1>4 DEF BlobsInv
<1>9. blobs' \in [DOMAIN blobs' -> [run : Nat, region : Buffered]] /\ DOMAIN blobs' \subseteq Nat \ {0}
  <2>1. \A i \in DOMAIN blobs \cup {next} : new[i] \in [run : Nat, region : Buffered]
    BY <1>6, <1>8 DEF BlobsInv
  <2>2. DOMAIN blobs' \subseteq Nat \ {0}
    BY <1>5, <1>7 DEF BlobsInv
  <2> QED BY <1>4, <2>1, <2>2
<1>10. ASSUME NEW i \in DOMAIN blobs'
       PROVE  /\ blobs'[i].run <= run'
              /\ blobs'[i].run = run' /\ walk'.stage # "idle" =>
                    walk'.stage = "emit" /\ i \in DOMAIN walk'.captured /\ blobs'[i].region = walk'.captured[i]
  <2>1. CASE i = next
    <3>1. blobs'[i].run = run /\ blobs'[i].region = walk.captured[i]
      BY <1>7, <2>1
    <3>2. run <= run
      BY <1>8
    <3> QED BY <1>1, <1>4, <1>5, <1>8, <2>1, <3>1, <3>2
  <2>2. CASE i # next
    <3>1. i \in DOMAIN blobs /\ blobs'[i] = blobs[i]
      BY <1>7, <2>2
    <3> QED BY <1>8, <3>1 DEF BlobsInv
  <2> QED BY <2>1, <2>2
<1>11. manifest.run \in Nat /\ manifest.run < run
  <2>1. manifest.run \in Nat /\ manifest.run <= run /\ manifest.run # run
    BY <1>4 DEF BlobsInv
  <2> QED BY <1>8, <2>1
<1>12. ManifestHasBlobs'
  <2>1. DOMAIN manifest'.regions \subseteq DOMAIN blobs'
    BY <1>7, <1>8 DEF BlobsInv, ManifestHasBlobs
  <2>2. ~(blobs'[next].run <= manifest'.run)
    BY <1>7, <1>8, <1>11
  <2> QED BY <1>7, <2>1, <2>2 DEF ManifestHasBlobs
<1> QED BY <1>4, <1>8, <1>9, <1>10, <1>12 DEF BlobsInv

LEMMA WriteManifestKeeps == WalkInv /\ BlobsInv /\ WriteManifest => BlobsInv'
<1> SUFFICES ASSUME WalkInv, BlobsInv, WriteManifest PROVE BlobsInv'
  OBVIOUS
<1>1. walk.captured \in Seq(Buffered)
  BY DEF WalkInv, Walks
<1>2. DOMAIN walk.captured = 1..Len(walk.captured)
  BY <1>1, LenProperties
<1>3. /\ walk.stage = "emit" /\ AllWritten /\ walk'.stage = "idle"
      /\ manifest' = [run |-> run, regions |-> walk.captured] /\ UNCHANGED <<blobs, run>>
  BY DEF WriteManifest, Idle
<1>4. run \in Nat /\ run <= run
  BY DEF BlobsInv
<1>5. \A i \in DOMAIN walk.captured : i \in DOMAIN blobs /\ blobs[i].run = run /\ blobs[i].region = walk.captured[i]
  BY <1>2, <1>3 DEF AllWritten, BlobsInv
<1>6. ManifestHasBlobs'
  <2>1. DOMAIN manifest'.regions \subseteq DOMAIN blobs'
    BY <1>3, <1>5
  <2>2. ASSUME NEW i \in DOMAIN walk.captured PROVE blobs'[i] = [run |-> run, region |-> walk.captured[i]]
    <3>1. blobs[i] \in [run : Nat, region : Buffered]
      BY <1>5 DEF BlobsInv
    <3> QED BY <1>3, <1>5, <3>1
  <2> QED BY <1>3, <2>1, <2>2 DEF ManifestHasBlobs
<1> QED BY <1>1, <1>3, <1>4, <1>6 DEF BlobsInv

LEMMA StartWalkKeeps == WalkInv /\ BlobsInv /\ StartWalk => BlobsInv'
<1> SUFFICES ASSUME WalkInv, BlobsInv, StartWalk PROVE BlobsInv'
  OBVIOUS
<1>1. run \in Nat /\ run' = run + 1 /\ UNCHANGED <<blobs, manifest>>
  BY DEF BlobsInv, StartWalk
<1>2. manifest.run \in Nat /\ manifest.run <= run
  BY DEF BlobsInv
<1>3. ASSUME NEW i \in DOMAIN blobs PROVE blobs[i].run \in Nat /\ blobs[i].run <= run
  BY <1>3 DEF BlobsInv
<1>4. manifest'.run <= run' /\ manifest'.run # run'
  BY <1>1, <1>2
<1>5. ASSUME NEW i \in DOMAIN blobs' PROVE blobs'[i].run <= run' /\ blobs'[i].run # run'
  BY <1>1, <1>3
<1>6. ManifestHasBlobs'
  BY <1>1 DEF BlobsInv, ManifestHasBlobs
<1> QED BY <1>1, <1>4, <1>5, <1>6 DEF BlobsInv

LEMMA BlobsStepKeeps == MmInv /\ MmStep => BlobsInv'
<1> SUFFICES ASSUME WalkInv, BlobsInv, MmStep PROVE BlobsInv'
  BY DEF MmInv
<1>1. CASE StartWalk
  BY <1>1, StartWalkKeeps
<1>2. CASE WriteBlob
  BY <1>2, WriteBlobKeeps
<1>3. CASE WriteManifest
  BY <1>3, WriteManifestKeeps
<1>4. CASE Enumerate \/ EndWalk \/ CaptureOne \/ StartEmit \/ Abandon \/ \E a \in 0..(Ceiling - 1), t \in PageTypes : TargetMaps(a, t)
  <2>1. /\ UNCHANGED <<blobs, manifest, run>> /\ walk.stage # "idle"
        /\ walk'.stage = "idle" \/ walk.stage # "emit"
    BY <1>4 DEF Enumerate, EndWalk, CaptureOne, StartEmit, Abandon, TargetMaps, Idle
  <2> QED BY <2>1, BlobsKept
<1> QED BY <1>1, <1>2, <1>3, <1>4 DEF MmStep

-----------------------------------------------------------------------------
(* The trace *)

Lines ==
    Headers \cup [kind : {"step"}, idx : Nat] \cup [kind : {"footer"}, steps : Nat, tier : Tiers] \cup {Torn, Garbage}

\* Lines with a footer at most at their end, by a writer of which some calls failed.
GoodLines(lines, fails) ==
    /\ lines \in Seq(Lines)
    /\ \A i \in 1..Len(lines) :
        /\ lines[i].kind = "step" => lines[i].idx = i - 2
        /\ lines[i].kind = "footer" =>
            i = Len(lines) /\ lines[i].steps <= i - 2 /\ i - 2 <= lines[i].steps + fails
        /\ fails = 0 /\ 2 <= i /\ i < Len(lines) => lines[i].kind = "step"

\* Lines a step can follow: one for each step that was counted, and perhaps what a
\* failed write has left.
OpenLines(lines, steps, fails) ==
    /\ lines # <<>>
    /\ Len(lines) = steps + (IF lines[Len(lines)].kind = "torn" THEN 2 ELSE 1)
    /\ \A i \in 1..Len(lines) : lines[i].kind # "footer"
    /\ fails = 0 => \A i \in 2..Len(lines) : lines[i].kind = "step"

DtInv ==
    /\ onDisk \in 0..Len(trace) /\ {emitted, acked, failures} \subseteq Nat
    /\ acked <= emitted /\ emitted <= acked + failures
    /\ writer \in {"none", "open", "done", "refused", "failed", "killed"}
    /\ GoodLines(trace, failures)
    /\ writer = "none" => emitted = 0
    /\ writer = "open" => OpenLines(trace, emitted, failures)
    /\ writer \notin {"done", "failed"} => \A i \in 1..Len(trace) : trace[i].kind # "footer"

\* One more line at the end.
LEMMA LineAdded ==
    ASSUME NEW lines \in Seq(Lines), NEW r \in Lines
    PROVE  /\ Append(lines, r) \in Seq(Lines) /\ Append(lines, r) # <<>>
           /\ Len(Append(lines, r)) = Len(lines) + 1 /\ Len(lines) \in Nat
           /\ \A i \in 1..Len(lines) : Append(lines, r)[i] = lines[i]
           /\ Append(lines, r)[Len(lines) + 1] = r
<1> HIDE DEF Lines
<1> QED BY AppendProperties, LenProperties

\* A record is written at the end, or spoils the rest of the one before it.
LEMMA WrittenLines ==
    ASSUME DtInv, writer = "open", NEW r \in Lines
    PROVE  \/ /\ ~TornAtEnd /\ Written(r) = Append(trace, r) /\ Len(trace) = emitted + 1
           \/ /\ TornAtEnd /\ Written(r) \in Seq(Lines) /\ Len(Written(r)) = Len(trace)
              /\ Len(trace) = emitted + 2 /\ failures # 0
              /\ \A i \in 1..Len(trace) : Written(r)[i] = IF i = Len(trace) THEN Garbage ELSE trace[i]
<1>1. trace \in Seq(Lines) /\ Len(trace) \in Nat /\ trace # <<>> /\ emitted \in Nat
  <2>1. trace \in Seq(Lines) /\ trace # <<>> /\ emitted \in Nat
    BY DEF DtInv, GoodLines, OpenLines
  <2> QED BY <2>1, LenProperties
<1>2. Len(trace) = emitted + (IF trace[Len(trace)].kind = "torn" THEN 2 ELSE 1)
  BY DEF DtInv, OpenLines
<1>3. CASE ~TornAtEnd
  <2>1. trace[Len(trace)].kind # "torn"
    BY <1>1, <1>3 DEF TornAtEnd
  <2> QED BY <1>2, <1>3, <2>1 DEF Written
<1>4. CASE TornAtEnd
  <2>1. trace[Len(trace)].kind = "torn"
    BY <1>4 DEF TornAtEnd
  <2>2. Len(trace) = emitted + 2 /\ Len(trace) \in 2..Len(trace)
    BY <1>1, <1>2, <2>1
  <2>3. failures # 0
    BY <2>1, <2>2 DEF DtInv, OpenLines
  <2>4. Garbage \in Lines /\ Len(trace) \in 1..Len(trace)
    BY <1>1, <2>2 DEF Lines
  <2>5. Written(r) = [trace EXCEPT ![Len(trace)] = Garbage]
    BY <1>4 DEF Written
  <2>6. /\ Written(r) \in Seq(Lines) /\ Len(Written(r)) = Len(trace)
        /\ \A i \in 1..Len(trace) : Written(r)[i] = IF i = Len(trace) THEN Garbage ELSE trace[i]
    <3> HIDE DEF Lines
    <3> QED BY <1>1, <2>4, <2>5, ExceptSeq
  <2> QED BY <1>4, <2>2, <2>3, <2>6
<1> QED BY <1>3, <1>4

\* A step is written, whether or not its call then fails.
LEMMA StepWritten ==
    ASSUME DtInv, writer = "open", NEW fails \in {failures, failures + 1}
    PROVE  /\ GoodLines(Written(Step(emitted)), fails) /\ OpenLines(Written(Step(emitted)), emitted + 1, fails)
           /\ Len(Written(Step(emitted))) \in Nat /\ Len(trace) <= Len(Written(Step(emitted)))
<1> DEFINE r == Step(emitted)
           new == Written(r)
<1>1. /\ GoodLines(trace, failures) /\ OpenLines(trace, emitted, failures) /\ trace \in Seq(Lines)
      /\ emitted \in Nat /\ failures \in Nat /\ Len(trace) \in Nat
  <2>1. GoodLines(trace, failures) /\ OpenLines(trace, emitted, failures) /\ trace \in Seq(Lines) /\ emitted \in Nat /\ failures \in Nat
    BY DEF DtInv, GoodLines
  <2> QED BY <2>1, LenProperties
<1>2. r \in Lines /\ r.kind = "step" /\ r.idx = emitted
  BY <1>1 DEF Step, Lines
<1> HIDE DEF r
<1>3. fails = 0 => failures = 0
  BY <1>1
<1>4. CASE ~TornAtEnd /\ new = Append(trace, r) /\ Len(trace) = emitted + 1
  <2>1. new \in Seq(Lines) /\ new # <<>> /\ Len(new) = emitted + 2
        /\ (\A i \in 1..(emitted + 1) : new[i] = trace[i]) /\ new[emitted + 2] = r
    BY <1>1, <1>2, <1>4, LineAdded
  <2> HIDE DEF new
  <2>2. ASSUME NEW i \in 1..(emitted + 2)
        PROVE  /\ new[i].kind # "footer" /\ (new[i].kind = "step" => new[i].idx = i - 2)
               /\ fails = 0 /\ 2 <= i => new[i].kind = "step"
    <3>1. CASE i = emitted + 2
      BY <1>1, <1>2, <2>1, <3>1
    <3>2. CASE i \in 1..(emitted + 1)
      BY <1>1, <1>3, <1>4, <2>1, <3>2 DEF GoodLines, OpenLines
    <3> QED BY <1>1, <3>1, <3>2
  <2>3. GoodLines(new, fails)
    BY <1>1, <2>1, <2>2 DEF GoodLines
  <2>4. OpenLines(new, emitted + 1, fails)
    BY <1>1, <1>2, <2>1, <2>2 DEF OpenLines
  <2> QED BY <1>1, <1>4, <2>1, <2>3, <2>4 DEF new, r
<1>5. CASE /\ TornAtEnd /\ new \in Seq(Lines) /\ Len(new) = Len(trace) /\ Len(trace) = emitted + 2 /\ failures # 0
           /\ \A i \in 1..Len(trace) : new[i] = IF i = Len(trace) THEN Garbage ELSE trace[i]
  <2> HIDE DEF new
  <2>1. Garbage.kind = "garbage" /\ fails # 0 /\ new # <<>>
    BY <1>1, <1>5, EmptySeq DEF Garbage
  <2>2. \A i \in 1..Len(new) : new[i].kind # "footer" /\ (new[i].kind = "step" => new[i].idx = i - 2)
    BY <1>1, <1>5, <2>1 DEF GoodLines, OpenLines
  <2>3. GoodLines(new, fails)
    BY <1>5, <2>1, <2>2 DEF GoodLines
  <2>4. OpenLines(new, emitted + 1, fails)
    BY <1>1, <1>5, <2>1, <2>2 DEF OpenLines
  <2> QED BY <1>1, <1>5, <2>3, <2>4 DEF new, r
<1> QED BY <1>2, <1>4, <1>5, WrittenLines DEF r

\* The footer follows the lines of the steps that were counted.
LEMMA FooterWritten ==
    ASSUME DtInv, writer = "open", NEW tier \in Tiers
    PROVE  /\ GoodLines(Written(Footer(tier)), failures)
           /\ Len(Written(Footer(tier))) \in Nat /\ Len(trace) <= Len(Written(Footer(tier)))
<1> DEFINE r == Footer(tier)
           new == Written(r)
<1>1. /\ GoodLines(trace, failures) /\ OpenLines(trace, emitted, failures) /\ trace \in Seq(Lines)
      /\ emitted \in Nat /\ failures \in Nat /\ acked \in Nat /\ Len(trace) \in Nat
      /\ acked <= emitted /\ emitted <= acked + failures
  <2>1. /\ GoodLines(trace, failures) /\ OpenLines(trace, emitted, failures) /\ trace \in Seq(Lines)
        /\ emitted \in Nat /\ failures \in Nat /\ acked \in Nat /\ acked <= emitted /\ emitted <= acked + failures
    BY DEF DtInv, GoodLines
  <2> QED BY <2>1, LenProperties
<1>2. r \in Lines /\ r.kind = "footer" /\ r.steps = acked
  BY <1>1 DEF Footer, Lines
<1> HIDE DEF r
<1>4. CASE ~TornAtEnd /\ new = Append(trace, r) /\ Len(trace) = emitted + 1
  <2>1. new \in Seq(Lines) /\ Len(new) = emitted + 2
        /\ (\A i \in 1..(emitted + 1) : new[i] = trace[i]) /\ new[emitted + 2] = r
    BY <1>1, <1>2, <1>4, LineAdded
  <2> HIDE DEF new
  <2>2. ASSUME NEW i \in 1..(emitted + 2)
        PROVE  /\ new[i].kind = "step" => new[i].idx = i - 2
               /\ new[i].kind = "footer" => i = emitted + 2 /\ new[i].steps <= i - 2 /\ i - 2 <= new[i].steps + failures
               /\ failures = 0 /\ 2 <= i /\ i < emitted + 2 => new[i].kind = "step"
    <3>1. CASE i = emitted + 2
      BY <1>1, <1>2, <2>1, <3>1
    <3>2. CASE i \in 1..(emitted + 1)
      BY <1>1, <1>4, <2>1, <3>2 DEF GoodLines, OpenLines
    <3> QED BY <1>1, <3>1, <3>2
  <2>3. GoodLines(new, failures)
    BY <1>1, <2>1, <2>2 DEF GoodLines
  <2> QED BY <1>1, <1>4, <2>1, <2>3 DEF new, r
<1>5. CASE /\ TornAtEnd /\ new \in Seq(Lines) /\ Len(new) = Len(trace) /\ Len(trace) = emitted + 2 /\ failures # 0
           /\ \A i \in 1..Len(trace) : new[i] = IF i = Len(trace) THEN Garbage ELSE trace[i]
  <2> HIDE DEF new
  <2>1. Garbage.kind = "garbage"
    BY DEF Garbage
  <2>2. \A i \in 1..Len(new) : new[i].kind # "footer" /\ (new[i].kind = "step" => new[i].idx = i - 2)
    BY <1>1, <1>5, <2>1 DEF GoodLines, OpenLines
  <2>3. GoodLines(new, failures)
    BY <1>5, <2>1, <2>2 DEF GoodLines
  <2> QED BY <1>1, <1>5, <2>3 DEF new, r
<1> QED BY <1>2, <1>4, <1>5, WrittenLines DEF r

\* What a drop or a kill leaves is a beginning of the lines, with a footer only if
\* it is all of them.
LEMMA LeftIsGood ==
    ASSUME NEW lines, NEW fails \in Nat, GoodLines(lines, fails), NEW n \in 0..Len(lines), NEW left \in Left(lines, n)
    PROVE  /\ GoodLines(left, fails) /\ Len(left) \in Nat
           /\ (\A i \in 1..Len(lines) : lines[i].kind # "footer") => \A i \in 1..Len(left) : left[i].kind # "footer"
<1>1. lines \in Seq(Lines) /\ Len(lines) \in Nat /\ \A i \in 1..Len(lines) : lines[i] \in Lines
  <2>1. lines \in Seq(Lines)
    BY DEF GoodLines
  <2> HIDE DEF Lines
  <2> QED BY <2>1, LenProperties, ElementOfSeq
<1>2. ASSUME NEW k \in 0..Len(lines)
      PROVE  /\ SubSeq(lines, 1, k) \in Seq(Lines) /\ Len(SubSeq(lines, 1, k)) = k
             /\ \A i \in 1..k : SubSeq(lines, 1, k)[i] = lines[i]
  <2>1. k \in Int /\ 1 \in Int /\ \A i \in 1..k : lines[i] \in Lines
    BY <1>1
  <2> HIDE DEF Lines
  <2>2. /\ SubSeq(lines, 1, k) \in Seq(Lines) /\ Len(SubSeq(lines, 1, k)) = IF 1 <= k THEN k - 1 + 1 ELSE 0
        /\ \A i \in 1..(k - 1 + 1) : SubSeq(lines, 1, k)[i] = lines[1 + i - 1]
    BY <2>1, SubSeqProperties
  <2> QED BY <1>1, <2>2
<1>3. CASE \E k \in n..Len(lines) : left = SubSeq(lines, 1, k)
  <2>1. PICK k \in 0..Len(lines) : left = SubSeq(lines, 1, k)
    BY <1>1, <1>3
  <2>2. left \in Seq(Lines) /\ Len(left) = k /\ \A i \in 1..k : left[i] = lines[i]
    BY <1>2, <2>1
  <2>3. \A i \in 1..k : i \in 1..Len(lines) /\ (i = Len(lines) => i = k)
    BY <1>1
  <2> QED BY <1>1, <2>2, <2>3 DEF GoodLines
<1>4. CASE \E k \in n..(Len(lines) - 1) : left = Append(SubSeq(lines, 1, k), Torn)
  <2>1. PICK k \in 0..(Len(lines) - 1) : left = Append(SubSeq(lines, 1, k), Torn)
    BY <1>1, <1>4
  <2>2. k \in 0..Len(lines) /\ Torn \in Lines /\ Torn.kind = "torn"
    BY <1>1 DEF Torn, Lines
  <2> DEFINE head == SubSeq(lines, 1, k)
  <2>3. head \in Seq(Lines) /\ Len(head) = k /\ \A i \in 1..k : head[i] = lines[i]
    BY <1>2, <2>2
  <2> HIDE DEF head
  <2>4. left \in Seq(Lines) /\ Len(left) = k + 1 /\ (\A i \in 1..k : left[i] = lines[i]) /\ left[k + 1] = Torn
    <3>1. left = Append(head, Torn)
      BY <2>1 DEF head
    <3> QED BY <2>2, <2>3, <3>1, LineAdded
  <2>5. ASSUME NEW i \in 1..(k + 1)
        PROVE  /\ left[i].kind # "footer" /\ (left[i].kind = "step" => left[i].idx = i - 2)
               /\ fails = 0 /\ 2 <= i /\ i < k + 1 => left[i].kind = "step"
    <3>1. CASE i = k + 1
      BY <2>2, <2>4, <3>1
    <3>2. CASE i \in 1..k
      <4>1. i \in 1..Len(lines) /\ i < Len(lines)
        BY <1>1, <2>1, <3>2
      <4> QED BY <2>4, <3>2, <4>1 DEF GoodLines
    <3> QED BY <2>1, <3>1, <3>2
  <2>6. k \in Nat
    BY <2>1
  <2> HIDE DEF Lines
  <2> QED BY <2>4, <2>5, <2>6 DEF GoodLines
<1> QED BY <1>3, <1>4 DEF Left

\* A writer that is gone has left its lines in the file.
LEMMA DroppedKeeps ==
    ASSUME DtInv, NEW lines, GoodLines(lines, failures), onDisk \in 0..Len(lines), Dropped(lines, onDisk),
           writer' \in {"failed", "refused", "killed"}, UNCHANGED <<emitted, acked, failures>>,
           writer' # "failed" => \A i \in 1..Len(lines) : lines[i].kind # "footer"
    PROVE  DtInv'
<1>1. trace' \in Left(lines, onDisk) /\ onDisk' = Len(trace') /\ failures \in Nat
  BY DEF Dropped, DtInv
<1>2. /\ GoodLines(trace', failures) /\ Len(trace') \in Nat
      /\ (\A i \in 1..Len(lines) : lines[i].kind # "footer") => \A i \in 1..Len(trace') : trace'[i].kind # "footer"
  BY <1>1, LeftIsGood
<1>3. GoodLines(trace, failures)' /\ onDisk' \in 0..Len(trace')
  BY <1>1, <1>2 DEF GoodLines
<1> QED BY <1>2, <1>3 DEF DtInv

LEMMA CreateKeeps == ASSUME DtInv, NEW h \in Headers, Create(h) PROVE DtInv'
<1>1. /\ <<h>> \in Seq(Lines) /\ Len(<<h>>) = 1 /\ <<h>>[1] = h /\ h.kind = "header"
      /\ {emitted, acked, failures} \subseteq Nat /\ acked <= emitted /\ emitted <= acked + failures
      /\ Len(trace) \in Nat
  <2>1. <<h>> \in Seq(Lines) /\ h.kind = "header"
    BY DEF Lines, Headers
  <2>2. GoodLines(trace, failures)
    BY DEF DtInv
  <2>3. trace \in Seq(Lines)
    BY <2>2 DEF GoodLines
  <2> QED BY <2>1, <2>3, LenProperties DEF DtInv
<1>2. \A i \in 1..Len(<<h>>) : i = 1 /\ <<h>>[i].kind = "header"
  BY <1>1
<1>3. GoodLines(<<h>>, failures)
  BY <1>1, <1>2 DEF GoodLines
<1>4. CASE trace' = <<h>> /\ onDisk' \in 0..1 /\ writer' = "open"
  <2>1. GoodLines(trace, failures)'
    BY <1>3, <1>4 DEF Create, GoodLines
  <2>2. emitted = 0 => OpenLines(trace', emitted, failures)
    <3>1. <<h>> # <<>>
      OBVIOUS
    <3> QED BY <1>1, <1>2, <1>4, <3>1 DEF OpenLines
  <2> QED BY <1>1, <1>2, <1>4, <2>1, <2>2 DEF Create, DtInv, OpenLines
<1>5. CASE Dropped(<<h>>, 0) /\ writer' = "failed"
  <2>1. trace' \in Left(<<h>>, 0) /\ onDisk' = Len(trace') /\ 0 \in 0..Len(<<h>>) /\ failures \in Nat
    BY <1>1, <1>5 DEF Dropped
  <2>2. GoodLines(trace', failures) /\ Len(trace') \in Nat
    BY <1>3, <2>1, LeftIsGood
  <2>3. GoodLines(trace, failures)' /\ onDisk' \in 0..Len(trace')
    BY <2>1, <2>2 DEF Create, GoodLines
  <2> QED BY <1>1, <1>5, <2>3 DEF Create, DtInv
<1> QED BY <1>4, <1>5 DEF Create

\* More lines, and what of them is on disk.
LEMMA OnDiskGrows ==
    ASSUME NEW m \in Nat, NEW n \in Nat, m <= n, NEW k \in 0..m, NEW d, d \in k..n \/ d = n PROVE d \in 0..n
  OBVIOUS

LEMMA AppendKeeps ==
    ASSUME DtInv, NEW k \in 0..MaxSteps, AppendStep(k) \/ AppendFlushFails(k) PROVE DtInv'
<1>1. /\ writer = "open" /\ writer' = "open" /\ k = emitted /\ trace' = Written(Step(emitted))
      /\ emitted' = emitted + 1 /\ failures' \in {failures, failures + 1}
      /\ \/ acked' = acked + 1 /\ failures' = failures
         \/ acked' = acked /\ failures' = failures + 1
      /\ onDisk' = Len(trace') \/ onDisk' \in onDisk..Len(trace')
  BY DEF AppendStep, AppendFlushFails
<1>2. /\ GoodLines(trace', failures') /\ OpenLines(trace', emitted + 1, failures')
      /\ Len(trace') \in Nat /\ Len(trace) <= Len(trace')
  BY <1>1, StepWritten
<1>3. GoodLines(trace, failures)' /\ OpenLines(trace, emitted, failures)'
  BY <1>1, <1>2 DEF GoodLines, OpenLines
<1>4. Len(trace) \in Nat /\ onDisk \in 0..Len(trace)
  <2>1. trace \in Seq(Lines) /\ onDisk \in 0..Len(trace)
    BY DEF DtInv, GoodLines
  <2> QED BY <2>1, LenProperties
<1>5. onDisk' \in 0..Len(trace')
  BY <1>1, <1>2, <1>4, OnDiskGrows
<1>6. /\ {emitted', acked', failures'} \subseteq Nat /\ acked' <= emitted' /\ emitted' <= acked' + failures'
  BY <1>1 DEF DtInv
<1> QED BY <1>1, <1>3, <1>5, <1>6 DEF DtInv, OpenLines

\* A step that is not written leaves the lines, and perhaps the rest of its own.
LEMMA AppendFailsKeeps ==
    ASSUME DtInv, NEW k \in 0..MaxSteps, AppendFails(k) PROVE DtInv'
<1>1. /\ writer = "open" /\ writer' = "open" /\ failures' = failures + 1 /\ UNCHANGED <<emitted, acked>>
      /\ trace' = trace \/ (~TornAtEnd /\ trace' = Append(trace, Torn))
      /\ onDisk' \in onDisk..Len(trace')
  BY DEF AppendFails, WriteFails
<1>2. /\ GoodLines(trace, failures) /\ OpenLines(trace, emitted, failures) /\ trace \in Seq(Lines)
      /\ {emitted, acked, failures} \subseteq Nat /\ acked <= emitted /\ emitted <= acked + failures
      /\ onDisk \in 0..Len(trace) /\ Len(trace) \in Nat
  <2>1. /\ GoodLines(trace, failures) /\ OpenLines(trace, emitted, failures) /\ trace \in Seq(Lines)
        /\ {emitted, acked, failures} \subseteq Nat /\ acked <= emitted /\ emitted <= acked + failures
        /\ onDisk \in 0..Len(trace)
    BY <1>1 DEF DtInv, GoodLines
  <2> QED BY <2>1, LenProperties
<1>3. failures' \in Nat /\ failures' # 0 /\ emitted' <= acked' + failures'
  BY <1>1, <1>2
<1>4. CASE trace' = trace
  <2>1. GoodLines(trace, failures)'
    BY <1>1, <1>2, <1>3, <1>4 DEF GoodLines, OpenLines
  <2>2. OpenLines(trace, emitted, failures)'
    BY <1>1, <1>2, <1>3, <1>4 DEF OpenLines
  <2>3. onDisk' \in 0..Len(trace')
    BY <1>1, <1>2, <1>4
  <2> QED BY <1>1, <1>2, <1>3, <2>1, <2>2, <2>3 DEF DtInv, OpenLines
<1>5. CASE ~TornAtEnd /\ trace' = Append(trace, Torn)
  <2>1. trace # <<>> /\ trace[Len(trace)].kind # "torn"
    BY <1>2, <1>5 DEF TornAtEnd, OpenLines
  <2>2. Len(trace) = emitted + 1
    BY <1>2, <2>1 DEF OpenLines
  <2>3. Torn \in Lines /\ Torn.kind = "torn"
    BY DEF Torn, Lines
  <2>4. trace' \in Seq(Lines) /\ trace' # <<>> /\ Len(trace') = emitted + 2
        /\ (\A i \in 1..(emitted + 1) : trace'[i] = trace[i]) /\ trace'[emitted + 2] = Torn
    BY <1>2, <1>5, <2>2, <2>3, LineAdded
  <2>5. ASSUME NEW i \in 1..(emitted + 2)
        PROVE  trace'[i].kind # "footer" /\ (trace'[i].kind = "step" => trace'[i].idx = i - 2)
    <3>1. CASE i = emitted + 2
      BY <2>3, <2>4, <3>1
    <3>2. CASE i \in 1..(emitted + 1)
      BY <1>2, <2>2, <2>4, <3>2 DEF GoodLines, OpenLines
    <3> QED BY <1>2, <3>1, <3>2
  <2>6. GoodLines(trace, failures)'
    BY <1>3, <2>4, <2>5 DEF GoodLines
  <2>7. OpenLines(trace, emitted, failures)'
    BY <1>1, <1>2, <1>3, <2>3, <2>4, <2>5 DEF OpenLines
  <2>8. onDisk' \in 0..Len(trace')
    BY <1>1, <1>2, <2>4
  <2> QED BY <1>1, <1>2, <1>3, <2>6, <2>7, <2>8 DEF DtInv, OpenLines
<1> QED BY <1>1, <1>4, <1>5

LEMMA FinalizeKeeps ==
    ASSUME DtInv, NEW tier \in Tiers, FinalizeTrace(Footer(tier)) PROVE DtInv'
<1> DEFINE f == Footer(tier)
           new == Written(f)
<1>1. writer = "open" /\ UNCHANGED <<emitted, acked, failures>> /\ GoodLines(trace, failures) /\ onDisk \in 0..Len(trace)
      /\ trace \in Seq(Lines) /\ \A i \in 1..Len(trace) : trace[i].kind # "footer"
  BY DEF FinalizeTrace, DtInv, OpenLines, GoodLines
<1>2. Len(trace) \in Nat
  BY <1>1, LenProperties
<1>3. GoodLines(new, failures) /\ Len(new) \in Nat /\ Len(trace) <= Len(new)
  BY <1>1, FooterWritten
<1>4. CASE writer' = "refused" /\ Dropped(trace, onDisk)
  BY <1>1, <1>4, DroppedKeeps
<1>5. CASE writer' = "done" /\ trace' = new /\ onDisk' = Len(trace')
  <2>1. GoodLines(trace, failures)' /\ onDisk' \in 0..Len(trace')
    BY <1>1, <1>3, <1>5 DEF GoodLines
  <2> HIDE DEF new
  <2> QED BY <1>1, <1>5, <2>1 DEF DtInv
<1>6. CASE writer' = "failed" /\ Dropped(new, onDisk)
  <2>1. onDisk \in 0..Len(new)
    BY <1>1, <1>2, <1>3
  <2> QED BY <1>1, <1>3, <1>6, <2>1, DroppedKeeps
<1> QED BY <1>4, <1>5, <1>6 DEF FinalizeTrace

LEMMA DtStepKeeps == DtInv /\ DtStep => DtInv'
<1> SUFFICES ASSUME DtInv, DtStep PROVE DtInv'
  OBVIOUS
<1>1. CASE Killed
  <2>1. /\ GoodLines(trace, failures) /\ onDisk \in 0..Len(trace) /\ \A i \in 1..Len(trace) : trace[i].kind # "footer"
    BY <1>1 DEF DtInv, OpenLines, Killed
  <2> QED BY <1>1, <2>1, DroppedKeeps DEF Killed
<1> QED BY <1>1, CreateKeeps, AppendKeeps, AppendFailsKeeps, FinalizeKeeps DEF DtStep

\* The file is the beginning of the trace, and all of it when there is a footer.
LEMMA FileIsWhole == DtInv => FooterMeansWhole
<1> SUFFICES ASSUME DtInv PROVE FooterMeansWhole
  OBVIOUS
<1>1. GoodLines(trace, failures) /\ trace \in Seq(Lines) /\ onDisk \in 0..Len(trace)
  BY DEF DtInv, GoodLines
<1>2. Len(trace) \in Nat /\ \A i \in 1..Len(trace) : trace[i] \in Lines
  <2> HIDE DEF Lines
  <2> QED BY <1>1, LenProperties, ElementOfSeq
<1>3. Len(File) = onDisk /\ DOMAIN File = 1..onDisk /\ \A i \in 1..onDisk : File[i] = trace[i]
  BY <1>1, <1>2 DEF File
<1>4. \A i \in 1..onDisk : i \in 1..Len(trace)
  BY <1>1, <1>2
<1> SUFFICES ASSUME NEW i \in 1..onDisk
             PROVE  /\ File[i].kind = "step" => File[i].idx = i - 2
                    /\ File[i].kind = "footer" =>
                        /\ writer \in {"done", "failed"} /\ i = Len(File)
                        /\ File[i].steps <= i - 2 /\ i - 2 <= File[i].steps + failures
                        /\ failures = 0 => \A j \in 2..(i - 1) : File[j].kind = "step"
  BY <1>3 DEF FooterMeansWhole
<1>5. File[i].kind = "step" => File[i].idx = i - 2
  BY <1>1, <1>3, <1>4 DEF GoodLines
<1>6. ASSUME File[i].kind = "footer"
      PROVE  /\ writer \in {"done", "failed"} /\ i = Len(File)
             /\ File[i].steps <= i - 2 /\ i - 2 <= File[i].steps + failures
             /\ failures = 0 => \A j \in 2..(i - 1) : File[j].kind = "step"
  <2>1. trace[i].kind = "footer" /\ File[i] = trace[i] /\ i \in 1..Len(trace)
    BY <1>3, <1>4, <1>6
  <2>2. i = Len(trace) /\ trace[i].steps <= i - 2 /\ i - 2 <= trace[i].steps + failures
    BY <1>1, <2>1 DEF GoodLines
  <2>3. i = onDisk
    BY <1>1, <1>2, <2>2
  <2>4. writer \in {"done", "failed"}
    BY <2>1 DEF DtInv
  <2>5. ASSUME failures = 0, NEW j \in 2..(i - 1) PROVE File[j].kind = "step"
    <3>1. j \in 1..onDisk /\ j \in 1..Len(trace) /\ 2 <= j /\ j < Len(trace)
      BY <2>1, <2>2, <2>3
    <3> QED BY <1>1, <1>3, <2>5, <3>1 DEF GoodLines
  <2> QED BY <1>3, <2>1, <2>2, <2>3, <2>4, <2>5
<1> QED BY <1>5, <1>6

-----------------------------------------------------------------------------
(* The whole *)

TracingInv == SoftInv /\ HwInv /\ GuardInv /\ OepInv /\ MmInv /\ DtInv

LEMMA TracingStarts == TracingInit => TracingInv
<1> SUFFICES ASSUME TracingInit PROVE TracingInv
  OBVIOUS
<1>1. SoftInv
  BY DEF TracingInit, BpInit, SoftInv, CodeIsTargets
<1>2. HwInv
  <2>1. /\ thread = [dr |-> [i \in HwSlots |-> 0], dr7 |-> {}, tf |-> FALSE, rip |-> 0, suspended |-> 0]
        /\ call = NoCall /\ hw = [i \in HwSlots |-> Absent] /\ control = [tf |-> FALSE, rip |-> 0]
        /\ stuck = 0
    BY DEF TracingInit, BpInit
  <2>2. thread \in Threads
    BY <2>1 DEF Threads
  <2>3. Dr7MatchesSlots
    BY <2>1 DEF Dr7MatchesSlots
  <2> QED BY <2>1, <2>2, <2>3 DEF HwInv, NoCall
<1>3. GuardInv
  <2>1. /\ wanted \in [Pages -> Rights] /\ protect = [p \in Pages |-> [base |-> wanted[p], guard |-> FALSE]]
        /\ asked = [p \in Pages |-> None] /\ old = [p \in Pages |-> None]
        /\ entries = <<>> /\ dropped = 0 /\ seen = <<>>
    BY DEF TracingInit, GuardInit
  <2>2. \A p \in Pages : PageInv(p)
    BY <2>1 DEF PageInv
  <2>3. LogIsNewest
    <3>1. SubSeq(<<>>, 0 + 1, 0) = <<>> /\ Len(<<>>) = 0
      OBVIOUS
    <3> QED BY <2>1, <3>1 DEF LogIsNewest
  <2>4. entries \in Seq([access : Accesses, page : Pages]) /\ seen \in Seq([access : Accesses, page : Pages])
    BY <2>1
  <2> QED BY <2>1, <2>2, <2>3, <2>4 DEF GuardInv, Protects
<1>4. OepInv
  <2>1. candidates = <<>> /\ samples = <<>>
    BY DEF TracingInit, OepInit
  <2>2. DOMAIN candidates = {} /\ candidates = [va \in {} |-> 0]
    BY <2>1
  <2>3. IsFiniteSet(DOMAIN candidates)
    BY <2>2, FS_EmptySet
  <2>4. candidates \in [DOMAIN candidates -> [signals : SUBSET Signals, region : RegionIds]]
    BY <2>2
  <2>5. samples \in Seq([ts : Nat, region : RegionIds, level : Levels])
    BY <2>1
  <2>6. CandidatesWereExecuted
    BY <2>2 DEF CandidatesWereExecuted
  <2> QED BY <2>2, <2>3, <2>4, <2>5, <2>6 DEF OepInv
<1>5. WalkInv
  <2>1. page \in [0..(Ceiling - 1) -> PageTypes] /\ walk = Idle
    BY DEF TracingInit, MmInit
  <2>2. Idle \in Walks
    BY MemoryAssumption DEF Idle, Walks
  <2>3. 0 \in 0..walk.addr /\ InRow(walk.captured, 0, 0) /\ InRow(walk.out, 0, walk.addr)
    BY <2>1, EmptyInRow DEF Idle
  <2> QED BY <2>1, <2>2, <2>3 DEF WalkInv
<1>6. BlobsInv
  BY DEF TracingInit, MmInit, BlobsInv, ManifestHasBlobs, Idle
<1>7. DtInv
  BY DEF TracingInit, DtInit, DtInv, GoodLines
<1> QED BY <1>1, <1>2, <1>3, <1>4, <1>5, <1>6, <1>7 DEF TracingInv, MmInv

LEMMA SoftKept == SoftInv /\ UNCHANGED softv => SoftInv'
  BY DEF SoftInv, softv, CodeIsTargets, Held

LEMMA HwKept == HwInv /\ UNCHANGED hwv => HwInv'
  BY DEF HwInv, hwv, Dr7MatchesSlots

LEMMA GuardKept == GuardInv /\ UNCHANGED gvars => GuardInv'
  BY DEF GuardInv, gvars, LogIsNewest, PageInv

LEMMA OepKept == OepInv /\ UNCHANGED oepvars => OepInv'
  BY DEF OepInv, oepvars, CandidatesWereExecuted, InAllocation

LEMMA MmKept == MmInv /\ UNCHANGED mmvars => MmInv'
  BY DEF MmInv, WalkInv, BlobsInv, ManifestHasBlobs, mmvars

LEMMA DtKept == DtInv /\ UNCHANGED dtvars => DtInv'
  BY DEF DtInv, GoodLines, OpenLines, dtvars

\* A step of one of the primitives keeps its part and leaves the others alone.
LEMMA TracingStepKeeps == TracingInv /\ [TracingNext]_allvars => TracingInv'
<1> SUFFICES ASSUME TracingInv, [TracingNext]_allvars PROVE TracingInv'
  OBVIOUS
<1> USE SoftKept, HwKept, GuardKept, OepKept, MmKept, DtKept DEF TracingInv, bpvars
<1>1. CASE BpSoftStep /\ UNCHANGED <<gvars, oepvars, mmvars, dtvars>>
  <2>1. UNCHANGED hwv
    BY <1>1 DEF BpSoftStep, SoftInstall, SoftRestore, TargetWrites
  <2> QED BY <1>1, <2>1, SoftStepKeeps
<1>2. CASE BpHwStep /\ UNCHANGED <<gvars, oepvars, mmvars, dtvars>>
  <2>1. UNCHANGED softv
    BY <1>2 DEF BpHwStep, Suspend, GetContext, SetContext, SetContextFails, ResumeThread, TargetRuns
  <2> QED BY <1>2, <2>1, HwStepKeeps
<1>3. CASE GuardStep /\ UNCHANGED <<bpvars, oepvars, mmvars, dtvars>>
  BY <1>3, GuardStepKeeps
<1>4. CASE (EntropyStep \/ OepStep) /\ UNCHANGED <<bpvars, gvars, mmvars, dtvars>>
  BY <1>4, OepStepKeeps
<1>5. CASE MmStep /\ UNCHANGED <<bpvars, gvars, oepvars, dtvars>>
  <2>1. WalkInv' /\ BlobsInv'
    BY <1>5, WalkStepKeeps, BlobsStepKeeps DEF MmInv
  <2> QED BY <1>5, <2>1 DEF MmInv
<1>6. CASE DtStep /\ UNCHANGED <<bpvars, gvars, oepvars, mmvars>>
  BY <1>6, DtStepKeeps
<1>7. CASE UNCHANGED allvars
  BY <1>7 DEF allvars
<1> QED BY <1>1, <1>2, <1>3, <1>4, <1>5, <1>6, <1>7 DEF TracingNext

LEMMA TrapsAreCleanThen == TracingInv => TrapsAreClean
<1> SUFFICES ASSUME TracingInv PROVE TrapsAreClean
  OBVIOUS
<1>1. CodeIsTargets /\ Dr7MatchesSlots
  BY DEF TracingInv, SoftInv, HwInv
<1>2. NoLostProgress
  BY DEF TracingInv, HwInv, NoLostProgress, NoCall
<1>3. LogIsNewest /\ RightsAreTargets
  BY DEF TracingInv, GuardInv, PageInv, RightsAreTargets
<1> QED BY <1>1, <1>2, <1>3 DEF TrapsAreClean

LEMMA TracesAreWholeThen == TracingInv => TracesAreWhole
<1> SUFFICES ASSUME TracingInv PROVE TracesAreWhole
  OBVIOUS
<1>1. CandidatesWereExecuted /\ DropsGoForward /\ BestFirst
  BY DropsFromInv, BestFirstFromInv DEF TracingInv, OepInv
<1>2. RegionsAreDisjoint /\ ManifestHasBlobs
  BY WalksApart DEF TracingInv, MmInv, BlobsInv
<1>3. FooterMeansWhole
  BY FileIsWhole DEF TracingInv
<1> QED BY <1>1, <1>2, <1>3 DEF TracesAreWhole

LEMMA TracingInvHolds == TracingSpec => []TracingInv
  BY TracingStarts, TracingStepKeeps, PTL DEF TracingSpec

\* Whatever order a caller uses the traps in and whichever of its calls of the
\* system fail: code where no breakpoint is held is what the target made it, but where
\* the flush of an install failed (its INT3 is left, and nobody has the byte) or the
\* target wrote under a breakpoint (its byte is overwritten by the older one); every
\* debug register has the breakpoint whose context was set last; a change of a thread's
\* context undoes nothing the thread did, and leaves it suspended only as often as
\* ResumeThread failed; the log of violations is the newest of them; and a page has the
\* base protection the target gave it, but where the target changed it while an older
\* one was held (breakpoints.rs, guard_pages.rs, write_log.rs).
THEOREM TrapsStayClean == TracingSpec => []TrapsAreClean
  BY TracingInvHolds, TrapsAreCleanThen, PTL

\* For every target and however its memory changes while it is walked: a candidate
\* was executed in memory the target allocated and is credited with drops of its
\* own region only, drops lead forward in time, no candidate is listed before one
\* that has its signals and more; the regions of a walk are apart and the manifest
\* names blobs that are on disk; and whichever writes and flushes of a trace fail, a
\* step in the file has the number of its line and a footer is only at the end of a
\* trace, after no fewer lines than the steps it counts and at most one more for each
\* call that failed (oep_detector.rs, entropy_curve.rs, snapshot_capture.rs,
\* snapshot.rs, devirt/trace.rs).
THEOREM TracesStayWhole == TracingSpec => []TracesAreWhole
  BY TracingInvHolds, TracesAreWholeThen, PTL
=============================================================================
