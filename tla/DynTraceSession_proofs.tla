----------------------- MODULE DynTraceSession_proofs -----------------------
(***************************************************************************)
(* For every capacity of the channel, every flush interval and any number  *)
(* of events and failing calls: the safety properties of a trace session.  *)
(*                                                                         *)
(* The properties speak of the end of a run, or of the host's death, and   *)
(* are not inductive: Collecting says at which steps the collector is live *)
(* and that a stopped one holds no event, Writing how far the file is      *)
(* behind the events taken, Declaring what the ledger knows of the drops,  *)
(* Placing where a spawned target is before it is resumed.                 *)
(*                                                                         *)
(* And, for all records, filters and states of the channel: what the       *)
(* callback makes of them (TraceAnalysis).                                 *)
(***************************************************************************)
EXTENDS DynTraceSession, TLAPS, Integers, Sequences, FiniteSets, FiniteSetTheorems, FunctionTheorems, SequenceTheorems

CONSTANTS EpochTicks, TickNs, MaxTime, PidSize, EvidenceCap, RefCap, StoreRefCap, TopCap,
          HasPattern(_, _), ServiceName(_), DiscoveryTool(_)
T == INSTANCE TraceAnalysis

Collecting ==
    /\ trace = "off" => kernel = 0
    /\ pc \in {"probe", "spawn", "start", "snapshot", "finalize", "pack", "ledger", "done"} =>
           trace = "off"
    /\ pc \in {"resume", "open", "loop", "recv", "drain", "stop"} => trace = "live"

Placing ==
    opts.target = "spawn" =>
        /\ pc \in {"probe", "spawn"} => proc = "absent"
        /\ pc \in {"start", "resume"} => proc = "suspended"

Writing ==
    ~appendFailed =>
        /\ lines = kept /\ durable <= lines /\ lines <= durable + since
        /\ since < FlushEvery
        /\ pc \in {"probe", "pack", "ledger", "done"} => durable = kept

Declaring ==
    /\ pc = "probe" => drops = 0
    /\ pc \in {"probe", "finalize", "pack", "ledger", "done"} => declared = drops

IInv == TypeOK /\ Collecting /\ Placing /\ Writing /\ Declaring /\ DropsAreDeclared

-----------------------------------------------------------------------------
(* Outcomes                                                                *)

\* A ledger whose artifacts are all complete is complete, an empty one failed.
LEMMA AllComplete ==
    DeriveOutcome(MarkAll(EmptyLedger, Artifacts, "Complete")) = "Complete"
<1> DEFINE m == MarkAll(EmptyLedger, Artifacts, "Complete")
<1>1. DOMAIN m = Artifacts /\ \A n \in Artifacts : m[n] = "Complete"
    BY DEF MarkAll, EmptyLedger
<1>2. "events.ndjson" \in Artifacts
    BY DEF Artifacts
<1> QED
    BY <1>1, <1>2 DEF DeriveOutcome

LEMMA NoneFailed ==
    DeriveOutcome(EmptyLedger) = "Failed"
BY DEF DeriveOutcome, EmptyLedger

\* What the loss policy makes of a complete run, and that it yields an outcome.
LEMMA LossPolicyDecides ==
    ASSUME NEW policy \in LossPolicy, NEW dropped \in Nat
    PROVE  /\ ApplyLossPolicy("Complete", policy, dropped) \in RunOutcome
           /\ ApplyLossPolicy("Failed", policy, dropped) \in RunOutcome
           /\ dropped > 0 =>
                /\ policy = "Warn" => ApplyLossPolicy("Complete", policy, dropped) = "Complete"
                /\ policy = "Partial" => ApplyLossPolicy("Complete", policy, dropped) = "Partial"
                /\ policy = "Fail" => ApplyLossPolicy("Complete", policy, dropped) = "Failed"
BY DEF ApplyLossPolicy, LossPolicy, RunOutcome

\* An error return leaves an outcome or nothing in run_status.json.
LEMMA GiveUpTyped ==
    ASSUME TypeOK, GiveUp
    PROVE  pc' = "err" /\ declared' = declared /\ ledger' \in {"none"} \cup RunOutcome
<1>1. opts.policy \in LossPolicy
    BY DEF TypeOK, Options
<1> QED
    BY <1>1, NoneFailed, LossPolicyDecides DEF TypeOK, GiveUp

-----------------------------------------------------------------------------
(* The invariant is inductive                                              *)

LEMMA InitEstablishes ==
    Init => IInv
<1> SUFFICES ASSUME Init PROVE IInv
    OBVIOUS
<1> USE DynTraceAssumption DEF Init
<1>1. proc \in {"absent", "running", "exited"} /\ (opts.target = "spawn" => proc = "absent")
    OBVIOUS
<1>2. TypeOK
    <2>1. appendFailed \in BOOLEAN /\ stop \in BOOLEAN /\ late \in BOOLEAN
        OBVIOUS
    <2>2. /\ made \in 0..MaxEvents /\ channel \in 0..ChannelCap /\ since \in 0..FlushEvery
          /\ errors \in 0..MaxErrors /\ emitted = kept + channel
          /\ emitted + drops + kernel <= made
        OBVIOUS
    <2> QED
        BY <1>1, <2>1, <2>2 DEF TypeOK, Labels
<1>3. Collecting /\ Placing /\ Writing /\ Declaring /\ DropsAreDeclared
    BY <1>1 DEF Collecting, Placing, Writing, Declaring, DropsAreDeclared
<1> QED
    BY <1>2, <1>3 DEF IInv

\* One event out of the channel: the writer stays within its flush interval.
LEMMA ConsumeKeeps ==
    ASSUME TypeOK, Writing, Consume, pc \in {"recv", "drain"}
    PROVE  /\ channel' \in 0..ChannelCap /\ kept' \in Nat /\ lines' \in Nat
           /\ durable' \in Nat /\ since' \in 0..FlushEvery /\ appendFailed' \in BOOLEAN
           /\ errors' \in 0..MaxErrors
           /\ kept' + channel' = kept + channel
           /\ ~appendFailed' => /\ lines' = kept' /\ durable' <= lines'
                                /\ lines' <= durable' + since' /\ since' < FlushEvery
<1> USE DynTraceAssumption
<1>1. channel' \in 0..ChannelCap /\ kept' \in Nat /\ kept' + channel' = kept + channel
    BY DEF TypeOK, Consume
<1>2. CASE Works /\ AppendEvent /\ UNCHANGED appendFailed
    <2>1. CASE since + 1 >= FlushEvery
        BY <1>1, <1>2, <2>1 DEF TypeOK, Writing, Works, AppendEvent, Consume
    <2>2. CASE ~(since + 1 >= FlushEvery)
        BY <1>1, <1>2, <2>2 DEF TypeOK, Writing, Works, AppendEvent, Consume
    <2> QED
        BY <2>1, <2>2
<1>3. CASE Fails /\ AppendFails
    <2>1. appendFailed'
        BY <1>3 DEF AppendFails
    <2>2. lines' \in Nat /\ durable' \in Nat /\ since' \in 0..FlushEvery
        BY <1>3 DEF TypeOK, AppendFails
    <2>3. errors' \in 0..MaxErrors
        BY <1>3 DEF TypeOK, Fails
    <2>4. appendFailed' \in BOOLEAN
        BY <1>3 DEF AppendFails
    <2> QED
        BY <1>1, <2>1, <2>2, <2>3, <2>4
<1> QED
    BY <1>2, <1>3 DEF Consume

LEMMA StepPreserves ==
    IInv /\ [Next]_vars => IInv'
<1> SUFFICES ASSUME IInv, [Next]_vars PROVE IInv'
    OBVIOUS
<1> USE DynTraceAssumption DEF etwv, filev, stopv, endv
<1>0. opts.policy \in LossPolicy
    BY DEF IInv, TypeOK, Options
<1>1. CASE Unsupported
    BY <1>1, <1>0, NoneFailed
    DEF IInv, TypeOK, Labels, Collecting, Placing, Writing, Declaring, DropsAreDeclared, Unsupported, Bail, Works, Fails, RunOutcome
<1>2. CASE Probe
    BY <1>2, GiveUpTyped
    DEF IInv, TypeOK, Labels, Collecting, Placing, Writing, Declaring, DropsAreDeclared, Probe, Bail, Works, Fails
<1>3. CASE Spawn
    BY <1>3
    DEF IInv, TypeOK, Labels, Collecting, Placing, Writing, Declaring, DropsAreDeclared, Spawn, Bail, Works, Fails
<1>4. CASE Start
    BY <1>4, GiveUpTyped
    DEF IInv, TypeOK, Labels, Collecting, Placing, Writing, Declaring, DropsAreDeclared, Start, Works, Fails, TerminateProcessSilently
<1>5. CASE Resume
    BY <1>5, GiveUpTyped
    DEF IInv, TypeOK, Labels, Collecting, Placing, Writing, Declaring, DropsAreDeclared, Resume, Works, Fails
<1>6. CASE Open
    BY <1>6
    DEF IInv, TypeOK, Labels, Collecting, Placing, Writing, Declaring, DropsAreDeclared, Open, Bail, Works, Fails
<1>7. CASE CheckStop
    BY <1>7
    DEF IInv, TypeOK, Labels, Collecting, Placing, Writing, Declaring, DropsAreDeclared, CheckStop, Works
<1>8. CASE Recv
    BY <1>8, ConsumeKeeps
    DEF IInv, TypeOK, Labels, Collecting, Placing, Writing, Declaring, DropsAreDeclared, Recv
<1>9. CASE Timeout
    BY <1>9
    DEF IInv, TypeOK, Labels, Collecting, Placing, Writing, Declaring, DropsAreDeclared, Timeout, Works
<1>10. CASE Drain
    BY <1>10, ConsumeKeeps
    DEF IInv, TypeOK, Labels, Collecting, Placing, Writing, Declaring, DropsAreDeclared, Drain
<1>11. CASE Drained
    BY <1>11
    DEF IInv, TypeOK, Labels, Collecting, Placing, Writing, Declaring, DropsAreDeclared, Drained, Works
<1>12. CASE StopCollector
    BY <1>12
    DEF IInv, TypeOK, Labels, Collecting, Placing, Writing, Declaring, DropsAreDeclared, StopCollector, Bail, Works, Fails
<1>13. CASE Snapshot
    BY <1>13
    DEF IInv, TypeOK, Labels, Collecting, Placing, Writing, Declaring, DropsAreDeclared, Snapshot, Works
<1>14. CASE FinalizeWriter
    BY <1>14
    DEF IInv, TypeOK, Labels, Collecting, Placing, Writing, Declaring, DropsAreDeclared, FinalizeWriter, Bail, Works, Fails
<1>15. CASE EmitPack
    BY <1>15
    DEF IInv, TypeOK, Labels, Collecting, Placing, Writing, Declaring, DropsAreDeclared, EmitPack, Bail, Works, Fails
<1>16. CASE FinalizeLedger
    BY <1>16, <1>0, AllComplete, LossPolicyDecides
    DEF IInv, TypeOK, Labels, Collecting, Placing, Writing, Declaring, DropsAreDeclared, FinalizeLedger, Bail, Works, Fails
<1>17. CASE MakeEvent
    BY <1>17
    DEF IInv, TypeOK, Labels, Collecting, Placing, Writing, Declaring, DropsAreDeclared, MakeEvent
<1>18. CASE Callback
    BY <1>18
    DEF IInv, TypeOK, Labels, Collecting, Placing, Writing, Declaring, DropsAreDeclared, Callback
<1>19. CASE TargetExits
    BY <1>19
    DEF IInv, TypeOK, Labels, Collecting, Placing, Writing, Declaring, DropsAreDeclared, TargetExits
<1>20. CASE Clock
    BY <1>20
    DEF IInv, TypeOK, Labels, Collecting, Placing, Writing, Declaring, DropsAreDeclared, Clock
<1>21. CASE CtrlC
    BY <1>21
    DEF IInv, TypeOK, Labels, Collecting, Placing, Writing, Declaring, DropsAreDeclared, CtrlC
<1>22. CASE Kill
    BY <1>22
    DEF IInv, TypeOK, Labels, Collecting, Placing, Writing, Declaring, DropsAreDeclared, Kill, Over
<1>23. CASE UNCHANGED vars
    BY <1>23 DEF IInv, TypeOK, Labels, Collecting, Placing, Writing, Declaring, DropsAreDeclared, vars
<1> QED
    BY <1>1, <1>2, <1>3, <1>4, <1>5, <1>6, <1>7, <1>8, <1>9, <1>10, <1>11, <1>12,
       <1>13, <1>14, <1>15, <1>16, <1>17, <1>18, <1>19, <1>20, <1>21, <1>22, <1>23
    DEF Next, SessionStep

-----------------------------------------------------------------------------
(* Theorems                                                                *)

LEMMA Invariant ==
    Spec => []IInv
<1>1. Init => IInv
    BY InitEstablishes
<1>2. IInv /\ [Next]_vars => IInv'
    BY StepPreserves
<1> QED
    BY <1>1, <1>2, PTL DEF Spec

\* Types; the channel stays within its capacity and every event it accepted is in
\* it or was taken out, while the callback thread adds to it (etw.rs:82-96).
THEOREM TypeCorrect ==
    Spec => []TypeOK
<1>1. IInv => TypeOK
    BY DynTraceAssumption DEF IInv
<1> QED
    BY <1>1, Invariant, PTL

\* dyn_run_status.rs:164-166: every drop the callback thread counted is in the
\* ledger and decides the outcome as the loss policy says.
THEOREM DropsDeclared ==
    Spec => []DropsAreDeclared
<1>1. IInv => DropsAreDeclared
    BY DynTraceAssumption DEF IInv
<1> QED
    BY <1>1, Invariant, PTL

\* session.rs:7-9: a spawned target runs only while the collector is live.
THEOREM NothingUntraced ==
    Spec => []TracedFromTheStart
<1>1. IInv => TracedFromTheStart
    BY DynTraceAssumption DEF IInv, Collecting, Placing, TracedFromTheStart
<1> QED
    BY <1>1, Invariant, PTL

\* store.rs:11-12: whenever the host dies, fewer than FlushEvery of the events
\* taken out of the channel are not on disk.
THEOREM CrashBound ==
    Spec => []CrashLosesFew
<1>1. IInv => CrashLosesFew
    BY DynTraceAssumption DEF IInv, TypeOK, Writing, CrashLosesFew
<1> QED
    BY <1>1, Invariant, PTL

\* A finished run has on disk as many lines as its ledger counts (session.rs:233-244).
THEOREM LedgerAgrees ==
    Spec => []LedgerCountsLines
<1>1. IInv => LedgerCountsLines
    BY DynTraceAssumption DEF IInv, Writing, LedgerCountsLines
<1> QED
    BY <1>1, Invariant, PTL

\* store.rs:11-12 and session.rs:233-244: what a crash can lose is bounded at
\* every moment, and a written ledger has lost nothing.
THEOREM LossBound ==
    Spec => []LossIsBounded
<1>1. IInv => LossIsBounded
    BY DynTraceAssumption DEF IInv, TypeOK, Writing, LossIsBounded, CrashLosesFew, LedgerCountsLines
<1> QED
    BY <1>1, Invariant, PTL

-----------------------------------------------------------------------------
(* The events of the collector                                             *)

\* Induction over the natural numbers with the induction hypothesis as a set:
\* if the set misses x, adding one maps what it has below x into itself, without
\* ever reaching 0.
LEMMA NatSetInduction ==
    ASSUME NEW P \in SUBSET Nat, 0 \in P, \A n \in P : n + 1 \in P
    PROVE  P = Nat
<1> SUFFICES ASSUME NEW x \in Nat, x \notin P PROVE FALSE
  OBVIOUS
<1> DEFINE Q == {n \in 0..x : n \in P}
           f == [n \in Q |-> n + 1]
<1>1. \A n \in Q : n \in Nat /\ n + 1 \in Q
  <2> SUFFICES ASSUME NEW n \in Q PROVE n \in Nat /\ n + 1 \in Q
    OBVIOUS
  <2>1. n \in 0..x /\ n \in P /\ n # x
    OBVIOUS
  <2>2. n + 1 \in 0..x
    BY <2>1
  <2> QED BY <2>1, <2>2
<1>2. IsFiniteSet(Q)
  <2>1. IsFiniteSet(0..x)
    BY FS_Interval
  <2>2. Q \subseteq 0..x
    OBVIOUS
  <2> QED BY <2>1, <2>2, FS_Subset
<1> HIDE DEF Q
<1>3. f \in [Q -> Q] /\ \A m, n \in Q : f[m] = f[n] => m = n
  BY <1>1
<1>4. f \in Injection(Q, Q)
  BY <1>3, Fun_IsInj
<1>5. f \in Surjection(Q, Q)
  BY <1>2, <1>4, FS_Injection
<1>6. 0 \in Q
  BY DEF Q
<1>7. PICK n \in Q : f[n] = 0
  BY <1>5, <1>6 DEF Surjection
<1> QED BY <1>1, <1>7

\* What was collected after n records, in a run of m.
Seen(g, records, ctx, full, n) ==
    IF n = 0 THEN [counter |-> 0, drops |-> 0, events |-> <<>>]
    ELSE T!Callback(g[n - 1], records[n], ctx, n \in full)
Stages(g, records, ctx, full, m) == g = [n \in 0..m |-> Seen(g, records, ctx, full, n)]

LEMMA StagesExist ==
    ASSUME NEW records, NEW ctx, NEW full, NEW m \in Nat
    PROVE  \E g : Stages(g, records, ctx, full, m)
<1> DEFINE R(g, n) == Stages(g, records, ctx, full, n)
           P == {n \in Nat : \E g : R(g, n)}
<1>1. 0 \in P
  <2> DEFINE g == [n \in 0..0 |-> [counter |-> 0, drops |-> 0, events |-> <<>>]]
  <2>1. R(g, 0)
    <3>1. \A n \in 0..0 : n = 0
      OBVIOUS
    <3> QED BY <3>1 DEF Stages, Seen
  <2> QED BY <2>1
<1>2. ASSUME NEW n \in P PROVE n + 1 \in P
  <2>1. PICK g : R(g, n)
    OBVIOUS
  <2> DEFINE e == T!Callback(g[n], records[n + 1], ctx, n + 1 \in full)
             gg == [i \in 0..(n + 1) |-> IF i = n + 1 THEN e ELSE g[i]]
  <2>2. n \in Nat
    OBVIOUS
  <2>3. \A i \in 0..n : g[i] = Seen(g, records, ctx, full, i)
    BY <2>1 DEF Stages
  <2> HIDE DEF e
  <2>4. ASSUME NEW i \in 0..(n + 1)
        PROVE  gg[i] = Seen(gg, records, ctx, full, i)
    <3>1. CASE i = n + 1
      <4>1. gg[i] = e /\ gg[n] = g[n] /\ i # 0 /\ i - 1 = n
        BY <2>2, <3>1
      <4> QED BY <3>1, <4>1 DEF e, Seen
    <3>2. CASE i # n + 1 /\ i # 0
      <4>1. i \in 0..n /\ i - 1 \in 0..(n + 1) /\ i - 1 # n + 1
        BY <2>2, <3>2
      <4>2. gg[i] = g[i] /\ gg[i - 1] = g[i - 1]
        BY <3>2, <4>1
      <4> QED BY <2>3, <3>2, <4>1, <4>2 DEF Seen
    <3>3. CASE i = 0
      <4>1. 0 \in 0..n /\ 0 # n + 1
        BY <2>2
      <4> QED BY <2>3, <3>3, <4>1 DEF Seen
    <3> QED BY <3>1, <3>2, <3>3
  <2>5. R(gg, n + 1)
    BY <2>4 DEF Stages
  <2> QED BY <2>2, <2>5
<1>3. P = Nat
  <2>1. P \in SUBSET Nat
    OBVIOUS
  <2> HIDE DEF P
  <2> QED BY <1>1, <1>2, <2>1, NatSetInduction
<1> QED BY <1>3

LEMMA CollectStages ==
    ASSUME NEW records, Len(records) \in Nat, NEW ctx, NEW full
    PROVE  \E g : /\ Stages(g, records, ctx, full, Len(records))
                  /\ T!Collect(records, ctx, full) = g[Len(records)]
<1> DEFINE g == CHOOSE f : f = [n \in 0..Len(records) |->
                    IF n = 0 THEN [counter |-> 0, drops |-> 0, events |-> <<>>]
                    ELSE T!Callback(f[n - 1], records[n], ctx, n \in full)]
<1>1. \E f : Stages(f, records, ctx, full, Len(records))
  BY StagesExist
<1>2. Stages(g, records, ctx, full, Len(records))
  BY <1>1 DEF Stages, Seen
<1>3. T!Collect(records, ctx, full) = g[Len(records)]
  BY DEF T!Collect
<1> QED BY <1>2, <1>3

\* What was collected after n records, as CollectedTruly says it of all.
HeardBy(records, ctx, n) == {i \in 1..n : T!Heard(records[i], ctx)}
Matched(at, t, records, ctx, roomy) ==
    /\ at \in [DOMAIN t.events -> roomy]
    /\ \A i \in roomy : \E k \in DOMAIN t.events : at[k] = i
    /\ \A k \in DOMAIN t.events : T!Tells(t.events[k], records[at[k]], ctx)
    /\ \A j, k \in DOMAIN t.events : j < k => at[j] < at[k] /\ t.events[j].event_id < t.events[k].event_id
Counted(t, records, ctx, n) ==
    /\ t.counter = Cardinality(HeardBy(records, ctx, n)) /\ t.counter = Len(t.events) + t.drops
    /\ \A k \in DOMAIN t.events : t.events[k].event_id \in 1..t.counter
Truly(t, records, ctx, full, n) ==
    /\ \E S : t \in [counter : Nat, drops : Nat, events : Seq(S)]
    /\ Counted(t, records, ctx, n)
    /\ \E at : Matched(at, t, records, ctx, HeardBy(records, ctx, n) \ full)

LEMMA NothingSeen ==
    ASSUME NEW records, NEW ctx, NEW full
    PROVE  Truly([counter |-> 0, drops |-> 0, events |-> <<>>], records, ctx, full, 0)
<1> DEFINE t == [counter |-> 0, drops |-> 0, events |-> <<>>]
<1>1. t.events = <<>> /\ t.counter = 0 /\ t.drops = 0 /\ t \in [counter : Nat, drops : Nat, events : Seq({})]
  OBVIOUS
<1>2. DOMAIN t.events = {} /\ Len(t.events) = 0
  BY <1>1
<1>3. HeardBy(records, ctx, 0) = {} /\ Cardinality({}) = 0
  BY FS_EmptySet DEF HeardBy
<1> HIDE DEF t
<1>4. Counted(t, records, ctx, 0)
  <2>1. t.counter = Cardinality(HeardBy(records, ctx, 0))
    BY <1>1, <1>3
  <2>2. t.counter = Len(t.events) + t.drops
    BY <1>1, <1>2
  <2> QED BY <1>2, <2>1, <2>2 DEF Counted
<1>5. Matched([k \in {} |-> 0], t, records, ctx, HeardBy(records, ctx, 0) \ full)
  BY <1>2, <1>3 DEF Matched
<1>6. Truly(t, records, ctx, full, 0)
  BY <1>1, <1>4, <1>5 DEF Truly
<1> QED BY <1>6 DEF t

\* The callback, case by case.
NewOf(t, r, ctx) == T!NewEvent(t.counter, ctx, T!EtwTsToNs(r.raw), r.pid, r.tid, T!ParseEvent(r)[1])
CallbackDoes(next, t, r, ctx, i, full) ==
    /\ ~T!Heard(r, ctx) => next = t
    /\ T!Heard(r, ctx) /\ i \in full => next = [counter |-> t.counter + 1, drops |-> t.drops + 1, events |-> t.events]
    /\ T!Heard(r, ctx) /\ i \notin full =>
           next = [counter |-> t.counter + 1, drops |-> t.drops, events |-> Append(t.events, NewOf(t, r, ctx))]
    /\ NewOf(t, r, ctx).event_id = t.counter + 1 /\ T!Tells(NewOf(t, r, ctx), r, ctx)

LEMMA CallbackCases ==
    ASSUME NEW t, NEW S, t \in [counter : Nat, drops : Nat, events : Seq(S)], NEW r, NEW ctx, NEW i, NEW full
    PROVE  CallbackDoes(T!Callback(t, r, ctx, i \in full), t, r, ctx, i, full)
<1> DEFINE ev == NewOf(t, r, ctx)
           n == T!NormalizeEtw(t.counter, r, ctx)
<1>1. ev.event_id = t.counter + 1
  BY DEF NewOf, T!NewEvent
<1>2. t.counter \in Nat /\ t.drops \in Nat /\ t = [counter |-> t.counter, drops |-> t.drops, events |-> t.events]
  OBVIOUS
<1>3. T!Tells(ev, r, ctx)
  <2>1. ev.event_id - 1 = t.counter
    BY <1>1, <1>2
  <2> QED BY <2>1 DEF NewOf, T!Tells
<1>4. CASE ~T!Heard(r, ctx)
  <2>1. n = [counter |-> t.counter, event |-> T!None]
    BY <1>4 DEF T!Heard, T!NormalizeEtw
  <2>2. T!Callback(t, r, ctx, i \in full) = [t EXCEPT !.counter = t.counter]
    BY <2>1 DEF T!Callback
  <2> QED BY <1>1, <1>2, <1>3, <1>4, <2>2 DEF CallbackDoes
<1>5. CASE T!Heard(r, ctx)
  <2> HIDE DEF ev
  <2>1. n = [counter |-> t.counter + 1, event |-> T!Some(ev)]
    BY <1>5 DEF T!Heard, T!NormalizeEtw, NewOf, ev
  <2>2. n.event # T!None /\ n.event[1] = ev /\ n.counter = t.counter + 1
    BY <2>1 DEF T!None, T!Some
  <2> HIDE DEF n
  <2>3. T!Callback(t, r, ctx, i \in full) =
            IF i \in full THEN [t EXCEPT !.counter = n.counter, !.drops = @ + 1]
            ELSE [t EXCEPT !.counter = n.counter, !.events = Append(@, n.event[1])]
    BY <2>2 DEF T!Callback, n
  <2>4. CASE i \in full
    BY <1>1, <1>2, <1>3, <1>5, <2>2, <2>3, <2>4 DEF CallbackDoes, ev
  <2>5. CASE i \notin full
    <3>1. T!Callback(t, r, ctx, i \in full) = [counter |-> t.counter + 1, drops |-> t.drops, events |-> Append(t.events, ev)]
      BY <1>2, <2>2, <2>3, <2>5
    <3> QED BY <1>1, <1>3, <1>5, <2>5, <3>1 DEF CallbackDoes, ev
  <2> QED BY <2>4, <2>5
<1> QED BY <1>4, <1>5

LEMMA RecordSeen ==
    ASSUME NEW records, NEW ctx, NEW full, NEW n \in Nat, NEW t, Truly(t, records, ctx, full, n)
    PROVE  Truly(T!Callback(t, records[n + 1], ctx, n + 1 \in full), records, ctx, full, n + 1)
<1> DEFINE H == HeardBy(records, ctx, n)
           r == records[n + 1]
           ev == NewOf(t, r, ctx)
           next == T!Callback(t, r, ctx, n + 1 \in full)
           K == H \ full
<1>1. PICK S : t \in [counter : Nat, drops : Nat, events : Seq(S)]
  BY DEF Truly
<1>2. PICK at : Matched(at, t, records, ctx, K)
  BY DEF Truly
<1>3. Counted(t, records, ctx, n)
  BY DEF Truly
<1>4. IsFiniteSet(H) /\ H \subseteq 1..n /\ n + 1 \notin H
  <2>1. H \subseteq 1..n
    BY DEF HeardBy
  <2> QED BY <2>1, FS_Interval, FS_Subset
<1>5. HeardBy(records, ctx, n + 1) = IF T!Heard(r, ctx) THEN H \cup {n + 1} ELSE H
  BY DEF HeardBy
<1>6. Cardinality(H) \in Nat /\ Cardinality(H \cup {n + 1}) = Cardinality(H) + 1
  BY <1>4, FS_CardinalityType, FS_AddElement
<1>7. /\ ~T!Heard(r, ctx) => next = t
      /\ T!Heard(r, ctx) /\ n + 1 \in full => next = [counter |-> t.counter + 1, drops |-> t.drops + 1, events |-> t.events]
      /\ T!Heard(r, ctx) /\ n + 1 \notin full => next = [counter |-> t.counter + 1, drops |-> t.drops, events |-> Append(t.events, ev)]
      /\ ev.event_id = t.counter + 1 /\ T!Tells(ev, r, ctx)
  <2>1. CallbackDoes(next, t, r, ctx, n + 1, full)
    BY <1>1, CallbackCases
  <2> QED BY <2>1 DEF CallbackDoes
<1>8. t.counter \in Nat /\ t.drops \in Nat /\ t.events \in Seq(S) /\ Len(t.events) \in Nat /\ DOMAIN t.events = 1..Len(t.events)
  BY <1>1
<1> HIDE DEF H, r, ev, next
<1>9. CASE ~T!Heard(r, ctx)
  <2>1. next = t /\ HeardBy(records, ctx, n + 1) = H
    BY <1>5, <1>7, <1>9
  <2>2. Counted(next, records, ctx, n + 1)
    BY <1>3, <2>1 DEF Counted, H
  <2>3. Truly(next, records, ctx, full, n + 1)
    BY <1>1, <1>2, <2>1, <2>2 DEF Truly
  <2> QED BY <2>3 DEF next, r
<1>10. CASE T!Heard(r, ctx) /\ n + 1 \in full
  <2>1. /\ next = [counter |-> t.counter + 1, drops |-> t.drops + 1, events |-> t.events]
        /\ HeardBy(records, ctx, n + 1) = H \cup {n + 1}
    BY <1>5, <1>7, <1>10
  <2>2. /\ next.counter = t.counter + 1 /\ next.drops = t.drops + 1 /\ next.events = t.events
        /\ next \in [counter : Nat, drops : Nat, events : Seq(S)]
    BY <1>8, <2>1
  <2>3. Counted(next, records, ctx, n + 1)
    <3>1. t.counter = Cardinality(H) /\ t.counter = Len(t.events) + t.drops
      BY <1>3 DEF Counted, H
    <3>2. next.counter = Cardinality(HeardBy(records, ctx, n + 1))
      BY <1>6, <2>1, <2>2, <3>1
    <3>3. next.counter = Len(next.events) + next.drops
      BY <1>8, <2>2, <3>1
    <3>4. \A k \in DOMAIN next.events : next.events[k].event_id \in 1..next.counter
      BY <1>3, <1>8, <2>2 DEF Counted
    <3> QED BY <3>2, <3>3, <3>4 DEF Counted
  <2>4. HeardBy(records, ctx, n + 1) \ full = K
    BY <1>10, <2>1
  <2>5. Matched(at, next, records, ctx, HeardBy(records, ctx, n + 1) \ full)
    BY <1>2, <2>2, <2>4 DEF Matched
  <2>6. Truly(next, records, ctx, full, n + 1)
    BY <2>2, <2>3, <2>5 DEF Truly
  <2> QED BY <2>6 DEF next, r
<1>11. CASE T!Heard(r, ctx) /\ n + 1 \notin full
  <2> DEFINE m == Len(t.events)
             at2 == [k \in 1..(m + 1) |-> IF k = m + 1 THEN n + 1 ELSE at[k]]
  <2>1. /\ next = [counter |-> t.counter + 1, drops |-> t.drops, events |-> Append(t.events, ev)]
        /\ HeardBy(records, ctx, n + 1) = H \cup {n + 1}
    BY <1>5, <1>7, <1>11
  <2>2. /\ next.counter = t.counter + 1 /\ next.drops = t.drops /\ next.events = Append(t.events, ev)
        /\ t.events \in Seq(S \cup {ev})
    BY <1>8, <2>1
  <2>3. /\ next.events \in Seq(S \cup {ev})
        /\ Len(next.events) = m + 1 /\ DOMAIN next.events = 1..(m + 1)
        /\ next.events[m + 1] = ev /\ \A k \in 1..m : next.events[k] = t.events[k]
    BY <2>2, AppendProperties
  <2>4. next \in [counter : Nat, drops : Nat, events : Seq(S \cup {ev})]
    BY <1>8, <2>1, <2>2, <2>3
  <2>5. Counted(next, records, ctx, n + 1)
    <3>1. next.counter = Cardinality(HeardBy(records, ctx, n + 1)) /\ next.counter = Len(next.events) + next.drops
      <4>1. t.counter = Cardinality(H) /\ t.counter = m + t.drops
        BY <1>3 DEF Counted, H
      <4>2. next.counter = Cardinality(HeardBy(records, ctx, n + 1))
        BY <1>6, <2>1, <2>2, <4>1
      <4> QED BY <1>8, <2>2, <2>3, <4>1, <4>2
    <3>2. ASSUME NEW k \in DOMAIN next.events PROVE next.events[k].event_id \in 1..next.counter
      <4>1. CASE k = m + 1
        BY <1>7, <1>8, <2>2, <2>3, <4>1
      <4>2. CASE k \in 1..m
        BY <1>3, <1>8, <2>2, <2>3, <4>2 DEF Counted
      <4> QED BY <1>8, <2>3, <4>1, <4>2
    <3> QED BY <3>1, <3>2 DEF Counted
  <2>6. HeardBy(records, ctx, n + 1) \ full = K \cup {n + 1}
    BY <1>11, <2>1
  <2>7. /\ at \in [1..m -> K] /\ \A k \in 1..m : at[k] \in 1..n /\ at2[k] = at[k]
        /\ at2[m + 1] = n + 1
    <3>1. at \in [1..m -> K] /\ K \subseteq 1..n
      BY <1>2, <1>4, <1>8 DEF Matched
    <3>2. \A k \in 1..m : k \in 1..(m + 1) /\ k # m + 1
      BY <1>8
    <3>3. m + 1 \in 1..(m + 1)
      BY <1>8
    <3> HIDE DEF m, K
    <3> QED BY <3>1, <3>2, <3>3
  <2> HIDE DEF m, K
  <2>8. Matched(at2, next, records, ctx, K \cup {n + 1})
    <3>1. at2 \in [1..(m + 1) -> K \cup {n + 1}]
      BY <1>8, <2>7 DEF m
    <3> HIDE DEF at2
    <3>2. ASSUME NEW i \in K \cup {n + 1} PROVE \E k \in 1..(m + 1) : at2[k] = i
      <4>1. CASE i \in K
        BY <1>2, <1>8, <2>7, <4>1 DEF Matched, m
      <4>2. CASE i = n + 1
        BY <1>8, <2>7, <4>2 DEF m
      <4> QED BY <4>1, <4>2
    <3>3. ASSUME NEW k \in 1..(m + 1) PROVE T!Tells(next.events[k], records[at2[k]], ctx)
      <4>1. CASE k = m + 1
        BY <1>7, <2>3, <2>7, <4>1 DEF r
      <4>2. CASE k \in 1..m
        BY <1>2, <1>8, <2>3, <2>7, <4>2 DEF Matched, m
      <4> QED BY <1>8, <4>1, <4>2 DEF m
    <3>4. ASSUME NEW j \in 1..(m + 1), NEW k \in 1..(m + 1), j < k
          PROVE  at2[j] < at2[k] /\ next.events[j].event_id < next.events[k].event_id
      <4>1. j \in 1..m /\ (k = m + 1 \/ k \in 1..m)
        BY <1>8, <3>4 DEF m
      <4>2. CASE k = m + 1
        <5>1. at2[j] < at2[k]
          BY <2>7, <4>1, <4>2
        <5>2. next.events[j].event_id \in 1..t.counter /\ next.events[k].event_id = t.counter + 1
          BY <1>3, <1>7, <1>8, <2>3, <4>1, <4>2 DEF Counted, m
        <5> QED BY <1>8, <5>1, <5>2
      <4>3. CASE k \in 1..m
        BY <1>2, <1>8, <2>3, <2>7, <3>4, <4>1, <4>3 DEF Matched, m
      <4> QED BY <4>1, <4>2, <4>3
    <3> QED BY <2>3, <3>1, <3>2, <3>3, <3>4 DEF Matched
  <2>9. Truly(next, records, ctx, full, n + 1)
    BY <2>4, <2>5, <2>6, <2>8 DEF Truly
  <2> QED BY <2>9 DEF next, r
<1> QED BY <1>9, <1>10, <1>11

LEMMA CollectTruly ==
    ASSUME NEW R, NEW records \in Seq(R), NEW ctx, NEW full
    PROVE  Truly(T!Collect(records, ctx, full), records, ctx, full, Len(records))
<1> DEFINE m == Len(records)
           t == T!Collect(records, ctx, full)
<1>1. m \in Nat /\ DOMAIN records = 1..m
  OBVIOUS
<1>2. PICK g : Stages(g, records, ctx, full, m) /\ t = g[m]
  BY <1>1, CollectStages
<1> HIDE DEF m, t
<1> DEFINE P == {n \in Nat : n <= m => Truly(g[n], records, ctx, full, n)}
<1>3. 0 \in P
  <2>1. g[0] = [counter |-> 0, drops |-> 0, events |-> <<>>]
    BY <1>1, <1>2 DEF Stages, Seen
  <2> QED BY <2>1, NothingSeen
<1>4. ASSUME NEW n \in P PROVE n + 1 \in P
  <2>1. SUFFICES ASSUME n + 1 <= m PROVE Truly(g[n + 1], records, ctx, full, n + 1)
    OBVIOUS
  <2>2. n \in Nat /\ n <= m /\ n + 1 # 0 /\ (n + 1) - 1 = n /\ n + 1 \in 0..m
    BY <1>1, <2>1
  <2>3. Truly(g[n], records, ctx, full, n)
    BY <2>2
  <2>4. g[n + 1] = T!Callback(g[n], records[n + 1], ctx, n + 1 \in full)
    BY <1>2, <2>2 DEF Stages, Seen
  <2> QED BY <2>2, <2>3, <2>4, RecordSeen
<1>5. P = Nat
  <2>1. P \in SUBSET Nat
    OBVIOUS
  <2> HIDE DEF P
  <2> QED BY <1>3, <1>4, <2>1, NatSetInduction
<1>6. Truly(t, records, ctx, full, m)
  BY <1>1, <1>2, <1>5
<1> QED BY <1>6 DEF m, t

\* etw.rs:72-97, normalize.rs: what is handed to the channel is one event for each
\* record that has a schema, passes the filter, says something and finds room, in the
\* order of the records; its ids grow and exactly as many are missing as drops are counted.
THEOREM CollectedIsTrue ==
    ASSUME NEW R, NEW records \in Seq(R), NEW ctx, NEW full
    PROVE  T!CollectedTruly(T!Collect(records, ctx, full), records, ctx, full)
<1> DEFINE m == Len(records)
           t == T!Collect(records, ctx, full)
<1>1. Truly(t, records, ctx, full, m)
  BY CollectTruly
<1>2. DOMAIN records = 1..m
  OBVIOUS
<1> HIDE DEF m, t
<1> DEFINE heard == {i \in DOMAIN records : T!Heard(records[i], ctx)}
<1>7. heard = HeardBy(records, ctx, m)
  BY <1>2 DEF HeardBy
<1>8. PICK at : Matched(at, t, records, ctx, heard \ full)
  BY <1>1, <1>7 DEF Truly
<1>9. /\ t.counter = Cardinality(heard) /\ t.counter = Len(t.events) + t.drops
      /\ \A k \in DOMAIN t.events : t.events[k].event_id \in 1..t.counter
  BY <1>1, <1>7 DEF Truly, Counted
<1> HIDE DEF heard
<1>10. \E f \in [DOMAIN t.events -> heard \ full] :
          /\ \A i \in heard \ full : \E k \in DOMAIN t.events : f[k] = i
          /\ \A k \in DOMAIN t.events : T!Tells(t.events[k], records[f[k]], ctx)
          /\ \A j, k \in DOMAIN t.events : j < k => f[j] < f[k] /\ t.events[j].event_id < t.events[k].event_id
  BY <1>8 DEF Matched
<1>11. T!Cardinality(heard) = Cardinality(heard)
  BY DEF T!Cardinality, Cardinality
<1>12. T!CollectedTruly(t, records, ctx, full)
  BY <1>9, <1>10, <1>11, Zenon DEF T!CollectedTruly, heard
<1> QED BY <1>12 DEF t

\* A record of a connection or of data sent says so.
LEMMA OutboundIsHeard ==
    ASSUME NEW r, r.provider = "network", r.opcode \in {10, 12}
    PROVE  T!ParseEvent(r) # T!None /\ T!ParseEvent(r)[1].type \in T!OutboundTypes
<1> DEFINE p == [type |-> <<"network", T!NetworkTypes[r.opcode]>>, image |-> "",
                 object |-> T!Some(T!Entity("socket", <<T!FirstField(r.fields, <<"saddr">>), T!FirstField(r.fields, <<"daddr">>)>>)),
                 args |-> T!Kept(r.fields, {"size"})]
<1>1. r.opcode \in DOMAIN T!NetworkTypes /\ T!NetworkTypes[r.opcode] \in {"send", "connect"}
  <2> DEFINE verbs == <<"send", "recv", "connect", "disconnect", "", "accept">>
  <2>1. 10 - 9 = 1 /\ 12 - 9 = 3 /\ verbs[1] = "send" /\ verbs[3] = "connect"
    OBVIOUS
  <2> HIDE DEF verbs
  <2>2. \A op \in {10, 11, 12, 13, 15} : T!NetworkTypes[op] = verbs[op - 9]
    BY DEF T!NetworkTypes, verbs
  <2>4. T!NetworkTypes[10] = verbs[10 - 9] /\ T!NetworkTypes[12] = verbs[12 - 9]
    BY <2>2
  <2>3. DOMAIN T!NetworkTypes = {10, 11, 12, 13, 15}
    BY DEF T!NetworkTypes
  <2> QED BY <2>1, <2>3, <2>4
<1>2. T!ParseEvent(r) = T!ParseNetworkEvent(r)
  BY Zenon DEF T!ParseEvent
<1>3. T!ParseNetworkEvent(r) = T!Some(p)
  BY <1>1 DEF T!ParseNetworkEvent, T!Parsed
<1>4. T!Some(p) # T!None /\ T!Some(p)[1] = p
  BY DEF T!Some, T!None
<1>5. p.type \in T!OutboundTypes
  BY <1>1 DEF T!OutboundTypes
<1> HIDE DEF p
<1> QED BY <1>2, <1>3, <1>4, <1>5

\* With no drop there was room for all, and an event is no later among the events
\* than its record among those that were heard.
LEMMA NoDropAllTold ==
    ASSUME NEW t, NEW records, NEW ctx, NEW full, NEW m \in Nat, Truly(t, records, ctx, full, m), t.drops = 0,
           NEW i \in HeardBy(records, ctx, m)
    PROVE  \E k \in DOMAIN t.events :
               T!Tells(t.events[k], records[i], ctx) /\ k <= Cardinality(HeardBy(records, ctx, m) \cap 1..i)
<1> DEFINE H == HeardBy(records, ctx, m)
           K == H \ full
           L == Len(t.events)
<1>1. PICK at : Matched(at, t, records, ctx, K)
  BY DEF Truly
<1>2. PICK S : t \in [counter : Nat, drops : Nat, events : Seq(S)]
  BY DEF Truly
<1>3. L \in Nat /\ DOMAIN t.events = 1..L
  BY <1>2
<1>4. IsFiniteSet(H) /\ H \subseteq 1..m /\ K \subseteq H
  <2>1. H \subseteq 1..m
    BY DEF HeardBy
  <2>2. IsFiniteSet(1..m)
    BY FS_Interval
  <2> QED BY <2>1, <2>2, FS_Subset
<1>5. i \in H
  OBVIOUS
<1>6. t.counter = Cardinality(H) /\ t.counter = L + t.drops
  BY DEF Truly, Counted
<1> HIDE DEF H, K, L
<1>7. Cardinality(H) = L
  BY <1>3, <1>6
<1>8. /\ at \in [1..L -> K] /\ \A j \in K : \E k \in 1..L : at[k] = j
      /\ \A j, k \in 1..L : j < k => at[j] < at[k]
  BY <1>1, <1>3 DEF Matched
<1>9. \A k \in 1..L : at[k] \in 1..m
  BY <1>4, <1>8
<1>10. ASSUME NEW j \in 1..L, NEW k \in 1..L, at[j] = at[k] PROVE j = k
  <2>1. ~(j < k) /\ ~(k < j)
    BY <1>8, <1>9, <1>10
  <2> QED BY <1>3, <2>1
<1>11. at \in Bijection(1..L, K)
  BY <1>8, <1>10, Fun_IsBij
<1>12. IsFiniteSet(1..L) /\ Cardinality(1..L) = L
  BY <1>3, FS_Interval
<1>13. Cardinality(K) = L
  BY <1>11, <1>12, FS_Bijection DEF ExistsBijection
<1>14. i \in K
  BY <1>4, <1>5, <1>7, <1>13, FS_Subset
<1>15. PICK k \in 1..L : at[k] = i
  BY <1>8, <1>14
<1>16. k <= Cardinality(H \cap 1..i)
  <2> DEFINE G == H \cap 1..i
             f == [j \in 1..k |-> at[j]]
  <2>1. k \in Nat /\ 1..k \subseteq 1..L
    BY <1>3
  <2>2. IsFiniteSet(G) /\ IsFiniteSet(1..k) /\ Cardinality(1..k) = k
    <3>1. G \subseteq H
      OBVIOUS
    <3> QED BY <1>4, <2>1, <3>1, FS_Subset, FS_Interval
  <2>3. ASSUME NEW j \in 1..k PROVE f[j] \in G
    <3>1. j \in 1..L /\ at[j] \in H /\ at[j] \in Nat /\ 1 <= at[j]
      BY <1>4, <1>8, <1>9, <2>1
    <3>2. i \in Nat /\ (j < k \/ j = k)
      BY <1>9, <1>15, <2>1
    <3>3. at[j] <= i
      BY <1>8, <1>15, <3>1, <3>2
    <3> QED BY <3>1, <3>2, <3>3
  <2>4. \A j, l \in 1..k : f[j] = f[l] => j = l
    BY <1>10, <2>1
  <2> HIDE DEF G
  <2>5. f \in [1..k -> G]
    BY <2>3
  <2> HIDE DEF f
  <2>6. f \in Injection(1..k, G)
    BY <2>4, <2>5, Fun_IsInj
  <2>7. Cardinality(1..k) <= Cardinality(G)
    BY <2>2, <2>6, FS_Injection DEF ExistsInjection
  <2> QED BY <2>2, <2>7 DEF G
<1>17. T!Tells(t.events[k], records[i], ctx)
  BY <1>1, <1>3, <1>15 DEF Matched
<1> QED BY <1>3, <1>15, <1>16, <1>17 DEF H

LEMMA NoneCounted ==
    ASSUME NEW n \in Nat, NEW s \in SUBSET (1..n), ~(T!Cardinality(s) > 0)
    PROVE  s = {}
<1>1. T!Cardinality(s) = Cardinality(s)
  BY DEF T!Cardinality, Cardinality
<1>2. IsFiniteSet(s)
  <2>1. IsFiniteSet(1..n)
    BY FS_Interval
  <2> QED BY <2>1, FS_Subset
<1> QED BY <1>1, <1>2, FS_CardinalityType, FS_EmptySet

\* llm_pack.rs:324-345, session.rs:191-219: whatever arrived, was filtered out or found
\* the channel full, and however many events the session took before its loop ended,
\* the pack says that no outbound activity was observed only if each record of a
\* connection or of data sent had no schema, or has its event among those left in the
\* channel.  These two losses are uncounted in the code, so that the pack may say it
\* of a target that sent; a dropped event cannot make it.
THEOREM SilenceIsOfTheTaken ==
    ASSUME NEW R, NEW records \in Seq(R), NEW ctx, NEW full, NEW facts, NEW taken \in Nat,
           taken <= Len(T!Collect(records, ctx, full).events)
    PROVE  LET t == T!Drain(T!Collect(records, ctx, full), taken)
           IN  T!SilenceEarned(T!BuildSummary(t.events, facts, t.drops), records, ctx, taken)
<1> DEFINE m == Len(records)
           all == T!Collect(records, ctx, full)
           t == T!Drain(all, taken)
           sends == {k \in DOMAIN t.events : t.events[k].type \in T!OutboundTypes}
<1>1. Truly(all, records, ctx, full, m) /\ m \in Nat /\ DOMAIN records = 1..m
  BY CollectTruly
<1>0. taken <= Len(all.events)
  OBVIOUS
<1> HIDE DEF m, all
<1>2. /\ Len(all.events) \in Nat /\ DOMAIN all.events = 1..Len(all.events) /\ t.drops = all.drops
      /\ DOMAIN t.events = 1..taken /\ \A k \in 1..taken : t.events[k] = all.events[k]
  <2>1. PICK S : all \in [counter : Nat, drops : Nat, events : Seq(S)]
    BY <1>1 DEF Truly
  <2>2. t.events = SubSeq(all.events, 1, taken) /\ t.drops = all.drops
    BY <2>1 DEF T!Drain
  <2>3. all.events \in Seq(S)
    BY <2>1
  <2> QED BY <1>0, <2>2, <2>3
<1> HIDE DEF t
<1>3. ASSUME T!BuildSummary(t.events, facts, t.drops).network = "none observed",
             NEW i \in DOMAIN records, T!Outbound(records[i], ctx), records[i].schema,
             ~(taken < Cardinality({j \in 1..i : T!Heard(records[j], ctx)}))
      PROVE  FALSE
  <2>1. t.drops = 0 /\ ~(T!Cardinality(sends) > 0)
    BY <1>3 DEF T!BuildSummary, T!NetworkSentence
  <2>2. T!ParseEvent(records[i]) # T!None /\ T!ParseEvent(records[i])[1].type \in T!OutboundTypes
    BY <1>3, OutboundIsHeard DEF T!Outbound
  <2>3. i \in HeardBy(records, ctx, m)
    BY <1>1, <1>3, <2>2 DEF T!Heard, T!Outbound, HeardBy
  <2>4. PICK k \in DOMAIN all.events :
            T!Tells(all.events[k], records[i], ctx) /\ k <= Cardinality(HeardBy(records, ctx, m) \cap 1..i)
    BY <1>1, <1>2, <2>1, <2>3, NoDropAllTold
  <2>5. all.events[k].type = T!ParseEvent(records[i])[1].type
    <3> DEFINE ev == all.events[k]
               p == T!ParseEvent(records[i])[1]
    <3> HIDE DEF ev, p
    <3>1. ev = T!NewEvent(ev.event_id - 1, ctx, T!EtwTsToNs(records[i].raw), records[i].pid, records[i].tid, p)
      BY <2>4 DEF T!Tells, ev, p
    <3>2. ev.type = p.type
      BY <3>1 DEF T!NewEvent
    <3> QED BY <3>2 DEF ev, p
  <2>6. k \in 1..taken
    <3> DEFINE G == {j \in 1..i : T!Heard(records[j], ctx)}
    <3>1. i \in 1..m /\ 1..i \subseteq 1..m
      BY <1>1
    <3>2. HeardBy(records, ctx, m) \cap 1..i = G
      BY <3>1 DEF HeardBy
    <3>3. IsFiniteSet(G)
      <4>1. IsFiniteSet(1..i)
        BY <3>1, FS_Interval
      <4> QED BY <4>1, FS_Subset
    <3>4. Cardinality(G) \in Nat
      BY <3>3, FS_CardinalityType
    <3>5. ~(taken < Cardinality(G)) /\ k <= Cardinality(G)
      BY <1>3, <2>4, <3>2
    <3> HIDE DEF G
    <3> QED BY <1>2, <3>4, <3>5
  <2>7. k \in sends
    BY <1>2, <2>2, <2>5, <2>6
  <2>8. sends = {}
    <3>1. sends \in SUBSET (1..taken)
      BY <1>2
    <3> HIDE DEF sends
    <3> QED BY <2>1, <3>1, NoneCounted
  <2> QED BY <2>7, <2>8
<1>4. T!SilenceEarned(T!BuildSummary(t.events, facts, t.drops), records, ctx, taken)
  <2>1. \A S : T!Cardinality(S) = Cardinality(S)
    BY DEF T!Cardinality, Cardinality
  <2> QED BY <1>3, <2>1 DEF T!SilenceEarned
<1> QED BY <1>4 DEF t, all

LEMMA TimesInRange ==
    ASSUME EpochTicks \in Int, TickNs \in Nat, MaxTime \in Nat, NEW a \in Int, NEW b \in Int, a <= b
    PROVE  T!EtwTsToNs(a) \in 0..MaxTime /\ T!EtwTsToNs(a) <= T!EtwTsToNs(b)
<1> DEFINE x == a - EpochTicks
           y == b - EpochTicks
<1>1. x \in Int /\ y \in Int /\ x <= y /\ (a < EpochTicks <=> x < 0) /\ (b < EpochTicks <=> y < 0)
  OBVIOUS
<1>2. /\ T!EtwTsToNs(a) = IF x < 0 THEN 0 ELSE IF x * TickNs > MaxTime THEN MaxTime ELSE x * TickNs
      /\ T!EtwTsToNs(b) = IF y < 0 THEN 0 ELSE IF y * TickNs > MaxTime THEN MaxTime ELSE y * TickNs
  BY <1>1 DEF T!EtwTsToNs
<1> HIDE DEF x, y
<1>3. x >= 0 => x * TickNs \in Nat /\ y * TickNs \in Nat /\ x * TickNs <= y * TickNs
  <2>1. x * TickNs \in Int /\ y * TickNs \in Int /\ y * TickNs = x * TickNs + (y - x) * TickNs
    BY <1>1
  <2>2. \A m, n \in Nat : m * n \in Nat
    OBVIOUS
  <2>3. x >= 0 => x * TickNs \in Nat /\ (y - x) * TickNs \in Nat
    <3>1. x >= 0 => x \in Nat /\ y - x \in Nat
      BY <1>1
    <3> QED BY <2>2, <3>1
  <2> QED BY <2>1, <2>3
<1>4. y >= 0 => y * TickNs \in Nat
  BY <1>1
<1> QED BY <1>1, <1>2, <1>3, <1>4

LEMMA ToldAtItsTime ==
    ASSUME NEW e, NEW r, NEW ctx, T!Tells(e, r, ctx)
    PROVE  e.ts_ns = T!EtwTsToNs(r.raw)
<1> DEFINE ts == T!EtwTsToNs(r.raw)
           p == T!ParseEvent(r)[1]
<1>1. e = T!NewEvent(e.event_id - 1, ctx, ts, r.pid, r.tid, p)
  BY DEF T!Tells
<1> HIDE DEF ts, p
<1>2. e.ts_ns = ts
  BY <1>1 DEF T!NewEvent
<1> QED BY <1>2 DEF ts

\* normalize.rs:223-235: of two records the one with the earlier clock has no
\* later time, before 1970 and past the range of the times too.
THEOREM TimesFollowClocks ==
    ASSUME EpochTicks \in Int, TickNs \in Nat, MaxTime \in Nat, NEW ctx,
           NEW r, r.raw \in Int, NEW e, T!Tells(e, r, ctx),
           NEW q, q.raw \in Int, NEW f, T!Tells(f, q, ctx), r.raw <= q.raw
    PROVE  e.ts_ns \in 0..MaxTime /\ e.ts_ns <= f.ts_ns
<1>1. e.ts_ns = T!EtwTsToNs(r.raw) /\ f.ts_ns = T!EtwTsToNs(q.raw)
  BY ToldAtItsTime
<1> QED BY <1>1, TimesInRange

=============================================================================
