----------------------- MODULE ConcolicSession_proofs -----------------------
(***************************************************************************)
(* Proofs about ConcolicSession for any number of sessions, models, slots, *)
(* frontier items and failures: types, CreditHasQueueFile and              *)
(* MergedStaysCredited.                                                    *)
(***************************************************************************)
EXTENDS ConcolicSession, TLAPS

LEMMA BucketTyped == ASSUME NEW h \in 0..255 PROVE Bucket(h) \in 0..8
BY DEF Bucket

\* What merge_into_global does to one slot: it takes the larger of the old
\* bucket and the bucket of the run, so it never lowers a slot.
LEMMA MergeSlot ==
    ASSUME NEW m \in [Slots -> Hits], NEW g \in [Slots -> 0..8], NEW slot \in Slots
    PROVE  LET n == MergeIntoGlobal(m, g)
           IN  /\ n \in [Slots -> 0..8]
               /\ g[slot] <= n[slot] /\ Bucket(m[slot]) <= n[slot]
               /\ n[slot] = g[slot] \/ n[slot] = Bucket(m[slot])
<1>1. \A t \in Slots : m[t] \in 0..255 /\ Bucket(m[t]) \in 0..8
  BY BucketTyped, CoverageAssumption
<1>2. m[slot] = 0 => Bucket(m[slot]) = 0
  BY DEF Bucket
<1>3. QED
  BY <1>1, <1>2 DEF MergeIntoGlobal

LEMMA MergeTyped ==
    ASSUME NEW m \in [Slots -> Hits], NEW g \in [Slots -> 0..8]
    PROVE  MergeIntoGlobal(m, g) \in [Slots -> 0..8]
<1>1. \A t \in Slots : Bucket(m[t]) \in 0..8
  BY BucketTyped, CoverageAssumption
<1>2. QED
  BY <1>1 DEF MergeIntoGlobal

\* After a merge the same run is no longer novel: promoting it again is
\* answered NotNovel.
LEMMA MergedIsNotNovel ==
    ASSUME NEW m \in [Slots -> Hits], NEW g \in [Slots -> 0..8]
    PROVE  ~IsInteresting(m, MergeIntoGlobal(m, g))
<1> DEFINE n == MergeIntoGlobal(m, g)
<1>1. ASSUME NEW t \in Slots PROVE ~(m[t] # 0 /\ n[t] = 0) /\ ~(Bucket(m[t]) > n[t])
  <2>1. m[t] \in 0..255 /\ Bucket(m[t]) \in 0..8 /\ n[t] \in 0..8 /\ Bucket(m[t]) <= n[t]
    <3>1. m[t] \in 0..255
      BY CoverageAssumption
    <3>2. n[t] \in 0..8 /\ Bucket(m[t]) <= n[t]
      BY MergeSlot
    <3>3. QED BY <3>1, <3>2, BucketTyped
  <2>2. m[t] # 0 => Bucket(m[t]) # 0
    BY <2>1 DEF Bucket
  <2>3. QED BY <2>1, <2>2
<1>2. QED
  BY <1>1 DEF IsInteresting, NewEdges, NewBuckets

-----------------------------------------------------------------------------
(* The inductive invariant: an input that went through corpus.add has its   *)
(* file in the queue, and a session about to merge has just added the run   *)
(* it merges.                                                               *)

AddedQueued ==
    /\ corpus \subseteq queue
    /\ \A p \in added : p[1] \in queue
    /\ \A s \in Sessions : pc[s] = "merge" => <<model[s], local[s]>> \in added

IInv == TypeOK /\ AddedQueued /\ CreditHasQueueFile /\ MergedStaysCredited

LEMMA InitIInv == Init => IInv
<1>1. ZeroMap \in [Slots -> Hits] /\ ZeroMap \in [Slots -> 0..8]
  BY CoverageAssumption DEF ZeroMap
<1>2. Init => TypeOK
  BY <1>1, ConcolicAssumption DEF Init, TypeOK, Labels
<1>3. QED
  BY <1>2 DEF Init, IInv, AddedQueued, CreditHasQueueFile, MergedStaysCredited, ZeroMap

LEMMA TypeStep == TypeOK /\ [Next]_vars => TypeOK'
<1> SUFFICES ASSUME TypeOK, [Next]_vars PROVE TypeOK'
  OBVIOUS
<1> USE ConcolicAssumption DEF TypeOK, run, files, shared, hist, GoTo, Labels
<1>1. ASSUME NEW s \in Sessions, PopItem(s) PROVE TypeOK'
  <2>1. PICK l \in {"finalize", "solve"} : pc' = [pc EXCEPT ![s] = l]
    BY <1>1 DEF PopItem
  <2>2. backlog' \in [Sessions -> SUBSET Items] /\ item' \in [Sessions -> Items \cup {None}]
    <3>1. CASE UNCHANGED <<backlog, item>>
      BY <3>1
    <3>2. ASSUME NEW i \in backlog[s],
                 backlog' = [backlog EXCEPT ![s] = @ \ {i}], item' = [item EXCEPT ![s] = i]
          PROVE  backlog' \in [Sessions -> SUBSET Items] /\ item' \in [Sessions -> Items \cup {None}]
      <4>1. backlog[s] \subseteq Items /\ backlog[s] \ {i} \in SUBSET Items
        OBVIOUS
      <4>2. QED BY <3>2, <4>1
    <3>3. QED BY <1>1, <3>1, <3>2 DEF PopItem
  <2>3. pc' \in [Sessions -> Labels] /\ \A t \in Sessions : pc'[t] = pc[t] \/ pc'[t] = l
    BY <2>1
  <2>4. UNCHANGED <<model, snap, local, ledger, files, shared, hist, ioErrors>>
    BY <1>1 DEF PopItem
  <2>5. QED BY <2>1, <2>2, <2>3, <2>4
<1>2. ASSUME NEW s \in Sessions, Solve(s) PROVE TypeOK'
  BY <1>2 DEF Solve
<1>3. ASSUME NEW s \in Sessions, Snapshot(s) PROVE TypeOK'
  BY <1>3 DEF Snapshot
<1>4. ASSUME NEW s \in Sessions, Validate(s) PROVE TypeOK'
  <2>1. PICK l \in {"record", "promote"} :
           pc' = [pc EXCEPT ![s] = l] /\ (l = "promote" => model[s] # EmptyModel)
    BY <1>4 DEF Validate
  <2>2. pc[s] = "validate" /\ model[s] \in Models \cup {EmptyModel}
    BY <1>4 DEF Validate
  <2>3. local' \in [Sessions -> [Slots -> Hits]]
    <3>1. local' = local \/ \E m \in [Slots -> Hits] : local' = [local EXCEPT ![s] = m]
      BY <1>4 DEF Validate
    <3>2. \A m \in [Slots -> Hits] : [local EXCEPT ![s] = m] \in [Sessions -> [Slots -> Hits]]
      BY Zenon DEF TypeOK
    <3>3. local \in [Sessions -> [Slots -> Hits]]
      BY DEF TypeOK
    <3>4. CASE local' = local
      BY <3>3, <3>4, Zenon
    <3>5. ASSUME NEW m \in [Slots -> Hits], local' = [local EXCEPT ![s] = m]
          PROVE  local' \in [Sessions -> [Slots -> Hits]]
      BY <3>2, <3>5, Zenon
    <3>6. QED BY <3>1, <3>4, <3>5, Zenon
  <2>4. crashed' \subseteq Models
    BY <1>4, <2>2 DEF Validate
  <2>5. /\ pc' \in [Sessions -> Labels]
        /\ \A t \in Sessions : pc'[t] = pc[t] \/ (t = s /\ pc'[t] = l)
    BY <2>1
  <2>6. UNCHANGED <<backlog, item, model, snap, ledger, files, shared, added, merged,
                    addFailed, promoErr, ioErrors>>
    BY <1>4 DEF Validate
  <2>7. QED BY <2>1, <2>2, <2>3, <2>4, <2>5, <2>6
<1>5. ASSUME NEW s \in Sessions, Record(s) PROVE TypeOK'
  BY <1>5 DEF Record
<1>6. ASSUME NEW s \in Sessions, Finalize(s) PROVE TypeOK'
  BY <1>6 DEF Finalize, DeriveOutcome, RunOutcome
<1>7. ASSUME NEW s \in Sessions, Classify(s) PROVE TypeOK'
  BY <1>7 DEF Classify
<1>8. ASSUME NEW s \in Sessions, StageCreate(s) PROVE TypeOK'
  BY <1>8 DEF StageCreate
<1>9. ASSUME NEW s \in Sessions, StageSync(s) PROVE TypeOK'
  BY <1>9 DEF StageSync
<1>10. ASSUME NEW s \in Sessions, Add(s) PROVE TypeOK'
  BY <1>10 DEF Add
<1>11. ASSUME NEW s \in Sessions, PromoteError(s) PROVE TypeOK'
  BY <1>11 DEF PromoteError
<1>12. ASSUME NEW s \in Sessions, RunError(s) PROVE TypeOK'
  BY <1>12 DEF RunError
<1>13. CASE UNCHANGED vars
  BY <1>13 DEF vars
<1>14. ASSUME NEW s \in Sessions, Merge(s) PROVE TypeOK'
  <2>1. global' \in [Slots -> 0..8]
    BY <1>14, MergeTyped DEF Merge
  <2>2. pc[s] = "merge" /\ <<model[s], local[s]>> \in Models \X [Slots -> Hits]
    BY <1>14 DEF Merge
  <2>3. QED BY <1>14, <2>1, <2>2 DEF Merge
<1>15. QED
  BY <1>14, <1>1, <1>2, <1>3, <1>4, <1>5, <1>6, <1>7, <1>8, <1>9, <1>10, <1>11, <1>12, <1>13
     DEF Next, Step

\* The type invariant holds of every reachable state.
THEOREM TypeCorrect == Spec => []TypeOK
<1>1. Init => TypeOK
  BY InitIInv DEF IInv
<1>2. QED
  BY <1>1, TypeStep, PTL DEF Spec

-----------------------------------------------------------------------------

LEMMA IInvStep == IInv /\ [Next]_vars => IInv'
<1> SUFFICES ASSUME IInv, [Next]_vars PROVE IInv'
  OBVIOUS
<1>t. TypeOK /\ TypeOK'
  BY TypeStep DEF IInv
<1> USE <1>t DEF IInv, AddedQueued, CreditHasQueueFile, MergedStaysCredited, run, files,
        shared, hist, GoTo
\* A step that leaves queue, added, merged and global alone.
<1>q. ASSUME NEW s \in Sessions, UNCHANGED <<queue, corpus, added, merged, global>>,
             pc[s] # "merge", \A t \in Sessions : t # s => pc'[t] = pc[t],
             pc'[s] # "merge",
             \A t \in Sessions : t # s => model'[t] = model[t] /\ local'[t] = local[t]
      PROVE  IInv'
  BY <1>q
<1>1. ASSUME NEW s \in Sessions, PopItem(s) PROVE IInv'
  BY <1>1, <1>q DEF PopItem, TypeOK
<1>2. ASSUME NEW s \in Sessions, Solve(s) PROVE IInv'
  BY <1>2, <1>q DEF Solve, TypeOK
<1>3. ASSUME NEW s \in Sessions, Snapshot(s) PROVE IInv'
  BY <1>3, <1>q DEF Snapshot, TypeOK
<1>4. ASSUME NEW s \in Sessions, Validate(s) PROVE IInv'
  BY <1>4, <1>q DEF Validate, TypeOK
<1>5. ASSUME NEW s \in Sessions, Record(s) PROVE IInv'
  BY <1>5, <1>q DEF Record, TypeOK
<1>6. ASSUME NEW s \in Sessions, Finalize(s) PROVE IInv'
  BY <1>6, <1>q DEF Finalize, TypeOK
<1>7. ASSUME NEW s \in Sessions, Classify(s) PROVE IInv'
  BY <1>7, <1>q DEF Classify, TypeOK
<1>8. ASSUME NEW s \in Sessions, StageCreate(s) PROVE IInv'
  BY <1>8, <1>q DEF StageCreate, TypeOK
<1>9. ASSUME NEW s \in Sessions, StageSync(s) PROVE IInv'
  BY <1>9, <1>q DEF StageSync, TypeOK
<1>10. ASSUME NEW s \in Sessions, Add(s) PROVE IInv'
  <2>1. /\ pc' = [pc EXCEPT ![s] = "merge"] /\ pc[s] = "add"
        /\ added' = added \cup {<<model[s], local[s]>>}
        /\ UNCHANGED <<model, local, global, merged>>
    BY <1>10 DEF Add
  <2>2. queue' = queue \cup {model[s]} /\ corpus' = corpus \cup {model[s]}
    BY <1>10 DEF Add
  <2>3. AddedQueued'
    BY <2>1, <2>2 DEF TypeOK
  <2>4. CreditHasQueueFile'
    BY <2>1, <2>2
  <2>5. MergedStaysCredited'
    BY <2>1
  <2>6. QED BY <2>3, <2>4, <2>5
<1>11. ASSUME NEW s \in Sessions, PromoteError(s) PROVE IInv'
  BY <1>11, <1>q DEF PromoteError, TypeOK
<1>12. ASSUME NEW s \in Sessions, RunError(s) PROVE IInv'
  BY <1>12, <1>q DEF RunError, TypeOK
<1>13. CASE UNCHANGED vars
  BY <1>13 DEF vars
<1>14. ASSUME NEW s \in Sessions, Merge(s) PROVE IInv'
  <2>1. /\ pc[s] = "merge" /\ pc' = [pc EXCEPT ![s] = "record"]
        /\ global' = MergeIntoGlobal(local[s], global)
        /\ merged' = merged \cup {<<model[s], local[s]>>}
        /\ UNCHANGED <<queue, corpus, added, model, local>>
    BY <1>14 DEF Merge
  <2>2. <<model[s], local[s]>> \in added /\ model[s] \in queue
    BY <2>1
  <2>3. local[s] \in [Slots -> Hits] /\ global \in [Slots -> 0..8]
    BY DEF TypeOK
  <2>4. \A slot \in Slots :
           /\ global[slot] <= global'[slot] /\ Bucket(local[s][slot]) <= global'[slot]
           /\ global'[slot] = global[slot] \/ global'[slot] = Bucket(local[s][slot])
    BY <2>1, <2>3, MergeSlot
  <2>5. AddedQueued'
    BY <2>1 DEF TypeOK
  <2>6. CreditHasQueueFile'
    <3> SUFFICES ASSUME NEW slot \in Slots, global'[slot] # 0
                 PROVE  \E p \in added : p[1] \in queue /\ Bucket(p[2][slot]) = global'[slot]
      BY <2>1
    <3>1. CASE global'[slot] = global[slot]
      BY <3>1
    <3>2. CASE global'[slot] = Bucket(local[s][slot])
      BY <2>2, <3>2
    <3>3. QED BY <2>4, <3>1, <3>2
  <2>7. MergedStaysCredited'
    <3> SUFFICES ASSUME NEW p \in merged', NEW slot \in Slots
                 PROVE  Bucket(p[2][slot]) <= global'[slot]
      OBVIOUS
    <3>1. CASE p = <<model[s], local[s]>>
      BY <2>4, <3>1
    <3>2. CASE p \in merged
      <4>1. Bucket(p[2][slot]) <= global[slot] /\ global[slot] <= global'[slot]
        BY <2>4, <3>2
      <4>2. p[2] \in [Slots -> Hits]
        <5>1. p \in Models \X [Slots -> Hits]
          BY <3>2 DEF TypeOK
        <5>2. QED BY <5>1
      <4>3. p[2][slot] \in 0..255
        BY <4>2, CoverageAssumption
      <4>4. Bucket(p[2][slot]) \in 0..8 /\ global[slot] \in 0..8 /\ global'[slot] \in 0..8
        <5>1. Bucket(p[2][slot]) \in 0..8
          BY <4>3, BucketTyped
        <5>2. global \in [Slots -> 0..8] /\ global' \in [Slots -> 0..8]
          BY DEF TypeOK
        <5>3. QED BY <5>1, <5>2
      <4>5. QED BY <4>1, <4>4
    <3>3. QED BY <2>1, <3>1, <3>2
  <2>8. QED BY <2>5, <2>6, <2>7
<1>15. QED
  BY <1>14, <1>1, <1>2, <1>3, <1>4, <1>5, <1>6, <1>7, <1>8, <1>9, <1>10, <1>11, <1>12, <1>13
     DEF Next, Step

\* The bridge keeps its promise under every interleaving and failure: an
\* edge is credited only when some queued input reached it.
THEOREM CreditedEdgesHaveReproducers == Spec => []CreditHasQueueFile
<1>1. IInv => CreditHasQueueFile
  BY DEF IInv
<1>2. QED
  BY <1>1, InitIInv, IInvStep, PTL DEF Spec

\* Concurrent promotions never overwrite each other's coverage.
THEOREM NoCoverageUpdateIsLost == Spec => []MergedStaysCredited
<1>1. IInv => MergedStaysCredited
  BY DEF IInv
<1>2. QED
  BY <1>1, InitIInv, IInvStep, PTL DEF Spec
=============================================================================
