------------------------- MODULE FuzzSession_proofs -------------------------
(***************************************************************************)
(* Proofs about FuzzSession: type correctness, and the two recovery        *)
(* guarantees (KillersRecoverable, NoLostCrash) for any set of inputs,     *)
(* slots, hit counts, frames and panic kinds, any subset of the executors  *)
(* and any bounds.                                                         *)
(***************************************************************************)
EXTENDS FuzzSession, TLAPS

\* Whatever backend runs, its result carries no CrashInfo or one whose
\* signature is in Sigs (executor.rs, build_crash_info and HybridExecutor).
LEMMA ResultsTyped ==
    ASSUME NEW b \in Backends
    PROVE  Results(b) \subseteq ExecutionResults
<1>1. EmulatorResults \subseteq ExecutionResults
  BY DEF EmulatorResults, ExecutionResults, NoCrash, Crashed, EmulatorKind, ExitKind, Sigs, Kinds, NoFrames
<1>2. InProcessResults \subseteq ExecutionResults
  BY DEF InProcessResults, ExecutionResults, NoCrash, Crashed, ExitKind, Sigs, Kinds, NoFrames
<1>3. ASSUME NEW p \in InProcessResults, NEW r \in EmulatorResults
      PROVE  HybridResult(p, r) \in ExecutionResults
  <2>1. CASE p = NoCrash("Ok")
    BY <1>2, <2>1 DEF HybridResult, IsCrashLike, NoCrash
  <2>2. CASE \E k \in PanicKinds : p = Crashed("Panic", <<"panic", k>>, NoFrames)
    <3>1. PICK k \in PanicKinds : p = Crashed("Panic", <<"panic", k>>, NoFrames)
      BY <2>2
    <3>2. CASE IsCrashLike(r.exit)
      BY <1>1, <3>1, <3>2 DEF HybridResult, IsCrashLike, Crashed
    <3>3. CASE ~IsCrashLike(r.exit)
      <4>1. HybridResult(p, r) = Crashed("Panic", <<"primary_only", k>>, NoFrames)
        BY <3>1, <3>3 DEF HybridResult, IsCrashLike, Crashed
      <4>2. QED
        BY <4>1 DEF ExecutionResults, Crashed, ExitKind, Sigs, Kinds
    <3>4. QED BY <3>2, <3>3
  <2>3. QED BY <2>1, <2>2 DEF InProcessResults
<1>4. QED
  BY <1>1, <1>2, <1>3 DEF Results

\* merge_into_global keeps every slot a bucket.
LEMMA MergeTyped ==
    ASSUME NEW local \in [Slots -> Hits], NEW g \in [Slots -> 0..8]
    PROVE  MergeIntoGlobal(local, g) \in [Slots -> 0..8]
<1>1. ASSUME NEW h \in 0..255 PROVE Bucket(h) \in 0..8
  BY <1>1 DEF Bucket
<1>2. QED BY <1>1, CoverageAssumption DEF MergeIntoGlobal

LEMMA LocalMapsTyped ==
    ASSUME NEW b \in Backends
    PROVE  LocalMaps(b) \subseteq [Slots -> Hits]
BY CoverageAssumption DEF LocalMaps, ZeroMap

-----------------------------------------------------------------------------
(* The inductive invariant.  While a candidate is past StageSync its        *)
(* staging file is whole; after Execute the histories hold no older claim   *)
(* about it, so discarding the file can only drop what this run itself      *)
(* reported; and a run reaches the discard of a crash only when the         *)
(* directory of that signature is complete, by persisting it now or, for a  *)
(* duplicate, by MemoryBacked.                                              *)

Running == {"execute", "dedup", "crash_input", "crash_info", "add", "discard",
            "discard_crash"}

CandStaged == pc \in Running => staged[cand] = "full"

CandFresh == pc \in Running \cup {"stage_sync"} => cand \notin killers

CandPending ==
    /\ pc \in {"add", "discard"} =>
           \A p \in pending : p[1] # cand
    /\ pc \in {"dedup", "crash_input", "crash_info"} =>
           \A p \in pending : p[1] = cand => p[2] = result.crash
    /\ pc = "crash_info" => crashInput[result.crash] # None
    /\ pc = "discard_crash" => \A p \in pending : p[1] = cand => CrashDirComplete(p[2])

\* The crash being stored was reported for the current candidate, and its
\* input.bin is written before its info.json.
CandObserved ==
    /\ pc \in {"dedup", "crash_input", "crash_info"} => <<cand, result.crash>> \in observed
    /\ pc = "crash_info" => crashInput[result.crash] = cand

IInv == TypeOK /\ CandStaged /\ CandFresh /\ CandPending /\ MemoryBacked
        /\ KillersRecoverable /\ NoLostCrash
        /\ CandObserved /\ ReproducersReal

LEMMA InitIInv == Init => IInv
BY FuzzAssumption DEF Init, IInv, TypeOK, CandStaged, CandFresh, CandPending, MemoryBacked,
       KillersRecoverable, NoLostCrash, CandObserved, ReproducersReal, Running, ZeroMap, NoCrash, ExecutionResults, ExitKind

\* Every step keeps the types; only Execute needs the shape of the results.
LEMMA TypeStep == TypeOK /\ [Next]_vars => TypeOK'
<1> SUFFICES ASSUME TypeOK, [Next]_vars PROVE TypeOK'
  OBVIOUS
<1> USE FuzzAssumption DEF TypeOK, disk, memory, hist, bounds
<1>1. CASE Open
  BY <1>1 DEF Open, ZeroMap
<1>2. ASSUME NEW x \in Inputs, SeedWith(x) PROVE TypeOK'
  BY <1>2 DEF SeedWith
<1>3. ASSUME NEW x \in Inputs, FuzzOne(x) PROVE TypeOK'
  BY <1>3 DEF FuzzOne
<1>4. CASE StageCreate
  BY <1>4 DEF StageCreate
<1>5. CASE StageSync
  BY <1>5 DEF StageSync
<1>6. ASSUME NEW b \in Backends, Execute(b) PROVE TypeOK'
  <2>1. PICK r \in Results(b), local \in LocalMaps(b) :
           /\ result' = r
           /\ global' = MergeIntoGlobal(local, global)
           /\ pc' \in {"dedup", "discard_crash", "add", "discard"}
           /\ pc' = "dedup" => r.crash # None
           /\ outcome' \in {outcome, "DuplicateCrash"}
           /\ \/ observed' = observed /\ pending' = OfOthers
              \/ /\ r.crash # None
                 /\ observed' = observed \cup {<<cand, r.crash>>}
                 /\ pending' = OfOthers \cup {<<cand, r.crash>>}
           /\ credited' \in {credited, credited \cup {cand}}
    BY <1>6 DEF Execute
  <2>2. r \in ExecutionResults
    BY ResultsTyped
  <2>3. global' \in [Slots -> 0..8]
    BY <2>1, LocalMapsTyped, MergeTyped
  <2>4. pc = "execute" /\ UNCHANGED <<cand, disk, corpus, seen, killers, bounds>>
    BY <1>6 DEF Execute
  <2>5. observed' \subseteq Inputs \X Sigs /\ pending' \subseteq observed'
    BY <2>1, <2>2, <2>4 DEF ExecutionResults, OfOthers
  <2>6. QED
    BY <2>1, <2>2, <2>3, <2>4, <2>5
<1>7. CASE Dedup
  BY <1>7 DEF Dedup
<1>8. CASE PersistCrashInput
  BY <1>8 DEF PersistCrashInput
<1>9. CASE PersistCrashInfo
  BY <1>9 DEF PersistCrashInfo, ExecutionResults
<1>10. CASE Add
  BY <1>10 DEF Add
<1>11. CASE Discard
  BY <1>11 DEF Discard
<1>12. CASE IoError
  BY <1>12 DEF IoError
<1>13. CASE Kill
  BY <1>13 DEF Kill, NoCrash, ExecutionResults, ExitKind, ZeroMap
<1>14. CASE UNCHANGED vars
  BY <1>14 DEF vars
<1>15. QED
  BY <1>1, <1>2, <1>3, <1>4, <1>5, <1>6, <1>7, <1>8, <1>9, <1>10, <1>11, <1>12,
     <1>13, <1>14 DEF Next

\* The type invariant holds of every reachable state.
THEOREM TypeCorrect == Spec => []TypeOK
<1>1. Init => TypeOK
  BY InitIInv DEF IInv
<1>2. QED
  BY <1>1, TypeStep, PTL DEF Spec

-----------------------------------------------------------------------------

LEMMA IInvStep == IInv /\ [Next]_vars => IInv'
<1> SUFFICES ASSUME IInv, [Next]_vars PROVE IInv'
  OBVIOUS
<1>t. TypeOK /\ TypeOK'
  BY TypeStep DEF IInv
<1> USE <1>t DEF IInv, CandStaged, CandFresh, CandPending, MemoryBacked,
        KillersRecoverable, NoLostCrash, CandObserved, ReproducersReal, CrashDirComplete, Running, disk, memory, hist, bounds
<1>1. CASE Open
  BY <1>1 DEF Open, TypeOK
<1>2. ASSUME NEW x \in Inputs, SeedWith(x) PROVE IInv'
  BY <1>2 DEF SeedWith, TypeOK
<1>3. ASSUME NEW x \in Inputs, FuzzOne(x) PROVE IInv'
  BY <1>3 DEF FuzzOne, TypeOK
<1>4. CASE StageCreate
  BY <1>4 DEF StageCreate, TypeOK
<1>5. CASE StageSync
  BY <1>5 DEF StageSync, TypeOK
<1>6. ASSUME NEW b \in Backends, Execute(b) PROVE IInv'
  <2>1. PICK r \in Results(b), local \in LocalMaps(b) :
           /\ result' = r
           /\ \/ /\ pc' = "discard_crash" \/ pc' = "add" \/ pc' = "discard"
                 /\ pending' = OfOthers /\ observed' = observed
              \/ /\ pc' = "dedup"
                 /\ pending' = OfOthers \cup {<<cand, r.crash>>}
                 /\ observed' = observed \cup {<<cand, r.crash>>}
    BY <1>6 DEF Execute
  <2>2. pc = "execute" /\ UNCHANGED <<cand, disk, corpus, seen, killers>>
    BY <1>6 DEF Execute
  <2>3. CandStaged' /\ CandFresh' /\ MemoryBacked' /\ KillersRecoverable'
    BY <2>1, <2>2 DEF TypeOK
  <2>4. CandPending'
    BY <2>1, <2>2 DEF TypeOK, OfOthers
  <2>5. NoLostCrash'
    BY <2>1, <2>2 DEF TypeOK, OfOthers
  <2>6. CandObserved' /\ ReproducersReal'
    BY <2>1, <2>2 DEF TypeOK
  <2>7. QED
    BY <2>3, <2>4, <2>5, <2>6
<1>7. CASE Dedup
  BY <1>7 DEF Dedup, TypeOK, ExecutionResults
<1>8. CASE PersistCrashInput
  <2>1. cand \in Inputs /\ result.crash \in Sigs /\ cand # None
    BY <1>8, FuzzAssumption DEF PersistCrashInput, TypeOK, ExecutionResults
  <2>2. crashInput' = [crashInput EXCEPT ![result.crash] = cand] /\ crashInfo' = crashInfo
    BY <1>8 DEF PersistCrashInput
  <2>3. CandObserved' /\ ReproducersReal'
    BY <1>8, <2>1, <2>2 DEF PersistCrashInput, TypeOK
  <2>4. CandStaged' /\ CandFresh' /\ CandPending' /\ MemoryBacked' /\ KillersRecoverable'
        /\ NoLostCrash'
    BY <1>8, <2>1, <2>2 DEF PersistCrashInput, TypeOK
  <2>5. QED BY <2>3, <2>4
<1>9. CASE PersistCrashInfo
  BY <1>9, FuzzAssumption DEF PersistCrashInfo, TypeOK, ExecutionResults
<1>10. CASE Add
  BY <1>10 DEF Add, TypeOK
<1>11. CASE Discard
  BY <1>11 DEF Discard, TypeOK
<1>12. CASE IoError
  BY <1>12 DEF IoError, TypeOK
<1>13. CASE Kill
  BY <1>13 DEF Kill, TypeOK
<1>14. CASE UNCHANGED vars
  BY <1>14 DEF vars, TypeOK
<1>15. QED
  BY <1>1, <1>2, <1>3, <1>4, <1>5, <1>6, <1>7, <1>8, <1>9, <1>10, <1>11, <1>12,
     <1>13, <1>14 DEF Next

\* Pre-execute staging works: an input that killed the process stays whole in
\* the staging directory until the same input is staged again.
THEOREM KillersAreRecoverable == Spec => []KillersRecoverable
<1>1. IInv => KillersRecoverable
  BY DEF IInv
<1>2. QED
  BY <1>1, InitIInv, IInvStep, PTL DEF Spec

\* The crash last reported of an input keeps its directory or its staging
\* file, whatever is killed or fails; only staging the same input again can cut
\* that file off.
THEOREM CrashesAreNotLost == Spec => []NoLostCrash
<1>1. IInv => NoLostCrash
  BY DEF IInv
<1>2. QED
  BY <1>1, InitIInv, IInvStep, PTL DEF Spec

\* crashes/<sig>/ always names inputs that produced that signature.
THEOREM ReproducersAreReal == Spec => []ReproducersReal
<1>1. IInv => ReproducersReal
  BY DEF IInv
<1>2. QED
  BY <1>1, InitIInv, IInvStep, PTL DEF Spec

\* Memory never claims a corpus entry or a crash family the disk lacks.
THEOREM MemoryIsBacked == Spec => []MemoryBacked
<1>1. IInv => MemoryBacked
  BY DEF IInv
<1>2. QED
  BY <1>1, InitIInv, IInvStep, PTL DEF Spec

\* What a restarted session finds on disk and in its memory is sound.
THEOREM RestartsFindSoundDisk == Spec => []DiskIsSound
<1>1. IInv => DiskIsSound
  BY DEF IInv, DiskIsSound
<1>2. QED
  BY <1>1, InitIInv, IInvStep, PTL DEF Spec
=============================================================================
