-------------------------- MODULE OutputFiles_proofs --------------------------
(***************************************************************************)
(* Proofs about what is left in an output directory.                       *)
(*                                                                         *)
(* AtomicWrite, for every set of contents of every size: AtomicWriter      *)
(* implements the register of whole contents.  TypeOK says how far the     *)
(* .tmp is at each call of finalize; what it lacks is that every file the  *)
(* target path may name is whole and synced, so that no power failure can  *)
(* tear it.  DiskWhole adds that.                                          *)
(*                                                                         *)
(* VulnSession, for every sequence of programs, options and observations:  *)
(* evidence counts for the sink it was seen at, and the directory of a     *)
(* search that returned is its own.  SearchInv says, for every stage of a  *)
(* run, what its lists are made of and which files it has written.         *)
(***************************************************************************)
EXTENDS AtomicWrite, VulnSession, TLAPS, FiniteSetTheorems, SequenceTheorems, WellFoundedInduction

-----------------------------------------------------------------------------
(* AtomicWrite                                                             *)

DiskWhole == \A f \in disk : f = None \/ \E c \in Contents : f = Whole(c)

IInv == TypeOK /\ DiskWhole /\ TmpMarksUnfinished

\* What finalize hands to rename is the whole content.
LEMMA SyncedIsWhole ==
    ASSUME IInv, pc = "rename"
    PROVE  tmp = Whole(content) /\ content \in Contents
BY DEF IInv, TypeOK, File, Whole

\* A whole file is a file and reads as its content.
LEMMA WholeReads ==
    ASSUME NEW c \in Contents
    PROVE  Whole(c) \in File /\ Whole(c) # None /\ Reading(Whole(c)) = c
<1>1. Size[c] \in Nat
    BY AtomicWriteAssumption
<1>2. Whole(c) \in File
    BY <1>1 DEF Whole, File
<1>3. Whole(c) # None
    BY <1>2, AtomicWriteAssumption
<1>4. Whole(c).len = Size[c] /\ Whole(c).of = c
    BY DEF Whole
<1> QED
    BY <1>2, <1>3, <1>4 DEF Reading

\* A power failure does not harm a whole file.
LEMMA WholeSurvives ==
    ASSUME NEW f, f = None \/ \E c \in Contents : f = Whole(c)
    PROVE  Survivors(f) = {f}
<1>1. CASE f = None
    BY <1>1 DEF Survivors
<1>2. ASSUME NEW c \in Contents, f = Whole(c) PROVE Survivors(f) = {f}
    <2>1. f # None /\ f.synced
        BY <1>2, WholeReads DEF Whole
    <2> QED
        BY <2>1 DEF Survivors
<1> QED
    BY <1>1, <1>2

\* After a power failure the target is one of the files it may have named.
LEMMA PowerLossTarget ==
    ASSUME IInv, PowerLoss
    PROVE  target' \in disk
BY WholeSurvives DEF IInv, DiskWhole, PowerLoss

LEMMA InitEstablishes ==
    Init => IInv
<1> SUFFICES ASSUME Init PROVE IInv
    OBVIOUS
<1>1. target \in File \cup {None}
    BY WholeReads DEF Init
<1> QED
    BY <1>1 DEF Init, IInv, TypeOK, DiskWhole, TmpMarksUnfinished

\* The invariant is inductive.
LEMMA StepPreserves ==
    IInv /\ [Next]_vars => IInv'
<1> SUFFICES ASSUME IInv, [Next]_vars PROVE IInv'
    OBVIOUS
<1> USE AtomicWriteAssumption
<1>1. ASSUME NEW c \in Contents, Call(c) PROVE IInv'
    BY <1>1 DEF IInv, TypeOK, DiskWhole, TmpMarksUnfinished, Call
<1>2. CASE Create
    <2>1. content \in Contents /\ Size[content] \in Nat
        BY <1>2 DEF IInv, TypeOK, Create
    <2>2. tmp' \in File /\ tmp'.of = content /\ tmp'.len = 0
        BY <1>2, <2>1 DEF Create, File
    <2>3. tmp' # None
        BY <2>2
    <2>4. TypeOK'
        BY <1>2, <2>1, <2>2, <2>3 DEF IInv, TypeOK, Create
    <2>5. DiskWhole' /\ TmpMarksUnfinished'
        BY <1>2, <2>3 DEF IInv, DiskWhole, TmpMarksUnfinished, Create
    <2> QED
        BY <2>4, <2>5 DEF IInv
<1>3. CASE CreateFails
    BY <1>3 DEF IInv, TypeOK, DiskWhole, TmpMarksUnfinished, CreateFails
<1>4. CASE Write
    BY <1>4 DEF IInv, TypeOK, DiskWhole, TmpMarksUnfinished, Write, File
<1>5. CASE Flush
    BY <1>5 DEF IInv, TypeOK, DiskWhole, TmpMarksUnfinished, Flush, File
<1>6. CASE WriteFails
    BY <1>6 DEF IInv, TypeOK, DiskWhole, TmpMarksUnfinished, WriteFails, File
<1>7. CASE Sync
    BY <1>7 DEF IInv, TypeOK, DiskWhole, TmpMarksUnfinished, Sync, File
<1>8. CASE Rename
    BY <1>8, SyncedIsWhole, WholeReads DEF IInv, TypeOK, DiskWhole, TmpMarksUnfinished, Rename
<1>9. CASE FinalizeFails
    BY <1>9 DEF IInv, TypeOK, DiskWhole, TmpMarksUnfinished, FinalizeFails
<1>10. CASE ReturnOk
    BY <1>10 DEF IInv, TypeOK, DiskWhole, TmpMarksUnfinished, ReturnOk
<1>11. CASE Abort
    BY <1>11 DEF IInv, TypeOK, DiskWhole, TmpMarksUnfinished, Abort
<1>12. CASE Kill
    BY <1>12 DEF IInv, TypeOK, DiskWhole, TmpMarksUnfinished, Kill
<1>13. CASE Journal
    BY <1>13 DEF IInv, TypeOK, DiskWhole, TmpMarksUnfinished, Journal
<1>14. CASE PowerLoss
    <2>1. Survivors(tmp) \subseteq File \cup {None}
        <3>1. CASE tmp = None
            BY <3>1 DEF Survivors
        <3>2. CASE tmp # None /\ ~tmp.synced
            <4>1. tmp \in File /\ tmp.len \in Nat
                BY <3>2 DEF IInv, TypeOK, File
            <4>2. ASSUME NEW n \in 0..tmp.len
                  PROVE  [of |-> tmp.of, len |-> n, synced |-> TRUE] \in File
                BY <4>1 DEF File
            <4> QED
                BY <3>2, <4>2 DEF Survivors
        <3>3. CASE tmp # None /\ tmp.synced
            BY <3>3 DEF IInv, TypeOK, Survivors
        <3> QED
            BY <3>1, <3>2, <3>3
    <2>2. target' \in disk
        BY <1>14, PowerLossTarget
    <2> QED
        BY <1>14, <2>1, <2>2 DEF IInv, TypeOK, DiskWhole, TmpMarksUnfinished, PowerLoss
<1>15. CASE UNCHANGED vars
    BY <1>15 DEF IInv, TypeOK, DiskWhole, TmpMarksUnfinished, vars
<1> QED
    BY <1>1, <1>2, <1>3, <1>4, <1>5, <1>6, <1>7, <1>8, <1>9, <1>10, <1>11, <1>12, <1>13,
       <1>14, <1>15 DEF Next

\* The type invariant, with the progress of the .tmp at each call.
THEOREM TypeCorrect == Spec => []TypeOK
<1>1. IInv => TypeOK
    BY DEF IInv
<1> QED
    BY <1>1, InitEstablishes, StepPreserves, PTL DEF Spec

\* A write that did not reach the rename leaves its .tmp, unless aborted
\* (atomic_write.rs:16-18).
THEOREM UnfinishedLeavesTmp == Spec => []TmpMarksUnfinished
<1>1. IInv => TmpMarksUnfinished
    BY DEF IInv
<1> QED
    BY <1>1, InitEstablishes, StepPreserves, PTL DEF Spec

-----------------------------------------------------------------------------

(* The refinement                                                          *)

LEMMA InitRefines ==
    Init => Register!Init
<1> SUFFICES ASSUME Init PROVE Register!Init
    OBVIOUS
<1>1. Reading(target) \in Contents \cup {None}
    BY WholeReads DEF Init, Reading
<1> QED
    BY <1>1 DEF Init, Register!Init

\* Every step of the writer is a step of the register or leaves it alone.
LEMMA StepRefines ==
    IInv /\ [Next]_vars => [Register!Next]_(Register!vars)
<1> SUFFICES ASSUME IInv, [Next]_vars PROVE [Register!Next]_(Register!vars)
    OBVIOUS
<1>1. ASSUME NEW c \in Contents, Call(c) PROVE Register!Call(c)
    BY <1>1 DEF Call, Register!Call
<1>2. CASE Create \/ Write \/ Flush \/ Sync
    BY <1>2 DEF IInv, TypeOK, Create, Write, Flush, Sync, Register!vars
<1>3. CASE CreateFails \/ WriteFails \/ FinalizeFails
    <2>1. Register!ReturnErr
        BY <1>3 DEF CreateFails, WriteFails, FinalizeFails, Register!ReturnErr
    <2> QED
        BY <2>1 DEF Register!Next
<1>4. CASE Rename
    <2>1. Reading(tmp) = content
        BY <1>4, SyncedIsWhole, WholeReads DEF Rename
    <2>2. Register!Publish
        BY <1>4, <2>1 DEF Rename, Register!Publish
    <2> QED
        BY <2>2 DEF Register!Next
<1>5. CASE ReturnOk
    BY <1>5 DEF ReturnOk, Register!ReturnOk, Register!Next
<1>6. CASE Abort
    BY <1>6 DEF Abort, Register!GiveUp, Register!Next
<1>7. CASE Kill
    <2>1. Register!Die
        BY <1>7 DEF IInv, TypeOK, Kill, Register!Die
    <2> QED
        BY <2>1 DEF Register!Next
<1>8. CASE Journal
    <2>1. Register!Settle
        BY <1>8 DEF Journal, Register!Settle
    <2> QED
        BY <2>1 DEF Register!Next
<1>9. CASE PowerLoss
    <2>1. target' \in disk
        BY <1>9, PowerLossTarget
    <2>2. Register!PowerLoss
        BY <1>9, <2>1 DEF PowerLoss, Reading, Register!PowerLoss
    <2> QED
        BY <2>2 DEF Register!Next
<1>10. CASE UNCHANGED vars
    BY <1>10 DEF vars, Register!vars
<1> QED
    BY <1>1, <1>2, <1>3, <1>4, <1>5, <1>6, <1>7, <1>8, <1>9, <1>10 DEF Next, Register!Next

\* write_atomic and AtomicWriter implement the register of whole contents,
\* whatever call fails, wherever the process is killed or the power goes.
THEOREM ImplementsRegister == Spec => RefinesRegister
<1>1. Spec => []IInv
    BY InitEstablishes, StepPreserves, PTL DEF Spec
<1> QED
    BY <1>1, InitRefines, StepRefines, PTL DEF Spec, RefinesRegister, Register!Spec

-----------------------------------------------------------------------------
(* The inductive invariant of the vulnerability search                     *)

\* A row of evidence; a legacy one has no source.
Sources == {"", "concolic", "controlled_fixture", "debug_probe", "fuzz", "safe_fixture_probe", "trace"}
EvidenceRows == [chain : STRING, pc : Nat, status : Statuses, source : Sources]

\* The stages of a run, and those at which its findings are there.
Running == {"discover", "join", "answer", "confirm", "score", "store", "write"}
HasFindings == InRun \/ Idle

\* What the lists are.
ListsAreTyped ==
    /\ runs \in 0..Len(Programs) /\ options \in VulnOptions
    /\ explicit \in Seq(EvidenceRows)
    /\ chains \in Seq(Chain) /\ \A i, j \in DOMAIN chains : chains[i].id = chains[j].id => i = j
    /\ DOMAIN evidence \subseteq 1..(Len(explicit) + 7 * Len(chains))
    /\ \A k \in DOMAIN evidence : evidence[k] \in EvidenceRows
    /\ out_dir = [store |-> out_dir.store, files |-> out_dir.files, status |-> out_dir.status]

\* What a run has not made yet is not there.
NothingBeforeItsStage ==
    /\ stage \in Running => ~returned /\ runs \in 1..Len(Programs)
    /\ stage \in {"discover", "join"} => evidence = NoFunction
    /\ stage \in {"discover", "join", "answer", "confirm", "score"} => findings = NoFunction
    /\ stage \in Running \ {"write"} => ledger = {}

\* Every row of the evidence is an explicit one that was kept, or says Unavailable.
KeptOrUnavailable(k) ==
    evidence[k].status = "Unavailable" \/ (k \in Kept(Explicit) /\ evidence[k] = Explicit[k])

EvidenceFollowsStages ==
    /\ stage \in {"answer", "confirm", "score", "store", "write"} /\ ~options.v1_1 => evidence = NoFunction
    /\ stage = "answer" /\ options.v1_1 => evidence = [k \in Kept(Explicit) |-> Explicit[k]]
    /\ stage \in {"confirm", "score", "store", "write"} /\ options.v1_1 =>
           /\ \A k \in DOMAIN evidence : KeptOrUnavailable(k)
           /\ \A i \in DOMAIN chains, s \in Requested(options.selector) : \E k \in DOMAIN evidence :
                  evidence[k].source = s /\ Matches(evidence[k], i)
    /\ stage \in {"score", "store", "write"} => confirmations = Confirmations

\* The findings are those of this run's chains.
FindingsFollowChains ==
    /\ DOMAIN findings \subseteq DOMAIN chains
    /\ HasFindings => findings = [i \in DOMAIN findings |-> Finding(i, DOMAIN findings)]

\* What is no longer to do is on disk.
StoreFollowsTodo ==
    /\ stage = "store" => todo \subseteq Default /\ \A i \in Default \ todo : findings[i] \in out_dir.store
    /\ stage = "write" \/ Idle => \A i \in Default : findings[i] \in out_dir.store

OnDisk(k, parts) == \A i \in parts : Holds(PathOf(Artifacts[k], i), Rows(Artifacts[k], i))
Named(n) == {Artifacts[k] : k \in 1..n} \cup {"findings.sqlite"}

FilesFollowTodo ==
    /\ stage = "write" =>
        /\ at \in 1..(Len(Artifacts) + 1)
        /\ {e.name : e \in ledger} = Named(at - 1)
        /\ \A k \in 1..(at - 1) : OnDisk(k, Parts(Artifacts[k]))
        /\ at <= Len(Artifacts) => todo \subseteq Parts(Artifacts[at]) /\ OnDisk(at, Parts(Artifacts[at]) \ todo)
    /\ StatusMatchesDisk

SearchInv ==
    /\ VulnTypeOK /\ ListsAreTyped /\ NothingBeforeItsStage /\ EvidenceFollowsStages /\ FindingsFollowChains
    /\ StoreFollowsTodo /\ FilesFollowTodo /\ LifetimeKeptApart

-----------------------------------------------------------------------------
(* The last of the strongest rows                                          *)

Below == {ss \in Nat \X Nat : ss[1] < ss[2]}

LEMMA BelowIsWellFounded == IsWellFoundedOn(Below, Nat)
  BY NatLessThanWellFounded DEF OpToRel, Below

\* A set of numbers that has a member and a bound has a greatest member.
LEMMA HasLast ==
    ASSUME NEW S \in SUBSET Nat, S # {}, NEW b \in Nat, \A k \in S : k <= b
    PROVE  \E k \in S : \A j \in S : j <= k
<1> DEFINE T == {b - k : k \in S}
<1>1. T \subseteq Nat
  OBVIOUS
<1>2. T # {}
  OBVIOUS
<1>21. \E x \in T : \A y \in T : ~(<<y, x>> \in Below)
  <2> HIDE DEF T
  <2> QED BY BelowIsWellFounded, <1>1, <1>2, WFMin
<1>3. PICK x \in T : \A y \in T : ~(<<y, x>> \in Below)
  BY <1>21
<1>4. \A y \in T : ~(y < x)
  <2> TAKE y \in T
  <2>1. y \in Nat /\ x \in Nat
    BY <1>1, <1>3
  <2> QED BY <1>3, <2>1 DEF Below
<1>5. PICK k \in S : x = b - k
  BY <1>3
<1>6. ASSUME NEW j \in S PROVE j <= k
  <2>1. b - j \in T
    OBVIOUS
  <2>2. ~(b - j < b - k)
    BY <1>4, <1>5, <2>1
  <2> QED BY <2>2
<1> QED BY <1>5, <1>6

LEMMA Weights ==
    /\ \A s \in Statuses : Weight(s) \in {0, 50, 100}
    /\ \A s \in Statuses : Weight(s) = 100 <=> s = "ConfirmedTrigger"
    /\ \A s \in Statuses : Weight(s) > 0 <=> s \in {"ConfirmedTrigger", "ReachedOnly"}
  BY DEF Weight, Statuses

\* A chain that has rows has a strongest one.
LEMMA StrongestIsOwn ==
    ASSUME ListsAreTyped, NEW i \in DOMAIN chains, Own(i) # {}
    PROVE  /\ Strongest(i) \in Own(i)
           /\ \A j \in Own(i) : Weight(evidence[j].status) <= Weight(evidence[Strongest(i)].status)
<1> DEFINE own == Own(i)
           w(k) == Weight(evidence[k].status)
           best == {k \in own : \A j \in own : w(j) <= w(k)}
<1>1. own \subseteq DOMAIN evidence /\ \A k \in own : w(k) \in {0, 50, 100}
  BY Weights DEF Own, ListsAreTyped, EvidenceRows
<1>2. best # {}
  <2> HIDE DEF w, own
  <2>1. \E k \in own : w(k) = 100 \/ w(k) = 50 \/ w(k) = 0
    BY <1>1 DEF own
  <2>2. CASE \E k \in own : w(k) = 100
    BY <2>2, <1>1
  <2>3. CASE ~(\E k \in own : w(k) = 100) /\ \E k \in own : w(k) = 50
    BY <2>3, <1>1
  <2>4. CASE ~(\E k \in own : w(k) = 100) /\ ~(\E k \in own : w(k) = 50)
    BY <2>4, <2>1, <1>1
  <2> QED BY <2>2, <2>3, <2>4
<1>3. best \subseteq Nat /\ \E b \in Nat : \A k \in best : k <= b
  <2>1. Len(explicit) + 7 * Len(chains) \in Nat
    BY DEF ListsAreTyped
  <2>2. DOMAIN evidence \subseteq 1..(Len(explicit) + 7 * Len(chains))
    BY DEF ListsAreTyped
  <2> DEFINE b == Len(explicit) + 7 * Len(chains)
  <2>3. best \subseteq 1..b
    BY <1>1, <2>2
  <2> HIDE DEF best, b
  <2>4. \A k \in best : k \in Nat /\ k <= b
    BY <2>1, <2>3 DEF b
  <2> QED BY <2>1, <2>4 DEF b
<1>4. \E k \in best : \A j \in best : j <= k
  <2> HIDE DEF best
  <2> QED BY <1>2, <1>3, HasLast
<1>5. Strongest(i) = CHOOSE k \in best : \A j \in best : j <= k
  BY DEF Strongest
<1>6. Strongest(i) \in best
  <2> HIDE DEF best
  <2> QED BY <1>4, <1>5
<1> QED BY <1>6

-----------------------------------------------------------------------------
(* What does not change with the variables it is made of                   *)

LEMMA SameRows ==
    ASSUME UNCHANGED <<options, explicit, chains>>
    PROVE  Explicit' = Explicit /\ Kept(Explicit)' = Kept(Explicit)
<1>1. \A i : Harness(i)' = Harness(i)
  BY DEF Harness
<1>2. \A i : ControlledRow(i)' = ControlledRow(i)
  BY <1>1 DEF ControlledRow, Row
<1>3. Confirmed' = Confirmed
  BY DEF Confirmed, Routed
<1>4. Explicit' = Explicit
  BY <1>2, <1>3 DEF Explicit
<1>5. \A r, i : Matches(r, i)' <=> Matches(r, i)
  BY DEF Matches
<1>6. Kept(Explicit)' = Kept(Explicit)
  BY <1>4, <1>5 DEF Kept, Requested
<1> QED BY <1>4, <1>6

LEMMA SameConfirmations ==
    ASSUME UNCHANGED <<chains, evidence>>
    PROVE  Confirmations' = Confirmations
<1>1. \A r, i : Matches(r, i)' <=> Matches(r, i)
  BY DEF Matches
<1>2. \A i : Own(i)' = Own(i)
  BY <1>1 DEF Own
<1>3. \A i : Strongest(i)' = Strongest(i) /\ Contributing(i)' = Contributing(i)
  BY <1>2 DEF Strongest, Contributing
<1> QED BY <1>2, <1>3 DEF Confirmations

LEMMA SameFinding ==
    ASSUME UNCHANGED <<runs, options, chains, confirmations>>
    PROVE  \A i, scored : Finding(i, scored)' = Finding(i, scored)
<1>1. \A i : Confirmation(i)' = Confirmation(i)
  BY DEF Confirmation
<1>2. \A i : Confidence(i)' = Confidence(i) /\ Risk(i)' = Risk(i)
  BY <1>1 DEF Confidence, Risk, Support
<1> QED BY <1>1, <1>2 DEF Finding

LEMMA SameFiles ==
    ASSUME UNCHANGED session
    PROVE  /\ Default' = Default /\ Artifacts' = Artifacts
           /\ \A a : Parts(a)' = Parts(a)
           /\ \A a, i : PathOf(a, i)' = PathOf(a, i) /\ Rows(a, i)' = Rows(a, i)
<1> USE DEF session
<1>1. Default' = Default /\ Candidates' = Candidates /\ Manifest' = Manifest
  BY DEF Default, Candidates, Manifest
<1>2. Artifacts' = Artifacts
  BY <1>1 DEF Artifacts
<1>3. \A a : Parts(a)' = Parts(a)
  BY <1>1 DEF Parts
<1>4. \A a, i : PathOf(a, i)' = PathOf(a, i)
  BY <1>1 DEF PathOf
<1>5. GraphNodes' = GraphNodes /\ GraphEdges' = GraphEdges
  BY <1>1 DEF GraphNodes, GraphEdges, GraphLabel
<1>6. Bundle' = Bundle
  <2>1. Top' = Top
    BY <1>1 DEF Top
  <2> QED BY <1>1, <2>1 DEF Bundle
<1>7. Suggestions' = Suggestions
  BY <1>1 DEF Suggestions
<1>8. \A i : Harness(i)' = Harness(i) /\ Confirmation(i)' = Confirmation(i) /\ Attempt(i)' = Attempt(i)
  BY DEF Harness, Confirmation, Attempt
<1>9. \A i : Packet(i)' = Packet(i) /\ ManifestEntry(i)' = ManifestEntry(i)
  BY <1>4, <1>8 DEF Packet, ManifestEntry
<1>10. \A a, i : Rows(a, i)' = Rows(a, i)
  BY <1>1, <1>5, <1>6, <1>7, <1>8, <1>9 DEF Rows
<1> QED BY <1>1, <1>2, <1>3, <1>4, <1>10

-----------------------------------------------------------------------------
(* Evidence                                                                *)

LEMMA SixSources ==
    /\ DOMAIN SourceNames = 1..6 /\ Len(SourceNames) = 6
    /\ \A j \in 1..6 : SourceNames[j] \in Sources
    /\ \A x, s : s \in Requested(x) => \E j \in 1..6 : s = SourceNames[j]
<1>1. /\ DOMAIN SourceNames = 1..6 /\ Len(SourceNames) = 6
  BY DEF SourceNames
<1>2. ASSUME NEW x, NEW s \in Requested(x)
      PROVE  s \in {"concolic", "controlled_fixture", "debug_probe", "fuzz", "safe_fixture_probe", "trace"}
  BY DEF Requested
<1>3. /\ SourceNames[1] = "concolic" /\ SourceNames[2] = "controlled_fixture" /\ SourceNames[3] = "debug_probe"
      /\ SourceNames[4] = "fuzz" /\ SourceNames[5] = "safe_fixture_probe" /\ SourceNames[6] = "trace"
  BY DEF SourceNames
<1>4. 1 \in 1..6 /\ 2 \in 1..6 /\ 3 \in 1..6 /\ 4 \in 1..6 /\ 5 \in 1..6 /\ 6 \in 1..6
  OBVIOUS
<1>5. \A j \in 1..6 : SourceNames[j] \in Sources
  <2> TAKE j \in 1..6
  <2>1. j \in {1, 2, 3, 4, 5, 6}
    OBVIOUS
  <2> QED BY <1>3, <2>1 DEF Sources
<1> QED BY <1>1, <1>2, <1>3, <1>4, <1>5

LEMMA Pairs ==
    ASSUME NEW S, NEW T, NEW p \in S \X T
    PROVE  p[1] \in S /\ p[2] \in T /\ p = <<p[1], p[2]>>
  OBVIOUS

LEMMA FieldsOfChains ==
    ASSUME ListsAreTyped, NEW i \in DOMAIN chains
    PROVE  chains[i].id \in STRING /\ chains[i].site \in Nat
<1>1. chains[i] \in Chain
  BY DEF ListsAreTyped
<1> QED BY <1>1 DEF Chain

LEMMA Digits ==
    ASSUME NEW m \in Nat, NEW i \in Nat, NEW j \in Nat, NEW a \in 1..6, NEW b \in 1..6,
           m + 6 * (i - 1) + a = m + 6 * (j - 1) + b
    PROVE  i = j /\ a = b
<1>1. i < j => m + 6 * (i - 1) + a < m + 6 * (j - 1) + b
  OBVIOUS
<1>2. j < i => m + 6 * (j - 1) + b < m + 6 * (i - 1) + a
  OBVIOUS
<1> QED BY <1>1, <1>2

\* The position of an answer tells the harness and the source.
LEMMA PositionsDiffer ==
    ASSUME ListsAreTyped
    PROVE  /\ \A p \in (DOMAIN chains) \X (1..6) :
                  PositionOf(p) \in (Len(explicit) + Len(chains) + 1)..(Len(explicit) + 7 * Len(chains))
           /\ \A p, q \in (DOMAIN chains) \X (1..6) : PositionOf(p) = PositionOf(q) => p = q
<1>1. Len(explicit) \in Nat /\ Len(chains) \in Nat /\ DOMAIN chains = 1..Len(chains)
  BY DEF ListsAreTyped
<1>2. \A p : PositionOf(p) = Len(explicit) + Len(chains) + 6 * (p[1] - 1) + p[2]
  BY SixSources DEF PositionOf
<1>3. \A p \in (DOMAIN chains) \X (1..6) : p[1] \in 1..Len(chains) /\ p[2] \in 1..6 /\ p = <<p[1], p[2]>>
  <2> TAKE p \in (DOMAIN chains) \X (1..6)
  <2>1. p[1] \in DOMAIN chains /\ p[2] \in 1..6
    OBVIOUS
  <2>2. p = <<p[1], p[2]>>
    OBVIOUS
  <2> QED BY <1>1, <2>1, <2>2
<1>4. \A p \in (DOMAIN chains) \X (1..6) :
          PositionOf(p) \in (Len(explicit) + Len(chains) + 1)..(Len(explicit) + 7 * Len(chains))
  <2>1. \A n, m \in Nat : \A i \in 1..m, j \in 1..6 : n + m + 6 * (i - 1) + j \in (n + m + 1)..(n + 7 * m)
    OBVIOUS
  <2> QED BY <1>1, <1>2, <1>3, <2>1
<1>5. ASSUME NEW p \in (DOMAIN chains) \X (1..6), NEW q \in (DOMAIN chains) \X (1..6), PositionOf(p) = PositionOf(q)
      PROVE  p = q
  <2>1. p[1] = q[1] /\ p[2] = q[2]
    <3> DEFINE m == Len(explicit) + Len(chains)
               i == p[1]
               j == q[1]
               a == p[2]
               b == q[2]
    <3>1. m \in Nat /\ i \in Nat /\ j \in Nat /\ a \in 1..6 /\ b \in 1..6
      BY <1>1, <1>3
    <3>2. m + 6 * (i - 1) + a = m + 6 * (j - 1) + b
      BY <1>2, <1>5
    <3>3. i = j /\ a = b
      <4> HIDE DEF m, i, j, a, b
      <4> QED BY <3>1, <3>2, Digits
    <3> QED BY <3>3
  <2> QED BY <1>3, <2>1
<1> QED BY <1>4, <1>5

\* The rows of the caller and of the fixture.
LEMMA ExplicitRows ==
    ASSUME ListsAreTyped
    PROVE  /\ DOMAIN Explicit \subseteq 1..(Len(explicit) + Len(chains))
           /\ \A k \in DOMAIN Explicit : Explicit[k] \in EvidenceRows
<1> DEFINE n == Len(explicit)
<1>1. n \in Nat /\ DOMAIN explicit = 1..n /\ Len(chains) \in Nat /\ DOMAIN chains = 1..Len(chains)
  BY DEF ListsAreTyped
<1>2. Confirmed \subseteq DOMAIN chains
  BY DEF Confirmed
<1>3. \A i \in DOMAIN chains : ControlledRow(i) \in EvidenceRows
  BY FieldsOfChains DEF ControlledRow, Row, Harness, EvidenceRows, Statuses, Sources
<1>4. DOMAIN Explicit = (1..n) \cup {n + i : i \in Confirmed}
  BY DEF Explicit
<1>5. \A k \in DOMAIN Explicit : Explicit[k] = IF k <= n THEN explicit[k] ELSE ControlledRow(k - n)
  BY DEF Explicit
<1>6. DOMAIN Explicit \subseteq 1..(n + Len(chains))
  BY <1>1, <1>2, <1>4
<1>7. ASSUME NEW k \in DOMAIN Explicit PROVE Explicit[k] \in EvidenceRows
  <2>1. CASE k <= n
    <3>1. k \in 1..n
      BY <1>1, <1>6, <2>1
    <3> QED BY <1>1, <1>5, <2>1, <3>1 DEF ListsAreTyped
  <2>2. CASE ~(k <= n)
    <3>1. k - n \in DOMAIN chains
      BY <1>1, <1>2, <1>4, <2>2
    <3> QED BY <1>3, <1>5, <2>2, <3>1
  <2> QED BY <2>1, <2>2
<1> QED BY <1>6, <1>7

LEMMA KeptRows == ASSUME NEW rows PROVE Kept(rows) \subseteq DOMAIN rows
  BY DEF Kept

\* The answers are the rows kept, and one of Unavailable for every harness and
\* source that was asked for and has none.
LEMMA AnswersAreWhole ==
    ASSUME ListsAreTyped, evidence = [k \in Kept(Explicit) |-> Explicit[k]]
    PROVE  /\ DOMAIN Answered \subseteq 1..(Len(explicit) + 7 * Len(chains))
           /\ \A k \in DOMAIN Answered :
                  /\ Answered[k] \in EvidenceRows
                  /\ \/ Answered[k].status = "Unavailable"
                     \/ k \in Kept(Explicit) /\ Answered[k] = Explicit[k]
           /\ \A i \in DOMAIN chains, s \in Requested(options.selector) : \E k \in DOMAIN Answered :
                  Answered[k].source = s /\ Matches(Answered[k], i)
<1>1. DOMAIN evidence = Kept(Explicit) /\ \A k \in Kept(Explicit) : evidence[k] = Explicit[k]
  OBVIOUS
<1>2. Len(explicit) \in Nat /\ Len(chains) \in Nat /\ DOMAIN chains = 1..Len(chains)
  BY DEF ListsAreTyped
<1>3. DOMAIN evidence \subseteq 1..(Len(explicit) + Len(chains))
  BY <1>1, KeptRows, ExplicitRows
<1>4. Unanswered \subseteq (DOMAIN chains) \X (1..6)
  BY SixSources DEF Unanswered
<1>5. \A p \in Unanswered : /\ PositionOf(p) \in 1..(Len(explicit) + 7 * Len(chains))
                            /\ PositionOf(p) \notin DOMAIN evidence
  BY <1>2, <1>3, <1>4, PositionsDiffer
<1>6. DOMAIN Answered = DOMAIN evidence \cup {PositionOf(p) : p \in Unanswered}
  BY DEF Answered
<1>7. \A k \in DOMAIN evidence : Answered[k] = evidence[k]
  BY DEF Answered
<1>8. \A p \in Unanswered : Answered[PositionOf(p)] = UnavailableRow(p)
  <2> TAKE p \in Unanswered
  <2>1. (CHOOSE q \in Unanswered : PositionOf(p) = PositionOf(q)) = p
    BY <1>4, PositionsDiffer
  <2> QED BY <1>5, <1>6, <2>1 DEF Answered
<1>9. \A p \in Unanswered :
          /\ UnavailableRow(p) = [chain |-> chains[p[1]].id, pc |-> chains[p[1]].site,
                                  status |-> "Unavailable", source |-> SourceNames[p[2]]]
          /\ UnavailableRow(p) \in EvidenceRows
  <2> TAKE p \in Unanswered
  <2>1. p[1] \in DOMAIN chains /\ p[2] \in 1..6
    BY <1>4, Pairs
  <2>2. UnavailableRow(p) = [chain |-> chains[p[1]].id, pc |-> chains[p[1]].site,
                             status |-> "Unavailable", source |-> SourceNames[p[2]]]
    BY DEF UnavailableRow, Row, Harness
  <2>3. chains[p[1]].id \in STRING /\ chains[p[1]].site \in Nat
    BY <2>1, FieldsOfChains
  <2> QED BY <2>1, <2>2, <2>3, SixSources DEF EvidenceRows, Statuses
<1>10. DOMAIN Answered \subseteq 1..(Len(explicit) + 7 * Len(chains))
  BY <1>2, <1>3, <1>5, <1>6
<1>11. ASSUME NEW k \in DOMAIN Answered
       PROVE  /\ Answered[k] \in EvidenceRows
              /\ \/ Answered[k].status = "Unavailable"
                 \/ k \in Kept(Explicit) /\ Answered[k] = Explicit[k]
  <2>1. CASE k \in DOMAIN evidence
    BY <1>1, <1>7, <2>1, KeptRows, ExplicitRows
  <2>2. CASE \E p \in Unanswered : k = PositionOf(p)
    BY <1>8, <1>9, <2>2
  <2> QED BY <1>6, <2>1, <2>2
<1>12. ASSUME NEW i \in DOMAIN chains, NEW s \in Requested(options.selector)
       PROVE  \E k \in DOMAIN Answered : Answered[k].source = s /\ Matches(Answered[k], i)
  <2>1. CASE \E k \in DOMAIN evidence : evidence[k].source = s /\ Matches(evidence[k], i)
    BY <1>6, <1>7, <2>1
  <2>2. CASE ~\E k \in DOMAIN evidence : evidence[k].source = s /\ Matches(evidence[k], i)
    <3>1. PICK j \in 1..6 : s = SourceNames[j]
      BY SixSources
    <3>2. <<i, j>> \in Unanswered
      BY <2>2, <3>1, SixSources DEF Unanswered
    <3>3. /\ Answered[PositionOf(<<i, j>>)].source = s
          /\ Answered[PositionOf(<<i, j>>)].chain = chains[i].id /\ Answered[PositionOf(<<i, j>>)].pc = chains[i].site
      BY <1>8, <1>9, <3>1, <3>2
    <3> QED BY <1>6, <3>2, <3>3 DEF Matches
  <2> QED BY <2>1, <2>2
<1> QED BY <1>10, <1>11, <1>12

-----------------------------------------------------------------------------
(* Artifacts and their files                                               *)

LEMMA ArtifactList ==
    /\ Len(Artifacts) \in Nat \ {0} /\ DOMAIN Artifacts = 1..Len(Artifacts)
    /\ \A k, l \in 1..Len(Artifacts) : Artifacts[k] = Artifacts[l] => k = l
    /\ options.v1_1 => \E k, l \in 1..Len(Artifacts) : Artifacts[k] = "harnesses" /\ Artifacts[l] = "vuln_packets"
<1> DEFINE three == <<"findings.jsonl", "chain_graph.json", "evidence_bundle.json">>
           six == <<"harnesses", "dynamic_evidence.jsonl", "dynamic_attempts.jsonl", "vuln_packets",
                    "patch_suggestions.jsonl", "test_suggestions.jsonl">>
<1>1. CASE ~options.v1_1
  <2>1. Artifacts = three \o <<>>
    BY <1>1 DEF Artifacts
  <2>2. Len(Artifacts) = 3 /\ DOMAIN Artifacts = 1..3
    BY <2>1
  <2>3. Artifacts[1] = "findings.jsonl" /\ Artifacts[2] = "chain_graph.json" /\ Artifacts[3] = "evidence_bundle.json"
    BY <2>1
  <2> QED BY <1>1, <2>2, <2>3
<1>2. ASSUME options.v1_1
      PROVE  /\ Len(Artifacts) \in {9, 10} /\ DOMAIN Artifacts = 1..Len(Artifacts)
             /\ Artifacts[1] = "findings.jsonl" /\ Artifacts[2] = "chain_graph.json"
             /\ Artifacts[3] = "evidence_bundle.json" /\ Artifacts[4] = "harnesses"
             /\ Artifacts[5] = "dynamic_evidence.jsonl" /\ Artifacts[6] = "dynamic_attempts.jsonl"
             /\ Artifacts[7] = "vuln_packets" /\ Artifacts[8] = "patch_suggestions.jsonl"
             /\ Artifacts[9] = "test_suggestions.jsonl"
             /\ Len(Artifacts) = 10 => Artifacts[10] = "lifetime_candidates.jsonl"
  <2>1. CASE options.lifetime /\ Candidates # {}
    <3>1. Artifacts = three \o (six \o <<"lifetime_candidates.jsonl">>)
      BY <1>2, <2>1 DEF Artifacts
    <3> QED BY <3>1
  <2>2. CASE ~(options.lifetime /\ Candidates # {})
    <3>1. Artifacts = three \o (six \o <<>>)
      BY <1>2, <2>2 DEF Artifacts
    <3> QED BY <3>1
  <2> QED BY <2>1, <2>2
<1>3. CASE options.v1_1
  <2> DEFINE Position(s) ==
        CASE s = "findings.jsonl" -> 1 [] s = "chain_graph.json" -> 2 [] s = "evidence_bundle.json" -> 3
          [] s = "harnesses" -> 4 [] s = "dynamic_evidence.jsonl" -> 5 [] s = "dynamic_attempts.jsonl" -> 6
          [] s = "vuln_packets" -> 7 [] s = "patch_suggestions.jsonl" -> 8 [] s = "test_suggestions.jsonl" -> 9
          [] OTHER -> 10
  <2>1. ASSUME NEW k \in 1..Len(Artifacts) PROVE Position(Artifacts[k]) = k
    <3>1. k \in {1, 2, 3, 4, 5, 6, 7, 8, 9} \/ (k = 10 /\ Len(Artifacts) = 10)
      <4>1. \A m \in {9, 10} : \A x \in 1..m : x \in {1, 2, 3, 4, 5, 6, 7, 8, 9} \/ (x = 10 /\ m = 10)
        OBVIOUS
      <4> QED BY <1>2, <1>3, <4>1
    <3>2. CASE k \in {1, 2, 3, 4, 5}
      BY <1>2, <1>3, <3>2
    <3>3. CASE k \in {6, 7, 8}
      BY <1>2, <1>3, <3>3
    <3>4. CASE k = 9 \/ (k = 10 /\ Len(Artifacts) = 10)
      BY <1>2, <1>3, <3>4
    <3> QED BY <3>1, <3>2, <3>3, <3>4
  <2>2. \A k, l \in 1..Len(Artifacts) : Artifacts[k] = Artifacts[l] => k = l
    <3> HIDE DEF Position
    <3> QED BY <2>1
  <2> QED BY <1>2, <1>3, <2>2
<1> QED BY <1>1, <1>3

\* Two files of a run have different names.
LEMMA PathsDiffer ==
    ASSUME ListsAreTyped, NEW k \in 1..Len(Artifacts), NEW l \in 1..Len(Artifacts),
           NEW i \in Parts(Artifacts[k]), NEW j \in Parts(Artifacts[l]), Default \subseteq DOMAIN chains,
           PathOf(Artifacts[k], i) = PathOf(Artifacts[l], j)
    PROVE  k = l /\ i = j
<1> DEFINE a == Artifacts[k]
<1>1. \A b, x : PathOf(b, x)[1] = b
  BY DEF PathOf
<1>2. k = l
  BY <1>1, ArtifactList
<1>3. CASE a = "harnesses"
  <2>1. i \in DOMAIN chains /\ j \in DOMAIN chains
    BY <1>2, <1>3 DEF Parts
  <2>2. chains[i].id = chains[j].id
    BY <1>2, <1>3 DEF PathOf
  <2> QED BY <1>2, <2>1, <2>2 DEF ListsAreTyped
<1>4. CASE a = "vuln_packets"
  <2>1. i \in Default \cup {Manifest} /\ j \in Default \cup {Manifest}
    BY <1>2, <1>4 DEF Parts
  <2>2. \A x : x = Manifest => Len(PathOf(a, x)) = 1
    BY <1>4 DEF PathOf
  <2>3. \A x : x # Manifest => Len(PathOf(a, x)) = 3 /\ PathOf(a, x)[2] = chains[x].id
    BY <1>4 DEF PathOf
  <2>4. CASE i # Manifest /\ j # Manifest
    <3>1. chains[i].id = chains[j].id
      BY <1>2, <2>3, <2>4
    <3> QED BY <1>2, <2>1, <2>4, <3>1 DEF ListsAreTyped
  <2>5. CASE i = Manifest \/ j = Manifest
    BY <1>2, <2>2, <2>3, <2>5
  <2> QED BY <2>4, <2>5
<1>5. CASE a \notin {"harnesses", "vuln_packets"}
  BY <1>2, <1>5 DEF Parts
<1> QED BY <1>3, <1>4, <1>5

\* Finding ids are counted: different findings of a run have different ones.
UpTo(S, k) == {j \in S : j <= k}

LEMMA IdsDiffer ==
    ASSUME NEW n \in Nat, NEW S \in SUBSET (1..n), NEW i \in S, NEW j \in S,
           Cardinality(UpTo(S, i)) = Cardinality(UpTo(S, j))
    PROVE  i = j
<1>1. \A k \in S : UpTo(S, k) \subseteq 1..n
  BY DEF UpTo
<1>2. IsFiniteSet(1..n)
  BY FS_Interval
<1>3. \A k \in S : IsFiniteSet(UpTo(S, k))
  BY <1>1, <1>2, FS_Subset
<1>4. ASSUME NEW k \in S, NEW l \in S, k < l, Cardinality(UpTo(S, k)) = Cardinality(UpTo(S, l)) PROVE FALSE
  <2>1. UpTo(S, k) \subseteq UpTo(S, l)
    <3>1. \A x \in S : x \in Nat
      OBVIOUS
    <3>2. \A x \in S : x <= k => x <= l
      BY <1>4, <3>1
    <3> QED BY <3>2 DEF UpTo
  <2>2. l \in UpTo(S, l) /\ l \notin UpTo(S, k)
    BY <1>4 DEF UpTo
  <2>3. Cardinality(UpTo(S, k)) = Cardinality(UpTo(S, l)) => UpTo(S, k) = UpTo(S, l)
    BY <1>3, <2>1, FS_Subset
  <2> QED BY <1>4, <2>2, <2>3
<1>5. i \in Nat /\ j \in Nat
  OBVIOUS
<1> QED BY <1>4, <1>5

\* The chains of a run: those of its program and, if asked for, the candidates.
LEMMA ChainsOfRun ==
    ASSUME NEW r \in 1..Len(Programs), NEW b \in BOOLEAN,
           NEW cs, cs = Programs[r] \o (IF b THEN LifetimeChains[r] ELSE <<>>)
    PROVE  cs \in Seq(Chain) /\ \A i, j \in DOMAIN cs : cs[i].id = cs[j].id => i = j
<1> DEFINE p == Programs[r]
           q == LifetimeChains[r]
           all == p \o q
<1>1. r \in DOMAIN Programs /\ r \in DOMAIN LifetimeChains
  BY VulnSessionAssumption
<1>2. p \in Seq(Chain) /\ q \in Seq(Chain)
  BY <1>1, VulnSessionAssumption
<1>3. \A i, j \in DOMAIN all : all[i].id = all[j].id => i = j
  BY <1>1, VulnSessionAssumption
<1> HIDE DEF p, q
<1>4. CASE b
  <2>1. cs = all
    BY <1>4 DEF p, q
  <2>2. all \in Seq(Chain)
    BY <1>2
  <2> QED BY <1>3, <2>1, <2>2
<1>5. CASE ~b
  <2>1. cs = p
    <3>1. cs = p \o <<>>
      BY <1>5 DEF p
    <3> QED BY <1>2, <3>1, ConcatEmptySeq
  <2>2. \A i \in DOMAIN p : i \in DOMAIN all /\ all[i] = p[i]
    BY <1>2
  <2> HIDE DEF all
  <2>3. \A i, j \in DOMAIN p : p[i].id = p[j].id => i = j
    BY <1>3, <2>2
  <2> QED BY <1>2, <2>1, <2>3
<1> QED BY <1>4, <1>5

-----------------------------------------------------------------------------
(* The steps of the search                                                 *)

LEMMA RowsObserved ==
    ASSUME ListsAreTyped, NEW o \in Observations, NEW i \in DOMAIN chains
    PROVE  /\ RowsFor(o, Harness(i)) \in Seq(EvidenceRows) /\ Len(RowsFor(o, Harness(i))) <= 1
           /\ \A k \in DOMAIN RowsFor(o, Harness(i)) : RowsFor(o, Harness(i))[k].status # "Unavailable"
<1> DEFINE h == Harness(i)
           row(status, source) == Row(h, status, source)
<1>1. ASSUME NEW s \in Statuses, NEW x \in Sources PROVE row(s, x) \in EvidenceRows /\ row(s, x).status = s
  BY FieldsOfChains DEF Row, Harness, EvidenceRows
<1> DEFINE rows == RowsFor(o, h)
           OneOf(s, x) == rows = <<row(s, x)>>
<1>2. rows = <<>> \/ \E s \in Statuses \ {"Unavailable"}, x \in Sources : OneOf(s, x)
  <2>1. /\ o.kind = "crash" => rows = <<>> \/ OneOf("ConfirmedTrigger", "fuzz") \/ OneOf("ReachedOnly", "fuzz")
        /\ o.kind = "trace" => rows = <<>> \/ OneOf("ReachedOnly", "trace")
        /\ o.kind = "solve" => rows = <<>> \/ OneOf("ReachedOnly", "concolic")
        /\ o.kind = "quiet" => OneOf("NotObserved", "")
    BY DEF RowsFor, CrashRows, TraceRows, SolveRows, QuietRows
  <2>2. /\ {"ConfirmedTrigger", "ReachedOnly", "NotObserved"} \subseteq Statuses \ {"Unavailable"}
        /\ {"fuzz", "trace", "concolic", ""} \subseteq Sources
    BY DEF Statuses, Sources
  <2> HIDE DEF OneOf
  <2> QED BY <2>1, <2>2, VulnSessionAssumption
<1>3. CASE rows = <<>>
  <2> HIDE DEF rows
  <2>1. rows \in Seq(EvidenceRows) /\ Len(rows) = 0 /\ DOMAIN rows = {}
    BY <1>3
  <2> QED BY <2>1 DEF rows
<1>4. ASSUME NEW s \in Statuses \ {"Unavailable"}, NEW x \in Sources, OneOf(s, x)
      PROVE  rows \in Seq(EvidenceRows) /\ Len(rows) <= 1 /\ \A k \in DOMAIN rows : rows[k].status # "Unavailable"
  <2> DEFINE r == row(s, x)
  <2>1. rows = <<r>> /\ r \in EvidenceRows /\ r.status # "Unavailable"
    BY <1>1, <1>4
  <2> HIDE DEF r, rows
  <2> QED BY <2>1
<1> QED BY <1>2, <1>3, <1>4

LEMMA Nothing == DOMAIN NoFunction = {} /\ Len(<<>>) = 0 /\ DOMAIN <<>> = {}
  BY DEF NoFunction

LEMMA InitHolds == ASSUME VulnInit PROVE SearchInv
<1> USE DEF VulnInit
<1>1. MaxRows \in Nat /\ MaxFaults \in Nat
  BY VulnSessionAssumption
<1>2. Len(Programs) \in Nat
  BY VulnSessionAssumption
<1>3. VulnTypeOK
  <2>1. stage \in {"idle", "discover", "join", "answer", "confirm", "score", "store", "write", "over"}
    OBVIOUS
  <2>2. runs \in 0..Len(Programs) /\ options \in VulnOptions /\ faults \in 0..MaxFaults
    BY <1>1, <1>2
  <2>3. returned \in BOOLEAN
    OBVIOUS
  <2>4. Len(explicit) \in 0..MaxRows /\ \A k \in DOMAIN explicit : explicit[k].status \in Statuses \ {"Unavailable"}
    BY <1>1, Nothing
  <2>5. DOMAIN evidence = {} /\ DOMAIN findings = {}
    BY Nothing
  <2> QED BY <2>1, <2>2, <2>3, <2>4, <2>5 DEF VulnTypeOK
<1>4. ListsAreTyped
  BY <1>2 DEF ListsAreTyped, NoFunction
<1>5. NothingBeforeItsStage /\ EvidenceFollowsStages
  BY DEF NothingBeforeItsStage, EvidenceFollowsStages, Running
<1>6. FindingsFollowChains
  BY DEF FindingsFollowChains, HasFindings, InRun, Idle, NoFunction
<1>7. StoreFollowsTodo /\ FilesFollowTodo
  BY DEF StoreFollowsTodo, FilesFollowTodo, StatusMatchesDisk, Idle
<1>8. LifetimeKeptApart
  BY DEF LifetimeKeptApart, NoFunction
<1> QED BY <1>3, <1>4, <1>5, <1>6, <1>7, <1>8 DEF SearchInv

LEMMA TypesStep ==
    ASSUME SearchInv, [VulnNext]_vuln_vars
    PROVE  VulnTypeOK' /\ ListsAreTyped'
<1> USE DEF SearchInv, session, writing
<1>1. MaxRows \in Nat /\ MaxFaults \in Nat /\ Len(Programs) \in Nat
  BY VulnSessionAssumption
<1>2. ASSUME NEW o \in VulnOptions, Start(o) PROVE VulnTypeOK' /\ ListsAreTyped'
  <2>1. VulnTypeOK'
    <3>1. runs' = runs + 1 /\ runs < Len(Programs) /\ runs \in 0..Len(Programs)
      BY <1>2 DEF Start, VulnTypeOK
    <3>11. stage' = "discover" /\ options' \in VulnOptions /\ returned' \in BOOLEAN
      BY <1>2 DEF Start
    <3>12. runs' \in 0..Len(Programs)
      BY <1>1, <3>1
    <3>2. DOMAIN evidence' = {} /\ DOMAIN findings' = {}
      BY <1>2, Nothing DEF Start
    <3>3. UNCHANGED <<explicit, faults>>
      BY <1>2 DEF Start
    <3> QED BY <3>11, <3>12, <3>2, <3>3 DEF VulnTypeOK
  <2>2. ListsAreTyped'
    BY <1>1, <1>2 DEF Start, ListsAreTyped, NoFunction
  <2> QED BY <2>1, <2>2
<1>3. ASSUME NEW o \in Observations, NEW i \in DOMAIN chains, Observe(o, i) PROVE VulnTypeOK' /\ ListsAreTyped'
  <2> DEFINE rows == RowsFor(o, Harness(i))
  <2>1. /\ rows \in Seq(EvidenceRows) /\ Len(rows) <= 1
        /\ \A k \in DOMAIN rows : rows[k].status # "Unavailable"
    BY RowsObserved
  <2>2. explicit' = explicit \o rows /\ Len(explicit) < MaxRows /\ explicit \in Seq(EvidenceRows)
    BY <1>3 DEF Observe, ListsAreTyped
  <2> HIDE DEF rows
  <2>3. explicit' \in Seq(EvidenceRows) /\ Len(explicit') = Len(explicit) + Len(rows)
    BY <2>1, <2>2
  <2>4. Len(explicit') \in 0..MaxRows
    BY <1>1, <2>1, <2>2, <2>3
  <2>5. \A k \in DOMAIN explicit' : explicit'[k].status \in Statuses \ {"Unavailable"}
    <3> TAKE k \in DOMAIN explicit'
    <3>1. explicit'[k].status \in Statuses
      <4>1. explicit'[k] \in EvidenceRows
        BY <2>3
      <4> QED BY <4>1 DEF EvidenceRows
    <3>2. CASE k <= Len(explicit)
      BY <2>1, <2>2, <2>3, <3>1, <3>2 DEF VulnTypeOK
    <3>3. CASE k > Len(explicit)
      <4>1. k - Len(explicit) \in DOMAIN rows /\ explicit'[k] = rows[k - Len(explicit)]
        BY <2>1, <2>2, <2>3, <3>3
      <4> QED BY <2>1, <3>1, <4>1
    <3> QED BY <2>2, <2>3, <3>2, <3>3
  <2>6. VulnTypeOK'
    BY <1>3, <2>4, <2>5 DEF Observe, VulnTypeOK
  <2>7. DOMAIN evidence \subseteq 1..(Len(explicit') + 7 * Len(chains))
    BY <2>1, <2>2, <2>3 DEF ListsAreTyped
  <2>8. ListsAreTyped'
    BY <1>3, <2>3, <2>7 DEF Observe, ListsAreTyped
  <2> QED BY <2>6, <2>8
<1>4. CASE Discover
  <2>1. /\ evidence = NoFunction /\ findings = NoFunction /\ runs \in 1..Len(Programs)
        /\ options.v1_1 \in BOOLEAN /\ options.lifetime \in BOOLEAN
    BY <1>4, VulnSessionAssumption DEF Discover, NothingBeforeItsStage, Running, VulnTypeOK
  <2>2. /\ chains' = Programs[runs] \o (IF options.v1_1 /\ options.lifetime THEN LifetimeChains[runs] ELSE <<>>)
        /\ stage' = "join"
        /\ UNCHANGED <<runs, options, evidence, confirmations, findings, explicit, writing, out_dir, returned, faults>>
    BY <1>4 DEF Discover
  <2>3. chains' \in Seq(Chain) /\ \A i, j \in DOMAIN chains' : chains'[i].id = chains'[j].id => i = j
    BY <2>1, <2>2, ChainsOfRun
  <2>4. VulnTypeOK'
    BY <2>1, <2>2 DEF VulnTypeOK, NoFunction
  <2>5. ListsAreTyped'
    BY <2>1, <2>2, <2>3 DEF ListsAreTyped, NoFunction
  <2> QED BY <2>4, <2>5
<1>5. CASE Join
  <2>1. CASE ~options.v1_1
    <3>1. evidence' = NoFunction
      BY <1>5, <2>1 DEF Join
    <3> QED BY <1>5, <3>1 DEF Join, VulnTypeOK, ListsAreTyped, NoFunction
  <2>2. CASE options.v1_1
    <3>1. evidence' = [k \in Kept(Explicit) |-> Explicit[k]]
      BY <1>5, <2>2 DEF Join
    <3>2. DOMAIN evidence' \subseteq DOMAIN Explicit /\ \A k \in DOMAIN evidence' : evidence'[k] = Explicit[k]
      BY <3>1, KeptRows
    <3>3. DOMAIN evidence' \subseteq 1..(Len(explicit) + 7 * Len(chains)) /\ \A k \in DOMAIN evidence' : evidence'[k] \in EvidenceRows
      <4>1. DOMAIN evidence' \subseteq 1..(Len(explicit) + Len(chains)) /\ \A k \in DOMAIN evidence' : evidence'[k] \in EvidenceRows
        BY <3>2, ExplicitRows
      <4>2. Len(explicit) \in Nat /\ Len(chains) \in Nat
        BY DEF ListsAreTyped
      <4> QED BY <4>1, <4>2
    <3>4. DOMAIN evidence' \subseteq Nat /\ \A k \in DOMAIN evidence' : evidence'[k].status \in Statuses
      BY <3>3 DEF EvidenceRows
    <3> HIDE DEF VulnTypeOK
    <3>5. VulnTypeOK'
      BY <1>5, <3>4 DEF Join, VulnTypeOK
    <3>6. ListsAreTyped'
      BY <1>5, <3>3 DEF Join, ListsAreTyped
    <3> QED BY <3>5, <3>6
  <2> QED BY <2>1, <2>2
<1>6. CASE Answer
  <2>1. CASE ~options.v1_1
    BY <1>6, <2>1 DEF Answer, VulnTypeOK, ListsAreTyped
  <2>2. CASE options.v1_1
    <3>1. evidence' = Answered /\ evidence = [k \in Kept(Explicit) |-> Explicit[k]]
      BY <1>6, <2>2 DEF Answer, EvidenceFollowsStages
    <3>2. DOMAIN evidence' \subseteq 1..(Len(explicit) + 7 * Len(chains)) /\ \A k \in DOMAIN evidence' : evidence'[k] \in EvidenceRows
      BY <3>1, AnswersAreWhole
    <3>3. DOMAIN evidence' \subseteq Nat /\ \A k \in DOMAIN evidence' : evidence'[k].status \in Statuses
      BY <3>2 DEF EvidenceRows
    <3>4. VulnTypeOK'
      BY <1>6, <3>3 DEF Answer, VulnTypeOK
    <3>5. ListsAreTyped'
      BY <1>6, <3>2 DEF Answer, ListsAreTyped
    <3> QED BY <3>4, <3>5
  <2> QED BY <2>1, <2>2
<1>7. CASE Confirm
  BY <1>7 DEF Confirm, VulnTypeOK, ListsAreTyped
<1>8. CASE Score
  <2>1. DOMAIN findings' \subseteq DOMAIN chains
    BY <1>8 DEF Score, Scored
  <2> QED BY <1>8, <2>1 DEF Score, VulnTypeOK, ListsAreTyped
<1>9. CASE StoreOne \/ WriteOne
  <2>1. PICK s, f : out_dir' = [out_dir EXCEPT !.store = s] \/ out_dir' = [out_dir EXCEPT !.files = f]
    BY <1>9 DEF StoreOne, WriteOne
  <2>2. out_dir' = [store |-> out_dir'.store, files |-> out_dir'.files, status |-> out_dir'.status]
    BY <2>1 DEF ListsAreTyped
  <2>3. UNCHANGED <<stage, session, explicit, returned, faults>>
    BY <1>9 DEF StoreOne, WriteOne
  <2> QED BY <2>2, <2>3 DEF VulnTypeOK, ListsAreTyped
<1>10. CASE StoreDone \/ WriteDone
  BY <1>10 DEF StoreDone, WriteDone, VulnTypeOK, ListsAreTyped
<1>11. CASE FinalizeRun
  <2>1. out_dir' = [store |-> out_dir'.store, files |-> out_dir'.files, status |-> out_dir'.status]
    BY <1>11 DEF FinalizeRun, ListsAreTyped
  <2> QED BY <1>11, <2>1 DEF FinalizeRun, VulnTypeOK, ListsAreTyped
<1>12. CASE Fault
  <2>1. UNCHANGED out_dir \/ \E f : out_dir' = [out_dir EXCEPT !.files = f]
    BY <1>12 DEF Fault
  <2>2. out_dir' = [store |-> out_dir'.store, files |-> out_dir'.files, status |-> out_dir'.status]
    BY <2>1 DEF ListsAreTyped
  <2>3. UNCHANGED <<session, explicit, returned>> /\ stage' = "idle" /\ faults < MaxFaults /\ faults' = faults + 1
    BY <1>12 DEF Fault
  <2>4. VulnTypeOK'
    BY <1>1, <2>3 DEF VulnTypeOK
  <2> QED BY <2>2, <2>3, <2>4 DEF ListsAreTyped
<1>13. CASE Stop \/ Over \/ UNCHANGED vuln_vars
  BY <1>13 DEF Stop, Over, vuln_vars, VulnTypeOK, ListsAreTyped
<1> QED BY <1>2, <1>3, <1>4, <1>5, <1>6, <1>7, <1>8, <1>9, <1>10, <1>11, <1>12, <1>13 DEF VulnNext, RunStep

LEMMA StagesStep ==
    ASSUME SearchInv, [VulnNext]_vuln_vars
    PROVE  NothingBeforeItsStage'
<1> USE DEF SearchInv, NothingBeforeItsStage, Running, session, writing
<1>1. Len(Programs) \in Nat
  BY VulnSessionAssumption
<1>2. ASSUME NEW o \in VulnOptions, Start(o) PROVE NothingBeforeItsStage'
  <2>1. runs' \in 1..Len(Programs)
    BY <1>1, <1>2 DEF Start, VulnTypeOK
  <2> QED BY <1>2, <2>1 DEF Start
<1>3. ASSUME NEW o \in Observations, NEW i \in DOMAIN chains, Observe(o, i) PROVE NothingBeforeItsStage'
  BY <1>3 DEF Observe
<1>4. CASE Discover \/ Join
  <2>1. UNCHANGED <<runs, findings, returned, ledger>> /\ stage \in {"discover", "join"} /\ stage' \in {"join", "answer"}
    BY <1>4 DEF Discover, Join
  <2>2. stage' = "join" => UNCHANGED evidence
    BY <1>4 DEF Discover, Join
  <2> QED BY <2>1, <2>2
<1>5. CASE Answer \/ Confirm
  BY <1>5 DEF Answer, Confirm
<1>6. CASE Score
  BY <1>6 DEF Score
<1>7. CASE StoreOne \/ StoreDone
  BY <1>7 DEF StoreOne, StoreDone
<1>8. CASE WriteOne \/ WriteDone \/ FinalizeRun
  BY <1>8 DEF WriteOne, WriteDone, FinalizeRun
<1>9. CASE Fault \/ Stop \/ Over \/ UNCHANGED vuln_vars
  BY <1>9 DEF Fault, Stop, Over, vuln_vars
<1> QED BY <1>2, <1>3, <1>4, <1>5, <1>6, <1>7, <1>8, <1>9 DEF VulnNext, RunStep

LEMMA EvidenceStep ==
    ASSUME SearchInv, [VulnNext]_vuln_vars
    PROVE  EvidenceFollowsStages'
<1> USE DEF SearchInv, session, writing
<1>1. ASSUME NEW o \in VulnOptions, Start(o) PROVE EvidenceFollowsStages'
  BY <1>1 DEF Start, EvidenceFollowsStages
<1>2. ASSUME NEW o \in Observations, NEW i \in DOMAIN chains, Observe(o, i) PROVE EvidenceFollowsStages'
  BY <1>2 DEF Observe, EvidenceFollowsStages
<1>3. CASE Discover \/ Fault \/ Stop \/ Over \/ FinalizeRun
  BY <1>3 DEF Discover, Fault, Stop, Over, FinalizeRun, vuln_vars, EvidenceFollowsStages, Running
<1>4. CASE Join
  <2>1. Explicit' = Explicit /\ Kept(Explicit)' = Kept(Explicit)
    BY <1>4, SameRows DEF Join
  <2>2. options.v1_1 => evidence' = [k \in Kept(Explicit) |-> Explicit[k]]
    BY <1>4 DEF Join
  <2>3. ~options.v1_1 => evidence' = NoFunction
    BY <1>4 DEF Join
  <2>4. stage' = "answer" /\ options' = options
    BY <1>4 DEF Join
  <2> QED BY <2>1, <2>2, <2>3, <2>4 DEF EvidenceFollowsStages
<1>5. CASE Answer
  <2>1. Explicit' = Explicit /\ Kept(Explicit)' = Kept(Explicit)
    BY <1>5, SameRows DEF Answer
  <2>2. stage = "answer" /\ stage' = "confirm" /\ options' = options /\ chains' = chains
    BY <1>5 DEF Answer
  <2>3. ~options.v1_1 => evidence' = NoFunction
    BY <1>5, <2>2 DEF Answer, EvidenceFollowsStages
  <2>4. ASSUME options.v1_1
        PROVE  /\ \A k \in DOMAIN evidence' : KeptOrUnavailable(k)'
               /\ \A i \in DOMAIN chains, s \in Requested(options.selector) : \E k \in DOMAIN evidence' :
                      evidence'[k].source = s /\ Matches(evidence'[k], i)
    <3>1. evidence = [k \in Kept(Explicit) |-> Explicit[k]]
      BY <2>2, <2>4 DEF EvidenceFollowsStages
    <3>2. evidence' = Answered
      BY <1>5, <2>4 DEF Answer
    <3>3. /\ \A k \in DOMAIN Answered : \/ Answered[k].status = "Unavailable"
                                        \/ k \in Kept(Explicit) /\ Answered[k] = Explicit[k]
          /\ \A i \in DOMAIN chains, s \in Requested(options.selector) : \E k \in DOMAIN Answered :
                 Answered[k].source = s /\ Matches(Answered[k], i)
      BY <3>1, AnswersAreWhole
    <3>4. \A k \in DOMAIN evidence' : evidence'[k].status = "Unavailable" \/ (k \in Kept(Explicit) /\ evidence'[k] = Explicit[k])
      BY <3>2, <3>3
    <3>5. \A k \in DOMAIN evidence' : KeptOrUnavailable(k)'
      BY <2>1, <3>4 DEF KeptOrUnavailable
    <3> QED BY <3>2, <3>3, <3>5
  <2>5. Requested(options.selector)' = Requested(options.selector)
    BY <2>2 DEF Requested
  <2>6. ASSUME options.v1_1
        PROVE  (\A i \in DOMAIN chains, s \in Requested(options.selector) : \E k \in DOMAIN evidence :
                   evidence[k].source = s /\ Matches(evidence[k], i))'
    <3>1. \A i \in DOMAIN chains', s \in Requested(options.selector)' : \E k \in DOMAIN evidence' :
              evidence'[k].source = s /\ evidence'[k].chain = chains'[i].id /\ evidence'[k].pc = chains'[i].site
      BY <2>2, <2>4, <2>5, <2>6 DEF Matches
    <3> QED BY <3>1 DEF Matches
  <2> QED BY <2>2, <2>3, <2>4, <2>5, <2>6 DEF EvidenceFollowsStages
<1>6. CASE Confirm \/ Score \/ StoreOne \/ StoreDone \/ WriteOne \/ WriteDone \/ UNCHANGED vuln_vars
  <2>1. UNCHANGED <<options, explicit, chains, evidence>>
    BY <1>6 DEF Confirm, Score, StoreOne, StoreDone, WriteOne, WriteDone, vuln_vars
  <2>2. Explicit' = Explicit /\ Kept(Explicit)' = Kept(Explicit) /\ Confirmations' = Confirmations
    BY <2>1, SameRows, SameConfirmations
  <2>3. /\ \A k : KeptOrUnavailable(k)' <=> KeptOrUnavailable(k)
        /\ \A r, i : Matches(r, i)' <=> Matches(r, i)
        /\ Requested(options.selector)' = Requested(options.selector)
    BY <2>1, <2>2 DEF KeptOrUnavailable, Matches, Requested
  <2>4. CASE Confirm
    <3>1. stage = "confirm" /\ stage' = "score" /\ confirmations' = Confirmations
      BY <2>4 DEF Confirm
    <3> QED BY <2>1, <2>2, <2>3, <3>1 DEF EvidenceFollowsStages
  <2>5. CASE ~Confirm
    <3>1. /\ UNCHANGED confirmations
          /\ \/ stage' = stage
             \/ stage \in {"score", "store", "write"} /\ stage' \in {"score", "store", "write"}
      BY <1>6, <2>5 DEF Score, StoreOne, StoreDone, WriteOne, WriteDone, vuln_vars
    <3> QED BY <2>1, <2>2, <2>3, <3>1 DEF EvidenceFollowsStages
  <2> QED BY <2>4, <2>5
<1> QED BY <1>1, <1>2, <1>3, <1>4, <1>5, <1>6 DEF VulnNext, RunStep

LEMMA FindingsStep ==
    ASSUME SearchInv, [VulnNext]_vuln_vars
    PROVE  FindingsFollowChains'
<1> USE DEF SearchInv, session, writing
<1>1. ASSUME NEW o \in VulnOptions, Start(o) PROVE FindingsFollowChains'
  <2>1. DOMAIN findings' = {} /\ ~HasFindings'
    BY <1>1, Nothing DEF Start, HasFindings, InRun, Idle
  <2> QED BY <2>1 DEF FindingsFollowChains
<1>2. CASE Discover \/ Join \/ Answer \/ Confirm
  <2>1. findings = NoFunction /\ UNCHANGED findings /\ stage' \in {"join", "answer", "confirm", "score"}
    BY <1>2 DEF Discover, Join, Answer, Confirm, NothingBeforeItsStage
  <2>2. DOMAIN findings' = {} /\ ~HasFindings'
    BY <2>1, Nothing DEF HasFindings, InRun, Idle
  <2> QED BY <2>2 DEF FindingsFollowChains
<1>3. CASE Score
  <2>1. findings' = [i \in Scored |-> Finding(i, Scored)] /\ UNCHANGED <<runs, options, chains, confirmations>>
    BY <1>3 DEF Score
  <2>2. DOMAIN findings' = Scored /\ Scored \subseteq DOMAIN chains
    BY <2>1 DEF Scored
  <2>3. \A i, scored : Finding(i, scored)' = Finding(i, scored)
    BY <2>1, SameFinding
  <2>31. \A i : Finding(i, DOMAIN findings)' = Finding(i, Scored)
    BY <2>2, <2>3
  <2>4. findings' = [i \in DOMAIN findings' |-> Finding(i, DOMAIN findings)']
    BY <2>1, <2>2, <2>31
  <2> QED BY <2>1, <2>2, <2>4 DEF FindingsFollowChains
<1>4. CASE Fault \/ Stop \/ Over
  <2>1. UNCHANGED <<findings, chains>> /\ ~HasFindings'
    BY <1>4 DEF Fault, Stop, Over, HasFindings, InRun, Idle, NothingBeforeItsStage, Running, vuln_vars, VulnTypeOK
  <2> QED BY <2>1 DEF FindingsFollowChains
<1>5. ASSUME UNCHANGED session, HasFindings' => HasFindings PROVE FindingsFollowChains'
  <2>1. \A i, scored : Finding(i, scored)' = Finding(i, scored)
    BY <1>5, SameFinding
  <2>2. HasFindings => findings' = [i \in DOMAIN findings' |-> Finding(i, DOMAIN findings)']
    BY <1>5, <2>1 DEF FindingsFollowChains
  <2> QED BY <1>5, <2>2 DEF FindingsFollowChains
<1>6. ASSUME NEW o \in Observations, NEW i \in DOMAIN chains, Observe(o, i) PROVE FindingsFollowChains'
  BY <1>5, <1>6 DEF Observe, HasFindings, InRun, Idle
<1>7. CASE StoreOne \/ StoreDone \/ WriteOne \/ WriteDone \/ FinalizeRun \/ UNCHANGED vuln_vars
  BY <1>5, <1>7 DEF StoreOne, StoreDone, WriteOne, WriteDone, FinalizeRun, HasFindings, InRun, Idle, vuln_vars
<1> QED BY <1>1, <1>2, <1>3, <1>4, <1>6, <1>7 DEF VulnNext, RunStep

\* The ids of the findings of a run differ.
LEMMA FindingIdsDiffer ==
    ASSUME ListsAreTyped, FindingsFollowChains, HasFindings,
           NEW i \in DOMAIN findings, NEW j \in DOMAIN findings, findings[i].id = findings[j].id
    PROVE  i = j
<1> DEFINE F == DOMAIN findings
<1>1. Len(chains) \in Nat /\ F \subseteq 1..Len(chains)
  BY DEF ListsAreTyped, FindingsFollowChains
<1>2. \A k \in F : findings[k].id = Cardinality(UpTo(F, k))
  <2>1. \A k \in F : findings[k] = Finding(k, F)
    BY DEF FindingsFollowChains
  <2>2. \A k, G : Finding(k, G).id = Cardinality(UpTo(G, k))
    BY DEF Finding, UpTo
  <2> HIDE DEF F
  <2> QED BY <2>1, <2>2
<1>3. Cardinality(UpTo(F, i)) = Cardinality(UpTo(F, j))
  BY <1>2
<1> DEFINE n == Len(chains)
<1>4. n \in Nat /\ F \in SUBSET (1..n) /\ i \in F /\ j \in F
  BY <1>1
<1> HIDE DEF F, n
<1> QED BY <1>3, <1>4, IdsDiffer

LEMMA StoreStep ==
    ASSUME SearchInv, [VulnNext]_vuln_vars
    PROVE  StoreFollowsTodo'
<1> USE DEF SearchInv, session, writing
<1>1. ASSUME stage' \notin {"store", "write"}, ~Idle' PROVE StoreFollowsTodo'
  BY <1>1 DEF StoreFollowsTodo
<1>2. ASSUME NEW o \in VulnOptions, Start(o) PROVE StoreFollowsTodo'
  BY <1>1, <1>2 DEF Start, Idle
<1>3. CASE Discover \/ Join \/ Answer \/ Confirm
  BY <1>1, <1>3 DEF Discover, Join, Answer, Confirm, Idle
<1>4. CASE Fault \/ Stop \/ Over
  <2>1. stage' \notin {"store", "write"} /\ ~Idle'
    BY <1>4 DEF Fault, Stop, Over, Idle, NothingBeforeItsStage, Running, vuln_vars, VulnTypeOK
  <2> QED BY <1>1, <2>1
<1>5. CASE Score
  <2>1. findings' = [i \in Scored |-> Finding(i, Scored)] /\ todo' = {i \in Scored : chains[i].template \notin Lifetime}
    BY <1>5 DEF Score
  <2>2. DOMAIN findings' = Scored /\ \A i \in Scored : findings'[i].bug_class = chains[i].template
    BY <2>1 DEF Finding
  <2>3. Default' = todo' /\ stage' = "store"
    BY <1>5, <2>1, <2>2 DEF Default, Score
  <2> QED BY <2>3 DEF StoreFollowsTodo, Idle
<1>6. CASE StoreOne
  <2>1. PICK i \in todo : First(i) /\ todo' = todo \ {i} /\ out_dir' = [out_dir EXCEPT !.store = Insert(@, findings[i])]
    BY <1>6 DEF StoreOne
  <2>2. UNCHANGED session /\ stage = "store" /\ stage' = "store"
    BY <1>6 DEF StoreOne
  <2>3. Default' = Default
    BY <2>2, SameFiles
  <2>4. out_dir'.store = {g \in out_dir.store : g.id # findings[i].id} \cup {findings[i]}
    BY <2>1 DEF Insert, ListsAreTyped
  <2>5. \A j \in Default \ todo' : findings[j] \in out_dir'.store
    <3> TAKE j \in Default \ todo'
    <3>1. CASE j = i
      BY <2>4, <3>1
    <3>2. CASE j # i
      <4>1. findings[j] \in out_dir.store
        BY <2>1, <2>2, <3>2 DEF StoreFollowsTodo
      <4>2. i \in DOMAIN findings /\ j \in DOMAIN findings /\ HasFindings
        BY <2>1, <2>2 DEF StoreFollowsTodo, Default, HasFindings, InRun
      <4>3. findings[j].id # findings[i].id
        BY <3>2, <4>2, FindingIdsDiffer
      <4> QED BY <2>4, <4>1, <4>3
    <3> QED BY <3>1, <3>2
  <2> QED BY <2>1, <2>2, <2>3, <2>5 DEF StoreFollowsTodo, Idle
<1>7. CASE StoreDone
  <2>1. UNCHANGED <<session, out_dir>> /\ stage = "store" /\ stage' = "write" /\ todo = {}
    BY <1>7 DEF StoreDone
  <2>2. Default' = Default
    BY <2>1, SameFiles
  <2> QED BY <2>1, <2>2 DEF StoreFollowsTodo
<1>8. ASSUME UNCHANGED session, stage # "store", stage' # "store", stage' = "write" \/ Idle' => stage = "write" \/ Idle,
             out_dir'.store = out_dir.store
      PROVE  StoreFollowsTodo'
  <2>1. Default' = Default
    BY <1>8, SameFiles
  <2> QED BY <1>8, <2>1 DEF StoreFollowsTodo
<1>9. CASE WriteOne \/ WriteDone \/ FinalizeRun
  <2>1. out_dir'.store = out_dir.store
    BY <1>9 DEF WriteOne, WriteDone, FinalizeRun, ListsAreTyped
  <2> QED BY <1>8, <1>9, <2>1 DEF WriteOne, WriteDone, FinalizeRun
<1>10. ASSUME NEW o \in Observations, NEW i \in DOMAIN chains, Observe(o, i) PROVE StoreFollowsTodo'
  BY <1>8, <1>10 DEF Observe, Idle
<1>11. CASE UNCHANGED vuln_vars
  <2>1. Default' = Default
    BY <1>11, SameFiles DEF vuln_vars
  <2> QED BY <1>11, <2>1 DEF vuln_vars, StoreFollowsTodo, Idle
<1> QED BY <1>2, <1>3, <1>4, <1>5, <1>6, <1>7, <1>9, <1>10, <1>11 DEF VulnNext, RunStep

\* The names the ledger is told.
LEMMA NamesTold ==
    ASSUME NEW S, NEW n, NEW r
    PROVE  {e.name : e \in S \cup {[name |-> n, records |-> r]}} = {e.name : e \in S} \cup {n}
<1> DEFINE x == [name |-> n, records |-> r]
<1>1. x.name = n
  OBVIOUS
<1> HIDE DEF x
<1>2. \A y : y \in {e.name : e \in S \cup {x}} <=> y \in {e.name : e \in S} \/ y = n
  BY <1>1
<1>3. {e.name : e \in S \cup {x}} = {e.name : e \in S} \cup {n}
  BY <1>2
<1> QED BY <1>3 DEF x

LEMMA FilesStep ==
    ASSUME SearchInv, [VulnNext]_vuln_vars
    PROVE  FilesFollowTodo'
<1> USE DEF SearchInv, session, writing
<1>1. ASSUME stage' # "write", ~Idle' PROVE FilesFollowTodo'
  BY <1>1 DEF FilesFollowTodo, StatusMatchesDisk
<1>2. ASSUME NEW o \in VulnOptions, Start(o) PROVE FilesFollowTodo'
  BY <1>1, <1>2 DEF Start, Idle
<1>3. CASE Discover \/ Join \/ Answer \/ Confirm \/ Score \/ StoreOne
  BY <1>1, <1>3 DEF Discover, Join, Answer, Confirm, Score, StoreOne, Idle
<1>4. CASE Fault \/ Stop \/ Over
  <2>1. stage' # "write" /\ ~Idle'
    BY <1>4 DEF Fault, Stop, Over, Idle, NothingBeforeItsStage, Running, vuln_vars, VulnTypeOK
  <2> QED BY <1>1, <2>1
<1>5. CASE StoreDone
  <2>1. UNCHANGED session /\ stage' = "write" /\ at' = 1 /\ todo' = Parts(Artifacts[1]) /\ ledger = {}
    BY <1>5 DEF StoreDone, NothingBeforeItsStage, Running
  <2>2. Artifacts' = Artifacts /\ \A a : Parts(a)' = Parts(a)
    BY <2>1, SameFiles
  <2>3. {e.name : e \in ledger'} = {"findings.sqlite"}
    <3>1. ledger' = {[name |-> "findings.sqlite", records |-> Cardinality(Default)]}
      BY <1>5, <2>1 DEF StoreDone
    <3> QED BY <3>1
  <2>4. Named(0)' = {"findings.sqlite"} /\ at' - 1 = 0
    BY <2>1 DEF Named
  <2>5. Parts(Artifacts[at])' \ todo' = {}
    BY <2>1, <2>2
  <2>6. OnDisk(at, Parts(Artifacts[at]) \ todo)'
    BY <2>5 DEF OnDisk
  <2>7. at' \in 1..(Len(Artifacts') + 1)
    BY <2>1, <2>2, ArtifactList
  <2>8. todo' \subseteq Parts(Artifacts[at])'
    BY <2>1, <2>2
  <2>9. ~Idle'
    BY <2>1 DEF Idle
  <2>10. {e.name : e \in ledger'} = Named(at - 1)' /\ \A k \in 1..(at' - 1) : FALSE
    BY <2>3, <2>4 DEF Named
  <2> QED BY <2>1, <2>6, <2>7, <2>8, <2>9, <2>10 DEF FilesFollowTodo, StatusMatchesDisk
<1>6. CASE WriteOne
  <2> DEFINE a == Artifacts[at]
  <2>1. PICK i \in todo : /\ todo' = todo \ {i}
                          /\ out_dir' = [out_dir EXCEPT !.files = Put(@, PathOf(a, i), [run |-> runs, rows |-> Rows(a, i), whole |-> TRUE])]
    BY <1>6 DEF WriteOne
  <2>2. UNCHANGED <<session, at, ledger>> /\ stage = "write" /\ stage' = "write" /\ at <= Len(Artifacts)
    BY <1>6 DEF WriteOne
  <2>3. /\ at \in 1..Len(Artifacts) /\ todo \subseteq Parts(a) /\ {e.name : e \in ledger} = Named(at - 1)
        /\ \A k \in 1..(at - 1) : OnDisk(k, Parts(Artifacts[k]))
        /\ OnDisk(at, Parts(a) \ todo)
    BY <2>2, ArtifactList DEF FilesFollowTodo
  <2>4. /\ Artifacts' = Artifacts /\ \A b : Parts(b)' = Parts(b)
        /\ \A b, j : PathOf(b, j)' = PathOf(b, j) /\ Rows(b, j)' = Rows(b, j)
    BY <2>2, SameFiles
  <2>5. out_dir'.files = Put(out_dir.files, PathOf(a, i), [run |-> runs, rows |-> Rows(a, i), whole |-> TRUE])
    BY <2>1 DEF ListsAreTyped
  <2>6. DOMAIN out_dir'.files = DOMAIN out_dir.files \cup {PathOf(a, i)}
    BY <2>5 DEF Put
  <2>7. out_dir'.files[PathOf(a, i)] = [run |-> runs, rows |-> Rows(a, i), whole |-> TRUE]
    BY <2>5 DEF Put
  <2>8. \A p \in DOMAIN out_dir.files : p # PathOf(a, i) => out_dir'.files[p] = out_dir.files[p]
    BY <2>5 DEF Put
  <2>9. Default \subseteq DOMAIN chains
    BY DEF FindingsFollowChains, Default
  <2>10. ASSUME NEW k \in 1..Len(Artifacts), NEW j \in Parts(Artifacts[k]), k # at \/ j # i,
                Holds(PathOf(Artifacts[k], j), Rows(Artifacts[k], j))
         PROVE  /\ PathOf(Artifacts[k], j) \in DOMAIN out_dir'.files
                /\ out_dir'.files[PathOf(Artifacts[k], j)] = [run |-> runs, rows |-> Rows(Artifacts[k], j), whole |-> TRUE]
    <3>1. PathOf(Artifacts[k], j) # PathOf(a, i)
      BY <2>1, <2>3, <2>9, <2>10, PathsDiffer
    <3> QED BY <2>6, <2>8, <2>10, <3>1 DEF Holds
  <2>11. \A k \in 1..(at - 1) : OnDisk(k, Parts(Artifacts[k]))'
    <3> TAKE k \in 1..(at - 1)
    <3>1. k \in 1..Len(Artifacts) /\ k # at
      BY <2>3
    <3>2. OnDisk(k, Parts(Artifacts[k]))
      BY <2>3
    <3>3. \A j \in Parts(Artifacts[k]) : Holds(PathOf(Artifacts[k], j), Rows(Artifacts[k], j))'
      BY <2>2, <2>4, <2>10, <3>1, <3>2 DEF OnDisk, Holds
    <3> QED BY <2>4, <3>3 DEF OnDisk
  <2>12. \A j \in Parts(a) \ todo' : Holds(PathOf(a, j), Rows(a, j))'
    <3> TAKE j \in Parts(a) \ todo'
    <3>1. CASE j = i
      BY <2>2, <2>4, <2>6, <2>7, <3>1 DEF Holds
    <3>2. CASE j # i
      <4>1. Holds(PathOf(a, j), Rows(a, j))
        BY <2>1, <2>3, <3>2 DEF OnDisk
      <4>2. j \in Parts(a) /\ at \in 1..Len(Artifacts)
        BY <2>3
      <4>3. /\ PathOf(a, j) \in DOMAIN out_dir'.files
            /\ out_dir'.files[PathOf(a, j)] = [run |-> runs, rows |-> Rows(a, j), whole |-> TRUE]
        BY <2>10, <3>2, <4>1, <4>2
      <4> QED BY <2>2, <2>4, <4>3 DEF Holds
    <3> QED BY <3>1, <3>2
  <2>13. OnDisk(at, Parts(Artifacts[at]) \ todo)'
    BY <2>2, <2>4, <2>12 DEF OnDisk
  <2>14. todo' \subseteq Parts(Artifacts[at])' /\ at' \in 1..(Len(Artifacts') + 1)
    BY <2>1, <2>2, <2>3, <2>4, ArtifactList
  <2>15. {e.name : e \in ledger'} = Named(at - 1)' /\ ~Idle'
    BY <2>2, <2>3, <2>4 DEF Named, Idle
  <2> QED BY <2>2, <2>11, <2>13, <2>14, <2>15 DEF FilesFollowTodo, StatusMatchesDisk
<1>7. CASE WriteDone
  <2> DEFINE a == Artifacts[at]
  <2>1. /\ UNCHANGED <<session, out_dir>> /\ stage = "write" /\ stage' = "write" /\ at <= Len(Artifacts) /\ todo = {}
        /\ ledger' = ledger \cup {[name |-> a, records |-> Records(a)]} /\ at' = at + 1
        /\ todo' = IF at < Len(Artifacts) THEN Parts(Artifacts[at + 1]) ELSE {}
    BY <1>7 DEF WriteDone
  <2>2. /\ at \in 1..Len(Artifacts) /\ {e.name : e \in ledger} = Named(at - 1)
        /\ \A k \in 1..(at - 1) : OnDisk(k, Parts(Artifacts[k]))
        /\ OnDisk(at, Parts(a) \ todo)
    BY <2>1, ArtifactList DEF FilesFollowTodo
  <2>3. /\ Artifacts' = Artifacts /\ \A b : Parts(b)' = Parts(b)
        /\ \A b, j : PathOf(b, j)' = PathOf(b, j) /\ Rows(b, j)' = Rows(b, j)
    BY <2>1, SameFiles
  <2>4. \A k \in 1..at : OnDisk(k, Parts(Artifacts[k]))
    <3> TAKE k \in 1..at
    <3>1. k \in 1..(at - 1) \/ k = at
      BY <2>2
    <3>2. Parts(a) \ todo = Parts(a)
      BY <2>1
    <3> QED BY <2>2, <3>1, <3>2
  <2>5. \A k \in 1..at : OnDisk(k, Parts(Artifacts[k]))'
    <3>1. \A k, parts : OnDisk(k, parts) => OnDisk(k, parts)'
      BY <2>1, <2>3 DEF OnDisk, Holds
    <3>2. \A k : Parts(Artifacts[k])' = Parts(Artifacts[k])
      BY <2>3
    <3> QED BY <2>4, <3>1, <3>2
  <2>6. {e.name : e \in ledger'} = Named(at)
    <3>1. {e.name : e \in ledger'} = Named(at - 1) \cup {a}
      <4>1. {e.name : e \in ledger \cup {[name |-> a, records |-> Records(a)]}} = {e.name : e \in ledger} \cup {a}
        BY NamesTold
      <4> QED BY <2>1, <2>2, <4>1
    <3>2. 1..at = 1..(at - 1) \cup {at}
      BY <2>2, ArtifactList
    <3> QED BY <3>1, <3>2 DEF Named
  <2>7. at' - 1 = at /\ at' \in 1..(Len(Artifacts') + 1) /\ ~Idle'
    BY <2>1, <2>2, <2>3, ArtifactList DEF Idle
  <2>8. {e.name : e \in ledger'} = Named(at - 1)'
    BY <2>3, <2>6, <2>7 DEF Named
  <2>9. at' <= Len(Artifacts') => todo' = Parts(Artifacts[at])'
    BY <2>1, <2>2, <2>3, ArtifactList
  <2>10. at' <= Len(Artifacts') => todo' \subseteq Parts(Artifacts[at])' /\ OnDisk(at, Parts(Artifacts[at]) \ todo)'
    BY <2>9 DEF OnDisk
  <2> QED BY <2>1, <2>5, <2>7, <2>8, <2>10 DEF FilesFollowTodo, StatusMatchesDisk
<1>8. CASE FinalizeRun
  <2>1. /\ UNCHANGED session /\ stage = "write" /\ stage' = "idle" /\ at > Len(Artifacts)
        /\ out_dir' = [out_dir EXCEPT !.status = [run |-> runs, artifacts |-> ledger]]
    BY <1>8 DEF FinalizeRun
  <2>2. out_dir'.status = [run |-> runs, artifacts |-> ledger] /\ out_dir'.files = out_dir.files
    BY <2>1 DEF ListsAreTyped
  <2>3. at - 1 = Len(Artifacts) /\ 1..Len(Artifacts) = DOMAIN Artifacts
    BY <2>1, ArtifactList DEF FilesFollowTodo
  <2>4. /\ {e.name : e \in ledger} = Named(Len(Artifacts))
        /\ \A k \in 1..Len(Artifacts) : OnDisk(k, Parts(Artifacts[k]))
    BY <2>1, <2>3 DEF FilesFollowTodo
  <2>5. /\ Artifacts' = Artifacts /\ \A b : Parts(b)' = Parts(b)
        /\ \A b, j : PathOf(b, j)' = PathOf(b, j) /\ Rows(b, j)' = Rows(b, j)
    BY <2>1, SameFiles
  <2>6. \A k \in 1..Len(Artifacts) : OnDisk(k, Parts(Artifacts[k]))'
    BY <2>1, <2>2, <2>4, <2>5 DEF OnDisk, Holds
  <2>7. {e.name : e \in out_dir'.status.artifacts} = {Artifacts[k] : k \in DOMAIN Artifacts} \cup {"findings.sqlite"}
    <3>1. out_dir'.status.artifacts = ledger
      BY <2>2
    <3> QED BY <2>3, <2>4, <3>1 DEF Named
  <2>8. out_dir'.status.run = runs'
    BY <2>1, <2>2
  <2> QED BY <2>1, <2>3, <2>5, <2>6, <2>7, <2>8 DEF FilesFollowTodo, StatusMatchesDisk, OnDisk
<1>9. ASSUME UNCHANGED <<session, stage, returned, out_dir>>, UNCHANGED <<at, todo, ledger>> PROVE FilesFollowTodo'
  <2>1. /\ Artifacts' = Artifacts /\ \A b : Parts(b)' = Parts(b)
        /\ \A b, j : PathOf(b, j)' = PathOf(b, j) /\ Rows(b, j)' = Rows(b, j)
    BY <1>9, SameFiles
  <2>2. \A k, parts : OnDisk(k, parts)' <=> OnDisk(k, parts)
    BY <1>9, <2>1 DEF OnDisk, Holds
  <2>3. Named(at - 1)' = Named(at - 1)
    BY <1>9, <2>1 DEF Named
  <2>4. StatusMatchesDisk'
    BY <1>9, <2>1 DEF FilesFollowTodo, StatusMatchesDisk, Idle, Holds
  <2>5. \A k : OnDisk(k, Parts(Artifacts[k]))' <=> OnDisk(k, Parts(Artifacts[k]))
    BY <2>1, <2>2
  <2>6. OnDisk(at, Parts(Artifacts[at]) \ todo)' <=> OnDisk(at, Parts(Artifacts[at]) \ todo)
    BY <1>9, <2>1, <2>2
  <2>7. Len(Artifacts') = Len(Artifacts) /\ Parts(Artifacts[at])' = Parts(Artifacts[at])
    BY <1>9, <2>1
  <2> QED BY <1>9, <2>3, <2>4, <2>5, <2>6, <2>7 DEF FilesFollowTodo
<1>10. ASSUME NEW o \in Observations, NEW i \in DOMAIN chains, Observe(o, i) PROVE FilesFollowTodo'
  BY <1>9, <1>10 DEF Observe
<1>11. CASE UNCHANGED vuln_vars
  BY <1>9, <1>11 DEF vuln_vars
<1> QED BY <1>2, <1>3, <1>4, <1>5, <1>6, <1>7, <1>8, <1>10, <1>11 DEF VulnNext, RunStep

\* No row of the artifacts for the default findings is about a lifetime candidate.
LEMMA RowsAreDefault ==
    ASSUME FindingsFollowChains, HasFindings, NEW a \in {"findings.jsonl", "vuln_packets", "patch_suggestions.jsonl"},
           NEW i \in Parts(a), NEW r \in Rows(a, i)
    PROVE  r.bug_class \notin Lifetime
<1>1. \A k \in Default : findings[k].bug_class \notin Lifetime
  BY DEF Default
<1>2. CASE a = "findings.jsonl"
  BY <1>1, <1>2 DEF Rows
<1>3. CASE a = "vuln_packets"
  <2>1. CASE i = Manifest
    <3>1. \E k \in Default : r = ManifestEntry(k)
      BY <1>3, <2>1 DEF Rows
    <3> QED BY <1>1, <3>1 DEF ManifestEntry
  <2>2. CASE i # Manifest
    <3>1. i \in Default /\ r = Packet(i)
      BY <1>3, <2>2 DEF Parts, Rows
    <3> QED BY <1>1, <3>1 DEF Packet
  <2> QED BY <2>1, <2>2
<1>4. CASE a = "patch_suggestions.jsonl"
  <2>1. \E k \in Default : r.bug_class = findings[k].bug_class
    BY <1>4 DEF Rows, Suggestions
  <2> QED BY <1>1, <2>1
<1> QED BY <1>2, <1>3, <1>4

LEMMA ApartStep ==
    ASSUME SearchInv, [VulnNext]_vuln_vars
    PROVE  LifetimeKeptApart'
<1> USE DEF SearchInv, session, writing
<1>1. ASSUME out_dir'.store = out_dir.store, out_dir'.files = out_dir.files PROVE LifetimeKeptApart'
  BY <1>1 DEF LifetimeKeptApart
<1>2. CASE StoreOne
  <2>1. PICK i \in todo : out_dir' = [out_dir EXCEPT !.store = Insert(@, findings[i])]
    BY <1>2 DEF StoreOne
  <2>2. out_dir'.store \subseteq out_dir.store \cup {findings[i]} /\ out_dir'.files = out_dir.files
    BY <2>1 DEF ListsAreTyped, Insert
  <2>3. findings[i].bug_class \notin Lifetime
    BY <1>2 DEF StoreOne, StoreFollowsTodo, Default
  <2> QED BY <2>2, <2>3 DEF LifetimeKeptApart
<1>3. ASSUME NEW a, NEW i, NEW rows, NEW whole,
             out_dir' = [out_dir EXCEPT !.files = Put(@, PathOf(a, i), [run |-> runs, rows |-> rows, whole |-> whole])],
             a \in {"findings.jsonl", "vuln_packets", "patch_suggestions.jsonl"} => \A r \in rows : r.bug_class \notin Lifetime
      PROVE  LifetimeKeptApart'
  <2> DEFINE path == PathOf(a, i)
             file == [run |-> runs, rows |-> rows, whole |-> whole]
  <2>1. out_dir'.store = out_dir.store /\ out_dir'.files = Put(out_dir.files, path, file)
    BY <1>3 DEF ListsAreTyped
  <2>2. path[1] = a /\ file.rows = rows
    BY DEF PathOf
  <2> HIDE DEF path, file
  <2>3. /\ DOMAIN out_dir'.files = DOMAIN out_dir.files \cup {path} /\ out_dir'.files[path] = file
        /\ \A p \in DOMAIN out_dir.files : p # path => out_dir'.files[p] = out_dir.files[p]
    BY <2>1 DEF Put
  <2> QED BY <1>3, <2>1, <2>2, <2>3 DEF LifetimeKeptApart
<1>4. CASE WriteOne
  <2> DEFINE a == Artifacts[at]
  <2>1. PICK i \in todo : out_dir' = [out_dir EXCEPT !.files = Put(@, PathOf(a, i), [run |-> runs, rows |-> Rows(a, i), whole |-> TRUE])]
    BY <1>4 DEF WriteOne
  <2>2. i \in Parts(a) /\ HasFindings
    BY <1>4 DEF WriteOne, FilesFollowTodo, HasFindings, InRun
  <2>3. a \in {"findings.jsonl", "vuln_packets", "patch_suggestions.jsonl"} => \A r \in Rows(a, i) : r.bug_class \notin Lifetime
    BY <2>2, RowsAreDefault
  <2> QED BY <1>3, <2>1, <2>3
<1>5. CASE Fault
  <2>1. CASE UNCHANGED out_dir
    BY <1>1, <2>1
  <2>2. CASE \E i \in todo : out_dir' = [out_dir EXCEPT !.files =
                 Put(@, PathOf(Artifacts[at], i), [run |-> runs, rows |-> {}, whole |-> FALSE])]
    BY <1>3, <2>2
  <2> QED BY <1>5, <2>1, <2>2 DEF Fault
<1>6. CASE FinalizeRun
  <2>1. out_dir'.store = out_dir.store /\ out_dir'.files = out_dir.files
    BY <1>6 DEF FinalizeRun, ListsAreTyped
  <2> QED BY <1>1, <2>1
<1>7. CASE ~StoreOne /\ ~WriteOne /\ ~Fault /\ ~FinalizeRun
  <2>1. UNCHANGED out_dir
    BY <1>7 DEF VulnNext, RunStep, Start, Observe, Discover, Join, Answer, Confirm, Score, StoreDone, WriteDone, Stop, Over, vuln_vars
  <2> QED BY <1>1, <2>1
<1> QED BY <1>2, <1>4, <1>5, <1>6, <1>7

LEMMA SearchInvariant == VulnSpec => []SearchInv
<1>1. SearchInv /\ [VulnNext]_vuln_vars => SearchInv'
  BY TypesStep, StagesStep, EvidenceStep, FindingsStep, StoreStep, FilesStep, ApartStep DEF SearchInv
<1> QED BY InitHolds, <1>1, PTL DEF VulnSpec

-----------------------------------------------------------------------------
(* The properties of the search                                            *)

\* What a finding adds to its static confidence is the weight of its strongest row.
LEMMA SupportIsARow ==
    ASSUME SearchInv, stage \in {"score", "store", "write"}, NEW i \in DOMAIN chains, Support(i) # 0
    PROVE  /\ options.v1_1
           /\ \E k \in Kept(Explicit) : /\ Matches(Explicit[k], i) /\ Support(i) = Weight(Explicit[k].status)
                                        /\ Explicit[k].status \in {"ConfirmedTrigger", "ReachedOnly"}
<1> USE DEF SearchInv
<1>1. confirmations = Confirmations /\ ListsAreTyped
  BY DEF EvidenceFollowsStages
<1>2. i \in DOMAIN confirmations
  BY DEF Support, Confirmation, Weight
<1>3. Own(i) # {} /\ Confirmation(i).status = evidence[Strongest(i)].status
  BY <1>1, <1>2 DEF Confirmations, Confirmation
<1> DEFINE k == Strongest(i)
<1>4. k \in Own(i) /\ Support(i) = Weight(evidence[k].status)
  BY <1>1, <1>3, StrongestIsOwn DEF Support
<1>5. k \in DOMAIN evidence /\ Matches(evidence[k], i) /\ evidence[k].status \in Statuses
  BY <1>4 DEF Own, VulnTypeOK
<1>6. evidence[k].status \in {"ConfirmedTrigger", "ReachedOnly"}
  BY <1>4, <1>5 DEF Weight, Statuses
<1>7. options.v1_1
  <2>1. evidence # NoFunction
    BY <1>5, Nothing
  <2> QED BY <2>1 DEF EvidenceFollowsStages
<1>8. k \in Kept(Explicit) /\ evidence[k] = Explicit[k]
  BY <1>5, <1>6, <1>7 DEF EvidenceFollowsStages, KeptOrUnavailable
<1> QED BY <1>4, <1>5, <1>6, <1>7, <1>8

LEMMA StaticIsClamped == ASSUME NEW c PROVE StaticConfidence(c) \in 30..95
<1>1. Base(c.template) \in {85, 70, 50}
  BY DEF Base, TierOf
<1> DEFINE v == Base(c.template) - 3 - (IF c.mode = "Summary" THEN 5 ELSE 0)
<1>2. v \in Int
  BY <1>1
<1> HIDE DEF v
<1>3. \A x \in Int : Clamp(x) \in 30..95
  BY DEF Clamp
<1>4. StaticConfidence(c) = Clamp(IF c.template \in Lifetime /\ v > 65 THEN 65 ELSE v)
  BY DEF StaticConfidence, v
<1> QED BY <1>2, <1>3, <1>4

LEMMA FindingFields ==
    ASSUME NEW i, NEW scored
    PROVE  /\ Finding(i, scored).site = chains[i].site /\ Finding(i, scored).bug_class = chains[i].template
           /\ Finding(i, scored).confidence = Confidence(i) /\ Finding(i, scored).status = Confirmation(i).status
           /\ options.v1_1 => Finding(i, scored).chain = chains[i].id
<1>1. Finding(i, scored).site = chains[i].site
  BY DEF Finding
<1>2. Finding(i, scored).bug_class = chains[i].template
  BY DEF Finding
<1>3. Finding(i, scored).confidence = Confidence(i)
  BY DEF Finding
<1>4. Finding(i, scored).status = Confirmation(i).status
  BY DEF Finding
<1>5. options.v1_1 => Finding(i, scored).chain = chains[i].id
  BY DEF Finding
<1> QED BY <1>1, <1>2, <1>3, <1>4, <1>5

LEMMA EvidenceRaises == ASSUME SearchInv PROVE EvidenceRaisesOwnSink
<1> SUFFICES ASSUME InRun, NEW i \in DOMAIN findings, findings[i].confidence > StaticConfidence(chains[i])
             PROVE  /\ options.v1_1
                    /\ LET rows == Explicit IN \E k \in DOMAIN rows :
                        LET r == rows[k] IN
                        /\ r.chain = chains[i].id /\ r.pc = findings[i].site
                        /\ r.status \in {"ConfirmedTrigger", "ReachedOnly"}
                        /\ findings[i].confidence <= StaticConfidence(chains[i]) + Weight(r.status) \div 10
                        /\ Requested(options.selector) # {} => r.source \in Requested(options.selector) \cup {""}
  BY DEF EvidenceRaisesOwnSink
<1> USE DEF SearchInv
<1>1. i \in DOMAIN chains /\ findings[i].confidence = Confidence(i) /\ findings[i].site = chains[i].site
  <2>1. i \in DOMAIN chains /\ findings[i] = Finding(i, DOMAIN findings)
    BY DEF FindingsFollowChains, HasFindings
  <2> QED BY <2>1, FindingFields
<1>2. Confidence(i) > StaticConfidence(chains[i]) /\ StaticConfidence(chains[i]) \in 30..95
  BY <1>1, StaticIsClamped
<1>3. Support(i) # 0
  BY <1>2 DEF Confidence
<1>4. options.v1_1
  BY <1>1, <1>3, SupportIsARow DEF InRun
<1>5. PICK k \in Kept(Explicit) : /\ Matches(Explicit[k], i) /\ Support(i) = Weight(Explicit[k].status)
                                  /\ Explicit[k].status \in {"ConfirmedTrigger", "ReachedOnly"}
  BY <1>1, <1>3, SupportIsARow DEF InRun
<1>6. Support(i) \in {50, 100}
  BY <1>5 DEF Weight
<1>7. Confidence(i) <= StaticConfidence(chains[i]) + Support(i) \div 10
  <2>1. Confidence(i) = Clamp(StaticConfidence(chains[i]) + Support(i) \div 10)
    BY <1>3 DEF Confidence
  <2>2. Support(i) \div 10 \in {5, 10}
    BY <1>6
  <2> QED BY <1>2, <2>1, <2>2 DEF Clamp
<1>8. /\ k \in DOMAIN Explicit
      /\ Requested(options.selector) # {} => Explicit[k].source \in Requested(options.selector) \cup {""}
  BY DEF Kept
<1>9. Explicit[k].chain = chains[i].id /\ Explicit[k].pc = findings[i].site
  BY <1>1, <1>5 DEF Matches
<1> QED BY <1>1, <1>4, <1>5, <1>7, <1>8, <1>9

LEMMA ConfirmationWins == ASSUME SearchInv PROVE ConfirmationSticks
<1> SUFFICES ASSUME InRun, options.v1_1, NEW i \in DOMAIN findings, NEW k \in DOMAIN evidence,
                    Matches(evidence[k], i), evidence[k].status = "ConfirmedTrigger"
             PROVE  findings[i].status = "ConfirmedTrigger"
  BY DEF ConfirmationSticks
<1> USE DEF SearchInv
<1>1. i \in DOMAIN chains /\ findings[i].status = Confirmation(i).status
  <2>1. i \in DOMAIN chains /\ findings[i] = Finding(i, DOMAIN findings)
    BY DEF FindingsFollowChains, HasFindings
  <2> QED BY <2>1, FindingFields
<1>2. k \in Own(i)
  BY DEF Own
<1> DEFINE s == evidence[Strongest(i)].status
<1>3. Strongest(i) \in Own(i) /\ Weight("ConfirmedTrigger") <= Weight(s)
  BY <1>1, <1>2, StrongestIsOwn
<1>4. s = "ConfirmedTrigger"
  BY <1>3 DEF Weight
<1>5. confirmations = Confirmations
  BY DEF EvidenceFollowsStages, InRun
<1>6. i \in DOMAIN confirmations /\ confirmations[i].status = s
  BY <1>1, <1>2, <1>4, <1>5 DEF Confirmations
<1> QED BY <1>1, <1>4, <1>6 DEF Confirmation

LEMMA PointersFollow == ASSUME SearchInv PROVE PointersResolve
<1> SUFFICES ASSUME Idle, NEW i \in Default
             PROVE  /\ findings[i] \in out_dir.store
                    /\ options.v1_1 =>
                        /\ \A h \in out_dir.files[<<"harnesses", findings[i].chain>>].rows :
                               h.site = findings[i].site /\ h.bug_class = findings[i].bug_class
                        /\ \E e \in out_dir.files[<<"vuln_packets">>].rows :
                               /\ e.finding = findings[i].id
                               /\ \E p \in out_dir.files[e.path].rows :
                                      p.site = findings[i].site /\ p.confirmation.status = findings[i].status
  BY DEF PointersResolve
<1> USE DEF SearchInv
<1>1. findings[i] \in out_dir.store
  BY DEF StoreFollowsTodo
<1>2. /\ i \in DOMAIN chains /\ i \in DOMAIN findings /\ i # Manifest
      /\ findings[i] = Finding(i, DOMAIN findings)
  BY DEF FindingsFollowChains, HasFindings, Default, ListsAreTyped, Manifest
<1>3. /\ findings[i].site = chains[i].site /\ findings[i].bug_class = chains[i].template
      /\ findings[i].status = Confirmation(i).status /\ (options.v1_1 => findings[i].chain = chains[i].id)
  BY <1>2, FindingFields
<1>4. ASSUME options.v1_1
      PROVE  /\ \A j \in DOMAIN chains : Holds(PathOf("harnesses", j), Rows("harnesses", j))
             /\ \A j \in Default \cup {Manifest} : Holds(PathOf("vuln_packets", j), Rows("vuln_packets", j))
  <2>1. \A n \in 1..Len(Artifacts) : \A j \in Parts(Artifacts[n]) : Holds(PathOf(Artifacts[n], j), Rows(Artifacts[n], j))
    BY ArtifactList DEF FilesFollowTodo, StatusMatchesDisk
  <2>2. PICK k, l \in 1..Len(Artifacts) : Artifacts[k] = "harnesses" /\ Artifacts[l] = "vuln_packets"
    BY <1>4, ArtifactList
  <2>3. Parts("harnesses") = DOMAIN chains /\ Parts("vuln_packets") = Default \cup {Manifest}
    BY DEF Parts
  <2> QED BY <2>1, <2>2, <2>3
<1>5. ASSUME options.v1_1
      PROVE  \A h \in out_dir.files[<<"harnesses", findings[i].chain>>].rows :
                 h.site = findings[i].site /\ h.bug_class = findings[i].bug_class
  <2>1. PathOf("harnesses", i) = <<"harnesses", chains[i].id>> /\ Rows("harnesses", i) = {Harness(i)}
    BY DEF PathOf, Rows
  <2>2. out_dir.files[<<"harnesses", chains[i].id>>] = [run |-> runs, rows |-> {Harness(i)}, whole |-> TRUE]
    BY <1>2, <1>4, <1>5, <2>1 DEF Holds
  <2>3. out_dir.files[<<"harnesses", chains[i].id>>].rows = {Harness(i)}
    BY <2>2
  <2>4. Harness(i).site = chains[i].site /\ Harness(i).bug_class = chains[i].template
    BY DEF Harness
  <2> QED BY <1>3, <1>5, <2>3, <2>4
<1>6. ASSUME options.v1_1
      PROVE  \E e \in out_dir.files[<<"vuln_packets">>].rows :
                 /\ e.finding = findings[i].id
                 /\ \E p \in out_dir.files[e.path].rows :
                        p.site = findings[i].site /\ p.confirmation.status = findings[i].status
  <2>1. PathOf("vuln_packets", Manifest) = <<"vuln_packets">>
    BY DEF PathOf
  <2>2. Rows("vuln_packets", Manifest) = {ManifestEntry(k) : k \in Default} /\ Rows("vuln_packets", i) = {Packet(i)}
    BY <1>2 DEF Rows
  <2> DEFINE entries == {ManifestEntry(k) : k \in Default}
             packet == {Packet(i)}
  <2>21. /\ Rows("vuln_packets", Manifest) = entries /\ Rows("vuln_packets", i) = packet
    BY <2>2
  <2>3. out_dir.files[<<"vuln_packets">>].rows = entries
    <3> HIDE DEF entries
    <3>1. out_dir.files[<<"vuln_packets">>] = [run |-> runs, rows |-> entries, whole |-> TRUE]
      BY <1>4, <1>6, <2>1, <2>21 DEF Holds
    <3> QED BY <3>1
  <2>4. out_dir.files[PathOf("vuln_packets", i)].rows = packet
    <3> HIDE DEF packet
    <3>1. out_dir.files[PathOf("vuln_packets", i)] = [run |-> runs, rows |-> packet, whole |-> TRUE]
      BY <1>4, <1>6, <2>21 DEF Holds
    <3> QED BY <3>1
  <2>5. ManifestEntry(i).finding = findings[i].id /\ ManifestEntry(i).path = PathOf("vuln_packets", i)
    BY DEF ManifestEntry
  <2>6. Packet(i).site = findings[i].site /\ Packet(i).confirmation.status = findings[i].status
    <3>1. Packet(i).site = chains[i].site /\ Packet(i).confirmation = Confirmation(i)
      BY DEF Packet
    <3> QED BY <1>3, <3>1
  <2> QED BY <2>3, <2>4, <2>5, <2>6
<1> QED BY <1>1, <1>5, <1>6

\* Evidence counts for the sink it was seen at and for a source that was asked for,
\* a confirmation is not outvoted by weaker rows, and every harness has an answer of
\* every source, whatever the programs, the options and the rows of the caller.
THEOREM EvidenceStaysHonest == VulnSpec => []EvidenceIsHonest
<1>1. SearchInv => EvidenceIsHonest
  <2>1. SearchInv => EverySourceAnswered
    BY DEF SearchInv, EvidenceFollowsStages, EverySourceAnswered, InRun
  <2> QED BY <2>1, EvidenceRaises, ConfirmationWins DEF SearchInv, EvidenceIsHonest
<1> QED BY SearchInvariant, <1>1, PTL

\* When a run has returned Ok, the directory answers for that run: its status, every
\* file it names and the store, whatever earlier runs and failures left in it.
THEOREM DirectoryStaysThisRun == VulnSpec => []DirectoryIsThisRun
<1>1. SearchInv => DirectoryIsThisRun
  BY PointersFollow DEF SearchInv, FilesFollowTodo, DirectoryIsThisRun
<1> QED BY SearchInvariant, <1>1, PTL

==============================================================================
