--------------------------- MODULE AuroraTracing ---------------------------
(* The primitives Aurora's tracing is made of, used beside a running target. *)
(* A behaviour is about one of them, the focus; the others stay as they began.*)
EXTENDS Integers, FiniteSets, Sequences, FiniteSetsExt

\* The members of a finite set, in the order of a relation on it.
InOrder(S, before) ==
    CHOOSE f \in [1..Cardinality(S) -> S] : \A i, j \in DOMAIN f : i < j => <<f[i], f[j]>> \in before

-----------------------------------------------------------------------------
(***************************************************************************)
(* src/unpack/breakpoints.rs: breakpoints in the code of the target (INT3) *)
(* and in the debug registers of its threads, while the target runs.       *)
(*                                                                         *)
(* The file ships primitives; here a caller uses them in any order, with   *)
(* at most one INT3 breakpoint per address at a time, as the restore-step- *)
(* reapply pattern of its header does.  Every call of the operating system *)
(* may fail.  DR7 is the set of its bits that are set.                     *)
(***************************************************************************)

CONSTANTS
    CodeVas,      \* addresses of code
    Bytes,        \* what the target may have there
    HwSlots,      \* the debug registers in use, of 0..3
    HwSizes,      \* lengths in use, of 1, 2, 4 and 8
    MaxStuck      \* bound: calls of ResumeThread that fail

Int3 == "int3"

\* The bytes do not say whose an INT3 is: those of the target are left out.
ASSUME BreakpointAssumption ==
    /\ Int3 \notin Bytes /\ HwSlots \subseteq 0..3 /\ HwSizes \subseteq {1, 2, 4, 8} /\ MaxStuck \in Nat

HwKinds == {"Execute", "Write", "ReadWrite"}

VARIABLES
    code,         \* memory of the target
    soft,         \* SoftBreakpoints the caller holds: address and original_byte
    target,       \* history: the bytes the target wrote or was loaded with
    unrecorded,   \* history: addresses where an install failed after its write
    patched,      \* history: addresses the target wrote under a breakpoint
    thread,       \* a thread: debug registers, trap flag, instruction pointer, suspend count
    call,         \* with_thread_context in progress
    hw,           \* history: by slot, the breakpoint installed last and not cleared
    control,      \* history: the trap flag and instruction pointer the thread should have
    stuck         \* history: calls of ResumeThread that failed

softv == <<code, soft, target, unrecorded, patched>>
hwv   == <<thread, call, hw, control, stuck>>
bpvars == <<softv, hwv>>

NoCall == [stage |-> "none"]
Absent == [kind |-> "none", size |-> 0]

BpInit ==
    /\ code \in [CodeVas -> Bytes] /\ soft = {} /\ target = code /\ unrecorded = {} /\ patched = {}
    /\ thread = [dr |-> [s \in HwSlots |-> 0], dr7 |-> {}, tf |-> FALSE, rip |-> 0, suspended |-> 0]
    /\ call = NoCall /\ hw = [s \in HwSlots |-> Absent] /\ control = [tf |-> FALSE, rip |-> 0]
    /\ stuck = 0

-----------------------------------------------------------------------------
(* Soft breakpoints                                                        *)

Held(a) == \E b \in soft : b.address = a

\* Mutant: the byte is read after it has been replaced.
SoftInstallLate(a) ==
    /\ ~Held(a)
    /\ code' = [code EXCEPT ![a] = Int3]
    /\ soft' = soft \cup {[address |-> a, original |-> Int3]}
    /\ UNCHANGED <<target, unrecorded, patched, hwv>>

\* SoftBreakpoint::install: read, write, flush.  When the flush fails the caller
\* gets an error and nothing that remembers the byte.
SoftInstall(a) ==
    /\ ~Held(a)
    /\ code' = [code EXCEPT ![a] = Int3]
    /\ \/ soft' = soft \cup {[address |-> a, original |-> code[a]]} /\ UNCHANGED unrecorded
       \/ unrecorded' = unrecorded \cup {a} /\ UNCHANGED soft
    /\ UNCHANGED <<target, patched, hwv>>

\* SoftBreakpoint::restore; the caller drops the breakpoint when it succeeds.  A
\* failed flush reports an error for a byte that is back.
SoftRestore(b) ==
    /\ b \in soft
    /\ code' = [code EXCEPT ![b.address] = b.original]
    /\ soft' \in {soft, soft \ {b}}
    /\ UNCHANGED <<target, unrecorded, patched, hwv>>

\* The target changes its own code, an INT3 in it included.
TargetWrites(a, v) ==
    /\ code' = [code EXCEPT ![a] = v] /\ target' = [target EXCEPT ![a] = v]
    /\ IF Held(a) THEN patched' = patched \cup {a} /\ UNCHANGED unrecorded
       ELSE patched' = patched \ {a} /\ unrecorded' = unrecorded \ {a}
    /\ UNCHANGED <<soft, hwv>>

-----------------------------------------------------------------------------
(* Debug registers                                                         *)

RwBits(kind) == CASE kind = "Execute" -> {} [] kind = "Write" -> {0} [] kind = "ReadWrite" -> {0, 1}
LenBits(size) == CASE size = 1 -> {} [] size = 2 -> {0} [] size = 8 -> {1} [] size = 4 -> {0, 1}

LocalEnable(s) == 2 * s
GlobalEnable(s) == 2 * s + 1
RwShift(s) == 16 + 4 * s
LenShift(s) == 18 + 4 * s
Field(shift) == {shift, shift + 1}
Placed(shift, bits) == {shift + b : b \in bits}

Dr7EnableSlot(dr7, s, kind, size) ==
    LET enabled == dr7 \cup {LocalEnable(s)}
        typed   == (enabled \ Field(RwShift(s))) \cup Placed(RwShift(s), RwBits(kind))
    IN  (typed \ Field(LenShift(s))) \cup Placed(LenShift(s), LenBits(size))

Dr7DisableSlot(dr7, s) ==
    dr7 \ ({LocalEnable(s), GlobalEnable(s)} \cup Field(RwShift(s)) \cup Field(LenShift(s)))

\* What a call does to the context it has read.
Change(op, ctx) ==
    CASE op.do = "install"  -> [ctx EXCEPT !.dr[op.slot] = 1, !.dr7 = Dr7EnableSlot(@, op.slot, op.kind, op.size)]
      [] op.do = "clear"    -> [ctx EXCEPT !.dr[op.slot] = 0, !.dr7 = Dr7DisableSlot(@, op.slot)]
      [] op.do = "set_tf"   -> [ctx EXCEPT !.tf = TRUE]
      [] op.do = "clear_tf" -> [ctx EXCEPT !.tf = FALSE]

\* An Execute breakpoint that is longer than a byte is refused at once.
HwOps ==
    {o \in [do : {"install"}, slot : HwSlots, kind : HwKinds, size : HwSizes] : o.kind = "Execute" => o.size = 1}
    \cup [do : {"clear"}, slot : HwSlots] \cup [do : {"set_tf", "clear_tf"}]

\* with_thread_context, call by call.
Suspend(op) ==
    /\ call = NoCall
    /\ thread' = [thread EXCEPT !.suspended = @ + 1]
    /\ call' = [stage |-> "suspended", op |-> op]
    /\ UNCHANGED <<softv, hw, control, stuck>>

\* ResumeThread, the end of every call; nobody tries again when it fails.
EndCall ==
    /\ call' = NoCall
    /\ \/ thread' = [thread EXCEPT !.suspended = @ - 1] /\ UNCHANGED stuck
       \/ stuck < MaxStuck /\ stuck' = stuck + 1 /\ UNCHANGED thread

\* When the context cannot be read, the error of ResumeThread is dropped.
GetContext ==
    /\ call.stage = "suspended"
    /\ \/ call' = [stage |-> "read", op |-> call.op, ctx |-> thread] /\ UNCHANGED <<thread, stuck>>
       \/ EndCall
    /\ UNCHANGED <<softv, hw, control>>

\* A context holds the debug registers or the control registers, not both.
SetContext ==
    LET op  == call.op
        new == Change(op, call.ctx)
    IN  /\ call.stage = "read"
        /\ thread' = IF op.do \in {"install", "clear"} THEN [thread EXCEPT !.dr = new.dr, !.dr7 = new.dr7]
                     ELSE [thread EXCEPT !.tf = new.tf, !.rip = new.rip]
        /\ call' = [stage |-> "set", op |-> op]
        /\ hw' = IF op.do = "install" THEN [hw EXCEPT ![op.slot] = [kind |-> op.kind, size |-> op.size]]
                 ELSE IF op.do = "clear" THEN [hw EXCEPT ![op.slot] = Absent] ELSE hw
        /\ control' = IF op.do \in {"set_tf", "clear_tf"} THEN [control EXCEPT !.tf = op.do = "set_tf"] ELSE control
        /\ UNCHANGED <<softv, stuck>>

SetContextFails ==
    /\ call.stage = "read"
    /\ call' = [stage |-> "set", op |-> call.op]
    /\ UNCHANGED <<softv, thread, hw, control, stuck>>

\* When it fails, the caller gets an error for a context that may be set.
ResumeThread ==
    /\ call.stage = "set" /\ EndCall
    /\ UNCHANGED <<softv, hw, control>>

\* The running thread goes on, and may change its trap flag (popf).
TargetRuns ==
    /\ thread.suspended = 0
    /\ \E f \in BOOLEAN : /\ thread' = [thread EXCEPT !.rip = 1 - @, !.tf = f]
                          /\ control' = [tf |-> f, rip |-> 1 - control.rip]
    /\ UNCHANGED <<softv, call, hw, stuck>>

BpSoftStep ==
    \/ \E a \in CodeVas : SoftInstall(a) \/ \E v \in Bytes : TargetWrites(a, v)
    \/ \E b \in soft : SoftRestore(b)
BpHwStep == (\E op \in HwOps : Suspend(op)) \/ GetContext \/ SetContext \/ SetContextFails \/ ResumeThread \/ TargetRuns

-----------------------------------------------------------------------------
(* Properties                                                              *)

\* breakpoints.rs: where no breakpoint is held the code is what the target made it,
\* and one that is held can give it back.  Two cases are excepted, which the code
\* does not tell its caller from success or from a plain failure: the target wrote
\* the byte while a breakpoint was on it, so that restore puts an older one back, or
\* an install failed in its flush and left an INT3 whose byte nobody has.
CodeIsTargets ==
    \A a \in CodeVas \ (unrecorded \cup patched) :
        /\ ~Held(a) => code[a] = target[a]
        /\ \A b \in soft : b.address = a => b.original = target[a]

\* Refuted by both cases.
CodeIsAlwaysTargets == \A a \in CodeVas : ~Held(a) => code[a] = target[a]

\* Each slot has exactly the breakpoint whose context was set last, one whose
\* install then failed in ResumeThread included: enabling or clearing a slot leaves
\* the bits of the others alone.
Dr7MatchesSlots ==
    \A s \in HwSlots :
        /\ (LocalEnable(s) \in thread.dr7) = (hw[s] # Absent) /\ GlobalEnable(s) \notin thread.dr7
        /\ hw[s] # Absent => /\ thread.dr7 \cap Field(RwShift(s)) = Placed(RwShift(s), RwBits(hw[s].kind))
                             /\ thread.dr7 \cap Field(LenShift(s)) = Placed(LenShift(s), LenBits(hw[s].size))
                             /\ thread.dr[s] # 0

\* with_thread_context: what the thread did between the read and the write of its
\* context is not undone, and a call takes back its own suspension whatever else in
\* it fails, unless ResumeThread is what fails: then the thread stays suspended.
NoLostProgress ==
    /\ thread.tf = control.tf /\ thread.rip = control.rip
    /\ call = NoCall => thread.suspended = stuck

\* Refuted by a call of ResumeThread that fails.
ThreadRunsAgain == call = NoCall => thread.suspended = 0

-----------------------------------------------------------------------------
(***************************************************************************)
(* src/unpack/{guard_pages,write_log}.rs: pages of the target armed with   *)
(* PAGE_GUARD, the violations they raise, and the bounded log of them.     *)
(*                                                                         *)
(* As for breakpoints, a caller uses the primitives in any order.  It lets *)
(* install_guard query the protection, or passes one it has seen itself;   *)
(* the target may change the protection in between.                        *)
(***************************************************************************)

CONSTANTS
    Pages,
    Rights,        \* base protections
    LogCap,        \* max_entries
    MaxAccesses    \* bound: accesses of the target

ASSUME GuardAssumption == LogCap \in Nat \ {0} /\ MaxAccesses \in Nat

Accesses == {"read", "write", "execute", "other"}

VARIABLES
    protect,       \* of each page: the base protection and PAGE_GUARD
    asked,         \* of each page: what install_guard has queried and not yet used
    old,           \* what the last install on a page returned and the caller holds
    entries,       \* WriteLog::entries
    dropped,       \* WriteLog::dropped_count
    seen,          \* history: every violation
    wanted,        \* history: the base protection the target set last
    outdated       \* history: pages whose protection the target set when one was held

gvars == <<protect, asked, old, entries, dropped, seen, wanted, outdated>>

None == [base |-> "none", guard |-> FALSE]

GuardInit ==
    /\ wanted \in [Pages -> Rights]
    /\ protect = [p \in Pages |-> [base |-> wanted[p], guard |-> FALSE]]
    /\ asked = [p \in Pages |-> None] /\ old = [p \in Pages |-> None]
    /\ entries = <<>> /\ dropped = 0 /\ seen = <<>> /\ outdated = {}

\* install_guard with original_protect = 0: query_protect finds the protection of
\* the page, PAGE_GUARD included when it is armed.
QueryProtect(p) ==
    /\ asked' = [asked EXCEPT ![p] = protect[p]]
    /\ UNCHANGED <<protect, old, entries, dropped, seen, wanted, outdated>>

\* VirtualProtectEx of install_guard; it returns the protection it replaces.
Guard(p, base) ==
    /\ protect' = [protect EXCEPT ![p] = [base |-> base, guard |-> TRUE]]
    /\ old' = [old EXCEPT ![p] = protect[p]]

InstallGuard(p) ==
    /\ asked[p] # None /\ Guard(p, asked[p].base)
    /\ asked' = [asked EXCEPT ![p] = None]
    /\ UNCHANGED <<entries, dropped, seen, wanted, outdated>>

\* install_guard with a protection the caller got from an earlier install.
InstallGuardKnown(p) ==
    /\ old[p] # None /\ Guard(p, old[p].base)
    /\ UNCHANGED <<asked, entries, dropped, seen, wanted, outdated>>

\* restore_protect with what the install returned.
RestoreProtect(p) ==
    /\ old[p] # None
    /\ protect' = [protect EXCEPT ![p] = old[p]]
    /\ old' = [old EXCEPT ![p] = None]
    /\ UNCHANGED <<asked, entries, dropped, seen, wanted, outdated>>

\* decode_guard_violation: other codes and records without the two words are none.
Decode(exception, info) == exception = "STATUS_GUARD_PAGE_VIOLATION" /\ Len(info) >= 2

\* WriteLog::record: the oldest entry makes room.
Record(log, e) == Append(IF Len(log) >= LogCap THEN Tail(log) ELSE log, e)

\* The target touches an armed page: the system disarms it and raises the
\* exception, the handler decodes it and logs it.
Violation(p, access, info) ==
    LET e == [access |-> access, page |-> p]
    IN  /\ protect[p].guard /\ Len(seen) < MaxAccesses
        /\ protect' = [protect EXCEPT ![p].guard = FALSE]
        /\ IF Decode("STATUS_GUARD_PAGE_VIOLATION", info)
           THEN /\ entries' = Record(entries, e)
                /\ dropped' = dropped + (IF Len(entries) >= LogCap THEN 1 ELSE 0)
                /\ seen' = Append(seen, e)
           ELSE UNCHANGED <<entries, dropped, seen>>
        /\ UNCHANGED <<asked, old, wanted, outdated>>

\* VirtualProtect of the target clears PAGE_GUARD.
TargetProtects(p, r) ==
    /\ protect' = [protect EXCEPT ![p] = [base |-> r, guard |-> FALSE]]
    /\ wanted' = [wanted EXCEPT ![p] = r]
    /\ outdated' = IF asked[p] = None /\ old[p] = None THEN outdated \ {p} ELSE outdated \cup {p}
    /\ UNCHANGED <<asked, old, entries, dropped, seen>>

GuardStep ==
    \E p \in Pages :
        \/ QueryProtect(p) \/ InstallGuard(p) \/ InstallGuardKnown(p) \/ RestoreProtect(p)
        \/ \E r \in Rights : TargetProtects(p, r)
        \/ \E a \in Accesses : Violation(p, a, <<>>) \/ Violation(p, a, <<a, p>>)

\* The log is the end of what was seen and the count says how much is missing.
LogIsNewest ==
    /\ dropped + Len(entries) = Len(seen)
    /\ entries = SubSeq(seen, dropped + 1, Len(seen))

\* guard_pages.rs: arming, tracing and restoring a page gives and takes no right, in
\* whatever order it is done, unless the target changed the protection while an
\* older one was held to be put back; then the older one may replace it.
RightsAreTargets == \A p \in Pages \ outdated : protect[p].base = wanted[p]

\* Refuted by that case.
RightsAreAlwaysTargets == \A p \in Pages : protect[p].base = wanted[p]

-----------------------------------------------------------------------------
(***************************************************************************)
(* src/unpack/{oep_detector,entropy_curve,disasm_snapshot}.rs: candidates  *)
(* for the original entry point, the signals that corroborate them, and    *)
(* the entropy samples one of the signals is read from.                    *)
(***************************************************************************)

CONSTANTS
    Vas,           \* addresses
    RegionIds,
    Levels,        \* entropies, in steps of the threshold
    HighLevel,     \* high_threshold
    Delta,         \* delta of detect_drops
    MaxSamples,    \* bound: samples taken
    MaxAllocs,     \* bound: allocations
    IatWindow      \* instructions after a candidate that are looked at

ASSUME CandidateAssumption == Vas \subseteq Nat /\ Levels \subseteq Int /\ {HighLevel, Delta} \subseteq Int

VARIABLES
    candidates,    \* address -> its signals and the region it was first executed in
    allocations,   \* set of base and size
    samples,       \* EntropyCurve::samples
    ran,           \* history: executed addresses with their regions
    reported       \* history: regions whose drops have been recorded

oepvars == <<candidates, allocations, samples, ran, reported>>

OepInit == candidates = <<>> /\ allocations = {} /\ samples = <<>> /\ ran = {} /\ reported = {}

RecordAllocation(base, size) ==
    /\ Cardinality(allocations) < MaxAllocs
    /\ allocations' = allocations \cup {<<base, size>>}
    /\ UNCHANGED <<candidates, samples, ran, reported>>

InAllocation(va) == \E a \in allocations : va >= a[1] /\ va < a[1] + a[2]

\* The first execution fixes the region.
RecordExecution(va, r) ==
    /\ candidates' = IF ~InAllocation(va) THEN candidates
                     ELSE IF va \in DOMAIN candidates
                     THEN [candidates EXCEPT ![va].signals = @ \cup {"execute_from_newly_allocated"}]
                     ELSE [a \in DOMAIN candidates \cup {va} |->
                              IF a = va THEN [signals |-> {"execute_from_newly_allocated"}, region |-> r]
                              ELSE candidates[a]]
    /\ ran' = ran \cup {<<va, r>>}
    /\ UNCHANGED <<allocations, samples, reported>>

\* EntropyCurve::sample; time stamps may arrive out of order.
Sample(ts, r, level) ==
    /\ Len(samples) < MaxSamples
    /\ samples' = Append(samples, [ts |-> ts, region |-> r, level |-> level])
    /\ UNCHANGED <<candidates, allocations, ran, reported>>

\* The samples of a region after a stable sort by time stamp.
InTimeOrder(r) ==
    LET own    == {i \in DOMAIN samples : samples[i].region = r}
        before == {p \in own \X own :
                      \/ samples[p[1]].ts < samples[p[2]].ts
                      \/ samples[p[1]].ts = samples[p[2]].ts /\ p[1] < p[2]}
        order  == InOrder(own, before)
    IN  [k \in DOMAIN order |-> samples[order[k]]]

\* detect_drops: two samples of a region that follow each other in time.
DropsOf(r) ==
    LET own == InTimeOrder(r)
    IN  {[region |-> r, ts |-> own[k + 1].ts, before |-> own[k].level, after |-> own[k + 1].level]
         : k \in {j \in DOMAIN own :
                     /\ j + 1 \in DOMAIN own /\ own[j].level >= HighLevel
                     /\ own[j].level - own[j + 1].level >= Delta}}
DetectDrops == UNION {DropsOf(r) : r \in RegionIds}

\* record_entropy_drop marks the candidates the region has by then.
RecordEntropyDrop(r) ==
    /\ candidates' = [va \in DOMAIN candidates |->
                        IF candidates[va].region = r THEN [candidates[va] EXCEPT !.signals = @ \cup {"entropy_drop"}]
                        ELSE candidates[va]]
    /\ reported' = reported \cup {r}
    /\ UNCHANGED <<allocations, samples, ran>>

\* The candidates in a buffer: its base and what is at each of its offsets.
InBuffer(b) == {va \in DOMAIN candidates : va >= b.base /\ va < b.base + Len(b.at)}
OpAt(b, va) == b.at[va - b.base + 1]
MarkAt(vas, signal) ==
    candidates' = [va \in DOMAIN candidates |->
                      IF va \in vas THEN [candidates[va] EXCEPT !.signals = @ \cup {signal}] ELSE candidates[va]]

ScanForFunctionPrologues(b) ==
    /\ MarkAt({va \in InBuffer(b) : OpAt(b, va) = "prologue"}, "function_prologue_match")
    /\ UNCHANGED <<allocations, samples, ran, reported>>

\* An indirect call to an import within the window, before what does not decode.
ScanForIatCalls(b) ==
    /\ MarkAt({va \in InBuffer(b) : \E k \in 0..(IatWindow - 1) :
                /\ va - b.base + 1 + k <= Len(b.at) /\ b.at[va - b.base + 1 + k] = "iat_call"
                /\ \A j \in 0..(k - 1) : b.at[va - b.base + 1 + j] # "invalid"}, "iat_call_pattern")
    /\ UNCHANGED <<allocations, samples, ran, reported>>

Tier(n) == IF n >= 3 THEN "high" ELSE IF n >= 2 THEN "medium" ELSE "best_effort"

\* score_all: by falling score, equal scores by address.
Score(va) == Cardinality(candidates[va].signals)
ScoreAll ==
    LET vas    == DOMAIN candidates
        before == {p \in vas \X vas : Score(p[1]) > Score(p[2]) \/ (Score(p[1]) = Score(p[2]) /\ p[1] < p[2])}
        order  == InOrder(vas, before)
    IN  [k \in DOMAIN order |-> [va |-> order[k], score |-> Score(order[k]), tier |-> Tier(Score(order[k]))]]

Buffers == [base : Vas, at : {<<"prologue", "iat_call">>, <<"other", "invalid">>, <<"invalid", "iat_call">>}]

EntropyStep == \E ts \in 1..2, r \in RegionIds, l \in Levels : Sample(ts, r, l)

OepStep ==
    \/ \E b \in Vas, n \in 1..2 : RecordAllocation(b, n)
    \/ \E va \in Vas, r \in RegionIds : RecordExecution(va, r)
    \/ \E r \in RegionIds : RecordEntropyDrop(r)
    \/ \E b \in Buffers : ScanForFunctionPrologues(b) \/ ScanForIatCalls(b)

\* A candidate has been executed inside memory the target allocated, its region is
\* that of the first such execution, and a drop it is credited with is one of that
\* region.
CandidatesWereExecuted ==
    \A va \in DOMAIN candidates :
        /\ InAllocation(va) /\ "execute_from_newly_allocated" \in candidates[va].signals
        /\ <<va, candidates[va].region>> \in ran
        /\ "entropy_drop" \in candidates[va].signals => candidates[va].region \in reported

\* A drop leads from an earlier sample of the region to a later one, in whatever
\* order they arrived.
DropsGoForward ==
    \A d \in DetectDrops : \E i, j \in DOMAIN samples :
        /\ samples[i].region = d.region /\ samples[j].region = d.region /\ samples[j].ts = d.ts
        /\ samples[i].ts < samples[j].ts \/ (samples[i].ts = samples[j].ts /\ i < j)
        /\ samples[i].level >= HighLevel /\ samples[i].level - samples[j].level >= Delta

\* A candidate that has every signal of another one is not listed after it.
BestFirst ==
    \A i, j \in DOMAIN ScoreAll : i < j =>
        ~(candidates[ScoreAll[i].va].signals \subseteq candidates[ScoreAll[j].va].signals
          /\ candidates[ScoreAll[i].va].signals # candidates[ScoreAll[j].va].signals)

-----------------------------------------------------------------------------
(***************************************************************************)
(* src/unpack/{memory_map,snapshot_capture,region_buffer,snapshot}.rs: the *)
(* walk over the memory of the target, the regions it reads, and the blobs *)
(* and manifest it writes, while the target changes its memory.  Several   *)
(* sessions use one output directory.                                      *)
(*                                                                         *)
(* Memory is an array of pages.  VirtualQueryEx describes the run of equal *)
(* pages that starts at the page asked for.                                *)
(***************************************************************************)

CONSTANTS
    Ceiling,       \* pages up to the ceiling of the user address space
    MaxPages,      \* max_region_bytes
    MaxRuns,       \* bound: sessions
    MaxChanges     \* bound: changes of the target while a walk goes on

ASSUME MemoryAssumption == {Ceiling, MaxPages, MaxRuns, MaxChanges} \subseteq Nat

\* state, kind and protection of a page: free, and what the filter tells apart.
PageTypes == {"free", "reserved", "private_rw", "image_rx", "mapped_r", "private_none"}
Committed(t) == t \notin {"free", "reserved"}

VARIABLES
    page,          \* memory of the target
    walk,          \* the walk: address, regions found, stage
    blobs,         \* on disk: by index, the run that wrote it and the region
    manifest,      \* on disk: the run that wrote it and its descriptors
    run, changes

mmvars == <<page, walk, blobs, manifest, run, changes>>

Idle == [stage |-> "idle", addr |-> 0, out |-> <<>>, captured |-> <<>>]

MmInit ==
    /\ page \in [0..(Ceiling - 1) -> PageTypes]
    /\ walk = Idle /\ blobs = <<>> /\ manifest = [run |-> 0, regions |-> <<>>] /\ run = 0 /\ changes = 0

StartWalk ==
    /\ walk.stage = "idle" /\ run < MaxRuns
    /\ walk' = [Idle EXCEPT !.stage = "walk"] /\ run' = run + 1 /\ changes' = 0
    /\ UNCHANGED <<page, blobs, manifest>>

\* VirtualQueryEx: the pages from addr on that are alike.
RegionAt(addr) ==
    LET same == {n \in 1..(Ceiling - addr) : \A k \in addr..(addr + n - 1) : page[k] = page[addr]}
    IN  [base |-> addr, size |-> Max(same), type |-> page[addr]]

\* enumerate: one query.
Enumerate ==
    /\ walk.stage = "walk" /\ walk.addr < Ceiling
    /\ LET r == RegionAt(walk.addr)
       IN  walk' = [walk EXCEPT !.out = Append(@, r), !.addr = r.base + r.size]
    /\ UNCHANGED <<page, blobs, manifest, run, changes>>

\* The query fails, or the ceiling is reached: what was found is used.
EndWalk ==
    /\ walk.stage = "walk"
    /\ walk' = [walk EXCEPT !.stage = "capture"]
    /\ UNCHANGED <<page, blobs, manifest, run, changes>>

\* include_kind and the other tests of capture.
Wanted(r) ==
    Committed(r.type) /\ r.type # "mapped_r" /\ r.size <= MaxPages /\ r.type # "private_none"

\* read_region: ReadProcessMemory fails when a page is gone, and the buffer is empty.
ReadRegion(r) ==
    [base |-> r.base,
     size |-> IF \E k \in r.base..(r.base + r.size - 1) : ~Committed(page[k]) \/ page[k] = "private_none" THEN 0 ELSE r.size]

\* capture: the next region of the walk.
CaptureOne ==
    /\ walk.stage = "capture" /\ walk.out # <<>>
    /\ LET r == Head(walk.out)
       IN  walk' = [walk EXCEPT !.out = Tail(@),
                                !.captured = IF Wanted(r) THEN Append(@, ReadRegion(r)) ELSE @]
    /\ UNCHANGED <<page, blobs, manifest, run, changes>>

StartEmit ==
    /\ walk.stage = "capture" /\ walk.out = <<>>
    /\ walk' = [walk EXCEPT !.stage = "emit"]
    /\ UNCHANGED <<page, blobs, manifest, run, changes>>

\* emit_snapshot: the next blob, written in place of one of an earlier run.
WriteBlob ==
    LET next == Cardinality({i \in DOMAIN blobs : i <= Len(walk.captured) /\ blobs[i].run = run}) + 1
    IN  /\ walk.stage = "emit" /\ next <= Len(walk.captured)
        /\ blobs' = [i \in DOMAIN blobs \cup {next} |->
                        IF i = next THEN [run |-> run, region |-> walk.captured[i]] ELSE blobs[i]]
        /\ UNCHANGED <<page, walk, manifest, run, changes>>

AllWritten == \A i \in 1..Len(walk.captured) : i \in DOMAIN blobs /\ blobs[i].run = run

\* Mutant: the manifest is written before its blobs.
WriteManifestFirst ==
    /\ walk.stage = "emit"
    /\ manifest' = [run |-> run, regions |-> walk.captured]
    /\ UNCHANGED <<page, walk, blobs, run, changes>>

\* The manifest is written last.
WriteManifest ==
    /\ walk.stage = "emit" /\ AllWritten
    /\ manifest' = [run |-> run, regions |-> walk.captured]
    /\ walk' = Idle
    /\ UNCHANGED <<page, blobs, run, changes>>

\* A write fails, or the session is killed.
Abandon ==
    /\ walk.stage # "idle"
    /\ walk' = Idle
    /\ UNCHANGED <<page, blobs, manifest, run, changes>>

\* The target maps, protects or frees a page.
TargetMaps(a, t) ==
    /\ walk.stage \in {"walk", "capture"} /\ changes < MaxChanges /\ page[a] # t
    /\ page' = [page EXCEPT ![a] = t] /\ changes' = changes + 1
    /\ UNCHANGED <<walk, blobs, manifest, run>>

MmStep ==
    \/ StartWalk \/ Enumerate \/ EndWalk \/ CaptureOne \/ StartEmit \/ WriteBlob \/ WriteManifest \/ Abandon
    \/ \E a \in 0..(Ceiling - 1), t \in PageTypes : TargetMaps(a, t)

\* Whatever the target does meanwhile, no page is in two regions of a walk, and
\* the walk ends within the address space.
RegionsAreDisjoint ==
    /\ walk.addr <= Ceiling
    /\ \A i, j \in DOMAIN walk.out : i < j => walk.out[i].base + walk.out[i].size <= walk.out[j].base
    /\ \A i, j \in DOMAIN walk.captured : i < j => walk.captured[i].base + walk.captured[i].size <= walk.captured[j].base

\* Every blob a manifest names exists; as long as no later session has begun to
\* write, it has what the manifest says.
ManifestHasBlobs ==
    /\ DOMAIN manifest.regions \subseteq DOMAIN blobs
    /\ (\A i \in DOMAIN blobs : blobs[i].run <= manifest.run) =>
           \A i \in DOMAIN manifest.regions : blobs[i] = [run |-> manifest.run, region |-> manifest.regions[i]]

-----------------------------------------------------------------------------
(***************************************************************************)
(* src/unpack/devirt/{trace,themida3x}.rs: the writer of                   *)
(* devirt_trace.jsonl, a header, steps and a footer, with a buffer that is *)
(* flushed every FlushEvery records.  Every write and flush may fail, and  *)
(* the session may be killed.  After an error of append_step the caller    *)
(* may go on; its footer counts the steps append_step took.                *)
(***************************************************************************)

CONSTANTS
    FlushEvery,     \* FLUSH_EVERY
    MaxSteps,       \* bound: steps appended
    MaxErrors       \* bound: calls of append_step that fail

ASSUME TraceAssumption == {FlushEvery, MaxSteps, MaxErrors} \subseteq Nat

Tiers == {"high", "medium", "best_effort"}

VARIABLES
    trace,          \* lines written, the last of them perhaps in the buffer
    onDisk,         \* how many of them are in the file
    sinceFlush,     \* records_since_flush
    emitted,        \* steps_emitted
    acked,          \* history: steps append_step returned Ok for
    failures,       \* history: calls of append_step that failed to write or flush
    writer          \* "none", "open", "done", "refused" or "failed" (finalize), "killed"

dtvars == <<trace, onDisk, sinceFlush, emitted, acked, failures, writer>>

DtInit ==
    /\ trace = <<>> /\ onDisk = 0 /\ sinceFlush = 0 /\ emitted = 0 /\ acked = 0 /\ failures = 0
    /\ writer = "none"

Headers == [kind : {"header"}, version : {"2.x", "3.x"}, cap : {"none", "themida_3x_partial", "other"}]
Step(idx) == [kind |-> "step", idx |-> idx]
Footer(tier) == [kind |-> "footer", steps |-> acked, tier |-> tier]

\* A line that has not been ended, and one that is no record.
Torn == [kind |-> "torn"]
Garbage == [kind |-> "garbage"]

\* write_record.  What follows the part of a record that a failed write has left
\* ends its line, and neither can be read.
TornAtEnd == trace # <<>> /\ trace[Len(trace)].kind = "torn"
Written(record) == IF TornAtEnd THEN [trace EXCEPT ![Len(trace)] = Garbage] ELSE Append(trace, record)
WriteFails == trace' \in {trace, IF TornAtEnd THEN trace ELSE Append(trace, Torn)}

\* What a kill leaves of the lines; also a drop of the writer, whose flush may fail.
Left(lines, n) ==
    {SubSeq(lines, 1, k) : k \in n..Len(lines)} \cup {Append(SubSeq(lines, 1, k), Torn) : k \in n..(Len(lines) - 1)}
Dropped(lines, n) == trace' \in Left(lines, n) /\ onDisk' = Len(trace')

\* The file is created; without it there is no writer.
Create(h) ==
    /\ writer = "none"
    /\ \/ trace' = <<h>> /\ onDisk' \in 0..1 /\ sinceFlush' = 1 /\ writer' = "open"
       \/ Dropped(<<h>>, 0) /\ writer' = "failed" /\ UNCHANGED sinceFlush
    /\ UNCHANGED <<emitted, acked, failures>>

\* append_step: a step out of order is refused, and changes nothing.
AppendStep(idx) ==
    /\ writer = "open" /\ emitted < MaxSteps /\ idx = emitted
    /\ trace' = Written(Step(idx)) /\ emitted' = emitted + 1 /\ acked' = acked + 1
    /\ IF sinceFlush + 1 >= FlushEvery THEN sinceFlush' = 0 /\ onDisk' = Len(trace')
       ELSE sinceFlush' = sinceFlush + 1 /\ onDisk' \in onDisk..Len(trace')
    /\ UNCHANGED <<failures, writer>>

\* Mutant: the step is counted before it is written.
AppendFailsCounts(idx) ==
    /\ writer = "open" /\ emitted < MaxSteps /\ idx = emitted /\ failures < MaxErrors
    /\ WriteFails /\ onDisk' \in onDisk..Len(trace')
    /\ emitted' = emitted + 1 /\ failures' = failures + 1
    /\ UNCHANGED <<sinceFlush, acked, writer>>

\* The step is not written, or not to its end.
AppendFails(idx) ==
    /\ writer = "open" /\ idx = emitted /\ failures < MaxErrors
    /\ WriteFails /\ onDisk' \in onDisk..Len(trace')
    /\ failures' = failures + 1
    /\ UNCHANGED <<sinceFlush, emitted, acked, writer>>

\* The step is written and the flush fails: an error for a step that is counted.
AppendFlushFails(idx) ==
    /\ writer = "open" /\ emitted < MaxSteps /\ idx = emitted /\ failures < MaxErrors
    /\ sinceFlush + 1 >= FlushEvery
    /\ trace' = Written(Step(idx)) /\ emitted' = emitted + 1 /\ sinceFlush' = sinceFlush + 1
    /\ onDisk' \in onDisk..Len(trace')
    /\ failures' = failures + 1
    /\ UNCHANGED <<acked, writer>>

\* The two tests of finalize; make_capped_footer passes both.
Refused(h, f) ==
    /\ f.tier # "best_effort"
    /\ h.cap = "themida_3x_partial" \/ (h.version = "3.x" /\ h.cap = "none")

\* finalize: the footer is refused, or written and flushed, or one of these fails;
\* the writer is dropped in any case.
FinalizeTrace(f) ==
    /\ writer = "open"
    /\ IF Refused(trace[1], f) THEN writer' = "refused" /\ Dropped(trace, onDisk)
       ELSE \/ writer' = "done" /\ trace' = Written(f) /\ onDisk' = Len(trace')
            \/ writer' = "failed" /\ Dropped(Written(f), onDisk)
    /\ UNCHANGED <<sinceFlush, emitted, acked, failures>>

Killed ==
    /\ writer = "open" /\ writer' = "killed" /\ Dropped(trace, onDisk)
    /\ UNCHANGED <<sinceFlush, emitted, acked, failures>>

DtStep ==
    \/ \E h \in Headers : Create(h)
    \/ \E i \in 0..MaxSteps : AppendStep(i) \/ AppendFails(i) \/ AppendFlushFails(i)
    \/ \E t \in Tiers : FinalizeTrace(Footer(t))
    \/ Killed

File == SubSeq(trace, 1, onDisk)

\* devirt/trace.rs: a step in the file has the number of its line, whatever failed
\* before it, so that no step is there twice or in another's place.  A footer ends
\* the file: no trace that was cut off has one.  The lines before it are no fewer
\* than it counts, and only as many more as calls failed; if none failed they are
\* exactly its steps.
FooterMeansWhole ==
    \A i \in DOMAIN File :
        /\ File[i].kind = "step" => File[i].idx = i - 2
        /\ File[i].kind = "footer" =>
            /\ writer \in {"done", "failed"} /\ i = Len(File)
            /\ File[i].steps <= i - 2 /\ i - 2 <= File[i].steps + failures
            /\ failures = 0 => \A j \in 2..(i - 1) : File[j].kind = "step"

\* Refuted by a failed flush, after which the writer counts a step its caller does
\* not, and by a failed write, whose rest spoils the line of the next step.
FooterCountsSteps ==
    \A i \in DOMAIN File : File[i].kind = "footer" =>
        File[i].steps = i - 2 /\ \A j \in 2..(i - 1) : File[j].kind = "step"

-----------------------------------------------------------------------------
VARIABLE focus     \* which of them

allvars == <<bpvars, gvars, oepvars, mmvars, dtvars, focus>>

TracingInit ==
    /\ BpInit /\ GuardInit /\ OepInit /\ MmInit /\ DtInit
    /\ focus \in {"soft", "hw", "guard", "entropy", "oep", "map", "trace"}
    /\ focus # "soft" => code = [a \in CodeVas |-> CHOOSE b \in Bytes : TRUE]
    /\ focus # "guard" => wanted = [p \in Pages |-> CHOOSE r \in Rights : TRUE]
    /\ focus # "map" => page = [a \in 0..(Ceiling - 1) |-> "free"]

TracingNext ==
    /\ UNCHANGED focus
    /\ \/ focus = "soft" /\ BpSoftStep /\ UNCHANGED <<gvars, oepvars, mmvars, dtvars>>
       \/ focus = "hw" /\ BpHwStep /\ UNCHANGED <<gvars, oepvars, mmvars, dtvars>>
       \/ focus = "guard" /\ GuardStep /\ UNCHANGED <<bpvars, oepvars, mmvars, dtvars>>
       \/ focus = "entropy" /\ EntropyStep /\ UNCHANGED <<bpvars, gvars, mmvars, dtvars>>
       \/ focus = "oep" /\ OepStep /\ UNCHANGED <<bpvars, gvars, mmvars, dtvars>>
       \/ focus = "map" /\ MmStep /\ UNCHANGED <<bpvars, gvars, oepvars, dtvars>>
       \/ focus = "trace" /\ DtStep /\ UNCHANGED <<bpvars, gvars, oepvars, mmvars>>

TracingSpec == TracingInit /\ [][TracingNext]_allvars

\* What tracing puts into the target it takes back: its code, its debug registers,
\* its page rights and the run of its threads are as the target made them, but where
\* a failed call or a write of the target in between is excepted by the parts; and
\* the log of violations holds the newest.
TrapsAreClean == CodeIsTargets /\ Dr7MatchesSlots /\ NoLostProgress /\ LogIsNewest /\ RightsAreTargets

\* What is reported of a target was seen there: candidates were executed and are
\* ranked by their signals, dumped regions do not overlap and are on disk before
\* the manifest names them, and a trace with a footer has the steps it counts, but
\* for the calls that failed.
TracesAreWhole ==
    /\ CandidatesWereExecuted /\ DropsGoForward /\ BestFirst
    /\ RegionsAreDisjoint /\ ManifestHasBlobs
    /\ FooterMeansWhole
=============================================================================
