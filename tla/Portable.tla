----------------------------- MODULE Portable -----------------------------
(* The portable profile: the bounded emulator with its solver and fuzzer, and*)
(* the capability pass that uses them.                                       *)
EXTENDS Integers, Sequences, FiniteSets, FiniteSetsExt, SequencesExt, Bitwise

-----------------------------------------------------------------------------
(***************************************************************************)
(* The bounded emulator of the portable profiles (native_emulator.rs), the *)
(* solver of the branch predicates it meets (symbolic_solver.rs) and the   *)
(* native fuzzer that drives it (native_fuzzer.rs).                        *)
(*                                                                         *)
(* An instruction is [op, dst, src, target]; an operand is [kind, name, v] *)
(* with kind "imm", "reg", "stack" (a slot of rsp/rbp), "image" or "mem".  *)
(* Registers are kept by name, so eax and rax are two of them.             *)
(***************************************************************************)

CONSTANTS
    Width,          \* bits of a register, scaled down
    MaxUnsupported, \* unsupported instructions kept (16), scaled down
    MaxIterations   \* runs of a candidate (1024), scaled down

Word == 2^Width
Wrap(x) == x % Word
Signed(x) == IF x >= Word \div 2 THEN x - Word ELSE x
None == -1                      \* no value
IsSome(x) == x # None

EmptyMap == [n \in {} |-> None]
Get(m, k) == IF k \in DOMAIN m THEN m[k] ELSE None
Put(m, k, v) == [n \in DOMAIN m \cup {k} |-> IF n = k THEN v ELSE m[n]]

\* NativeState.
StartState(regs) ==
    [registers |-> regs, stack |-> EmptyMap, compare |-> <<>>, oob |-> <<>>, stubs |-> <<>>,
     zf |-> FALSE, sf |-> FALSE, cf |-> FALSE, of |-> FALSE]

ValueOf(st, o) ==
    CASE o.kind = "imm" -> o.v
      [] o.kind = "reg" -> Get(st.registers, o.name)
      [] o.kind = "stack" -> Get(st.stack, o.v)
      [] OTHER -> None

-----------------------------------------------------------------------------
(* Instructions: [st, out] with out "supported", "stub", "branch" or         *)
(* "unsupported".                                                            *)

\* A store to anything but a stack slot of known value, the stack or the image
\* is taken for out of bounds.
EmulateMov(row, st) ==
    LET v == ValueOf(st, row.src)
    IN  CASE row.dst.kind \in {"stack", "image", "mem"} ->
                [out |-> "supported",
                 st |-> CASE row.dst.kind = "stack" /\ IsSome(v) -> [st EXCEPT !.stack = Put(@, row.dst.v, v)]
                          [] row.dst.kind = "mem" -> [st EXCEPT !.oob = Append(@, row.address)]
                          [] OTHER -> st]
          [] row.dst.kind = "reg" ->
                [out |-> "supported",
                 st |-> IF IsSome(v) THEN [st EXCEPT !.registers = Put(@, row.dst.name, v)] ELSE st]
          [] OTHER -> [out |-> "unsupported", st |-> st]

\* The effective address is only known for image operands.
EmulateLea(row, st) ==
    IF row.dst.kind # "reg" THEN [out |-> "unsupported", st |-> st]
    ELSE [out |-> "supported",
          st |-> IF row.src.kind = "image" THEN [st EXCEPT !.registers = Put(@, row.dst.name, row.src.v)] ELSE st]

RotateLeft(x, n) == Wrap(x * 2^(n % Width)) + (x * 2^(n % Width)) \div Word
Binary(op, l, r, same) ==
    LET n == r % Width
    IN  CASE op = "xor" -> IF same THEN 0 ELSE l ^^ r
          [] op = "and" -> l & r
          [] op = "or" -> l | r
          [] op = "add" -> Wrap(l + r)
          [] op = "sub" -> Wrap(l - r)
          [] op = "shl" -> Wrap(l * 2^n)
          [] op = "shr" -> l \div 2^n
          [] op = "sar" -> Wrap(Signed(l) \div 2^n)
          [] op = "rol" -> RotateLeft(l, r)
          [] op = "ror" -> RotateLeft(l, Width - n)
          [] OTHER -> l
Unary(op, x) ==
    CASE op = "inc" -> Wrap(x + 1)
      [] op = "dec" -> Wrap(x - 1)
      [] op = "neg" -> Wrap(-x)
      [] op = "not" -> Word - 1 - x
      [] OTHER -> x

\* An unknown register or operand counts as zero; carry, overflow and the last
\* comparison are left as they were.
EmulateArithmetic(row, st) ==
    LET Known(v) == IF IsSome(v) THEN v ELSE 0
        l == Known(Get(st.registers, row.dst.name))
        v == IF row.op \in {"inc", "dec", "neg", "not"} THEN Unary(row.op, l)
             ELSE Binary(row.op, l, Known(ValueOf(st, row.src)), row.src = row.dst)
    IN  IF row.dst.kind # "reg" THEN [out |-> "unsupported", st |-> st]
        ELSE [out |-> "supported",
              st |-> [st EXCEPT !.registers = Put(@, row.dst.name, v), !.zf = (v = 0), !.sf = (Signed(v) < 0)]]

\* Mutant: the borrow is taken from the sign of the difference.
CompareSigned(row, st) ==
    LET l == ValueOf(st, row.dst)
        r == ValueOf(st, row.src)
        diff == Wrap(l - r)
    IN  IF ~IsSome(l) \/ ~IsSome(r) THEN [st EXCEPT !.compare = <<[l |-> l, r |-> r]>>]
        ELSE [st EXCEPT !.compare = <<[l |-> l, r |-> r]>>, !.zf = (diff = 0), !.sf = (Signed(diff) < 0),
                        !.cf = (Signed(diff) < 0), !.of = (Signed(l) - Signed(r) # Signed(diff))]
\* cmp and test.  When a value is unknown the comparison is remembered and the
\* flags of an earlier one stay.
Compare(row, st) ==
    LET l == ValueOf(st, row.dst)
        r == ValueOf(st, row.src)
        diff == IF row.op = "cmp" THEN Wrap(l - r) ELSE l & r
        known == [st EXCEPT !.compare = <<[l |-> l, r |-> r]>>]
    IN  IF ~IsSome(l) \/ ~IsSome(r) THEN known
        ELSE [known EXCEPT !.zf = (diff = 0), !.sf = (Signed(diff) < 0),
                           !.cf = (row.op = "cmp" /\ l < r),
                           !.of = (row.op = "cmp" /\ Signed(l) - Signed(r) # Signed(diff))]

ConditionalHolds(cond, st) ==
    CASE cond = "e" -> st.zf
      [] cond = "ne" -> ~st.zf
      [] cond = "s" -> st.sf
      [] cond = "b" -> st.cf
      [] cond = "ae" -> ~st.cf
      [] cond = "be" -> st.cf \/ st.zf
      [] cond = "a" -> ~st.cf /\ ~st.zf
      [] cond = "l" -> st.sf # st.of
      [] cond = "ge" -> st.sf = st.of
      [] cond = "le" -> st.zf \/ st.sf # st.of
      [] cond = "g" -> ~st.zf /\ st.sf = st.of
      [] OTHER -> FALSE

\* With no comparison behind it a conditional branch is not taken, whatever the
\* flags: its operands are "unknown".
BranchIsSatisfied(row, st) ==
    row.op = "jmp" \/ (st.compare # <<>> /\ ConditionalHolds(row.cond, st))

\* The value an API stub leaves in rax and eax.
ApplyApiReturn(row, st) ==
    [st EXCEPT !.registers = Put(Put(@, "rax", row.returns), "eax", row.returns), !.stubs = Append(@, row.address)]

EmulateInstruction(row, st) ==
    CASE row.op = "mov" -> EmulateMov(row, st)
      [] row.op = "lea" -> EmulateLea(row, st)
      [] row.op \in {"xor", "and", "or", "add", "sub", "shl", "shr", "sar", "rol", "ror", "inc", "dec", "neg", "not"} ->
            EmulateArithmetic(row, st)
      [] row.op \in {"cmp", "test"} -> [out |-> "supported", st |-> Compare(row, st)]
      [] row.op = "call" -> [out |-> "stub", st |-> st]
      [] row.op \in {"ret", "nop", "push", "pop"} -> [out |-> "supported", st |-> st]
      [] row.op = "cmov" ->
            IF ConditionalHolds(row.cond, st) THEN EmulateMov(row, st) ELSE [out |-> "supported", st |-> st]
      [] row.op = "set" ->
            [out |-> "supported",
             st |-> IF row.dst.kind # "reg" THEN st
                    ELSE [st EXCEPT !.registers = Put(@, row.dst.name, IF ConditionalHolds(row.cond, st) THEN 1 ELSE 0)]]
      [] row.op \in {"jmp", "jcc"} /\ IsSome(row.target) -> [out |-> "branch", st |-> st]
      [] OTHER -> [out |-> "unsupported", st |-> st]

-----------------------------------------------------------------------------
(* The loop.                                                                 *)

\* A branch predicate: the values compared last, and whether it was taken.
Predicate(row, st, taken) ==
    LET c == IF st.compare = <<>> THEN [l |-> None, r |-> None] ELSE st.compare[1]
    IN  [site |-> row.address, op |-> row.op, cond |-> row.cond, known |-> st.compare # <<>>, l |-> c.l, r |-> c.r, taken |-> taken]

\* The guard ends the run when an edge is taken a second time.
StepBranch(m, row, next) ==
    LET taken == BranchIsSatisfied(row, m.st)
        chosen == IF taken THEN row.target ELSE next
        seen == [m EXCEPT !.predicates = Append(@, Predicate(row, m.st, taken)), !.supported = @ + 1]
    IN  CASE chosen = None -> [seen EXCEPT !.exit = "branch_exit"]
          [] chosen # None /\ <<row.address, chosen>> \in m.edges -> [seen EXCEPT !.exit = "loop_guard"]
          [] OTHER -> [seen EXCEPT !.edges = @ \cup {<<row.address, chosen>>}, !.pc = chosen]

\* What an instruction with the result `done' does to the run.
Account(m, row, next, onwards, done) ==
    LET seen == [m EXCEPT !.steps = @ + 1, !.path = Append(@, row.address), !.st = done.st]
    IN  CASE done.out = "supported" /\ row.op = "ret" -> [seen EXCEPT !.supported = @ + 1, !.exit = "return"]
          [] done.out = "supported" /\ row.op # "ret" -> [seen EXCEPT !.supported = @ + 1, !.pc = onwards]
          [] done.out = "stub" -> [seen EXCEPT !.supported = @ + 1, !.st = ApplyApiReturn(row, @), !.pc = onwards]
          [] done.out = "branch" -> StepBranch(seen, row, next)
          [] OTHER -> [seen EXCEPT !.unsupported = IF Len(@) < MaxUnsupported THEN Append(@, row.address) ELSE @,
                                   !.pc = onwards]
AtFunctionEnd(prog, fn, m) == m.exit = "" /\ (m.pc >= fn.end \/ m.pc \notin DOMAIN prog)
EndAtFunctionEnd(prog, fn, m) == IF AtFunctionEnd(prog, fn, m) THEN [m EXCEPT !.exit = "function_end"] ELSE m

\* One turn of the loop of emulate_function.  The program maps addresses to
\* instructions; exit "" goes on.
EmulateStep(prog, fn, cap, m) ==
    LET row == prog[m.pc]
        later == {a \in DOMAIN prog : a > m.pc}
        next == IF later = {} THEN None ELSE Min(later)
    IN  IF m.steps >= cap THEN [m EXCEPT !.exit = "budget_cap"]
        ELSE EndAtFunctionEnd(prog, fn,
                 Account(m, row, next, IF next = None THEN fn.end ELSE next, EmulateInstruction(row, m.st)))

RECURSIVE EmulateLoop(_, _, _, _)
EmulateLoop(prog, fn, cap, m) == IF m.exit # "" THEN m ELSE EmulateLoop(prog, fn, cap, EmulateStep(prog, fn, cap, m))

\* emulate_function: [ran |-> FALSE] when nothing was understood.
RunOf(end) ==
    IF end.supported = 0 THEN [ran |-> FALSE]
    ELSE [ran |-> TRUE, end |-> end, cap_hit |-> end.exit = "budget_cap"]
EmulateFunction(prog, fn, regs, cap) ==
    IF DOMAIN prog = {} THEN [ran |-> FALSE]
    ELSE RunOf(EmulateLoop(prog, fn, cap,
                   [st |-> StartState(regs), pc |-> IF fn.start \in DOMAIN prog THEN fn.start ELSE Min(DOMAIN prog),
                    steps |-> 0, supported |-> 0, unsupported |-> <<>>,
                    predicates |-> <<>>, edges |-> {}, path |-> <<>>, exit |-> ""]))

-----------------------------------------------------------------------------
(* Predicates as constraints: always over unsigned values, for test as for   *)
(* cmp.                                                                      *)

RelationForBranch(cond) ==
    CASE cond = "e" -> "=="
      [] cond = "ne" -> "!="
      [] cond \in {"a", "g"} -> ">"
      [] cond \in {"ae", "ge"} -> ">="
      [] cond \in {"b", "l"} -> "<"
      [] cond \in {"be", "le"} -> "<="
      [] OTHER -> "unknown"

RelationHolds(rel, l, r) ==
    CASE rel = "==" -> l = r
      [] rel = "!=" -> l # r
      [] rel = ">" -> l > r
      [] rel = ">=" -> l >= r
      [] rel = "<" -> l < r
      [] rel = "<=" -> l <= r
      [] OTHER -> FALSE

\* A value for the left operand; the increments wrap.
SatisfyingValue(rel, r) ==
    CASE rel \in {"!=", ">"} -> Wrap(r + 1)
      [] rel = "<" -> IF r = 0 THEN None ELSE r - 1
      [] OTHER -> r
\* A value for the right operand.
SatisfyingValueForRight(rel, l) ==
    CASE rel \in {"!=", "<"} -> Wrap(l + 1)
      [] rel = ">" -> IF l = 0 THEN None ELSE l - 1
      [] OTHER -> l

\* solve_predicate: [sat, l, r], the model giving the operand that was unknown.
SolvePredicate(p) ==
    LET rel == RelationForBranch(p.cond)
        v == IF IsSome(p.r) THEN SatisfyingValue(rel, p.r) ELSE SatisfyingValueForRight(rel, p.l)
    IN  CASE rel = "unknown" \/ ~p.known \/ (~IsSome(p.l) /\ ~IsSome(p.r)) -> [sat |-> "unknown", l |-> None, r |-> None]
          [] IsSome(p.l) /\ IsSome(p.r) ->
                IF RelationHolds(rel, p.l, p.r) THEN [sat |-> "satisfiable", l |-> p.l, r |-> p.r]
                ELSE [sat |-> "unsatisfiable", l |-> None, r |-> None]
          [] v = None -> [sat |-> "unknown", l |-> None, r |-> None]
          [] OTHER -> [sat |-> "satisfiable", l |-> IF IsSome(p.l) THEN p.l ELSE v, r |-> IF IsSome(p.r) THEN p.r ELSE v]

BuildSymbolicPaths(run, cap) ==
    IF ~run.ran THEN <<>>
    ELSE [i \in 1..Min({cap, Len(run.end.predicates)}) |->
            SolvePredicate(run.end.predicates[i]) @@ [site |-> run.end.predicates[i].site]]

-----------------------------------------------------------------------------
(* The native fuzzer.                                                        *)

\* classify_exit: a store out of bounds first, then how much was understood.
ClassifyExit(run, baseline) ==
    CASE run.end.st.oob # <<>> -> "oob_write"
      [] run.end.st.oob = <<>> /\ 4 * Len(run.end.unsupported) > run.end.supported -> "low_fidelity"
      [] OTHER -> IF run.end.exit \in {"return", "function_end"} THEN "normal"
                  ELSE IF baseline # "" /\ baseline # run.end.exit THEN "divergent" ELSE "suspicious"

\* The runs of one candidate.  regsOf gives the registers of an iteration; the
\* all-zero run is the baseline, or the first function's run when there is none.
\* A dry run plans the iterations without running them.
RunNativeFuzz(prog, fn, mode, iterations, regsOf, zero, cap, first) ==
    LET n == Min({Max({iterations, 1}), MaxIterations})
        base == IF mode = "execute" THEN EmulateFunction(prog, fn, zero, cap) ELSE [ran |-> FALSE]
        baseline == IF base.ran THEN base.end.exit ELSE first
        run(i) == LET r == EmulateFunction(prog, fn, regsOf[i], cap)
                  IN  IF r.ran THEN ClassifyExit(r, baseline) ELSE "no_emulation_trace"
    IN  IF mode = "off" THEN <<>>
        ELSE [i \in 1..n |-> IF mode = "execute" THEN [status |-> "executed", exit |-> run(i)]
                             ELSE [status |-> "dry_run_planned", exit |-> "fuzz_mode_dry_run"]]

-----------------------------------------------------------------------------
(***************************************************************************)
(* The portable capability pass (portable.rs): artifacts copied out of the *)
(* image, driver and firmware triage (driver_triage.rs,                    *)
(* firmware_unpacker.rs), candidate sinks with their harnesses and native  *)
(* fuzz runs, offline traces (trace_ingest.rs), and the matrix that says   *)
(* of each capability whether it ran and what its claim rests on.          *)
(***************************************************************************)

CONSTANTS
    MaxCandidates,  \* rows of api flows, of xrefs, and harnesses (64), scaled down
    MaxFuzzed,      \* candidates that are fuzzed (32), scaled down
    MaxSections,    \* sections copied (16), scaled down
    MaxLines        \* lines read of a trace file (4096), scaled down

Take(s, n) == SubSeq(s, 1, Min({Len(s), n}))

\* function_for: the first function that holds the address; 0 when none does.
FunctionFor(functions, va) ==
    LET holding == {i \in DOMAIN functions : functions[i].start <= va /\ va < functions[i].end}
    IN  IF holding = {} THEN 0 ELSE functions[Min(holding)].start

\* write_portable_artifact: the row carries the reason when nothing was written.
Artifact(input, method, what) ==
    [method |-> method, what |-> what, failed |-> ~input.writable]

\* The overlay, then the dense or writable-and-executable sections.
BuildUnpackedArtifacts(input) ==
    LET odd == Take(SelectSeq(input.sections, LAMBDA s : s.dense \/ (s.writable /\ s.executable)), MaxSections)
    IN  (IF input.overlay > 0 THEN <<Artifact(input, "overlay_extract", "overlay")>> ELSE <<>>)
        \o [i \in DOMAIN odd |-> Artifact(input, "section_extract", odd[i].name)]

\* Any of the hints makes the file a firmware module, copied whole.
BuildFirmwareModules(input) ==
    IF input.firmware = "none" THEN [modules |-> <<>>, artifacts |-> <<>>]
    ELSE [modules |-> <<[type |-> input.firmware]>>,
          artifacts |-> <<Artifact(input, "firmware_module_extract", input.firmware)>>]

\* Five signals, one is enough; the confidence counts only the path and the
\* imports.
BuildKernelArtifacts(input) ==
    LET k == input.kernel
    IN  IF k = {} THEN <<>>
        ELSE <<[signals |-> k \cup (IF \E i \in DOMAIN input.sections : input.sections[i].writable /\ input.sections[i].executable
                                    THEN {"rwx_section"} ELSE {}),
                confidence |-> CASE {"driver_extension", "kernel_imports"} \subseteq k -> "high"
                                 [] {"driver_extension", "kernel_imports"} \cap k # {} -> "medium"
                                 [] OTHER -> "low"]>>

\* Dangerous calls of the flows, then those of the xrefs at other sites.  The
\* index of an xref counts the ones that are skipped.
BuildVulnCandidates(input) ==
    LET flows == Take(SelectSeq(input.api_flows, LAMBDA f : f.dangerous), MaxCandidates)
        calls == Take(SelectSeq(input.xrefs, LAMBDA x : x.role = "call" /\ x.dangerous), MaxCandidates)
        ofFlows == [i \in DOMAIN flows |->
                      [id |-> <<"flow", i - 1>>, site |-> flows[i].callsite, evidence |-> flows[i].evidence]]
    IN  FoldLeft(LAMBDA rows, i :
                     IF \E k \in DOMAIN rows : rows[k].site = calls[i].from THEN rows
                     ELSE Append(rows, [id |-> <<"xref", i - 1>>, site |-> calls[i].from, evidence |-> {calls[i].from}]),
                 ofFlows, [i \in DOMAIN calls |-> i])

\* The stubs, for candidates that cite evidence; a stub that cannot be written is
\* listed all the same.
BuildFuzzHarnesses(input, candidates) ==
    LET cited == Take(SelectSeq(candidates, LAMBDA c : c.evidence # {}), MaxCandidates)
    IN  [i \in DOMAIN cited |-> [candidate |-> cited[i].id]]

\* run_fuzz: the first candidates that cite evidence and lie in a function.  A
\* dry run lists the iterations it would run.
RunFuzz(input, candidates) ==
    LET cited == Take(SelectSeq(candidates, LAMBDA c : c.evidence # {}), MaxFuzzed)
        placed == SelectSeq(cited, LAMBDA c : FunctionFor(input.functions, c.site) # 0)
        runs(c) == [k \in 1..Max({input.iterations, 1}) |->
                      [candidate |-> c.id, iteration |-> k - 1,
                       status |-> IF input.fuzz_mode = "execute" THEN "executed" ELSE "dry_run_planned"]]
    IN  IF input.profile # "native-max" \/ input.fuzz_mode = "off" THEN <<>>
        ELSE FlattenSeq([i \in DOMAIN placed |-> runs(placed[i])])

\* ingest_traces: the files in path order, the lines of each up to the limit;
\* lines that are not JSON and files that cannot be read are passed over.
IngestTraces(input) ==
    LET events(f) == SelectSeq(Take(SelectSeq(f.lines, LAMBDA l : l # "blank"), MaxLines), LAMBDA l : l # "garbled")
        read == SelectSeq(input.traces, LAMBDA f : f.readable)
        all == FlattenSeq([i \in DOMAIN read |-> events(read[i])])
    IN  IF input.profile # "native-max" THEN <<>>
        ELSE [i \in DOMAIN all |->
                LET va == IF all[i] = "in_function" THEN 2 ELSE 0
                    f == FunctionFor(input.functions, va)
                IN  [event |-> i - 1, function |-> f,
                     confidence |-> IF f # 0 THEN "high" ELSE IF all[i] = "api" THEN "medium" ELSE "low"]]

-----------------------------------------------------------------------------
(* The matrix.                                                               *)

Capability(name, status, ran, skipped, level) ==
    [capability |-> name, status |-> status, ran |-> ran, skipped |-> skipped, level |-> level]

\* What ran is what left rows.
Evidenced(name, some, level) ==
    Capability(name, IF some THEN "executed" ELSE "skipped_no_evidence", some, ~some,
               IF some THEN level ELSE "metadata_only")

\* A capped emulation is neither run nor skipped.
EmulationRow(emulation) ==
    CASE emulation = "none" -> Capability("bounded_offline_emulation", "skipped_no_evidence", FALSE, TRUE, "metadata_only")
      [] emulation = "capped" -> Capability("bounded_offline_emulation", "failed_capped", FALSE, FALSE, "executed_bytes")
      [] OTHER -> Capability("bounded_offline_emulation", "executed", TRUE, FALSE, "executed_bytes")

TriageRow(name, some, native) ==
    Capability(name, IF some THEN (IF native THEN "executed" ELSE "triaged") ELSE "not_applicable", some, ~some,
               IF some THEN "static_artifact_triage" ELSE "metadata_only")

\* Any fuzz row counts as executed, the planned ones of a dry run too.
FuzzRow(generated, executed) ==
    CASE executed -> Capability("vuln_fuzz_prep", "executed", TRUE, ~generated, "executed_fuzz_with_classification")
      [] ~executed /\ generated -> Capability("vuln_fuzz_prep", "generated", FALSE, FALSE, "generated_stub")
      [] OTHER -> Capability("vuln_fuzz_prep", "skipped_no_evidence", FALSE, TRUE, "metadata_only")

\* The architecture comes from the machine field alone.
CrossArchRow == Capability("cross_arch_triage", "triaged", TRUE, FALSE, "metadata_only")

\* What an offline pass cannot do.
LiveRows ==
    <<Capability("live_hypervisor_introspection", "unsupported_portable", FALSE, FALSE, "unsupported"),
      Capability("live_kernel_telemetry", "unsupported_portable", FALSE, FALSE, "unsupported")>>

CapabilityMatrix(input, out) ==
    LET native == input.profile = "native-max"
    IN  <<Capability("static_pe_re", "executed", TRUE, FALSE, "executed_bytes"),
          EmulationRow(input.emulation),
          Evidenced("bounded_symbolic_paths", input.predicates > 0, "executed_bytes"),
          Evidenced("portable_unpacking", out.unpacked # <<>>, "executed_bytes"),
          CrossArchRow,
          TriageRow("firmware_uefi_triage", out.firmware # <<>>, native),
          TriageRow("kernel_driver_static_triage", out.kernel # <<>>, native),
          FuzzRow(out.harnesses # <<>>, out.fuzz # <<>>),
          Evidenced("native_c_decompilation", native /\ input.functions # <<>>, "lifted_c_with_types"),
          Evidenced("offline_trace_ingest", out.traces # <<>>, "ingested_trace")>>
        \o LiveRows

\* portable_uncertainties: what the profile cannot do, what the emulator did not
\* understand or finish, then what has no artifact or only metadata.  An id is
\* the row's index and its reason.
PortableUncertainties(input, matrix) ==
    LET unsupported == SelectSeq(matrix, LAMBDA m : m.status = "unsupported_portable")
        missed == IF input.emulation = "none" THEN input.functions # <<>> ELSE input.unsupported
        emulator == (IF missed THEN <<[reason |-> "unsupported_instruction", about |-> "bounded_offline_emulation"]>> ELSE <<>>)
                    \o (IF input.emulation = "capped"
                        THEN <<[reason |-> "path_cap_hit", about |-> "bounded_offline_emulation"]>> ELSE <<>>)
        ofRow(m) == (IF m.status \in {"not_applicable", "skipped_no_evidence"}
                     THEN <<[reason |-> "no_matching_artifact", about |-> m.capability]>> ELSE <<>>)
                    \o (IF m.level = "metadata_only" THEN <<[reason |-> "metadata_only_summary", about |-> m.capability]>> ELSE <<>>)
                    \o (IF m.capability = "vuln_fuzz_prep" /\ m.status = "generated"
                        THEN <<[reason |-> "fuzz_harness_not_executed", about |-> m.capability]>> ELSE <<>>)
        rows == [i \in DOMAIN unsupported |-> [reason |-> "unsupported", about |-> unsupported[i].capability]]
                \o emulator \o FlattenSeq([i \in DOMAIN matrix |-> ofRow(matrix[i])])
    IN  [i \in DOMAIN rows |-> [id |-> <<i - 1, rows[i].reason>>, about |-> rows[i].about]]

BuildPortableCapabilities(input) ==
    LET firmware == BuildFirmwareModules(input)
        candidates == BuildVulnCandidates(input)
        out == [unpacked |-> BuildUnpackedArtifacts(input) \o firmware.artifacts, firmware |-> firmware.modules,
                kernel |-> BuildKernelArtifacts(input), candidates |-> candidates,
                harnesses |-> BuildFuzzHarnesses(input, candidates), fuzz |-> RunFuzz(input, candidates),
                traces |-> IngestTraces(input)]
        matrix == CapabilityMatrix(input, out)
    IN  out @@ [matrix |-> matrix, uncertainties |-> PortableUncertainties(input, matrix)]
=============================================================================
