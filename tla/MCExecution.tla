---------------------------- MODULE MCExecution ----------------------------
(* Inputs, expressions and short programs, given to the solvers, the emulators*)
(* and the fuzzer.                                                           *)
EXTENDS Computation

-----------------------------------------------------------------------------
(* Every comparison of a byte with every constant of its width; widening adds *)
(* one bit, which is enough for constants outside the byte range.             *)

P == INSTANCE PureFastSolver WITH ExtBits <- 1, InputBytes <- 2

\* A width or an index that refuses the query is met with the ends of the range.
PureInputs == {q \in P!Queries : (q.widthsAgree /\ q.index = 1) \/ q.c \in {0, 255}}
PureSolve == Compute("pure_solver", P!SolveTrivial)

\* The model found for a comparison of an unwidened input byte makes the
\* requested branch true, signed or not, mirrored or not, at every constant.
ByteModelsSatisfy == Done("pure_solver") => P!ModelHolds(input, result.of)

\* Unsat for such a comparison is a proof, the two relations aside whose
\* constant is converted: it is given only at the ends of the byte's range.
ByteUnsatIsProof == Done("pure_solver") => P!UnsatHolds(input, result.of)

\* backend.rs:46: Unsat means "Backend proved the constraints are
\* unsatisfiable".
UnsatIsProof == Done("pure_solver") /\ result.of = P!NoByte => \A b \in P!Byte : ~P!Satisfies(input, b)

-----------------------------------------------------------------------------
(* Expressions of two variables, and programs of six instructions that load    *)
(* from an input of four bytes of one bit (so 64-bit registers have 8).        *)

Sh == INSTANCE ShadowEmulator WITH ByteBits <- 1, NibbleBits <- 2, InputBase <- 0, InputLen <- 4

-----------------------------------------------------------------------------
Leaves == {Sh!Var(0, 2), Sh!Var(1, 2), Sh!Const(2, 2), Sh!Const(1, 1), Sh!Const(5, 2), Sh!Const(300, 9), Sh!Const(600, 10)}
Formed ==
    Leaves \cup {Sh!Bin(op, l, r) : op \in Sh!BvOps \cup {"concat"}, l \in Leaves, r \in Leaves}
           \cup {Sh!Extract(h, lo, e) : h \in 0..2, lo \in 0..1, e \in Leaves}
           \cup {Sh!Node(op, <<e>>, 7, 0) : op \in Sh!ExtOps, e \in Leaves}
           \cup {Sh!Node("ite", <<Sh!Bin("=", a, b), a, b>>, 0, 0) : a \in Leaves, b \in Leaves}
           \cup {Sh!Node("select", <<Sh!Var(3, w), a>>, 0, 0) : w \in {-1, -2}, a \in Leaves}
Atoms == {Sh!Bin(op, l, r) : op \in Sh!CmpOps \cup {"="}, l \in Formed, r \in {Sh!Var(1, 2), Sh!Const(600, 10), Sh!Const(300, 9)}}
ExprInputs ==
    Atoms \cup {Sh!Not(e) : e \in {x \in Atoms : x.op = "bvsle"}}
          \cup {Sh!Node(op, s, 0, 0) : op \in {"and", "or"}, s \in {<<>>} \cup {<<Sh!Bin("=", Sh!Var(0, 2), Sh!Const(v, 2)), Sh!Var(2, 0)>> : v \in 0..3}}
Assignments == [{0, 1, 2, -1} -> {0, 1}] \cup {[n \in {0, 1, 2, -1} |-> CASE n = 0 -> x [] n = 1 -> y [] n = 2 -> 1 [] OTHER -> 0] : x, y \in 0..3}

RECURSIVE Subterms(_)
Subterms(e) == {e} \cup UNION {Subterms(e.args[i]) : i \in DOMAIN e.args}

ExprStep == Compute("sym_expr", LAMBDA e : [valid |-> Sh!Validate(e), lowered |-> Sh!LowerBool(e), text |-> Sh!InlineText(e)])

\* An expression the DAG calls valid can be given to either solver, and both
\* are asked what it says, memory aside.  A constant wider than a word whose
\* width is no whole number of hexadecimal digits is ill-typed in the text.
SolversAskTheSame ==
    Done("sym_expr") /\ result.of.valid =>
        LET odd == \E e \in Subterms(input) : e.op = "const" /\ e.b > Sh!WordBits /\ e.b % 2 = 1
            loads == \E e \in Subterms(input) : e.op = "select"
            Same(e) == \A w \in Assignments : Sh!Meaning(e, w) = Sh!Meaning(input, w)
        IN  /\ result.of.lowered # Sh!Err
            /\ ~loads => Same(result.of.lowered)
            /\ ~loads /\ ~odd => Sh!Validate(result.of.text) /\ Same(result.of.text)

-----------------------------------------------------------------------------
QueryInputs ==
    {[path |-> p, target |-> t, taken |-> b, bytes |-> n] :
        p \in {<<>>} \cup {<<Sh!Bin(op, Sh!Var(0, 2), Sh!Const(1, 2))>> : op \in Sh!CmpOps}, b \in BOOLEAN, n \in 1..2,
        t \in {Sh!Bin(op, l, Sh!Const(2, 2)) : op \in Sh!CmpOps \cup {"="}, l \in {Sh!Var(0, 2), Sh!Bin("bvadd", Sh!Var(0, 2), Sh!Var(1, 2))}}}
QueryStep == Compute("smt2_query", LAMBDA q : Sh!EmitQuery(q))

\* The script is satisfied by exactly the inputs that follow the path and go the
\* wanted way, and declares every byte it reads when the query covers the input.
ScriptMeansQuery ==
    Done("smt2_query") =>
        LET q == input
            r == result.of
            read == UNION {Sh!VarsOf(r.asserts[i]) : i \in DOMAIN r.asserts}
        IN  /\ \A w \in Assignments :
                 (\A i \in DOMAIN r.asserts : Sh!Meaning(r.asserts[i], w) = 1)
                 <=> (\A i \in DOMAIN q.path : Sh!Meaning(q.path[i], w) = 1) /\ (Sh!Meaning(q.target, w) = 1 <=> q.taken)
            /\ q.bytes = 2 => read \subseteq r.declared

-----------------------------------------------------------------------------
Mnemonics == {"je", "jne", "ja", "jae", "jb", "jbe", "jg", "jge", "jl", "jle"}
\* What the processor does after a compare of l and r, of w bits.
Taken(mn, l, r, w) ==
    CASE mn = "je" -> l = r
      [] mn = "jne" -> l # r
      [] mn = "ja" -> l > r
      [] mn = "jae" -> l >= r
      [] mn = "jb" -> l < r
      [] mn = "jbe" -> l <= r
      [] mn = "jg" -> Sh!Signed(l, w) > Sh!Signed(r, w)
      [] mn = "jge" -> Sh!Signed(l, w) >= Sh!Signed(r, w)
      [] mn = "jl" -> Sh!Signed(l, w) < Sh!Signed(r, w)
      [] mn = "jle" -> Sh!Signed(l, w) <= Sh!Signed(r, w)

LiftInputs ==
    {[mn |-> m, left |-> l, lv |-> a, right |-> [k |-> "int", v |-> b], rv |-> -1] :
        m \in Mnemonics \cup {"jnc"}, l \in {[k |-> "name", v |-> 0], [k |-> "empty", v |-> 0]}, a \in -1..9, b \in 0..9}
LiftStep == Compute("lift_branch", LAMBDA p : Sh!LiftBranchPredicate(p, 3))

\* A recorded branch lifts to the condition under which the processor takes it:
\* on the value seen, or for every value when none was; a value beyond the
\* table's width makes a constant that is not valid.
LiftedBranchIsTaken ==
    Done("lift_branch") /\ result.of # Sh!Err =>
        LET p == input
        IN  IF p.lv > 7 \/ p.right.v > 7 THEN ~Sh!Validate(result.of)
            ELSE \A x \in 0..7 :
                   LET l == IF p.lv = -1 THEN x ELSE p.lv
                   IN  Sh!Meaning(result.of, [n \in {0} |-> x]) = Sh!Truth(Taken(p.mn, l, p.right.v, 3))

-----------------------------------------------------------------------------
(* Programs.                                                                 *)

Rg(n) == [k |-> "reg", name |-> n]
Nm(v) == [k |-> "int", v |-> v]
At4(bytes, disp) == [k |-> "mem", bytes |-> bytes, terms |-> <<[k |-> "reg", name |-> "rdi"], [k |-> "int", v |-> disp, sign |-> 1]>>]
Op2(mn, a, b) == [va |-> 0, mn |-> mn, ops |-> <<a, b>>]
Loads ==
    {Op2("mov", Rg("eax"), At4(4, 0)), Op2("movzx", Rg("eax"), At4(2, 1)), Op2("movsx", Rg("rax"), At4(2, 2)), Op2("movsx", Rg("eax"), At4(1, 3))}
Middles ==
    Loads \cup
    {Op2("mov", Rg("rbx"), Rg("rax")), Op2("mov", Rg("ebx"), Rg("eax")), Op2("mov", Rg("ebx"), Nm(6)), Op2("add", Rg("eax"), Nm(1)),
     Op2("add", Rg("ebx"), Nm(3)), Op2("sub", Rg("rax"), Rg("rbx")), Op2("imul", Rg("eax"), Rg("ebx")), Op2("and", Rg("eax"), Nm(6)),
     Op2("xor", Rg("ebx"), Rg("eax")), Op2("shl", Rg("eax"), Nm(1)), Op2("shr", Rg("eax"), Nm(1)), Op2("sar", Rg("eax"), Nm(2)),
     Op2("lea", Rg("rbx"), [k |-> "mem", bytes |-> 0, terms |-> <<[k |-> "reg", name |-> "rax"], [k |-> "int", v |-> 3, sign |-> -1]>>]),
     Op2("mov", At4(4, 4), Rg("eax")), Op2("mov", At4(2, 5), Rg("bx")), Op2("movzx", Rg("ebx"), At4(2, 5)), Op2("movsx", Rg("ebx"), Rg("ah")),
     Op2("cmp", Rg("eax"), Nm(2)), Op2("bswap", Rg("eax"), Nm(0))}
Compares ==
    {Op2("cmp", Rg("eax"), Nm(9)), Op2("cmp", Rg("al"), Rg("ah")), Op2("cmp", Rg("ebx"), Rg("eax")), Op2("test", Rg("rax"), Rg("rbx")),
     Op2("test", Rg("eax"), Nm(4)), Op2("cmp", Rg("bx"), Nm(3)), Op2("cmp", Rg("ebx"), At4(4, 4))}
Branches == {[va |-> 7, mn |-> m, ops |-> <<>>] : m \in {"ja", "jge"}}
ProgramInputs == {<<a, b, c, d, e>> : a \in {l \in Loads : l.mn # "movzx"}, b \in Middles, c \in Middles, d \in Compares, e \in Branches}

\* The processor: rdi is the input's address, other registers and the bytes
\* after the input start out unknown (-1).
Size(op) == IF op.k = "mem" THEN (IF op.bytes = 0 THEN 8 ELSE op.bytes) ELSE Sh!RegisterBytes[op.name]
Load(m, op, n) ==
    CASE op.k = "int" -> op.v % 2^n
      [] op.k = "reg" -> LET r == m.regs[Sh!CanonicalReg(op.name)]
                         IN  IF r = -1 THEN -1 ELSE IF op.name = "ah" THEN (r \div 2) % 2 ELSE r % 2^n
      [] op.k = "mem" -> LET at == op.terms[2].v
                         IN  IF \E i \in 0..(n - 1) : m.mem[at + i] = -1 THEN -1
                             ELSE FoldFunction(+, 0, [i \in 0..(n - 1) |-> m.mem[at + i] * 2^i])
Save(m, op, v, n) ==
    IF op.k = "reg" THEN [m EXCEPT !.regs[Sh!CanonicalReg(op.name)] = v]
    ELSE [m EXCEPT !.mem = [a \in DOMAIN @ |-> IF a \in op.terms[2].v..(op.terms[2].v + n - 1)
                                               THEN (IF v = -1 THEN -1 ELSE (v \div 2^(a - op.terms[2].v)) % 2) ELSE @[a]]]
Cpu(m, ins) ==
    LET dst == ins.ops[1]
        src == ins.ops[2]
        n == Size(dst)
        sw == IF src.k = "int" THEN n ELSE IF ins.mn \in {"movzx", "movsx", "cmp"} THEN Min({Size(src), 8}) ELSE n
        cw == IF src.k = "int" THEN n ELSE Min({n, Size(src)})
        l == Load(m, dst, n)
        r == Load(m, src, sw)
        Known2(v) == IF l = -1 \/ r = -1 THEN -1 ELSE v
    IN  CASE ins.mn = "mov" -> Save(m, dst, Load(m, src, n), n)
          [] ins.mn = "movzx" -> Save(m, dst, r, n)
          [] ins.mn = "movsx" -> Save(m, dst, IF r = -1 THEN -1 ELSE Sh!Signed(r, sw) % 2^n, n)
          [] ins.mn \in {"add", "sub", "imul", "and", "xor"} -> Save(m, dst, Known2(Sh!BvMeaning(Sh!Binop(ins.mn), l, r, n)), n)
          [] ins.mn \in {"shl", "shr", "sar"} -> Save(m, dst, Known2(Sh!BvMeaning(Sh!ShiftOp(ins.mn), l, r, n)), n)
          [] ins.mn = "lea" -> Save(m, dst, IF m.regs["rax"] = -1 THEN -1 ELSE (m.regs["rax"] - 3) % 256, 8)
          [] ins.mn = "cmp" -> [m EXCEPT !.l = Load(m, dst, cw), !.r = Load(m, src, cw), !.w = cw]
          [] ins.mn = "test" -> [m EXCEPT !.l = Known2(Sh!BvMeaning("bvand", l, r, n)), !.r = 0, !.w = n]
          [] OTHER -> Save(m, dst, -1, n)
Processor(code, in) ==
    FoldLeft(Cpu, [regs |-> [r \in {"rax", "rbx", "rdi"} |-> IF r = "rdi" THEN 0 ELSE -1],
                   mem |-> [a \in 0..8 |-> IF a < 4 THEN in[a] ELSE -1], l |-> -1, r |-> -1, w |-> 1], SubSeq(code, 1, 4))

ProgramStep == Compute("shadow", LAMBDA code : Sh!Run(code))

\* Wherever the input decides the operands of a compare, the branch after it
\* makes an event whose predicate is true of exactly the inputs that take it.
PredicateFollowsProcessor ==
    Done("shadow") =>
        \A w \in [0..3 -> 0..1] :
            LET m == Processor(input, w)
            IN  m.l # -1 /\ m.r # -1 =>
                  /\ Len(result.of.events) = 1
                  /\ Sh!Meaning(result.of.events[1].predicate, w) = Sh!Truth(Taken(input[5].mn, m.l, m.r, m.w))

\* A branch after a compare of a register nothing was loaded into makes no
\* event, whatever was compared before it.
UnknownCompareIsSilent ==
    (/\ Done("shadow")
     /\ input[4].ops[1].k = "reg" /\ Sh!CanonicalReg(input[4].ops[1].name) = "rbx"
     /\ input[4].ops[2].k = "int"
     /\ \A i \in 1..3 : input[i].ops[1].k = "mem" \/ Sh!CanonicalReg(input[i].ops[1].name) # "rbx")
    => result.of.events = <<>>

\* Every predicate is a valid Boolean expression.
PredicatesAreWellTyped ==
    Done("shadow") => \A i \in DOMAIN result.of.events :
        LET p == result.of.events[i].predicate IN Sh!Validate(p) /\ Sh!SortOf(p) = Sh!BoolSort

-----------------------------------------------------------------------------
(* Programs of four instructions over one register, a stack slot and a   *)
(* set of branch targets that includes loops, the middle of the function and  *)
(* both sides of it.                                                          *)

Po == INSTANCE Portable WITH Width <- 3, MaxUnsupported <- 2, MaxIterations <- 2,
        MaxCandidates <- 2, MaxFuzzed <- 2, MaxSections <- 1, MaxLines <- 2

R == [kind |-> "reg", name |-> "r", v |-> 0]
A == [kind |-> "reg", name |-> "rax", v |-> 0]
Imm(v) == [kind |-> "imm", name |-> "", v |-> v]
Ins(op, dst, src, cond, target) == [op |-> op, dst |-> dst, src |-> src, cond |-> cond, target |-> target, returns |-> 1]
Bodies ==
    {Ins("dec", R, R, "", -1), Ins("cmp", R, Imm(2), "", -1), Ins("cmp", R, A, "", -1), Ins("call", R, R, "", -1),
     Ins("ret", R, R, "", -1), Ins("cpuid", R, R, "", -1), Ins("jmp", R, R, "", 1), Ins("jcc", R, R, "ne", 1),
     Ins("jcc", R, R, "b", 3), Ins("jcc", R, R, "a", 5), Ins("jcc", R, R, "l", 0)}
Stored ==
    {Ins("mov", [kind |-> k, name |-> "", v |-> 1], R, "", -1) : k \in {"stack", "mem"}}
    \cup {Ins("mov", R, [kind |-> "stack", name |-> "", v |-> 1], "", -1), Ins("sub", R, Imm(1), "", -1),
          Ins("test", R, R, "", -1), Ins("cmov", R, Imm(7), "e", -1), Ins("set", R, R, "a", -1),
          Ins("lea", R, [kind |-> "image", name |-> "", v |-> 3], "", -1)}
EmuFn == [start |-> 1, end |-> 5]
Registers == {Po!EmptyMap, [n \in {"r"} |-> 2], [n \in {"r", "rax"} |-> IF n = "r" THEN 6 ELSE 2]}

EmulatorInputs ==
    {[code |-> <<a, b, c, d>>, regs |-> r] :
        a \in Bodies, b \in Bodies, c \in Bodies, d \in {x \in Bodies : x.op = "ret" \/ x.target = 1}, r \in Registers}
    \cup {[code |-> <<a, b, c, d>>, regs |-> [n \in {"r"} |-> 2]] :
             a \in Stored, b \in Stored, c \in Bodies, d \in {x \in Bodies : x.op \in {"jmp", "jcc", "ret"}}}

Prog(x) == [a \in 1..4 |-> x.code[a] @@ [address |-> a]]
Emulate(x) ==
    LET run == Po!EmulateFunction(Prog(x), EmuFn, x.regs, 40)
        zero == [n \in {"r"} |-> 0]
    IN  [run |-> run, paths |-> Po!BuildSymbolicPaths(run, 40),
         fuzz |-> Po!RunNativeFuzz(Prog(x), EmuFn, "execute", 2, <<zero, x.regs>>, zero, 40, "return")]
EmulatorStep == Compute("native_emulator", Emulate)

\* The loop guard alone ends every emulation, long before the budget: each branch
\* edge is walked once, so a run is at most the program once more for each edge.
\* A run that is said to loop has walked its last edge before.
EmulationEnds ==
    Done("native_emulator") /\ result.of.run.ran =>
        LET end == result.of.run.end
            branches == Cardinality({a \in 1..4 : input.code[a].op \in {"jmp", "jcc"}})
        IN  /\ ~result.of.run.cap_hit
            /\ end.steps <= 4 * (1 + 2 * branches)
            /\ end.exit = "loop_guard" =>
                 \E k \in 1..(Len(end.path) - 1) : end.path[k] = end.path[Len(end.path)]

\* The operands of the last compare are those of the flags: a cmp was executed, and
\* since then nothing that sets flags, whatever moves, calls and branches there were.
SetsFlags == {"cmp", "test", "xor", "and", "or", "add", "sub", "shl", "shr", "sar", "rol", "ror", "inc", "dec", "neg", "not"}
FlagsAreOfCompare(path, k) ==
    LET op(j) == input.code[path[j]].op
    IN  \E j \in 1..(k - 1) : op(j) = "cmp" /\ \A later \in (j + 1)..(k - 1) : op(later) \notin SetsFlags

\* Branches with a condition whose last comparison had both values.
KnownBranches ==
    LET end == result.of.run.end
        branchAt == SelectSeq([k \in DOMAIN end.path |-> k], LAMBDA k : input.code[end.path[k]].op \in {"jmp", "jcc"})
    IN  {[of |-> end.predicates[i], sat |-> result.of.paths[i].sat, at |-> branchAt[i]] :
            i \in {j \in DOMAIN result.of.paths : end.predicates[j].op = "jcc" /\ end.predicates[j].l # -1
                                                   /\ end.predicates[j].r # -1}}

\* The branch the emulator takes is the one the solver calls satisfiable, when the
\* operands the solver is given are those the flags are of and the condition is
\* unsigned; and a model that gives a missing operand satisfies the relation.
\* (Signed conditions, test, flags of arithmetic, and an increment that wraps are
\* read differently by the two.)
SolverAgreesWithEmulator ==
    Done("native_emulator") /\ result.of.run.ran =>
        /\ \A b \in KnownBranches :
              FlagsAreOfCompare(result.of.run.end.path, b.at) /\ b.of.cond \in {"ne", "b", "a"} =>
                  (b.of.taken <=> b.sat = "satisfiable")
        /\ \A i \in DOMAIN result.of.paths :
              LET p == result.of.run.end.predicates[i]
                  q == result.of.paths[i]
              IN  q.sat = "satisfiable" /\ (p.l = -1 \/ p.r = -1) /\ {p.l, p.r} \subseteq -1..6 =>
                        Po!RelationHolds(Po!RelationForBranch(p.cond), q.l, q.r)

\* What would make the two agree on every unsigned branch, and the code does not:
\* an instruction that sets flags makes the solver forget the operands of the
\* compare before it (native_emulator.rs:207 keeps them).
StaleOperandsAreForgotten ==
    Done("native_emulator") /\ result.of.run.ran =>
        \A b \in KnownBranches : b.of.cond \in {"ne", "b", "a"} => (b.of.taken <=> b.sat = "satisfiable")

\* An iteration that repeats the all-zero run is not said to diverge from it,
\* whatever the first function did.
BaselineDoesNotDiverge ==
    Done("native_emulator") => result.of.fuzz[1].exit # "divergent"

-----------------------------------------------------------------------------
(* Two functions, flows and calls that share call sites, more candidates than  *)
(* are fuzzed, a disk that may refuse the artifacts.                           *)

Sec(name, dense, rwx) == [name |-> name, dense |-> dense, writable |-> rwx, executable |-> rwx]
FlowRow(site, bad, cited) == [callsite |-> site, dangerous |-> bad, evidence |-> IF cited THEN {site} ELSE {}]
Xref(from, role) == [from |-> from, role |-> role, dangerous |-> TRUE]
PortableBase ==
    [profile |-> "native-max", functions |-> <<[start |-> 1, end |-> 4], [start |-> 4, end |-> 6]>>,
     sections |-> <<Sec(".a", FALSE, FALSE), Sec(".b", TRUE, FALSE), Sec(".c", FALSE, TRUE)>>, overlay |-> 0, writable |-> TRUE,
     firmware |-> "none", kernel |-> {}, api_flows |-> <<>>, xrefs |-> <<>>, fuzz_mode |-> "execute", iterations |-> 2,
     emulation |-> "ran", predicates |-> 0, unsupported |-> FALSE, traces |-> <<[readable |-> TRUE, lines |-> <<"blank", "in_function", "garbled", "api">>]>>]
Flows == {<<>>} \cup {<<FlowRow(s, d, c)>> : s \in {2, 9}, d \in BOOLEAN, c \in BOOLEAN}
         \cup {<<FlowRow(2, TRUE, c), FlowRow(5, TRUE, TRUE), FlowRow(3, TRUE, TRUE)>> : c \in BOOLEAN}
Xrefs == UNION {[1..n -> {Xref(f, r) : f \in {2, 5, 9}, r \in {"call", "data"}}] : n \in 0..2}

PortableInputs ==
    {[PortableBase EXCEPT !.api_flows = f, !.xrefs = x, !.fuzz_mode = m, !.profile = p, !.iterations = n] :
        f \in Flows, x \in Xrefs, m \in {"execute", "dry-run", "off"}, p \in {"native-max", "portable-max"}, n \in {0, 2}}
    \cup {[PortableBase EXCEPT !.overlay = o, !.writable = w, !.firmware = fw, !.kernel = k, !.emulation = e, !.predicates = q, !.unsupported = (q = 1),
                               !.functions = fs] :
            o \in {0, 4}, w \in BOOLEAN, fw \in {"none", "te_image"}, k \in SUBSET {"driver_extension", "kernel_imports", "ioctl_surface"},
            e \in {"ran", "capped", "none"}, q \in {0, 1}, fs \in {<<>>, PortableBase.functions}}

PortableStep == Compute("portable", Po!BuildPortableCapabilities)

\* Every capability whose row says that it did not run is told to the reader as an
\* uncertainty, and no two uncertainties share an id. Of a dry run the row of the
\* fuzzing says that it ran (PlannedIsNotExecuted), so that it is no gap here.
GapsAreReported ==
    Done("portable") =>
        LET out == result.of
            told == {out.uncertainties[i].about : i \in DOMAIN out.uncertainties}
        IN  /\ \A i \in DOMAIN out.matrix : ~out.matrix[i].ran => out.matrix[i].capability \in told
            /\ input.emulation = "capped" => "bounded_offline_emulation" \in told
            /\ Cardinality({out.uncertainties[i].id : i \in DOMAIN out.uncertainties}) = Len(out.uncertainties)

\* What the text of the row claims ("drove the bounded native emulator",
\* portable.rs:499), and the code refutes: fuzzing is reported as run only when an
\* iteration was executed. The rows a dry run plans count too (portable.rs:270).
PlannedIsNotExecuted ==
    Done("portable") =>
        \A i \in DOMAIN result.of.matrix :
            result.of.matrix[i].capability = "vuln_fuzz_prep" /\ result.of.matrix[i].ran =>
                \E k \in DOMAIN result.of.fuzz : result.of.fuzz[k].status = "executed"

\* A dangerous call that both the flows and the xrefs found is one candidate, and
\* every fuzz run is of a candidate in a function, with a harness of its own; each
\* such candidate has all its iterations.
CandidatesAreOnce ==
    Done("portable") =>
        LET out == result.of
            cands == out.candidates
            runsOf(c) == {out.fuzz[k].iteration : k \in {j \in DOMAIN out.fuzz : out.fuzz[j].candidate = c.id}}
        IN  /\ \A i, j \in DOMAIN cands : i # j => cands[i].id # cands[j].id /\ (cands[j].id[1] = "xref" /\ cands[i].site = cands[j].site => FALSE)
            /\ \A k \in DOMAIN out.fuzz :
                 /\ \E h \in DOMAIN out.harnesses : out.harnesses[h].candidate = out.fuzz[k].candidate
                 /\ \E i \in DOMAIN cands : cands[i].id = out.fuzz[k].candidate
                                            /\ Po!FunctionFor(input.functions, cands[i].site) # 0
            /\ \A i \in DOMAIN cands : runsOf(cands[i]) \in {{}, 0..(Max({input.iterations, 1}) - 1)}

-----------------------------------------------------------------------------
(* Buffers of up to four one-bit bytes, with and without a dictionary and a    *)
(* splice pool.  The mutations are also closed over all inputs up to the       *)
(* longest.                                                                    *)

Mu == INSTANCE FuzzInputs WITH MaxDist <- 5, MaxBonus <- 4, ByteSize <- 2, MaxStack <- 2, MaxRun <- 2, MaxDelta <- 1, ValueWidth <- 2,
        BoundaryTable <- <<0, 1, 3>>, Panic <- <<-1>>

MutateInputs ==
    {[buf |-> b, dict |-> d, pool |-> p, max_len |-> m] :
        b \in BoundedSeq(0..1, 4), d \in {<<>>, <<<<1>>, <<0, 1, 1>>>>}, p \in {<<>>, <<<<>>, <<1, 0>>>>}, m \in {3}}
MutateStep == Compute("mutate", LAMBDA x : Mu!ApplyRandomMutation(x.buf, x.dict, x.pool, x.max_len))

\* No choice of positions and lengths reads or writes outside the buffer, from
\* the empty input to the longest, and no result is longer than allowed.
MutationsStayInside ==
    Done("mutate") => \A r \in result.of : r.out # <<-1>> /\ Len(r.out) <= input.max_len

\* The mutator reported is the one that made the result: a splice is a proper
\* prefix of the input and the end of a pool entry, a dictionary mutation
\* carries a token, a boundary value keeps the length, and nothing else than
\* havoc is reported when there is neither a pool nor a dictionary.
LabelIsTrue ==
    Done("mutate") =>
        \A r \in result.of :
            CASE r.label = "splice" ->
                    \E i \in DOMAIN input.pool : \E a \in 0..Len(input.buf), b \in 1..Len(input.pool[i]) :
                        r.out = Mu!Truncate(SubSeq(input.buf, 1, a) \o SubSeq(input.pool[i], b, Len(input.pool[i])), input.max_len)
              [] r.label = "dict" ->
                    \E i \in DOMAIN input.dict : \E a \in 0..Len(input.buf), b \in 0..Len(input.buf) :
                        r.out = Mu!Truncate(SubSeq(input.buf, 1, a) \o input.dict[i] \o SubSeq(input.buf, b + 1, Len(input.buf)), input.max_len)
              [] r.label = "boundary_value" -> Len(r.out) = Len(Mu!Truncate(input.buf, input.max_len))
              [] OTHER -> r.label = "havoc"

-----------------------------------------------------------------------------
ReachInputs == {[seed |-> b, max_len |-> m] : b \in BoundedSeq(0..1, 3), m \in 1..3}
ReachStep ==
    Compute("mutate_reach", LAMBDA x :
        LET Grow(bufs) == bufs \cup UNION {{r.out : r \in Mu!ApplyRandomMutation(b, <<>>, <<>>, x.max_len)} : b \in bufs}
            Reached[n \in 0..3] == IF n = 0 THEN {x.seed} ELSE Grow(Reached[n - 1])
        IN  Reached[3])

\* From every seed, three mutations can lead to every input up to the longest:
\* no input is out of the fuzz loop's reach because of the seed it started
\* from.  The model of the fuzz session rests on this.
EveryInputIsReachable ==
    Done("mutate_reach") => BoundedSeq(0..1, input.max_len) \subseteq result.of

-----------------------------------------------------------------------------
(* Call graphs of up to five calls over four functions with two targets, and  *)
(* up to three facts about two addresses in every order.                      *)

FtFns == 1..4
FtCall(c) == [caller |-> c[1], callee |-> c[2], kind |-> c[3], confidence |-> c[4]]
\* A tail call weighs 3, a call of high confidence 1; -1: the callee is unknown.
FtKinds == {<<"tail", "low">>, <<"direct", "high">>}
FtBase == {<<2, 1>>, <<3, 2>>, <<4, 3>>, <<3, 1>>, <<1, 4>>, <<2, 4>>, <<3, -1>>}
DistanceInputs ==
    {[calls |-> [i \in DOMAIN s |-> FtCall(s[i])], targets |-> t, reached |-> r] :
        s \in UNION {{[i \in DOMAIN e |-> e[i] \o k[e[i]]] : k \in [Range(e) -> FtKinds]} :
                        e \in {SetToSeq(S) : S \in kSubset(4, FtBase)} \cup {Reverse(SetToSeq(S)) : S \in kSubset(4, FtBase)}},
        t \in {<<1, 4>>, <<4, 1>>, <<1>>}, r \in {<<2, 3>>, <<3, 2>>, <<4>>}}
FtResult(in) ==
    LET graph == Mu!BuildReachability(in.calls, [i \in DOMAIN in.targets |-> [va |-> in.targets[i]]])
    IN  [graph |-> graph, obs |-> Mu!Observe(graph, in.reached), bonus |-> Mu!BonusFor(graph, in.reached)]
ReachTargetsStep == Compute("reach", FtResult)

\* The weights of the simple paths of calls from a function to another.
FtPathWeights(calls, from, to) ==
    LET paths == {p \in UNION {[1..n -> DOMAIN calls] : n \in 0..3} :
                    /\ \A i \in 1..(Len(p) - 1) : calls[p[i]].callee = calls[p[i + 1]].caller
                    /\ IF p = <<>> THEN from = to ELSE calls[p[1]].caller = from /\ calls[p[Len(p)]].callee = to}
    IN  {MapThenSumSet(LAMBDA i : IF calls[p[i]].kind = "tail" THEN 3 ELSE 1, DOMAIN p) : p \in paths}

\* Every function is at the distance of the lightest chain of calls from it to
\* the target, and one that no chain within the limit joins has no distance,
\* in whatever order the calls are recorded.
DistancesAreShortest ==
    Done("reach") =>
        \A t \in DOMAIN result.of.graph.distances, fn \in FtFns :
            LET w == {x \in FtPathWeights(input.calls, fn, t) : x <= 5}
            IN  Mu!Distance(result.of.graph, fn, t) = IF w = {} THEN -1 ELSE Min(w)

\* What a run reports as its nearest target and the bonus its input is given
\* speak of one distance, whatever the order of the reached functions and of
\* the targets, and the reported target is at that distance from one of them.
BonusMatchesReport ==
    Done("reach") =>
        LET obs == result.of.obs
            all == {Mu!Distance(result.of.graph, fn, t) : fn \in Range(input.reached), t \in Range(input.targets)} \ {-1}
        IN  /\ obs.distance = IF all = {} THEN -1 ELSE Min(all)
            /\ result.of.bonus = IF all = {} \/ Min(all) >= 4 THEN 0 ELSE 4 - obs.distance
            /\ all # {} => \E fn \in Range(input.reached) : Mu!Distance(result.of.graph, fn, obs.closest) = obs.distance

(* Facts: what kind of fact, about which address, how strong. *)
FtFacts == {"vuln"} \X {7, 9} \X {"high", "medium", "low"} \cup {"catch"} \X {7} \X {"typed", "typed_named", "ellipsis", "cleanup"}
           \cup {"class"} \X {7, 9} \X {"", "C"} \cup {"user"} \X {7} \X {"", "f"}
FtOf(seq, kind) == SelectSeq(seq, LAMBDA f : f[1] = kind)
FtGiven(seq) ==
    LET v == FtOf(seq, "vuln") h == FtOf(seq, "catch") c == FtOf(seq, "class") u == FtOf(seq, "user")
    IN  [vulns |-> [i \in DOMAIN v |-> [function |-> IF i = 1 THEN v[i][2] ELSE -1, site |-> v[i][2], confidence |-> v[i][3], evidence |-> <<v[i][2] * 10>>]],
         handlers |-> [i \in DOMAIN h |-> [va |-> h[i][2], catch |-> h[i][3], descriptor |-> 99]],
         classes |-> [i \in DOMAIN c |-> [destructors |-> <<c[i][2], 5>>, name |-> c[i][3]]],
         users |-> [i \in DOMAIN u |-> [va |-> u[i][2], name |-> u[i][3]]]]
TargetInputs == UNION {[1..n -> FtFacts] : n \in 1..3}
TargetsStep == Compute("targets", LAMBDA seq : Mu!DeriveTargets(FtGiven(seq)))

FtStrength(f) ==
    CASE f[1] = "vuln" -> IF f[3] = "high" THEN 95 ELSE IF f[3] = "medium" THEN 80 ELSE 60
      [] f[1] = "catch" -> IF f[3] = "typed_named" THEN 75 ELSE IF f[3] = "typed" THEN 65 ELSE IF f[3] = "ellipsis" THEN 55 ELSE 50
      [] f[1] = "class" -> 65
      [] OTHER -> 100
FtKindOf == [vuln |-> "vuln_candidate", catch |-> "catch_handler", class |-> "destructor", user |-> "user_defined"]
\* However the facts come, a function is a target of a kind once, with the
\* priority of the strongest fact and a name if any fact gives one.
TargetsKeepTheStrongest ==
    Done("targets") =>
        \A k \in DOMAIN FtKindOf, va \in {7, 9} :
            LET facts == {f \in Range(input) : f[1] = k /\ f[2] = va}
                rows == {i \in DOMAIN result.of : result.of[i].kind = FtKindOf[k] /\ result.of[i].va = va}
            IN  /\ Cardinality(rows) = IF facts = {} THEN 0 ELSE 1
                /\ \A i \in rows :
                     /\ result.of[i].priority = Max({FtStrength(f) : f \in facts})
                     /\ k \in {"class", "user"} => (result.of[i].name = "" <=> \A f \in facts : f[3] = "")
                     /\ k = "vuln" => Len(result.of[i].evidence) = Cardinality({j \in DOMAIN input : input[j][1] = k /\ input[j][2] = va})

-----------------------------------------------------------------------------
\* Everyone who reads a branch reads it as the processor does: the shadow
\* emulator, the lifting of recorded branches, the solver in process, the script
\* for the solver outside, and the fast solver of tier 1.
SolversAgree ==
    /\ PredicateFollowsProcessor /\ UnknownCompareIsSilent /\ PredicatesAreWellTyped
    /\ LiftedBranchIsTaken /\ SolversAskTheSame /\ ScriptMeansQuery
    /\ ByteModelsSatisfy /\ ByteUnsatIsProof

\* The portable profile claims what it has done: emulation ends and goes where
\* its solver aimed, and the matrix reports what is missing.
PortableClaimsHold ==
    /\ EmulationEnds /\ SolverAgreesWithEmulator /\ BaselineDoesNotDiverge
    /\ GapsAreReported /\ CandidatesAreOnce

\* The fuzz loop can get to every input, knows how it got there, and measures the
\* way to its targets right.
FuzzInputsReachTargets ==
    /\ MutationsStayInside /\ LabelIsTrue /\ EveryInputIsReachable
    /\ DistancesAreShortest /\ BonusMatchesReport /\ TargetsKeepTheStrongest
=============================================================================
