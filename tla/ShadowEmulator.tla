-------------------------- MODULE ShadowEmulator --------------------------
(* Concolic execution: expressions over the input bytes, what solvers are asked*)
(* about them, and the emulator that builds them.                            *)
EXTENDS Integers, Sequences, FiniteSets, FiniteSetsExt, SequencesExt

-----------------------------------------------------------------------------
(***************************************************************************)
(* Symbolic expressions (concolic/expr.rs), their lowering to the solver   *)
(* in process (concolic/lowering.rs), the query sent to the solver outside *)
(* (concolic/smt2_emit.rs) and the lifting of recorded branches            *)
(* (concolic/predicate.rs).                                                *)
(*                                                                         *)
(* The DAG interns: one node for equal expressions.  A node is therefore   *)
(* the expression itself, [op, args, a, b]: a and b are the name and width *)
(* of a variable, the value and width of a constant, hi and lo of an       *)
(* extract, the extra bits of an extension.                                *)
(***************************************************************************)

CONSTANTS
    ByteBits,       \* 8, scaled down; every width scales with it
    NibbleBits      \* 4, scaled down: bits of a hexadecimal digit

WordBits == 8 * ByteBits        \* REG_BITS, and the widest u64 constant
MaxBits == 2 * WordBits         \* u128

Node(op, args, a, b) == [op |-> op, args |-> args, a |-> a, b |-> b]
Var(name, bits) == Node("var", <<>>, name, bits)
Const(v, bits) == Node("const", <<>>, v, bits)
Bin(op, l, r) == Node(op, <<l, r>>, 0, 0)
Not(e) == Node("not", <<e>>, 0, 0)
Extract(hi, lo, e) == Node("extract", <<e>>, hi, lo)
None == Node("none", <<>>, 0, 0)

BvOps == {"bvadd", "bvsub", "bvmul", "bvand", "bvor", "bvxor", "bvshl", "bvlshr", "bvashr"}
CmpOps == {"bvult", "bvule", "bvslt", "bvsle"}
ExtOps == {"zero_extend", "sign_extend"}

-----------------------------------------------------------------------------
(* Sorts.  A variable of no bits is Boolean; of negative bits, an array of    *)
(* values of that many bits.                                                 *)

BoolSort == [k |-> "bool", w |-> 0]
Bv(w) == [k |-> "bv", w |-> w]

RECURSIVE SortOf(_)
SortOf(e) ==
    CASE e.op = "var" -> IF e.b = 0 THEN BoolSort ELSE IF e.b > 0 THEN Bv(e.b) ELSE [k |-> "array", w |-> -e.b]
      [] e.op = "const" -> Bv(e.b)
      [] e.op \in {"bool", "not", "and", "or", "="} \cup CmpOps -> BoolSort
      [] e.op \in BvOps \cup {"store"} -> SortOf(e.args[1])
      [] e.op = "extract" -> Bv(e.a - e.b + 1)
      [] e.op = "concat" -> Bv(SortOf(e.args[1]).w + SortOf(e.args[2]).w)
      [] e.op \in ExtOps -> Bv(SortOf(e.args[1]).w + e.a)
      [] e.op = "ite" -> SortOf(e.args[2])
      [] e.op = "select" -> Bv(ByteBits)

IsBv(e) == SortOf(e).k = "bv"

\* validate_node, each form's own check, its operands having passed theirs.
ConstFits(e) == e.b > 0 /\ e.b <= MaxBits /\ e.a < 2^e.b
ConnectiveFits(e) == \A i \in DOMAIN e.args : SortOf(e.args[i]) = BoolSort
EqFits(e) == SortOf(e.args[1]) = SortOf(e.args[2])
SameWidth(e) == IsBv(e.args[1]) /\ IsBv(e.args[2]) /\ SortOf(e.args[1]).w = SortOf(e.args[2]).w
ExtractFits(e) == IsBv(e.args[1]) /\ e.a >= e.b /\ e.a < SortOf(e.args[1]).w
BitsOnly(e) == \A i \in DOMAIN e.args : IsBv(e.args[i])
IteFits(e) == SortOf(e.args[1]) = BoolSort /\ SortOf(e.args[2]) = SortOf(e.args[3])
MemoryFits(e) ==
    /\ SortOf(e.args[1]) = [k |-> "array", w |-> ByteBits]
    /\ e.op = "store" => SortOf(e.args[3]) = Bv(ByteBits)

OwnCheck(e) ==
    CASE e.op = "const" -> ConstFits(e)
      [] e.op \in {"not", "and", "or"} -> ConnectiveFits(e)
      [] e.op = "=" -> EqFits(e)
      [] e.op \in BvOps \cup CmpOps -> SameWidth(e)
      [] e.op = "extract" -> ExtractFits(e)
      [] e.op \in ExtOps \cup {"concat"} -> BitsOnly(e)
      [] e.op = "ite" -> IteFits(e)
      [] e.op \in {"select", "store"} -> MemoryFits(e)
      [] OTHER -> TRUE

RECURSIVE Validate(_)
Validate(e) == (\A i \in DOMAIN e.args : Validate(e.args[i])) /\ OwnCheck(e)

-----------------------------------------------------------------------------
(* What an expression means to a solver: input bytes are variables.          *)

Signed(v, w) == IF v >= 2^(w - 1) THEN v - 2^w ELSE v
Bit(v, i) == (v \div 2^i) % 2
Bits(w, F(_)) == FoldFunction(+, 0, [i \in 0..(w - 1) |-> F(i) * 2^i])

BvMeaning(op, l, r, w) ==
    CASE op = "bvadd" -> (l + r) % 2^w
      [] op = "bvsub" -> (l - r) % 2^w
      [] op = "bvmul" -> (l * r) % 2^w
      [] op = "bvand" -> Bits(w, LAMBDA i : Bit(l, i) * Bit(r, i))
      [] op = "bvor" -> Bits(w, LAMBDA i : Max({Bit(l, i), Bit(r, i)}))
      [] op = "bvxor" -> Bits(w, LAMBDA i : (Bit(l, i) + Bit(r, i)) % 2)
      [] op = "bvshl" -> IF r >= w THEN 0 ELSE (l * 2^r) % 2^w
      [] op = "bvlshr" -> IF r >= w THEN 0 ELSE l \div 2^r
      [] op = "bvashr" -> (Signed(l, w) \div 2^Min({r, w})) % 2^w

Truth(b) == IF b THEN 1 ELSE 0

\* The value of e where variable n is input[n]; Booleans are 0 and 1.
RECURSIVE Meaning(_, _)
Meaning(e, input) ==
    LET M(i) == Meaning(e.args[i], input)
        W(i) == SortOf(e.args[i]).w
    IN  CASE e.op = "var" -> input[e.a]
          [] e.op \in {"const", "bool"} -> e.a
          [] e.op = "not" -> 1 - M(1)
          [] e.op = "and" -> Truth(\A i \in DOMAIN e.args : M(i) = 1)
          [] e.op = "or" -> Truth(\E i \in DOMAIN e.args : M(i) = 1)
          [] e.op = "=" -> Truth(M(1) = M(2))
          [] e.op = "bvult" -> Truth(M(1) < M(2))
          [] e.op = "bvule" -> Truth(M(1) <= M(2))
          [] e.op = "bvslt" -> Truth(Signed(M(1), W(1)) < Signed(M(2), W(2)))
          [] e.op = "bvsle" -> Truth(Signed(M(1), W(1)) <= Signed(M(2), W(2)))
          [] e.op \in BvOps -> BvMeaning(e.op, M(1), M(2), W(1))
          [] e.op = "extract" -> (M(1) \div 2^e.b) % 2^(e.a - e.b + 1)
          [] e.op = "concat" -> M(1) * 2^W(2) + M(2)
          [] e.op = "zero_extend" -> M(1)
          [] e.op = "sign_extend" -> Signed(M(1), W(1)) % 2^(W(1) + e.a)
          [] e.op = "ite" -> IF M(1) = 1 THEN M(2) ELSE M(3)

-----------------------------------------------------------------------------
(* lower_bool and lower_bv: the expression built with the solver, or Err when *)
(* some part of it has no rule.  A load is a fresh variable (name -1), which  *)
(* forgets the memory it reads.                                              *)

Err == Node("err", <<>>, 0, 0)
Lowered(e, parts) == IF \E i \in DOMAIN parts : parts[i] = Err THEN Err ELSE [e EXCEPT !.args = parts]

\* A constant wider than a word is built from two.
LowerConst(e) ==
    IF e.b <= WordBits THEN Const(e.a % 2^e.b, e.b)
    ELSE Bin("concat", Const((e.a \div 2^WordBits) % 2^(e.b - WordBits), e.b - WordBits), Const(e.a % 2^WordBits, WordBits))

RECURSIVE LowerBool(_), LowerBv(_)
LowerDynamic(e) ==
    CASE SortOf(e).k = "bool" -> LowerBool(e)
      [] SortOf(e).k = "bv" -> LowerBv(e)
      [] OTHER -> Err
CheckWidths(e) == IF e # Err /\ SortOf(e.args[1]).w # SortOf(e.args[2]).w THEN Err ELSE e

LowerBool(e) ==
    CASE e.op = "bool" \/ (e.op = "var" /\ e.b = 0) -> e
      [] e.op \in {"not", "and", "or"} -> Lowered(e, [i \in DOMAIN e.args |-> LowerBool(e.args[i])])
      [] e.op = "=" -> Lowered(e, [i \in 1..2 |-> LowerDynamic(e.args[i])])
      [] e.op \in CmpOps -> CheckWidths(Lowered(e, [i \in 1..2 |-> LowerBv(e.args[i])]))
      [] OTHER -> Err
LowerBv(e) ==
    CASE e.op = "const" -> LowerConst(e)
      [] e.op = "var" /\ e.b > 0 -> e
      [] e.op \in BvOps -> CheckWidths(Lowered(e, [i \in 1..2 |-> LowerBv(e.args[i])]))
      [] e.op \in ExtOps \cup {"concat", "extract"} -> Lowered(e, [i \in DOMAIN e.args |-> LowerBv(e.args[i])])
      [] e.op = "ite" -> Lowered(e, <<LowerBool(e.args[1]), LowerBv(e.args[2]), LowerBv(e.args[3])>>)
      [] e.op = "select" -> Var(-1, ByteBits)
      [] OTHER -> Err

-----------------------------------------------------------------------------
(* The text sent to the solver outside, as the expression it is read back as. *)

\* A constant wider than a word is written in hexadecimal, whose width is that
\* of its digits.
ConstText(e) ==
    IF e.b <= WordBits THEN e ELSE Const(e.a, NibbleBits * ((e.b + NibbleBits - 1) \div NibbleBits))

RECURSIVE InlineText(_)
InlineText(e) ==
    CASE e.op = "const" -> ConstText(e)
      [] e.op \in {"and", "or"} /\ e.args = <<>> -> Node("bool", <<>>, Truth(e.op = "and"), 0)
      [] OTHER -> [e EXCEPT !.args = [i \in DOMAIN e.args |-> InlineText(e.args[i])]]

RECURSIVE VarsOf(_)
VarsOf(e) == (IF e.op = "var" THEN {e.a} ELSE {}) \cup UNION {VarsOf(e.args[i]) : i \in DOMAIN e.args}

\* emit_full: one byte variable per input byte, the path, and the target or its
\* negation.
EmitQuery(q) ==
    LET target == InlineText(q.target)
    IN  [declared |-> 0..(q.bytes - 1),
         asserts |-> [i \in DOMAIN q.path |-> InlineText(q.path[i])] \o <<IF q.taken THEN target ELSE Not(target)>>]

-----------------------------------------------------------------------------
(* Branches.                                                                 *)

Relation(rel, l, r) ==
    CASE rel = "=" -> Bin("=", l, r)
      [] rel = "!=" -> Not(Bin("=", l, r))
      [] rel = "u<" -> Bin("bvult", l, r)
      [] rel = "u<=" -> Bin("bvule", l, r)
      [] rel = "u>" -> Not(Bin("bvule", l, r))
      [] rel = "u>=" -> Not(Bin("bvult", l, r))
      [] rel = "s<" -> Bin("bvslt", l, r)
      [] rel = "s<=" -> Bin("bvsle", l, r)
      [] rel = "s>" -> Not(Bin("bvsle", l, r))
      [] rel = "s>=" -> Not(Bin("bvslt", l, r))

\* relation_for_branch of predicate.rs: the spelling jnc is not known here.
LiftRelation(mn) ==
    CASE mn \in {"je", "jz"} -> "="
      [] mn \in {"jne", "jnz"} -> "!="
      [] mn \in {"ja", "jnbe"} -> "u>"
      [] mn \in {"jae", "jnb"} -> "u>="
      [] mn \in {"jb", "jc", "jnae"} -> "u<"
      [] mn \in {"jbe", "jna"} -> "u<="
      [] mn \in {"jg", "jnle"} -> "s>"
      [] mn \in {"jge", "jnl"} -> "s>="
      [] mn \in {"jl", "jnge"} -> "s<"
      [] mn \in {"jle", "jng"} -> "s<="
      [] OTHER -> "unsupported"

\* operand_to_node: a number, the concrete value seen, or a variable of the
\* operand's own name, at the table's width whatever the operand's was.
OperandToNode(operand, concrete, width) ==
    CASE operand.k = "int" -> Const(operand.v, width)
      [] operand.k # "int" /\ concrete # -1 -> Const(concrete, width)
      [] OTHER -> Var(operand.v, width)

LiftBranchPredicate(p, width) ==
    IF p.left.k = "empty" \/ p.right.k = "empty" \/ LiftRelation(p.mn) = "unsupported" THEN Err
    ELSE Relation(LiftRelation(p.mn), OperandToNode(p.left, p.lv, width), OperandToNode(p.right, p.rv, width))

-----------------------------------------------------------------------------
(***************************************************************************)
(* The shadow emulator (concolic/shadow_emulator.rs) over its state        *)
(* (concolic/shadow_state.rs): which expression of the input bytes each    *)
(* register and memory byte holds, and the predicate of each branch.       *)
(*                                                                         *)
(* An instruction is [va, mn, ops]; an operand as written is a word, a     *)
(* number or an address, a sequence of signed terms.                       *)
(***************************************************************************)

CONSTANTS
    InputBase,      \* address of the input
    InputLen        \* its bytes

\* register_width, in bytes, and canonical_reg, for three of the families.
RegisterBytes ==
    [rax |-> 8, rbx |-> 8, rdi |-> 8, eax |-> 4, ebx |-> 4, ax |-> 2, bx |-> 2, al |-> 1, bl |-> 1, ah |-> 1, bh |-> 1]
CanonicalReg(name) ==
    CASE name \in {"rax", "eax", "ax", "al", "ah"} -> "rax"
      [] name \in {"rbx", "ebx", "bx", "bl", "bh"} -> "rbx"
      [] name = "rdi" -> "rdi"
      [] OTHER -> "none"

NoCompare == [lhs |-> None, rhs |-> None, width |-> 0, test |-> FALSE]
NoEvent == [va |-> -1, predicate |-> None]
NewState == [regs |-> [r \in {"rax", "rbx", "rdi"} |-> None], mem |-> [a \in {} |-> None], cmp |-> NoCompare, concretized |-> 0, event |-> NoEvent]

\* write_reg and write_byte count what stops being symbolic.
WriteReg(s, name, node) ==
    LET r == CanonicalReg(name)
    IN  IF r = "none" THEN s
        ELSE [s EXCEPT !.regs[r] = node, !.concretized = @ + Truth(node = None /\ s.regs[r] # None)]
WriteByte(s, addr, node) ==
    [s EXCEPT !.mem = IF node = None THEN [a \in DOMAIN @ \ {addr} |-> @[a]]
                      ELSE [a \in DOMAIN @ \cup {addr} |-> IF a = addr THEN node ELSE @[a]],
              !.concretized = @ + Truth(node = None /\ addr \in DOMAIN s.mem)]

-----------------------------------------------------------------------------
(* Operands.                                                                 *)

\* parse_addr_inner: a base and one displacement; whatever follows the first
\* sign and is no number counts as zero.
ParseAddr(terms) ==
    LET reg == terms[1].k = "reg"
        Number(t) == IF t.k = "int" THEN t.v ELSE 0
    IN  [base |-> IF reg THEN terms[1].name ELSE "none",
         disp |-> CASE Len(terms) = 2 -> terms[2].sign * Number(terms[2])
                    [] Len(terms) = 1 /\ ~reg -> Number(terms[1])
                    [] OTHER -> 0]

\* parse_single_operand: what cannot be read is the number zero.
ParseOperand(t) ==
    CASE t.k = "mem" -> [k |-> "mem", addr |-> ParseAddr(t.terms), width |-> ByteBits * (IF t.bytes = 0 THEN 8 ELSE t.bytes)]
      [] t.k = "reg" /\ t.name \in DOMAIN RegisterBytes -> [k |-> "reg", name |-> t.name, width |-> ByteBits * RegisterBytes[t.name]]
      [] t.k = "int" -> [k |-> "imm", v |-> t.v]
      [] OTHER -> [k |-> "imm", v |-> 0]

Imm(v, width) == Const(v % 2^width, width)
Widen(node, width) ==
    IF node = None \/ width >= WordBits THEN node ELSE Node("zero_extend", <<node>>, WordBits - width, 0)
\* Only ah is read from the second byte; ch, dh and bh are not.
NarrowTo(node, want, high) ==
    CASE high -> Extract(2 * ByteBits - 1, ByteBits, node)
      [] ~high /\ want >= WordBits -> node
      [] OTHER -> Extract(want - 1, 0, node)

InputByte(i) == Var(i, ByteBits)
\* Mutant: the byte at the lowest address is the highest.
ConcatBytesBig(bytes) == FoldLeft(LAMBDA low, b : IF low = None THEN b ELSE Bin("concat", low, b), None, bytes)
\* Little endian.
ConcatBytes(bytes) == FoldLeft(LAMBDA low, b : IF low = None THEN b ELSE Bin("concat", b, low), None, bytes)

\* The base register, if any, is taken to point at the input.
EffectiveAddress(addr) == IF addr.base = "none" THEN addr.disp ELSE InputBase + addr.disp

\* read_memory_region: bytes of the input are always the input's, whatever was
\* stored there; elsewhere every byte must have been stored.
ReadMemory(s, addr, width) ==
    LET at == EffectiveAddress(addr)
        n == width \div ByteBits
        symbolicBase == addr.base # "none" /\ (CanonicalReg(addr.base) = "none" \/ s.regs[CanonicalReg(addr.base)] # None)
    IN  CASE symbolicBase -> None
          [] ~symbolicBase /\ at >= InputBase /\ at + n <= InputBase + InputLen ->
                ConcatBytes([i \in 1..n |-> InputByte(at - InputBase + i - 1)])
          [] OTHER -> IF \A i \in 0..(n - 1) : at + i \in DOMAIN s.mem
                      THEN ConcatBytes([i \in 1..n |-> s.mem[at + i - 1]]) ELSE None

\* write_memory_region: byte by byte, the base not looked at.
WriteMemory(s, addr, width, node) ==
    LET at == EffectiveAddress(addr)
        Slice(i) == IF node = None THEN None ELSE Extract(ByteBits * (i + 1) - 1, ByteBits * i, node)
    IN  FoldLeft(LAMBDA acc, i : WriteByte(acc, at + i, Slice(i)), s, [j \in 1..(width \div ByteBits) |-> j - 1])

ReadOperand(s, op, want) ==
    CASE op.k = "imm" -> Imm(op.v, want)
      [] op.k = "reg" -> IF s.regs[CanonicalReg(op.name)] = None THEN None
                         ELSE NarrowTo(s.regs[CanonicalReg(op.name)], want, op.name = "ah")
      [] op.k = "mem" -> LET width == Min({op.width, want})
                             load == ReadMemory(s, op.addr, width)
                         IN  IF load = None THEN None ELSE NarrowTo(load, want, FALSE)

-----------------------------------------------------------------------------
(* Instructions.                                                             *)

StepMov(s, dst, src) ==
    CASE dst.k = "reg" -> WriteReg(s, dst.name, Widen(ReadOperand(s, src, dst.width), dst.width))
      [] dst.k = "mem" -> WriteMemory(s, dst.addr, dst.width, ReadOperand(s, src, dst.width))
      [] OTHER -> s

StepMovExtend(s, dst, src, kind) ==
    LET sw == IF src.k = "imm" THEN ByteBits ELSE src.width
        node == ReadOperand(s, src, sw)
        extra == Max({dst.width - sw, 0})
    IN  IF dst.k # "reg" THEN s
        ELSE WriteReg(s, dst.name, Widen(IF node # None /\ extra > 0 THEN Node(kind, <<node>>, extra, 0) ELSE node, dst.width))

Binop(mn) ==
    CASE mn = "add" -> "bvadd" [] mn = "sub" -> "bvsub" [] mn = "imul" -> "bvmul"
      [] mn = "and" -> "bvand" [] mn = "or" -> "bvor" [] mn = "xor" -> "bvxor"

\* With a number on the right and nothing known on the left the number stands
\* for both.
StepBinop(s, dst, src, op) ==
    LET l == ReadOperand(s, dst, dst.width)
        r == ReadOperand(s, src, dst.width)
        node == CASE l # None /\ r # None -> Bin(op, l, r)
                  [] l = None /\ r # None /\ src.k = "imm" -> Bin(op, r, Const(src.v, dst.width))
                  [] OTHER -> None
    IN  IF dst.k # "reg" THEN s ELSE WriteReg(s, dst.name, Widen(node, dst.width))

ShiftOp(mn) == CASE mn \in {"shl", "sal"} -> "bvshl" [] mn = "shr" -> "bvlshr" [] mn = "sar" -> "bvashr"
StepShift(s, dst, src, op) ==
    LET l == ReadOperand(s, dst, dst.width)
        n == IF src.k = "mem" THEN None ELSE ReadOperand(s, src, dst.width)
    IN  IF dst.k # "reg" THEN s
        ELSE WriteReg(s, dst.name, Widen(IF l # None /\ n # None THEN Bin(op, l, n) ELSE None, dst.width))

\* An operand nothing is known of counts as zero beside one that is symbolic.
StepCmp(s, a, b, test) ==
    LET w == CASE a.k # "imm" /\ b.k # "imm" -> Min({a.width, b.width})
               [] a.k # "imm" /\ b.k = "imm" -> a.width
               [] a.k = "imm" /\ b.k # "imm" -> b.width
               [] OTHER -> 4 * ByteBits
        l == ReadOperand(s, a, w)
        r == ReadOperand(s, b, w)
        Or0(n) == IF n = None THEN Const(0, w) ELSE n
    IN  IF ~(a.k # "imm" /\ l # None) /\ ~(b.k # "imm" /\ r # None) THEN [s EXCEPT !.cmp = NoCompare]
        ELSE [s EXCEPT !.cmp = [lhs |-> IF test THEN Bin("bvand", Or0(l), Or0(r)) ELSE Or0(l),
                                rhs |-> IF test THEN Const(0, w) ELSE Or0(r), width |-> w, test |-> test]]

StepLea(s, dst, src) ==
    LET base == IF src.addr.base = "none" THEN "none" ELSE CanonicalReg(src.addr.base)
        node == IF base = "none" \/ s.regs[base] = None THEN None
                ELSE Bin("bvadd", s.regs[base], Const(src.addr.disp % 2^WordBits, WordBits))
    IN  IF dst.k # "reg" \/ src.k # "mem" THEN s ELSE WriteReg(s, dst.name, node)

RelationForBranch(mn) == IF mn = "jnc" THEN "u>=" ELSE LiftRelation(mn)

BuildPredicate(rel, l, r) == Relation(rel, l, r)

\* emit_branch_event: the last compare, however many instructions ago it was.
EmitBranchEvent(s, va, mn) ==
    [s EXCEPT !.event = IF s.cmp = NoCompare THEN NoEvent
                        ELSE [va |-> va, predicate |-> BuildPredicate(RelationForBranch(mn), s.cmp.lhs, s.cmp.rhs)]]

\* step_instruction; other instructions forget the register they name first.
Step(s0, ins) ==
    LET s == [s0 EXCEPT !.event = NoEvent]
        ops == [i \in DOMAIN ins.ops |-> ParseOperand(ins.ops[i])]
        two == Len(ops) = 2
        mn == ins.mn
    IN  CASE RelationForBranch(mn) # "unsupported" -> EmitBranchEvent(s, ins.va, mn)
          [] mn \in {"mov", "movzx", "movsx", "add", "sub", "imul", "and", "or", "xor", "shl", "sal", "shr", "sar",
                     "cmp", "test", "lea"} /\ ~two -> s
          [] mn = "mov" /\ two -> StepMov(s, ops[1], ops[2])
          [] mn = "movzx" /\ two -> StepMovExtend(s, ops[1], ops[2], "zero_extend")
          [] mn = "movsx" /\ two -> StepMovExtend(s, ops[1], ops[2], "sign_extend")
          [] mn \in {"add", "sub", "imul", "and", "or", "xor"} /\ two -> StepBinop(s, ops[1], ops[2], Binop(mn))
          [] mn \in {"shl", "sal", "shr", "sar"} /\ two -> StepShift(s, ops[1], ops[2], ShiftOp(mn))
          [] mn \in {"cmp", "test"} /\ two -> StepCmp(s, ops[1], ops[2], mn = "test")
          [] mn = "lea" /\ two -> StepLea(s, ops[1], ops[2])
          [] OTHER -> IF ops # <<>> /\ ops[1].k = "reg" /\ s.regs[CanonicalReg(ops[1].name)] # None
                      THEN WriteReg(s, ops[1].name, None) ELSE s

\* The events of a straight run.
Run(code) ==
    FoldLeft(LAMBDA acc, ins : LET s == Step(acc.s, ins) IN [s |-> s, events |-> IF s.event = NoEvent THEN acc.events ELSE Append(acc.events, s.event)],
             [s |-> NewState, events |-> <<>>], code)
=============================================================================
