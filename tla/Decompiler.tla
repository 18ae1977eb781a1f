----------------------------- MODULE Decompiler -----------------------------
(***************************************************************************)
(* The C that is written for a function (c_decompiler.rs).                 *)
(*                                                                         *)
(* Each instruction becomes one statement.  A pass over the statements     *)
(* then puts what a register holds in the place of its name and takes out  *)
(* the statements this makes superfluous; accesses to likely structures    *)
(* become fields, loops with one conditional way back become do-while, and *)
(* labels, loops and declarations are put around what is left.             *)
(*                                                                         *)
(* The code rewrites text.  Here an expression is a tree, and the names in *)
(* it are what the code finds as words: a register in any of its widths,   *)
(* or a dereference of a bare register, which is found as a whole.  An     *)
(* instruction is                                                          *)
(*   [at, m, cc, ops, target, flows]:  cc is the condition of a jcc, cmov  *)
(*   or set, target is 0 when it does not branch, flows are the arguments  *)
(*   recovered for a call, rows [api, index, reg, value] of api_flows.     *)
(***************************************************************************)
EXTENDS Integers, Sequences, FiniteSets, FiniteSetsExt, SequencesExt, Functions

CONSTANTS
    Prototypes,    \* api |-> [args, result], the catalogue of winapi.rs
    Selected,      \* how many functions are decompiled by default (8)
    Prologue       \* how many instructions may read an argument first (40)

\* The 64-bit names, in the order of their text.
Registers == <<"r10", "r11", "r12", "r13", "r14", "r15", "r8", "r9", "rax", "rbp", "rbx", "rcx", "rdi", "rdx", "rsi", "rsp">>
\* CALLER_SAVED_X64, rsi and rdi aside on either system.
CallerSaved == {"rax", "rcx", "rdx", "r8", "r9", "r10", "r11"}
ArgRegs == [win64 |-> <<"rcx", "rdx", "r8", "r9">>, sysv |-> <<"rdi", "rsi", "rdx", "rcx", "r8", "r9">>]

-----------------------------------------------------------------------------
(* Operands and expressions.                                                *)

Node(k, n, v, sub) == [k |-> k, n |-> n, v |-> v, sub |-> sub]
Reg(n, width) == Node("reg", n, width, <<>>)
Imm(v) == Node("imm", "", v, <<>>)
Mem(base, off) == Node("mem", "", off, <<base>>)
Bin(op, a, b) == Node("bin", op, 0, <<a, b>>)
Un(op, a) == Node("un", op, 0, <<a>>)
Call(name, args) == Node("call", name, 0, args)
Ite(c, a, b) == Node("ite", "", 0, <<c, a, b>>)
Unknown == Node("unknown", "", 0, <<>>)     \* a comment in the place of a value

\* The storage a name stands for; "" is no register.
CanonicalReg(o) == IF o.k = "reg" THEN o.n ELSE ""
IsStack(o) == o.k = "mem" /\ o.sub[1].k = "reg" /\ o.sub[1].n \in {"rsp", "rbp"}

\* The name under which a storage is declared.  Slots of both frame registers
\* at one distance share a name.
LocalName(s) == IF IsStack(s) THEN <<IF s.v < 0 THEN "local" ELSE "arg", IF s.v < 0 THEN -s.v ELSE s.v>>
                ELSE <<s.n, s.v>>

Relations ==
    [cc \in {"e", "z", "ne", "nz", "g", "nle", "ge", "nl", "l", "nge", "le", "ng", "a", "nbe", "ae", "nb", "nc", "b", "nae", "c", "be", "na"} |->
        CASE cc \in {"e", "z"} -> "=="
          [] cc \in {"ne", "nz"} -> "!="
          [] cc \in {"g", "nle"} -> "s>"
          [] cc \in {"ge", "nl"} -> "s>="
          [] cc \in {"l", "nge"} -> "s<"
          [] cc \in {"le", "ng"} -> "s<="
          [] cc \in {"a", "nbe"} -> "u>"
          [] cc \in {"ae", "nb", "nc"} -> "u>="
          [] cc \in {"b", "nae", "c"} -> "u<"
          [] cc \in {"be", "na"} -> "u<="]

\* Conditions on overflow and parity are written as constants.
ConditionFromCc(cc, cmp) ==
    CASE cc \in DOMAIN Relations -> Bin(Relations[cc], cmp[1], cmp[2])
      [] cc \in {"s", "ns"} -> Bin(IF cc = "s" THEN "s<" ELSE "s>=", cmp[1], Imm(0))
      [] OTHER -> Imm(IF cc = "no" THEN 1 ELSE 0)

-----------------------------------------------------------------------------
(* One statement for one instruction.  A statement is                       *)
(*   [form, lhs, op, sub]:  "assign" (lhs op= the one expression of sub),   *)
(*   "shift", which the passes do not take for an assignment, "if", "goto", *)
(*   "return" or "comment"; sub is what the text lets a pass rewrite.       *)

Statement(form, lhs, op, sub) == [form |-> form, lhs |-> lhs, op |-> op, sub |-> sub]
Assign(lhs, e) == Statement("assign", lhs, "=", <<e>>)
\* A comment keeps the operands as they were written, "[rcx]" included.
Comment(ops) ==
    Statement("comment", Unknown, "", [i \in DOMAIN ops |-> IF ops[i].k = "mem" THEN [ops[i] EXCEPT !.k = "text"] ELSE ops[i]])

Compound == [add |-> "+", sub |-> "-", and |-> "&", or |-> "|", xor |-> "^", inc |-> "+", dec |-> "-"]
Shifts == [shl |-> "<<", sal |-> "<<", shr |-> ">>", sar |-> ">>"]
NoCompare == <<Unknown, Unknown>>

\* What a call passes: the arguments of the prototype, those not recovered as
\* 0, or without a prototype the first of the recovered ones.
RenderApiCall(flows) ==
    LET api == flows[1].api
        of(i) == {k \in DOMAIN flows : flows[k].index = i}
        recovered == {flows[k].index : k \in DOMAIN flows} \ {-1}
        n == IF api \in DOMAIN Prototypes THEN Len(Prototypes[api].args) ELSE Cardinality(recovered)
        value(f) == IF f.value # Unknown THEN f.value ELSE IF f.reg # "" THEN Reg(f.reg, 64) ELSE Imm(0)
    IN  Call(api, [i \in 1..n |-> IF of(i - 1) = {} THEN Imm(0) ELSE value(flows[Min(of(i - 1))])])

\* The statement of an instruction; cmp is what was compared last.
LiftInstruction(i, cmp) ==
    LET dst == i.ops[1]
        src == i.ops[2]
        cond == ConditionFromCc(i.cc, cmp)
    IN  CASE i.m = "mov" /\ Len(i.ops) >= 2 -> Assign(dst, src)
          [] i.m = "movzx" /\ Len(i.ops) >= 2 -> Assign(dst, Un("u8", src))
          [] i.m \in {"movsx", "movsxd"} /\ Len(i.ops) >= 2 -> Assign(dst, Un("s32", src))
          [] i.m = "lea" /\ Len(i.ops) >= 2 -> Assign(dst, Bin("+", src.sub[1], Imm(src.v)))
          [] i.m = "xor" /\ Len(i.ops) >= 2 /\ dst = src -> Assign(dst, Imm(0))
          [] i.m \in DOMAIN Compound \ {"inc", "dec"} /\ Len(i.ops) >= 2 /\ ~(i.m = "xor" /\ dst = src) ->
                Statement("assign", dst, Compound[i.m], <<src>>)
          [] i.m \in DOMAIN Shifts /\ Len(i.ops) >= 2 -> Statement("shift", Unknown, Shifts[i.m], <<dst, src>>)
          [] i.m \in {"rol", "ror"} /\ Len(i.ops) >= 2 -> Assign(dst, Bin(i.m, dst, src))
          [] i.m \in {"inc", "dec"} /\ Len(i.ops) >= 1 -> Statement("assign", dst, Compound[i.m], <<Imm(1)>>)
          [] i.m = "neg" /\ Len(i.ops) >= 1 -> Assign(dst, Bin("+", Un("~", dst), Imm(1)))
          [] i.m = "not" /\ Len(i.ops) >= 1 -> Assign(dst, Un("~", dst))
          [] i.m = "call" -> Assign(Reg("rax", 64), IF i.flows = <<>> THEN Call("call", <<>>) ELSE RenderApiCall(i.flows))
          [] i.m = "jmp" /\ i.target # 0 -> Statement("goto", Unknown, "", <<>>)
          [] i.m = "jcc" /\ i.target # 0 -> Statement("if", Unknown, "", <<cond>>)
          [] i.m = "cmov" /\ Len(i.ops) >= 2 -> Assign(dst, Ite(cond, src, dst))
          [] i.m = "set" /\ Len(i.ops) >= 1 -> Assign(dst, Ite(cond, Imm(1), Imm(0)))
          [] i.m = "ret" -> Statement("return", Unknown, "", <<Reg("rax", 64)>>)
          [] OTHER -> Comment(i.ops)

\* What is compared: a value tested against itself is compared with zero.
LastCompare(i, cmp) ==
    CASE i.m = "test" /\ Len(i.ops) >= 2 -> <<i.ops[1], IF i.ops[1] = i.ops[2] THEN Imm(0) ELSE i.ops[2]>>
      [] i.m = "cmp" /\ Len(i.ops) >= 2 -> <<i.ops[1], i.ops[2]>>
      [] OTHER -> cmp

\* compares[k]: what was compared before the k-th instruction.
Lift(code, targets) ==
    LET compares[k \in 1..Len(code)] == IF k = 1 THEN NoCompare ELSE LastCompare(code[k - 1], compares[k - 1])
    IN  [k \in DOMAIN code |->
            [va |-> code[k].at, m |-> code[k].m, target |-> code[k].target, removed |-> FALSE,
             is_label_target |-> code[k].at \in targets, text |-> LiftInstruction(code[k], compares[k])]]

CollectBranchTargets(code, f) == {t \in {code[k].target : k \in DOMAIN code} : f.start <= t /\ t < f.end}

-----------------------------------------------------------------------------
(* Composition of expressions.  live: for a storage the expression it       *)
(* holds, the statement that put it there and how often it was read.  A     *)
(* storage is a 64-bit register or a dereference of a bare register.        *)

Key(lhs) == IF lhs.k = "reg" THEN Reg(lhs.n, 64) ELSE lhs
\* parse_simple_assign takes no other left side ("+" is not in its alphabet).
Tracked(lhs) == lhs.k = "reg" \/ (lhs.k = "mem" /\ lhs.v = 0)
Narrow(lhs) == lhs.k = "reg" /\ lhs.v < 32

IsWord(e, key) == IF key.k = "reg" THEN e.k = "reg" /\ e.n = key.n ELSE e = key
RECURSIVE Reads(_, _), PutFor(_, _, _)
Reads(e, key) == IsWord(e, key) \/ \E i \in DOMAIN e.sub : Reads(e.sub[i], key)
PutFor(e, key, by) ==
    IF IsWord(e, key) THEN by ELSE [e EXCEPT !.sub = [i \in DOMAIN e.sub |-> PutFor(e.sub[i], key, by)]]

\* One storage, in the part of the text that may be rewritten.
SubstituteStorageInRhs(s, key) ==
    LET found == \E i \in DOMAIN s.sub : Reads(s.sub[i], key)
    IN  [s EXCEPT !.sub = [i \in DOMAIN s.sub |-> PutFor(s.sub[i], key, s.live[key].expr)],
                  !.live = IF found THEN [s.live EXCEPT ![key].use_count = @ + 1] ELSE s.live]

\* The order of a BTreeMap of their texts: "*" comes before the letters.
Index(n) == CHOOSE i \in DOMAIN Registers : Registers[i] = n
Place(key) == IF key.k = "reg" THEN Len(Registers) + Index(key.n) ELSE Index(key.sub[1].n)
Ordered(keys) == SetToSortSeq(keys, LAMBDA a, b : Place(a) < Place(b))

\* Forget storages.  The statement that produced one that was read is dead.
DropEntries(s, keys) ==
    LET dead == {s.live[k].producer : k \in {x \in keys \cap DOMAIN s.live : s.live[x].use_count > 0}}
    IN  [s EXCEPT !.live = Restrict(s.live, DOMAIN s.live \ keys), !.removed = @ \cup dead]

Hold(s, key, expr, at) ==
    [s EXCEPT !.live = [k \in DOMAIN s.live \cup {key} |->
                          IF k = key THEN [expr |-> expr, producer |-> at, use_count |-> 0] ELSE s.live[k]]]

CallClobber(s, stmt) == IF stmt.m = "call" THEN DropEntries(s, {Reg(n, 64) : n \in CallerSaved}) ELSE s

\* What the statement writes.
TrackWrite(s, at, text) ==
    LET key == Key(text.lhs)
        d == DropEntries(s, {key})
    IN  IF text.form # "assign" \/ ~Tracked(text.lhs) THEN s
        ELSE IF Narrow(text.lhs) \/ (text.op # "=" /\ key \notin DOMAIN s.live) THEN d
        ELSE Hold(d, key, IF text.op = "=" THEN text.sub[1] ELSE Bin(text.op, s.live[key].expr, text.sub[1]), at)

\* At a return no caller sees the registers that a call may change, read or not.
AtReturn(s, stmt) ==
    LET regs == {k \in DOMAIN s.live : k.k = "reg"}
        gone == {k \in regs : k.n \in CallerSaved}
        t == [s EXCEPT !.removed = @ \cup {s.live[k].producer : k \in gone}, !.live = Restrict(s.live, DOMAIN s.live \ gone)]
    IN  IF stmt.m = "ret" THEN DropEntries(t, regs) ELSE s

ComposeOne(s, stmts, at) ==
    LET atLabel == IF stmts[at].is_label_target THEN DropEntries(s, DOMAIN s.live) ELSE s
        put == FoldLeft(SubstituteStorageInRhs, [atLabel EXCEPT !.sub = stmts[at].text.sub], Ordered(DOMAIN atLabel.live))
        text == [stmts[at].text EXCEPT !.sub = put.sub]
        written == TrackWrite(CallClobber(put, stmts[at]), at, text)
    IN  [AtReturn(written, stmts[at]) EXCEPT !.texts = Append(@, text)]

ComposeExpressions(stmts) ==
    LET Step(s, at) == ComposeOne(s, stmts, at)
        done == FoldLeft(Step, [live |-> [k \in {} |-> 0], removed |-> {}, texts |-> <<>>, sub |-> <<>>],
                         [i \in DOMAIN stmts |-> i])
    IN  [i \in DOMAIN stmts |-> [stmts[i] EXCEPT !.text = done.texts[i], !.removed = i \in done.removed]]

-----------------------------------------------------------------------------
(* Fields.  A register other than rsp and rbp with two displacements is     *)
(* taken for the address of a structure.                                    *)

InferStructHints(code) ==
    LET accesses == {a \in UNION {Range(code[k].ops) : k \in DOMAIN code} : a.k = "mem" /\ a.sub[1].k = "reg" /\ ~IsStack(a)}
        offsets(b) == {a.v : a \in {x \in accesses : x.sub[1] = b}}
    IN  {[base |-> b, offsets |-> offsets(b)] : b \in {x \in {a.sub[1] : a \in accesses} : Cardinality(offsets(x)) >= 2}}

\* Only a displacement that is written out is rewritten.
RECURSIVE RewriteFields(_, _)
RewriteFields(e, hints) ==
    IF e.k = "mem" /\ e.v # 0 /\ \E h \in hints : h.base = e.sub[1] /\ e.v \in h.offsets THEN [e EXCEPT !.k = "field"]
    ELSE [e EXCEPT !.sub = [i \in DOMAIN e.sub |-> RewriteFields(e.sub[i], hints)]]

RewriteStructFieldAccesses(stmt, hints) ==
    IF stmt.removed THEN stmt
    ELSE [stmt EXCEPT !.text.lhs = RewriteFields(@, hints),
                      !.text.sub = [i \in DOMAIN @ |-> RewriteFields(@[i], hints)]]

-----------------------------------------------------------------------------
(* Loops.  loops: the edges [from, to] back of the natural loops.           *)

Sources(loops, header) == {e.from : e \in {x \in loops : x.to = header}}

\* header |-> source, for the loops written do ... while.
BuildDowhilePlan(stmts, loops) ==
    LET headers == {e.to : e \in loops}
        qualifies(h) == /\ Cardinality(Sources(loops, h)) = 1
                        /\ \E i \in DOMAIN stmts : /\ stmts[i].va \in Sources(loops, h)
                                                   /\ stmts[i].target = h
                                                   /\ stmts[i].m # "jmp"
                                                   /\ stmts[i].text.form = "if"
    IN  [h \in {x \in headers : qualifies(x)} |-> CHOOSE v \in Sources(loops, h) : TRUE]

Line(k, at) == [k |-> k, at |-> at]

\* The lines around and of one statement.
EmitOne(s, stmt, loops, plan) ==
    LET header == stmt.va \in DOMAIN plan
        back == stmt.va \in Range(plan)
        label == IF stmt.is_label_target /\ ~header THEN <<Line("label", stmt.va)>> ELSE <<>>
        open == CASE header -> <<Line("do", stmt.va)>>
                  [] ~header /\ (\E v \in Sources(loops, stmt.va) : v > stmt.va) -> <<Line("loop", stmt.va)>>
                  [] OTHER -> <<>>
        body == IF stmt.removed \/ back THEN <<>> ELSE <<Line("stmt", stmt.va)>>
        depth == s.depth + Len(open)
        closes == depth > 0 /\ \E e \in loops : e.from = stmt.va
        close == IF closes THEN <<Line(IF back THEN "while" ELSE "close", stmt.va)>> ELSE <<>>
    IN  [depth |-> IF closes THEN depth - 1 ELSE depth, lines |-> s.lines \o label \o open \o body \o close]

\* Loops left open are closed at the end.
Emit(stmts, loops, plan) ==
    LET Step(s, stmt) == EmitOne(s, stmt, loops, plan)
        done == FoldLeft(Step, [depth |-> 0, lines |-> <<>>], stmts)
    IN  done.lines \o [i \in 1..done.depth |-> Line("close", 0)]

-----------------------------------------------------------------------------
(* Types, arguments and declarations.                                       *)

\* Types of storages: what a dataflow edge is tagged with, what a prototype
\* says of the registers of a call, and what flows from there; the first one
\* stays.  edges: rows [from, to, tag] ("" where there is none), calls: the
\* flows of the call sites in order.
FirstWins(types, s, ty) == IF s \in DOMAIN types THEN types ELSE [x \in DOMAIN types \cup {s} |-> IF x = s THEN ty ELSE types[x]]

TagTypes(edges) ==
    FoldLeft(LAMBDA ty, e : IF e.tag = "" THEN ty ELSE FirstWins(ty, e.to, e.tag), [x \in {} |-> ""], edges)

PrototypeTypes(types, flows) ==
    LET proto == Prototypes[flows[1].api]
        arg(ty, f) == IF f.reg = "" \/ f.index \notin 0..(Len(proto.args) - 1) THEN ty ELSE FirstWins(ty, f.reg, proto.args[f.index + 1])
    IN  IF flows[1].api \notin DOMAIN Prototypes THEN types
        ELSE FirstWins(FoldLeft(arg, types, flows), "rax", proto.result)

\* The rounds over the edges: one more than there are edges, at the most.
RECURSIVE Propagate(_, _, _)
Propagate(types, edges, rounds) ==
    LET along(ty, e) == IF e.from = "" \/ e.from \notin DOMAIN ty THEN ty ELSE FirstWins(ty, e.to, ty[e.from])
        next == FoldLeft(along, types, edges)
    IN  IF rounds = 0 \/ next = types THEN types ELSE Propagate(next, edges, rounds - 1)

\* The names of rax stand for those of all registers.
DefaultTypeForStorage(s) ==
    CASE s = "eax" -> "uint32_t" [] s = "ax" -> "uint16_t" [] s = "al" -> "uint8_t" [] OTHER -> "uint64_t"

RecoverTypes(ssa, edges, calls) ==
    FoldLeft(LAMBDA ty, s : FirstWins(ty, s, DefaultTypeForStorage(s)),
             Propagate(FoldLeft(PrototypeTypes, TagTypes(edges), calls), edges, Len(edges) + 1), ssa)

\* A call site whose prototype is known gives the type of what is returned,
\* the last one in the code.
RecoverReturnType(code) ==
    LET sites == {k \in DOMAIN code : code[k].m = "call" /\ code[k].flows # <<>>}
    IN  IF \A k \in DOMAIN code : code[k].m # "ret" THEN "void"
        ELSE IF sites # {} /\ code[Max(sites)].flows[1].api \in DOMAIN Prototypes THEN Prototypes[code[Max(sites)].flows[1].api].result
        ELSE "uint64_t"

WritesFirst(i) ==
    \/ i.m \in {"mov", "movzx", "movsx", "movsxd", "lea", "shl", "shr", "sar", "sal", "rol", "ror", "neg", "not", "bswap"} \cup DOMAIN Compound
    \/ i.m = "cmov" /\ i.cc \in {"z", "e", "nz", "ne", "g", "l", "ge", "le", "a", "ae", "b", "be", "s", "ns"}

\* The registers that are arguments: those a call passes on, and those the
\* first instructions read before they write them.
RecoverArgDecls(code, abi) ==
    LET regs == Range(ArgRegs[abi])
        passed == {f.reg : f \in UNION {Range(code[k].flows) : k \in DOMAIN code}} \cap regs
        touch(s, o, writes) ==
            IF CanonicalReg(o) \notin regs THEN s
            ELSE IF writes THEN IF o.n \in s.read THEN s ELSE [s EXCEPT !.written = @ \cup {o.n}]
            ELSE IF o.n \in s.written THEN s ELSE [s EXCEPT !.read = @ \cup {o.n}]
        operands(s, i) == FoldLeft(LAMBDA t, n : touch(t, i.ops[n], n = 1 /\ WritesFirst(i)), s, [n \in DOMAIN i.ops |-> n])
        walked == FoldLeft(operands, [read |-> {}, written |-> {}], SubSeq(code, 1, IF Len(code) < Prologue THEN Len(code) ELSE Prologue))
    IN  SelectSeq(ArgRegs[abi], LAMBDA r : r \in passed \cup walked.read)

\* Registers and stack slots that occur as operands, one of each name, and of
\* those the ones that occur in what is left of the text.
RECURSIVE Mentions(_, _)
Mentions(e, s) == (e.k = "reg" /\ s.k = "reg" /\ e = s) \/ (e.k = "text" /\ [e EXCEPT !.k = "mem"] = s)
                  \/ \E i \in DOMAIN e.sub : Mentions(e.sub[i], s)

CollectStorages(code, ssa) ==
    ssa \cup {o \in UNION {Range(code[k].ops) : k \in DOMAIN code} : o.k = "reg" \/ IsStack(o)}

\* Of the storages with one name the first stands for all: "[rbp" < "[rsp".
StandsFor(name, storages) ==
    LET named == {s \in storages : LocalName(s) = name}
        ofFrame == {s \in named : IsStack(s) /\ s.sub[1].n = "rbp"}
    IN  IF ofFrame # {} THEN CHOOSE s \in ofFrame : TRUE ELSE CHOOSE s \in named : TRUE

Declared(storages, stmts) ==
    LET occurs(s) == \E i \in DOMAIN stmts : /\ ~stmts[i].removed
                                             /\ \/ Mentions(stmts[i].text.lhs, s)
                                                \/ \E n \in DOMAIN stmts[i].text.sub : Mentions(stmts[i].text.sub[n], s)
    IN  {n \in {LocalName(s) : s \in storages} : occurs(StandsFor(n, storages))}

AssessConfidence(signals) ==
    LET n == Cardinality(signals)
    IN  CASE n = 5 -> "high" [] n \in {3, 4} -> "medium" [] n \in {1, 2} -> "low" [] OTHER -> "unknown"

-----------------------------------------------------------------------------
(* One function, and which functions.                                       *)

\* x: the rows the other passes have made, [code, loops, ssa, edges, abi].
CallFlows(code) == LET sites == SelectSeq(code, LAMBDA i : i.flows # <<>>) IN [k \in DOMAIN sites |-> sites[k].flows]

LiftFunction(f, x) ==
    LET body == SelectSeq(x.code, LAMBDA i : f.start <= i.at /\ i.at < f.end)
        composed == ComposeExpressions(Lift(body, CollectBranchTargets(body, f)))
        hints == InferStructHints(body)
        stmts == [i \in DOMAIN composed |-> RewriteStructFieldAccesses(composed[i], hints)]
        plan == BuildDowhilePlan(stmts, x.loops)
        calls == CallFlows(body)
    IN  [stmts |-> stmts, plan |-> plan, lines |-> Emit(stmts, x.loops, plan),
         declared |-> Declared(CollectStorages(body, {Reg(s, 64) : s \in Range(x.ssa)}), stmts),
         types |-> RecoverTypes(x.ssa, x.edges, calls), result |-> RecoverReturnType(body), args |-> RecoverArgDecls(body, x.abi),
         confidence |-> AssessConfidence({s \in {"ssa", "dataflow", "structured", "api_flows", "prototype"} :
                            CASE s = "ssa" -> x.ssa # <<>> [] s = "dataflow" -> x.edges # <<>> [] s = "structured" -> x.loops # {}
                              [] s = "api_flows" -> calls # <<>>
                              [] s = "prototype" -> \E k \in DOMAIN calls, n \in 1..9 : n \in DOMAIN calls[k] /\ calls[k][n].api \in DOMAIN Prototypes})]

\* density: how many rows of api_flows a function has; the sort is stable.
BuildDecompiledC(options, functions, density) ==
    LET limit == IF options.decompile_c = "all" THEN 1024 ELSE Selected
        before(a, b) == density[a] > density[b] \/ (density[a] = density[b] /\ a < b)
        ranked == SetToSortSeq(DOMAIN functions, before)
    IN  IF options.profile # "native-max" \/ options.decompile_c = "off" THEN <<>>
        ELSE [k \in 1..Min({limit, Len(ranked)}) |-> functions[ranked[k]]]
=============================================================================
