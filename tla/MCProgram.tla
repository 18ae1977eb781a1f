----------------------------- MODULE MCProgram -----------------------------
(* Short programs, given to the passes that find their flow and their values.*)
EXTENDS Computation

-----------------------------------------------------------------------------
(* Four bytes of code, swept in two ranges that may overlap, with room for    *)
(* three instructions and one cross reference; and the values of a register   *)
(* at two indirect calls.                                                     *)

DaInstr(s, va) == s.code[va]
Pf == INSTANCE ProgramFlow WITH Instr <- DaInstr, MaxXrefs <- 1, MaxInstructions <- 3,
        MaxBlocks <- 4, MaxEdges <- 4, DwordBits <- 5, AddressBits <- 6, MaxImmediate <- 9,
        LimitWindow <- 3, GuardWindow <- 4, BranchWindow <- 2, MaskWindow <- 2
\* The same without limits on the listing.
PfAll == INSTANCE ProgramFlow WITH Instr <- DaInstr, MaxXrefs <- 9, MaxInstructions <- 9,
        MaxBlocks <- 4, MaxEdges <- 4, DwordBits <- 5, AddressBits <- 6, MaxImmediate <- 9,
        LimitWindow <- 3, GuardWindow <- 4, BranchWindow <- 2, MaskWindow <- 2

DaKinds ==
    [op |-> [size |-> 1, kind |-> "op", target |-> -1, rip |-> -1], wide |-> [size |-> 2, kind |-> "op", target |-> -1, rip |-> 9],
     call |-> [size |-> 2, kind |-> "call", target |-> 1, rip |-> -1], back |-> [size |-> 1, kind |-> "call", target |-> 3, rip |-> -1]]
DaImage(code) == [sections |-> {[va |-> 0, size |-> 4, exec |-> TRUE, code |-> code], [va |-> 8, size |-> 2, exec |-> FALSE, code |-> <<>>]},
                  imports |-> <<>>, strings |-> {}]
DaRanges == {[start |-> a, end |-> b, section |-> 0] : a \in {0, 1}, b \in {2, 5}} \cup {[start |-> 0, end |-> 9, section |-> -1]}
DisasmInputs == {[code |-> [i \in 0..3 |-> DaKinds[k[i]]], ranges |-> r] : k \in [0..3 -> DOMAIN DaKinds], r \in {<<a, b>> : a, b \in DaRanges}}
DisasmStep ==
    Compute("disasm", LAMBDA in : [kept |-> Pf!Disassemble(DaImage(in.code), in.ranges), all |-> PfAll!Disassemble(DaImage(in.code), in.ranges)])

\* An instruction that the limit drops is told, so a listing that is not
\* marked is whole.
ListingIsWholeOrCapped == Done("disasm") => (result.of.kept.capped \/ result.of.kept.instructions = result.of.all.instructions)

\* The calls that seed the search for functions do not depend on the limit on
\* cross references: every listed call into code is among them.
CallsSeedFunctions ==
    Done("disasm") =>
        \A k \in DOMAIN result.of.kept.instructions :
            result.of.kept.instructions[k].kind = "call" => result.of.kept.instructions[k].target \in result.of.kept.targets

DaValue(c, t) == [function |-> 0, site |-> 2, location |-> "a", confidence |-> c, target |-> t, expression |-> "e"]
IndirectInputs ==
    {[n \in DOMAIN s |-> DaValue(s[n][1], s[n][2])] :
        s \in UNION {[1..n -> {<<c, t>> : c \in {"high", "definite", "medium", "low"}, t \in {-1, 0, 5, 7}}] : n \in 1..3}}
IndirectStep ==
    Compute("indirect", LAMBDA vs :
        Pf!ResolveIndirect(<<[start |-> 0, end |-> 4]>>,
                           <<[va |-> 1, kind |-> "call", direct |-> FALSE, reg |-> "a"], [va |-> 2, kind |-> "call", direct |-> FALSE, reg |-> "a"]>>,
                           vs, 7 :> "Import"))
DaRank(c) == IF c \in {"high", "definite"} THEN 3 ELSE IF c = "medium" THEN 2 ELSE 1
\* An indirect call is given a target only from a value at that call, and no
\* stronger value at it is passed over, whatever order the values come in.
TargetsAreStrongest ==
    Done("indirect") =>
        /\ \A k \in DOMAIN result.of :
             /\ result.of[k].site = 2
             /\ \E i \in DOMAIN input :
                  /\ input[i].target = result.of[k].target
                  /\ \A j \in DOMAIN input : input[j].target # -1 => DaRank(input[j].confidence) <= DaRank(input[i].confidence)
        /\ (\E i \in DOMAIN input : input[i].target > 0) /\ (\A i \in DOMAIN input : input[i].target # 0) => result.of # <<>>

-----------------------------------------------------------------------------
(* The graphs and the loops of every function of four instructions: plain     *)
(* ones, calls, returns and jumps within the function.                        *)

SfN == 4
SfFn == [start |-> 1, end |-> SfN + 1]
SfKinds == {<<"op", -1>>, <<"ret", -1>>, <<"call", 99>>} \cup {<<k, t>> : k \in {"jcc", "jmp"}, t \in 1..SfN}
SfInsns(code) == [i \in DOMAIN code |-> [va |-> i, size |-> 1, kind |-> code[i][1], target |-> code[i][2]]]
FlowInputs == [1..SfN -> SfKinds]
FlowStep ==
    Compute("flow", LAMBDA code :
        LET cfg == Pf!BuildCfg(SfFn, SfInsns(code))
            row == Pf!BuildStructuredFlow(TRUE, cfg, {i \in DOMAIN code : code[i][1] = "ret"})
        IN  [cfg |-> cfg, row |-> row, refined |-> Pf!RefineSelected(<<row>>, {}, {})[1]])

(* What the processor does. *)
SfNext(code, i) ==
    (IF code[i][1] \in {"op", "call", "jcc"} THEN {i + 1} ELSE {}) \cup (IF code[i][1] \in {"jcc", "jmp"} THEN {code[i][2]} ELSE {})
SfReach(code, from, avoid) ==
    LET R[n \in 0..SfN] == IF n = 0 THEN from \ avoid
                           ELSE LET r == R[n - 1] IN r \cup (((UNION {SfNext(code, i) : i \in r}) \cap DOMAIN code) \ avoid)
    IN  R[SfN]
SfRuns(code) == SfReach(code, {1}, {})
SfLoops == Range(result.of.row.backedges)

\* No jump lands in the middle of a block or leaves it before its end, and every
\* instruction is in one block.
BlocksAreStraight ==
    Done("flow") =>
        /\ \A i \in DOMAIN input :
             Cardinality({k \in DOMAIN result.of.cfg.blocks : result.of.cfg.blocks[k].start <= i /\ i < result.of.cfg.blocks[k].end}) = 1
        /\ \A i \in DOMAIN input, k \in DOMAIN result.of.cfg.blocks :
             LET b == result.of.cfg.blocks[k]
             IN  b.start <= i /\ i < b.end =>
                    /\ input[i][1] \in {"jcc", "jmp", "call"} => i = b.end - 1
                    /\ input[i][1] \in {"jcc", "jmp"} => \A c \in DOMAIN result.of.cfg.blocks :
                            ~(result.of.cfg.blocks[c].start < input[i][2] /\ input[i][2] < result.of.cfg.blocks[c].end)

\* A plain instruction that ends a block falls into the next one without an edge.
SfSilent(code) ==
    {i \in SfRuns(code) : code[i][1] = "op" /\ \E k \in DOMAIN result.of.cfg.blocks : result.of.cfg.blocks[k].start = i + 1}
SfKnown == Len(result.of.cfg.edges) <= 4
\* The header of a loop reported for code that runs lies on every path from the
\* entry to the jump back, if every step between blocks has an edge and the
\* graph is within the limits.
LoopsHaveHeaders ==
    Done("flow") /\ SfKnown /\ SfSilent(input) = {} =>
        \A e \in SfLoops : e.from \in SfRuns(input) => e.from \notin SfReach(input, {1}, {e.to})

\* In a function whose code all runs, the jump back to the header of a loop at
\* a lower address is reported, whether or not it is within the limits.
LoopsAreFound ==
    Done("flow") /\ SfRuns(input) = DOMAIN input =>
        \A i \in DOMAIN input :
            input[i][1] \in {"jcc", "jmp"} /\ input[i][2] <= i /\ i \notin SfReach(input, {1}, {input[i][2]}) =>
                \E e \in SfLoops : e.from = i /\ e.to = input[i][2]

\* A function that can run in a circle shows it once its row is refined: as a
\* loop, or as a goto where no header was found.
CirclesAreShown ==
    Done("flow") /\ (\E i \in SfRuns(input) : i \in SfReach(input, SfNext(input, i) \cap DOMAIN input, {})) =>
        result.of.refined.regions \cap {"loop", "goto"} # {}

-----------------------------------------------------------------------------
(* Tables of up to three entries in each encoding, guarded jumps through one,  *)
(* straight code of compares and branches, and graphs of four blocks.          *)

Code == 8..15       \* the executable addresses
Based == 4          \* the image base

-----------------------------------------------------------------------------
TableInputs ==
    {[kind |-> k, written |-> t, table |-> v, tail |-> z, max |-> m] :
        k \in {"absolute", "rva", "relative"}, t \in {s \in BoundedSeq({8, 9, 12, 15}, 3) : Len(s) >= 2},
        v \in {2, 20}, z \in {<<>>, <<0>>, <<9, 0, 31>>}, m \in 2..4}
Encode(x) ==
    CASE x.kind = "absolute" -> FlattenSeq([i \in DOMAIN x.written |-> <<x.written[i], 0>>])
      [] x.kind = "rva" -> [i \in DOMAIN x.written |-> x.written[i] - Based]
      [] x.kind = "relative" -> [i \in DOMAIN x.written |-> (x.written[i] - x.table) % 32]
TableStep == Compute("jump_table", LAMBDA x : Pf!ResolveTable(x.table, Encode(x) \o x.tail, Based, Code, x.max))

\* A table is read as it was written, up to the limit, and never past it, in
\* each of the three encodings.  (Offsets from a table that lies before the
\* code are taken for addresses from the image base.)
TablesAreReadAsWritten ==
    Done("jump_table") =>
        LET r == result.of
        IN  /\ Len(r.targets) <= input.max
            /\ ~(input.kind = "relative" /\ input.table < Min(Code)) => IsPrefix(Pf!Take(input.written, input.max), r.targets)

-----------------------------------------------------------------------------
SwIns(va, mn, imm, reads, write, target) ==
    [va |-> va, mn |-> mn, imm |-> imm, reads |-> reads, write |-> write, target |-> target, jump |-> mn \in {"jmp", "ja", "jae", "je"},
     rip |-> -1, base |-> "", index |-> "", scale |-> 0, disp |-> 0, mem |-> FALSE]
Other(va) ==
    {SwIns(va, "mov", 3, <<>>, "b", -1), SwIns(va, "sub", 2, <<"b">>, "b", -1), SwIns(va, "and", 7, <<"b">>, "b", -1), SwIns(va, "nop", -1, <<>>, "", -1)}
Dispatch(va, how) ==
    [SwIns(va, "jmp", -1, <<"a">>, "", -1) EXCEPT !.mem = TRUE, !.index = "a", !.scale = 2,
        !.disp = IF how = "disp" THEN 20 ELSE 0, !.base = IF how = "base" THEN "t" ELSE "", !.rip = IF how = "rip" THEN 20 ELSE -1]
GuardInputs ==
    {[code |-> <<o1, SwIns(41, "cmp", imm, <<"a">>, "", -1), SwIns(42, g, -1, <<>>, "", 14), o2, Dispatch(44, how)>>,
      targets |-> t, values |-> w] :
        o1 \in {o \in Other(40) : o.mn \in {"sub", "nop"}}, imm \in 1..3, g \in {"ja", "jae"}, o2 \in Other(43), how \in {"disp", "base", "rip"},
        t \in {<<a, b, c>> : a, b, c \in {8, 9, 3}},
        w \in {<<>>, <<[loc |-> "t", site |-> 40, lo |-> 20, target |-> 20]>>,
               <<[loc |-> "t", site |-> 39, lo |-> 1, target |-> -1], [loc |-> "t", site |-> 43, lo |-> 20, target |-> -1], [loc |-> "t", site |-> 50, lo |-> 9, target |-> -1]>>}}
GuardStep ==
    Compute("switch", LAMBDA x :
        LET data == FlattenSeq([i \in DOMAIN x.targets |-> <<x.targets[i], 0>>])
        IN  Pf!BuildSwitches(x.code, Pf!BuildJumpTables(x.code, [va |-> 20, data |-> data], Based, Code, x.values, 8), "elf"))

\* A jump guarded by "compare, above" goes where the switch says for every
\* value of its index: to the case of that value, or out to the default; and no
\* case is beyond the guard.  The compare must be the nearest bound.
SwitchFollowsProcessor ==
    Done("switch") =>
        \A i \in DOMAIN result.of :
            LET f == result.of[i]
                imm == input.code[2].imm
            IN  f.at = 44 /\ input.code[4].mn \notin {"sub", "and"} =>
                  /\ f.high = imm /\ f.default = 14 /\ f.low = 0
                  /\ \A c \in DOMAIN f.cases : f.cases[c].value <= f.high
                  /\ input.code[3].mn = "ja" =>
                       \A v \in 0..imm : v < Len(f.cases) =>
                         \E c \in DOMAIN f.cases : f.cases[c].value = v /\ f.cases[c].target = input.targets[v + 1]

-----------------------------------------------------------------------------
Words ==
    {SwIns(0, "cmp", 1, <<"a">>, "", -1), SwIns(0, "cmp", 2, <<"a">>, "", -1), SwIns(0, "cmp", 1, <<"b">>, "", -1),
     SwIns(0, "je", -1, <<>>, "", 50), SwIns(0, "je", -1, <<>>, "", 60), SwIns(0, "bt", -1, <<"b">>, "", -1)}
ChainInputs == {<<a, b, c, d, e, f>> : a, b, c, d, f \in Words, e \in {w \in Words : w.mn = "cmp"}}
Placed(code) == [i \in DOMAIN code |-> [code[i] EXCEPT !.va = i]]
ChainStep == Compute("compare_tree", LAMBDA code : Pf!BuildSwitches(Placed(code), <<>>, "pe"))

\* Where straight code starting at i goes when register a or b holds v: the
\* target of the first branch taken, or 0.
Leaves2(code, i, reg, v) ==
    FoldLeft(LAMBDA m, k :
                 CASE m.gone # 0 -> m
                   [] m.gone = 0 /\ code[k].mn = "cmp" -> [m EXCEPT !.eq = code[k].reads[1] = reg /\ code[k].imm = v]
                   [] m.gone = 0 /\ code[k].mn = "je" -> IF m.eq THEN [m EXCEPT !.gone = code[k].target] ELSE m
                   [] OTHER -> m,
             [eq |-> FALSE, gone |-> 0], [k \in 1..(Len(code) - i + 1) |-> i + k - 1]).gone

\* A compare chain sends each of its values where the code does (to the first
\* case that has it), and every two pairs on one register are in some chain.
CompareTreeFollowsProcessor ==
    Done("compare_tree") =>
        LET trees == SelectSeq(result.of, LAMBDA f : f.lowering = "compare_tree")
            Pair(i) == input[i].mn = "cmp" /\ input[i + 1].mn = "je"
        IN  /\ \A t \in DOMAIN trees : \A c \in DOMAIN trees[t].cases :
                 LET f == trees[t]
                     first == CHOOSE k \in DOMAIN f.cases : f.cases[k].value = f.cases[c].value /\ \A j \in 1..(k - 1) : f.cases[j].value # f.cases[c].value
                 IN  Leaves2(input, f.at, f.index, f.cases[c].value) = f.cases[first].target
            /\ \A i \in 1..3 : Pair(i) /\ Pair(i + 2) /\ input[i].reads = input[i + 2].reads =>
                 \E t \in DOMAIN trees : trees[t].at <= i /\ i + 3 <= trees[t].at + 2 * Len(trees[t].cases) - 1

-----------------------------------------------------------------------------
IdomInputs == SUBSET {e \in (1..4) \X (1..4) : e[1] # e[2] /\ e[2] # 1}
IdomStep == Compute("idoms", LAMBDA e : Pf!ComputeIdoms(1..4, e, 1))

\* The blocks the entry leads to on paths that avoid one block.
Reached(edges, without) ==
    LET Grow[n \in 0..4] ==
            IF n = 0 THEN {b \in {1} : b # without}
            ELSE LET r == Grow[n - 1] IN {b \in 1..4 : b # without /\ (b \in r \/ \E a \in r : <<a, b>> \in edges)}
    IN  Grow[4]

\* For every block that can be reached, the immediate dominator is the strict
\* dominator that every other one dominates.
DominatorsAreRight ==
    Done("idoms") =>
        LET Doms(b) == {d \in 1..4 : b \notin Reached(input, d)}
        IN  \A b \in Reached(input, 0) \ {1} :
              /\ result.of[b] \in Doms(b) \ {b}
              /\ \A d \in Doms(b) \ {b} : d \in Doms(result.of[b])

-----------------------------------------------------------------------------
(* Functions of four blocks of one instruction that fall through, with every  *)
(* set of forward jumps over blocks (and, for the cap alone, a jump back).    *)

AfCategorised(api) == api # "quiet"
AfTagged(text) == text = "url"
SpReasons == <<"api_hash_candidate", "encoded_blob_hint", "high_priority_low_confidence", "malware_relevant_api_flow",
               "opaque_hint", "policy_all", "unclear_dispatch_structure", "unresolved_indirect_call", "unresolved_indirect_jump">>
SpRank(reason) == CHOOSE i \in DOMAIN SpReasons : SpReasons[i] = reason
Fl == INSTANCE Dataflow WITH FlagWriters <- {"cmp", "add"}, Flags <- <<"zf", "cf">>, Bits <- 6, MaxSet <- 3,
        ArgRegisters <- [Open |-> <<"c", "d">>, Load |-> <<"c">>, quiet |-> <<>>],
        Categorised <- AfCategorised, Tagged <- AfTagged, HeuristicStrings <- 1,
        ReasonRank <- SpRank, TargetCap <- 3

SsIns(mn, write, reads, mread, mwrite) ==
    [mn |-> mn, write |-> write, reads |-> reads, mread |-> mread, mwrite |-> mwrite, slot |-> ""]
SsKinds ==
    {SsIns("mov", "a", <<>>, FALSE, FALSE), SsIns("mov", "b", <<"a">>, FALSE, FALSE), SsIns("add", "a", <<"a", "b">>, FALSE, FALSE),
     SsIns("mov", "", <<"b">>, FALSE, TRUE), SsIns("mov", "b", <<>>, TRUE, FALSE), SsIns("cmp", "", <<"a">>, FALSE, FALSE)}
SsCode(kinds) == [i \in DOMAIN kinds |-> kinds[i] @@ ("va" :> i)]
SsCfg(n, jumps) ==
    [blocks |-> [i \in 1..n |-> [start |-> i, end |-> i + 1]],
     edges |-> [i \in 1..(n - 1) |-> [from |-> i, to |-> i + 1]] \o SetToSeq({[from |-> j[1], to |-> j[2]] : j \in jumps})]
SsaInputs ==
    {[kinds |-> <<k[1], k[2], k[3], k[4]>>, jumps |-> j, cap |-> c] :
        k \in [1..4 -> SsKinds], j \in {{<<1, 3>>}, {<<1, 4>>, <<2, 4>>}, {<<1, 3>>, <<2, 4>>}, {<<2, 4>>, <<3, 2>>}}, c \in {3, 5}}
SsaStep ==
    Compute("ssa", LAMBDA x :
        [whole |-> Fl!ProcessFunctionSlice(SsCode(x.kinds), SsCfg(4, x.jumps), 100),
         capped |-> Fl!BuildSsa(<<[start |-> 7, code |-> SsCode(x.kinds), cfg |-> SsCfg(4, x.jumps)]>>, {7}, x.cap)])

\* The sites whose writes of a storage reach an instruction, by the jumps.
ReachingSites(x, storage, at) ==
    LET writes(i) == storage \in Range(Fl!WriteStorages(x.kinds[i]))
        preds(i) == {i - 1} \cup {j[1] : j \in {k \in x.jumps : k[2] = i}}
        In[i \in 1..4] == IF i = 1 THEN {} ELSE UNION {IF writes(p) THEN {p} ELSE In[p] : p \in preds(i)}
    IN  In[at]
\* The sites behind a value: its own, or those its phi takes in.
SsSites(w) ==
    LET S[i \in DOMAIN w.values] ==
            IF w.values[i].source # "phi" THEN {w.values[i].site}
            ELSE UNION {S[j] : j \in {k \in 1..(i - 1) : <<w.values[k].id, w.values[i].id>> \in w.edges}}
    IN  S

\* Where blocks fall through and jumps go forward, the definitions a value is
\* linked to, phis opened, are exactly those that reach its instruction.
UseDefsAreReaching ==
    Done("ssa") /\ <<3, 2>> \notin input.jumps =>
        LET w == result.of.whole
            sites == SsSites(w)
        IN  \A i \in DOMAIN w.values :
                w.values[i].source # "phi" =>
                    LET ins == input.kinds[w.values[i].site]
                        used == Fl!ReadStorages(ins) \cup (IF ins.mread THEN {"mem"} ELSE {})
                    IN  UNION {sites[j] : j \in {k \in DOMAIN w.values : <<w.values[k].id, w.values[i].id>> \in w.edges}} =
                        UNION {ReachingSites(input, s, w.values[i].site) : s \in used}

\* A walk that stops at its cap has the values of the whole walk up to there,
\* and says that it stopped.
SsaCapIsPrefix ==
    Done("ssa") =>
        /\ IsPrefix(result.of.capped.values, result.of.whole.values)
        /\ Len(result.of.capped.values) < Len(result.of.whole.values) => result.of.capped.caps_hit

-----------------------------------------------------------------------------
(* Straight-line code over two registers and a slot, checked against a        *)
(* concrete run; and graphs of four blocks: a diamond, loops, a self-loop and  *)
(* two entries, with comparisons that refine their edges.                      *)

Asm(mn, write, reads, imm, slot, mread, mwrite) ==
    [address |-> 0, mn |-> mn, write |-> write, reads |-> reads, imm |-> imm, slot |-> slot, mread |-> mread,
     mwrite |-> mwrite, jump |-> FALSE, target |-> -1, base |-> "", disp |-> 0, rip |-> -1]
AsmLines ==
    {Asm("mov", "a", <<>>, 5, -1, FALSE, FALSE), Asm("mov", "b", <<>>, 2, -1, FALSE, FALSE), Asm("mov", "a", <<"b">>, -1, -1, FALSE, FALSE),
     Asm("add", "a", <<"a">>, 3, -1, FALSE, FALSE), Asm("sub", "a", <<"a">>, 4, -1, FALSE, FALSE), Asm("and", "a", <<"a">>, 6, -1, FALSE, FALSE),
     Asm("xor", "a", <<"a">>, -1, -1, FALSE, FALSE), Asm("shl", "a", <<"a">>, 1, -1, FALSE, FALSE), Asm("shr", "a", <<"a">>, 1, -1, FALSE, FALSE),
     Asm("mov", "", <<"a">>, -1, 1, FALSE, TRUE), Asm("mov", "b", <<>>, -1, 1, TRUE, FALSE), Asm("imul", "b", <<"c">>, -1, -1, FALSE, FALSE)}
\* Four instructions; addresses are given when the code is run.
LinearInputs == {<<a, b, c, d>> : a \in {x \in AsmLines : x.mn = "mov" \/ x.mn = "and"}, b \in AsmLines, c \in AsmLines, d \in AsmLines}
Addressed(code) == [i \in DOMAIN code |-> [code[i] EXCEPT !.address = i]]

\* What the machine does; -1 where the program reads what nobody set.
Bitand6(v) == 2 * (((v \div 2) % 2) + 2 * ((v \div 4) % 2))
RunLine(m, ins) ==
    LET src == IF ins.imm # -1 THEN ins.imm ELSE IF ins.mread THEN m["s"] ELSE IF ins.reads = <<>> THEN -1 ELSE m[ins.reads[1]]
        old == m["a"]
        Op(v) == IF old < 0 THEN -1 ELSE v % 64
        v == CASE ins.mn = "mov" -> src
               [] ins.mn = "add" -> Op(old + 3)
               [] ins.mn = "sub" -> Op(old - 4)
               [] ins.mn = "and" -> IF old < 0 THEN -1 ELSE Bitand6(old)
               [] ins.mn = "xor" -> 0
               [] ins.mn = "shl" -> Op(2 * old)
               [] ins.mn = "shr" -> IF old < 0 THEN -1 ELSE old \div 2
               [] OTHER -> -1
    IN  [m EXCEPT ![IF ins.mwrite THEN "s" ELSE ins.write] = v]
Machine(code) ==
    [n \in 0..Len(code) |-> FoldLeft(RunLine, [x \in {"a", "b", "c", "s"} |-> -1], SubSeq(code, 1, n))]

LinearStep == Compute("vsa_linear", LAMBDA code : Fl!AnalyzeLinear(Addressed(code), {5}, 9, 9))

\* Every value reported for straight-line code contains what the machine holds
\* there, as long as no move read an unknown value (the analysis then keeps the
\* old one) and no interval has wrapped.
StraightLineIsSound ==
    Done("vsa_linear") =>
        LET m == Machine(input)
            rows == result.of
            Set(k) == IF input[k].mwrite THEN "s" ELSE input[k].write
            clean(n) == \A k \in 1..n : ~(input[k].mn = "mov" /\ m[k][Set(k)] < 0)
        IN  \A i \in DOMAIN rows : LET r == rows[i] IN
              clean(r.site) /\ (\A j \in 1..i : rows[j].lo <= rows[j].hi) =>
                LET x == m[r.site][Set(r.site)] IN x >= 0 => r.lo <= x /\ x <= r.hi

-----------------------------------------------------------------------------
J(mn, target) == [Asm(mn, "", <<>>, -1, -1, FALSE, FALSE) EXCEPT !.jump = TRUE, !.target = target]
Cmp(imm) == Asm("cmp", "", <<"a">>, imm, -1, FALSE, FALSE)
Mov(v) == Asm("mov", "a", <<>>, v, -1, FALSE, FALSE)
Inc == Asm("add", "a", <<"a">>, 1, -1, FALSE, FALSE)
Blocks(next) ==
    {<<>>, <<Mov(1)>>, <<Mov(4), Cmp(2), J("jbe", next)>>, <<Inc>>, <<Inc, Cmp(3), J("jb", next)>>, <<Cmp(1), J("je", next)>>}
Edge(f, t, ty) == [from |-> f, to |-> t, type |-> ty]
Shapes ==
    {{Edge(1, 2, "fallthrough"), Edge(1, 3, "branch"), Edge(2, 4, "fallthrough"), Edge(3, 4, "fallthrough")},
     {Edge(1, 2, "fallthrough"), Edge(2, 3, "fallthrough"), Edge(3, 2, "branch"), Edge(3, 4, "fallthrough")},
     {Edge(1, 2, "fallthrough"), Edge(2, 2, "branch"), Edge(2, 3, "fallthrough"), Edge(3, 4, "fallthrough")},
     {Edge(1, 3, "branch"), Edge(2, 3, "fallthrough"), Edge(3, 4, "fallthrough"), Edge(4, 3, "branch")},
     {Edge(1, 2, "fallthrough"), Edge(2, 1, "branch"), Edge(2, 3, "branch"), Edge(3, 1, "branch")}}
CfgInputs ==
    {[cfg |-> [order |-> <<1, 2, 3, 4>>, edges |-> e, code |-> <<a, b, c, d>>], cap |-> n] :
        e \in Shapes, a \in Blocks(3), b \in Blocks(3), c \in Blocks(2), d \in {<<Inc>>}, n \in {4, 40}}
CfgStep == Compute("vsa_cfg", LAMBDA x : Fl!AnalyzeCfgFunction(x.cfg, {4}, x.cap, 3))

\* The rows stay within the limit, plus the one that says it was reached, and a
\* block whose visits were cut off has a row that says so.
BudgetIsTold ==
    Done("vsa_cfg") =>
        LET w == result.of
            caps == {w.rows[i].site : i \in {j \in DOMAIN w.rows : w.rows[j].loc = "loop_limit"}}
        IN  /\ Len(w.rows) <= input.cap + 1
            /\ Len(w.rows) = input.cap + 1 => w.rows[Len(w.rows)].loc = "analysis_budget"
            /\ \A b \in DOMAIN w.visits : w.visits[b] > 3 => b \in caps

\* When nothing was cut off the result is a fixed point: along every edge out of
\* a visited block, what the block leaves adds nothing to its successor's state.
\* (A successor that would start with nothing known is not visited at all.)
FixedPointIsStable ==
    Done("vsa_cfg") =>
        LET w == result.of
            cut == \E i \in DOMAIN w.rows : w.rows[i].kind = "cap"
            Out(b) == Fl!BlockRows(input.cfg.code[b], {4}, 1000, w, Fl!StateOf(w, b)).st
        IN  ~cut => \A e \in input.cfg.edges : e.from \in DOMAIN w.visits =>
              LET old == Fl!StateOf(w, e.to)
                  seen == Fl!RefineForEdge(Out(e.from), input.cfg.code[e.from], e)
                  Covers(x, y) == DOMAIN y \subseteq DOMAIN x
                                  /\ \A k \in DOMAIN y : ToSet(y[k].poss) \subseteq ToSet(x[k].poss)
              IN  Covers(old.regs, seen.regs) /\ Covers(old.stack, seen.stack)

-----------------------------------------------------------------------------
(* Four instructions of straight code: loads of strings and of imports, moves *)
(* through registers and a slot, and calls by address and by register.        *)

AfStrings == 10 :> "url" @@ 11 :> "path"
AfIns(mn, write, reads, mread, mwrite, rip, imm, call) ==
    [mn |-> mn, write |-> write, reads |-> reads, mread |-> mread, mwrite |-> mwrite,
     slot |-> IF mread \/ mwrite THEN "s" ELSE "", rip |-> rip, imm |-> imm, call |-> call]
\* imm: the address of a text with an index register that is zero.
AfKinds ==
    [load |-> AfIns("lea", "c", <<>>, FALSE, FALSE, 10, -1, FALSE), imm |-> AfIns("lea", "c", <<"d">>, FALSE, FALSE, -1, 11, FALSE),
     num |-> AfIns("mov", "c", <<>>, FALSE, FALSE, -1, 5, FALSE), copy |-> AfIns("mov", "d", <<"c">>, FALSE, FALSE, -1, -1, FALSE),
     back |-> AfIns("mov", "c", <<"d">>, FALSE, FALSE, -1, -1, FALSE), save |-> AfIns("mov", "", <<"c">>, FALSE, TRUE, -1, -1, FALSE),
     rest |-> AfIns("mov", "c", <<>>, TRUE, FALSE, -1, -1, FALSE), zero |-> AfIns("xor", "c", <<"c">>, FALSE, FALSE, -1, -1, FALSE),
     pop |-> AfIns("pop", "c", <<>>, FALSE, FALSE, -1, -1, FALSE), api |-> AfIns("mov", "a", <<>>, FALSE, FALSE, 20, -1, FALSE),
     clob |-> AfIns("mov", "a", <<>>, FALSE, FALSE, -1, 5, FALSE), callreg |-> AfIns("call", "", <<"a">>, FALSE, FALSE, -1, -1, TRUE),
     calladdr |-> AfIns("call", "", <<>>, FALSE, FALSE, 20, -1, TRUE), callthunk |-> AfIns("call", "", <<>>, FALSE, FALSE, -1, 30, TRUE)]
AfCode(names) == [i \in DOMAIN names |-> AfKinds[names[i]] @@ ("va" :> i)] \o <<[AfIns("jmp", "", <<>>, FALSE, FALSE, 21, -1, FALSE) EXCEPT !.imm = -1] @@ ("va" :> 30)>>
AfXrefs(names) ==
    {[kind |-> "import", role |-> IF names[i] = "api" THEN "operand" ELSE "call", from |-> i, symbol |-> "Open", target |-> 20] :
        i \in {j \in DOMAIN names : names[j] \in {"api", "calladdr"}}} \cup
    {[kind |-> "code", role |-> "call", from |-> i, symbol |-> "", target |-> 30] : i \in {j \in DOMAIN names : names[j] = "callthunk"}} \cup
    {[kind |-> "import", role |-> "operand", from |-> 30, symbol |-> "Load", target |-> 21]}
ApiInputs ==
    {n \o <<c>> : n \in [1..3 -> DOMAIN AfKinds], c \in {"callreg", "calladdr", "callthunk"}} \cup
    {<<a, b, "copy", "save", c, d>> : a \in {"load", "imm"}, b, c, d \in DOMAIN AfKinds}
ApiStep ==
    Compute("api_flows", LAMBDA names :
        Fl!BuildApiFlows([code |-> AfCode(names), strings |-> <<"url", "path">>], AfXrefs(names), <<>>, AfStrings, <<>>))

AfWriters(names, reg, at) == {i \in 1..(at - 1) : AfKinds[names[i]].write = reg}
\* A call whose argument was last written by a load of a string is reported
\* with that string, whatever the register held before.
DirectLoadsAreReported ==
    Done("api_flows") =>
        \A at \in DOMAIN input :
            LET w == AfWriters(input, "c", at)
            IN  input[at] \in {"calladdr", "callthunk"} /\ w # {} /\ input[Max(w)] \in {"load", "imm"} =>
                    \E i \in DOMAIN result.of.rows :
                        LET r == result.of.rows[i]
                        IN  r.site = at /\ r.register = "c" /\ r.mode = "proven" /\ r.value = IF input[Max(w)] = "load" THEN "url" ELSE "path"

\* A call through a register is given an API only if the last write of the
\* register loaded that import.
RegisterCallsAreFresh ==
    Done("api_flows") =>
        \A i \in DOMAIN result.of.rows :
            LET at == result.of.rows[i].site
                w == AfWriters(input, "a", at)
            IN  input[at] = "callreg" => w # {} /\ input[Max(w)] = "api"

\* The registers and the slot as the processor leaves them before an
\* instruction: a text, or "other"; and whether a plain move copied an "other".
AfMachine(names, at) ==
    FoldLeft(LAMBDA m, n :
            CASE n = "load" -> [m EXCEPT !.c = "url"]
              [] n = "imm" -> [m EXCEPT !.c = "path"]
              [] n = "num" -> [m EXCEPT !.c = "other", !.moved = TRUE]
              [] n = "copy" -> [m EXCEPT !.d = m.c, !.moved = @ \/ m.c = "other"]
              [] n = "back" -> [m EXCEPT !.c = m.d, !.moved = @ \/ m.d = "other"]
              [] n = "save" -> [m EXCEPT !.s = m.c, !.moved = @ \/ m.c = "other"]
              [] n = "rest" -> [m EXCEPT !.c = m.s, !.moved = @ \/ m.s = "other"]
              [] n \in {"zero", "pop"} -> [m EXCEPT !.c = "other"]
              [] OTHER -> m,
        [c |-> "other", d |-> "other", s |-> "other", moved |-> FALSE], SubSeq(names, 1, at - 1))
\* A proven flow names the text its register holds at the call, as long as no
\* plain move has copied something the analysis does not know.
StringsFollowMoves ==
    Done("api_flows") =>
        \A i \in DOMAIN result.of.rows :
            LET r == result.of.rows[i]
                m == AfMachine(input, r.site)
            IN  r.mode = "proven" /\ ~m.moved => r.value = m[r.register]

-----------------------------------------------------------------------------
(* Two functions with up to three indirect transfers, hints, flows, dossiers  *)
(* and switches, and a budget of three targets.                               *)

SpIns == {[va |-> v, function |-> IF v < 3 THEN 1 ELSE 2, call |-> k = "call", jump |-> k = "jump", direct |-> k = "direct"] :
            v \in 1..4, k \in {"call", "jump", "direct", "other"}}
SpIrs == {<<a, b, c>> : a \in {i \in SpIns : i.va = 1}, b \in {i \in SpIns : i.va = 2}, c \in {i \in SpIns : i.va = 3}}
SpInput(policy, ir, imports, hints, flows, dossiers, structured) ==
    [policy |-> policy, ir |-> ir, imports |-> imports, resolved |-> IF 1 \in imports THEN {2} ELSE {}, hints |-> hints, flows |-> flows, dossiers |-> dossiers,
     structured |-> structured, functions |-> <<1, 2, 3, 4>>, recovered |-> {2}]
SecondInputs ==
    {SpInput(p, ir, imp, h, f, d, s) :
        p \in {"auto", "all", "off"}, ir \in SpIrs, imp \in {{}, {1}, {2, 3}},
        h \in {<<>>, <<[function |-> 1, kind |-> "api_hash_candidate", site |-> 7], [function |-> 3, kind |-> "opaque_hint", site |-> -1]>>},
        f \in {<<>>, <<[function |-> 2, malware |-> TRUE, relevance |-> "low", site |-> 3], [function |-> 2, malware |-> TRUE, relevance |-> "high", site |-> 3],
                       [function |-> 1, malware |-> FALSE, relevance |-> "high", site |-> 1]>>},
        d \in {<<>>, <<[function |-> 4, low |-> TRUE, score |-> 90], [function |-> 3, low |-> TRUE, score |-> 49]>>},
        s \in {<<>>, <<[function |-> 2, switches |-> <<9>>], [function |-> 1, switches |-> <<>>]>>}}
SecondStep == Compute("second_pass", Fl!RunSecondPass)

\* Every indirect call or jump the first pass left open is an uncertainty of
\* the report, unless the pass was switched off, was told to take every
\* function, or says that it hit its cap.
OpenSitesAreTold ==
    Done("second_pass") /\ input.policy = "auto" /\ result.of.status = "completed" =>
        \A ins \in Fl!UnresolvedSites(input) :
            \E i \in DOMAIN result.of.uncertainties : result.of.uncertainties[i].site = ins.va

\* Within its budget, the pass takes the best: nothing it has no room for has
\* a higher priority than a target, and the functions it has no target for are
\* the skipped ones.
BudgetTakesTheBest ==
    Done("second_pass") /\ input.policy = "auto" =>
        LET candidates == Range(Fl!AutoCandidates(input))
            targets == Range(result.of.targets)
        IN  /\ \A c \in candidates \ targets, t \in targets : c.priority <= t.priority
            /\ Cardinality({c.function : c \in candidates} \ {t.function : t \in targets}) = result.of.skipped
            /\ result.of.eligible = result.of.analyzed + result.of.skipped

-----------------------------------------------------------------------------
(* The C of straight-line code: up to three instructions on four registers    *)
(* and two cells of memory, and a return.                                     *)

DcPrototypes == [open |-> [args |-> <<"path", "mode">>, result |-> "handle"]]
Dc == INSTANCE Decompiler WITH Prototypes <- DcPrototypes, Selected <- 2, Prologue <- 3

DcReg(n) == Dc!Reg(n, 64)
DcIns(m, ops) == [m |-> m, cc |-> "", ops |-> ops, target |-> 0, flows |-> <<>>]
DcRet == DcIns("ret", <<>>)
DcCode(s) == [k \in DOMAIN s |-> s[k] @@ [at |-> k]]
DcCells == {Dc!Mem(DcReg("rdx"), 0), Dc!Mem(DcReg("rdx"), 8)}
DcMenu ==
    {DcIns("mov", <<DcReg(p[1]), DcReg(p[2])>>) : p \in {<<"rax", "rcx">>, <<"rbx", "rax">>, <<"rcx", "rbx">>, <<"rax", "rbx">>}} \cup
    {DcIns("mov", <<c, DcReg("rbx")>>) : c \in DcCells} \cup {DcIns("mov", <<DcReg("rcx"), c>>) : c \in DcCells} \cup
    {DcIns("mov", <<DcReg("rcx"), Dc!Imm(3)>>), DcIns("add", <<DcReg("rax"), DcReg("rcx")>>), DcIns("sub", <<DcReg("rbx"), DcReg("rax")>>),
     DcIns("xor", <<DcReg("rax"), DcReg("rax")>>), DcIns("lea", <<DcReg("rcx"), Dc!Mem(DcReg("rax"), 2)>>), DcIns("inc", <<DcReg("rbx")>>),
     DcIns("not", <<DcReg("rax")>>), DcIns("neg", <<DcReg("rbx")>>), DcIns("call", <<>>)}
StraightInputs == {DcCode(Append(s, DcRet)) : s \in BoundedSeq(DcMenu, 3)}
DcLift(code, loops) ==
    Dc!LiftFunction([start |-> 1, end |-> Len(code) + 1], [code |-> code, loops |-> loops, ssa |-> <<>>, edges |-> <<>>, abi |-> "win64"])
StraightStep == Compute("straight", LAMBDA code : DcLift(code, {}))

(* Both sides on a word of 16 values; s is [cells, calls]: what the registers *)
(* and the memory hold and how many calls were made.  A call returns 9.       *)
DcWord == 16
DcOp(op, a, b) == (IF op = "+" THEN a + b ELSE a - b) % DcWord
DcCell(o) == IF o.k = "reg" THEN o.n ELSE IF o.v = 0 THEN "mem" ELSE "mem8"
DcVal(s, o) == IF o.k = "imm" THEN o.v ELSE s.cells[DcCell(o)]
DcSet(s, o, v) == [s EXCEPT !.cells[DcCell(o)] = v]
DcStart == [cells |-> "rax" :> 1 @@ "rbx" :> 6 @@ "rcx" :> 11 @@ "rdx" :> 5 @@ "mem" :> 7 @@ "mem8" :> 2, calls |-> 0]

DcExec(s, i) ==
    LET d == i.ops[1]
        e == i.ops[2]
    IN  CASE i.m = "mov" -> DcSet(s, d, DcVal(s, e))
          [] i.m = "lea" -> DcSet(s, d, DcOp("+", DcVal(s, e.sub[1]), e.v))
          [] i.m = "xor" -> DcSet(s, d, 0)
          [] i.m \in {"add", "sub"} -> DcSet(s, d, DcOp(Dc!Compound[i.m], DcVal(s, d), DcVal(s, e)))
          [] i.m = "inc" -> DcSet(s, d, DcOp("+", DcVal(s, d), 1))
          [] i.m = "not" -> DcSet(s, d, DcWord - 1 - DcVal(s, d))
          [] i.m = "neg" -> DcSet(s, d, DcOp("-", 0, DcVal(s, d)))
          [] i.m = "call" -> [cells |-> [n \in DOMAIN s.cells |-> IF n = "rax" THEN 9 ELSE IF n \in Dc!CallerSaved THEN 14 ELSE s.cells[n]],
                              calls |-> s.calls + 1]
          [] OTHER -> s

RECURSIVE DcEval(_, _), DcCalls(_)
DcEval(s, e) ==
    CASE e.k = "bin" -> DcOp(e.n, DcEval(s, e.sub[1]), DcEval(s, e.sub[2]))
      [] e.k = "un" -> DcWord - 1 - DcEval(s, e.sub[1])
      [] e.k = "call" -> 9
      [] OTHER -> DcVal(s, e)
DcCalls(e) == FoldLeft(LAMBDA n, x : n + DcCalls(x), IF e.k = "call" THEN 1 ELSE 0, e.sub)
DcRun(s, stmt) ==
    LET e == stmt.text.sub[1]
        v == IF stmt.text.op = "+" \/ stmt.text.op = "-" THEN DcOp(stmt.text.op, DcVal(s, stmt.text.lhs), DcEval(s, e)) ELSE DcEval(s, e)
        to == IF stmt.text.form = "return" THEN DcReg("rax") ELSE stmt.text.lhs
    IN  IF stmt.removed THEN s ELSE [DcSet(s, to, v) EXCEPT !.calls = @ + DcCalls(e)]

(* What an instruction reads and writes besides what it changes in place, and *)
(* what a call leaves undefined.                                              *)
DcInPlace(i) == i.m \in {"add", "sub", "inc"}
DcWrites(i) == IF i.m = "call" THEN {"rax"} ELSE IF i.ops = <<>> THEN {} ELSE {DcCell(i.ops[1])}
DcTakes(o) == IF o.k = "imm" THEN {} ELSE IF o.k = "reg" THEN {o.n} ELSE {DcCell(o), o.sub[1].n}
DcReads(i) ==
    CASE i.m = "ret" -> {"rax"}
      [] i.m \in {"not", "neg"} -> DcTakes(i.ops[1])
      [] i.m = "lea" -> {i.ops[2].sub[1].n}
      [] i.m = "xor" \/ Len(i.ops) < 2 -> {}
      [] OTHER -> DcTakes(i.ops[2])
DcUndefined(code, k) ==
    {n \in Dc!CallerSaved \ {"rax"} :
        \E j \in 1..(k - 1) : code[j].m = "call" /\ \A l \in (j + 1)..(k - 1) : DcWrites(code[l]) # {n}}
ObeysCalls(code) ==
    \A k \in DOMAIN code : (DcReads(code[k]) \cup (IF DcInPlace(code[k]) THEN DcWrites(code[k]) ELSE {})) \cap DcUndefined(code, k) = {}

\* The cells whose content is an expression before the k-th instruction; the
\* others stand for themselves.
DcHeld(code, k) ==
    FoldLeft(LAMBDA h, i :
            CASE i.m = "call" -> (h \ Dc!CallerSaved) \cup {"rax"}
              [] i.m \in {"mov", "lea", "xor", "not", "neg"} /\ DcCell(i.ops[1]) # "mem8" -> h \cup DcWrites(i)
              [] OTHER -> h, {}, SubSeq(code, 1, k - 1))
\* A cell that stands for itself is not written once it was read.
OperandsStay(code) ==
    \A j, k \in DOMAIN code :
        j < k \/ (j = k /\ code[j].m \in {"not", "neg"}) => (DcReads(code[j]) \ DcHeld(code, j)) \cap DcWrites(code[k]) = {}
DcReaders(code, k) ==
    LET over == {l \in (k + 1)..Len(code) : DcWrites(code[k]) \subseteq DcWrites(code[l])}
    IN  {l \in (k + 1)..Min(over \cup {Len(code)}) : DcWrites(code[k]) \subseteq DcReads(code[l])}
EachIsReadOnce(code) ==
    \A k \in DOMAIN code : code[k].m # "ret" /\ DcWrites(code[k]) \cap {"mem", "mem8"} = {} =>
        Cardinality(DcReaders(code, k)) = 1 /\ ~DcInPlace(code[k])

\* Code that never overwrites what an expression it still needs stands for:
\* the C returns what the code returns and leaves in memory what the code
\* leaves, whatever was put into one expression and taken out; and it makes
\* the calls of the code when every value is read once.
ComposedMeansTheSame ==
    Done("straight") /\ ObeysCalls(input) /\ OperandsStay(input) =>
        LET machine == FoldLeft(DcExec, DcStart, input)
            c == FoldLeft(DcRun, DcStart, result.of.stmts)
        IN  /\ \A n \in {"rax", "mem", "mem8"} : c.cells[n] = machine.cells[n]
            /\ EachIsReadOnce(input) => c.calls = machine.calls

\* An argument register is declared exactly if the first instructions move or
\* add its content somewhere before they write it.
ArgsAreRead ==
    Done("straight") =>
        LET first == SubSeq(input, 1, Min({3, Len(input)}))
            sources(i) == IF Len(i.ops) = 2 /\ i.ops[2].k = "reg" THEN {i.ops[2].n} ELSE {}
            writes(i) == IF i.ops # <<>> /\ i.ops[1].k = "reg" THEN {i.ops[1].n} ELSE {}
            needed == {n \in {"rcx", "rdx", "r8", "r9"} :
                        \E k \in DOMAIN first : n \in sources(first[k]) /\ \A j \in 1..(k - 1) : n \notin writes(first[j])}
        IN  Range(result.of.args) = needed

\* The comment on LiveValue says that a value read by several statements keeps
\* the statement that made it; a call that makes such a value is then written
\* once, also when its register is used again later.
ManyReadsKeepTheCall ==
    Done("straight") =>
        \A k \in DOMAIN input :
            /\ input[k].m = "call" /\ Cardinality(DcReaders(input, k)) > 1
            /\ \E l \in (k + 1)..Len(input) : DcWrites(input[l]) = {"rax"}
            => ~result.of.stmts[k].removed

-----------------------------------------------------------------------------
(* The C of code with branches: five instructions, the last one a return.     *)

ControlKinds ==
    {DcIns("mov", <<DcReg("rbx"), Dc!Imm(1)>>), DcRet} \cup {[DcIns("jcc", <<>>) EXCEPT !.target = t, !.cc = "e"] : t \in 1..5} \cup
    {[DcIns("jmp", <<>>) EXCEPT !.target = t] : t \in {1, 2, 5}}
ControlInputs == {DcCode(Append(s, DcRet)) : s \in [1..4 -> ControlKinds]}
ControlLoops(code) ==
    LET cfg == PfAll!BuildCfg([start |-> 1, end |-> 6],
                [i \in DOMAIN code |-> [va |-> i, size |-> 1, kind |-> code[i].m, target |-> IF code[i].target = 0 THEN -1 ELSE code[i].target]])
    IN  {[from |-> e.from, to |-> e.to] : e \in Range(PfAll!NaturalBackedges(cfg))}
ControlStep == Compute("control", LAMBDA code : [loops |-> ControlLoops(code)] @@ DcLift(code, ControlLoops(code)))

(* The reader of the C: a brace closes the innermost open one, the end of     *)
(* while (1) goes back, a label or an opening brace is passed.                *)
DcOpens == {p \in DOMAIN result.of.lines : result.of.lines[p].k \in {"do", "loop"}}
DcCloses == {p \in DOMAIN result.of.lines : result.of.lines[p].k \in {"while", "close"}}
DcDepth(p) == Cardinality({q \in DcOpens : q <= p}) - Cardinality({q \in DcCloses : q <= p})
DcOpenOf(p) == Max({q \in DcOpens : q < p /\ DcDepth(q) = DcDepth(p) + 1})
RECURSIVE DcSettle(_)
DcSettle(p) ==
    IF p > Len(result.of.lines) THEN 0
    ELSE CASE result.of.lines[p].k \in {"stmt", "while"} -> result.of.lines[p].at
           [] result.of.lines[p].k = "close" -> DcSettle(DcOpenOf(p))
           [] OTHER -> DcSettle(p + 1)
DcGoto(t) ==
    LET labels == {p \in DOMAIN result.of.lines : result.of.lines[p] = [k |-> "label", at |-> t]}
    IN  IF labels = {} THEN 0 ELSE DcSettle(CHOOSE p \in labels : TRUE)
NextInC(p) ==
    LET i == input[result.of.lines[p].at]
    IN  IF result.of.lines[p].k = "while" THEN {DcSettle(DcOpenOf(p)), DcSettle(p + 1)}
        ELSE (IF i.m \in {"jmp", "jcc"} THEN {DcGoto(i.target)} ELSE {}) \cup (IF i.m \in {"mov", "jcc"} THEN {DcSettle(p + 1)} ELSE {})
NextInCode(k) ==
    (IF input[k].m \in {"jmp", "jcc"} THEN {input[k].target} ELSE {}) \cup (IF input[k].m \in {"mov", "jcc"} THEN {k + 1} ELSE {})

\* Loops of one way back each, one inside the other or apart, and no other
\* jump to the top of one that is closed by a condition.
Nested(loops) ==
    \A a, b \in loops : a # b =>
        a.from < b.to \/ b.from < a.to \/ (a.to < b.to /\ b.from < a.from) \/ (b.to < a.to /\ a.from < b.from)
Structured(code, loops) ==
    /\ Nested(loops)
    /\ \A e \in loops : IF code[e.from].m = "jmp" THEN e.to < e.from
                        ELSE \A k \in DOMAIN code : code[k].target = e.to => k = e.from

\* The reader of such a function goes from each statement where the processor
\* goes from its instruction: each brace closes its own loop, no goto lost its
\* label, and the condition of a loop is tested where the code tests it.
CFollowsTheCode ==
    Done("control") /\ Structured(input, result.of.loops) =>
        \A p \in DOMAIN result.of.lines :
            result.of.lines[p].k \in {"stmt", "while"} => NextInC(p) = NextInCode(result.of.lines[p].at)

-----------------------------------------------------------------------------
(* The types of three registers along up to three edges, with a call whose    *)
(* prototype is known; and three functions to choose from.                    *)

TypeEdges ==
    {[from |-> "", to |-> t, tag |-> g] : t \in {"rcx", "rdx", "rsi"}, g \in {"", "size"}} \cup {[from |-> "", to |-> "rcx", tag |-> "text"]} \cup
    {[from |-> f, to |-> t, tag |-> ""] : f \in {"rcx", "rdx", "rax"}, t \in {"rcx", "rdx", "rsi"}}
OpenFlow(i, r, v) == [api |-> "open", index |-> i, reg |-> r, value |-> v]
OpenFlows == {<<>>, <<OpenFlow(1, "rdx", Dc!Unknown), OpenFlow(0, "", Dc!Imm(7))>>, <<OpenFlow(0, "rcx", Dc!Imm(7)), OpenFlow(0, "rdx", Dc!Imm(8))>>}
TypeInputs == {[edges |-> e, flows |-> f] : e \in BoundedSeq({x \in TypeEdges : x.from # x.to}, 3), f \in OpenFlows}
TypeStep ==
    Compute("c_types", LAMBDA x :
        Dc!LiftFunction([start |-> 1, end |-> 3],
            [code |-> DcCode(<<[DcIns("call", <<>>) EXCEPT !.flows = x.flows], DcRet>>), loops |-> {}, ssa |-> <<"rax", "rcx", "rdx", "rsi">>,
             edges |-> x.edges, abi |-> "win64"]))

\* A register has the default type exactly if no type reaches it along the
\* edges, so the rounds are enough however the edges are listed; one that an
\* edge or the prototype gives a type keeps the first it is given; and an
\* argument of the call is what was recovered for its place.
TypesFollowEdges ==
    Done("c_types") =>
        LET types == result.of.types
            own == {s \in {"rax", "rcx", "rdx", "rsi"} :
                      (\E e \in Range(input.edges) : e.to = s /\ e.tag # "") \/ (input.flows # <<>> /\ (s = "rax" \/ \E f \in Range(input.flows) : f.reg = s))}
            Typed[n \in 0..3] == IF n = 0 THEN own ELSE Typed[n - 1] \cup {e.to : e \in {x \in Range(input.edges) : x.from \in Typed[n - 1]}}
            call == result.of.stmts[2].text.sub[1]
        IN  /\ {s \in DOMAIN types : types[s] # "uint64_t"} = Typed[3]
            /\ \A i \in DOMAIN input.edges :
                 input.edges[i].tag # "" /\ (\A j \in 1..(i - 1) : input.edges[j].to # input.edges[i].to \/ input.edges[j].tag = "") =>
                     types[input.edges[i].to] = input.edges[i].tag
            /\ \A s \in Typed[3] \ own : \E e \in Range(input.edges) : e.to = s /\ e.from # "" /\ types[e.from] = types[s]
            /\ input.flows # <<>> => types["rax"] = result.of.result /\ Len(call.sub) = 2
            /\ \A k \in DOMAIN input.flows :
                 (\A j \in 1..(k - 1) : input.flows[j].index # input.flows[k].index) /\ input.flows[k].value # Dc!Unknown =>
                     call.sub[input.flows[k].index + 1] = input.flows[k].value

ChoiceInputs == {[decompile_c |-> c, density |-> d] : c \in {"off", "default", "all"}, d \in [1..4 -> 0..3]}
ChoiceStep ==
    Compute("c_choice", LAMBDA x :
        Dc!BuildDecompiledC([profile |-> "native-max", decompile_c |-> x.decompile_c], [k \in 1..4 |-> k], x.density))

\* No function that was left out has more recovered calls than one that was
\* taken, and the earlier of two alike is taken first.
DensestAreTaken ==
    Done("c_choice") =>
        \A k \in DOMAIN result.of, f \in 1..4 :
            (\A j \in 1..k : result.of[j] # f) => input.density[f] <= input.density[result.of[k]] /\ (input.density[f] = input.density[result.of[k]] => result.of[k] < f)

-----------------------------------------------------------------------------
\* The control flow that is reported is the one that runs: listing, blocks and
\* loops, the targets of indirect calls, and where a switch goes.
FlowIsWhatRuns ==
    /\ ListingIsWholeOrCapped /\ CallsSeedFunctions /\ TargetsAreStrongest
    /\ BlocksAreStraight /\ LoopsHaveHeaders /\ LoopsAreFound /\ CirclesAreShown
    /\ TablesAreReadAsWritten /\ SwitchFollowsProcessor /\ CompareTreeFollowsProcessor
    /\ DominatorsAreRight /\ CFollowsTheCode

\* The values that are reported are those the code computes, as far as each pass
\* promises, and a pass that gives up says so.
ValuesAreSound ==
    /\ UseDefsAreReaching /\ SsaCapIsPrefix
    /\ StraightLineIsSound /\ BudgetIsTold /\ FixedPointIsStable
    /\ DirectLoadsAreReported /\ RegisterCallsAreFresh /\ StringsFollowMoves
    /\ OpenSitesAreTold /\ BudgetTakesTheBest
    /\ ComposedMeansTheSame /\ ArgsAreRead /\ TypesFollowEdges /\ DensestAreTaken
=============================================================================
