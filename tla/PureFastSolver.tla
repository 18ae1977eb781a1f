--------------------------- MODULE PureFastSolver ---------------------------
(***************************************************************************)
(* src/src/concolic/pure_rust.rs: PureRustFastSolver, tier 1 of the solve  *)
(* ladder.  It matches `input byte <rel> constant` and answers from a      *)
(* table, with u8 / i8 arithmetic.  The path constraints of the query are  *)
(* not looked at.                                                          *)
(***************************************************************************)
EXTENDS Integers

CONSTANTS
    ExtBits,      \* bits a ZeroExt / SignExt adds to the byte
    InputBytes    \* input_bytes of the query

Byte == 0..255

\* The side of the comparison that is not the constant (SideKind, with the
\* operator that widens the byte kept apart because its value depends on it).
Shapes == {"Var", "ZeroExt", "SignExt", "Other"}
Width(shape) == IF shape \in {"ZeroExt", "SignExt"} THEN 8 + ExtBits ELSE 8
ConstsOf(shape) == 0..(2^Width(shape) - 1)

\* The comparisons of the expression DAG, and the ones a negation makes.
ExprRels == {"Eq", "Ult", "Ule", "Slt", "Sle"}
Invert(rel) ==
    CASE rel = "Eq"  -> "Ne"
      [] rel = "Ult" -> "Uge"
      [] rel = "Ule" -> "Ugt"
      [] rel = "Slt" -> "Sge"
      [] rel = "Sle" -> "Sgt"

\* bits is the declared width of the constant, which may disagree.
Queries ==
    UNION {[rel : ExprRels, negated : BOOLEAN, swapped : BOOLEAN, shape : {s},
            c : ConstsOf(s), widthsAgree : BOOLEAN, index : {InputBytes - 1, InputBytes}]
           : s \in Shapes}

NoByte == -1                                   \* None
U8(v)  == IF v \in Byte THEN v ELSE NoByte      \* u8::try_from(v).ok()
AsI8(v) == IF v >= 128 THEN v - 256 ELSE v      \* v as i8
AsU8(v) == v % 256                             \* v as u8
CheckedI8(v) == IF v \in -128..127 THEN AsU8(v) ELSE NoByte

\* A byte with `byte <rel> c`.
FlipVarConst(rel, k) ==
    LET c == k % 256
    IN  CASE rel = "Ne"  -> IF c = 0 THEN 1 ELSE 0
          [] rel = "Ult" -> U8(c - 1)
          [] rel = "Ugt" -> U8(c + 1)
          [] rel = "Slt" -> CheckedI8(AsI8(c) - 1)
          [] rel = "Sgt" -> CheckedI8(AsI8(c) + 1)
          [] rel \in {"Sle", "Sge"} -> CheckedI8(c)   \* i8::try_from of 0..255
          [] OTHER -> c

\* A byte with `c <rel> byte`.
FlipConstVar(rel, k) ==
    LET c == k % 256
    IN  CASE rel = "Ne"  -> IF c = 0 THEN 1 ELSE 0
          [] rel = "Ult" -> U8(c + 1)
          [] rel = "Ugt" -> U8(c - 1)
          [] rel = "Slt" -> CheckedI8(AsI8(c) + 1)
          [] rel = "Sgt" -> CheckedI8(AsI8(c) - 1)
          [] rel \in {"Sle", "Sge"} -> CheckedI8(c)
          [] OTHER -> c

\* Results: NoByte is Unsat, a byte is the model, Refused the Err exits.
Refused == -2

SolveTrivial(q) ==
    LET rel == IF q.negated THEN Invert(q.rel) ELSE q.rel
    IN  IF q.shape = "Other" \/ ~q.widthsAgree \/ q.index >= InputBytes THEN Refused
        ELSE IF q.swapped THEN FlipConstVar(rel, q.c) ELSE FlipVarConst(rel, q.c)

-----------------------------------------------------------------------------
(* The reference: bit-vector semantics of the target                       *)

\* The value the widened byte b has.
Widened(shape, b) ==
    IF shape = "SignExt" /\ b >= 128 THEN b + 2^(8 + ExtBits) - 256 ELSE b

Signed(v, w) == IF v >= 2^(w - 1) THEN v - 2^w ELSE v

Compare(rel, a, b, w) ==
    CASE rel = "Eq"  -> a = b
      [] rel = "Ult" -> a < b
      [] rel = "Ule" -> a =< b
      [] rel = "Slt" -> Signed(a, w) < Signed(b, w)
      [] rel = "Sle" -> Signed(a, w) =< Signed(b, w)

Satisfies(q, b) ==
    LET v == Widened(q.shape, b)
        w == Width(q.shape)
    IN  (IF q.swapped THEN Compare(q.rel, q.c, v, w) ELSE Compare(q.rel, v, q.c, w)) # q.negated

\* The relation that is wanted, and what answer r says of a comparison of an
\* unwidened byte: a model makes the branch go the wanted way, and Unsat is a
\* proof unless the relation is one of the two whose constant is converted.
Wanted(q) == IF q.negated THEN Invert(q.rel) ELSE q.rel
ModelHolds(q, r) == q.shape = "Var" /\ r \notin {NoByte, Refused} => r \in Byte /\ Satisfies(q, r)
UnsatHolds(q, r) ==
    q.shape = "Var" /\ Wanted(q) \notin {"Sle", "Sge"} /\ r = NoByte => \A b \in Byte : ~Satisfies(q, b)

=============================================================================
