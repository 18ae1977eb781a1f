---------------------------- MODULE SolveLadder ----------------------------
(* The solver tiers of a branch query.                                       *)
EXTENDS Integers, Sequences, SequencesExt

-----------------------------------------------------------------------------
(***************************************************************************)
(* src/src/concolic/smt2_backend.rs and the script of smt2_emit.rs: the    *)
(* external Z3 tier.  The emitter ends every query with the same three     *)
(* commands; Z3 answers them in order; parse_z3_response turns the lines   *)
(* of stdout into a report.                                                *)
(*                                                                         *)
(* A line is a record.  Its layout is kept only where the parser depends   *)
(* on it: Z3 prints the value of a define-fun on the line after the name.  *)
(***************************************************************************)

CONSTANTS
    InputBytes, \* input_bytes of the query
    Names       \* names of the assertions: c_0000 ... and c_TGT

ASSUME InputBytesAssumption == InputBytes \in Nat

Bytes == 0..(InputBytes - 1)
Value == 0..1                                    \* values a byte can take
SolveStatus == {"Sat", "Unsat", "Unknown", "Timeout", "LoweringError"}

NoModel == [b \in {} |-> 0]
Report(status, model, core, named) ==
    [status |-> status, model |-> model, core |-> core, named |-> named]
Unanswered(status) == Report(status, NoModel, {}, FALSE)

\* is_authoritative_unreachable of a report.
IsAuthoritative(r) == r.status = "Unsat" /\ r.named /\ r.core # {}

-----------------------------------------------------------------------------
(* The script and what Z3 prints for it                                    *)

OutputLine(kind) == [kind |-> kind]
Define(b)        == [kind |-> "define", byte |-> b]   \* (define-fun input_b<b> () (_ BitVec 8)
Literal(v)       == [kind |-> "literal", value |-> v] \*     #x..)
Core(ns)         == [kind |-> "core", names |-> ns]

\* What Z3 concluded about the asserted constraints.
Z3Answers(satisfiable) ==
    IF satisfiable
    THEN [verdict : {"sat"}, model : [Bytes -> Value], core : {{}}]
            \cup [verdict : {"unknown", "timeout"}, model : {NoModel}, core : {{}}]
    ELSE [verdict : {"unsat"}, model : {NoModel}, core : SUBSET Names \ {{}}]
            \cup [verdict : {"unknown", "timeout"}, model : {NoModel}, core : {{}}]

\* The model, two lines a byte.
ModelLines(m) ==
    [i \in 1..(2 * InputBytes) |->
        LET b == (i - 1) \div 2 IN IF i % 2 = 1 THEN Define(b) ELSE Literal(m[b])]

\* The lines each command prints; a command that does not apply to the
\* verdict prints an error and the script goes on.
CheckSat(a)     == <<OutputLine(a.verdict)>>
GetModel(a)     == IF a.verdict = "sat" THEN ModelLines(a.model) ELSE <<OutputLine("error")>>
GetUnsatCore(a) == IF a.verdict = "unsat" THEN <<Core(a.core)>> ELSE <<OutputLine("error")>>

\* The commands of the script, in the order emit_full writes them.
Stdout(a) == CheckSat(a) \o GetModel(a) \o GetUnsatCore(a)

-----------------------------------------------------------------------------
(* parse_z3_response                                                       *)

Kinds(out) == {out[i].kind : i \in 1..Len(out)}
StatusWords == {"sat", "unsat", "unknown", "timeout"}

\* The first status word of the output.
StatusWord(out) ==
    LET Status(i) == out[i].kind \in StatusWords
        First(i)  == Status(i) /\ \A j \in 1..(i - 1) : ~Status(j)
    IN  IF \E i \in 1..Len(out) : First(i)
        THEN out[CHOOSE i \in 1..Len(out) : First(i)].kind ELSE "none"

\* parse_model_input_bytes: a byte is 0 unless its define-fun line itself
\* carries a literal.
ParseModel(out) ==
    [b \in Bytes |->
        LET here == {i \in 1..Len(out) : out[i].kind = "define" /\ out[i].byte = b
                                            /\ "value" \in DOMAIN out[i]}
        IN  IF here = {} THEN 0 ELSE out[CHOOSE i \in here : \A j \in here : j =< i].value]

\* parse_unsat_core: the names of the first line that holds names only.
ParseCore(out) ==
    LET at == SelectInSeq(out, LAMBDA l : l.kind = "core")
    IN  IF at = 0 THEN {} ELSE out[at].names

ParseResponse(out) ==
    LET word == StatusWord(out)
        core == ParseCore(out)
    IN  IF word = "sat" THEN Report("Sat", ParseModel(out), {}, FALSE)
        ELSE IF word = "unsat" /\ core # {} /\ "error" \notin Kinds(out)
             THEN Report("Unsat", NoModel, core \cap Names, TRUE)
        ELSE Unanswered(IF word = "timeout" THEN "Timeout" ELSE "Unknown")

-----------------------------------------------------------------------------
(***************************************************************************)
(* src/src/concolic/ladder.rs: SolveLadder::solve, the cascade of solver   *)
(* tiers that answers one branch query and decides whether the branch is   *)
(* marked unreachable.  One step is one tier.                              *)
(*                                                                         *)
(* `truth' says how much of the query an input can satisfy: the whole path *)
(* with the flipped branch ("full"), only its backward slice ("slice"),    *)
(* only the target ("target"), or not even that ("none").                  *)
(***************************************************************************)

CONSTANTS Ladders   \* the backend lists to try: sequences of [tier, slice]

Tiers == {"ConstantFold", "PureFast", "Z3Quick", "Z3SlicedAssumptions", "Z3External", "Unknown"}

CanMarkUnreachable(tier) == tier \in {"Z3SlicedAssumptions", "Z3External"}

\* target: the asserted value of the target when it is a BoolConst, else "open";
\* constPath: every path constraint is BoolConst(true).
Queries ==
    {q \in [truth : {"full", "slice", "target", "none"},
            target : {"open", "true", "false"}, constPath : BOOLEAN] :
        /\ q.target = "false" => q.truth = "none"
        /\ q.target = "true" => q.truth # "none"
        /\ q.target = "true" /\ q.constPath => q.truth = "full"}

VARIABLES
    query, ladder,
    at,            \* next backend; 0 before the constant fold
    attempts,      \* of the backends and the fold, in order
    best,          \* best_authoritative: index of the attempt, 0 when none
    last,          \* last_report: index of the attempt, 0 when none
    outcome        \* the returned LadderOutcome, or Running

ladderVars == <<query, ladder, at, attempts, best, last, outcome>>

Running == [tier |-> "Unknown", report |-> Unanswered("Unknown"), marked |-> FALSE, done |-> FALSE]
Return(tier, report, marked) ==
    [tier |-> tier, report |-> report, marked |-> marked, done |-> TRUE]

\* z3: what the external process concluded, None for the other backends.
NoAnswer == [verdict |-> "none", model |-> NoModel, core |-> {}]
Attempt(tier, report, auth, z3) ==
    [tier |-> tier, report |-> report, auth |-> auth, z3 |-> z3]

ZeroVector == [b \in Bytes |-> 0]

LadderInit ==
    /\ query \in Queries /\ ladder \in Ladders
    /\ at = 0 /\ attempts = <<>> /\ best = 0 /\ last = 0 /\ outcome = Running

\* constant_fold, when the target is a constant: a satisfied query returns a
\* zero vector, an unsatisfied one seeds last_report, any other is left to the
\* backends.
ConstantFold ==
    /\ at = 0 /\ ~outcome.done
    /\ at' = 1
    /\ \/ /\ query.target = "true" /\ query.constPath
          /\ LET r == Report("Sat", ZeroVector, {}, FALSE)
             IN  /\ attempts' = <<Attempt("ConstantFold", r, FALSE, NoAnswer)>>
                 /\ outcome' = Return("ConstantFold", r, FALSE)
          /\ UNCHANGED last
       \/ /\ query.target = "false"
          /\ attempts' = <<Attempt("ConstantFold", Unanswered("Unsat"), FALSE, NoAnswer)>>
          /\ last' = 1
          /\ UNCHANGED outcome
       \/ /\ query.target = "open" \/ (query.target = "true" /\ ~query.constPath)
          /\ UNCHANGED <<attempts, last, outcome>>
    /\ UNCHANGED <<query, ladder, best>>

\* Whether the constraints handed to a backend can be satisfied.
Satisfiable(b) == query.truth = "full" \/ (b.slice /\ query.truth = "slice")

\* z3_backend.rs: the in-process solver, with the core it tracked (which can
\* be empty when no assumption is in it) and its ways of giving up.
InProcess(b) ==
    {Unanswered(s) : s \in {"Unknown", "Timeout", "LoweringError"}}
    \cup IF Satisfiable(b) THEN {Report("Sat", m, {}, FALSE) : m \in [Bytes -> Value]}
         ELSE {Report("Unsat", NoModel, c, c # {}) : c \in SUBSET Names}

\* pure_rust.rs looks at the target alone, and its Unsat is not a proof
\* (PureFastSolver, UnsatIsProof).
PureFast ==
    {Unanswered("Unknown"), Unanswered("Unsat")}
    \cup IF query.truth = "none" THEN {} ELSE {Report("Sat", ZeroVector, {}, FALSE)}

\* The external process can be missing or fail (an error), or stop after any
\* line of its answer: the exit status is not looked at.
External(b) ==
    {<<Unanswered("Unknown"), NoAnswer>>}
    \cup UNION {LET out == Stdout(a) IN
                    {<<ParseResponse(SubSeq(out, 1, n)), IF n = Len(out) THEN a ELSE NoAnswer>>
                     : n \in 0..Len(out)} : a \in Z3Answers(Satisfiable(b))}

Answers(b) ==
    IF b.tier = "PureFast" THEN {<<r, NoAnswer>> : r \in PureFast}
    ELSE IF b.tier = "Z3External" THEN External(b)
    ELSE {<<r, NoAnswer>> : r \in InProcess(b)}

\* Mutant: any Unsat of an eligible tier or of the fast tier counts as proof.
AuthoritativeBare(b, r) == r.status = "Unsat"

Authoritative(b, r) == CanMarkUnreachable(b.tier) /\ IsAuthoritative(r)

\* One backend: Sat returns, an authoritative Unsat is kept and the cascade
\* goes on, anything else only becomes the last report.
TryBackend ==
    /\ at \in 1..Len(ladder) /\ ~outcome.done
    /\ at' = at + 1
    /\ \E ans \in Answers(ladder[at]) :
        LET b == ladder[at]
            r == ans[1]
            auth == Authoritative(b, r)
        IN  /\ attempts' = Append(attempts, Attempt(b.tier, r, auth, ans[2]))
            /\ IF r.status = "Sat"
               THEN outcome' = Return(b.tier, r, FALSE) /\ UNCHANGED <<best, last>>
               ELSE /\ last' = Len(attempts')
                    /\ best' = IF auth THEN Len(attempts') ELSE best
                    /\ UNCHANGED outcome
    /\ UNCHANGED <<query, ladder>>

\* Mutant: the last report wins over the authoritative one.
FinishLast ==
    /\ at = Len(ladder) + 1 /\ ~outcome.done
    /\ outcome' = IF last # 0 THEN Return(attempts[last].tier, attempts[last].report, best # 0)
                  ELSE Return("Unknown", Unanswered("Unknown"), FALSE)
    /\ UNCHANGED <<query, ladder, at, attempts, best, last>>

\* No tier found a model.
Finish ==
    /\ at = Len(ladder) + 1 /\ ~outcome.done
    /\ outcome' = IF best # 0 THEN Return(attempts[best].tier, attempts[best].report, TRUE)
                  ELSE IF last # 0 THEN Return(attempts[last].tier, attempts[last].report, FALSE)
                  ELSE Return("Unknown", Unanswered("Unknown"), FALSE)
    /\ UNCHANGED <<query, ladder, at, attempts, best, last>>

LadderNext == ConstantFold \/ TryBackend \/ Finish

LadderSpec == LadderInit /\ [][LadderNext]_ladderVars

-----------------------------------------------------------------------------
(* Properties                                                              *)

Index == 1..Len(attempts)

\* A branch is marked unreachable only when no input takes its path and flips
\* it, although the tiers below 3 can be wrong and every tier may see only a
\* slice of the path.
MarkedIsUnreachable == outcome.marked => query.truth # "full"

\* ladder.rs:88-90: the final report is the attempt that found a model, else
\* the highest authoritative Unsat, else the last attempt; and nothing is tried
\* after a model.
OutcomeIsBestAttempt ==
    LET sat  == {i \in Index : attempts[i].report.status = "Sat"}
        auth == {i \in Index : attempts[i].auth}
        Picks(i) == outcome.tier = attempts[i].tier /\ outcome.report = attempts[i].report
    IN  outcome.done =>
            /\ sat \subseteq {Len(attempts)}
            /\ outcome.marked <=> (sat = {} /\ auth # {})
            /\ sat # {} => Picks(Len(attempts))
            /\ sat = {} /\ auth # {} => \E i \in auth : Picks(i) /\ \A j \in auth : j =< i
            /\ sat = {} /\ auth = {} =>
                 IF attempts # <<>> THEN Picks(Len(attempts)) ELSE outcome.tier = "Unknown"

\* ladder.rs:135-136: "Stops at the first `Sat` or the first authoritative
\* `Unsat` from a tier >= 3".
StopsAtAuthoritative == \A i \in Index : attempts[i].auth => i = Len(attempts)

\* ladder.rs:155-157: a constant-fold Unsat is to "bubble up when no backend
\* produces a Sat".
FoldedUnsatBubblesUp ==
    outcome.done /\ query.target = "false" => outcome.report.status = "Unsat"

\* smt2_emit.rs:6-9: the assertions are named "so an external (get-unsat-core)
\* response can be reverse-mapped": an Unsat that Z3 answered completely, with
\* its core, is authoritative.
UnsatCoreReachesReport ==
    \A i \in Index : attempts[i].z3.verdict = "unsat" =>
        attempts[i].auth /\ attempts[i].report.core = attempts[i].z3.core

\* smt2_backend.rs:134-135: the model is read from the define-fun lines "one
\* big block or multiple": the bytes of the report are the bytes Z3 chose.
Z3ModelReachesReport ==
    \A i \in Index : attempts[i].z3.verdict = "sat" =>
        attempts[i].report.model = attempts[i].z3.model
=============================================================================
