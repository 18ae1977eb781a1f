----------------------------- MODULE RunStatus -----------------------------
(***************************************************************************)
(* src/src/run_status.rs: the per-artifact status vocabulary the fuzzer,   *)
(* the concolic engine and the dynamic tracer share, and the outcome that  *)
(* a ledger derives from it.  A ledger is a function from the names of the *)
(* artifacts marked so far to their status; byte and record counts and     *)
(* error texts are left out.                                               *)
(***************************************************************************)
ArtifactStatus == {"Complete", "Partial", "Failed", "Skipped"}
RunOutcome     == {"Complete", "Partial", "Failed"}

EmptyLedger == [n \in {} |-> "Complete"]

\* mark: BTreeMap::insert, the last mark of an artifact wins.
MarkAll(artifacts, names, status) ==
    [n \in DOMAIN artifacts \cup names |-> IF n \in names THEN status ELSE artifacts[n]]

Mark(artifacts, n, status) == MarkAll(artifacts, {n}, status)

DeriveOutcome(artifacts) ==
    LET Some(status) == \E n \in DOMAIN artifacts : artifacts[n] = status
    IN  IF Some("Failed") \/ Some("Partial") \/ (Some("Skipped") /\ Some("Complete")) THEN "Partial"
        ELSE IF Some("Complete") THEN "Complete"
        ELSE "Failed"
=============================================================================
