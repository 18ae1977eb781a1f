--------------------------- MODULE AtomicRegister ---------------------------
(***************************************************************************)
(* What a file replaced through AtomicWriter promises its readers: a       *)
(* register that holds whole contents only.  One write at a time is under  *)
(* way; it takes effect in one step or not at all, tells its caller which, *)
(* and whoever dies in the middle leaves the old or the new content.  A    *)
(* power failure may undo writes that the disk has not settled, but only   *)
(* back to another whole content.                                          *)
(***************************************************************************)
CONSTANTS
    Contents,    \* whole contents of the file
    None         \* no file, no answer

VARIABLES
    value,       \* what a reader of the path finds
    maybe,       \* what it may find after a power failure
    phase,       \* of the write under way
    call,        \* its content
    result       \* what its caller was told

vars == <<value, maybe, phase, call, result>>

Init ==
    /\ value \in Contents \cup {None} /\ maybe = {value}
    /\ phase = "idle" /\ call = None /\ result = None

Call(c) ==
    /\ phase = "idle"
    /\ phase' = "pending" /\ call' = c /\ result' = None
    /\ UNCHANGED <<value, maybe>>

Publish ==
    /\ phase = "pending"
    /\ phase' = "published" /\ value' = call /\ maybe' = maybe \cup {call}
    /\ UNCHANGED <<call, result>>

ReturnOk ==
    /\ phase = "published"
    /\ phase' = "idle" /\ result' = "ok"
    /\ UNCHANGED <<value, maybe, call>>

ReturnErr ==
    /\ phase = "pending"
    /\ phase' = "idle" /\ result' = "err"
    /\ UNCHANGED <<value, maybe, call>>

\* An abandoned write ends without an effect and without an error.
GiveUp ==
    /\ phase = "pending"
    /\ phase' = "idle" /\ result' = "aborted"
    /\ UNCHANGED <<value, maybe, call>>

Die ==
    /\ phase # "idle"
    /\ phase' = "idle"
    /\ UNCHANGED <<value, maybe, call, result>>

Settle ==
    /\ maybe' = {value}
    /\ UNCHANGED <<value, phase, call, result>>

PowerLoss ==
    /\ value' \in maybe /\ maybe' = {value'}
    /\ phase' = "idle" /\ result' = None
    /\ UNCHANGED call

Next ==
    \/ \E c \in Contents : Call(c)
    \/ Publish \/ ReturnOk \/ ReturnErr \/ GiveUp
    \/ Die \/ Settle \/ PowerLoss

Spec == Init /\ [][Next]_vars
=============================================================================
