---------------------------- MODULE AtomicWrite ----------------------------
(***************************************************************************)
(* src/atomic_write.rs: write_atomic and AtomicWriter, through which every *)
(* ledger, queue input, crash and export is replaced.  One target path and *)
(* its <target>.tmp, one writer at a time (the callers hold &mut self or   *)
(* the corpus lock), any call failing, the process killed at any point,    *)
(* and the machine losing power.                                           *)
(*                                                                         *)
(* A file is the first len bytes of a content; the BufWriter holds the     *)
(* bytes accepted and not yet in the file.  Of the file system the code    *)
(* relies on two facts: rename replaces the target in one step, and data   *)
(* reaches the disk by sync_all and otherwise when the system pleases.     *)
(***************************************************************************)
EXTENDS Naturals

CONSTANTS
    Contents,    \* contents callers write
    Size,        \* how many bytes each has; empty files are written too
    None         \* no file, no answer

\* At the two paths, target and with_tmp_extension(target), nothing else is
\* ever put.
File == [of : Contents, len : Nat, synced : BOOLEAN]

ASSUME AtomicWriteAssumption ==
    Size \in [Contents -> Nat] /\ None \notin Contents \cup File

VARIABLES
    target,      \* file at the target path
    tmp,         \* file at <target>.tmp
    disk,        \* files the target path may name after a power failure
    pc,          \* next call of the writer
    content,     \* what it writes
    accepted,    \* bytes write_all handed to the BufWriter
    result,      \* what write_atomic returned
    unfinished   \* history: the last opened .tmp was neither finalized nor aborted

vars == <<target, tmp, disk, pc, content, accepted, result, unfinished>>

\* A file with all of c in it, on disk.
Whole(c) == [of |-> c, len |-> Size[c], synced |-> TRUE]

Init ==
    /\ target \in {None} \cup {Whole(c) : c \in Contents} /\ disk = {target}
    /\ tmp = None
    /\ pc = "idle" /\ content = None /\ accepted = 0
    /\ result = None /\ unfinished = FALSE

\* A caller replaces the file: finalize_atomic of a ledger, persist_input of
\* the corpus, persist_crash, an exporter.
Call(c) ==
    /\ pc = "idle"
    /\ pc' = "create" /\ content' = c /\ result' = None
    /\ UNCHANGED <<target, tmp, disk, accepted, unfinished>>

\* AtomicWriter::create opens with truncate(true): whatever .tmp an earlier
\* writer left behind is gone.
Create ==
    /\ pc = "create"
    /\ tmp' = [of |-> content, len |-> 0, synced |-> FALSE]
    /\ accepted' = 0 /\ unfinished' = TRUE /\ pc' = "write"
    /\ UNCHANGED <<target, disk, content, result>>

\* create_dir_all or open.
CreateFails ==
    /\ pc = "create"
    /\ pc' = "idle" /\ result' = "err"
    /\ UNCHANGED <<target, tmp, disk, content, accepted, unfinished>>

\* One write into the BufWriter, which passes on to the file what does not
\* fit.
Write ==
    /\ pc = "write"
    /\ \E n \in (accepted + 1)..Size[content] :
         /\ accepted' = n
         /\ \E m \in tmp.len..n : tmp' = [tmp EXCEPT !.len = m]
    /\ UNCHANGED <<target, disk, pc, content, result, unfinished>>

\* finalize: flush, then into_inner, which flushes again and finds nothing.
Flush ==
    /\ pc = "write" /\ accepted = Size[content]
    /\ tmp' = [tmp EXCEPT !.len = accepted] /\ pc' = "sync"
    /\ UNCHANGED <<target, disk, content, accepted, result, unfinished>>

\* A write or a flush that fails returns at once; the writer is dropped, and
\* the BufWriter's own Drop tries to get its bytes out once more.  An abort
\* whose remove_file fails ends the same way.
WriteFails ==
    /\ pc = "write"
    /\ \E m \in tmp.len..Size[content] : tmp' = [tmp EXCEPT !.len = m]
    /\ pc' = "idle" /\ result' = "err"
    /\ UNCHANGED <<target, disk, content, accepted, unfinished>>

\* Mutant: the file is closed without sync_all.
SyncSkipped ==
    /\ pc = "sync"
    /\ pc' = "rename"
    /\ UNCHANGED <<target, tmp, disk, content, accepted, result, unfinished>>

\* finalize: sync_all.
Sync ==
    /\ pc = "sync"
    /\ tmp' = [tmp EXCEPT !.synced = TRUE] /\ pc' = "rename"
    /\ UNCHANGED <<target, disk, content, accepted, result, unfinished>>

\* finalize: the rename, and the file is closed.
Rename ==
    /\ pc = "rename"
    /\ target' = tmp /\ tmp' = None /\ disk' = disk \cup {tmp}
    /\ unfinished' = FALSE /\ pc' = "return"
    /\ UNCHANGED <<content, accepted, result>>

\* Mutant: a failed finalize tidies up.
FinalizeTidies ==
    /\ pc \in {"sync", "rename"}
    /\ pc' = "idle" /\ result' = "err" /\ tmp' = None
    /\ UNCHANGED <<target, disk, content, accepted, unfinished>>

\* sync_all or rename fails: the .tmp stays where it is.
FinalizeFails ==
    /\ pc \in {"sync", "rename"}
    /\ pc' = "idle" /\ result' = "err"
    /\ UNCHANGED <<target, tmp, disk, content, accepted, unfinished>>

ReturnOk ==
    /\ pc = "return"
    /\ pc' = "idle" /\ result' = "ok"
    /\ UNCHANGED <<target, tmp, disk, content, accepted, unfinished>>

\* abort drops the BufWriter and removes the .tmp.
Abort ==
    /\ pc = "write"
    /\ tmp' = None /\ unfinished' = FALSE
    /\ pc' = "idle" /\ result' = "aborted"
    /\ UNCHANGED <<target, disk, content, accepted>>

\* Killed or panicked: what the BufWriter holds is lost, the files stay.
Kill ==
    /\ pc # "idle"
    /\ pc' = "idle"
    /\ UNCHANGED <<target, tmp, disk, content, accepted, result, unfinished>>

\* The file system writes its directory out.
Journal ==
    /\ disk # {target} /\ disk' = {target}
    /\ UNCHANGED <<target, tmp, pc, content, accepted, result, unfinished>>

\* What is left of a file: all of it when it was synced, else some of it.
Survivors(f) ==
    IF f = None THEN {None}
    ELSE IF f.synced THEN {f}
    ELSE {[of |-> f.of, len |-> n, synced |-> TRUE] : n \in 0..f.len}

\* Nobody has synced the directory: the target is any of the files renamed
\* to it since the last Journal, and .tmp is gone, or what is left of it, or
\* a file whose rename did not last.
PowerLoss ==
    /\ \E f \in disk : target' \in Survivors(f)
    /\ disk' = {target'}
    /\ tmp' \in {None} \cup Survivors(tmp) \cup (disk \ {target'})
    /\ pc' = "idle" /\ result' = None /\ unfinished' = FALSE
    /\ UNCHANGED <<content, accepted>>

Next ==
    \/ \E c \in Contents : Call(c)
    \/ Create \/ CreateFails \/ Write \/ Flush \/ WriteFails \/ Abort
    \/ Sync \/ Rename \/ FinalizeFails \/ ReturnOk
    \/ Kill \/ Journal \/ PowerLoss

Spec == Init /\ [][Next]_vars

-----------------------------------------------------------------------------
(* Properties                                                              *)

\* Types, and how far the writer is with its file at each call: the .tmp is a
\* prefix of the content, all of it once flushed, on disk once synced.
TypeOK ==
    /\ target \in File \cup {None} /\ tmp \in File \cup {None}
    /\ disk \subseteq File \cup {None} /\ target \in disk
    /\ pc \in {"idle", "create", "write", "sync", "rename", "return"}
    /\ content \in Contents \cup {None} /\ accepted \in Nat
    /\ result \in {None, "ok", "err", "aborted"} /\ unfinished \in BOOLEAN
    /\ pc # "idle" => content \in Contents /\ result = None
    /\ pc \in {"write", "sync", "rename"} =>
         tmp # None /\ tmp.of = content /\ tmp.len <= accepted /\ accepted <= Size[content]
    /\ pc \in {"sync", "rename"} => tmp.len = Size[content]
    /\ pc = "rename" => tmp.synced

\* Documented at atomic_write.rs:16-18: a writer that did not reach the
\* rename, because a call failed or the process died, leaves its .tmp where
\* the next session can see it, unless it was aborted.
TmpMarksUnfinished == unfinished => tmp # None

\* The content a reader finds in a file; one that was cut short is Torn.
Torn == "torn"
Reading(f) ==
    IF f = None THEN None ELSE IF f.len = Size[f.of] THEN f.of ELSE Torn

Register == INSTANCE AtomicRegister WITH
    value  <- Reading(target),
    maybe  <- {Reading(f) : f \in disk},
    phase  <- CASE pc = "idle" -> "idle" [] pc = "return" -> "published" [] OTHER -> "pending",
    call   <- content,
    result <- result

\* The writer implements the register: whatever fails and whoever dies, a
\* reader of the path finds the old or the new content whole, Err and abort
\* mean the old one is still there, and Ok means the new one is.
RefinesRegister == Register!Spec
=============================================================================
