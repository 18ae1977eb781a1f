--------------------------- MODULE MCAtomicWrite ---------------------------
(* A small instance of AtomicWrite for TLC. *)
EXTENDS AtomicWrite

CONSTANTS empty, short, long

\* An empty file (an events file before its first record) and two others.
MCSize == [c \in {empty, short, long} |-> CASE c = empty -> 0 [] c = short -> 1 [] c = long -> 2]
=============================================================================
