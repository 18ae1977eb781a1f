------------------------------ MODULE Coverage ------------------------------
(***************************************************************************)
(* The edge-coverage map of src/src/fuzzer/coverage.rs: raw 8-bit hit      *)
(* counts of one execution, the AFL-style buckets a global map keeps, and  *)
(* the novelty of an execution against a global map.                       *)
(***************************************************************************)
EXTENDS Integers

CONSTANTS
    Slots,       \* slots of the coverage map (MAP_SIZE in the code)
    Hits         \* raw hit counts one execution can leave in a slot

ASSUME CoverageAssumption == Hits \subseteq 0..255 /\ 0 \in Hits

ZeroMap == [s \in Slots |-> 0]

Bucket(h) ==
    CASE h <= 3              -> h
      [] h \in 4..7          -> 4
      [] h \in 8..15         -> 5
      [] h \in 16..31        -> 6
      [] h \in 32..127       -> 7
      [] OTHER               -> 8

NewEdges(local, g)   == {s \in Slots : local[s] # 0 /\ g[s] = 0}
NewBuckets(local, g) == {s \in Slots : local[s] # 0 /\ g[s] # 0 /\ Bucket(local[s]) > g[s]}
IsInteresting(local, g) == NewEdges(local, g) # {} \/ NewBuckets(local, g) # {}

MergeIntoGlobal(local, g) ==
    [s \in Slots |-> IF local[s] # 0 /\ Bucket(local[s]) > g[s]
                     THEN Bucket(local[s]) ELSE g[s]]
=============================================================================
