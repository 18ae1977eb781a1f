-------------------------- MODULE ConcolicBacklog --------------------------
(***************************************************************************)
(* src/src/concolic/scheduler.rs: ConcolicBacklog, the priority queue of   *)
(* branches to flip.  A heap of scored entries, a map from dedup key to    *)
(* item and an LRU list are meant to stay in sync; a push of a known key   *)
(* leaves its old heap entry behind, and a pop re-scores every survivor.   *)
(*                                                                         *)
(* Scores are integers.  An item is its novelty and the sum of all other   *)
(* terms of score_item; multiplying a novelty by 1.05 is abstracted to a   *)
(* strict increase that leaves zero alone, up to NoveltyCap.               *)
(***************************************************************************)
EXTENDS Integers, SequencesExt

CONSTANTS
    Keys,        \* dedup keys <<branch_pc, branch_index>>
    Offers,      \* [base, novelty] of the items that are pushed
    Cap,         \* BACKLOG_CAP
    NoveltyCap,  \* bound: novelty stops growing here
    MaxHeap      \* bound: heap entries, stale ones included

ASSUME BacklogAssumption ==
    /\ Keys \subseteq Nat \X Nat
    /\ Offers \subseteq [base : Int, novelty : 0..NoveltyCap]
    /\ Cap \in Nat \ {0} /\ NoveltyCap \in Nat /\ MaxHeap \in Nat

VARIABLES
    busy,        \* pop is in its loop over the heap
    heap,        \* the <<score, key>> entries, a multiset kept as a sequence
    byKey,       \* live items by key
    lru,         \* lru_order
    recency,     \* history: live keys in the order of their last push
    lastPush     \* history: the key of the last push

backlogVars == <<busy, heap, byKey, lru, recency, lastPush>>

Live == DOMAIN byKey

ScoreItem(i) == LET s == i.base + 4 * i.novelty IN IF s < 1 THEN 1 ELSE s

\* ScoredItem's order: score, then branch_pc.
Above(a, b) == a[1] > b[1] \/ (a[1] = b[1] /\ a[2][1] > b[2][1])

Set(f, k, v) == [x \in DOMAIN f \cup {k} |-> IF x = k THEN v ELSE f[x]]
Without(f, k) == [x \in DOMAIN f \ {k} |-> f[x]]

BacklogInit == busy = FALSE /\ heap = <<>> /\ byKey = [k \in {} |-> 0] /\ lru = <<>> /\ recency = <<>>
        /\ lastPush = <<>>

\* push: at the cap a new key evicts the front of the LRU list; a known key
\* moves to its back.  Either way an entry goes into the heap.
Push(k, o) ==
    /\ ~busy /\ Len(heap) < MaxHeap
    /\ LET full == k \notin Live /\ Cardinality(Live) >= Cap
           kept == IF full THEN Without(byKey, Head(lru)) ELSE byKey
           rest == IF full THEN Tail(lru) ELSE IF k \in Live THEN RemoveFirst(lru, k) ELSE lru
           kin  == IF full THEN RemoveFirst(recency, Head(lru)) ELSE RemoveFirst(recency, k)
       IN  /\ byKey' = Set(kept, k, o)
           /\ lru' = Append(rest, k)
           /\ recency' = Append(kin, k)
    /\ heap' = Append(heap, <<ScoreItem(o), k>>)
    /\ lastPush' = k
    /\ UNCHANGED busy

StartPop ==
    /\ ~busy /\ heap # <<>>
    /\ busy' = TRUE
    /\ UNCHANGED <<heap, byKey, lru, recency, lastPush>>

\* novelty_score *= aging_factor.
AgeItem(i) ==
    [i EXCEPT !.novelty = IF @ = 0 \/ @ = NoveltyCap THEN @ ELSE @ + 1]

\* Mutant: the sweep clears the heap and pushes nothing back.
AgeOthersDropsHeap(items) ==
    /\ byKey' = [k \in DOMAIN items |-> AgeItem(items[k])]
    /\ lru' \in SetToSeqs(DOMAIN items)
    /\ heap' = <<>>

\* Mutant: the sweep puts the items back as they were.
AgeOthersNoBump(items) ==
    /\ byKey' = items
    /\ lru' \in SetToSeqs(DOMAIN items)
    /\ heap' \in SetToSeqs({<<ScoreItem(items[k]), k>> : k \in DOMAIN items})

\* age_others_after_pop: every survivor is re-scored; the map is walked in
\* hash order, and the LRU list is rebuilt in that order.
AgeOthers(items) ==
    LET aged == [k \in DOMAIN items |-> AgeItem(items[k])]
    IN  /\ byKey' = aged
        /\ lru' \in SetToSeqs(DOMAIN aged)
        /\ heap' = SetToSeq({<<ScoreItem(aged[k]), k>> : k \in DOMAIN aged})

\* One turn of pop's loop: a maximal entry leaves the heap.  If its key is
\* live its item is returned; if not the entry was stale and the loop goes on.
\* With no survivor the sweep returns at once and clears nothing.
PopTop ==
    /\ busy /\ heap # <<>>
    /\ \E i \in DOMAIN heap :
         /\ \A j \in DOMAIN heap : ~Above(heap[j], heap[i])
         /\ LET k == heap[i][2] IN
            IF k \notin Live
            THEN heap' = RemoveAt(heap, i) /\ UNCHANGED <<busy, byKey, lru, recency>>
            ELSE /\ busy' = FALSE /\ recency' = RemoveFirst(recency, k)
                 /\ IF Live = {k}
                    THEN /\ byKey' = Without(byKey, k) /\ lru' = RemoveFirst(lru, k)
                         /\ heap' = RemoveAt(heap, i)
                    ELSE AgeOthers(Without(byKey, k))
    /\ UNCHANGED lastPush

\* pop returns None: the heap ran out.
PopNone ==
    /\ busy /\ heap = <<>>
    /\ busy' = FALSE
    /\ UNCHANGED <<heap, byKey, lru, recency, lastPush>>

Pop == StartPop \/ PopTop \/ PopNone

BacklogNext == Pop \/ \E k \in Keys, o \in Offers : Push(k, o)

\* The session keeps popping; whether more items arrive is up to its caller.
BacklogSpec == BacklogInit /\ [][BacklogNext]_backlogVars /\ WF_backlogVars(Pop)

-----------------------------------------------------------------------------
(* Properties                                                              *)

\* The state has its shape and the backlog never holds more than BACKLOG_CAP
\* items.
BacklogTypeOK ==
    /\ busy \in BOOLEAN
    /\ Live \subseteq Keys /\ Cardinality(Live) <= Cap
    /\ \A k \in Live : byKey[k].novelty \in 0..NoveltyCap
    /\ Len(heap) <= MaxHeap /\ \A i \in DOMAIN heap : heap[i][1] \in Nat /\ heap[i][2] \in Keys

\* Nothing that is pushed gets out of pop's reach: whatever was updated,
\* evicted, pushed again or re-scored in between, every live item has an entry
\* in the heap that carries its current score.
LiveItemsQueued == \A k \in Live : \E i \in DOMAIN heap : heap[i] = <<ScoreItem(byKey[k]), k>>

\* The LRU list holds every live key once and no other, so an eviction always
\* makes room and never evicts a key that is gone.
LruMatchesItems == ToSet(lru) = Live /\ Len(lru) = Cardinality(Live)

\* The aging sweep works for items with some novelty: such an item leaves the
\* backlog (popped or evicted) unless its key is pushed anew.
AgedItemsLeave ==
    \A k \in Keys : (k \in Live /\ byKey[k].novelty > 0) ~>
                      (k \notin Live \/ byKey[k].novelty = 0 \/ lastPush = k)

\* scheduler.rs:6-7: the scheduler "ages losers so nothing starves forever".
NothingStarves == \A k \in Keys : k \in Live ~> (k \notin Live \/ lastPush = k)

\* scheduler.rs:173: "`pop` returns the highest-score item".
PopsHighest ==
    [][busy => \A k \in Live \ Live', j \in Live : ScoreItem(byKey[j]) <= ScoreItem(byKey[k])]_backlogVars

\* scheduler.rs:177-178: lru_order is the "insertion order for cap-eviction;
\* oldest key drops when we exceed [`BACKLOG_CAP`]".
EvictsOldest == [][~busy => \A k \in Live \ Live' : k = Head(recency)]_backlogVars

\* scheduler.rs:175-176: a push for an existing key does not "add a second
\* heap entry".
OneEntryPerKey == \A i, j \in DOMAIN heap : heap[i][2] = heap[j][2] /\ heap[i][2] \in Live => i = j

\* scheduler.rs: the heap, the item map and the LRU list describe one backlog,
\* whatever updates, evictions and stale entries have been through.
IndicesAgree == BacklogTypeOK /\ LiveItemsQueued /\ LruMatchesItems
=============================================================================
