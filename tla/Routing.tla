------------------------------ MODULE Routing ------------------------------
(***************************************************************************)
(* A batch over several shards (shard.rs and store.rs): every key goes to  *)
(* the shard its hash names, the items are sorted so that a shard's are    *)
(* together, and the answers are put back where their items were.  A key   *)
(* is its hash.                                                            *)
(***************************************************************************)
EXTENDS Integers, Sequences, FiniteSets, Bitwise

CONSTANTS Hashes, ShardCounts, MaxItems

VARIABLES
    count,      \* how many shards the store was opened with
    items,      \* the request: a sequence of keys
    placed,     \* [shard, position] of every item, sorted
    turn,       \* the next shard to be sent its run
    results     \* per position of the request: the answers put there

routeVars == <<count, items, placed, turn, results>>

PowersOfTwo == {1, 2, 4, 8, 16}

(* The reduction of index_of, for more than one shard. *)
Masked(hash, n) == IF n \in PowersOfTwo THEN hash & (n - 1) ELSE hash % n

index_of(hash, n) == IF n = 1 THEN 0 ELSE Masked(hash, n)

(* An order sort_unstable_by_key may leave: by shard, ties in any order. *)
SortedOrders(keys, n) ==
    {p \in [1..Len(keys) -> [shard : 0..(n - 1), position : 1..Len(keys)]] :
       /\ \A i \in DOMAIN p : p[i].shard = index_of(keys[p[i].position], n)
       /\ \A i, j \in DOMAIN p : i # j => p[i].position # p[j].position
       /\ \A i \in 1..(Len(keys) - 1) : p[i].shard <= p[i + 1].shard}

(* bounds[s]: where the run of shard s begins, filled from the tail. *)
Bounds(p, n) ==
    LET first(s) == LET at == {i \in DOMAIN p : p[i].shard = s}
                    IN  IF at = {} THEN Len(p) + 1 ELSE CHOOSE i \in at : \A j \in at : i <= j
        bound[s \in 0..n] ==
          IF s = n THEN Len(p) + 1
          ELSE IF first(s) < bound[s + 1] THEN first(s) ELSE bound[s + 1]
    IN  bound

(* A slip: an empty shard's bound stays at the end of the buffer. *)
RunAtTheEnd(p, n, s) ==
    LET begin(r) == LET at == {i \in DOMAIN p : p[i].shard = r}
                    IN  IF at = {} THEN Len(p) + 1 ELSE CHOOSE i \in at : \A j \in at : i <= j
    IN  SubSeq(p, begin(s), begin(s + 1) - 1)

Run(p, n, s) == SubSeq(p, Bounds(p, n)[s], Bounds(p, n)[s + 1] - 1)

group ==
    /\ placed = <<>> /\ items # <<>>
    /\ placed' \in SortedOrders(items, count)
    /\ UNCHANGED <<count, items, turn, results>>

(* What a shard knows of a key: databases keep keys where the hash modulo   *)
(* the count put them, from before there was a mask.                        *)
Holds(s, key) == key % count = s

(* The run of one shard is sent as one job and its answers, one for each of *)
(* its items and in their order, are put at the items' positions.  A shard  *)
(* without items is skipped.                                                *)
RunShard ==
    /\ placed # <<>> /\ turn < count
    /\ \E run \in {Run(placed, count, turn)} :
         LET answer == [i \in DOMAIN run |-> IF Holds(turn, items[run[i].position])
                                             THEN items[run[i].position] ELSE -1]
         IN  results' = [r \in DOMAIN results |->
                           IF \E i \in DOMAIN run : run[i].position = r
                           THEN Append(results[r],
                                       answer[CHOOSE i \in DOMAIN run : run[i].position = r])
                           ELSE results[r]]
    /\ turn' = turn + 1
    /\ UNCHANGED <<count, items, placed>>

RouteInit ==
    /\ count \in ShardCounts
    /\ items \in UNION {[1..n -> Hashes] : n \in 1..MaxItems}
    /\ placed = <<>> /\ turn = 0
    /\ results = [i \in DOMAIN items |-> <<>>]

RouteNext == group \/ RunShard

-----------------------------------------------------------------------------
(* shard.rs group: when every shard has had its turn, each item has been    *)
(* sent once, to the shard that holds it, and its answer put in its place,  *)
(* whatever order the sort left within a shard and however many shards got  *)
(* nothing.                                                                 *)
EveryItemIsAnswered == turn = count => results = [i \in DOMAIN items |-> <<items[i]>>]
=============================================================================
