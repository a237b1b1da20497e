------------------------------- MODULE MCShard -------------------------------
(***************************************************************************)
(* Instances of one shard for TLC: what callers may do in each run.        *)
(***************************************************************************)
EXTENDS ShardProperties, TLC

CONSTANTS k1, k2, ta, tb

Symmetric == Permutations(Clients)

\* Key hashes: distinct, and all colliding.
DistinctHash == [k \in Keys |-> IF k = k1 THEN 1 ELSE 2]
CollidingHash == [k \in Keys |-> 1]

----------------------------------------------------------------------------
(* Operations *)

Forever == [how |-> "set", secs |-> 0]
Secs(n) == [how |-> "set", secs |-> n]
Keep    == [how |-> "keep", secs |-> 0]
Enx(n)  == [how |-> "enx", secs |-> n]

Write(k, names, ttl, mode, expected) ==
  [key |-> k, names |-> names, ttl |-> ttl, val |-> 1, mode |-> mode, expected |-> expected]

SetOp(k, names, ttl)   == [kind |-> "Set", items |-> <<Write(k, names, ttl, "set", 0)>>]
SetBothFor(ttl)        == [kind |-> "Set", items |-> <<Write(k1, {}, ttl, "set", 0),
                                                       Write(k2, {}, ttl, "set", 0)>>]
SetBoth                == SetBothFor(Forever)
SetIfAbsent(k)         == [kind |-> "SetIf", guard |-> "absent",
                           items |-> <<Write(k, {}, Forever, "set", 0)>>]
SetIfPresent(k)        == [kind |-> "SetIf", guard |-> "present",
                           items |-> <<Write(k, {}, Forever, "set", 0)>>]
SetIfBoth(guard)       == [SetBoth EXCEPT !.kind = "SetIf"] @@ [guard |-> guard]
StoreOp(k, names, ttl, mode, expected) ==
  [kind |-> "Store", items |-> <<Write(k, names, ttl, mode, expected)>>]
GetOp(k)               == [kind |-> "Get", guard |-> "none", items |-> <<[key |-> k]>>]
GetBoth                == [kind |-> "Get", guard |-> "none", items |-> <<[key |-> k1], [key |-> k2]>>]
GetTouchOp(k, secs)    == [kind |-> "GetTouch", guard |-> "none", items |-> <<[key |-> k, secs |-> secs]>>]
TouchOp(k, secs)       == [kind |-> "Touch", items |-> <<[key |-> k, secs |-> secs]>>]
DeleteOp(k)            == [kind |-> "Delete", items |-> <<[key |-> k]>>]
DeleteBoth             == [kind |-> "Delete", items |-> <<[key |-> k1], [key |-> k2]>>]
ExpireOp(k, ttl, guard) == [kind |-> "Expire", items |-> <<[key |-> k, ttl |-> ttl, guard |-> guard]>>]
IncrOp(k, missing_, bound, ttl) ==
  [kind |-> "Arithmetic", items |-> <<[key |-> k, missing |-> missing_, bound |-> bound, ttl |-> ttl]>>]
AppendOp(k)            == [kind |-> "Append", items |-> <<[key |-> k, len |-> 1]>>]
DeleteByTagOp(n)       == [kind |-> "DeleteByTag", items |-> <<[name |-> n]>>]
MergeTagOp(n, gen)     == [kind |-> "MergeTag", items |-> <<[name |-> n, gen |-> gen]>>]
FlushOp                == [kind |-> "Flush", items |-> <<[all |-> TRUE]>>]
SyncOp                 == [kind |-> "Sync", items |-> <<[all |-> TRUE]>>]

----------------------------------------------------------------------------
(* What callers do in each run *)

TagOps == {SetOp(k1, {ta}, Forever), GetOp(k1), DeleteByTagOp(ta)}

RecoveryOps ==
  {SetOp(k1, {ta, tb}, Forever), GetOp(k1), DeleteByTagOp(ta), MergeTagOp(tb, 1), FlushOp}

KeyOps ==
  {SetOp(k1, {ta}, Secs(1)), SetOp(k1, {tb}, Forever), StoreOp(k1, {}, Keep, "set", 0),
   StoreOp(k1, {ta}, Enx(2), "add", 0), StoreOp(k1, {}, Forever, "append", 0),
   TouchOp(k1, 3), GetTouchOp(k1, 0), DeleteOp(k1), ExpireOp(k1, Secs(2), "if_later"),
   ExpireOp(k1, Forever, "always"), ExpireOp(k1, Secs(9), "always"),
   IncrOp(k1, "create", 3, Keep), AppendOp(k1), DeleteByTagOp(ta)}

CollisionOps ==
  {SetOp(k1, {ta}, Secs(1)), SetOp(k2, {ta}, Secs(1)), SetOp(k2, {tb}, Forever),
   DeleteByTagOp(ta), DeleteOp(k1)}

\* A counter on k1, conditional writes on k2.
UpdateOps ==
  {IncrOp(k1, "create", 9, Keep),
   StoreOp(k2, {}, Forever, "add", 0), StoreOp(k2, {}, Forever, "cas", 1),
   StoreOp(k2, {}, Keep, "replace", 0)}

BatchOps == {SetBoth, GetBoth, DeleteBoth, SyncOp, SetIfBoth("absent")}

CapacityOps == {SetOp(k1, {ta}, Forever), SetOp(k2, {}, Secs(1)), GetOp(k1), DeleteByTagOp(ta)}

\* With SweepBatch = 1 the two records of one call expire together and are more
\* than one pass sweeps.
ProgressOps ==
  {SetOp(k1, {ta}, Forever), SetBothFor(Secs(1)), GetOp(k1), DeleteByTagOp(ta), SyncOp}

GuardOps == {SetIfAbsent(k1), SetOp(k1, {}, Forever)}

FlushIncrOps == {SetOp(k1, {}, Forever), IncrOp(k1, "create", 9, Keep), FlushOp, GetOp(k1)}

============================================================================
