----------------------------- MODULE MCCluster -----------------------------
(* Two nodes; two shards of one tag, or one shard of two tags with a digest *)
(* window of one name, so that a name needs its turn to be offered.         *)
EXTENDS ClusterTags

CONSTANTS n1, n2, c1, c2

\* A command's invalidation, its write and a fault of the exchange.
Synchronously ==
  [mode |-> "fanout_sync", shards |-> {0, 1}, tags |-> {1}, window |-> 1, rounds |-> 1,
   stored |-> {<<n1, 0, 1>>, <<n1, 1, 1>>, <<n2, 0, 1>>}, clients |-> {c1}, callers |-> {n1, n2}, maxOps |-> 2, maxFaults |-> 1]

\* Two clients at once, and gossip alone carries the invalidations.
Racing ==
  [mode |-> "local", shards |-> {0, 1}, tags |-> {1}, window |-> 1, rounds |-> 1,
   stored |-> {<<n1, 0, 1>>}, clients |-> {c1, c2}, callers |-> {n1, n2}, maxOps |-> 2, maxFaults |-> 0]

\* More names than fit one digest.
Windowed ==
  [mode |-> "fanout", shards |-> {0}, tags |-> {1, 2}, window |-> 1, rounds |-> 2,
   stored |-> {<<n1, 0, 1>>, <<n1, 0, 2>>, <<n2, 0, 1>>}, clients |-> {c1}, callers |-> {n1, n2}, maxOps |-> 2, maxFaults |-> 0]

MCWorlds == {Synchronously, Racing, Windowed}
============================================================================
