------------------------------ MODULE MaxMerge ------------------------------
(***************************************************************************)
(* What the cluster promises of a tag's generation (docs/protocol.md, the  *)
(* header of vash-server cluster.rs): a grow-only counter per node.  A     *)
(* node raises its own by one when it invalidates, or adopts a value some  *)
(* node has; nobody lowers one, and nobody invents one.                    *)
(***************************************************************************)
EXTENDS Integers

CONSTANTS Nodes, Tags
VARIABLE known

Init == known = [n \in Nodes |-> [t \in Tags |-> 0]]

\* One shard's bump becomes the node's new maximum.
Bump(n, t) == known' = [known EXCEPT ![n][t] = @ + 1]

\* A merge, of any number of tags at once: no value goes down or past the highest
\* some node already has.
Adopt(n) ==
  /\ known' \in [Nodes -> [Tags -> Nat]]
  /\ \A m \in Nodes \ {n} : known'[m] = known[m]
  /\ \A t \in Tags : known'[n][t] >= known[n][t] /\ \E m \in Nodes : known'[n][t] <= known[m][t]

Next == \E n \in Nodes : Adopt(n) \/ \E t \in Tags : Bump(n, t)

Spec == Init /\ [][Next]_known
============================================================================
