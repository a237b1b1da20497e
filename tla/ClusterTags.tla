---------------------------- MODULE ClusterTags ----------------------------
(***************************************************************************)
(* Tag invalidation across the shards of a node and across nodes           *)
(* (vash-store store.rs and tags.rs, vash-server cluster.rs and            *)
(* dispatch.rs).  Every shard has its own registry; a node reports the     *)
(* maximum over its shards.  DELETE_BY_TAG bumps the shards one commit at  *)
(* a time, levels them, and queues one message per peer; a timer per peer  *)
(* exchanges digests.  Generations merge by maximum.                       *)
(*                                                                         *)
(* A shard's commit is one step here: ShardWriter models what is inside.   *)
(* One key per node, shard and tag stands for the records carrying the     *)
(* tag.                                                                    *)
(***************************************************************************)
EXTENDS Integers, Sequences, FiniteSets, FiniteSetsExt

CONSTANTS
  Nodes,        \* the static peer list, every node lists the others
  Clients,      \* blocking threads running commands
  None,         \* no generation: the shard does not hold the name
  Worlds,       \* the settings one run covers: mode, shards, tags, window,
                \* the records already stored, and the two bounds
  QueueDepth    \* cluster.queue_depth

\* A node has at least one shard, shards are numbered, names are ordered, and a
\* digest carries at least one.
ASSUME ClusterAssumption ==
  /\ None \notin Nat
  /\ \A w \in Worlds :
       /\ w.shards \subseteq Nat /\ IsFiniteSet(w.shards) /\ w.shards # {}
       /\ w.tags \subseteq Nat /\ IsFiniteSet(w.tags)
       /\ w.window \in Nat \ {0} /\ w.rounds \in Nat \ {0}

VARIABLES
  world,    \* the setting of this behaviour, never changed
  gen,      \* gen[n][s][t]: generation of tag t in shard s of node n
  rec,      \* rec[n][s][t]: generation captured by the stored record, or None
  client,   \* the command each client is executing
  queue,    \* queue[n][p]: messages handed to n's task for peer p
  link,     \* link[n][p]: what n's task for peer p is doing
  gossip,   \* gossip[n][p]: n's timer for peer p
  ops, faults,
  covered   \* records stored before an invalidation of their tag that has been
            \* answered: [at |-> <<n, s, t>>, by |-> the node that was called]

vars == <<world, gen, rec, client, queue, link, gossip, ops, faults, covered>>

Peers(n) == Nodes \ {n}
Slots == Nodes \X world.shards \X world.tags

\* Bounds: commands issued; failed exchanges, timeouts and restarts.
MaxOps == world.maxOps
MaxFaults == world.maxFaults

Idle == [pc |-> "idle"]

----------------------------------------------------------------------------
(* The store of one node. *)

Holders(n, t) == {s \in world.shards : gen[n][s][t] # None}

\* VashStore::node_generation, None when no shard has seen the name.
node_generation(n, t) ==
  IF Holders(n, t) = {} THEN None ELSE Max({gen[n][s][t] : s \in Holders(n, t)})

\* tag_generations with the zeroes left out, which every reader of it does.
tag_generations(n) ==
  [t \in {u \in world.tags : node_generation(n, u) \notin {None, 0}} |-> node_generation(n, t)]

Home(t) == t % Cardinality(world.shards)

\* Mutant: a node that has never seen the name drops what it is told.
merge_forgetful(n, entries) ==
  [s \in world.shards |-> [t \in world.tags |->
     IF t \in DOMAIN entries /\ s \in Holders(n, t) THEN Max({gen[n][s][t], entries[t]}) ELSE gen[n][s][t]]]

\* Mutant: what the peer says replaces what the shard has.
merge_overwriting(n, entries) ==
  [s \in world.shards |-> [t \in world.tags |->
     IF t \in DOMAIN entries /\ (s \in Holders(n, t) \/ s = Home(t)) THEN entries[t] ELSE gen[n][s][t]]]

\* Mutant: only the shard the tag's name hashes to is raised.
merge_home_only(n, entries) ==
  [s \in world.shards |-> [t \in world.tags |->
     IF t \in DOMAIN entries /\ s = Home(t)
     THEN Max({entries[t], IF gen[n][s][t] = None THEN 0 ELSE gen[n][s][t]})
     ELSE gen[n][s][t]]]

\* apply_merges over merge_tag_generation: every shard holding the name is raised
\* to the offered generation; when none does, one shard records it.
merge_tag_generation(n, entries) ==
  [s \in world.shards |-> [t \in world.tags |->
     CASE t \in DOMAIN entries /\ s \in Holders(n, t) -> Max({gen[n][s][t], entries[t]})
       [] t \in DOMAIN entries /\ Holders(n, t) = {} /\ s = Home(t) -> entries[t]
       [] OTHER -> gen[n][s][t]]]

Alive(slot) ==
  LET g == rec[slot[1]][slot[2]][slot[3]]
  IN  g # None /\ g = gen[slot[1]][slot[2]][slot[3]]

----------------------------------------------------------------------------
(* A tagged write: the name is registered first, at the generation the     *)
(* node held when it was looked up, and the record captures the shard's    *)
(* generation when it is prepared, not when it is committed.               *)

StartWrite(c, n, s, t) ==
  /\ client[c] = Idle
  /\ c \in world.clients /\ n \in world.callers
  /\ ops < MaxOps
  /\ ops' = ops + 1
  /\ client' = [client EXCEPT ![c] =
       IF gen[n][s][t] = None
       THEN [pc |-> "register", at |-> <<n, s, t>>,
             start |-> IF node_generation(n, t) = None THEN 0 ELSE node_generation(n, t)]
       ELSE [pc |-> "commit", at |-> <<n, s, t>>, captured |-> gen[n][s][t]]]
  /\ UNCHANGED <<world, gen, rec, queue, link, gossip, faults, covered>>

\* Writer::create_tags: one that another caller has registered meanwhile stays.
RegisterTag(c) ==
  /\ client[c].pc = "register"
  /\ LET n == client[c].at[1]  s == client[c].at[2]  t == client[c].at[3]
     IN  gen' = IF gen[n][s][t] = None THEN [gen EXCEPT ![n][s][t] = client[c].start] ELSE gen
  /\ client' = [client EXCEPT ![c] = [pc |-> "stamp", at |-> client[c].at]]
  /\ UNCHANGED <<world, rec, queue, link, gossip, ops, faults, covered>>

\* TagRegistry::resolve, on the caller's thread.
StampWrite(c) ==
  /\ client[c].pc = "stamp"
  /\ LET n == client[c].at[1]  s == client[c].at[2]  t == client[c].at[3]
     IN  client' = [client EXCEPT ![c] = [pc |-> "commit", at |-> <<n, s, t>>, captured |-> gen[n][s][t]]]
  /\ UNCHANGED <<world, gen, rec, queue, link, gossip, ops, faults, covered>>

\* A record rewritten while an invalidation runs is not one it was asked to cover.
CommitWrite(c) ==
  /\ client[c].pc = "commit"
  /\ LET n == client[c].at[1]  s == client[c].at[2]  t == client[c].at[3]
     IN  /\ rec' = [rec EXCEPT ![n][s][t] = client[c].captured]
         /\ covered' = {v \in covered : v.at # <<n, s, t>>}
         /\ client' = [d \in Clients |->
              CASE d = c -> Idle
                [] d # c /\ client[d].pc \in {"bump", "level", "await"}
                     -> [client[d] EXCEPT !.before = @ \ {<<n, s, t>>}]
                [] OTHER -> client[d]]
  /\ UNCHANGED <<world, gen, queue, link, gossip, ops, faults>>

----------------------------------------------------------------------------
(* DELETE_BY_TAG. *)

StartDelete(c, n, t) ==
  /\ client[c] = Idle
  /\ c \in world.clients /\ n \in world.callers
  /\ ops < MaxOps
  /\ ops' = ops + 1
  /\ client' = [client EXCEPT ![c] =
       [pc |-> "bump", id |-> ops + 1, node |-> n, tag |-> t, todo |-> world.shards, highest |-> None,
        before |-> {slot \in Slots : slot[3] = t /\ rec[slot[1]][slot[2]][t] # None}]]
  /\ UNCHANGED <<world, gen, rec, queue, link, gossip, faults, covered>>

\* Mutant: the new generation is answered and never stored.
BumpUnwritten(c) ==
  /\ client[c].pc = "bump"
  /\ LET g == gen[client[c].node][Min(client[c].todo)][client[c].tag]
     IN  client' = [client EXCEPT ![c].todo = {}, ![c].pc = "level", ![c].highest = g]
  /\ UNCHANGED <<world, gen, rec, queue, link, gossip, ops, faults, covered>>

\* One shard's writer commits its bump; a shard without the name answers None.
\* The generation never reaches its u64 ceiling here: MaxOps bounds the bumps.
BumpShard(c) ==
  /\ client[c].pc = "bump"
  /\ LET n == client[c].node  t == client[c].tag  s == Min(client[c].todo)
         g == gen[n][s][t] + 1
         rest == client[c].todo \ {s}
         best == IF client[c].highest = None THEN g ELSE Max({client[c].highest, g})
     IN  /\ IF gen[n][s][t] = None
            THEN /\ UNCHANGED gen
                 /\ client' = [client EXCEPT ![c].todo = rest, ![c].pc = IF rest = {} THEN "level" ELSE @]
            ELSE /\ gen' = [gen EXCEPT ![n][s][t] = g]
                 /\ client' = [client EXCEPT ![c].todo = rest, ![c].highest = best,
                                             ![c].pc = IF rest = {} THEN "level" ELSE @]
  /\ UNCHANGED <<world, rec, queue, link, gossip, ops, faults, covered>>

Answered(c) ==
  {[at |-> slot, by |-> client[c].node] : slot \in client[c].before}

\* The second pass of delete_by_tag: the shards that lag are merged up.
Levelled(n, t, g) ==
  [s \in world.shards |->
     IF s \in Holders(n, t) /\ gen[n][s][t] < g THEN [gen[n][s] EXCEPT ![t] = g] ELSE gen[n][s]]

Synchronous == world.mode = "fanout_sync"

\* Mutant: the queue is not bounded.
TakersUnbounded(n) == {p \in Peers(n) : world.mode # "local"}

\* The peers whose queue takes the message.  A full queue drops it, and in local
\* mode none is sent.
Takers(n) == {p \in Peers(n) : world.mode # "local" /\ Len(queue[n][p]) < QueueDepth}

invalidate(n, t, g, ack) ==
  [p \in Peers(n) |->
     IF p \in Takers(n)
     THEN Append(queue[n][p], [kind |-> "invalidate", entries |-> [u \in {t} |-> g], full |-> FALSE, ack |-> ack, live |-> TRUE])
     ELSE queue[n][p]]

\* The tag is unknown to every shard of the node: NOT_FOUND, and nothing is sent.
DeleteNotFound(c) ==
  /\ client[c].pc = "level"
  /\ client[c].highest = None
  /\ client' = [client EXCEPT ![c] = Idle]
  /\ UNCHANGED <<world, gen, rec, queue, link, gossip, ops, faults, covered>>

\* The levelling pass, then the fan-out, then the reply unless there are
\* acknowledgements to wait for.
LevelAndForward(c) ==
  /\ client[c].pc = "level"
  /\ client[c].highest # None
  /\ LET n == client[c].node  t == client[c].tag  g == client[c].highest
     IN  /\ gen' = [gen EXCEPT ![n] = Levelled(n, t, g)]
         /\ queue' = [queue EXCEPT ![n] = invalidate(n, t, g, IF Synchronous THEN client[c].id ELSE 0)]
         /\ \/ /\ ~Synchronous \/ Takers(n) = {}
               /\ covered' = covered \cup Answered(c)
               /\ client' = [client EXCEPT ![c] = Idle]
            \/ /\ Synchronous /\ Takers(n) # {}
               /\ client' = [client EXCEPT ![c] =
                    [pc |-> "await", id |-> client[c].id, node |-> n, tag |-> t, generation |-> g,
                     waiting |-> Takers(n), answered |-> {}, merged |-> {},
                     before |-> client[c].before]]
               /\ UNCHANGED covered
  /\ UNCHANGED <<world, rec, link, gossip, ops, faults>>

\* Every peer tried, or the fan-out timeout: the reply goes out either way.
AwaitEnds(c) ==
  /\ client[c].pc = "await"
  /\ \/ client[c].waiting = {} /\ UNCHANGED faults
     \/ client[c].waiting # {} /\ faults < MaxFaults /\ faults' = faults + 1
  /\ covered' = covered \cup Answered(c)
  /\ client' = [client EXCEPT ![c] = Idle]
  /\ UNCHANGED <<world, gen, rec, queue, link, gossip, ops>>

----------------------------------------------------------------------------
(* The task that owns one peer's connection, and TAG_SYNC at the far end.  *)

\* peer_loop takes the next message.
TakeMessage(n, p) ==
  /\ link[n][p] = Idle
  /\ queue[n][p] # <<>>
  /\ link' = [link EXCEPT ![n][p] = [pc |-> "send", msg |-> Head(queue[n][p]), attempt |-> 0]]
  /\ queue' = [queue EXCEPT ![n][p] = Tail(@)]
  /\ UNCHANGED <<world, gen, rec, client, gossip, ops, faults, covered>>

\* At most a window's worth of the entries, whichever the map yields first.
Truncations(entries) ==
  {[t \in kept |-> entries[t]] :
     kept \in {k \in SUBSET DOMAIN entries : Cardinality(k) = Min({world.window, Cardinality(DOMAIN entries)})}}

\* What tag_sync answers: offered names held strictly higher here, and, against a
\* full digest, the names the sender never mentioned.
Behind(p, msg) ==
  LET ours == tag_generations(p)
      ahead == {t \in DOMAIN ours :
                  \/ t \in DOMAIN msg.entries /\ ours[t] > msg.entries[t]
                  \/ t \notin DOMAIN msg.entries /\ msg.full}
  IN  [t \in ahead |-> ours[t]]

\* The whole handler: the answer is computed before the merge.  An entry whose
\* merge fails is logged and skipped.
TagSync(n, p) ==
  /\ link[n][p].pc = "send"
  /\ \E behind \in Truncations(Behind(p, link[n][p].msg)), skipped \in {{}} \cup {{t} : t \in DOMAIN link[n][p].msg.entries} :
       LET offered == link[n][p].msg.entries
       IN  /\ skipped # {} => faults < MaxFaults
           /\ faults' = faults + Cardinality(skipped)
           /\ gen' = [gen EXCEPT ![p] =
                merge_tag_generation(p, [t \in DOMAIN offered \ skipped |-> offered[t]])]
           /\ link' = [link EXCEPT ![n][p] =
                [pc |-> "reply", msg |-> @.msg, attempt |-> @.attempt, learned |-> behind, applied |-> skipped = {}]]
  /\ UNCHANGED <<world, rec, client, queue, gossip, ops, covered>>

\* The client waiting for this message, told that the peer was tried.  All it sees
\* is that it waits for one peer less; that the peer answered, and that it had
\* merged what it was sent, is noted for the properties.
Acknowledge(n, p, answered, merged) ==
  client' = [c \in Clients |->
    IF client[c].pc = "await" /\ client[c].id = link[n][p].msg.ack /\ p \in client[c].waiting
    THEN [client[c] EXCEPT !.waiting = @ \ {p},
                           !.answered = IF answered THEN @ \cup {p} ELSE @,
                           !.merged = IF merged THEN @ \cup {p} ELSE @]
    ELSE client[c]]

\* usize::wrapping_add, modulo a period of the window's start.
NextRound(round) == (round + 1) % world.rounds

\* A finished round lets the timer go on to the next; an abandoned one is ignored.
RoundOver(n, p) ==
  gossip' = IF link[n][p].msg.kind = "gossip" /\ link[n][p].msg.live
            THEN [gossip EXCEPT ![n][p] = [pc |-> "due", round |-> NextRound(@.round)]]
            ELSE gossip

\* The answer arrives and is merged: by the peer task for an invalidation, by the
\* timer's task for a round it still waits for.
ExchangeSucceeds(n, p) ==
  /\ link[n][p].pc = "reply"
  /\ gen' = IF link[n][p].msg.live
            THEN [gen EXCEPT ![n] = merge_tag_generation(n, link[n][p].learned)]
            ELSE gen
  /\ Acknowledge(n, p, TRUE, link[n][p].applied)
  /\ RoundOver(n, p)
  /\ link' = [link EXCEPT ![n][p] = Idle]
  /\ UNCHANGED <<world, rec, queue, ops, faults, covered>>

\* A request error on a cached connection, before or after the peer handled it:
\* one reconnect, and the same message goes again.
ExchangeRetries(n, p) ==
  /\ link[n][p].pc \in {"send", "reply"}
  /\ link[n][p].attempt = 0
  /\ faults < MaxFaults
  /\ faults' = faults + 1
  /\ link' = [link EXCEPT ![n][p] = [pc |-> "send", msg |-> @.msg, attempt |-> 1]]
  /\ UNCHANGED <<world, gen, rec, client, queue, gossip, ops, covered>>

\* A refused or timed out connect, a timed out exchange, a second error.  The
\* acknowledgement is sent all the same.
ExchangeFails(n, p) ==
  /\ link[n][p].pc \in {"send", "reply"}
  /\ faults < MaxFaults
  /\ faults' = faults + 1
  /\ Acknowledge(n, p, FALSE, FALSE)
  /\ RoundOver(n, p)
  /\ link' = [link EXCEPT ![n][p] = Idle]
  /\ UNCHANGED <<world, gen, rec, queue, ops, covered>>

----------------------------------------------------------------------------
(* Anti-entropy. *)

\* Names in sorted order: tags are numbers here.
Sorted(S) == [i \in 1 .. Cardinality(S) |-> CHOOSE t \in S : Cardinality({u \in S : u < t}) = i - 1]

\* The whole table when it fits, else a window that moves on every round.
build_digest(n, round) ==
  LET all == tag_generations(n)
      names == Sorted(DOMAIN all)
      size == Len(names)
      start == (round * world.window) % size
  IN  IF size <= world.window THEN [full |-> TRUE, entries |-> all]
      ELSE LET kept == {names[1 + ((start + i) % size)] : i \in 0 .. world.window - 1}
           IN  [full |-> FALSE, entries |-> [t \in kept |-> all[t]]]

\* gossip_round: waits for room in the peer's queue.
GossipRound(n, p) ==
  /\ gossip[n][p].pc = "due"
  /\ Len(queue[n][p]) < QueueDepth
  /\ LET digest == build_digest(n, gossip[n][p].round)
     IN  queue' = [queue EXCEPT ![n][p] =
           Append(@, [kind |-> "gossip", entries |-> digest.entries, full |-> digest.full, ack |-> 0, live |-> TRUE])]
  /\ gossip' = [gossip EXCEPT ![n][p].pc = "waiting"]
  /\ UNCHANGED <<world, gen, rec, client, link, ops, faults, covered>>

Abandon(m) == [m EXCEPT !.live = (m.kind = "invalidate")]

\* The timer gives up on a reply: what the round learns later is dropped.
GossipTimeout(n, p) ==
  /\ gossip[n][p].pc = "waiting"
  /\ faults < MaxFaults
  /\ faults' = faults + 1
  /\ gossip' = [gossip EXCEPT ![n][p] = [pc |-> "due", round |-> NextRound(@.round)]]
  /\ queue' = [queue EXCEPT ![n][p] = [i \in DOMAIN @ |-> Abandon(@[i])]]
  /\ link' = IF link[n][p] = Idle THEN link ELSE [link EXCEPT ![n][p].msg = Abandon(@)]
  /\ UNCHANGED <<world, gen, rec, client, ops, covered>>

\* A node stops and starts again: registry and records are on disk, the rest is
\* gone, and the first round is immediate.
Restart(n) ==
  /\ faults < MaxFaults
  /\ faults' = faults + 1
  /\ queue' = [queue EXCEPT ![n] = [p \in Peers(n) |-> <<>>]]
  /\ link' = [link EXCEPT ![n] = [p \in Peers(n) |-> Idle]]
  /\ gossip' = [gossip EXCEPT ![n] = [p \in Peers(n) |-> [pc |-> "due", round |-> 0]]]
  /\ client' = [c \in Clients |->
       IF \/ client[c].pc \in {"register", "stamp", "commit"} /\ client[c].at[1] = n
          \/ client[c].pc \in {"bump", "level", "await"} /\ client[c].node = n
       THEN Idle ELSE client[c]]
  /\ UNCHANGED <<world, gen, rec, ops, covered>>

----------------------------------------------------------------------------
\* Some records have been stored, and no tag has ever been invalidated.
Init ==
  /\ world \in Worlds
  /\ gen = [n \in Nodes |-> [s \in world.shards |-> [t \in world.tags |->
       IF <<n, s, t>> \in world.stored THEN 0 ELSE None]]]
  /\ rec = gen
  /\ client = [c \in Clients |-> Idle]
  /\ queue = [n \in Nodes |-> [p \in Peers(n) |-> <<>>]]
  /\ link = [n \in Nodes |-> [p \in Peers(n) |-> Idle]]
  /\ gossip = [n \in Nodes |-> [p \in Peers(n) |-> [pc |-> "due", round |-> 0]]]
  /\ ops = 0
  /\ faults = 0
  /\ covered = {}

Working(c) ==
  \/ RegisterTag(c)
  \/ StampWrite(c)
  \/ CommitWrite(c)
  \/ BumpShard(c)
  \/ DeleteNotFound(c)
  \/ LevelAndForward(c)
  \/ AwaitEnds(c)

ClientStep(c) ==
  \/ \E n \in Nodes, s \in world.shards, t \in world.tags : StartWrite(c, n, s, t)
  \/ \E n \in Nodes, t \in world.tags : StartDelete(c, n, t)
  \/ Working(c)

Delivery(n, p) ==
  \/ TakeMessage(n, p)
  \/ TagSync(n, p)
  \/ ExchangeSucceeds(n, p)

Fault(n, p) ==
  \/ ExchangeRetries(n, p)
  \/ ExchangeFails(n, p)
  \/ GossipTimeout(n, p)

Next ==
  \/ \E c \in Clients : ClientStep(c)
  \/ \E n \in Nodes : \E p \in Peers(n) : Delivery(n, p) \/ GossipRound(n, p) \/ Fault(n, p)
  \/ \E n \in Nodes : Restart(n)

Spec == Init /\ [][Next]_vars

\* Every runnable task runs: clients' threads, the peer tasks and the timers.
\* Faults are finitely many, so peers can be reached from some point on.
Fairness ==
  /\ \A c \in Clients : WF_vars(Working(c))
  /\ \A n \in Nodes : \A p \in Peers(n) : WF_vars(Delivery(n, p)) /\ WF_vars(GossipRound(n, p))

FairSpec == Spec /\ Fairness

----------------------------------------------------------------------------
(* Properties. *)

\* A merge between two bumps of one invalidation lets it add one per shard.
Generations == 0 .. MaxOps * Cardinality(world.shards)
Entries == UNION {[T -> Generations] : T \in SUBSET world.tags}
Messages == [kind : {"invalidate", "gossip"}, entries : Entries, full : BOOLEAN, ack : 0 .. MaxOps, live : BOOLEAN]

\* Every table keeps its shape and no peer's queue outgrows cluster.queue_depth.
ClusterTypeOK ==
  /\ world \in Worlds
  /\ gen \in [Nodes -> [world.shards -> [world.tags -> Generations \cup {None}]]]
  /\ rec \in [Nodes -> [world.shards -> [world.tags -> Generations \cup {None}]]]
  /\ \A c \in Clients : client[c].pc \in {"idle", "register", "stamp", "commit", "bump", "level", "await"}
  /\ \A n \in Nodes : \A p \in Peers(n) :
       /\ Len(queue[n][p]) <= QueueDepth
       /\ \A i \in DOMAIN queue[n][p] : queue[n][p][i] \in Messages
       /\ link[n][p] = Idle \/ link[n][p].msg \in Messages
       /\ gossip[n][p] \in [pc : {"due", "waiting"}, round : 0 .. world.rounds - 1]

\* Once DELETE_BY_TAG has answered, no record stored on the called node before the
\* call is served there again, whatever registrations, merges, other invalidations
\* and restarts ran meanwhile (delete_by_tag visits every shard).
NodeInvalidationIsStrong ==
  \A v \in covered : v.at[1] = v.by => ~Alive(v.at)

Older(c, slot) == Alive(slot) /\ rec[slot[1]][slot[2]][slot[3]] < client[c].generation

\* Under fanout_sync, a peer that answered and merged what it was sent serves no
\* record stored before the invalidation with an older generation, whatever has been
\* written, merged and restarted since: TAG_SYNC merges into every shard that holds
\* the name before it replies.  The caller is not told which peers these are:
\* apply_merges swallows a failed merge, and peer_loop acknowledges failed exchanges.
MergedPeerServesNothingOlder ==
  \A c \in Clients : client[c].pc = "await" =>
    \A slot \in client[c].before : slot[1] \in client[c].merged => ~Older(c, slot)

\* docs/protocol.md:1860: fanout_sync returns "after reachable peers have applied
\* it".  A peer that answers may have failed to.
AnsweredPeerServesNothingOlder ==
  \A c \in Clients : client[c].pc = "await" =>
    \A slot \in client[c].before : slot[1] \in client[c].answered => ~Older(c, slot)

ClusterMax(t) == Max({0} \cup {node_generation(n, t) : n \in {m \in Nodes : Holders(m, t) # {}}})

Converged ==
  \A t \in world.tags, n \in Nodes :
    /\ \A s \in Holders(n, t) : gen[n][s][t] = ClusterMax(t)
    /\ ClusterMax(t) > 0 => Holders(n, t) # {}

\* Lost, duplicated and abandoned exchanges, dropped messages and restarts are all
\* repaired: once invalidations stop, every shard of every node that holds a name
\* ends at the same generation, and every node knows every invalidated name.
EventuallyConverged == <>[]Converged

\* What a node reports for each tag only grows by one of its own bumps or by taking
\* a value another node has already reported.
known == [n \in Nodes |-> [t \in UNION {w.tags : w \in Worlds} |->
            IF t \in world.tags /\ node_generation(n, t) # None THEN node_generation(n, t) ELSE 0]]

Registry == INSTANCE MaxMerge WITH Tags <- UNION {w.tags : w \in Worlds}

ImplementsMaxMerge == Registry!Spec
============================================================================
