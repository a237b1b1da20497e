----------------------------- MODULE ClusterProofs -----------------------------
(***************************************************************************)
(* For any number of nodes, shards, tags and clients, and whatever is      *)
(* lost, repeated, abandoned or restarted: an answered invalidation is     *)
(* strong on the called node, a peer that merged serves nothing older, and *)
(* the cluster implements MaxMerge.                                        *)
(*                                                                         *)
(* The inductive invariant, ClusterInv, is kept action by action: first    *)
(* the steps of the callers of a node, then those of its peers.  Most of   *)
(* it is about invalidations and messages the action does not touch: the   *)
(* lemmas named ...Stay carry those parts over any step that lets no       *)
(* generation fall.                                                        *)
(***************************************************************************)
EXTENDS ClusterTags, TLAPS, FiniteSetTheorems, WellFoundedInduction

USE Zenon

\* A finite set of numbers has a largest member.
LEMMA MaxExists ==
  ASSUME NEW S, IsFiniteSet(S), S \subseteq Int, S # {}
  PROVE  \E m \in S : \A x \in S : m >= x
<1> DEFINE Fin == FiniteSubsetsOf(S)
           R == StrictSubsetOrdering(S)
           Bad == {A \in Fin : A # {} /\ ~ \E m \in A : \A x \in A : m >= x}
<1> SUFFICES ASSUME Bad # {} PROVE FALSE
  <2>1. S \in Fin
    BY FS_FiniteSubsetsOfFinite, SMT
  <2> QED BY <2>1
<1>1. IsWellFoundedOn(R, Fin)
  BY FS_StrictSubsetOrderingWellFounded
<1>2. PICK A \in Bad : \A B \in Bad : ~(<<B, A>> \in R)
  <2> HIDE DEF R, Fin
  <2> QED BY <1>1, WFMin
<1>3. PICK x \in A : TRUE
  OBVIOUS
<1> DEFINE B == A \ {x}
<1>4. B \in Fin /\ B # A /\ B \subseteq A /\ A \subseteq Int
  <2>1. A \in SUBSET S /\ IsFiniteSet(A)
    BY DEF FiniteSubsetsOf
  <2>2. IsFiniteSet(B)
    BY <2>1, FS_Subset
  <2> QED BY <1>3, <2>1, <2>2 DEF FiniteSubsetsOf
<1>5. CASE B = {}
  <2>1. A = {x}
    BY <1>5
  <2> QED BY <2>1, <1>4, SMT
<1>6. CASE B # {}
  <2>1. <<B, A>> \in R
    BY <1>4 DEF StrictSubsetOrdering, FiniteSubsetsOf
  <2>2. B \notin Bad
    BY <1>2, <2>1
  <2>3. PICK m \in B : \A y \in B : m >= y
    BY <2>2, <1>4, <1>6
  <2>4. m \in Int /\ x \in Int
    BY <1>4
  <2>5. \A y \in A : y = x \/ y \in B
    OBVIOUS
  <2>6. CASE m >= x
    BY <2>3, <2>5, <2>6
  <2>7. CASE ~(m >= x)
    <3>1. \A y \in A : x >= y
      BY <2>3, <2>4, <2>5, <2>7, <1>4, SMT
    <3> QED BY <3>1
  <2> QED BY <2>6, <2>7
<1> QED BY <1>5, <1>6

\* Max of FiniteSetsExt, which node_generation uses, is that member.
LEMMA MaxProperty ==
  ASSUME NEW S, IsFiniteSet(S), S \subseteq Int, S # {}
  PROVE  Max(S) \in S /\ \A x \in S : Max(S) >= x
BY MaxExists DEF Max

\* The larger of two numbers: what a merge keeps (merge_tag_generation).
LEMMA MaxOfTwo ==
  ASSUME NEW a \in Int, NEW b \in Int
  PROVE  Max({a, b}) = IF a >= b THEN a ELSE b
<1>1. \E m \in {a, b} : \A x \in {a, b} : m >= x
  BY SMT
<1>2. Max({a, b}) \in {a, b} /\ \A x \in {a, b} : Max({a, b}) >= x
  BY <1>1 DEF Max
<1> QED BY <1>2, SMT

\* A set of shard numbers has a first one: the next shard delete_by_tag visits.
LEMMA MinProperty ==
  ASSUME NEW S, S \subseteq Nat, S # {}
  PROVE  Min(S) \in S /\ \A x \in S : Min(S) <= x
<1>1. PICK m \in S : \A x \in S : m <= x
  <2> DEFINE R == OpToRel(<, Nat)
  <2>1. IsWellFoundedOn(R, Nat)
    BY NatLessThanWellFounded
  <2>2. PICK m \in S : \A y \in S : ~(<<y, m>> \in R)
    <3> HIDE DEF R
    <3> QED BY <2>1, WFMin
  <2>3. \A y \in S : ~(y < m)
    BY <2>2 DEF OpToRel
  <2> QED BY <2>3, SMT
<1> QED BY <1>1 DEF Min

----------------------------------------------------------------------------
\* A generation, or none.
Gens == Nat \cup {None}
\* What a digest or a message may say of some tags.
Offers == UNION {[T -> Nat] : T \in SUBSET world.tags}
\* What goes to a peer.
Sent == [kind : {"invalidate", "gossip"}, entries : Offers, full : BOOLEAN, ack : Nat, live : BOOLEAN]

\* The generation a slot's shard holds, and the one its record captured.
At(slot) == gen[slot[1]][slot[2]][slot[3]]
Stored(slot) == rec[slot[1]][slot[2]][slot[3]]

\* The registries, the records and the clients.
Tables ==
  /\ world \in Worlds
  /\ gen \in [Nodes -> [world.shards -> [world.tags -> Gens]]]
  /\ rec \in [Nodes -> [world.shards -> [world.tags -> Gens]]]
  /\ ops \in Nat
  /\ DOMAIN client = Clients

\* The queues, connections and timers of every ordered pair of nodes.
Ports ==
  /\ DOMAIN queue = Nodes /\ DOMAIN link = Nodes /\ DOMAIN gossip = Nodes
  /\ \A n \in Nodes :
       /\ DOMAIN queue[n] = Peers(n) /\ DOMAIN link[n] = Peers(n) /\ DOMAIN gossip[n] = Peers(n)
       /\ \A p \in Peers(n) :
            /\ queue[n][p] \in Seq(Sent)
            /\ gossip[n][p] \in [pc : {"due", "waiting"}, round : Nat]

\* All the shapes.
Shapes == Tables /\ Ports

\* Every generation in an exchange is one that some node reports.
Reported(e) ==
  e \in Offers /\ \A t \in DOMAIN e : \E m \in Nodes : e[t] <= known[m][t]

\* A stored record captured no more than its shard holds now.
RecordsCaptured ==
  \A n \in Nodes : \A s \in world.shards : \A t \in world.tags :
    rec[n][s][t] # None => gen[n][s][t] # None /\ rec[n][s][t] <= gen[n][s][t]

\* A write registers no more than its node reports, and captures no more than its
\* shard holds.
WriterOK(c) ==
  client[c].pc \in {"register", "stamp", "commit"} =>
    /\ client[c].at \in Slots
    /\ client[c].pc = "register" =>
         /\ client[c].start \in Nat
         /\ client[c].start <= known[client[c].at[1]][client[c].at[3]]
    /\ client[c].pc # "register" => At(client[c].at) # None
    /\ client[c].pc = "commit" =>
         client[c].captured \in Nat /\ client[c].captured <= At(client[c].at)

\* An invalidation has a number of its own, and covers stored records of its tag.
DeleterOK(c) ==
  client[c].pc \in {"bump", "level", "await"} =>
    /\ client[c].node \in Nodes /\ client[c].tag \in world.tags
    /\ client[c].id \in 1 .. ops
    /\ \A d \in Clients \ {c} :
         client[d].pc \in {"bump", "level", "await"} => client[d].id # client[c].id
    /\ client[c].before \subseteq Slots
    /\ \A slot \in client[c].before : slot[3] = client[c].tag /\ Stored(slot) # None

\* The slots of the called node whose shards have been bumped hold dead records, and
\* the highest generation seen is one the node reports.
BumperOK(c) ==
  client[c].pc \in {"bump", "level"} =>
    /\ DOMAIN client[c] = {"pc", "id", "node", "tag", "todo", "highest", "before"}
    /\ client[c].todo \subseteq world.shards
    /\ client[c].pc = "bump" <=> client[c].todo # {}
    /\ client[c].highest \in Gens
    /\ client[c].highest # None => client[c].highest <= known[client[c].node][client[c].tag]
    /\ \A slot \in client[c].before :
         slot[1] = client[c].node /\ slot[2] \notin client[c].todo => Stored(slot) < At(slot)

\* Every slot of the called node holds a dead record, and every peer that merged it
\* has reached the generation sent.
AwaiterOK(c) ==
  client[c].pc = "await" =>
    /\ DOMAIN client[c] = {"pc", "id", "node", "tag", "generation", "waiting", "answered", "merged", "before"}
    /\ client[c].generation \in Nat
    /\ \A slot \in client[c].before :
         /\ slot[1] = client[c].node => Stored(slot) < At(slot)
         /\ slot[1] \in client[c].merged => client[c].generation <= At(slot)

\* A message says what some node reports; the one an invalidation waits for says
\* what it reached, and none carries the number of one that has not sent yet.
MessageOK(n, m) ==
  /\ m \in Sent /\ Reported(m.entries)
  /\ m.ack <= ops
  /\ \A c \in Clients : client[c].pc \in {"bump", "level", "await"} /\ client[c].id = m.ack =>
       /\ client[c].pc = "await" /\ client[c].node = n
       /\ m.entries = [u \in {client[c].tag} |-> client[c].generation]

\* A reply tells what the peer reports, and one that says the message was applied
\* finds every record covered there at or above the generation sent.
LinkOK(n, p) ==
  \/ link[n][p] = Idle
  \/ /\ link[n][p].pc \in {"send", "reply"}
     /\ {"pc", "msg", "attempt"} \subseteq DOMAIN link[n][p]
     /\ MessageOK(n, link[n][p].msg)
     /\ link[n][p].pc = "reply" =>
          /\ {"learned", "applied"} \subseteq DOMAIN link[n][p]
          /\ Reported(link[n][p].learned)
          /\ link[n][p].applied => \A c \in Clients :
               client[c].pc = "await" /\ client[c].id = link[n][p].msg.ack =>
                 \A slot \in client[c].before : slot[1] = p => client[c].generation <= At(slot)

\* A record an answered invalidation covered is dead on the called node.
CoveredOK(v) ==
  /\ v.at \in Slots
  /\ Stored(v.at) # None
  /\ v.at[1] = v.by => Stored(v.at) < At(v.at)

\* The inductive invariant.  The two safety properties speak of answered and of
\* confirmed invalidations only; what makes them so are the half-done ones, the
\* messages still queued and the replies not yet read, so it covers all of those.
ClusterInv ==
  /\ Shapes
  /\ RecordsCaptured
  /\ \A c \in Clients :
       client[c].pc \in {"idle", "register", "stamp", "commit", "bump", "level", "await"}
  /\ \A c \in Clients : WriterOK(c)
  /\ \A c \in Clients : DeleterOK(c)
  /\ \A c \in Clients : BumperOK(c)
  /\ \A c \in Clients : AwaiterOK(c)
  /\ \A n \in Nodes : \A p \in Peers(n) : \A i \in DOMAIN queue[n][p] : MessageOK(n, queue[n][p][i])
  /\ \A n \in Nodes : \A p \in Peers(n) : LinkOK(n, p)
  /\ \A v \in covered : CoveredOK(v)

----------------------------------------------------------------------------
\* The tags of every setting.
AllTags == UNION {w.tags : w \in Worlds}

\* The registries have their shape.
GenTyped ==
  /\ world \in Worlds
  /\ gen \in [Nodes -> [world.shards -> [world.tags -> Gens]]]

\* What node_generation, the maximum over the shards, amounts to.
KnownFacts ==
  \A n \in Nodes : \A t \in AllTags :
    /\ known[n][t] \in Nat
    /\ t \notin world.tags => known[n][t] = 0
    /\ t \in world.tags =>
         /\ \A s \in world.shards : gen[n][s][t] # None => gen[n][s][t] <= known[n][t]
         /\ known[n][t] = 0 \/ \E s \in world.shards : gen[n][s][t] = known[n][t]

\* What a node reports for a tag is at least what each of its shards holds, and is
\* zero or what one of them holds (VashStore::node_generation).
LEMMA KnownIsMax == GenTyped => KnownFacts
<1> SUFFICES ASSUME GenTyped, NEW n \in Nodes, NEW t \in AllTags
    PROVE  /\ known[n][t] \in Nat
           /\ t \notin world.tags => known[n][t] = 0
           /\ t \in world.tags =>
                /\ \A s \in world.shards : gen[n][s][t] # None => gen[n][s][t] <= known[n][t]
                /\ known[n][t] = 0 \/ \E s \in world.shards : gen[n][s][t] = known[n][t]
  BY DEF KnownFacts
<1>1. known[n][t] = IF t \in world.tags /\ node_generation(n, t) # None THEN node_generation(n, t) ELSE 0
  BY DEF known, AllTags
<1>2. CASE t \notin world.tags
  BY <1>1, <1>2, SMT
<1>3. CASE t \in world.tags /\ Holders(n, t) = {}
  <2>1. known[n][t] = 0
    BY <1>1, <1>3 DEF node_generation
  <2> QED BY <1>3, <2>1, SMT DEF Holders
<1>4. CASE t \in world.tags /\ Holders(n, t) # {}
  <2> DEFINE H == Holders(n, t)
             f == [s \in H |-> gen[n][s][t]]
             G == {gen[n][s][t] : s \in H}
  <2>1. IsFiniteSet(H)
    BY ClusterAssumption, FS_Subset DEF Holders, GenTyped
  <2>2. \A s \in H : gen[n][s][t] \in Nat
    BY <1>4, SMT DEF GenTyped, Gens, Holders
  <2>3. f \in Surjection(H, G)
    BY DEF Surjection
  <2>4. IsFiniteSet(G) /\ G \subseteq Int /\ G # {}
    <3>1. IsFiniteSet(G)
      <4> HIDE DEF H, f, G
      <4> QED BY <2>1, <2>3, FS_Surjection
    <3> QED BY <3>1, <2>2, <1>4, SMT
  <2>5. Max(G) \in G /\ \A x \in G : Max(G) >= x
    <3> HIDE DEF G
    <3> QED BY <2>4, MaxProperty
  <2>6. node_generation(n, t) = Max(G)
    BY <1>4 DEF node_generation
  <2>7. Max(G) \in Nat /\ Max(G) # None
    BY <2>5, <2>2, ClusterAssumption
  <2>8. known[n][t] = Max(G)
    BY <1>1, <1>4, <2>6, <2>7
  <2>9. \A s \in world.shards : gen[n][s][t] # None => gen[n][s][t] \in G
    BY DEF Holders
  <2>10. \A s \in world.shards : gen[n][s][t] # None => gen[n][s][t] <= Max(G)
    <3> HIDE DEF G
    <3> QED BY <2>5, <2>9, <2>4, <2>7
  <2>11. \E s \in world.shards : gen[n][s][t] = Max(G)
    BY <2>5 DEF Holders
  <2> QED BY <1>4, <2>7, <2>8, <2>10, <2>11
<1> QED BY <1>2, <1>3, <1>4

\* The same of the next state.
LEMMA KnownIsMaxNext == GenTyped' => KnownFacts'
BY KnownIsMax, PTL

\* No registered generation is lost or lowered.
Grows ==
  \A n \in Nodes : \A s \in world.shards : \A t \in world.tags :
    gen[n][s][t] # None => gen'[n][s][t] # None /\ gen[n][s][t] <= gen'[n][s][t]

\* What every step leaves: the setting, the shape of the registries, and no less
\* than there was.
Later ==
  /\ world' = world /\ GenTyped /\ GenTyped' /\ Grows
  /\ ops \in Nat /\ ops' \in Nat /\ ops <= ops'

\* When no shard falls, no node reports less.
LEMMA KnownGrows ==
  ASSUME Later
  PROVE  \A n \in Nodes : \A t \in AllTags :
           known[n][t] \in Nat /\ known'[n][t] \in Nat /\ known[n][t] <= known'[n][t]
<1> SUFFICES ASSUME NEW n \in Nodes, NEW t \in AllTags
    PROVE  known[n][t] \in Nat /\ known'[n][t] \in Nat /\ known[n][t] <= known'[n][t]
  OBVIOUS
<1>1. KnownFacts /\ KnownFacts'
  BY KnownIsMax, KnownIsMaxNext DEF Later
<1>2. known[n][t] \in Nat /\ known'[n][t] \in Nat
  BY <1>1 DEF KnownFacts
<1>3. CASE known[n][t] = 0
  BY <1>2, <1>3, SMT
<1>4. CASE known[n][t] # 0
  <2>1. t \in world.tags
    BY <1>1, <1>4 DEF KnownFacts
  <2>2. PICK s \in world.shards : gen[n][s][t] = known[n][t]
    BY <1>1, <1>4, <2>1 DEF KnownFacts
  <2>3. gen[n][s][t] # None
    BY <1>2, <2>2, ClusterAssumption
  <2>4. gen'[n][s][t] # None /\ gen[n][s][t] <= gen'[n][s][t]
    BY <2>1, <2>3 DEF Later, Grows
  <2>5. gen'[n][s][t] <= known'[n][t]
    BY <1>1, <2>1, <2>4 DEF KnownFacts, Later
  <2>6. gen'[n][s][t] \in Nat
    BY <2>1, <2>4, SMT DEF Later, GenTyped, Gens
  <2> QED BY <1>2, <2>2, <2>4, <2>5, <2>6, SMT
<1> QED BY <1>3, <1>4

----------------------------------------------------------------------------
\* Where an invalidation, and where a write, can be.
Deleting == {"bump", "level", "await"}
Writing == {"register", "stamp", "commit"}

\* What is reported in an exchange is still reported after the registries grow.
LEMMA ReportedStays ==
  ASSUME Later, NEW e, Reported(e)
  PROVE  e \in Offers' /\ \A t \in DOMAIN e : \E m \in Nodes : e[t] <= known'[m][t]
<1>1. PICK T \in SUBSET world.tags : e \in [T -> Nat]
  BY DEF Reported, Offers
<1>2. e \in Offers'
  BY DEF Reported, Offers, Later
<1>3. ASSUME NEW t \in DOMAIN e PROVE \E m \in Nodes : e[t] <= known'[m][t]
  <2>1. PICK m \in Nodes : e[t] <= known[m][t]
    BY DEF Reported
  <2>2. t \in AllTags /\ e[t] \in Nat
    BY <1>1 DEF AllTags, Later, GenTyped
  <2> QED BY <2>1, <2>2, KnownGrows, SMT
<1> QED BY <1>2, <1>3

\* The generation at a slot is a generation, and does not fall.
LEMMA SlotGrows ==
  ASSUME Later, NEW slot \in Slots
  PROVE  /\ slot \in Slots'
         /\ At(slot) \in Gens /\ gen'[slot[1]][slot[2]][slot[3]] \in Gens
         /\ At(slot) # None => /\ gen'[slot[1]][slot[2]][slot[3]] # None
                               /\ At(slot) <= gen'[slot[1]][slot[2]][slot[3]]
<1>1. slot[1] \in Nodes /\ slot[2] \in world.shards /\ slot[3] \in world.tags
  BY DEF Slots
<1> QED BY <1>1, SMT DEF Slots, At, Later, GenTyped, Grows

\* A tagged write that the step leaves alone is still sound: the generation it
\* captured, or is about to register, is no higher than what is there.
LEMMA OneWriterStays ==
  ASSUME ClusterInv, Later, NEW c \in Clients, client'[c].pc \in Writing => client'[c] = client[c]
  PROVE  WriterOK(c)'
<1> SUFFICES ASSUME client'[c].pc \in Writing PROVE WriterOK(c)'
  BY DEF WriterOK, Writing
<1>1. WriterOK(c) /\ client'[c] = client[c] /\ client[c].pc \in Writing
  BY DEF ClusterInv
<1>2. client[c].at \in Slots
  BY <1>1 DEF WriterOK, Writing
<1> DEFINE slot == client[c].at
           after == gen'[slot[1]][slot[2]][slot[3]]
<1>3. slot \in Slots' /\ At(slot) \in Gens /\ after \in Gens
      /\ (At(slot) # None => after # None /\ At(slot) <= after)
  BY <1>2, SlotGrows
<1>4. slot[1] \in Nodes /\ slot[3] \in AllTags
  BY <1>2 DEF Slots, AllTags, Later, GenTyped
<1>5. /\ known[slot[1]][slot[3]] \in Nat /\ known'[slot[1]][slot[3]] \in Nat
      /\ known[slot[1]][slot[3]] <= known'[slot[1]][slot[3]]
  BY <1>4, KnownGrows
<1>6. client[c].pc = "register" => client[c].start \in Nat /\ client[c].start <= known'[slot[1]][slot[3]]
  BY <1>1, <1>5, SMT DEF WriterOK, Writing
<1>7. client[c].pc # "register" => after # None
  BY <1>1, <1>3 DEF WriterOK, Writing
<1>8. client[c].pc = "commit" => client[c].captured \in Nat /\ client[c].captured <= after
  <2>1. client[c].pc = "commit" => client[c].captured \in Nat /\ client[c].captured <= At(slot) /\ At(slot) # None
    BY <1>1 DEF WriterOK, Writing
  <2>2. At(slot) # None => At(slot) \in Nat /\ after \in Nat /\ At(slot) <= after
    BY <1>3 DEF Gens
  <2> HIDE DEF slot, after
  <2> QED BY <2>1, <2>2, SMT
<1> QED BY <1>1, <1>3, <1>6, <1>7, <1>8 DEF WriterOK, At

\* The same of all writers.
LEMMA WritersStay ==
  ASSUME ClusterInv, Later,
         \A c \in Clients : client'[c].pc \in Writing => client'[c] = client[c]
  PROVE  \A c \in Clients : WriterOK(c)'
BY OneWriterStays

\* A record an invalidation has killed stays dead while generations grow.
LEMMA DeadStays ==
  ASSUME ClusterInv, Later, NEW slot \in Slots, Stored(slot) # None, Stored(slot) < At(slot)
  PROVE  Stored(slot) < gen'[slot[1]][slot[2]][slot[3]]
<1>1. slot[1] \in Nodes /\ slot[2] \in world.shards /\ slot[3] \in world.tags
  BY DEF Slots
<1>2. Stored(slot) \in Nat /\ At(slot) # None
  BY <1>1, SMT DEF ClusterInv, Shapes, Tables, RecordsCaptured, Stored, At, Gens
<1>3. At(slot) \in Nat /\ gen'[slot[1]][slot[2]][slot[3]] \in Nat /\ At(slot) <= gen'[slot[1]][slot[2]][slot[3]]
  BY <1>2, SlotGrows DEF Gens
<1> QED BY <1>2, <1>3, SMT

\* No stored record captured more than its shard holds, and the records answered
\* invalidations have covered stay dead, as long as no record is written.
LEMMA RecordsStay ==
  ASSUME ClusterInv, Later, rec' = rec
  PROVE  /\ RecordsCaptured'
         /\ \A v \in covered : CoveredOK(v)'
<1>1. RecordsCaptured'
  <2> SUFFICES ASSUME NEW n \in Nodes, NEW s \in world.shards, NEW t \in world.tags, rec[n][s][t] # None
      PROVE  gen'[n][s][t] # None /\ rec[n][s][t] <= gen'[n][s][t]
    BY DEF RecordsCaptured, Later
  <2>1. gen[n][s][t] # None /\ rec[n][s][t] <= gen[n][s][t]
    BY DEF ClusterInv, RecordsCaptured
  <2>2. gen'[n][s][t] # None /\ gen[n][s][t] <= gen'[n][s][t]
    BY <2>1 DEF Later, Grows
  <2>3. rec[n][s][t] \in Nat /\ gen[n][s][t] \in Nat /\ gen'[n][s][t] \in Nat
    BY <2>1, <2>2, SMT DEF Later, GenTyped, ClusterInv, Shapes, Tables, Gens
  <2> QED BY <2>1, <2>2, <2>3, SMT
<1>2. ASSUME NEW v \in covered PROVE CoveredOK(v)'
  <2>1. CoveredOK(v)
    BY DEF ClusterInv
  <2>2. v.at[1] = v.by => Stored(v.at) < gen'[v.at[1]][v.at[2]][v.at[3]]
    BY <2>1, DeadStays DEF CoveredOK
  <2> QED BY <2>1, <2>2, SlotGrows DEF CoveredOK, Stored, At
<1> QED BY <1>1, <1>2

\* The step leaves the client's invalidation, if it has one, the one it was.
SameDelete(c) ==
  client'[c].pc \in Deleting =>
    /\ client[c].pc \in Deleting
    /\ client[c].pc = "await" => client'[c].pc = "await"
    /\ client'[c].id = client[c].id
    /\ client'[c].node = client[c].node /\ client'[c].tag = client[c].tag
    /\ client'[c].before \subseteq client[c].before
    /\ \A slot \in client'[c].before :
         rec'[slot[1]][slot[2]][slot[3]] = rec[slot[1]][slot[2]][slot[3]]

\* The shards still to visit and the highest generation seen are untouched.
SameBump(c) ==
  client'[c].pc \in {"bump", "level"} =>
    /\ client'[c].pc = client[c].pc /\ DOMAIN client'[c] = DOMAIN client[c]
    /\ client'[c].todo = client[c].todo /\ client'[c].highest = client[c].highest

\* A peer has newly merged only once it has reached the generation sent.
SameAwait(c) ==
  client'[c].pc = "await" =>
    /\ client[c].pc = "await" /\ DOMAIN client'[c] = DOMAIN client[c]
    /\ client'[c].generation = client[c].generation
    /\ \A slot \in client'[c].before : slot[1] \in client'[c].merged =>
         \/ slot[1] \in client[c].merged
         \/ client[c].generation <= gen'[slot[1]][slot[2]][slot[3]]

\* An invalidation is new, or the one it was.
Carried(c) ==
  \/ client'[c].pc \in Deleting /\ client'[c].id = ops + 1
  \/ SameDelete(c) /\ (client[c].pc = "await" => SameAwait(c))

\* An invalidation under way keeps its number, its node, its tag and its slots.
LEMMA DeletersStay ==
  ASSUME ClusterInv, Later, \A d \in Clients : Carried(d), NEW c \in Clients, SameDelete(c)
  PROVE  DeleterOK(c)'
<1> SUFFICES ASSUME client'[c].pc \in Deleting PROVE DeleterOK(c)'
  BY DEF DeleterOK, Deleting
<1>1. DeleterOK(c) /\ client[c].pc \in Deleting /\ SameDelete(c)
  BY DEF SameDelete, ClusterInv
<1>2. client'[c].id \in 1 .. ops' /\ client'[c].node \in Nodes /\ client'[c].tag \in world'.tags
  BY <1>1, SMT DEF SameDelete, DeleterOK, Deleting, Later
<1>3. ASSUME NEW d \in Clients \ {c}, client'[d].pc \in Deleting PROVE client'[d].id # client'[c].id
  <2>1. client'[c].id = client[c].id /\ client[c].id \in 1 .. ops /\ ops \in Nat
    BY <1>1 DEF SameDelete, DeleterOK, Deleting, Later
  <2>2. CASE client'[d].id = ops + 1
    BY <2>1, <2>2, SMT
  <2>3. CASE SameDelete(d)
    BY <1>1, <1>3, <2>1, <2>3 DEF SameDelete, DeleterOK, Deleting
  <2> QED BY <2>2, <2>3 DEF Carried
<1>4. client'[c].before \subseteq Slots'
  BY <1>1 DEF SameDelete, DeleterOK, Deleting, Later, Slots
<1>5. ASSUME NEW slot \in client'[c].before PROVE slot[3] = client'[c].tag /\ Stored(slot)' # None
  BY <1>1 DEF SameDelete, DeleterOK, Deleting, Stored
<1> QED BY <1>2, <1>3, <1>4, <1>5 DEF DeleterOK, Deleting

\* The shards an invalidation has bumped stay bumped.
LEMMA BumpersStay ==
  ASSUME ClusterInv, Later, NEW c \in Clients, SameDelete(c), SameBump(c)
  PROVE  BumperOK(c)'
<1> SUFFICES ASSUME client'[c].pc \in {"bump", "level"} PROVE BumperOK(c)'
  BY DEF BumperOK
<1>1. BumperOK(c) /\ DeleterOK(c) /\ client[c].pc \in {"bump", "level"}
  BY DEF SameBump, ClusterInv
<1>2. /\ DOMAIN client'[c] = {"pc", "id", "node", "tag", "todo", "highest", "before"}
      /\ client'[c].todo \subseteq world'.shards
      /\ client'[c].pc = "bump" <=> client'[c].todo # {}
      /\ client'[c].highest \in Gens
  BY <1>1 DEF SameBump, BumperOK, Later
<1>3. client'[c].highest # None => client'[c].highest <= known'[client'[c].node][client'[c].tag]
  <2>1. client[c].node \in Nodes /\ client[c].tag \in AllTags
    BY <1>1 DEF DeleterOK, AllTags, Later, GenTyped
  <2>2. /\ client'[c].node = client[c].node /\ client'[c].tag = client[c].tag
        /\ client'[c].highest = client[c].highest
    BY DEF SameDelete, SameBump, Deleting
  <2>3. client[c].highest # None =>
          client[c].highest \in Nat /\ client[c].highest <= known[client[c].node][client[c].tag]
    BY <1>1 DEF BumperOK, Gens
  <2>4. /\ known[client[c].node][client[c].tag] \in Nat /\ known'[client[c].node][client[c].tag] \in Nat
        /\ known[client[c].node][client[c].tag] <= known'[client[c].node][client[c].tag]
    BY <2>1, KnownGrows
  <2> QED BY <2>2, <2>3, <2>4, SMT
<1>4. ASSUME NEW slot \in client'[c].before, slot[1] = client'[c].node, slot[2] \notin client'[c].todo
      PROVE  Stored(slot)' < At(slot)'
  <2>1. slot \in client[c].before /\ slot \in Slots /\ Stored(slot) # None /\ Stored(slot)' = Stored(slot)
    BY <1>1 DEF SameDelete, Deleting, DeleterOK, Stored
  <2>2. Stored(slot) < At(slot)
    BY <1>1, <1>4, <2>1 DEF SameDelete, Deleting, SameBump, BumperOK
  <2> QED BY <2>1, <2>2, DeadStays DEF At
<1> QED BY <1>2, <1>3, <1>4 DEF BumperOK

\* What the peers that merged hold stays at or above the generation sent.
LEMMA AwaitersStay ==
  ASSUME ClusterInv, Later, NEW c \in Clients, SameDelete(c), SameAwait(c)
  PROVE  AwaiterOK(c)'
<1> SUFFICES ASSUME client'[c].pc = "await" PROVE AwaiterOK(c)'
  BY DEF AwaiterOK
<1>1. AwaiterOK(c) /\ DeleterOK(c) /\ client[c].pc = "await"
  BY DEF SameAwait, ClusterInv
<1>2. /\ DOMAIN client'[c] = {"pc", "id", "node", "tag", "generation", "waiting", "answered", "merged", "before"}
      /\ client'[c].generation \in Nat /\ client'[c].generation = client[c].generation
  BY <1>1 DEF SameAwait, AwaiterOK
<1>3. ASSUME NEW slot \in client'[c].before
      PROVE  /\ slot[1] = client'[c].node => Stored(slot)' < At(slot)'
             /\ slot[1] \in client'[c].merged => client'[c].generation <= At(slot)'
  <2>1. slot \in client[c].before /\ slot \in Slots /\ Stored(slot) # None /\ Stored(slot)' = Stored(slot)
    BY <1>1 DEF SameDelete, Deleting, DeleterOK, Stored
  <2>2. slot[1] = client'[c].node => Stored(slot)' < At(slot)'
    <3>1. slot[1] = client'[c].node => Stored(slot) < At(slot)
      BY <1>1, <2>1 DEF SameDelete, Deleting, AwaiterOK
    <3> QED BY <2>1, <3>1, DeadStays DEF At
  <2>3. ASSUME slot[1] \in client'[c].merged PROVE client'[c].generation <= At(slot)'
    <3>1. CASE slot[1] \in client[c].merged
      <4>1. client[c].generation <= At(slot) /\ client[c].generation \in Nat
        BY <1>1, <2>1, <3>1 DEF AwaiterOK
      <4>2. At(slot) \in Nat
        BY <2>1, SMT DEF ClusterInv, Shapes, Tables, RecordsCaptured, Stored, At, Gens, Slots
      <4>3. At(slot)' \in Nat /\ At(slot) <= At(slot)'
        BY <2>1, <4>2, SlotGrows, ClusterAssumption DEF At, Gens
      <4> QED BY <1>2, <4>1, <4>2, <4>3, SMT
    <3>2. CASE client[c].generation <= gen'[slot[1]][slot[2]][slot[3]]
      BY <1>2, <3>2 DEF At
    <3> QED BY <2>3, <3>1, <3>2 DEF SameAwait
  <2> QED BY <2>2, <2>3
<1> QED BY <1>2, <1>3 DEF AwaiterOK

\* A message in a queue or on a connection stays sound.
LEMMA MessagesStay ==
  ASSUME ClusterInv, Later, \A c \in Clients : Carried(c),
         NEW n \in Nodes, NEW m, MessageOK(n, m)
  PROVE  MessageOK(n, m)'
<1>1. Reported(m.entries)'
  BY ReportedStays DEF Reported, MessageOK
<1>2. m \in Sent'
  BY DEF MessageOK, Sent, Offers, Later
<1>3. m.ack <= ops'
  BY SMT DEF MessageOK, Sent, Later
<1>4. ASSUME NEW c \in Clients, client'[c].pc \in Deleting, client'[c].id = m.ack
      PROVE  /\ client'[c].pc = "await" /\ client'[c].node = n
             /\ m.entries = [u \in {client'[c].tag} |-> client'[c].generation]
  <2>1. m.ack <= ops /\ m.ack \in Nat /\ ops \in Nat
    BY DEF MessageOK, Sent, Later
  <2>2. SameDelete(c) /\ (client[c].pc = "await" => SameAwait(c))
    BY <1>4, <2>1, SMT DEF Carried
  <2>3. client[c].pc = "await" /\ client[c].node = n
        /\ m.entries = [u \in {client[c].tag} |-> client[c].generation]
    BY <1>4, <2>2 DEF MessageOK, SameDelete, Deleting
  <2> QED BY <1>4, <2>2, <2>3 DEF SameDelete, SameAwait, Deleting
<1> QED BY <1>1, <1>2, <1>3, <1>4 DEF MessageOK, Deleting

\* A peer's task that the step leaves alone stays sound.
LEMMA LinksStay ==
  ASSUME ClusterInv, Later, \A c \in Clients : Carried(c),
         NEW n \in Nodes, NEW p \in Peers(n), link'[n][p] = link[n][p]
  PROVE  LinkOK(n, p)'
<1> SUFFICES ASSUME link[n][p] # Idle PROVE LinkOK(n, p)'
  BY DEF LinkOK
<1>1. LinkOK(n, p)
  BY DEF ClusterInv
<1>2. MessageOK(n, link[n][p].msg)'
  <2>1. PICK m : m = link[n][p].msg
    OBVIOUS
  <2>2. MessageOK(n, m)
    BY <1>1, <2>1 DEF LinkOK
  <2>3. MessageOK(n, m)'
    BY <2>2, MessagesStay
  <2>4. link'[n][p].msg = m
    BY <2>1
  <2> QED BY <2>3, <2>4 DEF MessageOK, Reported
<1>3. ASSUME link[n][p].pc = "reply" PROVE Reported(link[n][p].learned)'
  <2>1. PICK e : e = link[n][p].learned
    OBVIOUS
  <2>2. Reported(e)
    BY <1>1, <1>3, <2>1 DEF LinkOK
  <2> QED BY <2>1, <2>2, ReportedStays DEF Reported
<1>4. ASSUME link[n][p].pc = "reply", link[n][p].applied, NEW c \in Clients,
             client'[c].pc = "await", client'[c].id = link[n][p].msg.ack,
             NEW slot \in client'[c].before, slot[1] = p
      PROVE  client'[c].generation <= At(slot)'
  <2>1. /\ client[c].pc = "await" /\ client[c].id = link[n][p].msg.ack
        /\ slot \in client[c].before /\ client'[c].generation = client[c].generation
    <3>1. MessageOK(n, link[n][p].msg) /\ link[n][p].msg.ack \in Nat /\ ops \in Nat
      BY <1>1 DEF LinkOK, MessageOK, Sent, Later
    <3>2. SameDelete(c) /\ (client[c].pc = "await" => SameAwait(c))
      BY <1>4, <3>1, SMT DEF Carried, MessageOK
    <3>3. client[c].pc \in Deleting /\ client[c].id = link[n][p].msg.ack
      BY <1>4, <3>2 DEF SameDelete, Deleting
    <3>4. client[c].pc = "await"
      BY <3>1, <3>3 DEF MessageOK, Deleting
    <3> QED BY <1>4, <3>2, <3>4 DEF SameDelete, SameAwait, Deleting
  <2>2. client[c].generation <= At(slot)
    BY <1>1, <1>4, <2>1 DEF LinkOK
  <2>3. DeleterOK(c) /\ AwaiterOK(c) /\ Shapes /\ RecordsCaptured
    BY DEF ClusterInv
  <2>4. slot \in Slots /\ Stored(slot) # None /\ client[c].generation \in Nat
    BY <2>1, <2>3 DEF DeleterOK, AwaiterOK
  <2>5. At(slot) \in Nat
    BY <2>3, <2>4, SMT DEF Shapes, Tables, RecordsCaptured, Stored, At, Gens, Slots
  <2>6. At(slot)' \in Nat /\ At(slot) <= At(slot)'
    BY <2>4, <2>5, SlotGrows, ClusterAssumption DEF At, Gens
  <2> QED BY <2>1, <2>2, <2>4, <2>5, <2>6, SMT
<1> QED BY <1>1, <1>2, <1>3, <1>4 DEF LinkOK

\* The step leaves every invalidation under way as it is.
LEMMA Undisturbed ==
  ASSUME rec' = rec, \A c \in Clients : client'[c].pc \in Deleting => client'[c] = client[c]
  PROVE  \A c \in Clients : SameDelete(c) /\ SameBump(c) /\ SameAwait(c) /\ Carried(c)
BY SMT DEF SameDelete, SameBump, SameAwait, Deleting, Carried

\* The parts of the invariant put together.
LEMMA StepKeeps ==
  ASSUME Shapes', RecordsCaptured', \A v \in covered' : CoveredOK(v)',
         \A c \in Clients :
           /\ client'[c].pc \in Writing \cup Deleting \cup {"idle"}
           /\ WriterOK(c)' /\ DeleterOK(c)' /\ BumperOK(c)' /\ AwaiterOK(c)',
         \A n \in Nodes : \A p \in Peers(n) :
           /\ \A i \in DOMAIN queue'[n][p] : MessageOK(n, queue[n][p][i])'
           /\ LinkOK(n, p)'
  PROVE  ClusterInv'
BY DEF ClusterInv, Peers, Writing, Deleting

\* All that is left to show of a step that disturbs no invalidation.
LEMMA QuietStep ==
  ASSUME ClusterInv, Later, Shapes', rec' = rec, covered' = covered,
         \A c \in Clients : client'[c].pc \in Deleting => client'[c] = client[c],
         \A c \in Clients : client'[c].pc \in Writing \cup Deleting \cup {"idle"},
         \A c \in Clients : WriterOK(c)',
         \A n \in Nodes : \A p \in Peers(n) :
           /\ \A i \in DOMAIN queue'[n][p] : MessageOK(n, queue[n][p][i])'
           /\ LinkOK(n, p)'
  PROVE  ClusterInv'
<1>1. \A c \in Clients : SameDelete(c) /\ SameBump(c) /\ SameAwait(c) /\ Carried(c)
  BY Undisturbed
<1>2. \A c \in Clients : DeleterOK(c)' /\ BumperOK(c)' /\ AwaiterOK(c)'
  BY <1>1, DeletersStay, BumpersStay, AwaitersStay
<1>3. RecordsCaptured' /\ \A v \in covered' : CoveredOK(v)'
  BY RecordsStay
<1> QED BY <1>2, <1>3, StepKeeps

----------------------------------------------------------------------------
\* A step that changes no registry lets nothing fall.
LEMMA NothingGrew ==
  ASSUME ClusterInv, UNCHANGED <<world, gen>>, ops' \in Nat, ops <= ops'
  PROVE  Later
<1>1. GenTyped /\ ops \in Nat
  BY DEF ClusterInv, Shapes, Tables, GenTyped
<1>2. GenTyped'
  BY <1>1 DEF GenTyped
<1>3. Grows
  BY <1>1, SMT DEF Grows, GenTyped, Gens
<1> QED BY <1>1, <1>2, <1>3 DEF Later

\* The queues, connections and timers keep their shape when they are untouched.
LEMMA PortsStay ==
  ASSUME Ports, UNCHANGED <<world, queue, link, gossip>>
  PROVE  Ports'
<1>1. Sent' = Sent
  BY DEF Sent, Offers
<1> QED BY <1>1 DEF Ports

\* A queue that the step leaves alone holds sound messages.
LEMMA QueuesStay ==
  ASSUME ClusterInv, Later, \A c \in Clients : Carried(c),
         NEW n \in Nodes, NEW p \in Peers(n), queue'[n][p] = queue[n][p]
  PROVE  \A i \in DOMAIN queue'[n][p] : MessageOK(n, queue[n][p][i])'
<1> SUFFICES ASSUME NEW i \in DOMAIN queue[n][p] PROVE MessageOK(n, queue[n][p][i])'
  OBVIOUS
<1>1. PICK m : m = queue[n][p][i]
  OBVIOUS
<1>2. MessageOK(n, m)
  BY <1>1 DEF ClusterInv
<1>3. MessageOK(n, m)'
  BY <1>2, MessagesStay
<1>4. queue'[n][p][i] = m
  BY <1>1
<1> QED BY <1>3, <1>4 DEF MessageOK, Reported

\* All that is left to show of a step of one client that starts, works on or ends a
\* write, or ends an invalidation.
LEMMA ClientStepKeeps ==
  ASSUME ClusterInv, Later, Shapes', UNCHANGED <<rec, queue, link, covered>>,
         NEW c \in Clients,
         \A d \in Clients \ {c} : client'[d] = client[d],
         client'[c].pc \in Writing \cup {"idle"},
         WriterOK(c)'
  PROVE  ClusterInv'
<1>1. \A d \in Clients : client'[d].pc \in Deleting => client'[d] = client[d]
  BY DEF Writing, Deleting
<1>2. \A d \in Clients : client'[d].pc \in Writing \cup Deleting \cup {"idle"}
  BY SMT DEF ClusterInv, Writing, Deleting
<1>3. \A d \in Clients : Carried(d)
  BY <1>1, Undisturbed
<1>4. \A n \in Nodes : \A p \in Peers(n) :
        /\ \A i \in DOMAIN queue'[n][p] : MessageOK(n, queue[n][p][i])'
        /\ LinkOK(n, p)'
  BY <1>3, QueuesStay, LinksStay
<1>5. \A d \in Clients : WriterOK(d)'
  <2>1. ASSUME NEW d \in Clients \ {c} PROVE WriterOK(d)'
    BY OneWriterStays
  <2> QED BY <2>1
<1> QED BY <1>1, <1>2, <1>4, <1>5, QuietStep

\* A tagged write looks its name up.
LEMMA StartWriteKeeps ==
  ASSUME ClusterInv, NEW c \in Clients, NEW n \in Nodes, NEW s \in world.shards, NEW t \in world.tags,
         StartWrite(c, n, s, t)
  PROVE  ClusterInv'
<1>1. Later /\ Shapes /\ KnownFacts
  BY NothingGrew, KnownIsMax, SMT DEF StartWrite, ClusterInv, Shapes, Tables, Later
<1>2. Shapes'
  BY <1>1, PortsStay, SMT DEF StartWrite, Shapes, Tables
<1>3. <<n, s, t>> \in Slots'
  BY DEF Slots, StartWrite
<1>4. \A d \in Clients \ {c} : client'[d] = client[d]
  BY <1>1 DEF StartWrite, Shapes, Tables
<1>5. CASE gen[n][s][t] = None
  <2>1. t \in AllTags
    BY <1>1 DEF AllTags, Shapes, Tables
  <2>2. client'[c] = [pc |-> "register", at |-> <<n, s, t>>, start |-> known[n][t]]
    BY <1>1, <1>5, <2>1 DEF StartWrite, Shapes, Tables, known, AllTags
  <2>3. known[n][t] \in Nat /\ known'[n][t] \in Nat /\ known[n][t] <= known'[n][t]
    BY <1>1, <2>1, KnownGrows
  <2>4. WriterOK(c)'
    BY <1>3, <2>2, <2>3, SMT DEF WriterOK
  <2>5. client'[c].pc = "register"
    <3>1. PICK x, slot, start : x = [pc |-> "register", at |-> slot, start |-> start] /\ client'[c] = x
      BY <2>2
    <3> QED BY <3>1, SMT
  <2>6. UNCHANGED <<rec, queue, link, covered>> /\ client'[c].pc \in Writing \cup {"idle"}
    BY <2>5 DEF StartWrite, Writing
  <2> QED BY <1>1, <1>2, <1>4, <2>4, <2>6, ClientStepKeeps
<1>6. CASE gen[n][s][t] # None
  <2>1. client'[c] = [pc |-> "commit", at |-> <<n, s, t>>, captured |-> gen[n][s][t]]
    BY <1>1, <1>6 DEF StartWrite, Shapes, Tables
  <2>2. gen[n][s][t] \in Nat /\ gen' = gen
    BY <1>1, <1>6, SMT DEF Shapes, Tables, Gens, StartWrite
  <2>3. WriterOK(c)'
    BY <1>3, <1>6, <2>1, <2>2, SMT DEF WriterOK, At
  <2>4. client'[c].pc = "commit"
    <3>1. PICK x, slot, gens : x = [pc |-> "commit", at |-> slot, captured |-> gens] /\ client'[c] = x
      BY <2>1
    <3> QED BY <3>1, SMT
  <2>5. UNCHANGED <<rec, queue, link, covered>> /\ client'[c].pc \in Writing \cup {"idle"}
    BY <2>4 DEF StartWrite, Writing
  <2> QED BY <1>1, <1>2, <1>4, <2>3, <2>5, ClientStepKeeps
<1> QED BY <1>5, <1>6

\* Writer::create_tags: registering a name at the generation looked up before sets
\* no shard above what the node reports.
LEMMA RegisterTagKeeps ==
  ASSUME ClusterInv, NEW c \in Clients, RegisterTag(c)
  PROVE  ClusterInv' /\ Later /\ \A m \in Nodes : \A u \in AllTags : known'[m][u] <= known[m][u]
<1>1. WriterOK(c) /\ Tables /\ Ports
  BY DEF ClusterInv, Shapes
<1>2. PICK n \in Nodes, s \in world.shards, t \in world.tags : client[c].at = <<n, s, t>>
  <2>1. client[c].at \in Slots
    BY <1>1 DEF WriterOK, RegisterTag
  <2> QED BY <2>1, SMT DEF Slots
<1>3. /\ client[c].start \in Nat /\ client[c].start <= known[n][t]
      /\ gen' = IF gen[n][s][t] = None THEN [gen EXCEPT ![n][s][t] = client[c].start] ELSE gen
  BY <1>1, <1>2, SMT DEF WriterOK, RegisterTag
<1>4. gen' \in [Nodes -> [world.shards -> [world.tags -> Gens]]]
  BY <1>1, <1>3 DEF Tables, Gens
<1>5. gen'[n][s][t] # None
  BY <1>1, <1>3, ClusterAssumption, SMT DEF Tables
<1>6. \A m \in Nodes : \A r \in world.shards : \A u \in world.tags :
        \/ gen'[m][r][u] = gen[m][r][u]
        \/ m = n /\ u = t /\ gen[m][r][u] = None /\ gen'[m][r][u] = client[c].start
  BY <1>1, <1>3, SMT DEF Tables
<1>7. Later
  <2>1. GenTyped /\ GenTyped'
    BY <1>1, <1>4 DEF GenTyped, Tables, RegisterTag
  <2>2. Grows
    BY <1>6, <2>1, SMT DEF Grows, GenTyped, Gens
  <2> QED BY <1>1, <2>1, <2>2, SMT DEF Later, Tables, RegisterTag
<1>8. Shapes'
  BY <1>1, <1>4, PortsStay DEF Shapes, Tables, RegisterTag
<1>9. client'[c] = [pc |-> "stamp", at |-> <<n, s, t>>] /\ \A d \in Clients \ {c} : client'[d] = client[d]
  BY <1>1, <1>2 DEF Tables, RegisterTag
<1>10. WriterOK(c)'
  <2>1. <<n, s, t>> \in Slots'
    BY DEF Slots, RegisterTag
  <2> QED BY <1>5, <1>9, <2>1, SMT DEF WriterOK, At
<1>11. ClusterInv'
  <2>1. client'[c].pc = "stamp"
    <3>1. PICK x, slot : x = [pc |-> "stamp", at |-> slot] /\ client'[c] = x
      BY <1>9
    <3> QED BY <3>1, SMT
  <2>2. client'[c].pc \in Writing \cup {"idle"}
    BY <2>1 DEF Writing
  <2>3. UNCHANGED <<rec, queue, link, covered>>
    BY DEF RegisterTag
  <2> QED BY <1>7, <1>8, <1>9, <1>10, <2>2, <2>3, ClientStepKeeps
<1>12. ASSUME NEW m \in Nodes, NEW u \in AllTags PROVE known'[m][u] <= known[m][u]
  <2>1. KnownFacts /\ KnownFacts' /\ world' = world
    BY <1>7, KnownIsMax, KnownIsMaxNext DEF Later
  <2>2. known[m][u] \in Nat /\ known'[m][u] \in Nat
    BY <2>1 DEF KnownFacts
  <2>3. CASE known'[m][u] = 0
    BY <2>2, <2>3, SMT
  <2>4. CASE known'[m][u] # 0
    <3>1. u \in world.tags
      BY <2>1, <2>4 DEF KnownFacts
    <3>2. PICK r \in world.shards : gen'[m][r][u] = known'[m][u]
      BY <2>1, <2>4, <3>1 DEF KnownFacts
    <3>3. CASE gen'[m][r][u] = gen[m][r][u]
      BY <2>1, <2>2, <3>1, <3>2, <3>3, ClusterAssumption, SMT DEF KnownFacts
    <3>4. CASE m = n /\ u = t /\ gen'[m][r][u] = client[c].start
      BY <1>3, <3>2, <3>4
    <3> QED BY <1>6, <3>1, <3>3, <3>4
  <2> QED BY <2>3, <2>4
<1> QED BY <1>7, <1>11, <1>12

\* TagRegistry::resolve: the record will carry what its shard holds now.
LEMMA StampWriteKeeps ==
  ASSUME ClusterInv, NEW c \in Clients, StampWrite(c)
  PROVE  ClusterInv'
<1>1. WriterOK(c) /\ Tables /\ Ports
  BY DEF ClusterInv, Shapes
<1>2. PICK n \in Nodes, s \in world.shards, t \in world.tags : client[c].at = <<n, s, t>>
  <2>1. client[c].at \in Slots
    BY <1>1 DEF WriterOK, StampWrite
  <2> QED BY <2>1, SMT DEF Slots
<1>3. Later
  BY <1>1, NothingGrew, SMT DEF StampWrite, Tables
<1>4. Shapes'
  BY <1>1, PortsStay DEF Shapes, Tables, StampWrite
<1>5. /\ client'[c] = [pc |-> "commit", at |-> <<n, s, t>>, captured |-> gen[n][s][t]]
      /\ \A d \in Clients \ {c} : client'[d] = client[d]
  BY <1>1, <1>2, SMT DEF Tables, StampWrite
<1>6. gen[n][s][t] \in Nat /\ gen' = gen
  <2>1. gen[n][s][t] # None
    BY <1>1, <1>2, SMT DEF WriterOK, At, StampWrite
  <2> QED BY <1>1, <2>1, SMT DEF StampWrite, Tables, Gens
<1>7. WriterOK(c)'
  <2>1. <<n, s, t>> \in Slots'
    BY DEF Slots, StampWrite
  <2> QED BY <1>5, <1>6, <2>1, ClusterAssumption, SMT DEF WriterOK, At
<1>8. UNCHANGED <<rec, queue, link, covered>> /\ client'[c].pc \in Writing \cup {"idle"}
  BY <1>5, SMT DEF StampWrite, Writing
<1> QED BY <1>3, <1>4, <1>5, <1>7, <1>8, ClientStepKeeps

\* DELETE_BY_TAG of a name no shard knows.
LEMMA DeleteNotFoundKeeps ==
  ASSUME ClusterInv, NEW c \in Clients, DeleteNotFound(c)
  PROVE  ClusterInv'
<1>1. Tables /\ Ports
  BY DEF ClusterInv, Shapes
<1>2. Later
  BY <1>1, NothingGrew, SMT DEF DeleteNotFound, Tables
<1>3. Shapes'
  BY <1>1, PortsStay DEF Shapes, Tables, DeleteNotFound
<1>4. client'[c].pc = "idle" /\ \A d \in Clients \ {c} : client'[d] = client[d]
  BY <1>1 DEF Tables, DeleteNotFound, Idle
<1>5. WriterOK(c)'
  BY <1>4 DEF WriterOK
<1> QED BY <1>2, <1>3, <1>4, <1>5, ClientStepKeeps DEF DeleteNotFound

\* A write that commits: its record takes the generation it captured, which the
\* shard has reached, and no invalidation under way still counts on its slot.
LEMMA CommitWriteKeeps ==
  ASSUME ClusterInv, NEW c \in Clients, CommitWrite(c)
  PROVE  ClusterInv' /\ Later
<1>1. WriterOK(c) /\ Tables /\ Ports /\ RecordsCaptured
  BY DEF ClusterInv, Shapes
<1>2. PICK n \in Nodes, s \in world.shards, t \in world.tags : client[c].at = <<n, s, t>>
  <2>1. client[c].at \in Slots
    BY <1>1 DEF WriterOK, CommitWrite
  <2> QED BY <2>1, SMT DEF Slots
<1>3. /\ client[c].captured \in Nat /\ client[c].captured <= gen[n][s][t] /\ gen[n][s][t] # None
  BY <1>1, <1>2, SMT DEF WriterOK, CommitWrite, At
<1>4. Later
  BY <1>1, NothingGrew, SMT DEF CommitWrite, Tables
<1>5. /\ rec' = [rec EXCEPT ![n][s][t] = client[c].captured]
      /\ covered' = {v \in covered : v.at # <<n, s, t>>}
      /\ UNCHANGED <<world, gen, queue, link, gossip, ops>>
  BY <1>2, SMT DEF CommitWrite
<1>6. /\ DOMAIN client' = Clients /\ client'[c] = Idle
      /\ \A d \in Clients \ {c} :
           client'[d] = IF client[d].pc \in Deleting
                        THEN [client[d] EXCEPT !.before = @ \ {<<n, s, t>>}] ELSE client[d]
  BY <1>2, SMT DEF CommitWrite, Deleting
<1>7. /\ rec' \in [Nodes -> [world.shards -> [world.tags -> Gens]]]
      /\ rec'[n][s][t] = client[c].captured
      /\ \A m \in Nodes : \A r \in world.shards : \A u \in world.tags :
           <<m, r, u>> # <<n, s, t>> => rec'[m][r][u] = rec[m][r][u]
  BY <1>1, <1>3, <1>5, SMT DEF Tables, Gens
<1>8. Shapes'
  BY <1>1, <1>5, <1>6, <1>7, PortsStay DEF Shapes, Tables
<1>9. ASSUME NEW d \in Clients PROVE SameDelete(d) /\ SameBump(d) /\ SameAwait(d)
  <2>1. CASE client'[d].pc \notin Deleting
    BY <2>1 DEF SameDelete, SameBump, SameAwait, Deleting
  <2>2. CASE client'[d].pc \in Deleting
    <3>1. d # c
      BY <1>6, <2>2, SMT DEF Idle, Deleting
    <3>2. client[d].pc \in Deleting
      BY <1>6, <2>2, <3>1
    <3>3. DeleterOK(d) /\ BumperOK(d) /\ AwaiterOK(d)
      BY DEF ClusterInv
    <3>4. /\ client'[d] = [client[d] EXCEPT !.before = @ \ {<<n, s, t>>}]
          /\ {"pc", "id", "node", "tag", "before"} \subseteq DOMAIN client[d]
          /\ client[d].pc \in {"bump", "level"} => {"todo", "highest"} \subseteq DOMAIN client[d]
          /\ client[d].pc = "await" => {"generation", "merged"} \subseteq DOMAIN client[d]
      BY <1>6, <3>1, <3>2, <3>3 DEF BumperOK, AwaiterOK, Deleting
    <3>5. /\ DOMAIN client'[d] = DOMAIN client[d]
          /\ \A f \in DOMAIN client[d] \ {"before"} : client'[d][f] = client[d][f]
          /\ client'[d].before = client[d].before \ {<<n, s, t>>}
      BY <3>4
    <3>6. /\ client'[d].pc = client[d].pc /\ client'[d].id = client[d].id
          /\ client'[d].node = client[d].node /\ client'[d].tag = client[d].tag
      BY <3>4, <3>5
    <3>7. ASSUME NEW slot \in client'[d].before
          PROVE  rec'[slot[1]][slot[2]][slot[3]] = rec[slot[1]][slot[2]][slot[3]]
      <4>1. slot \in Slots /\ slot # <<n, s, t>>
        BY <3>2, <3>3, <3>5 DEF DeleterOK, Deleting
      <4> QED BY <1>7, <4>1, SMT DEF Slots
    <3>8. SameDelete(d)
      BY <3>2, <3>5, <3>6, <3>7 DEF SameDelete
    <3>9. SameBump(d)
      BY <3>4, <3>5, <3>6 DEF SameBump
    <3>10. SameAwait(d)
      BY <3>4, <3>5, <3>6 DEF SameAwait
    <3> QED BY <3>8, <3>9, <3>10
  <2> QED BY <2>1, <2>2
<1>10. \A d \in Clients : Carried(d)
  BY <1>9 DEF Carried
<1>11. \A d \in Clients : DeleterOK(d)' /\ BumperOK(d)' /\ AwaiterOK(d)'
  BY <1>4, <1>9, <1>10, DeletersStay, BumpersStay, AwaitersStay
<1>12. ASSUME NEW d \in Clients
       PROVE  client'[d].pc \in Writing \cup Deleting \cup {"idle"} /\ WriterOK(d)'
  <2>1. client[d].pc \in Writing \cup Deleting \cup {"idle"}
    BY DEF ClusterInv, Writing, Deleting
  <2>2. client'[d].pc \in Deleting \/ client'[d].pc = "idle" \/ client'[d] = client[d]
    <3>1. CASE d = c
      BY <1>6, <3>1, SMT DEF Idle
    <3>2. CASE d # c /\ client[d].pc \notin Deleting
      BY <1>6, <3>2
    <3>3. CASE d # c /\ client[d].pc \in Deleting
      <4>1. BumperOK(d) /\ AwaiterOK(d)
        BY DEF ClusterInv
      <4>2. "pc" \in DOMAIN client[d]
        BY <3>3, <4>1 DEF BumperOK, AwaiterOK, Deleting
      <4> QED BY <1>6, <3>3, <4>2
    <3> QED BY <3>1, <3>2, <3>3
  <2>3. client'[d].pc \in Writing => client'[d] = client[d]
    BY <2>2 DEF Writing, Deleting
  <2> QED BY <1>4, <2>1, <2>2, <2>3, OneWriterStays
<1>13. RecordsCaptured'
  <2> SUFFICES ASSUME NEW m \in Nodes, NEW r \in world.shards, NEW u \in world.tags, rec'[m][r][u] # None
      PROVE  gen[m][r][u] # None /\ rec'[m][r][u] <= gen[m][r][u]
    BY <1>5 DEF RecordsCaptured
  <2>1. CASE <<m, r, u>> = <<n, s, t>>
    BY <1>3, <1>7, <2>1
  <2>2. CASE <<m, r, u>> # <<n, s, t>>
    BY <1>1, <1>7, <2>2, SMT DEF RecordsCaptured
  <2> QED BY <2>1, <2>2
<1>14. ASSUME NEW v \in covered' PROVE CoveredOK(v)'
  <2>1. v \in covered /\ v.at # <<n, s, t>> /\ CoveredOK(v)
    BY <1>5 DEF ClusterInv
  <2>2. Stored(v.at)' = Stored(v.at) /\ v.at \in Slots'
    BY <1>5, <1>7, <2>1, SMTT(60) DEF CoveredOK, Slots, Stored
  <2> QED BY <1>5, <2>1, <2>2 DEF CoveredOK, At
<1>15. \A m \in Nodes : \A p \in Peers(m) :
         /\ \A i \in DOMAIN queue'[m][p] : MessageOK(m, queue[m][p][i])'
         /\ LinkOK(m, p)'
  BY <1>4, <1>5, <1>10, QueuesStay, LinksStay
<1> QED BY <1>4, <1>8, <1>11, <1>12, <1>13, <1>14, <1>15, StepKeeps

\* An invalidation that starts: its number is new, and nothing is bumped yet.
LEMMA StartDeleteKeeps ==
  ASSUME ClusterInv, NEW c \in Clients, NEW n \in Nodes, NEW t \in world.tags, StartDelete(c, n, t)
  PROVE  ClusterInv' /\ Later
<1>1. Tables /\ Ports
  BY DEF ClusterInv, Shapes
<1>2. Later
  BY <1>1, NothingGrew, SMT DEF StartDelete, Tables
<1>3. UNCHANGED <<world, gen, rec, queue, link, gossip, covered>> /\ ops' = ops + 1 /\ ops \in Nat
  BY <1>1 DEF StartDelete, Tables
<1>4. PICK before : before = {slot \in Slots : slot[3] = t /\ rec[slot[1]][slot[2]][t] # None}
  OBVIOUS
<1>5. /\ DOMAIN client' = Clients
      /\ DOMAIN client'[c] = {"pc", "id", "node", "tag", "todo", "highest", "before"}
      /\ client'[c].pc = "bump" /\ client'[c].id = ops + 1
      /\ client'[c].node = n /\ client'[c].tag = t /\ client'[c].todo = world.shards
      /\ client'[c].highest = None /\ client'[c].before = before
      /\ \A d \in Clients \ {c} : client'[d] = client[d]
  <2>1. PICK x : x = [pc |-> "bump", id |-> ops + 1, node |-> n, tag |-> t, todo |-> world.shards,
                      highest |-> None, before |-> before]
    OBVIOUS
  <2>2. /\ DOMAIN x = {"pc", "id", "node", "tag", "todo", "highest", "before"}
        /\ x.pc = "bump" /\ x.id = ops + 1 /\ x.node = n /\ x.tag = t /\ x.todo = world.shards
        /\ x.highest = None /\ x.before = before
    BY <2>1
  <2>3. DOMAIN client = Clients /\ client' = [client EXCEPT ![c] = x]
    BY <1>1, <1>4, <2>1 DEF StartDelete, Tables
  <2>4. DOMAIN client' = Clients /\ client'[c] = x /\ \A d \in Clients \ {c} : client'[d] = client[d]
    BY <2>3
  <2> QED BY <2>2, <2>4
<1>6. Shapes'
  <2>1. DOMAIN client' = Clients /\ ops' \in Nat
    BY <1>3, <1>5, SMT
  <2>2. Tables'
    BY <1>1, <1>3, <2>1 DEF Tables
  <2>3. Ports'
    BY <1>1, <1>3, PortsStay
  <2> QED BY <2>2, <2>3 DEF Shapes
<1>7. \A d \in Clients \ {c} : SameDelete(d) /\ SameBump(d) /\ SameAwait(d)
  BY <1>3, <1>5 DEF SameDelete, SameBump, SameAwait, Deleting
<1>8. \A d \in Clients : Carried(d)
  <2>1. Carried(c)
    BY <1>5 DEF Carried, Deleting
  <2> QED BY <1>7, <2>1 DEF Carried
<1>9. \A d \in Clients \ {c} : DeleterOK(d)' /\ BumperOK(d)' /\ AwaiterOK(d)'
  BY <1>2, <1>7, <1>8, DeletersStay, BumpersStay, AwaitersStay
<1>10. DeleterOK(c)'
  <2>1. ASSUME NEW d \in Clients \ {c}, client'[d].pc \in Deleting PROVE client'[d].id # client'[c].id
    <3>1. DeleterOK(d) /\ client'[d] = client[d]
      BY <1>5 DEF ClusterInv
    <3>2. client[d].id \in 1 .. ops
      BY <2>1, <3>1 DEF DeleterOK, Deleting
    <3>3. client'[d].id \in 1 .. ops /\ client'[c].id = ops + 1
      BY <1>5, <3>1, <3>2
    <3> QED BY <1>3, <3>3, SMT
  <2>2. client'[c].id \in 1 .. ops'
    BY <1>3, <1>5, SMT
  <2>3. \A slot \in before : slot \in Slots' /\ slot[3] = t /\ Stored(slot)' # None
    BY <1>3, <1>4 DEF Slots, Stored
  <2> QED BY <1>3, <1>5, <2>1, <2>2, <2>3 DEF DeleterOK, Deleting
<1>11. BumperOK(c)' /\ AwaiterOK(c)' /\ WriterOK(c)'
  <2>1. world.shards # {}
    BY <1>1, ClusterAssumption DEF Tables
  <2>2. \A slot \in before : slot[2] \in world.shards
    BY <1>4 DEF Slots
  <2>3. client'[c].highest = None
    BY <1>5
  <2>4. BumperOK(c)'
    BY <1>3, <1>5, <2>1, <2>2, <2>3 DEF BumperOK, Gens
  <2> QED BY <1>5, <2>4 DEF AwaiterOK, WriterOK
<1>12. \A d \in Clients \ {c} : WriterOK(d)'
  BY <1>2, <1>5, OneWriterStays
<1>13. \A d \in Clients : client'[d].pc \in Writing \cup Deleting \cup {"idle"}
  BY <1>5, SMT DEF ClusterInv, Writing, Deleting
<1>14. RecordsCaptured' /\ \A v \in covered' : CoveredOK(v)'
  BY <1>2, <1>3, RecordsStay
<1>15. \A m \in Nodes : \A p \in Peers(m) :
         /\ \A i \in DOMAIN queue'[m][p] : MessageOK(m, queue[m][p][i])'
         /\ LinkOK(m, p)'
  BY <1>2, <1>3, <1>8, QueuesStay, LinksStay
<1> QED BY <1>2, <1>6, <1>9, <1>10, <1>11, <1>12, <1>13, <1>14, <1>15, StepKeeps
\* One table entry changes and the node's maximum with it, or not.
LEMMA KnownPointwise ==
  ASSUME KnownFacts, KnownFacts', world' = world,
         NEW n \in Nodes, NEW t \in AllTags, NEW a \in Nat,
         \A m \in Nodes : \A u \in AllTags : <<m, u>> # <<n, t>> => known'[m][u] = known[m][u],
         known'[n][t] = a
  PROVE  known' = [known EXCEPT ![n][t] = a]
<1>1. /\ known = [m \in Nodes |-> [u \in AllTags |-> known[m][u]]]
      /\ known' = [m \in Nodes |-> [u \in AllTags |-> known'[m][u]]]
  BY DEF known, AllTags
<1> HIDE DEF known
<1> QED BY <1>1, SMT

\* What a node reports is the largest of its shards' generations.
LEMMA KnownUnless ==
  ASSUME KnownFacts, KnownFacts', world' = world, NEW n \in Nodes, NEW t \in AllTags,
         t \in world.tags => \A s \in world.shards : gen'[n][s][t] = gen[n][s][t]
  PROVE  known'[n][t] = known[n][t]
<1>1. CASE t \notin world.tags
  BY <1>1, SMT DEF KnownFacts
<1>2. CASE t \in world.tags
  <2>1. known[n][t] \in Nat /\ known'[n][t] \in Nat
    BY DEF KnownFacts
  <2>2. \A s \in world.shards : gen[n][s][t] # None => gen[n][s][t] <= known[n][t] /\ gen[n][s][t] <= known'[n][t]
    BY <1>2 DEF KnownFacts
  <2>3. known[n][t] <= known'[n][t]
    <3>1. CASE known[n][t] = 0
      BY <2>1, <3>1, SMT
    <3>2. CASE known[n][t] # 0
      BY <1>2, <2>1, <2>2, <3>2, ClusterAssumption, SMT DEF KnownFacts
    <3> QED BY <3>1, <3>2
  <2>4. known'[n][t] <= known[n][t]
    <3>1. CASE known'[n][t] = 0
      BY <2>1, <3>1, SMT
    <3>2. CASE known'[n][t] # 0
      BY <1>2, <2>1, <2>2, <3>2, ClusterAssumption, SMT DEF KnownFacts
    <3> QED BY <3>1, <3>2
  <2> QED BY <2>1, <2>3, <2>4, SMT
<1> QED BY <1>1, <1>2

\* One shard's bump: the record it was to kill is dead, and the node's maximum
\* stays or grows by one.
LEMMA BumpShardKeeps ==
  ASSUME ClusterInv, NEW c \in Clients, BumpShard(c)
  PROVE  /\ ClusterInv' /\ Later
         /\ known' = known \/ \E n \in Nodes : \E t \in AllTags : known' = [known EXCEPT ![n][t] = @ + 1]
<1>1. DeleterOK(c) /\ BumperOK(c) /\ Tables /\ Ports /\ RecordsCaptured /\ client[c].pc = "bump"
  BY DEF ClusterInv, Shapes, BumpShard
<1>2. PICK n \in Nodes, t \in world.tags, todo \in SUBSET world.shards, hi \in Gens :
        n = client[c].node /\ t = client[c].tag /\ todo = client[c].todo /\ hi = client[c].highest
  BY <1>1 DEF DeleterOK, BumperOK
<1>3. PICK s \in todo : s = Min(todo)
  <2>1. todo # {} /\ todo \subseteq Nat
    BY <1>1, <1>2, ClusterAssumption DEF BumperOK, Tables
  <2> QED BY <2>1, MinProperty
<1>4. PICK rest, best :
        /\ rest = todo \ {s}
        /\ best = IF gen[n][s][t] = None THEN hi
                  ELSE IF hi = None THEN gen[n][s][t] + 1 ELSE Max({hi, gen[n][s][t] + 1})
  OBVIOUS
<1>5. /\ gen' = IF gen[n][s][t] = None THEN gen ELSE [gen EXCEPT ![n][s][t] = gen[n][s][t] + 1]
      /\ UNCHANGED <<world, rec, queue, link, gossip, ops, covered>>
  BY <1>2, <1>3 DEF BumpShard
<1>6. /\ DOMAIN client' = Clients
      /\ \A d \in Clients \ {c} : client'[d] = client[d]
      /\ DOMAIN client'[c] = DOMAIN client[c]
      /\ client'[c].pc = IF rest = {} THEN "level" ELSE "bump"
      /\ client'[c].todo = rest /\ client'[c].highest = best
      /\ client'[c].id = client[c].id /\ client'[c].node = client[c].node
      /\ client'[c].tag = client[c].tag /\ client'[c].before = client[c].before
  <2>1. DOMAIN client = Clients /\ DOMAIN client[c] = {"pc", "id", "node", "tag", "todo", "highest", "before"}
    BY <1>1 DEF Tables, BumperOK
  <2>2. CASE gen[n][s][t] = None
    <3>1. client' = [client EXCEPT ![c].todo = rest, ![c].pc = IF rest = {} THEN "level" ELSE @]
      BY <1>2, <1>3, <1>4, <2>2 DEF BumpShard
    <3> QED BY <1>1, <1>2, <1>4, <2>1, <2>2, <3>1
  <2>3. CASE gen[n][s][t] # None
    <3>1. client' = [client EXCEPT ![c].todo = rest, ![c].highest = best, ![c].pc = IF rest = {} THEN "level" ELSE @]
      BY <1>2, <1>3, <1>4, <2>3 DEF BumpShard
    <3> QED BY <1>1, <1>2, <1>4, <2>1, <2>3, <3>1
  <2> QED BY <2>2, <2>3
<1>7. gen' \in [Nodes -> [world.shards -> [world.tags -> Gens]]]
  <2>1. CASE gen[n][s][t] = None
    BY <1>1, <1>5, <2>1 DEF Tables
  <2>2. CASE gen[n][s][t] # None
    <3>1. s \in world.shards
      BY <1>2, <1>3
    <3>2. gen[n][s][t] \in Nat
      BY <1>1, <1>2, <2>2, <3>1, SMT DEF Tables, Gens
    <3>3. PICK v \in Gens : v = gen[n][s][t] + 1
      BY <3>2, SMT DEF Gens
    <3>4. gen' = [gen EXCEPT ![n][s][t] = v]
      BY <1>5, <2>2, <3>3
    <3> QED BY <1>1, <3>1, <3>4 DEF Tables
  <2> QED BY <2>1, <2>2
<1>8. /\ \A m \in Nodes : \A r \in world.shards : \A u \in world.tags :
           <<m, r, u>> # <<n, s, t>> => gen'[m][r][u] = gen[m][r][u]
      /\ gen'[n][s][t] = IF gen[n][s][t] = None THEN None ELSE gen[n][s][t] + 1
  <2>1. CASE gen[n][s][t] = None
    BY <1>5, <2>1
  <2>2. CASE gen[n][s][t] # None
    <3>1. gen' = [gen EXCEPT ![n][s][t] = gen[n][s][t] + 1] /\ s \in world.shards
      BY <1>5, <2>2
    <3> QED BY <1>1, <2>2, <3>1, SMT DEF Tables
  <2> QED BY <2>1, <2>2
<1>9. gen[n][s][t] \in Gens
  BY <1>1, <1>2, <1>3, SMT DEF Tables
<1>10. Later
  <2>1. GenTyped /\ GenTyped'
    BY <1>1, <1>5, <1>7 DEF GenTyped, Tables
  <2>2. ASSUME NEW m \in Nodes, NEW r \in world.shards, NEW u \in world.tags, gen[m][r][u] # None
        PROVE  gen'[m][r][u] # None /\ gen[m][r][u] <= gen'[m][r][u]
    <3>1. gen[m][r][u] \in Nat
      BY <2>1, <2>2, SMT DEF GenTyped, Gens
    <3>2. CASE <<m, r, u>> = <<n, s, t>>
      BY <1>8, <2>2, <3>1, <3>2, ClusterAssumption, SMT
    <3>3. CASE <<m, r, u>> # <<n, s, t>>
      BY <1>8, <2>2, <3>1, <3>3, SMT
    <3> QED BY <3>2, <3>3
  <2> QED BY <1>1, <1>5, <2>1, <2>2, SMT DEF Later, Tables, Grows
<1>11. KnownFacts /\ KnownFacts' /\ t \in AllTags
  BY <1>1, <1>10, KnownIsMax, KnownIsMaxNext DEF Later, AllTags, Tables
<1>12. Shapes'
  BY <1>1, <1>5, <1>6, <1>7, PortsStay DEF Shapes, Tables
<1>13. /\ \A d \in Clients : SameDelete(d) /\ SameAwait(d)
       /\ \A d \in Clients \ {c} : SameBump(d)
  BY <1>1, <1>5, <1>6 DEF SameDelete, SameBump, SameAwait, Deleting
<1>14. \A d \in Clients : Carried(d)
  BY <1>13 DEF Carried
<1>15. \A d \in Clients : DeleterOK(d)' /\ AwaiterOK(d)' /\ (d # c => BumperOK(d)')
  BY <1>10, <1>13, <1>14, DeletersStay, BumpersStay, AwaitersStay
<1>16. BumperOK(c)'
  <2>1. best \in Gens /\ (best # None => best <= known'[n][t])
    <3>1. known'[n][t] \in Nat /\ known[n][t] \in Nat /\ known[n][t] <= known'[n][t]
      BY <1>10, <1>11, KnownGrows
    <3>2. hi # None => hi \in Nat /\ hi <= known[n][t]
      BY <1>1, <1>2 DEF BumperOK, Gens
    <3>3. CASE gen[n][s][t] = None
      BY <1>2, <1>4, <3>1, <3>2, <3>3, SMTT(60)
    <3>4. CASE gen[n][s][t] # None
      <4>1. gen[n][s][t] + 1 \in Nat /\ gen[n][s][t] + 1 <= known'[n][t]
        BY <1>3, <1>5, <1>8, <1>9, <1>11, <3>4, ClusterAssumption, SMT DEF Gens, KnownFacts
      <4>2. CASE hi = None
        BY <1>4, <3>4, <4>1, <4>2 DEF Gens
      <4>3. CASE hi # None
        <5>1. best = Max({hi, gen[n][s][t] + 1})
          BY <1>4, <3>4, <4>3
        <5>2. Max({hi, gen[n][s][t] + 1}) = IF hi >= gen[n][s][t] + 1 THEN hi ELSE gen[n][s][t] + 1
          BY <3>2, <4>1, <4>3, MaxOfTwo, SMT
        <5> QED BY <3>1, <3>2, <4>1, <4>3, <5>1, <5>2, SMT DEF Gens
      <4> QED BY <4>2, <4>3
    <3> QED BY <3>3, <3>4
  <2>2. ASSUME NEW slot \in client'[c].before, slot[1] = n, slot[2] \notin rest
        PROVE  Stored(slot)' < At(slot)'
    <3>1. slot \in Slots /\ slot[3] = t /\ Stored(slot) # None /\ slot \in client[c].before
      BY <1>1, <1>2, <1>6 DEF DeleterOK
    <3>2. Stored(slot)' = Stored(slot)
      BY <1>5 DEF Stored
    <3>3. CASE slot[2] = s
      <4>1. slot[1] = n /\ slot[2] = s /\ slot[3] = t
        BY <2>2, <3>1, <3>3
      <4>2. rec[n][s][t] # None /\ Stored(slot) = rec[n][s][t] /\ At(slot)' = gen'[n][s][t]
        BY <3>1, <4>1 DEF Stored, At
      <4>3. rec[n][s][t] \in Nat /\ gen[n][s][t] # None /\ rec[n][s][t] <= gen[n][s][t]
        <5>1. rec[n][s][t] \in Gens /\ s \in world.shards
          BY <1>1, SMT DEF Tables
        <5> QED BY <1>1, <4>2, <5>1 DEF RecordsCaptured, Gens
      <4>4. gen[n][s][t] \in Nat /\ gen'[n][s][t] = gen[n][s][t] + 1
        BY <1>8, <1>9, <4>3 DEF Gens
      <4> QED BY <3>2, <4>2, <4>3, <4>4, SMT
    <3>4. CASE slot[2] # s
      <4>1. slot[2] \notin todo
        BY <1>4, <2>2, <3>4
      <4>2. Stored(slot) < At(slot)
        BY <1>1, <1>2, <2>2, <3>1, <4>1 DEF BumperOK
      <4>3. Stored(slot) < gen'[slot[1]][slot[2]][slot[3]]
        BY <1>10, <3>1, <4>2, DeadStays
      <4> QED BY <3>2, <4>3 DEF At
    <3> QED BY <3>3, <3>4
  <2>3. rest \subseteq world'.shards
    BY <1>4, <1>5
  <2>4. DOMAIN client'[c] = {"pc", "id", "node", "tag", "todo", "highest", "before"}
    BY <1>1, <1>6 DEF BumperOK
  <2>5. client'[c].node = n /\ client'[c].tag = t
    BY <1>2, <1>6
  <2> QED BY <1>6, <2>1, <2>2, <2>3, <2>4, <2>5 DEF BumperOK
<1>17. \A d \in Clients : client'[d].pc \in Writing \cup Deleting \cup {"idle"} /\ WriterOK(d)'
  <2>1. \A d \in Clients : client'[d].pc \in Writing => client'[d] = client[d]
    BY <1>6 DEF Writing
  <2>2. \A d \in Clients : client'[d].pc \in Writing \cup Deleting \cup {"idle"}
    BY <1>6, SMT DEF ClusterInv, Writing, Deleting
  <2> QED BY <1>10, <2>1, <2>2, WritersStay
<1>18. RecordsCaptured' /\ \A v \in covered' : CoveredOK(v)'
  BY <1>5, <1>10, RecordsStay
<1>19. \A m \in Nodes : \A p \in Peers(m) :
         /\ \A i \in DOMAIN queue'[m][p] : MessageOK(m, queue[m][p][i])'
         /\ LinkOK(m, p)'
  BY <1>5, <1>10, <1>14, QueuesStay, LinksStay
<1>20. ClusterInv'
  BY <1>12, <1>15, <1>16, <1>17, <1>18, <1>19, StepKeeps
<1>21. \E a \in {known[n][t], known[n][t] + 1} : known' = [known EXCEPT ![n][t] = a]
  <2>1. \A m \in Nodes : \A u \in AllTags : <<m, u>> # <<n, t>> => known'[m][u] = known[m][u]
    BY <1>5, <1>8, <1>11, KnownUnless, SMT
  <2>2. known[n][t] \in Nat /\ known'[n][t] \in Nat /\ known[n][t] <= known'[n][t]
    BY <1>10, <1>11, KnownGrows
  <2>3. known'[n][t] <= known[n][t] + 1
    <3>1. CASE known'[n][t] = 0
      BY <2>2, <3>1, SMT
    <3>2. CASE known'[n][t] # 0
      <4>1. PICK r \in world.shards : gen'[n][r][t] = known'[n][t]
        BY <1>2, <1>5, <1>11, <3>2 DEF KnownFacts
      <4>2. gen'[n][r][t] # None
        BY <2>2, <4>1, ClusterAssumption
      <4>3. CASE r = s
        <5>1. gen[n][s][t] # None /\ gen'[n][s][t] = gen[n][s][t] + 1
          BY <1>8, <4>2, <4>3
        <5>2. gen[n][s][t] \in Nat /\ gen[n][s][t] <= known[n][t]
          BY <1>9, <1>11, <5>1 DEF KnownFacts, Gens
        <5> QED BY <2>2, <4>1, <4>3, <5>1, <5>2, SMT
      <4>4. CASE r # s
        <5>1. gen'[n][r][t] = gen[n][r][t]
          BY <1>8, <4>4
        <5>2. gen[n][r][t] <= known[n][t]
          BY <1>11, <4>2, <5>1 DEF KnownFacts
        <5> QED BY <2>2, <4>1, <5>1, <5>2, SMT
      <4> QED BY <4>3, <4>4
    <3> QED BY <3>1, <3>2
  <2>4. PICK a \in Nat : a = known'[n][t]
    BY <2>2
  <2>5. known' = [known EXCEPT ![n][t] = a]
    BY <1>5, <1>11, <2>1, <2>4, KnownPointwise, SMT
  <2>6. a \in {known[n][t], known[n][t] + 1}
    BY <2>2, <2>3, <2>4, SMT
  <2> QED BY <2>5, <2>6
<1>22. known' = known \/ known' = [known EXCEPT ![n][t] = @ + 1]
  <2>1. known = [m \in Nodes |-> [u \in AllTags |-> known[m][u]]]
    BY DEF known, AllTags
  <2>2. [known EXCEPT ![n][t] = known[n][t]] = known
    BY <1>11, <2>1
  <2> QED BY <1>21, <2>2
<1> QED BY <1>10, <1>11, <1>20, <1>22

\* No node's maximum moves.
LEMMA KnownSame ==
  ASSUME Later, \A m \in Nodes : \A u \in AllTags : known'[m][u] <= known[m][u]
  PROVE  known' = known
<1>1. \A m \in Nodes : \A u \in AllTags : known'[m][u] = known[m][u]
  BY KnownGrows, SMT
<1>2. /\ known = [m \in Nodes |-> [u \in AllTags |-> known[m][u]]]
      /\ known' = [m \in Nodes |-> [u \in AllTags |-> known'[m][u]]]
  BY DEF known, AllTags
<1> QED BY <1>1, <1>2

\* A node's maximum does not move when no shard is set above it.
LEMMA KnownBounded ==
  ASSUME Later, NEW n \in Nodes, NEW u \in AllTags, NEW b \in Nat, known[n][u] <= b,
         u \in world.tags => \A r \in world.shards : gen'[n][r][u] = gen[n][r][u] \/ gen'[n][r][u] <= b
  PROVE  known'[n][u] <= b
<1>1. KnownFacts /\ KnownFacts' /\ world' = world
  BY KnownIsMax, KnownIsMaxNext DEF Later
<1>2. known[n][u] \in Nat /\ known'[n][u] \in Nat
  BY <1>1 DEF KnownFacts
<1>3. CASE known'[n][u] = 0
  BY <1>2, <1>3, SMT
<1>4. CASE known'[n][u] # 0
  <2>1. u \in world.tags
    BY <1>1, <1>4 DEF KnownFacts
  <2>2. PICK r \in world.shards : gen'[n][r][u] = known'[n][u]
    BY <1>1, <1>4, <2>1 DEF KnownFacts
  <2>3. CASE gen'[n][r][u] = gen[n][r][u]
    <3>1. gen[n][r][u] # None /\ gen[n][r][u] = known'[n][u]
      BY <1>2, <2>2, <2>3, ClusterAssumption
    <3>2. gen[n][r][u] <= known[n][u]
      BY <1>1, <2>1, <3>1 DEF KnownFacts
    <3> QED BY <1>2, <3>1, <3>2, SMT
  <2>4. CASE gen'[n][r][u] <= b
    BY <2>2, <2>4
  <2> QED BY <2>1, <2>3, <2>4
<1> QED BY <1>3, <1>4

\* A queue that takes one more sound message is sound.
LEMMA QueueTakes ==
  ASSUME ClusterInv, Later, \A c \in Clients : Carried(c),
         NEW n \in Nodes, NEW p \in Peers(n), NEW m, MessageOK(n, m)',
         queue'[n][p] = Append(queue[n][p], m)
  PROVE  /\ \A i \in DOMAIN queue'[n][p] : MessageOK(n, queue[n][p][i])'
         /\ queue'[n][p] \in Seq(Sent)
<1>1. queue[n][p] \in Seq(Sent) /\ m \in Sent /\ Sent' = Sent
  <2>1. Sent' = Sent
    BY DEF Sent, Offers, Later
  <2> QED BY <2>1 DEF ClusterInv, Shapes, Ports, MessageOK
<1>2. queue'[n][p] \in Seq(Sent)
  BY <1>1, SMT
<1>3. ASSUME NEW i \in DOMAIN queue'[n][p] PROVE MessageOK(n, queue[n][p][i])'
  <2>1. PICK e : e = queue'[n][p][i]
    OBVIOUS
  <2>2. CASE i \in DOMAIN queue[n][p]
    <3>1. e = queue[n][p][i]
      BY <1>1, <2>1, <2>2, SMTT(60)
    <3>2. MessageOK(n, e)
      BY <2>2, <3>1 DEF ClusterInv
    <3>3. MessageOK(n, e)'
      BY <3>2, MessagesStay
    <3> QED BY <2>1, <3>3 DEF MessageOK, Reported
  <2>3. CASE i \notin DOMAIN queue[n][p]
    <3>1. e = m
      BY <1>1, <2>1, <2>3, SMT
    <3> QED BY <2>1, <3>1 DEF MessageOK, Reported
  <2> QED BY <2>2, <2>3
<1> QED BY <1>2, <1>3

\* An answered invalidation has killed what it was asked to on the called node.
LEMMA AnsweredIsCovered ==
  ASSUME ClusterInv, Later, rec' = rec, NEW c \in Clients, client[c].pc \in Deleting,
         \A slot \in client[c].before : slot[1] = client[c].node => Stored(slot) < At(slot)
  PROVE  \A v \in covered \cup Answered(c) : CoveredOK(v)'
<1>1. \A v \in covered : CoveredOK(v)'
  BY RecordsStay
<1>2. ASSUME NEW v \in Answered(c) PROVE CoveredOK(v)'
  <2>1. PICK slot \in client[c].before : v = [at |-> slot, by |-> client[c].node]
    BY DEF Answered
  <2>2. v.at = slot /\ v.by = client[c].node
    BY <2>1
  <2>3. slot \in Slots /\ Stored(slot) # None
    BY DEF ClusterInv, DeleterOK, Deleting
  <2>4. slot[1] = client[c].node => Stored(slot) < gen'[slot[1]][slot[2]][slot[3]]
    BY <2>3, DeadStays
  <2>5. slot \in Slots' /\ Stored(slot)' # None
    BY <2>3, SlotGrows DEF Stored
  <2>6. slot[1] = client[c].node => Stored(slot)' < At(slot)'
    BY <2>4 DEF Stored, At
  <2> QED BY <2>2, <2>5, <2>6 DEF CoveredOK, Stored, At
<1> QED BY <1>1, <1>2

\* The reply after the wait for acknowledgements.
LEMMA AwaitEndsKeeps ==
  ASSUME ClusterInv, NEW c \in Clients, AwaitEnds(c)
  PROVE  ClusterInv' /\ Later
<1>1. Tables /\ Ports /\ AwaiterOK(c) /\ client[c].pc = "await"
  BY DEF ClusterInv, Shapes, AwaitEnds
<1>2. UNCHANGED <<world, gen, rec, queue, link, gossip, ops>> /\ covered' = covered \cup Answered(c)
  BY DEF AwaitEnds
<1>3. Later
  BY <1>1, <1>2, NothingGrew, SMT DEF Tables
<1>4. DOMAIN client' = Clients /\ client'[c].pc = "idle" /\ \A d \in Clients \ {c} : client'[d] = client[d]
  BY <1>1 DEF Tables, AwaitEnds, Idle
<1>5. Shapes'
  BY <1>1, <1>2, <1>4, PortsStay DEF Shapes, Tables
<1>6. /\ \A d \in Clients : client'[d].pc \in Deleting => client'[d] = client[d]
      /\ \A d \in Clients : client'[d].pc \in Writing => client'[d] = client[d]
  BY <1>4 DEF Writing, Deleting
<1>7. \A d \in Clients : SameDelete(d) /\ SameBump(d) /\ SameAwait(d) /\ Carried(d)
  BY <1>2, <1>6, Undisturbed
<1>8. \A d \in Clients : DeleterOK(d)' /\ BumperOK(d)' /\ AwaiterOK(d)' /\ WriterOK(d)'
  BY <1>3, <1>6, <1>7, DeletersStay, BumpersStay, AwaitersStay, WritersStay
<1>9. \A d \in Clients : client'[d].pc \in Writing \cup Deleting \cup {"idle"}
  BY <1>4 DEF ClusterInv, Writing, Deleting
<1>10. RecordsCaptured'
  BY <1>2, <1>3, RecordsStay
<1>11. \A v \in covered' : CoveredOK(v)'
  <2>1. client[c].pc \in Deleting /\ \A slot \in client[c].before : slot[1] = client[c].node => Stored(slot) < At(slot)
    BY <1>1 DEF AwaiterOK, Deleting
  <2> QED BY <1>2, <1>3, <2>1, AnsweredIsCovered
<1>12. \A m \in Nodes : \A p \in Peers(m) :
         /\ \A i \in DOMAIN queue'[m][p] : MessageOK(m, queue[m][p][i])'
         /\ LinkOK(m, p)'
  BY <1>2, <1>3, <1>7, QueuesStay, LinksStay
<1> QED BY <1>3, <1>5, <1>8, <1>9, <1>10, <1>11, <1>12, StepKeeps

\* The levelling pass and the fan-out: no shard is raised above the node's
\* maximum, and the message sent says what the node has reached.
LEMMA LevelAndForwardKeeps ==
  ASSUME ClusterInv, NEW c \in Clients, LevelAndForward(c)
  PROVE  ClusterInv' /\ Later /\ \A m \in Nodes : \A u \in AllTags : known'[m][u] <= known[m][u]
<1>1. DeleterOK(c) /\ BumperOK(c) /\ Tables /\ Ports /\ client[c].pc = "level" /\ client[c].highest # None
  BY DEF ClusterInv, Shapes, LevelAndForward
<1>2. PICK n \in Nodes, t \in world.tags, g \in Nat, id \in 1 .. ops :
        /\ n = client[c].node /\ t = client[c].tag /\ g = client[c].highest /\ id = client[c].id
        /\ g <= known[n][t]
  BY <1>1 DEF DeleterOK, BumperOK, Gens
<1>3. PICK ack, msg, before :
        /\ ack = IF Synchronous THEN id ELSE 0
        /\ msg = [kind |-> "invalidate", entries |-> [u \in {t} |-> g], full |-> FALSE, ack |-> ack, live |-> TRUE]
        /\ before = client[c].before
  OBVIOUS
<1>4. /\ UNCHANGED <<world, rec, link, gossip, ops>>
      /\ gen' = [gen EXCEPT ![n] = Levelled(n, t, g)]
      /\ queue' = [queue EXCEPT ![n] = invalidate(n, t, g, ack)]
  BY <1>2, <1>3 DEF LevelAndForward
<1>5. ASSUME NEW m \in Nodes, NEW r \in world.shards, NEW u \in world.tags
      PROVE  \/ gen'[m][r][u] = gen[m][r][u]
             \/ /\ m = n /\ u = t /\ gen[m][r][u] \in Nat /\ gen[m][r][u] < g
                /\ gen'[m][r][u] = g
  <2>1. CASE m # n
    BY <1>1, <1>4, <2>1 DEF Tables
  <2>2. CASE m = n
    <3>1. gen'[n] = Levelled(n, t, g)
      BY <1>1, <1>4 DEF Tables
    <3>2. gen'[n][r] = IF r \in Holders(n, t) /\ gen[n][r][t] < g THEN [gen[n][r] EXCEPT ![t] = g] ELSE gen[n][r]
      BY <3>1 DEF Levelled
    <3>3. gen[n][r] \in [world.tags -> Gens]
      BY <1>1, SMT DEF Tables
    <3> QED BY <2>2, <3>2, <3>3 DEF Holders, Gens
  <2> QED BY <2>1, <2>2
<1>6. gen' \in [Nodes -> [world.shards -> [world.tags -> Gens]]]
  <2>1. Levelled(n, t, g) \in [world.shards -> [world.tags -> Gens]]
    BY <1>1, SMT DEF Tables, Levelled, Gens
  <2> QED BY <1>1, <1>4, <2>1 DEF Tables
<1>7. Later
  <2>1. GenTyped /\ GenTyped'
    BY <1>1, <1>4, <1>6 DEF GenTyped, Tables
  <2>2. Grows
    BY <1>5, <2>1, ClusterAssumption, SMT DEF Grows, GenTyped, Gens
  <2> QED BY <1>1, <1>4, <2>1, <2>2, SMT DEF Later, Tables
<1>8. ASSUME NEW m \in Nodes, NEW u \in AllTags PROVE known'[m][u] <= known[m][u]
  <2>1. known[m][u] \in Nat
    BY <1>7, KnownIsMax DEF Later, KnownFacts
  <2>2. PICK b \in Nat : b = known[m][u]
    BY <2>1
  <2>3. u \in world.tags => \A r \in world.shards : gen'[m][r][u] = gen[m][r][u] \/ gen'[m][r][u] <= b
    BY <1>2, <1>5, <2>2, SMT
  <2> QED BY <1>7, <2>2, <2>3, KnownBounded, SMT
<1>9. /\ DOMAIN client' = Clients
      /\ \A d \in Clients \ {c} : client'[d] = client[d]
      /\ \/ client'[c] = Idle /\ covered' = covered \cup Answered(c)
         \/ /\ Synchronous /\ covered' = covered
            /\ client'[c] = [pc |-> "await", id |-> id, node |-> n, tag |-> t, generation |-> g,
                             waiting |-> Takers(n), answered |-> {}, merged |-> {}, before |-> before]
  BY <1>1, <1>2, <1>3 DEF Tables, LevelAndForward
<1>10. \/ client'[c].pc = "idle"
       \/ /\ Synchronous /\ client'[c].pc = "await" /\ client'[c].id = id
          /\ client'[c].node = n /\ client'[c].tag = t /\ client'[c].generation = g
          /\ client'[c].merged = {} /\ client'[c].before = before
          /\ DOMAIN client'[c] = {"pc", "id", "node", "tag", "generation", "waiting", "answered", "merged", "before"}
  BY <1>9, SMTT(60) DEF Idle
<1>11. SameDelete(c) /\ Carried(c) /\ SameBump(c)
  BY <1>1, <1>2, <1>3, <1>4, <1>10 DEF SameDelete, Carried, Deleting, SameBump
<1>12. \A d \in Clients \ {c} : SameDelete(d) /\ SameBump(d) /\ SameAwait(d) /\ Carried(d)
  BY <1>4, <1>9 DEF SameDelete, SameBump, SameAwait, Deleting, Carried
<1>13. \A d \in Clients : DeleterOK(d)' /\ BumperOK(d)'
  BY <1>7, <1>11, <1>12, DeletersStay, BumpersStay
<1>14. \A slot \in before : slot[1] = n => Stored(slot) < At(slot)
  BY <1>1, <1>2, <1>3 DEF BumperOK
<1>15. \A d \in Clients : AwaiterOK(d)'
  <2>1. \A d \in Clients \ {c} : AwaiterOK(d)'
    BY <1>7, <1>12, AwaitersStay
  <2>2. \A slot \in before : slot[1] = n => Stored(slot)' < At(slot)'
    <3> SUFFICES ASSUME NEW slot \in before, slot[1] = n PROVE Stored(slot)' < At(slot)'
      OBVIOUS
    <3>1. slot \in Slots /\ Stored(slot) # None /\ Stored(slot) < At(slot)
      BY <1>1, <1>3, <1>14 DEF DeleterOK
    <3>2. Stored(slot) < gen'[slot[1]][slot[2]][slot[3]]
      BY <1>7, <3>1, DeadStays
    <3> QED BY <1>4, <3>2 DEF Stored, At
  <2>3. AwaiterOK(c)'
    BY <1>10, <2>2 DEF AwaiterOK
  <2> QED BY <2>1, <2>3
<1>16. \A d \in Clients : client'[d].pc \in Writing \cup Deleting \cup {"idle"} /\ WriterOK(d)'
  <2>1. \A d \in Clients : client'[d].pc \in Writing => client'[d] = client[d]
    BY <1>9, <1>10 DEF Writing
  <2>2. \A d \in Clients : client'[d].pc \in Writing \cup Deleting \cup {"idle"}
    BY <1>9, <1>10 DEF ClusterInv, Writing, Deleting
  <2> QED BY <1>7, <2>1, <2>2, WritersStay
<1>17. RecordsCaptured' /\ \A v \in covered' : CoveredOK(v)'
  <2>1. client[c].pc \in Deleting /\ \A slot \in client[c].before : slot[1] = client[c].node => Stored(slot) < At(slot)
    BY <1>1, <1>2, <1>3, <1>14 DEF Deleting
  <2>2. \A v \in covered \cup Answered(c) : CoveredOK(v)'
    BY <1>4, <1>7, <2>1, AnsweredIsCovered
  <2> QED BY <1>4, <1>7, <1>9, <2>2, RecordsStay
<1>18. MessageOK(n, msg)'
  <2>1. ack \in Nat /\ ack <= ops /\ msg \in Sent /\ msg.entries = [u \in {t} |-> g] /\ msg.ack = ack
    <3>1. ack \in Nat /\ ack <= ops
      BY <1>1, <1>3, SMT DEF Tables
    <3>2. PICK e : e = [u \in {t} |-> g]
      OBVIOUS
    <3>3. e \in [{t} -> Nat] /\ {t} \in SUBSET world.tags
      BY <3>2
    <3>4. e \in Offers
      BY <3>3 DEF Offers
    <3>5. msg = [kind |-> "invalidate", entries |-> e, full |-> FALSE, ack |-> ack, live |-> TRUE]
      BY <1>3, <3>2
    <3> QED BY <3>1, <3>2, <3>4, <3>5 DEF Sent
  <2>2. msg \in Sent' /\ ops' = ops
    BY <1>4, <2>1 DEF Sent, Offers
  <2>3. g <= known'[n][t]
    <3>1. known[n][t] \in Nat /\ known'[n][t] \in Nat /\ known[n][t] <= known'[n][t]
      BY <1>1, <1>7, KnownGrows DEF AllTags, Tables
    <3> QED BY <1>2, <3>1, SMT
  <2>4. [u \in {t} |-> g] \in Offers'
    BY <1>4, <2>1 DEF Offers, Sent
  <2>5. Reported(msg.entries)'
    BY <2>1, <2>3, <2>4 DEF Reported
  <2>6. ASSUME NEW d \in Clients, client'[d].pc \in Deleting, client'[d].id = ack
        PROVE  /\ client'[d].pc = "await" /\ client'[d].node = n
               /\ msg.entries = [u \in {client'[d].tag} |-> client'[d].generation]
    <3>1. CASE d = c
      BY <1>10, <2>1, <2>6, <3>1 DEF Deleting
    <3>2. CASE d # c
      <4>1. client[d].pc \in Deleting /\ client[d].id = ack /\ DeleterOK(d)
        BY <1>9, <2>6, <3>2 DEF ClusterInv
      <4>2. client[d].id \in 1 .. ops /\ client[d].id # id
        BY <1>1, <1>2, <3>2, <4>1 DEF DeleterOK, Deleting
      <4> QED BY <1>1, <1>3, <4>1, <4>2, SMTT(60) DEF Tables
    <3> QED BY <3>1, <3>2
  <2> QED BY <2>1, <2>2, <2>5, <2>6 DEF MessageOK, Deleting
<1>19. ASSUME NEW m \in Nodes, NEW p \in Peers(m)
       PROVE  queue'[m][p] = queue[m][p] \/ (m = n /\ queue'[m][p] = Append(queue[m][p], msg))
  <2>1. CASE m # n
    <3>1. DOMAIN queue = Nodes
      BY <1>1 DEF Ports
    <3>2. queue'[m] = queue[m]
      BY <1>4, <2>1, <3>1
    <3> QED BY <3>2
  <2>2. CASE m = n
    <3>1. queue'[n] = invalidate(n, t, g, ack)
      BY <1>1, <1>4 DEF Ports
    <3>2. invalidate(n, t, g, ack)[p] = IF p \in Takers(n) THEN Append(queue[n][p], msg) ELSE queue[n][p]
      BY <1>3, <2>2 DEF invalidate
    <3> QED BY <2>2, <3>1, <3>2
  <2> QED BY <2>1, <2>2
<1>20. ASSUME NEW m \in Nodes, NEW p \in Peers(m)
       PROVE  /\ \A i \in DOMAIN queue'[m][p] : MessageOK(m, queue[m][p][i])'
              /\ queue'[m][p] \in Seq(Sent)
  <2>1. CASE queue'[m][p] = queue[m][p]
    <3>1. queue'[m][p] \in Seq(Sent)
      BY <1>1, <2>1 DEF Ports
    <3> QED BY <1>7, <1>11, <1>12, <2>1, <3>1, QueuesStay
  <2>2. CASE m = n /\ queue'[m][p] = Append(queue[m][p], msg)
    BY <1>7, <1>11, <1>12, <1>18, <2>2, QueueTakes
  <2> QED BY <1>19, <2>1, <2>2
<1>21. Ports'
  <2>1. Sent' = Sent
    BY <1>4 DEF Sent, Offers
  <2>2. DOMAIN queue' = Nodes /\ \A m \in Nodes : DOMAIN queue'[m] = Peers(m)
    BY <1>1, <1>4 DEF Ports, invalidate
  <2> QED BY <1>1, <1>4, <1>20, <2>1, <2>2 DEF Ports
<1>22. Shapes'
  BY <1>1, <1>4, <1>6, <1>9, <1>21 DEF Shapes, Tables
<1>23. \A m \in Nodes : \A p \in Peers(m) : LinkOK(m, p)'
  BY <1>4, <1>7, <1>11, <1>12, LinksStay
<1> QED BY <1>7, <1>8, <1>13, <1>15, <1>16, <1>17, <1>20, <1>22, <1>23, StepKeeps

-----------------------------------------------------------------------------
(* The steps of the peers *)

\* All that is left to show of a step of a peer's task or of a timer.
LEMMA PortStepKeeps ==
  ASSUME ClusterInv, Later, Shapes', UNCHANGED <<rec, covered>>,
         \A c \in Clients :
           /\ client'[c].pc = client[c].pc \/ client'[c].pc = "idle"
           /\ client'[c].pc \in Writing => client'[c] = client[c]
           /\ SameDelete(c) /\ SameBump(c) /\ SameAwait(c),
         \A n \in Nodes : \A p \in Peers(n) :
           /\ \A i \in DOMAIN queue'[n][p] : MessageOK(n, queue[n][p][i])'
           /\ LinkOK(n, p)'
  PROVE  ClusterInv'
<1>1. \A c \in Clients : Carried(c)
  BY DEF Carried
<1>2. \A c \in Clients : DeleterOK(c)' /\ BumperOK(c)' /\ AwaiterOK(c)' /\ WriterOK(c)'
  BY <1>1, DeletersStay, BumpersStay, AwaitersStay, WritersStay
<1>3. \A c \in Clients : client'[c].pc \in Writing \cup Deleting \cup {"idle"}
  BY DEF ClusterInv, Writing, Deleting
<1>4. RecordsCaptured' /\ \A v \in covered' : CoveredOK(v)'
  BY RecordsStay
<1> QED BY <1>2, <1>3, <1>4, StepKeeps

\* The peer's task takes a message off the queue.
LEMMA TakeMessageKeeps ==
  ASSUME ClusterInv, NEW n \in Nodes, NEW p \in Peers(n), TakeMessage(n, p)
  PROVE  ClusterInv' /\ Later
<1>1. Tables /\ Ports /\ queue[n][p] \in Seq(Sent) /\ queue[n][p] # <<>>
  BY DEF ClusterInv, Shapes, Ports, TakeMessage
<1>2. UNCHANGED <<world, gen, rec, client, gossip, ops, covered>>
  BY DEF TakeMessage
<1>3. Later
  BY <1>1, <1>2, NothingGrew, SMT DEF Tables
<1>4. PICK m : m = Head(queue[n][p])
  OBVIOUS
<1>5. /\ DOMAIN queue' = Nodes /\ DOMAIN link' = Nodes
      /\ \A k \in Nodes : DOMAIN queue'[k] = Peers(k) /\ DOMAIN link'[k] = Peers(k)
      /\ \A k \in Nodes : \A q \in Peers(k) : <<k, q>> # <<n, p>> =>
           queue'[k][q] = queue[k][q] /\ link'[k][q] = link[k][q]
      /\ link'[n][p] = [pc |-> "send", msg |-> m, attempt |-> 0]
      /\ queue'[n][p] = Tail(queue[n][p])
  BY <1>1, <1>4 DEF Ports, TakeMessage
<1>6. MessageOK(n, m) /\ \A i \in DOMAIN queue'[n][p] : \E j \in DOMAIN queue[n][p] : queue'[n][p][i] = queue[n][p][j]
  <2>1. 1 \in DOMAIN queue[n][p] /\ m = queue[n][p][1]
    BY <1>1, <1>4, SMT
  <2>2. MessageOK(n, m)
    BY <2>1 DEF ClusterInv
  <2>3. \A i \in DOMAIN queue'[n][p] : i + 1 \in DOMAIN queue[n][p] /\ queue'[n][p][i] = queue[n][p][i + 1]
    BY <1>1, <1>5, SMT
  <2> QED BY <2>2, <2>3
<1>7. queue'[n][p] \in Seq(Sent)
  BY <1>1, <1>5, SMT
<1>8. Shapes'
  <2>1. Sent' = Sent
    BY <1>2 DEF Sent, Offers
  <2>2. \A k \in Nodes : \A q \in Peers(k) : queue'[k][q] \in Seq(Sent)
    <3> SUFFICES ASSUME NEW k \in Nodes, NEW q \in Peers(k) PROVE queue'[k][q] \in Seq(Sent)
      OBVIOUS
    <3>1. CASE <<k, q>> = <<n, p>>
      BY <1>7, <3>1
    <3>2. CASE <<k, q>> # <<n, p>>
      BY <1>1, <1>5, <3>2, SMT DEF Ports
    <3> QED BY <3>1, <3>2
  <2>3. Ports'
    BY <1>1, <1>2, <1>5, <2>1, <2>2 DEF Ports
  <2> QED BY <1>1, <1>2, <2>3 DEF Shapes, Tables
<1>9. \A c \in Clients : SameDelete(c) /\ SameBump(c) /\ SameAwait(c) /\ Carried(c)
  BY <1>2, Undisturbed
<1>10. ASSUME NEW k \in Nodes, NEW q \in Peers(k)
       PROVE  /\ \A i \in DOMAIN queue'[k][q] : MessageOK(k, queue[k][q][i])'
              /\ LinkOK(k, q)'
  <2>1. CASE <<k, q>> # <<n, p>>
    BY <1>3, <1>5, <1>9, <2>1, QueuesStay, LinksStay
  <2>2. CASE <<k, q>> = <<n, p>>
    <3>1. MessageOK(n, m)'
      BY <1>3, <1>6, <1>9, MessagesStay
    <3>2. link'[n][p] # Idle /\ link'[n][p].pc = "send" /\ link'[n][p].msg = m
          /\ {"pc", "msg", "attempt"} \subseteq DOMAIN link'[n][p]
      BY <1>5, SMT DEF Idle
    <3>3. MessageOK(n, link[n][p].msg)'
      BY <3>1, <3>2 DEF MessageOK, Reported
    <3>4. LinkOK(n, p)'
      BY <3>2, <3>3 DEF LinkOK
    <3>5. ASSUME NEW i \in DOMAIN queue'[n][p] PROVE MessageOK(n, queue[n][p][i])'
      <4>1. PICK e : e = queue'[n][p][i]
        OBVIOUS
      <4>2. \E j \in DOMAIN queue[n][p] : queue[n][p][j] = e
        BY <1>6, <4>1
      <4>3. MessageOK(n, e)
        BY <4>2 DEF ClusterInv
      <4>4. MessageOK(n, e)'
        BY <1>3, <1>9, <4>3, MessagesStay
      <4> QED BY <4>1, <4>4 DEF MessageOK, Reported
    <3> QED BY <2>2, <3>4, <3>5
  <2> QED BY <2>1, <2>2
<1> QED BY <1>2, <1>3, <1>8, <1>9, <1>10, PortStepKeeps

\* apply_merges with what some node reports: no shard falls, every shard that
\* holds the name reaches what is offered, and the node's maximum does not pass
\* what some node already has.
LEMMA MergeStep ==
  ASSUME ClusterInv, NEW n \in Nodes, NEW e, Reported(e), UNCHANGED <<world, ops>>,
         gen' = [gen EXCEPT ![n] = merge_tag_generation(n, e)]
  PROVE  /\ Later
         /\ \A t \in DOMAIN e : \A s \in world.shards : gen[n][s][t] # None => e[t] <= gen'[n][s][t]
         /\ \A m \in Nodes \ {n} : \A u \in AllTags : known'[m][u] = known[m][u]
         /\ \A u \in AllTags : \E m \in Nodes : known'[n][u] <= known[m][u]
<1>1. Tables /\ GenTyped
  BY DEF ClusterInv, Shapes, Tables, GenTyped
<1>2. PICK T \in SUBSET world.tags : e \in [T -> Nat]
  BY DEF Reported, Offers
<1>3. \A m \in Nodes \ {n} : gen'[m] = gen[m]
  BY <1>1 DEF Tables
<1>4. ASSUME NEW s \in world.shards, NEW t \in world.tags
      PROVE  /\ gen'[n][s][t] \in Gens
             /\ \/ gen'[n][s][t] = gen[n][s][t]
                \/ t \in T /\ gen'[n][s][t] = e[t] /\ (gen[n][s][t] = None \/ gen[n][s][t] <= e[t])
             /\ t \in T /\ gen[n][s][t] # None => e[t] <= gen'[n][s][t]
             /\ gen[n][s][t] # None => gen'[n][s][t] # None
  <2>1. gen'[n][s][t] = merge_tag_generation(n, e)[s][t]
    BY <1>1 DEF Tables
  <2>2. gen'[n][s][t] =
          CASE t \in T /\ s \in Holders(n, t) -> Max({gen[n][s][t], e[t]})
            [] t \in T /\ Holders(n, t) = {} /\ s = Home(t) -> e[t]
            [] OTHER -> gen[n][s][t]
    BY <1>2, <2>1 DEF merge_tag_generation
  <2>3. gen[n][s][t] \in Gens /\ (s \in Holders(n, t) <=> gen[n][s][t] # None)
    BY <1>1, SMT DEF Tables, Holders
  <2>4. CASE t \notin T
    <3>1. gen'[n][s][t] = gen[n][s][t]
      BY <2>2, <2>4
    <3> QED BY <2>3, <2>4, <3>1
  <2>5. CASE t \in T /\ s \in Holders(n, t)
    <3>1. gen'[n][s][t] = Max({gen[n][s][t], e[t]})
      BY <2>2, <2>5
    <3>2. gen[n][s][t] \in Nat /\ e[t] \in Nat
      BY <1>2, <2>3, <2>5 DEF Gens
    <3>3. Max({gen[n][s][t], e[t]}) = IF gen[n][s][t] >= e[t] THEN gen[n][s][t] ELSE e[t]
      BY <3>2, MaxOfTwo, SMT
    <3>4. gen[n][s][t] # None /\ e[t] # None
      BY <3>2, ClusterAssumption
    <3> QED BY <2>5, <3>1, <3>2, <3>3, <3>4, SMT DEF Gens
  <2>6. CASE t \in T /\ s \notin Holders(n, t)
    <3>1. gen[n][s][t] = None /\ e[t] \in Nat
      BY <1>2, <2>3, <2>6
    <3>2. gen'[n][s][t] = e[t] \/ gen'[n][s][t] = gen[n][s][t]
      BY <2>2, <2>6
    <3> QED BY <2>3, <2>6, <3>1, <3>2 DEF Gens
  <2> QED BY <2>4, <2>5, <2>6
<1>5. gen' \in [Nodes -> [world.shards -> [world.tags -> Gens]]]
  <2>1. gen'[n] = merge_tag_generation(n, e)
    BY <1>1 DEF Tables
  <2>2. gen'[n] = [s \in world.shards |-> [t \in world.tags |-> gen'[n][s][t]]]
    <3>1. PICK M : M = merge_tag_generation(n, e)
      OBVIOUS
    <3>2. M = [s \in world.shards |-> M[s]]
      BY <3>1 DEF merge_tag_generation
    <3>3. \A s \in world.shards : M[s] = [t \in world.tags |-> M[s][t]]
      BY <3>1 DEF merge_tag_generation
    <3> QED BY <2>1, <3>1, <3>2, <3>3
  <2>3. gen'[n] \in [world.shards -> [world.tags -> Gens]]
    BY <1>4, <2>2, SMT
  <2> QED BY <1>1, <2>1, <2>3 DEF Tables
<1>6. Later
  <2>1. GenTyped'
    BY <1>1, <1>5 DEF GenTyped
  <2>2. ASSUME NEW m \in Nodes, NEW s \in world.shards, NEW t \in world.tags, gen[m][s][t] # None
        PROVE  gen'[m][s][t] # None /\ gen[m][s][t] <= gen'[m][s][t]
    <3>1. gen[m][s][t] \in Nat
      BY <1>1, <2>2, SMT DEF Tables, Gens
    <3>2. CASE m # n
      BY <1>3, <2>2, <3>1, <3>2, SMT
    <3>3. CASE m = n
      BY <1>4, <2>2, <3>1, <3>3, SMT
    <3> QED BY <3>2, <3>3
  <2> QED BY <1>1, <2>1, <2>2, SMT DEF Later, Tables, Grows
<1>7. KnownFacts /\ KnownFacts'
  BY <1>6, KnownIsMax, KnownIsMaxNext DEF Later
<1>8. \A m \in Nodes \ {n} : \A u \in AllTags : known'[m][u] = known[m][u]
  BY <1>3, <1>7, KnownUnless
<1>9. ASSUME NEW u \in AllTags PROVE \E m \in Nodes : known'[n][u] <= known[m][u]
  <2>1. known[n][u] \in Nat
    BY <1>7 DEF KnownFacts
  <2>2. CASE u \in T
    <3>1. PICK m \in Nodes : e[u] <= known[m][u]
      BY <1>2, <2>2 DEF Reported
    <3>2. known[m][u] \in Nat /\ e[u] \in Nat
      BY <1>2, <1>7, <2>2 DEF KnownFacts
    <3>3. PICK k \in Nodes : k = IF known[n][u] <= known[m][u] THEN m ELSE n
      OBVIOUS
    <3>4. PICK b \in Nat : b = known[k][u]
      BY <2>1, <3>2, <3>3
    <3>5. known[n][u] <= b /\ e[u] <= b
      BY <2>1, <3>1, <3>2, <3>3, <3>4, SMT
    <3>6. \A r \in world.shards : gen'[n][r][u] = gen[n][r][u] \/ gen'[n][r][u] <= b
      BY <1>4, <2>2, <3>5
    <3>7. known'[n][u] <= b
      BY <1>6, <3>5, <3>6, KnownBounded
    <3> QED BY <3>4, <3>7
  <2>3. CASE u \notin T
    <3>1. u \in world.tags => \A r \in world.shards : gen'[n][r][u] = gen[n][r][u]
      BY <1>4, <2>3
    <3>2. known'[n][u] = known[n][u]
      BY <1>7, <3>1, KnownUnless
    <3> QED BY <2>1, <3>2, SMT
  <2> QED BY <2>2, <2>3
<1>10. \A t \in DOMAIN e : \A s \in world.shards : gen[n][s][t] # None => e[t] <= gen'[n][s][t]
  BY <1>2, <1>4
<1> QED BY <1>6, <1>8, <1>9, <1>10

\* Part of what is reported is reported.
LEMMA ReportedPart ==
  ASSUME NEW e, Reported(e), NEW K \in SUBSET DOMAIN e
  PROVE  Reported([t \in K |-> e[t]])
<1>1. PICK T \in SUBSET world.tags : e \in [T -> Nat]
  BY DEF Reported, Offers
<1>2. PICK f : f = [t \in K |-> e[t]]
  OBVIOUS
<1>3. f \in [K -> Nat] /\ K \in SUBSET world.tags
  BY <1>1, <1>2
<1>4. f \in Offers
  BY <1>3 DEF Offers
<1>5. \A t \in DOMAIN f : \E m \in Nodes : f[t] <= known[m][t]
  BY <1>2 DEF Reported
<1> QED BY <1>2, <1>4, <1>5 DEF Reported

\* What a node says of its own registry is what it reports.
LEMMA OwnTableIsReported ==
  ASSUME GenTyped, NEW n \in Nodes
  PROVE  Reported(tag_generations(n))
<1>1. KnownFacts
  BY KnownIsMax
<1>2. PICK T : T = {u \in world.tags : node_generation(n, u) \notin {None, 0}}
  OBVIOUS
<1>3. \A t \in T : t \in AllTags /\ node_generation(n, t) = known[n][t] /\ known[n][t] \in Nat
  BY <1>1, <1>2 DEF known, AllTags, GenTyped, KnownFacts
<1>4. PICK e : e = [t \in T |-> node_generation(n, t)]
  OBVIOUS
<1>5. tag_generations(n) = e
  BY <1>2, <1>4 DEF tag_generations
<1>6. e \in [T -> Nat] /\ T \in SUBSET world.tags
  BY <1>2, <1>3, <1>4
<1>7. e \in Offers
  BY <1>6 DEF Offers
<1>8. \A t \in DOMAIN e : e[t] <= known[n][t]
  BY <1>3, <1>4, SMT
<1> QED BY <1>5, <1>7, <1>8 DEF Reported

\* What TAG_SYNC answers is what the peer reports, whichever names are kept.
LEMMA AnswerIsReported ==
  ASSUME ClusterInv, NEW p \in Nodes, NEW msg, NEW behind \in Truncations(Behind(p, msg))
  PROVE  Reported(behind)
<1>1. PICK ours : ours = tag_generations(p)
  OBVIOUS
<1>2. Reported(ours)
  BY <1>1, OwnTableIsReported DEF ClusterInv, Shapes, Tables, GenTyped
<1>3. PICK ahead \in SUBSET DOMAIN ours : Behind(p, msg) = [t \in ahead |-> ours[t]]
  BY <1>1 DEF Behind
<1>4. PICK kept \in SUBSET ahead : behind = [t \in kept |-> ours[t]]
  BY <1>3, SMT DEF Truncations
<1> QED BY <1>2, <1>4, ReportedPart

\* Every port but one is as it was, and that one's link is sound.
LEMMA OnePort ==
  ASSUME ClusterInv, Later, \A c \in Clients : Carried(c),
         NEW n \in Nodes, NEW p \in Peers(n), UNCHANGED queue,
         \A k \in Nodes : \A q \in Peers(k) : <<k, q>> # <<n, p>> => link'[k][q] = link[k][q],
         LinkOK(n, p)'
  PROVE  \A k \in Nodes : \A q \in Peers(k) :
           /\ \A i \in DOMAIN queue'[k][q] : MessageOK(k, queue[k][q][i])'
           /\ LinkOK(k, q)'
<1>1. ASSUME NEW k \in Nodes, NEW q \in Peers(k) PROVE \A i \in DOMAIN queue'[k][q] : MessageOK(k, queue[k][q][i])'
  BY QueuesStay
<1>2. ASSUME NEW k \in Nodes, NEW q \in Peers(k) PROVE LinkOK(k, q)'
  <2>1. CASE <<k, q>> # <<n, p>>
    BY <2>1, LinksStay
  <2>2. CASE <<k, q>> = <<n, p>>
    BY <2>2
  <2> QED BY <2>1, <2>2
<1> QED BY <1>1, <1>2

\* A timer is due or waits for its round.
Timers ==
  /\ DOMAIN gossip = Nodes
  /\ \A n \in Nodes :
       /\ DOMAIN gossip[n] = Peers(n)
       /\ \A p \in Peers(n) : gossip[n][p] \in [pc : {"due", "waiting"}, round : Nat]

\* The tables of the ports keep their shape when only links are rewritten.
LEMMA LinkShapes ==
  ASSUME Ports, UNCHANGED <<world, queue>>, Timers',
         DOMAIN link' = Nodes, \A n \in Nodes : DOMAIN link'[n] = Peers(n)
  PROVE  Ports'
<1>1. Sent' = Sent
  BY DEF Sent, Offers
<1> QED BY <1>1 DEF Ports, Timers

\* TAG_SYNC at the far end.
LEMMA TagSyncKeeps ==
  ASSUME ClusterInv, NEW n \in Nodes, NEW p \in Peers(n), TagSync(n, p)
  PROVE  /\ ClusterInv' /\ Later
         /\ \A m \in Nodes \ {p} : \A u \in AllTags : known'[m][u] = known[m][u]
         /\ \A u \in AllTags : \E m \in Nodes : known'[p][u] <= known[m][u]
<1>1. Tables /\ Ports /\ RecordsCaptured /\ LinkOK(n, p) /\ link[n][p].pc = "send" /\ p \in Nodes
  BY DEF ClusterInv, Shapes, TagSync, Peers
<1>2. PICK behind \in Truncations(Behind(p, link[n][p].msg)),
           skipped \in {{}} \cup {{t} : t \in DOMAIN link[n][p].msg.entries} :
        /\ gen' = [gen EXCEPT ![p] = merge_tag_generation(p,
             [t \in DOMAIN link[n][p].msg.entries \ skipped |-> link[n][p].msg.entries[t]])]
        /\ link' = [link EXCEPT ![n][p] =
             [pc |-> "reply", msg |-> @.msg, attempt |-> @.attempt, learned |-> behind, applied |-> skipped = {}]]
  BY DEF TagSync
<1>3. UNCHANGED <<world, rec, client, queue, gossip, ops, covered>>
  BY DEF TagSync
<1>4. PICK msg, attempt, applied, e :
        /\ msg = link[n][p].msg /\ attempt = link[n][p].attempt /\ applied = (skipped = {})
        /\ e = [t \in DOMAIN msg.entries \ skipped |-> msg.entries[t]]
  OBVIOUS
<1>5. MessageOK(n, msg) /\ Reported(msg.entries)
  <2>1. link[n][p] # Idle
    BY <1>1, SMT DEF Idle
  <2>2. MessageOK(n, link[n][p].msg)
    BY <1>1, <2>1 DEF LinkOK
  <2>3. MessageOK(n, msg)
    BY <1>4, <2>2
  <2> QED BY <2>3 DEF MessageOK
<1>6. Reported(e)
  <2>1. PICK offered : offered = msg.entries
    OBVIOUS
  <2>2. PICK K \in SUBSET DOMAIN offered : K = DOMAIN offered \ skipped
    OBVIOUS
  <2>3. Reported([t \in K |-> offered[t]])
    BY <1>5, <2>1, <2>2, ReportedPart
  <2> QED BY <1>4, <2>1, <2>2, <2>3
<1>7. gen' = [gen EXCEPT ![p] = merge_tag_generation(p, e)]
  BY <1>2, <1>4
<1>8. /\ Later
      /\ \A t \in DOMAIN e : \A s \in world.shards : gen[p][s][t] # None => e[t] <= gen'[p][s][t]
      /\ \A m \in Nodes \ {p} : \A u \in AllTags : known'[m][u] = known[m][u]
      /\ \A u \in AllTags : \E m \in Nodes : known'[p][u] <= known[m][u]
  BY <1>1, <1>3, <1>6, <1>7, MergeStep
<1>9. PICK l : l = [pc |-> "reply", msg |-> msg, attempt |-> attempt, learned |-> behind, applied |-> applied]
  OBVIOUS
<1>10. link' = [link EXCEPT ![n][p] = l]
  BY <1>1, <1>2, <1>4, <1>9 DEF Ports
<1>11. /\ Ports' /\ link'[n][p] = l
       /\ \A k \in Nodes : \A q \in Peers(k) : <<k, q>> # <<n, p>> => link'[k][q] = link[k][q]
  <2>1. /\ DOMAIN link' = Nodes /\ \A k \in Nodes : DOMAIN link'[k] = Peers(k)
        /\ link'[n][p] = l
        /\ \A k \in Nodes : \A q \in Peers(k) : <<k, q>> # <<n, p>> => link'[k][q] = link[k][q]
    BY <1>1, <1>10 DEF Ports
  <2>2. Timers'
    BY <1>1, <1>3 DEF Ports, Timers
  <2> QED BY <1>1, <1>3, <2>1, <2>2, LinkShapes
<1>12. Shapes'
  BY <1>1, <1>3, <1>8, <1>11 DEF Shapes, Tables, Later, GenTyped
<1>13. \A c \in Clients : SameDelete(c) /\ SameBump(c) /\ SameAwait(c) /\ Carried(c)
  BY <1>3, Undisturbed
<1>14. LinkOK(n, p)'
  <2>1. /\ l # Idle /\ l.pc = "reply" /\ l.msg = msg /\ l.learned = behind /\ l.applied = applied
        /\ DOMAIN l = {"pc", "msg", "attempt", "learned", "applied"}
    BY <1>9 DEF Idle
  <2>2. MessageOK(n, link[n][p].msg)'
    <3>1. MessageOK(n, msg)'
      BY <1>5, <1>8, <1>13, MessagesStay
    <3>2. link'[n][p].msg = msg
      BY <1>11, <2>1
    <3> QED BY <3>1, <3>2 DEF MessageOK, Reported
  <2>3. Reported(link[n][p].learned)'
    <3>1. Reported(behind)
      BY <1>1, <1>4, AnswerIsReported
    <3>2. behind \in Offers' /\ \A t \in DOMAIN behind : \E m \in Nodes : behind[t] <= known'[m][t]
      BY <1>8, <3>1, ReportedStays
    <3>3. link'[n][p].learned = behind
      BY <1>11, <2>1
    <3> QED BY <3>2, <3>3 DEF Reported
  <2>4. ASSUME applied, NEW c \in Clients, client[c].pc = "await", client[c].id = msg.ack,
               NEW slot \in client[c].before, slot[1] = p
        PROVE  client[c].generation <= At(slot)'
    <3>1. msg.entries = [u \in {client[c].tag} |-> client[c].generation]
      BY <1>5, <2>4 DEF MessageOK
    <3>2. e = [u \in {client[c].tag} |-> client[c].generation]
      BY <1>4, <2>4, <3>1
    <3>3. slot \in Slots /\ slot[3] = client[c].tag /\ Stored(slot) # None
      BY <2>4 DEF ClusterInv, DeleterOK
    <3>4. slot[2] \in world.shards /\ slot[3] \in world.tags
      BY <3>3 DEF Slots
    <3>5. gen[p][slot[2]][slot[3]] # None
      BY <1>1, <2>4, <3>3, <3>4 DEF RecordsCaptured, Stored
    <3>6. slot[3] \in DOMAIN e /\ e[slot[3]] = client[c].generation
      BY <3>2, <3>3
    <3>7. client[c].generation <= gen'[p][slot[2]][slot[3]]
      BY <1>8, <3>4, <3>5, <3>6
    <3> QED BY <2>4, <3>7 DEF At
  <2> QED BY <1>3, <1>11, <2>1, <2>2, <2>3, <2>4 DEF LinkOK
<1>15. \A k \in Nodes : \A q \in Peers(k) :
         /\ \A i \in DOMAIN queue'[k][q] : MessageOK(k, queue[k][q][i])'
         /\ LinkOK(k, q)'
  BY <1>3, <1>8, <1>11, <1>13, <1>14, OnePort
<1>16. ClusterInv'
  BY <1>3, <1>8, <1>12, <1>13, <1>15, PortStepKeeps
<1> QED BY <1>8, <1>16

\* The timer goes on to the next round.
LEMMA RoundsOn ==
  ASSUME Tables, NEW r \in Nat
  PROVE  NextRound(r) \in Nat
<1>1. PICK rounds \in Nat \ {0} : rounds = world.rounds
  BY ClusterAssumption DEF Tables
<1>2. (r + 1) % rounds \in Nat
  BY SMT
<1> QED BY <1>1, <1>2 DEF NextRound

\* One timer is set.
LEMMA TimerSet ==
  ASSUME Ports, NEW n \in Nodes, NEW p \in Peers(n), NEW g \in [pc : {"due", "waiting"}, round : Nat],
         gossip' = [gossip EXCEPT ![n][p] = g]
  PROVE  Timers'
BY DEF Ports, Timers

\* The end of a round leaves every timer due or waiting.
LEMMA RoundOverShapes ==
  ASSUME Tables, Ports, NEW n \in Nodes, NEW p \in Peers(n), RoundOver(n, p)
  PROVE  Timers'
<1>1. CASE gossip' = gossip
  BY <1>1 DEF Ports, Timers
<1>2. CASE gossip' # gossip
  <2>1. PICK g : g = [pc |-> "due", round |-> NextRound(gossip[n][p].round)]
    OBVIOUS
  <2>2. gossip' = [gossip EXCEPT ![n][p] = g]
    BY <1>2, <2>1 DEF RoundOver, Ports
  <2>3. gossip[n][p].round \in Nat
    BY DEF Ports
  <2>4. g \in [pc : {"due", "waiting"}, round : Nat]
    BY <2>1, <2>3, RoundsOn
  <2> QED BY <2>2, <2>4, TimerSet
<1> QED BY <1>1, <1>2

\* A peer is noted as having merged only when it has applied the message.
LEMMA AcknowledgeKeeps ==
  ASSUME ClusterInv, Later, rec' = rec, NEW n \in Nodes, NEW p \in Peers(n), NEW answered, NEW applied \in BOOLEAN,
         Acknowledge(n, p, answered, applied),
         applied => \A c \in Clients :
           client[c].pc = "await" /\ client[c].id = link[n][p].msg.ack =>
             \A slot \in client[c].before : slot[1] = p => client[c].generation <= gen'[slot[1]][slot[2]][slot[3]]
  PROVE  /\ DOMAIN client' = Clients
         /\ \A c \in Clients :
              /\ client'[c].pc = client[c].pc
              /\ client'[c].pc \in Writing => client'[c] = client[c]
              /\ SameDelete(c) /\ SameBump(c) /\ SameAwait(c) /\ Carried(c)
<1>1. DOMAIN client' = Clients
  BY DEF Acknowledge
<1>2. ASSUME NEW c \in Clients
      PROVE  /\ client'[c].pc = client[c].pc
             /\ client'[c].pc \in Writing => client'[c] = client[c]
             /\ SameDelete(c) /\ SameBump(c) /\ SameAwait(c) /\ Carried(c)
  <2>1. CASE client'[c] = client[c]
    BY <2>1 DEF SameDelete, SameBump, SameAwait, Deleting, Carried
  <2>2. CASE client'[c] # client[c]
    <3>1. /\ client[c].pc = "await" /\ client[c].id = link[n][p].msg.ack
          /\ client'[c] = [client[c] EXCEPT !.waiting = @ \ {p},
                                             !.answered = IF answered THEN @ \cup {p} ELSE @,
                                             !.merged = IF applied THEN @ \cup {p} ELSE @]
      BY <2>2 DEF Acknowledge
    <3>2. DOMAIN client[c] = {"pc", "id", "node", "tag", "generation", "waiting", "answered", "merged", "before"}
      BY <3>1 DEF ClusterInv, AwaiterOK
    <3>3. /\ DOMAIN client'[c] = DOMAIN client[c]
          /\ client'[c].pc = client[c].pc /\ client'[c].id = client[c].id
          /\ client'[c].node = client[c].node /\ client'[c].tag = client[c].tag
          /\ client'[c].generation = client[c].generation /\ client'[c].before = client[c].before
          /\ client'[c].merged = IF applied THEN client[c].merged \cup {p} ELSE client[c].merged
      BY <3>1, <3>2
    <3>4. SameDelete(c) /\ SameBump(c)
      BY <3>1, <3>3 DEF SameDelete, SameBump, Deleting
    <3>5. SameAwait(c)
      BY <3>1, <3>3, SMT DEF SameAwait
    <3> QED BY <3>1, <3>3, <3>4, <3>5 DEF Carried, Writing
  <2> QED BY <2>1, <2>2
<1> QED BY <1>1, <1>2

\* A port whose exchange ends is idle; what the clients waiting for it learn is sound.
LEMMA ExchangeEnds ==
  ASSUME ClusterInv, Later, NEW n \in Nodes, NEW p \in Peers(n), NEW answered, NEW applied \in BOOLEAN,
         UNCHANGED <<world, rec, queue, ops, covered>>,
         Acknowledge(n, p, answered, applied), RoundOver(n, p), link' = [link EXCEPT ![n][p] = Idle],
         applied => \A c \in Clients :
           client[c].pc = "await" /\ client[c].id = link[n][p].msg.ack =>
             \A slot \in client[c].before : slot[1] = p => client[c].generation <= gen'[slot[1]][slot[2]][slot[3]]
  PROVE  ClusterInv'
<1>1. Tables /\ Ports
  BY DEF ClusterInv, Shapes
<1>2. /\ DOMAIN client' = Clients
      /\ \A c \in Clients :
           /\ client'[c].pc = client[c].pc
           /\ client'[c].pc \in Writing => client'[c] = client[c]
           /\ SameDelete(c) /\ SameBump(c) /\ SameAwait(c) /\ Carried(c)
  BY AcknowledgeKeeps
<1>3. /\ DOMAIN link' = Nodes /\ \A k \in Nodes : DOMAIN link'[k] = Peers(k)
      /\ link'[n][p] = Idle
      /\ \A k \in Nodes : \A q \in Peers(k) : <<k, q>> # <<n, p>> => link'[k][q] = link[k][q]
  BY <1>1 DEF Ports
<1>4. Timers'
  BY <1>1, RoundOverShapes
<1>5. Ports'
  BY <1>1, <1>3, <1>4, LinkShapes
<1>6. Shapes'
  BY <1>1, <1>2, <1>5 DEF Shapes, Tables, Later, GenTyped
<1>7. LinkOK(n, p)'
  BY <1>3 DEF LinkOK, Idle
<1>8. \A k \in Nodes : \A q \in Peers(k) :
        /\ \A i \in DOMAIN queue'[k][q] : MessageOK(k, queue[k][q][i])'
        /\ LinkOK(k, q)'
  BY <1>2, <1>3, <1>7, OnePort
<1> QED BY <1>2, <1>6, <1>8, PortStepKeeps

\* The answer arrives: what the peer knows more is merged, and the caller is told.
LEMMA ExchangeSucceedsKeeps ==
  ASSUME ClusterInv, NEW n \in Nodes, NEW p \in Peers(n), ExchangeSucceeds(n, p)
  PROVE  /\ ClusterInv' /\ Later
         /\ \A m \in Nodes \ {n} : \A u \in AllTags : known'[m][u] = known[m][u]
         /\ \A u \in AllTags : \E m \in Nodes : known'[n][u] <= known[m][u]
<1>1. Tables /\ RecordsCaptured /\ LinkOK(n, p) /\ link[n][p].pc = "reply"
  BY DEF ClusterInv, Shapes, ExchangeSucceeds
<1>2. /\ UNCHANGED <<world, rec, queue, ops, covered>>
      /\ Acknowledge(n, p, TRUE, link[n][p].applied) /\ RoundOver(n, p) /\ link' = [link EXCEPT ![n][p] = Idle]
  BY DEF ExchangeSucceeds
<1>3. /\ Reported(link[n][p].learned)
      /\ link[n][p].applied => \A c \in Clients :
           client[c].pc = "await" /\ client[c].id = link[n][p].msg.ack =>
             \A slot \in client[c].before : slot[1] = p => client[c].generation <= At(slot)
  BY <1>1, SMT DEF LinkOK, Idle
<1>4. PICK e : e = link[n][p].learned
  OBVIOUS
<1>5. /\ Later
      /\ \A m \in Nodes \ {n} : \A u \in AllTags : known'[m][u] = known[m][u]
      /\ \A u \in AllTags : \E m \in Nodes : known'[n][u] <= known[m][u]
  <2>1. CASE link[n][p].msg.live
    <3>1. gen' = [gen EXCEPT ![n] = merge_tag_generation(n, e)] /\ Reported(e) /\ UNCHANGED <<world, ops>>
      BY <1>2, <1>3, <1>4, <2>1 DEF ExchangeSucceeds
    <3> QED BY <3>1, MergeStep
  <2>2. CASE ~link[n][p].msg.live
    <3>1. gen' = gen
      BY <2>2 DEF ExchangeSucceeds
    <3>2. Later
      BY <1>1, <1>2, <3>1, NothingGrew, SMT DEF Tables
    <3>3. KnownFacts /\ KnownFacts'
      BY <3>2, KnownIsMax, KnownIsMaxNext DEF Later
    <3>4. \A m \in Nodes : \A u \in AllTags : known'[m][u] = known[m][u] /\ known[m][u] \in Nat
      BY <1>2, <3>1, <3>3, KnownUnless DEF KnownFacts
    <3> QED BY <3>2, <3>4, SMT
  <2> QED BY <2>1, <2>2
<1>6. ASSUME link[n][p].applied, NEW c \in Clients, client[c].pc = "await", client[c].id = link[n][p].msg.ack,
             NEW slot \in client[c].before, slot[1] = p
      PROVE  client[c].generation <= gen'[slot[1]][slot[2]][slot[3]]
  <2>1. client[c].generation <= At(slot)
    BY <1>3, <1>6
  <2>2. DeleterOK(c) /\ AwaiterOK(c)
    BY DEF ClusterInv
  <2>3. slot \in Slots /\ Stored(slot) # None /\ client[c].generation \in Nat
    BY <1>6, <2>2 DEF DeleterOK, AwaiterOK
  <2>4. At(slot) \in Nat
    BY <1>1, <2>3, SMT DEF Tables, RecordsCaptured, Stored, At, Gens, Slots
  <2>5. gen'[slot[1]][slot[2]][slot[3]] \in Nat /\ At(slot) <= gen'[slot[1]][slot[2]][slot[3]]
    BY <1>5, <2>3, <2>4, SlotGrows, ClusterAssumption DEF Gens
  <2> QED BY <2>1, <2>3, <2>4, <2>5, SMT
<1>7. PICK applied \in BOOLEAN : applied <=> link[n][p].applied
  OBVIOUS
<1>8. Acknowledge(n, p, TRUE, applied)
  BY <1>2, <1>7 DEF Acknowledge
<1>9. applied => \A c \in Clients :
        client[c].pc = "await" /\ client[c].id = link[n][p].msg.ack =>
          \A slot \in client[c].before : slot[1] = p => client[c].generation <= gen'[slot[1]][slot[2]][slot[3]]
  BY <1>6, <1>7
<1>10. ClusterInv'
  BY <1>2, <1>5, <1>8, <1>9, ExchangeEnds
<1> QED BY <1>5, <1>10

\* A failed exchange: the caller is told, and no peer has merged.
LEMMA ExchangeFailsKeeps ==
  ASSUME ClusterInv, NEW n \in Nodes, NEW p \in Peers(n), ExchangeFails(n, p)
  PROVE  ClusterInv' /\ Later
<1>1. /\ UNCHANGED <<world, gen, rec, queue, ops, covered>>
      /\ Acknowledge(n, p, FALSE, FALSE) /\ RoundOver(n, p) /\ link' = [link EXCEPT ![n][p] = Idle]
  BY DEF ExchangeFails
<1>2. Later
  BY <1>1, NothingGrew, SMT DEF ClusterInv, Shapes, Tables
<1> QED BY <1>1, <1>2, ExchangeEnds

\* One reconnect, and the same message goes again.
LEMMA ExchangeRetriesKeeps ==
  ASSUME ClusterInv, NEW n \in Nodes, NEW p \in Peers(n), ExchangeRetries(n, p)
  PROVE  ClusterInv' /\ Later
<1>1. Tables /\ Ports /\ LinkOK(n, p) /\ link[n][p].pc \in {"send", "reply"}
  BY DEF ClusterInv, Shapes, ExchangeRetries
<1>2. UNCHANGED <<world, gen, rec, client, queue, gossip, ops, covered>>
  BY DEF ExchangeRetries
<1>3. Later
  BY <1>1, <1>2, NothingGrew, SMT DEF Tables
<1>4. PICK msg : msg = link[n][p].msg
  OBVIOUS
<1>5. PICK l : l = [pc |-> "send", msg |-> msg, attempt |-> 1]
  OBVIOUS
<1>6. link' = [link EXCEPT ![n][p] = l]
  BY <1>1, <1>4, <1>5 DEF ExchangeRetries, Ports
<1>7. /\ DOMAIN link' = Nodes /\ \A k \in Nodes : DOMAIN link'[k] = Peers(k)
      /\ link'[n][p] = l
      /\ \A k \in Nodes : \A q \in Peers(k) : <<k, q>> # <<n, p>> => link'[k][q] = link[k][q]
  BY <1>1, <1>6 DEF Ports
<1>8. Ports'
  <2>1. Timers'
    BY <1>1, <1>2 DEF Ports, Timers
  <2> QED BY <1>1, <1>2, <1>7, <2>1, LinkShapes
<1>9. Shapes'
  BY <1>1, <1>2, <1>8 DEF Shapes, Tables
<1>10. \A c \in Clients : SameDelete(c) /\ SameBump(c) /\ SameAwait(c) /\ Carried(c)
  BY <1>2, Undisturbed
<1>11. LinkOK(n, p)'
  <2>1. MessageOK(n, msg)
    BY <1>1, <1>4, SMT DEF LinkOK, Idle
  <2>2. MessageOK(n, msg)'
    BY <1>3, <1>10, <2>1, MessagesStay
  <2>3. link'[n][p].msg = msg /\ link'[n][p].pc = "send" /\ {"pc", "msg", "attempt"} \subseteq DOMAIN link'[n][p]
    BY <1>5, <1>7, SMT
  <2>4. MessageOK(n, link[n][p].msg)'
    BY <2>2, <2>3 DEF MessageOK, Reported
  <2> QED BY <2>3, <2>4 DEF LinkOK
<1>12. \A k \in Nodes : \A q \in Peers(k) :
         /\ \A i \in DOMAIN queue'[k][q] : MessageOK(k, queue[k][q][i])'
         /\ LinkOK(k, q)'
  BY <1>2, <1>3, <1>7, <1>10, <1>11, OnePort
<1> QED BY <1>2, <1>3, <1>9, <1>10, <1>12, PortStepKeeps

\* A finite set of names has a first, a second, and so on up to its last.
LEMMA RankExists ==
  ASSUME NEW S, IsFiniteSet(S), S \subseteq Nat, NEW i \in 1 .. Cardinality(S)
  PROVE  \E t \in S : Cardinality({u \in S : u < t}) = i - 1
<1> DEFINE Fin == FiniteSubsetsOf(S)
           R == StrictSubsetOrdering(S)
           Bad == {A \in Fin : \E j \in 1 .. Cardinality(A) :
                     ~ \E t \in A : Cardinality({u \in A : u < t}) = j - 1}
<1> SUFFICES ASSUME Bad # {} PROVE FALSE
  <2>1. S \in Fin
    BY FS_FiniteSubsetsOfFinite, SMT
  <2>2. CASE S \in Bad
    BY <2>2
  <2>3. CASE S \notin Bad
    <3>1. \A j \in 1 .. Cardinality(S) : \E t \in S : Cardinality({u \in S : u < t}) = j - 1
      <4> HIDE DEF Fin
      <4> QED BY <2>1, <2>3
    <3> QED BY <3>1
  <2> QED BY <2>2, <2>3
<1>1. IsWellFoundedOn(R, Fin)
  BY FS_StrictSubsetOrderingWellFounded
<1>2. PICK A \in Bad : \A B \in Bad : ~(<<B, A>> \in R)
  <2> HIDE DEF R, Fin
  <2> QED BY <1>1, WFMin
<1>3. PICK j \in 1 .. Cardinality(A) : ~ \E t \in A : Cardinality({u \in A : u < t}) = j - 1
  OBVIOUS
<1>4. A \in SUBSET S /\ IsFiniteSet(A) /\ A \subseteq Int /\ A \subseteq Nat /\ A \in Fin
  BY SMT DEF FiniteSubsetsOf
<1>5. A # {}
  BY <1>3, FS_EmptySet, SMT
<1>6. PICK x \in A : \A y \in A : x >= y
  BY <1>4, <1>5, MaxExists
<1>7. PICK B : B = A \ {x}
  OBVIOUS
<1>8. IsFiniteSet(B) /\ Cardinality(A) \in Nat /\ Cardinality(B) = Cardinality(A) - 1
  BY <1>4, <1>7, FS_RemoveElement, FS_CardinalityType
<1>9. B \in Fin /\ B # A /\ B \subseteq A
  BY <1>4, <1>7, <1>8 DEF FiniteSubsetsOf
<1>10. B \notin Bad
  <2>1. <<B, A>> \in R
    BY <1>4, <1>9 DEF StrictSubsetOrdering, FiniteSubsetsOf
  <2> QED BY <1>2, <2>1
<1>11. CASE j = Cardinality(A)
  <2>1. \A u \in A : u < x <=> u # x
    BY <1>4, <1>6, SMT
  <2>2. {u \in A : u < x} = B
    BY <1>7, <2>1
  <2> QED BY <1>3, <1>6, <1>8, <1>11, <2>2
<1>12. CASE j # Cardinality(A)
  <2>1. j \in 1 .. Cardinality(B)
    BY <1>8, <1>12, SMT
  <2>2. PICK t \in B : Cardinality({u \in B : u < t}) = j - 1
    BY <1>9, <1>10, <2>1
  <2>3. {u \in A : u < t} = {u \in B : u < t}
    BY <1>4, <1>6, <1>7, SMT
  <2> QED BY <1>3, <1>9, <2>2, <2>3
<1> QED BY <1>11, <1>12

\* The digest of a round, whole or a window of it, is part of the node's table.
LEMMA DigestIsReported ==
  ASSUME ClusterInv, NEW n \in Nodes, NEW round \in Nat
  PROVE  /\ Reported(build_digest(n, round).entries)
         /\ build_digest(n, round).full \in BOOLEAN
<1>1. Tables /\ GenTyped
  BY DEF ClusterInv, Shapes, Tables, GenTyped
<1>2. PICK all : all = tag_generations(n)
  OBVIOUS
<1>3. Reported(all)
  BY <1>1, <1>2, OwnTableIsReported
<1>4. PICK S : S = DOMAIN all
  OBVIOUS
<1>5. S \subseteq Nat /\ IsFiniteSet(S)
  <2>1. S \subseteq world.tags
    BY <1>3, <1>4 DEF Reported, Offers
  <2>2. world.tags \subseteq Nat /\ IsFiniteSet(world.tags)
    BY <1>1, ClusterAssumption DEF Tables
  <2> QED BY <2>1, <2>2, FS_Subset
<1>6. Cardinality(S) \in Nat
  BY <1>5, FS_CardinalityType
<1>7. PICK names : names = Sorted(S)
  OBVIOUS
<1>8. names \in [1 .. Cardinality(S) -> S]
  <2>1. ASSUME NEW i \in 1 .. Cardinality(S)
        PROVE  (CHOOSE t \in S : Cardinality({u \in S : u < t}) = i - 1) \in S
    BY <1>5, RankExists
  <2> QED BY <1>7, <2>1 DEF Sorted
<1>9. Len(names) = Cardinality(S)
  BY <1>6, <1>8, SMT
<1>10. PICK size \in Nat, window \in Nat \ {0} : size = Cardinality(S) /\ window = world.window
  BY <1>1, <1>6, ClusterAssumption DEF Tables
<1>11. CASE size <= window
  <2>1. build_digest(n, round) = [full |-> TRUE, entries |-> all]
    BY <1>2, <1>4, <1>7, <1>9, <1>10, <1>11 DEF build_digest
  <2> QED BY <1>3, <2>1, SMT
<1>12. CASE ~(size <= window)
  <2>1. PICK start : start = (round * window) % size
    OBVIOUS
  <2>2. PICK kept : kept = {Sorted(DOMAIN tag_generations(n))[
          1 + ((((round * world.window) % Len(Sorted(DOMAIN tag_generations(n)))) + i)
               % Len(Sorted(DOMAIN tag_generations(n))))] : i \in 0 .. world.window - 1}
    OBVIOUS
  <2>3. build_digest(n, round) = [full |-> FALSE, entries |-> [t \in kept |-> all[t]]]
    <3>1. ~(Len(Sorted(DOMAIN tag_generations(n))) <= world.window)
      BY <1>2, <1>4, <1>7, <1>9, <1>10, <1>12
    <3> QED BY <1>2, <2>2, <3>1 DEF build_digest
  <2>4. start \in Nat
    <3>1. round * window \in Nat /\ size \in Nat \ {0}
      BY <1>12, SMT
    <3> QED BY <2>1, <3>1, SMT
  <2>5. ASSUME NEW i \in 0 .. window - 1 PROVE names[1 + ((start + i) % size)] \in S
    <3>1. start + i \in Nat /\ size \in Nat \ {0}
      BY <1>12, <2>4, SMT
    <3>2. PICK k \in Nat : k = (start + i) % size /\ k < size
      BY <3>1, SMT
    <3>3. 1 + k \in 1 .. Cardinality(S)
      BY <1>10, <3>2, SMT
    <3> QED BY <1>8, <3>2, <3>3
  <2>6. kept \in SUBSET DOMAIN all
    <3>1. ASSUME NEW x \in kept PROVE x \in S
      <4>1. PICK i \in 0 .. world.window - 1 : x = Sorted(DOMAIN tag_generations(n))[
              1 + ((((round * world.window) % Len(Sorted(DOMAIN tag_generations(n)))) + i)
                   % Len(Sorted(DOMAIN tag_generations(n))))]
        BY <2>2
      <4>2. Sorted(DOMAIN tag_generations(n)) = names
        BY <1>2, <1>4, <1>7
      <4>3. x = names[1 + ((start + i) % size)] /\ i \in 0 .. window - 1
        BY <1>9, <1>10, <2>1, <4>1, <4>2
      <4> QED BY <2>5, <4>3
    <3> QED BY <1>4, <3>1
  <2>7. Reported([t \in kept |-> all[t]])
    BY <1>3, <2>6, ReportedPart
  <2> QED BY <2>3, <2>7, SMT
<1> QED BY <1>11, <1>12

\* A round hands its digest to the peer's task.
LEMMA GossipRoundKeeps ==
  ASSUME ClusterInv, NEW n \in Nodes, NEW p \in Peers(n), GossipRound(n, p)
  PROVE  ClusterInv' /\ Later
<1>1. Tables /\ Ports /\ gossip[n][p] \in [pc : {"due", "waiting"}, round : Nat]
  BY DEF ClusterInv, Shapes, Ports
<1>2. UNCHANGED <<world, gen, rec, client, link, ops, covered>>
  BY DEF GossipRound
<1>3. Later
  BY <1>1, <1>2, NothingGrew, SMT DEF Tables
<1>4. PICK round \in Nat : round = gossip[n][p].round
  BY <1>1
<1>5. PICK e, full : e = build_digest(n, round).entries /\ full = build_digest(n, round).full
  OBVIOUS
<1>6. PICK msg : msg = [kind |-> "gossip", entries |-> e, full |-> full, ack |-> 0, live |-> TRUE]
  OBVIOUS
<1>7. queue' = [queue EXCEPT ![n][p] = Append(@, msg)]
  BY <1>4, <1>5, <1>6 DEF GossipRound
<1>8. /\ DOMAIN queue' = Nodes /\ \A k \in Nodes : DOMAIN queue'[k] = Peers(k)
      /\ queue'[n][p] = Append(queue[n][p], msg)
      /\ \A k \in Nodes : \A q \in Peers(k) : <<k, q>> # <<n, p>> => queue'[k][q] = queue[k][q]
  BY <1>1, <1>7 DEF Ports
<1>9. \A c \in Clients : SameDelete(c) /\ SameBump(c) /\ SameAwait(c) /\ Carried(c)
  BY <1>2, Undisturbed
<1>10. MessageOK(n, msg)'
  <2>1. Reported(e) /\ full \in BOOLEAN /\ e \in Offers
    BY <1>5, DigestIsReported DEF Reported
  <2>2. msg \in Sent /\ msg.entries = e /\ msg.ack = 0
    BY <1>6, <2>1 DEF Sent
  <2>3. \A c \in Clients : client[c].pc \in Deleting => client[c].id # 0
    BY SMT DEF ClusterInv, DeleterOK, Deleting
  <2>4. MessageOK(n, msg)
    BY <1>1, <2>1, <2>2, <2>3, SMT DEF MessageOK, Deleting, Tables
  <2> QED BY <1>3, <1>9, <2>4, MessagesStay
<1>11. ASSUME NEW k \in Nodes, NEW q \in Peers(k)
       PROVE  /\ \A i \in DOMAIN queue'[k][q] : MessageOK(k, queue[k][q][i])'
              /\ queue'[k][q] \in Seq(Sent)
  <2>1. CASE <<k, q>> # <<n, p>>
    <3>1. queue'[k][q] = queue[k][q] /\ queue[k][q] \in Seq(Sent)
      BY <1>1, <1>8, <2>1 DEF Ports
    <3> QED BY <1>3, <1>9, <3>1, QueuesStay
  <2>2. CASE <<k, q>> = <<n, p>>
    <3>1. /\ \A i \in DOMAIN queue'[n][p] : MessageOK(n, queue[n][p][i])'
          /\ queue'[n][p] \in Seq(Sent)
      BY <1>3, <1>8, <1>9, <1>10, QueueTakes
    <3> QED BY <2>2, <3>1
  <2> QED BY <2>1, <2>2
<1>12. Timers'
  <2>1. PICK g : g = [pc |-> "waiting", round |-> round]
    OBVIOUS
  <2>2. g \in [pc : {"due", "waiting"}, round : Nat]
    BY <2>1
  <2>3. [gossip[n][p] EXCEPT !.pc = "waiting"] = g
    BY <1>1, <1>4, <2>1, SMT
  <2>4. gossip' = [gossip EXCEPT ![n][p] = g]
    BY <1>1, <2>3 DEF GossipRound, Ports
  <2> QED BY <1>1, <2>2, <2>4, TimerSet
<1>13. Shapes'
  <2>1. Sent' = Sent
    BY <1>2 DEF Sent, Offers
  <2>2. Ports'
    BY <1>1, <1>2, <1>8, <1>11, <1>12, <2>1 DEF Ports, Timers
  <2> QED BY <1>1, <1>2, <2>2 DEF Shapes, Tables
<1>14. \A k \in Nodes : \A q \in Peers(k) : LinkOK(k, q)'
  BY <1>2, <1>3, <1>9, LinksStay
<1> QED BY <1>2, <1>3, <1>9, <1>11, <1>13, <1>14, PortStepKeeps

\* A node that stops and starts again.
LEMMA RestartKeeps ==
  ASSUME ClusterInv, NEW n \in Nodes, Restart(n)
  PROVE  ClusterInv' /\ Later
<1>1. Tables /\ Ports
  BY DEF ClusterInv, Shapes
<1>2. UNCHANGED <<world, gen, rec, ops, covered>>
  BY DEF Restart
<1>3. Later
  BY <1>1, <1>2, NothingGrew, SMT DEF Tables
<1>4. /\ DOMAIN client' = Clients
      /\ \A c \in Clients : client'[c] = Idle \/ client'[c] = client[c]
  BY DEF Restart
<1>5. /\ \A c \in Clients : client'[c].pc = client[c].pc \/ client'[c].pc = "idle"
      /\ \A c \in Clients : client'[c].pc \in Deleting => client'[c] = client[c]
      /\ \A c \in Clients : client'[c].pc \in Writing => client'[c] = client[c]
  BY <1>4, SMT DEF Idle, Writing, Deleting
<1>6. \A c \in Clients : SameDelete(c) /\ SameBump(c) /\ SameAwait(c) /\ Carried(c)
  BY <1>2, <1>5, Undisturbed
<1>7. /\ DOMAIN queue' = Nodes /\ DOMAIN link' = Nodes /\ DOMAIN gossip' = Nodes
      /\ queue'[n] = [p \in Peers(n) |-> <<>>] /\ link'[n] = [p \in Peers(n) |-> Idle]
      /\ gossip'[n] = [p \in Peers(n) |-> [pc |-> "due", round |-> 0]]
      /\ \A k \in Nodes \ {n} : queue'[k] = queue[k] /\ link'[k] = link[k] /\ gossip'[k] = gossip[k]
  BY <1>1 DEF Restart, Ports
<1>8. Ports'
  <2>1. Sent' = Sent
    BY <1>2 DEF Sent, Offers
  <2>2. ASSUME NEW k \in Nodes
        PROVE  /\ DOMAIN queue'[k] = Peers(k) /\ DOMAIN link'[k] = Peers(k) /\ DOMAIN gossip'[k] = Peers(k)
               /\ \A p \in Peers(k) :
                    /\ queue'[k][p] \in Seq(Sent)
                    /\ gossip'[k][p] \in [pc : {"due", "waiting"}, round : Nat]
    <3>1. CASE k = n
      <4>1. \A p \in Peers(n) : queue'[n][p] = <<>> /\ gossip'[n][p] = [pc |-> "due", round |-> 0]
        BY <1>7
      <4>2. <<>> \in Seq(Sent) /\ [pc |-> "due", round |-> 0] \in [pc : {"due", "waiting"}, round : Nat]
        BY SMT
      <4>3. DOMAIN queue'[n] = Peers(n) /\ DOMAIN link'[n] = Peers(n) /\ DOMAIN gossip'[n] = Peers(n)
        BY <1>7
      <4> QED BY <3>1, <4>1, <4>2, <4>3
    <3>2. CASE k # n
      BY <1>1, <1>7, <3>2 DEF Ports
    <3> QED BY <3>1, <3>2
  <2> QED BY <1>7, <2>1, <2>2 DEF Ports
<1>9. Shapes'
  BY <1>1, <1>2, <1>4, <1>8 DEF Shapes, Tables
<1>10. ASSUME NEW k \in Nodes, NEW q \in Peers(k)
       PROVE  /\ \A i \in DOMAIN queue'[k][q] : MessageOK(k, queue[k][q][i])'
              /\ LinkOK(k, q)'
  <2>1. CASE k = n
    <3>1. queue'[k][q] = <<>> /\ link'[k][q] = Idle
      BY <1>7, <2>1
    <3>2. DOMAIN queue'[k][q] = {}
      BY <3>1, SMT
    <3> QED BY <3>1, <3>2 DEF LinkOK, Idle
  <2>2. CASE k # n
    BY <1>3, <1>6, <1>7, <2>2, QueuesStay, LinksStay
  <2> QED BY <2>1, <2>2
<1> QED BY <1>2, <1>3, <1>5, <1>6, <1>9, <1>10, PortStepKeeps

\* A round given up leaves its message as sound as it was.
LEMMA AbandonedIsSound ==
  ASSUME NEW n, NEW m, MessageOK(n, m)
  PROVE  MessageOK(n, Abandon(m))
<1>1. m \in Sent
  BY DEF MessageOK
<1>2. PICK a : a = Abandon(m)
  OBVIOUS
<1>3. a \in Sent /\ a.entries = m.entries /\ a.ack = m.ack
  BY <1>1, <1>2 DEF Abandon, Sent
<1>4. MessageOK(n, a)
  BY <1>3 DEF MessageOK
<1> QED BY <1>2, <1>4

\* The timer gives up on a round.
LEMMA GossipTimeoutKeeps ==
  ASSUME ClusterInv, NEW n \in Nodes, NEW p \in Peers(n), GossipTimeout(n, p)
  PROVE  ClusterInv' /\ Later
<1>1. Tables /\ Ports /\ LinkOK(n, p) /\ queue[n][p] \in Seq(Sent)
  BY DEF ClusterInv, Shapes, Ports
<1>2. UNCHANGED <<world, gen, rec, client, ops, covered>>
  BY DEF GossipTimeout
<1>3. Later
  BY <1>1, <1>2, NothingGrew, SMT DEF Tables
<1>4. PICK given : given = [i \in DOMAIN queue[n][p] |-> Abandon(queue[n][p][i])]
  OBVIOUS
<1>5. /\ DOMAIN queue' = Nodes /\ \A k \in Nodes : DOMAIN queue'[k] = Peers(k)
      /\ queue'[n][p] = given
      /\ \A k \in Nodes : \A q \in Peers(k) : <<k, q>> # <<n, p>> => queue'[k][q] = queue[k][q]
  <2>1. queue' = [queue EXCEPT ![n][p] = given]
    BY <1>1, <1>4 DEF GossipTimeout, Ports
  <2> QED BY <1>1, <2>1 DEF Ports
<1>6. \A i \in DOMAIN queue[n][p] : MessageOK(n, Abandon(queue[n][p][i]))
  BY AbandonedIsSound DEF ClusterInv
<1>7. given \in Seq(Sent)
  <2>1. \A i \in DOMAIN queue[n][p] : Abandon(queue[n][p][i]) \in Sent
    BY <1>6 DEF MessageOK
  <2>2. DOMAIN queue[n][p] = 1 .. Len(queue[n][p]) /\ Len(queue[n][p]) \in Nat
    BY <1>1, SMT
  <2>3. given \in [1 .. Len(queue[n][p]) -> Sent]
    BY <1>4, <2>1, <2>2
  <2> QED BY <2>2, <2>3, SMT
<1>8. \A c \in Clients : SameDelete(c) /\ SameBump(c) /\ SameAwait(c) /\ Carried(c)
  BY <1>2, Undisturbed
<1>9. ASSUME NEW k \in Nodes, NEW q \in Peers(k)
      PROVE  /\ \A i \in DOMAIN queue'[k][q] : MessageOK(k, queue[k][q][i])'
             /\ queue'[k][q] \in Seq(Sent)
  <2>1. CASE <<k, q>> # <<n, p>>
    <3>1. queue'[k][q] = queue[k][q] /\ queue[k][q] \in Seq(Sent)
      BY <1>1, <1>5, <2>1 DEF Ports
    <3> QED BY <1>3, <1>8, <3>1, QueuesStay
  <2>2. CASE <<k, q>> = <<n, p>>
    <3>1. ASSUME NEW i \in DOMAIN queue'[n][p] PROVE MessageOK(n, queue[n][p][i])'
      <4>1. PICK a : a = queue'[n][p][i]
        OBVIOUS
      <4>2. i \in DOMAIN queue[n][p] /\ a = Abandon(queue[n][p][i])
        BY <1>4, <1>5, <3>1, <4>1, SMT
      <4>3. MessageOK(n, a)
        BY <1>6, <4>2
      <4>4. MessageOK(n, a)'
        BY <1>3, <1>8, <4>3, MessagesStay
      <4> QED BY <4>1, <4>4 DEF MessageOK, Reported
    <3> QED BY <1>5, <1>7, <2>2, <3>1
  <2> QED BY <2>1, <2>2
<1>10. Timers'
  <2>1. PICK g : g = [pc |-> "due", round |-> NextRound(gossip[n][p].round)]
    OBVIOUS
  <2>2. gossip' = [gossip EXCEPT ![n][p] = g]
    BY <1>1, <2>1 DEF GossipTimeout, Ports
  <2>3. gossip[n][p].round \in Nat
    BY <1>1 DEF Ports
  <2>4. g \in [pc : {"due", "waiting"}, round : Nat]
    BY <1>1, <2>1, <2>3, RoundsOn
  <2> QED BY <1>1, <2>2, <2>4, TimerSet
<1>11. PICK l : l = IF link[n][p] = Idle THEN Idle ELSE [link[n][p] EXCEPT !.msg = Abandon(link[n][p].msg)]
  OBVIOUS
<1>12. /\ DOMAIN link' = Nodes /\ \A k \in Nodes : DOMAIN link'[k] = Peers(k)
       /\ link'[n][p] = l
       /\ \A k \in Nodes : \A q \in Peers(k) : <<k, q>> # <<n, p>> => link'[k][q] = link[k][q]
  <2>1. CASE link[n][p] = Idle
    BY <1>1, <1>11, <2>1 DEF GossipTimeout, Ports
  <2>2. CASE link[n][p] # Idle
    <3>1. link' = [link EXCEPT ![n][p] = l]
      BY <1>1, <1>11, <2>2 DEF GossipTimeout, Ports
    <3> QED BY <1>1, <3>1 DEF Ports
  <2> QED BY <2>1, <2>2
<1>13. Shapes'
  <2>1. Sent' = Sent
    BY <1>2 DEF Sent, Offers
  <2>2. Ports'
    BY <1>5, <1>9, <1>10, <1>12, <2>1 DEF Ports, Timers
  <2> QED BY <1>1, <1>2, <2>2 DEF Shapes, Tables
<1>14. LinkOK(n, p)'
  <2>1. CASE link[n][p] = Idle
    BY <1>11, <1>12, <2>1 DEF LinkOK, Idle
  <2>2. CASE link[n][p] # Idle
    <3>1. PICK old, a : old = link[n][p] /\ a = Abandon(old.msg)
      OBVIOUS
    <3>2. l = [old EXCEPT !.msg = a] /\ {"pc", "msg", "attempt"} \subseteq DOMAIN old /\ old.pc \in {"send", "reply"}
      BY <1>1, <1>11, <2>2, <3>1 DEF LinkOK
    <3>3. DOMAIN l = DOMAIN old /\ l.pc = old.pc /\ l.msg = a
          /\ \A f \in DOMAIN old \ {"msg"} : l[f] = old[f]
      BY <3>2
    <3>4. MessageOK(n, old.msg) /\ MessageOK(n, a) /\ a.ack = old.msg.ack
      <4>1. MessageOK(n, old.msg)
        BY <1>1, <2>2, <3>1 DEF LinkOK
      <4>2. MessageOK(n, a)
        BY <3>1, <4>1, AbandonedIsSound
      <4>3. a.ack = old.msg.ack
        BY <3>1, <4>1 DEF Abandon, MessageOK, Sent
      <4> QED BY <4>1, <4>2, <4>3
    <3>5. MessageOK(n, a)'
      BY <1>3, <1>8, <3>4, MessagesStay
    <3>6. MessageOK(n, link[n][p].msg)'
      BY <1>12, <3>3, <3>5 DEF MessageOK, Reported
    <3>7. CASE old.pc = "send"
      BY <1>12, <3>2, <3>3, <3>6, <3>7 DEF LinkOK
    <3>8. CASE old.pc = "reply"
      <4>1. /\ {"learned", "applied"} \subseteq DOMAIN old /\ Reported(old.learned)
            /\ old.applied => \A c \in Clients :
                 client[c].pc = "await" /\ client[c].id = old.msg.ack =>
                   \A slot \in client[c].before : slot[1] = p => client[c].generation <= At(slot)
        BY <1>1, <2>2, <3>1, <3>8 DEF LinkOK
      <4>2. l.learned = old.learned /\ l.applied = old.applied
        BY <3>3, <4>1
      <4>3. PICK e : e = old.learned
        OBVIOUS
      <4>4. e \in Offers' /\ \A t \in DOMAIN e : \E m \in Nodes : e[t] <= known'[m][t]
        BY <1>3, <4>1, <4>3, ReportedStays
      <4>5. link'[n][p].learned = e
        BY <1>12, <4>2, <4>3
      <4>6. Reported(link[n][p].learned)'
        BY <4>4, <4>5 DEF Reported
      <4>7. \A slot : At(slot)' = At(slot)
        BY <1>2 DEF At
      <4>8. link'[n][p].pc = "reply" /\ {"pc", "msg", "attempt", "learned", "applied"} \subseteq DOMAIN link'[n][p]
            /\ link'[n][p].applied = old.applied /\ link'[n][p].msg.ack = old.msg.ack
        BY <1>12, <3>2, <3>3, <3>4, <3>8, <4>1, <4>2
      <4>9. link'[n][p].applied => \A c \in Clients :
              client'[c].pc = "await" /\ client'[c].id = link'[n][p].msg.ack =>
                \A slot \in client'[c].before : slot[1] = p => client'[c].generation <= At(slot)'
        BY <1>2, <4>1, <4>7, <4>8
      <4> QED BY <3>6, <4>6, <4>8, <4>9 DEF LinkOK
    <3> QED BY <3>2, <3>7, <3>8
  <2> QED BY <2>1, <2>2
<1>15. ASSUME NEW k \in Nodes, NEW q \in Peers(k) PROVE LinkOK(k, q)'
  <2>1. CASE <<k, q>> # <<n, p>>
    BY <1>3, <1>8, <1>12, <2>1, LinksStay
  <2>2. CASE <<k, q>> = <<n, p>>
    BY <1>14, <2>2
  <2> QED BY <2>1, <2>2
<1> QED BY <1>2, <1>3, <1>8, <1>9, <1>13, <1>15, PortStepKeeps

----------------------------------------------------------------------------
\* At the start no tag has been invalidated, and nothing is under way.
LEMMA InitKeeps ==
  ASSUME Init
  PROVE  ClusterInv /\ Registry!Init
<1>1. /\ world \in Worlds /\ rec = gen /\ ops = 0 /\ covered = {}
      /\ gen = [n \in Nodes |-> [s \in world.shards |-> [t \in world.tags |->
           IF <<n, s, t>> \in world.stored THEN 0 ELSE None]]]
      /\ client = [c \in Clients |-> Idle]
      /\ queue = [n \in Nodes |-> [p \in Peers(n) |-> <<>>]]
      /\ link = [n \in Nodes |-> [p \in Peers(n) |-> Idle]]
      /\ gossip = [n \in Nodes |-> [p \in Peers(n) |-> [pc |-> "due", round |-> 0]]]
  BY DEF Init
<1>2. gen \in [Nodes -> [world.shards -> [world.tags -> Gens]]]
  BY <1>1 DEF Gens
<1>3. \A n \in Nodes : \A s \in world.shards : \A t \in world.tags : gen[n][s][t] \in {0, None}
  BY <1>1
<1>4. Tables
  BY <1>1, <1>2 DEF Tables
<1>5. Ports
  <2>1. <<>> \in Seq(Sent) /\ [pc |-> "due", round |-> 0] \in [pc : {"due", "waiting"}, round : Nat]
    BY SMT
  <2> QED BY <1>1, <2>1 DEF Ports
<1>6. RecordsCaptured
  BY <1>1, <1>3, SMT DEF RecordsCaptured
<1>7. \A c \in Clients : client[c].pc = "idle"
  BY <1>1 DEF Idle
<1>8. \A c \in Clients : WriterOK(c) /\ DeleterOK(c) /\ BumperOK(c) /\ AwaiterOK(c)
  BY <1>7 DEF WriterOK, DeleterOK, BumperOK, AwaiterOK
<1>9. \A n \in Nodes : \A p \in Peers(n) : DOMAIN queue[n][p] = {} /\ link[n][p] = Idle
  BY <1>1, SMT
<1>10. ClusterInv
  BY <1>1, <1>4, <1>5, <1>6, <1>7, <1>8, <1>9 DEF ClusterInv, Shapes, LinkOK
<1>11. KnownFacts
  BY <1>1, <1>2, KnownIsMax DEF GenTyped
<1>12. \A n \in Nodes : \A t \in AllTags : known[n][t] = 0
  BY <1>3, <1>11, ClusterAssumption, SMT DEF KnownFacts
<1>13. known = [n \in Nodes |-> [t \in AllTags |-> known[n][t]]]
  BY DEF known, AllTags
<1>14. Registry!Init
  BY <1>12, <1>13 DEF Registry!Init, AllTags
<1> QED BY <1>10, <1>14

\* What nodes report stays when no registry changes.
LEMMA KnownUnchanged ==
  ASSUME UNCHANGED <<world, gen>>
  PROVE  known' = known
BY SMT DEF known, node_generation, Holders

\* A merge into one node is one adoption.
LEMMA AdoptStep ==
  ASSUME Later, NEW n \in Nodes,
         \A m \in Nodes \ {n} : \A u \in AllTags : known'[m][u] = known[m][u],
         \A u \in AllTags : \E m \in Nodes : known'[n][u] <= known[m][u]
  PROVE  Registry!Next
<1>1. /\ known = [m \in Nodes |-> [u \in AllTags |-> known[m][u]]]
      /\ known' = [m \in Nodes |-> [u \in AllTags |-> known'[m][u]]]
  BY DEF known, AllTags
<1>2. \A m \in Nodes : \A u \in AllTags :
        known[m][u] \in Nat /\ known'[m][u] \in Nat /\ known[m][u] <= known'[m][u]
  BY KnownGrows
<1>3. known' \in [Nodes -> [AllTags -> Nat]]
  BY <1>1, <1>2
<1>4. \A m \in Nodes \ {n} : known'[m] = known[m]
  <2>1. \A m \in Nodes : /\ known[m] = [u \in AllTags |-> known[m][u]]
                         /\ known'[m] = [u \in AllTags |-> known'[m][u]]
    BY <1>1
  <2> QED BY <2>1
<1>5. \A u \in AllTags : known'[n][u] >= known[n][u]
  BY <1>2
<1>6. Registry!Adopt(n)
  BY <1>3, <1>4, <1>5 DEF Registry!Adopt, AllTags
<1> QED BY <1>6 DEF Registry!Next

\* Every step keeps the invariant, and is a step of MaxMerge or changes nothing
\* it can see.
LEMMA NextKeeps ==
  ASSUME ClusterInv, Next
  PROVE  ClusterInv' /\ (Registry!Next \/ known' = known)
<1>1. ASSUME NEW c \in Clients, ClientStep(c)
      PROVE  ClusterInv' /\ (Registry!Next \/ known' = known)
  <2>1. ASSUME NEW n \in Nodes, NEW s \in world.shards, NEW t \in world.tags, StartWrite(c, n, s, t)
        PROVE  ClusterInv' /\ known' = known
    <3>1. UNCHANGED <<world, gen>>
      BY <2>1 DEF StartWrite
    <3> QED BY <2>1, <3>1, StartWriteKeeps, KnownUnchanged
  <2>2. ASSUME NEW n \in Nodes, NEW t \in world.tags, StartDelete(c, n, t)
        PROVE  ClusterInv' /\ known' = known
    <3>1. UNCHANGED <<world, gen>>
      BY <2>2 DEF StartDelete
    <3> QED BY <2>2, <3>1, StartDeleteKeeps, KnownUnchanged
  <2>3. CASE RegisterTag(c)
    BY <2>3, RegisterTagKeeps, KnownSame
  <2>4. CASE StampWrite(c)
    <3>1. UNCHANGED <<world, gen>>
      BY <2>4 DEF StampWrite
    <3> QED BY <2>4, <3>1, StampWriteKeeps, KnownUnchanged
  <2>5. CASE CommitWrite(c)
    <3>1. UNCHANGED <<world, gen>>
      BY <2>5 DEF CommitWrite
    <3> QED BY <2>5, <3>1, CommitWriteKeeps, KnownUnchanged
  <2>6. CASE BumpShard(c)
    <3>1. /\ ClusterInv'
          /\ known' = known \/ \E n \in Nodes : \E t \in AllTags : known' = [known EXCEPT ![n][t] = @ + 1]
      BY <2>6, BumpShardKeeps
    <3>2. CASE \E n \in Nodes : \E t \in AllTags : known' = [known EXCEPT ![n][t] = @ + 1]
      <4>1. PICK n \in Nodes, t \in AllTags : known' = [known EXCEPT ![n][t] = @ + 1]
        BY <3>2
      <4>2. Registry!Bump(n, t)
        BY <4>1 DEF Registry!Bump
      <4> QED BY <3>1, <4>2 DEF Registry!Next, AllTags
    <3> QED BY <3>1, <3>2
  <2>7. CASE DeleteNotFound(c)
    <3>1. UNCHANGED <<world, gen>>
      BY <2>7 DEF DeleteNotFound
    <3> QED BY <2>7, <3>1, DeleteNotFoundKeeps, KnownUnchanged
  <2>8. CASE LevelAndForward(c)
    BY <2>8, LevelAndForwardKeeps, KnownSame
  <2>9. CASE AwaitEnds(c)
    <3>1. UNCHANGED <<world, gen>>
      BY <2>9 DEF AwaitEnds
    <3> QED BY <2>9, <3>1, AwaitEndsKeeps, KnownUnchanged
  <2> QED BY <1>1, <2>1, <2>2, <2>3, <2>4, <2>5, <2>6, <2>7, <2>8, <2>9 DEF ClientStep, Working
<1>2. ASSUME NEW n \in Nodes, NEW p \in Peers(n), Delivery(n, p) \/ GossipRound(n, p) \/ Fault(n, p)
      PROVE  ClusterInv' /\ (Registry!Next \/ known' = known)
  <2>1. CASE TakeMessage(n, p)
    <3>1. UNCHANGED <<world, gen>>
      BY <2>1 DEF TakeMessage
    <3> QED BY <2>1, <3>1, TakeMessageKeeps, KnownUnchanged
  <2>2. CASE TagSync(n, p)
    <3>1. p \in Nodes
      BY DEF Peers
    <3>2. /\ ClusterInv' /\ Later
          /\ \A m \in Nodes \ {p} : \A u \in AllTags : known'[m][u] = known[m][u]
          /\ \A u \in AllTags : \E m \in Nodes : known'[p][u] <= known[m][u]
      BY <2>2, TagSyncKeeps
    <3> QED BY <3>1, <3>2, AdoptStep
  <2>3. CASE ExchangeSucceeds(n, p)
    <3>1. /\ ClusterInv' /\ Later
          /\ \A m \in Nodes \ {n} : \A u \in AllTags : known'[m][u] = known[m][u]
          /\ \A u \in AllTags : \E m \in Nodes : known'[n][u] <= known[m][u]
      BY <2>3, ExchangeSucceedsKeeps
    <3> QED BY <3>1, AdoptStep
  <2>4. CASE GossipRound(n, p)
    <3>1. UNCHANGED <<world, gen>>
      BY <2>4 DEF GossipRound
    <3> QED BY <2>4, <3>1, GossipRoundKeeps, KnownUnchanged
  <2>5. CASE ExchangeRetries(n, p)
    <3>1. UNCHANGED <<world, gen>>
      BY <2>5 DEF ExchangeRetries
    <3> QED BY <2>5, <3>1, ExchangeRetriesKeeps, KnownUnchanged
  <2>6. CASE ExchangeFails(n, p)
    <3>1. UNCHANGED <<world, gen>>
      BY <2>6 DEF ExchangeFails
    <3> QED BY <2>6, <3>1, ExchangeFailsKeeps, KnownUnchanged
  <2>7. CASE GossipTimeout(n, p)
    <3>1. UNCHANGED <<world, gen>>
      BY <2>7 DEF GossipTimeout
    <3> QED BY <2>7, <3>1, GossipTimeoutKeeps, KnownUnchanged
  <2> QED BY <1>2, <2>1, <2>2, <2>3, <2>4, <2>5, <2>6, <2>7 DEF Delivery, Fault
<1>3. ASSUME NEW n \in Nodes, Restart(n)
      PROVE  ClusterInv' /\ (Registry!Next \/ known' = known)
  <2>1. UNCHANGED <<world, gen>>
    BY <1>3 DEF Restart
  <2> QED BY <1>3, <2>1, RestartKeeps, KnownUnchanged
<1> QED BY <1>1, <1>2, <1>3 DEF Next

\* A stuttering step keeps it too.
LEMMA StutterKeeps ==
  ASSUME ClusterInv, UNCHANGED vars
  PROVE  ClusterInv' /\ known' = known
<1>1. UNCHANGED <<world, gen, rec, client, queue, link, gossip, ops, faults, covered>>
  BY DEF vars
<1>2. Tables /\ Ports
  BY DEF ClusterInv, Shapes
<1>3. Later
  BY <1>1, <1>2, NothingGrew, SMT DEF Tables
<1>4. Shapes'
  BY <1>1, <1>2, PortsStay DEF Shapes, Tables
<1>5. \A c \in Clients : SameDelete(c) /\ SameBump(c) /\ SameAwait(c) /\ Carried(c)
  BY <1>1, Undisturbed
<1>6. \A k \in Nodes : \A q \in Peers(k) :
        /\ \A i \in DOMAIN queue'[k][q] : MessageOK(k, queue[k][q][i])'
        /\ LinkOK(k, q)'
  BY <1>1, <1>3, <1>5, QueuesStay, LinksStay
<1>7. ClusterInv'
  BY <1>1, <1>3, <1>4, <1>5, <1>6, PortStepKeeps
<1> QED BY <1>1, <1>7, KnownUnchanged

\* The inductive invariant holds of every reachable state.
THEOREM ClusterIsSound == Spec => []ClusterInv
<1>1. Init => ClusterInv
  BY InitKeeps
<1>2. ClusterInv /\ [Next]_vars => ClusterInv'
  BY NextKeeps, StutterKeeps
<1> QED BY <1>1, <1>2, PTL DEF Spec

\* Once delete_by_tag has answered, no record stored on the called node before the
\* call is served there again, whatever registrations, merges, other invalidations,
\* failures and restarts run meanwhile.
THEOREM InvalidationIsStrong == Spec => []NodeInvalidationIsStrong
<1>1. ClusterInv => NodeInvalidationIsStrong
  <2> SUFFICES ASSUME ClusterInv, NEW v \in covered, v.at[1] = v.by
      PROVE  ~Alive(v.at)
    BY DEF NodeInvalidationIsStrong
  <2>1. CoveredOK(v) /\ Tables /\ RecordsCaptured
    BY DEF ClusterInv, Shapes
  <2>2. v.at \in Slots /\ Stored(v.at) # None /\ Stored(v.at) < At(v.at)
    BY <2>1 DEF CoveredOK
  <2>3. Stored(v.at) \in Nat /\ At(v.at) \in Nat
    <3>1. PICK n \in Nodes, s \in world.shards, t \in world.tags : v.at = <<n, s, t>>
      BY <2>2, SMT DEF Slots
    <3>2. Stored(v.at) = rec[n][s][t] /\ At(v.at) = gen[n][s][t]
      BY <3>1, SMT DEF Stored, At
    <3>3. rec[n][s][t] \in Gens /\ gen[n][s][t] \in Gens
      BY <2>1, SMT DEF Tables
    <3>4. rec[n][s][t] # None /\ gen[n][s][t] # None
      BY <2>1, <2>2, <3>2 DEF RecordsCaptured
    <3> QED BY <3>2, <3>3, <3>4 DEF Gens
  <2>4. Stored(v.at) # At(v.at)
    BY <2>2, <2>3, SMT
  <2> QED BY <2>4 DEF Alive, Stored, At
<1> QED BY <1>1, ClusterIsSound, PTL

\* Under fanout_sync, a peer that answered and had merged what it was sent serves no
\* record stored before the invalidation with an older generation.  Of a peer whose
\* merge failed, or that was only tried, it says nothing.
THEOREM MergedPeersServeNothingOlder == Spec => []MergedPeerServesNothingOlder
<1>1. ClusterInv => MergedPeerServesNothingOlder
  <2> SUFFICES ASSUME ClusterInv, NEW c \in Clients, client[c].pc = "await", NEW slot \in client[c].before,
                      slot[1] \in client[c].merged, Older(c, slot)
      PROVE  FALSE
    BY DEF MergedPeerServesNothingOlder
  <2>1. DeleterOK(c) /\ AwaiterOK(c) /\ Tables /\ RecordsCaptured
    BY DEF ClusterInv, Shapes
  <2>2. slot \in Slots /\ Stored(slot) # None /\ client[c].generation \in Nat /\ client[c].generation <= At(slot)
    BY <2>1 DEF DeleterOK, AwaiterOK
  <2>3. Stored(slot) \in Nat
    BY <2>1, <2>2, SMT DEF Tables, Stored, Gens, Slots
  <2>4. Stored(slot) = At(slot) /\ Stored(slot) < client[c].generation
    BY DEF Older, Alive, Stored, At
  <2> QED BY <2>2, <2>3, <2>4, SMT
<1> QED BY <1>1, ClusterIsSound, PTL

\* The cluster implements the grow-only counters of MaxMerge: what a node reports
\* for a tag grows by one of its own bumps, or by adopting what some node has.
THEOREM ClusterRefines == Spec => ImplementsMaxMerge
<1>1. Init => Registry!Init
  BY InitKeeps
<1>2. ClusterInv /\ [Next]_vars => [Registry!Next]_known
  BY NextKeeps, StutterKeeps
<1>3. Spec => Registry!Spec
  BY <1>1, <1>2, ClusterIsSound, PTL DEF Spec, Registry!Spec
<1> QED BY <1>3 DEF ImplementsMaxMerge

=============================================================================
