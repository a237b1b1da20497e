------------------------------ MODULE StoreProofs ------------------------------
(***************************************************************************)
(* What the threads of one store share, each component in a part of its    *)
(* own.                                                                    *)
(*                                                                         *)
(* CasAllocator: CAS tokens are unique across the server and increase      *)
(* within a shard, as long as a failed transaction that had raised a       *)
(* watermark is not followed by a restart.                                 *)
(*                                                                         *)
(* Lanes: a private lane has one writer, and so an addition that is a      *)
(* plain load and a plain store loses nothing (metrics.rs LaneGuard).      *)
(*                                                                         *)
(* Residency and Readers: reads run on the workers only over memory the    *)
(* kernel holds as far as the last look reached, and the age a shard       *)
(* reports is that of an open read, none older having a slot of its own.   *)
(***************************************************************************)
EXTENDS CasAllocator, Lanes, Residency, Readers, TLAPS, WellFoundedInduction

USE Zenon

(***************************************************************************)
(* CAS TOKENS AND METRIC LANES                                             *)
(***************************************************************************)

(* CAS tokens (apply.rs next_cas) *)

\* The order of counters is the order of a shard's tokens (apply.rs next_cas,
\* counter * shard_count + shard_index).
LEMMA Scaled ==
  ASSUME NEW c \in Nat, NEW d \in Nat, d < c
  PROVE  d * ShardCount + ShardCount <= c * ShardCount
<1>1. ShardCount \in Nat /\ d + 1 <= c
  BY CasAssumption, SMT
<1>2. (d + 1) * ShardCount <= c * ShardCount
  <2>1. PICK e \in Nat : c = (d + 1) + e
    <3>1. c - (d + 1) \in Nat /\ c = (d + 1) + (c - (d + 1))
      BY <1>1, SMT
    <3> QED BY <3>1
  <2>2. c * ShardCount = (d + 1) * ShardCount + e * ShardCount
    BY <1>1, <2>1, SMT
  <2>3. e * ShardCount \in Nat /\ (d + 1) * ShardCount \in Nat
    BY <1>1, <2>1, SMT
  <2> QED BY <2>2, <2>3, SMT
<1>3. (d + 1) * ShardCount = d * ShardCount + ShardCount
  BY <1>1, SMT
<1> QED BY <1>2, <1>3

\* Striping keeps the tokens of different shards, and of different counters
\* of one shard, apart (apply.rs next_cas).
LEMMA Striping ==
  ASSUME NEW s \in Shards, NEW t \in Shards, NEW c \in Nat, NEW d \in Nat,
         s # t \/ c # d
  PROVE  Token(s, c) # Token(t, d)
<1>1. ShardCount \in Nat /\ s \in Nat /\ t \in Nat /\ s < ShardCount /\ t < ShardCount
  BY CasAssumption, SMT DEF Shards
<1>2. c * ShardCount \in Nat /\ d * ShardCount \in Nat
  BY <1>1, SMT
<1>3. CASE c = d
  BY <1>1, <1>2, <1>3, SMT DEF Token
<1>4. CASE d < c
  <2>1. d * ShardCount + ShardCount <= c * ShardCount
    BY <1>4, Scaled
  <2> QED BY <1>1, <1>2, <2>1, SMT DEF Token
<1>5. CASE c < d
  <2>1. c * ShardCount + ShardCount <= d * ShardCount
    BY <1>5, Scaled
  <2> QED BY <1>1, <1>2, <2>1, SMT DEF Token
<1> QED BY <1>3, <1>4, <1>5, SMT

\* The reservation invariant holds when the store is first opened (env.rs).
LEMMA ReservedInit == Init => Reserved
  BY CasAssumption, SMT DEF Init, Reserved, TypeOK, Shards

\* Every step of the allocator keeps the reservation invariant, when losing a
\* raised watermark and restarting do not both happen (apply.rs next_cas,
\* env.rs open).
LEMMA ReservedStep ==
  ASSUME ~(Restarts /\ "reserving" \in Fails), Reserved, [Next]_vars
  PROVE  Reserved'
<1> USE CasAssumption DEF TypeOK
<1>1. ASSUME NEW s \in Shards, next_cas(s) PROVE Reserved'
  BY <1>1, SMT DEF next_cas, Reserved, Exhausted
<1>2. ASSUME NEW s \in Shards, Commit(s) PROVE Reserved'
  BY <1>2, SMT DEF Commit, Reserved
<1>3. ASSUME NEW s \in Shards, Abort(s) PROVE Reserved'
  BY <1>3 DEF Abort, Drop, Reserved
<1>4. ASSUME NEW s \in Shards, ReserveFails(s) PROVE Reserved'
  BY <1>4, SMT DEF ReserveFails, Drop, Reserved
<1>5. CASE Restart
  BY <1>5 DEF Restart, Reserved
<1>6. CASE UNCHANGED vars
  BY <1>6 DEF vars, Reserved
<1> QED BY <1>1, <1>2, <1>3, <1>4, <1>5, <1>6 DEF Next

\* What the invariant says of the tokens.
LEMMA ReservedImplies == Reserved => TypeOK /\ UniqueTokens /\ IncreasingTokens
<1> SUFFICES ASSUME Reserved PROVE UniqueTokens /\ IncreasingTokens
  BY DEF Reserved
<1>1. UniqueTokens
  <2> SUFFICES ASSUME NEW s \in Shards, NEW t \in Shards, NEW c \in pending[s]
               PROVE  /\ \A d \in handed[t] : Token(s, c) # Token(t, d)
                      /\ s # t => \A d \in pending[t] : Token(s, c) # Token(t, d)
    BY DEF UniqueTokens
  <2>1. c \in Nat /\ handed[t] \subseteq Nat /\ pending[t] \subseteq Nat
    BY DEF Reserved, TypeOK
  <2>2. \A d \in handed[t] : s # t \/ c # d
    BY <2>1, SMT DEF Reserved
  <2> QED BY <2>1, <2>2, Striping
<1>2. IncreasingTokens
  <2> SUFFICES ASSUME NEW s \in Shards, NEW c \in pending[s], NEW d \in handed[s]
               PROVE  Token(s, d) < Token(s, c)
    BY DEF IncreasingTokens
  <2>1. c \in Nat /\ d \in Nat /\ d < c
    BY DEF Reserved, TypeOK
  <2>2. d * ShardCount + ShardCount <= c * ShardCount
    BY <2>1, Scaled
  <2>3. ShardCount \in Nat \ {0} /\ s \in Nat /\ c * ShardCount \in Nat /\ d * ShardCount \in Nat
    BY <2>1, CasAssumption, SMT DEF Shards
  <2> QED BY <2>2, <2>3, SMT DEF Token
<1> QED BY <1>1, <1>2

\* The allocator's state stays well typed, and its reservations sound.
THEOREM ReservationsHold ==
  ASSUME ~(Restarts /\ "reserving" \in Fails)
  PROVE  Spec => []Reserved
<1>1. Reserved /\ [Next]_vars => Reserved'
  BY ReservedStep
<1> QED BY ReservedInit, <1>1, PTL DEF Spec

\* "Every token unique server-wide" (apply.rs next_cas), for every number of
\* shards and every block size.
THEOREM TokensAreUnique ==
  ASSUME ~(Restarts /\ "reserving" \in Fails)
  PROVE  Spec => []UniqueTokens
  BY ReservationsHold, ReservedImplies, PTL

\* "Strictly increasing within a shard" (apply.rs next_cas).
THEOREM TokensIncrease ==
  ASSUME ~(Restarts /\ "reserving" \in Fails)
  PROVE  Spec => []IncreasingTokens
  BY ReservationsHold, ReservedImplies, PTL

-----------------------------------------------------------------------------
(* Lanes (metrics.rs) *)

\* What a thread holds, whatever it has still to count.
IsThread(r) == r = [pc |-> r.pc, lane |-> r.lane, todo |-> r.todo, loaded |-> r.loaded]

\* A thread's lane: private and handed out before, or the shared one.
LaneOK(lane) ==
    \/ lane = FALLBACK
    \/ \E i \in 0..(SHARED_LANE - 1) : i < next_lane /\ lane = Owned(i)

\* The variables have their types.
LaneTyped ==
    /\ next_lane \in Nat
    /\ freed \in Seq(Nat)
    /\ DOMAIN thread = Threads
    /\ \A t \in Threads :
         /\ IsThread(thread[t])
         /\ thread[t].pc \in {"gone", "pin", "ready", "loaded"}
         /\ LaneOK(thread[t].lane)

\* The free list holds private lanes that were handed out, none of them twice.
FreeOK ==
    /\ \A i \in 1..Len(freed) : freed[i] < SHARED_LANE /\ freed[i] < next_lane
    /\ \A i, j \in 1..Len(freed) : freed[i] = freed[j] => i = j

\* Only a running thread owns a lane, and none that is on the free list.
OwnedOK ==
    \A t \in Threads : thread[t].lane.owned =>
        /\ thread[t].pc \in {"ready", "loaded"}
        /\ \A i \in 1..Len(freed) : freed[i] # thread[t].lane.index

\* No two threads own a lane.
UniqueOK ==
    \A t, u \in Threads : thread[t].lane.owned /\ thread[u].lane = thread[t].lane => t = u

\* A thread that has yet to put NEXT_LANE back finds it past the private lanes: putting
\* it back never makes it hand a private lane out again.
PinOK == \A t \in Threads : thread[t].pc = "pin" => next_lane >= SHARED_LANE

\* A count loaded from a lane is still the count there.
LoadIsCurrent ==
    \A t \in Threads : thread[t].pc = "loaded" =>
        /\ thread[t].lane.owned
        /\ thread[t].loaded = cells[thread[t].lane.index][Added(t).counter]

\* The cells are one function of the counters for every lane.
CellsTyped ==
    /\ DOMAIN cells = 0..SHARED_LANE
    /\ \A l \in 0..SHARED_LANE : DOMAIN cells[l] = Counters

\* The inductive invariant.
LaneInv ==
    LaneTyped /\ FreeOK /\ OwnedOK /\ UniqueOK /\ PinOK /\ LoadIsCurrent /\ CellsTyped

\* The private lanes are below the shared one, which nobody owns.
LEMMA LaneFacts ==
  /\ SHARED_LANE \in Nat
  /\ ~FALLBACK.owned
  /\ \A i : Owned(i).owned /\ Owned(i).index = i
BY LaneAssumption, SMT DEF SHARED_LANE, FALLBACK, Owned

\* A lane is its index once it is owned.
LEMMA SameLane ==
  ASSUME NEW a, NEW b, LaneOK(a), LaneOK(b), a.owned, b.owned, a.index = b.index
  PROVE  a = b
BY LaneFacts, SMT DEF LaneOK

\* A thread starts on a lane that another gave back.
LEMMA ClaimFreedKeeps ==
  ASSUME LaneInv, NEW t \in Threads, ClaimFreed(t)
  PROVE  LaneInv'
<1>1. PICK n : n = Len(freed)
  OBVIOUS
<1>2. PICK g : g = freed[n]
  OBVIOUS
<1>3. /\ thread[t].pc = "gone" /\ freed # <<>> /\ freed' = Front(freed)
      /\ thread' = [thread EXCEPT ![t] = [Gone EXCEPT !.pc = "ready", !.lane = Owned(g)]]
      /\ UNCHANGED <<next_lane, cells>>
  BY <1>1, <1>2 DEF ClaimFreed, Becomes, Last
<1>4. n \in Nat /\ n >= 1 /\ freed \in Seq(Nat) /\ n = Len(freed)
  BY <1>1, <1>3, SMT DEF LaneInv, LaneTyped
<1>5. /\ freed' \in Seq(Nat)
      /\ \A i \in 1..Len(freed') : i \in 1..Len(freed) /\ i # n /\ freed'[i] = freed[i]
  <2>1. freed' \in Seq(Nat) /\ Len(freed') = n - 1 /\ \A i \in 1..(n - 1) : freed'[i] = freed[i]
    BY <1>3, <1>4, SMT DEF Front
  <2>2. \A i \in 1..(n - 1) : i \in 1..n /\ i # n
    BY <1>4, SMT
  <2> QED BY <1>4, <2>1, <2>2
<1>6. g \in Nat /\ g < SHARED_LANE /\ g < next_lane /\ \A i \in 1..Len(freed') : freed[i] # g
  BY <1>2, <1>4, <1>5, SMT DEF LaneInv, FreeOK
<1>7. /\ IsThread(thread'[t]) /\ thread'[t].pc = "ready" /\ thread'[t].lane = Owned(g)
      /\ \A u \in Threads : u # t => thread'[u] = thread[u]
      /\ DOMAIN thread' = Threads
  BY <1>3 DEF LaneInv, LaneTyped, Gone, IsThread
<1>8. LaneOK(Owned(g)) /\ \A lane : LaneOK(lane) => LaneOK(lane)'
  BY <1>3, <1>6, LaneFacts, SMT DEF LaneOK
<1>9. LaneTyped'
  BY <1>3, <1>5, <1>7, <1>8 DEF LaneInv, LaneTyped
<1>10. ASSUME NEW u \in Threads, u # t, thread[u].lane.owned PROVE thread[u].lane.index # g
  BY <1>2, <1>4, <1>10, SMT DEF LaneInv, OwnedOK
<1>11. FreeOK'
  BY <1>3, <1>5, SMT DEF LaneInv, FreeOK
<1>12. OwnedOK'
  BY <1>5, <1>6, <1>7, LaneFacts, SMT DEF LaneInv, OwnedOK
<1>13. UniqueOK'
  <2>1. ASSUME NEW u \in Threads, u # t PROVE thread[u].lane # Owned(g)
    BY <1>10, <2>1, LaneFacts
  <2> QED BY <1>7, <2>1, SMT DEF LaneInv, UniqueOK
<1>14. PinOK'
  BY <1>3, <1>7 DEF LaneInv, PinOK
<1>15. LoadIsCurrent'
  BY <1>3, <1>7 DEF LaneInv, LoadIsCurrent, Added
<1> QED BY <1>3, <1>9, <1>11, <1>12, <1>13, <1>14, <1>15 DEF LaneInv, CellsTyped

\* A thread starts on a lane never used, or finds that there is none.
LEMMA ClaimNextKeeps ==
  ASSUME LaneInv, NEW t \in Threads, ClaimNext(t)
  PROVE  LaneInv'
<1>1. /\ freed = <<>> /\ freed' = freed /\ next_lane' = next_lane + 1 /\ cells' = cells
      /\ next_lane \in Nat /\ freed \in Seq(Nat) /\ SHARED_LANE \in Nat
  BY LaneFacts DEF ClaimNext, LaneInv, LaneTyped
<1>2. PICK r : /\ thread' = [thread EXCEPT ![t] = r]
               /\ r = IF next_lane < SHARED_LANE
                      THEN [Gone EXCEPT !.pc = "ready", !.lane = Owned(next_lane)]
                      ELSE [Gone EXCEPT !.pc = "pin"]
  BY DEF ClaimNext, Becomes
<1>3. IsThread(Gone) /\ Gone.lane = FALLBACK
  BY DEF Gone, IsThread
<1>4. /\ IsThread(r)
      /\ \/ r.pc = "ready" /\ r.lane = Owned(next_lane) /\ next_lane < SHARED_LANE
         \/ r.pc = "pin" /\ r.lane = FALLBACK /\ next_lane >= SHARED_LANE
  <2>1. CASE next_lane < SHARED_LANE
    BY <1>2, <1>3, <2>1 DEF IsThread, Gone
  <2>2. CASE ~(next_lane < SHARED_LANE)
    <3>1. r = [Gone EXCEPT !.pc = "pin"]
      BY <1>2, <2>2
    <3>2. IsThread(r) /\ r.pc = "pin" /\ r.lane = FALLBACK
      BY <3>1 DEF IsThread, Gone
    <3> QED BY <1>1, <2>2, <3>2, SMT
  <2> QED BY <2>1, <2>2
<1>5. thread'[t] = r /\ (\A u \in Threads : u # t => thread'[u] = thread[u]) /\ DOMAIN thread' = Threads
  BY <1>2 DEF LaneInv, LaneTyped
<1>6. LaneOK(r.lane)' /\ \A lane : LaneOK(lane) => LaneOK(lane)'
  BY <1>1, <1>4, SMT DEF LaneOK
<1>7. LaneTyped'
  BY <1>1, <1>4, <1>5, <1>6, SMT DEF LaneInv, LaneTyped
<1>8. ASSUME NEW u \in Threads, thread[u].lane = Owned(next_lane) PROVE FALSE
  <2>1. LaneOK(thread[u].lane)
    BY DEF LaneInv, LaneTyped
  <2> QED BY <1>1, <1>8, <2>1, LaneFacts, SMT DEF LaneOK
<1>9. FreeOK'
  BY <1>1, SMT DEF FreeOK
<1>10. OwnedOK'
  BY <1>1, <1>4, <1>5, LaneFacts, SMT DEF LaneInv, OwnedOK
<1>11. UniqueOK'
  BY <1>4, <1>5, <1>8, LaneFacts, SMT DEF LaneInv, UniqueOK
<1>12. PinOK'
  BY <1>1, <1>4, <1>5, SMT DEF LaneInv, PinOK
<1>13. LoadIsCurrent'
  BY <1>1, <1>4, <1>5 DEF LaneInv, LoadIsCurrent, Added
<1> QED BY <1>1, <1>7, <1>9, <1>10, <1>11, <1>12, <1>13 DEF LaneInv, CellsTyped

\* A thread ends and gives its private lane back; the shared lane has no owner to do so.
LEMMA ExitKeeps ==
  ASSUME LaneInv, NEW t \in Threads, Exit(t)
  PROVE  LaneInv'
<1>1. /\ thread[t].pc = "ready" /\ thread' = [thread EXCEPT ![t] = Gone]
      /\ freed' = IF thread[t].lane.owned THEN Append(freed, thread[t].lane.index) ELSE freed
      /\ UNCHANGED <<next_lane, cells>>
  BY DEF Exit, Becomes
<1>2. IsThread(Gone) /\ Gone.lane = FALLBACK /\ Gone.pc = "gone"
  BY DEF Gone, IsThread
<1>3. thread'[t] = Gone /\ (\A u \in Threads : u # t => thread'[u] = thread[u]) /\ DOMAIN thread' = Threads
  BY <1>1 DEF LaneInv, LaneTyped
<1>4. \A lane : LaneOK(lane) => LaneOK(lane)'
  BY <1>1 DEF LaneOK
<1>5. LaneOK(FALLBACK)' /\ LaneOK(thread[t].lane)
  BY DEF LaneOK, LaneInv, LaneTyped
<1>6. freed \in Seq(Nat) /\ Len(freed) \in Nat
  BY SMT DEF LaneInv, LaneTyped
<1>7. UniqueOK' /\ PinOK' /\ LoadIsCurrent' /\ CellsTyped'
  BY <1>1, <1>2, <1>3, LaneFacts, SMT DEF LaneInv, UniqueOK, PinOK, LoadIsCurrent, CellsTyped, Added
<1>8. freed' \in Seq(Nat) /\ FreeOK' /\ OwnedOK'
  <2>1. CASE ~thread[t].lane.owned
    BY <1>1, <1>2, <1>3, <1>6, <2>1, LaneFacts, SMT DEF LaneInv, FreeOK, OwnedOK
  <2>2. CASE thread[t].lane.owned
    <3>1. PICK g \in Nat : g = thread[t].lane.index /\ g < SHARED_LANE /\ g < next_lane
      BY <1>5, <2>2, LaneFacts, SMT DEF LaneOK
    <3>2. freed' = Append(freed, g)
      BY <1>1, <2>2, <3>1
    <3>3. /\ freed' \in Seq(Nat) /\ Len(freed') = Len(freed) + 1 /\ freed'[Len(freed) + 1] = g
          /\ \A i \in 1..Len(freed) : freed'[i] = freed[i]
      BY <1>6, <3>2, SMT
    <3>4. \A i \in 1..Len(freed) : freed[i] # g
      BY <2>2, <3>1 DEF LaneInv, OwnedOK
    <3>5. \A i \in 1..Len(freed') : i \in 1..Len(freed) \/ i = Len(freed) + 1
      BY <1>6, <3>3, SMT
    <3>6. FreeOK'
      BY <1>1, <3>1, <3>3, <3>4, <3>5, SMT DEF LaneInv, FreeOK
    <3>7. ASSUME NEW u \in Threads, u # t, thread[u].lane.owned PROVE thread[u].lane.index # g
      <4>1. LaneOK(thread[u].lane)
        BY DEF LaneInv, LaneTyped
      <4> QED BY <1>5, <2>2, <3>1, <3>7, <4>1, SameLane DEF LaneInv, UniqueOK
    <3>8. OwnedOK'
      BY <1>2, <1>3, <3>3, <3>5, <3>7, LaneFacts, SMT DEF LaneInv, OwnedOK
    <3> QED BY <3>3, <3>6, <3>8
  <2> QED BY <2>1, <2>2
<1>9. LaneTyped'
  BY <1>1, <1>2, <1>3, <1>4, <1>5, <1>8 DEF LaneInv, LaneTyped
<1> QED BY <1>7, <1>8, <1>9 DEF LaneInv

\* A step of a thread that keeps its lane and leaves the free list alone.
LEMMA OwnersStay ==
  ASSUME LaneInv, NEW t \in Threads, NEW r, thread' = [thread EXCEPT ![t] = r],
         IsThread(r), r.lane = thread[t].lane, r.pc \in {"ready", "loaded"},
         freed' = freed, next_lane' \in Nat,
         next_lane' = next_lane \/ (next_lane >= SHARED_LANE /\ next_lane' = SHARED_LANE)
  PROVE  LaneTyped' /\ FreeOK' /\ OwnedOK' /\ UniqueOK' /\ PinOK'
<1>1. thread'[t] = r /\ (\A u \in Threads : u # t => thread'[u] = thread[u]) /\ DOMAIN thread' = Threads
  BY DEF LaneInv, LaneTyped
<1>2. \A u \in Threads : thread'[u].lane = thread[u].lane
  BY <1>1
<1>3. \A lane : LaneOK(lane) => LaneOK(lane)'
  BY LaneFacts, SMT DEF LaneOK
<1>4. LaneTyped'
  BY <1>1, <1>2, <1>3 DEF LaneInv, LaneTyped
<1>5. FreeOK'
  BY LaneFacts DEF LaneInv, FreeOK
<1>6. OwnedOK'
  BY <1>1, <1>2, SMT DEF LaneInv, OwnedOK
<1>7. UniqueOK'
  BY <1>2, SMT DEF LaneInv, UniqueOK
<1>8. PinOK'
  BY <1>1, LaneFacts, SMT DEF LaneInv, PinOK
<1> QED BY <1>4, <1>5, <1>6, <1>7, <1>8

\* Where a load finds its lane: a private one has no other thread on it, and the shared
\* one no loads.
LEMMA NobodyElse ==
  ASSUME LaneInv, NEW t \in Threads, NEW u \in Threads, u # t, thread[u].pc = "loaded"
  PROVE  /\ thread[u].lane.index \in 0..SHARED_LANE /\ thread[u].lane.index # SHARED_LANE
         /\ thread[t].lane.owned => thread[u].lane.index # thread[t].lane.index
<1>1. LaneOK(thread[t].lane) /\ LaneOK(thread[u].lane) /\ thread[u].lane.owned
  BY DEF LaneInv, LaneTyped, LoadIsCurrent
<1>2. thread[u].lane.index \in 0..SHARED_LANE /\ thread[u].lane.index # SHARED_LANE
  BY <1>1, LaneFacts, SMT DEF LaneOK
<1>3. ASSUME thread[t].lane.owned, thread[u].lane.index = thread[t].lane.index PROVE FALSE
  <2>1. thread[u].lane = thread[t].lane
    BY <1>1, <1>3, SameLane
  <2> QED BY <1>3, <2>1 DEF LaneInv, UniqueOK
<1> QED BY <1>2, <1>3

\* A counter is added to on one lane: what the others have loaded is not what changed.
LEMMA LoadsStay ==
  ASSUME LaneInv, NEW t \in Threads, NEW r, thread' = [thread EXCEPT ![t] = r],
         r.pc = "ready", NEW l \in 0..SHARED_LANE, NEW c, NEW v,
         cells' = [cells EXCEPT ![l][c] = v],
         l = SHARED_LANE \/ (thread[t].lane.owned /\ l = thread[t].lane.index)
  PROVE  LoadIsCurrent' /\ CellsTyped'
<1>1. thread'[t] = r /\ \A u \in Threads : u # t => thread'[u] = thread[u]
  BY DEF LaneInv, LaneTyped
<1>2. /\ DOMAIN cells' = 0..SHARED_LANE
      /\ \A m \in 0..SHARED_LANE : m # l => cells'[m] = cells[m]
      /\ cells'[l] = [cells[l] EXCEPT ![c] = v]
  BY DEF LaneInv, CellsTyped
<1>3. CellsTyped'
  BY <1>2 DEF LaneInv, CellsTyped
<1>4. ASSUME NEW u \in Threads, thread'[u].pc = "loaded"
      PROVE  /\ thread'[u].lane.owned
             /\ thread'[u].loaded = cells'[thread'[u].lane.index][Added(u)'.counter]
  <2>1. u # t /\ thread'[u] = thread[u]
    BY <1>1, <1>4
  <2>2. thread[u].lane.index \in 0..SHARED_LANE /\ thread[u].lane.index # l
    BY <1>4, <2>1, NobodyElse
  <2>3. /\ thread[u].lane.owned
        /\ thread[u].loaded = cells[thread[u].lane.index][Added(u).counter]
    BY <1>4, <2>1 DEF LaneInv, LoadIsCurrent
  <2>4. Added(u)' = Added(u)
    BY <2>1 DEF Added
  <2> QED BY <1>2, <2>1, <2>2, <2>3, <2>4
<1> QED BY <1>3, <1>4 DEF LoadIsCurrent

\* Putting NEXT_LANE back.
LEMMA PinKeeps ==
  ASSUME LaneInv, NEW t \in Threads, Pin(t)
  PROVE  LaneInv'
<1>1. PICK r : r = [thread[t] EXCEPT !.pc = "ready"]
  OBVIOUS
<1>2. /\ thread' = [thread EXCEPT ![t] = r] /\ thread[t].pc = "pin"
      /\ next_lane' = SHARED_LANE /\ freed' = freed /\ cells' = cells
  BY <1>1 DEF Pin, Becomes
<1>3. IsThread(thread[t])
  BY DEF LaneInv, LaneTyped
<1>4. IsThread(r) /\ r.pc = "ready" /\ r.lane = thread[t].lane
  BY <1>1, <1>3 DEF IsThread
<1>5. next_lane >= SHARED_LANE /\ next_lane' \in Nat
  BY <1>2, LaneFacts DEF LaneInv, PinOK
<1>6. LaneTyped' /\ FreeOK' /\ OwnedOK' /\ UniqueOK' /\ PinOK'
  BY <1>2, <1>4, <1>5, OwnersStay
<1>7. thread'[t] = r /\ \A u \in Threads : u # t => thread'[u] = thread[u]
  BY <1>2 DEF LaneInv, LaneTyped
<1>8. LoadIsCurrent'
  BY <1>2, <1>4, <1>7 DEF LaneInv, LoadIsCurrent, Added
<1> QED BY <1>2, <1>6, <1>8 DEF LaneInv, CellsTyped

\* A command is served: its additions are still to be made.
LEMMA ServeKeeps ==
  ASSUME LaneInv, NEW t \in Threads, NEW outcome \in Outcomes, Serve(t, outcome)
  PROVE  LaneInv'
<1>1. PICK r : r = [thread[t] EXCEPT !.todo = Counted(outcome)]
  OBVIOUS
<1>2. /\ thread' = [thread EXCEPT ![t] = r] /\ thread[t].pc = "ready"
      /\ next_lane' = next_lane /\ freed' = freed /\ cells' = cells
  BY <1>1 DEF Serve, Becomes
<1>3. IsThread(thread[t]) /\ next_lane \in Nat
  BY DEF LaneInv, LaneTyped
<1>4. IsThread(r) /\ r.pc = "ready" /\ r.lane = thread[t].lane
  BY <1>1, <1>2, <1>3 DEF IsThread
<1>5. LaneTyped' /\ FreeOK' /\ OwnedOK' /\ UniqueOK' /\ PinOK'
  BY <1>2, <1>3, <1>4, OwnersStay
<1>6. thread'[t] = r /\ \A u \in Threads : u # t => thread'[u] = thread[u]
  BY <1>2 DEF LaneInv, LaneTyped
<1>7. LoadIsCurrent'
  BY <1>2, <1>4, <1>6 DEF LaneInv, LoadIsCurrent, Added
<1> QED BY <1>2, <1>5, <1>7 DEF LaneInv, CellsTyped

\* The load of a plain addition.
LEMMA LoadKeeps ==
  ASSUME LaneInv, NEW t \in Threads, Load(t)
  PROVE  LaneInv'
<1>1. PICK v : v = cells[thread[t].lane.index][Added(t).counter]
  OBVIOUS
<1>2. PICK r : r = [thread[t] EXCEPT !.pc = "loaded", !.loaded = v]
  OBVIOUS
<1>3. /\ thread' = [thread EXCEPT ![t] = r] /\ thread[t].pc = "ready" /\ thread[t].lane.owned
      /\ next_lane' = next_lane /\ freed' = freed /\ cells' = cells
  BY <1>1, <1>2 DEF Load, Becomes
<1>4. IsThread(thread[t]) /\ next_lane \in Nat
  BY DEF LaneInv, LaneTyped
<1>5. /\ IsThread(r) /\ r.pc = "loaded" /\ r.lane = thread[t].lane /\ r.todo = thread[t].todo
      /\ r.loaded = v
  BY <1>2, <1>4 DEF IsThread
<1>6. LaneTyped' /\ FreeOK' /\ OwnedOK' /\ UniqueOK' /\ PinOK'
  BY <1>3, <1>4, <1>5, OwnersStay
<1>7. thread'[t] = r /\ \A u \in Threads : u # t => thread'[u] = thread[u]
  BY <1>3 DEF LaneInv, LaneTyped
<1>8. \A u \in Threads : Added(u)' = Added(u)
  BY <1>5, <1>7 DEF Added
<1>9. LoadIsCurrent'
  BY <1>1, <1>3, <1>5, <1>7, <1>8, SMT DEF LaneInv, LoadIsCurrent
<1> QED BY <1>3, <1>6, <1>9 DEF LaneInv, CellsTyped

\* The store of a plain addition.
LEMMA StoreKeeps ==
  ASSUME LaneInv, NEW t \in Threads, Store(t)
  PROVE  LaneInv'
<1>1. PICK r : r = [thread[t] EXCEPT !.pc = "ready", !.todo = Tail(@), !.loaded = 0]
  OBVIOUS
<1>2. PICK v : v = thread[t].loaded + Added(t).n
  OBVIOUS
<1>3. /\ thread' = [thread EXCEPT ![t] = r] /\ thread[t].pc = "loaded"
      /\ next_lane' = next_lane /\ freed' = freed
      /\ cells' = [cells EXCEPT ![thread[t].lane.index][Added(t).counter] = v]
  BY <1>1, <1>2 DEF Store, Becomes
<1>4. IsThread(thread[t]) /\ next_lane \in Nat /\ LaneOK(thread[t].lane) /\ thread[t].lane.owned
  BY <1>3 DEF LaneInv, LaneTyped, LoadIsCurrent
<1>5. IsThread(r) /\ r.pc = "ready" /\ r.lane = thread[t].lane
  BY <1>1, <1>4 DEF IsThread
<1>6. LaneTyped' /\ FreeOK' /\ OwnedOK' /\ UniqueOK' /\ PinOK'
  BY <1>3, <1>4, <1>5, OwnersStay
<1>7. thread[t].lane.index \in 0..SHARED_LANE
  BY <1>4, LaneFacts, SMT DEF LaneOK
<1>8. LoadIsCurrent' /\ CellsTyped'
  BY <1>3, <1>4, <1>5, <1>7, LoadsStay
<1> QED BY <1>6, <1>8 DEF LaneInv

\* The locked addition on the shared lane.
LEMMA FetchAddKeeps ==
  ASSUME LaneInv, NEW t \in Threads, FetchAdd(t)
  PROVE  LaneInv'
<1>1. PICK r : r = [thread[t] EXCEPT !.todo = Tail(@)]
  OBVIOUS
<1>2. PICK v : v = cells[SHARED_LANE][Added(t).counter] + Added(t).n
  OBVIOUS
<1>3. /\ thread' = [thread EXCEPT ![t] = r] /\ thread[t].pc = "ready"
      /\ next_lane' = next_lane /\ freed' = freed
  BY <1>1 DEF FetchAdd, Becomes
<1>4. cells' = [cells EXCEPT ![SHARED_LANE][Added(t).counter] = v]
  BY <1>2 DEF FetchAdd
<1>5. IsThread(thread[t]) /\ next_lane \in Nat
  BY DEF LaneInv, LaneTyped
<1>6. IsThread(r) /\ r.pc = "ready" /\ r.lane = thread[t].lane
  BY <1>1, <1>3, <1>5 DEF IsThread
<1>7. LaneTyped' /\ FreeOK' /\ OwnedOK' /\ UniqueOK' /\ PinOK'
  BY <1>3, <1>5, <1>6, OwnersStay
<1>8. SHARED_LANE \in 0..SHARED_LANE
  BY LaneFacts, SMT
<1>9. LoadIsCurrent' /\ CellsTyped'
  BY <1>3, <1>4, <1>6, <1>8, LoadsStay
<1> QED BY <1>7, <1>9 DEF LaneInv

\* No thread has started.
LEMMA LaneInitOK == LaneInit => LaneInv
<1> SUFFICES ASSUME LaneInit PROVE LaneInv
  OBVIOUS
<1>1. IsThread(Gone) /\ Gone.lane = FALLBACK /\ Gone.pc = "gone"
  BY DEF Gone, IsThread
<1>2. \A t \in Threads : thread[t] = Gone
  BY DEF LaneInit
<1>3. freed = <<>> /\ freed \in Seq(Nat) /\ Len(freed) = 0 /\ next_lane \in Nat
  BY SMT DEF LaneInit
<1>4. LaneTyped
  BY <1>1, <1>2, <1>3 DEF LaneInit, LaneTyped, LaneOK
<1>5. FreeOK
  BY <1>3, SMT DEF FreeOK
<1>6. OwnedOK /\ UniqueOK /\ PinOK /\ LoadIsCurrent
  BY <1>1, <1>2, LaneFacts DEF OwnedOK, UniqueOK, PinOK, LoadIsCurrent
<1>7. CellsTyped
  BY DEF LaneInit, CellsTyped
<1> QED BY <1>4, <1>5, <1>6, <1>7 DEF LaneInv

\* Every step of a thread keeps the invariant.
LEMMA LaneStepOK == LaneInv /\ [LaneNext]_laneVars => LaneInv'
<1> SUFFICES ASSUME LaneInv, [LaneNext]_laneVars PROVE LaneInv'
  OBVIOUS
<1>1. ASSUME NEW t \in Threads, ClaimFreed(t) PROVE LaneInv'
  BY <1>1, ClaimFreedKeeps
<1>2. ASSUME NEW t \in Threads, ClaimNext(t) PROVE LaneInv'
  BY <1>2, ClaimNextKeeps
<1>3. ASSUME NEW t \in Threads, Pin(t) PROVE LaneInv'
  BY <1>3, PinKeeps
<1>4. ASSUME NEW t \in Threads, Exit(t) PROVE LaneInv'
  BY <1>4, ExitKeeps
<1>5. ASSUME NEW t \in Threads, NEW outcome \in Outcomes, Serve(t, outcome) PROVE LaneInv'
  BY <1>5, ServeKeeps
<1>6. ASSUME NEW t \in Threads, Load(t) PROVE LaneInv'
  BY <1>6, LoadKeeps
<1>7. ASSUME NEW t \in Threads, Store(t) PROVE LaneInv'
  BY <1>7, StoreKeeps
<1>8. ASSUME NEW t \in Threads, FetchAdd(t) PROVE LaneInv'
  BY <1>8, FetchAddKeeps
<1>9. CASE UNCHANGED laneVars
  BY <1>9, SMT DEF laneVars, LaneInv, LaneTyped, LaneOK, FreeOK, OwnedOK, UniqueOK, PinOK,
              LoadIsCurrent, CellsTyped, Added
<1> QED BY <1>1, <1>2, <1>3, <1>4, <1>5, <1>6, <1>7, <1>8, <1>9 DEF LaneNext

-----------------------------------------------------------------------------
\* However threads start, stop and take lanes over, a private lane has one writer
\* (metrics.rs LaneGuard).
THEOREM LanesArePrivate == LaneSpec => []OneWriterPerLane
<1>1. LaneInv /\ [LaneNext]_laneVars => LaneInv'
  BY LaneStepOK
<1>2. LaneInv => OneWriterPerLane
  <2> SUFFICES ASSUME LaneInv PROVE OneWriterPerLane
    OBVIOUS
  <2>1. freed \in Seq(Nat) /\ DOMAIN freed = 1..Len(freed)
    BY SMT DEF LaneInv, LaneTyped
  <2>2. IsInjective(freed)
    BY <2>1 DEF LaneInv, FreeOK, IsInjective
  <2>3. \A t, u \in Live : thread[t].lane.owned /\ thread[u].lane = thread[t].lane => t = u
    BY DEF Live, LaneInv, UniqueOK
  <2>4. ASSUME NEW t \in Live, thread[t].lane.owned
        PROVE  thread[t].lane.index < SHARED_LANE /\ thread[t].lane.index \notin Range(freed)
    <3>1. t \in Threads /\ LaneOK(thread[t].lane)
      BY DEF Live, LaneInv, LaneTyped
    <3>2. thread[t].lane.index < SHARED_LANE
      BY <2>4, <3>1, LaneFacts, SMT DEF LaneOK
    <3>3. \A i \in 1..Len(freed) : freed[i] # thread[t].lane.index
      BY <2>4, <3>1 DEF LaneInv, OwnedOK
    <3> QED BY <2>1, <3>2, <3>3 DEF Range
  <2> QED BY <2>2, <2>3, <2>4 DEF OneWriterPerLane
<1> QED BY <1>1, <1>2, LaneInitOK, PTL DEF LaneSpec

\* Every step either leaves the counters alone or adds to one lane's counter exactly what
\* the ledger gains: the count a private lane's thread stores is one more than the count
\* that is there when it stores it, though it was loaded a step before.
EveryAdditionLands ==
  [][ \/ UNCHANGED <<cells, ledger>>
      \/ \E t \in Threads, l \in 0..SHARED_LANE :
           /\ cells' = [cells EXCEPT ![l][Added(t).counter] = cells[l][Added(t).counter] + Added(t).n]
           /\ Tally(t) ]_laneVars

\* No addition is lost and none is counted twice, step by step (metrics.rs bump): the
\* reason why a scrape's sum is the ledger's.
THEOREM AdditionsLand == LaneSpec => EveryAdditionLands
<1>1. LaneInv /\ [LaneNext]_laneVars => LaneInv'
  BY LaneStepOK
<1> DEFINE Lands == \/ UNCHANGED <<cells, ledger>>
                    \/ \E t \in Threads, l \in 0..SHARED_LANE :
                         /\ cells' = [cells EXCEPT ![l][Added(t).counter] =
                                                      cells[l][Added(t).counter] + Added(t).n]
                         /\ Tally(t)
<1>2. LaneInv /\ [LaneNext]_laneVars => [Lands]_laneVars
  <2> SUFFICES ASSUME LaneInv, LaneNext PROVE Lands
    OBVIOUS
  <2>1. ASSUME NEW t \in Threads, Store(t) PROVE Lands
    <3>1. LaneOK(thread[t].lane) /\ thread[t].lane.owned
      BY <2>1 DEF Store, LaneInv, LaneTyped, LoadIsCurrent
    <3>2. thread[t].lane.index \in 0..SHARED_LANE
      BY <3>1, LaneFacts, SMT DEF LaneOK
    <3>3. thread[t].loaded = cells[thread[t].lane.index][Added(t).counter]
      BY <2>1 DEF Store, LaneInv, LoadIsCurrent
    <3>4. /\ cells' = [cells EXCEPT ![thread[t].lane.index][Added(t).counter] =
                                      thread[t].loaded + Added(t).n]
          /\ Tally(t)
      BY <2>1 DEF Store
    <3> QED BY <3>2, <3>3, <3>4
  <2>2. ASSUME NEW t \in Threads, FetchAdd(t) PROVE Lands
    <3>1. SHARED_LANE \in 0..SHARED_LANE
      BY LaneFacts, SMT
    <3>2. /\ cells' = [cells EXCEPT ![SHARED_LANE][Added(t).counter] =
                                      cells[SHARED_LANE][Added(t).counter] + Added(t).n]
          /\ Tally(t)
      BY <2>2 DEF FetchAdd
    <3> QED BY <3>1, <3>2
  <2>3. ASSUME NEW t \in Threads,
               \/ ClaimFreed(t) \/ ClaimNext(t) \/ Pin(t) \/ Exit(t) \/ Load(t)
               \/ \E outcome \in Outcomes : Serve(t, outcome)
        PROVE  UNCHANGED <<cells, ledger>>
    BY <2>3 DEF ClaimFreed, ClaimNext, Pin, Exit, Load, Serve
  <2> QED BY <2>1, <2>2, <2>3 DEF LaneNext
<1> QED BY <1>1, <1>2, LaneInitOK, PTL DEF LaneSpec, EveryAdditionLands

(***************************************************************************)
(* RESIDENT READS AND READER SLOTS                                         *)
(***************************************************************************)

\* The shards, and where a pass over them can be.
Mapped == 1..WarmShards
Passes == [pc : {"asleep", "shard", "warm"}, shard : Nat \ {0}, from : Nat, limit : Nat,
           locked : BOOLEAN]

\* The first n pages of a shard's map are held in memory.
Held(s, n) == 1..n \subseteq pinned[s]

\* The variables have their types.
ResTyped ==
    /\ high \in [Mapped -> 0..MaxPages]
    /\ warmed \in [Mapped -> Nat] /\ map_locked \in [Mapped -> BOOLEAN]
    /\ looked \in [Mapped -> Nat] /\ begun \in [Mapped -> Nat]
    /\ DOMAIN pinned = Mapped
    /\ pass \in Passes

\* env.rs: the mark never passes what was written, and a verdict of "locked" is about
\* everything below the mark.
MarksOK ==
    \A s \in Mapped : warmed[s] <= high[s] /\ (map_locked[s] => Held(s, warmed[s]))

\* The pass under way: as long as its verdict stands, the shards behind it are held as
\* far as they reached when it began; the one it reads is read at least that far.
PassOK ==
    /\ \A s \in Mapped : begun[s] <= high[s]
    /\ pass.pc # "asleep" /\ pass.locked =>
         \A s \in Mapped : s < pass.shard => Held(s, begun[s])
    /\ pass.pc = "warm" =>
         /\ pass.shard \in Mapped
         /\ begun[pass.shard] <= pass.limit /\ pass.limit <= high[pass.shard]

\* The inductive invariant: the flag's promise rests on the verdicts of passes that
\* ended, and those on the marks earlier passes left behind.
ResInv == ResTyped /\ MarksOK /\ PassOK /\ InlineCoversTheLastLook

\* A lock the kernel granted is never taken back: what was held stays held.
LEMMA HeldStays ==
  ASSUME NEW s \in Mapped, NEW n, Held(s, n), pinned[s] \subseteq pinned'[s]
  PROVE  1..n \subseteq pinned'[s]
BY DEF Held

\* Writers extend the maps at any time.
LEMMA GrowKeeps ==
  ASSUME ResInv, NEW s \in Mapped, Grow(s)
  PROVE  ResInv'
<1>1. /\ high' = [high EXCEPT ![s] = high[s] + 1] /\ high[s] < MaxPages
      /\ UNCHANGED <<warmed, map_locked, pinned, pass, inline, looked, begun, passes>>
  BY DEF Grow
<1>2. high \in [Mapped -> 0..MaxPages] /\ MaxPages \in Nat
  BY ResAssumption DEF ResInv, ResTyped
<1>3. high' \in [Mapped -> 0..MaxPages] /\ \A u \in Mapped : high[u] \in Nat /\ high'[u] \in Nat /\ high[u] <= high'[u]
  BY <1>1, <1>2, SMT
<1>4. ResTyped'
  BY <1>1, <1>3 DEF ResInv, ResTyped
<1>5. MarksOK'
  BY <1>1, <1>3, SMT DEF ResInv, ResTyped, MarksOK, Held
<1>6. PassOK'
  <2>1. \A u \in Mapped : begun[u] \in Nat /\ begun[u] <= high[u]
    BY DEF ResInv, ResTyped, PassOK
  <2>2. \A u \in Mapped : begun'[u] <= high'[u]
    BY <1>1, <1>3, <2>1, SMT
  <2>3. pass.pc = "warm" => /\ pass.shard \in Mapped /\ begun[pass.shard] <= pass.limit
                            /\ pass.limit <= high'[pass.shard]
    <3>1. pass.limit \in Nat
      BY DEF ResInv, ResTyped, Passes
    <3> QED BY <1>3, <3>1, SMT DEF ResInv, PassOK
  <2> QED BY <1>1, <2>2, <2>3 DEF ResInv, PassOK, Held
<1>7. InlineCoversTheLastLook'
  BY <1>1 DEF ResInv, InlineCoversTheLastLook
<1> QED BY <1>4, <1>5, <1>6, <1>7 DEF ResInv

\* The timer fires: the new pass has looked at no shard yet.
LEMMA BeginPassKeeps ==
  ASSUME ResInv, BeginPass
  PROVE  ResInv'
<1>1. /\ pass' = [pc |-> "shard", shard |-> 1, from |-> 0, limit |-> 0, locked |-> TRUE]
      /\ begun' = high
      /\ UNCHANGED <<high, warmed, map_locked, pinned, inline, looked>>
  BY DEF BeginPass
<1>2. high \in [Mapped -> Nat] /\ MaxPages \in Nat
  BY ResAssumption, SMT DEF ResInv, ResTyped
<1>3. ResTyped'
  BY <1>1, <1>2, SMT DEF ResInv, ResTyped, Passes
<1>4. MarksOK'
  BY <1>1 DEF ResInv, MarksOK, Held
<1>5. PassOK'
  <2>1. pass'.pc = "shard" /\ pass'.shard = 1
    BY <1>1
  <2>2. \A s \in Mapped : ~(s < 1)
    BY SMT DEF Mapped
  <2> QED BY <1>1, <1>2, <2>1, <2>2, SMT DEF PassOK
<1>6. InlineCoversTheLastLook'
  BY <1>1 DEF ResInv, InlineCoversTheLastLook
<1> QED BY <1>3, <1>4, <1>5, <1>6 DEF ResInv

\* store.rs warm_step goes on to the next shard: a verdict of "locked" on this one must
\* hold it as far as it reached when the pass began.
LEMMA NextShardKeeps ==
  ASSUME ResInv, NEW locked \in BOOLEAN, pass' = NextShard(locked),
         pass.pc # "asleep", pass.shard \in Mapped, begun' = begun, high' = high,
         DOMAIN pinned' = Mapped, \A u \in Mapped : pinned[u] \subseteq pinned'[u],
         locked => 1..begun[pass.shard] \subseteq pinned'[pass.shard]
  PROVE  /\ PassOK'
         /\ pass' \in Passes
<1>1. pass \in Passes
  BY DEF ResInv, ResTyped
<1>2. PICK n \in Nat \ {0} : n = pass.shard + 1
  BY <1>1, SMT DEF Passes
<1>3. pass' = [pass EXCEPT !.pc = "shard", !.shard = n, !.locked = @ /\ locked]
  BY <1>2 DEF NextShard
<1>4. /\ pass' \in Passes
      /\ pass'.pc = "shard" /\ pass'.shard = n /\ pass'.locked = (pass.locked /\ locked)
  BY <1>1, <1>3 DEF Passes
<1>5. ASSUME pass'.locked, NEW s \in Mapped, s < n
      PROVE  1..begun[s] \subseteq pinned'[s]
  <2>1. pass.locked /\ locked
    BY <1>4, <1>5
  <2>2. s \in Nat /\ pass.shard \in Nat
    BY <1>1, SMT DEF Mapped, Passes
  <2>3. CASE s = pass.shard
    BY <2>1, <2>3
  <2>4. CASE s < pass.shard
    <3>1. Held(s, begun[s])
      BY <2>1, <2>4 DEF ResInv, PassOK
    <3> QED BY <3>1, HeldStays
  <2> QED BY <1>2, <1>5, <2>2, <2>3, <2>4, SMT
<1>6. PassOK'
  BY <1>4, <1>5 DEF ResInv, PassOK, Held
<1> QED BY <1>4, <1>6

\* env.rs warm_step looks at a shard, and leaves it as it is when nothing is new.
LEMMA LookAtShardKeeps ==
  ASSUME ResInv, LookAtShard
  PROVE  ResInv'
<1>1. /\ pass.pc = "shard" /\ pass.shard <= WarmShards
      /\ UNCHANGED <<high, warmed, map_locked, pinned, inline, looked, begun, passes>>
  BY DEF LookAtShard, Stepping
<1>2. MarksOK' /\ InlineCoversTheLastLook'
  BY <1>1 DEF ResInv, MarksOK, Held, InlineCoversTheLastLook
<1>3. pass \in Passes /\ pass.shard \in Mapped
  BY <1>1, ResAssumption, SMT DEF ResInv, ResTyped, Passes, Mapped
<1>4. PICK s \in Mapped : s = pass.shard
  BY <1>3
<1>5. warmed[s] \in Nat /\ high[s] \in Nat /\ begun[s] \in Nat /\ map_locked[s] \in BOOLEAN
  BY ResAssumption, SMT DEF ResInv, ResTyped
<1>6. begun[s] <= high[s]
  BY DEF ResInv, PassOK
<1>7. PassOK' /\ pass' \in Passes
  <2>1. CASE NothingNew(warmed[s], s)
    <3>1. pass' = NextShard(map_locked[s])
      BY <1>4, <2>1 DEF LookAtShard
    <3>2. ASSUME map_locked[s] PROVE 1..begun[s] \subseteq pinned'[s]
      <4>1. 1..warmed[s] \subseteq pinned[s]
        BY <3>2 DEF ResInv, MarksOK, Held
      <4>2. begun[s] <= warmed[s]
        BY <1>5, <1>6, <2>1, SMT DEF NothingNew
      <4> QED BY <1>1, <1>5, <4>1, <4>2, SMT
    <3>3. DOMAIN pinned' = Mapped /\ \A u \in Mapped : pinned[u] \subseteq pinned'[u]
      BY <1>1 DEF ResInv, ResTyped
    <3> QED BY <1>1, <1>3, <1>4, <1>5, <3>1, <3>2, <3>3, NextShardKeeps
  <2>2. CASE ~NothingNew(warmed[s], s)
    <3>1. pass' = [pass EXCEPT !.pc = "warm", !.from = warmed[s], !.limit = high[s]]
      BY <1>4, <2>2 DEF LookAtShard
    <3>2. /\ pass' \in Passes /\ pass'.pc = "warm" /\ pass'.shard = s
          /\ pass'.limit = high[s] /\ pass'.locked = pass.locked
      BY <1>3, <1>4, <1>5, <3>1 DEF Passes
    <3>3. pass.locked => \A u \in Mapped : u < s => Held(u, begun[u])
      BY <1>1, <1>4 DEF ResInv, PassOK
    <3>4. high[s] <= high[s]
      BY <1>5, SMT
    <3> QED BY <1>1, <1>6, <3>2, <3>3, <3>4 DEF ResInv, PassOK, Held
  <2> QED BY <2>1, <2>2
<1>8. ResTyped'
  BY <1>1, <1>7 DEF ResInv, ResTyped
<1> QED BY <1>2, <1>7, <1>8 DEF ResInv

\* env.rs publishes what a step found: the mark, the verdict and the next shard.
LEMMA PublishKeeps ==
  ASSUME ResInv, NEW bytes \in Nat, NEW locked \in BOOLEAN,
         pass.pc = "warm", Publish(pass.shard, bytes, locked),
         bytes <= pass.limit, locked => bytes = pass.limit,
         DOMAIN pinned' = Mapped, \A u \in Mapped : pinned[u] \subseteq pinned'[u],
         locked => 1..bytes \subseteq pinned'[pass.shard]
  PROVE  ResInv'
<1>1. /\ pass.shard \in Mapped /\ pass \in Passes /\ begun[pass.shard] <= pass.limit
      /\ pass.limit <= high[pass.shard]
  BY DEF ResInv, ResTyped, PassOK
<1>2. PICK s \in Mapped : s = pass.shard
  BY <1>1
<1>3. /\ warmed' = [warmed EXCEPT ![s] = bytes] /\ map_locked' = [map_locked EXCEPT ![s] = locked]
      /\ pass' = NextShard(locked) /\ UNCHANGED <<high, inline, looked, begun, passes>>
  BY <1>2 DEF Publish
<1>4. pass.limit \in Nat /\ high[s] \in Nat /\ begun[s] \in Nat
  BY <1>1, ResAssumption, SMT DEF ResInv, ResTyped, Passes
<1>5. PassOK' /\ pass' \in Passes
  <2>1. locked => 1..begun[pass.shard] \subseteq pinned'[pass.shard]
    BY <1>1, <1>2, <1>4, SMT
  <2> QED BY <1>1, <1>3, <2>1, NextShardKeeps
<1>6. ResTyped'
  BY <1>3, <1>5 DEF ResInv, ResTyped
<1>7. MarksOK'
  <2> SUFFICES ASSUME NEW u \in Mapped
               PROVE  warmed'[u] <= high'[u] /\ (map_locked'[u] => 1..warmed'[u] \subseteq pinned'[u])
    BY DEF MarksOK, Held
  <2>1. CASE u = s
    <3>1. warmed'[u] = bytes /\ map_locked'[u] = locked
      BY <1>3, <2>1 DEF ResInv, ResTyped
    <3> QED BY <1>1, <1>2, <1>3, <1>4, <2>1, <3>1, SMT
  <2>2. CASE u # s
    <3>1. warmed'[u] = warmed[u] /\ map_locked'[u] = map_locked[u]
      BY <1>3, <2>2 DEF ResInv, ResTyped
    <3>2. warmed[u] <= high[u] /\ (map_locked[u] => Held(u, warmed[u]))
      BY DEF ResInv, MarksOK
    <3> QED BY <1>3, <3>1, <3>2, HeldStays
  <2> QED BY <2>1, <2>2
<1>8. InlineCoversTheLastLook'
  BY <1>3 DEF ResInv, InlineCoversTheLastLook, Mapped
<1> QED BY <1>5, <1>6, <1>7, <1>8 DEF ResInv

\* A failed read publishes no verdict and sets the mark back.
LEMMA WarmFailsKeeps ==
  ASSUME ResInv, WarmFails
  PROVE  ResInv'
<1>1. pass.pc = "warm" /\ Publish(pass.shard, 0, FALSE) /\ pinned' = pinned
  BY DEF WarmFails
<1>2. pass.limit \in Nat /\ DOMAIN pinned = Mapped
  BY DEF ResInv, ResTyped, Passes
<1>3. 0 <= pass.limit /\ \A u \in Mapped : pinned[u] \subseteq pinned'[u]
  BY <1>1, <1>2, SMT
<1> QED BY <1>1, <1>2, <1>3, PublishKeeps

\* prefault.rs: however the kernel shows the map, a verdict of "locked" means that every
\* page that was read is covered by a range that was granted.
LEMMA LockedMeansHeld ==
  ASSUME NEW bytes \in 0..MaxPages, NEW ranges \in Splits, NEW granted \in SUBSET ranges,
         populate_page_tables(ranges, bytes, granted)
  PROVE  ranges # {} /\ 1..bytes \subseteq UNION {Clamped(range, bytes) : range \in granted}
<1>1. PICK asked : asked = {range \in ranges : Clamped(range, bytes) # {}}
  OBVIOUS
<1>2. asked # {} /\ asked \subseteq granted
  BY <1>1 DEF populate_page_tables
<1>3. ranges # {}
  BY <1>1, <1>2
<1>4. ASSUME NEW page \in 1..bytes
      PROVE  \E range \in granted : page \in Clamped(range, bytes)
  <2>1. page \in Nat /\ page >= 1 /\ page <= MaxPages /\ page <= bytes /\ MaxPages \in Nat
    BY ResAssumption, SMT
  <2>2. PICK range \in ranges : page \in range
    <3>1. CASE ranges = {1..MaxPages}
      BY <2>1, <3>1, SMT
    <3>2. CASE ranges = {1..1, 2..MaxPages}
      <4>1. page \in 1..1 \/ page \in 2..MaxPages
        BY <2>1, SMT
      <4> QED BY <3>2, <4>1
    <3> QED BY <1>3, <3>1, <3>2 DEF Splits
  <2>3. page \in Clamped(range, bytes)
    BY <2>1, <2>2 DEF Clamped
  <2>4. range \in granted
    BY <1>1, <1>2, <2>3
  <2> QED BY <2>3, <2>4
<1> QED BY <1>3, <1>4

\* A shard is read, and locked where the kernel agrees.
LEMMA WarmKeeps ==
  ASSUME ResInv, NEW bytes \in 0..MaxPages, NEW ranges \in Splits,
         NEW granted \in SUBSET ranges, Warm(bytes, ranges, granted)
  PROVE  ResInv'
<1> DEFINE locks == UNION {Clamped(range, bytes) : range \in granted}
           locked == populate_page_tables(ranges, bytes, granted)
<1>1. /\ pass.pc = "warm" /\ bytes \in pass.from..pass.limit
      /\ ranges # {} => bytes = pass.limit
      /\ pinned' = [pinned EXCEPT ![pass.shard] = @ \cup locks]
      /\ Publish(pass.shard, bytes, locked)
  BY DEF Warm, Reached
<1>2. pass.shard \in Mapped /\ pass \in Passes /\ DOMAIN pinned = Mapped
  BY <1>1 DEF ResInv, ResTyped, PassOK
<1>3. bytes \in Nat /\ bytes <= pass.limit
  BY <1>1, <1>2, ResAssumption, SMT DEF Passes
<1>4. locked \in BOOLEAN
  BY DEF populate_page_tables
<1>5. locked => ranges # {} /\ 1..bytes \subseteq locks
  BY LockedMeansHeld
<1> HIDE DEF locks, locked
<1>6. DOMAIN pinned' = Mapped /\ pinned'[pass.shard] = pinned[pass.shard] \cup locks
  BY <1>1, <1>2
<1>7. \A u \in Mapped : pinned[u] \subseteq pinned'[u]
  BY <1>1, <1>2
<1>8. locked => bytes = pass.limit /\ 1..bytes \subseteq pinned'[pass.shard]
  BY <1>1, <1>5, <1>6
<1> QED BY <1>1, <1>3, <1>4, <1>6, <1>7, <1>8, PublishKeeps

\* The whole pass becomes the flag, or a panic clears it.
LEMMA EndKeepsFlag ==
  ASSUME ResInv, EndPass \/ StepPanics
  PROVE  ResInv'
<1>1. /\ pass' = [pass EXCEPT !.pc = "asleep"] /\ looked' = begun
      /\ UNCHANGED <<high, warmed, map_locked, pinned, begun, passes>>
  BY DEF EndPass, StepPanics
<1>2. pass' \in Passes /\ pass'.pc = "asleep"
  BY <1>1 DEF ResInv, ResTyped, Passes
<1>3. ResTyped' /\ MarksOK' /\ PassOK'
  BY <1>1, <1>2 DEF ResInv, ResTyped, MarksOK, PassOK, Held
<1>4. ASSUME inline', NEW s \in Mapped PROVE 1..looked'[s] \subseteq pinned'[s]
  <2>1. EndPass
    BY <1>4 DEF StepPanics
  <2>2. pass.pc = "shard" /\ pass.shard > WarmShards /\ pass.locked
    BY <1>4, <2>1 DEF EndPass
  <2>3. s < pass.shard
    BY <2>2, ResAssumption, SMT DEF Mapped, ResInv, ResTyped, Passes
  <2>4. Held(s, begun[s])
    BY <2>2, <2>3 DEF ResInv, PassOK
  <2> QED BY <1>1, <2>4 DEF Held
<1>5. InlineCoversTheLastLook'
  BY <1>4 DEF InlineCoversTheLastLook, Mapped
<1> QED BY <1>3, <1>5 DEF ResInv

\* Engine::open, with and without warm_at_open.
LEMMA ResInitOK == ResInit => ResInv
<1> SUFFICES ASSUME ResInit PROVE ResInv
  OBVIOUS
<1>1. high \in [Mapped -> 1..2] /\ MaxPages \in Nat /\ MaxPages >= 2
  BY ResAssumption DEF ResInit, Mapped
<1>2. \A s \in Mapped : high[s] \in 0..MaxPages /\ high[s] \in Nat
  BY <1>1, SMT
<1>3. /\ warmed \in [Mapped -> Nat] /\ map_locked \in [Mapped -> BOOLEAN]
      /\ \A s \in Mapped : warmed[s] <= high[s]
  <2>1. CASE warmed = [s \in Mapped |-> 0] /\ map_locked = [s \in Mapped |-> FALSE]
    BY <1>2, <2>1, SMT
  <2>2. CASE warmed = high /\ map_locked \in [Mapped -> BOOLEAN]
    BY <1>1, <1>2, <2>2, SMT
  <2> QED BY <2>1, <2>2 DEF ResInit, Mapped
<1>4. /\ looked = [s \in Mapped |-> 0] /\ begun = looked /\ inline = FALSE
      /\ pinned = [s \in Mapped |-> IF map_locked[s] THEN 1..warmed[s] ELSE {}]
      /\ pass = [pc |-> "asleep", shard |-> 1, from |-> 0, limit |-> 0, locked |-> FALSE]
  BY DEF ResInit, Mapped
<1>5. high \in [Mapped -> 0..MaxPages]
  BY <1>1, <1>2
<1>6. pass \in Passes /\ pass.pc = "asleep"
  BY <1>4, SMT DEF Passes
<1>7. ResTyped
  BY <1>3, <1>4, <1>5, <1>6 DEF ResTyped
<1>8. MarksOK
  BY <1>3, <1>4 DEF MarksOK, Held
<1>9. PassOK
  BY <1>2, <1>4, <1>6, SMT DEF PassOK
<1> QED BY <1>4, <1>7, <1>8, <1>9 DEF ResInv, InlineCoversTheLastLook

\* Reads run on the workers only over pages the kernel holds, as far as the last whole
\* look reached, however maps grow and whatever the kernel refuses (lib.rs spawn_warmer,
\* env.rs warm_step, prefault.rs).
THEOREM InlineReadsAreHeld == ResSpec => []InlineCoversTheLastLook
<1>1. ResInit => ResInv
  BY ResInitOK
<1>2. ResInv /\ [ResNext]_resVars => ResInv'
  <2> SUFFICES ASSUME ResInv, [ResNext]_resVars PROVE ResInv'
    OBVIOUS
  <2>1. ASSUME NEW s \in Mapped, Grow(s) PROVE ResInv'
    BY <2>1, GrowKeeps
  <2>2. CASE BeginPass
    BY <2>2, BeginPassKeeps
  <2>3. CASE LookAtShard
    BY <2>3, LookAtShardKeeps
  <2>4. CASE WarmFails
    BY <2>4, WarmFailsKeeps
  <2>5. CASE EndPass \/ StepPanics
    BY <2>5, EndKeepsFlag
  <2>6. ASSUME NEW bytes \in 0..MaxPages, NEW ranges \in Splits,
               NEW granted \in SUBSET ranges, Warm(bytes, ranges, granted)
        PROVE  ResInv'
    BY <2>6, WarmKeeps
  <2>7. CASE UNCHANGED resVars
    BY <2>7 DEF resVars, ResInv, ResTyped, MarksOK, PassOK, Held, InlineCoversTheLastLook
  <2> QED BY <2>1, <2>2, <2>3, <2>4, <2>5, <2>6, <2>7 DEF ResNext, Mapped
<1>3. ResInv => InlineCoversTheLastLook
  BY DEF ResInv
<1> QED BY <1>1, <1>2, <1>3, PTL DEF ResSpec

-----------------------------------------------------------------------------
\* The slots of a shard's ReaderAges.
Slots == 0..(SLOTS - 1)

SlotsTyped ==
    /\ clock \in Nat /\ next_slot \in [ReadShards -> 0..(SLOTS + 1)]
    /\ starts \in [ReadShards -> [Slots -> Nat]] /\ reading \in [ReadThreads -> [ReadShards -> Nat]]
    /\ slot_of \in [ReadThreads -> [ReadShards -> Slots \cup {NoSlot}]]
    /\ mine \in [ReadThreads -> Slots \cup {NoSlot}]
    /\ origin \in [ReadThreads -> ReadShards \cup {NoSlot}]

\* A shard gives each of its numbers to one thread.
NumbersOK ==
    /\ \A th \in ReadThreads :
         mine[th] \in Slots => origin[th] \in ReadShards /\ mine[th] < next_slot[origin[th]]
    /\ \A a, b \in ReadThreads :
         mine[a] \in Slots /\ mine[a] = mine[b] /\ origin[a] = origin[b] => a = b

\* A guard holds the number of its thread, or none because the shard had none left.
GuardsOK ==
    \A th \in ReadThreads, sh \in ReadShards :
        /\ slot_of[th][sh] \in Slots => slot_of[th][sh] = mine[th] /\ reading[th][sh] # FREE
        /\ slot_of[th][sh] = NoSlot /\ reading[th][sh] # FREE => next_slot[sh] > SLOTS

\* A slot shows a read that is open, and the read of the only thread with its number.
ShownOK ==
    /\ \A sh \in ReadShards, i \in Slots :
         starts[sh][i] # FREE =>
            \E th \in ReadThreads : slot_of[th][sh] = i /\ reading[th][sh] = starts[sh][i]
    /\ \A th \in ReadThreads, sh \in ReadShards :
         /\ slot_of[th][sh] \in Slots
         /\ \A o \in ReadThreads : o # th => mine[o] # mine[th]
         => starts[sh][mine[th]] = reading[th][sh]

\* OldestReadIsReported is about the smallest start alone; it is kept because every
\* single slot is right, and that is so because no shard hands out a number twice.
SlotsOK == SlotsTyped /\ NumbersOK /\ GuardsOK /\ ShownOK

\* A set of times has an earliest one.
LEMMA Earliest ==
  ASSUME NEW S, S \subseteq Nat, S # {}
  PROVE  \E m \in S : \A x \in S : m <= x
<1> DEFINE R == OpToRel(<, Nat)
<1>1. IsWellFoundedOn(R, Nat)
  BY NatLessThanWellFounded
<1>2. PICK m \in S : \A y \in S : ~(<<y, m>> \in R)
  <2> HIDE DEF R
  <2> QED BY <1>1, WFMin
<1>3. \A y \in S : ~(y < m)
  BY <1>2 DEF OpToRel
<1> QED BY <1>3, SMT

\* What a read that begins or ends writes into the slots of its shard.
SlotSet(sh, slot, v) == starts' = IF slot = NoSlot THEN starts ELSE [starts EXCEPT ![sh][slot] = v]

\* Only one slot of one shard changes, when a read has one.
LEMMA OneSlot ==
  ASSUME SlotsTyped, NEW sh \in ReadShards, NEW slot \in Slots \cup {NoSlot}, NEW now \in Nat,
         SlotSet(sh, slot, now)
  PROVE  /\ starts' \in [ReadShards -> [Slots -> Nat]]
         /\ slot \in Slots => starts'[sh][slot] = now
         /\ \A s \in ReadShards, i \in Slots : s # sh \/ i # slot => starts'[s][i] = starts[s][i]
<1>1. NoSlot \notin Slots
  BY SMT DEF NoSlot, Slots
<1>2. CASE slot = NoSlot
  BY <1>1, <1>2 DEF SlotsTyped, SlotSet
<1>3. CASE slot \in Slots
  <2>1. starts' = [starts EXCEPT ![sh][slot] = now]
    BY <1>1, <1>3 DEF SlotSet
  <2> QED BY <2>1, <1>3, SMT DEF SlotsTyped
<1> QED BY <1>2, <1>3

\* A read begins: on a thread that has its number, on one that is given one now, or on
\* one that comes too late (readers.rs open).
LEMMA OpenCases ==
  ASSUME SlotsOK, NEW th \in ReadThreads, NEW sh \in ReadShards, open(th, sh)
  PROVE  \E slot \in Slots \cup {NoSlot}, now \in Nat \ {0} :
           /\ reading[th][sh] = FREE /\ reading' = [reading EXCEPT ![th][sh] = now]
           /\ slot_of' = [slot_of EXCEPT ![th][sh] = slot]
           /\ starts' = IF slot = NoSlot THEN starts ELSE [starts EXCEPT ![sh][slot] = now]
           /\ clock' = clock
           /\ \/ /\ mine[th] \in Slots /\ slot = mine[th]
                 /\ mine' = mine /\ origin' = origin /\ next_slot' = next_slot
              \/ /\ mine[th] = NoSlot /\ slot = next_slot[sh] /\ slot \in Slots
                 /\ mine' = [mine EXCEPT ![th] = slot] /\ origin' = [origin EXCEPT ![th] = sh]
                 /\ next_slot' = [next_slot EXCEPT ![sh] = slot + 1]
              \/ /\ mine[th] = NoSlot /\ slot = NoSlot /\ mine' = mine /\ origin' = origin
                 /\ next_slot' = [next_slot EXCEPT ![sh] = SLOTS + 1]
<1>1. PICK slot : slot = Claim(th, sh)
  OBVIOUS
<1>2. PICK now \in Nat \ {0} : now = Max1(clock)
  BY SMT DEF Max1, SlotsOK, SlotsTyped
<1>3. /\ reading[th][sh] = FREE /\ reading' = [reading EXCEPT ![th][sh] = now]
      /\ slot_of' = [slot_of EXCEPT ![th][sh] = slot]
      /\ starts' = IF slot = NoSlot THEN starts ELSE [starts EXCEPT ![sh][slot] = now]
      /\ clock' = clock
  BY <1>1, <1>2 DEF open
<1>4. /\ mine' = [mine EXCEPT ![th] = slot]
      /\ origin' = IF mine[th] = slot THEN origin ELSE [origin EXCEPT ![th] = sh]
      /\ next_slot' = IF mine[th] # NoSlot \/ next_slot[sh] > SLOTS THEN next_slot
                      ELSE [next_slot EXCEPT ![sh] = next_slot[sh] + 1]
  BY <1>1 DEF open
<1>5. mine[th] \in Slots \cup {NoSlot} /\ next_slot[sh] \in 0..(SLOTS + 1) /\ SLOTS \in Nat
  BY ReadersAssumption DEF SlotsOK, SlotsTyped
<1>6. mine = [mine EXCEPT ![th] = mine[th]] /\ next_slot = [next_slot EXCEPT ![sh] = next_slot[sh]]
  BY DEF SlotsOK, SlotsTyped
<1>7. NoSlot \notin Slots
  BY SMT DEF NoSlot, Slots
<1>8. CASE mine[th] \in Slots
  <2>1. slot = mine[th] /\ mine[th] # NoSlot
    BY <1>1, <1>7, <1>8 DEF Claim
  <2>2. mine' = mine /\ origin' = origin /\ next_slot' = next_slot
    BY <1>4, <1>6, <2>1
  <2> QED BY <1>2, <1>3, <1>8, <2>1, <2>2
<1>9. CASE mine[th] = NoSlot /\ next_slot[sh] < SLOTS
  <2>1. slot = next_slot[sh]
    BY <1>1, <1>9 DEF Claim
  <2>2. slot \in Slots /\ ~(next_slot[sh] > SLOTS)
    BY <1>5, <1>9, <2>1, SMT DEF Slots
  <2>3. mine[th] # slot
    BY <1>7, <1>9, <2>2
  <2>4. origin' = [origin EXCEPT ![th] = sh] /\ next_slot' = [next_slot EXCEPT ![sh] = slot + 1]
    BY <1>4, <1>9, <2>1, <2>2, <2>3
  <2> QED BY <1>2, <1>3, <1>4, <1>9, <2>1, <2>2, <2>4
<1>10. CASE mine[th] = NoSlot /\ ~(next_slot[sh] < SLOTS)
  <2>1. slot = NoSlot
    BY <1>1, <1>10 DEF Claim
  <2>2. mine' = mine /\ origin' = origin
    BY <1>4, <1>6, <1>10, <2>1
  <2>3. next_slot' = [next_slot EXCEPT ![sh] = SLOTS + 1]
    <3>1. CASE next_slot[sh] > SLOTS
      <4>1. next_slot[sh] = SLOTS + 1
        BY <1>5, <3>1, SMT
      <4> QED BY <1>4, <1>6, <3>1, <4>1
    <3>2. CASE ~(next_slot[sh] > SLOTS)
      <4>1. next_slot[sh] + 1 = SLOTS + 1
        BY <1>5, <1>10, <3>2, SMT
      <4> QED BY <1>4, <1>10, <3>2, <4>1
    <3> QED BY <3>1, <3>2
  <2> QED BY <1>2, <1>3, <1>10, <2>1, <2>2, <2>3
<1> QED BY <1>5, <1>8, <1>9, <1>10

\* A read that begins keeps every slot right.
LEMMA OpenKeeps ==
  ASSUME SlotsOK, NEW th \in ReadThreads, NEW sh \in ReadShards, open(th, sh)
  PROVE  SlotsOK'
<1>1. PICK slot \in Slots \cup {NoSlot}, now \in Nat \ {0} :
           /\ reading[th][sh] = FREE /\ reading' = [reading EXCEPT ![th][sh] = now]
           /\ slot_of' = [slot_of EXCEPT ![th][sh] = slot]
           /\ starts' = IF slot = NoSlot THEN starts ELSE [starts EXCEPT ![sh][slot] = now]
           /\ clock' = clock
           /\ \/ /\ mine[th] \in Slots /\ slot = mine[th]
                 /\ mine' = mine /\ origin' = origin /\ next_slot' = next_slot
              \/ /\ mine[th] = NoSlot /\ slot = next_slot[sh] /\ slot \in Slots
                 /\ mine' = [mine EXCEPT ![th] = slot] /\ origin' = [origin EXCEPT ![th] = sh]
                 /\ next_slot' = [next_slot EXCEPT ![sh] = slot + 1]
              \/ /\ mine[th] = NoSlot /\ slot = NoSlot /\ mine' = mine /\ origin' = origin
                 /\ next_slot' = [next_slot EXCEPT ![sh] = SLOTS + 1]
  BY OpenCases
<1>2. /\ SlotsTyped /\ NumbersOK /\ GuardsOK /\ ShownOK /\ NoSlot \notin Slots /\ SLOTS \in Nat
      /\ now \in Nat
  BY ReadersAssumption, SMT DEF SlotsOK, NoSlot, Slots
<1>3. /\ reading' \in [ReadThreads -> [ReadShards -> Nat]]
      /\ slot_of' \in [ReadThreads -> [ReadShards -> Slots \cup {NoSlot}]]
      /\ reading'[th][sh] = now /\ slot_of'[th][sh] = slot
      /\ \A a \in ReadThreads, s \in ReadShards :
           a # th \/ s # sh => reading'[a][s] = reading[a][s] /\ slot_of'[a][s] = slot_of[a][s]
  <2>1. SlotsTyped /\ now \in Nat
    BY <1>2
  <2>2. reading' = [reading EXCEPT ![th][sh] = now] /\ slot_of' = [slot_of EXCEPT ![th][sh] = slot]
    BY <1>1
  <2> QED BY <2>1, <2>2 DEF SlotsTyped
<1>4. /\ starts' \in [ReadShards -> [Slots -> Nat]]
      /\ slot \in Slots => starts'[sh][slot] = now
      /\ \A s \in ReadShards, i \in Slots : s # sh \/ i # slot => starts'[s][i] = starts[s][i]
  <2>1. SlotsTyped /\ now \in Nat
    BY <1>2
  <2>2. SlotSet(sh, slot, now)
    BY <1>1 DEF SlotSet
  <2> QED BY <2>1, <2>2, OneSlot
<1>5. /\ mine'[th] = slot
      /\ \A a \in ReadThreads : a # th => mine'[a] = mine[a] /\ origin'[a] = origin[a]
      /\ mine' \in [ReadThreads -> Slots \cup {NoSlot}]
      /\ origin' \in [ReadThreads -> ReadShards \cup {NoSlot}]
  <2>1. /\ mine \in [ReadThreads -> Slots \cup {NoSlot}]
        /\ origin \in [ReadThreads -> ReadShards \cup {NoSlot}]
    BY <1>2 DEF SlotsTyped
  <2>2. CASE mine' = mine /\ origin' = origin /\ slot = mine[th]
    BY <2>1, <2>2
  <2>3. CASE /\ mine' = [mine EXCEPT ![th] = slot] /\ origin' = [origin EXCEPT ![th] = sh]
             /\ slot \in Slots
    BY <2>1, <2>3
  <2> QED BY <1>1, <2>2, <2>3
<1>6. /\ slot \in 0..(SLOTS + 1) \cup {NoSlot} /\ (slot \in Slots => slot + 1 \in 0..(SLOTS + 1) /\ slot < slot + 1)
      /\ SLOTS + 1 \in 0..(SLOTS + 1) /\ SLOTS + 1 > SLOTS
  BY <1>2, SMT DEF Slots
<1>7. next_slot' \in [ReadShards -> 0..(SLOTS + 1)]
  BY <1>1, <1>2, <1>6 DEF SlotsTyped
<1>8. \A s \in ReadShards : next_slot[s] \in 0..(SLOTS + 1) /\ next_slot'[s] \in 0..(SLOTS + 1)
  BY <1>2, <1>7 DEF SlotsTyped
<1>9. \A s \in ReadShards : next_slot[s] <= next_slot'[s]
  <2> SUFFICES ASSUME NEW s \in ReadShards PROVE next_slot[s] <= next_slot'[s]
    OBVIOUS
  <2>1. \/ next_slot'[s] = next_slot[s]
        \/ next_slot'[s] = next_slot[s] + 1
        \/ next_slot'[s] = SLOTS + 1
    BY <1>1, <1>2, SMT DEF SlotsTyped
  <2> QED BY <1>2, <1>8, <2>1, SMT
<1>10. SlotsTyped'
  BY <1>1, <1>2, <1>3, <1>4, <1>5, <1>7 DEF SlotsTyped, Slots
<1>11. slot \in Slots => origin'[th] \in ReadShards /\ slot < next_slot'[origin'[th]]
  <2>1. CASE mine[th] \in Slots /\ slot = mine[th] /\ origin' = origin /\ next_slot' = next_slot
    BY <1>2, <2>1 DEF NumbersOK
  <2>2. CASE /\ slot \in Slots /\ origin' = [origin EXCEPT ![th] = sh]
             /\ next_slot' = [next_slot EXCEPT ![sh] = slot + 1]
    <3>1. origin'[th] = sh /\ next_slot'[sh] = slot + 1
      BY <1>2, <2>2 DEF SlotsTyped
    <3> QED BY <1>6, <2>2, <3>1
  <2> QED BY <1>1, <1>2, <2>1, <2>2
<1>12. ASSUME NEW a \in ReadThreads, a # th, slot \in Slots, mine[a] = slot, origin'[a] = origin'[th]
       PROVE  FALSE
  <2>1. origin'[a] = origin[a] /\ origin[a] \in ReadShards /\ mine[a] < next_slot[origin[a]]
    BY <1>2, <1>5, <1>12 DEF NumbersOK
  <2>2. CASE mine[th] \in Slots /\ slot = mine[th] /\ origin' = origin
    BY <1>2, <1>12, <2>1, <2>2 DEF NumbersOK
  <2>3. CASE slot = next_slot[sh] /\ origin' = [origin EXCEPT ![th] = sh]
    <3>1. origin'[th] = sh
      BY <1>2, <2>3 DEF SlotsTyped
    <3>2. slot < slot
      BY <1>12, <2>1, <2>3, <3>1
    <3> QED BY <1>12, <3>2, SMT DEF Slots
  <2> QED BY <1>1, <1>2, <1>12, <2>2, <2>3
<1>13. NumbersOK'
  <2>1. ASSUME NEW a \in ReadThreads, mine'[a] \in Slots
        PROVE  origin'[a] \in ReadShards /\ mine'[a] < next_slot'[origin'[a]]
    <3>1. CASE a = th
      BY <1>5, <1>11, <2>1, <3>1
    <3>2. CASE a # th
      <4>1. /\ mine'[a] = mine[a] /\ origin'[a] = origin[a] /\ origin[a] \in ReadShards
            /\ mine[a] < next_slot[origin[a]]
        BY <1>2, <1>5, <2>1, <3>2 DEF NumbersOK
      <4>2. next_slot[origin[a]] <= next_slot'[origin[a]] /\ next_slot[origin[a]] \in 0..(SLOTS + 1)
            /\ next_slot'[origin[a]] \in 0..(SLOTS + 1)
        BY <1>8, <1>9, <4>1
      <4>3. mine[a] < next_slot'[origin[a]]
        BY <1>2, <2>1, <4>1, <4>2, SMT DEF Slots
      <4> QED BY <4>1, <4>3
    <3> QED BY <3>1, <3>2
  <2>2. ASSUME NEW a \in ReadThreads, NEW b \in ReadThreads, mine'[a] \in Slots, mine'[a] = mine'[b],
               origin'[a] = origin'[b], a # b
        PROVE  FALSE
    <3>1. CASE a = th
      BY <1>5, <1>12, <2>2, <3>1
    <3>2. CASE b = th
      BY <1>5, <1>12, <2>2, <3>2
    <3>3. CASE a # th /\ b # th
      BY <1>2, <1>5, <2>2, <3>3 DEF NumbersOK
    <3> QED BY <3>1, <3>2, <3>3
  <2> QED BY <2>1, <2>2 DEF NumbersOK, Slots
<1>14. ASSUME NEW a \in ReadThreads, NEW s \in ReadShards
       PROVE  /\ slot_of'[a][s] \in Slots => slot_of'[a][s] = mine'[a] /\ reading'[a][s] # FREE
              /\ slot_of'[a][s] = NoSlot /\ reading'[a][s] # FREE => next_slot'[s] > SLOTS
  <2>1. CASE a = th /\ s = sh
    <3>1. slot_of'[a][s] = slot /\ mine'[a] = slot /\ reading'[a][s] = now
      BY <1>3, <1>5, <2>1
    <3>2. now # FREE
      BY <1>1 DEF FREE
    <3>3. slot = NoSlot => next_slot'[sh] > SLOTS
      BY <1>1, <1>2, <1>6 DEF SlotsTyped
    <3> QED BY <2>1, <3>1, <3>2, <3>3
  <2>2. CASE a # th \/ s # sh
    <3>1. /\ slot_of'[a][s] = slot_of[a][s] /\ reading'[a][s] = reading[a][s]
          /\ slot_of[a][s] \in Slots => slot_of[a][s] = mine[a] /\ reading[a][s] # FREE
          /\ slot_of[a][s] = NoSlot /\ reading[a][s] # FREE => next_slot[s] > SLOTS
      BY <1>2, <1>3, <2>2 DEF GuardsOK
    <3>2. slot_of[a][s] \in Slots => mine'[a] = mine[a]
      BY <1>1, <1>2, <1>5, <3>1, SMT
    <3>3. next_slot[s] > SLOTS => next_slot'[s] > SLOTS
      BY <1>2, <1>8, <1>9, SMT
    <3> QED BY <3>1, <3>2, <3>3
  <2> QED BY <2>1, <2>2
<1>15. GuardsOK'
  BY <1>14 DEF GuardsOK, Slots
<1>16. ASSUME NEW s \in ReadShards, NEW i \in Slots, starts'[s][i] # FREE
       PROVE  \E a \in ReadThreads : slot_of'[a][s] = i /\ reading'[a][s] = starts'[s][i]
  <2>1. CASE s = sh /\ i = slot
    BY <1>3, <1>4, <2>1
  <2>2. CASE s # sh \/ i # slot
    <3>1. starts'[s][i] = starts[s][i]
      BY <1>4, <2>2
    <3>2. PICK a \in ReadThreads : slot_of[a][s] = i /\ reading[a][s] = starts[s][i]
      BY <1>2, <1>16, <3>1 DEF ShownOK
    <3>3. a # th \/ s # sh
      BY <1>1, <1>16, <3>1, <3>2
    <3> QED BY <1>3, <3>1, <3>2, <3>3
  <2> QED BY <2>1, <2>2
<1>17. ASSUME NEW a \in ReadThreads, NEW s \in ReadShards, slot_of'[a][s] \in Slots,
              \A o \in ReadThreads : o # a => mine'[o] # mine'[a]
       PROVE  starts'[s][mine'[a]] = reading'[a][s]
  <2>1. CASE a = th /\ s = sh
    BY <1>3, <1>4, <1>5, <1>17, <2>1
  <2>2. CASE a # th \/ s # sh
    <3>1. slot_of'[a][s] = slot_of[a][s] /\ reading'[a][s] = reading[a][s] /\ slot_of[a][s] \in Slots
      BY <1>3, <1>17, <2>2
    <3>2. slot_of[a][s] = mine[a] /\ mine[a] \in Slots
      BY <1>2, <3>1 DEF GuardsOK
    <3>3. mine'[a] = mine[a]
      BY <1>1, <1>2, <1>5, <3>2
    <3>4. ASSUME NEW o \in ReadThreads, o # a PROVE mine[o] # mine[a]
      <4>1. mine'[o] # mine[a]
        BY <1>17, <3>3, <3>4
      <4>2. mine[o] = mine'[o] \/ mine[o] = NoSlot
        BY <1>1, <1>5
      <4> QED BY <1>2, <3>2, <4>1, <4>2
    <3>5. starts[s][mine[a]] = reading[a][s]
      BY <1>2, <3>1, <3>4 DEF ShownOK
    <3>6. s # sh \/ mine[a] # slot
      BY <1>5, <1>17, <2>2, <3>3
    <3> QED BY <1>4, <3>1, <3>2, <3>3, <3>5, <3>6
  <2> QED BY <2>1, <2>2
<1>18. ShownOK'
  BY <1>16, <1>17 DEF ShownOK, Slots
<1> QED BY <1>10, <1>13, <1>15, <1>18 DEF SlotsOK

\* The guard of a read is dropped: its slot is cleared, and what it may hide then is the
\* read of a thread with the same number only (readers.rs Drop).
LEMMA DropKeeps ==
  ASSUME SlotsOK, NEW th \in ReadThreads, NEW sh \in ReadShards, drop(th, sh)
  PROVE  SlotsOK'
<1>1. PICK slot \in Slots \cup {NoSlot} : slot = slot_of[th][sh]
  BY DEF SlotsOK, SlotsTyped
<1>2. /\ reading[th][sh] # FREE /\ reading' = [reading EXCEPT ![th][sh] = FREE]
      /\ starts' = IF slot = NoSlot THEN starts ELSE [starts EXCEPT ![sh][slot] = FREE]
      /\ slot_of' = [slot_of EXCEPT ![th][sh] = NoSlot]
      /\ next_slot' = next_slot /\ mine' = mine /\ origin' = origin /\ clock' = clock
  BY <1>1 DEF drop
<1>3. /\ SlotsTyped /\ NumbersOK /\ GuardsOK /\ ShownOK /\ NoSlot \notin Slots /\ FREE \in Nat
      /\ NoSlot \in Slots \cup {NoSlot}
  BY SMT DEF SlotsOK, NoSlot, Slots, FREE
<1>4. /\ reading' \in [ReadThreads -> [ReadShards -> Nat]]
      /\ slot_of' \in [ReadThreads -> [ReadShards -> Slots \cup {NoSlot}]]
      /\ reading'[th][sh] = FREE /\ slot_of'[th][sh] = NoSlot
      /\ \A a \in ReadThreads, s \in ReadShards :
           a # th \/ s # sh => reading'[a][s] = reading[a][s] /\ slot_of'[a][s] = slot_of[a][s]
  <2>1. SlotsTyped /\ FREE \in Nat /\ NoSlot \in Slots \cup {NoSlot}
    BY <1>3
  <2>2. reading' = [reading EXCEPT ![th][sh] = FREE] /\ slot_of' = [slot_of EXCEPT ![th][sh] = NoSlot]
    BY <1>2
  <2> QED BY <2>1, <2>2 DEF SlotsTyped
<1>5. /\ starts' \in [ReadShards -> [Slots -> Nat]]
      /\ slot \in Slots => starts'[sh][slot] = FREE
      /\ \A s \in ReadShards, i \in Slots : s # sh \/ i # slot => starts'[s][i] = starts[s][i]
  <2>1. SlotSet(sh, slot, FREE)
    BY <1>2 DEF SlotSet
  <2> QED BY <1>3, <2>1, OneSlot
<1>6. SlotsTyped'
  BY <1>2, <1>3, <1>4, <1>5 DEF SlotsTyped, Slots
<1>7. NumbersOK'
  BY <1>2, <1>3 DEF NumbersOK, Slots
<1>8. GuardsOK'
  <2>1. ASSUME NEW a \in ReadThreads, NEW s \in ReadShards
        PROVE  /\ slot_of'[a][s] \in Slots => slot_of'[a][s] = mine[a] /\ reading'[a][s] # FREE
               /\ slot_of'[a][s] = NoSlot /\ reading'[a][s] # FREE => next_slot[s] > SLOTS
    <3>1. CASE a = th /\ s = sh
      BY <1>3, <1>4, <3>1
    <3>2. CASE a # th \/ s # sh
      <4>1. reading'[a][s] = reading[a][s] /\ slot_of'[a][s] = slot_of[a][s]
        BY <1>4, <3>2
      <4> QED BY <1>3, <4>1 DEF GuardsOK
    <3> QED BY <3>1, <3>2
  <2> QED BY <1>2, <2>1 DEF GuardsOK, Slots
<1>9. ASSUME NEW s \in ReadShards, NEW i \in Slots, starts'[s][i] # FREE
      PROVE  \E a \in ReadThreads : slot_of'[a][s] = i /\ reading'[a][s] = starts'[s][i]
  <2>1. s # sh \/ i # slot
    BY <1>5, <1>9
  <2>2. starts'[s][i] = starts[s][i]
    BY <1>5, <2>1
  <2>3. PICK a \in ReadThreads : slot_of[a][s] = i /\ reading[a][s] = starts[s][i]
    BY <1>3, <1>9, <2>2 DEF ShownOK
  <2>4. a # th \/ s # sh
    BY <1>1, <2>1, <2>3
  <2> QED BY <1>4, <2>2, <2>3, <2>4
<1>10. ASSUME NEW a \in ReadThreads, NEW s \in ReadShards, slot_of'[a][s] \in Slots,
              \A o \in ReadThreads : o # a => mine[o] # mine[a]
       PROVE  starts'[s][mine[a]] = reading'[a][s]
  <2>1. a # th \/ s # sh
    BY <1>3, <1>4, <1>10
  <2>2. slot_of'[a][s] = slot_of[a][s] /\ reading'[a][s] = reading[a][s] /\ slot_of[a][s] \in Slots
    BY <1>4, <1>10, <2>1
  <2>3. mine[a] \in Slots /\ starts[s][mine[a]] = reading[a][s]
    BY <1>3, <1>10, <2>2 DEF GuardsOK, ShownOK
  <2>4. s # sh \/ mine[a] # slot
    <3>1. slot \in Slots => mine[th] = slot
      BY <1>1, <1>3 DEF GuardsOK
    <3> QED BY <1>10, <2>1, <2>3, <3>1
  <2> QED BY <1>5, <2>2, <2>3, <2>4
<1>11. ShownOK'
  BY <1>2, <1>9, <1>10, SMT DEF ShownOK, Slots
<1> QED BY <1>6, <1>7, <1>8, <1>11 DEF SlotsOK

\* The smallest start in the slots of a shard is the start of a read open on it, and at
\* most the start of every read whose thread has a number of its own.
LEMMA SlotsShowReads ==
  ASSUME SlotsOK
  PROVE  OldestReadIsReported
<1>1. SlotsTyped /\ NumbersOK /\ GuardsOK /\ ShownOK /\ NoSlot \notin Slots
  BY SMT DEF SlotsOK, NoSlot, Slots
<1> SUFFICES ASSUME NEW sh \in ReadShards
    PROVE  /\ \/ oldest_age_ms(sh) = 0
              \/ \E th \in Reading(sh) : oldest_age_ms(sh) = clock - reading[th][sh]
           /\ \A th \in Reading(sh) :
                \/ slot_of[th][sh] # NoSlot /\ clock - reading[th][sh] <= oldest_age_ms(sh)
                \/ slot_of[th][sh] # NoSlot /\ ~HasOwnNumber(th)
                \/ slot_of[th][sh] = NoSlot /\ next_slot[sh] > SLOTS
  BY DEF OldestReadIsReported
<1> DEFINE S == {starts[sh][i] : i \in Slots} \ {FREE}
<1>2. oldest_age_ms(sh) = IF S = {} THEN 0 ELSE clock - CHOOSE s \in S : \A r \in S : s <= r
  BY DEF oldest_age_ms, Slots
<1>3. S \subseteq Nat /\ clock \in Nat
  BY <1>1, SMT DEF SlotsTyped
<1>4. ASSUME S # {}
      PROVE  \E m \in S : oldest_age_ms(sh) = clock - m /\ \A r \in S : m <= r
  <2> HIDE DEF S
  <2>1. \E m \in S : \A r \in S : m <= r
    BY <1>3, <1>4, Earliest
  <2>2. PICK m : m = CHOOSE s \in S : \A r \in S : s <= r
    OBVIOUS
  <2>3. m \in S /\ \A r \in S : m <= r
    BY <2>1, <2>2
  <2>4. oldest_age_ms(sh) = clock - m
    BY <1>2, <1>4, <2>2
  <2> QED BY <2>3, <2>4
<1>5. oldest_age_ms(sh) = 0 \/ \E th \in Reading(sh) : oldest_age_ms(sh) = clock - reading[th][sh]
  <2>1. CASE S = {}
    BY <1>2, <2>1
  <2>2. CASE S # {}
    <3>1. PICK m \in S : oldest_age_ms(sh) = clock - m
      BY <1>4, <2>2
    <3>2. PICK i \in Slots : m = starts[sh][i]
      OBVIOUS
    <3>3. m # FREE
      OBVIOUS
    <3>4. PICK th \in ReadThreads : reading[th][sh] = starts[sh][i]
      BY <1>1, <3>2, <3>3 DEF ShownOK
    <3>5. th \in Reading(sh)
      BY <3>2, <3>3, <3>4 DEF Reading
    <3> QED BY <3>1, <3>2, <3>4, <3>5
  <2> QED BY <2>1, <2>2
<1>6. ASSUME NEW th \in Reading(sh), slot_of[th][sh] # NoSlot, HasOwnNumber(th)
      PROVE  clock - reading[th][sh] <= oldest_age_ms(sh)
  <2>1. th \in ReadThreads /\ reading[th][sh] # FREE
    BY DEF Reading
  <2>2. slot_of[th][sh] \in Slots
    BY <1>1, <1>6, <2>1, SMT DEF SlotsTyped
  <2>3. mine[th] \in Slots
    BY <1>1, <2>1, <2>2 DEF GuardsOK
  <2>4. \A o \in ReadThreads : o # th => mine[o] # mine[th]
    BY <1>1, <1>6, <2>1, <2>3 DEF HasOwnNumber, NumbersOK
  <2>5. starts[sh][mine[th]] = reading[th][sh]
    BY <1>1, <2>1, <2>2, <2>4 DEF ShownOK
  <2>6. reading[th][sh] \in S
    BY <2>1, <2>3, <2>5
  <2>7. PICK m \in S : oldest_age_ms(sh) = clock - m /\ m <= reading[th][sh]
    BY <1>4, <2>6
  <2>8. m \in Nat /\ reading[th][sh] \in Nat
    BY <1>3, <2>6
  <2> HIDE DEF S
  <2> QED BY <1>3, <2>7, <2>8, SMT
<1>7. ASSUME NEW th \in Reading(sh), slot_of[th][sh] = NoSlot PROVE next_slot[sh] > SLOTS
  BY <1>1, <1>7 DEF GuardsOK, Reading
<1> HIDE DEF S
<1> QED BY <1>5, <1>6, <1>7

\* Time alone changes no slot.
LEMMA SameSlots ==
  ASSUME SlotsOK, UNCHANGED <<starts, next_slot, mine, origin, reading, slot_of>>, clock' \in Nat
  PROVE  SlotsOK'
<1>1. SlotsTyped'
  BY DEF SlotsOK, SlotsTyped, Slots
<1>2. NumbersOK'
  BY DEF SlotsOK, NumbersOK, Slots
<1>3. GuardsOK'
  BY DEF SlotsOK, GuardsOK, Slots
<1>4. ShownOK'
  BY DEF SlotsOK, ShownOK, Slots
<1> QED BY <1>1, <1>2, <1>3, <1>4 DEF SlotsOK

\* The age a shard reports is that of a read open on it, and no read whose thread has a
\* number of its own is older, however many threads and shards hand out and use the slots
\* (readers.rs ReaderAges).
THEOREM AgesAreTrue == ReadersSpec => []OldestReadIsReported
<1>1. ReadersInit => SlotsOK
  <2> SUFFICES ASSUME ReadersInit PROVE SlotsOK
    OBVIOUS
  <2>1. NoSlot \notin Slots /\ FREE \in Nat /\ 0 \in 0..(SLOTS + 1) /\ 1 \in Nat
    BY ReadersAssumption, SMT DEF NoSlot, Slots, FREE
  <2>2. /\ starts = [sh \in ReadShards |-> [i \in Slots |-> FREE]]
        /\ next_slot = [sh \in ReadShards |-> 0] /\ clock = 1
        /\ mine = [th \in ReadThreads |-> NoSlot] /\ origin = [th \in ReadThreads |-> NoSlot]
        /\ reading = [th \in ReadThreads |-> [sh \in ReadShards |-> FREE]]
        /\ slot_of = [th \in ReadThreads |-> [sh \in ReadShards |-> NoSlot]]
    BY DEF ReadersInit, Slots
  <2>3. SlotsTyped
    BY <2>1, <2>2 DEF SlotsTyped
  <2>4. NumbersOK
    BY <2>1, <2>2 DEF NumbersOK
  <2>5. GuardsOK
    BY <2>1, <2>2 DEF GuardsOK
  <2>6. ShownOK
    BY <2>1, <2>2 DEF ShownOK
  <2> QED BY <2>3, <2>4, <2>5, <2>6 DEF SlotsOK
<1>2. SlotsOK /\ [ReadersNext]_readerVars => SlotsOK'
  <2> SUFFICES ASSUME SlotsOK, [ReadersNext]_readerVars PROVE SlotsOK'
    OBVIOUS
  <2>1. CASE Pass
    <3>1. clock' \in Nat
      BY <2>1, SMT DEF Pass, SlotsOK, SlotsTyped
    <3> QED BY <2>1, <3>1, SameSlots DEF Pass
  <2>2. ASSUME NEW th \in ReadThreads, NEW sh \in ReadShards, open(th, sh) PROVE SlotsOK'
    BY <2>2, OpenKeeps
  <2>3. ASSUME NEW th \in ReadThreads, NEW sh \in ReadShards, drop(th, sh) PROVE SlotsOK'
    BY <2>3, DropKeeps
  <2>4. CASE UNCHANGED readerVars
    BY <2>4, SameSlots DEF readerVars, SlotsOK, SlotsTyped
  <2> QED BY <2>1, <2>2, <2>3, <2>4 DEF ReadersNext
<1>3. SlotsOK => OldestReadIsReported
  BY SlotsShowReads
<1> QED BY <1>1, <1>2, <1>3, PTL DEF ReadersSpec

==============================================================================
