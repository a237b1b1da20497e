------------------------------ MODULE Readers ------------------------------
(***************************************************************************)
(* The age of the oldest open read of a shard (readers.rs).  Every shard   *)
(* has its own slots and hands them out itself; a thread keeps the first   *)
(* it is given, SLOT, and uses that number on every shard.  A read puts    *)
(* its start into the slot and its guard clears it.  A batch reads several *)
(* shards at once (store.rs get_many), each of them once.                  *)
(***************************************************************************)
EXTENDS Integers

CONSTANTS ReadThreads, ReadShards, SLOTS, MaxTime

ASSUME ReadersAssumption == SLOTS \in Nat

VARIABLES
    starts,     \* per shard and slot: when the read in it began, or FREE
    next_slot,  \* per shard: ReaderAges::next
    mine,       \* per thread: SLOT, or NoSlot
    origin,     \* per thread: the shard that gave it its slot, or NoSlot
    reading,    \* per thread and shard: when its read began, or FREE
    slot_of,    \* per thread and shard: the slot of its ReaderGuard, or NoSlot
    clock

readerVars == <<starts, next_slot, mine, origin, reading, slot_of, clock>>

FREE == 0
NoSlot == -1

Max1(n) == IF n < 1 THEN 1 ELSE n

(* A slip: the last slot is handed out twice. *)
ClaimTwice(th, sh) ==
    IF mine[th] # NoSlot THEN mine[th]
    ELSE IF next_slot[sh] < SLOTS THEN next_slot[sh] ELSE SLOTS - 1

(* The slot of a thread, claimed at its first read from the shard it reads. *)
(* A thread that found none left asks again at its next read.               *)
Claim(th, sh) ==
    IF mine[th] # NoSlot THEN mine[th]
    ELSE IF next_slot[sh] < SLOTS THEN next_slot[sh] ELSE NoSlot

open(th, sh) ==
    /\ reading[th][sh] = FREE
    /\ \E slot \in {Claim(th, sh)} :
         /\ mine' = [mine EXCEPT ![th] = slot]
         /\ origin' = IF mine[th] = slot THEN origin ELSE [origin EXCEPT ![th] = sh]
         /\ next_slot' = IF mine[th] # NoSlot \/ next_slot[sh] > SLOTS THEN next_slot
                         ELSE [next_slot EXCEPT ![sh] = @ + 1]
         /\ starts' = IF slot = NoSlot THEN starts
                      ELSE [starts EXCEPT ![sh][slot] = Max1(clock)]
         /\ slot_of' = [slot_of EXCEPT ![th][sh] = slot]
    /\ reading' = [reading EXCEPT ![th][sh] = Max1(clock)]
    /\ UNCHANGED clock

(* The guard is dropped, on every way out of the read. *)
drop(th, sh) ==
    /\ reading[th][sh] # FREE
    /\ starts' = IF slot_of[th][sh] = NoSlot THEN starts
                 ELSE [starts EXCEPT ![sh][slot_of[th][sh]] = FREE]
    /\ reading' = [reading EXCEPT ![th][sh] = FREE]
    /\ slot_of' = [slot_of EXCEPT ![th][sh] = NoSlot]
    /\ UNCHANGED <<next_slot, mine, origin, clock>>

Pass ==
    /\ clock < MaxTime
    /\ clock' = clock + 1
    /\ UNCHANGED <<starts, next_slot, mine, origin, reading, slot_of>>

oldest_age_ms(sh) ==
    LET open_since == {starts[sh][i] : i \in 0..(SLOTS - 1)} \ {FREE}
    IN  IF open_since = {} THEN 0
        ELSE clock - CHOOSE s \in open_since : \A r \in open_since : s <= r

ReadersInit ==
    /\ starts = [sh \in ReadShards |-> [i \in 0..(SLOTS - 1) |-> FREE]]
    /\ next_slot = [sh \in ReadShards |-> 0]
    /\ mine = [th \in ReadThreads |-> NoSlot]
    /\ origin = [th \in ReadThreads |-> NoSlot]
    /\ reading = [th \in ReadThreads |-> [sh \in ReadShards |-> FREE]]
    /\ slot_of = [th \in ReadThreads |-> [sh \in ReadShards |-> NoSlot]]
    /\ clock = 1

ReadersNext ==
    Pass \/ \E th \in ReadThreads, sh \in ReadShards : open(th, sh) \/ drop(th, sh)

ReadersSpec == ReadersInit /\ [][ReadersNext]_readerVars

-----------------------------------------------------------------------------
Reading(sh) == {th \in ReadThreads : reading[th][sh] # FREE}

(* No thread was given the same number by another shard. *)
HasOwnNumber(th) ==
    \A other \in ReadThreads : mine[other] = mine[th] => origin[other] = origin[th]

(* readers.rs: the age a shard reports is that of a read open on it, never  *)
(* of one that ended, and no read is older whose thread has a slot and a    *)
(* number of its own.  A thread shares its number only with one that got it *)
(* from another shard, and is without one only after this shard's ran out.  *)
OldestReadIsReported ==
    \A sh \in ReadShards :
        /\ \/ oldest_age_ms(sh) = 0
           \/ \E th \in Reading(sh) : oldest_age_ms(sh) = clock - reading[th][sh]
        /\ \A th \in Reading(sh) :
             \/ slot_of[th][sh] # NoSlot /\ clock - reading[th][sh] <= oldest_age_ms(sh)
             \/ slot_of[th][sh] # NoSlot /\ ~HasOwnNumber(th)
             \/ slot_of[th][sh] = NoSlot /\ next_slot[sh] > SLOTS

(* readers.rs:18: each thread claims one slot, so a read with a slot is     *)
(* never older than the age reported.  Two shards number their slots each   *)
(* for itself, and then it may be.                                          *)
EveryReadIsMeasured ==
    \A sh \in ReadShards : \A th \in Reading(sh) :
        slot_of[th][sh] # NoSlot => clock - reading[th][sh] <= oldest_age_ms(sh)
=============================================================================
