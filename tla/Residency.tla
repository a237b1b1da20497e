----------------------------- MODULE Residency -----------------------------
(***************************************************************************)
(* Resident mode: the warmer that reads each shard's data file into the    *)
(* page cache, asks the kernel to lock the map over it, and lets reads run *)
(* on the runtime's workers while every map is locked (lib.rs              *)
(* spawn_warmer, store.rs warm_step, env.rs warm_step, lmdb.rs warm,       *)
(* prefault.rs).  The writers go on extending the maps meanwhile.          *)
(*                                                                         *)
(* Sizes are in pages.  The kernel may refuse a read or a lock at any      *)
(* time, and may show a map as one range or as several; a lock it granted  *)
(* is never taken back.                                                    *)
(***************************************************************************)
EXTENDS Integers

CONSTANTS WarmShards, MaxPages, MaxPasses

(* A map has room for what it is opened with. *)
ASSUME ResAssumption == WarmShards \in Nat /\ MaxPages \in Nat /\ MaxPages >= 2

VARIABLES
    high,       \* per shard: how far its map was ever written
    warmed,     \* per shard: warmed_bytes
    map_locked, \* per shard: the verdict of its last step
    pinned,     \* per shard: the pages the kernel holds in memory
    pass,       \* [pc, shard, from, limit, locked]: the walk over the shards
    inline,     \* ServerState::inline_reads
    looked,     \* per shard: what was written when the last whole pass began
    begun,      \* per shard: what was written when this pass began
    passes

resVars == <<high, warmed, map_locked, pinned, pass, inline, looked, begun, passes>>

(* A writer allocates a page. *)
Grow(s) ==
    /\ high[s] < MaxPages
    /\ high' = [high EXCEPT ![s] = @ + 1]
    /\ UNCHANGED <<warmed, map_locked, pinned, pass, inline, looked, begun, passes>>

(* The timer of spawn_warmer: a pass over the shards on a pool thread. *)
BeginPass ==
    /\ pass.pc = "asleep" /\ passes < MaxPasses
    /\ pass' = [pc |-> "shard", shard |-> 1, from |-> 0, limit |-> 0, locked |-> TRUE]
    /\ begun' = high
    /\ passes' = passes + 1
    /\ UNCHANGED <<high, warmed, map_locked, pinned, inline, looked>>

(* The next shard of store.rs warm_step: all are stepped, whatever the      *)
(* verdict so far.                                                          *)
NextShard(locked) == [pass EXCEPT !.pc = "shard", !.shard = @ + 1, !.locked = @ /\ locked]

Stepping == pass.pc = "shard" /\ pass.shard <= WarmShards

(* A slip: a shard that was locked is not looked at again. *)
NothingNewOnceLocked(from, s) == from > 0 /\ (from >= high[s] \/ map_locked[s])

(* warm_step has nothing to do when the mark of its last step still stands. *)
NothingNew(from, s) == from >= high[s] /\ from > 0

(* env.rs warm_step: what is new since the mark, or the old verdict. *)
LookAtShard ==
    /\ Stepping
    /\ LET s == pass.shard
           from == warmed[s]
       IN  pass' = IF NothingNew(from, s) THEN NextShard(map_locked[s])
                   ELSE [pass EXCEPT !.pc = "warm", !.from = from, !.limit = high[s]]
    /\ UNCHANGED <<high, warmed, map_locked, pinned, inline, looked, begun, passes>>

Publish(s, bytes, locked) ==
    /\ warmed' = [warmed EXCEPT ![s] = bytes]
    /\ map_locked' = [map_locked EXCEPT ![s] = locked]
    /\ pass' = NextShard(locked)
    /\ UNCHANGED <<high, inline, looked, begun, passes>>

(* The read fails: the mark goes back to the beginning. *)
WarmFails ==
    /\ pass.pc = "warm"
    /\ Publish(pass.shard, 0, FALSE)
    /\ UNCHANGED pinned

(* warm_page_cache: the read gets as far as the map reached when it began.  *)
(* A shorter file ends it early.                                            *)
Reached == pass.from..pass.limit

(* The ranges /proc/self/maps may show of a map: none that can be found,    *)
(* one, or two where the kernel has split it.                               *)
Splits == {{}, {1..MaxPages}, {1..1, 2..MaxPages}}

Clamped(range, bytes) == {page \in range : page <= bytes}

(* populate_page_tables: each range is locked as far as was read, and one   *)
(* that is refused decides.                                                 *)
populate_page_tables(ranges, bytes, granted) ==
    LET asked == {range \in ranges : Clamped(range, bytes) # {}}
    IN  asked # {} /\ asked \subseteq granted

(* prefault.  Where the file may be shorter than the map there is no lock   *)
(* to ask for, and no range is found.                                       *)
Warm(bytes, ranges, granted) ==
    /\ pass.pc = "warm"
    /\ bytes \in Reached
    /\ ranges # {} => bytes = pass.limit
    /\ pinned' = [pinned EXCEPT ![pass.shard] =
                    @ \cup UNION {Clamped(range, bytes) : range \in granted}]
    /\ Publish(pass.shard, bytes, populate_page_tables(ranges, bytes, granted))

(* The verdict over all shards becomes the flag; a step that panicked is a  *)
(* verdict of "not resident".                                               *)
EndPass ==
    /\ pass.pc = "shard" /\ pass.shard > WarmShards
    /\ inline' = pass.locked
    /\ looked' = begun
    /\ pass' = [pass EXCEPT !.pc = "asleep"]
    /\ UNCHANGED <<high, warmed, map_locked, pinned, begun, passes>>

StepPanics ==
    /\ pass.pc \in {"shard", "warm"}
    /\ inline' = FALSE
    /\ looked' = begun
    /\ pass' = [pass EXCEPT !.pc = "asleep"]
    /\ UNCHANGED <<high, warmed, map_locked, pinned, begun, passes>>

(* Engine::open: nothing is warmed, or, with warm_at_open, all that there   *)
(* is, and locked where the kernel agrees.  A map has a page from the start.*)
ResInit ==
    /\ high \in [1..WarmShards -> 1..2]
    /\ \/ warmed = [s \in 1..WarmShards |-> 0] /\ map_locked = [s \in 1..WarmShards |-> FALSE]
       \/ warmed = high /\ map_locked \in [1..WarmShards -> BOOLEAN]
    /\ pinned = [s \in 1..WarmShards |-> IF map_locked[s] THEN 1..warmed[s] ELSE {}]
    /\ pass = [pc |-> "asleep", shard |-> 1, from |-> 0, limit |-> 0, locked |-> FALSE]
    /\ inline = FALSE /\ passes = 0
    /\ looked = [s \in 1..WarmShards |-> 0] /\ begun = looked

ResNext ==
    \/ \E s \in 1..WarmShards : Grow(s)
    \/ BeginPass \/ LookAtShard \/ WarmFails \/ EndPass \/ StepPanics
    \/ \E bytes \in 0..MaxPages, ranges \in Splits : \E granted \in SUBSET ranges :
         Warm(bytes, ranges, granted)

ResSpec == ResInit /\ [][ResNext]_resVars

-----------------------------------------------------------------------------
(* Properties.                                                              *)

(* spawn_warmer: while reads run on the workers, every map is held in       *)
(* memory as far as it reached when the last pass began, through growth     *)
(* during a pass, failed reads, refused locks and panics: only pages newer  *)
(* than the last look can fault.                                            *)
InlineCoversTheLastLook ==
    inline => \A s \in 1..WarmShards : 1..looked[s] \subseteq pinned[s]
=============================================================================
