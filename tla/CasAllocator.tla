---------------------------- MODULE CasAllocator ----------------------------
(***************************************************************************)
(* How CAS tokens are handed out (vash-store apply.rs next_cas, env.rs     *)
(* open, schema.rs CAS_BLOCK).  Every shard counts on its own in memory,   *)
(* reserves counters a block at a time by writing a watermark in the       *)
(* transaction that first needs it, and resumes at the durable watermark   *)
(* after a restart.  A token stripes the counter with the shard's index.   *)
(***************************************************************************)
EXTENDS Integers, FiniteSets

CONSTANTS
  ShardCount,   \* number of shards of the store
  CasBlock,     \* CAS_BLOCK
  Fails,        \* which transactions may fail: "in_block" ones, that use counters
                \* reserved before, and "reserving" ones, that raise the watermark
  Restarts,     \* whether the process may stop and start again
  MaxCounter    \* bound of the model

ASSUME CasAssumption ==
  /\ ShardCount \in Nat \ {0}
  /\ CasBlock \in Nat \ {0}
  /\ Fails \subseteq {"in_block", "reserving"}
  /\ Restarts \in BOOLEAN
  /\ MaxCounter \in Nat

Shards == 0 .. ShardCount - 1

VARIABLES
  cas_next,       \* last counter taken, in memory
  cas_watermark,  \* end of the reserved block, in memory
  written,        \* the watermark as the shard's open transaction sees it
  durable,        \* the committed watermark
  pending,        \* counters whose records are in the open transaction
  handed          \* counters of committed records

vars == <<cas_next, cas_watermark, written, durable, pending, handed>>

Token(s, counter) == counter * ShardCount + s

Exhausted(s) == cas_next[s] + 1 >= cas_watermark[s]

\* Mutant: the block is reserved in memory only.
next_cas_unwritten(s) ==
  LET counter == cas_next[s] + 1
  IN  /\ cas_next[s] < MaxCounter
      /\ cas_next' = [cas_next EXCEPT ![s] = counter]
      /\ cas_watermark' = [cas_watermark EXCEPT ![s] = IF Exhausted(s) THEN counter + CasBlock ELSE @]
      /\ pending' = [pending EXCEPT ![s] = @ \cup {counter}]
      /\ UNCHANGED <<written, durable, handed>>

next_cas(s) ==
  LET counter == cas_next[s] + 1
      mark    == IF Exhausted(s) THEN counter + CasBlock ELSE cas_watermark[s]
  IN  /\ cas_next[s] < MaxCounter
      /\ cas_next' = [cas_next EXCEPT ![s] = counter]
      /\ cas_watermark' = [cas_watermark EXCEPT ![s] = mark]
      /\ written' = [written EXCEPT ![s] = IF Exhausted(s) THEN mark ELSE @]
      /\ pending' = [pending EXCEPT ![s] = @ \cup {counter}]
      /\ UNCHANGED <<durable, handed>>

\* Mutant: the watermark is left out of the commit.
CommitWithoutMark(s) ==
  /\ pending[s] # {}
  /\ handed' = [handed EXCEPT ![s] = @ \cup pending[s]]
  /\ pending' = [pending EXCEPT ![s] = {}]
  /\ UNCHANGED <<cas_next, cas_watermark, written, durable>>

\* The transaction commits: its records and its watermark become durable.
Commit(s) ==
  /\ pending[s] # {}
  /\ durable' = [durable EXCEPT ![s] = written[s]]
  /\ handed' = [handed EXCEPT ![s] = @ \cup pending[s]]
  /\ pending' = [pending EXCEPT ![s] = {}]
  /\ UNCHANGED <<cas_next, cas_watermark, written>>

Drop(s) ==
  /\ pending' = [pending EXCEPT ![s] = {}]
  /\ written' = [written EXCEPT ![s] = durable[s]]
  /\ UNCHANGED <<durable, handed>>

\* The transaction fails.  Memory keeps the counter and the watermark the
\* lost transaction had raised them to.
Abort(s) ==
  /\ pending[s] # {}
  /\ IF written[s] = durable[s] THEN "in_block" \in Fails ELSE "reserving" \in Fails
  /\ Drop(s)
  /\ UNCHANGED <<cas_next, cas_watermark>>

\* Writing the watermark itself fails: only the counter had been advanced.
ReserveFails(s) ==
  /\ Exhausted(s) /\ cas_next[s] < MaxCounter
  /\ "in_block" \in Fails /\ (written[s] # durable[s] => "reserving" \in Fails)
  /\ cas_next' = [cas_next EXCEPT ![s] = @ + 1]
  /\ Drop(s)
  /\ UNCHANGED cas_watermark

\* Mutant: the counter starts over.
RestartAtZero ==
  /\ Restarts
  /\ cas_next' = [s \in Shards |-> 0]
  /\ cas_watermark' = durable
  /\ written' = durable
  /\ pending' = [s \in Shards |-> {}]
  /\ UNCHANGED <<durable, handed>>

\* The process stops, cleanly or not, and every shard is opened again.
Restart ==
  /\ Restarts
  /\ cas_next' = durable
  /\ cas_watermark' = durable
  /\ written' = durable
  /\ pending' = [s \in Shards |-> {}]
  /\ UNCHANGED <<durable, handed>>

Init ==
  /\ cas_next = [s \in Shards |-> 0]
  /\ cas_watermark = [s \in Shards |-> 0]
  /\ written = [s \in Shards |-> 0]
  /\ durable = [s \in Shards |-> 0]
  /\ pending = [s \in Shards |-> {}]
  /\ handed = [s \in Shards |-> {}]

Next ==
  \/ \E s \in Shards : next_cas(s) \/ Commit(s) \/ Abort(s) \/ ReserveFails(s)
  \/ Restart

Spec == Init /\ [][Next]_vars

----------------------------------------------------------------------------
(* What the tokens promise *)

\* Counters and watermarks are naturals (apply.rs next_cas takes them from
\* AtomicU64s), and so are the counters of the records written and committed.
TypeOK ==
  /\ cas_next \in [Shards -> Nat]
  /\ cas_watermark \in [Shards -> Nat]
  /\ written \in [Shards -> Nat]
  /\ durable \in [Shards -> Nat]
  /\ pending \in [Shards -> SUBSET Nat]
  /\ handed \in [Shards -> SUBSET Nat]

\* "Every token unique server-wide" (apply.rs next_cas): a token given to a
\* record being written is not the token of a committed record, nor of a
\* record another shard is writing, whatever failed or restarted since.
UniqueTokens ==
  \A s, t \in Shards : \A c \in pending[s] :
    /\ \A d \in handed[t] : Token(s, c) # Token(t, d)
    /\ s # t => \A d \in pending[t] : Token(s, c) # Token(t, d)

\* "Strictly increasing within a shard, and therefore within any single key,
\* which is the only ordering compare-and-swap depends on" (apply.rs next_cas).
IncreasingTokens ==
  \A s \in Shards : \A c \in pending[s] : \A d \in handed[s] : Token(s, d) < Token(s, c)

\* The inductive invariant.  A handed counter is behind the counter in memory
\* and, unless nothing restarts, inside a durable reservation; memory and the
\* open transaction agree on the watermark.  Only the failure of a transaction
\* that raised the watermark breaks the agreement.
Reserved ==
  /\ TypeOK
  /\ \A s \in Shards :
       /\ \A d \in handed[s] : d <= cas_next[s]
       /\ \A c \in pending[s] : c <= cas_next[s] /\ \A d \in handed[s] : d < c
       /\ Restarts =>
            /\ written[s] = cas_watermark[s]
            /\ \A d \in handed[s] : d <= durable[s]
            /\ \A c \in pending[s] : c <= written[s]

=============================================================================
