------------------------------ MODULE SlowLog ------------------------------
(***************************************************************************)
(* The slow log and the wait it reports.  A writer's reply leaves how long *)
(* the write was queued in a slot of the thread that receives it           *)
(* (vash-store/src/writer.rs queue_wait); the instrumentation of the       *)
(* command reads and clears that slot (introspect/mod.rs observed,         *)
(* observed_batch), splits the command's time by it and, when the command  *)
(* was slow, records an entry in the ring of the thread's lane             *)
(* (introspect/slowlog.rs).                                                *)
(*                                                                         *)
(* Blocks on the pool run on one thread from end to end.  A run of writes  *)
(* served by the runtime is awaited one shard after another, and a worker  *)
(* that picks the task up again need not be the one that put it down       *)
(* (conn.rs run_writes_awaited, vash-store/src/lib.rs PendingSets::wait).  *)
(* The pool also runs the merges of gossip (cluster.rs merge_into), which  *)
(* are writes that no instrumentation looks at.                            *)
(***************************************************************************)
EXTENDS Integers, FiniteSets, Sequences, FiniteSetsExt, SequencesExt

CONSTANTS
    Tasks,          \* requests, each served once
    Kinds,          \* what a request may be: get, query, write, run, merge
    Threads,
    Workers,        \* the threads that are runtime workers; the rest are the pool
    lane,           \* [Threads -> lanes]: two threads may share the last one
    max_len,        \* entries a ring keeps
    MaxShards,      \* bound: the shards a run of writes spans
    MaxResets       \* bound: SLOWLOG RESETs

VARIABLES
    slot,           \* LAST_US of every thread: whose wait it holds, or 0
    task,           \* [pc, kind, on, left, id, charged] of every request
    next_id,
    rings,          \* [lane -> entries]
    admitted,
    evicted,
    cleared,        \* history: entries SLOWLOG RESET removed
    resets

slowVars == <<slot, task, next_id, rings, admitted, evicted, cleared, resets>>

Lanes == Range(lane)
Nobody == 0

Become(r, fields) == task' = [task EXCEPT ![r] = fields]
Log == <<rings, admitted, evicted, cleared, resets>>

-----------------------------------------------------------------------------
(* Serving.                                                                 *)

(* A thread is held by a request it serves, and by a run only while the run *)
(* is not waiting for a shard.                                              *)
Busy(t) ==
    \E r \in Tasks :
        /\ task[r].on = t /\ task[r].pc \notin {"waiting", "done"}
        /\ task[r].kind = "run" => task[r].pc # "queued"

(* A request is taken up by a thread: a point read, a command that goes     *)
(* through dispatch.rs execute that waits for no writer (it writes nothing, *)
(* or a full queue refuses it), a write there, a run of plain writes handed *)
(* to `shards` shards, or a merge.  Only the pool may block on a write;     *)
(* only the runtime awaits a run.  Requests are numbered as they start.     *)
Start(r, t, kind, shards) ==
    /\ task[r].pc = "waiting" /\ ~Busy(t)
    /\ \A q \in Tasks : q < r => task[q].pc # "waiting"
    /\ kind \in {"write", "merge"} => t \notin Workers
    /\ kind = "run" => t \in Workers
    /\ shards \in CASE kind \in {"get", "query"} -> {0}
                     [] kind \in {"write", "merge"} -> {1}
                     [] kind = "run" -> 1 .. MaxShards
    /\ Become(r, [task[r] EXCEPT !.pc = IF shards = 0 THEN "answered" ELSE "queued",
                                 !.kind = kind, !.on = t, !.left = shards])
    /\ UNCHANGED <<slot, next_id, Log>>

(* A shard's reply: its wait is published on the thread that receives it,   *)
(* before the outcome is looked at.  A write holds its thread; a run        *)
(* resumes wherever the scheduler puts it; a merge is done.                 *)
Reply(r, t) ==
    /\ task[r].pc = "queued"
    /\ IF task[r].kind = "run" THEN t \in Workers /\ ~Busy(t) ELSE t = task[r].on
    /\ slot' = [slot EXCEPT ![t] = r]
    /\ Become(r, [task[r] EXCEPT !.on = t, !.left = @ - 1,
                                 !.pc = IF task[r].left > 1 THEN "queued"
                                        ELSE IF task[r].kind = "merge" THEN "done"
                                        ELSE "answered"])
    /\ UNCHANGED <<next_id, Log>>

(* The same, and the shard refused.  A write is observed like any other; a  *)
(* run is given up without being observed, and its block is served again;   *)
(* the failure of a merge is logged.                                        *)
ReplyFails(r, t) ==
    /\ task[r].pc = "queued"
    /\ IF task[r].kind = "run" THEN t \in Workers /\ ~Busy(t) ELSE t = task[r].on
    /\ slot' = [slot EXCEPT ![t] = r]
    /\ Become(r, [task[r] EXCEPT !.on = t, !.left = 0,
                                 !.pc = IF task[r].kind = "write" THEN "answered" ELSE "done"])
    /\ UNCHANGED <<next_id, Log>>

-----------------------------------------------------------------------------
(* Observing.                                                               *)

(* A slip: what was read is not cleared. *)
ObserveKeeping(r, slow) ==
    /\ task[r].pc = "answered"
    /\ Become(r, [task[r] EXCEPT !.pc = IF slow THEN "slow" ELSE "done",
                                 !.charged = IF task[r].kind # "get" THEN slot[task[r].on]
                                             ELSE Nobody])
    /\ UNCHANGED <<slot, next_id, Log>>

(* observed_get leaves the slot alone; observed and observed_batch take it. *)
(* A request below the threshold ends here.                                 *)
Observe(r, slow) ==
    /\ task[r].pc = "answered"
    /\ LET takes == task[r].kind # "get"
       IN  /\ slot' = IF takes THEN [slot EXCEPT ![task[r].on] = Nobody] ELSE slot
           /\ Become(r, [task[r] EXCEPT !.pc = IF slow THEN "slow" ELSE "done",
                                        !.charged = IF takes THEN slot[task[r].on] ELSE Nobody])
    /\ UNCHANGED <<next_id, Log>>

(* A slip: the id is read and never taken. *)
TakeIdShared(r) ==
    /\ task[r].pc = "slow"
    /\ Become(r, [task[r] EXCEPT !.pc = "entry", !.id = next_id])
    /\ UNCHANGED <<slot, next_id, Log>>

(* Slowlog::record takes an id, and only then the lock of its ring. *)
TakeId(r) ==
    /\ task[r].pc = "slow"
    /\ Become(r, [task[r] EXCEPT !.pc = "entry", !.id = next_id])
    /\ next_id' = next_id + 1
    /\ UNCHANGED <<slot, Log>>

(* A slip: what is pushed out is not counted. *)
RecordUncounted(r) ==
    /\ task[r].pc = "entry"
    /\ LET l == lane[task[r].on]
           full == Len(rings[l]) >= max_len
       IN  rings' = [rings EXCEPT ![l] = Append(IF full THEN Tail(@) ELSE @,
                                                [id |-> task[r].id, of |-> r])]
    /\ admitted' = admitted + 1
    /\ Become(r, [task[r] EXCEPT !.pc = "done"])
    /\ UNCHANGED <<slot, next_id, evicted, cleared, resets>>

Record(r) ==
    /\ task[r].pc = "entry"
    /\ LET l == lane[task[r].on]
           full == Len(rings[l]) >= max_len
       IN  /\ rings' = [rings EXCEPT ![l] = Append(IF full THEN Tail(@) ELSE @,
                                                   [id |-> task[r].id, of |-> r])]
           /\ evicted' = evicted + (IF full THEN 1 ELSE 0)
    /\ admitted' = admitted + 1
    /\ Become(r, [task[r] EXCEPT !.pc = "done"])
    /\ UNCHANGED <<slot, next_id, cleared, resets>>

(* Slowlog::reset locks the rings one at a time. *)
Reset(l) ==
    /\ resets < MaxResets
    /\ cleared' = cleared + Len(rings[l])
    /\ rings' = [rings EXCEPT ![l] = <<>>]
    /\ resets' = resets + 1
    /\ UNCHANGED <<slot, task, next_id, admitted, evicted>>

-----------------------------------------------------------------------------
SlowInit ==
    /\ slot = [t \in Threads |-> Nobody]
    /\ task = [r \in Tasks |-> [pc |-> "waiting", kind |-> "none", on |-> Nobody,
                                left |-> 0, id |-> 0,
                                charged |-> Nobody]]
    /\ next_id = 1
    /\ rings = [l \in Lanes |-> <<>>]
    /\ admitted = 0 /\ evicted = 0 /\ cleared = 0 /\ resets = 0

SlowNext ==
    \/ \E r \in Tasks, t \in Threads :
        \/ \E kind \in Kinds, shards \in 0..MaxShards : Start(r, t, kind, shards)
        \/ Reply(r, t)
        \/ ReplyFails(r, t)
    \/ \E r \in Tasks : TakeId(r) \/ Record(r) \/ \E slow \in BOOLEAN : Observe(r, slow)
    \/ \E l \in Lanes : Reset(l)

SlowSpec == SlowInit /\ [][SlowNext]_slowVars

-----------------------------------------------------------------------------
(* Properties.                                                              *)

(* The two exported counters account for every entry: what was admitted is  *)
(* in a ring, was pushed out, or was cleared; and no ring holds more than   *)
(* its size.                                                                *)
EntriesAreAccounted ==
    /\ admitted = FoldFunction(+, 0, [l \in Lanes |-> Len(rings[l])]) + evicted + cleared
    /\ \A l \in Lanes : Len(rings[l]) <= max_len

(* An id names one entry, wherever the entry is, and on a lane one thread   *)
(* has to itself the ring is in the order of ids, so what a full ring drops *)
(* is its oldest entry and what SLOWLOG GET returns newest first is right.  *)
RingsAreInOrder ==
    /\ \A l, m \in Lanes : \A i \in 1..Len(rings[l]), j \in 1..Len(rings[m]) :
        rings[l][i].id = rings[m][j].id => l = m /\ i = j
    /\ \A l \in Lanes : Cardinality({t \in Threads : lane[t] = l}) = 1 =>
        \A i, j \in 1..Len(rings[l]) : i < j => rings[l][i].id < rings[l][j].id

(* On the pool a command that a writer answered is charged with its own     *)
(* wait, a failed one included.  One that reached no writer is charged with *)
(* none, or with what the last merge on its thread left; never with what    *)
(* another command waited.                                                  *)
PoolWaitsAreCharged ==
    \A r \in Tasks : task[r].on \notin Workers /\ task[r].kind # "get" =>
        IF task[r].kind = "write" /\ task[r].pc \in {"slow", "entry", "done"}
        THEN task[r].charged = r
        ELSE task[r].charged # Nobody => task[task[r].charged].kind = "merge"

(* vash-store/src/writer.rs:136: a command that submitted no write does not *)
(* inherit the wait of whatever its thread did last.  It does that of a     *)
(* merge.                                                                   *)
NoWaitIsInherited ==
    \A r \in Tasks : task[r].on \notin Workers => task[r].charged \in {Nobody, r}
=============================================================================
