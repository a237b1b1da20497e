----------------------------- MODULE ShardWriter -----------------------------
(***************************************************************************)
(* One shard at work: client threads that resolve tags, prepare records,   *)
(* queue jobs and read through MVCC snapshots (store.rs, read.rs), and the *)
(* single writer thread that groups queued jobs into a transaction, runs   *)
(* maintenance in it, commits it, publishes its effects in memory and      *)
(* answers (writer.rs, queue.rs).  The process may crash and restart at    *)
(* any moment; what was committed survives.                                *)
(***************************************************************************)
EXTENDS ShardEngine, Sequences

CONSTANTS
  Clients,       \* threads calling the store
  Ops,           \* the operations they may call
  MaxBatch, QueueDepth,
  SweepBatch, ReclaimBatch, EvictBatch,
  Lazy,          \* TRUE for durability = lazy: commits are not synced
  Levels,        \* pressure levels a measurement may report
  Faults,        \* which failures may happen
  MaxCalls, MaxFaults, MaxNow   \* bounds of the model

Reads  == {"Get", "SetIf", "GetTouch"}
Stores == {"Set", "Store"}

\* WriteOp: what may be queued.
WriteOps ==
  {"Set", "ConditionalSet", "Delete", "Touch", "Expire", "Arithmetic", "Append",
   "CreateTags", "DeleteByTag", "MergeTag", "Flush", "Sync"}

NamesOf(op) == UNION {op.items[i].names : i \in DOMAIN op.items}

ASSUME WriterAssumption ==
  /\ MaxBatch \in Nat \ {0} /\ QueueDepth \in Nat \ {0}
  /\ SweepBatch \in Nat \ {0} /\ ReclaimBatch \in Nat \ {0} /\ EvictBatch \in Nat \ {0}
  /\ Lazy \in BOOLEAN
  /\ Levels \subseteq {"normal", "soft", "hard", "critical"} /\ Levels # {}
  /\ Faults \subseteq {"begin", "apply", "maintenance", "commit", "full", "sync", "crash", "power"}
  /\ MaxCalls \in Nat /\ MaxFaults \in Nat /\ MaxNow \in Nat \ {0}
  /\ \A op \in Ops :
       /\ op.kind \in Reads \cup Stores \cup (WriteOps \ {"CreateTags", "ConditionalSet"})
       /\ Len(op.items) \in Nat \ {0} /\ DOMAIN op.items = 1..Len(op.items)
       /\ op.kind \in Stores \cup {"SetIf"} => IsFiniteSet(NamesOf(op))
       /\ op.kind = "MergeTag" => \A i \in DOMAIN op.items : op.items[i].gen \in 0..U64Max

VARIABLES
  now,      \* the clock
  disk,     \* the committed tables; disk.seq counts committed batches
  since,    \* the committed states a power loss may fall back to
  ram,      \* epoch, tag registry, id and CAS counters, pressure
  queue,    \* jobs sent to the writer
  phase,    \* what the writer thread is doing
  batch,    \* the jobs of its transaction
  outs,     \* outcomes of the jobs applied so far
  acc,      \* outcomes of the items of the job being applied
  txn,      \* the tables as the transaction sees them, and its fate
  eff,      \* PostCommit effects collected by the transaction
  work,     \* what this iteration's maintenance did
  hot,      \* reclaim_pending
  cl,       \* the clients
  faults,   \* failures so far
  log       \* history: every call, what had returned before it, its reply

store_vars  == <<disk, since, ram>>
writer_vars == <<phase, batch, outs, acc, txn, eff, work, hot>>
vars == <<now, disk, since, ram, queue, phase, batch, outs, acc, txn, eff, work, hot,
          cl, faults, log>>

----------------------------------------------------------------------------
(* Calls.  An operation is a kind and a sequence of items; an item names a  *)
(* key and what the kind needs.  The log records real-time order: a call    *)
(* precedes another when it had returned before the other was made.         *)

KeysOf(op) == {op.items[i].key : i \in DOMAIN op.items}

Idle == [pc |-> "idle"]

Returned == {i \in DOMAIN log : log[i].reply # <<>>}

Called(op) == Append(log, [op |-> op, before |-> Returned, seq |-> disk.seq, reply |-> <<>>])
Replied(l, call, reply) == [l EXCEPT ![call].reply = reply]

\* A caller and what it has gathered so far.
Caller(op, pc) ==
  [pc |-> pc, op |-> op, call |-> Len(log) + 1, snap |-> Empty, at |-> 0, epoch |-> 0,
   refs |-> Empty, prep |-> <<>>, found |-> <<>>]

Error(res) == <<[res |-> res, n |-> 0]>>

Goto(c, pc) == cl' = [cl EXCEPT ![c].pc = pc] /\ UNCHANGED log

\* The caller has its answer.
Return(c, reply) ==
  cl' = [cl EXCEPT ![c] = Idle] /\ log' = Replied(log, cl[c].call, reply)

\* Mutant: one job more than the queue holds.
SendOneMore(c, s, l, kind, items) ==
  IF Len(queue) > QueueDepth
  THEN /\ cl' = [cl EXCEPT ![c] = Idle]
       /\ log' = Replied(l, s.call, Error("overloaded"))
       /\ UNCHANGED queue
  ELSE /\ queue' = Append(queue, [client |-> c, call |-> s.call, kind |-> kind, items |-> items])
       /\ cl' = [cl EXCEPT ![c] = [s EXCEPT !.pc = "wait"]]
       /\ log' = l

\* WriterHandle::send: a full queue fails fast.
Send(c, s, l, kind, items) ==
  IF Len(queue) >= QueueDepth
  THEN /\ cl' = [cl EXCEPT ![c] = Idle]
       /\ log' = Replied(l, s.call, Error("overloaded"))
       /\ UNCHANGED queue
  ELSE /\ queue' = Append(queue, [client |-> c, call |-> s.call, kind |-> kind, items |-> items])
       /\ cl' = [cl EXCEPT ![c] = [s EXCEPT !.pc = "wait"]]
       /\ log' = l

MayCall(c) == cl[c].pc = "idle" /\ Len(log) < MaxCalls

\* Operations that go straight to the queue.
CallWrite(c, op) ==
  /\ MayCall(c) /\ op.kind \notin Reads \cup Stores
  /\ Send(c, Caller(op, "wait"), Called(op), op.kind, op.items)
  /\ UNCHANGED <<now, store_vars, writer_vars, faults>>

----------------------------------------------------------------------------
(* Reads (read.rs): open a transaction, load the epoch, then judge every    *)
(* record against the tag registry under one lock.                          *)

CallRead(c, op) ==
  /\ MayCall(c) /\ op.kind \in Reads
  /\ log' = Called(op)
  /\ cl' = [cl EXCEPT ![c] = [Caller(op, "epoch") EXCEPT !.at = now,
               !.snap = [k \in DOMAIN disk.main \cap KeysOf(op) |-> disk.main[k]]]]
  /\ UNCHANGED <<now, store_vars, queue, writer_vars, faults>>

LoadEpoch(c) ==
  /\ cl[c].pc = "epoch"
  /\ cl' = [cl EXCEPT ![c].pc = "judge", ![c].epoch = ram.epoch]
  /\ UNCHANGED <<now, store_vars, queue, writer_vars, faults, log>>

read_alive(c, k) ==
  k \in DOMAIN cl[c].snap /\ is_alive(cl[c].snap[k], cl[c].at, cl[c].epoch, ram.tags)

Found(c) ==
  [i \in DOMAIN cl[c].op.items |->
     LET k == cl[c].op.items[i].key
     IN  IF read_alive(c, k) THEN [res |-> "hit", n |-> cl[c].snap[k].ver]
                             ELSE [res |-> "miss", n |-> 0]]

\* set_many_if goes on to store when its guard holds; get_and_touch goes on
\* to touch the keys it found.
Judge(c) ==
  LET op    == cl[c].op
      found == Found(c)
      hits  == {i \in DOMAIN found : found[i].res = "hit"}
      holds == IF op.guard = "absent" THEN hits = {} ELSE hits = DOMAIN found
  IN  /\ cl[c].pc = "judge"
      /\ CASE op.kind = "SetIf" /\ holds        -> Goto(c, "register") /\ UNCHANGED queue
           [] op.kind = "SetIf" /\ ~holds       -> Return(c, Error("refused")) /\ UNCHANGED queue
           [] op.kind = "GetTouch" /\ hits # {} ->
                Send(c, [cl[c] EXCEPT !.found = found], log, "Touch",
                     SelectSeq(op.items, LAMBDA item : read_alive(c, item.key)))
           [] OTHER                             -> Return(c, found) /\ UNCHANGED queue
      /\ UNCHANGED <<now, store_vars, writer_vars, faults>>

----------------------------------------------------------------------------
(* Stores, on the caller's thread (store.rs, apply.rs prepare_set)          *)

CallStore(c, op) ==
  /\ MayCall(c) /\ op.kind \in {"Set", "Store"}
  /\ log' = Called(op)
  /\ cl' = [cl EXCEPT ![c] = Caller(op, "register")]
  /\ UNCHANGED <<now, store_vars, queue, writer_vars, faults>>

\* ensure_tags_registered: names this shard has not seen are created first.
SeqOf(S) == CHOOSE q \in [1..Cardinality(S) -> S] : {q[i] : i \in DOMAIN q} = S

Register(c) ==
  LET absent == missing(ram, NamesOf(cl[c].op))
  IN  /\ cl[c].pc = "register"
      /\ IF absent = {}
         THEN Goto(c, "resolve") /\ UNCHANGED queue
         ELSE Send(c, cl[c], log, "CreateTags",
                   [i \in 1..Cardinality(absent) |-> [name |-> SeqOf(absent)[i], gen |-> 0]])
      /\ UNCHANGED <<now, store_vars, writer_vars, faults>>

\* The next item's tag refs, read from memory under the registry lock.
Resolve(c) ==
  LET item == cl[c].op.items[Len(cl[c].prep) + 1]
  IN  /\ cl[c].pc = "resolve"
      /\ cl' = [cl EXCEPT ![c].pc = "prepare", ![c].refs = resolve(ram, item.names)]
      /\ UNCHANGED <<now, store_vars, queue, writer_vars, faults, log>>

prepare_set(c, item) ==
  [key |-> item.key, tags |-> cl[c].refs, epoch |-> ram.epoch,
   exp |-> IF item.ttl.how = "set" THEN expiry_from_ttl(now, item.ttl.secs) ELSE Deferred,
   ttl |-> item.ttl, val |-> item.val, ver |-> cl[c].call,
   mode |-> item.mode, expected |-> item.expected]

\* prepare_set runs for one item at a time; a store that is critically full
\* refuses it on the caller's thread.
Prepare(c) ==
  LET op   == cl[c].op
      prep == Append(cl[c].prep, prepare_set(c, op.items[Len(cl[c].prep) + 1]))
  IN  /\ cl[c].pc = "prepare"
      /\ IF ram.pressure = "critical"
         THEN Return(c, Error("capacity_full"))
         ELSE /\ cl' = [cl EXCEPT ![c].prep = prep, ![c].refs = Empty,
                          ![c].pc = IF Len(prep) = Len(op.items) THEN "send" ELSE "resolve"]
              /\ UNCHANGED log
      /\ UNCHANGED <<now, store_vars, queue, writer_vars, faults>>

Submit(c) ==
  /\ cl[c].pc = "send"
  /\ Send(c, [cl[c] EXCEPT !.prep = <<>>], log,
          IF cl[c].op.kind = "Store" THEN "ConditionalSet" ELSE "Set", cl[c].prep)
  /\ UNCHANGED <<now, store_vars, writer_vars, faults>>

----------------------------------------------------------------------------
(* The writer thread (writer.rs)                                            *)

NoTxn == [poisoned |-> FALSE]
NoWork == [completed |-> TRUE, evicted |-> 0]

Min2(a, b) == IF a < b THEN a ELSE b
Max2(a, b) == IF a < b THEN b ELSE a

\* Mutant: a wakeup without jobs skips maintenance.
BeginIdly(due) ==
  LET n == Min2(Len(queue), MaxBatch)
  IN  /\ phase = "idle"
      /\ hot => due
      /\ n > 0 \/ due
      /\ batch' = SubSeq(queue, 1, n)
      /\ queue' = SubSeq(queue, n + 1, Len(queue))
      /\ phase' = IF n > 0 THEN "apply" ELSE "commit"
      /\ txn' = [t |-> disk, poisoned |-> FALSE, due |-> due]
      /\ outs' = <<>> /\ acc' = <<>> /\ eff' = <<>> /\ work' = NoWork
      /\ UNCHANGED <<now, store_vars, hot, cl, faults, log>>

\* writer_loop: take what is queued, up to max_batch.  Maintenance is due
\* while work is pending, and otherwise whenever the interval has elapsed.
Begin(due) ==
  LET n == Min2(Len(queue), MaxBatch)
  IN  /\ phase = "idle"
      /\ hot => due
      /\ n > 0 \/ due
      /\ batch' = SubSeq(queue, 1, n)
      /\ queue' = SubSeq(queue, n + 1, Len(queue))
      /\ phase' = IF n > 0 THEN "apply" ELSE "maintain"
      /\ txn' = [t |-> disk, poisoned |-> FALSE, due |-> due]
      /\ outs' = <<>> /\ acc' = <<>> /\ eff' = <<>> /\ work' = NoWork
      /\ UNCHANGED <<now, store_vars, hot, cl, faults, log>>

\* queue.rs apply, for one item of a job.
ApplyItem(job, item) ==
  CASE job.kind = "Set"            -> WriteSet(ram, txn.t, now, item)
    [] job.kind = "ConditionalSet" -> apply_conditional_set(ram, txn.t, now, item)
    [] job.kind = "Delete"         -> apply_delete(ram, txn.t, now, item.key)
    [] job.kind = "Touch"          -> apply_touch(ram, txn.t, now, item.key, item.secs)
    [] job.kind = "Expire"         -> apply_expire(ram, txn.t, now, item.key, item.ttl, item.guard)
    [] job.kind = "Arithmetic"     -> apply_arithmetic(ram, txn.t, now, item.key, item.missing,
                                                       item.bound, item.ttl, job.call)
    [] job.kind = "Append"         -> apply_append(ram, txn.t, now, item.key, item.len, job.call)
    [] job.kind = "CreateTags"     -> apply_create_tag(ram, txn.t, item.name, item.gen)
    [] job.kind = "DeleteByTag"    -> apply_delete_by_tag(ram, txn.t, item.name)
    [] job.kind = "MergeTag"       -> apply_merge_tag(ram, txn.t, item.name, item.gen)
    [] job.kind = "Flush"          -> apply_flush(ram, txn.t)
    [] job.kind = "Sync"           -> Nothing(ram, txn.t, "done", 0)

SoftError == {"too_large", "tag_limit"}

Job  == batch[Len(outs) + 1]
Item == Job.items[Len(acc) + 1]

HasItem == Len(outs) + 1 \in DOMAIN batch /\ Len(acc) + 1 \in DOMAIN Job.items

\* Applies one item of the current job; a soft error ends the job but keeps
\* what it had already done in the transaction.
Apply(kind) ==
  /\ phase = "apply" /\ HasItem /\ Job.kind = kind
  /\ \E r \in {ApplyItem(Job, Item)} :
       LET items == Append(acc, [res |-> r.res, n |-> r.n])
           ended == Len(items) = Len(Job.items) \/ r.res \in SoftError
           last  == ended /\ Len(outs) + 1 = Len(batch)
       IN  /\ ram' = r.ram
           /\ txn' = [txn EXCEPT !.t = r.t]
           /\ eff' = eff \o r.eff
           /\ outs' = IF ended THEN Append(outs, items) ELSE outs
           /\ acc' = IF ended THEN <<>> ELSE items
           /\ phase' = CASE last /\ txn.due  -> "maintain"
                         [] last /\ ~txn.due -> "commit"
                         [] OTHER            -> "apply"
  /\ UNCHANGED <<now, disk, since, queue, batch, work, hot, cl, faults, log>>

ApplySet         == Apply("Set")
ApplyConditional == Apply("ConditionalSet")
ApplyDelete      == Apply("Delete")
ApplyTouch       == Apply("Touch")
ApplyExpire      == Apply("Expire")
ApplyArithmetic  == Apply("Arithmetic")
ApplyAppend      == Apply("Append")
ApplyCreateTags  == Apply("CreateTags")
ApplyDeleteByTag == Apply("DeleteByTag")
ApplyMergeTag    == Apply("MergeTag")
ApplyFlush       == Apply("Flush")
ApplySync        == Apply("Sync")

\* sweep, reclaim_step and apply_pressure share the transaction.
Maintain(level) ==
  LET swept     == sweep(txn.t, now, SweepBatch).t
      reclaimed == IF DOMAIN swept.jobs = {} THEN [t |-> swept, completed |-> TRUE]
                   ELSE reclaim_step(ram, swept, now, ReclaimBatch)
      evicted   == apply_pressure(reclaimed.t, now, EvictBatch, level)
  IN  /\ phase = "maintain"
      /\ txn' = [txn EXCEPT !.t = evicted.t]
      /\ ram' = [ram EXCEPT !.pressure = level]
      /\ work' = [completed |-> reclaimed.completed, evicted |-> evicted.freed]
      /\ phase' = "commit"
      /\ UNCHANGED <<now, disk, since, queue, batch, outs, acc, eff, hot, cl, faults, log>>

\* Only now is the batch durable (or, with Lazy, committed).
Commit ==
  LET t == [txn.t EXCEPT !.seq = IF batch = <<>> THEN @ ELSE @ + 1]
  IN  /\ phase = "commit" /\ ~txn.poisoned
      /\ disk' = t
      /\ since' = IF Lazy THEN since \cup {t} ELSE {t}
      /\ txn' = NoTxn
      /\ phase' = "publish"
      /\ UNCHANGED <<now, ram, queue, batch, outs, acc, eff, work, hot, cl, faults, log>>

\* Mutant: a raised generation stays on disk.
PublishNewTags(r, e) ==
  CASE e.what = "created" -> [r EXCEPT !.tags = insert(@, e.name, e.entry)]
    [] e.what = "raised"  -> r
    [] e.what = "epoch"   -> [r EXCEPT !.epoch = e.epoch]

\* PostCommit effects reach memory one at a time, in the order applied.
publish(r, e) ==
  CASE e.what = "created" -> [r EXCEPT !.tags = insert(@, e.name, e.entry)]
    [] e.what = "raised"  -> [r EXCEPT !.tags = merge_generation(@, e.id, e.gen)]
    [] e.what = "epoch"   -> [r EXCEPT !.epoch = e.epoch]

Publish ==
  /\ phase = "publish" /\ eff # <<>>
  /\ ram' = publish(ram, Head(eff))
  /\ eff' = Tail(eff)
  /\ UNCHANGED <<now, disk, since, queue, phase, batch, outs, acc, txn, work, hot, cl, faults, log>>

\* Every caller of the batch is answered.  Registration goes on to the write
\* it was for; get_and_touch answers with what it read.
Deliver(replies) ==
  LET failed(i) == \E j \in DOMAIN replies[i] : replies[i][j].res \in SoftError \cup {"error"}
      onward(i) == batch[i].kind = "CreateTags" /\ ~failed(i)
      answer(i) == IF cl[batch[i].client].op.kind = "GetTouch" /\ ~failed(i)
                   THEN cl[batch[i].client].found ELSE replies[i]
  IN  /\ cl' = [c \in Clients |->
                  IF \E i \in DOMAIN batch : batch[i].client = c
                  THEN IF \E i \in DOMAIN batch : batch[i].client = c /\ onward(i)
                       THEN [cl[c] EXCEPT !.pc = "resolve"] ELSE Idle
                  ELSE cl[c]]
      /\ log' = [x \in DOMAIN log |->
                   IF \E i \in DOMAIN batch : batch[i].call = x /\ ~onward(i)
                   THEN [log[x] EXCEPT !.reply =
                           answer(CHOOSE i \in DOMAIN batch : batch[i].call = x)]
                   ELSE log[x]]

Reply ==
  /\ phase = "publish" /\ eff = <<>>
  /\ Deliver(outs)
  /\ hot' = (~work.completed \/ work.evicted > 0)
  /\ phase' = IF \E i \in DOMAIN batch : batch[i].kind = "Sync" THEN "sync" ELSE "idle"
  /\ batch' = <<>> /\ outs' = <<>> /\ work' = NoWork
  /\ UNCHANGED <<now, store_vars, queue, acc, txn, eff, faults>>

\* engine.sync(), after the replies and every sync_interval.
SyncEnv ==
  /\ phase = "sync" \/ (Lazy /\ phase = "idle")
  /\ since' = {disk}
  /\ phase' = "idle"
  /\ UNCHANGED <<now, disk, ram, queue, batch, outs, acc, txn, eff, work, hot, cl, faults, log>>

----------------------------------------------------------------------------
(* Failures                                                                 *)

Fault(f) == f \in Faults /\ faults < MaxFaults /\ faults' = faults + 1

\* A failed sync is only logged.
SyncFails ==
  /\ phase = "sync"
  /\ Fault("sync")
  /\ phase' = "idle"
  /\ UNCHANGED <<now, store_vars, queue, batch, outs, acc, txn, eff, work, hot, cl, log>>

\* The transaction is dropped.  A full map goes on to free space; any other
\* failure backs off to the interval.
Discard(full) ==
  /\ batch' = <<>> /\ outs' = <<>> /\ acc' = <<>> /\ eff' = <<>> /\ work' = NoWork
  /\ txn' = NoTxn
  /\ phase' = IF full THEN "full" ELSE "idle"
  /\ hot' = (full /\ hot)
  /\ UNCHANGED <<now, disk, since, queue>>

\* Every caller of the batch is told so.
Abort(full) == Deliver([i \in DOMAIN batch |-> Error("error")]) /\ Discard(full)

\* write_txn failed: nothing was applied.
BeginFails ==
  /\ phase \in {"apply", "maintain"} /\ outs = <<>> /\ acc = <<>> /\ txn.t = disk
  /\ Fault("begin")
  /\ Abort(FALSE)
  /\ UNCHANGED ram

\* Mutant: the failed job is skipped and the rest of the batch committed.
ApplySkips(full) ==
  LET last == Len(outs) + 1 = Len(batch)
  IN  /\ phase = "apply" /\ HasItem
      /\ Fault("apply") /\ ~full
      /\ outs' = Append(outs, Error("error")) /\ acc' = <<>>
      /\ phase' = IF last THEN "commit" ELSE "apply"
      /\ UNCHANGED <<now, store_vars, queue, batch, txn, eff, work, hot, cl, log>>

\* An engine error part-way through an operation poisons the transaction.
\* Counters the operation had already advanced in memory stay advanced.
ApplyFails(full) ==
  /\ phase = "apply" /\ HasItem
  /\ Fault("apply") /\ (full => "full" \in Faults)
  /\ ram' \in {ram, ApplyItem(Job, Item).ram}
  /\ Abort(full)

\* A maintenance error is only logged, but the engine fails the commit of a
\* transaction one of whose operations failed.
MaintainFails(level) ==
  /\ phase = "maintain"
  /\ Fault("maintenance")
  /\ txn' = [txn EXCEPT !.poisoned = TRUE]
  /\ ram' \in {ram, [ram EXCEPT !.pressure = level]}
  /\ phase' = "commit"
  /\ UNCHANGED <<now, disk, since, queue, batch, outs, acc, eff, work, hot, cl, log>>

\* Mutant: the callers of a failed commit are told it succeeded.
CommitFailsUnnoticed(full) ==
  /\ phase = "commit" /\ ~txn.poisoned
  /\ Fault("commit") /\ (full => "full" \in Faults)
  /\ Deliver(outs) /\ Discard(full)
  /\ UNCHANGED ram

CommitFails(full) ==
  /\ phase = "commit" /\ ~txn.poisoned
  /\ Fault("commit") /\ (full => "full" \in Faults)
  /\ Abort(full)
  /\ UNCHANGED ram

\* Mutant: the callers of the dropped batch are left waiting.
CommitPoisonedSilently ==
  /\ phase = "commit" /\ txn.poisoned
  /\ Discard(FALSE)
  /\ UNCHANGED <<ram, cl, faults, log>>

CommitPoisoned ==
  /\ phase = "commit" /\ txn.poisoned
  /\ Abort(FALSE)
  /\ UNCHANGED <<ram, faults>>

\* Writes are refused before space is reclaimed.
Refuse ==
  /\ phase = "full"
  /\ ram' = [ram EXCEPT !.pressure = "critical"]
  /\ phase' = "free"
  /\ UNCHANGED <<now, disk, since, queue, batch, outs, acc, txn, eff, work, hot, cl, faults, log>>

\* free_space: ever smaller bites, in a transaction of its own.
FreeBudgets == {Max2(b, 1) : b \in {EvictBatch, EvictBatch \div 8, 8}}

FreeSpace(budget) ==
  LET swept   == sweep(disk, now, budget)
      evicted == evict(swept.t, now, budget)
      t       == evicted.t
  IN  /\ phase = "free"
      /\ disk' = t
      /\ since' = IF Lazy THEN since \cup {t} ELSE {t}
      /\ hot' = (swept.freed + evicted.freed > 0)
      /\ phase' = "idle"
      /\ UNCHANGED <<now, ram, queue, batch, outs, acc, txn, eff, work, cl, faults, log>>

FreeSpaceFails ==
  /\ phase = "free"
  /\ hot' = FALSE
  /\ phase' = "idle"
  /\ UNCHANGED <<now, disk, since, ram, queue, batch, outs, acc, txn, eff, work, cl, faults, log>>

----------------------------------------------------------------------------
(* Restart, time, and the specification                                     *)

\* Mutants: what a restart may forget to load.
OpenFirstEpoch(t) ==
  [epoch |-> 0, tags |-> t.tags, nextId |-> load_next_id(t.tags),
   casNext |-> t.casMark, casMark |-> t.casMark, pressure |-> "normal"]

OpenFirstGenerations(t) ==
  [epoch |-> t.epoch, tags |-> [n \in DOMAIN t.tags |-> [t.tags[n] EXCEPT !.gen = 0]],
   nextId |-> load_next_id(t.tags),
   casNext |-> t.casMark, casMark |-> t.casMark, pressure |-> "normal"]

\* Engine::open: memory is rebuilt from the tables, and the CAS counter
\* resumes at the durable watermark.
open(t) ==
  [epoch |-> t.epoch, tags |-> t.tags, nextId |-> load_next_id(t.tags),
   casNext |-> t.casMark, casMark |-> t.casMark, pressure |-> "normal"]

Restart(t) ==
  /\ disk' = t /\ since' = {t}
  /\ ram' = open(t)
  /\ queue' = <<>> /\ phase' = "idle" /\ batch' = <<>> /\ outs' = <<>> /\ acc' = <<>>
  /\ txn' = NoTxn /\ eff' = <<>> /\ work' = NoWork /\ hot' = TRUE
  /\ cl' = [c \in Clients |-> Idle]
  /\ log' = [i \in DOMAIN log |-> IF log[i].reply = <<>>
                                  THEN [log[i] EXCEPT !.reply = Error("crashed")] ELSE log[i]]
  /\ UNCHANGED now

\* The process dies; the operating system still has every commit.
Crash == Fault("crash") /\ Restart(disk)

\* The machine dies; with Lazy, commits since the last sync may be lost.
PowerLoss == Fault("power") /\ \E t \in since : Restart(t)

Tick ==
  /\ now < MaxNow
  /\ now' = now + 1
  /\ UNCHANGED <<store_vars, queue, writer_vars, cl, faults, log>>

EmptyTables ==
  [main |-> Empty, exp |-> Empty, tagidx |-> Empty, tags |-> Empty, jobs |-> Empty,
   epoch |-> 0, casMark |-> 0, seq |-> 0]

Init ==
  /\ now = 1
  /\ disk = EmptyTables /\ since = {EmptyTables} /\ ram = open(EmptyTables)
  /\ queue = <<>> /\ phase = "idle" /\ batch = <<>> /\ outs = <<>> /\ acc = <<>>
  /\ txn = NoTxn /\ eff = <<>> /\ work = NoWork /\ hot = TRUE
  /\ cl = [c \in Clients |-> Idle]
  /\ faults = 0 /\ log = <<>>

ClientStep(c) ==
  \/ LoadEpoch(c) \/ Judge(c) \/ Register(c) \/ Resolve(c) \/ Prepare(c) \/ Submit(c)

CallStep(c) == \E op \in Ops : CallRead(c, op) \/ CallStore(c, op) \/ CallWrite(c, op)

WriterStep ==
  \/ \E due \in BOOLEAN : Begin(due)
  \/ ApplySet \/ ApplyConditional \/ ApplyDelete \/ ApplyTouch \/ ApplyExpire
  \/ ApplyArithmetic \/ ApplyAppend \/ ApplyCreateTags \/ ApplyDeleteByTag
  \/ ApplyMergeTag \/ ApplyFlush \/ ApplySync
  \/ \E level \in Levels : Maintain(level)
  \/ Commit \/ CommitPoisoned \/ Publish \/ Reply \/ SyncEnv
  \/ Refuse \/ FreeSpaceFails \/ \E b \in FreeBudgets : FreeSpace(b)

Failure ==
  \/ BeginFails \/ SyncFails
  \/ \E full \in BOOLEAN : ApplyFails(full) \/ CommitFails(full)
  \/ \E level \in Levels : MaintainFails(level)
  \/ Crash \/ PowerLoss

Next ==
  \/ \E c \in Clients : ClientStep(c) \/ CallStep(c)
  \/ WriterStep
  \/ Failure
  \/ Tick

Spec == Init /\ [][Next]_vars

============================================================================
