--------------------------- MODULE ShardProperties ---------------------------
(***************************************************************************)
(* What one shard promises its callers, and the invariants of its tables.  *)
(***************************************************************************)
EXTENDS ShardWriter

----------------------------------------------------------------------------
(* Types *)

RecordOK(r) ==
  /\ {r.epoch, r.exp, r.cas, r.val, r.ver} \subseteq Nat
  /\ DOMAIN r.tags \subseteq Nat
  /\ \A id \in DOMAIN r.tags : r.tags[id] \in 0..U64Max

TagsOK(tags) ==
  /\ DOMAIN tags \subseteq Names
  /\ \A n \in DOMAIN tags : tags[n].id \in Nat /\ tags[n].gen \in 0..U64Max

TablesOK(t) ==
  /\ DOMAIN t.main \subseteq Keys /\ \A k \in DOMAIN t.main : RecordOK(t.main[k])
  /\ \A row \in DOMAIN t.exp : row \in Nat \X Nat /\ t.exp[row] \in Keys
  /\ \A row \in DOMAIN t.tagidx : row \in Nat \X Nat /\ t.tagidx[row] \in Keys
  /\ TagsOK(t.tags)
  /\ \A id \in DOMAIN t.jobs : id \in Nat /\ t.jobs[id].target \in 1..U64Max
  /\ {t.epoch, t.casMark, t.seq} \subseteq Nat

\* The state of the shard and its writer (writer.rs, engine.rs) is well typed,
\* the queue and the batch respect their limits, and a transaction is open
\* exactly while a batch is being built.
TypeOK ==
  /\ now \in 1..MaxNow
  /\ TablesOK(disk) /\ disk \in since /\ \A t \in since : TablesOK(t)
  /\ TagsOK(ram.tags) /\ {ram.epoch, ram.nextId, ram.casNext, ram.casMark} \subseteq Nat
  /\ ram.pressure \in {"normal", "soft", "hard", "critical"}
  /\ phase \in {"idle", "apply", "maintain", "commit", "publish", "sync", "full", "free"}
  /\ IF phase \in {"apply", "maintain", "commit"} THEN TablesOK(txn.t) ELSE txn = NoTxn
  /\ Len(queue) <= QueueDepth /\ Len(batch) <= MaxBatch
  /\ hot \in BOOLEAN
  /\ \A c \in Clients :
       cl[c].pc \in {"idle", "epoch", "judge", "register", "resolve", "prepare", "send", "wait"}

----------------------------------------------------------------------------
(* Promises to callers *)

Failures == {"error", "crashed", "overloaded", "capacity_full", "too_large", "tag_limit", "refused"}

OkReply(i) ==
  log[i].reply # <<>> /\ \A j \in DOMAIN log[i].reply : log[i].reply[j].res \notin Failures

\* Call i stored item j.
StoredItem(i, j) ==
  OkReply(i) /\ log[i].op.kind \in {"Set", "Store", "SetIf"} /\ log[i].reply[j].res = "stored"

NamesTag(d, i, j) ==
  log[d].op.kind \in {"DeleteByTag", "MergeTag"} /\ log[d].op.items[1].name \in log[i].op.items[j].names

NamesKey(d, i, j) ==
  /\ log[d].op.kind \notin {"Get", "Flush", "DeleteByTag", "MergeTag", "Sync"}
  /\ log[i].op.items[j].key \in KeysOf(log[d].op)

\* Call d, when it succeeds, promises that item j of call i is no longer served.
Invalidates(d, i, j) ==
  \/ log[d].op.kind = "Flush"
  \/ log[d].op.kind = "DeleteByTag" /\ NamesTag(d, i, j)
  \/ log[d].op.kind = "Delete" /\ NamesKey(d, i, j)

\* Call d may change what reading item j of call i finds.
Affects(d, i, j) == log[d].op.kind = "Flush" \/ NamesTag(d, i, j) \/ NamesKey(d, i, j)

Hit(r, x, i, j) ==
  /\ log[r].op.items[x].key = log[i].op.items[j].key
  /\ log[r].reply[x] = [res |-> "hit", n |-> i]

Finished(r) == log[r].op.kind = "Get" /\ OkReply(r)

\* "When an invalidation response is received, no subsequent read on any
\* connection will return a record that carried that tag and was written
\* before the invalidation" (docs/protocol.md), and the same for DELETE and
\* FLUSH: if write i returned before call d was made, and d returned before
\* read r was made, r does not return i's value, whatever the readers'
\* snapshots, the batching and the crashes in between.
NoStaleRead ==
  \A r \in DOMAIN log : Finished(r) =>
    \A d \in log[r].before : OkReply(d) =>
      \A i \in log[d].before : \A j \in DOMAIN log[i].op.items :
        StoredItem(i, j) /\ Invalidates(d, i, j) =>
          \A x \in DOMAIN log[r].op.items : ~Hit(r, x, i, j)

\* An acknowledged write without a deadline is found by every later read
\* until some other call that may change its key is made: neither the sweep,
\* the reclaimer, the late publication of effects, a failed batch nor a crash
\* of the process takes it away (writer.rs commit_batch, reclaim.rs).
AckedIsVisible ==
  \A r \in DOMAIN log : Finished(r) =>
    \A i \in log[r].before : \A j \in DOMAIN log[i].op.items :
      /\ StoredItem(i, j)
      /\ \A d \in DOMAIN log : Affects(d, i, j) =>
           \/ d = i
           \/ d \in log[i].before
           \/ r \in log[d].before
      => \A x \in DOMAIN log[r].op.items :
           log[r].op.items[x].key = log[i].op.items[j].key => Hit(r, x, i, j)

\* Every call on k is of these kinds, and none of the calls removes its record
\* or lets it expire.
OnlyKept(k, kinds) ==
  \A d \in DOMAIN log :
    /\ log[d].op.kind \notin {"Flush", "DeleteByTag", "MergeTag"}
    /\ k \in KeysOf(log[d].op) =>
         /\ log[d].op.kind \in kinds
         /\ \A x \in DOMAIN log[d].op.items :
              "ttl" \in DOMAIN log[d].op.items[x] => log[d].op.items[x].ttl.secs = 0

\* Two increments or appends of a key that nothing else touches do not report
\* the same result.
NoLostUpdate ==
  \A i, j \in DOMAIN log :
    /\ i # j /\ OkReply(i) /\ OkReply(j)
    /\ log[i].op.kind \in {"Arithmetic", "Append"} /\ log[j].op.kind \in {"Arithmetic", "Append"}
    /\ KeysOf(log[i].op) = KeysOf(log[j].op)
    /\ OnlyKept(log[i].op.items[1].key, {"Arithmetic", "Append"})
    => log[i].reply[1].n # log[j].reply[1].n

\* Of two ADDs of a key that nothing deletes or expires, or of two
\* compare-and-swaps from one token, one is refused.
OnlyOneWins ==
  \A i, j \in DOMAIN log :
    LET p == log[i].op.items[1]
        q == log[j].op.items[1]
    IN  /\ i # j /\ log[i].op.kind = "Store" /\ log[j].op.kind = "Store"
        /\ p.key = q.key /\ p.mode = q.mode /\ p.expected = q.expected
        /\ p.mode \in {"add", "cas"} /\ OnlyKept(p.key, {"Store"})
        => ~(StoredItem(i, 1) /\ StoredItem(j, 1))

\* "Concurrent clients cannot lose an update" (docs/protocol.md): the test and
\* the write of a conditional set, and the read and the write of an increment
\* or an append, share the writer's transaction (apply.rs
\* apply_conditional_set), also when both calls are in one batch and when the
\* callers of a failed batch try again.
UpdatesAreAtomic == OnlyOneWins /\ NoLostUpdate

\* A batch write is one transaction and a batch read one snapshot: when every
\* write covers both keys, a read of both finds them written by the same call
\* (store.rs submit_set_many, get_many; "all of them apply, or none do").
BatchIsAtomic ==
  \A r \in DOMAIN log : Finished(r) => \A x, y \in DOMAIN log[r].reply : log[r].reply[x] = log[r].reply[y]

----------------------------------------------------------------------------
(* The tables and the memory behind them *)

\* Memory is the disk's registry and epoch except while a committed batch is
\* being published: "a failure leaves RAM matching disk" (queue.rs), whatever
\* was batched together and wherever it failed.
RamMatchesDisk ==
  phase # "publish" => ram.tags = disk.tags /\ ram.epoch = disk.epoch

\* "RAM can lag behind the truth but never runs ahead of it" (reclaim.rs): a
\* name in memory is on disk under the same id, at no lower a generation.
RamBehindDisk ==
  /\ ram.epoch <= disk.epoch
  /\ \A n \in DOMAIN ram.tags :
       /\ n \in DOMAIN disk.tags
       /\ ram.tags[n].id = disk.tags[n].id
       /\ ram.tags[n].gen <= disk.tags[n].gen

Elems(q) == {q[i] : i \in DOMAIN q}

Fields == {"main", "exp", "tagidx", "tags", "jobs", "epoch", "casMark", "seq"}

Entry == [id : Nat, gen : Nat]

Behind(old, new) ==
  \A n \in DOMAIN old :
    n \in DOMAIN new /\ old[n].id = new[n].id /\ old[n].gen <= new[n].gen

Registry(t, next) ==
  /\ DOMAIN t = Fields /\ t.epoch \in Nat
  /\ \A n \in DOMAIN t.tags : t.tags[n] \in Entry /\ t.tags[n].id < next
  /\ \A m, n \in DOMAIN t.tags : t.tags[m].id = t.tags[n].id => m = n

Supported(e, t, next) ==
  \/ /\ e.what = "created"
     /\ e.name \in DOMAIN t.tags /\ e.entry \in Entry
     /\ e.entry.id = t.tags[e.name].id /\ e.entry.gen <= t.tags[e.name].gen
  \/ /\ e.what = "raised"
     /\ e.id \in Nat /\ e.gen \in Nat /\ e.id < next
     /\ \A n \in DOMAIN t.tags : t.tags[n].id = e.id => e.gen <= t.tags[n].gen
  \/ e.what = "epoch" /\ e.epoch = t.epoch

NoEpoch(es) == \A e \in es : e.what # "epoch"

JobOK(job) ==
  /\ job.kind \in WriteOps
  /\ job.kind \in {"CreateTags", "MergeTag"} =>
       \A i \in DOMAIN job.items : job.items[i].gen \in Nat

Open == phase \in {"apply", "maintain", "commit"}

IsSeq(q) == q \in Seq(Elems(q))

MemoryOK ==
  /\ DOMAIN ram = {"epoch", "tags", "nextId", "casNext", "casMark", "pressure"}
  /\ ram.nextId \in Nat /\ ram.epoch \in Nat
  /\ \A n \in DOMAIN ram.tags : ram.tags[n] \in Entry

StoredOK ==
  /\ \A t \in since : Registry(t, ram.nextId)
  /\ Registry(disk, ram.nextId)
  /\ Behind(ram.tags, disk.tags)

JobsOK == IsSeq(queue) /\ \A job \in Elems(queue) \cup Elems(batch) : JobOK(job)

OpenOK ==
  /\ IsSeq(eff)
  /\ Open =>
       /\ DOMAIN txn = {"t", "poisoned", "due"}
       /\ Registry(txn.t, ram.nextId) /\ Behind(disk.tags, txn.t.tags)
       /\ txn.t.epoch = IF NoEpoch(Elems(eff)) THEN disk.epoch ELSE disk.epoch + 1
       /\ \A e \in Elems(eff) : Supported(e, txn.t, ram.nextId)

PublishOK ==
  /\ phase = "publish" =>
       /\ \A e \in Elems(eff) : Supported(e, disk, ram.nextId)
       /\ ram.epoch <= disk.epoch
       /\ NoEpoch(Elems(eff)) => ram.epoch = disk.epoch
  /\ phase # "publish" => ram.epoch = disk.epoch
  /\ ~Open /\ phase # "publish" => eff = <<>>

\* Why RamBehindDisk holds, as an inductive invariant of the writer
\* (writer.rs commit_batch, queue.rs PostCommit, tags.rs).  Tag ids are below
\* the counter in memory and never shared; memory is behind the disk and the
\* disk behind the open transaction; an effect waiting to be published says
\* no more than the tables it will be published over; and the epoch in memory
\* is the disk's unless one waits to be published.
RegistryInv == MemoryOK /\ StoredOK /\ JobsOK /\ OpenOK /\ PublishOK

\* The refs belong to names of `names`, each to one only.
RegisteredUnder(tags, refs, names) ==
  \A id \in DOMAIN refs : \E n \in DOMAIN tags :
    /\ tags[n].id = id /\ refs[id] <= tags[n].gen
    /\ n \in names
    /\ \A m \in DOMAIN tags : tags[m].id = id => m = n

\* "A record may never reference a tag that is not durably registered"
\* (store.rs): every id in a committed record, or in one a caller has
\* prepared, belongs to exactly one name, the one it was written under, at a
\* generation that name has reached.
TagRefsAreRegistered ==
  /\ \A k \in DOMAIN disk.main :
       LET r     == disk.main[k]
           items == log[r.ver].op.items
       IN  DOMAIN r.tags # {} => \E i \in DOMAIN items :
             items[i].key = k /\ RegisteredUnder(disk.tags, r.tags, items[i].names)
  /\ \A c \in Clients : cl[c].pc = "send" => \A i \in DOMAIN cl[c].prep :
       RegisteredUnder(disk.tags, cl[c].prep[i].tags, cl[c].op.items[i].names)

\* Every committed record is in the expiry index under its own bucket, and in
\* the tag index under each of its tags.
EveryRecordIsIndexed ==
  \A k \in DOMAIN disk.main :
    /\ ExpKey(disk.main[k].exp, k) \in DOMAIN disk.exp
    /\ disk.exp[ExpKey(disk.main[k].exp, k)] = k
    /\ \A row \in TagRows(disk.main[k], k) : row \in DOMAIN disk.tagidx /\ disk.tagidx[row] = k

\* A row of a real deadline's bucket, and a tag row, describe a record that is
\* there.
NoRowOutlivesItsRecord ==
  /\ \A row \in DOMAIN disk.exp : row[1] # NEVER_BUCKET => Current(disk, row)
  /\ \A row \in DOMAIN disk.tagidx :
       disk.tagidx[row] \in DOMAIN disk.main /\ row[1] \in DOMAIN disk.main[disk.tagidx[row]].tags

\* The two indexes and the records agree.  "A record outside this index cannot
\* be chosen as an eviction victim" (apply.rs apply_set, which skips the row
\* when it believes it is already there), and overwrites and touches leave no
\* row behind (apply.rs displace).
IndexesAreExact == EveryRecordIsIndexed /\ NoRowOutlivesItsRecord

\* Dead whatever memory says: expired, or behind the flush epoch or a tag
\* generation of the transaction itself.
DeadIn(t, r) ==
  \/ is_expired(r, now)
  \/ r.epoch # t.epoch
  \/ \E n \in DOMAIN t.tags : t.tags[n].id \in DOMAIN r.tags /\ r.tags[t.tags[n].id] # t.tags[n].gen

\* Maintenance below the hard watermark frees only dead records, however
\* stale the index rows it follows and the registry it consults are, and
\* even when key hashes collide (expiry.rs drain_expiry_index, reclaim.rs
\* reclaim_step).
MaintenanceSparesTheLiving ==
  [][phase = "maintain" /\ phase' = "commit" /\ ~txn'.poisoned /\ ram'.pressure \in {"normal", "soft"}
     => \A k \in DOMAIN txn.t.main \ DOMAIN txn'.t.main : DeadIn(txn.t, txn.t.main[k])]_vars

----------------------------------------------------------------------------
(* Progress.  The writer thread and the callers keep running, and the loop  *)
(* reaches its maintenance branch at least once per sweep interval.         *)

FairSpec ==
  /\ Spec
  /\ WF_vars(WriterStep)
  /\ SF_vars(Begin(TRUE))
  /\ \A c \in Clients : WF_vars(ClientStep(c))

\* Every call is answered (writer.rs: each path of commit_batch replies to
\* every job of the batch), failures of the engine included.
EveryCallReturns == \A i \in 1..MaxCalls : (i \in DOMAIN log) ~> (i \in Returned)

ExpiredIsSwept ==
  \A k \in Keys :
    (k \in DOMAIN disk.main /\ is_expired(disk.main[k], now))
      ~> ~(k \in DOMAIN disk.main /\ is_expired(disk.main[k], now))

JobsComplete == \A id \in 0..MaxTags : (id \in DOMAIN disk.jobs) ~> (id \notin DOMAIN disk.jobs)

\* Maintenance catches up: an expired record is swept from disk even when the
\* budget of a sweep is smaller than the backlog (expiry.rs sweep, with two
\* expired records and a budget of one), and an outstanding reclamation job
\* completes (reclaim.rs).
MaintenanceCatchesUp == ExpiredIsSwept /\ JobsComplete

----------------------------------------------------------------------------
(* Sentences of the code's own docs and comments that it does not keep: TLC *)
(* finds each of these violated.  The first two have runs of their own.     *)

\* The guard of a conditional batch and its writes are one transaction within
\* a shard (store.rs set_many_if): when a SetIf "absent" item is applied, its
\* key is still absent.
GuardHoldsWhenApplied ==
  [][phase = "apply" /\ Job.kind = "Set" /\ phase' \in {"apply", "maintain", "commit"}
     /\ cl[Job.client].op.kind = "SetIf" /\ cl[Job.client].op.guard = "absent"
     /\ acc = <<>> => ~live_in(ram, txn.t, now, Item.key)]_vars

\* An increment that counted from nothing although the key held an
\* acknowledged value took place after the flush that emptied it, so a later
\* read finds it: "Reading the current value and writing the new one is one
\* step, so concurrent clients cannot lose an update" (docs/protocol.md).
IncrementSurvivesFlush ==
  \A r \in DOMAIN log : Finished(r) =>
    \A w \in log[r].before :
      /\ log[w].op.kind = "Arithmetic" /\ log[w].reply = <<[res |-> "counted", n |-> 1]>>
      /\ \E s \in log[w].before : StoredItem(s, 1) /\ KeysOf(log[s].op) = KeysOf(log[w].op)
      /\ KeysOf(log[r].op) = KeysOf(log[w].op)
      /\ Cardinality({f \in DOMAIN log : log[f].op.kind = "Flush"}) = 1
      => log[r].reply[1].res = "hit"

\* "Forces buffered data to stable storage" (vash-store lib.rs): once a sync
\* is answered, no power loss can take the shard back behind what was
\* committed when the sync was called.
SyncIsDurable ==
  \A i \in DOMAIN log : log[i].op.kind = "Sync" /\ OkReply(i) =>
    \A t \in since : t.seq >= log[i].seq

\* As NoRowOutlivesItsRecord, of rows of records without a deadline too:
\* "Every record is indexed, including those that never expire, so the delete
\* is unconditional too" (apply.rs clear_expiry_row).
EveryExpiryRowIsOwned == \A row \in DOMAIN disk.exp : Current(disk, row)

\* No call is under way.
Quiet == phase = "idle" /\ queue = <<>> /\ \A c \in Clients : cl[c].pc = "idle"

\* A committed record dead by its tags, that nothing will expire, is ahead of
\* an outstanding reclamation job: "an expired, flushed or invalidated record
\* stays on disk until a background pass removes it" (docs/storage.md).
InvalidatedIsReclaimable ==
  Quiet => \A k \in DOMAIN disk.main :
    LET r == disk.main[k]
    IN  r.exp = NEVER /\ DeadIn(disk, r) =>
          \E id \in DOMAIN r.tags \cap DOMAIN disk.jobs :
            r.tags[id] < disk.jobs[id].target /\ disk.jobs[id].cursor < Hash[k]

\* "Registered tag names. Bounded by store.max_tags" (vash-store lib.rs).
TagLimitHolds == Cardinality(DOMAIN disk.tags) <= MaxTags

\* "None of these failures may lose the user writes sharing this transaction"
\* (writer.rs): a failed maintenance step does not fail the batch.
MaintenanceFailureIsHarmless ==
  [][phase = "commit" /\ txn.poisoned /\ phase' = "idle" /\ faults' = faults
     => \A i \in DOMAIN batch : log'[batch[i].call].reply # Error("error")]_vars

============================================================================
