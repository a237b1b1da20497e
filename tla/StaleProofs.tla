---------------------------- MODULE StaleProofs ----------------------------
(***************************************************************************)
(* What the invariants of a shard come to, for every number of callers,    *)
(* keys, tags and calls: a record refers only to tags that are registered  *)
(* (TagRefsAreRegistered), maintenance spares the living                   *)
(* (MaintenanceSparesTheLiving), and no read returns what an invalidation  *)
(* that returned before it was to end (NoStaleRead).                       *)
(***************************************************************************)
EXTENDS StaleInvariant, CallProofs, ShardProofs

USE Zenon

-----------------------------------------------------------------------------
(* Records and maintenance *)

\* Whatever the callers, the writer and the faults do, every record on disk,
\* and in the transaction, carries refs its own call resolved, to names that
\* are registered and at generations they have reached; and every
\* reclamation job is for a generation its tag has reached.
THEOREM RecordsAreGrounded ==
  Spec => [](RegistryInv /\ PublicationInv /\ CallsInv /\ RecordsInv)
<1>1. Init => RegistryInv /\ PublicationInv /\ CallsInv /\ RecordsInv
  BY RegistryInit, PublicationInit, CallsInit, RecordsInit
<1>2. /\ RegistryInv /\ PublicationInv /\ CallsInv /\ RecordsInv /\ [Next]_vars
      => (RegistryInv /\ PublicationInv /\ CallsInv /\ RecordsInv)'
  BY RegistryStep, PublicationStep, CallsStep, RecordsStep
<1> QED BY <1>1, <1>2, PTL DEF Spec

\* "A record may never reference a tag that is not durably registered"
\* (store.rs ensure_tags_registered), for every number of callers, keys, tags
\* and faults.
THEOREM RefsStayRegistered == Spec => []TagRefsAreRegistered
<1>1. RegistryInv /\ CallsInv /\ RecordsInv => TagRefsAreRegistered
  <2> SUFFICES ASSUME RegistryInv, CallsInv, RecordsInv PROVE TagRefsAreRegistered
    OBVIOUS
  <2>1. Registry(disk, ram.nextId) /\ MainOK(disk, disk.tags, disk.epoch, log)
    BY DEF RegistryInv, StoredOK, RecordsInv
  <2>2. ASSUME NEW k \in DOMAIN disk.main, DOMAIN disk.main[k].tags # {}
        PROVE  \E i \in DOMAIN log[disk.main[k].ver].op.items :
                 /\ log[disk.main[k].ver].op.items[i].key = k
                 /\ RegisteredUnder(disk.tags, disk.main[k].tags,
                                    log[disk.main[k].ver].op.items[i].names)
    <3>1. PICK i \in DOMAIN log[disk.main[k].ver].op.items :
            /\ log[disk.main[k].ver].op.items[i].key = k
            /\ RefsUnder(disk.main[k].tags, disk.tags, log[disk.main[k].ver].op.items[i].names)
      BY <2>1, <2>2 DEF MainOK, Grounded, Written
    <3> QED BY <2>1, <3>1, RefsAreRegistered
  <2>3. ASSUME NEW c \in Clients, cl[c].pc = "send", NEW i \in DOMAIN cl[c].prep
        PROVE  RegisteredUnder(disk.tags, cl[c].prep[i].tags, cl[c].op.items[i].names)
    <3>1. cl[c] # Idle
      BY <2>3, SMT DEF Idle
    <3>2. CallerOK(cl[c], ram.tags, ram.epoch, log)
      BY <2>3 DEF CallsInv
    <3>3. PrepOK(cl[c], ram.tags, ram.epoch)
      BY <3>1, <3>2 DEF CallerOK
    <3>4. RefsUnder(cl[c].prep[i].tags, ram.tags, cl[c].op.items[i].names)
      BY <3>3 DEF PrepOK
    <3>5. /\ Behind(ram.tags, disk.tags) /\ \A n \in DOMAIN ram.tags : ram.tags[n] \in Entry
          /\ \A n \in DOMAIN disk.tags : disk.tags[n] \in Entry
      BY DEF RegistryInv, MemoryOK, StoredOK, Registry
    <3>6. RefsUnder(cl[c].prep[i].tags, disk.tags, cl[c].op.items[i].names)
      BY <3>4, <3>5, RefsGrow
    <3> QED BY <2>1, <3>6, RefsAreRegistered
  <2> QED BY <2>2, <2>3 DEF TagRefsAreRegistered
<1> QED BY <1>1, RecordsAreGrounded, PTL

\* A maintenance pass below the hard watermark frees only records that are
\* expired, behind the flush epoch or behind a tag's generation in the
\* transaction itself, although it consults the registry in memory, which may
\* be behind it (expiry.rs drain_expiry_index, reclaim.rs reclaim_step).
THEOREM MaintenanceIsSafe == Spec => MaintenanceSparesTheLiving
<1> DEFINE Spares == phase = "maintain" /\ phase' = "commit" /\ ~txn'.poisoned
                     /\ ram'.pressure \in {"normal", "soft"}
                     => \A k \in DOMAIN txn.t.main \ DOMAIN txn'.t.main : DeadIn(txn.t, txn.t.main[k])
<1>1. RegistryInv /\ PublicationInv /\ CallsInv /\ RecordsInv /\ [Next]_vars => [Spares]_vars
  <2> SUFFICES ASSUME RegistryInv, PublicationInv, RecordsInv, Next,
                      phase = "maintain", phase' = "commit", ~txn'.poisoned,
                      ram'.pressure \in {"normal", "soft"}
               PROVE  \A k \in DOMAIN txn.t.main \ DOMAIN txn'.t.main : DeadIn(txn.t, txn.t.main[k])
    OBVIOUS
  <2>1. PICK level \in Levels : Maintain(level) \/ MaintainFails(level)
    BY MaintenanceSteps
  <2>2. ~MaintainFails(level)
    BY DEF MaintainFails, RegistryInv, OpenOK, Open
  <2>3. ram'.pressure = level
    BY <2>1, <2>2 DEF Maintain, RegistryInv, MemoryOK
  <2> QED BY <2>1, <2>2, <2>3, MaintainRemoves
<1> QED BY <1>1, RecordsAreGrounded, PTL DEF Spec, MaintenanceSparesTheLiving

-----------------------------------------------------------------------------
(* Maintenance *)

\* Maintenance takes records away (expiry.rs, reclaim.rs).
LEMMA StaleMaintains ==
  ASSUME RegistryInv, RegistryInv', PublicationInv, CallsInv, RecordsInv, StaleInv,
         NEW level, Maintain(level)
  PROVE  StaleInv'
<1>1. /\ phase = "maintain" /\ phase' = "commit" /\ ram' = [ram EXCEPT !.pressure = level]
      /\ UNCHANGED <<disk, since, queue, batch, outs, acc, cl, log>>
  BY DEF Maintain
<1>2. ram'.tags = ram.tags /\ ram'.epoch = ram.epoch
  BY <1>1 DEF RegistryInv, MemoryOK
<1>3. Shrinks(txn.t, txn'.t)
  BY MaintainRemoves
<1>4. /\ txn'.t.tags = txn.t.tags /\ txn'.t.epoch = txn.t.epoch
      /\ DOMAIN txn'.t.main \subseteq DOMAIN txn.t.main
      /\ \A k \in DOMAIN txn'.t.main : txn'.t.main[k] = txn.t.main[k]
  BY <1>3 DEF Shrinks
<1>5. Open /\ Open' /\ phase' # "publish"
  BY <1>1 DEF Open
<1>6. Grows(ram.tags, ram'.tags, ram.epoch, ram'.epoch, log, log)
  BY <1>1, <1>2, MemoryStays
<1>7. BatchStruck'
  <2>1. Registry(txn.t, ram.nextId) /\ LogTraced(log)
    BY <1>5 DEF RegistryInv, OpenOK, StaleInv
  <2>2. Grown(log, log)
    BY GrownSelf
  <2>3. Grows(txn.t.tags, txn'.t.tags, txn.t.epoch, txn'.t.epoch, log, log)
    BY <1>4, <2>1, <2>2, TablesStay
  <2>4. Descends(txn.t.main, txn'.t.main, log)
    BY <1>4 DEF Descends, Alike
  <2>5. \A x \in DOMAIN batch : batch[x].call \in DOMAIN log
    BY WaitingCall DEF Elems
  <2>6. \A x \in DOMAIN batch : \A y \in ItemsDone(x) : JobStruck(batch[x], y, txn'.t, log)
    BY <1>5, <2>1, <2>2, <2>3, <2>4, <2>5, JobStruckStays DEF StaleInv, BatchStruck
  <2> QED BY <1>1, <1>5, <2>6 DEF BatchStruck, ItemsDone
<1>8. ~Lazy => since' = {disk'}
  BY <1>1 DEF StaleInv
<1>9. Clean(disk'.main, ram'.tags, ram'.epoch, log) /\ Clean(txn'.t.main, ram'.tags, ram'.epoch, log)
  <2>1. LogTraced(log) /\ Clean(txn.t.main, ram.tags, ram.epoch, log)
    BY <1>5 DEF StaleInv
  <2> QED BY <1>1, <1>2, <1>4, <1>6, <2>1, CleanLeft, SMT DEF StaleInv
<1> QED BY <1>1, <1>6, <1>7, <1>8, <1>9, StaleStays

\* So does the emergency reclamation (writer.rs free_space).
LEMMA StaleFrees ==
  ASSUME RegistryInv, CallsInv, StaleInv, NEW budget, FreeSpace(budget)
  PROVE  StaleInv'
<1> DEFINE swept == sweep(disk, now, budget).t
           u == evict(swept, now, budget).t
<1>1. /\ disk' = u /\ since' = (IF Lazy THEN since \cup {u} ELSE {u}) /\ phase' = "idle"
      /\ UNCHANGED <<ram, queue, batch, cl, log>>
  BY DEF FreeSpace
<1>2. DOMAIN disk = Fields
  BY DEF RegistryInv, StoredOK, Registry
<1>3. Shrinks(disk, swept)
  BY <1>2, DrainShrinks DEF sweep
<1> HIDE DEF swept
<1>4. DOMAIN swept = Fields
  BY <1>3 DEF Shrinks
<1>5. Shrinks(swept, u)
  BY <1>4, DrainShrinks DEF evict
<1> HIDE DEF u
<1>6. Shrinks(disk, u)
  BY <1>3, <1>5, ShrinksTrans
<1>7. DOMAIN u.main \subseteq DOMAIN disk.main /\ \A k \in DOMAIN u.main : u.main[k] = disk.main[k]
  BY <1>6 DEF Shrinks
<1>8. Grows(ram.tags, ram'.tags, ram.epoch, ram'.epoch, log, log)
  BY <1>1, MemoryStays
<1>9. BatchStruck' /\ ~Open'
  BY <1>1 DEF BatchStruck, Open
<1>10. ~Lazy => since' = {disk'}
  BY <1>1
<1>11. Clean(u.main, ram.tags, ram.epoch, log)
  BY <1>1, <1>7, <1>8, CleanLeft DEF StaleInv
<1> QED BY <1>1, <1>8, <1>9, <1>10, <1>11, StaleStays

-----------------------------------------------------------------------------
(* Every step, and the promise *)

\* Nothing has been called yet.
LEMMA StaleInit == Init => StaleInv
<1> SUFFICES ASSUME Init PROVE StaleInv
  OBVIOUS
<1>1. /\ queue = <<>> /\ phase = "idle" /\ batch = <<>> /\ cl = [c \in Clients |-> Idle]
      /\ log = <<>> /\ disk = EmptyTables /\ since = {EmptyTables}
  BY DEF Init
<1>2. DOMAIN log = {} /\ Elems(queue) = {} /\ Elems(batch) = {}
  BY <1>1, EmptyElems, SMT
<1>3. DOMAIN disk.main = {}
  BY <1>1 DEF EmptyTables, Empty
<1>4. LogTraced(log) /\ ReadsFresh(ram.tags, log)
  BY <1>2 DEF LogTraced, ReadsFresh
<1>5. \A c \in Clients : cl[c].pc = "idle"
  BY <1>1 DEF Idle
<1>6. OneCallEach /\ \A c \in Clients : Follows(cl[c], ram.tags, ram.epoch, log)
  BY <1>5 DEF OneCallEach, Follows
<1>7. Clean(disk.main, ram.tags, ram.epoch, log)
  BY <1>2, <1>3 DEF Clean, Spent
<1>8. BatchStruck /\ ~Open
  BY <1>1 DEF BatchStruck, Open
<1> QED BY <1>1, <1>2, <1>4, <1>6, <1>7, <1>8 DEF StaleInv

\* A step that touches nothing the invariant speaks of.
LEMMA StaleIdles ==
  ASSUME StaleInv, UNCHANGED <<disk, since, ram, queue, phase, batch, outs, acc, txn, cl, log>>
  PROVE  StaleInv'
<1>1. OneCallEach'
  BY DEF StaleInv, OneCallEach
<1>2. BatchStruck'
  BY DEF StaleInv, BatchStruck, Open, ItemsDone
<1> QED BY <1>1, <1>2 DEF StaleInv, Open

\* What survives a failure of the power, if the commits are synced.
LEMMA StalePower ==
  ASSUME Durable, RegistryInv, CallsInv, StaleInv, PowerLoss
  PROVE  StaleInv'
<1>1. "power" \in Faults /\ \E t \in since : Restart(t)
  BY DEF PowerLoss, Fault
<1>2. since = {disk}
  BY <1>1 DEF Durable, StaleInv
<1>3. Restart(disk)
  BY <1>1, <1>2
<1> QED BY <1>3, StaleRestarts

\* A failure leaves nothing stale to be found (writer.rs commit_batch, abort).
LEMMA StaleFailure ==
  ASSUME Durable, RegistryInv, CallsInv, StaleInv, Failure
  PROVE  StaleInv'
<1> USE DEF store_vars, writer_vars
<1>1. CASE BeginFails
  BY <1>1, StaleAborts DEF BeginFails
<1>2. CASE SyncFails
  BY <1>2, StaleRests DEF SyncFails, Open
<1>3. ASSUME NEW full \in BOOLEAN, CommitFails(full) PROVE StaleInv'
  BY <1>3, StaleAborts DEF CommitFails
<1>4. ASSUME NEW full \in BOOLEAN, ApplyFails(full) PROVE StaleInv'
  <2>1. /\ phase = "apply" /\ HasItem /\ ram' \in {ram, ApplyItem(Job, Item).ram}
        /\ Abort(full)
    BY <1>4 DEF ApplyFails
  <2>2. ram'.tags = ram.tags /\ ram'.epoch = ram.epoch
    BY <2>1, ItemMemory
  <2> QED BY <2>1, <2>2, StaleAborts
<1>5. ASSUME NEW level \in Levels, MaintainFails(level) PROVE StaleInv'
  BY <1>5, StaleMaintainFails
<1>6. CASE Crash
  BY <1>6, StaleRestarts DEF Crash
<1>7. CASE PowerLoss
  BY <1>7, StalePower
<1> QED BY <1>1, <1>2, <1>3, <1>4, <1>5, <1>6, <1>7 DEF Failure

\* The writer leaves nothing stale to be found (writer.rs writer_loop).
LEMMA StaleWriter ==
  ASSUME RegistryInv, RegistryInv', PublicationInv, CallsInv, RecordsInv, StaleInv, WriterStep
  PROVE  StaleInv'
<1> USE DEF store_vars, writer_vars
<1>1. \A level : /\ [ram EXCEPT !.pressure = level].tags = ram.tags
                 /\ [ram EXCEPT !.pressure = level].epoch = ram.epoch
  BY DEF RegistryInv, MemoryOK
<1>2. ASSUME NEW due \in BOOLEAN, Begin(due) PROVE StaleInv'
  BY <1>2, StaleBegins
<1>3. CASE \/ ApplySet \/ ApplyConditional \/ ApplyDelete \/ ApplyTouch \/ ApplyExpire
           \/ ApplyArithmetic \/ ApplyAppend \/ ApplyCreateTags \/ ApplyDeleteByTag
           \/ ApplyMergeTag \/ ApplyFlush \/ ApplySync
  BY <1>3, StaleApplies DEF ApplySet, ApplyConditional, ApplyDelete, ApplyTouch,
       ApplyExpire, ApplyArithmetic, ApplyAppend, ApplyCreateTags, ApplyDeleteByTag,
       ApplyMergeTag, ApplyFlush, ApplySync
<1>4. ASSUME NEW level \in Levels, Maintain(level) PROVE StaleInv'
  BY <1>4, StaleMaintains
<1>5. CASE Commit
  BY <1>5, StaleCommits
<1>6. CASE Publish
  BY <1>6, StalePublishes
<1>7. CASE CommitPoisoned
  BY <1>7, StaleAborts DEF CommitPoisoned
<1>8. CASE Reply
  BY <1>8, StaleReplies
<1>9. CASE SyncEnv
  BY <1>9, StaleRests DEF SyncEnv, Open
<1>10. CASE Refuse
  BY <1>1, <1>10, StaleRests DEF Refuse, Open
<1>11. CASE FreeSpaceFails
  BY <1>11, StaleRests DEF FreeSpaceFails, Open
<1>12. ASSUME NEW b \in FreeBudgets, FreeSpace(b) PROVE StaleInv'
  BY <1>12, StaleFrees
<1> QED BY <1>2, <1>3, <1>4, <1>5, <1>6, <1>7, <1>8, <1>9, <1>10, <1>11, <1>12 DEF WriterStep

\* No step of a caller, of the writer, of a failure or of the clock brings back
\* what has been invalidated.
LEMMA StaleStep ==
  ASSUME DistinctKeys, Durable, RegistryInv, RegistryInv', PublicationInv, CallsInv,
         RecordsInv, StaleInv, [Next]_vars
  PROVE  StaleInv'
<1>1. ASSUME NEW c \in Clients, ClientStep(c) \/ CallStep(c) PROVE StaleInv'
  BY <1>1, StaleCallerStep
<1>2. CASE WriterStep
  BY <1>2, StaleWriter
<1>3. CASE Failure
  BY <1>3, StaleFailure
<1>4. CASE Tick
  BY <1>4, StaleIdles DEF Tick, store_vars, writer_vars
<1>5. CASE UNCHANGED vars
  BY <1>5, StaleIdles DEF vars
<1> QED BY <1>1, <1>2, <1>3, <1>4, <1>5 DEF Next

\* Whatever the callers, the batching, the readers' snapshots, the sweep, the
\* eviction and the faults do, what an invalidation that has returned was to
\* end is dead on the disk, in the transaction and in every snapshot taken
\* since (writer.rs, tags.rs, read.rs).
THEOREM InvalidatedStaysDead ==
  ASSUME DistinctKeys, Durable
  PROVE  Spec => []StaleInv
<1> DEFINE All == RegistryInv /\ PublicationInv /\ CallsInv /\ RecordsInv /\ StaleInv
<1>1. Init => All
  BY RegistryInit, PublicationInit, CallsInit, RecordsInit, StaleInit
<1>2. All /\ [Next]_vars => All'
  BY RegistryStep, PublicationStep, CallsStep, RecordsStep, StaleStep
<1>3. All => StaleInv
  OBVIOUS
<1> HIDE DEF All
<1> QED BY <1>1, <1>2, <1>3, PTL DEF Spec

\* No generation in memory has come to the end of its 64 bits, where
\* delete_by_tag raises it no further (tags.rs).
Unsaturated == \A n \in DOMAIN ram.tags : ram.tags[n].gen < U64Max

\* What a read has found has not been invalidated before the read was made.
LEMMA FreshIsNotStale ==
  ASSUME CallsInv, RegistryInv, StaleInv, Unsaturated
  PROVE  NoStaleRead
<1> SUFFICES ASSUME NEW r \in DOMAIN log, Finished(r),
                    NEW d \in log[r].before, OkReply(d),
                    NEW i \in log[d].before, NEW j \in DOMAIN log[i].op.items,
                    StoredItem(i, j), Invalidates(d, i, j),
                    NEW x \in DOMAIN log[r].op.items, Hit(r, x, i, j)
             PROVE  FALSE
  BY DEF NoStaleRead
<1> DEFINE k == log[r].op.items[x].key
           by == log[i].op
           op == log[d].op
<1>1. log[r].reply[x].res = "hit" /\ log[r].reply[x].n = i /\ k = by.items[j].key
  BY SMT DEF Hit
<1>2. log[r].op.kind = "Get" /\ OkIn(log, r)
  BY DEF Finished, OkReply, OkIn
<1>3. d \in DOMAIN log
  BY DEF StaleInv, LogTraced
<1>4. d \in Spent(log)
  BY <1>3 DEF Spent, Killers, Invalidates, OkReply, OkIn
<1>5. FreshRead(r, ram.tags, log)
  BY <1>2 DEF StaleInv, ReadsFresh
<1>6. Survives(op, k, by, ram.tags)
  BY <1>1, <1>4, <1>5 DEF FreshRead
<1>7. op.kind # "Flush"
  BY <1>6 DEF Survives
<1>8. CASE op.kind = "Delete"
  <2>1. k \in KeysOf(op)
    BY <1>1, <1>8 DEF Invalidates, NamesKey
  <2> QED BY <1>6, <1>8, <2>1 DEF Survives
<1>9. CASE op.kind = "DeleteByTag"
  <2>1. op.items[1].name \in by.items[j].names
    BY <1>9 DEF Invalidates, NamesTag
  <2>2. Storing(by)
    BY DEF StoredItem, Storing, Stores
  <2>3. op.items[1].name \in Named(k, by)
    BY <1>1, <2>1, <2>2 DEF Named
  <2>4. op.items[1].name \in DOMAIN ram.tags /\ ram.tags[op.items[1].name].gen >= U64Max
    BY <1>6, <1>9, <2>3 DEF Survives
  <2>5. ram.tags[op.items[1].name].gen \in Nat /\ ram.tags[op.items[1].name].gen < U64Max
    BY <2>4 DEF Unsaturated, RegistryInv, MemoryOK, Entry
  <2>6. PICK g \in Nat : g = ram.tags[op.items[1].name].gen
    BY <2>5
  <2>7. g >= U64Max /\ g < U64Max
    BY <2>4, <2>5, <2>6
  <2>8. PICK u \in Nat : u = U64Max
    BY EngineAssumption
  <2>9. g >= u /\ g < u
    BY <2>7, <2>8
  <2> QED BY <2>9, SMT
<1> QED BY <1>7, <1>8, <1>9 DEF Invalidates

\* The promise of docs/protocol.md, for every number of callers, keys, tags and
\* calls and every batch limit: once DELETE, DELETE_BY_TAG or FLUSH has returned,
\* no later read returns what was written before it.  It needs three things of
\* its surroundings: that a batch names a key once (DistinctKeys), that no
\* commit is lost (Durable), and that no generation has saturated (Unsaturated).
THEOREM ReadsAreNeverStale ==
  ASSUME DistinctKeys, Durable
  PROVE  Spec => [](Unsaturated => NoStaleRead)
<1>1. Spec => [](RegistryInv /\ PublicationInv /\ CallsInv /\ RecordsInv)
  BY RecordsAreGrounded
<1>2. Spec => []StaleInv
  BY InvalidatedStaysDead
<1>3. RegistryInv /\ CallsInv /\ StaleInv => (Unsaturated => NoStaleRead)
  BY FreshIsNotStale
<1> QED BY <1>1, <1>2, <1>3, PTL

=============================================================================
