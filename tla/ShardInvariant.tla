--------------------------- MODULE ShardInvariant ---------------------------
(***************************************************************************)
(* What a shard keeps, for every set of keys, tags, clients and            *)
(* operations, every batch and every failure: what the operations do to    *)
(* the registry and to the effects they leave for publication, the         *)
(* inductive invariants of the publication (PublicationInv), of the        *)
(* callers (CallsInv) and of the records (RecordsInv), and what memory and *)
(* the log of calls never lose.                                            *)
(* ShardProofs, CallProofs and StaleInvariant go on from here.             *)
(***************************************************************************)
EXTENDS ShardProperties, TLAPS

USE Zenon

RamFields == {"epoch", "tags", "nextId", "casNext", "casMark", "pressure"}

\* The operation touched neither the registry nor the epoch.
Keeps(r, t, out) ==
  /\ DOMAIN out.ram = RamFields
  /\ out.ram.tags = r.tags /\ out.ram.nextId = r.nextId /\ out.ram.epoch = r.epoch
  /\ DOMAIN out.t = Fields
  /\ out.t.tags = t.tags /\ out.t.epoch = t.epoch

Silent(r, t, out) == Keeps(r, t, out) /\ out.eff = <<>>

-----------------------------------------------------------------------------
(* Record operations leave the registry alone (apply.rs) *)

\* Taking a CAS token changes counters only (apply.rs next_cas).
LEMMA NextCasKeeps ==
  ASSUME NEW r, NEW t, DOMAIN r = RamFields, DOMAIN t = Fields
  PROVE  Keeps(r, t, next_cas(r, t))
  BY DEF next_cas, Keeps, RamFields, Fields

\* Storing a record leaves the registry alone (apply.rs apply_set).
LEMMA ApplySetKeeps ==
  ASSUME NEW r, NEW t, NEW w, NEW p, DOMAIN r = RamFields, DOMAIN t = Fields
  PROVE  Keeps(r, t, apply_set(r, t, w, p))
<1>1. Keeps(r, t, next_cas(r, t))
  BY NextCasKeeps
<1> QED BY <1>1 DEF apply_set, Keeps, Fields

\* A result built from a store (apply.rs rewrite).
LEMMA AppliedSilent ==
  ASSUME NEW r, NEW t, NEW a, NEW res, NEW n, Keeps(r, t, a)
  PROVE  Silent(r, t, Applied(a, res, n))
  BY DEF Applied, Silent, Keeps

\* A result that changes nothing.
LEMMA NothingSilent ==
  ASSUME NEW r, NEW t, NEW res, NEW n, DOMAIN r = RamFields, DOMAIN t = Fields
  PROVE  Silent(r, t, Nothing(r, t, res, n))
  BY DEF Nothing, Silent, Keeps

\* An in-place rewrite stores under the same registry (apply.rs rewrite).
LEMMA RewriteKeeps ==
  ASSUME NEW r, NEW t, NEW w, NEW k, NEW tags, NEW epoch, NEW at, NEW val, NEW ver,
         DOMAIN r = RamFields, DOMAIN t = Fields
  PROVE  Keeps(r, t, rewrite(r, t, w, k, tags, epoch, at, val, ver))
  BY ApplySetKeeps DEF rewrite

\* A plain SET changes no registry (apply.rs apply_set).
LEMMA WriteSetSilent ==
  ASSUME NEW r, NEW t, NEW w, NEW p, DOMAIN r = RamFields, DOMAIN t = Fields
  PROVE  Silent(r, t, WriteSet(r, t, w, p))
  BY ApplySetKeeps, AppliedSilent DEF WriteSet

\* Nor does a DELETE (apply.rs apply_delete).
LEMMA DeleteSilent ==
  ASSUME NEW r, NEW t, NEW w, NEW k, DOMAIN r = RamFields, DOMAIN t = Fields
  PROVE  Silent(r, t, apply_delete(r, t, w, k))
  BY DEF apply_delete, Nothing, Silent, Keeps, Fields

\* Nor does a TOUCH, whether or not the key is live (apply.rs apply_touch).
LEMMA TouchSilent ==
  ASSUME NEW r, NEW t, NEW w, NEW k, NEW secs, DOMAIN r = RamFields, DOMAIN t = Fields
  PROVE  Silent(r, t, apply_touch(r, t, w, k, secs))
  BY RewriteKeeps, AppliedSilent, NothingSilent DEF apply_touch

\* Nor does a conditional store, refused or made (apply.rs
\* apply_conditional_set).
LEMMA ConditionalSilent ==
  ASSUME NEW r, NEW t, NEW w, NEW p, DOMAIN r = RamFields, DOMAIN t = Fields
  PROVE  Silent(r, t, apply_conditional_set(r, t, w, p))
  BY WriteSetSilent, NothingSilent DEF apply_conditional_set

\* Nor does EXPIRE in any of its outcomes: a miss, a refusal, a deletion or a
\* new deadline (apply.rs apply_expire).
LEMMA ExpireSilent ==
  ASSUME NEW r, NEW t, NEW w, NEW k, NEW ttl, NEW guard,
         DOMAIN r = RamFields, DOMAIN t = Fields
  PROVE  Silent(r, t, apply_expire(r, t, w, k, ttl, guard))
  BY RewriteKeeps, AppliedSilent, NothingSilent, DeleteSilent DEF apply_expire

\* Nor does an increment (apply.rs apply_arithmetic).
LEMMA ArithmeticSilent ==
  ASSUME NEW r, NEW t, NEW w, NEW k, NEW absent, NEW bound, NEW ttl, NEW ver,
         DOMAIN r = RamFields, DOMAIN t = Fields
  PROVE  Silent(r, t, apply_arithmetic(r, t, w, k, absent, bound, ttl, ver))
  BY RewriteKeeps, AppliedSilent, NothingSilent DEF apply_arithmetic

\* Nor does an append (apply.rs apply_append).
LEMMA AppendSilent ==
  ASSUME NEW r, NEW t, NEW w, NEW k, NEW len, NEW ver,
         DOMAIN r = RamFields, DOMAIN t = Fields
  PROVE  Silent(r, t, apply_append(r, t, w, k, len, ver))
  BY RewriteKeeps, AppliedSilent, NothingSilent DEF apply_append

-----------------------------------------------------------------------------
(* Maintenance leaves the registry alone (expiry.rs, reclaim.rs) *)

KeepsTables(t, u) == DOMAIN u = Fields /\ u.tags = t.tags /\ u.epoch = t.epoch

\* The sweep and eviction delete records and rows (expiry.rs).
LEMMA DrainKeeps ==
  ASSUME NEW t, NEW w, NEW budget, NEW anything, DOMAIN t = Fields
  PROVE  KeepsTables(t, drain_expiry_index(t, w, budget, anything).t)
  BY DEF drain_expiry_index, KeepsTables, Fields

\* Reclamation deletes records, rows and jobs (reclaim.rs reclaim_step).
LEMMA ReclaimKeeps ==
  ASSUME NEW r, NEW t, NEW w, NEW budget, DOMAIN t = Fields
  PROVE  KeepsTables(t, reclaim_step(r, t, w, budget).t)
  BY DEF reclaim_step, KeepsTables, Fields

-----------------------------------------------------------------------------
(* Operations on the registry (tags.rs).  What is proved of each: the       *)
(* tables it leaves are again a registry, no older than the ones it found,  *)
(* its effect is supported by them, and so is every effect before it.       *)

Advances(r, t, out) ==
  /\ DOMAIN out.ram = RamFields
  /\ out.ram.tags = r.tags /\ out.ram.epoch = r.epoch
  /\ out.ram.nextId \in Nat /\ r.nextId <= out.ram.nextId
  /\ Registry(out.t, out.ram.nextId)
  /\ Behind(t.tags, out.t.tags)
  /\ out.t.epoch = t.epoch
  /\ out.eff = <<>> \/ \E e : /\ out.eff = <<e>> /\ e.what # "epoch"
                             /\ Supported(e, out.t, out.ram.nextId)
  /\ \A e : Supported(e, t, r.nextId) => Supported(e, out.t, out.ram.nextId)

\* An operation that keeps the registry advances it trivially.
LEMMA SilentAdvances ==
  ASSUME NEW r, NEW t, NEW out, r.nextId \in Nat, Registry(t, r.nextId), Silent(r, t, out)
  PROVE  Advances(r, t, out)
  BY SMT DEF Advances, Silent, Keeps, Registry, Behind, Supported, Entry

\* Creating a tag takes the next id, which no name and no effect has used
\* (tags.rs apply_create_tag).
LEMMA CreateAdvances ==
  ASSUME NEW r, NEW t, NEW name, NEW start \in Nat,
         DOMAIN r = RamFields, r.nextId \in Nat, Registry(t, r.nextId)
  PROVE  Advances(r, t, apply_create_tag(r, t, name, start))
<1> DEFINE out == apply_create_tag(r, t, name, start)
<1>1. CASE name \in DOMAIN t.tags
  <2>1. out = [ram |-> r, t |-> t, res |-> "created", n |-> t.tags[name].gen,
               eff |-> <<TagCreated(name, t.tags[name])>>]
    BY <1>1 DEF apply_create_tag
  <2>2. Supported(TagCreated(name, t.tags[name]), t, r.nextId)
    BY <1>1, SMT DEF TagCreated, Supported, Registry, Entry
  <2> QED BY <2>1, <2>2, SMT DEF Advances, TagCreated, Registry, Behind, Entry
<1>2. CASE name \notin DOMAIN t.tags /\ TagLimitReached(r)
  <2>1. out = Nothing(r, t, "tag_limit", 0)
    BY <1>2 DEF apply_create_tag
  <2> QED BY <2>1, NothingSilent, SilentAdvances DEF Registry
<1>3. CASE name \notin DOMAIN t.tags /\ ~TagLimitReached(r)
  <2> DEFINE entry == [id |-> r.nextId, gen |-> start]
             u == [t EXCEPT !.tags = Put(@, name, entry)]
             s == [r EXCEPT !.nextId = @ + 1]
  <2>1. out = [ram |-> s, t |-> u, res |-> "created", n |-> start,
               eff |-> <<TagCreated(name, entry)>>]
    BY <1>3 DEF apply_create_tag
  <2>2. /\ DOMAIN s = RamFields /\ s.tags = r.tags /\ s.epoch = r.epoch
        /\ s.nextId = r.nextId + 1
    BY DEF RamFields
  <2>3. /\ DOMAIN u = Fields /\ u.epoch = t.epoch
        /\ DOMAIN u.tags = DOMAIN t.tags \cup {name}
        /\ u.tags[name] = entry
        /\ \A m \in DOMAIN t.tags : u.tags[m] = t.tags[m]
    BY <1>3 DEF Registry, Fields, Put
  <2>4. entry \in Entry /\ entry.id = r.nextId
    BY DEF Entry
  <2> HIDE DEF entry, u, s
  <2>5. Registry(u, s.nextId)
    BY <1>3, <2>2, <2>3, <2>4, SMT DEF Registry, Entry
  <2>6. Behind(t.tags, u.tags)
    BY <2>3, SMT DEF Behind, Registry, Entry
  <2>7. Supported(TagCreated(name, entry), u, s.nextId)
    BY <2>3, <2>4, SMT DEF Supported, TagCreated, Entry
  <2>8. ASSUME NEW e, Supported(e, t, r.nextId) PROVE Supported(e, u, s.nextId)
    BY <1>3, <2>2, <2>3, <2>4, <2>8, SMT DEF Supported, Registry, Entry
  <2> QED BY <2>1, <2>2, <2>3, <2>5, <2>6, <2>7, <2>8, SMT DEF Advances, TagCreated
<1> QED BY <1>1, <1>2, <1>3

\* Raising a generation: ids are not shared, so no other name is concerned
\* (tags.rs apply_merge_tag).
LEMMA MergeAdvances ==
  ASSUME NEW r, NEW t, NEW name, NEW gen \in Nat,
         DOMAIN r = RamFields, r.nextId \in Nat, Registry(t, r.nextId)
  PROVE  Advances(r, t, apply_merge_tag(r, t, name, gen))
<1> DEFINE out == apply_merge_tag(r, t, name, gen)
<1>1. CASE name \notin DOMAIN t.tags
  BY <1>1, CreateAdvances DEF apply_merge_tag
<1>2. CASE name \in DOMAIN t.tags /\ gen <= t.tags[name].gen
  <2>1. out = Nothing(r, t, "merged", t.tags[name].gen)
    BY <1>2 DEF apply_merge_tag
  <2> QED BY <2>1, NothingSilent, SilentAdvances DEF Registry
<1>3. CASE name \in DOMAIN t.tags /\ ~(gen <= t.tags[name].gen)
  <2> DEFINE id == t.tags[name].id
             entry == [id |-> id, gen |-> gen]
             u == [t EXCEPT !.tags = Put(@, name, entry),
                            !.jobs = Put(@, id, [target |-> gen, cursor |-> NoCursor])]
  <2>1. out = [ram |-> r, t |-> u, res |-> "merged", n |-> gen,
               eff |-> <<TagGeneration(id, gen)>>]
    BY <1>3 DEF apply_merge_tag
  <2>2. /\ DOMAIN u = Fields /\ u.epoch = t.epoch
        /\ DOMAIN u.tags = DOMAIN t.tags
        /\ u.tags[name] = entry
        /\ \A m \in DOMAIN t.tags : m # name => u.tags[m] = t.tags[m]
    BY <1>3, SMT DEF Registry, Fields, Put
  <2>3. /\ entry \in Entry /\ entry.id = id /\ entry.gen = gen
        /\ id \in Nat /\ id < r.nextId /\ t.tags[name].gen < gen
    BY <1>3, SMT DEF Entry, Registry
  <2>4. \A m \in DOMAIN t.tags : u.tags[m].id = t.tags[m].id
    BY <2>2, <2>3
  <2> HIDE DEF entry, u
  <2>5. Registry(u, r.nextId)
    BY <1>3, <2>2, <2>3, <2>4 DEF Registry
  <2>6. Behind(t.tags, u.tags)
    BY <1>3, <2>2, <2>3, SMT DEF Behind, Registry, Entry
  <2>7. Supported(TagGeneration(id, gen), u, r.nextId)
    BY <1>3, <2>2, <2>3, <2>4, SMT DEF Supported, TagGeneration, Registry, Entry
  <2>8. ASSUME NEW e, Supported(e, t, r.nextId) PROVE Supported(e, u, r.nextId)
    BY <1>3, <2>2, <2>3, <2>4, <2>8, SMT DEF Supported, Registry, Entry
  <2> QED BY <2>1, <2>2, <2>5, <2>6, <2>7, <2>8, SMT DEF Advances, TagGeneration
<1> QED BY <1>1, <1>2, <1>3

\* An invalidation is a merge with the next generation; at the end of the
\* range it publishes the generation it found (tags.rs apply_delete_by_tag).
LEMMA DeleteByTagAdvances ==
  ASSUME NEW r, NEW t, NEW name,
         DOMAIN r = RamFields, r.nextId \in Nat, Registry(t, r.nextId)
  PROVE  Advances(r, t, apply_delete_by_tag(r, t, name))
<1> DEFINE out == apply_delete_by_tag(r, t, name)
           entry == t.tags[name]
<1>1. CASE name \notin DOMAIN t.tags
  <2>1. out = Nothing(r, t, "unknown_tag", 0)
    BY <1>1 DEF apply_delete_by_tag
  <2> QED BY <2>1, NothingSilent, SilentAdvances DEF Registry
<1>2. CASE name \in DOMAIN t.tags /\ entry.gen = U64Max
  <2>1. /\ out.ram = r /\ out.t = t
        /\ out.eff = <<TagGeneration(entry.id, entry.gen)>>
    BY <1>2 DEF apply_delete_by_tag, Nothing
  <2>2. Supported(TagGeneration(entry.id, entry.gen), t, r.nextId)
    BY <1>2, SMT DEF Supported, TagGeneration, Registry, Entry
  <2> QED BY <2>1, <2>2, SMT DEF Advances, TagGeneration, Registry, Behind, Entry
<1>3. CASE name \in DOMAIN t.tags /\ entry.gen # U64Max
  <2> DEFINE merged == apply_merge_tag(r, t, name, entry.gen + 1)
  <2>1. entry.gen + 1 \in Nat
    BY <1>3, SMT DEF Registry, Entry
  <2>2. Advances(r, t, merged)
    BY <2>1, MergeAdvances
  <2>3. out = [merged EXCEPT !.res = "invalidated"]
    BY <1>3 DEF apply_delete_by_tag
  <2>4. merged.ram = out.ram /\ merged.t = out.t /\ merged.eff = out.eff
    BY <1>3, <2>1, <2>3 DEF apply_merge_tag, Nothing, Registry, Entry
  <2> QED BY <2>2, <2>4 DEF Advances
<1> QED BY <1>1, <1>2, <1>3

-----------------------------------------------------------------------------
(* Sequences: the elements of what the writer builds *)

\* An empty queue, or list of effects, holds nothing.
LEMMA EmptyElems == IsSeq(<<>>) /\ Elems(<<>>) = {}
  BY SMT DEF IsSeq, Elems

\* Queueing a job, or collecting an effect, adds that one (queue.rs
\* PostCommit, writer.rs send).
LEMMA AppendElems ==
  ASSUME NEW q, NEW e, IsSeq(q)
  PROVE  /\ IsSeq(Append(q, e))
         /\ Elems(Append(q, e)) = Elems(q) \cup {e}
<1> DEFINE S == Elems(q) \cup {e}
           a == Append(q, e)
<1>1. q \in Seq(S) /\ e \in S
  BY SMT DEF IsSeq
<1> HIDE DEF S
<1>2. a \in Seq(S) /\ Len(q) \in Nat /\ DOMAIN q = 1..Len(q) /\ DOMAIN a = 1..(Len(q) + 1)
  BY <1>1, SMT
<1>3. a[Len(q) + 1] = e /\ \A i \in 1..Len(q) : a[i] = q[i]
  BY <1>1, SMT
<1>4. Elems(a) = S
  <2>1. \A i \in DOMAIN a : i \in DOMAIN q \/ i = Len(q) + 1
    BY <1>2, SMT
  <2> QED BY <1>2, <1>3, <2>1, SMT DEF Elems, S
<1> QED BY <1>2, <1>4 DEF S, IsSeq

\* A sequence over a set is one over its own elements.
LEMMA OwnElems ==
  ASSUME NEW S, NEW q \in Seq(S)
  PROVE  IsSeq(q) /\ Elems(q) \subseteq S
<1>1. DOMAIN q = 1..Len(q) /\ Len(q) \in Nat /\ \A i \in 1..Len(q) : q[i] \in S
  BY SMT
<1>2. \A i \in 1..Len(q) : q[i] \in Elems(q)
  BY <1>1 DEF Elems
<1>3. q \in Seq(Elems(q))
  BY <1>1, <1>2, SMT
<1>4. Elems(q) \subseteq S
  BY <1>1 DEF Elems
<1> QED BY <1>3, <1>4 DEF IsSeq

\* A stretch of a sequence, by position.
LEMMA SliceAt ==
  ASSUME NEW S, NEW q, NEW m \in Nat, NEW n \in Nat, \A i \in m..n : q[i] \in S
  PROVE  /\ SubSeq(q, m, n) \in Seq(S)
         /\ Len(SubSeq(q, m, n)) = IF m <= n THEN n - m + 1 ELSE 0
         /\ \A i \in 1..(n - m + 1) : SubSeq(q, m, n)[i] = q[m + i - 1]
  BY SMT

\* Draining the queue into a batch invents no job (writer.rs writer_loop).
LEMMA SubSeqElems ==
  ASSUME NEW q, IsSeq(q), NEW m \in Nat \ {0}, NEW n \in Nat, n <= Len(q)
  PROVE  /\ IsSeq(SubSeq(q, m, n))
         /\ Elems(SubSeq(q, m, n)) \subseteq Elems(q)
<1> DEFINE u == SubSeq(q, m, n)
<1>1. Len(q) \in Nat /\ DOMAIN q = 1..Len(q)
  BY SMT DEF IsSeq
<1>2. \A i \in m..n : q[i] \in Elems(q)
  BY <1>1, SMT DEF Elems
<1>3. u \in Seq(Elems(q))
  BY <1>2, SliceAt
<1> HIDE DEF u
<1> QED BY <1>3, OwnElems DEF u

-----------------------------------------------------------------------------
(* Registries compared *)

\* A registry is behind itself: a transaction starts from the disk (writer.rs
\* commit_batch).
LEMMA BehindSelf ==
  ASSUME NEW t, NEW a, Registry(t, a)
  PROVE  Behind(t.tags, t.tags)
  BY SMT DEF Behind, Registry, Entry

-----------------------------------------------------------------------------
(* Items and maintenance, whatever the operation *)

\* The operations on records.
RecordKinds == {"Set", "ConditionalSet", "Delete", "Touch", "Expire", "Arithmetic", "Append", "Sync"}

\* An operation on records keeps the registry (queue.rs apply).
LEMMA ItemSilent ==
  ASSUME RegistryInv, phase = "apply", Job.kind \in RecordKinds
  PROVE  Silent(ram, txn.t, ApplyItem(Job, Item))
<1>1. DOMAIN ram = RamFields /\ DOMAIN txn.t = Fields
  BY DEF RegistryInv, MemoryOK, OpenOK, RamFields, Open, Registry
<1> HIDE DEF Job, Item
<1>2. CASE Job.kind = "Set"
  BY <1>1, <1>2, WriteSetSilent DEF ApplyItem
<1>3. CASE Job.kind = "ConditionalSet"
  BY <1>1, <1>3, ConditionalSilent DEF ApplyItem
<1>4. CASE Job.kind = "Delete"
  BY <1>1, <1>4, DeleteSilent DEF ApplyItem
<1>5. CASE Job.kind = "Touch"
  BY <1>1, <1>5, TouchSilent DEF ApplyItem
<1>6. CASE Job.kind = "Expire"
  BY <1>1, <1>6, ExpireSilent DEF ApplyItem
<1>7. CASE Job.kind = "Arithmetic"
  BY <1>1, <1>7, ArithmeticSilent DEF ApplyItem
<1>8. CASE Job.kind = "Append"
  BY <1>1, <1>8, AppendSilent DEF ApplyItem
<1>9. CASE Job.kind = "Sync"
  BY <1>1, <1>9, NothingSilent DEF ApplyItem
<1> QED BY <1>2, <1>3, <1>4, <1>5, <1>6, <1>7, <1>8, <1>9 DEF RecordKinds

\* Every operation but a flush advances the registry (queue.rs apply).
LEMMA ItemAdvances ==
  ASSUME RegistryInv, phase = "apply", HasItem,
         Job.kind \in RecordKinds \cup {"CreateTags", "DeleteByTag", "MergeTag"}
  PROVE  Advances(ram, txn.t, ApplyItem(Job, Item))
<1>1. /\ DOMAIN ram = RamFields /\ ram.nextId \in Nat
      /\ Registry(txn.t, ram.nextId) /\ DOMAIN txn.t = Fields
  BY DEF RegistryInv, MemoryOK, OpenOK, RamFields, Open, Registry
<1>2. Job.kind \in {"CreateTags", "MergeTag"} => Item.gen \in Nat
  <2>1. JobOK(Job)
    BY DEF RegistryInv, JobsOK, HasItem, Job, Elems
  <2> QED BY <2>1 DEF JobOK, HasItem, Item
<1>3. CASE Job.kind \in RecordKinds
  <2>1. Silent(ram, txn.t, ApplyItem(Job, Item))
    BY <1>3, ItemSilent
  <2> QED BY <1>1, <2>1, SilentAdvances
<1> HIDE DEF Job, Item
<1>4. CASE Job.kind = "CreateTags"
  BY <1>1, <1>2, <1>4, CreateAdvances DEF ApplyItem
<1>5. CASE Job.kind = "DeleteByTag"
  BY <1>1, <1>5, DeleteByTagAdvances DEF ApplyItem
<1>6. CASE Job.kind = "MergeTag"
  BY <1>1, <1>2, <1>6, MergeAdvances DEF ApplyItem
<1> QED BY <1>3, <1>4, <1>5, <1>6

\* Maintenance works on records (writer.rs commit_batch, apply_pressure).
LEMMA MaintainKeeps ==
  ASSUME RegistryInv, NEW level, Maintain(level)
  PROVE  DOMAIN txn' = {"t", "poisoned", "due"} /\ KeepsTables(txn.t, txn'.t)
<1> DEFINE swept     == sweep(txn.t, now, SweepBatch).t
           reclaimed == IF DOMAIN swept.jobs = {} THEN [t |-> swept, completed |-> TRUE]
                        ELSE reclaim_step(ram, swept, now, ReclaimBatch)
           evicted   == apply_pressure(reclaimed.t, now, EvictBatch, level)
<1>1. phase = "maintain" /\ txn' = [txn EXCEPT !.t = evicted.t]
  BY DEF Maintain
<1>2. DOMAIN txn.t = Fields
  BY <1>1 DEF RegistryInv, OpenOK, Open, Registry
<1>3. KeepsTables(txn.t, swept)
  BY <1>2, DrainKeeps DEF sweep
<1> HIDE DEF swept
<1>4. KeepsTables(txn.t, reclaimed.t)
  BY <1>3, ReclaimKeeps, SMT DEF KeepsTables
<1> HIDE DEF reclaimed
<1>5. KeepsTables(txn.t, evicted.t)
  <2>1. DOMAIN reclaimed.t = Fields
    BY <1>4 DEF KeepsTables
  <2>2. KeepsTables(reclaimed.t, evict(reclaimed.t, now, EvictBatch).t)
    BY <2>1, DrainKeeps DEF evict
  <2> QED BY <1>4, <2>2 DEF KeepsTables, apply_pressure
<1> HIDE DEF evicted
<1> QED BY <1>1, <1>5 DEF RegistryInv, OpenOK, Open

\* Applying an item, whether or not it fails, changes neither the registry nor
\* the epoch in memory (queue.rs apply; PostCommit is what does).
LEMMA ItemMemory ==
  ASSUME RegistryInv, phase = "apply", HasItem
  PROVE  LET r == ApplyItem(Job, Item).ram
         IN  /\ DOMAIN r = RamFields /\ r.tags = ram.tags /\ r.epoch = ram.epoch
             /\ r.nextId \in Nat /\ ram.nextId <= r.nextId
<1>1. Job.kind \in WriteOps
  BY DEF RegistryInv, JobsOK, HasItem, Job, Elems, JobOK
<1>2. DOMAIN ram = RamFields /\ ram.nextId \in Nat
  BY DEF RegistryInv, MemoryOK, RamFields
<1>3. CASE Job.kind = "Flush"
  <2>1. ApplyItem(Job, Item).ram = ram
    BY <1>3 DEF ApplyItem, apply_flush
  <2> QED BY <1>2, <2>1, SMT
<1>4. CASE Job.kind # "Flush"
  <2>1. Advances(ram, txn.t, ApplyItem(Job, Item))
    BY <1>1, <1>4, ItemAdvances DEF WriteOps, RecordKinds
  <2> QED BY <2>1 DEF Advances
<1> QED BY <1>3, <1>4

-----------------------------------------------------------------------------
(* Effects waiting to be published (queue.rs PostCommit).  `tags` is the    *)
(* registry they lead to, `mem` the one in memory.                          *)

\* The effect is about this name.
About(e, n, tags) ==
  \/ e.what = "created" /\ e.name = n
  \/ e.what = "raised" /\ e.id = tags[n].id

\* The generation the effect brings.
GenOf(e) == IF e.what = "created" THEN e.entry.gen ELSE e.gen

\* Effects about a name bring generations that do not fall, none below memory's.
Ordered(q, mem, tags) ==
  /\ \A i, j \in DOMAIN q : \A n \in DOMAIN tags :
       i < j /\ About(q[i], n, tags) /\ About(q[j], n, tags) => GenOf(q[i]) <= GenOf(q[j])
  /\ \A i \in DOMAIN q : \A n \in DOMAIN mem :
       About(q[i], n, tags) => mem[n].gen <= GenOf(q[i])

\* What memory lacks of a name, an effect brings.
Brought(q, mem, tags) ==
  \A n \in DOMAIN tags :
    \/ n \in DOMAIN mem /\ mem[n].gen = tags[n].gen
    \/ \E i \in DOMAIN q : About(q[i], n, tags) /\ GenOf(q[i]) = tags[n].gen

\* The first effect about a name that memory lacks creates it.
CreatedFirst(q, mem, tags) ==
  \A n \in DOMAIN tags \ DOMAIN mem : \E i \in DOMAIN q :
    /\ q[i].what = "created" /\ q[i].name = n
    /\ \A j \in DOMAIN q : About(q[j], n, tags) => i <= j

Pending(q, mem, tags) ==
  Ordered(q, mem, tags) /\ Brought(q, mem, tags) /\ CreatedFirst(q, mem, tags)

\* It is a function, and so equal to another with the same values.
IsTable(f) == f = [x \in DOMAIN f |-> f[x]]

\* The inductive invariant behind RamMatchesDisk: what is not yet in memory
\* waits, in order, to be published.
PublicationInv ==
  /\ IsTable(ram.tags) /\ IsTable(disk.tags) /\ \A t \in since : IsTable(t.tags)
  /\ Open => IsTable(txn.t.tags) /\ Pending(eff, ram.tags, txn.t.tags)
  /\ phase = "publish" => Pending(eff, ram.tags, disk.tags)
  /\ phase # "publish" => ram.tags = disk.tags

-----------------------------------------------------------------------------
(* Publishing one effect *)

\* What remains after the first effect, by position.
LEMMA TailAt ==
  ASSUME NEW q, IsSeq(q), q # <<>>
  PROVE  /\ Len(q) \in Nat \ {0} /\ DOMAIN q = 1..Len(q) /\ Head(q) = q[1]
         /\ DOMAIN Tail(q) = 1..(Len(q) - 1)
         /\ \A i \in 1..(Len(q) - 1) : Tail(q)[i] = q[i + 1]
  BY SMT DEF IsSeq

\* The effects and the registries are well formed.
Formed(q, mem, tags) ==
  /\ IsSeq(q)
  /\ \A n \in DOMAIN mem : mem[n] \in Entry
  /\ \A n \in DOMAIN tags : tags[n] \in Entry
  /\ \A m, n \in DOMAIN tags : tags[m].id = tags[n].id => m = n
  /\ Behind(mem, tags)
  /\ \A i \in DOMAIN q : q[i].what \in {"created", "raised", "epoch"}
  /\ \A i \in DOMAIN q : \A n \in DOMAIN tags :
       About(q[i], n, tags) => GenOf(q[i]) \in Nat /\ GenOf(q[i]) <= tags[n].gen

\* What RegistryInv says of effects and registries.
LEMMA RegistryFormed ==
  ASSUME NEW q, NEW mem, NEW t, NEW next, IsSeq(q), Registry(t, next),
         \A n \in DOMAIN mem : mem[n] \in Entry, Behind(mem, t.tags),
         \A e \in Elems(q) : Supported(e, t, next)
  PROVE  Formed(q, mem, t.tags)
<1>1. \A i \in DOMAIN q : q[i] \in Elems(q)
  BY DEF Elems
<1>2. ASSUME NEW i \in DOMAIN q
      PROVE  /\ q[i].what \in {"created", "raised", "epoch"}
             /\ \A n \in DOMAIN t.tags : About(q[i], n, t.tags) =>
                  GenOf(q[i]) \in Nat /\ GenOf(q[i]) <= t.tags[n].gen
  <2>1. Supported(q[i], t, next)
    BY <1>1
  <2> QED BY <2>1 DEF Supported, About, GenOf, Entry
<1> QED BY <1>2 DEF Formed, Registry

\* With nothing left to publish, memory is the registry.
LEMMA AllPublished ==
  ASSUME NEW mem, NEW tags, Formed(<<>>, mem, tags), Pending(<<>>, mem, tags),
         IsTable(mem), IsTable(tags)
  PROVE  mem = tags
<1>1. \A n \in DOMAIN tags : n \in DOMAIN mem /\ mem[n].gen = tags[n].gen
  BY SMT DEF Pending, Brought
<1>2. \A n \in DOMAIN mem : n \in DOMAIN tags /\ mem[n].id = tags[n].id
  BY DEF Formed, Behind
<1>3. DOMAIN mem = DOMAIN tags
  BY <1>1, <1>2
<1>4. \A n \in DOMAIN tags : mem[n] = tags[n]
  BY <1>1, <1>2, <1>3, SMT DEF Formed, Entry
<1> QED BY <1>3, <1>4 DEF IsTable

-----------------------------------------------------------------------------
(* Collecting one effect *)

\* What an operation's effect says of the registries before and after it
\* (tags.rs): the generation of every name it changes.
Brings(e, tags, new, next) ==
  /\ e.what \in {"created", "raised", "epoch"}
  /\ Behind(tags, new)
  /\ \A n \in DOMAIN new : About(e, n, new) => GenOf(e) = new[n].gen
  /\ \A n \in DOMAIN tags : ~About(e, n, new) => new[n] = tags[n]
  /\ \A n \in DOMAIN new \ DOMAIN tags : e.what = "created" /\ e.name = n /\ new[n].id = next

-----------------------------------------------------------------------------
(* The operations on the registry (tags.rs) *)

\* The operation's effect, if it has one, brings what it changed.
Delivers(r, t, out) ==
  /\ IsTable(t.tags) => IsTable(out.t.tags)
  /\ \/ out.t.tags = t.tags /\ out.eff = <<>>
     \/ \E e : out.eff = <<e>> /\ Brings(e, t.tags, out.t.tags, r.nextId)

\* An operation on records has nothing to bring.
LEMMA SilentDelivers ==
  ASSUME NEW r, NEW t, NEW out, Silent(r, t, out)
  PROVE  Delivers(r, t, out)
  BY DEF Delivers, Silent, Keeps

\* A creation brings the tag it made, or the one it found (tags.rs
\* apply_create_tag).
LEMMA CreateDelivers ==
  ASSUME NEW r, NEW t, NEW name, NEW start \in Nat,
         DOMAIN r = RamFields, r.nextId \in Nat, Registry(t, r.nextId)
  PROVE  Delivers(r, t, apply_create_tag(r, t, name, start))
<1> DEFINE out == apply_create_tag(r, t, name, start)
<1>1. CASE name \in DOMAIN t.tags
  <2> DEFINE e == TagCreated(name, t.tags[name])
  <2>1. out.t = t /\ out.eff = <<e>>
    BY <1>1 DEF apply_create_tag
  <2>2. e.what = "created" /\ e.name = name /\ e.entry = t.tags[name]
    BY DEF TagCreated
  <2> HIDE DEF e, out
  <2>3. Brings(e, t.tags, t.tags, r.nextId)
    BY <2>2, BehindSelf DEF Brings, About, GenOf
  <2> QED BY <2>1, <2>3 DEF Delivers, out
<1>2. CASE name \notin DOMAIN t.tags /\ TagLimitReached(r)
  <2>1. out.t = t /\ out.eff = <<>>
    BY <1>2 DEF apply_create_tag, Nothing
  <2> QED BY <2>1 DEF Delivers
<1>3. CASE name \notin DOMAIN t.tags /\ ~TagLimitReached(r)
  <2> DEFINE entry == [id |-> r.nextId, gen |-> start]
             e == TagCreated(name, entry)
             u == Put(t.tags, name, entry)
  <2>1. out.t.tags = u /\ out.eff = <<e>>
    BY <1>3 DEF apply_create_tag, Registry, Fields
  <2>2. /\ e.what = "created" /\ e.name = name /\ e.entry = entry
        /\ entry.id = r.nextId /\ entry.gen = start
    BY DEF TagCreated
  <2>3. /\ DOMAIN u = DOMAIN t.tags \cup {name} /\ u[name] = entry
        /\ \A m \in DOMAIN t.tags : u[m] = t.tags[m]
    BY <1>3 DEF Put
  <2>4. IsTable(u)
    BY DEF IsTable, Put
  <2> HIDE DEF e, u, entry, out
  <2>5. Behind(t.tags, u)
    BY <2>3, SMT DEF Behind, Registry, Entry
  <2>6. Brings(e, t.tags, u, r.nextId)
    BY <1>3, <2>2, <2>3, <2>5 DEF Brings, About, GenOf
  <2> QED BY <2>1, <2>4, <2>6 DEF Delivers, out
<1> QED BY <1>1, <1>2, <1>3

\* A merge brings the generation it raised the tag to (tags.rs
\* apply_merge_tag).
LEMMA MergeDelivers ==
  ASSUME NEW r, NEW t, NEW name, NEW gen \in Nat,
         DOMAIN r = RamFields, r.nextId \in Nat, Registry(t, r.nextId)
  PROVE  Delivers(r, t, apply_merge_tag(r, t, name, gen))
<1> DEFINE out == apply_merge_tag(r, t, name, gen)
<1>1. CASE name \notin DOMAIN t.tags
  BY <1>1, CreateDelivers DEF apply_merge_tag
<1>2. CASE name \in DOMAIN t.tags /\ gen <= t.tags[name].gen
  <2>1. out.t = t /\ out.eff = <<>>
    BY <1>2 DEF apply_merge_tag, Nothing
  <2> QED BY <2>1 DEF Delivers
<1>3. CASE name \in DOMAIN t.tags /\ ~(gen <= t.tags[name].gen)
  <2> DEFINE id == t.tags[name].id
             entry == [id |-> id, gen |-> gen]
             e == TagGeneration(id, gen)
             u == Put(t.tags, name, entry)
  <2>1. out.t.tags = u /\ out.eff = <<e>>
    BY <1>3 DEF apply_merge_tag, Registry, Fields
  <2>2. /\ e.what = "raised" /\ e.id = id /\ e.gen = gen
        /\ entry.id = id /\ entry.gen = gen
    BY DEF TagGeneration
  <2>3. /\ DOMAIN u = DOMAIN t.tags /\ u[name] = entry
        /\ \A m \in DOMAIN t.tags : m # name => u[m] = t.tags[m]
    BY <1>3 DEF Put
  <2>4. IsTable(u)
    BY DEF IsTable, Put
  <2> HIDE DEF e, u, entry, out
  <2>5. \A m \in DOMAIN t.tags : u[m].id = t.tags[m].id
    BY <2>2, <2>3
  <2>6. Behind(t.tags, u)
    BY <1>3, <2>2, <2>3, <2>5, SMT DEF Behind, Registry, Entry
  <2>7. \A m \in DOMAIN t.tags : u[m].id = id => m = name
    BY <1>3, <2>5 DEF Registry
  <2>8. Brings(e, t.tags, u, r.nextId)
    BY <1>3, <2>2, <2>3, <2>6, <2>7 DEF Brings, About, GenOf
  <2> QED BY <2>1, <2>4, <2>8 DEF Delivers, out
<1> QED BY <1>1, <1>2, <1>3

\* An invalidation brings the next generation, or the last one there is
\* (tags.rs apply_delete_by_tag).
LEMMA DeleteByTagDelivers ==
  ASSUME NEW r, NEW t, NEW name,
         DOMAIN r = RamFields, r.nextId \in Nat, Registry(t, r.nextId)
  PROVE  Delivers(r, t, apply_delete_by_tag(r, t, name))
<1> DEFINE out == apply_delete_by_tag(r, t, name)
           entry == t.tags[name]
<1>1. CASE name \notin DOMAIN t.tags
  <2>1. out.t = t /\ out.eff = <<>>
    BY <1>1 DEF apply_delete_by_tag, Nothing
  <2> QED BY <2>1 DEF Delivers
<1>2. CASE name \in DOMAIN t.tags /\ entry.gen = U64Max
  <2> DEFINE e == TagGeneration(entry.id, entry.gen)
  <2>1. out.t = t /\ out.eff = <<e>>
    BY <1>2 DEF apply_delete_by_tag, Nothing
  <2>2. e.what = "raised" /\ e.id = entry.id /\ e.gen = entry.gen
    BY DEF TagGeneration
  <2> HIDE DEF e, out
  <2>3. \A m \in DOMAIN t.tags : t.tags[m].id = entry.id => m = name
    BY <1>2 DEF Registry
  <2>4. Brings(e, t.tags, t.tags, r.nextId)
    BY <2>2, <2>3, BehindSelf DEF Brings, About, GenOf
  <2> QED BY <2>1, <2>4 DEF Delivers, out
<1>3. CASE name \in DOMAIN t.tags /\ entry.gen # U64Max
  <2> DEFINE merged == apply_merge_tag(r, t, name, entry.gen + 1)
  <2>1. entry.gen + 1 \in Nat
    BY <1>3, SMT DEF Registry, Entry
  <2>2. Delivers(r, t, merged)
    BY <2>1, MergeDelivers
  <2>3. out = [merged EXCEPT !.res = "invalidated"]
    BY <1>3 DEF apply_delete_by_tag
  <2>4. merged.t = out.t /\ merged.eff = out.eff
    BY <1>3, <2>1, <2>3 DEF apply_merge_tag, Nothing, Registry, Entry
  <2> QED BY <2>2, <2>4 DEF Delivers
<1> QED BY <1>1, <1>2, <1>3

\* A flush brings an epoch and no generation (apply.rs apply_flush).
LEMMA FlushDelivers ==
  ASSUME NEW r, NEW t, Registry(t, r.nextId)
  PROVE  Delivers(r, t, apply_flush(r, t))
<1> DEFINE e == [what |-> "epoch", epoch |-> r.epoch + 1]
           out == apply_flush(r, t)
<1>1. out.t.tags = t.tags /\ out.eff = <<e>>
  BY DEF apply_flush, Registry, Fields
<1>2. e.what = "epoch"
  OBVIOUS
<1> HIDE DEF e, out
<1>3. Brings(e, t.tags, t.tags, r.nextId)
  BY <1>2, BehindSelf DEF Brings, About
<1> QED BY <1>1, <1>3 DEF Delivers, out

\* Every item of a job brings what it changes (queue.rs apply).
LEMMA ItemDelivers ==
  ASSUME RegistryInv, phase = "apply", HasItem
  PROVE  Delivers(ram, txn.t, ApplyItem(Job, Item))
<1>1. /\ DOMAIN ram = RamFields /\ ram.nextId \in Nat
      /\ Registry(txn.t, ram.nextId) /\ DOMAIN txn.t = Fields
  BY DEF RegistryInv, MemoryOK, OpenOK, RamFields, Open, Registry
<1>2. JobOK(Job)
  BY DEF RegistryInv, JobsOK, HasItem, Job, Elems
<1>3. Job.kind \in {"CreateTags", "MergeTag"} => Item.gen \in Nat
  BY <1>2 DEF JobOK, HasItem, Item
<1>4. Job.kind \in RecordKinds => Silent(ram, txn.t, ApplyItem(Job, Item))
  BY ItemSilent
<1> HIDE DEF Job, Item
<1>5. CASE Job.kind \in RecordKinds
  BY <1>4, <1>5, SilentDelivers
<1>6. CASE Job.kind = "CreateTags"
  BY <1>1, <1>3, <1>6, CreateDelivers DEF ApplyItem
<1>7. CASE Job.kind = "DeleteByTag"
  BY <1>1, <1>7, DeleteByTagDelivers DEF ApplyItem
<1>8. CASE Job.kind = "MergeTag"
  BY <1>1, <1>3, <1>8, MergeDelivers DEF ApplyItem
<1>9. CASE Job.kind = "Flush"
  BY <1>1, <1>9, FlushDelivers DEF ApplyItem
<1> QED BY <1>2, <1>5, <1>6, <1>7, <1>8, <1>9 DEF JobOK, WriteOps, RecordKinds

-----------------------------------------------------------------------------
(* Callers, their jobs and the refs they carry.  `tags` and `epoch` are the *)
(* registry and the epoch in memory, l the log of calls.                    *)

Storing(op) == op.kind \in Stores \cup {"SetIf"}

\* Every ref is to one of these names, at a generation it has reached.
RefsUnder(refs, tags, names) ==
  \A id \in DOMAIN refs :
    /\ refs[id] \in Nat
    /\ \E n \in names \cap DOMAIN tags : tags[n].id = id /\ refs[id] <= tags[n].gen

\* Call v gave k these refs.
Written(k, refs, v, tags, l) ==
  /\ v \in DOMAIN l
  /\ \E i \in DOMAIN l[v].op.items :
       l[v].op.items[i].key = k /\ RefsUnder(refs, tags, l[v].op.items[i].names)

\* A record, or a write prepared for k, is no later than the epoch, and its
\* refs are the ones its call resolved.
Grounded(k, r, tags, epoch, l) ==
  /\ r.epoch \in Nat /\ r.epoch <= epoch
  /\ DOMAIN r.tags = {} \/ Written(k, r.tags, r.ver, tags, l)

\* A write as prepare_set leaves it.
PreparedFields == {"key", "tags", "epoch", "exp", "ttl", "val", "ver", "mode", "expected"}

CallerFields == {"pc", "op", "call", "snap", "at", "epoch", "refs", "prep", "found"}

\* What a caller has prepared is what it was asked to write.
PrepOK(x, tags, epoch) ==
  /\ IsSeq(x.prep)
  /\ \A i \in DOMAIN x.prep :
       /\ i \in DOMAIN x.op.items /\ DOMAIN x.prep[i] = PreparedFields
       /\ x.prep[i].key = x.op.items[i].key /\ x.prep[i].ver = x.call
       /\ x.prep[i].epoch \in Nat /\ x.prep[i].epoch <= epoch
       /\ RefsUnder(x.prep[i].tags, tags, x.op.items[i].names)

\* The caller is between calls, or has resolved names that memory knows
\* (store.rs ensure_tags_registered, apply.rs prepare_set).
CallerOK(x, tags, epoch, l) ==
  \/ x = Idle
  \/ /\ DOMAIN x = CallerFields /\ x.op \in Ops
     /\ x.call \in DOMAIN l /\ l[x.call].op = x.op
     /\ x.pc # "idle"
     /\ PrepOK(x, tags, epoch)
     /\ x.pc \in {"epoch", "judge", "register"} => x.prep = <<>>
     /\ x.pc \in {"register", "resolve", "prepare", "send"} => Storing(x.op)
     /\ x.pc \in {"resolve", "prepare"} =>
          NamesOf(x.op) \subseteq DOMAIN tags /\ Len(x.prep) < Len(x.op.items)
     /\ x.pc = "prepare" => RefsUnder(x.refs, tags, x.op.items[Len(x.prep) + 1].names)

\* The names a CreateTags job registers.
Creates(job) == {job.items[i].name : i \in DOMAIN job.items}

\* The job of a waiting caller x: a registration covers the names its call
\* lacks, and a write is grounded.
JobFor(job, x, tags, epoch, l) ==
  /\ x.pc = "wait"
  /\ job.kind = "CreateTags" =>
       /\ Storing(x.op) /\ x.prep = <<>>
       /\ DOMAIN job.items = 1..Len(job.items) /\ Len(job.items) \in Nat
       /\ NamesOf(x.op) \subseteq DOMAIN tags \cup Creates(job)
  /\ job.kind \in {"Set", "ConditionalSet"} =>
       \A i \in DOMAIN job.items :
         /\ DOMAIN job.items[i] = PreparedFields
         /\ Grounded(job.items[i].key, job.items[i], tags, epoch, l)

LogOK(l) == IsSeq(l) /\ \A i \in DOMAIN l : "op" \in DOMAIN l[i]

OneJobEach ==
  /\ \A i, j \in DOMAIN queue : queue[i].client = queue[j].client => i = j
  /\ \A i, j \in DOMAIN batch : batch[i].client = batch[j].client => i = j
  /\ \A i \in DOMAIN queue : \A j \in DOMAIN batch : queue[i].client # batch[j].client

SoftFailed(out) == \E j \in DOMAIN out : out[j].res \in SoftError

\* Registrations answered without a failure, and the items of the one being
\* applied, are in the registry that is being built.
Registered(tags) ==
  /\ \A i \in DOMAIN outs :
       batch[i].kind = "CreateTags" /\ ~SoftFailed(outs[i]) => Creates(batch[i]) \subseteq DOMAIN tags
  /\ Len(outs) + 1 \in DOMAIN batch /\ Job.kind = "CreateTags" =>
       \A j \in 1..Len(acc) : Job.items[j].name \in DOMAIN tags

BatchOK ==
  /\ IsSeq(batch) /\ IsSeq(outs) /\ IsSeq(acc)
  /\ Open \/ phase = "publish" => Len(outs) <= Len(batch)
  /\ phase \in {"maintain", "commit", "publish"} => Len(outs) = Len(batch)
  /\ Open => Registered(txn.t.tags)
  /\ phase = "publish" => Registered(disk.tags)

\* A caller has one job with the writer at most, and waits for it; what it has
\* resolved and prepared is grounded in the registry in memory.
CallsInv ==
  /\ DOMAIN cl = Clients /\ LogOK(log)
  /\ \A c \in Clients : CallerOK(cl[c], ram.tags, ram.epoch, log)
  /\ OneJobEach
  /\ \A job \in Elems(queue) \cup Elems(batch) :
       job.client \in Clients /\ JobFor(job, cl[job.client], ram.tags, ram.epoch, log)
  /\ BatchOK

\* Every record is grounded.
MainOK(t, tags, epoch, l) == \A k \in DOMAIN t.main : Grounded(k, t.main[k], tags, epoch, l)

\* A reclamation job is for a generation its tag has reached (reclaim.rs).
TargetsOK(t) ==
  \A id \in DOMAIN t.jobs :
    /\ DOMAIN t.jobs[id] = {"target", "cursor"} /\ t.jobs[id].target \in Nat
    /\ \E n \in DOMAIN t.tags : t.tags[n].id = id /\ t.jobs[id].target <= t.tags[n].gen

\* The committed records are grounded in the committed registry, and the
\* transaction's in the registry it started from.
RecordsInv ==
  /\ \A t \in since \cup {disk} : MainOK(t, t.tags, t.epoch, log) /\ TargetsOK(t)
  /\ Open => MainOK(txn.t, ram.tags, ram.epoch, log) /\ TargetsOK(txn.t)

-----------------------------------------------------------------------------
(* What memory and the log gain is never taken back *)

Extends(l, m) == DOMAIN l \subseteq DOMAIN m /\ \A i \in DOMAIN l : m[i].op = l[i].op

\* Memory, the epoch and the log as they may become.
Grows(tags, new, epoch, later, l, m) ==
  /\ \A n \in DOMAIN tags : tags[n] \in Entry
  /\ \A n \in DOMAIN new : new[n] \in Entry
  /\ Behind(tags, new)
  /\ epoch \in Nat /\ later \in Nat /\ epoch <= later
  /\ Extends(l, m)

\* Refs stay registered (tags.rs: ids are never reused, generations never fall).
LEMMA RefsGrow ==
  ASSUME NEW refs, NEW tags, NEW new, NEW names, RefsUnder(refs, tags, names),
         \A n \in DOMAIN tags : tags[n] \in Entry, \A n \in DOMAIN new : new[n] \in Entry,
         Behind(tags, new)
  PROVE  RefsUnder(refs, new, names)
<1> SUFFICES ASSUME NEW id \in DOMAIN refs
             PROVE  \E n \in names \cap DOMAIN new : new[n].id = id /\ refs[id] <= new[n].gen
  BY DEF RefsUnder
<1>1. PICK n \in names \cap DOMAIN tags : tags[n].id = id /\ refs[id] <= tags[n].gen
  BY DEF RefsUnder
<1>2. n \in DOMAIN new /\ new[n].id = id /\ tags[n].gen <= new[n].gen
  BY <1>1 DEF Behind
<1>3. refs[id] \in Nat /\ tags[n].gen \in Nat /\ new[n].gen \in Nat
  BY <1>1, <1>2 DEF RefsUnder, Entry
<1>4. refs[id] <= new[n].gen
  BY <1>1, <1>2, <1>3, SMT
<1> QED BY <1>1, <1>2, <1>4

\* A grounded record stays grounded.
LEMMA GroundedGrows ==
  ASSUME NEW k, NEW r, NEW tags, NEW new, NEW epoch, NEW later, NEW l, NEW m,
         Grounded(k, r, tags, epoch, l), Grows(tags, new, epoch, later, l, m)
  PROVE  Grounded(k, r, new, later, m)
<1>1. r.epoch \in Nat /\ r.epoch <= later
  BY SMT DEF Grounded, Grows
<1>2. ASSUME Written(k, r.tags, r.ver, tags, l) PROVE Written(k, r.tags, r.ver, new, m)
  <2>1. PICK i \in DOMAIN l[r.ver].op.items :
          l[r.ver].op.items[i].key = k /\ RefsUnder(r.tags, tags, l[r.ver].op.items[i].names)
    BY <1>2 DEF Written
  <2>2. r.ver \in DOMAIN m /\ m[r.ver].op = l[r.ver].op
    BY <1>2 DEF Written, Grows, Extends
  <2>3. RefsUnder(r.tags, new, l[r.ver].op.items[i].names)
    BY <2>1, RefsGrow DEF Grows
  <2> QED BY <2>1, <2>2, <2>3 DEF Written
<1> QED BY <1>1, <1>2 DEF Grounded

-----------------------------------------------------------------------------
(* The log of calls *)

\* m answers some of the calls of l.
Answers(l, m) ==
  /\ IsTable(m) /\ DOMAIN m = DOMAIN l
  /\ \A i \in DOMAIN l : m[i].op = l[i].op /\ "op" \in DOMAIN m[i]

\* Answers add nothing to the log.
LEMMA AnswersExtend ==
  ASSUME NEW l, NEW m, LogOK(l), Answers(l, m)
  PROVE  LogOK(m) /\ Extends(l, m)
<1>1. Len(l) \in Nat /\ DOMAIN m = 1..Len(l)
  BY SMT DEF LogOK, Answers, IsSeq
<1>2. \A i \in DOMAIN m : m[i] \in Elems(m)
  BY DEF Elems
<1>3. m \in [1..Len(l) -> Elems(m)]
  BY <1>1, <1>2 DEF Answers, IsTable
<1>4. IsSeq(m)
  BY <1>1, <1>3, SMT DEF IsSeq
<1> QED BY <1>4 DEF LogOK, Answers, Extends

\* A reply to one call (writer.rs replies).
LEMMA RepliedAnswers ==
  ASSUME NEW l, NEW call, NEW reply, LogOK(l)
  PROVE  Answers(l, Replied(l, call, reply))
<1> DEFINE m == Replied(l, call, reply)
<1>1. DOMAIN m = DOMAIN l /\ IsTable(m)
  BY DEF Replied, IsTable
<1>2. \A i \in DOMAIN l : m[i].op = l[i].op /\ "op" \in DOMAIN m[i]
  BY DEF Replied, LogOK
<1> QED BY <1>1, <1>2 DEF Answers

\* A new call is the last of the log.
LEMMA CalledExtends ==
  ASSUME NEW op, LogOK(log)
  PROVE  /\ LogOK(Called(op)) /\ Extends(log, Called(op))
         /\ Len(log) + 1 \in DOMAIN Called(op) /\ Called(op)[Len(log) + 1].op = op
<1> DEFINE e == [op |-> op, before |-> Returned, seq |-> disk.seq, reply |-> <<>>]
           m == Append(log, e)
<1>1. IsSeq(m)
  BY AppendElems DEF LogOK
<1>2. /\ Len(log) \in Nat /\ DOMAIN log = 1..Len(log) /\ DOMAIN m = 1..(Len(log) + 1)
      /\ m[Len(log) + 1] = e /\ \A i \in 1..Len(log) : m[i] = log[i]
  BY SMT DEF LogOK, IsSeq
<1>3. e.op = op /\ "op" \in DOMAIN e
  OBVIOUS
<1> HIDE DEF e, m
<1>4. \A i \in DOMAIN m : i \in DOMAIN log \/ i = Len(log) + 1
  BY <1>2, SMT
<1>5. LogOK(m)
  BY <1>1, <1>2, <1>3, <1>4 DEF LogOK
<1>6. Extends(log, m)
  BY <1>2, SMT DEF Extends
<1>7. Len(log) + 1 \in DOMAIN m
  BY <1>2, SMT
<1> QED BY <1>2, <1>3, <1>5, <1>6, <1>7 DEF Called, m, e

-----------------------------------------------------------------------------
(* Callers, the log and memory *)

\* The registry in memory is well formed.
LEMMA MemoryGrows ==
  ASSUME RegistryInv, NEW l, Extends(log, l)
  PROVE  Grows(ram.tags, ram.tags, ram.epoch, ram.epoch, log, l)
  BY SMT DEF Grows, RegistryInv, MemoryOK, Behind, Entry

\* A caller at one place in its call is not idle, and its call is in the log.
LEMMA CallerAt ==
  ASSUME CallsInv, NEW c \in Clients, cl[c].pc # "idle"
  PROVE  /\ cl[c] # Idle /\ CallerOK(cl[c], ram.tags, ram.epoch, log)
         /\ DOMAIN cl[c] = CallerFields /\ cl[c].op \in Ops
  BY SMT DEF CallsInv, CallerOK, Idle

\* Memory is well formed, and the log has not changed.
LEMMA LogStays == CallsInv => LogOK(log) /\ Extends(log, log)
  BY DEF CallsInv, Extends

-----------------------------------------------------------------------------
(* Memory and the log from one step to the next *)

\* Memory is as it was.
LEMMA MemoryStays ==
  ASSUME RegistryInv, CallsInv, log' = log, ram'.tags = ram.tags, ram'.epoch = ram.epoch
  PROVE  Grows(ram.tags, ram'.tags, ram.epoch, ram'.epoch, log, log')
  BY MemoryGrows, LogStays

\* Publishing an effect only adds to memory (tags.rs insert, merge_generation).
LEMMA MemoryLearns ==
  ASSUME RegistryInv, RegistryInv', PublicationInv, CallsInv, Publish
  PROVE  Grows(ram.tags, ram'.tags, ram.epoch, ram'.epoch, log, log')
<1> DEFINE e == Head(eff)
           mem == ram.tags
           new == ram'.tags
           tags == disk.tags
<1>1. phase = "publish" /\ eff # <<>> /\ ram' = publish(ram, e) /\ log' = log
  BY DEF Publish
<1>2. /\ IsSeq(eff) /\ DOMAIN ram = RamFields
      /\ \A n \in DOMAIN mem : mem[n] \in Entry
      /\ \A n \in DOMAIN new : new[n] \in Entry
      /\ Behind(mem, tags)
      /\ \A x \in Elems(eff) : Supported(x, disk, ram.nextId)
      /\ Pending(eff, mem, tags)
      /\ ram.epoch \in Nat /\ ram'.epoch \in Nat /\ ram.epoch <= disk.epoch
  BY <1>1 DEF RegistryInv, MemoryOK, StoredOK, OpenOK, PublishOK, PublicationInv, RamFields
<1>3. e = eff[1] /\ 1 \in DOMAIN eff
  BY <1>1, <1>2, TailAt, SMT
<1>4. Supported(e, disk, ram.nextId)
  BY <1>2, <1>3 DEF Elems
<1> HIDE DEF e
<1>5. \A n \in DOMAIN mem : About(e, n, tags) => mem[n].gen <= GenOf(e)
  BY <1>2, <1>3 DEF Pending, Ordered
<1>6. Behind(mem, new) /\ ram.epoch <= ram'.epoch
  <2>1. CASE e.what = "created"
    <3>1. new = Put(mem, e.name, e.entry) /\ ram'.epoch = ram.epoch
      BY <1>1, <1>2, <2>1 DEF publish, insert, RamFields
    <3>2. /\ DOMAIN new = DOMAIN mem \cup {e.name} /\ new[e.name] = e.entry
          /\ \A n \in DOMAIN mem : n # e.name => new[n] = mem[n]
      BY <3>1 DEF Put
    <3>3. e.name \in DOMAIN mem => mem[e.name].id = e.entry.id /\ mem[e.name].gen <= e.entry.gen
      <4>1. e.entry.id = tags[e.name].id
        BY <1>4, <2>1 DEF Supported
      <4> QED BY <1>2, <1>5, <2>1, <4>1 DEF Behind, About, GenOf
    <3>4. \A n \in DOMAIN mem : mem[n].gen <= mem[n].gen
      BY <1>2, SMT DEF Entry
    <3> QED BY <1>2, <3>1, <3>2, <3>3, <3>4, SMT DEF Behind
  <2>2. CASE e.what = "raised"
    <3>1. new = merge_generation(mem, e.id, e.gen) /\ ram'.epoch = ram.epoch
      BY <1>1, <1>2, <2>2 DEF publish, RamFields
    <3>2. e.gen \in Nat
      BY <1>4, <2>2 DEF Supported
    <3>3. ASSUME NEW n \in DOMAIN mem
          PROVE  n \in DOMAIN new /\ mem[n].id = new[n].id /\ mem[n].gen <= new[n].gen
      BY <1>2, <3>1, <3>2, SMT DEF merge_generation, Entry
    <3> QED BY <1>2, <3>1, <3>3, SMT DEF Behind
  <2>3. CASE e.what = "epoch"
    <3>1. new = mem /\ ram'.epoch = e.epoch /\ e.epoch = disk.epoch
      BY <1>1, <1>2, <1>4, <2>3 DEF publish, RamFields, Supported
    <3>2. \A n \in DOMAIN mem : mem[n].gen <= mem[n].gen
      BY <1>2, SMT DEF Entry
    <3> QED BY <1>2, <3>1, <3>2 DEF Behind
  <2> QED BY <1>4, <2>1, <2>2, <2>3 DEF Supported
<1>7. Extends(log, log')
  BY <1>1 DEF Extends
<1> QED BY <1>2, <1>6, <1>7 DEF Grows

\* The log keeps what was called (writer.rs, engine.rs open).
LEMMA LogRestarts ==
  ASSUME CallsInv, NEW t, Restart(t)
  PROVE  Extends(log, log')
  BY DEF Restart, Extends, CallsInv, LogOK

\* Memory is the disk's once all is published (queue.rs PostCommit).
LEMMA MemorySettled ==
  ASSUME RegistryInv, PublicationInv, phase # "publish" \/ eff = <<>>
  PROVE  ram.tags = disk.tags
<1>1. CASE phase # "publish"
  BY <1>1 DEF PublicationInv
<1>2. CASE phase = "publish" /\ eff = <<>>
  <2>1. Formed(eff, ram.tags, disk.tags)
    BY <1>2, RegistryFormed DEF RegistryInv, MemoryOK, StoredOK, OpenOK, PublishOK
  <2> QED BY <1>2, <2>1, AllPublished DEF PublicationInv
<1> QED BY <1>1, <1>2

=============================================================================
