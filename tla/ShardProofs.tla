---------------------------- MODULE ShardProofs ----------------------------
(***************************************************************************)
(* The steps of a shard and its tables: memory never runs ahead of the disk*)
(* (RamBehindDisk), by the inductive invariant RegistryInv; publication    *)
(* brings it back to the disk (RamMatchesDisk), by PublicationInv; and the *)
(* records refer only to tags that are registered, by RecordsInv, so that  *)
(* maintenance frees only the dead.                                        *)
(***************************************************************************)
EXTENDS ShardInvariant, WellFoundedInduction

USE Zenon

-----------------------------------------------------------------------------
(* Sequences: the elements of what the writer builds *)

\* Publishing the first effect leaves the others (queue.rs PostCommit).
LEMMA TailElems ==
  ASSUME NEW q, IsSeq(q), q # <<>>
  PROVE  /\ IsSeq(Tail(q))
         /\ Head(q) \in Elems(q)
         /\ Elems(Tail(q)) \subseteq Elems(q)
         /\ Elems(q) \subseteq Elems(Tail(q)) \cup {Head(q)}
<1> DEFINE u == Tail(q)
<1>1. /\ Len(q) \in Nat \ {0} /\ DOMAIN q = 1..Len(q) /\ Head(q) = q[1]
      /\ u \in Seq(Elems(q)) /\ DOMAIN u = 1..(Len(q) - 1)
      /\ \A i \in 1..(Len(q) - 1) : u[i] = q[i + 1]
  BY SMT DEF IsSeq
<1> HIDE DEF u
<1>2. IsSeq(u) /\ Elems(u) \subseteq Elems(q)
  BY <1>1, OwnElems
<1>3. Head(q) \in Elems(q)
  BY SMT DEF IsSeq
<1>4. ASSUME NEW e \in Elems(q), e # Head(q) PROVE e \in Elems(u)
  <2>1. PICK i \in DOMAIN q : q[i] = e
    BY <1>4 DEF Elems
  <2>2. i - 1 \in DOMAIN u /\ u[i - 1] = e
    BY <1>1, <1>4, <2>1, SMT
  <2> QED BY <2>2 DEF Elems
<1> QED BY <1>2, <1>3, <1>4 DEF u

\* An operation's single effect is appended to the batch's (queue.rs apply).
LEMMA ConcatOne ==
  ASSUME NEW q, NEW e, IsSeq(q)
  PROVE  q \o <<e>> = Append(q, e)
<1> DEFINE S == Elems(q) \cup {e}
<1>1. q \in Seq(S) /\ e \in S /\ <<e>> \in Seq(S)
  BY SMT DEF IsSeq
<1> QED BY <1>1, SMT

-----------------------------------------------------------------------------
(* Registries compared *)

\* Ids below the counter stay below it when an id is taken (tags.rs
\* allocate_id).
LEMMA RegistryGrows ==
  ASSUME NEW t, NEW a \in Nat, NEW b \in Nat, a <= b, Registry(t, a)
  PROVE  Registry(t, b)
  BY SMT DEF Registry, Entry

\* Being behind is transitive: memory is behind the disk, the disk behind the
\* transaction about to replace it (writer.rs commit_batch).
LEMMA BehindTrans ==
  ASSUME NEW x, NEW y, NEW z, Behind(x, y), Behind(y, z),
         \A n \in DOMAIN x : x[n] \in Entry,
         \A n \in DOMAIN y : y[n] \in Entry,
         \A n \in DOMAIN z : z[n] \in Entry
  PROVE  Behind(x, z)
  BY SMT DEF Behind, Entry

\* The largest id a restart finds exists, because the ids were all below the
\* counter in memory, and the counter restarts above it (tags.rs load_from).
LEMMA BoundedSetHasMax ==
  ASSUME NEW ids, ids \subseteq Nat, ids # {}, NEW b \in Nat, \A j \in ids : j < b
  PROVE  \E i \in ids : \A j \in ids : j <= i
<1> DEFINE T == {c \in Nat : \A j \in ids : j <= c}
<1>1. T \subseteq Nat /\ b \in T
  BY SMT
<1>2. PICK c \in T : \A d \in T : ~(<<d, c>> \in OpToRel(<, Nat))
  BY <1>1, NatLessThanWellFounded, WFMin
<1>3. \A d \in T : ~(d < c)
  BY <1>1, <1>2 DEF OpToRel
<1>4. c \in ids
  <2> SUFFICES ASSUME c \notin ids PROVE FALSE
    OBVIOUS
  <2>1. \A j \in ids : j < c
    BY SMT
  <2>2. PICK j \in ids : j < c
    BY <2>1
  <2>3. c - 1 \in Nat /\ \A k \in ids : k <= c - 1
    BY <2>1, <2>2, SMT
  <2> QED BY <1>3, <2>3, SMT
<1> QED BY <1>4

\* The id counter rebuilt at start is past every id on disk (tags.rs
\* load_from).
LEMMA RegistryLoads ==
  ASSUME NEW t, NEW b \in Nat, Registry(t, b)
  PROVE  load_next_id(t.tags) \in Nat /\ Registry(t, load_next_id(t.tags))
<1> DEFINE ids == {t.tags[n].id : n \in DOMAIN t.tags}
<1>1. ids \subseteq Nat /\ \A j \in ids : j < b
  BY DEF Registry, Entry
<1>2. CASE ids = {}
  <2>1. DOMAIN t.tags = {}
    BY <1>2
  <2>2. load_next_id(t.tags) \in Nat
    BY <1>2 DEF load_next_id
  <2> QED BY <2>1, <2>2 DEF Registry
<1>3. CASE ids # {}
  <2> DEFINE i == CHOOSE i \in ids : \A j \in ids : j <= i
  <2>1. \E x \in ids : \A j \in ids : j <= x
    BY <1>1, <1>3, BoundedSetHasMax
  <2>2. i \in ids /\ \A j \in ids : j <= i
    BY <2>1
  <2>3. load_next_id(t.tags) = 1 + i
    BY <1>3 DEF load_next_id
  <2> HIDE DEF i
  <2>4. \A n \in DOMAIN t.tags : t.tags[n].id \in ids
    OBVIOUS
  <2> HIDE DEF ids
  <2>5. i \in Nat /\ \A n \in DOMAIN t.tags : t.tags[n].id \in Nat /\ t.tags[n].id <= i
    BY <1>1, <2>2, <2>4
  <2>6. 1 + i \in Nat /\ \A n \in DOMAIN t.tags : t.tags[n].id < 1 + i
    BY <2>5, SMT
  <2> QED BY <2>3, <2>6 DEF Registry
<1> QED BY <1>2, <1>3

-----------------------------------------------------------------------------
(* The registry from one step to the next *)

\* A caller's step at most queues a well-formed job (writer.rs send).
LEMMA QueueStep ==
  ASSUME RegistryInv, UNCHANGED <<disk, since, ram, phase, batch, txn, eff>>,
         queue' = queue \/ \E job : JobOK(job) /\ queue' = Append(queue, job)
  PROVE  RegistryInv'
<1>1. /\ IsSeq(queue')
      /\ \A job \in Elems(queue') \cup Elems(batch) : JobOK(job)
  <2>1. CASE queue' = queue
    BY <2>1 DEF RegistryInv, JobsOK
  <2>2. ASSUME NEW job, JobOK(job), queue' = Append(queue, job)
        PROVE  /\ IsSeq(queue')
               /\ \A x \in Elems(queue') \cup Elems(batch) : JobOK(x)
    <3>1. IsSeq(queue') /\ Elems(queue') = Elems(queue) \cup {job}
      BY <2>2, AppendElems DEF RegistryInv, JobsOK
    <3> QED BY <2>2, <3>1 DEF RegistryInv, JobsOK
  <2> QED BY <2>1, <2>2
<1> QED
  <2>1. MemoryOK'
    BY DEF RegistryInv, MemoryOK
  <2>2. StoredOK'
    BY DEF RegistryInv, StoredOK
  <2>3. JobsOK'
    BY <1>1 DEF JobsOK
  <2>4. OpenOK'
    BY DEF RegistryInv, OpenOK, Open
  <2>5. PublishOK'
    BY DEF RegistryInv, PublishOK, Open
  <2> QED BY <2>1, <2>2, <2>3, <2>4, <2>5 DEF RegistryInv

\* Sending a job changes the queue only (writer.rs send).
LEMMA SendStep ==
  ASSUME NEW c, NEW s, NEW l, NEW kind, NEW items,
         RegistryInv, UNCHANGED <<disk, since, ram, phase, batch, txn, eff>>,
         Send(c, s, l, kind, items), kind \in WriteOps,
         kind \in {"CreateTags", "MergeTag"} => \A i \in DOMAIN items : items[i].gen \in Nat
  PROVE  RegistryInv'
<1> DEFINE job == [client |-> c, call |-> s.call, kind |-> kind, items |-> items]
<1>1. JobOK(job)
  BY DEF JobOK
<1>2. queue' = queue \/ queue' = Append(queue, job)
  BY DEF Send
<1> HIDE DEF job
<1> QED BY <1>1, <1>2, QueueStep

\* Calls and the callers' own steps (store.rs, read.rs).
LEMMA ClientSteps ==
  ASSUME RegistryInv, NEW c \in Clients, ClientStep(c) \/ CallStep(c)
  PROVE  RegistryInv'
<1> USE DEF store_vars, writer_vars
<1>1. CASE LoadEpoch(c)
  BY <1>1, QueueStep DEF LoadEpoch
<1>2. CASE Judge(c)
  <2>1. queue' = queue \/ \E s, items : Send(c, s, log, "Touch", items)
    BY <1>2 DEF Judge
  <2>2. UNCHANGED <<disk, since, ram, phase, batch, txn, eff>>
    BY <1>2 DEF Judge
  <2> QED BY <2>1, <2>2, QueueStep, SendStep DEF WriteOps
<1>3. CASE Register(c)
  <2>1. UNCHANGED <<disk, since, ram, phase, batch, txn, eff>>
    BY <1>3 DEF Register
  <2>2. CASE missing(ram, NamesOf(cl[c].op)) = {}
    BY <1>3, <2>1, <2>2, QueueStep DEF Register
  <2>3. CASE missing(ram, NamesOf(cl[c].op)) # {}
    <3> DEFINE absent == missing(ram, NamesOf(cl[c].op))
               items == [i \in 1..Cardinality(absent) |-> [name |-> SeqOf(absent)[i], gen |-> 0]]
    <3>1. Send(c, cl[c], log, "CreateTags", items)
      BY <1>3, <2>3 DEF Register
    <3>2. \A i \in DOMAIN items : items[i].gen \in Nat
      OBVIOUS
    <3> HIDE DEF items
    <3> QED BY <2>1, <3>1, <3>2, SendStep DEF WriteOps
  <2> QED BY <2>2, <2>3
<1>4. CASE Resolve(c)
  BY <1>4, QueueStep DEF Resolve
<1>5. CASE Prepare(c)
  BY <1>5, QueueStep DEF Prepare
<1>6. CASE Submit(c)
  <2>1. PICK s, kind, items : kind \in {"ConditionalSet", "Set"} /\ Send(c, s, log, kind, items)
    BY <1>6, SMT DEF Submit
  <2>2. UNCHANGED <<disk, since, ram, phase, batch, txn, eff>>
    BY <1>6 DEF Submit
  <2> QED BY <2>1, <2>2, SendStep DEF WriteOps
<1>7. ASSUME NEW op \in Ops, CallRead(c, op) PROVE RegistryInv'
  BY <1>7, QueueStep DEF CallRead
<1>8. ASSUME NEW op \in Ops, CallStore(c, op) PROVE RegistryInv'
  BY <1>8, QueueStep DEF CallStore
<1>9. ASSUME NEW op \in Ops, CallWrite(c, op) PROVE RegistryInv'
  <2>1. /\ Send(c, Caller(op, "wait"), Called(op), op.kind, op.items)
        /\ UNCHANGED <<disk, since, ram, phase, batch, txn, eff>>
    BY <1>9 DEF CallWrite
  <2>2. /\ op.kind \in WriteOps
        /\ op.kind \in {"CreateTags", "MergeTag"} =>
             \A i \in DOMAIN op.items : op.items[i].gen \in Nat
    <3>1. op.kind \notin Reads \cup Stores
      BY <1>9 DEF CallWrite
    <3>2. op.kind \in WriteOps \ {"CreateTags"}
      BY <1>9, <3>1, WriterAssumption
    <3>3. ASSUME op.kind = "MergeTag", NEW i \in DOMAIN op.items PROVE op.items[i].gen \in Nat
      <4>1. op.items[i].gen \in 0..U64Max
        BY <1>9, <3>3, WriterAssumption
      <4> QED BY <4>1, EngineAssumption, SMT
    <3> QED BY <3>2, <3>3
  <2> QED BY <2>1, <2>2, SendStep
<1> QED BY <1>1, <1>2, <1>3, <1>4, <1>5, <1>6, <1>7, <1>8, <1>9 DEF ClientStep, CallStep

\* A transaction opens on the committed tables (writer.rs writer_loop).
LEMMA BeginStep ==
  ASSUME RegistryInv, NEW due \in BOOLEAN, Begin(due)
  PROVE  RegistryInv'
<1> DEFINE n == Min2(Len(queue), MaxBatch)
<1>1. IsSeq(queue) /\ Len(queue) \in Nat
  BY SMT DEF RegistryInv, JobsOK, IsSeq
<1>2. n \in Nat /\ n <= Len(queue)
  BY <1>1, WriterAssumption, SMT DEF Min2
<1>3. batch' = SubSeq(queue, 1, n) /\ queue' = SubSeq(queue, n + 1, Len(queue))
  BY DEF Begin
<1> HIDE DEF n
<1>4. /\ IsSeq(queue')
      /\ Elems(queue') \subseteq Elems(queue) /\ Elems(batch') \subseteq Elems(queue)
  BY <1>1, <1>2, <1>3, SubSeqElems, SMT
<1>5. /\ phase = "idle" /\ phase' \in {"apply", "maintain"}
      /\ txn' = [t |-> disk, poisoned |-> FALSE, due |-> due]
      /\ eff' = <<>> /\ UNCHANGED <<disk, since, ram>>
  BY DEF Begin, store_vars
<1>6. IsSeq(eff') /\ Elems(eff') = {}
  BY <1>5, EmptyElems
<1>7. Behind(disk.tags, disk.tags)
  BY BehindSelf DEF RegistryInv, StoredOK
<1> QED
  <2>1. MemoryOK'
    BY <1>5 DEF RegistryInv, MemoryOK
  <2>2. StoredOK'
    BY <1>5 DEF RegistryInv, StoredOK
  <2>3. JobsOK'
    BY <1>4 DEF RegistryInv, JobsOK
  <2>4. OpenOK'
    BY <1>5, <1>6, <1>7 DEF RegistryInv, StoredOK, OpenOK, Open, NoEpoch
  <2>5. PublishOK'
    BY <1>5 DEF RegistryInv, PublishOK, Open
  <2> QED BY <2>1, <2>2, <2>3, <2>4, <2>5 DEF RegistryInv

\* One item is applied, and its effect joins the ones to publish (writer.rs
\* commit_batch).
LEMMA AdvanceStep ==
  ASSUME RegistryInv, phase = "apply", NEW out, Advances(ram, txn.t, out),
         ram' = out.ram, txn' = [txn EXCEPT !.t = out.t], eff' = eff \o out.eff,
         phase' \in {"apply", "maintain", "commit"}, UNCHANGED <<disk, since, queue, batch>>
  PROVE  RegistryInv'
<1>1. /\ DOMAIN ram' = RamFields /\ ram'.nextId \in Nat /\ ram.nextId <= ram'.nextId
      /\ ram'.tags = ram.tags /\ ram'.epoch = ram.epoch /\ ram.nextId \in Nat
  BY DEF Advances, RegistryInv, MemoryOK
<1>2. DOMAIN txn' = {"t", "poisoned", "due"} /\ txn'.t = out.t
  BY DEF RegistryInv, OpenOK, Open
<1>3. /\ \A t \in since : Registry(t, ram'.nextId)
      /\ Registry(disk, ram'.nextId) /\ Registry(txn'.t, ram'.nextId)
  BY <1>1, <1>2, RegistryGrows DEF RegistryInv, StoredOK, Advances
<1>4. Behind(disk.tags, txn'.t.tags)
  <2>1. Behind(disk.tags, txn.t.tags) /\ Behind(txn.t.tags, txn'.t.tags)
    BY <1>2 DEF RegistryInv, OpenOK, Open, Advances
  <2>2. Registry(disk, ram.nextId) /\ Registry(txn.t, ram.nextId)
    BY DEF RegistryInv, StoredOK, OpenOK, Open
  <2> QED BY <1>3, <2>1, <2>2, BehindTrans DEF Registry
<1>5. /\ IsSeq(eff')
      /\ \A e \in Elems(eff') : Supported(e, txn'.t, ram'.nextId)
      /\ NoEpoch(Elems(eff')) <=> NoEpoch(Elems(eff))
  <2>1. IsSeq(eff) /\ \A e \in Elems(eff) : Supported(e, txn'.t, ram'.nextId)
    BY <1>2 DEF RegistryInv, OpenOK, Open, Advances
  <2>2. CASE out.eff = <<>>
    <3>1. eff' = eff
      BY <2>1, <2>2, SMT DEF IsSeq
    <3> QED BY <2>1, <3>1
  <2>3. ASSUME NEW e, out.eff = <<e>>, e.what # "epoch", Supported(e, out.t, out.ram.nextId)
        PROVE  /\ IsSeq(eff')
               /\ \A x \in Elems(eff') : Supported(x, txn'.t, ram'.nextId)
               /\ NoEpoch(Elems(eff')) <=> NoEpoch(Elems(eff))
    <3>1. eff' = Append(eff, e)
      BY <2>1, <2>3, ConcatOne
    <3>2. IsSeq(eff') /\ Elems(eff') = Elems(eff) \cup {e}
      BY <2>1, <3>1, AppendElems, SMT
    <3> QED BY <1>2, <2>1, <2>3, <3>2 DEF NoEpoch
  <2> QED BY <2>2, <2>3 DEF Advances
<1>6. txn'.t.epoch = txn.t.epoch
  BY <1>2 DEF Advances
<1> QED
  <2>1. MemoryOK'
    BY <1>1 DEF RegistryInv, MemoryOK, RamFields
  <2>2. StoredOK'
    BY <1>1, <1>3 DEF RegistryInv, StoredOK
  <2>3. JobsOK'
    BY DEF RegistryInv, JobsOK
  <2>4. OpenOK'
    BY <1>2, <1>3, <1>4, <1>5, <1>6 DEF RegistryInv, OpenOK, Open
  <2>5. PublishOK'
    BY <1>1 DEF RegistryInv, PublishOK, Open
  <2> QED BY <2>1, <2>2, <2>3, <2>4, <2>5 DEF RegistryInv

\* Applying one item of a job, other than a flush, preserves the invariant
\* (writer.rs commit_batch, queue.rs apply).
LEMMA ApplyStep ==
  ASSUME RegistryInv, NEW kind \in RecordKinds \cup {"CreateTags", "DeleteByTag", "MergeTag"},
         Apply(kind)
  PROVE  RegistryInv'
<1> DEFINE out == ApplyItem(Job, Item)
<1>1. /\ phase = "apply" /\ HasItem /\ Job.kind = kind
      /\ ram' = out.ram /\ txn' = [txn EXCEPT !.t = out.t] /\ eff' = eff \o out.eff
      /\ phase' \in {"apply", "maintain", "commit"}
      /\ UNCHANGED <<disk, since, queue, batch>>
  BY DEF Apply
<1>2. Advances(ram, txn.t, out)
  BY <1>1, ItemAdvances
<1> HIDE DEF out
<1> QED BY <1>1, <1>2, AdvanceStep

\* A flush raises the epoch of the transaction to one past memory's, however
\* many flushes share the batch (apply.rs apply_flush).
LEMMA FlushStep ==
  ASSUME RegistryInv, Apply("Flush")
  PROVE  RegistryInv'
<1> DEFINE e == [what |-> "epoch", epoch |-> ram.epoch + 1]
           out == ApplyItem(Job, Item)
           u == apply_flush(ram, txn.t).t
<1>1. /\ phase = "apply" /\ Job.kind = "Flush"
      /\ ram' = out.ram /\ txn' = [txn EXCEPT !.t = out.t] /\ eff' = eff \o out.eff
      /\ phase' \in {"apply", "maintain", "commit"}
      /\ UNCHANGED <<disk, since, queue, batch>>
  BY DEF Apply
<1>2. out.ram = ram /\ out.t = u /\ out.eff = <<e>>
  BY <1>1 DEF ApplyItem, apply_flush
<1>3. /\ DOMAIN txn' = {"t", "poisoned", "due"} /\ txn'.t = u
  BY <1>1, <1>2 DEF RegistryInv, OpenOK, Open
<1>4. DOMAIN u = Fields /\ u.tags = txn.t.tags /\ u.epoch = ram.epoch + 1
  BY <1>1 DEF RegistryInv, OpenOK, Open, Registry, apply_flush, Fields
<1>5. e.what = "epoch" /\ e.epoch = ram.epoch + 1
  OBVIOUS
<1> HIDE DEF out, u, e
<1>6. Registry(u, ram.nextId) /\ Behind(disk.tags, u.tags)
  <2>1. Registry(txn.t, ram.nextId) /\ Behind(disk.tags, txn.t.tags) /\ ram.epoch \in Nat
    BY <1>1 DEF RegistryInv, MemoryOK, OpenOK, Open
  <2> QED BY <1>4, <2>1, SMT DEF Registry
<1>7. IsSeq(eff') /\ Elems(eff') = Elems(eff) \cup {e}
  <2>1. IsSeq(eff)
    BY DEF RegistryInv, OpenOK
  <2>2. eff' = Append(eff, e)
    BY <1>1, <1>2, <2>1, ConcatOne
  <2> QED BY <2>1, <2>2, AppendElems
<1>8. ~NoEpoch(Elems(eff'))
  BY <1>5, <1>7 DEF NoEpoch
<1>9. ram.epoch = disk.epoch /\ disk.epoch \in Nat
  BY <1>1 DEF RegistryInv, StoredOK, PublishOK, Registry
<1>10. \A x \in Elems(eff') : Supported(x, u, ram.nextId)
  <2>1. Supported(e, u, ram.nextId)
    BY <1>4, <1>5 DEF Supported
  <2>2. ASSUME NEW x \in Elems(eff) PROVE Supported(x, u, ram.nextId)
    <3>1. Supported(x, txn.t, ram.nextId)
      BY <1>1 DEF RegistryInv, OpenOK, Open
    <3>2. x.what = "epoch" => txn.t.epoch = disk.epoch + 1
      BY <1>1 DEF RegistryInv, OpenOK, Open, NoEpoch
    <3> QED BY <1>4, <1>9, <3>1, <3>2 DEF Supported
  <2> QED BY <1>7, <2>1, <2>2
<1> QED
  <2>1. MemoryOK'
    BY <1>1, <1>2 DEF RegistryInv, MemoryOK
  <2>2. StoredOK'
    BY <1>1, <1>2 DEF RegistryInv, StoredOK
  <2>3. JobsOK'
    BY <1>1 DEF RegistryInv, JobsOK
  <2>4. OpenOK'
    BY <1>1, <1>2, <1>3, <1>4, <1>6, <1>7, <1>8, <1>9, <1>10 DEF OpenOK
  <2>5. PublishOK'
    BY <1>1, <1>2, <1>9 DEF RegistryInv, PublishOK, Open
  <2> QED BY <2>1, <2>2, <2>3, <2>4, <2>5 DEF RegistryInv

\* Maintenance that keeps the registry keeps what the effects say of it
\* (writer.rs commit_batch).
LEMMA KeptTables ==
  ASSUME NEW t, NEW u, NEW a, Registry(t, a), KeepsTables(t, u)
  PROVE  Registry(u, a) /\ \A e : Supported(e, t, a) => Supported(e, u, a)
  BY DEF Registry, KeepsTables, Supported

\* So the registry and its effects are as they were.
LEMMA MaintainStep ==
  ASSUME RegistryInv, NEW level, Maintain(level)
  PROVE  RegistryInv'
<1>1. /\ phase = "maintain" /\ phase' = "commit"
      /\ ram' = [ram EXCEPT !.pressure = level]
      /\ UNCHANGED <<disk, since, queue, batch, eff>>
  BY DEF Maintain
<1>2. DOMAIN txn' = {"t", "poisoned", "due"} /\ KeepsTables(txn.t, txn'.t)
  BY MaintainKeeps
<1>3. /\ DOMAIN ram' = RamFields /\ ram'.tags = ram.tags
      /\ ram'.nextId = ram.nextId /\ ram'.epoch = ram.epoch
  BY <1>1 DEF RegistryInv, MemoryOK, RamFields
<1>4. /\ Registry(txn'.t, ram.nextId) /\ Behind(disk.tags, txn'.t.tags)
      /\ txn'.t.epoch = txn.t.epoch
      /\ \A e \in Elems(eff) : Supported(e, txn'.t, ram.nextId)
  <2>1. /\ Registry(txn.t, ram.nextId) /\ Behind(disk.tags, txn.t.tags)
        /\ \A e \in Elems(eff) : Supported(e, txn.t, ram.nextId)
    BY <1>1 DEF RegistryInv, OpenOK, Open
  <2> QED BY <1>2, <2>1, KeptTables DEF KeepsTables
<1> QED
  <2>1. MemoryOK'
    BY <1>3 DEF RegistryInv, MemoryOK, RamFields
  <2>2. StoredOK'
    BY <1>1, <1>3 DEF RegistryInv, StoredOK
  <2>3. JobsOK'
    BY <1>1 DEF RegistryInv, JobsOK
  <2>4. OpenOK'
    BY <1>1, <1>2, <1>3, <1>4 DEF RegistryInv, OpenOK, Open
  <2>5. PublishOK'
    BY <1>1, <1>3 DEF RegistryInv, PublishOK, Open
  <2> QED BY <2>1, <2>2, <2>3, <2>4, <2>5 DEF RegistryInv

\* The transaction becomes the committed tables, and its effects wait to be
\* published over them (writer.rs commit_batch).
LEMMA CommitStep ==
  ASSUME RegistryInv, Commit
  PROVE  RegistryInv'
<1>1. /\ phase = "commit" /\ phase' = "publish"
      /\ disk' = [txn.t EXCEPT !.seq = IF batch = <<>> THEN @ ELSE @ + 1]
      /\ since' \in {since \cup {disk'}, {disk'}}
      /\ UNCHANGED <<ram, queue, batch, eff>>
  BY DEF Commit
<1>2. KeepsTables(txn.t, disk')
  BY <1>1 DEF RegistryInv, OpenOK, Open, Registry, KeepsTables, Fields
<1>3. /\ Registry(disk', ram.nextId) /\ Behind(disk.tags, disk'.tags)
      /\ \A e \in Elems(eff) : Supported(e, disk', ram.nextId)
      /\ disk'.epoch = IF NoEpoch(Elems(eff)) THEN disk.epoch ELSE disk.epoch + 1
  <2>1. /\ Registry(txn.t, ram.nextId) /\ Behind(disk.tags, txn.t.tags)
        /\ txn.t.epoch = IF NoEpoch(Elems(eff)) THEN disk.epoch ELSE disk.epoch + 1
        /\ \A e \in Elems(eff) : Supported(e, txn.t, ram.nextId)
    BY <1>1 DEF RegistryInv, OpenOK, Open
  <2> QED BY <1>2, <2>1, KeptTables DEF KeepsTables
<1>4. Behind(ram.tags, disk'.tags)
  BY <1>3, BehindTrans DEF RegistryInv, MemoryOK, StoredOK, Registry
<1>5. /\ ram.epoch <= disk'.epoch
      /\ NoEpoch(Elems(eff)) => ram.epoch = disk'.epoch
  <2>1. ram.epoch = disk.epoch /\ disk.epoch \in Nat
    BY <1>1 DEF RegistryInv, StoredOK, PublishOK, Registry
  <2> QED BY <1>3, <2>1, SMT
<1> QED
  <2>1. MemoryOK'
    BY <1>1 DEF RegistryInv, MemoryOK
  <2>2. StoredOK'
    BY <1>1, <1>3, <1>4 DEF RegistryInv, StoredOK
  <2>3. JobsOK'
    BY <1>1 DEF RegistryInv, JobsOK
  <2>4. OpenOK'
    BY <1>1 DEF RegistryInv, OpenOK, Open
  <2>5. PublishOK'
    BY <1>1, <1>3, <1>5 DEF PublishOK
  <2> QED BY <2>1, <2>2, <2>3, <2>4, <2>5 DEF RegistryInv

\* An effect is published over tables that say at least as much (queue.rs
\* PostCommit, tags.rs insert and merge_generation).
LEMMA PublishStep ==
  ASSUME RegistryInv, Publish
  PROVE  RegistryInv'
<1> DEFINE e == Head(eff)
<1>1. /\ phase = "publish" /\ eff # <<>> /\ ram' = publish(ram, e) /\ eff' = Tail(eff)
      /\ UNCHANGED <<disk, since, queue, phase, batch, txn>>
  BY DEF Publish
<1>2. /\ IsSeq(eff') /\ e \in Elems(eff)
      /\ Elems(eff') \subseteq Elems(eff) /\ Elems(eff) \subseteq Elems(eff') \cup {e}
  BY <1>1, TailElems DEF RegistryInv, OpenOK
<1>3. Supported(e, disk, ram.nextId)
  BY <1>1, <1>2 DEF RegistryInv, PublishOK
<1> HIDE DEF e
<1>4. /\ DOMAIN ram = RamFields /\ ram.nextId \in Nat /\ ram.epoch \in Nat
      /\ \A n \in DOMAIN ram.tags : ram.tags[n] \in Entry
      /\ Registry(disk, ram.nextId) /\ Behind(ram.tags, disk.tags)
      /\ ram.epoch <= disk.epoch
      /\ NoEpoch(Elems(eff)) => ram.epoch = disk.epoch
  BY <1>1 DEF RegistryInv, MemoryOK, StoredOK, PublishOK, RamFields
<1>5. /\ DOMAIN ram' = RamFields /\ ram'.nextId = ram.nextId /\ ram'.epoch \in Nat
      /\ \A n \in DOMAIN ram'.tags : ram'.tags[n] \in Entry
      /\ Behind(ram'.tags, disk.tags)
      /\ ram'.epoch <= disk.epoch
      /\ NoEpoch(Elems(eff')) => ram'.epoch = disk.epoch
  <2>1. CASE e.what = "created"
    <3>1. /\ e.name \in DOMAIN disk.tags /\ e.entry \in Entry
          /\ e.entry.id = disk.tags[e.name].id /\ e.entry.gen <= disk.tags[e.name].gen
      BY <1>3, <2>1 DEF Supported
    <3>2. ram' = [ram EXCEPT !.tags = Put(@, e.name, e.entry)]
      BY <1>1, <2>1 DEF publish, insert
    <3>3. /\ DOMAIN ram' = RamFields /\ ram'.nextId = ram.nextId /\ ram'.epoch = ram.epoch
          /\ ram'.tags = Put(ram.tags, e.name, e.entry)
      BY <1>4, <3>2 DEF RamFields
    <3>4. \A n \in DOMAIN ram'.tags : ram'.tags[n] \in Entry
      BY <1>4, <3>1, <3>3 DEF Put
    <3>5. Behind(ram'.tags, disk.tags)
      BY <1>4, <3>1, <3>3 DEF Put, Behind
    <3>6. NoEpoch(Elems(eff')) => NoEpoch(Elems(eff))
      BY <1>2, <2>1 DEF NoEpoch
    <3> QED BY <1>4, <3>3, <3>4, <3>5, <3>6
  <2>2. CASE e.what = "raised"
    <3>1. /\ e.id \in Nat /\ e.gen \in Nat
          /\ \A n \in DOMAIN disk.tags : disk.tags[n].id = e.id => e.gen <= disk.tags[n].gen
      BY <1>3, <2>2 DEF Supported
    <3>2. ram' = [ram EXCEPT !.tags = merge_generation(@, e.id, e.gen)]
      BY <1>1, <2>2 DEF publish
    <3>3. /\ DOMAIN ram' = RamFields /\ ram'.nextId = ram.nextId /\ ram'.epoch = ram.epoch
          /\ ram'.tags = merge_generation(ram.tags, e.id, e.gen)
      BY <1>4, <3>2 DEF RamFields
    <3>4. DOMAIN ram'.tags = DOMAIN ram.tags
      BY <3>3 DEF merge_generation
    <3>5. ASSUME NEW n \in DOMAIN ram.tags
          PROVE  /\ ram'.tags[n] \in Entry /\ ram'.tags[n].id = ram.tags[n].id
                 /\ \/ ram'.tags[n] = ram.tags[n]
                    \/ ram.tags[n].id = e.id /\ ram'.tags[n].gen = e.gen
      BY <1>4, <3>1, <3>3, SMT DEF merge_generation, Entry
    <3>6. Behind(ram'.tags, disk.tags)
      BY <1>4, <3>1, <3>4, <3>5 DEF Behind
    <3>7. NoEpoch(Elems(eff')) => NoEpoch(Elems(eff))
      BY <1>2, <2>2 DEF NoEpoch
    <3> QED BY <1>4, <3>3, <3>4, <3>5, <3>6, <3>7
  <2>3. CASE e.what = "epoch"
    <3>1. e.epoch = disk.epoch /\ disk.epoch \in Nat
      BY <1>3, <1>4, <2>3 DEF Supported, Registry
    <3>2. ram' = [ram EXCEPT !.epoch = e.epoch]
      BY <1>1, <2>3 DEF publish
    <3>3. /\ DOMAIN ram' = RamFields /\ ram'.nextId = ram.nextId /\ ram'.epoch = e.epoch
          /\ ram'.tags = ram.tags
      BY <1>4, <3>2 DEF RamFields
    <3> QED BY <1>4, <3>1, <3>3, SMT
  <2> QED BY <1>3, <2>1, <2>2, <2>3 DEF Supported
<1> QED
  <2>1. MemoryOK'
    BY <1>4, <1>5 DEF MemoryOK, RamFields
  <2>2. StoredOK'
    BY <1>1, <1>4, <1>5 DEF RegistryInv, StoredOK
  <2>3. JobsOK'
    BY <1>1 DEF RegistryInv, JobsOK
  <2>4. OpenOK'
    BY <1>1, <1>2 DEF OpenOK, Open
  <2>5. PublishOK'
    BY <1>1, <1>2, <1>5 DEF RegistryInv, PublishOK
  <2> QED BY <2>1, <2>2, <2>3, <2>4, <2>5 DEF RegistryInv

\* A step that ends a transaction, or happens between two, and leaves the
\* tables alone; counters may have advanced (writer.rs, the error paths).
LEMMA SettleStep ==
  ASSUME RegistryInv, phase' \in {"idle", "sync", "full", "free"}, eff' = <<>>,
         phase # "publish" \/ eff = <<>>,
         UNCHANGED <<disk, queue>>, since' \in {since, {disk}}, batch' \in {batch, <<>>},
         DOMAIN ram' = RamFields, ram'.tags = ram.tags, ram'.epoch = ram.epoch,
         ram'.nextId \in Nat, ram.nextId <= ram'.nextId
  PROVE  RegistryInv'
<1>1. /\ \A t \in since' : Registry(t, ram'.nextId)
      /\ Registry(disk, ram'.nextId)
  BY RegistryGrows DEF RegistryInv, MemoryOK, StoredOK
<1>2. IsSeq(eff') /\ Elems(eff') = {}
  BY EmptyElems
<1>3. \A job \in Elems(queue) \cup Elems(batch') : JobOK(job)
  BY EmptyElems DEF RegistryInv, JobsOK
<1>4. ram.epoch = disk.epoch
  BY EmptyElems DEF RegistryInv, PublishOK, NoEpoch
<1> QED
  <2>1. MemoryOK'
    BY DEF RegistryInv, MemoryOK, RamFields
  <2>2. StoredOK'
    BY <1>1 DEF RegistryInv, StoredOK
  <2>3. JobsOK'
    BY <1>3 DEF RegistryInv, JobsOK
  <2>4. OpenOK'
    BY <1>2 DEF OpenOK, Open
  <2>5. PublishOK'
    BY <1>4 DEF PublishOK
  <2> QED BY <2>1, <2>2, <2>3, <2>4, <2>5 DEF RegistryInv

\* The same for a step that leaves memory alone too, or changes the pressure.
LEMMA QuietStep ==
  ASSUME RegistryInv, phase' \in {"idle", "sync", "full", "free"}, eff' = <<>>,
         phase # "publish" \/ eff = <<>>,
         UNCHANGED <<disk, queue>>, since' \in {since, {disk}}, batch' \in {batch, <<>>},
         ram' = ram \/ \E level : ram' = [ram EXCEPT !.pressure = level]
  PROVE  RegistryInv'
<1>1. /\ DOMAIN ram' = RamFields /\ ram'.tags = ram.tags /\ ram'.epoch = ram.epoch
      /\ ram'.nextId = ram.nextId /\ ram.nextId \in Nat
  BY DEF RegistryInv, MemoryOK, RamFields
<1> QED BY <1>1, SettleStep, SMT

\* Answers, syncs and the refusal of writes (writer.rs).
LEMMA QuietSteps ==
  ASSUME RegistryInv,
         Reply \/ SyncEnv \/ SyncFails \/ Refuse \/ FreeSpaceFails \/ CommitPoisoned
           \/ BeginFails \/ \E full \in BOOLEAN : CommitFails(full)
  PROVE  RegistryInv'
<1>1. phase \notin {"publish", "apply", "maintain", "commit"} => eff = <<>>
  BY DEF RegistryInv, PublishOK, Open
<1>2. CASE Reply
  BY <1>2, QuietStep DEF Reply, store_vars
<1>3. CASE SyncEnv
  BY <1>1, <1>3, QuietStep DEF SyncEnv
<1>4. CASE SyncFails
  BY <1>1, <1>4, QuietStep DEF SyncFails, store_vars
<1>5. CASE Refuse
  BY <1>1, <1>5, QuietStep DEF Refuse
<1>6. CASE FreeSpaceFails
  BY <1>1, <1>6, QuietStep DEF FreeSpaceFails
<1>7. CASE CommitPoisoned
  BY <1>7, QuietStep DEF CommitPoisoned, Abort, Discard
<1>8. CASE BeginFails
  BY <1>8, QuietStep DEF BeginFails, Abort, Discard
<1>9. ASSUME NEW full \in BOOLEAN, CommitFails(full) PROVE RegistryInv'
  BY <1>9, QuietStep DEF CommitFails, Abort, Discard
<1> QED BY <1>2, <1>3, <1>4, <1>5, <1>6, <1>7, <1>8, <1>9

\* A poisoned transaction: ids the lost operation took are not given back
\* (writer.rs commit_batch).
LEMMA ApplyFailsStep ==
  ASSUME RegistryInv, NEW full \in BOOLEAN, ApplyFails(full)
  PROVE  RegistryInv'
<1> DEFINE r == ApplyItem(Job, Item).ram
<1>1. /\ phase = "apply" /\ HasItem /\ ram' \in {ram, r} /\ eff' = <<>>
      /\ phase' \in {"idle", "full"} /\ batch' = <<>> /\ UNCHANGED <<disk, since, queue>>
  BY DEF ApplyFails, Abort, Discard
<1>2. /\ DOMAIN r = RamFields /\ r.tags = ram.tags /\ r.epoch = ram.epoch
      /\ r.nextId \in Nat /\ ram.nextId <= r.nextId
  BY <1>1, ItemMemory
<1> HIDE DEF r
<1>3. DOMAIN ram = RamFields /\ ram.nextId \in Nat
  BY DEF RegistryInv, MemoryOK, RamFields
<1>4. /\ DOMAIN ram' = RamFields /\ ram'.tags = ram.tags /\ ram'.epoch = ram.epoch
      /\ ram'.nextId \in Nat /\ ram.nextId <= ram'.nextId
  BY <1>1, <1>2, <1>3, SMT
<1> QED BY <1>1, <1>4, SettleStep

\* A failed maintenance pass leaves a transaction that will not commit.
LEMMA MaintainFailsStep ==
  ASSUME RegistryInv, NEW level, MaintainFails(level)
  PROVE  RegistryInv'
<1>1. /\ phase = "maintain" /\ phase' = "commit"
      /\ txn' = [txn EXCEPT !.poisoned = TRUE]
      /\ ram' \in {ram, [ram EXCEPT !.pressure = level]}
      /\ UNCHANGED <<disk, since, queue, batch, eff>>
  BY DEF MaintainFails
<1>2. DOMAIN txn' = {"t", "poisoned", "due"} /\ txn'.t = txn.t
  BY <1>1 DEF RegistryInv, OpenOK, Open
<1>3. /\ DOMAIN ram' = RamFields /\ ram'.tags = ram.tags
      /\ ram'.nextId = ram.nextId /\ ram'.epoch = ram.epoch
  BY <1>1 DEF RegistryInv, MemoryOK, RamFields
<1> QED
  <2>1. MemoryOK'
    BY <1>3 DEF RegistryInv, MemoryOK, RamFields
  <2>2. StoredOK'
    BY <1>1, <1>3 DEF RegistryInv, StoredOK
  <2>3. JobsOK'
    BY <1>1 DEF RegistryInv, JobsOK
  <2>4. OpenOK'
    BY <1>1, <1>2, <1>3 DEF RegistryInv, OpenOK, Open
  <2>5. PublishOK'
    BY <1>1, <1>3 DEF RegistryInv, PublishOK, Open
  <2> QED BY <2>1, <2>2, <2>3, <2>4, <2>5 DEF RegistryInv

\* The emergency reclamation deletes records only (writer.rs free_space).
LEMMA FreeSpaceKeeps ==
  ASSUME RegistryInv, NEW budget, FreeSpace(budget)
  PROVE  KeepsTables(disk, disk')
<1> DEFINE swept == sweep(disk, now, budget).t
           u == evict(swept, now, budget).t
<1>1. disk' = u
  BY DEF FreeSpace
<1>2. DOMAIN disk = Fields
  BY DEF RegistryInv, StoredOK, Registry
<1>3. KeepsTables(disk, swept)
  BY <1>2, DrainKeeps DEF sweep
<1> HIDE DEF swept
<1>4. DOMAIN swept = Fields
  BY <1>3 DEF KeepsTables
<1>5. KeepsTables(swept, u)
  BY <1>4, DrainKeeps DEF evict
<1> QED BY <1>1, <1>3, <1>5 DEF KeepsTables

\* So memory still matches the tables it leaves.
LEMMA FreeSpaceStep ==
  ASSUME RegistryInv, NEW budget, FreeSpace(budget)
  PROVE  RegistryInv'
<1>1. /\ phase = "free" /\ phase' = "idle"
      /\ since' \in {since \cup {disk'}, {disk'}}
      /\ UNCHANGED <<ram, queue, batch, eff>>
  BY DEF FreeSpace
<1>2. Registry(disk, ram.nextId)
  BY DEF RegistryInv, StoredOK
<1>3. KeepsTables(disk, disk')
  BY FreeSpaceKeeps
<1>4. Registry(disk', ram.nextId) /\ disk'.tags = disk.tags /\ disk'.epoch = disk.epoch
  BY <1>2, <1>3, KeptTables DEF KeepsTables
<1> QED
  <2>1. MemoryOK'
    BY <1>1 DEF RegistryInv, MemoryOK
  <2>2. StoredOK'
    BY <1>1, <1>4 DEF RegistryInv, StoredOK
  <2>3. JobsOK'
    BY <1>1 DEF RegistryInv, JobsOK
  <2>4. OpenOK'
    BY <1>1 DEF RegistryInv, OpenOK, Open
  <2>5. PublishOK'
    BY <1>1, <1>4 DEF RegistryInv, PublishOK, Open
  <2> QED BY <2>1, <2>2, <2>3, <2>4, <2>5 DEF RegistryInv

\* Opening a store rebuilds memory from its tables (env.rs, tags.rs load_from).
LEMMA RestartStep ==
  ASSUME RegistryInv, NEW t, t = disk \/ t \in since, Restart(t)
  PROVE  RegistryInv'
<1>1. /\ disk' = t /\ since' = {t} /\ ram' = open(t) /\ queue' = <<>> /\ phase' = "idle"
      /\ batch' = <<>> /\ eff' = <<>>
  BY DEF Restart
<1>2. Registry(t, ram.nextId) /\ ram.nextId \in Nat
  BY DEF RegistryInv, MemoryOK, StoredOK
<1>3. load_next_id(t.tags) \in Nat /\ Registry(t, load_next_id(t.tags))
  BY <1>2, RegistryLoads
<1>4. /\ DOMAIN ram' = RamFields /\ ram'.tags = t.tags /\ ram'.epoch = t.epoch
      /\ ram'.nextId = load_next_id(t.tags)
  BY <1>1 DEF open, RamFields
<1>5. Behind(t.tags, t.tags)
  BY <1>2, BehindSelf
<1>6. /\ IsSeq(queue') /\ Elems(queue') = {} /\ Elems(batch') = {}
      /\ IsSeq(eff')
  BY <1>1, EmptyElems
<1>7. ~Open' /\ phase' # "publish"
  BY <1>1 DEF Open
<1>8. /\ ram'.nextId \in Nat /\ ram'.epoch \in Nat /\ ram'.epoch = disk'.epoch
      /\ \A n \in DOMAIN ram'.tags : ram'.tags[n] \in Entry
  BY <1>1, <1>3, <1>4 DEF Registry
<1>9. /\ \A u \in since' : Registry(u, ram'.nextId)
      /\ Registry(disk', ram'.nextId) /\ Behind(ram'.tags, disk'.tags)
  BY <1>1, <1>3, <1>4, <1>5
<1> QED
  <2>1. MemoryOK'
    BY <1>4, <1>8 DEF MemoryOK, RamFields
  <2>2. StoredOK'
    BY <1>9 DEF StoredOK
  <2>3. JobsOK'
    BY <1>6 DEF JobsOK
  <2>4. OpenOK'
    BY <1>6, <1>7 DEF OpenOK
  <2>5. PublishOK'
    BY <1>1, <1>7, <1>8 DEF PublishOK
  <2> QED BY <2>1, <2>2, <2>3, <2>4, <2>5 DEF RegistryInv

-----------------------------------------------------------------------------
(* The registry is sound *)

\* The invariant holds of an empty store.
LEMMA RegistryInit == Init => RegistryInv
<1> SUFFICES ASSUME Init PROVE RegistryInv
  OBVIOUS
<1>1. /\ disk = EmptyTables /\ since = {EmptyTables} /\ ram = open(EmptyTables)
      /\ queue = <<>> /\ phase = "idle" /\ batch = <<>> /\ eff = <<>>
  BY DEF Init
<1>2. Registry(EmptyTables, 0) /\ DOMAIN EmptyTables.tags = {} /\ EmptyTables.epoch = 0
  BY DEF EmptyTables, Registry, Fields, Empty
<1>3. ram.nextId = 0 /\ ram.epoch = 0 /\ ram.tags = EmptyTables.tags /\ DOMAIN ram = RamFields
  BY <1>1, <1>2 DEF open, load_next_id, RamFields
<1>4. ~Open /\ phase # "publish"
  BY <1>1 DEF Open
<1>5. /\ IsSeq(queue) /\ Elems(queue) = {} /\ Elems(batch) = {}
      /\ IsSeq(eff)
  BY <1>1, EmptyElems
<1>6. /\ \A n \in DOMAIN ram.tags : ram.tags[n] \in Entry
      /\ Behind(ram.tags, disk.tags) /\ ram.epoch = disk.epoch
  BY <1>1, <1>2, <1>3 DEF Behind
<1>7. Registry(disk, ram.nextId) /\ \A t \in since : Registry(t, ram.nextId)
  BY <1>1, <1>2, <1>3
<1> QED
  <2>1. MemoryOK
    BY <1>3, <1>6, SMT DEF MemoryOK, RamFields
  <2>2. StoredOK
    BY <1>6, <1>7 DEF StoredOK
  <2>3. JobsOK
    BY <1>5 DEF JobsOK
  <2>4. OpenOK
    BY <1>4, <1>5 DEF OpenOK
  <2>5. PublishOK
    BY <1>1, <1>4, <1>6 DEF PublishOK
  <2> QED BY <2>1, <2>2, <2>3, <2>4, <2>5 DEF RegistryInv

\* Every step keeps the invariant: one case per action of the writer, the
\* callers and the failures.
LEMMA RegistryStep ==
  ASSUME RegistryInv, [Next]_vars
  PROVE  RegistryInv'
<1>1. ASSUME NEW c \in Clients, ClientStep(c) \/ CallStep(c) PROVE RegistryInv'
  BY <1>1, ClientSteps
<1>2. CASE WriterStep
  <2>1. ASSUME NEW due \in BOOLEAN, Begin(due) PROVE RegistryInv'
    BY <2>1, BeginStep
  <2>2. CASE \/ ApplySet \/ ApplyConditional \/ ApplyDelete \/ ApplyTouch \/ ApplyExpire
             \/ ApplyArithmetic \/ ApplyAppend \/ ApplyCreateTags \/ ApplyDeleteByTag
             \/ ApplyMergeTag \/ ApplySync
    BY <2>2, ApplyStep DEF RecordKinds, ApplySet, ApplyConditional, ApplyDelete, ApplyTouch,
         ApplyExpire, ApplyArithmetic, ApplyAppend, ApplyCreateTags, ApplyDeleteByTag,
         ApplyMergeTag, ApplySync
  <2>3. CASE ApplyFlush
    BY <2>3, FlushStep DEF ApplyFlush
  <2>4. ASSUME NEW level \in Levels, Maintain(level) PROVE RegistryInv'
    BY <2>4, MaintainStep
  <2>5. CASE Commit
    BY <2>5, CommitStep
  <2>6. CASE Publish
    BY <2>6, PublishStep
  <2>7. CASE CommitPoisoned \/ Reply \/ SyncEnv \/ Refuse \/ FreeSpaceFails
    BY <2>7, QuietSteps
  <2>8. ASSUME NEW b \in FreeBudgets, FreeSpace(b) PROVE RegistryInv'
    BY <2>8, FreeSpaceStep
  <2> QED BY <1>2, <2>1, <2>2, <2>3, <2>4, <2>5, <2>6, <2>7, <2>8 DEF WriterStep
<1>3. CASE Failure
  <2>1. CASE BeginFails \/ SyncFails \/ \E full \in BOOLEAN : CommitFails(full)
    BY <2>1, QuietSteps
  <2>2. ASSUME NEW full \in BOOLEAN, ApplyFails(full) PROVE RegistryInv'
    BY <2>2, ApplyFailsStep
  <2>3. ASSUME NEW level \in Levels, MaintainFails(level) PROVE RegistryInv'
    BY <2>3, MaintainFailsStep
  <2>4. CASE Crash
    BY <2>4, RestartStep DEF Crash
  <2>5. CASE PowerLoss
    BY <2>5, RestartStep DEF PowerLoss
  <2> QED BY <1>3, <2>1, <2>2, <2>3, <2>4, <2>5 DEF Failure
<1>4. CASE Tick
  BY <1>4, QueueStep DEF Tick, store_vars, writer_vars
<1>5. CASE UNCHANGED vars
  BY <1>5, QueueStep DEF vars
<1> QED BY <1>1, <1>2, <1>3, <1>4, <1>5 DEF Next

\* The invariant implies the promise (reclaim.rs, "RAM can lag behind the
\* truth but never runs ahead of it").
LEMMA RegistryImplies == RegistryInv => RamBehindDisk
<1> SUFFICES ASSUME RegistryInv PROVE RamBehindDisk
  OBVIOUS
<1>1. Behind(ram.tags, disk.tags)
  BY DEF RegistryInv, StoredOK
<1>2. ram.epoch <= disk.epoch
  BY SMT DEF RegistryInv, MemoryOK, PublishOK
<1> QED BY <1>1, <1>2 DEF RamBehindDisk, Behind

\* Tag ids stay unique and below the counter, on disk and in the transaction.
THEOREM RegistryIsSound == Spec => []RegistryInv
  BY RegistryInit, RegistryStep, PTL DEF Spec

\* The registry and the epoch in memory never run ahead of the committed
\* tables, whatever is batched together, fails, crashes or is lost with the
\* power (queue.rs PostCommit, reclaim.rs).
THEOREM RamNeverAhead == Spec => []RamBehindDisk
  BY RegistryIsSound, RegistryImplies, PTL

-----------------------------------------------------------------------------
(* Publishing one effect *)

\* Publishing the first effect leaves the rest pending, when the effect raises
\* the names it is about in memory to what it brings, no lower than they were,
\* and leaves the others (tags.rs insert, merge_generation).
LEMMA PublishOne ==
  ASSUME NEW q, NEW mem, NEW tags, Formed(q, mem, tags), Pending(q, mem, tags), q # <<>>,
         NEW new, \A n \in DOMAIN new : new[n] \in Entry,
         DOMAIN mem \subseteq DOMAIN new, DOMAIN new \subseteq DOMAIN tags,
         \A n \in DOMAIN new \ DOMAIN mem : q[1].what = "created" /\ q[1].name = n,
         q[1].what = "created" => q[1].name \in DOMAIN new,
         \A n \in DOMAIN new : About(q[1], n, tags) => new[n].gen = GenOf(q[1]),
         \A n \in DOMAIN mem : ~About(q[1], n, tags) => new[n] = mem[n]
  PROVE  Pending(Tail(q), new, tags)
<1> DEFINE u == Tail(q)
<1>1. /\ Len(q) \in Nat \ {0} /\ DOMAIN q = 1..Len(q)
      /\ DOMAIN u = 1..(Len(q) - 1)
      /\ \A i \in 1..(Len(q) - 1) : u[i] = q[i + 1]
  BY TailAt DEF Formed
<1>2. 1 \in DOMAIN q /\ \A i \in DOMAIN u : i + 1 \in DOMAIN q /\ u[i] = q[i + 1] /\ 1 < i + 1
  BY <1>1, SMT
<1>3. \A i \in DOMAIN q : i # 1 => i - 1 \in DOMAIN u /\ u[i - 1] = q[i]
  BY <1>1, SMT
<1>4. \A i \in DOMAIN q : i \in Nat
  BY <1>1, SMT
<1>5. \A i \in DOMAIN u : i \in Nat
  BY <1>1, SMT
<1> HIDE DEF u
<1>6. ASSUME NEW n \in DOMAIN new, n \notin DOMAIN mem
      PROVE  About(q[1], n, tags)
  BY <1>6 DEF About
<1>7. Ordered(u, new, tags)
  <2>1. ASSUME NEW i \in DOMAIN u, NEW j \in DOMAIN u, NEW n \in DOMAIN tags,
               i < j, About(u[i], n, tags), About(u[j], n, tags)
        PROVE  GenOf(u[i]) <= GenOf(u[j])
    <3>1. i + 1 < j + 1
      BY <1>5, <2>1, SMT
    <3> QED BY <1>2, <2>1, <3>1, SMT DEF Pending, Ordered
  <2>2. ASSUME NEW i \in DOMAIN u, NEW n \in DOMAIN new, About(u[i], n, tags)
        PROVE  new[n].gen <= GenOf(u[i])
    <3>1. CASE About(q[1], n, tags)
      BY <1>2, <2>2, <3>1, SMT DEF Pending, Ordered
    <3>2. CASE ~About(q[1], n, tags)
      <4>1. n \in DOMAIN mem /\ new[n] = mem[n]
        BY <1>6, <3>2
      <4> QED BY <1>2, <2>2, <4>1 DEF Pending, Ordered
    <3> QED BY <3>1, <3>2
  <2> QED BY <2>1, <2>2 DEF Ordered
<1>8. Brought(u, new, tags)
  <2> SUFFICES ASSUME NEW n \in DOMAIN tags
               PROVE  \/ n \in DOMAIN new /\ new[n].gen = tags[n].gen
                      \/ \E i \in DOMAIN u : About(u[i], n, tags) /\ GenOf(u[i]) = tags[n].gen
    BY DEF Brought
  <2>1. CASE n \in DOMAIN mem /\ mem[n].gen = tags[n].gen
    <3>1. CASE About(q[1], n, tags)
      <4>1. mem[n].gen <= GenOf(q[1]) /\ GenOf(q[1]) <= tags[n].gen /\ GenOf(q[1]) \in Nat
        BY <1>2, <2>1, <3>1 DEF Formed, Pending, Ordered
      <4>2. GenOf(q[1]) = tags[n].gen
        BY <2>1, <4>1, SMT DEF Formed, Entry
      <4> QED BY <2>1, <3>1, <4>2
    <3>2. CASE ~About(q[1], n, tags)
      BY <2>1, <3>2
    <3> QED BY <3>1, <3>2
  <2>2. ASSUME NEW i \in DOMAIN q, About(q[i], n, tags), GenOf(q[i]) = tags[n].gen
        PROVE  \/ n \in DOMAIN new /\ new[n].gen = tags[n].gen
               \/ \E j \in DOMAIN u : About(u[j], n, tags) /\ GenOf(u[j]) = tags[n].gen
    <3>1. CASE i # 1
      BY <1>3, <2>2, <3>1, SMT
    <3>2. CASE i = 1
      <4>1. n \in DOMAIN new
        <5>1. CASE n \in DOMAIN mem
          BY <5>1
        <5>2. CASE n \notin DOMAIN mem
          <6>1. PICK k \in DOMAIN q : /\ q[k].what = "created" /\ q[k].name = n
                                      /\ \A j \in DOMAIN q : About(q[j], n, tags) => k <= j
            BY <5>2 DEF Pending, CreatedFirst
          <6>2. k <= 1
            BY <2>2, <3>2, <6>1
          <6>3. k = 1
            BY <1>1, <6>2, SMT
          <6> QED BY <6>1, <6>3
        <5> QED BY <5>1, <5>2
      <4> QED BY <2>2, <3>2, <4>1
    <3> QED BY <3>1, <3>2
  <2> QED BY <2>1, <2>2 DEF Pending, Brought
<1>9. CreatedFirst(u, new, tags)
  <2> SUFFICES ASSUME NEW n \in DOMAIN tags \ DOMAIN new
               PROVE  \E i \in DOMAIN u : /\ u[i].what = "created" /\ u[i].name = n
                                          /\ \A j \in DOMAIN u : About(u[j], n, tags) => i <= j
    BY DEF CreatedFirst
  <2>1. PICK k \in DOMAIN q : /\ q[k].what = "created" /\ q[k].name = n
                              /\ \A j \in DOMAIN q : About(q[j], n, tags) => k <= j
    BY DEF Pending, CreatedFirst
  <2>2. k # 1
    BY <2>1
  <2>3. k - 1 \in DOMAIN u /\ u[k - 1] = q[k]
    BY <1>3, <2>2
  <2>4. ASSUME NEW j \in DOMAIN u, About(u[j], n, tags) PROVE k - 1 <= j
    <3>1. k <= j + 1
      BY <1>2, <2>1, <2>4
    <3> QED BY <1>4, <1>5, <3>1, SMT
  <2> QED BY <2>1, <2>3, <2>4
<1> QED BY <1>7, <1>8, <1>9 DEF Pending, u

\* Nothing is pending when memory is the registry.
LEMMA NonePending ==
  ASSUME NEW tags
  PROVE  Pending(<<>>, tags, tags)
  BY SMT DEF Pending, Ordered, Brought, CreatedFirst

-----------------------------------------------------------------------------
(* Collecting one effect *)

\* An effect that brings what the operation changed joins the ones pending.
LEMMA CollectOne ==
  ASSUME NEW q, NEW mem, NEW t, NEW next \in Nat, NEW e, NEW new,
         IsSeq(q), Registry(t, next), \A n \in DOMAIN mem : mem[n] \in Entry,
         Behind(mem, t.tags), \A x \in Elems(q) : Supported(x, t, next),
         Pending(q, mem, t.tags), Brings(e, t.tags, new, next),
         \A n \in DOMAIN new : new[n] \in Entry
  PROVE  Pending(Append(q, e), mem, new)
<1> DEFINE tags == t.tags
           a == Append(q, e)
<1>1. /\ Len(q) \in Nat /\ DOMAIN q = 1..Len(q) /\ DOMAIN a = 1..(Len(q) + 1)
      /\ a[Len(q) + 1] = e /\ \A i \in 1..Len(q) : a[i] = q[i]
  BY SMT DEF IsSeq
<1> DEFINE z == Len(q) + 1
<1>2. /\ z \in DOMAIN a /\ a[z] = e /\ \A i \in DOMAIN a : i \in DOMAIN q \/ i = z
      /\ \A i \in DOMAIN q : i \in DOMAIN a /\ a[i] = q[i] /\ i < z /\ i <= z
      /\ z <= z
      /\ \A i \in DOMAIN a : ~(z < i)
  BY <1>1, SMT
<1>3. Formed(q, mem, tags)
  BY RegistryFormed
<1>4. \A i \in DOMAIN q : Supported(q[i], t, next)
  BY DEF Elems
<1> HIDE DEF a, z
<1>5. ASSUME NEW i \in DOMAIN q, NEW n \in DOMAIN new, About(q[i], n, new)
      PROVE  n \in DOMAIN tags /\ About(q[i], n, tags)
  <2>1. CASE n \in DOMAIN tags
    BY <1>5, <2>1 DEF About, Brings, Behind
  <2>2. CASE n \notin DOMAIN tags
    <3>1. new[n].id = next
      BY <2>2 DEF Brings
    <3>2. Supported(q[i], t, next)
      BY <1>4
    <3> QED BY <1>5, <2>2, <3>1, <3>2, SMT DEF About, Supported
  <2> QED BY <2>1, <2>2
<1>6. \A i \in DOMAIN q : \A n \in DOMAIN tags : About(q[i], n, tags) => About(q[i], n, new)
  BY DEF About, Brings, Behind
<1>7. Ordered(a, mem, new)
  <2>1. ASSUME NEW i \in DOMAIN a, NEW j \in DOMAIN a, NEW n \in DOMAIN new,
               i < j, About(a[i], n, new), About(a[j], n, new)
        PROVE  GenOf(a[i]) <= GenOf(a[j])
    <3>1. i \in DOMAIN q /\ a[i] = q[i]
      BY <1>2, <2>1
    <3>2. n \in DOMAIN tags /\ About(q[i], n, tags)
      BY <1>5, <2>1, <3>1
    <3>3. CASE j \in DOMAIN q
      <4>1. a[j] = q[j] /\ About(q[j], n, tags)
        BY <1>2, <1>5, <2>1, <3>3
      <4> QED BY <2>1, <3>1, <3>2, <3>3, <4>1 DEF Pending, Ordered
    <3>4. CASE j = z
      <4>1. GenOf(a[j]) = new[n].gen
        BY <1>2, <2>1, <3>4 DEF Brings
      <4>2. GenOf(q[i]) \in Nat /\ GenOf(q[i]) <= tags[n].gen /\ tags[n].gen <= new[n].gen
        BY <1>3, <3>1, <3>2 DEF Formed, Brings, Behind
      <4>3. tags[n].gen \in Nat /\ new[n].gen \in Nat
        BY <1>3, <3>2 DEF Formed, Entry
      <4> QED BY <3>1, <4>1, <4>2, <4>3, SMT
    <3> QED BY <1>2, <3>3, <3>4
  <2>2. ASSUME NEW i \in DOMAIN a, NEW n \in DOMAIN mem, About(a[i], n, new)
        PROVE  mem[n].gen <= GenOf(a[i])
    <3>1. n \in DOMAIN tags /\ mem[n].gen <= tags[n].gen /\ n \in DOMAIN new
      BY DEF Behind, Brings
    <3>2. CASE i \in DOMAIN q
      BY <1>2, <1>5, <2>2, <3>1, <3>2 DEF Pending, Ordered
    <3>3. CASE i = z
      <4>1. GenOf(a[i]) = new[n].gen /\ tags[n].gen <= new[n].gen
        BY <1>2, <2>2, <3>1, <3>3 DEF Brings, Behind
      <4>2. mem[n].gen \in Nat /\ tags[n].gen \in Nat /\ new[n].gen \in Nat
        BY <1>3, <3>1 DEF Formed, Entry
      <4> QED BY <3>1, <4>1, <4>2, SMT
    <3> QED BY <1>2, <3>2, <3>3
  <2> QED BY <2>1, <2>2 DEF Ordered
<1>8. Brought(a, mem, new)
  <2> SUFFICES ASSUME NEW n \in DOMAIN new
               PROVE  \/ n \in DOMAIN mem /\ mem[n].gen = new[n].gen
                      \/ \E i \in DOMAIN a : About(a[i], n, new) /\ GenOf(a[i]) = new[n].gen
    BY DEF Brought
  <2>1. CASE About(e, n, new)
    BY <1>2, <2>1 DEF Brings
  <2>2. CASE ~About(e, n, new)
    <3>1. n \in DOMAIN tags /\ new[n] = tags[n]
      BY <2>2 DEF Brings, About
    <3>2. \/ n \in DOMAIN mem /\ mem[n].gen = tags[n].gen
          \/ \E i \in DOMAIN q : About(q[i], n, tags) /\ GenOf(q[i]) = tags[n].gen
      BY <3>1 DEF Pending, Brought
    <3> QED BY <1>2, <1>6, <3>1, <3>2
  <2> QED BY <2>1, <2>2
<1>9. CreatedFirst(a, mem, new)
  <2> SUFFICES ASSUME NEW n \in DOMAIN new \ DOMAIN mem
               PROVE  \E i \in DOMAIN a : /\ a[i].what = "created" /\ a[i].name = n
                                          /\ \A j \in DOMAIN a : About(a[j], n, new) => i <= j
    BY DEF CreatedFirst
  <2>1. CASE n \in DOMAIN tags
    <3>1. PICK i \in DOMAIN q : /\ q[i].what = "created" /\ q[i].name = n
                                /\ \A j \in DOMAIN q : About(q[j], n, tags) => i <= j
      BY <2>1 DEF Pending, CreatedFirst
    <3>2. \A j \in DOMAIN a : About(a[j], n, new) => i <= j
      BY <1>2, <1>5, <3>1
    <3> QED BY <1>2, <3>1, <3>2
  <2>2. CASE n \notin DOMAIN tags
    <3>1. e.what = "created" /\ e.name = n
      BY <2>2 DEF Brings
    <3>2. \A j \in DOMAIN a : About(a[j], n, new) => z <= j
      BY <1>2, <1>5, <2>2
    <3> QED BY <1>2, <3>1, <3>2
  <2> QED BY <2>1, <2>2
<1> QED BY <1>7, <1>8, <1>9 DEF Pending, a

-----------------------------------------------------------------------------
(* The steps of the writer *)

\* A step that leaves the registries and the effects alone (the callers'
\* steps, maintenance, replies between transactions).
LEMMA PublicationStays ==
  ASSUME PublicationInv, ram'.tags = ram.tags, disk'.tags = disk.tags, eff' = eff,
         \A t \in since' : t \in since \/ t.tags = disk.tags,
         (phase = "publish") <=> (phase' = "publish"),
         Open' => Open /\ txn'.t.tags = txn.t.tags
  PROVE  PublicationInv'
  BY DEF PublicationInv

\* A transaction opens on tables that memory matches (writer.rs writer_loop).
LEMMA PublicationBegins ==
  ASSUME PublicationInv, NEW due \in BOOLEAN, Begin(due)
  PROVE  PublicationInv'
<1>1. /\ phase = "idle" /\ phase' # "publish" /\ eff' = <<>> /\ txn'.t = disk
      /\ UNCHANGED <<disk, since, ram>>
  BY DEF Begin, store_vars
<1>2. Pending(eff', ram'.tags, txn'.t.tags)
  BY <1>1, NonePending DEF PublicationInv
<1> QED BY <1>1, <1>2 DEF PublicationInv

\* Applying an item collects its effect (queue.rs apply).
LEMMA PublicationCollects ==
  ASSUME RegistryInv, RegistryInv', PublicationInv, NEW kind, Apply(kind)
  PROVE  PublicationInv'
<1> DEFINE out == ApplyItem(Job, Item)
<1>1. /\ phase = "apply" /\ HasItem
      /\ ram' = out.ram /\ txn' = [txn EXCEPT !.t = out.t] /\ eff' = eff \o out.eff
      /\ phase' \in {"apply", "maintain", "commit"} /\ UNCHANGED <<disk, since>>
  BY DEF Apply
<1>2. Delivers(ram, txn.t, out)
  BY <1>1, ItemDelivers
<1>3. ram'.tags = ram.tags
  BY <1>1, ItemMemory
<1> HIDE DEF out
<1>4. txn'.t = out.t
  BY <1>1 DEF RegistryInv, OpenOK, Open
<1>5. /\ IsSeq(eff) /\ Registry(txn.t, ram.nextId) /\ ram.nextId \in Nat
      /\ \A n \in DOMAIN ram.tags : ram.tags[n] \in Entry
      /\ Behind(ram.tags, txn.t.tags)
      /\ \A x \in Elems(eff) : Supported(x, txn.t, ram.nextId)
      /\ Pending(eff, ram.tags, txn.t.tags)
  <2>1. ram.tags = disk.tags
    BY <1>1 DEF PublicationInv
  <2> QED BY <1>1, <2>1 DEF RegistryInv, MemoryOK, OpenOK, Open, PublicationInv
<1>6. \A n \in DOMAIN txn'.t.tags : txn'.t.tags[n] \in Entry
  BY <1>1 DEF RegistryInv, OpenOK, Open, Registry
<1>7. Pending(eff', ram.tags, txn'.t.tags)
  <2>1. CASE out.t.tags = txn.t.tags /\ out.eff = <<>>
    <3>1. eff' = eff
      BY <1>1, <1>5, <2>1, SMT DEF IsSeq
    <3> QED BY <1>4, <1>5, <2>1, <3>1
  <2>2. ASSUME NEW e, out.eff = <<e>>, Brings(e, txn.t.tags, out.t.tags, ram.nextId)
        PROVE  Pending(eff', ram.tags, txn'.t.tags)
    <3>1. eff' = Append(eff, e)
      BY <1>1, <1>5, <2>2, ConcatOne
    <3> QED BY <1>4, <1>5, <1>6, <2>2, <3>1, CollectOne
  <2> QED BY <1>2, <2>1, <2>2 DEF Delivers
<1>8. IsTable(txn'.t.tags)
  BY <1>1, <1>2, <1>4 DEF Delivers, PublicationInv, Open
<1> QED BY <1>1, <1>3, <1>7, <1>8 DEF PublicationInv

\* The committed tables are the ones the effects lead to (writer.rs
\* commit_batch).
LEMMA PublicationCommits ==
  ASSUME RegistryInv, PublicationInv, Commit
  PROVE  PublicationInv'
<1>1. /\ phase = "commit" /\ phase' = "publish" /\ UNCHANGED <<ram, eff>>
      /\ since' \in {since \cup {disk'}, {disk'}}
      /\ disk'.tags = txn.t.tags
  BY DEF Commit, RegistryInv, OpenOK, Open, Registry, Fields
<1> QED BY <1>1 DEF PublicationInv, Open

\* Publishing an effect (tags.rs insert, merge_generation).
LEMMA PublicationPublishes ==
  ASSUME RegistryInv, RegistryInv', PublicationInv, Publish
  PROVE  PublicationInv'
<1> DEFINE e == Head(eff)
           mem == ram.tags
           new == ram'.tags
           tags == disk.tags
<1>1. /\ phase = "publish" /\ phase' = "publish" /\ eff # <<>> /\ ram' = publish(ram, e)
      /\ eff' = Tail(eff) /\ UNCHANGED <<disk, since>>
  BY DEF Publish
<1>2. /\ IsSeq(eff) /\ Registry(disk, ram.nextId) /\ DOMAIN ram = RamFields
      /\ \A n \in DOMAIN mem : mem[n] \in Entry
      /\ \A n \in DOMAIN new : new[n] \in Entry
      /\ Behind(mem, tags) /\ Behind(new, tags)
      /\ \A x \in Elems(eff) : Supported(x, disk, ram.nextId)
      /\ Pending(eff, mem, tags)
  BY <1>1 DEF RegistryInv, MemoryOK, StoredOK, OpenOK, PublishOK, PublicationInv, RamFields
<1>3. Formed(eff, mem, tags)
  BY <1>2, RegistryFormed
<1>4. e = eff[1] /\ 1 \in DOMAIN eff
  BY <1>1, <1>2, TailAt, SMT
<1>5. Supported(e, disk, ram.nextId)
  BY <1>2, <1>4 DEF Elems
<1> HIDE DEF e
<1>6. ASSUME NEW n \in DOMAIN mem, About(e, n, tags) PROVE mem[n].gen <= GenOf(e)
  BY <1>2, <1>4, <1>6 DEF Pending, Ordered
<1>7. /\ IsTable(new) /\ DOMAIN mem \subseteq DOMAIN new
      /\ \A n \in DOMAIN new \ DOMAIN mem : e.what = "created" /\ e.name = n
      /\ e.what = "created" => e.name \in DOMAIN new
      /\ \A n \in DOMAIN new : About(e, n, tags) => new[n].gen = GenOf(e)
      /\ \A n \in DOMAIN mem : ~About(e, n, tags) => new[n] = mem[n]
  <2>1. CASE e.what = "created"
    <3>1. new = Put(mem, e.name, e.entry)
      BY <1>1, <1>2, <2>1 DEF publish, insert, RamFields
    <3>2. IsTable(new)
      BY <3>1 DEF IsTable, Put
    <3>3. /\ DOMAIN new = DOMAIN mem \cup {e.name} /\ new[e.name] = e.entry
          /\ \A n \in DOMAIN mem : n # e.name => new[n] = mem[n]
      BY <3>1 DEF Put
    <3> QED BY <2>1, <3>2, <3>3 DEF About, GenOf
  <2>2. CASE e.what = "raised"
    <3>1. new = merge_generation(mem, e.id, e.gen)
      BY <1>1, <1>2, <2>2 DEF publish, RamFields
    <3>2. IsTable(new) /\ DOMAIN new = DOMAIN mem
      BY <3>1 DEF IsTable, merge_generation
    <3>3. ASSUME NEW n \in DOMAIN mem, ~About(e, n, tags) PROVE new[n] = mem[n]
      <4>1. mem[n].id # e.id
        BY <1>2, <2>2, <3>3 DEF About, Behind
      <4> QED BY <3>1, <4>1 DEF merge_generation
    <3>4. ASSUME NEW n \in DOMAIN mem, About(e, n, tags) PROVE new[n].gen = GenOf(e)
      <4>1. mem[n].id = e.id /\ mem[n] \in Entry /\ GenOf(e) = e.gen
        BY <1>2, <2>2, <3>4 DEF About, Behind, GenOf
      <4>2. mem[n].gen <= e.gen
        BY <1>6, <3>4, <4>1
      <4>3. e.gen \in Nat
        BY <1>5, <2>2 DEF Supported
      <4>4. CASE mem[n].gen < e.gen
        BY <3>1, <4>1, <4>4 DEF merge_generation, Entry
      <4>5. CASE ~(mem[n].gen < e.gen)
        <5>1. new[n] = mem[n]
          BY <3>1, <4>5 DEF merge_generation
        <5> QED BY <4>1, <4>2, <4>3, <4>5, <5>1, SMT DEF Entry
      <4> QED BY <4>4, <4>5
    <3> QED BY <2>2, <3>2, <3>3, <3>4
  <2>3. CASE e.what = "epoch"
    <3>1. new = mem
      BY <1>1, <1>2, <2>3 DEF publish, RamFields
    <3> QED BY <2>3, <3>1 DEF About, PublicationInv
  <2> QED BY <1>5, <2>1, <2>2, <2>3 DEF Supported
<1>8. DOMAIN new \subseteq DOMAIN tags
  BY <1>2 DEF Behind
<1>9. Pending(eff', new, tags)
  <2> HIDE DEF mem, new, tags
  <2> QED BY <1>1, <1>2, <1>3, <1>4, <1>7, <1>8, PublishOne
<1> QED BY <1>1, <1>7, <1>9 DEF PublicationInv, Open

\* Once all is published, or nothing was committed, memory is the disk's.
LEMMA PublicationSettles ==
  ASSUME RegistryInv, PublicationInv, phase # "publish" \/ eff = <<>>,
         phase' \in {"idle", "sync", "full", "free"},
         ram'.tags = ram.tags, disk'.tags = disk.tags,
         \A t \in since' : t \in since \/ t.tags = disk.tags
  PROVE  PublicationInv'
<1>1. ram.tags = disk.tags
  <2>1. CASE phase # "publish"
    BY <2>1 DEF PublicationInv
  <2>2. CASE phase = "publish" /\ eff = <<>>
    <3>1. Formed(eff, ram.tags, disk.tags)
      BY <2>2, RegistryFormed DEF RegistryInv, MemoryOK, StoredOK, OpenOK, PublishOK
    <3> QED BY <2>2, <3>1, AllPublished DEF PublicationInv
  <2> QED BY <2>1, <2>2
<1> QED BY <1>1 DEF PublicationInv, Open

\* A restart loads memory from the disk (tags.rs load_from).
LEMMA PublicationRestarts ==
  ASSUME PublicationInv, NEW t, t = disk \/ t \in since, Restart(t)
  PROVE  PublicationInv'
<1>1. disk' = t /\ since' = {t} /\ ram'.tags = t.tags /\ phase' = "idle"
  BY DEF Restart, open
<1> QED BY <1>1 DEF PublicationInv, Open

-----------------------------------------------------------------------------
(* Memory matches the disk *)

\* Calls and the callers' own steps leave the tables, memory and the writer
\* alone (store.rs, read.rs).
LEMMA CallerLeaves ==
  ASSUME NEW c \in Clients, ClientStep(c) \/ CallStep(c)
  PROVE  UNCHANGED <<now, store_vars, writer_vars, faults>>
  BY DEF ClientStep, CallStep, LoadEpoch, Judge, Register, Resolve, Prepare, Submit,
         CallRead, CallStore, CallWrite

\* An empty store has nothing to publish.
LEMMA PublicationInit == Init => PublicationInv
  BY SMT DEF Init, PublicationInv, IsTable, open, EmptyTables, Empty, Open

\* Every step keeps what waits to be published in order.
LEMMA PublicationStep ==
  ASSUME RegistryInv, RegistryInv', PublicationInv, [Next]_vars
  PROVE  PublicationInv'
<1> USE DEF store_vars, writer_vars
<1>1. phase \notin {"publish", "apply", "maintain", "commit"} => eff = <<>>
  BY DEF RegistryInv, PublishOK, Open
<1>2. \A level : [ram EXCEPT !.pressure = level].tags = ram.tags
  BY DEF RegistryInv, MemoryOK
<1>3. CASE UNCHANGED <<disk, since, ram, phase, txn, eff>>
  BY <1>3, PublicationStays DEF Open
<1>4. ASSUME NEW c \in Clients, ClientStep(c) \/ CallStep(c) PROVE PublicationInv'
  BY <1>3, <1>4, CallerLeaves
<1>5. CASE WriterStep
  <2>1. ASSUME NEW due \in BOOLEAN, Begin(due) PROVE PublicationInv'
    BY <2>1, PublicationBegins
  <2>2. CASE \/ ApplySet \/ ApplyConditional \/ ApplyDelete \/ ApplyTouch \/ ApplyExpire
             \/ ApplyArithmetic \/ ApplyAppend \/ ApplyCreateTags \/ ApplyDeleteByTag
             \/ ApplyMergeTag \/ ApplyFlush \/ ApplySync
    BY <2>2, PublicationCollects DEF ApplySet, ApplyConditional, ApplyDelete, ApplyTouch,
         ApplyExpire, ApplyArithmetic, ApplyAppend, ApplyCreateTags, ApplyDeleteByTag,
         ApplyMergeTag, ApplyFlush, ApplySync
  <2>3. ASSUME NEW level \in Levels, Maintain(level) PROVE PublicationInv'
    <3>1. /\ phase = "maintain" /\ phase' = "commit" /\ UNCHANGED <<disk, since, eff>>
          /\ ram' = [ram EXCEPT !.pressure = level]
      BY <2>3 DEF Maintain
    <3>2. txn'.t.tags = txn.t.tags
      BY <2>3, MaintainKeeps DEF KeepsTables
    <3> QED BY <1>2, <3>1, <3>2, PublicationStays DEF Open
  <2>4. CASE Commit
    BY <2>4, PublicationCommits
  <2>5. CASE Publish
    BY <2>5, PublicationPublishes
  <2>6. CASE CommitPoisoned
    BY <2>6, PublicationSettles DEF CommitPoisoned, Abort, Discard
  <2>7. CASE Reply
    BY <2>7, PublicationSettles DEF Reply
  <2>8. CASE SyncEnv
    BY <2>8, PublicationSettles DEF SyncEnv
  <2>9. CASE Refuse
    BY <1>2, <2>9, PublicationSettles DEF Refuse
  <2>10. CASE FreeSpaceFails
    BY <2>10, PublicationSettles DEF FreeSpaceFails
  <2>11. ASSUME NEW b \in FreeBudgets, FreeSpace(b) PROVE PublicationInv'
    <3>1. /\ phase = "free" /\ phase' = "idle" /\ UNCHANGED ram
          /\ since' \in {since \cup {disk'}, {disk'}}
      BY <2>11 DEF FreeSpace
    <3>2. disk'.tags = disk.tags
      BY <2>11, FreeSpaceKeeps DEF KeepsTables
    <3> QED BY <3>1, <3>2, PublicationSettles
  <2> QED BY <1>5, <2>1, <2>2, <2>3, <2>4, <2>5, <2>6, <2>7, <2>8, <2>9, <2>10, <2>11 DEF WriterStep
<1>6. CASE Failure
  <2>1. CASE BeginFails
    BY <2>1, PublicationSettles DEF BeginFails, Abort, Discard
  <2>2. CASE SyncFails
    BY <2>2, PublicationSettles DEF SyncFails
  <2>3. ASSUME NEW full \in BOOLEAN, CommitFails(full) PROVE PublicationInv'
    BY <2>3, PublicationSettles DEF CommitFails, Abort, Discard
  <2>4. ASSUME NEW full \in BOOLEAN, ApplyFails(full) PROVE PublicationInv'
    <3>1. /\ phase = "apply" /\ HasItem /\ ram' \in {ram, ApplyItem(Job, Item).ram}
          /\ phase' \in {"idle", "full"} /\ UNCHANGED <<disk, since>>
      BY <2>4 DEF ApplyFails, Abort, Discard
    <3>2. ram'.tags = ram.tags
      BY <3>1, ItemMemory
    <3> QED BY <3>1, <3>2, PublicationSettles
  <2>5. ASSUME NEW level \in Levels, MaintainFails(level) PROVE PublicationInv'
    <3>1. /\ phase = "maintain" /\ phase' = "commit" /\ UNCHANGED <<disk, since, eff>>
          /\ txn' = [txn EXCEPT !.poisoned = TRUE]
          /\ ram' \in {ram, [ram EXCEPT !.pressure = level]}
      BY <2>5 DEF MaintainFails
    <3>2. txn'.t = txn.t
      BY <3>1 DEF RegistryInv, OpenOK, Open
    <3> QED BY <1>2, <3>1, <3>2, PublicationStays DEF Open
  <2>6. CASE Crash
    BY <2>6, PublicationRestarts DEF Crash
  <2>7. CASE PowerLoss
    BY <2>7, PublicationRestarts DEF PowerLoss
  <2> QED BY <1>6, <2>1, <2>2, <2>3, <2>4, <2>5, <2>6, <2>7 DEF Failure
<1>7. CASE Tick
  BY <1>3, <1>7 DEF Tick
<1>8. CASE UNCHANGED vars
  BY <1>3, <1>8 DEF vars
<1> QED BY <1>4, <1>5, <1>6, <1>7, <1>8 DEF Next

\* What is not in memory waits to be published, in order (queue.rs PostCommit).
THEOREM EffectsAreEnough == Spec => [](RegistryInv /\ PublicationInv)
<1>1. RegistryInv /\ PublicationInv /\ [Next]_vars => (RegistryInv /\ PublicationInv)'
  BY RegistryStep, PublicationStep
<1> QED BY <1>1, RegistryInit, PublicationInit, PTL DEF Spec

\* Outside the publication of a committed batch, memory is exactly the disk's
\* registry and epoch, whatever was batched, failed, crashed or was lost with
\* the power ("a failure leaves RAM matching disk", queue.rs).
THEOREM MemoryMatches == Spec => []RamMatchesDisk
<1>1. RegistryInv /\ PublicationInv => RamMatchesDisk
  BY DEF RegistryInv, PublishOK, PublicationInv, RamMatchesDisk
<1> QED BY <1>1, EffectsAreEnough, PTL

-----------------------------------------------------------------------------
(* What each operation leaves in the records (apply.rs, tags.rs) *)

\* The records the operation leaves are grounded, and no job has changed.
Sound(t, u, tags, epoch, l) == MainOK(u, tags, epoch, l) /\ u.jobs = t.jobs

\* A record is grounded by its tags, its author and its epoch alone.
LEMMA GroundedAlike ==
  ASSUME NEW k, NEW x, NEW y, NEW tags, NEW epoch, NEW l, Grounded(k, x, tags, epoch, l),
         y.tags = x.tags, y.ver = x.ver, y.epoch \in Nat, y.epoch <= epoch
  PROVE  Grounded(k, y, tags, epoch, l)
  BY DEF Grounded

\* A record without tags is grounded.
LEMMA UntaggedGrounded ==
  ASSUME NEW k, NEW y, NEW tags, NEW epoch, NEW l,
         y.tags = Empty, y.epoch \in Nat, y.epoch <= epoch
  PROVE  Grounded(k, y, tags, epoch, l)
  BY DEF Grounded, Empty

\* Storing a grounded write (apply.rs apply_set).
LEMMA SetSound ==
  ASSUME NEW r, NEW t, NEW w, NEW p, NEW tags, NEW epoch, NEW l, DOMAIN t = Fields,
         MainOK(t, tags, epoch, l), Grounded(p.key, p, tags, epoch, l)
  PROVE  Sound(t, apply_set(r, t, w, p).t, tags, epoch, l)
<1>1. PICK u : u = apply_set(r, t, w, p).t
  OBVIOUS
<1> DEFINE c == next_cas(r, t)
           at == IF p.exp = Deferred THEN deadline_after(w, p.ttl, displaced(r, t, w, p.key).deadline)
                 ELSE p.exp
<1>2. DOMAIN c.t = Fields /\ c.t.main = t.main /\ c.t.jobs = t.jobs
  BY DEF next_cas, Fields
<1>3. PICK record : record = [epoch |-> p.epoch, exp |-> at, cas |-> c.cas, tags |-> p.tags,
                              val |-> p.val, ver |-> p.ver]
  OBVIOUS
<1>4. \E e, x : u = [c.t EXCEPT !.main = Put(@, p.key, record), !.exp = e, !.tagidx = x]
  BY <1>1, <1>3 DEF apply_set
<1> HIDE DEF c, at
<1>5. /\ u.main = Put(t.main, p.key, record) /\ u.jobs = t.jobs
      /\ record.tags = p.tags /\ record.ver = p.ver /\ record.epoch = p.epoch
  BY <1>2, <1>3, <1>4, SMT DEF Fields
<1>6. Grounded(p.key, record, tags, epoch, l)
  BY <1>5, GroundedAlike DEF Grounded
<1>7. \A k \in DOMAIN u.main : Grounded(k, u.main[k], tags, epoch, l)
  BY <1>5, <1>6 DEF Put, MainOK
<1> QED BY <1>1, <1>5, <1>7 DEF Sound, MainOK

\* Rewriting a record in place keeps its author (apply.rs).
LEMMA RewriteSound ==
  ASSUME NEW r, NEW t, NEW w, NEW k, NEW refs, NEW e, NEW at, NEW val, NEW ver,
         NEW tags, NEW epoch, NEW l, DOMAIN t = Fields, MainOK(t, tags, epoch, l),
         e \in Nat, e <= epoch,
         refs = Empty \/ (k \in DOMAIN t.main /\ refs = t.main[k].tags /\ ver = t.main[k].ver)
  PROVE  Sound(t, rewrite(r, t, w, k, refs, e, at, val, ver).t, tags, epoch, l)
<1>1. PICK p : p = [key |-> k, tags |-> refs, epoch |-> e, exp |-> at,
                    ttl |-> [how |-> "keep", secs |-> 0], val |-> val, ver |-> ver]
  OBVIOUS
<1>2. p.key = k /\ p.tags = refs /\ p.epoch = e /\ p.ver = ver
  BY <1>1
<1>3. Grounded(k, p, tags, epoch, l)
  <2>1. CASE refs = Empty
    BY <1>2, <2>1, UntaggedGrounded
  <2>2. CASE k \in DOMAIN t.main /\ refs = t.main[k].tags /\ ver = t.main[k].ver
    BY <1>2, <2>2, GroundedAlike DEF MainOK
  <2> QED BY <2>1, <2>2
<1>4. rewrite(r, t, w, k, refs, e, at, val, ver) = apply_set(r, t, w, p)
  BY <1>1 DEF rewrite
<1> QED BY <1>2, <1>3, <1>4, SetSound

\* Nothing changes.
LEMMA NothingSound ==
  ASSUME NEW r, NEW t, NEW res, NEW n, NEW tags, NEW epoch, NEW l, MainOK(t, tags, epoch, l)
  PROVE  Sound(t, Nothing(r, t, res, n).t, tags, epoch, l)
  BY DEF Nothing, Sound

\* A record is removed (apply.rs apply_delete).
LEMMA DeleteSound ==
  ASSUME NEW r, NEW t, NEW w, NEW k, NEW tags, NEW epoch, NEW l, DOMAIN t = Fields,
         MainOK(t, tags, epoch, l)
  PROVE  Sound(t, apply_delete(r, t, w, k).t, tags, epoch, l)
<1>1. PICK u : u = apply_delete(r, t, w, k).t
  OBVIOUS
<1>2. u.main = Delete(t.main, {k}) /\ u.jobs = t.jobs
  BY <1>1 DEF apply_delete, Nothing, Fields
<1>3. \A x \in DOMAIN u.main : Grounded(x, u.main[x], tags, epoch, l)
  BY <1>2 DEF Delete, MainOK
<1> QED BY <1>1, <1>2, <1>3 DEF Sound, MainOK

\* TOUCH (apply.rs apply_touch).
LEMMA TouchSound ==
  ASSUME NEW r, NEW t, NEW w, NEW k, NEW secs, NEW tags, NEW epoch, NEW l, DOMAIN t = Fields,
         MainOK(t, tags, epoch, l)
  PROVE  Sound(t, apply_touch(r, t, w, k, secs).t, tags, epoch, l)
<1>1. CASE ~live_in(r, t, w, k)
  BY <1>1, NothingSound DEF apply_touch
<1>2. CASE live_in(r, t, w, k)
  <2>1. k \in DOMAIN t.main
    BY <1>2 DEF live_in
  <2>2. t.main[k].epoch \in Nat /\ t.main[k].epoch <= epoch
    BY <2>1 DEF MainOK, Grounded
  <2>3. PICK at : apply_touch(r, t, w, k, secs).t =
                    rewrite(r, t, w, k, t.main[k].tags, t.main[k].epoch, at, t.main[k].val, t.main[k].ver).t
    BY <1>2 DEF apply_touch, Applied
  <2> QED BY <2>1, <2>2, <2>3, RewriteSound
<1> QED BY <1>1, <1>2

\* A conditional store, refused or made; a concatenation takes the epoch in
\* memory (apply.rs apply_conditional_set).
LEMMA ConditionalSound ==
  ASSUME NEW r, NEW t, NEW w, NEW p, NEW tags, NEW epoch, NEW l, DOMAIN t = Fields,
         MainOK(t, tags, epoch, l), DOMAIN p = PreparedFields, Grounded(p.key, p, tags, epoch, l),
         r.epoch = epoch, epoch \in Nat
  PROVE  Sound(t, apply_conditional_set(r, t, w, p).t, tags, epoch, l)
<1> DEFINE refusal == Refusal(p, live_in(r, t, w, p.key), t.main[p.key])
<1>1. CASE refusal # "none"
  BY <1>1, NothingSound DEF apply_conditional_set
<1>2. CASE refusal = "none"
  <2>1. PICK q : /\ q = p \/ q = Concatenated(r, t.main[p.key], p)
                 /\ apply_conditional_set(r, t, w, p).t = apply_set(r, t, w, q).t
    BY <1>2 DEF apply_conditional_set, WriteSet, Applied
  <2>2. Grounded(q.key, q, tags, epoch, l)
    <3>1. CASE q = Concatenated(r, t.main[p.key], p)
      <4>1. q.key = p.key /\ q.tags = p.tags /\ q.ver = p.ver /\ q.epoch = r.epoch
        BY <3>1 DEF Concatenated, PreparedFields
      <4> QED BY <4>1, GroundedAlike, SMT
    <3> QED BY <2>1, <3>1
  <2> QED BY <2>1, <2>2, SetSound
<1> QED BY <1>1, <1>2

\* EXPIRE in each of its outcomes (apply.rs apply_expire).
LEMMA ExpireSound ==
  ASSUME NEW r, NEW t, NEW w, NEW k, NEW ttl, NEW guard, NEW tags, NEW epoch, NEW l,
         DOMAIN t = Fields, MainOK(t, tags, epoch, l)
  PROVE  Sound(t, apply_expire(r, t, w, k, ttl, guard).t, tags, epoch, l)
<1>1. CASE ~live_in(r, t, w, k)
  BY <1>1, NothingSound DEF apply_expire
<1>2. CASE live_in(r, t, w, k)
  <2>1. k \in DOMAIN t.main
    BY <1>2 DEF live_in
  <2>2. t.main[k].epoch \in Nat /\ t.main[k].epoch <= epoch
    BY <2>1 DEF MainOK, Grounded
  <2>3. \/ \E res : apply_expire(r, t, w, k, ttl, guard) = Nothing(r, t, res, 0)
        \/ apply_expire(r, t, w, k, ttl, guard) = apply_delete(r, t, w, k)
        \/ \E at : apply_expire(r, t, w, k, ttl, guard).t =
                     rewrite(r, t, w, k, t.main[k].tags, t.main[k].epoch, at, t.main[k].val, t.main[k].ver).t
    BY <1>2 DEF apply_expire, Applied
  <2> QED BY <2>1, <2>2, <2>3, RewriteSound, DeleteSound, NothingSound
<1> QED BY <1>1, <1>2

\* An increment, and an append, of a live record or of none (apply.rs
\* apply_arithmetic, apply_append).
LEMMA UpdateSound ==
  ASSUME NEW r, NEW t, NEW w, NEW k, NEW a, NEW b, NEW c, NEW ver, NEW tags, NEW epoch, NEW l,
         DOMAIN t = Fields, MainOK(t, tags, epoch, l), r.epoch = epoch, epoch \in Nat
  PROVE  /\ Sound(t, apply_arithmetic(r, t, w, k, a, b, c, ver).t, tags, epoch, l)
         /\ Sound(t, apply_append(r, t, w, k, a, ver).t, tags, epoch, l)
<1>1. live_in(r, t, w, k) => k \in DOMAIN t.main
  BY DEF live_in
<1>2. r.epoch \in Nat /\ r.epoch <= epoch
  BY SMT
<1> DEFINE refs == IF live_in(r, t, w, k) THEN t.main[k].tags ELSE Empty
           by == IF live_in(r, t, w, k) THEN t.main[k].ver ELSE ver
<1>3. \A at, val : Sound(t, rewrite(r, t, w, k, refs, r.epoch, at, val, by).t, tags, epoch, l)
  BY <1>1, <1>2, RewriteSound
<1>4. \/ \E res, n : apply_arithmetic(r, t, w, k, a, b, c, ver) = Nothing(r, t, res, n)
      \/ \E at, val : apply_arithmetic(r, t, w, k, a, b, c, ver).t =
                        rewrite(r, t, w, k, refs, r.epoch, at, val, by).t
  BY DEF apply_arithmetic, Applied
<1>5. \/ \E res, n : apply_append(r, t, w, k, a, ver) = Nothing(r, t, res, n)
      \/ \E at, val : apply_append(r, t, w, k, a, ver).t =
                        rewrite(r, t, w, k, refs, r.epoch, at, val, by).t
  BY DEF apply_append, Applied
<1> HIDE DEF refs, by
<1> QED BY <1>3, <1>4, <1>5, NothingSound

\* Registering a name leaves the records and the jobs alone (tags.rs
\* apply_create).
LEMMA CreateSound ==
  ASSUME NEW r, NEW t, NEW name, NEW start, NEW tags, NEW epoch, NEW l,
         DOMAIN t = Fields, MainOK(t, tags, epoch, l)
  PROVE  Sound(t, apply_create_tag(r, t, name, start).t, tags, epoch, l)
<1>1. PICK u : u = apply_create_tag(r, t, name, start).t
  OBVIOUS
<1>2. u.main = t.main /\ u.jobs = t.jobs
  BY <1>1 DEF apply_create_tag, Nothing, Fields
<1> QED BY <1>1, <1>2 DEF Sound, MainOK

\* A job stays within a registry that grows.
LEMMA TargetsGrow ==
  ASSUME NEW t, NEW u, TargetsOK(t), u.jobs = t.jobs, Behind(t.tags, u.tags),
         \A n \in DOMAIN t.tags : t.tags[n] \in Entry,
         \A n \in DOMAIN u.tags : u.tags[n] \in Entry
  PROVE  TargetsOK(u)
<1> SUFFICES ASSUME NEW id \in DOMAIN t.jobs
             PROVE  \E n \in DOMAIN u.tags : u.tags[n].id = id /\ t.jobs[id].target <= u.tags[n].gen
  BY DEF TargetsOK
<1>1. PICK n \in DOMAIN t.tags : t.tags[n].id = id /\ t.jobs[id].target <= t.tags[n].gen
  BY DEF TargetsOK
<1>2. t.jobs[id].target \in Nat /\ t.tags[n].gen \in Nat
  BY DEF TargetsOK, Entry
<1>3. n \in DOMAIN u.tags /\ u.tags[n].id = id /\ t.tags[n].gen <= u.tags[n].gen /\ u.tags[n].gen \in Nat
  BY <1>1 DEF Behind, Entry
<1> QED BY <1>1, <1>2, <1>3, SMT

\* A raised generation leaves the records alone and queues its tag's
\* reclamation up to it (tags.rs apply_merge, reclaim.rs).
LEMMA MergeSound ==
  ASSUME NEW r, NEW t, NEW name, NEW gen \in Nat, NEW tags, NEW epoch, NEW l,
         DOMAIN r = RamFields, r.nextId \in Nat, Registry(t, r.nextId),
         MainOK(t, tags, epoch, l), TargetsOK(t)
  PROVE  LET u == apply_merge_tag(r, t, name, gen).t IN MainOK(u, tags, epoch, l) /\ TargetsOK(u)
<1>1. PICK out : out = apply_merge_tag(r, t, name, gen)
  OBVIOUS
<1>2. Advances(r, t, out)
  BY <1>1, MergeAdvances
<1>3. /\ Behind(t.tags, out.t.tags) /\ DOMAIN t = Fields
      /\ \A n \in DOMAIN t.tags : t.tags[n] \in Entry
      /\ \A n \in DOMAIN out.t.tags : out.t.tags[n] \in Entry
  BY <1>2 DEF Advances, Registry
<1>4. CASE Sound(t, out.t, tags, epoch, l)
  BY <1>1, <1>3, <1>4, TargetsGrow DEF Sound
<1>5. CASE name \notin DOMAIN t.tags
  BY <1>1, <1>3, <1>4, <1>5, CreateSound DEF apply_merge_tag
<1>6. CASE name \in DOMAIN t.tags /\ gen <= t.tags[name].gen
  BY <1>1, <1>4, <1>6, NothingSound DEF apply_merge_tag
<1>7. CASE name \in DOMAIN t.tags /\ ~(gen <= t.tags[name].gen)
  <2>1. PICK id : id = t.tags[name].id
    OBVIOUS
  <2>2. /\ out.t.main = t.main
        /\ out.t.tags = Put(t.tags, name, [id |-> id, gen |-> gen])
        /\ out.t.jobs = Put(t.jobs, id, [target |-> gen, cursor |-> NoCursor])
    BY <1>1, <1>3, <1>7, <2>1 DEF apply_merge_tag, Fields
  <2>3. MainOK(out.t, tags, epoch, l)
    BY <2>2 DEF MainOK
  <2>4. name \in DOMAIN out.t.tags /\ out.t.tags[name].id = id /\ out.t.tags[name].gen = gen
    BY <2>2, SMT DEF Put
  <2>5. PICK v : v = [t EXCEPT !.tags = out.t.tags]
    OBVIOUS
  <2>6. v.tags = out.t.tags /\ v.jobs = t.jobs
    BY <1>3, <2>5 DEF Fields
  <2>7. TargetsOK(v)
    BY <1>3, <2>6, TargetsGrow
  <2>8. ASSUME NEW i \in DOMAIN out.t.jobs
        PROVE  /\ DOMAIN out.t.jobs[i] = {"target", "cursor"} /\ out.t.jobs[i].target \in Nat
               /\ \E n \in DOMAIN out.t.tags :
                    out.t.tags[n].id = i /\ out.t.jobs[i].target <= out.t.tags[n].gen
    <3>1. CASE i = id
      <4>1. out.t.jobs[i] = [target |-> gen, cursor |-> NoCursor]
        BY <2>2, <3>1 DEF Put
      <4>2. DOMAIN out.t.jobs[i] = {"target", "cursor"} /\ out.t.jobs[i].target = gen
        BY <4>1, SMT
      <4> QED BY <2>4, <3>1, <4>2, SMT
    <3>2. CASE i # id
      <4>1. i \in DOMAIN t.jobs /\ out.t.jobs[i] = t.jobs[i]
        BY <2>2, <3>2 DEF Put
      <4> QED BY <2>6, <2>7, <4>1, SMT DEF TargetsOK
    <3> QED BY <3>1, <3>2
  <2>9. TargetsOK(out.t)
    BY <2>8 DEF TargetsOK
  <2> QED BY <1>1, <2>3, <2>9
<1> QED BY <1>5, <1>6, <1>7

\* An invalidation raises a generation (tags.rs apply_delete_by_tag).
LEMMA DeleteByTagSound ==
  ASSUME NEW r, NEW t, NEW name, NEW tags, NEW epoch, NEW l,
         DOMAIN r = RamFields, r.nextId \in Nat, Registry(t, r.nextId),
         MainOK(t, tags, epoch, l), TargetsOK(t)
  PROVE  LET u == apply_delete_by_tag(r, t, name).t IN MainOK(u, tags, epoch, l) /\ TargetsOK(u)
<1>1. PICK out : out = apply_delete_by_tag(r, t, name)
  OBVIOUS
<1>2. CASE out.t = t
  BY <1>1, <1>2
<1>3. CASE name \notin DOMAIN t.tags
  BY <1>1, <1>2, <1>3 DEF apply_delete_by_tag, Nothing
<1>4. CASE name \in DOMAIN t.tags /\ t.tags[name].gen = U64Max
  BY <1>1, <1>2, <1>4 DEF apply_delete_by_tag, Nothing
<1>5. CASE name \in DOMAIN t.tags /\ t.tags[name].gen # U64Max
  <2>1. t.tags[name].gen + 1 \in Nat
    BY <1>5, SMT DEF Registry, Entry
  <2>2. PICK m : m = apply_merge_tag(r, t, name, t.tags[name].gen + 1)
    OBVIOUS
  <2>3. out = [m EXCEPT !.res = "invalidated"]
    BY <1>1, <1>5, <2>2 DEF apply_delete_by_tag
  <2>4. DOMAIN m = {"ram", "t", "res", "n", "eff"}
    BY <2>2 DEF apply_merge_tag, apply_create_tag, Nothing
  <2>5. out.t = m.t
    BY <2>3, <2>4
  <2> QED BY <1>1, <2>1, <2>2, <2>5, MergeSound
<1> QED BY <1>3, <1>4, <1>5

\* A flush leaves no record and no job (apply.rs apply_flush).
LEMMA FlushSound ==
  ASSUME NEW r, NEW t, NEW tags, NEW epoch, NEW l, DOMAIN t = Fields
  PROVE  LET u == apply_flush(r, t).t IN MainOK(u, tags, epoch, l) /\ TargetsOK(u)
<1>1. PICK u : u = apply_flush(r, t).t
  OBVIOUS
<1>2. u.main = Empty /\ u.jobs = Empty
  BY <1>1 DEF apply_flush, Fields
<1> QED BY <1>1, <1>2 DEF MainOK, TargetsOK, Empty

\* Every operation on records keeps them grounded (queue.rs apply).
LEMMA RecordSound ==
  ASSUME RegistryInv, CallsInv, phase = "apply", HasItem, Job.kind \in RecordKinds,
         MainOK(txn.t, ram.tags, ram.epoch, log)
  PROVE  Sound(txn.t, ApplyItem(Job, Item).t, ram.tags, ram.epoch, log)
<1>1. DOMAIN txn.t = Fields /\ ram.epoch \in Nat
  BY DEF RegistryInv, MemoryOK, OpenOK, Open, Registry
<1>2. Job.kind \in {"Set", "ConditionalSet"} =>
        DOMAIN Item = PreparedFields /\ Grounded(Item.key, Item, ram.tags, ram.epoch, log)
  <2>1. Job \in Elems(batch) /\ Len(acc) + 1 \in DOMAIN Job.items
    BY DEF HasItem, Job, Elems
  <2>2. JobFor(Job, cl[Job.client], ram.tags, ram.epoch, log)
    BY <2>1 DEF CallsInv
  <2> QED BY <2>1, <2>2 DEF JobFor, Item
<1> HIDE DEF Job, Item
<1>3. CASE Job.kind = "Set"
  <2>1. ApplyItem(Job, Item).t = apply_set(ram, txn.t, now, Item).t
    BY <1>3 DEF ApplyItem, WriteSet, Applied
  <2> QED BY <1>1, <1>2, <1>3, <2>1, SetSound
<1>4. CASE Job.kind = "ConditionalSet"
  BY <1>1, <1>2, <1>4, ConditionalSound DEF ApplyItem
<1>5. CASE Job.kind = "Delete"
  BY <1>1, <1>5, DeleteSound DEF ApplyItem
<1>6. CASE Job.kind = "Touch"
  BY <1>1, <1>6, TouchSound DEF ApplyItem
<1>7. CASE Job.kind = "Expire"
  BY <1>1, <1>7, ExpireSound DEF ApplyItem
<1>8. CASE Job.kind = "Arithmetic"
  BY <1>1, <1>8, UpdateSound, SMT DEF ApplyItem
<1>9. CASE Job.kind = "Append"
  BY <1>1, <1>9, UpdateSound DEF ApplyItem
<1>10. CASE Job.kind = "Sync"
  BY <1>10, NothingSound DEF ApplyItem
<1> QED BY <1>3, <1>4, <1>5, <1>6, <1>7, <1>8, <1>9, <1>10 DEF RecordKinds

\* Every operation keeps the records grounded and the jobs within the
\* registry (queue.rs apply).
LEMMA ItemSound ==
  ASSUME RegistryInv, CallsInv, phase = "apply", HasItem,
         MainOK(txn.t, ram.tags, ram.epoch, log), TargetsOK(txn.t)
  PROVE  LET u == ApplyItem(Job, Item).t IN MainOK(u, ram.tags, ram.epoch, log) /\ TargetsOK(u)
<1>1. /\ DOMAIN ram = RamFields /\ ram.nextId \in Nat
      /\ Registry(txn.t, ram.nextId) /\ DOMAIN txn.t = Fields
  BY DEF RegistryInv, MemoryOK, OpenOK, RamFields, Open, Registry
<1>2. JobOK(Job)
  BY DEF RegistryInv, JobsOK, HasItem, Job, Elems
<1>3. Job.kind \in {"CreateTags", "MergeTag"} => Item.gen \in Nat
  BY <1>2 DEF JobOK, HasItem, Item
<1>4. ASSUME Job.kind \in RecordKinds
      PROVE  LET u == ApplyItem(Job, Item).t IN MainOK(u, ram.tags, ram.epoch, log) /\ TargetsOK(u)
  <2>1. PICK out : out = ApplyItem(Job, Item)
    OBVIOUS
  <2>2. Silent(ram, txn.t, out) /\ Sound(txn.t, out.t, ram.tags, ram.epoch, log)
    BY <1>4, <2>1, ItemSilent, RecordSound
  <2>3. out.t.jobs = txn.t.jobs /\ out.t.tags = txn.t.tags
    BY <2>2 DEF Silent, Keeps, Sound
  <2> QED BY <2>1, <2>2, <2>3 DEF Sound, TargetsOK
<1> HIDE DEF Job, Item
<1>5. CASE Job.kind = "CreateTags"
  <2>1. PICK out : out = apply_create_tag(ram, txn.t, Item.name, Item.gen)
    OBVIOUS
  <2>2. Sound(txn.t, out.t, ram.tags, ram.epoch, log) /\ Advances(ram, txn.t, out)
    BY <1>1, <1>3, <1>5, <2>1, CreateSound, CreateAdvances
  <2>3. TargetsOK(out.t)
    BY <1>1, <2>2, TargetsGrow DEF Sound, Advances, Registry
  <2> QED BY <1>5, <2>1, <2>2, <2>3 DEF ApplyItem, Sound
<1>6. CASE Job.kind = "DeleteByTag"
  BY <1>1, <1>6, DeleteByTagSound DEF ApplyItem
<1>7. CASE Job.kind = "MergeTag"
  BY <1>1, <1>3, <1>7, MergeSound DEF ApplyItem
<1>8. CASE Job.kind = "Flush"
  BY <1>1, <1>8, FlushSound DEF ApplyItem
<1> QED BY <1>2, <1>4, <1>5, <1>6, <1>7, <1>8 DEF JobOK, WriteOps, RecordKinds

-----------------------------------------------------------------------------
(* What maintenance removes (expiry.rs, reclaim.rs) *)

SameTarget(job, new) ==
  DOMAIN job = {"target", "cursor"} => DOMAIN new = {"target", "cursor"} /\ new.target = job.target

\* Records and jobs have only gone.
Shrinks(t, u) ==
  /\ DOMAIN u = Fields /\ u.tags = t.tags /\ u.epoch = t.epoch
  /\ DOMAIN u.main \subseteq DOMAIN t.main /\ \A k \in DOMAIN u.main : u.main[k] = t.main[k]
  /\ DOMAIN u.jobs \subseteq DOMAIN t.jobs
  /\ \A id \in DOMAIN u.jobs : SameTarget(t.jobs[id], u.jobs[id])

\* What is left is as sound as it was.
LEMMA ShrinksSound ==
  ASSUME NEW t, NEW u, NEW tags, NEW epoch, NEW l, Shrinks(t, u),
         MainOK(t, tags, epoch, l), TargetsOK(t)
  PROVE  MainOK(u, tags, epoch, l) /\ TargetsOK(u)
<1>1. MainOK(u, tags, epoch, l)
  BY DEF Shrinks, MainOK
<1>2. TargetsOK(u)
  BY SMT DEF Shrinks, TargetsOK, SameTarget
<1> QED BY <1>1, <1>2

\* Two shrinking steps of a maintenance pass are one (writer.rs commit_batch:
\* sweep, reclamation and eviction in turn).
LEMMA ShrinksTrans ==
  ASSUME NEW t, NEW u, NEW v, Shrinks(t, u), Shrinks(u, v)
  PROVE  Shrinks(t, v)
  BY DEF Shrinks, SameTarget

\* The sweep takes expired records only; eviction takes any (expiry.rs
\* drain_expiry_index).
LEMMA DrainShrinks ==
  ASSUME NEW t, NEW w, NEW budget, NEW anything \in BOOLEAN, DOMAIN t = Fields
  PROVE  LET u == drain_expiry_index(t, w, budget, anything).t
         IN  /\ Shrinks(t, u)
             /\ ~anything => \A k \in DOMAIN t.main \ DOMAIN u.main : is_expired(t.main[k], w)
<1> DEFINE victims == FirstRows({row \in DOMAIN t.exp : anything \/ row[1] <= w}, budget)
           taken   == {t.exp[row] : row \in {v \in victims :
                        Current(t, v) /\ (anything \/ is_expired(t.main[t.exp[v]], w))}}
<1>1. PICK u : u = drain_expiry_index(t, w, budget, anything).t
  OBVIOUS
<1>2. PICK e, x : u = [t EXCEPT !.main = Delete(@, taken), !.exp = e, !.tagidx = x]
  BY <1>1 DEF drain_expiry_index
<1>3. ~anything => \A k \in taken : is_expired(t.main[k], w)
  OBVIOUS
<1> HIDE DEF victims, taken
<1>4. DOMAIN u = Fields /\ u.main = Delete(t.main, taken) /\ u.jobs = t.jobs /\ u.tags = t.tags
      /\ u.epoch = t.epoch
  BY <1>2 DEF Fields
<1>5. Shrinks(t, u)
  BY <1>4 DEF Shrinks, Delete, SameTarget
<1>6. DOMAIN t.main \ DOMAIN u.main \subseteq taken
  BY <1>4 DEF Delete
<1> QED BY <1>1, <1>3, <1>5, <1>6

\* A set of tag ids has a lowest one.
LEMMA LowestId ==
  ASSUME NEW ids, ids \subseteq Nat, ids # {}
  PROVE  \E i \in ids : \A j \in ids : i <= j
<1>1. PICK i \in ids : \A j \in ids : ~(<<j, i>> \in OpToRel(<, Nat))
  BY NatLessThanWellFounded, WFMin
<1>2. \A j \in ids : ~(j < i)
  BY <1>1 DEF OpToRel
<1>3. ASSUME NEW j \in ids PROVE i <= j
  <2>1. i \in Nat /\ j \in Nat /\ ~(j < i)
    BY <1>2
  <2> QED BY <2>1, SMT
<1> QED BY <1>3

\* Reclamation takes records that lost their tag before the job's target, or
\* that memory knows to be dead (reclaim.rs reclaim_step).
LEMMA ReclaimShrinks ==
  ASSUME NEW r, NEW t, NEW w, NEW budget, DOMAIN t = Fields, DOMAIN t.jobs # {},
         DOMAIN t.jobs \subseteq Nat
  PROVE  LET u == reclaim_step(r, t, w, budget).t
         IN  /\ Shrinks(t, u)
             /\ \A k \in DOMAIN t.main \ DOMAIN u.main :
                  \/ ~is_alive(t.main[k], w, r.epoch, r.tags)
                  \/ \E id \in DOMAIN t.jobs \cap DOMAIN t.main[k].tags :
                       t.main[k].tags[id] < t.jobs[id].target
<1> DEFINE id == CHOOSE i \in DOMAIN t.jobs : \A j \in DOMAIN t.jobs : i <= j
           job == t.jobs[id]
           rows == FirstRows({row \in DOMAIN t.tagidx : row[1] = id /\ row[2] > job.cursor}, budget)
           litter(row) == t.tagidx[row] \notin DOMAIN t.main
                          \/ id \notin DOMAIN t.main[t.tagidx[row]].tags
           gone == {t.tagidx[row] : row \in {x \in rows : ~litter(x) /\
                      (Doomed(t.main[t.tagidx[x]], id, job.target)
                       \/ ~is_alive(t.main[t.tagidx[x]], w, r.epoch, r.tags))}}
           stamp == IF rows = {} THEN job.cursor
                    ELSE (CHOOSE x \in rows : \A y \in rows : y[2] <= x[2])[2]
           jobs == IF Cardinality(rows) < budget THEN Delete(t.jobs, {id})
                   ELSE Put(t.jobs, id, [job EXCEPT !.cursor = stamp])
           es == {ExpKey(t.main[k].exp, k) : k \in {g \in gone : t.main[g].exp # NEVER}}
           xs == {x \in rows : litter(x)} \cup UNION {TagRows(t.main[k], k) : k \in gone}
<1>1. PICK u : u = reclaim_step(r, t, w, budget).t
  OBVIOUS
<1>2. u = [t EXCEPT !.main = Delete(t.main, gone), !.exp = Delete(t.exp, es),
                    !.tagidx = Delete(t.tagidx, xs), !.jobs = jobs]
  BY <1>1 DEF reclaim_step
<1>3. id \in DOMAIN t.jobs
  BY LowestId
<1>4. \A k \in gone :
        \/ ~is_alive(t.main[k], w, r.epoch, r.tags)
        \/ id \in DOMAIN t.main[k].tags /\ t.main[k].tags[id] < job.target
  BY DEF Doomed
<1> HIDE DEF gone, es, xs, jobs
<1>5. /\ DOMAIN u = Fields /\ u.main = Delete(t.main, gone) /\ u.jobs = jobs /\ u.tags = t.tags
      /\ u.epoch = t.epoch
  BY <1>2 DEF Fields
<1> HIDE DEF id, rows, litter, stamp
<1>6. /\ DOMAIN jobs \subseteq DOMAIN t.jobs
      /\ \A i \in DOMAIN jobs : SameTarget(t.jobs[i], jobs[i])
  <2>1. CASE jobs = Delete(t.jobs, {id})
    BY <2>1 DEF Delete, SameTarget
  <2>2. CASE jobs = Put(t.jobs, id, [job EXCEPT !.cursor = stamp])
    <3>1. PICK y : y = [job EXCEPT !.cursor = stamp]
      OBVIOUS
    <3>2. SameTarget(job, y)
      BY <3>1 DEF SameTarget
    <3> HIDE DEF job
    <3>3. DOMAIN jobs = DOMAIN t.jobs /\ jobs[id] = y /\ \A i \in DOMAIN t.jobs \ {id} : jobs[i] = t.jobs[i]
      BY <1>3, <2>2, <3>1 DEF Put
    <3> QED BY <1>3, <3>2, <3>3 DEF job, SameTarget
  <2> QED BY <2>1, <2>2 DEF jobs
<1>7. Shrinks(t, u)
  BY <1>5, <1>6 DEF Shrinks, Delete
<1>8. DOMAIN t.main \ DOMAIN u.main \subseteq gone
  BY <1>5 DEF Delete
<1> QED BY <1>1, <1>3, <1>4, <1>7, <1>8

-----------------------------------------------------------------------------
(* The records from one step to the next *)

\* A call that is sent, or refused, extends the log (writer.rs send).
LEMMA SendExtends ==
  ASSUME NEW c, NEW s, NEW l, NEW kind, NEW items, LogOK(l), Extends(log, l),
         Send(c, s, l, kind, items)
  PROVE  Extends(log, log')
<1>1. CASE log' = l
  BY <1>1
<1>2. CASE log' = Replied(l, s.call, Error("overloaded"))
  <2>1. Extends(l, log')
    BY <1>2, RepliedAnswers, AnswersExtend
  <2> QED BY <2>1 DEF Extends
<1> QED BY <1>1, <1>2 DEF Send

\* A caller's step extends the log.
LEMMA CallerExtends ==
  ASSUME CallsInv, NEW c \in Clients, ClientStep(c) \/ CallStep(c)
  PROVE  Extends(log, log')
<1>1. LogOK(log) /\ Extends(log, log)
  BY LogStays
<1>2. ASSUME NEW pc, Goto(c, pc) PROVE Extends(log, log')
  BY <1>1, <1>2 DEF Goto
<1>3. ASSUME NEW reply, Return(c, reply) PROVE Extends(log, log')
  BY <1>1, <1>3, RepliedAnswers, AnswersExtend DEF Return
<1>4. ASSUME NEW op \in Ops, CallRead(c, op) \/ CallStore(c, op) \/ CallWrite(c, op)
      PROVE  Extends(log, log')
  BY <1>1, <1>4, CalledExtends, SendExtends DEF CallRead, CallStore, CallWrite
<1>5. CASE LoadEpoch(c) \/ Resolve(c)
  BY <1>1, <1>5 DEF LoadEpoch, Resolve
<1>6. CASE Judge(c)
  <2>1. \/ \E pc : Goto(c, pc)
        \/ \E reply : Return(c, reply)
        \/ \E s, kind, items : Send(c, s, log, kind, items)
    BY <1>6 DEF Judge
  <2> QED BY <1>1, <1>2, <1>3, <2>1, SendExtends
<1>7. CASE Register(c)
  BY <1>1, <1>2, <1>7, SendExtends DEF Register
<1>8. CASE Prepare(c)
  BY <1>1, <1>3, <1>8 DEF Prepare
<1>9. CASE Submit(c)
  BY <1>1, <1>9, SendExtends DEF Submit
<1> QED BY <1>4, <1>5, <1>6, <1>7, <1>8, <1>9 DEF ClientStep, CallStep

\* Replies extend the log (writer.rs commit_batch).
LEMMA DeliverExtends ==
  ASSUME CallsInv, NEW replies, Deliver(replies)
  PROVE  Extends(log, log')
<1> DEFINE failed(i) == \E j \in DOMAIN replies[i] : replies[i][j].res \in SoftError \cup {"error"}
           onward(i) == batch[i].kind = "CreateTags" /\ ~failed(i)
           answer(i) == IF cl[batch[i].client].op.kind = "GetTouch" /\ ~failed(i)
                        THEN cl[batch[i].client].found ELSE replies[i]
<1>1. log' = [x \in DOMAIN log |->
                IF \E i \in DOMAIN batch : batch[i].call = x /\ ~onward(i)
                THEN [log[x] EXCEPT !.reply = answer(CHOOSE i \in DOMAIN batch : batch[i].call = x)]
                ELSE log[x]]
  BY DEF Deliver
<1> HIDE DEF onward, answer
<1>2. \A i \in DOMAIN log : "op" \in DOMAIN log[i]
  BY DEF CallsInv, LogOK
<1>3. ASSUME NEW x \in DOMAIN log PROVE log'[x].op = log[x].op
  <2>1. \/ log'[x] = log[x]
        \/ log'[x] = [log[x] EXCEPT !.reply = answer(CHOOSE i \in DOMAIN batch : batch[i].call = x)]
    BY <1>1
  <2> QED BY <1>2, <2>1
<1> QED BY <1>1, <1>3 DEF Extends

\* Grounded records stay grounded as the registry and the log grow.
LEMMA MainGrows ==
  ASSUME NEW t, NEW tags, NEW new, NEW epoch, NEW later, NEW l, NEW m,
         MainOK(t, tags, epoch, l), Grows(tags, new, epoch, later, l, m)
  PROVE  MainOK(t, new, later, m)
  BY GroundedGrows DEF MainOK

\* The tables of every commit stay sound as the log grows.
LEMMA StoredStay ==
  ASSUME RegistryInv, RecordsInv, NEW l, Extends(log, l), NEW t \in since \cup {disk}
  PROVE  MainOK(t, t.tags, t.epoch, l) /\ TargetsOK(t)
<1>1. Registry(t, ram.nextId)
  BY DEF RegistryInv, StoredOK
<1>2. Grows(t.tags, t.tags, t.epoch, t.epoch, log, l)
  <2>1. \A n \in DOMAIN t.tags : t.tags[n].gen <= t.tags[n].gen
    BY <1>1, SMT DEF Registry, Entry
  <2> QED BY <1>1, <2>1, SMT DEF Grows, Registry, Behind
<1> QED BY <1>2, MainGrows DEF RecordsInv

\* A step that commits nothing and leaves the transaction alone, or drops it.
LEMMA RecordsStay ==
  ASSUME RegistryInv, RecordsInv, Extends(log, log'),
         disk' \in since \cup {disk}, since' \subseteq since \cup {disk},
         Open' => /\ Open /\ txn'.t = txn.t
                  /\ ram'.tags = ram.tags /\ ram'.epoch = ram.epoch
  PROVE  RecordsInv'
<1>1. \A t \in since' \cup {disk'} : MainOK(t, t.tags, t.epoch, log') /\ TargetsOK(t)
  BY StoredStay
<1>2. Open' => MainOK(txn'.t, ram'.tags, ram'.epoch, log') /\ TargetsOK(txn'.t)
  <2> SUFFICES ASSUME Open' PROVE MainOK(txn.t, ram.tags, ram.epoch, log') /\ TargetsOK(txn.t)
    OBVIOUS
  <2>1. Grows(ram.tags, ram.tags, ram.epoch, ram.epoch, log, log')
    BY MemoryGrows
  <2> QED BY <2>1, MainGrows DEF RecordsInv
<1> QED BY <1>1, <1>2 DEF RecordsInv

\* A step of the writer inside its transaction.
LEMMA RecordsWork ==
  ASSUME RegistryInv, CallsInv, RecordsInv, UNCHANGED <<disk, since, log>>,
         ram'.tags = ram.tags, ram'.epoch = ram.epoch,
         MainOK(txn'.t, ram.tags, ram.epoch, log), TargetsOK(txn'.t)
  PROVE  RecordsInv'
  BY DEF RecordsInv

\* A transaction starts from the last commit, which memory matches (writer.rs
\* writer_loop).
LEMMA RecordsBegin ==
  ASSUME RegistryInv, PublicationInv, CallsInv, RecordsInv, NEW due, Begin(due)
  PROVE  RecordsInv'
<1>1. phase = "idle" /\ txn' = [t |-> disk, poisoned |-> FALSE, due |-> due]
      /\ UNCHANGED <<disk, since, ram, log>>
  BY DEF Begin, store_vars
<1>2. txn'.t = disk
  BY <1>1
<1>3. ram.tags = disk.tags /\ ram.epoch = disk.epoch
  BY <1>1 DEF PublicationInv, RegistryInv, PublishOK
<1>4. MainOK(disk, disk.tags, disk.epoch, log) /\ TargetsOK(disk)
  BY DEF RecordsInv
<1> QED BY <1>1, <1>2, <1>3, <1>4, RecordsWork

\* One item of a job is applied (queue.rs apply).
LEMMA RecordsApply ==
  ASSUME RegistryInv, CallsInv, RecordsInv, NEW kind, Apply(kind)
  PROVE  RecordsInv'
<1>1. PICK out : out = ApplyItem(Job, Item)
  OBVIOUS
<1>2. /\ phase = "apply" /\ HasItem /\ ram' = out.ram /\ txn' = [txn EXCEPT !.t = out.t]
      /\ UNCHANGED <<disk, since, log>>
  BY <1>1 DEF Apply
<1>3. ram'.tags = ram.tags /\ ram'.epoch = ram.epoch
  BY <1>1, <1>2, ItemMemory
<1>4. txn'.t = out.t
  BY <1>2 DEF RegistryInv, OpenOK, Open
<1>5. MainOK(txn.t, ram.tags, ram.epoch, log) /\ TargetsOK(txn.t)
  BY <1>2 DEF RecordsInv, Open
<1>6. MainOK(out.t, ram.tags, ram.epoch, log) /\ TargetsOK(out.t)
  BY <1>1, <1>2, <1>5, ItemSound
<1> QED BY <1>2, <1>3, <1>4, <1>6, RecordsWork

\* The commit makes the transaction's registry the one its records are
\* grounded in (writer.rs commit_batch).
LEMMA RecordsCommit ==
  ASSUME RegistryInv, PublicationInv, CallsInv, RecordsInv, Commit
  PROVE  RecordsInv'
<1>1. PICK t : t = [txn.t EXCEPT !.seq = IF batch = <<>> THEN @ ELSE @ + 1]
  OBVIOUS
<1>2. /\ phase = "commit" /\ disk' = t /\ since' \subseteq since \cup {t} /\ phase' = "publish"
      /\ log' = log
  BY <1>1 DEF Commit
<1>3. /\ Registry(txn.t, ram.nextId) /\ Behind(disk.tags, txn.t.tags)
      /\ txn.t.epoch \in {disk.epoch, disk.epoch + 1} /\ ram.epoch = disk.epoch
      /\ disk.epoch \in Nat /\ \A n \in DOMAIN ram.tags : ram.tags[n] \in Entry
  BY <1>2 DEF RegistryInv, MemoryOK, StoredOK, OpenOK, PublishOK, Open, Registry
<1>4. t.main = txn.t.main /\ t.tags = txn.t.tags /\ t.epoch = txn.t.epoch /\ t.jobs = txn.t.jobs
  BY <1>1, <1>3 DEF Registry, Fields
<1>5. ram.tags = disk.tags
  BY <1>2 DEF PublicationInv
<1>6. Grows(ram.tags, t.tags, ram.epoch, t.epoch, log, log)
  BY <1>3, <1>4, <1>5, LogStays, SMT DEF Grows, Registry
<1>7. MainOK(txn.t, ram.tags, ram.epoch, log) /\ TargetsOK(txn.t)
  BY <1>2 DEF RecordsInv, Open
<1>8. MainOK(txn.t, t.tags, t.epoch, log)
  BY <1>6, <1>7, MainGrows
<1>9. MainOK(t, t.tags, t.epoch, log) /\ TargetsOK(t)
  BY <1>4, <1>7, <1>8 DEF MainOK, TargetsOK
<1> QED BY <1>2, <1>9 DEF RecordsInv, Open

\* Maintenance only removes, and below the hard watermark what it removes is
\* dead by the transaction's own registry (writer.rs commit_batch, expiry.rs,
\* reclaim.rs).
LEMMA MaintainRemoves ==
  ASSUME RegistryInv, PublicationInv, RecordsInv, NEW level, Maintain(level)
  PROVE  /\ Shrinks(txn.t, txn'.t)
         /\ level \in {"normal", "soft"} =>
              \A k \in DOMAIN txn.t.main \ DOMAIN txn'.t.main : DeadIn(txn.t, txn.t.main[k])
<1> DEFINE swept     == sweep(txn.t, now, SweepBatch).t
           reclaimed == IF DOMAIN swept.jobs = {} THEN [t |-> swept, completed |-> TRUE]
                        ELSE reclaim_step(ram, swept, now, ReclaimBatch)
           evicted   == apply_pressure(reclaimed.t, now, EvictBatch, level)
<1>1. phase = "maintain" /\ txn' = [txn EXCEPT !.t = evicted.t]
  BY DEF Maintain
<1>2. /\ DOMAIN txn.t = Fields /\ DOMAIN txn = {"t", "poisoned", "due"}
      /\ \A n \in DOMAIN txn.t.tags : txn.t.tags[n] \in Entry
      /\ txn.t.epoch \in {disk.epoch, disk.epoch + 1}
      /\ ram.epoch = disk.epoch /\ disk.epoch \in Nat
      /\ Behind(disk.tags, txn.t.tags) /\ ram.tags = disk.tags
      /\ \A n \in DOMAIN ram.tags : ram.tags[n] \in Entry
      /\ MainOK(txn.t, ram.tags, ram.epoch, log) /\ TargetsOK(txn.t)
  BY <1>1 DEF RegistryInv, MemoryOK, StoredOK, OpenOK, PublishOK, PublicationInv, RecordsInv,
       Open, Registry
<1>3. /\ Shrinks(txn.t, swept)
      /\ \A k \in DOMAIN txn.t.main \ DOMAIN swept.main : is_expired(txn.t.main[k], now)
  BY <1>2, DrainShrinks DEF sweep
<1> HIDE DEF swept
<1>4. DOMAIN swept = Fields /\ TargetsOK(swept)
  BY <1>2, <1>3, ShrinksSound DEF Shrinks
<1>5. DOMAIN swept.jobs \subseteq Nat
  <2>1. \A n \in DOMAIN swept.tags : swept.tags[n].id \in Nat
    BY <1>2, <1>3 DEF Shrinks, Entry
  <2> QED BY <1>4, <2>1 DEF TargetsOK
<1>6. /\ Shrinks(swept, reclaimed.t)
      /\ \A k \in DOMAIN swept.main \ DOMAIN reclaimed.t.main :
           \/ ~is_alive(swept.main[k], now, ram.epoch, ram.tags)
           \/ \E id \in DOMAIN swept.jobs \cap DOMAIN swept.main[k].tags :
                swept.main[k].tags[id] < swept.jobs[id].target
  <2>1. CASE DOMAIN swept.jobs = {}
    <3>1. reclaimed.t = swept
      BY <2>1
    <3>2. Shrinks(swept, swept)
      BY <1>4 DEF Shrinks, SameTarget
    <3> HIDE DEF reclaimed
    <3> QED BY <3>1, <3>2
  <2>2. CASE DOMAIN swept.jobs # {}
    <3>1. reclaimed.t = reclaim_step(ram, swept, now, ReclaimBatch).t
      BY <2>2
    <3> HIDE DEF reclaimed
    <3> QED BY <1>4, <1>5, <2>2, <3>1, ReclaimShrinks
  <2> QED BY <2>1, <2>2
<1> HIDE DEF reclaimed
<1>7. Shrinks(reclaimed.t, evicted.t) /\ (level \in {"normal", "soft"} => evicted.t = reclaimed.t)
  <2>1. CASE level \in {"hard", "critical"}
    <3>1. DOMAIN reclaimed.t = Fields
      BY <1>6 DEF Shrinks
    <3>2. evicted.t = drain_expiry_index(reclaimed.t, now, EvictBatch, TRUE).t
      BY <2>1 DEF apply_pressure, evict
    <3> HIDE DEF evicted
    <3> QED BY <2>1, <3>1, <3>2, DrainShrinks
  <2>2. CASE level \notin {"hard", "critical"}
    <3>1. evicted.t = reclaimed.t
      BY <2>2 DEF apply_pressure
    <3>2. Shrinks(reclaimed.t, reclaimed.t)
      BY <1>6 DEF Shrinks, SameTarget
    <3> HIDE DEF evicted
    <3> QED BY <3>1, <3>2
  <2> QED BY <2>1, <2>2
<1> HIDE DEF evicted
<1>8. txn'.t = evicted.t
  BY <1>1, <1>2
<1>9. Shrinks(txn.t, txn'.t)
  BY <1>3, <1>6, <1>7, <1>8, ShrinksTrans
<1>10. ASSUME NEW k \in DOMAIN txn.t.main, level \in {"normal", "soft"}, k \notin DOMAIN txn'.t.main
       PROVE  DeadIn(txn.t, txn.t.main[k])
  <2>1. PICK r : r = txn.t.main[k]
    OBVIOUS
  <2>2. Grounded(k, r, ram.tags, ram.epoch, log)
    BY <1>2, <2>1 DEF MainOK
  <2>3. \A id \in DOMAIN r.tags : RefsUnder(r.tags, ram.tags, DOMAIN ram.tags)
    BY <2>2 DEF Grounded, Written, RefsUnder
  <2>4. CASE is_expired(r, now)
    BY <2>1, <2>4 DEF DeadIn
  <2>5. CASE r.epoch # ram.epoch
    <3>1. r.epoch # txn.t.epoch
      BY <1>2, <2>2, <2>5, SMT DEF Grounded
    <3> QED BY <2>1, <3>1 DEF DeadIn
  <2>6. ASSUME NEW id \in DOMAIN r.tags, NEW n \in DOMAIN txn.t.tags, txn.t.tags[n].id = id,
               r.tags[id] < txn.t.tags[n].gen
        PROVE  DeadIn(txn.t, txn.t.main[k])
    <3>1. r.tags[id] \in Nat /\ txn.t.tags[n].gen \in Nat
      BY <1>2, <2>3 DEF RefsUnder, Entry
    <3>2. r.tags[id] # txn.t.tags[n].gen
      BY <2>6, <3>1, SMT
    <3> QED BY <2>1, <2>6, <3>2 DEF DeadIn
  <2>7. ASSUME NEW id \in DOMAIN r.tags, ~RamHolds(ram.tags, id, r.tags[id])
        PROVE  DeadIn(txn.t, txn.t.main[k])
    <3>1. PICK n \in DOMAIN ram.tags :
            ram.tags[n].id = id /\ r.tags[id] <= ram.tags[n].gen /\ r.tags[id] \in Nat
      BY <2>3 DEF RefsUnder
    <3>2. r.tags[id] # ram.tags[n].gen
      BY <2>7, <3>1 DEF RamHolds
    <3>3. /\ n \in DOMAIN txn.t.tags /\ txn.t.tags[n].id = id
          /\ ram.tags[n].gen <= txn.t.tags[n].gen
          /\ ram.tags[n].gen \in Nat /\ txn.t.tags[n].gen \in Nat
      BY <1>2, <3>1 DEF Behind, Entry
    <3>4. r.tags[id] < txn.t.tags[n].gen
      BY <3>1, <3>2, <3>3, SMT
    <3> QED BY <2>6, <3>3, <3>4
  <2>8. CASE k \notin DOMAIN swept.main
    BY <1>3, <2>1, <2>4, <2>8
  <2>9. CASE k \in DOMAIN swept.main
    <3>1. swept.main[k] = r /\ swept.tags = txn.t.tags
      BY <1>3, <2>1, <2>9 DEF Shrinks
    <3>2. CASE ~is_alive(r, now, ram.epoch, ram.tags)
      BY <2>4, <2>5, <2>7, <3>2 DEF is_alive, tags_alive
    <3>3. ASSUME NEW id \in DOMAIN swept.jobs \cap DOMAIN r.tags, r.tags[id] < swept.jobs[id].target
          PROVE  DeadIn(txn.t, txn.t.main[k])
      <4>1. PICK n \in DOMAIN txn.t.tags :
              txn.t.tags[n].id = id /\ swept.jobs[id].target <= txn.t.tags[n].gen
        BY <1>4, <3>1 DEF TargetsOK
      <4>2. r.tags[id] \in Nat /\ swept.jobs[id].target \in Nat /\ txn.t.tags[n].gen \in Nat
        BY <1>2, <1>4, <2>3 DEF RefsUnder, Entry, TargetsOK
      <4>3. r.tags[id] < txn.t.tags[n].gen
        <5>1. \A x, y, z \in Nat : x < y /\ y <= z => x < z
          BY SMT
        <5> QED BY <3>3, <4>1, <4>2, <5>1
      <4> QED BY <2>6, <4>1, <4>3
    <3>4. k \notin DOMAIN reclaimed.t.main
      BY <1>7, <1>8, <1>10
    <3> QED BY <1>6, <2>9, <3>1, <3>2, <3>3, <3>4
  <2> QED BY <2>8, <2>9
<1> QED BY <1>9, <1>10

\* Maintenance keeps the transaction's records sound (writer.rs commit_batch).
LEMMA RecordsMaintain ==
  ASSUME RegistryInv, PublicationInv, CallsInv, RecordsInv, NEW level, Maintain(level)
  PROVE  RecordsInv'
<1>1. /\ phase = "maintain" /\ UNCHANGED <<disk, since, log>>
      /\ ram' = [ram EXCEPT !.pressure = level]
  BY DEF Maintain
<1>2. ram'.tags = ram.tags /\ ram'.epoch = ram.epoch
  BY <1>1 DEF RegistryInv, MemoryOK
<1>3. MainOK(txn.t, ram.tags, ram.epoch, log) /\ TargetsOK(txn.t)
  BY <1>1 DEF RecordsInv, Open
<1>4. MainOK(txn'.t, ram.tags, ram.epoch, log) /\ TargetsOK(txn'.t)
  BY <1>3, MaintainRemoves, ShrinksSound
<1> QED BY <1>1, <1>2, <1>4, RecordsWork

\* So does the emergency reclamation (writer.rs free_space).
LEMMA RecordsFree ==
  ASSUME RegistryInv, CallsInv, RecordsInv, NEW budget, FreeSpace(budget)
  PROVE  RecordsInv'
<1> DEFINE swept == sweep(disk, now, budget).t
           u == evict(swept, now, budget).t
<1>1. disk' = u /\ since' \subseteq since \cup {u} /\ phase' = "idle" /\ log' = log
  BY DEF FreeSpace
<1>2. DOMAIN disk = Fields
  BY DEF RegistryInv, StoredOK, Registry
<1>3. Shrinks(disk, swept)
  BY <1>2, DrainShrinks DEF sweep
<1> HIDE DEF swept
<1>4. DOMAIN swept = Fields
  BY <1>3 DEF Shrinks
<1>5. Shrinks(swept, u)
  BY <1>4, DrainShrinks DEF evict
<1> HIDE DEF u
<1>6. Shrinks(disk, u)
  BY <1>3, <1>5, ShrinksTrans
<1>7. MainOK(u, disk.tags, disk.epoch, log) /\ TargetsOK(u)
  BY <1>6, ShrinksSound DEF RecordsInv
<1>8. u.tags = disk.tags /\ u.epoch = disk.epoch
  BY <1>6 DEF Shrinks
<1> QED BY <1>1, <1>7, <1>8 DEF RecordsInv, Open

\* No record is stored.
LEMMA RecordsInit == Init => RecordsInv
<1> SUFFICES ASSUME Init PROVE RecordsInv
  OBVIOUS
<1>1. disk = EmptyTables /\ since = {EmptyTables} /\ phase = "idle"
  BY DEF Init
<1>2. EmptyTables.main = Empty /\ EmptyTables.jobs = Empty
  BY DEF EmptyTables
<1>3. MainOK(EmptyTables, EmptyTables.tags, EmptyTables.epoch, log) /\ TargetsOK(EmptyTables)
  BY <1>2 DEF MainOK, TargetsOK, Empty
<1> QED BY <1>1, <1>3 DEF RecordsInv, Open

\* Every step keeps the records grounded.
LEMMA RecordsStep ==
  ASSUME RegistryInv, PublicationInv, CallsInv, RecordsInv, [Next]_vars
  PROVE  RecordsInv'
<1> USE DEF store_vars, writer_vars
<1>1. Extends(log, log)
  BY LogStays
<1>2. ASSUME Extends(log, log'), UNCHANGED disk, since' \subseteq since \cup {disk}, ~Open'
      PROVE  RecordsInv'
  BY <1>2, RecordsStay
<1>3. ASSUME NEW full, Abort(full) PROVE RecordsInv'
  <2>1. UNCHANGED <<disk, since>> /\ phase' \in {"idle", "full"} /\ Extends(log, log')
    BY <1>3, DeliverExtends DEF Abort, Discard
  <2> QED BY <1>2, <2>1 DEF Open
<1>4. ASSUME NEW c \in Clients, ClientStep(c) \/ CallStep(c) PROVE RecordsInv'
  <2>1. UNCHANGED <<store_vars, writer_vars>>
    BY <1>4 DEF ClientStep, CallStep, LoadEpoch, Judge, Register, Resolve, Prepare, Submit,
         CallRead, CallStore, CallWrite
  <2> QED BY <1>4, <2>1, CallerExtends, RecordsStay DEF Open
<1>5. CASE WriterStep
  <2>1. ASSUME NEW due \in BOOLEAN, Begin(due) PROVE RecordsInv'
    BY <2>1, RecordsBegin
  <2>2. CASE \/ ApplySet \/ ApplyConditional \/ ApplyDelete \/ ApplyTouch \/ ApplyExpire
             \/ ApplyArithmetic \/ ApplyAppend \/ ApplyCreateTags \/ ApplyDeleteByTag
             \/ ApplyMergeTag \/ ApplyFlush \/ ApplySync
    BY <2>2, RecordsApply DEF ApplySet, ApplyConditional, ApplyDelete, ApplyTouch,
         ApplyExpire, ApplyArithmetic, ApplyAppend, ApplyCreateTags, ApplyDeleteByTag,
         ApplyMergeTag, ApplyFlush, ApplySync
  <2>3. ASSUME NEW level \in Levels, Maintain(level) PROVE RecordsInv'
    BY <2>3, RecordsMaintain
  <2>4. CASE Commit
    BY <2>4, RecordsCommit
  <2>5. CASE Publish
    BY <1>1, <1>2, <2>5 DEF Publish, Open
  <2>6. CASE CommitPoisoned
    BY <1>3, <2>6 DEF CommitPoisoned
  <2>7. CASE Reply
    BY <1>2, <2>7, DeliverExtends DEF Reply, Open
  <2>8. CASE SyncEnv
    BY <1>1, <1>2, <2>8 DEF SyncEnv, Open
  <2>9. CASE Refuse \/ FreeSpaceFails
    BY <1>1, <1>2, <2>9 DEF Refuse, FreeSpaceFails, Open
  <2>10. ASSUME NEW b \in FreeBudgets, FreeSpace(b) PROVE RecordsInv'
    BY <2>10, RecordsFree
  <2> QED BY <1>5, <2>1, <2>2, <2>3, <2>4, <2>5, <2>6, <2>7, <2>8, <2>9, <2>10 DEF WriterStep
<1>6. CASE Failure
  <2>1. CASE BeginFails
    BY <1>3, <2>1 DEF BeginFails
  <2>2. CASE SyncFails
    BY <1>1, <1>2, <2>2 DEF SyncFails, Open
  <2>3. ASSUME NEW full \in BOOLEAN, ApplyFails(full) \/ CommitFails(full) PROVE RecordsInv'
    BY <1>3, <2>3 DEF ApplyFails, CommitFails
  <2>4. ASSUME NEW level \in Levels, MaintainFails(level) PROVE RecordsInv'
    <3>1. /\ phase = "maintain" /\ UNCHANGED <<disk, since, log>>
          /\ txn' = [txn EXCEPT !.poisoned = TRUE]
          /\ ram' \in {ram, [ram EXCEPT !.pressure = level]}
      BY <2>4 DEF MaintainFails
    <3>2. txn'.t = txn.t /\ ram'.tags = ram.tags /\ ram'.epoch = ram.epoch
      BY <3>1 DEF RegistryInv, MemoryOK, OpenOK, Open
    <3> QED BY <1>1, <3>1, <3>2, RecordsStay DEF Open
  <2>5. ASSUME NEW t \in since \cup {disk}, Restart(t) PROVE RecordsInv'
    <3>1. disk' = t /\ since' = {t} /\ phase' = "idle"
      BY <2>5 DEF Restart
    <3> QED BY <2>5, <3>1, LogRestarts, RecordsStay DEF Open
  <2>6. CASE Crash \/ PowerLoss
    BY <2>5, <2>6 DEF Crash, PowerLoss
  <2> QED BY <1>6, <2>1, <2>2, <2>3, <2>4, <2>6 DEF Failure
<1>7. CASE Tick \/ UNCHANGED vars
  BY <1>1, <1>7, RecordsStay DEF Tick, vars, Open
<1> QED BY <1>4, <1>5, <1>6, <1>7 DEF Next

\* Refs under registered names are refs to one name each.
LEMMA RefsAreRegistered ==
  ASSUME NEW t, NEW next, NEW refs, NEW names, Registry(t, next), RefsUnder(refs, t.tags, names)
  PROVE  RegisteredUnder(t.tags, refs, names)
<1> SUFFICES ASSUME NEW id \in DOMAIN refs
             PROVE  \E n \in DOMAIN t.tags :
                      /\ t.tags[n].id = id /\ refs[id] <= t.tags[n].gen /\ n \in names
                      /\ \A m \in DOMAIN t.tags : t.tags[m].id = id => m = n
  BY DEF RegisteredUnder
<1>1. PICK n \in names \cap DOMAIN t.tags : t.tags[n].id = id /\ refs[id] <= t.tags[n].gen
  BY DEF RefsUnder
<1> QED BY <1>1 DEF Registry

\* Only a maintenance pass, or its failure, goes from maintenance to the
\* commit (writer.rs commit_batch).
LEMMA MaintenanceSteps ==
  ASSUME Next, phase = "maintain", phase' = "commit"
  PROVE  \E level \in Levels : Maintain(level) \/ MaintainFails(level)
<1> USE DEF store_vars, writer_vars
<1>1. ~\E c \in Clients : ClientStep(c) \/ CallStep(c)
  BY DEF ClientStep, CallStep, LoadEpoch, Judge, Register, Resolve, Prepare, Submit,
         CallRead, CallStore, CallWrite
<1>2. CASE WriterStep
  <2>1. ~\E kind : Apply(kind)
    BY DEF Apply
  <2> QED BY <1>2, <2>1 DEF WriterStep, Begin, ApplySet, ApplyConditional, ApplyDelete, ApplyTouch,
         ApplyExpire, ApplyArithmetic, ApplyAppend, ApplyCreateTags, ApplyDeleteByTag,
         ApplyMergeTag, ApplyFlush, ApplySync, Commit, CommitPoisoned, Publish, Reply, SyncEnv,
         Refuse, FreeSpaceFails, FreeSpace
<1>3. CASE Failure
  BY <1>3 DEF Failure, BeginFails, SyncFails, ApplyFails, CommitFails, Crash, PowerLoss, Restart,
       Abort, Discard
<1>4. ~Tick
  BY DEF Tick
<1> QED BY <1>1, <1>2, <1>3, <1>4 DEF Next

=============================================================================
