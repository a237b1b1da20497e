# A TLA+ model of vash

vash is a cache server: three wire protocols in front of a store that keeps its
data in LMDB or MDBX environments, one per shard, with tags that invalidate many
records at once and a gossip protocol that carries invalidations between nodes.
This directory models it from the bytes of a request to the tables of a shard,
checks the models with TLC on small instances, and proves the invariants of the
concurrent parts with TLAPS for every instance.

    tlc -config ShardTags.cfg MCShards     # the runs of section 3
    tlapm StaleProofs.tla                  # the proof modules of section 4

`PROJECT.json` lists the components, the runs, the mutants that show each
property can fail, the source lines behind each definition, the hazards, the
findings and the theorems. Paths below are relative to `src/crates/`.

## 1. The system

| Part | State | What is hard about it |
|---|---|---|
| Shard engine (`vash-store` apply, engine, expiry, tags, reclaim) | tables main, exp, tagidx, tags, jobs, meta; epoch, registry and counters in memory | operations share a transaction and memory is behind it; index rows are written only when believed missing; invalidation is a comparison at read time |
| Writer and callers (`writer`, `queue`, `store`, `read`, `env`) | bounded queue, current batch, effects to publish; resolved tags, prepared records, snapshots | one failure aborts a batch; callers use what they captured earlier; crash and power loss between any two steps |
| CAS tokens (`apply`, `env`) | counter and watermark per shard | reserved in memory against reserved on disk |
| Several shards (`store`, `shard`) | one engine per shard | no transaction spans shards |
| Cluster (`vash-server` cluster, dispatch) | peers, queues, digests | lost, repeated and late messages; restarts |
| Connections (`conn`, `connections`, `lib`, `scan`) | a buffer, held writes, permits, cursors | reply order, retries, limits, shutdown |
| Credentials (`auth`) | table, identities | reload under open connections |
| Counters and introspection (`metrics`, `introspect`, `readers`) | lanes, rings, summaries, slots | several threads without locks |
| Resident mode (`prefault`, `env`) | marks, locked ranges | the map grows while it is looked at |
| Protocols (`vash-proto`, the adapters, `vash-client`) | a stream | measured by one walk, parsed by another; framing of replies; conversions of lifetimes and numbers |

A read never waits for the writer: it opens an MVCC snapshot, loads the epoch,
and compares the record's tags with the registry in memory. A write is prepared
on the caller's thread and queued; the writer groups what is queued into one
transaction, adds a maintenance pass when one is due, commits, publishes the new
generations and epoch in memory, and only then answers.

## 2. Modules

| Module | Models |
|---|---|
| `ShardEngine` | The operations of a write transaction, as operators from (memory, tables, arguments) to (memory, tables, result, effects). No variables. |
| `ShardWriter` | One shard at work: callers, queue, writer thread, failures, crash, power loss, clock. |
| `ShardProperties` | What a shard promises, the invariants of its tables, `FairSpec`, liveness. |
| `CasAllocator` | CAS tokens over several shards, and their properties. |
| `ClusterTags` | Registration and invalidation over the shards of a node; broadcast, fan-out with acknowledgements, gossip of digests, loss, repetition, restart. |
| `MaxMerge` | The abstract cluster: one grow-only number per node and tag. |
| `Pipeline` | One read that holds several commands: runs, tiers, held writes, retries, replies. |
| `Connections` | Accept, handshake, deadlines, ceilings, registry, permits, shutdown. |
| `Listing`, `Glob` | Paged listings with their three kinds of cursor; the pattern walk against its definition. |
| `Auth`, `Credentials` | Roles, tables and the gate as operators; reload, login and commands while the server runs. |
| `Lanes`, `HotKeys`, `SlowLog` | Counters per thread, Space-Saving summaries, the slow log and the waits it charges. |
| `Readers`, `Residency` | Ages of open reads; the warmer of resident mode. |
| `Routing` | A batch cut over shards and put together again. |
| `MemoryStore`, `StandIn` | The store of the server's tests, and a comparison of each of its answers with an idle shard. |
| `VcpCodec`, `Vcp` | The native protocol: every body both ways; client, server and the streams between them. |
| `RespFrames`, `RespCommand`, `RespServer` | The Redis protocol: framing, grammar, execution and replies. |
| `McCommand`, `McServer` | The memcached protocols: both grammars, execution and replies. |
| `Stream` | A buffer that is measured and then parsed, over a stream cut anywhere. |
| `Numbers`, `TtlRules`, `Ttl` | Arithmetic on texts; lifetimes through adapter, store and answer. |
| `MCShard`, `MCShards`, `MCCluster`, `MCServing`, `MCComponents`, `MCProtocols` | Instances for TLC. |
| `ShardInvariant`, `ShardProofs`, `CallProofs`, `StaleInvariant`, `StaleProofs` | TLAPS proofs about a shard. |
| `ClusterProofs`, `StoreProofs`, `ServerProofs` | TLAPS proofs about the cluster; tokens, lanes, resident mode and the reader table; connections and credentials. |

Definitions keep the names of the functions they model.

### The shard

A table is a function on the keys it holds. A record is
`[epoch, exp, cas, tags, val, ver]`: `tags` maps tag ids to the generation
captured, `val` is a length or a counter, and `ver` is a history field naming
the call that wrote the record. Index rows are `<<bucket, hash>>` and
`<<tag id, hash>>`; the hash is a constant function and may collide.

| Variables of `ShardWriter` | In the code |
|---|---|
| `disk`, `since` | the committed tables, and the committed states a power loss may fall back to |
| `ram` | epoch, `TagRegistry`, `cas_next`, `cas_watermark`, pressure |
| `queue`, `batch`, `outs`, `acc`, `txn`, `eff`, `work`, `hot`, `phase` | the channel and the locals of `writer_loop` and `commit_batch`; `eff` is the `PostCommit` effects |
| `cl` | each calling thread's program counter and what it has captured |
| `log` | history: every call, the calls that had returned before it, its reply |

| Actions | In the code |
|---|---|
| `CallRead`, `LoadEpoch`, `Judge` | `Engine::get_many` and `deadlines`; `set_many_if` and `get_and_touch` go on from there |
| `CallStore`, `Register`, `Resolve`, `Prepare`, `Submit` | `submit_set_many` and `store`: registration, resolution and preparation are steps of their own per item |
| `CallWrite` | operations that are queued directly |
| `Begin`, `ApplySet` ... `ApplySync`, `Maintain`, `Commit`, `Publish`, `Reply`, `SyncEnv` | one iteration of `writer_loop` |
| `BeginFails`, `ApplyFails`, `MaintainFails`, `CommitFails`, `CommitPoisoned`, `SyncFails` | its error paths |
| `Refuse`, `FreeSpace`, `FreeSpaceFails` | the full-map path |
| `Crash`, `PowerLoss` | the process or the machine stops, and the environment is opened again |

Granularity: items of a job are applied, and effects published, one at a time,
since readers and callers run in between. `Begin` takes what it will take from
the queue in one step. All replies of a batch are one step, after everything
they depend on is published. The pressure level is any of `Levels`, since
utilisation is measured from the map. Failures are faults from `Faults`; a
failed operation may or may not have advanced the counters in memory.

### The cluster

A commit of a shard is one step; one key per node, shard and tag stands for the
records carrying the tag. `StartWrite`, `RegisterTag`, `StampWrite`, `CommitWrite`
are a write; `StartDelete`, `BumpShard`, `LevelAndForward` and `AwaitEnds` are
`delete_by_tag`. `TakeMessage`, `TagSync`, `Acknowledge` and the three ends of an
exchange (`ExchangeSucceeds`, `ExchangeRetries`, `ExchangeFails`) are the task of a
peer with its bounded queue; `GossipRound` and `GossipTimeout` are its timer with
the digest window; `Restart` loses everything but the tables. A merge of a peer's
digest over several shards is one atomic step, while a delete goes shard by shard.

`known[n][t]`, the maximum over a node's shards, is the refinement mapping to
`MaxMerge`: `ImplementsMaxMerge` says that a node only raises its number, by one
of its own invalidations or to what some node has.

### The serving side, the components and the protocols

A machine per behaviour; the module headers say what each abstracts. The MC
modules run them side by side: a behaviour runs one, chosen by its initial
state, while the others stand still. That keeps the question of a run to one
cfg without multiplying state spaces that do not interact.

- `Pipeline`: a write stores its own position in the block, so that the model
  can tell which write a read saw.
- `Listing`: writers run between the shards of a page and between pages; a reply
  may be lost and asked for again.
- `Lanes`: an addition is a load and a store, two steps, on a private lane.
- `Vcp`: a caller may give up on a call and use the client again. Giving up in
  the middle of a write is not modelled.
- `RespCommand`, `McCommand`: an argument is a word; what the code reads off its
  bytes is given by functions over words. `Stream` joins both to buffers.

## 3. Runs

Every bound is a CONSTANT of a cfg or a definition of an MC module.

| Run | Checks | Distinct states |
|---|---|---|
| `ShardTags` | `NoStaleRead`, `AckedIsVisible`, `RegistryInv`, `TagRefsAreRegistered` | 1,270,167 |
| `ShardIndexes` | `NoStaleRead`, `IndexesAreExact`, `UpdatesAreAtomic`, `MaintenanceSparesTheLiving` | 1,233,735 |
| `ShardBatches` | `BatchIsAtomic`, `RamMatchesDisk`, `MaintenanceSparesTheLiving` | 1,866,587 |
| `ShardProgress` | `EveryCallReturns`, `MaintenanceCatchesUp` under `FairSpec` | 66,156 |
| `ClusterConverges` | `NodeInvalidationIsStrong`, `MergedPeerServesNothingOlder`, `EventuallyConverged`, `ImplementsMaxMerge` | 302,893 |
| `Serving` | `BlocksAreSequential`, `GateBeforeEffect`, `AdmissionIsBalanced`, `ClosedOnlyWhenDrained`, `ListingIsComplete`, `RequestsEnd`, `ConnectionsEnd` | 209,703 |
| `Protocols` | `CallsAreAnswered`, `ParsersAgree`, `OneReplyEach`, `AnswersWhatWasSent`, `ArithmeticIsExact`, `LifetimesAreKept`, `RefusedChangesNothing` | 382,111 |
| `Components` | `UniqueTokens`, `OneWriterPerLane`, `CountersAreExact`, `IntrospectionIsExact`, `CredentialsHold`, `StandInAgrees`, `InlineCoversTheLastLook`, `OldestReadIsReported`, `EveryItemIsAnswered` | 1,107,811 |

What they show:

- **Shard.** Promises to callers are stated over `log`, with real-time order:
  call *d* precedes read *r* when *d* had returned before *r* was made.
  `NoStaleRead` is the ordering guarantee of `docs/protocol.md`;
  `AckedIsVisible` is its converse: nothing but another call on the key, its
  tags or the whole store makes an acknowledged record disappear. `MCShards`
  runs several scenarios in one run: tags raced by reads; merges and flushes
  with a failure or a crash; every kind of write to one key over time; a map
  that fills up; counters and conditional writes of two callers; two-key batches
  with a queue of one, syncs and power loss; two keys with one hash.
- **Cluster.** Two nodes in three worlds: two shards with acknowledged fan-out
  and one fault; two clients at once with gossip alone; more names than fit a
  digest. An answered invalidation is strong on its node and on each peer that
  merged it, all nodes end at one generation, and the cluster implements
  `MaxMerge`. The caller's count is of peers that answered; one whose merge failed
  answers too, and of it the run says nothing (section 5).
- **Serving.** Every block of up to three commands of each dialect over each
  tier; servers with one place for a stranger, without authentication, and with
  more sockets than places, built to unwind and to abort; nine listings; every
  pattern of up to three bytes. `GateBeforeEffect` names the moment an identity
  is taken from: a command's own turn, or the start of the read for a write that
  is awaited. `AdmissionIsBalanced` names the entries a panicking task leaves in
  the registry.
- **Protocols.** Every kind of request and reply body over streams that deliver
  any number of cells at a time; the two text dialects from words to replies and
  over streams cut anywhere; all edges of the numbers and lifetimes. Where a
  reply is cut short, silenced or refused against the documents, the property
  says exactly when, and the sentence itself is in section 5.
- **Components.** The smaller machines, with the bounds `MCComponents` states
  at each instance. `SlowLog` has the merges of gossip, which leave a wait nobody
  collects; `Readers` two shards that number their slots each for itself;
  `StandIn` the calls after which the two stores differ for good (`parted`).

**Why the bounds are enough.** Two callers and three or four calls make each
shard hazard happen: a write, a competing call and a read, with one in progress
while another is batched. Batches of two are the smallest that share a
transaction; one fault reaches each error path; `ReclaimBatch = 1` makes every
job take several steps, and `SweepBatch = 1` makes a backlog of two expired
records outlast a pass. Callers are symmetric where only safety is checked. Each
component has one more thread, key or item than it has places (three threads on
two lanes or two slots, three keys on two counters, two sockets on one pre-auth
permit), so that the limit is met.

**Hash collisions.** With colliding hashes the second key takes the index row,
as the code's comments on the hash accept, so `IndexesAreExact` is checked with
distinct hashes. `ShardBatches` checks with colliding ones what must still hold,
that no live record is freed.

**Deadlock** is checked in the shard runs, where the clock, the writer or a
caller can always take a step. The other runs say `CHECK_DEADLOCK FALSE` since
their machines end: a block is written, a server closed, a call answered.

**Fairness.** `ShardProperties!FairSpec`: weak fairness of the writer's and each
caller's steps, because these are running threads, and strong fairness of
`Begin(TRUE)`, because the loop wakes at least once per sweep interval and then
compares the elapsed time. `ClusterTags!Fairness`: weak fairness of clients,
peer tasks and timers, each a task of the runtime; faults are finitely many.
`ConnFairness`: weak fairness of what is ready and of timers, strong fairness of
a select that finds a deadline past or the shutdown signalled; nothing is assumed
of the peer. `PipeFairness`, `ListFairness`, `GlobFairness`: the task, the pager
or the loop goes on. Nothing is assumed about failures, the clock or new calls.

### Findings

Each of these runs checks a sentence of the repository that the code does not
keep. The exact lines are in `PROJECT.json`.

| Run | What happens |
|---|---|
| `FindCas` | A transaction that raises the watermark fails, later writes use the block, and a restart hands their tokens out again. The theorems of `StoreProofs` about tokens show that it takes both. |
| `FindSetIf` | The guard of a conditional batch is judged before the write is queued, also within one shard. |
| `FindFlushIncr` | An increment after a flush of its own batch is acknowledged and invisible. |
| `FindLifetime` | A lifetime above thirty days on an ARITHMETIC of the native protocol is read as a date, and a memcached exptime above u32::MAX as already expired. TLC stops at the first; `-continue` shows both. |

## 4. Proofs

All theorems hold for every value of the constants under the named assumptions,
without bounds on clients, keys, tags, nodes, calls, faults or time. The bounds
of the runs (`MaxCalls`, `MaxFaults`, ...) are any numbers, and the proofs use
them only as guards that may be false.

| Module | Theorem | States |
|---|---|---|
| `ShardProofs` | `RegistryIsSound` | `[]RegistryInv` |
| | `RamNeverAhead` | `[]RamBehindDisk` |
| | `EffectsAreEnough` | `[]PublicationInv` with `RegistryInv` |
| | `MemoryMatches` | `[]RamMatchesDisk` |
| `StaleProofs` | `RecordsAreGrounded` | `[](CallsInv /\ RecordsInv)` with the two above |
| | `RefsStayRegistered` | `[]TagRefsAreRegistered` |
| | `MaintenanceIsSafe` | `MaintenanceSparesTheLiving`, an action property |
| | `InvalidatedStaysDead` | `DistinctKeys`, `Durable` give `[]StaleInv` |
| | `ReadsAreNeverStale` | the same give `[](Unsaturated => NoStaleRead)` |
| `StoreProofs` | `ReservationsHold`, `TokensAreUnique`, `TokensIncrease` | `Reserved`, `UniqueTokens`, `IncreasingTokens` |
| | `LanesArePrivate` | `[]OneWriterPerLane` |
| | `AdditionsLand` | `EveryAdditionLands`, an action property |
| | `InlineReadsAreHeld`, `AgesAreTrue` | `InlineCoversTheLastLook`, `OldestReadIsReported` |
| `ClusterProofs` | `ClusterIsSound` | `[]ClusterInv` |
| | `InvalidationIsStrong` | `[]NodeInvalidationIsStrong` |
| | `MergedPeersServeNothingOlder` | `[]MergedPeerServesNothingOlder` |
| | `ClusterRefines` | `Spec => ImplementsMaxMerge`: the refinement |
| `ServerProofs` | `ServingIsSound`, `PermitsBalance`, `ClosesBehindTheLast` | `ConnInv`, `AdmissionIsBalanced`, `ClosedOnlyWhenDrained` |
| | `DrainOnlyShrinks` | `NoneOpensAfterStop`, an action property |
| | `GrantsHold` | `[]CredentialsHold` |
| | `ReloadsAreWhole` | `OnlyReloadsAndLoginsChangeHands`, an action property |

### The argument, module by module

`ShardInvariant` states the invariants of a shard and has the lemmas its three
users share: `ShardProofs` has the steps of the writer and the tables,
`CallProofs` the callers, `StaleInvariant` what is dead and stays dead.
`StaleProofs` puts the three together. A module extends only what its proofs
cite, since the prover looks through all it can see. `USE Zenon` makes Zenon the
prover of a leaf that names none; leaves with arithmetic say `SMT`.

**Registry (`ShardInvariant`, `ShardProofs`).** `RamBehindDisk`, which the
reclaimer relies on when it frees a record memory calls dead, is not inductive:
a commit replaces the disk, so the open transaction must itself be ahead of the
disk; and publication changes memory, so an effect must say no more than the
tables it is published over. `RegistryInv` adds these, the uniqueness of ids
(without which raising one tag could raise another) and that at most one epoch
step is open. There is a lemma per engine operation, one per action, and one for
restarts.

**Publication (`ShardInvariant`, `ShardProofs`).** `RamMatchesDisk` needs more
than "not ahead": what memory lacks must be on its way. `PublicationInv` says of
the effects of a batch that, for every name on disk, memory is at its generation
or some effect brings exactly that one; that generations of one name do not fall
along the queue, so the last one wins; and that a name is created before it is
raised. Each operation that emits effects has a lemma that it keeps this.

**Callers (`CallProofs`) and records (`ShardProofs`).** A record's tag refs are
resolved from memory long before they are written, by a caller whose process may
die, whose registration may fail softly inside a batch that commits, and whose
job sits in a queue. `CallsInv` follows one call: it has at most one job with
the writer and waits for it; a registration that was answered without a failure
is in the registry; refs resolved and records prepared are at generations memory
has. `RecordsInv` then says that every record, committed, in a state a power
loss may fall back to, or in the open transaction, carries refs its own call
resolved, against the registry the transaction started from, and that a
reclamation job is for a generation its tag has reached. `TagRefsAreRegistered`
follows. So does `MaintenanceSparesTheLiving`: maintenance judges by memory,
memory is the registry the transaction started from, and refs it calls dead are
below a generation that only grows. Without `RecordsInv` a record ahead of
memory could look dead and be live.

**Stale reads (`StaleInvariant`, `StaleProofs`).** `NoStaleRead` speaks of three
calls in a row: a write, an invalidation made after it returned, and a read made
after that returned. Nothing in it is inductive, because the read looks in three
separate steps at a snapshot, the epoch and the registry, and the invalidation
takes effect in a transaction, then on disk, then in memory, and is answered
only then. `StaleInv` says where the invalidation has got to. For one that has
returned, every record its predecessors wrote is dead by the registry and epoch
in memory, on disk, in the open transaction and in every snapshot taken since
(`Clean`, `Follows`): gone if its key was deleted, of an older epoch after a
flush, carrying an older generation after an invalidation by tag. For one in the
batch, the items already applied have done the same in the transaction, and all
of them on disk once it is committed (`BatchStruck`). That a tag's generation
judges a record at all needs that the refs a record carries cover every name its
call gave it, from resolving to storing (`Covered`, `JobCovered`); this is where
the proof uses `CallsInv` and `RecordsInv`. What has died stays dead since
generations and epochs only rise and every operation either leaves a record,
replaces it by one of a call that is still open, or rewrites it with the refs,
epoch and author it had (`Descends`). The theorem has three conditions, each
about something the code does not promise:

- `DistinctKeys`: a batch names a key once. A record remembers the call that
  wrote it, not the item, so with two items for one key the model cannot say
  which names the record should carry.
- `Durable`: commits are synced, or the power does not fail. With lazy commits
  a power loss may undo an invalidation that was answered, as
  `docs/operations.md` says of that mode.
- `Unsaturated`: no generation has reached `u64::MAX`, where `delete_by_tag`
  saturates and invalidates nothing more.

**CAS tokens and lanes (`StoreProofs`).** `Reserved`: a committed counter is
at most the counter in memory and, if the process may restart, at most the
durable watermark. It assumes that no reserving transaction fails in a process
that restarts, which `FindCas` shows to be needed. Uniqueness across shards is
arithmetic on `counter * ShardCount + s`. `LaneInv`: no lane is both owned and
free, none is free twice, and the counter that hands out lanes is past the
private ones whenever a thread is about to put it back. A count loaded from a
private lane is then still current when it is stored.

**Cluster (`ClusterProofs`).** The two safety properties
speak of answered invalidations and of peers that merged one; what makes them so
are the half-done ones. `ClusterInv` covers the stages of a write (what it registers is
reported by its node, what it captured its shard holds), of an invalidation
(the shards already bumped hold dead records), the queued messages and the
replies not yet read (each says what some node reports; one that says "applied"
finds the covered records at the generation sent), and what was covered by
answered ones. The steps of callers come first, then those of peers, and the step
simulation of `MaxMerge` is proved with each action.

**Reads (`StoreProofs`), connections and credentials (`ServerProofs`).**
`ConnInv` adds to the balance of permits the ids given out, the entries orphaned
by panics and the stages of shutdown. `ResInv` adds the marks earlier passes left and what a pass under way
has found. `SlotsOK` says that a shard gives a number to one thread, that a guard
holds its thread's number, that a start in a slot is that of a read still open,
and that the read of the only thread with a number is in its slot; a number two
shards gave out can hide a read, and nothing more. `CredInv` adds that the table in use is one of those
loaded; `GrammarsAgree` shows that the three ways to find a command's roles
agree for every command.

### Assumptions

`EngineAssumption`, `WriterAssumption`, `CasAssumption`, `LaneAssumption`,
`ClusterAssumption`, `ConnAssumption`, `ResAssumption`, `ReadersAssumption`,
`NoneAssumption`, `CommandsAssumption`: constants have their types, an operation
has the shape the protocols give it (it lists at least one item, a store has
finitely many names, a merged generation is a u64), and model values differ from
numbers and strings. TLC evaluates each on the runs above.

### Only model-checked

- **Liveness** (`EveryCallReturns`, `MaintenanceCatchesUp`,
  `EventuallyConverged`, `RequestsEnd`, `ConnectionsEnd`): fairness and ENABLED
  are beyond the prover.
- **`CountersAreExact`**: a scrape is a fold over the lanes, and what a fold
  computes needs induction over data. `AdditionsLand` is the step it rests on.
- **The other promises over `log`** (`AckedIsVisible`, `BatchIsAtomic`,
  `UpdatesAreAtomic`): they say that something is found, where `NoStaleRead` says
  that something is not, and need an invariant about what each reply has left in
  the tables; not attempted.
- **`IndexesAreExact`**: holds with distinct hashes only; its proof, over every
  write of the writer's loop, has not been attempted.
- **Recursive walks** (`ListingIsComplete`, `ParsersAgree`, `OneReplyEach`,
  `AnswersWhatWasSent`, `CallsAreAnswered`, `ArithmeticIsExact`): parsers,
  encoders and page walks compute by recursion over their input.
- **`GateBeforeEffect`, `BlocksAreSequential`, `EveryItemIsAnswered`**: what the
  runs of a block (`Slices`) and the parts of a batch are is computed by folds,
  which again needs induction over data.
- **`IntrospectionIsExact`, `StandInAgrees`, `LifetimesAreKept`,
  `RefusedChangesNothing`**: over recursive functions or bit operations, or not
  attempted.

## 5. Known deviations

Sentences of the repository the code does not keep, met while modelling, that
have no run of their own. Those with a name are stated beside the properties of
the run, and TLC violates each when it is added to the cfg.

| Property and cfg | What happens |
|---|---|
| `SyncIsDurable`, `ShardBatches` | A SYNC is answered (`writer.rs:668`) before the environment is synced, and a failed sync is only logged; `vash-store/src/lib.rs:526`. |
| `EveryExpiryRowIsOwned`, `ShardIndexes` | Reclaiming a record without a deadline leaves its expiry row (`reclaim.rs:256`); `apply.rs:311`. |
| `TagLimitHolds`, `ShardTags` with `MaxTags = 1` | Two registrations in one batch pass the limit together (`tags.rs:181`); `vash-store/src/lib.rs:170`. |
| `InvalidatedIsReclaimable`, `ShardTags` | A record prepared before an invalidation and applied after its reclamation is never removed (`reclaim.rs:273`); `docs/storage.md:113`. |
| `MaintenanceFailureIsHarmless`, `ShardIndexes` | An engine error in maintenance fails the writes of its batch (`writer.rs:612`); the comment at `writer.rs:610`. |
| `AnsweredPeerServesNothingOlder`, `ClusterConverges` | A peer whose merge failed answers and is counted (`cluster.rs:357`); `docs/protocol.md:1860`. |
| `AuthNeverGoesStale`, `Serving` | A write awaited after an AUTH of the same read is judged by the identity the read began with; the comment at `conn.rs:234`. |
| `RegistryShowsWhoIsConnected`, `Serving` | A task that panics inline leaves its entry in the registry (`lib.rs:565`); `connections.rs:1`. |
| `EveryCommandGetsItsValue`, `Protocols` | The header of an array is written before an error that may follow it (`resp.rs:1039`), and MSETTAGS whose arguments end before its tag count panics (`vash-proto` `resp/command.rs:826`), which in a release build ends the server; `docs/protocol.md:1686`. |
| `SilenceOnlyWhenAsked`, `Protocols` | The scan for `noreply` covers keys (memcached `text.rs:466`); `docs/protocol.md:1033`. |
| `RejectedBlocksAreConsumed`, `Protocols` | A rejected `ms` leaves its data block to be read as commands (`meta.rs:137`); `docs/protocol.md:1383`. |
| `DeltaIsTheMove`, `Protocols` | Of a float operation that is not clamped the delta asked for is reported, and the sum may have been rounded (`arith.rs:280`); `arith.rs:175`. |
| `NoWaitIsInherited`, `Components` | A command is charged the wait a merge or a moved task left on its thread; the comment at `writer.rs:136`. |
| `StandInIsFaithful`, `Components` | The stand-in does not register the tags of a refused write (`memory.rs:347`), so a later invalidation of them is answered differently, and a page of keys cut by the budget skips one of its keys (`memory.rs:556`); `memory.rs:15`. |
| `EveryReadIsMeasured`, `Components` | Two shards give one number to two threads, and the read of one hides or clears that of the other; `readers.rs:18`. |
| store.rs 125, 467 with tags.rs 331 | A registration racing an invalidation leaves shards at different generations; a later merge kills records written after the invalidation. |
| docs/opcodes.md:570 | DELETE_BY_TAG on a node that never registered the tag is not forwarded. |
| docs/protocol.md near 1870 | A node that a gossiped invalidation has not reached serves the older record until it has. |
| shard.rs:191 | `group` sorts unstably; docs/performance-proposals.md:298 says items of a shard keep their order. |
| env.rs:244 | A refused lock is not tried again until the map grows. |
| scan.rs 47, 76 | Tokens are issued before the lock, so one held back may not resolve. |
| conn.rs `write_all` | Has no deadline of its own. |
| vcp.rs 277 | A NO_REPLY request whose body does not decode is answered; docs/protocol.md:106, 882. |
| vash-client lib.rs 743 | A client used again after an abandoned call stays one answer behind. |

## 6. Not modelled

- The drain of the queue at a clean shutdown, and the text of metrics,
  statistics, administration and configuration.
- The wrap of the u32 flush epoch. Generations saturate in the model, but no run
  starts close to the limit.
- A change of bucket width or shard count between two openings; schema checks.
- Value bytes, memcached flags, the previous value of SET ... GET.
- Partial failure of a write over several shards: each shard's part is what
  `ShardWriter` models, their combination is not.
- Float texts with exponents or infinities; wordings of errors, among them the
  several ways a meta key is refused.
- `MemoryStore` lists with a pattern that matches everything, and `StandIn`
  stays below the limits on values and tags.
- VCP Stats is refused at decode. SLOWLOG, HELLO, AUTH
  and QUIT are answered at the connection and are not in the table `ParsersAgree`
  compares.
- The dependence of the line limits (`MAX_HEADER_LEN`, `MAX_LINE_LEN`) on how
  bytes arrive.
