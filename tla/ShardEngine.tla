----------------------------- MODULE ShardEngine -----------------------------
(***************************************************************************)
(* The storage engine of one shard (crates/vash-store/src/apply.rs,        *)
(* tags.rs, expiry.rs, reclaim.rs): what every operation does to the       *)
(* tables of the write transaction it runs in.                             *)
(*                                                                         *)
(* The module has no variables.  An operation is an operator from the      *)
(* in-memory state of the engine (ram), the tables as the transaction sees *)
(* them (t) and its arguments to the tables and memory it leaves behind.   *)
(* ShardWriter turns the operators into the steps of the writer thread.    *)
(*                                                                         *)
(* A table is a function whose domain is the set of keys it holds:         *)
(*   main    user key             -> record                                *)
(*   exp     <<bucket, hash>>     -> user key     (expiry index)           *)
(*   tagidx  <<tag id, hash>>     -> user key     (tag index)              *)
(*   tags    tag name             -> [id, gen]    (tag registry)           *)
(*   jobs    tag id               -> [target, cursor]  (reclamation jobs)  *)
(* and the meta table is the two fields epoch and casMark.                 *)
(***************************************************************************)
EXTENDS Integers, FiniteSets

CONSTANTS
  Keys,          \* user keys
  Names,         \* tag names
  Hash,          \* xxh3_64, as a function from Keys to Nat
  Granularity,   \* bucket_granularity_ms
  U64Max,        \* u64::MAX
  CasBlock,      \* CAS_BLOCK
  MaxTags,       \* store.tags.max_tags
  MaxLen,        \* max_value_len
  MaxTtlSecs,    \* MAX_TTL_SECS
  AlreadyExpired \* TTL_ALREADY_EXPIRED

ASSUME EngineAssumption ==
  /\ Hash \in [Keys -> Nat]
  /\ Granularity \in Nat
  /\ U64Max \in Nat \ {0}
  /\ CasBlock \in Nat \ {0}
  /\ MaxTags \in Nat
  /\ MaxLen \in Nat
  /\ MaxTtlSecs \in Nat /\ AlreadyExpired \in Nat /\ AlreadyExpired > MaxTtlSecs

----------------------------------------------------------------------------
(* Tables *)

Put(f, k, v) == [x \in DOMAIN f \cup {k} |-> IF x = k THEN v ELSE f[x]]

Delete(f, S) == [x \in DOMAIN f \ S |-> f[x]]

Empty == [x \in {} |-> x]

\* The rows among `rows` that come first in key order, at most n of them.
FirstRows(rows, n) ==
  {r \in rows :
     Cardinality({q \in rows : q[1] < r[1] \/ (q[1] = r[1] /\ q[2] < r[2])}) < n}

----------------------------------------------------------------------------
(* Records and their liveness (vash-core record.rs, clock.rs) *)

NEVER == 0

\* Mutant: a newer generation in memory keeps the record alive.
RamHoldsOrPassed(ramTags, id, gen) ==
  \E n \in DOMAIN ramTags : ramTags[n].id = id /\ ramTags[n].gen >= gen

\* The in-memory generation of a tag id; unknown ids have none.
RamHolds(ramTags, id, gen) ==
  \E n \in DOMAIN ramTags : ramTags[n].id = id /\ ramTags[n].gen = gen

is_expired(r, now) == r.exp # NEVER /\ r.exp <= now

tags_alive(r, ramTags) ==
  \A id \in DOMAIN r.tags : RamHolds(ramTags, id, r.tags[id])

is_alive(r, now, epoch, ramTags) ==
  /\ r.epoch = epoch
  /\ ~is_expired(r, now)
  /\ tags_alive(r, ramTags)

live_in(ram, t, now, k) ==
  k \in DOMAIN t.main /\ is_alive(t.main[k], now, ram.epoch, ram.tags)

\* memcached's overloading of exptime; the clock counts seconds from 1, so a
\* deadline of 1 has always passed.
expiry_from_ttl(now, ttl) ==
  CASE ttl = 0 -> NEVER
    [] ttl = AlreadyExpired -> 1
    [] ttl > MaxTtlSecs /\ ttl # AlreadyExpired -> ttl
    [] OTHER -> now + ttl

\* ttl is a TtlChange: "keep", "set" to secs, or "enx" (SetIfPersistent).
deadline_after(now, ttl, current) ==
  IF ttl.how = "keep" \/ (ttl.how = "enx" /\ current # NEVER)
  THEN current
  ELSE expiry_from_ttl(now, ttl.secs)

----------------------------------------------------------------------------
(* The expiry index (expiry.rs) *)

NEVER_BUCKET == U64Max

bucket(at) ==
  CASE Granularity <= 1                 -> at
    [] at + (Granularity - 1) > U64Max  -> U64Max
    [] OTHER -> ((at + (Granularity - 1)) \div Granularity) * Granularity

bucket_for(at) == IF at = NEVER THEN NEVER_BUCKET ELSE bucket(at)

ExpKey(at, k) == <<bucket_for(at), Hash[k]>>

TagKey(id, k) == <<id, Hash[k]>>

TagRows(r, k) == {TagKey(id, k) : id \in DOMAIN r.tags}

\* Whether the index row still describes the record stored under its key.
Current(t, row) ==
  /\ t.exp[row] \in DOMAIN t.main
  /\ bucket_for(t.main[t.exp[row]].exp) = row[1]

\* One bounded pass over the front of the index.  With `anything` it frees
\* live records too (eviction); without, only expired ones (the sweep).
drain_expiry_index(t, now, budget, anything) ==
  LET due     == {row \in DOMAIN t.exp : anything \/ row[1] <= now}
      victims == FirstRows(due, budget)
      taken   == {t.exp[row] : row \in {v \in victims :
                    Current(t, v) /\ (anything \/ is_expired(t.main[t.exp[v]], now))}}
  IN  [t |-> [t EXCEPT
         !.main   = Delete(@, taken),
         !.exp    = Delete(@, victims),
         !.tagidx = Delete(@, UNION {TagRows(t.main[k], k) : k \in taken})],
       freed |-> Cardinality(taken)]

sweep(t, now, budget) == drain_expiry_index(t, now, budget, FALSE)

evict(t, now, budget) == drain_expiry_index(t, now, budget, TRUE)

\* What a measured level of capacity pressure frees; soft pressure is only
\* reported.
apply_pressure(t, now, budget, level) ==
  IF level \in {"hard", "critical"} THEN evict(t, now, budget) ELSE [t |-> t, freed |-> 0]

----------------------------------------------------------------------------
(* Writes (apply.rs).  A prepared write p carries the key, the tag refs and *)
(* epoch captured by the caller, the value, its author ver, and a deadline  *)
(* that is either settled or left to the writer (Deferred).                 *)

Deferred == -1

next_cas(ram, t) ==
  LET counter   == ram.casNext + 1
      exhausted == counter >= ram.casMark
      mark      == counter + CasBlock
  IN  [ram |-> [ram EXCEPT !.casNext = counter,
                           !.casMark = IF exhausted THEN mark ELSE @],
       t   |-> [t EXCEPT !.casMark = IF exhausted THEN mark ELSE @],
       cas |-> counter]

\* Mutant: a dead record's tag rows are left behind.
DisplacedLive(ram, t, now, k) ==
  LET live == live_in(ram, t, now, k)
  IN  [live     |-> live,
       present  |-> k \in DOMAIN t.main,
       deadline |-> IF live THEN t.main[k].exp ELSE NEVER,
       tagRows  |-> IF live THEN TagRows(t.main[k], k) ELSE {},
       expRow   |-> IF k \in DOMAIN t.main THEN {ExpKey(t.main[k].exp, k)} ELSE {}]

\* What the record under k was holding, live or not.
displaced(ram, t, now, k) ==
  LET live == live_in(ram, t, now, k)
  IN  [live     |-> live,
       present  |-> k \in DOMAIN t.main,
       deadline |-> IF live THEN t.main[k].exp ELSE NEVER,
       tagRows  |-> IF k \in DOMAIN t.main THEN TagRows(t.main[k], k) ELSE {},
       expRow   |-> IF k \in DOMAIN t.main THEN {ExpKey(t.main[k].exp, k)} ELSE {}]

\* Mutant: an overwrite never writes an expiry row.
MovesWhenNew(d, expRow) == ~d.present

\* The expiry row is left alone when the record stays in its bucket.
Moves(d, expRow) == ~d.present \/ expRow \notin d.expRow

apply_set(ram, t, now, p) ==
  LET c      == next_cas(ram, t)
      d      == displaced(ram, t, now, p.key)
      at     == IF p.exp = Deferred THEN deadline_after(now, p.ttl, d.deadline) ELSE p.exp
      record == [epoch |-> p.epoch, exp |-> at, cas |-> c.cas, tags |-> p.tags,
                 val |-> p.val, ver |-> p.ver]
      expRow == ExpKey(at, p.key)
      rows   == TagRows(record, p.key)
      kept   == Delete(c.t.tagidx, d.tagRows)
  IN  [ram |-> c.ram,
       t   |-> [c.t EXCEPT
                  !.main   = Put(@, p.key, record),
                  !.exp    = IF Moves(d, expRow) THEN Put(Delete(@, d.expRow), expRow, p.key) ELSE @,
                  !.tagidx = [x \in DOMAIN kept \cup rows |->
                                IF x \in rows THEN p.key ELSE kept[x]]],
       cas |-> c.cas]

\* A successful write's result, and one that changed nothing.
Applied(a, res, n) == [ram |-> a.ram, t |-> a.t, res |-> res, n |-> n, eff |-> <<>>]

Nothing(ram, t, res, n) == [ram |-> ram, t |-> t, res |-> res, n |-> n, eff |-> <<>>]

WriteSet(ram, t, now, p) ==
  LET a == apply_set(ram, t, now, p) IN Applied(a, "stored", a.cas)

apply_delete(ram, t, now, k) ==
  LET d == displaced(ram, t, now, k)
  IN  Nothing(ram, [t EXCEPT !.main   = Delete(@, {k}),
                             !.exp    = Delete(@, d.expRow),
                             !.tagidx = Delete(@, d.tagRows)],
              IF d.live THEN "deleted" ELSE "miss", 0)

\* In-place rewrite of a record: same tag table, everything else given.
rewrite(ram, t, now, k, tags, epoch, at, val, ver) ==
  apply_set(ram, t, now, [key |-> k, tags |-> tags, epoch |-> epoch, exp |-> at,
                          ttl |-> [how |-> "keep", secs |-> 0], val |-> val, ver |-> ver])

apply_touch(ram, t, now, k, secs) ==
  IF ~live_in(ram, t, now, k) THEN Nothing(ram, t, "miss", 0)
  ELSE LET r == t.main[k]
       IN  Applied(rewrite(ram, t, now, k, r.tags, r.epoch,
                           expiry_from_ttl(now, secs), r.val, r.ver), "touched", 0)

\* The record p's conditional write stores: concatenation keeps the stored
\* deadline but takes the tags of the request and the epoch in memory.
Concatenated(ram, r, p) ==
  [p EXCEPT !.val = r.val + p.val, !.exp = r.exp, !.epoch = ram.epoch]

Concats(p) == p.mode \in {"append", "prepend"}

\* Mutant: compare-and-swap without the compare.
RefusalUncompared(p, live, r) ==
  CASE p.mode = "add" /\ live   -> "not_stored"
    [] p.mode = "cas" /\ ~live  -> "not_found"
    [] p.mode \in {"replace", "append", "prepend"} /\ ~live -> "not_stored"
    [] Concats(p) /\ live /\ r.val + p.val > MaxLen -> "too_large"
    [] OTHER -> "none"

\* Why a conditional write is not made.
Refusal(p, live, r) ==
  CASE p.mode = "add" /\ live   -> "not_stored"
    [] p.mode = "cas" /\ ~live  -> "not_found"
    [] p.mode \in {"replace", "append", "prepend"} /\ ~live -> "not_stored"
    [] p.mode = "cas" /\ live /\ r.cas # p.expected -> "exists"
    [] Concats(p) /\ live /\ r.val + p.val > MaxLen -> "too_large"
    [] OTHER -> "none"

apply_conditional_set(ram, t, now, p) ==
  LET r       == t.main[p.key]
      refusal == Refusal(p, live_in(ram, t, now, p.key), r)
  IN  IF refusal # "none" THEN Nothing(ram, t, refusal, 0)
      ELSE WriteSet(ram, t, now, IF Concats(p) THEN Concatenated(ram, r, p) ELSE p)

\* ExpireGuard: a persistent record is infinitely far off.
GuardAdmits(guard, current, target) ==
  CASE guard = "always"        -> TRUE
    [] guard = "if_persistent" -> current = NEVER
    [] guard = "if_volatile"   -> current # NEVER
    [] guard = "if_later"      -> current # NEVER /\ target # NEVER /\ target > current
    [] guard = "if_earlier"    -> target # NEVER /\ (current = NEVER \/ target < current)

apply_expire(ram, t, now, k, ttl, guard) ==
  IF ~live_in(ram, t, now, k) THEN Nothing(ram, t, "miss", 0)
  ELSE LET r      == t.main[k]
           target == deadline_after(now, ttl, r.exp)
       IN  CASE ~GuardAdmits(guard, r.exp, target) -> Nothing(ram, t, "refused", 0)
             [] GuardAdmits(guard, r.exp, target) /\ target # NEVER /\ target <= now ->
                  apply_delete(ram, t, now, k)
             [] OTHER -> Applied(rewrite(ram, t, now, k, r.tags, r.epoch, target,
                                         r.val, r.ver), "expire_set", 0)

\* INCR by one.  `missing` is "create" or "fail", `bound` the ceiling a skip
\* leaves the value under; the arithmetic itself is vash-core's.
apply_arithmetic(ram, t, now, k, missing, bound, ttl, ver) ==
  LET live == live_in(ram, t, now, k)
      r    == t.main[k]
      old  == IF live THEN r.val ELSE 0
  IN  CASE ~live /\ missing = "fail" -> Nothing(ram, t, "missing", 0)
        [] (live \/ missing = "create") /\ old + 1 > bound -> Nothing(ram, t, "unchanged", old)
        [] OTHER ->
             Applied(rewrite(ram, t, now, k, IF live THEN r.tags ELSE Empty, ram.epoch,
                             deadline_after(now, ttl, IF live THEN r.exp ELSE NEVER),
                             old + 1, IF live THEN r.ver ELSE ver),
                     "counted", old + 1)

apply_append(ram, t, now, k, len, ver) ==
  LET live == live_in(ram, t, now, k)
      r    == t.main[k]
      val  == IF live THEN r.val + len ELSE len
  IN  IF val > MaxLen THEN Nothing(ram, t, "too_large", 0)
      ELSE Applied(rewrite(ram, t, now, k, IF live THEN r.tags ELSE Empty, ram.epoch,
                           IF live THEN r.exp ELSE NEVER, val, IF live THEN r.ver ELSE ver),
                   "length", val)

apply_flush(ram, t) ==
  [ram |-> ram,
   t   |-> [t EXCEPT !.epoch = ram.epoch + 1, !.main = Empty, !.exp = Empty,
                     !.tagidx = Empty, !.jobs = Empty],
   res |-> "flushed", n |-> ram.epoch + 1,
   eff |-> <<[what |-> "epoch", epoch |-> ram.epoch + 1]>>]

----------------------------------------------------------------------------
(* The tag registry (tags.rs) *)

\* Ids come from memory and the limit is checked against memory: the names
\* published so far, not the ones this transaction has already added.
TagLimitReached(ram) == Cardinality(DOMAIN ram.tags) >= MaxTags

TagCreated(name, entry) == [what |-> "created", name |-> name, entry |-> entry]

TagGeneration(id, gen) == [what |-> "raised", id |-> id, gen |-> gen]

\* Mutant: memory learns of the tag before the commit.
CreateTagAtOnce(ram, t, name, start) ==
  LET entry == [id |-> ram.nextId, gen |-> start]
  IN  IF name \in DOMAIN t.tags
      THEN Nothing(ram, t, "created", t.tags[name].gen)
      ELSE [ram |-> [ram EXCEPT !.nextId = @ + 1, !.tags = Put(@, name, entry)],
            t   |-> [t EXCEPT !.tags = Put(@, name, entry)],
            res |-> "created", n |-> start,
            eff |-> <<TagCreated(name, entry)>>]

\* Mutant: the id is the number of tags in memory.
CreateTagCounted(ram, t, name, start) ==
  LET entry == [id |-> Cardinality(DOMAIN ram.tags), gen |-> start]
  IN  IF name \in DOMAIN t.tags
      THEN [ram |-> ram, t |-> t, res |-> "created", n |-> t.tags[name].gen,
            eff |-> <<TagCreated(name, t.tags[name])>>]
      ELSE [ram |-> [ram EXCEPT !.nextId = @ + 1],
            t   |-> [t EXCEPT !.tags = Put(@, name, entry)],
            res |-> "created", n |-> start,
            eff |-> <<TagCreated(name, entry)>>]

apply_create_tag(ram, t, name, start) ==
  CASE name \in DOMAIN t.tags ->
         [ram |-> ram, t |-> t, res |-> "created", n |-> t.tags[name].gen,
          eff |-> <<TagCreated(name, t.tags[name])>>]
    [] name \notin DOMAIN t.tags /\ TagLimitReached(ram) ->
         Nothing(ram, t, "tag_limit", 0)
    [] OTHER ->
         LET entry == [id |-> ram.nextId, gen |-> start]
         IN  [ram |-> [ram EXCEPT !.nextId = @ + 1],
              t   |-> [t EXCEPT !.tags = Put(@, name, entry)],
              res |-> "created", n |-> start,
              eff |-> <<TagCreated(name, entry)>>]

\* A raised generation (re)queues the tag's reclamation from the start.
NoCursor == -1

apply_merge_tag(ram, t, name, gen) ==
  CASE name \notin DOMAIN t.tags -> apply_create_tag(ram, t, name, gen)
    [] name \in DOMAIN t.tags /\ gen <= t.tags[name].gen ->
         Nothing(ram, t, "merged", t.tags[name].gen)
    [] OTHER ->
         LET id == t.tags[name].id
         IN  [ram |-> ram,
              t   |-> [t EXCEPT !.tags = Put(@, name, [id |-> id, gen |-> gen]),
                                !.jobs = Put(@, id, [target |-> gen, cursor |-> NoCursor])],
              res |-> "merged", n |-> gen,
              eff |-> <<TagGeneration(id, gen)>>]

\* Bumps the generation the transaction sees; saturates at u64::MAX.
apply_delete_by_tag(ram, t, name) ==
  IF name \notin DOMAIN t.tags THEN Nothing(ram, t, "unknown_tag", 0)
  ELSE LET entry  == t.tags[name]
           merged == apply_merge_tag(ram, t, name, entry.gen + 1)
       IN  IF entry.gen = U64Max
           THEN [Nothing(ram, t, "invalidated", entry.gen)
                   EXCEPT !.eff = <<TagGeneration(entry.id, entry.gen)>>]
           ELSE [merged EXCEPT !.res = "invalidated"]

\* TagRegistry::insert and merge_generation, run when a commit is published.
insert(ramTags, name, entry) == Put(ramTags, name, entry)

merge_generation(ramTags, id, gen) ==
  [n \in DOMAIN ramTags |->
     IF ramTags[n].id = id /\ ramTags[n].gen < gen
     THEN [ramTags[n] EXCEPT !.gen = gen] ELSE ramTags[n]]

\* Mutant: resumes at the largest id instead of past it.
LoadLastId(diskTags) ==
  LET ids == {diskTags[n].id : n \in DOMAIN diskTags}
  IN  IF ids = {} THEN 0 ELSE CHOOSE i \in ids : \A j \in ids : j <= i

\* load_from: the registry and the id counter a restart rebuilds.
load_next_id(diskTags) ==
  LET ids == {diskTags[n].id : n \in DOMAIN diskTags}
  IN  IF ids = {} THEN 0 ELSE 1 + CHOOSE i \in ids : \A j \in ids : j <= i

resolve(ram, names) ==
  LET entries == {ram.tags[n] : n \in names}
  IN  [id \in {e.id : e \in entries} |-> (CHOOSE e \in entries : e.id = id).gen]

missing(ram, names) == names \ DOMAIN ram.tags

----------------------------------------------------------------------------
(* Reclamation of invalidated records (reclaim.rs) *)

\* Mutant: records written since the invalidation are taken too.
DoomedAtTarget(r, id, target) == r.tags[id] <= target

\* The record was written before the invalidation the job is for.
Doomed(r, id, target) == r.tags[id] < target

\* One bounded step of the job with the lowest tag id.
reclaim_step(ram, t, now, budget) ==
  LET id      == CHOOSE i \in DOMAIN t.jobs : \A j \in DOMAIN t.jobs : i <= j
      job     == t.jobs[id]
      range   == {row \in DOMAIN t.tagidx : row[1] = id /\ row[2] > job.cursor}
      batch   == FirstRows(range, budget)
      key(row)     == t.tagidx[row]
      litter(row)  == key(row) \notin DOMAIN t.main \/ id \notin DOMAIN t.main[key(row)].tags
      doomed(row)  == Doomed(t.main[key(row)], id, job.target)
      knownDead(row) == ~is_alive(t.main[key(row)], now, ram.epoch, ram.tags)
      gone    == {key(row) : row \in {x \in batch : ~litter(x) /\ (doomed(x) \/ knownDead(x))}}
      cursor  == IF batch = {} THEN job.cursor
                 ELSE (CHOOSE x \in batch : \A y \in batch : y[2] <= x[2])[2]
      done    == Cardinality(batch) < budget
  IN  [t |-> [t EXCEPT
         !.main   = Delete(@, gone),
         !.exp    = Delete(@, {ExpKey(t.main[k].exp, k) : k \in {g \in gone : t.main[g].exp # NEVER}}),
         !.tagidx = Delete(@, {x \in batch : litter(x)}
                              \cup UNION {TagRows(t.main[k], k) : k \in gone}),
         !.jobs   = IF done THEN Delete(@, {id})
                    ELSE Put(@, id, [job EXCEPT !.cursor = cursor])],
       completed |-> done]

============================================================================
