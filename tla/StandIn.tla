------------------------------ MODULE StandIn ------------------------------
(***************************************************************************)
(* The in-memory store stands in for the real one in the server's tests,   *)
(* so it must answer as the real one does.  Every call is made of both: of *)
(* MemoryStore, and of a VashStore with one idle shard, whose writer takes *)
(* the call alone (store.rs over ShardEngine).  In between, the shard also *)
(* sweeps, reclaims and is restarted, which nobody may notice.             *)
(*                                                                         *)
(* The two part at one place.  The real store registers the tags of a      *)
(* guarded write before it learns that the write is refused (store.rs      *)
(* store), the stand-in does not; a tag only such a write named is known   *)
(* to one and not to the other, and `parted` is set when it is deleted by. *)
(* From there on they are no longer compared.                              *)
(***************************************************************************)
EXTENDS Integers, Sequences, FiniteSets

CONSTANTS Keys, Names, MaxTtlSecs, AlreadyExpired, Calls, MaxCalls, MaxNow

VARIABLES
    inner,      \* MemoryStore's state
    ram, t,     \* the shard's memory and its tables
    now,
    made,       \* how many calls were made
    answers,    \* what the two stores said to the last call
    token,      \* for every key, the CAS tokens a client last read of it
    parted      \* a tag the stand-in does not know was deleted by

standVars == <<inner, ram, t, now, made, answers, token, parted>>

Memory == INSTANCE MemoryStore

Shard == INSTANCE ShardEngine WITH
    Hash <- [k \in Keys |-> k], Granularity <- 2, U64Max <- 100, CasBlock <- 2,
    MaxTags <- Cardinality(Names), MaxLen <- 100

-----------------------------------------------------------------------------
(* The shard's side: registration, preparation, the writer's own work and   *)
(* the publication of its effects, with nobody else's in between.           *)

Publish(r, e) ==
    CASE e.what = "created" -> [r EXCEPT !.tags = Shard!insert(@, e.name, e.entry)]
      [] e.what = "raised"  -> [r EXCEPT !.tags = Shard!merge_generation(@, e.id, e.gen)]
      [] e.what = "epoch"   -> [r EXCEPT !.epoch = e.epoch]

(* A committed write, its effects published. *)
Committed(w) == [ram |-> IF w.eff = <<>> THEN w.ram ELSE Publish(w.ram, w.eff[1]),
                 t |-> w.t, res |-> w.res, n |-> w.n]

ensure_tags_registered(s, names) ==
    LET new == SelectSeq(names, LAMBDA n : n \notin DOMAIN s.ram.tags)
    IN  Memory!FoldLeft(LAMBDA at, n : Committed(Shard!apply_create_tag(at.ram, at.t, n, 0)),
                        s, new)

(* prepare_set: an absolute deadline is settled by the caller. *)
Prepared(s, set) ==
    [key |-> set.key, tags |-> Shard!resolve(s.ram, {set.names[i] : i \in DOMAIN set.names}),
     epoch |-> s.ram.epoch, val |-> set.val, ver |-> 0, ttl |-> set.ttl,
     mode |-> set.mode, expected |-> set.expected,
     exp |-> IF set.ttl.how = "set" THEN Shard!expiry_from_ttl(now, set.ttl.secs)
             ELSE Shard!Deferred]

Found(s, k) ==
    IF Shard!live_in(s.ram, s.t, now, k)
    THEN <<[val |-> s.t.main[k].val, exp |-> s.t.main[k].exp]>> ELSE <<>>

(* Every tag of the batch is registered and every write prepared first. *)
SetMany(s, sets) ==
    LET known == ensure_tags_registered(s, Memory!FlattenSeq([i \in DOMAIN sets |-> sets[i].names]))
    IN  Memory!FoldLeft(LAMBDA at, set :
                            Committed(Shard!WriteSet(at.ram, at.t, now, Prepared(known, set))),
                        known, sets)

TouchMany(s, keys, secs) ==
    Memory!FoldLeft(LAMBDA at, k : Committed(Shard!apply_touch(at.ram, at.t, now, k, secs)), s,
                    SelectSeq(keys, LAMBDA k : Found(s, k) # <<>>))

(* A result as the trait reports it: whether anything was there. *)
Hit(w) == w.res \in {"deleted", "touched", "expire_set"}

Answered(w, answer) == [ram |-> w.ram, t |-> w.t, answer |-> answer]

Real(s, call) ==
    CASE call.op = "get" -> Answered(s, [i \in DOMAIN call.keys |-> Found(s, call.keys[i])])
      [] call.op = "set_many" -> Answered(SetMany(s, call.sets), TRUE)
      [] call.op = "set_many_if" ->
           LET hits == {i \in DOMAIN call.sets : Found(s, call.sets[i].key) # <<>>}
               goes == \/ call.guard = "always"
                       \/ call.guard = "absent" /\ hits = {}
                       \/ call.guard = "present" /\ hits = DOMAIN call.sets
           IN  IF goes THEN Answered(SetMany(s, call.sets), TRUE) ELSE Answered(s, FALSE)
      [] call.op = "store" ->
           LET known == ensure_tags_registered(s, call.set.names)
               p     == [Prepared(known, call.set) EXCEPT
                            !.expected = token[call.set.key].shard]
               w     == Committed(Shard!apply_conditional_set(known.ram, known.t, now, p))
           IN  Answered(w, w.res)
      [] call.op = "arithmetic" ->
           LET w == Committed(Shard!apply_arithmetic(s.ram, s.t, now, call.key, call.absent,
                                                     call.bound, call.ttl, 0))
           IN  Answered(w, <<w.res, w.n>>)
      [] call.op = "append" ->
           LET w == Committed(Shard!apply_append(s.ram, s.t, now, call.key, 1, 0))
           IN  Answered(w, w.n)
      [] call.op = "expire" ->
           LET w == Committed(Shard!apply_expire(s.ram, s.t, now, call.key, call.ttl, call.guard))
           IN  Answered(w, Hit(w))
      [] call.op = "touch" ->
           LET w == Committed(Shard!apply_touch(s.ram, s.t, now, call.key, call.secs))
           IN  Answered(w, Hit(w))
      [] call.op = "get_and_touch" ->
           Answered(TouchMany(s, call.keys, call.secs),
                    [i \in DOMAIN call.keys |-> Found(s, call.keys[i])])
      [] call.op = "delete" ->
           LET w == Committed(Shard!apply_delete(s.ram, s.t, now, call.key))
           IN  Answered(w, Hit(w))
      [] call.op = "delete_many" ->
           Memory!FoldLeft(LAMBDA at, k :
                             LET w == Committed(Shard!apply_delete(at.ram, at.t, now, k))
                             IN  Answered(w, Append(at.answer, Hit(w))),
                           Answered(s, <<>>), call.keys)
      [] call.op = "delete_by_tag" ->
           LET w == Committed(Shard!apply_delete_by_tag(s.ram, s.t, call.name))
           IN  Answered(w, IF w.res = "unknown_tag" THEN <<>> ELSE <<w.n>>)
      [] call.op = "merge_tag" ->
           LET w == Committed(Shard!apply_merge_tag(s.ram, s.t, call.name, call.gen))
           IN  Answered(w, w.n)
      [] call.op = "flush" ->
           LET w == Committed(Shard!apply_flush(s.ram, s.t)) IN Answered(w, w.n)

-----------------------------------------------------------------------------
(* The stand-in's side.                                                     *)

Fake(call) ==
    CASE call.op = "get" -> Memory!Done(inner, Memory!get_many(inner, call.keys, now))
      [] call.op = "set_many" -> Memory!Done(Memory!set_many(inner, call.sets, now), TRUE)
      [] call.op = "set_many_if" -> Memory!set_many_if(inner, call.sets, call.guard, now)
      [] call.op = "store" ->
           Memory!store(inner, [call.set EXCEPT !.expected = token[call.set.key].memory], now)
      [] call.op = "arithmetic" ->
           Memory!arithmetic(inner, call.key, call.absent, call.bound, call.ttl, now)
      [] call.op = "append" -> Memory!append(inner, call.key, 1, now)
      [] call.op = "expire" -> Memory!expire(inner, call.key, call.ttl, call.guard, now)
      [] call.op = "touch" -> Memory!touch(inner, call.key, call.secs, now)
      [] call.op = "get_and_touch" -> Memory!get_and_touch(inner, call.keys, call.secs, now)
      [] call.op = "delete" -> Memory!delete(inner, call.key, now)
      [] call.op = "delete_many" -> Memory!delete_many(inner, call.keys, now)
      [] call.op = "delete_by_tag" -> Memory!delete_by_tag(inner, call.name)
      [] call.op = "merge_tag" -> Memory!merge_tag_generation(inner, call.name, call.gen)
      [] call.op = "flush" -> Memory!flush(inner)

-----------------------------------------------------------------------------
(* The steps.                                                               *)

(* The tags that are registered in the real store alone. *)
Strays == DOMAIN ram.tags \ DOMAIN inner.tags

Call(call) ==
    /\ made < MaxCalls
    /\ ~parted
    /\ made' = made + 1
    /\ \E real \in {Real([ram |-> ram, t |-> t], call)}, fake \in {Fake(call)} :
         /\ ram' = real.ram /\ t' = real.t /\ inner' = fake.inner
         /\ answers' = <<fake.answer, real.answer>>
    /\ parted' = (call.op = "delete_by_tag" /\ call.name \in Strays)
    /\ UNCHANGED <<now, token>>

(* A client keeps the tokens of a record it reads, for a later `cas`. *)
ReadToken(k) ==
    /\ Memory!live(inner, k, now)
    /\ Shard!live_in(ram, t, now, k)
    /\ token' = [token EXCEPT ![k] = [memory |-> inner.entries[k].cas, shard |-> t.main[k].cas]]
    /\ UNCHANGED <<inner, ram, t, now, made, answers, parted>>

Tick == now < MaxNow /\ now' = now + 1 /\ UNCHANGED <<inner, ram, t, made, answers, token, parted>>

(* A pass of the shard's maintenance, and a restart. *)
Sweep ==
    /\ t' = Shard!sweep(t, now, 1).t
    /\ UNCHANGED <<inner, ram, now, made, answers, token, parted>>

Reclaim ==
    /\ DOMAIN t.jobs # {}
    /\ t' = Shard!reclaim_step(ram, t, now, 1).t
    /\ UNCHANGED <<inner, ram, now, made, answers, token, parted>>

Reopened ==
    [epoch |-> t.epoch, tags |-> t.tags, nextId |-> Shard!load_next_id(t.tags),
     casNext |-> t.casMark, casMark |-> t.casMark, pressure |-> "normal"]

Reopen == ram' = Reopened /\ UNCHANGED <<inner, t, now, made, answers, token, parted>>

StandInit ==
    /\ inner = Memory!Inner
    /\ t = [main |-> <<>>, exp |-> <<>>, tagidx |-> <<>>, tags |-> <<>>, jobs |-> <<>>,
            epoch |-> 0, casMark |-> 0, seq |-> 0]
    /\ ram = Reopened
    /\ now = 1 /\ made = 0 /\ answers = <<0, 0>> /\ parted = FALSE
    /\ token = [k \in Keys |-> [memory |-> 0, shard |-> 0]]

StandNext ==
    \/ \E call \in Calls : Call(call)
    \/ \E k \in Keys : ReadToken(k)
    \/ Tick \/ Sweep \/ Reclaim \/ Reopen

-----------------------------------------------------------------------------
(* Properties.                                                              *)

TagsOf(tags, refs) == {n \in DOMAIN tags : tags[n].id \in DOMAIN refs}

(* memory.rs: whatever is called, in whatever order and at whatever time,   *)
(* the stand-in answers as the real store does, and holds the same records  *)
(* alive with the same values, deadlines and tags, whether or not the real  *)
(* one has swept, reclaimed or been restarted.  What it does not know are   *)
(* tags that refused writes alone have named, which no record carries and   *)
(* nobody has deleted by.  The first to do so is told the generation by the *)
(* real store, and by the stand-in that there is no such tag.               *)
StandInAgrees ==
    IF parted THEN answers = <<<<>>, <<1>>>>
    ELSE /\ answers[1] = answers[2]
         /\ \A k \in Keys : Memory!get(inner, k, now) = Found([ram |-> ram, t |-> t], k)
         /\ \A k \in Keys : Memory!live(inner, k, now) =>
              TagsOf(inner.tags, inner.entries[k].tags) = TagsOf(ram.tags, t.main[k].tags)
         /\ \A n \in DOMAIN ram.tags :
              ram.tags[n].gen = IF n \in Strays THEN 0 ELSE Memory!tag_generations(inner)[n]
         /\ DOMAIN inner.tags \subseteq DOMAIN ram.tags

(* memory.rs:15: the semantics of the trait are reproduced faithfully.      *)
StandInIsFaithful == answers[1] = answers[2]

(* The keys on n pages of a listing that examines at most max_scan keys for *)
(* each, the keys a page was cut at, and whether there is more.             *)
Paged(limit, max_scan, n) ==
    Memory!FoldLeft(
        LAMBDA so, i :
            IF ~so.more THEN so
            ELSE LET page == Memory!list_keys(inner, so.cursor, limit, max_scan, now)
                 IN  [shown |-> so.shown \o page.entries, cursor |-> page.cursor,
                      cutAt |-> so.cutAt \cup IF page.truncated THEN {page.cursor[1]} ELSE {},
                      more |-> page.cursor # <<>>],
        [shown |-> <<>>, cutAt |-> {}, cursor |-> <<>>, more |-> TRUE],
        [i \in 1..n |-> i])

LiveKeys == {k \in Keys : Memory!live(inner, k, now)}

(* memory.rs list_keys: pages of any length and budget, one after the       *)
(* other, show every live key once and in order, and then end; but a page   *)
(* that runs out of its budget gives the key it stopped before as its       *)
(* cursor, and the next page begins after it.                               *)
StandInListsAll ==
    \A limit, max_scan \in 1..Cardinality(Keys) :
        LET pages == Paged(limit, max_scan, Cardinality(Keys) + 1)
        IN  /\ ~pages.more
            /\ pages.shown = Memory!Sorted(LiveKeys \ pages.cutAt)

(* vash-store/src/lib.rs list_keys: the pages show every live key.          *)
StandInShowsEveryKey ==
    \A limit, max_scan \in 1..Cardinality(Keys) :
        Paged(limit, max_scan, Cardinality(Keys) + 1).shown = Memory!Sorted(LiveKeys)
=============================================================================
