--------------------------- MODULE StaleInvariant ---------------------------
(***************************************************************************)
(* Why an invalidation that has returned is final: the inductive invariant *)
(* behind NoStaleRead, and what keeps it while callers read, resolve,      *)
(* prepare and submit and while the writer begins, applies, commits,       *)
(* publishes, answers and restarts.                                        *)
(***************************************************************************)
EXTENDS ShardInvariant

USE Zenon

-----------------------------------------------------------------------------
(* What a call promises no longer to be served.  l is the log of calls.     *)

Killers == {"Delete", "DeleteByTag", "Flush"}

\* A batch names a key once, so that a record's author and key say which item
\* it came from.
DistinctKeys ==
  \A op \in Ops : Storing(op) =>
    \A i, j \in DOMAIN op.items : op.items[i].key = op.items[j].key => i = j

\* Nothing committed is lost: commits are synced, or the power does not fail.
Durable == Lazy => "power" \notin Faults

\* The names op stores k under.
Named(k, op) ==
  IF Storing(op)
  THEN UNION {op.items[i].names : i \in {j \in DOMAIN op.items : op.items[j].key = k}}
  ELSE {}

\* Every name is registered and among the refs.
Covers(refs, tags, names) == \A n \in names : n \in DOMAIN tags /\ tags[n].id \in DOMAIN refs

\* The refs of a record cover the names its call gave it.
Covered(k, r, tags, l) == r.ver \in DOMAIN l /\ Covers(r.tags, tags, Named(k, l[r.ver].op))

\* The record was written before the last invalidation of n, or the generation
\* of n can rise no further (tags.rs saturates it).
Outdated(r, n, tags) ==
  /\ n \in DOMAIN tags
  /\ \/ tags[n].gen >= U64Max
     \/ /\ tags[n].id \in DOMAIN r.tags /\ r.tags[tags[n].id] \in Nat
        /\ r.tags[tags[n].id] < tags[n].gen

\* Item y of op has done its work on a record of k.
Kills(op, y, k, r, tags, epoch, l) ==
  /\ op.kind = "Flush" => r.epoch \in Nat /\ r.epoch < epoch
  /\ op.kind = "Delete" => k # op.items[y].key
  /\ op.kind = "DeleteByTag" /\ op.items[y].name \in Named(k, l[r.ver].op) =>
       Outdated(r, op.items[y].name, tags)

\* Item y of op has done its work on all that the calls in `before` wrote.
Struck(op, before, y, main, tags, epoch, l) ==
  \A k \in DOMAIN main :
    main[k].ver \in before => Kills(op, y, k, main[k], tags, epoch, l)

\* The whole of call e has.
Gone(e, main, tags, epoch, l) ==
  \A y \in DOMAIN e.op.items : Struck(e.op, e.before, y, main, tags, epoch, l)

\* Call i has returned, and not with a failure.
OkIn(l, i) ==
  l[i].reply # <<>> /\ \A j \in DOMAIN l[i].reply : l[i].reply[j].res \notin Failures

\* The invalidations that have returned.
Spent(l) == {d \in DOMAIN l : OkIn(l, d) /\ l[d].op.kind \in Killers}

\* The records are covered, and none is left of what a returned invalidation
\* was to end.
Clean(main, tags, epoch, l) ==
  /\ \A k \in DOMAIN main : Covered(k, main[k], tags, l)
  /\ \A d \in Spent(l) : Gone(l[d], main, tags, epoch, l)

\* What call `by` wrote under k may be found after op has returned.
Survives(op, k, by, tags) ==
  /\ op.kind # "Flush"
  /\ op.kind = "Delete" => k \notin KeysOf(op)
  /\ op.kind = "DeleteByTag" /\ op.items[1].name \in Named(k, by) =>
       op.items[1].name \in DOMAIN tags /\ tags[op.items[1].name].gen >= U64Max

\* What read r has found may be found after all that returned before it.
FreshRead(r, tags, l) ==
  \A x \in DOMAIN l[r].op.items : l[r].reply[x].res = "hit" =>
    \A d \in l[r].before \cap Spent(l) : l[r].reply[x].n \in l[d].before =>
      Survives(l[d].op, l[r].op.items[x].key, l[l[r].reply[x].n].op, tags)

-----------------------------------------------------------------------------
(* The inductive invariant *)

LogFields == {"op", "before", "seq", "reply"}

\* The calls that came before a call have returned.
LogTraced(l) ==
  \A i \in DOMAIN l :
    /\ DOMAIN l[i] = LogFields /\ l[i].op \in Ops
    /\ l[i].before \subseteq DOMAIN l /\ \A b \in l[i].before : l[b].reply # <<>>

ReadsFresh(tags, l) ==
  \A r \in DOMAIN l : l[r].op.kind = "Get" /\ OkIn(l, r) => FreshRead(r, tags, l)

\* The epoch a reader judges by.
EpochOf(x, epoch) == IF x.pc = "judge" THEN x.epoch ELSE epoch

\* A caller's call is open; the refs it has gathered cover its names; and its
\* snapshot, if it reads, is free of what had been invalidated before.
Follows(x, tags, epoch, l) ==
  /\ x.pc # "idle" => l[x.call].reply = <<>>
  /\ x.pc \in {"epoch", "judge"} => x.op.kind \in Reads
  /\ x.pc = "judge" => x.epoch \in Nat
  /\ x.pc = "prepare" => Covers(x.refs, tags, x.op.items[Len(x.prep) + 1].names)
  /\ x.pc \in {"resolve", "prepare", "send"} =>
       \A i \in DOMAIN x.prep : Covers(x.prep[i].tags, tags, x.op.items[i].names)
  /\ x.pc \in {"epoch", "judge"} =>
       \A d \in Spent(l) \cap l[x.call].before : Gone(l[d], x.snap, tags, EpochOf(x, epoch), l)

\* A job belongs to the call of the caller that waits for it.
Traced(job, x) ==
  /\ job.call = x.call
  /\ \/ job.kind = x.op.kind /\ job.items = x.op.items /\ x.op.kind \notin Reads \cup Stores
     \/ Storing(x.op) /\ job.kind \in {"CreateTags", "Set", "ConditionalSet"}
     \/ x.op.kind = "GetTouch" /\ job.kind = "Touch"

\* What a job is to store is covered.
JobCovered(job, tags, l) ==
  job.kind \in {"Set", "ConditionalSet"} =>
    \A i \in DOMAIN job.items :
      job.items[i].ver = job.call /\ Covered(job.items[i].key, job.items[i], tags, l)

OneCallEach ==
  \A c, d \in Clients :
    cl[c].pc # "idle" /\ cl[d].pc # "idle" /\ cl[c].call = cl[d].call => c = d

\* The items of a job of the batch that have been applied.
ItemsDone(x) ==
  IF x <= Len(outs) THEN DOMAIN batch[x].items
  ELSE IF x = Len(outs) + 1 THEN 1..Len(acc) ELSE {}

\* Item y of the job has done its work, if it invalidates anything.
JobStruck(job, y, t, l) ==
  l[job.call].op.kind \in Killers =>
    Struck(l[job.call].op, l[job.call].before, y, t.main, t.tags, t.epoch, l)

\* What has been applied of the batch has done its work in the transaction,
\* and then on the disk.
BatchStruck ==
  /\ Open => \A x \in DOMAIN batch : \A y \in ItemsDone(x) : JobStruck(batch[x], y, txn.t, log)
  /\ phase = "publish" =>
       \A x \in DOMAIN batch : \A y \in DOMAIN batch[x].items : JobStruck(batch[x], y, disk, log)

\* Why no stale record is served (queue.rs, writer.rs, read.rs): once an
\* invalidation has returned, memory declares dead whatever was written before
\* it, on disk, in the open transaction and in every later snapshot; so no read
\* has found any of it.
StaleInv ==
  /\ LogTraced(log) /\ ReadsFresh(ram.tags, log)
  /\ \A c \in Clients : Follows(cl[c], ram.tags, ram.epoch, log)
  /\ OneCallEach
  /\ \A job \in Elems(queue) \cup Elems(batch) :
       Traced(job, cl[job.client]) /\ JobCovered(job, ram.tags, log)
  /\ ~Lazy => since = {disk}
  /\ Clean(disk.main, ram.tags, ram.epoch, log)
  /\ Open => Clean(txn.t.main, ram.tags, ram.epoch, log)
  /\ BatchStruck

-----------------------------------------------------------------------------
(* What is dead stays dead *)

\* The log as it may become: calls are added, and open ones answered.
Grown(l, m) ==
  /\ DOMAIN l \subseteq DOMAIN m
  /\ \A i \in DOMAIN l :
       /\ m[i].op = l[i].op /\ m[i].before = l[i].before
       /\ l[i].reply # <<>> => m[i].reply = l[i].reply

\* The answers that are new, and not failures.
News(l, m) == {i \in DOMAIN m : OkIn(m, i) /\ ~(i \in DOMAIN l /\ OkIn(l, i))}

Alike(q, r) == q.tags = r.tags /\ q.ver = r.ver /\ q.epoch = r.epoch

\* Every record of `kept` is one of `main`, or one of an open call.
Descends(main, kept, l) ==
  \A k \in DOMAIN kept :
    \/ k \in DOMAIN main /\ Alike(kept[k], main[k])
    \/ kept[k].ver \in DOMAIN l /\ l[kept[k].ver].reply = <<>>

\* The calls are in the log and have returned.
AllReturned(calls, l) == \A b \in calls : b \in DOMAIN l /\ l[b].reply # <<>>

\* A log that has grown still has what it had (writer.rs).
LEMMA GrownExtends ==
  ASSUME NEW l, NEW m, Grown(l, m)
  PROVE  Extends(l, m)
  BY DEF Grown, Extends

\* The log may grow in two steps.
LEMMA GrownTrans ==
  ASSUME NEW l, NEW m, NEW n, Grown(l, m), Grown(m, n)
  PROVE  Grown(l, n) /\ News(l, n) \subseteq News(l, m) \cup News(m, n)
<1>1. Grown(l, n)
  BY DEF Grown
<1>2. News(l, n) \subseteq News(l, m) \cup News(m, n)
  BY DEF News
<1> QED BY <1>1, <1>2

\* Or not at all.
LEMMA GrownSelf ==
  ASSUME NEW l
  PROVE  Grown(l, l) /\ News(l, l) = {}
  BY DEF Grown, News

\* An answer is final.
LEMMA OkStays ==
  ASSUME NEW l, NEW m, Grown(l, m), NEW i \in DOMAIN l
  PROVE  /\ OkIn(l, i) => OkIn(m, i)
         /\ l[i].reply # <<>> => (OkIn(m, i) <=> OkIn(l, i))
  BY DEF Grown, OkIn

\* The invalidations that had returned are the same ones afterwards.
LEMMA SpentGrows ==
  ASSUME NEW l, NEW m, Grown(l, m)
  PROVE  /\ Spent(l) \subseteq Spent(m)
         /\ \A d \in Spent(m) \ Spent(l) : d \in News(l, m) /\ m[d].op.kind \in Killers
         /\ \A calls : AllReturned(calls, l) => calls \cap Spent(m) = calls \cap Spent(l)
<1>1. Spent(l) \subseteq Spent(m)
  BY OkStays DEF Spent, Grown
<1>2. ASSUME NEW d \in Spent(m), d \notin Spent(l) PROVE d \in News(l, m) /\ m[d].op.kind \in Killers
  BY <1>2 DEF Spent, News, Grown
<1>3. ASSUME NEW calls, AllReturned(calls, l) PROVE calls \cap Spent(m) = calls \cap Spent(l)
  <2>1. ASSUME NEW d \in calls, d \in Spent(m) PROVE d \in Spent(l)
    <3>1. d \in DOMAIN l /\ l[d].reply # <<>>
      BY <1>3 DEF AllReturned
    <3>2. OkIn(l, d) /\ l[d].op.kind \in Killers
      BY <2>1, <3>1, OkStays DEF Spent, Grown
    <3> QED BY <3>1, <3>2 DEF Spent
  <2> QED BY <1>1, <2>1
<1> QED BY <1>1, <1>2, <1>3

\* An invalidated record stays invalidated (tags.rs: generations never fall).
LEMMA OutdatedStays ==
  ASSUME NEW r, NEW q, NEW n, NEW tags, NEW new, Outdated(r, n, tags), q.tags = r.tags,
         \A x \in DOMAIN tags : tags[x] \in Entry, \A x \in DOMAIN new : new[x] \in Entry,
         Behind(tags, new)
  PROVE  Outdated(q, n, new)
<1>1. /\ n \in DOMAIN tags /\ n \in DOMAIN new /\ tags[n].id = new[n].id
      /\ tags[n].gen <= new[n].gen
  BY DEF Outdated, Behind
<1>2. tags[n].gen \in Nat /\ new[n].gen \in Nat /\ U64Max \in Nat
  BY <1>1, EngineAssumption DEF Entry
<1>3. CASE tags[n].gen >= U64Max
  <2>1. new[n].gen >= U64Max
    BY <1>1, <1>2, <1>3, SMT
  <2> QED BY <1>1, <2>1 DEF Outdated
<1>4. CASE /\ tags[n].id \in DOMAIN r.tags /\ r.tags[tags[n].id] \in Nat
           /\ r.tags[tags[n].id] < tags[n].gen
  <2>1. r.tags[tags[n].id] < new[n].gen
    BY <1>1, <1>2, <1>4, SMT
  <2> QED BY <1>1, <1>4, <2>1 DEF Outdated
<1> QED BY <1>3, <1>4 DEF Outdated

\* Item y of an invalidation has done its work for good.
LEMMA KillsStay ==
  ASSUME NEW op, NEW y, NEW k, NEW r, NEW q, NEW tags, NEW new, NEW epoch, NEW later,
         NEW l, NEW m, Kills(op, y, k, r, tags, epoch, l), Alike(q, r),
         Grows(tags, new, epoch, later, l, m), r.ver \in DOMAIN l
  PROVE  Kills(op, y, k, q, new, later, m)
<1>1. m[r.ver].op = l[r.ver].op /\ epoch \in Nat /\ later \in Nat /\ epoch <= later
  BY DEF Grows, Extends
<1>2. \A n : Outdated(r, n, tags) => Outdated(q, n, new)
  BY OutdatedStays DEF Grows, Alike
<1>3. op.kind = "Flush" => q.epoch \in Nat /\ q.epoch < later
  <2>1. \A e \in Nat : e < epoch => e < later
    BY <1>1, SMT
  <2> QED BY <2>1 DEF Kills, Alike
<1>4. Named(k, m[q.ver].op) = Named(k, l[r.ver].op)
  BY <1>1 DEF Alike
<1> QED BY <1>2, <1>3, <1>4 DEF Kills

\* So it has on whatever the records become.
LEMMA StruckStays ==
  ASSUME NEW op, NEW before, NEW y, NEW main, NEW kept, NEW tags, NEW new, NEW epoch, NEW later,
         NEW l, NEW m, Struck(op, before, y, main, tags, epoch, l), Descends(main, kept, l),
         Grows(tags, new, epoch, later, l, m), AllReturned(before, l)
  PROVE  Struck(op, before, y, kept, new, later, m)
<1> SUFFICES ASSUME NEW k \in DOMAIN kept, kept[k].ver \in before
             PROVE  Kills(op, y, k, kept[k], new, later, m)
  BY DEF Struck
<1>1. kept[k].ver \in DOMAIN l /\ l[kept[k].ver].reply # <<>>
  BY DEF AllReturned
<1>2. k \in DOMAIN main /\ Alike(kept[k], main[k])
  BY <1>1 DEF Descends
<1>3. main[k].ver = kept[k].ver
  BY <1>2 DEF Alike
<1>4. Kills(op, y, k, main[k], tags, epoch, l)
  BY <1>2, <1>3 DEF Struck
<1> QED BY <1>1, <1>2, <1>3, <1>4, KillsStay

\* And so has the whole of it.
LEMMA GoneStays ==
  ASSUME NEW e, NEW f, NEW main, NEW kept, NEW tags, NEW new, NEW epoch, NEW later,
         NEW l, NEW m, Gone(e, main, tags, epoch, l), Descends(main, kept, l),
         f.op = e.op, f.before = e.before,
         Grows(tags, new, epoch, later, l, m), AllReturned(e.before, l)
  PROVE  Gone(f, kept, new, later, m)
  BY StruckStays DEF Gone

\* The refs of a record cover its names for good (tags.rs: names keep their ids).
LEMMA CoversStays ==
  ASSUME NEW refs, NEW tags, NEW new, NEW names, Covers(refs, tags, names), Behind(tags, new)
  PROVE  Covers(refs, new, names)
  BY DEF Covers, Behind

\* The same, of a record.
LEMMA CoveredStays ==
  ASSUME NEW k, NEW r, NEW q, NEW tags, NEW new, NEW epoch, NEW later, NEW l, NEW m,
         Covered(k, r, tags, l), q.tags = r.tags, q.ver = r.ver,
         Grows(tags, new, epoch, later, l, m)
  PROVE  Covered(k, q, new, m)
<1>1. r.ver \in DOMAIN m /\ m[r.ver].op = l[r.ver].op
  BY DEF Covered, Grows, Extends
<1>2. Covers(r.tags, new, Named(k, l[r.ver].op))
  BY CoversStays DEF Covered, Grows
<1> QED BY <1>1, <1>2 DEF Covered

\* The calls that came before a call have returned.
LEMMA BeforeReturned ==
  ASSUME NEW l, LogTraced(l), NEW i \in DOMAIN l
  PROVE  AllReturned(l[i].before, l)
  BY DEF LogTraced, AllReturned

\* A table stays clean while its records only go or are replaced by those of
\* open calls, memory and the log grow, and the invalidations that return have
\* done their work.
LEMMA CleanStays ==
  ASSUME NEW main, NEW kept, NEW tags, NEW new, NEW epoch, NEW later, NEW l, NEW m,
         Clean(main, tags, epoch, l), LogTraced(l), Grown(l, m),
         Grows(tags, new, epoch, later, l, m), Descends(main, kept, l),
         \A k \in DOMAIN kept :
           (k \in DOMAIN main /\ Alike(kept[k], main[k])) \/ Covered(k, kept[k], new, m),
         \A d \in News(l, m) : m[d].op.kind \in Killers => Gone(m[d], kept, new, later, m)
  PROVE  Clean(kept, new, later, m)
<1>1. ASSUME NEW k \in DOMAIN kept PROVE Covered(k, kept[k], new, m)
  <2>1. CASE k \in DOMAIN main /\ Alike(kept[k], main[k])
    BY <2>1, CoveredStays DEF Clean, Alike
  <2> QED BY <2>1
<1>2. ASSUME NEW d \in Spent(m) PROVE Gone(m[d], kept, new, later, m)
  <2>1. CASE d \in Spent(l)
    <3>1. d \in DOMAIN l /\ m[d].op = l[d].op /\ m[d].before = l[d].before
      BY <2>1 DEF Spent, Grown
    <3>2. Gone(l[d], main, tags, epoch, l) /\ AllReturned(l[d].before, l)
      BY <2>1, <3>1, BeforeReturned DEF Clean
    <3> QED BY <3>1, <3>2, GoneStays
  <2>2. CASE d \notin Spent(l)
    BY <2>2, SpentGrows
  <2> QED BY <2>1, <2>2
<1> QED BY <1>1, <1>2 DEF Clean

\* What was read stays good as memory and the log grow, if what is read anew is.
LEMMA FreshStays ==
  ASSUME NEW tags, NEW new, NEW epoch, NEW later, NEW l, NEW m, LogTraced(l), Grown(l, m),
         Grows(tags, new, epoch, later, l, m), ReadsFresh(tags, l),
         \A r \in News(l, m) : m[r].op.kind = "Get" => FreshRead(r, new, m)
  PROVE  ReadsFresh(new, m)
<1> SUFFICES ASSUME NEW r \in DOMAIN m, m[r].op.kind = "Get", OkIn(m, r)
             PROVE  FreshRead(r, new, m)
  BY DEF ReadsFresh
<1>1. CASE r \in News(l, m)
  BY <1>1
<1>2. CASE r \notin News(l, m)
  <2>1. r \in DOMAIN l /\ OkIn(l, r)
    BY <1>2 DEF News
  <2>2. m[r].op = l[r].op /\ m[r].before = l[r].before /\ m[r].reply = l[r].reply
    BY <2>1 DEF Grown, OkIn
  <2>3. FreshRead(r, tags, l)
    BY <2>1, <2>2 DEF ReadsFresh
  <2>4. l[r].before \cap Spent(m) = l[r].before \cap Spent(l)
    BY <2>1, BeforeReturned, SpentGrows
  <2> SUFFICES ASSUME NEW x \in DOMAIN l[r].op.items, l[r].reply[x].res = "hit",
                      NEW d \in l[r].before \cap Spent(l), l[r].reply[x].n \in m[d].before
               PROVE  Survives(m[d].op, l[r].op.items[x].key, m[l[r].reply[x].n].op, new)
    BY <2>2, <2>4 DEF FreshRead
  <2>5. d \in DOMAIN l /\ m[d].op = l[d].op /\ m[d].before = l[d].before
    BY DEF Spent, Grown
  <2>6. l[r].reply[x].n \in DOMAIN l /\ m[l[r].reply[x].n].op = l[l[r].reply[x].n].op
    BY <2>5, BeforeReturned DEF AllReturned, Grown
  <2>7. Survives(l[d].op, l[r].op.items[x].key, l[l[r].reply[x].n].op, tags)
    BY <2>3, <2>5 DEF FreshRead
  <2>8. ASSUME NEW n \in DOMAIN tags, tags[n].gen >= U64Max
        PROVE  n \in DOMAIN new /\ new[n].gen >= U64Max
    <3>1. n \in DOMAIN new /\ tags[n].gen <= new[n].gen /\ tags[n].gen \in Nat /\ new[n].gen \in Nat
      BY DEF Grows, Behind, Entry
    <3>2. U64Max \in Nat
      BY EngineAssumption
    <3> QED BY <2>8, <3>1, <3>2, SMT
  <2> QED BY <2>5, <2>6, <2>7, <2>8 DEF Survives
<1> QED BY <1>1, <1>2

\* What a caller follows stays so as memory and the log grow (tags.rs).
LEMMA FollowsStays ==
  ASSUME NEW x, NEW tags, NEW new, NEW epoch, NEW later, NEW l, NEW m, LogTraced(l), Grown(l, m),
         Grows(tags, new, epoch, later, l, m), Follows(x, tags, epoch, l),
         x.pc # "idle" => x.call \in DOMAIN l /\ m[x.call].reply = <<>>
  PROVE  Follows(x, new, later, m)
<1>1. Behind(tags, new)
  BY DEF Grows
<1>2. x.pc = "prepare" => Covers(x.refs, new, x.op.items[Len(x.prep) + 1].names)
  BY <1>1, CoversStays DEF Follows
<1>3. x.pc \in {"resolve", "prepare", "send"} =>
        \A i \in DOMAIN x.prep : Covers(x.prep[i].tags, new, x.op.items[i].names)
  BY <1>1, CoversStays DEF Follows
<1>4. ASSUME x.pc \in {"epoch", "judge"}, NEW d \in Spent(m) \cap m[x.call].before
      PROVE  Gone(m[d], x.snap, new, EpochOf(x, later), m)
  <2>1. x.call \in DOMAIN l /\ m[x.call].before = l[x.call].before
    BY <1>4 DEF Grown
  <2>2. d \in Spent(l) \cap l[x.call].before
    BY <2>1, BeforeReturned, SpentGrows, SMT
  <2>3. Gone(l[d], x.snap, tags, EpochOf(x, epoch), l)
    BY <1>4, <2>2 DEF Follows
  <2>4. d \in DOMAIN l /\ m[d].op = l[d].op /\ m[d].before = l[d].before /\ AllReturned(l[d].before, l)
    BY <2>2, BeforeReturned DEF Spent, Grown
  <2>5. Grows(tags, new, EpochOf(x, epoch), EpochOf(x, later), l, m)
    BY <1>4, SMT DEF Grows, EpochOf, Follows
  <2>6. Descends(x.snap, x.snap, l)
    BY DEF Descends, Alike
  <2> QED BY <2>3, <2>4, <2>5, <2>6, GoneStays
<1>5. /\ x.pc # "idle" => m[x.call].reply = <<>>
      /\ x.pc \in {"epoch", "judge"} => x.op.kind \in Reads
      /\ x.pc = "judge" => x.epoch \in Nat
  BY DEF Follows
<1> QED BY <1>2, <1>3, <1>4, <1>5 DEF Follows

-----------------------------------------------------------------------------
(* Calls and answers in the log *)

\* An answer to an open call.
LEMMA RepliedGrown ==
  ASSUME NEW l, LogTraced(l), NEW call \in DOMAIN l, l[call].reply = <<>>, NEW reply,
         NEW m, m = Replied(l, call, reply)
  PROVE  /\ LogTraced(m) /\ Grown(l, m) /\ News(l, m) \subseteq {call}
         /\ (\E j \in DOMAIN reply : reply[j].res \in Failures) => News(l, m) = {}
         /\ m[call].reply = reply /\ \A i \in DOMAIN l \ {call} : m[i] = l[i]
<1>1. /\ DOMAIN m = DOMAIN l /\ m[call] = [l[call] EXCEPT !.reply = reply]
      /\ \A i \in DOMAIN l \ {call} : m[i] = l[i]
  BY DEF Replied
<1>2. DOMAIN l[call] = LogFields
  BY DEF LogTraced
<1>3. /\ DOMAIN m[call] = LogFields /\ m[call].reply = reply
      /\ m[call].op = l[call].op /\ m[call].before = l[call].before
  BY <1>1, <1>2 DEF LogFields
<1>4. Grown(l, m)
  BY <1>1, <1>3 DEF Grown
<1>5. LogTraced(m)
  <2> SUFFICES ASSUME NEW i \in DOMAIN l
               PROVE  /\ DOMAIN m[i] = LogFields /\ m[i].op \in Ops
                      /\ m[i].before \subseteq DOMAIN m /\ \A b \in m[i].before : m[b].reply # <<>>
    BY <1>1 DEF LogTraced
  <2>1. DOMAIN m[i] = LogFields /\ m[i].op = l[i].op /\ m[i].before = l[i].before
    BY <1>1, <1>3 DEF LogTraced
  <2>2. \A b \in l[i].before : b \in DOMAIN l /\ l[b].reply # <<>> /\ b # call
    BY DEF LogTraced
  <2> QED BY <1>1, <2>1, <2>2 DEF LogTraced
<1>6. News(l, m) \subseteq {call}
  BY <1>1 DEF News, OkIn
<1>7. ASSUME NEW j \in DOMAIN reply, reply[j].res \in Failures PROVE News(l, m) = {}
  <2>1. ~OkIn(m, call)
    BY <1>3, <1>7 DEF OkIn
  <2> QED BY <1>6, <2>1 DEF News
<1> QED BY <1>1, <1>3, <1>4, <1>5, <1>6, <1>7

\* A new call comes after all that had returned.
LEMMA CalledGrown ==
  ASSUME LogOK(log), LogTraced(log), NEW op \in Ops, NEW m, m = Called(op)
  PROVE  /\ LogTraced(m) /\ Grown(log, m) /\ News(log, m) = {}
         /\ Len(log) + 1 \in DOMAIN m /\ Len(log) + 1 \notin DOMAIN log
         /\ m[Len(log) + 1].op = op /\ m[Len(log) + 1].reply = <<>>
         /\ m[Len(log) + 1].before = Returned
         /\ \A i \in DOMAIN log : m[i] = log[i]
<1>1. PICK e : e = [op |-> op, before |-> Returned, seq |-> disk.seq, reply |-> <<>>]
  OBVIOUS
<1>2. e.op = op /\ e.before = Returned /\ e.reply = <<>> /\ DOMAIN e = LogFields
  BY <1>1 DEF LogFields
<1>3. m = Append(log, e)
  BY <1>1 DEF Called
<1>4. /\ Len(log) \in Nat /\ DOMAIN log = 1..Len(log) /\ DOMAIN m = 1..(Len(log) + 1)
      /\ m[Len(log) + 1] = e /\ \A i \in 1..Len(log) : m[i] = log[i]
  BY <1>3, SMT DEF LogOK, IsSeq
<1>5. /\ \A i \in DOMAIN m : i \in DOMAIN log \/ i = Len(log) + 1
      /\ DOMAIN log \subseteq DOMAIN m /\ \A i \in DOMAIN log : m[i] = log[i]
      /\ Len(log) + 1 \in DOMAIN m /\ Len(log) + 1 \notin DOMAIN log
  BY <1>4, SMT
<1>6. Grown(log, m) /\ News(log, m) = {}
  BY <1>2, <1>4, <1>5 DEF Grown, News, OkIn
<1>7. \A b \in Returned : b \in DOMAIN log /\ log[b].reply # <<>>
  BY DEF Returned
<1>8. LogTraced(m)
  <2> SUFFICES ASSUME NEW i \in DOMAIN m
               PROVE  /\ DOMAIN m[i] = LogFields /\ m[i].op \in Ops
                      /\ m[i].before \subseteq DOMAIN m /\ \A b \in m[i].before : m[b].reply # <<>>
    BY DEF LogTraced
  <2>1. CASE i \in DOMAIN log
    <3>1. \A b \in log[i].before : b \in DOMAIN log /\ log[b].reply # <<>>
      BY <2>1 DEF LogTraced
    <3> QED BY <1>5, <2>1, <3>1 DEF LogTraced
  <2>2. CASE i = Len(log) + 1
    <3>1. DOMAIN m[i] = LogFields /\ m[i].op = op /\ m[i].before = Returned
      BY <1>2, <1>4, <2>2
    <3> QED BY <1>5, <1>7, <3>1
  <2> QED BY <1>5, <2>1, <2>2
<1> QED BY <1>2, <1>4, <1>5, <1>6, <1>8

-----------------------------------------------------------------------------
(* Callers *)

\* What a caller that waits has asked for.
LEMMA WaitingCall ==
  ASSUME CallsInv, StaleInv, NEW job \in Elems(queue) \cup Elems(batch)
  PROVE  /\ job.client \in Clients /\ cl[job.client].pc = "wait"
         /\ Traced(job, cl[job.client])
         /\ job.call \in DOMAIN log /\ log[job.call].op = cl[job.client].op
         /\ log[job.call].reply = <<>>
<1>1. job.client \in Clients /\ cl[job.client].pc = "wait" /\ Traced(job, cl[job.client])
  BY DEF CallsInv, JobFor, StaleInv
<1>2. CallerOK(cl[job.client], ram.tags, ram.epoch, log) /\ cl[job.client] # Idle
  BY <1>1, CallerAt
<1>3. job.call = cl[job.client].call
  BY <1>1 DEF Traced
<1>4. log[cl[job.client].call].reply = <<>>
  BY <1>1 DEF StaleInv, Follows
<1> QED BY <1>1, <1>2, <1>3, <1>4 DEF CallerOK

\* A job's write stays covered as memory and the log grow.
LEMMA JobCoveredStays ==
  ASSUME NEW job, NEW tags, NEW new, NEW epoch, NEW later, NEW l, NEW m,
         JobCovered(job, tags, l), Grows(tags, new, epoch, later, l, m)
  PROVE  JobCovered(job, new, m)
  BY CoveredStays DEF JobCovered

\* What a job has done in the tables it has done whatever the log becomes.
LEMMA JobStruckStays ==
  ASSUME NEW job, NEW y, NEW t, NEW u, NEW l, NEW m, JobStruck(job, y, t, l), LogTraced(l),
         Grown(l, m), Grows(t.tags, u.tags, t.epoch, u.epoch, l, m),
         Descends(t.main, u.main, l), job.call \in DOMAIN l
  PROVE  JobStruck(job, y, u, m)
<1>1. m[job.call].op = l[job.call].op /\ m[job.call].before = l[job.call].before
  BY DEF Grown
<1>2. AllReturned(l[job.call].before, l)
  BY BeforeReturned
<1> QED BY <1>1, <1>2, StruckStays DEF JobStruck

\* Tables are behind themselves.
LEMMA TablesStay ==
  ASSUME NEW t, NEW next, Registry(t, next), NEW l, NEW m, Grown(l, m)
  PROVE  Grows(t.tags, t.tags, t.epoch, t.epoch, l, m) /\ Descends(t.main, t.main, l)
<1>1. \A n \in DOMAIN t.tags : t.tags[n].gen <= t.tags[n].gen
  BY SMT DEF Registry, Entry
<1>2. Grows(t.tags, t.tags, t.epoch, t.epoch, l, m)
  BY <1>1, GrownExtends, SMT DEF Registry, Grows, Behind
<1> QED BY <1>2 DEF Descends, Alike

\* A caller with no job moves on, and may queue one (writer.rs send).
LEMMA StaleMoves ==
  ASSUME RegistryInv, CallsInv, StaleInv, NEW c \in Clients, cl[c].pc # "wait",
         UNCHANGED <<store_vars, writer_vars>>,
         NEW x, cl' = [cl EXCEPT ![c] = x], LogTraced(log'), Grown(log, log'),
         \A r \in News(log, log') :
           /\ log'[r].op.kind \notin Killers
           /\ log'[r].op.kind = "Get" => FreshRead(r, ram.tags, log'),
         \A i \in DOMAIN log : cl[c].pc = "idle" \/ i # cl[c].call => log'[i] = log[i],
         Follows(x, ram.tags, ram.epoch, log'),
         x.pc # "idle" => \/ cl[c].pc # "idle" /\ x.call = cl[c].call
                          \/ x.call \notin DOMAIN log,
         \/ queue' = queue
         \/ \E job : /\ job.client = c /\ Traced(job, x) /\ JobCovered(job, ram.tags, log')
                     /\ queue' = Append(queue, job)
  PROVE  StaleInv'
<1>1. UNCHANGED <<disk, since, ram, phase, batch, outs, acc, txn, eff>>
  BY DEF store_vars, writer_vars
<1>2. DOMAIN cl' = Clients /\ cl'[c] = x /\ \A d \in Clients \ {c} : cl'[d] = cl[d]
  BY DEF CallsInv
<1>3. Grows(ram.tags, ram.tags, ram.epoch, ram.epoch, log, log')
  BY GrownExtends, MemoryGrows
<1>4. LogTraced(log) /\ ReadsFresh(ram.tags, log) /\ OneCallEach
  BY DEF StaleInv
<1>5. ASSUME NEW d \in Clients, cl[d].pc # "idle"
      PROVE  cl[d].call \in DOMAIN log /\ (d # c => log'[cl[d].call].reply = <<>>)
  <2>1. cl[d].call \in DOMAIN log
    BY <1>5, CallerAt DEF CallerOK
  <2>2. log[cl[d].call].reply = <<>>
    BY <1>5 DEF StaleInv, Follows
  <2>3. d # c /\ cl[c].pc # "idle" => cl[d].call # cl[c].call
    BY <1>4, <1>5 DEF OneCallEach
  <2> QED BY <2>1, <2>2, <2>3
<1>6. ASSUME NEW d \in Clients PROVE Follows(cl'[d], ram.tags, ram.epoch, log')
  <2>1. CASE d # c
    <3>1. Follows(cl[d], ram.tags, ram.epoch, log)
      BY DEF StaleInv
    <3>2. Follows(cl[d], ram.tags, ram.epoch, log')
      BY <1>3, <1>4, <1>5, <2>1, <3>1, FollowsStays
    <3> QED BY <1>2, <2>1, <3>2
  <2> QED BY <1>2, <2>1
<1>7. OneCallEach'
  BY <1>2, <1>4, <1>5, SMT DEF OneCallEach
<1>8. ReadsFresh(ram.tags, log')
  BY <1>3, <1>4, FreshStays
<1>9. ASSUME NEW main, Clean(main, ram.tags, ram.epoch, log)
      PROVE  Clean(main, ram.tags, ram.epoch, log')
  <2>1. Descends(main, main, log) /\ \A k \in DOMAIN main : Alike(main[k], main[k])
    BY DEF Descends, Alike
  <2> QED BY <1>3, <1>4, <1>9, <2>1, CleanStays
<1>10. Clean(disk'.main, ram.tags, ram.epoch, log')
       /\ (Open' => Clean(txn'.t.main, ram.tags, ram.epoch, log'))
  BY <1>1, <1>9 DEF StaleInv, Open
<1>11. \A job \in Elems(batch) : job.call \in DOMAIN log
  BY WaitingCall
<1>12. ASSUME NEW job \in Elems(batch), NEW y, NEW t, Registry(t, ram.nextId), JobStruck(job, y, t, log)
       PROVE  JobStruck(job, y, t, log')
  BY <1>4, <1>11, <1>12, TablesStay, JobStruckStays
<1>13. BatchStruck'
  <2>1. Registry(disk, ram.nextId) /\ (Open => Registry(txn.t, ram.nextId))
    BY DEF RegistryInv, StoredOK, OpenOK
  <2>2. \A z \in DOMAIN batch : batch[z] \in Elems(batch)
    BY DEF Elems
  <2> QED BY <1>1, <1>12, <2>1, <2>2 DEF StaleInv, BatchStruck, ItemsDone, Open
<1>14. ASSUME NEW job \in Elems(queue) \cup Elems(batch)
       PROVE  Traced(job, cl'[job.client]) /\ JobCovered(job, ram.tags, log')
  <2>1. job.client \in Clients /\ job.client # c /\ Traced(job, cl[job.client])
    BY WaitingCall
  <2>2. JobCovered(job, ram.tags, log')
    BY <1>3, JobCoveredStays DEF StaleInv
  <2> QED BY <1>2, <2>1, <2>2
<1>15. \A job \in Elems(queue') \cup Elems(batch') :
         Traced(job, cl'[job.client]) /\ JobCovered(job, ram.tags, log')
  <2>1. CASE queue' = queue
    BY <1>1, <1>14, <2>1
  <2>2. ASSUME NEW job, job.client = c, Traced(job, x), JobCovered(job, ram.tags, log'),
               queue' = Append(queue, job)
        PROVE  \A z \in Elems(queue') \cup Elems(batch') :
                 Traced(z, cl'[z.client]) /\ JobCovered(z, ram.tags, log')
    <3>1. Elems(queue') = Elems(queue) \cup {job}
      BY <2>2, AppendElems DEF RegistryInv, JobsOK
    <3> QED BY <1>1, <1>2, <1>14, <2>2, <3>1
  <2> QED BY <2>1, <2>2
<1>16. ~Lazy => since' = {disk'}
  BY <1>1 DEF StaleInv
<1> QED BY <1>1, <1>6, <1>7, <1>8, <1>10, <1>13, <1>15, <1>16 DEF StaleInv

\* A caller gets its answer without the writer (read.rs; apply.rs prepare_set).
LEMMA StaleReturns ==
  ASSUME RegistryInv, CallsInv, StaleInv, NEW c \in Clients, cl[c].pc \notin {"idle", "wait"},
         UNCHANGED <<store_vars, writer_vars>>, UNCHANGED queue, NEW reply, Return(c, reply),
         cl[c].op.kind \notin Killers,
         cl[c].op.kind = "Get" => FreshRead(cl[c].call, ram.tags, log')
  PROVE  StaleInv'
<1>1. cl' = [cl EXCEPT ![c] = Idle] /\ log' = Replied(log, cl[c].call, reply)
  BY DEF Return
<1>2. cl[c].call \in DOMAIN log /\ log[cl[c].call].op = cl[c].op
  BY CallerAt DEF CallerOK
<1>3. LogTraced(log) /\ log[cl[c].call].reply = <<>>
  BY DEF StaleInv, Follows
<1>4. /\ LogTraced(log') /\ Grown(log, log') /\ News(log, log') \subseteq {cl[c].call}
      /\ \A i \in DOMAIN log \ {cl[c].call} : log'[i] = log[i]
  BY <1>1, <1>2, <1>3, RepliedGrown, SMT
<1>5. log'[cl[c].call].op = cl[c].op
  BY <1>2, <1>4 DEF Grown
<1>6. Idle.pc = "idle"
  BY DEF Idle
<1>7. Follows(Idle, ram.tags, ram.epoch, log')
  BY <1>6 DEF Follows
<1>8. \A r \in News(log, log') :
        /\ log'[r].op.kind \notin Killers
        /\ log'[r].op.kind = "Get" => FreshRead(r, ram.tags, log')
  BY <1>4, <1>5
<1>9. \A i \in DOMAIN log : cl[c].pc = "idle" \/ i # cl[c].call => log'[i] = log[i]
  BY <1>4
<1> QED BY <1>1, <1>4, <1>6, <1>7, <1>8, <1>9, StaleMoves

\* A job is sent, or refused by a full queue (writer.rs send).
LEMMA StaleSends ==
  ASSUME RegistryInv, CallsInv, StaleInv, NEW c \in Clients, cl[c].pc # "wait",
         UNCHANGED <<store_vars, writer_vars>>,
         NEW s, NEW l, NEW kind, NEW items, Send(c, s, l, kind, items), DOMAIN s = CallerFields,
         LogTraced(l), Grown(log, l), News(log, l) = {},
         s.call \in DOMAIN l, l[s.call].reply = <<>>,
         \A i \in DOMAIN log : l[i] = log[i],
         \/ cl[c].pc # "idle" /\ s.call = cl[c].call
         \/ s.call \notin DOMAIN log,
         NEW job, job = [client |-> c, call |-> s.call, kind |-> kind, items |-> items],
         Traced(job, s), JobCovered(job, ram.tags, l)
  PROVE  StaleInv'
<1>1. CASE Len(queue) >= QueueDepth
  <2>1. cl' = [cl EXCEPT ![c] = Idle] /\ log' = Replied(l, s.call, Error("overloaded"))
        /\ queue' = queue
    BY <1>1 DEF Send
  <2>2. 1 \in DOMAIN Error("overloaded") /\ Error("overloaded")[1].res \in Failures
    BY SMT DEF Error, Failures
  <2>3. /\ LogTraced(log') /\ Grown(l, log') /\ News(l, log') = {}
        /\ \A i \in DOMAIN l \ {s.call} : log'[i] = l[i]
    BY <2>1, <2>2, RepliedGrown, SMT
  <2>4. Grown(log, log') /\ News(log, log') = {}
    BY <2>3, GrownTrans
  <2>5. \A i \in DOMAIN log : cl[c].pc = "idle" \/ i # cl[c].call => log'[i] = log[i]
    <3>1. \A i \in DOMAIN log : i # s.call => log'[i] = log[i]
      BY <2>3 DEF Grown
    <3> QED BY <3>1
  <2>6. Idle.pc = "idle"
    BY DEF Idle
  <2>7. Follows(Idle, ram.tags, ram.epoch, log')
    BY <2>6 DEF Follows
  <2> QED BY <2>1, <2>3, <2>4, <2>5, <2>6, <2>7, StaleMoves
<1>2. CASE ~(Len(queue) >= QueueDepth)
  <2>1. PICK w : w = [s EXCEPT !.pc = "wait"]
    OBVIOUS
  <2>2. cl' = [cl EXCEPT ![c] = w] /\ log' = l /\ queue' = Append(queue, job)
    BY <1>2, <2>1 DEF Send
  <2>3. w.pc = "wait" /\ w.call = s.call /\ w.op = s.op
    BY <2>1 DEF CallerFields
  <2>4. Follows(w, ram.tags, ram.epoch, log')
    BY <2>2, <2>3 DEF Follows
  <2>5. Traced(job, w)
    BY <2>3 DEF Traced
  <2>6. job.client = c
    OBVIOUS
  <2>7. \/ queue' = queue
        \/ \E z : /\ z.client = c /\ Traced(z, w) /\ JobCovered(z, ram.tags, log')
                  /\ queue' = Append(queue, z)
    BY <2>2, <2>5, <2>6
  <2> QED BY <2>2, <2>3, <2>4, <2>7, StaleMoves
<1> QED BY <1>1, <1>2

-----------------------------------------------------------------------------
(* The steps of a caller *)

\* A call lists its items.
LEMMA CallsAreLists ==
  ASSUME NEW op \in Ops
  PROVE  Len(op.items) \in Nat \ {0} /\ DOMAIN op.items = 1..Len(op.items)
  BY WriterAssumption

\* A caller moves on within its call.
LEMMA StaleGoes ==
  ASSUME RegistryInv, CallsInv, StaleInv, NEW c \in Clients, cl[c].pc \notin {"idle", "wait"},
         UNCHANGED <<store_vars, writer_vars>>, UNCHANGED <<queue, log>>,
         NEW x, cl' = [cl EXCEPT ![c] = x], x.call = cl[c].call,
         Follows(x, ram.tags, ram.epoch, log)
  PROVE  StaleInv'
<1>1. log' = log /\ queue' = queue
  OBVIOUS
<1>2. Grown(log, log') /\ News(log, log') = {}
  BY <1>1, GrownSelf
<1>3. LogTraced(log') /\ Follows(x, ram.tags, ram.epoch, log')
  BY <1>1 DEF StaleInv
<1>4. \A i \in DOMAIN log : cl[c].pc = "idle" \/ i # cl[c].call => log'[i] = log[i]
  BY <1>1
<1> QED BY <1>1, <1>2, <1>3, <1>4, StaleMoves

\* Loading the epoch (read.rs).
LEMMA StaleEpoch ==
  ASSUME RegistryInv, CallsInv, StaleInv, NEW c \in Clients, LoadEpoch(c)
  PROVE  StaleInv'
<1>1. /\ cl[c].pc = "epoch" /\ UNCHANGED <<queue, log, store_vars, writer_vars>>
      /\ cl' = [cl EXCEPT ![c] = [cl[c] EXCEPT !.pc = "judge", !.epoch = ram.epoch]]
  BY DEF LoadEpoch, CallsInv
<1>2. PICK x : x = [cl[c] EXCEPT !.pc = "judge", !.epoch = ram.epoch]
  OBVIOUS
<1>3. DOMAIN cl[c] = CallerFields
  BY <1>1, CallerAt
<1>4. /\ x.pc = "judge" /\ x.epoch = ram.epoch /\ x.op = cl[c].op /\ x.call = cl[c].call
      /\ x.snap = cl[c].snap
  BY <1>2, <1>3 DEF CallerFields
<1>5. Follows(cl[c], ram.tags, ram.epoch, log) /\ ram.epoch \in Nat
  BY DEF StaleInv, RegistryInv, MemoryOK
<1>6. EpochOf(x, ram.epoch) = EpochOf(cl[c], ram.epoch)
  BY <1>1, <1>4 DEF EpochOf
<1>7. Follows(x, ram.tags, ram.epoch, log)
  BY <1>1, <1>4, <1>5, <1>6 DEF Follows
<1>8. cl' = [cl EXCEPT ![c] = x]
  BY <1>1, <1>2
<1> QED BY <1>1, <1>4, <1>7, <1>8, StaleGoes

\* A tag id belongs to one name (tags.rs).
LEMMA IdsAreDistinct ==
  ASSUME RegistryInv
  PROVE  \A m, n \in DOMAIN ram.tags : ram.tags[m].id = ram.tags[n].id => m = n
  BY DEF RegistryInv, StoredOK, Registry, Behind

\* A record that a reader takes for alive has survived what was done to the
\* reader's snapshot (record.rs is_alive).
LEMMA AliveSurvives ==
  ASSUME RegistryInv, NEW op \in Ops, op.kind \in Killers, NEW k, NEW r, NEW now0, NEW epoch,
         epoch \in Nat, NEW l, is_alive(r, now0, epoch, ram.tags),
         \A y \in DOMAIN op.items : Kills(op, y, k, r, ram.tags, epoch, l)
  PROVE  Survives(op, k, l[r.ver].op, ram.tags)
<1>1. 1 \in DOMAIN op.items
  BY CallsAreLists, SMT
<1>2. r.epoch = epoch /\ \A id \in DOMAIN r.tags : RamHolds(ram.tags, id, r.tags[id])
  BY DEF is_alive, tags_alive
<1>3. op.kind # "Flush"
  BY <1>1, <1>2, SMT DEF Kills
<1>4. op.kind = "Delete" => k \notin KeysOf(op)
  BY DEF Kills, KeysOf
<1>5. ASSUME op.kind = "DeleteByTag", op.items[1].name \in Named(k, l[r.ver].op)
      PROVE  op.items[1].name \in DOMAIN ram.tags /\ ram.tags[op.items[1].name].gen >= U64Max
  <2>1. PICK n : n = op.items[1].name
    OBVIOUS
  <2>2. Outdated(r, n, ram.tags)
    BY <1>1, <1>5, <2>1 DEF Kills
  <2>3. ASSUME ram.tags[n].id \in DOMAIN r.tags, r.tags[ram.tags[n].id] \in Nat,
               r.tags[ram.tags[n].id] < ram.tags[n].gen
        PROVE  FALSE
    <3>1. PICK m \in DOMAIN ram.tags :
            ram.tags[m].id = ram.tags[n].id /\ ram.tags[m].gen = r.tags[ram.tags[n].id]
      BY <1>2, <2>3 DEF RamHolds
    <3>2. m = n
      BY <2>2, <3>1, IdsAreDistinct DEF Outdated
    <3> QED BY <2>3, <3>1, <3>2, SMT
  <2> QED BY <2>1, <2>2, <2>3 DEF Outdated
<1> QED BY <1>3, <1>4, <1>5 DEF Survives

\* A reader finds nothing that had been invalidated before it began (read.rs).
LEMMA JudgeIsFresh ==
  ASSUME RegistryInv, CallsInv, StaleInv, NEW c \in Clients, cl[c].pc = "judge",
         cl[c].op.kind = "Get", Return(c, Found(c))
  PROVE  FreshRead(cl[c].call, ram.tags, log')
<1> DEFINE i0 == cl[c].call
<1>1. log' = Replied(log, i0, Found(c))
  BY DEF Return
<1>2. i0 \in DOMAIN log /\ log[i0].op = cl[c].op
  BY CallerAt DEF CallerOK
<1>3. LogTraced(log) /\ Follows(cl[c], ram.tags, ram.epoch, log)
  BY DEF StaleInv
<1>4. log[i0].reply = <<>> /\ cl[c].epoch \in Nat
      /\ \A d \in Spent(log) \cap log[i0].before : Gone(log[d], cl[c].snap, ram.tags, cl[c].epoch, log)
  BY <1>3 DEF Follows, EpochOf
<1>5. /\ Grown(log, log') /\ log'[i0].reply = Found(c)
      /\ \A i \in DOMAIN log \ {i0} : log'[i] = log[i]
  BY <1>1, <1>2, <1>3, <1>4, RepliedGrown, SMT
<1>6. log'[i0].op = cl[c].op /\ log'[i0].before = log[i0].before
  BY <1>2, <1>5 DEF Grown
<1> SUFFICES ASSUME NEW x \in DOMAIN cl[c].op.items, Found(c)[x].res = "hit",
                    NEW d \in log[i0].before \cap Spent(log'), Found(c)[x].n \in log'[d].before
             PROVE  Survives(log'[d].op, cl[c].op.items[x].key, log'[Found(c)[x].n].op, ram.tags)
  BY <1>5, <1>6 DEF FreshRead
<1>7. PICK k : k = cl[c].op.items[x].key
  OBVIOUS
<1>8. read_alive(c, k) /\ Found(c)[x].n = cl[c].snap[k].ver
  <2>1. Found(c)[x] = IF read_alive(c, k) THEN [res |-> "hit", n |-> cl[c].snap[k].ver]
                                          ELSE [res |-> "miss", n |-> 0]
    BY <1>7 DEF Found
  <2> QED BY <2>1, SMT
<1>9. k \in DOMAIN cl[c].snap /\ is_alive(cl[c].snap[k], cl[c].at, cl[c].epoch, ram.tags)
  BY <1>8 DEF read_alive
<1>10. d \in Spent(log) /\ log'[d] = log[d]
  <2>1. d \in DOMAIN log /\ d # i0
    BY <1>2, <1>3, <1>4 DEF LogTraced
  <2>2. log'[d] = log[d]
    BY <1>5, <2>1
  <2> QED BY <2>1, <2>2 DEF Spent, OkIn
<1>11. log[d].op \in Ops /\ log[d].op.kind \in Killers
  BY <1>3, <1>10 DEF LogTraced, Spent
<1>12. cl[c].snap[k].ver \in log[d].before
  BY <1>8, <1>10
<1>13. \A y \in DOMAIN log[d].op.items :
         Kills(log[d].op, y, k, cl[c].snap[k], ram.tags, cl[c].epoch, log)
  BY <1>4, <1>9, <1>10, <1>12 DEF Gone, Struck
<1>14. Survives(log[d].op, k, log[cl[c].snap[k].ver].op, ram.tags)
  BY <1>4, <1>9, <1>11, <1>13, AliveSurvives
<1>15. log'[cl[c].snap[k].ver].op = log[cl[c].snap[k].ver].op
  BY <1>3, <1>5, <1>10, <1>12 DEF LogTraced, Spent, Grown
<1> QED BY <1>7, <1>8, <1>10, <1>14, <1>15

\* Judging what a read found (read.rs; store.rs set_many_if, get_and_touch).
LEMMA StaleJudges ==
  ASSUME RegistryInv, CallsInv, StaleInv, NEW c \in Clients, Judge(c)
  PROVE  StaleInv'
<1>1. cl[c].pc = "judge" /\ UNCHANGED <<store_vars, writer_vars>>
  BY DEF Judge
<1>2. /\ DOMAIN cl[c] = CallerFields /\ cl[c].call \in DOMAIN log
      /\ log[cl[c].call].op = cl[c].op
  BY <1>1, CallerAt DEF CallerOK
<1>3. LogTraced(log) /\ log[cl[c].call].reply = <<>> /\ cl[c].op.kind \in Reads
  BY <1>1 DEF StaleInv, Follows
<1>4. \/ cl[c].op.kind = "SetIf" /\ Goto(c, "register") /\ UNCHANGED queue
      \/ cl[c].op.kind = "SetIf" /\ Return(c, Error("refused")) /\ UNCHANGED queue
      \/ /\ cl[c].op.kind = "GetTouch"
         /\ \E found, items : Send(c, [cl[c] EXCEPT !.found = found], log, "Touch", items)
      \/ Return(c, Found(c)) /\ UNCHANGED queue
  BY DEF Judge
<1>5. CASE cl[c].op.kind = "SetIf" /\ Goto(c, "register") /\ UNCHANGED queue
  <2>1. PICK x : x = [cl[c] EXCEPT !.pc = "register"]
    OBVIOUS
  <2>2. cl' = [cl EXCEPT ![c] = x] /\ log' = log
    BY <1>5, <2>1 DEF Goto, CallsInv
  <2>3. x.pc = "register" /\ x.call = cl[c].call
    BY <1>2, <2>1 DEF CallerFields
  <2>4. Follows(x, ram.tags, ram.epoch, log)
    BY <1>3, <2>3 DEF Follows
  <2> QED BY <1>1, <1>5, <2>2, <2>3, <2>4, StaleGoes
<1>6. CASE cl[c].op.kind = "SetIf" /\ Return(c, Error("refused")) /\ UNCHANGED queue
  BY <1>1, <1>6, StaleReturns DEF Killers
<1>7. ASSUME cl[c].op.kind = "GetTouch", NEW found, NEW items,
             Send(c, [cl[c] EXCEPT !.found = found], log, "Touch", items)
      PROVE  StaleInv'
  <2>1. PICK s : s = [cl[c] EXCEPT !.found = found]
    OBVIOUS
  <2>2. DOMAIN s = CallerFields /\ s.op = cl[c].op /\ s.call = cl[c].call
    BY <1>2, <2>1 DEF CallerFields
  <2>3. PICK job : job = [client |-> c, call |-> s.call, kind |-> "Touch", items |-> items]
    OBVIOUS
  <2>4. job.call = s.call /\ job.kind = "Touch"
    BY <2>3
  <2>5. Traced(job, s) /\ JobCovered(job, ram.tags, log)
    BY <1>7, <2>2, <2>4 DEF Traced, JobCovered
  <2>6. Send(c, s, log, "Touch", items)
    BY <1>7, <2>1
  <2>7. Grown(log, log) /\ News(log, log) = {}
    BY GrownSelf
  <2> QED BY <1>1, <1>2, <1>3, <2>2, <2>3, <2>5, <2>6, <2>7, StaleSends
<1>8. CASE Return(c, Found(c)) /\ UNCHANGED queue
  <2>1. cl[c].op.kind \notin Killers
    BY <1>3 DEF Killers, Reads
  <2>2. cl[c].op.kind = "Get" => FreshRead(cl[c].call, ram.tags, log')
    BY <1>1, <1>8, JudgeIsFresh
  <2> QED BY <1>1, <1>8, <2>1, <2>2, StaleReturns
<1> QED BY <1>4, <1>5, <1>6, <1>7, <1>8

\* Registering the names the shard lacks (store.rs ensure_tags_registered).
LEMMA StaleRegisters ==
  ASSUME RegistryInv, CallsInv, StaleInv, NEW c \in Clients, Register(c)
  PROVE  StaleInv'
<1>1. /\ cl[c].pc = "register" /\ UNCHANGED <<store_vars, writer_vars>>
      /\ \/ Goto(c, "resolve") /\ UNCHANGED queue
         \/ \E items : Send(c, cl[c], log, "CreateTags", items)
  BY DEF Register
<1>2. /\ DOMAIN cl[c] = CallerFields /\ cl[c].call \in DOMAIN log
      /\ Storing(cl[c].op) /\ cl[c].prep = <<>>
  BY <1>1, CallerAt DEF CallerOK
<1>3. LogTraced(log) /\ log[cl[c].call].reply = <<>>
  BY <1>1 DEF StaleInv, Follows
<1>4. CASE Goto(c, "resolve") /\ UNCHANGED queue
  <2>1. PICK x : x = [cl[c] EXCEPT !.pc = "resolve"]
    OBVIOUS
  <2>2. cl' = [cl EXCEPT ![c] = x] /\ log' = log
    BY <1>4, <2>1 DEF Goto, CallsInv
  <2>3. x.pc = "resolve" /\ x.call = cl[c].call /\ x.prep = <<>>
    BY <1>2, <2>1 DEF CallerFields
  <2>4. Follows(x, ram.tags, ram.epoch, log)
    BY <1>3, <2>3, SMT DEF Follows
  <2> QED BY <1>1, <1>4, <2>2, <2>3, <2>4, StaleGoes
<1>5. ASSUME NEW items, Send(c, cl[c], log, "CreateTags", items) PROVE StaleInv'
  <2>1. PICK job : job = [client |-> c, call |-> cl[c].call, kind |-> "CreateTags", items |-> items]
    OBVIOUS
  <2>2. job.call = cl[c].call /\ job.kind = "CreateTags"
    BY <2>1
  <2>3. Traced(job, cl[c]) /\ JobCovered(job, ram.tags, log)
    BY <1>2, <2>2 DEF Traced, JobCovered
  <2>4. Grown(log, log) /\ News(log, log) = {}
    BY GrownSelf
  <2> QED BY <1>1, <1>2, <1>3, <1>5, <2>1, <2>3, <2>4, StaleSends
<1> QED BY <1>1, <1>4, <1>5

\* The refs resolved for names cover them (tags.rs resolve).
LEMMA ResolveCovers ==
  ASSUME NEW r, NEW names, names \subseteq DOMAIN r.tags
  PROVE  Covers(resolve(r, names), r.tags, names)
<1>1. DOMAIN resolve(r, names) = {e.id : e \in {r.tags[n] : n \in names}}
  BY DEF resolve
<1> QED BY <1>1 DEF Covers

\* The next item's refs are resolved (tags.rs resolve).
LEMMA StaleResolves ==
  ASSUME RegistryInv, CallsInv, StaleInv, NEW c \in Clients, Resolve(c)
  PROVE  StaleInv'
<1> DEFINE item == cl[c].op.items[Len(cl[c].prep) + 1]
<1>1. PICK x : x = [cl[c] EXCEPT !.pc = "prepare", !.refs = resolve(ram, item.names)]
  OBVIOUS
<1>2. /\ cl[c].pc = "resolve" /\ UNCHANGED <<queue, log, store_vars, writer_vars>>
      /\ cl' = [cl EXCEPT ![c] = x]
  BY <1>1 DEF Resolve, CallsInv
<1>3. /\ DOMAIN cl[c] = CallerFields /\ Storing(cl[c].op) /\ cl[c].op \in Ops
      /\ PrepOK(cl[c], ram.tags, ram.epoch)
      /\ NamesOf(cl[c].op) \subseteq DOMAIN ram.tags /\ Len(cl[c].prep) < Len(cl[c].op.items)
  BY <1>2, CallerAt DEF CallerOK
<1>4. /\ x.pc = "prepare" /\ x.op = cl[c].op /\ x.call = cl[c].call /\ x.prep = cl[c].prep
      /\ x.refs = resolve(ram, item.names)
  BY <1>1, <1>3 DEF CallerFields
<1>5. Len(cl[c].prep) \in Nat
  BY <1>3, SMT DEF PrepOK, IsSeq
<1>6. Len(cl[c].prep) + 1 \in DOMAIN cl[c].op.items
  BY <1>3, <1>5, CallsAreLists, SMT
<1>7. item.names \subseteq DOMAIN ram.tags
  BY <1>3, <1>6 DEF NamesOf
<1>8. Covers(x.refs, ram.tags, item.names)
  BY <1>4, <1>7, ResolveCovers
<1>9. Follows(cl[c], ram.tags, ram.epoch, log)
  BY DEF StaleInv
<1>10. Follows(x, ram.tags, ram.epoch, log)
  BY <1>2, <1>4, <1>8, <1>9 DEF Follows
<1> QED BY <1>2, <1>4, <1>10, StaleGoes

\* An item is prepared with the refs resolved for it (apply.rs prepare_set).
LEMMA StalePrepares ==
  ASSUME RegistryInv, CallsInv, StaleInv, NEW c \in Clients, Prepare(c)
  PROVE  StaleInv'
<1> DEFINE i0 == Len(cl[c].prep) + 1
           p == prepare_set(c, cl[c].op.items[i0])
           prep == Append(cl[c].prep, p)
           pc == IF Len(prep) = Len(cl[c].op.items) THEN "send" ELSE "resolve"
<1>1. cl[c].pc = "prepare" /\ UNCHANGED <<queue, store_vars, writer_vars>>
  BY DEF Prepare
<1>2. /\ DOMAIN cl[c] = CallerFields /\ Storing(cl[c].op)
      /\ PrepOK(cl[c], ram.tags, ram.epoch)
  BY <1>1, CallerAt DEF CallerOK
<1>3. CASE Return(c, Error("capacity_full"))
  <2>1. cl[c].op.kind \notin Killers \cup {"Get"}
    BY <1>2 DEF Killers, Storing, Stores
  <2> QED BY <1>1, <1>3, <2>1, StaleReturns
<1>4. CASE /\ cl' = [cl EXCEPT ![c].prep = prep, ![c].refs = Empty, ![c].pc = pc]
           /\ UNCHANGED log
  <2>1. PICK x : x = [cl[c] EXCEPT !.prep = prep, !.refs = Empty, !.pc = pc]
    OBVIOUS
  <2>2. cl' = [cl EXCEPT ![c] = x]
    BY <1>4, <2>1 DEF CallsInv
  <2>3. x.pc = pc /\ x.op = cl[c].op /\ x.call = cl[c].call /\ x.prep = prep
    BY <1>2, <2>1 DEF CallerFields
  <2>4. p.tags = cl[c].refs
    BY DEF prepare_set
  <2> HIDE DEF p
  <2>5. IsSeq(cl[c].prep)
    BY <1>2 DEF PrepOK
  <2>6. /\ Len(cl[c].prep) \in Nat /\ DOMAIN cl[c].prep = 1..Len(cl[c].prep)
        /\ DOMAIN prep = 1..i0 /\ prep[i0] = p
        /\ \A i \in 1..Len(cl[c].prep) : prep[i] = cl[c].prep[i]
    BY <2>5, SMT DEF IsSeq
  <2> HIDE DEF prep
  <2>7. /\ log[cl[c].call].reply = <<>>
        /\ Covers(cl[c].refs, ram.tags, cl[c].op.items[i0].names)
        /\ \A i \in DOMAIN cl[c].prep : Covers(cl[c].prep[i].tags, ram.tags, cl[c].op.items[i].names)
    BY <1>1 DEF StaleInv, Follows
  <2>8. \A i \in DOMAIN prep : Covers(prep[i].tags, ram.tags, cl[c].op.items[i].names)
    <3>1. \A i \in DOMAIN prep : i = i0 \/ (i \in DOMAIN cl[c].prep /\ prep[i] = cl[c].prep[i])
      BY <2>6, SMT
    <3> QED BY <2>4, <2>6, <2>7, <3>1
  <2>9. pc \in {"resolve", "send"}
    OBVIOUS
  <2> HIDE DEF pc
  <2>10. Follows(x, ram.tags, ram.epoch, log)
    BY <2>3, <2>7, <2>8, <2>9 DEF Follows
  <2> QED BY <1>1, <1>4, <2>2, <2>3, <2>10, StaleGoes
<1>5. \/ Return(c, Error("capacity_full"))
      \/ /\ cl' = [cl EXCEPT ![c].prep = prep, ![c].refs = Empty, ![c].pc = pc]
         /\ UNCHANGED log
  BY DEF Prepare
<1> QED BY <1>3, <1>4, <1>5

\* What a call stores under a key is one item's (store.rs).
LEMMA NamedOnce ==
  ASSUME DistinctKeys, NEW op \in Ops, Storing(op), NEW i \in DOMAIN op.items
  PROVE  Named(op.items[i].key, op) = op.items[i].names
<1>1. {j \in DOMAIN op.items : op.items[j].key = op.items[i].key} = {i}
  BY DEF DistinctKeys
<1> QED BY <1>1 DEF Named

\* The write goes to the writer with everything prepared (store.rs).
LEMMA StaleSubmits ==
  ASSUME DistinctKeys, RegistryInv, CallsInv, StaleInv, NEW c \in Clients, Submit(c)
  PROVE  StaleInv'
<1>1. cl[c].pc = "send" /\ UNCHANGED <<store_vars, writer_vars>>
  BY DEF Submit
<1>2. /\ DOMAIN cl[c] = CallerFields /\ cl[c].op \in Ops /\ Storing(cl[c].op)
      /\ cl[c].call \in DOMAIN log /\ log[cl[c].call].op = cl[c].op
      /\ PrepOK(cl[c], ram.tags, ram.epoch)
  BY <1>1, CallerAt DEF CallerOK
<1>3. PICK kind \in {"Set", "ConditionalSet"} :
        Send(c, [cl[c] EXCEPT !.prep = <<>>], log, kind, cl[c].prep)
  BY DEF Submit
<1>4. PICK s : s = [cl[c] EXCEPT !.prep = <<>>]
  OBVIOUS
<1>5. DOMAIN s = CallerFields /\ s.op = cl[c].op /\ s.call = cl[c].call
  BY <1>2, <1>4 DEF CallerFields
<1>6. PICK job : job = [client |-> c, call |-> s.call, kind |-> kind, items |-> cl[c].prep]
  OBVIOUS
<1>7. job.call = s.call /\ job.kind = kind /\ job.items = cl[c].prep
  BY <1>6
<1>8. LogTraced(log) /\ log[cl[c].call].reply = <<>>
      /\ \A i \in DOMAIN cl[c].prep : Covers(cl[c].prep[i].tags, ram.tags, cl[c].op.items[i].names)
  BY <1>1 DEF StaleInv, Follows
<1>9. ASSUME NEW i \in DOMAIN cl[c].prep
      PROVE  /\ cl[c].prep[i].ver = cl[c].call
             /\ Covered(cl[c].prep[i].key, cl[c].prep[i], ram.tags, log)
  <2>1. /\ i \in DOMAIN cl[c].op.items /\ cl[c].prep[i].key = cl[c].op.items[i].key
        /\ cl[c].prep[i].ver = cl[c].call
    BY <1>2 DEF PrepOK
  <2>2. Named(cl[c].prep[i].key, cl[c].op) = cl[c].op.items[i].names
    BY <1>2, <2>1, NamedOnce
  <2> QED BY <1>2, <1>8, <2>1, <2>2 DEF Covered
<1>10. Traced(job, s) /\ JobCovered(job, ram.tags, log)
  BY <1>2, <1>5, <1>7, <1>9 DEF Traced, JobCovered
<1>11. Grown(log, log) /\ News(log, log) = {}
  BY GrownSelf
<1>12. Send(c, s, log, kind, cl[c].prep)
  BY <1>3, <1>4
<1> QED BY <1>1, <1>2, <1>5, <1>6, <1>8, <1>10, <1>11, <1>12, StaleSends

\* A reader's snapshot is free of what had been invalidated (read.rs).
LEMMA SnapshotIsClean ==
  ASSUME RegistryInv, CallsInv, StaleInv, NEW op \in Ops, NEW m, m = Called(op), NEW snap,
         snap = [k \in DOMAIN disk.main \cap KeysOf(op) |-> disk.main[k]]
  PROVE  \A d \in Spent(m) : Gone(m[d], snap, ram.tags, ram.epoch, m)
<1>1. LogOK(log) /\ LogTraced(log) /\ Clean(disk.main, ram.tags, ram.epoch, log)
  BY DEF CallsInv, StaleInv
<1>2. Grown(log, m) /\ News(log, m) = {}
  BY <1>1, CalledGrown
<1>3. Grows(ram.tags, ram.tags, ram.epoch, ram.epoch, log, m)
  BY <1>2, GrownExtends, MemoryGrows
<1>4. Descends(disk.main, snap, log)
  BY DEF Descends, Alike
<1> SUFFICES ASSUME NEW d \in Spent(m) PROVE Gone(m[d], snap, ram.tags, ram.epoch, m)
  OBVIOUS
<1>5. d \in Spent(log) /\ d \in DOMAIN log
  BY <1>2, SpentGrows DEF Spent
<1>6. AllReturned(log[d].before, log) /\ Gone(log[d], disk.main, ram.tags, ram.epoch, log)
  BY <1>1, <1>5, BeforeReturned DEF Clean
<1>7. m[d].op = log[d].op /\ m[d].before = log[d].before
  BY <1>2, <1>5 DEF Grown
<1> QED BY <1>3, <1>4, <1>6, <1>7, GoneStays, SMT

\* A call is made (store.rs, read.rs).
LEMMA StaleCalls ==
  ASSUME RegistryInv, CallsInv, StaleInv, NEW c \in Clients, CallStep(c)
  PROVE  StaleInv'
<1>1. PICK op \in Ops : CallRead(c, op) \/ CallStore(c, op) \/ CallWrite(c, op)
  BY DEF CallStep
<1>2. cl[c].pc = "idle" /\ UNCHANGED <<store_vars, writer_vars>>
  BY <1>1 DEF CallRead, CallStore, CallWrite, MayCall
<1>3. LogOK(log) /\ LogTraced(log)
  BY DEF CallsInv, StaleInv
<1>4. PICK m : m = Called(op)
  OBVIOUS
<1>5. /\ LogTraced(m) /\ Grown(log, m) /\ News(log, m) = {}
      /\ Len(log) + 1 \in DOMAIN m /\ Len(log) + 1 \notin DOMAIN log
      /\ m[Len(log) + 1].op = op /\ m[Len(log) + 1].reply = <<>>
      /\ \A i \in DOMAIN log : m[i] = log[i]
  BY <1>3, <1>4, CalledGrown, SMT
<1>6. ASSUME NEW x, cl' = [cl EXCEPT ![c] = x], log' = m, UNCHANGED queue, x.call = Len(log) + 1,
             Follows(x, ram.tags, ram.epoch, m)
      PROVE  StaleInv'
  <2>1. \A i \in DOMAIN log : cl[c].pc = "idle" \/ i # cl[c].call => log'[i] = log[i]
    BY <1>5, <1>6
  <2>2. x.call \notin DOMAIN log /\ queue' = queue
    BY <1>5, <1>6
  <2> QED BY <1>2, <1>5, <1>6, <2>1, <2>2, StaleMoves
<1>7. CASE CallRead(c, op)
  <2> DEFINE snap == [k \in DOMAIN disk.main \cap KeysOf(op) |-> disk.main[k]]
  <2>1. PICK x : x = [Caller(op, "epoch") EXCEPT !.at = now, !.snap = snap]
    OBVIOUS
  <2>2. /\ log' = m /\ queue' = queue /\ cl' = [cl EXCEPT ![c] = x] /\ op.kind \in Reads
    BY <1>4, <1>7, <2>1 DEF CallRead
  <2>3. x.pc = "epoch" /\ x.op = op /\ x.call = Len(log) + 1 /\ x.snap = snap
    BY <2>1 DEF Caller
  <2>4. \A d \in Spent(m) : Gone(m[d], snap, ram.tags, ram.epoch, m)
    BY <1>4, SnapshotIsClean
  <2> HIDE DEF snap
  <2>5. EpochOf(x, ram.epoch) = ram.epoch
    BY <2>3 DEF EpochOf
  <2>6. Follows(x, ram.tags, ram.epoch, m)
    BY <1>5, <2>2, <2>3, <2>4, <2>5 DEF Follows
  <2> QED BY <1>6, <2>2, <2>3, <2>6
<1>8. CASE CallStore(c, op)
  <2>1. PICK x : x = Caller(op, "register")
    OBVIOUS
  <2>2. log' = m /\ queue' = queue /\ cl' = [cl EXCEPT ![c] = x]
    BY <1>4, <1>8, <2>1 DEF CallStore
  <2>3. x.pc = "register" /\ x.call = Len(log) + 1
    BY <2>1 DEF Caller
  <2>4. Follows(x, ram.tags, ram.epoch, m)
    BY <1>5, <2>3 DEF Follows
  <2> QED BY <1>6, <2>2, <2>3, <2>4
<1>9. CASE CallWrite(c, op)
  <2>1. PICK x : x = Caller(op, "wait")
    OBVIOUS
  <2>2. Send(c, x, m, op.kind, op.items) /\ op.kind \notin Reads \cup Stores
    BY <1>4, <1>9, <2>1 DEF CallWrite
  <2>3. DOMAIN x = CallerFields /\ x.op = op /\ x.call = Len(log) + 1
    BY <2>1 DEF Caller, CallerFields
  <2>4. op.kind \notin {"CreateTags", "Set", "ConditionalSet"}
    BY <2>2, WriterAssumption DEF Reads, Stores, WriteOps
  <2>5. PICK job : job = [client |-> c, call |-> x.call, kind |-> op.kind, items |-> op.items]
    OBVIOUS
  <2>6. job.call = x.call /\ job.kind = op.kind /\ job.items = op.items
    BY <2>5
  <2>7. Traced(job, x) /\ JobCovered(job, ram.tags, m)
    BY <2>2, <2>3, <2>4, <2>6 DEF Traced, JobCovered
  <2> QED BY <1>2, <1>5, <2>2, <2>3, <2>5, <2>7, StaleSends
<1> QED BY <1>1, <1>7, <1>8, <1>9

\* A step of a caller leads to no stale read.
LEMMA StaleCallerStep ==
  ASSUME DistinctKeys, RegistryInv, CallsInv, StaleInv, NEW c \in Clients, ClientStep(c) \/ CallStep(c)
  PROVE  StaleInv'
  BY StaleEpoch, StaleJudges, StaleRegisters, StaleResolves, StalePrepares, StaleSubmits,
     StaleCalls DEF ClientStep

-----------------------------------------------------------------------------
(* The writer *)

\* The writer works while its callers wait.
LEMMA StaleStays ==
  ASSUME RegistryInv, CallsInv, StaleInv, UNCHANGED <<cl, log>>,
         Grows(ram.tags, ram'.tags, ram.epoch, ram'.epoch, log, log),
         Elems(queue') \cup Elems(batch') \subseteq Elems(queue) \cup Elems(batch),
         ~Lazy => since' = {disk'},
         Clean(disk'.main, ram'.tags, ram'.epoch, log),
         Open' => Clean(txn'.t.main, ram'.tags, ram'.epoch, log),
         BatchStruck'
  PROVE  StaleInv'
<1>1. log' = log /\ cl' = cl /\ LogTraced(log) /\ ReadsFresh(ram.tags, log) /\ OneCallEach
  BY DEF StaleInv
<1>2. Grown(log, log) /\ News(log, log) = {}
  BY GrownSelf
<1>3. ReadsFresh(ram'.tags, log)
  BY <1>1, <1>2, FreshStays
<1>4. ASSUME NEW c \in Clients PROVE Follows(cl[c], ram'.tags, ram'.epoch, log)
  <2>1. Follows(cl[c], ram.tags, ram.epoch, log)
    BY DEF StaleInv
  <2>2. cl[c].pc # "idle" => cl[c].call \in DOMAIN log /\ log[cl[c].call].reply = <<>>
    BY <2>1, CallerAt DEF CallerOK, Follows
  <2> QED BY <1>1, <1>2, <2>1, <2>2, FollowsStays
<1>5. \A job \in Elems(queue') \cup Elems(batch') :
        Traced(job, cl[job.client]) /\ JobCovered(job, ram'.tags, log)
  BY JobCoveredStays DEF StaleInv
<1>6. OneCallEach'
  BY <1>1 DEF OneCallEach
<1> QED BY <1>1, <1>3, <1>4, <1>5, <1>6 DEF StaleInv

\* What is left of clean records is clean, whatever memory learns.
LEMMA CleanLeft ==
  ASSUME LogTraced(log), NEW main, NEW kept, NEW tags, NEW new, NEW epoch, NEW later,
         Clean(main, tags, epoch, log), Grows(tags, new, epoch, later, log, log),
         DOMAIN kept \subseteq DOMAIN main, \A k \in DOMAIN kept : kept[k] = main[k]
  PROVE  Clean(kept, new, later, log)
<1>1. Grown(log, log) /\ News(log, log) = {}
  BY GrownSelf
<1>2. Descends(main, kept, log) /\ \A k \in DOMAIN kept : k \in DOMAIN main /\ Alike(kept[k], main[k])
  BY DEF Descends, Alike
<1> QED BY <1>1, <1>2, CleanStays

\* The writer has no transaction and nothing to publish.
LEMMA StaleRests ==
  ASSUME RegistryInv, CallsInv, StaleInv, UNCHANGED <<cl, log, queue, batch, disk>>,
         ram'.tags = ram.tags, ram'.epoch = ram.epoch, since' \in {since, {disk}},
         ~Open', phase' # "publish"
  PROVE  StaleInv'
<1>1. Grows(ram.tags, ram'.tags, ram.epoch, ram'.epoch, log, log)
  BY MemoryStays
<1>2. BatchStruck'
  BY DEF BatchStruck
<1>3. ~Lazy => since' = {disk'}
  BY DEF StaleInv
<1>4. Clean(disk'.main, ram'.tags, ram'.epoch, log)
  BY DEF StaleInv
<1> QED BY <1>1, <1>2, <1>3, <1>4, StaleStays

\* A maintenance error leaves the records alone (writer.rs).
LEMMA StaleMaintainFails ==
  ASSUME RegistryInv, CallsInv, StaleInv, NEW level, MaintainFails(level)
  PROVE  StaleInv'
<1>1. /\ phase = "maintain" /\ phase' = "commit" /\ txn' = [txn EXCEPT !.poisoned = TRUE]
      /\ UNCHANGED <<disk, since, queue, batch, outs, acc, cl, log>>
      /\ ram' \in {ram, [ram EXCEPT !.pressure = level]}
  BY DEF MaintainFails
<1>2. txn'.t = txn.t /\ ram'.tags = ram.tags /\ ram'.epoch = ram.epoch
  BY <1>1 DEF RegistryInv, MemoryOK, OpenOK, Open
<1>3. Open /\ Open' /\ phase' # "publish"
  BY <1>1 DEF Open
<1>4. Grows(ram.tags, ram'.tags, ram.epoch, ram'.epoch, log, log)
  BY <1>1, <1>2, MemoryStays
<1>5. BatchStruck'
  BY <1>1, <1>2, <1>3 DEF StaleInv, BatchStruck, ItemsDone
<1>6. ~Lazy => since' = {disk'}
  BY <1>1 DEF StaleInv
<1>7. Clean(disk'.main, ram'.tags, ram'.epoch, log) /\ Clean(txn'.t.main, ram'.tags, ram'.epoch, log)
  BY <1>1, <1>2, <1>3 DEF StaleInv
<1> QED BY <1>1, <1>4, <1>5, <1>6, <1>7, StaleStays

\* The transaction starts from the last commit (writer.rs writer_loop).
LEMMA StaleBegins ==
  ASSUME RegistryInv, CallsInv, StaleInv, NEW due, Begin(due)
  PROVE  StaleInv'
<1> DEFINE n == Min2(Len(queue), MaxBatch)
<1>1. /\ phase = "idle" /\ batch' = SubSeq(queue, 1, n) /\ queue' = SubSeq(queue, n + 1, Len(queue))
      /\ phase' = (IF n > 0 THEN "apply" ELSE "maintain")
      /\ txn' = [t |-> disk, poisoned |-> FALSE, due |-> due]
      /\ outs' = <<>> /\ acc' = <<>> /\ UNCHANGED <<disk, since, ram, cl, log>>
  BY DEF Begin, store_vars
<1>2. IsSeq(queue) /\ Len(queue) \in Nat
  BY SMT DEF RegistryInv, JobsOK, IsSeq
<1>3. n \in Nat /\ n <= Len(queue)
  BY <1>2, WriterAssumption, SMT DEF Min2
<1> HIDE DEF n
<1>4. IsSeq(batch') /\ Elems(batch') \subseteq Elems(queue) /\ Elems(queue') \subseteq Elems(queue)
  BY <1>1, <1>2, <1>3, SubSeqElems, SMT
<1>5. txn'.t = disk /\ Open' /\ phase' # "publish"
  BY <1>1 DEF Open
<1>6. BatchStruck'
  <2>1. \A x \in DOMAIN batch' : x \in Nat /\ x > 0
    BY <1>4, SMT DEF IsSeq
  <2>2. Len(outs') = 0 /\ Len(acc') = 0
    BY <1>1
  <2>3. \A x \in DOMAIN batch' : ItemsDone(x)' = {}
    BY <2>1, <2>2, SMT DEF ItemsDone
  <2> QED BY <1>5, <2>3 DEF BatchStruck
<1>7. Grows(ram.tags, ram'.tags, ram.epoch, ram'.epoch, log, log)
  BY <1>1, MemoryStays
<1>8. ~Lazy => since' = {disk'}
  BY <1>1 DEF StaleInv
<1>9. Clean(disk'.main, ram'.tags, ram'.epoch, log) /\ Clean(txn'.t.main, ram'.tags, ram'.epoch, log)
  BY <1>1, <1>5 DEF StaleInv
<1> QED BY <1>1, <1>4, <1>6, <1>7, <1>8, <1>9, StaleStays

\* What was applied is on disk once the batch is committed (writer.rs).
LEMMA StaleCommits ==
  ASSUME RegistryInv, CallsInv, StaleInv, Commit
  PROVE  StaleInv'
<1>1. PICK t : t = [txn.t EXCEPT !.seq = IF batch = <<>> THEN @ ELSE @ + 1]
  OBVIOUS
<1>2. /\ phase = "commit" /\ disk' = t /\ since' = (IF Lazy THEN since \cup {t} ELSE {t})
      /\ phase' = "publish" /\ UNCHANGED <<ram, queue, batch, outs, acc, cl, log>>
  BY <1>1 DEF Commit
<1>3. Registry(txn.t, ram.nextId)
  BY <1>2 DEF RegistryInv, OpenOK, Open
<1>4. t.main = txn.t.main /\ t.tags = txn.t.tags /\ t.epoch = txn.t.epoch
  BY <1>1, <1>3 DEF Registry, Fields
<1>5. Open /\ ~Open'
  BY <1>2 DEF Open
<1>6. BatchStruck'
  <2>1. Len(outs) = Len(batch) /\ DOMAIN batch = 1..Len(batch) /\ Len(batch) \in Nat
    BY <1>2, SMT DEF CallsInv, BatchOK, IsSeq
  <2>2. \A x \in DOMAIN batch : ItemsDone(x) = DOMAIN batch[x].items
    BY <2>1, SMT DEF ItemsDone
  <2>3. \A x \in DOMAIN batch : \A y \in DOMAIN batch[x].items : JobStruck(batch[x], y, txn.t, log)
    BY <1>5, <2>2 DEF StaleInv, BatchStruck
  <2>4. \A x \in DOMAIN batch : \A y \in DOMAIN batch[x].items : JobStruck(batch[x], y, t, log)
    BY <1>4, <2>3 DEF JobStruck
  <2> QED BY <1>2, <1>5, <2>4 DEF BatchStruck
<1>7. Grows(ram.tags, ram'.tags, ram.epoch, ram'.epoch, log, log)
  BY <1>2, MemoryStays
<1>8. ~Lazy => since' = {disk'}
  BY <1>2
<1>9. Clean(disk'.main, ram'.tags, ram'.epoch, log)
  BY <1>2, <1>4, <1>5 DEF StaleInv
<1> QED BY <1>2, <1>5, <1>6, <1>7, <1>8, <1>9, StaleStays

\* An effect reaches memory (queue.rs PostCommit).
LEMMA StalePublishes ==
  ASSUME RegistryInv, RegistryInv', PublicationInv, CallsInv, StaleInv, Publish
  PROVE  StaleInv'
<1>1. /\ phase = "publish" /\ UNCHANGED <<disk, since, queue, phase, batch, outs, acc, txn, cl, log>>
  BY DEF Publish
<1>2. Grows(ram.tags, ram'.tags, ram.epoch, ram'.epoch, log, log)
  BY <1>1, MemoryLearns
<1>3. BatchStruck' /\ ~Open'
  BY <1>1 DEF StaleInv, BatchStruck, ItemsDone, Open
<1>4. ~Lazy => since' = {disk'}
  BY <1>1 DEF StaleInv
<1>5. Clean(disk.main, ram'.tags, ram'.epoch, log)
  BY <1>2, CleanLeft DEF StaleInv
<1> QED BY <1>1, <1>2, <1>3, <1>4, <1>5, StaleStays

-----------------------------------------------------------------------------
(* What an operation leaves of the records (apply.rs, tags.rs) *)

\* A record is left as it was found, or is what the call has written.
Left(t, u, call, tags, l) ==
  \A k \in DOMAIN u.main :
    \/ k \in DOMAIN t.main /\ Alike(u.main[k], t.main[k])
    \/ u.main[k].ver = call /\ Covered(k, u.main[k], tags, l)

\* The records have not changed.
LEMMA SameLeft ==
  ASSUME NEW t, NEW u, NEW call, NEW tags, NEW l, u.main = t.main
  PROVE  Left(t, u, call, tags, l)
  BY DEF Left, Alike

\* Storing a record (apply.rs apply_set).
LEMMA SetLeaves ==
  ASSUME NEW r, NEW t, NEW w, NEW p, NEW call, NEW tags, NEW l, DOMAIN t = Fields,
         \/ p.key \in DOMAIN t.main /\ Alike(p, t.main[p.key])
         \/ p.ver = call /\ Covered(p.key, p, tags, l)
  PROVE  Left(t, apply_set(r, t, w, p).t, call, tags, l)
<1>1. PICK u : u = apply_set(r, t, w, p).t
  OBVIOUS
<1> DEFINE c == next_cas(r, t)
           at == IF p.exp = Deferred THEN deadline_after(w, p.ttl, displaced(r, t, w, p.key).deadline)
                 ELSE p.exp
<1>2. DOMAIN c.t = Fields /\ c.t.main = t.main
  BY DEF next_cas, Fields
<1>3. PICK record : record = [epoch |-> p.epoch, exp |-> at, cas |-> c.cas, tags |-> p.tags,
                              val |-> p.val, ver |-> p.ver]
  OBVIOUS
<1>4. \E e, x : u = [c.t EXCEPT !.main = Put(@, p.key, record), !.exp = e, !.tagidx = x]
  BY <1>1, <1>3 DEF apply_set
<1> HIDE DEF c, at
<1>5. /\ u.main = Put(t.main, p.key, record)
      /\ record.tags = p.tags /\ record.ver = p.ver /\ record.epoch = p.epoch
  BY <1>2, <1>3, <1>4, SMT DEF Fields
<1>6. /\ DOMAIN u.main = DOMAIN t.main \cup {p.key} /\ u.main[p.key] = record
      /\ \A k \in DOMAIN t.main : k # p.key => u.main[k] = t.main[k]
  BY <1>5 DEF Put
<1>7. \/ p.key \in DOMAIN t.main /\ Alike(record, t.main[p.key])
      \/ record.ver = call /\ Covered(p.key, record, tags, l)
  BY <1>5 DEF Alike, Covered
<1> QED BY <1>1, <1>6, <1>7 DEF Left, Alike

\* Rewriting a record in place, or making one without tags (apply.rs).
LEMMA RewriteLeaves ==
  ASSUME NEW r, NEW t, NEW w, NEW k, NEW refs, NEW e, NEW at, NEW val, NEW ver,
         NEW call, NEW tags, NEW l, DOMAIN t = Fields,
         \/ k \in DOMAIN t.main /\ refs = t.main[k].tags /\ ver = t.main[k].ver /\ e = t.main[k].epoch
         \/ ver = call /\ call \in DOMAIN l /\ Named(k, l[call].op) = {}
  PROVE  Left(t, rewrite(r, t, w, k, refs, e, at, val, ver).t, call, tags, l)
<1>1. PICK p : p = [key |-> k, tags |-> refs, epoch |-> e, exp |-> at,
                    ttl |-> [how |-> "keep", secs |-> 0], val |-> val, ver |-> ver]
  OBVIOUS
<1>2. p.key = k /\ p.tags = refs /\ p.epoch = e /\ p.ver = ver
  BY <1>1
<1>3. \/ p.key \in DOMAIN t.main /\ Alike(p, t.main[p.key])
      \/ p.ver = call /\ Covered(p.key, p, tags, l)
  BY <1>2 DEF Alike, Covered, Covers
<1>4. rewrite(r, t, w, k, refs, e, at, val, ver) = apply_set(r, t, w, p)
  BY <1>1 DEF rewrite
<1> QED BY <1>3, <1>4, SetLeaves

\* A record is removed (apply.rs apply_delete).
LEMMA DeleteLeaves ==
  ASSUME NEW r, NEW t, NEW w, NEW k, NEW call, NEW tags, NEW l, DOMAIN t = Fields
  PROVE  LET out == apply_delete(r, t, w, k)
         IN  /\ Left(t, out.t, call, tags, l) /\ k \notin DOMAIN out.t.main
             /\ out.res \in {"deleted", "miss"}
<1>1. PICK out : out = apply_delete(r, t, w, k)
  OBVIOUS
<1>2. out.t.main = Delete(t.main, {k}) /\ out.res \in {"deleted", "miss"}
  BY <1>1 DEF apply_delete, Nothing, Fields
<1> QED BY <1>1, <1>2 DEF Delete, Left, Alike

\* TOUCH (apply.rs apply_touch).
LEMMA TouchLeaves ==
  ASSUME NEW r, NEW t, NEW w, NEW k, NEW secs, NEW call, NEW tags, NEW l, DOMAIN t = Fields
  PROVE  Left(t, apply_touch(r, t, w, k, secs).t, call, tags, l)
<1>1. CASE ~live_in(r, t, w, k)
  BY <1>1, SameLeft DEF apply_touch, Nothing
<1>2. CASE live_in(r, t, w, k)
  <2>1. k \in DOMAIN t.main
    BY <1>2 DEF live_in
  <2>2. PICK at : apply_touch(r, t, w, k, secs).t =
                    rewrite(r, t, w, k, t.main[k].tags, t.main[k].epoch, at, t.main[k].val, t.main[k].ver).t
    BY <1>2 DEF apply_touch, Applied
  <2> QED BY <2>1, <2>2, RewriteLeaves
<1> QED BY <1>1, <1>2

\* A conditional store, refused or made (apply.rs apply_conditional_set).
LEMMA ConditionalLeaves ==
  ASSUME NEW r, NEW t, NEW w, NEW p, NEW call, NEW tags, NEW l, DOMAIN t = Fields,
         DOMAIN p = PreparedFields, p.ver = call, Covered(p.key, p, tags, l)
  PROVE  Left(t, apply_conditional_set(r, t, w, p).t, call, tags, l)
<1> DEFINE refusal == Refusal(p, live_in(r, t, w, p.key), t.main[p.key])
<1>1. CASE refusal # "none"
  BY <1>1, SameLeft DEF apply_conditional_set, Nothing
<1>2. CASE refusal = "none"
  <2>1. PICK q : /\ q = p \/ q = Concatenated(r, t.main[p.key], p)
                 /\ apply_conditional_set(r, t, w, p).t = apply_set(r, t, w, q).t
    BY <1>2 DEF apply_conditional_set, WriteSet, Applied
  <2>2. q.ver = call /\ Covered(q.key, q, tags, l)
    <3>1. CASE q = Concatenated(r, t.main[p.key], p)
      <4>1. q.key = p.key /\ q.tags = p.tags /\ q.ver = p.ver
        BY <3>1 DEF Concatenated, PreparedFields
      <4> QED BY <4>1 DEF Covered
    <3> QED BY <2>1, <3>1
  <2> QED BY <2>1, <2>2, SetLeaves
<1> QED BY <1>1, <1>2

\* EXPIRE in each of its outcomes (apply.rs apply_expire).
LEMMA ExpireLeaves ==
  ASSUME NEW r, NEW t, NEW w, NEW k, NEW ttl, NEW guard, NEW call, NEW tags, NEW l,
         DOMAIN t = Fields
  PROVE  Left(t, apply_expire(r, t, w, k, ttl, guard).t, call, tags, l)
<1>1. CASE ~live_in(r, t, w, k)
  BY <1>1, SameLeft DEF apply_expire, Nothing
<1>2. CASE live_in(r, t, w, k)
  <2>1. k \in DOMAIN t.main
    BY <1>2 DEF live_in
  <2>2. \/ apply_expire(r, t, w, k, ttl, guard).t = t
        \/ apply_expire(r, t, w, k, ttl, guard) = apply_delete(r, t, w, k)
        \/ \E at : apply_expire(r, t, w, k, ttl, guard).t =
                     rewrite(r, t, w, k, t.main[k].tags, t.main[k].epoch, at, t.main[k].val, t.main[k].ver).t
    BY <1>2 DEF apply_expire, Applied, Nothing
  <2> QED BY <2>1, <2>2, RewriteLeaves, DeleteLeaves, SameLeft
<1> QED BY <1>1, <1>2

\* An increment, and an append, of a live record or of none (apply.rs
\* apply_arithmetic, apply_append).
LEMMA UpdateLeaves ==
  ASSUME NEW r, NEW t, NEW w, NEW k, NEW a, NEW b, NEW c, NEW call, NEW tags, NEW l,
         DOMAIN t = Fields, call \in DOMAIN l, Named(k, l[call].op) = {}
  PROVE  /\ Left(t, apply_arithmetic(r, t, w, k, a, b, c, call).t, call, tags, l)
         /\ Left(t, apply_append(r, t, w, k, a, call).t, call, tags, l)
<1>1. live_in(r, t, w, k) => k \in DOMAIN t.main /\ t.main[k].epoch = r.epoch
  BY DEF live_in, is_alive
<1> DEFINE refs == IF live_in(r, t, w, k) THEN t.main[k].tags ELSE Empty
           by == IF live_in(r, t, w, k) THEN t.main[k].ver ELSE call
<1>2. \A at, val : Left(t, rewrite(r, t, w, k, refs, r.epoch, at, val, by).t, call, tags, l)
  BY <1>1, RewriteLeaves
<1>3. \/ apply_arithmetic(r, t, w, k, a, b, c, call).t = t
      \/ \E at, val : apply_arithmetic(r, t, w, k, a, b, c, call).t =
                        rewrite(r, t, w, k, refs, r.epoch, at, val, by).t
  BY DEF apply_arithmetic, Applied, Nothing
<1>4. \/ apply_append(r, t, w, k, a, call).t = t
      \/ \E at, val : apply_append(r, t, w, k, a, call).t =
                        rewrite(r, t, w, k, refs, r.epoch, at, val, by).t
  BY DEF apply_append, Applied, Nothing
<1> HIDE DEF refs, by
<1> QED BY <1>2, <1>3, <1>4, SameLeft

\* Operations on tags leave the records alone (tags.rs).
LEMMA TagsLeave ==
  ASSUME NEW r, NEW t, NEW name, NEW gen, DOMAIN t = Fields
  PROVE  /\ apply_create_tag(r, t, name, gen).t.main = t.main
         /\ apply_merge_tag(r, t, name, gen).t.main = t.main
<1>1. apply_create_tag(r, t, name, gen).t.main = t.main
  BY DEF apply_create_tag, Nothing, Fields
<1>2. CASE name \notin DOMAIN t.tags
  BY <1>1, <1>2 DEF apply_merge_tag
<1>3. CASE name \in DOMAIN t.tags /\ gen <= t.tags[name].gen
  BY <1>1, <1>3 DEF apply_merge_tag, Nothing
<1>4. CASE name \in DOMAIN t.tags /\ ~(gen <= t.tags[name].gen)
  BY <1>1, <1>4 DEF apply_merge_tag, Fields
<1> QED BY <1>1, <1>2, <1>3, <1>4

\* An invalidation raises the generation of its tag, until it can rise no
\* further (tags.rs apply_delete_by_tag).
LEMMA DeleteByTagRaises ==
  ASSUME NEW r, NEW t, NEW name, DOMAIN t = Fields,
         \A n \in DOMAIN t.tags : t.tags[n] \in Entry
  PROVE  LET out == apply_delete_by_tag(r, t, name)
         IN  /\ out.t.main = t.main /\ out.res \in {"invalidated", "unknown_tag"}
             /\ name \in DOMAIN t.tags =>
                  /\ name \in DOMAIN out.t.tags /\ out.t.tags[name].id = t.tags[name].id
                  /\ \/ out.t.tags[name].gen >= U64Max
                     \/ out.t.tags[name].gen = t.tags[name].gen + 1
<1>1. PICK out : out = apply_delete_by_tag(r, t, name)
  OBVIOUS
<1>2. CASE name \notin DOMAIN t.tags
  <2>1. out.t = t /\ out.res = "unknown_tag"
    BY <1>1, <1>2 DEF apply_delete_by_tag, Nothing
  <2> QED BY <1>1, <1>2, <2>1
<1>3. CASE name \in DOMAIN t.tags /\ t.tags[name].gen = U64Max
  <2>1. out.t = t /\ out.res = "invalidated"
    BY <1>1, <1>3 DEF apply_delete_by_tag, Nothing
  <2>2. t.tags[name].gen >= U64Max
    BY <1>3, SMT DEF Entry
  <2> QED BY <1>1, <1>3, <2>1, <2>2
<1>4. CASE name \in DOMAIN t.tags /\ t.tags[name].gen # U64Max
  <2>1. PICK m : m = apply_merge_tag(r, t, name, t.tags[name].gen + 1)
    OBVIOUS
  <2>2. out = [m EXCEPT !.res = "invalidated"]
    BY <1>1, <1>4, <2>1 DEF apply_delete_by_tag
  <2>3. DOMAIN m = {"ram", "t", "res", "n", "eff"}
    BY <2>1 DEF apply_merge_tag, apply_create_tag, Nothing
  <2>4. out.t = m.t /\ out.res = "invalidated"
    BY <2>2, <2>3
  <2>5. ~(t.tags[name].gen + 1 <= t.tags[name].gen)
    BY <1>4, SMT DEF Entry
  <2>6. /\ m.t.main = t.main
        /\ m.t.tags = Put(t.tags, name, [id |-> t.tags[name].id, gen |-> t.tags[name].gen + 1])
    BY <1>4, <2>1, <2>5 DEF apply_merge_tag, Fields
  <2>7. /\ name \in DOMAIN m.t.tags /\ m.t.tags[name].id = t.tags[name].id
        /\ m.t.tags[name].gen = t.tags[name].gen + 1
    BY <2>6, SMT DEF Put
  <2> QED BY <1>1, <2>4, <2>6, <2>7
<1> QED BY <1>2, <1>3, <1>4

\* A flush leaves no record (apply.rs apply_flush).
LEMMA FlushLeaves ==
  ASSUME NEW r, NEW t, DOMAIN t = Fields
  PROVE  LET out == apply_flush(r, t)
         IN  /\ DOMAIN out.t.main = {} /\ out.res = "flushed"
             /\ out.t.tags = t.tags /\ out.t.epoch = r.epoch + 1
<1>1. PICK out : out = apply_flush(r, t)
  OBVIOUS
<1>2. out.t.main = Empty /\ out.t.tags = t.tags /\ out.t.epoch = r.epoch + 1 /\ out.res = "flushed"
  BY <1>1 DEF apply_flush, Fields
<1> QED BY <1>1, <1>2 DEF Empty

-----------------------------------------------------------------------------
(* The writer applies a batch (queue.rs, writer.rs) *)

\* The item being applied belongs to a call that is still open.
LEMMA CurrentCall ==
  ASSUME RegistryInv, CallsInv, StaleInv, HasItem
  PROVE  /\ Job \in Elems(batch) /\ Job.kind \in WriteOps
         /\ Job.call \in DOMAIN log /\ log[Job.call].reply = <<>>
         /\ \/ Job.kind = log[Job.call].op.kind /\ Job.items = log[Job.call].op.items
            \/ log[Job.call].op.kind \notin Killers
         /\ Job.kind \in {"Arithmetic", "Append"} => ~Storing(log[Job.call].op)
<1>1. Job \in Elems(batch)
  BY DEF HasItem, Job, Elems
<1>2. PICK job : job = Job
  OBVIOUS
<1>3. /\ Traced(job, cl[job.client]) /\ job.call \in DOMAIN log
      /\ log[job.call].op = cl[job.client].op /\ log[job.call].reply = <<>>
  BY <1>1, <1>2, WaitingCall
<1>4. Job.kind \in WriteOps
  BY <1>1 DEF RegistryInv, JobsOK, JobOK
<1>5. /\ \/ job.kind = log[job.call].op.kind /\ job.items = log[job.call].op.items
         \/ log[job.call].op.kind \notin Killers
      /\ job.kind \in {"Arithmetic", "Append"} => ~Storing(log[job.call].op)
  BY <1>3 DEF Traced, Killers, Storing, Stores
<1> QED BY <1>1, <1>2, <1>3, <1>4, <1>5

\* Whatever the item, a record is left as it was or is the call's own.
LEMMA ItemLeaves ==
  ASSUME RegistryInv, CallsInv, StaleInv, phase = "apply", HasItem
  PROVE  Left(txn.t, ApplyItem(Job, Item).t, Job.call, ram.tags, log)
<1> DEFINE L(out) == Left(txn.t, out.t, Job.call, ram.tags, log)
<1>1. /\ Job \in Elems(batch) /\ Job.kind \in WriteOps /\ Job.call \in DOMAIN log
      /\ Job.kind \in {"Arithmetic", "Append"} => ~Storing(log[Job.call].op)
  BY CurrentCall
<1>2. DOMAIN txn.t = Fields /\ \A n \in DOMAIN txn.t.tags : txn.t.tags[n] \in Entry
  BY DEF RegistryInv, OpenOK, Open, Registry
<1>3. CASE Job.kind = "Set"
  <2>1. Item.ver = Job.call /\ Covered(Item.key, Item, ram.tags, log)
    BY <1>1, <1>3 DEF StaleInv, JobCovered, HasItem, Item
  <2>2. ApplyItem(Job, Item).t = apply_set(ram, txn.t, now, Item).t
    BY <1>3 DEF ApplyItem, WriteSet, Applied
  <2> QED BY <1>2, <2>1, <2>2, SetLeaves
<1>4. CASE Job.kind = "ConditionalSet"
  <2>1. Item.ver = Job.call /\ Covered(Item.key, Item, ram.tags, log)
    BY <1>1, <1>4 DEF StaleInv, JobCovered, HasItem, Item
  <2>2. DOMAIN Item = PreparedFields
    BY <1>1, <1>4 DEF CallsInv, JobFor, HasItem, Item
  <2>3. ApplyItem(Job, Item) = apply_conditional_set(ram, txn.t, now, Item)
    BY <1>4 DEF ApplyItem
  <2> QED BY <1>2, <2>1, <2>2, <2>3, ConditionalLeaves
<1>5. CASE Job.kind = "Delete"
  <2>1. ApplyItem(Job, Item) = apply_delete(ram, txn.t, now, Item.key)
    BY <1>5 DEF ApplyItem
  <2> QED BY <1>2, <2>1, DeleteLeaves, SMT
<1>6. CASE Job.kind = "Touch"
  <2>1. ApplyItem(Job, Item) = apply_touch(ram, txn.t, now, Item.key, Item.secs)
    BY <1>6 DEF ApplyItem
  <2> QED BY <1>2, <2>1, TouchLeaves
<1>7. CASE Job.kind = "Expire"
  <2>1. ApplyItem(Job, Item) = apply_expire(ram, txn.t, now, Item.key, Item.ttl, Item.guard)
    BY <1>7 DEF ApplyItem
  <2> QED BY <1>2, <2>1, ExpireLeaves
<1>8. CASE Job.kind \in {"Arithmetic", "Append"}
  <2>1. \A k : Named(k, log[Job.call].op) = {}
    BY <1>1, <1>8 DEF Named
  <2>2. CASE Job.kind = "Arithmetic"
    <3>1. ApplyItem(Job, Item) =
            apply_arithmetic(ram, txn.t, now, Item.key, Item.missing, Item.bound, Item.ttl, Job.call)
      BY <2>2 DEF ApplyItem
    <3> QED BY <1>1, <1>2, <2>1, <3>1, UpdateLeaves
  <2>3. CASE Job.kind = "Append"
    <3>1. ApplyItem(Job, Item) = apply_append(ram, txn.t, now, Item.key, Item.len, Job.call)
      BY <2>3 DEF ApplyItem
    <3> QED BY <1>1, <1>2, <2>1, <3>1, UpdateLeaves
  <2> QED BY <1>8, <2>2, <2>3
<1>9. CASE Job.kind \in {"CreateTags", "MergeTag"}
  <2>1. ApplyItem(Job, Item) \in {apply_create_tag(ram, txn.t, Item.name, Item.gen),
                                  apply_merge_tag(ram, txn.t, Item.name, Item.gen)}
    BY <1>9 DEF ApplyItem
  <2> QED BY <1>2, <2>1, TagsLeave, SameLeft, SMT
<1>10. CASE Job.kind = "DeleteByTag"
  <2>1. ApplyItem(Job, Item) = apply_delete_by_tag(ram, txn.t, Item.name)
    BY <1>10 DEF ApplyItem
  <2> QED BY <1>2, <2>1, DeleteByTagRaises, SameLeft, SMT
<1>11. CASE Job.kind = "Flush"
  <2>1. ApplyItem(Job, Item) = apply_flush(ram, txn.t)
    BY <1>11 DEF ApplyItem
  <2> QED BY <1>2, <2>1, FlushLeaves DEF Left
<1>12. CASE Job.kind = "Sync"
  <2>1. ApplyItem(Job, Item).t = txn.t
    BY <1>12 DEF ApplyItem, Nothing
  <2> QED BY <2>1, SameLeft
<1> QED BY <1>1, <1>3, <1>4, <1>5, <1>6, <1>7, <1>8, <1>9, <1>10, <1>11, <1>12 DEF WriteOps

\* The registry and the epoch of the transaction only go forward.
LEMMA ItemGrows ==
  ASSUME RegistryInv, CallsInv, StaleInv, phase = "apply", HasItem
  PROVE  LET u == ApplyItem(Job, Item).t
         IN  Grows(txn.t.tags, u.tags, txn.t.epoch, u.epoch, log, log)
<1>1. Job.kind \in WriteOps
  BY CurrentCall
<1>2. PICK out : out = ApplyItem(Job, Item)
  OBVIOUS
<1>3. Registry(txn.t, ram.nextId) /\ Extends(log, log)
  BY DEF RegistryInv, OpenOK, Open, Extends
<1>4. CASE Job.kind # "Flush"
  <2>1. Advances(ram, txn.t, out)
    BY <1>1, <1>2, <1>4, ItemAdvances DEF WriteOps, RecordKinds
  <2> QED BY <1>2, <1>3, <2>1, SMT DEF Advances, Registry, Grows
<1>5. CASE Job.kind = "Flush"
  <2>1. out = apply_flush(ram, txn.t)
    BY <1>2, <1>5 DEF ApplyItem
  <2>2. out.t.tags = txn.t.tags /\ out.t.epoch = ram.epoch + 1
    BY <1>3, <2>1, FlushLeaves DEF Registry
  <2>3. ram.epoch \in Nat /\ txn.t.epoch \in Nat /\ txn.t.epoch <= ram.epoch + 1
    BY SMT DEF RegistryInv, MemoryOK, OpenOK, PublishOK, Open, Registry
  <2>4. Behind(txn.t.tags, txn.t.tags)
    BY <1>3, BehindSelf
  <2> QED BY <1>2, <1>3, <2>2, <2>3, <2>4, SMT DEF Registry, Grows
<1> QED BY <1>4, <1>5

\* An invalidation does its work on every record of the transaction, and is
\* not refused (tags.rs apply_delete_by_tag, apply.rs apply_delete,
\* apply_flush).
LEMMA ItemStrikes ==
  ASSUME RegistryInv, CallsInv, RecordsInv, StaleInv, phase = "apply", HasItem,
         log[Job.call].op.kind \in Killers
  PROVE  LET out == ApplyItem(Job, Item)
         IN  JobStruck(Job, Len(acc) + 1, out.t, log) /\ out.res \notin SoftError
<1>1. PICK op : op = log[Job.call].op
  OBVIOUS
<1>2. Job.kind = op.kind /\ Job.items = op.items
  BY <1>1, CurrentCall
<1>3. op.items[Len(acc) + 1] = Item
  BY <1>2 DEF Item
<1>4. DOMAIN txn.t = Fields /\ \A n \in DOMAIN txn.t.tags : txn.t.tags[n] \in Entry
  BY DEF RegistryInv, OpenOK, Open, Registry
<1>5. PICK out : out = ApplyItem(Job, Item)
  OBVIOUS
<1>6. SUFFICES /\ out.res \notin SoftError
               /\ \A k \in DOMAIN out.t.main :
                    Kills(op, Len(acc) + 1, k, out.t.main[k], out.t.tags, out.t.epoch, log)
  BY <1>1, <1>5 DEF JobStruck, Struck
<1>7. CASE op.kind = "Flush"
  <2>1. out = apply_flush(ram, txn.t)
    BY <1>2, <1>5, <1>7 DEF ApplyItem
  <2> QED BY <1>4, <2>1, FlushLeaves DEF SoftError
<1>8. CASE op.kind = "Delete"
  <2>1. out = apply_delete(ram, txn.t, now, Item.key)
    BY <1>2, <1>5, <1>8 DEF ApplyItem
  <2>2. Item.key \notin DOMAIN out.t.main /\ out.res \notin SoftError
    BY <1>4, <2>1, DeleteLeaves DEF SoftError
  <2> QED BY <1>3, <1>8, <2>2 DEF Kills
<1>9. CASE op.kind = "DeleteByTag"
  <2>1. out = apply_delete_by_tag(ram, txn.t, Item.name)
    BY <1>2, <1>5, <1>9 DEF ApplyItem
  <2>2. PICK n : n = Item.name
    OBVIOUS
  <2>3. /\ out.t.main = txn.t.main /\ out.res \notin SoftError
        /\ n \in DOMAIN txn.t.tags =>
             /\ n \in DOMAIN out.t.tags /\ out.t.tags[n].id = txn.t.tags[n].id
             /\ out.t.tags[n].gen >= U64Max \/ out.t.tags[n].gen = txn.t.tags[n].gen + 1
    BY <1>4, <2>1, <2>2, DeleteByTagRaises, SMT DEF SoftError
  <2>4. ASSUME NEW k \in DOMAIN txn.t.main, NEW r, r = txn.t.main[k], n \in Named(k, log[r.ver].op)
        PROVE  Outdated(r, n, out.t.tags)
    <3>1. Covered(k, r, ram.tags, log) /\ Grounded(k, r, ram.tags, ram.epoch, log)
      BY <2>4 DEF StaleInv, Clean, RecordsInv, MainOK, Open
    <3>2. n \in DOMAIN ram.tags /\ ram.tags[n].id \in DOMAIN r.tags
      BY <2>4, <3>1 DEF Covered, Covers
    <3>3. PICK names : RefsUnder(r.tags, ram.tags, names)
      BY <3>1, <3>2 DEF Grounded, Written
    <3>4. PICK id : id = ram.tags[n].id
      OBVIOUS
    <3>5. r.tags[id] \in Nat /\ r.tags[id] <= ram.tags[n].gen
      BY <3>2, <3>3, <3>4, IdsAreDistinct DEF RefsUnder
    <3>6. /\ n \in DOMAIN disk.tags /\ disk.tags[n].id = id /\ ram.tags[n].gen <= disk.tags[n].gen
          /\ n \in DOMAIN txn.t.tags /\ txn.t.tags[n].id = id /\ disk.tags[n].gen <= txn.t.tags[n].gen
      BY <3>2, <3>4 DEF RegistryInv, StoredOK, OpenOK, Open, Behind
    <3>7. ram.tags[n].gen \in Nat /\ disk.tags[n].gen \in Nat /\ txn.t.tags[n].gen \in Nat
      BY <1>4, <3>2, <3>6 DEF RegistryInv, MemoryOK, StoredOK, Registry, Entry
    <3>8. r.tags[id] < txn.t.tags[n].gen + 1
      BY <3>5, <3>6, <3>7, SMT
    <3> QED BY <2>3, <3>2, <3>4, <3>5, <3>6, <3>8 DEF Outdated
  <2> QED BY <1>3, <1>9, <2>2, <2>3, <2>4 DEF Kills
<1> QED BY <1>1, <1>7, <1>8, <1>9 DEF Killers

\* The items applied of an invalidation, after one more (writer.rs
\* commit_batch).
LEMMA ItemsAdvance ==
  ASSUME RegistryInv, CallsInv, RecordsInv, StaleInv, NEW kind, Apply(kind),
         NEW x \in DOMAIN batch, log[batch[x].call].op.kind \in Killers, NEW y \in ItemsDone(x)'
  PROVE  y \in ItemsDone(x) \/ (x = Len(outs) + 1 /\ y = Len(acc) + 1)
<1> DEFINE r == ApplyItem(Job, Item)
           one == [res |-> r.res, n |-> r.n]
           items == Append(acc, one)
           ended == Len(items) = Len(Job.items) \/ r.res \in SoftError
<1>1. /\ phase = "apply" /\ HasItem /\ UNCHANGED batch
      /\ ended => outs' = Append(outs, items) /\ acc' = <<>>
      /\ ~ended => outs' = outs /\ acc' = items
  BY DEF Apply
<1>2. x = Len(outs) + 1 => r.res \notin SoftError
  <2> SUFFICES ASSUME x = Len(outs) + 1
               PROVE  r.res \notin SoftError
    OBVIOUS
  <2>1. log[Job.call].op.kind \in Killers
    BY DEF Job
  <2> QED BY <1>1, <2>1, ItemStrikes
<1> HIDE DEF r, one
<1>3. IsSeq(batch) /\ IsSeq(outs) /\ IsSeq(acc)
  BY DEF CallsInv, BatchOK
<1>4. Len(items) = Len(acc) + 1 /\ Len(acc) \in Nat
  BY <1>3, SMT DEF IsSeq
<1> HIDE DEF items
<1>5. Len(Append(outs, items)) = Len(outs) + 1 /\ Len(outs) \in Nat /\ x \in Nat
  BY <1>3, SMT DEF IsSeq
<1>6. Len(acc') = IF ended THEN 0 ELSE Len(acc) + 1
  BY <1>1, <1>4
<1>7. Len(outs') = IF ended THEN Len(outs) + 1 ELSE Len(outs)
  BY <1>1, <1>5
<1>8. CASE x <= Len(outs)
  <2>1. x <= Len(outs')
    BY <1>5, <1>7, <1>8, SMT
  <2> QED BY <1>1, <1>8, <2>1 DEF ItemsDone
<1>9. CASE x = Len(outs) + 1
  <2>1. ~(x <= Len(outs))
    BY <1>5, <1>9, SMT
  <2>2. ItemsDone(x) = 1..Len(acc)
    BY <1>9, <2>1 DEF ItemsDone
  <2>3. CASE ended
    <3>1. Len(acc) + 1 = Len(Job.items)
      BY <1>2, <1>4, <1>9, <2>3
    <3>2. ItemsDone(x)' = DOMAIN Job.items
      BY <1>1, <1>5, <1>7, <1>9, <2>3, SMT DEF ItemsDone, Job
    <3>3. Job.call \in DOMAIN log /\ Job.items = log[Job.call].op.items
      BY <1>1, <1>9, CurrentCall DEF Job
    <3>4. DOMAIN Job.items = 1..Len(Job.items)
      BY <3>3, CallsAreLists DEF StaleInv, LogTraced
    <3> QED BY <1>4, <1>9, <2>2, <3>1, <3>2, <3>4, SMT
  <2>4. CASE ~ended
    <3>1. ItemsDone(x)' = 1..(Len(acc) + 1)
      BY <1>6, <1>7, <1>9, <2>1, <2>4 DEF ItemsDone
    <3> QED BY <1>4, <1>9, <2>2, <3>1, SMT
  <2> QED BY <2>3, <2>4
<1>10. CASE x > Len(outs) + 1
  <2>1. ~(x <= Len(outs'))
    BY <1>5, <1>7, <1>10, SMT
  <2>2. x = Len(outs') + 1 => ended
    BY <1>5, <1>7, <1>10, SMT
  <2>3. ItemsDone(x)' = {}
    BY <1>6, <2>1, <2>2, SMT DEF ItemsDone
  <2> QED BY <2>3
<1> QED BY <1>5, <1>8, <1>9, <1>10, SMT

\* Applying an item (writer.rs commit_batch).
LEMMA StaleApplies ==
  ASSUME RegistryInv, CallsInv, RecordsInv, StaleInv, NEW kind, Apply(kind)
  PROVE  StaleInv'
<1>1. PICK out : out = ApplyItem(Job, Item)
  OBVIOUS
<1>2. /\ phase = "apply" /\ HasItem /\ ram' = out.ram /\ txn' = [txn EXCEPT !.t = out.t]
      /\ phase' \in {"apply", "maintain", "commit"}
      /\ UNCHANGED <<disk, since, queue, batch, cl, log>>
  BY <1>1 DEF Apply
<1>3. ram'.tags = ram.tags /\ ram'.epoch = ram.epoch
  BY <1>1, <1>2, ItemMemory
<1>4. txn'.t = out.t /\ Open
  BY <1>2 DEF RegistryInv, OpenOK, Open
<1>5. Grows(ram.tags, ram.tags, ram.epoch, ram.epoch, log, log)
  BY <1>2, LogStays, MemoryGrows
<1>6. Left(txn.t, out.t, Job.call, ram.tags, log) /\ Job.call \in DOMAIN log /\ log[Job.call].reply = <<>>
  BY <1>1, <1>2, ItemLeaves, CurrentCall
<1>7. Descends(txn.t.main, out.t.main, log)
  BY <1>6 DEF Left, Descends
<1>8. LogTraced(log) /\ Grown(log, log) /\ News(log, log) = {}
  BY GrownSelf DEF StaleInv
<1>9. Clean(out.t.main, ram.tags, ram.epoch, log)
  <2>1. Clean(txn.t.main, ram.tags, ram.epoch, log)
    BY <1>4 DEF StaleInv
  <2>2. \A k \in DOMAIN out.t.main :
          (k \in DOMAIN txn.t.main /\ Alike(out.t.main[k], txn.t.main[k]))
            \/ Covered(k, out.t.main[k], ram.tags, log)
    BY <1>6 DEF Left
  <2> QED BY <1>5, <1>7, <1>8, <2>1, <2>2, CleanStays, SMT
<1>10. Grows(txn.t.tags, out.t.tags, txn.t.epoch, out.t.epoch, log, log)
  BY <1>1, <1>2, ItemGrows
<1>11. ASSUME NEW x \in DOMAIN batch, NEW y \in ItemsDone(x)'
       PROVE  JobStruck(batch[x], y, out.t, log)
  <2>1. SUFFICES ASSUME log[batch[x].call].op.kind \in Killers
                 PROVE  JobStruck(batch[x], y, out.t, log)
    BY DEF JobStruck
  <2>2. CASE y \in ItemsDone(x)
    <3>1. JobStruck(batch[x], y, txn.t, log)
      BY <1>4, <2>2 DEF StaleInv, BatchStruck
    <3>2. batch[x].call \in DOMAIN log
      BY WaitingCall DEF Elems
    <3> QED BY <1>7, <1>8, <1>10, <3>1, <3>2, JobStruckStays
  <2>3. CASE x = Len(outs) + 1 /\ y = Len(acc) + 1
    <3>1. batch[x] = Job
      BY <2>3 DEF Job
    <3> QED BY <1>1, <1>2, <2>1, <2>3, <3>1, ItemStrikes
  <2> QED BY <2>1, <2>2, <2>3, ItemsAdvance
<1>12. BatchStruck'
  BY <1>2, <1>4, <1>11 DEF BatchStruck
<1>13. ~Lazy => since' = {disk'}
  BY <1>2 DEF StaleInv
<1>14. Clean(disk'.main, ram'.tags, ram'.epoch, log)
  BY <1>2, <1>3 DEF StaleInv
<1>15. Grows(ram.tags, ram'.tags, ram.epoch, ram'.epoch, log, log)
  BY <1>3, <1>5
<1>16. Clean(txn'.t.main, ram'.tags, ram'.epoch, log)
  BY <1>3, <1>4, <1>9
<1> QED BY <1>2, <1>12, <1>13, <1>14, <1>15, <1>16, StaleStays

-----------------------------------------------------------------------------
(* The writer answers (writer.rs commit_batch) *)

\* Only the calls of the batch are answered.
LEMMA DeliverGrown ==
  ASSUME CallsInv, StaleInv, NEW replies, Deliver(replies)
  PROVE  /\ LogTraced(log') /\ Grown(log, log') /\ DOMAIN log' = DOMAIN log
         /\ \A x \in DOMAIN log : log'[x] # log[x] => \E i \in DOMAIN batch : batch[i].call = x
         /\ \A x \in News(log, log') : \E i \in DOMAIN batch : batch[i].call = x
<1> DEFINE failed(i) == \E j \in DOMAIN replies[i] : replies[i][j].res \in SoftError \cup {"error"}
           onward(i) == batch[i].kind = "CreateTags" /\ ~failed(i)
           answer(i) == IF cl[batch[i].client].op.kind = "GetTouch" /\ ~failed(i)
                        THEN cl[batch[i].client].found ELSE replies[i]
<1>1. log' = [x \in DOMAIN log |->
                IF \E i \in DOMAIN batch : batch[i].call = x /\ ~onward(i)
                THEN [log[x] EXCEPT !.reply = answer(CHOOSE i \in DOMAIN batch : batch[i].call = x)]
                ELSE log[x]]
  BY DEF Deliver
<1> HIDE DEF onward, answer
<1>2. /\ DOMAIN log' = DOMAIN log
      /\ \A x \in DOMAIN log : log'[x] # log[x] => \E i \in DOMAIN batch : batch[i].call = x
      /\ \A x \in DOMAIN log : log'[x] = log[x] \/ \E a : log'[x] = [log[x] EXCEPT !.reply = a]
  BY <1>1
<1>3. \A x \in DOMAIN log :
        /\ DOMAIN log'[x] = LogFields /\ log'[x].op = log[x].op /\ log'[x].before = log[x].before
  BY <1>2 DEF StaleInv, LogTraced, LogFields
<1>4. \A x \in DOMAIN log : log'[x] # log[x] => log[x].reply = <<>>
  BY <1>2, WaitingCall, SMT DEF Elems
<1>5. \A x \in DOMAIN log : log[x].reply # <<>> => log'[x].reply = log[x].reply
  BY <1>4
<1>6. Grown(log, log')
  BY <1>2, <1>3, <1>5 DEF Grown
<1>7. LogTraced(log')
  BY <1>2, <1>3, <1>5 DEF StaleInv, LogTraced
<1>8. \A x \in News(log, log') : log'[x] # log[x]
  BY <1>2 DEF News, OkIn
<1>9. News(log, log') \subseteq DOMAIN log
  BY <1>2 DEF News
<1> QED BY <1>2, <1>6, <1>7, <1>8, <1>9

\* Where the writer leaves the callers of a batch.
LEMMA DeliverCallers ==
  ASSUME CallsInv, StaleInv, NEW replies, Deliver(replies), NEW c \in Clients
  PROVE  \/ cl'[c] = cl[c] /\ \A i \in DOMAIN batch : batch[i].client # c
         \/ cl'[c] = Idle
         \/ /\ cl'[c] = [cl[c] EXCEPT !.pc = "resolve"] /\ DOMAIN cl[c] = CallerFields
            /\ cl[c].pc # "idle" /\ cl[c].prep = <<>> /\ log'[cl[c].call].reply = <<>>
<1> DEFINE failed(i) == \E j \in DOMAIN replies[i] : replies[i][j].res \in SoftError \cup {"error"}
           onward(i) == batch[i].kind = "CreateTags" /\ ~failed(i)
           answer(i) == IF cl[batch[i].client].op.kind = "GetTouch" /\ ~failed(i)
                        THEN cl[batch[i].client].found ELSE replies[i]
<1>1. cl' = [d \in Clients |->
               IF \E i \in DOMAIN batch : batch[i].client = d
               THEN IF \E i \in DOMAIN batch : batch[i].client = d /\ onward(i)
                    THEN [cl[d] EXCEPT !.pc = "resolve"] ELSE Idle
               ELSE cl[d]]
  BY DEF Deliver
<1>2. log' = [x \in DOMAIN log |->
                IF \E i \in DOMAIN batch : batch[i].call = x /\ ~onward(i)
                THEN [log[x] EXCEPT !.reply = answer(CHOOSE i \in DOMAIN batch : batch[i].call = x)]
                ELSE log[x]]
  BY DEF Deliver
<1>3. \A i : onward(i) => batch[i].kind = "CreateTags"
  OBVIOUS
<1> HIDE DEF onward, answer
<1>4. ASSUME NEW i \in DOMAIN batch, batch[i].client = c, onward(i)
      PROVE  /\ cl'[c] = [cl[c] EXCEPT !.pc = "resolve"] /\ DOMAIN cl[c] = CallerFields
             /\ cl[c].pc # "idle" /\ cl[c].prep = <<>> /\ log'[cl[c].call].reply = <<>>
  <2>1. cl'[c] = [cl[c] EXCEPT !.pc = "resolve"]
    BY <1>1, <1>4
  <2>2. PICK job : job = batch[i]
    OBVIOUS
  <2>3. job \in Elems(batch) /\ job.client = c /\ job.kind = "CreateTags"
    BY <1>3, <1>4, <2>2 DEF Elems
  <2>4. JobFor(job, cl[c], ram.tags, ram.epoch, log)
    BY <2>3 DEF CallsInv
  <2>5. cl[c].pc = "wait" /\ cl[c].prep = <<>>
    BY <2>3, <2>4 DEF JobFor
  <2>6. DOMAIN cl[c] = CallerFields
    BY <2>5, CallerAt DEF CallerOK
  <2>7. job.call = cl[c].call /\ job.call \in DOMAIN log /\ log[job.call].reply = <<>>
    BY <2>3, WaitingCall DEF Traced
  <2>8. ASSUME NEW h \in DOMAIN batch, batch[h].call = job.call
        PROVE  onward(h)
    <3>1. /\ batch[h].client \in Clients /\ cl[batch[h].client].pc = "wait"
          /\ batch[h].call = cl[batch[h].client].call
      BY WaitingCall DEF Elems, Traced
    <3>2. batch[h].client = c
      BY <2>5, <2>7, <2>8, <3>1 DEF StaleInv, OneCallEach
    <3>3. h = i
      BY <1>4, <3>2 DEF CallsInv, OneJobEach
    <3> QED BY <1>4, <3>3
  <2>9. log'[job.call] = log[job.call]
    BY <1>2, <2>7, <2>8
  <2> QED BY <2>1, <2>5, <2>6, <2>7, <2>9
<1>5. CASE \A i \in DOMAIN batch : batch[i].client # c
  BY <1>1, <1>5
<1>6. CASE /\ \E i \in DOMAIN batch : batch[i].client = c
           /\ ~\E i \in DOMAIN batch : batch[i].client = c /\ onward(i)
  BY <1>1, <1>6
<1> QED BY <1>4, <1>5, <1>6

\* Answering a batch, if its invalidations have done their work in memory too.
LEMMA StaleDelivers ==
  ASSUME RegistryInv, CallsInv, StaleInv, NEW replies, Deliver(replies),
         UNCHANGED <<disk, since, queue>>, ram'.tags = ram.tags, ram'.epoch = ram.epoch,
         batch' = <<>>, ~Open', phase' # "publish",
         \A d \in News(log, log') :
           log[d].op.kind \in Killers => Gone(log[d], disk.main, ram.tags, ram.epoch, log)
  PROVE  StaleInv'
<1>1. /\ LogTraced(log) /\ LogTraced(log') /\ Grown(log, log') /\ DOMAIN log' = DOMAIN log
      /\ \A x \in DOMAIN log : log'[x] # log[x] => \E i \in DOMAIN batch : batch[i].call = x
      /\ \A x \in News(log, log') : \E i \in DOMAIN batch : batch[i].call = x
  BY DeliverGrown DEF StaleInv
<1>2. Grows(ram.tags, ram.tags, ram.epoch, ram.epoch, log, log')
  BY <1>1, GrownExtends, MemoryGrows
<1>3. \A i \in DOMAIN batch :
        /\ batch[i].client \in Clients /\ cl[batch[i].client].pc = "wait"
        /\ batch[i].call = cl[batch[i].client].call /\ log[batch[i].call].op.kind # "Get"
  <2> TAKE i \in DOMAIN batch
  <2>1. PICK job : job = batch[i]
    OBVIOUS
  <2>2. /\ job.client \in Clients /\ cl[job.client].pc = "wait" /\ Traced(job, cl[job.client])
        /\ log[job.call].op = cl[job.client].op
    BY <2>1, WaitingCall DEF Elems
  <2> QED BY <2>1, <2>2 DEF Traced, Storing, Stores, Reads
<1>4. ReadsFresh(ram.tags, log')
  <2>1. \A r \in News(log, log') : log'[r].op.kind # "Get"
    BY <1>1, <1>3, SMT DEF Grown, News
  <2> QED BY <1>1, <1>2, <2>1, FreshStays DEF StaleInv
<1>5. ASSUME NEW c \in Clients
      PROVE  /\ Follows(cl'[c], ram.tags, ram.epoch, log')
             /\ cl'[c].pc # "idle" => cl[c].pc # "idle" /\ cl'[c].call = cl[c].call
  <2>1. CASE cl'[c] = Idle
    BY <2>1, SMT DEF Follows, Idle
  <2>2. CASE cl'[c] = cl[c] /\ \A i \in DOMAIN batch : batch[i].client # c
    <3>1. cl[c].pc # "idle" => cl[c].call \in DOMAIN log /\ log[cl[c].call].reply = <<>>
      BY CallerAt DEF StaleInv, Follows, CallerOK, CallsInv, Idle
    <3>2. ASSUME cl[c].pc # "idle"
          PROVE  log'[cl[c].call] = log[cl[c].call]
      BY <1>1, <1>3, <2>2, <3>1, <3>2, SMT DEF StaleInv, OneCallEach
    <3>3. Follows(cl[c], ram.tags, ram.epoch, log)
      BY DEF StaleInv
    <3>4. Follows(cl[c], ram.tags, ram.epoch, log')
      BY <1>1, <1>2, <3>1, <3>2, <3>3, FollowsStays, SMT
    <3> QED BY <2>2, <3>4
  <2>3. CASE /\ cl'[c] = [cl[c] EXCEPT !.pc = "resolve"] /\ DOMAIN cl[c] = CallerFields
             /\ cl[c].pc # "idle" /\ cl[c].prep = <<>> /\ log'[cl[c].call].reply = <<>>
    <3>1. PICK x : x = cl'[c]
      OBVIOUS
    <3>2. x.pc = "resolve" /\ x.prep = <<>> /\ x.call = cl[c].call
      BY <2>3, <3>1 DEF CallerFields
    <3>3. Follows(x, ram.tags, ram.epoch, log')
      BY <2>3, <3>2, SMT DEF Follows
    <3> QED BY <2>3, <3>1, <3>2, <3>3
  <2> QED BY <2>1, <2>2, <2>3, DeliverCallers
<1>6. OneCallEach'
  BY <1>5 DEF StaleInv, OneCallEach
<1>7. Elems(queue') \cup Elems(batch') = Elems(queue)
  BY EmptyElems
<1>8. ASSUME NEW job \in Elems(queue)
      PROVE  Traced(job, cl'[job.client]) /\ JobCovered(job, ram.tags, log')
  <2>1. PICK q \in DOMAIN queue : queue[q] = job
    BY DEF Elems
  <2>2. \A i \in DOMAIN batch : batch[i].client # job.client
    BY <2>1 DEF CallsInv, OneJobEach
  <2>3. job.client \in Clients /\ Traced(job, cl[job.client]) /\ JobCovered(job, ram.tags, log)
    BY DEF CallsInv, StaleInv
  <2>4. cl'[job.client] = cl[job.client]
    BY <2>2, <2>3 DEF Deliver
  <2> QED BY <1>2, <2>3, <2>4, JobCoveredStays
<1>9. Clean(disk.main, ram.tags, ram.epoch, log')
  <2>1. Clean(disk.main, ram.tags, ram.epoch, log) /\ Descends(disk.main, disk.main, log)
    BY DEF StaleInv, Descends, Alike
  <2>2. ASSUME NEW d \in News(log, log'), log'[d].op.kind \in Killers
        PROVE  Gone(log'[d], disk.main, ram.tags, ram.epoch, log')
    <3>1. d \in DOMAIN log /\ log'[d].op = log[d].op /\ log'[d].before = log[d].before
      BY <1>1 DEF News, Grown
    <3>2. Gone(log[d], disk.main, ram.tags, ram.epoch, log)
      BY <2>2, <3>1
    <3>3. AllReturned(log[d].before, log)
      BY <1>1, <3>1, BeforeReturned
    <3> QED BY <1>2, <2>1, <3>1, <3>2, <3>3, GoneStays
  <2>3. \A k \in DOMAIN disk.main : Alike(disk.main[k], disk.main[k])
    BY DEF Alike
  <2> QED BY <1>1, <1>2, <2>1, <2>2, <2>3, CleanStays
<1>10. BatchStruck'
  BY EmptyElems DEF BatchStruck
<1>11. ~Lazy => since' = {disk'}
  BY DEF StaleInv
<1>12. \A job \in Elems(queue') \cup Elems(batch') :
         Traced(job, cl'[job.client]) /\ JobCovered(job, ram'.tags, log')
  BY <1>7, <1>8
<1>13. \A c \in Clients : Follows(cl'[c], ram'.tags, ram'.epoch, log')
  BY <1>5
<1>14. ReadsFresh(ram'.tags, log') /\ Clean(disk'.main, ram'.tags, ram'.epoch, log')
  BY <1>4, <1>9
<1> QED BY <1>1, <1>6, <1>10, <1>11, <1>12, <1>13, <1>14 DEF StaleInv

\* A batch that is aborted has done nothing, and says so.
LEMMA AbortsAreFailures ==
  ASSUME CallsInv, StaleInv, NEW replies, replies = [i \in DOMAIN batch |-> Error("error")],
         Deliver(replies)
  PROVE  News(log, log') = {}
<1> DEFINE failed(i) == \E j \in DOMAIN replies[i] : replies[i][j].res \in SoftError \cup {"error"}
           onward(i) == batch[i].kind = "CreateTags" /\ ~failed(i)
           answer(i) == IF cl[batch[i].client].op.kind = "GetTouch" /\ ~failed(i)
                        THEN cl[batch[i].client].found ELSE replies[i]
<1>1. log' = [x \in DOMAIN log |->
                IF \E i \in DOMAIN batch : batch[i].call = x /\ ~onward(i)
                THEN [log[x] EXCEPT !.reply = answer(CHOOSE i \in DOMAIN batch : batch[i].call = x)]
                ELSE log[x]]
  BY DEF Deliver
<1>2. 1 \in DOMAIN Error("error") /\ Error("error")[1].res = "error"
  BY SMT DEF Error
<1>3. \A i \in DOMAIN batch : replies[i] = Error("error")
  OBVIOUS
<1>4. \A i \in DOMAIN batch : failed(i)
  BY <1>2, <1>3
<1>5. \A i \in DOMAIN batch : answer(i) = Error("error")
  BY <1>3, <1>4
<1> HIDE DEF failed, onward, answer
<1>6. ASSUME NEW x \in DOMAIN log, log'[x] # log[x]
      PROVE  log'[x].reply = Error("error")
  <2>1. PICK h : h = CHOOSE i \in DOMAIN batch : batch[i].call = x
    OBVIOUS
  <2>2. (\E i \in DOMAIN batch : batch[i].call = x) /\ log'[x] = [log[x] EXCEPT !.reply = answer(h)]
    BY <1>1, <1>6, <2>1
  <2>3. h \in DOMAIN batch
    BY <2>1, <2>2
  <2>4. "reply" \in DOMAIN log[x]
    BY DEF StaleInv, LogTraced, LogFields
  <2> QED BY <1>5, <2>2, <2>3, <2>4
<1>7. DOMAIN log' = DOMAIN log
  BY <1>1
<1>8. ASSUME NEW x \in News(log, log') PROVE FALSE
  <2>1. x \in DOMAIN log /\ log'[x] # log[x] /\ OkIn(log', x)
    BY <1>7 DEF News, OkIn
  <2> QED BY <1>2, <1>6, <2>1 DEF OkIn, Failures
<1> QED BY <1>8

\* A batch that fails is dropped (writer.rs commit_batch).
LEMMA StaleAborts ==
  ASSUME RegistryInv, CallsInv, StaleInv, NEW full, Abort(full),
         ram'.tags = ram.tags, ram'.epoch = ram.epoch
  PROVE  StaleInv'
<1>1. PICK replies : replies = [i \in DOMAIN batch |-> Error("error")]
  OBVIOUS
<1>2. /\ Deliver(replies) /\ UNCHANGED <<disk, since, queue>> /\ batch' = <<>>
      /\ phase' \in {"idle", "full"}
  BY <1>1 DEF Abort, Discard
<1>3. News(log, log') = {}
  BY <1>1, <1>2, AbortsAreFailures
<1>4. ~Open' /\ phase' # "publish"
  BY <1>2 DEF Open
<1> QED BY <1>2, <1>3, <1>4, StaleDelivers

\* A batch that is committed and published answers its callers; an
\* invalidation among them has done its work on disk and in memory.
LEMMA StaleReplies ==
  ASSUME RegistryInv, PublicationInv, CallsInv, StaleInv, Reply
  PROVE  StaleInv'
<1>1. /\ phase = "publish" /\ eff = <<>> /\ Deliver(outs) /\ UNCHANGED <<disk, since, ram, queue>>
      /\ batch' = <<>> /\ phase' \in {"idle", "sync"}
  BY DEF Reply, store_vars
<1>2. ram.tags = disk.tags
  BY <1>1, MemorySettled
<1>3. ram.epoch = disk.epoch
  <2>1. NoEpoch(Elems(eff))
    BY <1>1, EmptyElems DEF NoEpoch
  <2> QED BY <1>1, <2>1 DEF RegistryInv, PublishOK
<1>4. ASSUME NEW d \in News(log, log'), log[d].op.kind \in Killers
      PROVE  Gone(log[d], disk.main, ram.tags, ram.epoch, log)
  <2>1. PICK i \in DOMAIN batch : batch[i].call = d
    BY <1>1, DeliverGrown
  <2>2. PICK job : job = batch[i]
    OBVIOUS
  <2>3. Traced(job, cl[job.client]) /\ log[job.call].op = cl[job.client].op
    BY <2>2, WaitingCall DEF Elems
  <2>4. job.items = log[d].op.items
    BY <1>4, <2>1, <2>2, <2>3 DEF Traced, Storing, Stores, Killers
  <2>5. \A y \in DOMAIN job.items : JobStruck(job, y, disk, log)
    BY <1>1, <2>2 DEF StaleInv, BatchStruck
  <2> QED BY <1>2, <1>3, <1>4, <2>1, <2>2, <2>4, <2>5 DEF JobStruck, Gone
<1>5. ~Open' /\ phase' # "publish"
  BY <1>1 DEF Open
<1> QED BY <1>1, <1>4, <1>5, StaleDelivers

-----------------------------------------------------------------------------
(* Restart (engine.rs open) *)

\* Memory rebuilt from the disk knows at least what it knew.
LEMMA StaleRestarts ==
  ASSUME RegistryInv, CallsInv, StaleInv, Restart(disk)
  PROVE  StaleInv'
<1>1. /\ UNCHANGED disk /\ since' = {disk} /\ ram' = open(disk)
      /\ queue' = <<>> /\ phase' = "idle" /\ batch' = <<>> /\ cl' = [c \in Clients |-> Idle]
      /\ log' = [i \in DOMAIN log |-> IF log[i].reply = <<>>
                                      THEN [log[i] EXCEPT !.reply = Error("crashed")] ELSE log[i]]
  BY DEF Restart
<1>2. ram'.tags = disk.tags /\ ram'.epoch = disk.epoch
  BY <1>1 DEF open
<1>3. /\ DOMAIN log' = DOMAIN log
      /\ \A i \in DOMAIN log : log[i].reply # <<>> => log'[i] = log[i]
      /\ \A i \in DOMAIN log : log[i].reply = <<>> =>
           log'[i] = [log[i] EXCEPT !.reply = Error("crashed")]
  BY <1>1
<1>4. LogTraced(log) /\ \A i \in DOMAIN log : DOMAIN log[i] = {"op", "before", "seq", "reply"}
  BY DEF StaleInv, LogTraced, LogFields
<1>5. \A i \in DOMAIN log :
        /\ DOMAIN log'[i] = DOMAIN log[i]
        /\ log'[i].op = log[i].op /\ log'[i].before = log[i].before
        /\ log[i].reply = <<>> => log'[i].reply = Error("crashed")
        /\ log[i].reply # <<>> => log'[i].reply = log[i].reply
  BY <1>3, <1>4
<1>6. Grown(log, log') /\ LogTraced(log')
  BY <1>3, <1>4, <1>5 DEF Grown, LogTraced
<1>7. News(log, log') = {}
  <2>1. 1 \in DOMAIN Error("crashed") /\ Error("crashed")[1].res = "crashed"
    BY SMT DEF Error
  <2>2. \A i \in DOMAIN log : log[i].reply = <<>> => ~OkIn(log', i)
    BY <1>5, <2>1 DEF OkIn, Failures
  <2>3. \A i \in DOMAIN log : log[i].reply # <<>> => (OkIn(log', i) <=> OkIn(log, i))
    BY <1>5 DEF OkIn
  <2> QED BY <1>3, <2>2, <2>3 DEF News
<1>8. Grows(ram.tags, disk.tags, ram.epoch, disk.epoch, log, log')
  <2>1. /\ \A n \in DOMAIN ram.tags : ram.tags[n] \in Entry
        /\ \A n \in DOMAIN disk.tags : disk.tags[n] \in Entry
        /\ Behind(ram.tags, disk.tags) /\ ram.epoch \in Nat /\ disk.epoch \in Nat
    BY DEF RegistryInv, MemoryOK, StoredOK, Registry
  <2>2. ram.epoch <= disk.epoch
    BY <2>1, SMT DEF RegistryInv, PublishOK
  <2> QED BY <1>6, <2>1, <2>2, GrownExtends DEF Grows
<1>9. ReadsFresh(disk.tags, log')
  BY <1>4, <1>6, <1>7, <1>8, FreshStays DEF StaleInv
<1>10. Clean(disk.main, disk.tags, disk.epoch, log')
  <2>1. Clean(disk.main, ram.tags, ram.epoch, log) /\ Descends(disk.main, disk.main, log)
    BY DEF StaleInv, Descends, Alike
  <2>2. \A k \in DOMAIN disk.main : Alike(disk.main[k], disk.main[k])
    BY DEF Alike
  <2> QED BY <1>4, <1>6, <1>7, <1>8, <2>1, <2>2, CleanStays
<1>11. \A c \in Clients : cl'[c] = Idle /\ cl'[c].pc = "idle"
  BY <1>1 DEF Idle
<1>12. \A c \in Clients : Follows(cl'[c], ram'.tags, ram'.epoch, log')
  BY <1>11 DEF Follows
<1>13. OneCallEach'
  BY <1>11 DEF OneCallEach
<1>14. Elems(queue') \cup Elems(batch') = {} /\ ~Open' /\ phase' # "publish"
  BY <1>1, EmptyElems DEF Open
<1>15. BatchStruck'
  BY <1>14 DEF BatchStruck
<1>16. \A job \in Elems(queue') \cup Elems(batch') :
         Traced(job, cl'[job.client]) /\ JobCovered(job, ram'.tags, log')
  BY <1>14
<1>17. ReadsFresh(ram'.tags, log') /\ Clean(disk'.main, ram'.tags, ram'.epoch, log')
  BY <1>1, <1>2, <1>9, <1>10
<1>18. ~Lazy => since' = {disk'}
  BY <1>1
<1> QED BY <1>6, <1>12, <1>13, <1>14, <1>15, <1>16, <1>17, <1>18 DEF StaleInv

=============================================================================
