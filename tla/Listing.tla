------------------------------ MODULE Listing ------------------------------
(***************************************************************************)
(* Key listings and the three ways a client pages through one:             *)
(*   LIST_KEYS  echoes back the position it was given                      *)
(*              (vash-store/src/listing.rs, store.rs list_keys);           *)
(*   SCAN       holds an integer and the server holds the position         *)
(*              (vash-server/src/scan.rs, resp.rs run_scan);               *)
(*   the dumps  walk every page inside one command                         *)
(*              (memcached.rs execute_dump, execute_cachedump).            *)
(* LIST_TAGS pages over the tag registry by name (store.rs list_tags).     *)
(*                                                                         *)
(* A page reads one shard after another, each under a transaction of its   *)
(* own, so writers run between two shards of a page and between two pages. *)
(* A reply may be lost, and the client then asks for the same page again.  *)
(***************************************************************************)
EXTENDS Integers, FiniteSets, Sequences, FiniteSetsExt

CONSTANTS
    Keys,           \* numbers; their order is the order of the keys' bytes
    LastShard,           \* the shards are 0..LastShard
    shard_of,       \* [Keys -> 0..LastShard]
    Matching,       \* the keys the request's pattern matches
    Pagers,         \* iterations that may run at once
    Worlds,         \* [kinds, limit, max_scan, capacity, ttl, present,
                    \*  writes, lost, ticks]: the last three are bounds
    None

VARIABLES
    world,          \* the settings of this behaviour
    record,         \* of every key: absent, alive or dead (expired, invalidated)
    pager,          \* of every iteration, where it stands
    live,           \* ScanCursors.live: a deque of entries
    next,           \* ScanCursors.next
    now,
    lost,           \* replies lost so far
    writes          \* writes left

listVars == <<world, record, pager, live, next, now, lost, writes>>

START == 0

-----------------------------------------------------------------------------
(* The cursor: which shard to resume in, and after which key.  The empty    *)
(* cursor is the beginning.                                                 *)

encode(shard, key) == <<shard, key>>

(* A malformed cursor is refused, never read as the beginning. *)
decode(cursor) ==
    CASE cursor = <<>> -> [shard |-> 0, after |-> None]
      [] Len(cursor) = 2 /\ cursor[1] \in 0..LastShard /\ cursor[2] # None ->
           [shard |-> cursor[1], after |-> cursor[2]]
      [] OTHER -> None

-----------------------------------------------------------------------------
(* One shard's part of a page: Engine::list_keys.                           *)

(* A slip: the walk resumes at the key it stopped on instead of past it. *)
WithinInclusive(shard, after) ==
    {k \in Keys : /\ record[k] # "absent" /\ shard_of[k] = shard
                  /\ after = None \/ k >= after}

Within(shard, after) ==
    {k \in Keys : /\ record[k] # "absent" /\ shard_of[k] = shard
                  /\ after = None \/ k > after}

Shown(keys) == {k \in keys \cap Matching : record[k] = "alive"}

(* A slip: the cursor names the first record past the page. *)
scan_skipping(shard, after, limit, budget) ==
    LET keys == Within(shard, after)
        UpTo(k) == {j \in keys : j <= k}
        stops == {k \in keys : \/ Cardinality(Shown(UpTo(k))) >= limit
                               \/ Cardinality(UpTo(k)) >= budget}
        walked == IF stops = {} THEN keys ELSE UpTo(Min(stops))
    IN  [entries |-> Shown(walked), scanned |-> Cardinality(walked),
         stopped_at |-> IF keys = walked THEN None ELSE Min(keys \ walked)]

(* A slip: the page may grow one past its size. *)
scan_overfull(shard, after, limit, budget) ==
    LET keys == Within(shard, after)
        UpTo(k) == {j \in keys : j <= k}
        stops == {k \in keys : \/ Cardinality(Shown(UpTo(k))) > limit
                               \/ Cardinality(UpTo(k)) >= budget}
        walked == IF stops = {} THEN keys ELSE UpTo(Min(stops))
    IN  [entries |-> Shown(walked), scanned |-> Cardinality(walked),
         stopped_at |-> IF stops = {} THEN None ELSE Min(stops)]

(* How far the walk gets: to the record that fills the page, to the record  *)
(* that spends the budget, or to the end of the shard.                      *)
scan(shard, after, limit, budget) ==
    LET keys == Within(shard, after)
        UpTo(k) == {j \in keys : j <= k}
        stops == {k \in keys : \/ Cardinality(Shown(UpTo(k))) >= limit
                               \/ Cardinality(UpTo(k)) >= budget}
        walked == IF stops = {} THEN keys ELSE UpTo(Min(stops))
    IN  [entries |-> Shown(walked), scanned |-> Cardinality(walked),
         stopped_at |-> IF stops = {} THEN None ELSE Min(stops)]

-----------------------------------------------------------------------------
(* ScanCursors.                                                             *)

Fresh(entry) == now - entry.issued < world.ttl

(* Rust's binary search over a slice that may not be sorted. *)
BinarySearch(deque, token) ==
    LET Go[base \in 0..Len(deque), size \in 0..Len(deque)] ==
            IF size <= 1 THEN base
            ELSE LET half == size \div 2
                     mid == base + half
                 IN  Go[IF deque[mid + 1].token > token THEN base ELSE mid, size - half]
        at == Go[0, Len(deque)] + 1
    IN  IF Len(deque) > 0 /\ deque[at].token = token THEN at ELSE None

resolve(token) ==
    LET at == BinarySearch(live, token)
    IN  IF at # None /\ Fresh(live[at]) THEN live[at].cursor ELSE None

(* The oldest entries go: those past the capacity, then those past their    *)
(* time.                                                                    *)
Swept(deque) ==
    LET capped == SubSeq(deque, 1 + (IF Len(deque) > world.capacity
                                     THEN Len(deque) - world.capacity ELSE 0), Len(deque))
        kept == {i \in 1..Len(capped) : Fresh(capped[i])}
    IN  SubSeq(capped, IF kept = {} THEN Len(capped) + 1 ELSE Min(kept), Len(capped))

-----------------------------------------------------------------------------
(* An iteration.  `from` is what the client sends for the page it is on;    *)
(* `page` what the page holds so far; `returned` what the client was given, *)
(* `twice` what it was given again; `through` the matching keys that have   *)
(* been alive since the start.                                              *)

Idle(kind) ==
    [kind |-> kind, pc |-> "idle", from |-> <<>>, token |-> START, shard |-> 0,
     after |-> None, page |-> {}, scanned |-> 0, total |-> 0, cursor |-> None,
     mine |-> START, issued |-> 0, returned |-> {}, twice |-> {}, through |-> {}]

Update(p, fields) == pager' = [pager EXCEPT ![p] = fields]

Paging == <<world, record, writes>>
Table == <<live, next, now>>

Begin(p) ==
    /\ pager[p].pc = "idle" /\ pager[p].kind # "off"
    /\ Update(p, [pager[p] EXCEPT !.pc = "ask",
                                  !.through = {k \in Matching : record[k] = "alive"}])
    /\ UNCHANGED <<Paging, Table, lost>>

(* A cursor into the tags is the last name returned, and nothing else. *)
StartPage(p, cursor) ==
    LET place == IF pager[p].kind = "tags"
                 THEN [shard |-> 0, after |-> IF cursor = <<>> THEN None ELSE cursor[1]]
                 ELSE decode(cursor)
    IN  [pager[p] EXCEPT !.pc = "walk", !.shard = place.shard, !.after = place.after,
                         !.page = {}, !.scanned = 0]

(* LIST_KEYS, and a dump's first page. *)
Ask(p) ==
    /\ pager[p].pc = "ask" /\ pager[p].kind # "scan"
    /\ Update(p, StartPage(p, pager[p].from))
    /\ UNCHANGED <<Paging, Table, lost>>

(* SCAN: a token that is not held is an error, never a fresh start. *)
Resume(p) ==
    /\ pager[p].pc = "ask" /\ pager[p].kind = "scan"
    /\ LET cursor == IF pager[p].token = START THEN <<>> ELSE resolve(pager[p].token)
       IN  Update(p, IF cursor = None THEN [pager[p] EXCEPT !.pc = "expired"]
                     ELSE StartPage(p, cursor))
    /\ UNCHANGED <<Paging, Table, lost>>

(* The page is read; what follows depends on who asked.  A dump goes on by  *)
(* itself until its budget is spent, and then ends without its terminator.  *)
Given(pg) == [pg EXCEPT !.returned = @ \cup pg.page, !.page = {},
                        !.twice = @ \cup (pg.returned \cap pg.page)]

PageRead(pg, cursor) ==
    LET more == [Given(pg) EXCEPT !.total = @ + pg.scanned]
    IN  CASE pg.kind = "dump" /\ cursor = None -> [more EXCEPT !.pc = "done"]
          [] pg.kind = "dump" /\ more.total >= world.max_scan -> [more EXCEPT !.pc = "cut"]
          [] pg.kind = "dump" -> [more EXCEPT !.pc = "ask", !.from = cursor]
          [] pg.kind = "scan" /\ cursor # None ->
               [pg EXCEPT !.pc = "issue", !.cursor = cursor]
          [] OTHER -> [pg EXCEPT !.pc = "reply", !.cursor = cursor, !.mine = START]

(* One shard of a page: store.rs list_keys. *)
WalkShard(p) ==
    /\ pager[p].pc = "walk" /\ pager[p].kind # "tags"
    /\ LET pg == pager[p]
           part == scan(pg.shard, pg.after, world.limit - Cardinality(pg.page),
                        world.max_scan - pg.scanned)
           read == [pg EXCEPT !.page = @ \cup part.entries, !.scanned = @ + part.scanned]
       IN  Update(p, IF part.stopped_at # None
                     THEN PageRead(read, encode(pg.shard, part.stopped_at))
                     ELSE IF pg.shard = LastShard THEN PageRead(read, None)
                     ELSE [read EXCEPT !.shard = @ + 1, !.after = None])
    /\ UNCHANGED <<Paging, Table, lost>>

(* LIST_TAGS: the registry merged over the shards, in the order of the      *)
(* names, from the name after the last one returned.  In a world that lists *)
(* tags `record` is that registry, and its keys are names.                  *)
list_tags(p) ==
    /\ pager[p].pc = "walk" /\ pager[p].kind = "tags"
    /\ LET pg == pager[p]
           known == {k \in Keys : record[k] = "alive" /\ (pg.after = None \/ k > pg.after)}
           Shows(k) == {j \in known \cap Matching : j <= k}
           full == {k \in known : Cardinality(Shows(k)) >= world.limit}
       IN  Update(p, IF full = {}
                     THEN PageRead([pg EXCEPT !.page = known \cap Matching], None)
                     ELSE PageRead([pg EXCEPT !.page = Shows(Min(full))], <<Min(full)>>))
    /\ UNCHANGED <<Paging, Table, lost>>

(* ScanCursors::issue takes a token and the time, and only then the lock. *)
TakeToken(p) ==
    /\ pager[p].pc = "issue"
    /\ next' = next + 1
    /\ Update(p, [pager[p] EXCEPT !.pc = "push", !.mine = next, !.issued = now])
    /\ UNCHANGED <<Paging, live, now, lost>>

PushEntry(p) ==
    /\ pager[p].pc = "push"
    /\ live' = Swept(Append(live, [token |-> pager[p].mine, cursor |-> pager[p].cursor,
                                   issued |-> pager[p].issued]))
    /\ Update(p, [pager[p] EXCEPT !.pc = "reply", !.issued = 0])
    /\ UNCHANGED <<Paging, next, now, lost>>

(* The reply arrives: the client keeps the page and asks for the next. *)
Deliver(p) ==
    /\ pager[p].pc = "reply"
    /\ LET pg == pager[p]
       IN  Update(p, [Given(pg) EXCEPT !.pc = IF pg.cursor = None THEN "done" ELSE "ask",
                                       !.from = IF pg.cursor = None THEN <<>> ELSE pg.cursor,
                                       !.token = pg.mine])
    /\ UNCHANGED <<Paging, Table, lost>>

(* The reply is lost: the client sends what it sent before. *)
Lose(p) ==
    /\ pager[p].pc = "reply" /\ lost < world.lost
    /\ lost' = lost + 1
    /\ Update(p, [pager[p] EXCEPT !.pc = "ask", !.page = {}])
    /\ UNCHANGED <<Paging, Table>>

-----------------------------------------------------------------------------
(* What else happens meanwhile.                                             *)

Running(p) == pager[p].pc \notin {"idle", "done", "expired", "cut"}

Writing(k, state) ==
    /\ writes > 0 /\ \E p \in Pagers : Running(p)
    /\ record[k] # state
    /\ state = "alive" \/ \A p \in Pagers : pager[p].kind # "tags"
    /\ record' = [record EXCEPT ![k] = state]
    /\ writes' = writes - 1
    /\ pager' = [p \in Pagers |->
                   IF state = "alive" THEN pager[p]
                   ELSE [pager[p] EXCEPT !.through = @ \ {k}]]
    /\ UNCHANGED <<world, Table, lost>>

Put(k) == Writing(k, "alive")
Forget(k) == Writing(k, "absent")
Die(k) == record[k] = "alive" /\ Writing(k, "dead")

Tick ==
    /\ now < world.ticks
    /\ \E p \in Pagers : pager[p].kind = "scan" /\ Running(p)
    /\ now' = now + 1
    /\ UNCHANGED <<world, record, pager, live, next, lost, writes>>

-----------------------------------------------------------------------------
ListInit ==
    /\ world \in Worlds
    /\ record = [k \in Keys |-> IF k \in world.present THEN "alive" ELSE "absent"]
    /\ pager = [p \in Pagers |-> Idle(world.kinds[p])]
    /\ live = <<>> /\ next = START + 1
    /\ now = 0 /\ lost = 0 /\ writes = world.writes

PagerStep(p) ==
    Begin(p) \/ Ask(p) \/ Resume(p) \/ WalkShard(p) \/ list_tags(p) \/ TakeToken(p) \/ PushEntry(p)
    \/ Deliver(p) \/ Lose(p)

ListNext ==
    \/ \E p \in Pagers : PagerStep(p)
    \/ \E k \in Keys : Put(k) \/ Forget(k) \/ Die(k)
    \/ Tick

(* A page being read is read to its end, and a client that pages goes on.   *)
ListFairness == \A p \in Pagers : WF_listVars(PagerStep(p))

ListSpec == ListInit /\ [][ListNext]_listVars /\ ListFairness

-----------------------------------------------------------------------------
(* Properties.                                                              *)

(* A finished listing missed nothing: every matching key that was alive     *)
(* from its start to its end was given to the client, whatever else was     *)
(* written, however the pages fell and whichever replies were lost.         *)
ListingIsComplete ==
    \A p \in Pagers :
        pager[p].pc = "done" => pager[p].through \subseteq pager[p].returned

(* No key is given to a client twice by one listing.                        *)
ListedOnce == \A p \in Pagers : pager[p].twice = {}

(* While a page moves on to another shard there is room left on it and      *)
(* budget to spend: the cursor has no way to name the start of a shard.     *)
RoomForTheNextShard ==
    \A p \in Pagers :
        pager[p].pc = "walk" =>
            Cardinality(pager[p].page) < world.limit /\ pager[p].scanned < world.max_scan

(* Every iteration ends: with a complete answer or with an error that says  *)
(* it does not have one.                                                    *)
ListingsEnd ==
    \A p \in Pagers : []<>(pager[p].pc \in {"idle", "done", "expired", "cut"})
=============================================================================
