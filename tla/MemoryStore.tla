---------------------------- MODULE MemoryStore ----------------------------
(***************************************************************************)
(* vash-store/src/memory.rs: the Store the server's tests run against.     *)
(* One mutex holds `inner`, so an operation is an operator from inner and  *)
(* its arguments to [inner, answer].                                       *)
(*                                                                         *)
(* A value is the number it reads as, and appending adds to it; a tag list *)
(* of a record is a function from ids to generations.  Keys and tag names  *)
(* are numbers, for the order BTreeMap keeps them in.                      *)
(***************************************************************************)
EXTENDS Integers, SequencesExt

CONSTANTS MaxTtlSecs, AlreadyExpired

NEVER == 0

Inner == [entries |-> <<>>, tags |-> <<>>, next_tag_id |-> 0, epoch |-> 0, next_cas |-> 0]

With(f, k, v) == [x \in DOMAIN f \cup {k} |-> IF x = k THEN v ELSE f[x]]
Without(f, k) == [x \in DOMAIN f \ {k} |-> f[x]]
Done(inner, answer) == [inner |-> inner, answer |-> answer]

-----------------------------------------------------------------------------
(* Inner                                                                    *)

alive(inner, entry, now) ==
    /\ entry.epoch = inner.epoch
    /\ entry.exp = NEVER \/ entry.exp > now
    /\ \A id \in DOMAIN entry.tags : \E n \in DOMAIN inner.tags :
          inner.tags[n].id = id /\ inner.tags[n].gen = entry.tags[id]

live(inner, k, now) ==
    k \in DOMAIN inner.entries /\ alive(inner, inner.entries[k], now)

(* A slip: every name takes an id, known or not. *)
RegisterAgain(inner, name) ==
    [inner EXCEPT
        !.tags = With(@, name, [id |-> inner.next_tag_id,
                                gen |-> IF name \in DOMAIN @ THEN @[name].gen ELSE 0]),
        !.next_tag_id = @ + 1]

(* One name of resolve_tags: a new one takes the next id. *)
Register(inner, name) ==
    IF name \in DOMAIN inner.tags THEN inner
    ELSE [inner EXCEPT !.tags = With(@, name, [id |-> inner.next_tag_id, gen |-> 0]),
                       !.next_tag_id = @ + 1]

resolve_tags(inner, names) ==
    LET known == FoldLeft(Register, inner, names)
        of    == {known.tags[n] : n \in ToSet(names)}
    IN  [inner |-> known,
         refs  |-> [id \in {s.id : s \in of} |-> (CHOOSE s \in of : s.id = id).gen]]

(* The clock's reading of a TTL, as everywhere in the store. *)
expiry_from_ttl(now, secs) ==
    CASE secs = 0 -> NEVER
      [] secs = AlreadyExpired -> 1
      [] secs > MaxTtlSecs /\ secs # AlreadyExpired -> secs
      [] OTHER -> now + secs

deadline(ttl, current, now) ==
    IF ttl.how = "keep" \/ (ttl.how = "enx" /\ current # NEVER) THEN current
    ELSE expiry_from_ttl(now, ttl.secs)

(* The lifetime a write may keep is a live record's only. *)
Current(inner, k, now) == IF live(inner, k, now) THEN inner.entries[k].exp ELSE NEVER

put(inner, set, now) ==
    LET resolved == resolve_tags(inner, set.names)
        cas      == inner.next_cas + 1
    IN  [resolved.inner EXCEPT
            !.next_cas = cas,
            !.entries  = With(@, set.key,
                [val |-> set.val, cas |-> cas, epoch |-> inner.epoch, tags |-> resolved.refs,
                 exp |-> deadline(set.ttl, Current(inner, set.key, now), now)])]

-----------------------------------------------------------------------------
(* Store                                                                    *)

get(inner, k, now) ==
    IF live(inner, k, now)
    THEN <<[val |-> inner.entries[k].val, exp |-> inner.entries[k].exp]>>
    ELSE <<>>

get_many(inner, keys, now) == [i \in DOMAIN keys |-> get(inner, keys[i], now)]

set_many(inner, sets, now) ==
    FoldLeft(LAMBDA known, set : put(known, set, now), inner, sets)

BatchApplies(inner, sets, guard, now) ==
    LET present == {i \in DOMAIN sets : live(inner, sets[i].key, now)}
    IN  CASE guard = "always"  -> TRUE
          [] guard = "absent"  -> present = {}
          [] guard = "present" -> present = DOMAIN sets

set_many_if(inner, sets, guard, now) ==
    IF BatchApplies(inner, sets, guard, now)
    THEN Done(set_many(inner, sets, now), TRUE) ELSE Done(inner, FALSE)

(* Why a guarded write is refused, and what a concatenation writes. *)
Refused(inner, set, now) ==
    LET there == live(inner, set.key, now)
    IN  CASE set.mode = "add" /\ there -> "not_stored"
          [] set.mode \in {"replace", "append", "prepend"} /\ ~there -> "not_stored"
          [] set.mode = "cas" /\ ~there -> "not_found"
          [] set.mode = "cas" /\ there /\ inner.entries[set.key].cas # set.expected -> "exists"
          [] OTHER -> "stored"

Effective(inner, set) ==
    IF set.mode \in {"append", "prepend"}
    THEN [set EXCEPT !.val = @ + inner.entries[set.key].val, !.ttl = [how |-> "keep", secs |-> 0]]
    ELSE set

store(inner, set, now) ==
    LET outcome == Refused(inner, set, now)
    IN  Done(IF outcome = "stored" THEN put(inner, Effective(inner, set), now) ELSE inner,
             outcome)

(* A rewrite in place keeps the record's tags; a new record has none. *)
Rewritten(inner, k, val, exp, epoch, now) ==
    [inner EXCEPT
        !.next_cas = @ + 1,
        !.entries  = With(@, k,
            [val |-> val, exp |-> exp, cas |-> inner.next_cas + 1, epoch |-> epoch,
             tags |-> IF live(inner, k, now) THEN @[k].tags ELSE <<>>])]

(* Adding one below a ceiling; the evaluation itself is Numbers' subject. *)
arithmetic(inner, k, absent, bound, ttl, now) ==
    LET there == live(inner, k, now)
        old   == IF there THEN inner.entries[k].val ELSE 0
    IN  CASE ~there /\ absent = "fail" -> Done(inner, <<"missing", 0>>)
          [] (there \/ absent # "fail") /\ old + 1 > bound -> Done(inner, <<"unchanged", old>>)
          [] OTHER -> Done(Rewritten(inner, k, old + 1, deadline(ttl, Current(inner, k, now), now),
                                     inner.epoch, now),
                           <<"counted", old + 1>>)

append(inner, k, suffix, now) ==
    LET val == suffix + IF live(inner, k, now) THEN inner.entries[k].val ELSE 0
    IN  Done(Rewritten(inner, k, val, Current(inner, k, now), inner.epoch, now), val)

GuardAdmits(guard, current, target) ==
    CASE guard = "always"        -> TRUE
      [] guard = "if_persistent" -> current = NEVER
      [] guard = "if_volatile"   -> current # NEVER
      [] guard = "if_later"      -> current # NEVER /\ target # NEVER /\ target > current
      [] guard = "if_earlier"    -> target # NEVER /\ (current = NEVER \/ target < current)

expire(inner, k, ttl, guard, now) ==
    LET entry  == inner.entries[k]
        target == deadline(ttl, entry.exp, now)
    IN  CASE ~live(inner, k, now) -> Done(inner, FALSE)
          [] live(inner, k, now) /\ ~GuardAdmits(guard, entry.exp, target) -> Done(inner, FALSE)
          [] live(inner, k, now) /\ GuardAdmits(guard, entry.exp, target)
             /\ target # NEVER /\ target <= now ->
               Done([inner EXCEPT !.entries = Without(@, k)], TRUE)
          [] OTHER -> Done(Rewritten(inner, k, entry.val, target, entry.epoch, now), TRUE)

touch(inner, k, secs, now) == expire(inner, k, [how |-> "set", secs |-> secs], "always", now)

(* Read first, then the keys that were found are touched one by one. *)
get_and_touch(inner, keys, secs, now) ==
    LET values == get_many(inner, keys, now)
        found  == SelectSeq(keys, LAMBDA k : live(inner, k, now))
    IN  Done(FoldLeft(LAMBDA known, k : touch(known, k, secs, now).inner, inner, found), values)

delete(inner, k, now) ==
    Done([inner EXCEPT !.entries = Without(@, k)], live(inner, k, now))

delete_many(inner, keys, now) ==
    FoldLeft(LAMBDA done, k : LET d == delete(done.inner, k, now)
                              IN  Done(d.inner, Append(done.answer, d.answer)),
             Done(inner, <<>>), keys)

delete_by_tag(inner, name) ==
    IF name \notin DOMAIN inner.tags THEN Done(inner, <<>>)
    ELSE LET raised == [inner EXCEPT !.tags[name].gen = @ + 1]
         IN  Done(raised, <<raised.tags[name].gen>>)

merge_tag_generation(inner, name, gen) ==
    LET known  == resolve_tags(inner, <<name>>).inner
        merged == [known EXCEPT !.tags[name].gen = IF gen > @ THEN gen ELSE @]
    IN  Done(merged, merged.tags[name].gen)

tag_generations(inner) == [n \in DOMAIN inner.tags |-> inner.tags[n].gen]

flush(inner) ==
    Done([inner EXCEPT !.epoch = @ + 1, !.entries = <<>>], inner.epoch + 1)

-----------------------------------------------------------------------------
(* Listings: one page of at most `limit` entries, after examining at most   *)
(* `max_scan`.  A cursor is <<>> or <<the key to go on after>>.             *)

Sorted(S) == SetToSortSeq(S, LAMBDA a, b : a < b)

(* A slip: the next page begins with the last key of this one. *)
AfterInclusive(names, cursor) ==
    Sorted({k \in names : cursor # <<>> => k >= cursor[1]})

After(names, cursor) == Sorted({k \in names : cursor # <<>> => k > cursor[1]})

list_keys(inner, cursor, limit, max_scan, now) ==
    LET left    == After(DOMAIN inner.entries, cursor)
        Shown(n) == SelectSeq(SubSeq(left, 1, n), LAMBDA k : live(inner, k, now))
        full    == {n \in 1..Len(left) : Len(Shown(n)) >= limit}
        last    == IF full = {} THEN Len(left) + 1 ELSE CHOOSE n \in full : \A m \in full : n <= m
    IN  CASE last <= max_scan /\ full # {} ->
               [entries |-> Shown(last), cursor |-> <<left[last]>>, truncated |-> FALSE]
          [] last > max_scan /\ Len(left) > max_scan ->
               [entries |-> Shown(max_scan), cursor |-> <<left[max_scan + 1]>>, truncated |-> TRUE]
          [] OTHER -> [entries |-> Shown(Len(left)), cursor |-> <<>>, truncated |-> FALSE]

list_tags(inner, cursor, limit) ==
    LET left == After(DOMAIN inner.tags, cursor)
        n    == IF Len(left) < limit THEN Len(left) ELSE limit
    IN  [entries |-> [i \in 1..n |-> <<left[i], inner.tags[left[i]].gen>>],
         cursor  |-> IF Len(left) >= limit THEN <<left[n]>> ELSE <<>>]
=============================================================================
