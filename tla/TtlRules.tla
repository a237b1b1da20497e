------------------------------ MODULE TtlRules ------------------------------
(***************************************************************************)
(* How a client's lifetime becomes a record's deadline.  The store's       *)
(* `ttl_secs` is a u32 that means four things (vash-core/src/clock.rs);    *)
(* each dialect converts into it in its own adapter.  Times are            *)
(* milliseconds, SECOND of which make a second.                            *)
(***************************************************************************)
EXTENDS Integers

CONSTANTS
    SECOND,         \* 1_000
    MAX_TTL_SECS,   \* thirty days, in seconds
    U32_MAX,        \* also TTL_ALREADY_EXPIRED
    TIME_MAX,       \* i64::MAX
    Invalid         \* a lifetime the adapter refuses

NEVER == 0
ALREADY_EXPIRED_MS == 1
TTL_ALREADY_EXPIRED == U32_MAX

Least(a, b) == IF a < b THEN a ELSE b
Saturated(n) == Least(n, TIME_MAX)
div_ceil(n, d) == (n + d - 1) \div d

(* Clock::expiry_from_ttl, with the clock read when the writer applies it. *)
expiry_from_ttl(ttl_secs, now) ==
    CASE ttl_secs = 0 -> NEVER
      [] ttl_secs = TTL_ALREADY_EXPIRED -> ALREADY_EXPIRED_MS
      [] ttl_secs > MAX_TTL_SECS /\ ttl_secs < TTL_ALREADY_EXPIRED -> ttl_secs * SECOND
      [] ttl_secs \in 1 .. MAX_TTL_SECS -> now + ttl_secs * SECOND

(* Clock::ttl_from_offset. *)
ttl_from_offset(offset_secs, now) ==
    IF offset_secs <= MAX_TTL_SECS THEN offset_secs
    ELSE Least(div_ceil(now, SECOND) + offset_secs, U32_MAX - 1)

-----------------------------------------------------------------------------
(* A TtlChange: what a write does to the deadline.                          *)

KeepTtl == [change |-> "keep", secs |-> 0]
SetTtl(secs) == [change |-> "set", secs |-> secs]
SetIfPersistent(secs) == [change |-> "set_if_persistent", secs |-> secs]

(* apply.rs deadline_after. *)
deadline_after(ttl, current, now) ==
    IF ttl.change = "set" \/ (ttl.change = "set_if_persistent" /\ current = NEVER)
    THEN expiry_from_ttl(ttl.secs, now)
    ELSE current

(* vcp.rs offset_to_store_ttl, and offsets_to_store_ttls by the kind of     *)
(* command that carries the lifetime.                                       *)
offset_to_store_ttl(ttl, now) ==
    IF ttl.change = "keep" THEN ttl
    ELSE [ttl EXCEPT !.secs = ttl_from_offset(@, now)]

offsets_to_store_ttls(command, ttl, now) ==
    IF command \in {"set", "set_many", "touch"} THEN offset_to_store_ttl(ttl, now)
    ELSE ttl

(* memcached text parse_exptime and meta parse_ttl. *)
parse_exptime(seconds) ==
    IF seconds < 0 THEN TTL_ALREADY_EXPIRED ELSE Least(seconds, U32_MAX)

(* resp.rs ttl_from_deadline. *)
ttl_from_deadline(deadline_ms, now) ==
    LET rounded == Saturated(deadline_ms + SECOND \div 2) \div SECOND
        seconds == IF rounded * SECOND <= now THEN now \div SECOND + 1 ELSE rounded
    IN  IF deadline_ms <= now \/ seconds <= MAX_TTL_SECS THEN TTL_ALREADY_EXPIRED
        ELSE Least(seconds, U32_MAX - 1)

(* resp.rs ttl_change_for; a deadline past i64 is refused. *)
ttl_change_for(expiry, now) ==
    CASE expiry.form \in {"unset", "persist"} -> SetTtl(0)
      [] expiry.form = "keep" -> KeepTtl
      [] expiry.form = "after" ->
            IF now + expiry.ms > TIME_MAX THEN Invalid
            ELSE SetTtl(ttl_from_deadline(now + expiry.ms, now))
      [] expiry.form = "at" -> SetTtl(ttl_from_deadline(expiry.ms, now))

(* translate's EXPIRE and EXPIREAT, which saturate instead. *)
expire_ttl(expiry, now) ==
    SetTtl(ttl_from_deadline(
        IF expiry.form = "after" THEN Saturated(now + expiry.ms) ELSE expiry.ms, now))

-----------------------------------------------------------------------------
(* How a remaining lifetime is reported.                                    *)

Remaining(deadline, now) == IF deadline > now THEN deadline - now ELSE 0

(* Mutant: the last part of a second is rounded away. *)
remaining_ttl_floor(deadline, now) ==
    IF deadline = NEVER THEN -1 ELSE Remaining(deadline, now) \div SECOND

(* command.rs remaining_ttl_from: memcached's `t` flag, rounded up. *)
remaining_ttl_secs(deadline, now) ==
    IF deadline = NEVER THEN -1 ELSE div_ceil(Remaining(deadline, now), SECOND)

(* resp.rs render, TTL: rounded to the nearest second. *)
TTL_PERSISTENT == -1
resp_ttl(deadline, now) ==
    IF deadline = NEVER THEN TTL_PERSISTENT
    ELSE (Remaining(deadline, now) + SECOND \div 2) \div SECOND
=============================================================================
