--------------------------------- MODULE Ttl ---------------------------------
(***************************************************************************)
(* One write with a lifetime, from the adapter that reads the request to   *)
(* the client that asks how long is left: the adapter converts at one      *)
(* instant, the writer applies at a later one (the request waits in its    *)
(* queue in between), and the answer is computed at a third.               *)
(***************************************************************************)
EXTENDS TtlRules

CONSTANTS
    Requests,   \* [dialect, command, form, amount]: what a client asks for
    Starts,     \* instants a request may arrive at, all past MAX_TTL_SECS
    MaxWait,    \* milliseconds a run lasts
    Earlier     \* deadlines the record may have before

VARIABLES
    request, arrived,
    time,
    ttl,        \* the TtlChange in the writer's queue
    deadline,   \* of the record
    reported,   \* the last lifetime a client was told, by dialect
    stage       \* "asked", "queued", "stored", "refused"

ttlVars == <<request, arrived, time, ttl, deadline, reported, stage>>

Nothing == [memcached |-> -9, resp |-> -9, at |-> 0]

TtlInit ==
    /\ request \in Requests /\ arrived \in Starts /\ time = arrived
    /\ ttl = KeepTtl /\ deadline \in Earlier
    /\ reported = Nothing /\ stage = "asked"

(* Mutant: the offset is handed on as it is. *)
ConvertedRaw(r, now) ==
    CASE r.dialect = "memcached" -> SetTtl(parse_exptime(r.amount))
      [] r.dialect = "vcp" -> SetTtl(r.amount)
      [] r.dialect = "resp" /\ r.command = "expire" ->
            expire_ttl([form |-> r.form, ms |-> r.amount], now)
      [] r.dialect = "resp" /\ r.command # "expire" ->
            ttl_change_for([form |-> r.form, ms |-> r.amount], now)

(* What the adapter of each dialect makes of the request. *)
Converted(r, now) ==
    CASE r.dialect = "memcached" -> SetTtl(parse_exptime(r.amount))
      [] r.dialect = "vcp" -> offsets_to_store_ttls(r.command, SetTtl(r.amount), now)
      [] r.dialect = "resp" /\ r.command = "expire" ->
            expire_ttl([form |-> r.form, ms |-> r.amount], now)
      [] r.dialect = "resp" /\ r.command # "expire" ->
            ttl_change_for([form |-> r.form, ms |-> r.amount], now)

Translate ==
    /\ stage = "asked"
    /\ LET converted == Converted(request, time)
       IN  \/ converted = Invalid /\ stage' = "refused" /\ UNCHANGED ttl
           \/ converted # Invalid /\ stage' = "queued" /\ ttl' = converted
    /\ UNCHANGED <<request, arrived, time, deadline, reported>>

ApplyTtl ==
    /\ stage = "queued"
    /\ deadline' = deadline_after(ttl, deadline, time)
    /\ stage' = "stored"
    /\ UNCHANGED <<request, arrived, time, ttl, reported>>

(* TTL over RESP and `t` over memcached, of a record that is still live. *)
Report ==
    /\ stage = "stored" /\ (deadline = NEVER \/ deadline > time)
    /\ reported' = [memcached |-> remaining_ttl_secs(deadline, time),
                    resp |-> resp_ttl(deadline, time), at |-> time]
    /\ UNCHANGED <<request, arrived, time, ttl, deadline, stage>>

Pass ==
    /\ stage # "asked" /\ time < arrived + MaxWait
    /\ time' = time + 1
    /\ UNCHANGED <<request, arrived, ttl, deadline, reported, stage>>

TtlNext == Translate \/ ApplyTtl \/ Report \/ Pass

TtlSpec == TtlInit /\ [][TtlNext]_ttlVars

-----------------------------------------------------------------------------
(* What the client means (docs/protocol.md, "TTL semantics"): NEVER, or the *)
(* instant the value should go.                                             *)
Meant(r, at) ==
    CASE r.dialect = "resp" -> (IF r.form = "after" THEN at + r.amount
                                 ELSE IF r.amount <= 0 THEN at - 1 ELSE r.amount)
      [] r.dialect = "vcp" -> (IF r.amount = 0 THEN NEVER ELSE at + r.amount * SECOND)
      [] r.dialect = "memcached" ->
            CASE r.amount < 0 -> at - 1
              [] r.amount = 0 -> NEVER
              [] r.amount \in 1 .. MAX_TTL_SECS -> at + r.amount * SECOND
              [] r.amount > MAX_TTL_SECS -> r.amount * SECOND

(* The furthest deadline the store keeps. *)
Ceiling == (U32_MAX - 1) * SECOND

(* Two kinds of request that are not converted as the rest.  VCP's          *)
(* ARITHMETIC hands its offset on as it is, so that more than thirty days   *)
(* are read as a date; a memcached time past u32 saturates to the value     *)
(* that means already expired.                                              *)
TakenForADate(r) ==
    r.dialect = "vcp" /\ r.command = "arithmetic" /\ r.amount > MAX_TTL_SECS
PastU32(r) == r.dialect = "memcached" /\ r.amount >= U32_MAX

(* A record lives as long as its client asked, whichever dialect it asked   *)
(* in and however long the write waited in the queue: not shorter by more   *)
(* than the half second RESP rounds away, not longer by more than the wait  *)
(* and a second; what is already past is stored expired, and what is still  *)
(* to come when it is asked for never is.  The two kinds above are stored   *)
(* as the instant the amount names and as expired.                          *)
LifetimeIsKept ==
    stage = "stored" =>
        LET meant == Meant(request, arrived)
            rounding == IF request.dialect = "resp" THEN SECOND \div 2 ELSE 0
        IN  IF PastU32(request) THEN deadline # NEVER /\ deadline < arrived
            ELSE IF TakenForADate(request)
            THEN deadline = IF request.amount = U32_MAX THEN ALREADY_EXPIRED_MS
                            ELSE request.amount * SECOND
            ELSE CASE meant = NEVER -> deadline = NEVER
                   [] meant # NEVER /\ meant <= arrived ->
                         deadline # NEVER /\ deadline <= arrived
                   [] meant > arrived ->
                         /\ deadline > arrived
                         /\ deadline >= Least(meant, Ceiling) - rounding
                         /\ deadline <= meant + MaxWait + SECOND

(* What TTL and `t` answer agrees with the record's deadline to the second, *)
(* `t` never says 0 of a record that is served, and neither says "no        *)
(* expiry" of a record that has one.                                        *)
ReportsAreHonest ==
    (stage = "stored" /\ reported # Nothing) =>
        IF deadline = NEVER THEN reported.memcached = -1 /\ reported.resp = -1
        ELSE LET left == deadline - reported.at
             IN  /\ reported.memcached > 0
                 /\ reported.memcached * SECOND - left \in 0 .. SECOND - 1
                 /\ reported.resp >= 0
                 /\ 2 * (reported.resp * SECOND - left) \in 1 - SECOND .. SECOND

(* docs/protocol.md:1782 gives VCP an offset at every magnitude, and 1787   *)
(* has a lifetime that is too long stored as the furthest deadline there    *)
(* is, in every dialect: a lifetime still to come when it is asked for is   *)
(* not stored as a deadline that has passed.                                *)
AskedForNeverExpiresAtOnce ==
    (stage = "stored" /\ Meant(request, arrived) > arrived) => deadline > arrived
=============================================================================
