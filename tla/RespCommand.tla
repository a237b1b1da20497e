----------------------------- MODULE RespCommand -----------------------------
(***************************************************************************)
(* The Redis grammar of vash-proto/src/resp/command.rs: what the arguments *)
(* of one framed command mean, or which error they are answered with.      *)
(*                                                                         *)
(* An argument is a word.  What the code reads off its bytes is given by   *)
(* functions over words: its upper-case spelling, the integer or the float *)
(* it spells (when it spells one), its length, its bytes as a pattern.     *)
(* The options of a command are folded over one accumulator; `wants` is    *)
(* the option whose argument comes next.                                   *)
(***************************************************************************)
EXTENDS Sequences, FiniteSets, TtlRules

LOCAL INSTANCE SequencesExt

CONSTANTS
    None,
    Upper,          \* word -> its upper-case spelling
    Ints,           \* words that parse_int takes -> their value
    Floats,         \* words that parse_float takes -> their value
    Unsigned,       \* words that read as a u64 -> their value
    Length,         \* word -> its length in bytes
    PatternOf,      \* word -> its bytes, for MATCH
    ValidPattern,   \* glob::validate
    ClassPattern,   \* has_unescaped_class
    EXACT,          \* the largest integer every smaller one of which is an f64
    MAX_BATCH_ITEMS, ABSOLUTE_MAX_TAGS, MAX_TAG_LEN, MAX_VERB_LEN,
    MAX_LIST_LIMIT

(* i64::checked_mul and checked_neg: None where the product is no i64. *)
Fits(n) == IF n \in -TIME_MAX - 1 .. TIME_MAX THEN n ELSE None

(* upper_verb: a name too long to be a verb is no verb. *)
upper_verb(raw) == IF Length[raw] > MAX_VERB_LEN THEN "" ELSE Upper[raw]

(* Option names are compared without regard to case. *)
eq(token, name) == Upper[token] = name

(* ProtocolError::Recoverable: an ErrorReply and, for those that name it,   *)
(* the command.                                                             *)
Recoverable(reply, name) == [error |-> reply, of |-> name]
IsError(parsed) == "error" \in DOMAIN parsed
SYNTAX == Recoverable("syntax", "")
NOT_AN_INTEGER == Recoverable("not_an_integer", "")
NOT_A_FLOAT == Recoverable("not_a_float", "")
OVERFLOW == Recoverable("overflow", "")
WrongArity(name) == Recoverable("arity", name)
InvalidExpire(name) == Recoverable("invalid_expire", name)
Err(message) == Recoverable(message, "")

(* exactly and at_least. *)
exactly(args, count, name, command) ==
    IF Len(args) # count THEN WrongArity(name) ELSE command
at_least(args, count, name) == Len(args) >= count

Tail2(args, first) == SubSeq(args, first, Len(args))

(* pairs: the flat list two by two. *)
pairs(flat) == [i \in 1 .. Len(flat) \div 2 |-> <<flat[2*i - 1], flat[2*i]>>]

int(n) == [kind |-> "int", n |-> n]
float(n) == [kind |-> "float", n |-> n]

(* as_float: past EXACT an f64 is even, and halfway goes to the multiple of *)
(* four.                                                                    *)
as_float(number) ==
    LET n == number.n
        odd == n % 2 = 1
    IN  IF number.kind = "float" \/ n \in -EXACT .. EXACT \/ ~odd THEN n
        ELSE IF (n + 1) % 4 = 0 THEN n + 1 ELSE n - 1

-----------------------------------------------------------------------------
(* Options.                                                                 *)

Unset == [form |-> "unset", ms |-> 0]
Keep == [form |-> "keep", ms |-> 0]
Persist == [form |-> "persist", ms |-> 0]
After(ms) == [form |-> "after", ms |-> ms]
At(ms) == [form |-> "at", ms |-> ms]

(* What the options of SET, MSETEX, INCREX and SCAN are collected into. *)
NoOptions ==
    [condition |-> "always", expiry |-> Unset, get |-> FALSE,
     delta |-> None, lower |-> None, upper |-> None,
     saturate |-> FALSE, enx |-> FALSE,
     pattern |-> <<>>, count |-> 10, only_strings |-> TRUE,
     wants |-> None, failed |-> None]

Refuse(acc, error) == [acc EXCEPT !.failed = error]

(* Mutant: the last of several lifetimes counts. *)
set_expiry_last(acc, expiry) == [acc EXCEPT !.expiry = expiry]

(* Options::set_condition and set_expiry: a second one is a syntax error.   *)
set_condition(acc, condition) ==
    IF acc.condition # "always" THEN Refuse(acc, SYNTAX)
    ELSE [acc EXCEPT !.condition = condition]

set_expiry(acc, expiry) ==
    IF acc.expiry # Unset THEN Refuse(acc, SYNTAX)
    ELSE [acc EXCEPT !.expiry = expiry]

(* Options::expiry once it has its argument: a positive number of           *)
(* milliseconds that an i64 holds.                                          *)
expiry(acc, name, option, raw) ==
    LET unit == IF option \in {"EX", "EXAT"} THEN SECOND ELSE 1
        ms == IF raw \in DOMAIN Ints THEN Fits(Ints[raw] * unit) ELSE None
    IN  IF raw \notin DOMAIN Ints THEN Refuse(acc, NOT_AN_INTEGER)
        ELSE IF ms = None THEN Refuse(acc, InvalidExpire(name))
        ELSE IF ms <= 0 THEN Refuse(acc, InvalidExpire(name))
        ELSE set_expiry(acc, IF option \in {"EXAT", "PXAT"} THEN At(ms) ELSE After(ms))

Deadlines == {"EX", "PX", "EXAT", "PXAT"}

(* The options each command knows, and those of them that take an argument. *)
OptionsOf(name) ==
    CASE name \in {"set", "settags"} -> {"NX", "XX", "GET", "KEEPTTL"} \cup Deadlines
      [] name \in {"msetex", "msettags"} -> {"NX", "XX", "KEEPTTL"} \cup Deadlines
      [] name = "increx" -> {"BYINT", "BYFLOAT", "LBOUND", "UBOUND", "SATURATE",
                             "ENX", "PERSIST"} \cup Deadlines
      [] name = "scan" -> {"MATCH", "COUNT", "TYPE"}

WithArgument ==
    Deadlines \cup {"BYINT", "BYFLOAT", "LBOUND", "UBOUND", "MATCH", "COUNT", "TYPE"}

(* An option that stands alone, or the start of one that does not. *)
Begin(acc, name, option) ==
    CASE option \notin OptionsOf(name) ->
            Refuse(acc, IF /\ name \in {"set", "settags"}
                           /\ option \in {"IFEQ", "IFNE", "IFDEQ", "IFDNE"}
                        THEN Err("value_conditions") ELSE SYNTAX)
      [] option \in OptionsOf(name) /\ option \in WithArgument ->
            IF option \in {"BYINT", "BYFLOAT"} /\ acc.delta # None
            THEN Refuse(acc, SYNTAX)
            ELSE [acc EXCEPT !.wants = option]
      [] option \in OptionsOf(name) \ WithArgument ->
            CASE option = "NX" -> set_condition(acc, "if_absent")
              [] option = "XX" -> set_condition(acc, "if_present")
              [] option = "GET" -> [acc EXCEPT !.get = TRUE]
              [] option = "KEEPTTL" -> set_expiry(acc, Keep)
              [] option = "PERSIST" -> set_expiry(acc, Persist)
              [] option = "SATURATE" -> [acc EXCEPT !.saturate = TRUE]
              [] option = "ENX" -> [acc EXCEPT !.enx = TRUE]

(* The argument of the option that wanted one. *)
Give(acc, name, token) ==
    LET option == acc.wants
        done == [acc EXCEPT !.wants = None]
    IN  CASE option \in Deadlines -> expiry(done, name, option, token)
          [] option = "BYINT" ->
                IF token \notin DOMAIN Ints THEN Refuse(acc, NOT_AN_INTEGER)
                ELSE [done EXCEPT !.delta = int(Ints[token])]
          [] option = "BYFLOAT" ->
                IF token \notin DOMAIN Floats THEN Refuse(acc, NOT_A_FLOAT)
                ELSE [done EXCEPT !.delta = float(Floats[token])]
          [] option = "LBOUND" -> [done EXCEPT !.lower = token]
          [] option = "UBOUND" -> [done EXCEPT !.upper = token]
          [] option = "MATCH" ->
                IF ClassPattern[token] THEN Refuse(acc, Err("character_class"))
                ELSE IF ~ValidPattern[token] THEN Refuse(acc, Err("invalid_pattern"))
                ELSE [done EXCEPT !.pattern = PatternOf[token]]
          [] option = "COUNT" ->
                IF token \notin DOMAIN Ints THEN Refuse(acc, NOT_AN_INTEGER)
                ELSE IF Ints[token] <= 0 THEN Refuse(acc, SYNTAX)
                ELSE [done EXCEPT !.count =
                        IF Ints[token] > MAX_LIST_LIMIT THEN MAX_LIST_LIMIT ELSE Ints[token]]
          [] option = "TYPE" -> [done EXCEPT !.only_strings = eq(token, "STRING")]

(* The loop over the option tokens; a missing argument is a syntax error.   *)
Options(tokens, name) ==
    LET step(acc, token) ==
            IF acc.failed # None THEN acc
            ELSE IF acc.wants = None THEN Begin(acc, name, Upper[token])
            ELSE Give(acc, name, token)
        ended(acc) ==
            IF acc.failed = None /\ acc.wants # None THEN Refuse(acc, SYNTAX) ELSE acc
    IN  ended(FoldLeft(step, NoOptions, tokens))

-----------------------------------------------------------------------------
(* Tags.                                                                    *)

check_tag(tag) == Length[tag] \in 1 .. MAX_TAG_LEN

(* tag_list: the tags and where the options begin.  The word that counts    *)
(* them is taken by index, and an index past the end panics.                *)
tag_list(args, at, tagged, name) ==
    LET count == Ints[args[at]]
        tags == SubSeq(args, at + 1, at + count)
    IN  IF ~tagged THEN [tags |-> <<>>, options_at |-> at]
        ELSE IF at > Len(args) THEN Recoverable("panic", name)
        ELSE IF args[at] \notin DOMAIN Ints THEN NOT_AN_INTEGER
        ELSE IF count < 0 THEN Err("negative_numtags")
        ELSE IF count > ABSOLUTE_MAX_TAGS THEN Err("too_many_tags")
        ELSE IF Len(args) < at + count THEN WrongArity(name)
        ELSE IF \E i \in DOMAIN tags : ~check_tag(tags[i]) THEN Err("invalid_tag")
        ELSE [tags |-> tags, options_at |-> at + 1 + count]

-----------------------------------------------------------------------------
(* One parser per command.                                                  *)

parse_set(args, tagged) ==
    LET name == IF tagged THEN "settags" ELSE "set"
        set(list, options) ==
            IF options.failed # None THEN options.failed
            ELSE [verb |-> "set", key |-> args[2], value |-> args[3],
                  condition |-> options.condition, expiry |-> options.expiry,
                  return_previous |-> options.get,
                  tags |-> list.tags, tagged |-> tagged]
        listed(list) ==
            IF IsError(list) THEN list
            ELSE set(list, Options(Tail2(args, list.options_at), name))
    IN  IF ~at_least(args, IF tagged THEN 4 ELSE 3, name) THEN WrongArity(name)
        ELSE listed(tag_list(args, 4, tagged, name))

parse_msetex(args, tagged) ==
    LET name == IF tagged THEN "msettags" ELSE "msetex"
        count == Ints[args[2]]
        body == 2 + count * 2
        msetex(list, options) ==
            IF options.failed # None THEN options.failed
            ELSE [verb |-> "msetex", pairs |-> pairs(SubSeq(args, 3, body)),
                  condition |-> options.condition, expiry |-> options.expiry,
                  tags |-> list.tags, tagged |-> tagged]
        listed(list) ==
            IF IsError(list) THEN list
            ELSE msetex(list, Options(Tail2(args, list.options_at), name))
    IN  IF ~at_least(args, IF tagged THEN 5 ELSE 4, name) THEN WrongArity(name)
        ELSE IF args[2] \notin DOMAIN Ints THEN NOT_AN_INTEGER
        ELSE IF count <= 0 THEN Err("numkeys")
        ELSE IF count > MAX_BATCH_ITEMS THEN Err("too_many_keys")
        ELSE IF Len(args) < body THEN WrongArity(name)
        ELSE listed(tag_list(args, body + 1, tagged, name))

parse_expire(args, name, absolute) ==
    LET ms == IF args[3] \in DOMAIN Ints THEN Fits(Ints[args[3]] * SECOND) ELSE None
        word == Upper[args[4]]
        conditions == [NX |-> "if_persistent", XX |-> "if_volatile",
                       GT |-> "if_later", LT |-> "if_earlier"]
    IN  IF ~at_least(args, 3, name) THEN WrongArity(name)
        ELSE IF args[3] \notin DOMAIN Ints THEN NOT_AN_INTEGER
        ELSE IF ms = None THEN InvalidExpire(name)
        ELSE IF Len(args) > 4 THEN SYNTAX
        ELSE IF Len(args) = 4 /\ word \notin DOMAIN conditions THEN SYNTAX
        ELSE [verb |-> "expire", key |-> args[2],
              expiry |-> IF absolute THEN At(ms) ELSE After(ms),
              condition |-> IF Len(args) = 4 THEN conditions[word] ELSE "always"]

(* A bound is read in the increment's own mode, which may come after it. *)
bound(token, delta) ==
    IF token = None THEN None
    ELSE IF delta.kind = "int"
    THEN IF token \in DOMAIN Ints THEN int(Ints[token]) ELSE NOT_AN_INTEGER
    ELSE IF token \in DOMAIN Floats THEN float(Floats[token]) ELSE NOT_A_FLOAT

parse_increx(args) ==
    LET bad(b) == IF b = None THEN FALSE ELSE IsError(b)
        increx(options, delta, lower, upper) ==
            IF bad(lower) THEN lower
            ELSE IF bad(upper) THEN upper
            ELSE IF lower # None /\ upper # None /\ as_float(lower) > as_float(upper)
            THEN Err("bounds")
            ELSE IF options.enx /\ options.expiry.form \notin {"after", "at"} THEN SYNTAX
            ELSE [verb |-> "increx", key |-> args[2], delta |-> delta,
                  lower |-> lower, upper |-> upper, saturate |-> options.saturate,
                  expiry |-> options.expiry, only_if_persistent |-> options.enx]
        bounded(options, delta) ==
            increx(options, delta, bound(options.lower, delta), bound(options.upper, delta))
        read(options) ==
            IF options.failed # None THEN options.failed
            ELSE bounded(options, IF options.delta = None THEN int(1) ELSE options.delta)
    IN  IF ~at_least(args, 2, "increx") THEN WrongArity("increx")
        ELSE read(Options(Tail2(args, 3), "increx"))

parse_scan(args) ==
    LET scan(options) ==
            IF options.failed # None THEN options.failed
            ELSE [verb |-> "scan", token |-> Unsigned[args[2]], pattern |-> options.pattern,
                  count |-> options.count, only_strings |-> options.only_strings]
    IN  IF ~at_least(args, 2, "scan") THEN WrongArity("scan")
        ELSE IF args[2] \notin DOMAIN Unsigned THEN Err("invalid_cursor")
        ELSE scan(Options(Tail2(args, 3), "scan"))

parse_slowlog(args) ==
    LET sub == Upper[args[2]]
        only(name, command) ==
            IF Len(args) = 2 THEN command ELSE WrongArity(name)
        slowlog(which, count) == [verb |-> "slowlog", sub |-> which, count |-> count]
        counted == IF args[3] \notin DOMAIN Ints THEN Err("count")
                   ELSE IF Ints[args[3]] < -1 THEN Err("count")
                   ELSE slowlog("get", Ints[args[3]])
    IN  IF Len(args) < 2 THEN WrongArity("slowlog")
        ELSE CASE sub = "GET" -> (CASE Len(args) = 2 -> slowlog("get", None)
                                    [] Len(args) = 3 -> counted
                                    [] OTHER -> WrongArity("slowlog|get"))
               [] sub = "LEN" -> only("slowlog|len", slowlog("len", None))
               [] sub = "RESET" -> only("slowlog|reset", slowlog("reset", None))
               [] sub = "HELP" -> only("slowlog|help", slowlog("help", None))
               [] OTHER -> Recoverable("unknown_subcommand", args[2])

-----------------------------------------------------------------------------
(* parse_command: the match over verbs.                                     *)

parse_hello(args) ==
    LET version == IF Len(args) = 1 THEN None ELSE Ints[args[2]]
        hello(name, secret) ==
            [verb |-> "hello", version |-> version, auth |-> secret # None,
             name |-> name, secret |-> secret]
    IN  IF Len(args) > 1 /\ args[2] \notin DOMAIN Ints THEN Err("noproto")
        ELSE IF Len(args) <= 2 THEN hello(None, None)
        ELSE IF Len(args) = 5 /\ eq(args[3], "AUTH") THEN hello(args[4], args[5])
        ELSE Err("hello_option")

parse_auth(args) ==
    CASE Len(args) = 2 -> [verb |-> "auth", name |-> None, secret |-> args[2]]
      [] Len(args) = 3 -> [verb |-> "auth", name |-> args[2], secret |-> args[3]]
      [] Len(args) = 1 -> WrongArity("auth")
      [] OTHER -> SYNTAX

(* INFO never fails; DEFAULT without a section, the union of what is named  *)
(* otherwise, `all` and `everything` replacing it.                          *)
InfoSections == {"SERVER", "CLIENTS", "MEMORY", "PERSISTENCE", "STATS",
                 "REPLICATION", "CLUSTER", "KEYSPACE", "VASH"}
info_sections(args) ==
    LET step(sections, word) ==
            IF Upper[word] \in {"ALL", "EVERYTHING"} THEN InfoSections
            ELSE sections \cup ({Upper[word]} \cap InfoSections)
    IN  IF Len(args) = 1 THEN InfoSections \ {"VASH"} ELSE FoldLeft(step, {}, Tail(args))

(* INCRBY and DECRBY: the smallest integer has no negation. *)
parse_incrby(args, verb) ==
    LET n == Ints[args[3]]
        delta == IF verb = "DECRBY" THEN Fits(-n) ELSE n
    IN  IF Len(args) # 3
        THEN WrongArity(IF verb = "DECRBY" THEN "decrby" ELSE "incrby")
        ELSE IF args[3] \notin DOMAIN Ints THEN NOT_AN_INTEGER
        ELSE IF delta = None THEN OVERFLOW
        ELSE [verb |-> "incr", key |-> args[2], delta |-> int(delta)]

parse_incrbyfloat(args) ==
    IF Len(args) # 3 THEN WrongArity("incrbyfloat")
    ELSE IF args[3] \notin DOMAIN Floats THEN NOT_A_FLOAT
    ELSE [verb |-> "incr", key |-> args[2], delta |-> float(Floats[args[3]])]

Keyed(verb, args) == [verb |-> verb, key |-> args[2]]
Listed(verb, args, name) ==
    IF at_least(args, 2, name) THEN [verb |-> verb, keys |-> Tail(args)]
    ELSE WrongArity(name)

parse_command(args) ==
    LET verb == upper_verb(args[1])
    IN  CASE verb = "HELLO" -> parse_hello(args)
          [] verb = "AUTH" -> parse_auth(args)
          [] verb = "PING" -> (IF Len(args) > 2 THEN WrongArity("ping")
                               ELSE [verb |-> "ping", message |-> Len(args) = 2])
          [] verb = "QUIT" -> [verb |-> "quit"]
          [] verb = "GET" -> exactly(args, 2, "get", Keyed("get", args))
          [] verb \in {"SET", "SETTAGS"} -> parse_set(args, verb = "SETTAGS")
          [] verb = "DEL" -> Listed("del", args, "del")
          [] verb = "UNLINK" -> Listed("del", args, "unlink")
          [] verb = "MGET" -> Listed("mget", args, "mget")
          [] verb = "MSET" ->
                (IF ~at_least(args, 3, "mset") \/ Len(args) % 2 # 1 THEN WrongArity("mset")
                 ELSE [verb |-> "mset", pairs |-> pairs(Tail(args))])
          [] verb \in {"MSETEX", "MSETTAGS"} -> parse_msetex(args, verb = "MSETTAGS")
          [] verb = "DELBYTAG" ->
                (IF ~at_least(args, 2, "delbytag") THEN WrongArity("delbytag")
                 ELSE IF \E i \in 2 .. Len(args) : ~check_tag(args[i]) THEN Err("invalid_tag")
                 ELSE [verb |-> "delbytag", tags |-> Tail(args)])
          [] verb = "EXISTS" -> Listed("exists", args, "exists")
          [] verb = "TYPE" -> exactly(args, 2, "type", Keyed("type", args))
          [] verb = "APPEND" ->
                exactly(args, 3, "append", [verb |-> "append", key |-> args[2], value |-> args[3]])
          [] verb = "EXPIRE" -> parse_expire(args, "expire", FALSE)
          [] verb = "EXPIREAT" -> parse_expire(args, "expireat", TRUE)
          [] verb = "PERSIST" -> exactly(args, 2, "persist", Keyed("persist", args))
          [] verb = "TTL" -> exactly(args, 2, "ttl", Keyed("ttl", args))
          [] verb = "INCR" ->
                exactly(args, 2, "incr", [verb |-> "incr", key |-> args[2], delta |-> int(1)])
          [] verb = "DECR" ->
                exactly(args, 2, "decr", [verb |-> "incr", key |-> args[2], delta |-> int(-1)])
          [] verb \in {"INCRBY", "DECRBY"} -> parse_incrby(args, verb)
          [] verb = "INCRBYFLOAT" -> parse_incrbyfloat(args)
          [] verb = "INCREX" -> parse_increx(args)
          [] verb = "SCAN" -> parse_scan(args)
          [] verb = "SLOWLOG" -> parse_slowlog(args)
          [] verb = "INFO" -> [verb |-> "info", sections |-> info_sections(args)]
          [] OTHER -> Recoverable("unknown_command", args[1])
=============================================================================
