------------------------------ MODULE McCommand ------------------------------
(***************************************************************************)
(* The memcached grammars of vash-proto/src/memcached: the classic text    *)
(* commands (text.rs) and the meta commands (meta.rs).                     *)
(*                                                                         *)
(* The stream is a sequence of units: words (the blanks between them are   *)
(* left out), line ends, and the bytes of a data block.  What the code     *)
(* reads off a word's bytes is given by functions over words.              *)
(***************************************************************************)
EXTENDS Sequences, FiniteSets, TtlRules

LOCAL INSTANCE SequencesExt

CONSTANTS
    CR, LF, Absent,
    Unsigned,       \* words that read as a u64 -> their value
    Ints,           \* words that read as an i64 -> their value
    Length,         \* word -> its length in bytes
    Unprintable,    \* words with a control character
    Letter,         \* word -> its first byte, as a meta flag
    Argument,       \* word -> what follows that byte, or Absent
    Names,          \* the argument of a tag flag -> the names in it
    MAX_LINE_LEN, MAX_KEY_LEN, MAX_TAG_LEN, ABSOLUTE_MAX_TAGS,
    ABSOLUTE_MAX_VALUE_LEN, MAX_BATCH_ITEMS, MAX_LIST_LIMIT

Incomplete == [kind |-> "incomplete"]
Fatal(detail) == [kind |-> "fatal", detail |-> detail]
Recoverable(response, consumed) ==
    [kind |-> "error", consumed |-> consumed, what |-> [error |-> response]]
Parsed(command, consumed, noreply, style) ==
    [kind |-> "command", consumed |-> consumed,
     what |-> [command |-> command, noreply |-> noreply, style |-> style]]

(* ErrorKind. *)
ERROR == <<"ERROR">>
Client(detail) == <<"CLIENT_ERROR", detail>>
Server(detail) == <<"SERVER_ERROR", detail>>
BAD_LINE == Client("bad command line format")
SHORT_LINE == Client("bad command line")

Style(name) == [name |-> name]

Token(tokens, i) == IF i <= Len(tokens) THEN tokens[i] ELSE Absent
From(tokens, i) == SubSeq(tokens, i, Len(tokens))

parse_u64(token) == IF token \in DOMAIN Unsigned THEN Unsigned[token] ELSE Absent
parse_u32(token) ==
    LET n == parse_u64(token) IN IF n = Absent THEN Absent ELSE IF n > U32_MAX THEN Absent ELSE n
parse_ttl(token) == IF token \in DOMAIN Ints THEN parse_exptime(Ints[token]) ELSE Absent

has_noreply(tokens) == \E i \in DOMAIN tokens : tokens[i] = "noreply"

(* text.rs and meta.rs parse_key: the same keys, under different wordings.  *)
KeyFits(token) ==
    /\ token # Absent
    /\ Length[token] \in 1 .. MAX_KEY_LEN
    /\ token \notin Unprintable
TagFits(token) == token # Absent /\ Length[token] \in 1 .. MAX_TAG_LEN

-----------------------------------------------------------------------------
(* text.rs.                                                                 *)

(* parse_keys: at least one, at most MAX_BATCH_ITEMS. *)
parse_keys(tokens) ==
    LET bad == {i \in DOMAIN tokens : ~KeyFits(tokens[i])}
        over == Len(tokens) > MAX_BATCH_ITEMS
    IN  CASE tokens = << >> -> [error |-> BAD_LINE]
          [] tokens # << >> /\ over /\ \A i \in bad : i > MAX_BATCH_ITEMS ->
                 [error |-> Client("too many keys")]
          [] OTHER -> IF bad # {} THEN [error |-> BAD_LINE] ELSE [keys |-> tokens]

Retrieval(verb) == [name |-> "retrieval", with_cas |-> verb \in {"gets", "gats"}]

(* `<verb> <key> <flags> <exptime> <bytes> [<cas>] [noreply]`, then the     *)
(* block: its length is read first, so that every verdict consumes it.      *)
parse_storage(verb, tokens, buf, line_consumed) ==
    LET bytes == parse_u64(Token(tokens, 5))
        data_end == line_consumed + bytes
        consumed == data_end + 2
        fail(response) == Recoverable(response, consumed)
        ttl == parse_ttl(Token(tokens, 4))
        cas == parse_u64(Token(tokens, 6))
    IN  IF bytes = Absent THEN Recoverable(BAD_LINE, line_consumed)
        ELSE IF bytes > ABSOLUTE_MAX_VALUE_LEN THEN Fatal("implausible length")
        ELSE IF Len(buf) < consumed THEN Incomplete
        ELSE IF SubSeq(buf, data_end + 1, consumed) # <<CR, LF>>
             THEN fail(Client("bad data chunk"))
        ELSE IF \/ ~KeyFits(Token(tokens, 2))
                \/ parse_u32(Token(tokens, 3)) = Absent
                \/ ttl = Absent
                \/ verb = "cas" /\ cas = Absent
             THEN fail(BAD_LINE)
        ELSE Parsed([verb |-> "set", key |-> tokens[2],
                     value |-> SubSeq(buf, line_consumed + 1, data_end), ttl |-> ttl,
                     mode |-> verb, tags |-> << >>,
                     cas |-> IF verb = "cas" THEN cas ELSE Absent],
                    consumed, has_noreply(tokens), Style("storage"))

(* parse_cachedump: a limit of 0 is a full page. *)
parse_cachedump(rest, consumed) ==
    LET limit == parse_u64(Token(rest, 2))
        page == IF limit = 0 THEN MAX_LIST_LIMIT ELSE Least(limit, MAX_LIST_LIMIT)
    IN  IF Len(rest) < 2 THEN Recoverable(SHORT_LINE, consumed)
        ELSE IF limit = Absent \/ parse_u64(rest[1]) = Absent THEN Recoverable(BAD_LINE, consumed)
        ELSE Parsed([verb |-> "list_keys", limit |-> page], consumed, FALSE,
                    [name |-> "cachedump", selected |-> rest[1] = "1", limit |-> page])

Sections == [settings |-> "settings", items |-> "items", slabs |-> "slabs",
             conns |-> "conns", sizes |-> "sizes", extstore |-> "empty", proxy |-> "empty"]

parse_stats(rest, consumed) ==
    LET sub == Token(rest, 1)
        answer(section) ==
            IF Len(rest) > 1 THEN Recoverable(BAD_LINE, consumed)
            ELSE Parsed([verb |-> "stats"], consumed, FALSE,
                        [name |-> "stats", section |-> section])
    IN  CASE sub = Absent -> answer("general")
          [] sub \in DOMAIN Sections -> answer(Sections[sub])
          [] sub = "reset" \/ sub = "detail" -> Recoverable(Client("not implemented"), consumed)
          [] sub = "cachedump" -> parse_cachedump(Tail(rest), consumed)
          [] OTHER -> Recoverable(ERROR, consumed)

parse_lru_crawler(rest, consumed) ==
    LET sub == Token(rest, 1)
        class == Token(rest, 2)
    IN  CASE sub \in {"enable", "disable", "sleep", "tocrawl", "crawl"} ->
                 Recoverable(Client("not implemented"), consumed)
          [] sub \in {"metadump", "mgdump"} /\ class # Absent ->
                 Parsed([verb |-> "list_keys", limit |-> MAX_LIST_LIMIT], consumed, FALSE,
                        [name |-> "dump", dump |-> sub, selected |-> class \in {"all", "hash", "1"}])
          [] OTHER -> Recoverable(ERROR, consumed)

Keyed(rest, consumed, parsed(_)) ==
    IF KeyFits(Token(rest, 1)) THEN parsed(rest[1]) ELSE Recoverable(BAD_LINE, consumed)

Retrieve(verb, keys, command, consumed) ==
    IF "error" \in DOMAIN keys THEN Recoverable(keys.error, consumed)
    ELSE Parsed(command @@ keys, consumed, FALSE, Retrieval(verb))

(* text.rs parse. *)
parse_text(verb, tokens, after_line, buf) ==
    LET rest == Tail(tokens)
        fail(response) == Recoverable(response, after_line)
        done(command, from, style) ==
            Parsed(command, after_line, has_noreply(From(rest, from)), Style(style))
    IN  CASE tokens = << >> -> fail(BAD_LINE)
          [] verb \in {"set", "add", "replace", "append", "prepend", "cas"} ->
                 parse_storage(verb, tokens, buf, after_line)
          [] verb \in {"get", "gets"} ->
                 Retrieve(verb, parse_keys(rest), [verb |-> "get_many"], after_line)
          [] verb \in {"gat", "gats"} ->
                 IF parse_ttl(Token(rest, 1)) = Absent THEN fail(BAD_LINE)
                 ELSE Retrieve(verb, parse_keys(Tail(rest)),
                               [verb |-> "gat", ttl |-> parse_ttl(rest[1])], after_line)
          [] verb = "delete" ->
                 Keyed(rest, after_line, LAMBDA key :
                     done([verb |-> "delete", key |-> key], 2, "deleted"))
          [] verb = "touch" ->
                 Keyed(rest, after_line, LAMBDA key :
                     IF parse_ttl(Token(rest, 2)) = Absent THEN fail(BAD_LINE)
                     ELSE done([verb |-> "touch", key |-> key, ttl |-> parse_ttl(rest[2])],
                               3, "touched"))
          [] verb \in {"incr", "decr"} ->
                 Keyed(rest, after_line, LAMBDA key :
                     IF parse_u64(Token(rest, 2)) = Absent
                     THEN fail(Client("invalid numeric delta argument"))
                     ELSE done([verb |-> "arithmetic", key |-> key, by |-> parse_u64(rest[2]),
                                down |-> verb = "decr"], 3, "counter"))
          [] verb = "flush_all" -> done([verb |-> "flush"], 1, "ok")
          [] verb = "delete_by_tag" ->
                 IF rest = << >> THEN fail(Client("missing tag"))
                 ELSE IF ~TagFits(rest[1]) THEN fail(Client("invalid tag"))
                 ELSE done([verb |-> "delete_by_tag", tag |-> rest[1]], 2, "deleted")
          [] verb = "stats" -> parse_stats(rest, after_line)
          [] verb = "lru_crawler" -> parse_lru_crawler(rest, after_line)
          [] verb = "version" -> done([verb |-> "version"], Len(rest) + 1, "version")
          [] verb = "quit" -> done([verb |-> "quit"], Len(rest) + 1, "quit")
          [] verb = "verbosity" ->
                 IF Token(rest, 1) \in {Absent, "noreply"} THEN fail(ERROR)
                 ELSE IF parse_u64(rest[1]) = Absent THEN fail(BAD_LINE)
                 ELSE done([verb |-> "version"], 2, "ok")
          [] OTHER -> fail(ERROR)

-----------------------------------------------------------------------------
(* meta.rs.                                                                 *)

Collected ==
    [want |-> {}, quiet |-> FALSE, opaque |-> Absent, ttl |-> Absent,
     client_flags |-> Absent, cas |-> Absent, mode |-> Absent, delta |-> Absent,
     tags |-> << >>, failed |-> Absent]

Refuse(acc, detail) == [acc EXCEPT !.failed = Client(detail)]
Put(acc, field, value, detail) ==
    IF value = Absent THEN Refuse(acc, detail) ELSE [acc EXCEPT ![field] = value]

AddTags(acc, names) ==
    LET long == \E i \in DOMAIN names : Length[names[i]] > MAX_TAG_LEN
        room == ABSOLUTE_MAX_TAGS - Len(acc.tags)
        first == IF long THEN CHOOSE i \in DOMAIN names :
                                  /\ Length[names[i]] > MAX_TAG_LEN
                                  /\ \A j \in 1 .. i - 1 : Length[names[j]] <= MAX_TAG_LEN
                 ELSE Len(names) + 1
    IN  IF long /\ first <= room + 1 THEN Refuse(acc, "tag name too long")
        ELSE IF Len(names) > room THEN Refuse(acc, "too many tags")
        ELSE [acc EXCEPT !.tags = @ \o names]

(* collect: every flag counts, in any order, and an unknown one is refused. *)
Flag(acc, token) ==
    LET letter == Letter[token]
        arg == Argument[token]
    IN  CASE letter \in {"v", "f", "c", "t", "s", "k"} -> [acc EXCEPT !.want = @ \cup {letter}]
          [] letter = "q" -> [acc EXCEPT !.quiet = TRUE]
          [] letter = "u" -> acc
          [] letter = "O" -> [acc EXCEPT !.opaque = arg]
          [] letter = "T" -> Put(acc, "ttl", parse_ttl(arg), "bad TTL flag")
          [] letter = "F" -> Put(acc, "client_flags", parse_u32(arg), "bad flags token")
          [] letter = "C" -> Put(acc, "cas", parse_u64(arg), "bad CAS token")
          [] letter = "D" -> Put(acc, "delta", parse_u64(arg), "bad delta token")
          [] letter = "M" -> Put(acc, "mode", arg, "empty mode flag")
          [] letter = "G" -> AddTags(acc, IF arg = Absent THEN << >> ELSE Names[arg])
          [] letter \in {"b", "h", "l", "x", "I", "E", "R", "N"} -> Refuse(acc, "unsupported flag")
          [] OTHER -> Refuse(acc, "invalid flag")

collect(tokens) ==
    FoldLeft(LAMBDA acc, token : IF acc.failed # Absent THEN acc ELSE Flag(acc, token),
             Collected, tokens)

SetModes == [E |-> "add", A |-> "append", P |-> "prepend", R |-> "replace", S |-> "set"]

Meta(style, flags) ==
    [name |-> "meta", style |-> style, want |-> flags.want, opaque |-> flags.opaque]

(* `ms <key> <bytes> <flags>`, then the block. *)
parse_ms(rest, after_line, buf) ==
    LET bytes == parse_u64(Token(rest, 2))
        flags == collect(From(rest, 3))
        data_end == after_line + bytes
        mode == IF flags.cas # Absent THEN "cas"
                ELSE IF flags.mode = Absent THEN "set" ELSE SetModes[flags.mode]
    IN  IF ~KeyFits(Token(rest, 1)) THEN Recoverable(Client("invalid key"), after_line)
        ELSE IF bytes = Absent THEN Recoverable(Client("bad data length"), after_line)
        ELSE IF flags.failed # Absent THEN Recoverable(flags.failed, after_line)
        ELSE IF bytes > ABSOLUTE_MAX_VALUE_LEN THEN Fatal("implausible length")
        ELSE IF Len(buf) < data_end + 2 THEN Incomplete
        ELSE IF SubSeq(buf, data_end + 1, data_end + 2) # <<CR, LF>>
             THEN Recoverable(Client("bad data chunk"), data_end + 2)
        ELSE IF flags.cas = Absent /\ flags.mode \notin {Absent} \cup DOMAIN SetModes
             THEN Recoverable(Client("invalid mode for ms"), after_line)
        ELSE Parsed([verb |-> "set", key |-> rest[1],
                     value |-> SubSeq(buf, after_line + 1, data_end),
                     ttl |-> IF flags.ttl = Absent THEN 0 ELSE flags.ttl,
                     mode |-> mode, tags |-> flags.tags, cas |-> flags.cas],
                    data_end + 2, flags.quiet, Meta("set", flags))

Flagged(rest, from, after_line, command(_), style) ==
    LET flags == collect(From(rest, from))
    IN  IF flags.failed # Absent THEN Recoverable(flags.failed, after_line)
        ELSE Parsed(command(flags), after_line, flags.quiet, Meta(style, flags))

(* meta.rs parse. *)
parse_meta(verb, tokens, after_line, buf) ==
    LET rest == Tail(tokens)
        key == Token(rest, 1)
    IN  CASE verb = "mn" -> Parsed([verb |-> "ping"], after_line, FALSE, Meta("noop", Collected))
          [] verb = "ms" -> parse_ms(rest, after_line, buf)
          [] verb = "mdt" ->
                 IF rest = << >> THEN Recoverable(Client("missing tag"), after_line)
                 ELSE IF ~TagFits(key) THEN Recoverable(Client("invalid tag"), after_line)
                 ELSE Flagged(rest, 2, after_line,
                              LAMBDA flags : [verb |-> "delete_by_tag", tag |-> key], "delete")
          [] verb \notin {"mn", "ms", "mdt"} /\ ~KeyFits(key) ->
                 Recoverable(Client("invalid key"), after_line)
          [] verb = "mg" /\ KeyFits(key) ->
                 Flagged(rest, 2, after_line,
                         LAMBDA flags : IF flags.ttl = Absent THEN [verb |-> "get", key |-> key]
                                        ELSE [verb |-> "gat", keys |-> <<key>>, ttl |-> flags.ttl],
                         "get")
          [] verb = "md" /\ KeyFits(key) ->
                 Flagged(rest, 2, after_line,
                         LAMBDA flags : [verb |-> "delete", key |-> key], "delete")
          [] verb = "ma" /\ KeyFits(key) ->
                 Flagged(rest, 2, after_line,
                         LAMBDA flags : [verb |-> "arithmetic", key |-> key,
                                         by |-> IF flags.delta = Absent THEN 1 ELSE flags.delta,
                                         down |-> flags.mode \in {"D", "-"}], "arithmetic")
          [] verb = "me" /\ KeyFits(key) ->
                 Parsed([verb |-> "get", key |-> key], after_line, FALSE, Meta("debug", Collected))

-----------------------------------------------------------------------------
(* mod.rs: one command off the front of the buffer.                         *)

MetaVerbs == {"mg", "ms", "md", "mn", "ma", "me", "mdt"}

parse(buf) ==
    LET newlines == {i \in DOMAIN buf : buf[i] = LF}
        newline == CHOOSE i \in newlines : \A j \in newlines : i <= j
        line_end == IF newline > 1 /\ buf[newline - 1] = CR THEN newline - 1 ELSE newline
        tokens == SubSeq(buf, 1, line_end - 1)
    IN  IF newlines = {}
        THEN IF Len(buf) > MAX_LINE_LEN THEN Fatal("line too long") ELSE Incomplete
        ELSE IF Token(tokens, 1) \in MetaVerbs
             THEN parse_meta(tokens[1], tokens, newline, buf)
             ELSE parse_text(Token(tokens, 1), tokens, newline, buf)
=============================================================================
