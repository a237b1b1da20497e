------------------------------ MODULE McServer ------------------------------
(***************************************************************************)
(* The memcached adapter of vash-server/src/memcached.rs for one command:  *)
(* the login that travels as a `set`, the role gate, the fused reads, the  *)
(* key dumps that page a listing themselves, and the reply each response   *)
(* style writes (vash-proto/src/memcached/encode.rs).                      *)
(*                                                                         *)
(* A reply is a sequence of lines; a line is its first word, and the key   *)
(* it names where it names one.                                            *)
(***************************************************************************)
EXTENDS McCommand

LOCAL INSTANCE SequencesExt

CONSTANTS
    None, Error,
    Requests,       \* the buffers a command may arrive in
    McSessions,     \* [auth, conn, listing, flush, budget, pages]
    Credentials     \* data blocks that are `<user> <pass>` -> the two parts

Gate == INSTANCE Auth

VARIABLES
    request,        \* the command's bytes
    session,        \* the connection and the server's settings
    ran,            \* what reached the store, in order
    out             \* the lines written, None before

mcVars == <<request, session, ran, out>>

-----------------------------------------------------------------------------
(* encode.rs.                                                               *)

Line(word) == <<[line |-> word, key |-> None]>>
LineFor(word, key) == <<[line |-> word, key |-> key]>>
encode_error(kind) == <<[line |-> "error", key |-> kind]>>

encode_value_line(key) == LineFor("VALUE", key) \o Line("data")

(* Mutant: the misses are dropped before keys and values are paired. *)
encode_retrieval_packed(keys, values) ==
    LET hits == SelectSeq(values, LAMBDA v : v # None)
    IN  FlattenSeq([i \in DOMAIN hits |-> encode_value_line(keys[i])]) \o Line("END")

(* A batch reply holds one slot per requested key; misses write nothing. *)
encode_retrieval(keys, values) ==
    FlattenSeq([i \in DOMAIN values |->
                    IF values[i] = None THEN << >> ELSE encode_value_line(keys[i])])
    \o Line("END")

encode_meta_get_hit(style, key) ==
    IF "v" \in style.want THEN LineFor("VA", key) \o Line("data") ELSE LineFor("HD", key)

(* command_key: `k` in a reply names the command's own key. *)
command_key(command) ==
    CASE "key" \in DOMAIN command -> command.key
      [] "keys" \in DOMAIN command -> command.keys[1]
      [] OTHER -> None

encode_meta(style, command, reply) ==
    LET key == command_key(command) IN
    CASE style.style = "noop" -> Line("MN")
      [] style.style = "get" ->
             IF reply.kind = "value" \/ (reply.kind = "values" /\ reply.values[1] # None)
             THEN encode_meta_get_hit(style, key) ELSE Line("EN")
      [] style.style = "set" ->
             (CASE reply.kind = "stored" -> LineFor("HD", key)
                [] reply.kind = "not_stored" -> Line("NS")
                [] reply.kind = "exists" -> Line("EX")
                [] reply.kind = "not_found" -> Line("NF")
                [] OTHER -> Line("unexpected"))
      [] style.style = "delete" ->
             IF reply.kind \in {"deleted", "invalidated"} THEN LineFor("HD", key) ELSE Line("NF")
      [] style.style = "arithmetic" ->
             IF reply.kind # "arithmetic" THEN Line("NF")
             ELSE IF "v" \in style.want THEN LineFor("VA", key) \o Line("data")
             ELSE LineFor("HD", key)
      [] style.style = "debug" -> IF reply.kind = "value" THEN LineFor("ME", key) ELSE Line("EN")

encode(style, command, reply) ==
    CASE style.name = "retrieval" -> encode_retrieval(command.keys, reply.values)
      [] style.name = "storage" ->
             (CASE reply.kind = "stored" -> Line("STORED")
                [] reply.kind = "not_stored" -> Line("NOT_STORED")
                [] reply.kind = "exists" -> Line("EXISTS")
                [] reply.kind = "not_found" -> Line("NOT_FOUND")
                [] OTHER -> Line("unexpected"))
      [] style.name = "deleted" ->
             IF reply.kind \in {"deleted", "invalidated"} THEN Line("DELETED") ELSE Line("NOT_FOUND")
      [] style.name = "touched" ->
             IF reply.kind = "touched" THEN Line("TOUCHED") ELSE Line("NOT_FOUND")
      [] style.name = "counter" ->
             IF reply.kind = "arithmetic" THEN Line("number") ELSE Line("NOT_FOUND")
      [] style.name = "ok" -> Line("OK")
      [] style.name = "version" -> Line("VERSION")
      [] style.name = "stats" -> Line("STAT") \o Line("END")
      [] style.name = "quit" -> << >>
      [] style.name = "meta" -> encode_meta(style, command, reply)
      [] style.name \in {"dump", "cachedump"} -> Line("END")

-----------------------------------------------------------------------------
(* dispatch.rs execute_inner: what the store may answer, status failures    *)
(* among them.                                                              *)

Reply(kind) == [kind |-> kind]
Failed(status) == [kind |-> "failed", status |-> status]
StoreFailures == {Failed("CapacityFull"), Failed("Overloaded"), Failed("Internal")}

Values(keys) == {[kind |-> "values", values |-> v] :
                    v \in {w \in [DOMAIN keys -> Range(keys) \cup {None}] :
                              \A i \in DOMAIN keys : w[i] \in {keys[i], None}}}

execute(s, command) ==
    CASE command.verb = "get" -> {Reply("value"), Reply("not_found")} \cup StoreFailures
      [] command.verb \in {"get_many", "gat"} -> Values(command.keys) \cup StoreFailures
      [] command.verb = "set" ->
             {Failed("TooLarge")} \cup StoreFailures \cup
             (CASE command.mode = "set" -> {Reply("stored")}
                [] command.mode \in {"add", "replace", "append", "prepend"} ->
                       {Reply("stored"), Reply("not_stored")}
                [] command.mode = "cas" -> {Reply("stored"), Reply("exists"), Reply("not_found")})
      [] command.verb = "delete" -> {Reply("deleted"), Reply("not_found")} \cup StoreFailures
      [] command.verb = "touch" -> {Reply("touched"), Reply("not_found")} \cup StoreFailures
      [] command.verb = "arithmetic" ->
             {Reply("arithmetic"), Reply("not_found"), Failed("NotNumeric")} \cup StoreFailures
      [] command.verb = "delete_by_tag" ->
             {Reply("invalidated"), Reply("not_invalidated")} \cup StoreFailures
      [] command.verb = "flush" ->
             IF s.flush THEN {Reply("flushed")} \cup StoreFailures ELSE {Failed("Unauthorized")}
      [] command.verb = "stats" -> {Reply("stats")}
      [] command.verb = "version" -> {Reply("version")}
      [] command.verb = "ping" -> {Reply("pong")}
      [] command.verb = "quit" -> {Reply("closing")}

memcached_error(status) ==
    CASE status = "TooLarge" -> Server("object too large for cache")
      [] status = "BadRequest" -> BAD_LINE
      [] status = "NotNumeric" -> Client("cannot increment or decrement non-numeric value")
      [] status = "Unsupported" -> ERROR
      [] status = "Unauthorized" -> Client("command disabled by configuration")
      [] status = "CapacityFull" -> Server("out of memory storing object")
      [] status = "Overloaded" -> Server("server is overloaded")
      [] status = "NotStored" -> Server("not stored")
      [] OTHER -> Server("internal error")

-----------------------------------------------------------------------------
(* The key dumps.                                                           *)

listing_gate(s) == s.listing

Entries(page) == FlattenSeq([i \in DOMAIN page.entries |-> LineFor("entry", page.entries[i])])
terminator(dump) == IF dump = "mgdump" THEN Line("EN") ELSE Line("END")

(* Mutant: a dump that runs out of budget ends as a complete one does. *)
execute_dump_quiet(s, dump) ==
    Line("ACK") \o Entries(s.pages[1]) \o terminator(dump.dump)

(* Pages of the listing until it ends, fails, or has spent the scan budget. *)
(* A page that is not the last one came with a cursor.                      *)
execute_dump(s, dump) ==
    LET Spent(i) == FoldLeft(LAMBDA n, page : n + page.scanned, 0, SubSeq(s.pages, 1, i))
        page[i \in DOMAIN s.pages] ==
            IF s.pages[i].failed THEN encode_error(memcached_error("Internal"))
            ELSE Entries(s.pages[i]) \o
                 (IF i = Len(s.pages) THEN terminator(dump.dump)
                  ELSE IF Spent(i) < s.budget THEN page[i + 1]
                  ELSE encode_error(Server("dump exceeded the scan budget")))
    IN  IF ~listing_gate(s) THEN encode_error(memcached_error("Unauthorized"))
        ELSE Line("ACK") \o (IF dump.selected THEN page[1] ELSE terminator(dump.dump))

(* One page, no acknowledgement, no cursor. *)
execute_cachedump(s, dump) ==
    IF ~listing_gate(s) THEN encode_error(memcached_error("Unauthorized"))
    ELSE IF ~dump.selected THEN Line("END")
    ELSE IF s.pages[1].failed THEN encode_error(memcached_error("Internal"))
    ELSE Entries([entries |-> SubSeq(s.pages[1].entries, 1,
                                        Least(dump.limit, Len(s.pages[1].entries)))]) \o Line("END")

-----------------------------------------------------------------------------
(* One command.                                                             *)

McInit ==
    /\ request \in Requests
    /\ session \in McSessions
    /\ ran = << >>
    /\ out = None

Stranger == session.auth.required /\ ~Gate!is_authenticated(session.conn)

(* `noreply` suppresses the answer, never the work. *)
Answer(what, lines) == out' = IF what.noreply THEN << >> ELSE lines

(* execute_memcached_block: a command that does not parse. *)
McReject(kind) ==
    /\ out' = encode_error(IF Stranger THEN Client("unauthenticated") ELSE kind)
    /\ UNCHANGED <<request, session, ran>>

(* execute_memcached_unauthenticated. *)
StrangerQuits(what) ==
    /\ Stranger /\ what.command.verb = "quit"
    /\ out' = << >>
    /\ UNCHANGED <<request, session, ran>>

IsLogin(what) == what.command.verb = "set" /\ what.command.mode = "set"

RefuseStranger(what) ==
    /\ Stranger /\ what.command.verb # "quit" /\ ~IsLogin(what)
    /\ Answer(what, encode_error(Client("unauthenticated")))
    /\ UNCHANGED <<request, session, ran>>

(* Mutant: the `set` that carries the credential is stored as well. *)
McLoginStores(what) ==
    /\ Stranger /\ IsLogin(what)
    /\ ran' = Append(ran, [verb |-> "set", reply |-> Reply("stored")])
    /\ Answer(what, encode(what.style, what.command, Reply("stored")))
    /\ UNCHANGED <<request, session>>

(* split_credential, then verify. *)
McLogin(what) ==
    /\ Stranger /\ IsLogin(what)
    /\ LET block == what.command.value
           identity == IF block \in DOMAIN Credentials
                       THEN Gate!verify(session.auth, Credentials[block].name,
                                        Credentials[block].secret)
                       ELSE None
       IN  IF identity # None
           THEN /\ session' = [session EXCEPT !.conn = Gate!succeed(@, identity)]
                /\ Answer(what, encode(what.style, what.command, Reply("stored")))
           ELSE /\ session' = [session EXCEPT !.conn = Gate!fail(@)]
                /\ Answer(what, encode_error(Client(
                       IF block \in DOMAIN Credentials THEN "authentication failure"
                       ELSE "bad authentication token format")))
    /\ UNCHANGED <<request, ran>>

(* The role a dump needs comes from its style, every other from its command. *)
Kind(command) == IF command.verb = "gat" THEN "get_and_touch" ELSE command.verb
Needed(what) ==
    IF what.style.name \in {"dump", "cachedump"} THEN {"list"}
    ELSE Gate!roles_for_command(Kind(what.command))
Denied(what) == ~Gate!permitted(session.auth.required, session.conn, Needed(what))

McDeny(what) ==
    /\ ~Stranger /\ Denied(what)
    /\ Answer(what, encode_error(Client("unauthorized")))
    /\ UNCHANGED <<request, session, ran>>

Admitted(what) == ~Stranger /\ ~Denied(what)

Ran(verb, reply) == ran' = Append(ran, [verb |-> verb, reply |-> reply])

McDump(what) ==
    /\ Admitted(what) /\ what.style.name \in {"dump", "cachedump"}
    /\ out' = IF what.style.name = "dump" THEN execute_dump(session, what.style)
              ELSE execute_cachedump(session, what.style)
    /\ ran' = IF session.listing /\ what.style.selected
              THEN Append(ran, [verb |-> "list_keys", reply |-> Reply("listing")]) ELSE ran
    /\ UNCHANGED <<request, session>>

(* A section about the server is rendered without a store command. *)
McSection(what) ==
    /\ Admitted(what) /\ what.style.name = "stats" /\ what.style.section # "general"
    /\ out' = IF what.style.section = "empty" THEN Line("END") ELSE Line("STAT") \o Line("END")
    /\ UNCHANGED <<request, session, ran>>

Fused(what) ==
    \/ what.command.verb = "get_many"
    \/ what.command.verb = "get" /\ what.style.name = "meta"
       /\ what.style.style = "get" /\ ~what.noreply

(* The fused reads render as they read, so a failure may follow lines that  *)
(* are already out.                                                         *)
McFusedRead(what) ==
    /\ Admitted(what) /\ Fused(what)
    /\ \E reply \in execute(session, what.command) :
        /\ Ran(what.command.verb, reply)
        /\ CASE reply.kind = "values" -> out' = encode_retrieval(what.command.keys, reply.values)
             [] reply.kind = "value" -> out' = encode_meta_get_hit(what.style, what.command.key)
             [] reply.kind = "not_found" -> out' = Line("EN")
             [] reply.kind = "failed" /\ what.command.verb = "get" ->
                    out' = encode_error(memcached_error(reply.status))
             [] OTHER ->
                    \E read \in 0 .. Len(what.command.keys) :
                        out' = FlattenSeq([i \in 1 .. read |-> encode_value_line(what.command.keys[i])])
                               \o encode_error(memcached_error(reply.status))
    /\ UNCHANGED <<request, session>>

(* Mutant: a failure is answered although nobody asked for an answer. *)
McExecuteLoud(what) ==
    /\ Admitted(what) /\ ~Fused(what) /\ what.style.name \notin {"dump", "cachedump"}
    /\ \E reply \in execute(session, what.command) :
           /\ Ran(what.command.verb, reply)
           /\ IF reply.kind = "failed"
              THEN out' = encode_error(memcached_error(reply.status))
              ELSE Answer(what, encode(what.style, what.command, reply))
    /\ UNCHANGED <<request, session>>

McExecute(what) ==
    /\ Admitted(what) /\ ~Fused(what)
    /\ what.style.name \notin {"dump", "cachedump"}
    /\ what.style.name = "stats" => what.style.section = "general"
    /\ \E reply \in execute(session, what.command) :
           /\ Ran(what.command.verb, reply)
           /\ Answer(what, IF reply.kind = "failed"
                           THEN encode_error(memcached_error(reply.status))
                           ELSE encode(what.style, what.command, reply))
    /\ UNCHANGED <<request, session>>

(* What becomes of a command that parses. *)
McRun(what) ==
    \/ StrangerQuits(what) \/ RefuseStranger(what) \/ McLogin(what) \/ McDeny(what)
    \/ McDump(what) \/ McSection(what) \/ McFusedRead(what) \/ McExecute(what)

McNext ==
    /\ out = None
    /\ \E parsed \in {parse(request)} :
        \/ parsed.kind = "error" /\ McReject(parsed.what.error)
        \/ parsed.kind = "command" /\ McRun(parsed.what)

McSpec == McInit /\ [][McNext]_mcVars

-----------------------------------------------------------------------------
(* The command of a request that parses, none of one that does not. *)
Commands == {parsed.what : parsed \in {p \in {parse(request)} : p.kind = "command"}}

Answered == out # None

(* The lines that end a reply, as a client that sent the command reads it. *)
EndsReply(style) ==
    {"error"} \cup
    (CASE style.name \in {"retrieval", "stats"} -> {"END"}
       [] style.name = "storage" -> {"STORED", "NOT_STORED", "EXISTS", "NOT_FOUND"}
       [] style.name = "deleted" -> {"DELETED", "NOT_FOUND"}
       [] style.name = "touched" -> {"TOUCHED", "NOT_FOUND"}
       [] style.name = "counter" -> {"number", "NOT_FOUND"}
       [] style.name = "ok" -> {"OK"}
       [] style.name = "version" -> {"VERSION"}
       [] style.name = "quit" -> {}
       [] style.name = "dump" -> {terminator(style.dump)[1].line}
       [] style.name = "cachedump" -> {"END"}
       [] style.name = "meta" -> {"MN", "HD", "EN", "NS", "EX", "NF", "ME", "data"})

(* The words of a request, and how many of them come before the place where *)
(* the grammar of docs/protocol.md has its optional `noreply`.              *)
Words ==
    LET ends == {i \in DOMAIN request : request[i] = CR}
    IN  SubSeq(request, 1, (CHOOSE i \in ends : \A j \in ends : i <= j) - 1)
Fixed == [set |-> 5, add |-> 5, cas |-> 6, delete |-> 2, touch |-> 3, incr |-> 3,
          decr |-> 3, flush_all |-> 1, delete_by_tag |-> 2, verbosity |-> 2]

(* What the client asked for, read off its words and not off the parse:     *)
(* `noreply` as an option, or `q` among the flags of a meta command.        *)
AsksForSilence ==
    LET verb == Words[1]
    IN  \/ verb \in DOMAIN Fixed /\ "noreply" \in Range(From(Words, Fixed[verb] + 1))
        \/ verb \in {"mg", "md", "ma", "mdt"} /\ "q" \in Range(From(Words, 3))
        \/ verb = "ms" /\ "q" \in Range(From(Words, 4))

(* A storage command for a key called noreply. *)
KeyLooksQuiet == Words[1] \in {"set", "add", "cas"} /\ Words[2] = "noreply"

(* Every command that wants an answer is sent exactly one, ended by a line  *)
(* its own grammar ends replies with, whatever the store did, the gate      *)
(* refused or the dump ran into; one that asked for silence, and a quit,    *)
(* are sent none.  A client that reads replies in order stays in step.  The *)
(* one command that wants an answer and is sent none stores under a key     *)
(* called noreply, since the scan for the option covers the key.            *)
OneReplyPerCommand ==
    Answered => \A what \in Commands :
        IF AsksForSilence \/ KeyLooksQuiet \/ what.command.verb = "quit" THEN out = << >>
        ELSE /\ out # << >>
             /\ \A i \in DOMAIN out :
                    out[i].line \in EndsReply(what.style) <=> i = Len(out)

(* docs/protocol.md:1033: `noreply` is an option at the end of the line, so *)
(* a command without it is answered.  A key called noreply is not.          *)
SilenceOnlyWhenAsked ==
    (Answered /\ out = << >>) => AsksForSilence \/ Words[1] = "quit"

(* A dump that ends with its terminator listed every key there is: a page   *)
(* that failed or a budget that ran out puts an error where it belongs.     *)
DumpEndMeansComplete ==
    Answered => \A what \in Commands :
        (what.style.name = "dump" /\ what.style.selected
            /\ out[Len(out)] = terminator(what.style.dump)[1]) =>
        SelectSeq(out, LAMBDA l : l.line = "entry")
            = FlattenSeq([i \in DOMAIN session.pages |-> Entries(session.pages[i])])

(* A retrieval names each value by the key it belongs to, in the order of   *)
(* the request, and names no key that was not found.                        *)
ValuesNameTheirKeys ==
    Answered => \A what \in Commands :
        (what.style.name = "retrieval" /\ ran # << >> /\ ran[1].reply.kind = "values") =>
        LET found == SelectSeq(ran[1].reply.values, LAMBDA v : v # None)
            named == SelectSeq(out, LAMBDA l : l.line = "VALUE")
        IN  [i \in DOMAIN named |-> named[i].key] = found

(* Until a connection has authenticated nothing it sends reaches the store, *)
(* the `set` that carries the credential included, and whatever it sends it *)
(* learns no more than that it is a stranger.                               *)
StrangerStep ==
    Stranger => /\ ran' = ran
                /\ (Commands = {} /\ out' # None) =>
                       out' = encode_error(Client("unauthenticated"))
=============================================================================
