------------------------------ MODULE RespServer ------------------------------
(***************************************************************************)
(* The Redis adapter of vash-server/src/resp.rs for one connection: which  *)
(* tier a command is offered to, who may run it, what it asks of the       *)
(* store, and the reply that is written for it.                            *)
(*                                                                         *)
(* A reply is a sequence of wire elements (vash-proto/src/resp/encode.rs): *)
(* one element per line of the protocol, its kind and, for the ones that   *)
(* announce others, how many.                                              *)
(***************************************************************************)
EXTENDS RespCommand

LOCAL INSTANCE SequencesExt

CONSTANTS
    Error,
    Verbs,              \* the words a command may begin with
    Words(_),           \* the words that may follow a command so far
    Sessions(_),        \* connections a command may arrive on, by verb
    Instants,           \* times a command may be run at
    MAX_KEY_LEN

Gate == INSTANCE Auth

VARIABLES
    args,       \* the command framed so far
    session,    \* [auth: the credential table, conn, version, listing]
    reply       \* None while the command is being framed

respVars == <<args, session, reply>>

-----------------------------------------------------------------------------
(* encode.rs.                                                               *)

simple(text) == <<[kind |-> "simple", n |-> 0]>>
ok == simple("OK")
error(failure) == <<[kind |-> "error", n |-> 0, why |-> failure]>>
integer == <<[kind |-> "integer", n |-> 0]>>
bulk == <<[kind |-> "bulk", n |-> 0]>>
array(n) == <<[kind |-> "array", n |-> n]>>
null(version) == IF version = 2 THEN <<[kind |-> "bulk_null", n |-> 0]>>
                 ELSE <<[kind |-> "null", n |-> 0]>>
double(version) == IF version = 2 THEN bulk ELSE <<[kind |-> "double", n |-> 0]>>
verbatim(version) == IF version = 2 THEN bulk ELSE <<[kind |-> "verbatim", n |-> 0]>>

Repeat(element, n) == FlattenSeq([i \in 1 .. n |-> element])

(* hello: seven pairs, a map in RESP3; the last is an empty array. *)
hello(version) ==
    (IF version = 2 THEN array(14) ELSE <<[kind |-> "map", n |-> 7]>>)
        \o Repeat(bulk, 5) \o integer \o bulk \o integer \o Repeat(bulk, 5) \o array(0)

-----------------------------------------------------------------------------
(* Which tier a command belongs to, from its words alone.                   *)

(* Mutant: SETTAGS is taken for a plain SET. *)
classify_tagged(words) ==
    LET verb == upper_verb(words[1])
    IN  CASE verb \in {"GET", "MGET", "EXISTS", "TYPE", "TTL", "PING", "HELLO",
                       "AUTH", "QUIT", "INFO"} -> "reads"
          [] verb \in {"SET", "SETTAGS"} /\ Len(words) >= 3 -> "writes"
          [] OTHER -> "other"

plainly_batchable(words) ==
    /\ Len(words) >= 3
    /\ \A i \in 4 .. Len(words) : Upper[words[i]] \notin {"NX", "XX", "GET"}

classify(words) ==
    LET verb == upper_verb(words[1])
    IN  CASE verb \in {"GET", "MGET", "EXISTS", "TYPE", "TTL", "PING", "HELLO",
                       "AUTH", "QUIT", "INFO"} -> "reads"
          [] verb = "SET" /\ plainly_batchable(words) -> "writes"
          [] OTHER -> "other"

(* The same two questions of the parsed command. *)
inline_safe(command) ==
    command.verb \in {"get", "mget", "exists", "type", "ttl", "ping", "hello",
                      "auth", "quit", "info"}

batchable_write(command) ==
    /\ command.verb = "set"
    /\ command.condition = "always" /\ ~command.return_previous /\ command.tags = <<>>

-----------------------------------------------------------------------------
(* Who may run it.                                                          *)

(* Mutant: GET among the options of a SET is overlooked. *)
RoleNamePlain(command) ==
    CASE command.verb = "slowlog" ->
            (CASE command.sub = "get" -> "SLOWLOG GET" [] command.sub = "reset" -> "SLOWLOG RESET"
               [] command.sub = "len" -> "SLOWLOG LEN" [] command.sub = "help" -> "SLOWLOG HELP")
      [] OTHER -> [get |-> "GET", mget |-> "MGET", exists |-> "EXISTS", type |-> "TYPE",
                   ttl |-> "TTL", ping |-> "PING", hello |-> "HELLO", auth |-> "AUTH",
                   quit |-> "QUIT", info |-> "INFO", mset |-> "MSET", msetex |-> "MSETEX",
                   del |-> "DEL", append |-> "APPEND", expire |-> "EXPIRE", set |-> "SET",
                   persist |-> "PERSIST", incr |-> "INCR", increx |-> "INCREX",
                   delbytag |-> "DELBYTAG", scan |-> "SCAN"][command.verb]

(* roles_for: the command's name in the role table. *)
RoleName(command) ==
    CASE command.verb = "set" -> (IF command.return_previous THEN "SET GET" ELSE "SET")
      [] command.verb = "slowlog" ->
            (CASE command.sub = "get" -> "SLOWLOG GET" [] command.sub = "reset" -> "SLOWLOG RESET"
               [] command.sub = "len" -> "SLOWLOG LEN" [] command.sub = "help" -> "SLOWLOG HELP")
      [] OTHER -> [get |-> "GET", mget |-> "MGET", exists |-> "EXISTS", type |-> "TYPE",
                   ttl |-> "TTL", ping |-> "PING", hello |-> "HELLO", auth |-> "AUTH",
                   quit |-> "QUIT", info |-> "INFO", mset |-> "MSET", msetex |-> "MSETEX",
                   del |-> "DEL", append |-> "APPEND", expire |-> "EXPIRE",
                   persist |-> "PERSIST", incr |-> "INCR", increx |-> "INCREX",
                   delbytag |-> "DELBYTAG", scan |-> "SCAN"][command.verb]

roles_for(command) == Gate!resp_roles_for(RoleName(command))

(* refusal: what a stranger may still send. *)
refusal(s, command) ==
    /\ s.auth.required /\ ~Gate!is_authenticated(s.conn)
    /\ command.verb \notin {"auth", "quit"}
    /\ ~(command.verb = "hello" /\ command.auth)

(* denial: the roles an identity lacks. *)
denial(s, command) ==
    Gate!is_authenticated(s.conn)
    /\ Gate!refusal(s.auth.required, s.conn, roles_for(command)) # None

(* authenticate: the connection afterwards, and whether it was let in. *)
authenticate(s, command) ==
    LET name == IF command.name = None THEN "default" ELSE command.name
        identity == Gate!verify(s.auth, name, command.secret)
    IN  IF DOMAIN s.auth.table = {} THEN [conn |-> s.conn, in |-> FALSE]
        ELSE IF identity = None THEN [conn |-> Gate!fail(s.conn), in |-> FALSE]
        ELSE [conn |-> Gate!succeed(s.conn, identity), in |-> TRUE]

-----------------------------------------------------------------------------
(* What it asks of the store.                                               *)

key_of(word) == Length[word] \in 1 .. MAX_KEY_LEN
KeysIn(command) ==
    CASE command.verb \in {"mget", "exists", "del"} -> command.keys
      [] command.verb \in {"mset", "msetex"} ->
            [i \in DOMAIN command.pairs |-> command.pairs[i][1]]
      [] command.verb \in {"get", "type", "ttl", "set", "append", "expire", "persist",
                           "incr", "increx"} -> <<command.key>>
      [] OTHER -> <<>>

(* translate_increx's lifetime. *)
increx_ttl(command, now) ==
    LET ttl == ttl_change_for(command.expiry, now)
    IN  CASE command.expiry.form = "unset" -> KeepTtl
          [] command.expiry.form = "persist" -> SetTtl(0)
          [] OTHER -> IF ttl = Invalid THEN Invalid
                      ELSE IF command.only_if_persistent THEN SetIfPersistent(ttl.secs)
                      ELSE ttl

(* The lifetime a command carries; Invalid is "invalid expire time". *)
LifetimeOf(command, now) ==
    CASE command.verb \in {"set", "msetex"} -> ttl_change_for(command.expiry, now)
      [] command.verb = "expire" -> expire_ttl(command.expiry, now)
      [] command.verb = "persist" -> SetTtl(0)
      [] command.verb = "increx" -> increx_ttl(command, now)
      [] OTHER -> KeepTtl

(* translate: the kind of domain command (DelByTag and Scan reach the same  *)
(* boundary by run_del_by_tag and run_scan), or "client_error".  The key    *)
(* and the lifetime are checked in the order of the struct's fields; either *)
(* is the same refusal here.                                                *)
translate(command, now) ==
    IF \/ \E i \in DOMAIN KeysIn(command) : ~key_of(KeysIn(command)[i])
       \/ LifetimeOf(command, now) = Invalid
    THEN "client_error"
    ELSE CASE command.verb = "ping" -> "ping"
           [] command.verb = "get" -> "get"
           [] command.verb = "mget" -> "get_many"
           [] command.verb = "exists" -> "deadlines"
           [] command.verb \in {"type", "ttl"} -> "deadline"
           [] command.verb = "del" -> "delete_many"
           [] command.verb = "set" ->
                (IF command.return_previous THEN "set_return_previous" ELSE "set")
           [] command.verb \in {"mset", "msetex"} -> "set_many"
           [] command.verb = "append" -> "append"
           [] command.verb \in {"expire", "persist"} -> "expire"
           [] command.verb \in {"incr", "increx"} -> "arithmetic"
           [] command.verb = "info" -> "stats"
           [] command.verb = "delbytag" -> "delete_by_tag"
           [] command.verb = "scan" -> "list_keys"
           [] OTHER -> "internal"

(* execute_inner: the replies the boundary can give to each kind, a failure *)
(* of the store among them.                                                 *)
Replies(s, kind, command) ==
    CASE kind = "ping" -> {"pong"}
      [] kind = "get" -> {"value", "not_found", "failed"}
      [] kind = "get_many" -> {"values", "failed"}
      [] kind = "deadlines" -> {"deadlines", "failed"}
      [] kind = "deadline" -> {"deadline_none", "deadline_never", "deadline_some", "failed"}
      [] kind = "delete_many" -> {"deleted_many", "failed"}
      [] kind = "set" -> {"stored", "not_stored", "failed"}
      [] kind = "set_return_previous" -> {"swapped_some", "swapped_none", "failed"}
      [] kind = "set_many" ->
            (IF command.verb = "mset" THEN {"stored_many", "failed"}
             ELSE IF command.condition = "always" THEN {"stored_many", "failed"}
             ELSE {"stored_many", "not_stored", "failed"})
      [] kind = "append" -> {"length", "failed"}
      [] kind = "expire" -> {"applied", "failed"}
      [] kind = "arithmetic" ->
            {IF command.delta.kind = "int" THEN "number_int" ELSE "number_float", "failed"}
      [] kind = "stats" -> {"stats"}
      [] kind = "delete_by_tag" -> {"invalidated", "failed"}
      [] kind = "list_keys" -> (IF s.listing THEN {"listing", "failed"} ELSE {"failed"})

-----------------------------------------------------------------------------
(* What is written.                                                         *)

(* Mutant: the move is answered without what was applied. *)
answer_increx_short(answer, version) ==
    IF answer = "number_int" THEN array(2) \o integer
    ELSE array(2) \o double(version) \o double(version)

(* Mutant: only the integer arm is there. *)
answer_increx_int(answer, version) ==
    IF answer = "number_int" THEN array(2) \o integer \o integer
    ELSE error("internal")

(* answer_increx: the value and what was applied to it, in the mode of the  *)
(* increment.                                                               *)
answer_increx(answer, version) ==
    IF answer = "number_int" THEN array(2) \o integer \o integer
    ELSE array(2) \o double(version) \o double(version)

(* render: the arm for a command and its reply; "internal" is the arm that  *)
(* no command should reach.                                                 *)
render(command, answer, version) ==
    CASE command.verb = "ping" -> (IF command.message THEN bulk ELSE simple("PONG"))
      [] command.verb = "info" /\ answer = "stats" -> verbatim(version)
      [] command.verb = "exists" /\ answer = "deadlines" -> integer
      [] command.verb = "type" /\ answer \in {"deadline_none", "deadline_never", "deadline_some"} ->
            simple("string")
      [] command.verb = "ttl" /\ answer \in {"deadline_none", "deadline_never", "deadline_some"} ->
            integer
      [] command.verb = "del" /\ answer = "deleted_many" -> integer
      [] command.verb = "set" /\ answer = "swapped_some" -> bulk
      [] command.verb = "set" /\ answer \in {"swapped_none", "not_stored"} -> null(version)
      [] command.verb = "set" /\ answer = "stored" -> ok
      [] command.verb = "mset" /\ answer = "stored_many" -> ok
      [] command.verb = "msetex" /\ answer \in {"stored_many", "not_stored"} -> integer
      [] command.verb = "append" /\ answer = "length" -> integer
      [] command.verb \in {"expire", "persist"} /\ answer = "applied" -> integer
      [] command.verb = "incr" /\ answer = "number_int" -> integer
      [] command.verb = "incr" /\ answer = "number_float" -> bulk
      [] command.verb = "increx" /\ answer \in {"number_int", "number_float"} ->
            answer_increx(answer, version)
      [] OTHER -> error("internal")

(* answer_scan: a page of up to two keys stands for every page. *)
answer_scan(keys) == array(2) \o bulk \o array(keys) \o Repeat(bulk, keys)

(* MGET: which of the keys are there, and the elements they become. *)
Hits(n) == [1 .. n -> BOOLEAN]
Values(hits, version) ==
    FlattenSeq([i \in DOMAIN hits |-> IF hits[i] THEN bulk ELSE null(version)])

(* run_slowlog, with up to two entries in the log. *)
slowlog_entry == array(6) \o Repeat(integer, 3) \o array(2) \o Repeat(bulk, 4)
run_slowlog(command) ==
    CASE command.sub = "len" -> {integer}
      [] command.sub = "reset" -> {ok}
      [] command.sub = "help" -> {array(12) \o Repeat(simple(""), 12)}
      [] command.sub = "get" ->
            LET asked == IF command.count = None \/ command.count = -1 THEN 2
                         ELSE command.count
            IN  {array(n) \o Repeat(slowlog_entry, n) : n \in {m \in 0 .. 2 : m <= asked}}

(* run_scan: another type than string has no keys, and a cursor no longer   *)
(* held is refused before the page is asked for.                            *)
run_scan(s, command) ==
    IF ~command.only_strings THEN {answer_scan(0)}
    ELSE {error("store")}
            \cup (IF s.listing THEN {answer_scan(n) : n \in 0 .. 2} ELSE {})
            \cup (IF command.token = 0 THEN {} ELSE {error("cursor")})

(* run_del_by_tag: the count, or the error of the first tag that fails. *)
run_del_by_tag == {integer, error("store")}

(* run, for a storage command: every reply it may write. *)
run_storage(s, command, now) ==
    LET kind == translate(command, now)
        failed == error("store")
    IN  CASE kind \in {"client_error", "internal"} -> {error(kind)}
          [] kind = "get" -> {bulk, null(s.version), failed}
          [] kind = "get_many" ->
                \* the header goes out before the first value is read
                {array(Len(command.keys)) \o Values(hits, s.version) :
                    hits \in Hits(Len(command.keys))}
                \cup {array(Len(command.keys)) \o Values(SubSeq(hits, 1, read), s.version) \o failed :
                    hits \in Hits(Len(command.keys)), read \in 0 .. Len(command.keys)}
          [] kind = "delete_by_tag" -> run_del_by_tag
          [] kind = "list_keys" -> run_scan(s, command)
          [] OTHER -> {IF answer = "failed" THEN failed ELSE render(command, answer, s.version) :
                            answer \in Replies(s, kind, command)}

-----------------------------------------------------------------------------
(* The connection.                                                          *)

RespInit ==
    /\ args \in {<<verb>> : verb \in Verbs}
    /\ session \in Sessions(args[1])
    /\ reply = None

Frame ==
    /\ reply = None
    /\ \E word \in Words(args) : args' = Append(args, word)
    /\ UNCHANGED <<session, reply>>

Parsed == parse_command(args)
Accepted == {command \in {Parsed} : ~IsError(command)}

Written(out) == reply' = [out |-> out, ends |-> "nothing"] /\ UNCHANGED args

(* execute_block: a recoverable error is written where the command stood. *)
RejectRecoverable(command) ==
    /\ IsError(command) /\ command.error # "panic"
    /\ Written(error(command.error)) /\ UNCHANGED session

(* tag_list's index past the end.  A release build aborts on a panic        *)
(* (Cargo.toml, panic = "abort"), which ends the server; where panics       *)
(* unwind, the block's task fails and the connection closes.  Either way    *)
(* nothing of the block is written.                                         *)
RespPanics(command) ==
    /\ IsError(command) /\ command.error = "panic"
    /\ \E what \in {"connection", "server"} : reply' = [out |-> <<>>, ends |-> what]
    /\ UNCHANGED <<args, session>>

RespQuit(command) ==
    /\ ~IsError(command) /\ command.verb = "quit"
    /\ reply' = [out |-> ok, ends |-> "connection"] /\ UNCHANGED <<args, session>>

Gated(command) ==
    /\ ~IsError(command) /\ command.verb # "quit"
    /\ refusal(session, command) \/ denial(session, command)
    /\ Written(error("gate")) /\ UNCHANGED session

Open(command) == ~IsError(command) /\ ~refusal(session, command) /\ ~denial(session, command)

RespAuth(command) ==
    /\ Open(command) /\ command.verb = "auth"
    /\ LET after == authenticate(session, command)
       IN  /\ session' = [session EXCEPT !.conn = after.conn]
           /\ Written(IF after.in THEN ok ELSE error("auth"))

(* Mutant: the version is applied before the credential is looked at. *)
RespHelloEager(command) ==
    /\ Open(command) /\ command.verb = "hello"
    /\ LET version == IF command.version = None THEN session.version ELSE command.version
           after == IF command.auth THEN authenticate(session, command)
                    ELSE [conn |-> session.conn, in |-> TRUE]
       IN  \/ /\ version \notin {2, 3}
              /\ Written(error("noproto")) /\ UNCHANGED session
           \/ /\ version \in {2, 3}
              /\ session' = [session EXCEPT !.conn = after.conn, !.version = version]
              /\ Written(IF after.in THEN hello(version) ELSE error("auth"))

(* HELLO in three steps: the version is judged, then the credential, then   *)
(* the version is applied.                                                  *)
RespHello(command) ==
    /\ Open(command) /\ command.verb = "hello"
    /\ LET version == IF command.version = None THEN session.version ELSE command.version
           after == IF command.auth THEN authenticate(session, command)
                    ELSE [conn |-> session.conn, in |-> TRUE]
       IN  \/ /\ version \notin {2, 3}
              /\ Written(error("noproto")) /\ UNCHANGED session
           \/ /\ version \in {2, 3} /\ ~after.in
              /\ session' = [session EXCEPT !.conn = after.conn]
              /\ Written(error("auth"))
           \/ /\ version \in {2, 3} /\ after.in
              /\ session' = [session EXCEPT !.conn = after.conn, !.version = version]
              /\ Written(hello(version))

RespSlowlog(command) ==
    /\ Open(command) /\ command.verb = "slowlog"
    /\ \E out \in run_slowlog(command) : Written(out)
    /\ UNCHANGED session

RespStorage(command) ==
    /\ Open(command) /\ command.verb \notin {"quit", "auth", "hello", "slowlog"}
    /\ \E now \in Instants : \E out \in run_storage(session, command, now) : Written(out)
    /\ UNCHANGED session

(* What becomes of a framed command. *)
Handle(command) ==
    \/ RejectRecoverable(command) \/ RespPanics(command) \/ RespQuit(command) \/ Gated(command)
    \/ RespAuth(command) \/ RespHello(command) \/ RespSlowlog(command) \/ RespStorage(command)

RespNext == Frame \/ (reply = None /\ \E command \in {Parsed} : Handle(command))

RespSpec == RespInit /\ [][RespNext]_respVars

-----------------------------------------------------------------------------
(* The tier a command is offered to is decided before it is parsed, from    *)
(* its words; what the executor then parses is what that tier may run: a    *)
(* command measured as a read never writes, one measured as a write is a    *)
(* SET the awaited path can hold, and none of either is missed (a SETTAGS   *)
(* without tags alone is offered to the slower tier).                       *)
ClassifierAgrees(command) ==
    \A class \in {classify(args)} :
        /\ class = "reads" <=> inline_safe(command)
        /\ class = "writes" => batchable_write(command)
        /\ (batchable_write(command) /\ ~command.tagged) => class = "writes"

(* The Redis role table and the domain one, kept apart because SCAN and     *)
(* DELBYTAG never reach translation, ask the same of every command that     *)
(* reaches the boundary, options included.                                  *)
RolesAgree(command) ==
    \A now \in Instants :
        \A kind \in {translate(command, now)} \ {"client_error", "internal"} :
            roles_for(command) = Gate!roles_for_command(kind)

(* A reply element by element: how many values are still to come. *)
Owed(out) ==
    LET step(owed, element) ==
            IF owed = 0 THEN -1     \* something after the value is complete
            ELSE IF owed = -1 THEN -1
            ELSE owed - 1 + (IF element.kind = "map" THEN 2 ELSE 1) * element.n
    IN  FoldLeft(step, 1, out)

(* MGET with a store that fails part-way: the header and the values read    *)
(* before it are out, and the error stands where the next value would.      *)
CutShort(command) ==
    /\ ~IsError(command) /\ command.verb = "mget"
    /\ Len(reply.out) > 1 /\ Last(reply.out).kind = "error"
    /\ Head(reply.out) = array(Len(command.keys))[1] /\ Owed(Front(reply.out)) >= 0

(* An MSETTAGS that ends with its last pair, where the count of its tags    *)
(* should be.  One pair is too few words to get that far.                   *)
CountMissing ==
    /\ upper_verb(args[1]) = "MSETTAGS" /\ Len(args) > 1
    /\ args[2] \in DOMAIN Ints
    /\ Ints[args[2]] \in 2 .. MAX_BATCH_ITEMS /\ Len(args) = 2 + 2 * Ints[args[2]]

(* A command is answered with one complete value of the dialect the         *)
(* connection speaks: what an array or a map announces is what follows, and *)
(* nothing follows the value, so that a client that counts replies stays in *)
(* step.  Two cases are not answered so, and the property says how: an MGET *)
(* the store fails in the middle of, which leaves the client waiting or     *)
(* with one value too many, and an MSETTAGS without its count, which is not *)
(* answered at all and takes the connection or the server with it.          *)
OneValuePerCommand ==
    reply # None => \A command \in {Parsed} :
        IF CountMissing THEN reply.out = <<>> /\ reply.ends # "nothing"
        ELSE Owed(reply.out) = 0 \/ CutShort(command)

(* docs/protocol.md:1686: one bad command produces one error line in the    *)
(* position it occupied.  Neither of the two cases above does.              *)
EveryCommandGetsItsValue == reply # None => Owed(reply.out) = 0

(* No command of the grammar is translated into a reply that render cannot  *)
(* write: the arm for a logic slip is never taken, and RESP3's own types    *)
(* never reach a RESP2 client.                                              *)
EveryReplyRenders ==
    reply # None =>
        \A i \in DOMAIN reply.out :
            LET element == reply.out[i]
            IN  /\ element.kind = "error" => element.why # "internal"
                /\ session.version = 2 =>
                        element.kind \notin {"null", "double", "verbatim", "map"}

(* A HELLO or an AUTH that is answered with an error leaves the identity    *)
(* and the version as they were: HELLO judges the version before it looks   *)
(* at the credential and applies it after.                                  *)
HelloKeeps ==
    (reply' # None /\ reply'.out # <<>> /\ reply'.out[1].kind = "error") =>
        /\ session'.version = session.version
        /\ session'.conn.identity = session.conn.identity

(* Two neighbouring options, each with its argument, starting at word i. *)
OptionAt(i, name) ==
    /\ i <= Len(args) /\ Upper[args[i]] \in OptionsOf(name)
    /\ Upper[args[i]] \in WithArgument => i < Len(args)
OptionLen(i) == IF Upper[args[i]] \in WithArgument THEN 2 ELSE 1
Swapped(i) ==
    LET j == i + OptionLen(i)
        k == j + OptionLen(j)
    IN  SubSeq(args, 1, i - 1) \o SubSeq(args, j, k - 1) \o SubSeq(args, i, j - 1)
            \o SubSeq(args, k, Len(args))
OptionName == [SET |-> "set", INCREX |-> "increx", SCAN |-> "scan", MSETEX |-> "msetex"]
FirstOption(verb) ==
    CASE verb = "SET" -> 4 [] verb = "MSETEX" -> 3 + 2 * Ints[args[2]] [] OTHER -> 3

(* Options may come in any order: an accepted command means the same with   *)
(* two different neighbouring options exchanged, a BYFLOAT after the bound  *)
(* it changes the reading of included.                                      *)
OptionsCommute(command) ==
    \A verb \in {upper_verb(args[1])} \cap DOMAIN OptionName :
        \A i \in FirstOption(verb) .. Len(args) :
            (/\ OptionAt(i, OptionName[verb])
             /\ OptionAt(i + OptionLen(i), OptionName[verb])
             /\ Upper[args[i]] # Upper[args[i + OptionLen(i)]])
                => \A exchanged \in {Swapped(i)} : parse_command(exchanged) = command

(* The three, of a command that is accepted. *)
CommandsAgree ==
    reply = None => \A command \in Accepted :
        ClassifierAgrees(command) /\ RolesAgree(command) /\ OptionsCommute(command)
=============================================================================
