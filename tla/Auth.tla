-------------------------------- MODULE Auth --------------------------------
(***************************************************************************)
(* Who may do what: the role sets, the credential table and the gate that  *)
(* vash-server/src/auth.rs gives to all three dialects, as operators.  The *)
(* modules with state (Credentials, Pipeline, Connections) are built on    *)
(* them.                                                                   *)
(*                                                                         *)
(* A role set is the set of its bits.  A credential row is already split   *)
(* into fields; what the parser decides is which rows it takes.            *)
(***************************************************************************)
EXTENDS Integers, FiniteSets, Sequences, SequencesExt

CONSTANTS
    None,       \* an Option that is absent
    Error       \* the outcome of a parse, a load or a start that is refused

(* Roles::NAMED, the six bits that have a name. *)
Roles == {"read", "write", "invalidate", "list", "flush", "peer"}

(* Roles::UNRESTRICTED is every bit, those with no name yet included. *)
UNRESTRICTED == Roles \cup {"reserved"}

(* An absent Option is told apart from every refusal. *)
ASSUME NoneAssumption ==
    None # "unauthenticated" /\ \A roles \in SUBSET UNRESTRICTED : roles # None

READ_WRITE == {"read", "write"}

(* Roles::allows and Roles::missing. *)
allows(roles, needed) == needed \subseteq roles
missing(roles, needed) == needed \ roles

(* Roles::parse_list: an empty list, an unknown name and a repeated name    *)
(* are all refused.                                                         *)
parse_list(list) ==
    IF list = <<>> \/ ~IsInjective(list) \/ ~(ToSet(list) \subseteq Roles)
    THEN Error
    ELSE ToSet(list)

(* Roles::parse_default: absent is everything, empty is nothing. *)
parse_default(configured) ==
    IF configured = None THEN UNRESTRICTED
    ELSE IF configured = <<>> THEN {}
    ELSE parse_list(configured)

(* The digest a secret is stored as: one-way, and equal only for equal      *)
(* secrets.                                                                 *)
sha256(secret) == <<"sha256", secret>>

-----------------------------------------------------------------------------
(* The credential file.                                                     *)

(* parse_credential: a field is an algorithm and a value; the value of a    *)
(* digest is a digest or Error, the value of `mtls` a subject or "".        *)
parse_credential(field) ==
    LET row(value, subject) ==
            [value |-> value, subject |-> subject, mechanism |-> "plain",
             roles |-> UNRESTRICTED, inherited |-> TRUE]
    IN  CASE field.algorithm = "sha256" /\ field.value # Error ->
                row(field.value, None)
          [] field.algorithm = "mtls" /\ field.value # "" ->
                row(None, field.value)
          [] OTHER -> Error   \* `$...`, no algorithm, hmac-sha256-key, unknown

(* parse_line: the credential a line gives its name, or the refusal of the  *)
(* line: an unknown trailing field (None), `roles=` twice, a list that parse_list  *)
(* refuses, a name outside [A-Za-z0-9_.-], a bad credential.                *)
parse_line(line) ==
    LET credential == parse_credential(line.field)
        roles == IF line.extra = <<>> THEN None ELSE parse_list(line.extra[1])
    IN  IF \/ Len(line.extra) > 1 \/ None \in ToSet(line.extra)
           \/ roles = Error \/ ~line.valid_name \/ credential = Error
        THEN Error
        ELSE IF roles = None THEN credential
        ELSE [credential EXCEPT !.roles = roles, !.inherited = FALSE]

(* parse: every line that is neither blank nor a comment, or nothing: one   *)
(* bad line and one repeated name refuse the whole file.                    *)
parse(lines) ==
    LET rows == SelectSeq(lines, LAMBDA line : line.kind = "row")
        names == {rows[i].name : i \in DOMAIN rows}
        of(name) == CHOOSE i \in DOMAIN rows : rows[i].name = name
    IN  IF \/ \E i \in DOMAIN rows : parse_line(rows[i]) = Error
           \/ Cardinality(names) # Len(rows)
        THEN Error
        ELSE [name \in names |-> parse_line(rows[of(name)])]

(* resolve_defaults: the rows that name no roles take the default. *)
resolve_defaults(table, default) ==
    [name \in DOMAIN table |->
        IF table[name].inherited THEN [table[name] EXCEPT !.roles = default]
        ELSE table[name]]

(* Auth::load.  The source is a file (a readable mode-600 text, or Error),  *)
(* the environment secret, both (refused) or neither.                       *)
load(config, source) ==
    LET default == parse_default(config.default_roles)
        fromEnv == [value |-> sha256(source.env), subject |-> None,
                    mechanism |-> "plain", roles |-> UNRESTRICTED,
                    inherited |-> TRUE]
        table == CASE source.file # None /\ source.env # None -> Error
                   [] source.file # None /\ source.env = None ->
                        IF source.private THEN parse(source.file) ELSE Error
                   [] source.file = None /\ source.env # None ->
                        IF source.env = "short" THEN Error
                        ELSE [name \in {"default"} |-> fromEnv]
                   [] OTHER -> <<>>
    IN  IF default = Error \/ table = Error \/ (config.required /\ table = <<>>)
        THEN Error
        ELSE [required |-> config.required,
              table |-> resolve_defaults(table, default)]

-----------------------------------------------------------------------------
(* Identities.  One holds the roles its row had when it was verified.       *)

(* Auth::verify: a certificate row never accepts a secret. *)
verify(auth, name, secret) ==
    IF /\ name \in DOMAIN auth.table
       /\ auth.table[name].subject = None
       /\ auth.table[name].mechanism = "plain"
       /\ auth.table[name].value = sha256(secret)
    THEN [name |-> name, roles |-> auth.table[name].roles]
    ELSE None

(* Auth::identity_for_certificate over the subjects a certificate carries:  *)
(* no row, one row, or several, which is an error and not a choice.         *)
identity_for_certificate(auth, subjects) ==
    LET matching == {name \in DOMAIN auth.table :
                        auth.table[name].subject \in subjects \ {None}}
    IN  CASE matching = {} -> None
          [] Cardinality(matching) = 1 ->
                LET name == CHOOSE n \in matching : TRUE
                IN  [name |-> name, roles |-> auth.table[name].roles]
          [] OTHER -> Error

(* ConnAuth: a connection's identity and how often it failed to get one. *)
Unauthenticated == [identity |-> None, failures |-> 0]
is_authenticated(conn) == conn.identity # None
succeed(conn, identity) == [conn EXCEPT !.identity = identity]
fail(conn) == [conn EXCEPT !.failures = @ + 1]

(* AuthState::refusal, the gate of every dialect: the roles missing, the    *)
(* refusal of a stranger, or None.                                          *)
refusal(required, conn, needed) ==
    IF ~is_authenticated(conn)
    THEN IF required THEN "unauthenticated" ELSE None
    ELSE IF allows(conn.identity.roles, needed) THEN None
    ELSE missing(conn.identity.roles, needed)

permitted(required, conn, needed) == refusal(required, conn, needed) = None

-----------------------------------------------------------------------------
(* What each command needs, once per grammar.                               *)

(* roles_for_command, by kind of command. *)
roles_for_command(kind) ==
    CASE kind \in {"hello", "ping", "stats", "version", "quit", "cluster"} -> {}
      [] kind \in {"get", "get_many", "deadline", "deadlines"} -> {"read"}
      [] kind \in {"set", "set_many", "delete", "delete_many", "touch",
                   "expire", "append"} -> {"write"}
      [] kind \in {"set_return_previous", "get_and_touch", "arithmetic"} ->
                   READ_WRITE
      [] kind = "delete_by_tag" -> {"invalidate"}
      [] kind = "flush" -> {"flush"}
      [] kind = "tag_sync" -> {"peer"}
      [] kind \in {"list_keys", "list_tags"} -> {"list"}

(* roles_for_opcode, by VCP opcode. *)
roles_for_opcode(opcode) ==
    CASE opcode \in {"Hello", "Ping", "Auth", "Stats", "Cluster"} -> {}
      [] opcode \in {"Get", "GetMany"} -> {"read"}
      [] opcode \in {"Set", "SetMany", "Delete", "DeleteMany", "Touch"} ->
                     {"write"}
      [] opcode = "Arithmetic" -> READ_WRITE
      [] opcode = "DeleteByTag" -> {"invalidate"}
      [] opcode = "Flush" -> {"flush"}
      [] opcode = "TagSync" -> {"peer"}
      [] opcode \in {"ListKeys", "ListTags"} -> {"list"}

(* resp::roles_for, by Redis command. *)
resp_roles_for(command) ==
    CASE command \in {"HELLO", "PING", "QUIT", "AUTH", "INFO",
                      "SLOWLOG LEN", "SLOWLOG HELP"} -> {}
      [] command \in {"GET", "MGET", "EXISTS", "TYPE", "TTL"} -> {"read"}
      [] command \in {"SET", "MSET", "MSETEX", "DEL", "APPEND", "EXPIRE",
                      "PERSIST"} -> {"write"}
      [] command \in {"SET GET", "INCR", "INCREX"} -> READ_WRITE
      [] command = "DELBYTAG" -> {"invalidate"}
      [] command \in {"SCAN", "SLOWLOG GET", "SLOWLOG RESET"} -> {"list"}
=============================================================================
