---------------------------- MODULE Credentials ----------------------------
(***************************************************************************)
(* The credential table while the server runs: the operator edits the file *)
(* and sends SIGHUP (lib.rs spawn_reload, auth.rs AuthState::replace),     *)
(* connections present secrets and certificates, and every command passes  *)
(* the gate of its dialect (auth.rs, resp.rs denial, vcp.rs header_refusal,*)
(* memcached.rs execute_memcached) before it has an effect.                *)
(***************************************************************************)
EXTENDS Auth

CONSTANTS
    Peers,          \* connections
    Sources,        \* what the operator may put in the file and the environment
    Configs,        \* auth.required and auth.default_roles
    Presented,      \* the <<name, secret>> pairs a peer may send
    Certificates,   \* the sets of subjects a client certificate may carry
    Commands,       \* the <<dialect, name>> of the commands that are sent
    MaxEdits,       \* bound: edits of the file
    MaxTries        \* bound: attempts to authenticate of a connection

VARIABLES
    config,
    source,         \* the file and environment as they are on disk
    auth,           \* AuthState: the table in use and `required`
    peer,           \* ConnAuth of each connection, and how it was obtained
    tries,          \* attempts each connection made
    loaded,         \* history: every table that was ever in use
    effect,         \* history: the last command executed, and as whom
    edits

credVars == <<config, source, auth, peer, tries, loaded, effect, edits>>

-----------------------------------------------------------------------------
(* What a name comes to in each grammar, at the boundary all three share.   *)

CommandKinds ==
    {"hello", "ping", "stats", "version", "quit", "cluster", "get", "get_many",
     "deadline", "deadlines", "set", "set_many", "delete", "delete_many", "touch",
     "expire", "append", "set_return_previous", "get_and_touch", "arithmetic",
     "delete_by_tag", "flush", "tag_sync", "list_keys", "list_tags"}

(* decode, by VCP opcode: `Auth` is handled before, `Stats` refused. *)
decode ==
    [Hello |-> "hello", Ping |-> "ping", Get |-> "get", GetMany |-> "get_many",
     Set |-> "set", SetMany |-> "set_many", Delete |-> "delete",
     DeleteMany |-> "delete_many", Touch |-> "touch", Arithmetic |-> "arithmetic",
     DeleteByTag |-> "delete_by_tag", Flush |-> "flush", TagSync |-> "tag_sync",
     Cluster |-> "cluster", ListKeys |-> "list_keys", ListTags |-> "list_tags"]

(* translate, run_scan and run_del_by_tag, by Redis command. *)
translate(name) ==
    CASE name = "PING" -> "ping"
      [] name = "INFO" -> "stats"
      [] name = "GET" -> "get"
      [] name = "MGET" -> "get_many"
      [] name = "EXISTS" -> "deadlines"
      [] name \in {"TYPE", "TTL"} -> "deadline"
      [] name = "DEL" -> "delete_many"
      [] name = "SET" -> "set"
      [] name = "SET GET" -> "set_return_previous"
      [] name \in {"MSET", "MSETEX"} -> "set_many"
      [] name = "APPEND" -> "append"
      [] name \in {"EXPIRE", "PERSIST"} -> "expire"
      [] name \in {"INCR", "INCREX"} -> "arithmetic"
      [] name = "SCAN" -> "list_keys"
      [] name = "DELBYTAG" -> "delete_by_tag"

RespNames ==
    {"PING", "INFO", "GET", "MGET", "EXISTS", "TYPE", "TTL", "DEL", "SET", "SET GET",
     "MSET", "MSETEX", "APPEND", "EXPIRE", "PERSIST", "INCR", "INCREX", "SCAN", "DELBYTAG"}

(* memcached's commands are parsed into the shared kinds directly. *)
ASSUME CommandsAssumption ==
    Commands \subseteq ({"vcp"} \X DOMAIN decode) \cup ({"resp"} \X RespNames)
                       \cup ({"memcached"} \X CommandKinds)

KindOf(command) ==
    CASE command[1] = "vcp" -> decode[command[2]]
      [] command[1] = "resp" -> translate(command[2])
      [] command[1] = "memcached" -> command[2]

-----------------------------------------------------------------------------
(* The operator.                                                            *)

Edit(new) ==
    /\ edits < MaxEdits
    /\ source' = new
    /\ edits' = edits + 1
    /\ UNCHANGED <<config, auth, peer, tries, loaded, effect>>

(* A slip: a reload that fails leaves an empty table in its place. *)
HangupClears ==
    /\ auth' = IF load(config, source) = Error
               THEN [required |-> config.required, table |-> <<>>]
               ELSE load(config, source)
    /\ loaded' = loaded \cup {auth'.table}
    /\ UNCHANGED <<config, source, peer, tries, effect, edits>>

(* SIGHUP: the whole table is replaced, or the one in use stays. *)
Hangup ==
    /\ load(config, source) # Error
    /\ auth' = load(config, source)
    /\ loaded' = loaded \cup {auth'.table}
    /\ UNCHANGED <<config, source, peer, tries, effect, edits>>

-----------------------------------------------------------------------------
(* The connections.                                                         *)

(* A slip: what an earlier credential granted is kept. *)
OutcomeAccumulates(p, identity, how) ==
    /\ tries[p] < MaxTries
    /\ tries' = [tries EXCEPT ![p] = @ + 1]
    /\ peer' = [peer EXCEPT ![p] =
                  IF identity = None THEN [peer[p] EXCEPT !.conn = fail(peer[p].conn)]
                  ELSE IF is_authenticated(@.conn)
                  THEN [conn |-> succeed(@.conn, [identity EXCEPT
                                   !.roles = @ \cup peer[p].conn.identity.roles]), how |-> how]
                  ELSE [conn |-> succeed(@.conn, identity), how |-> how]]
    /\ UNCHANGED <<config, source, auth, loaded, effect, edits>>

Outcome(p, identity, how) ==
    /\ tries[p] < MaxTries
    /\ tries' = [tries EXCEPT ![p] = @ + 1]
    /\ peer' = [peer EXCEPT ![p] =
                  IF identity = None THEN [peer[p] EXCEPT !.conn = fail(peer[p].conn)]
                  ELSE [conn |-> succeed(@.conn, identity), how |-> how]]
    /\ UNCHANGED <<config, source, auth, loaded, effect, edits>>

(* AUTH, HELLO AUTH or a stranger's memcached set. *)
PresentSecret(p, pair) ==
    Outcome(p, verify(auth, pair[1], pair[2]), "secret")

(* A TLS handshake, before the first byte. *)
PresentCertificate(p, subjects) ==
    /\ tries[p] = 0
    /\ identity_for_certificate(auth, subjects) \notin {None, Error}
    /\ Outcome(p, identity_for_certificate(auth, subjects), "certificate")

(* The roles a command is held to, by the grammar it came in. *)
NeededBy(command) ==
    CASE command[1] = "vcp" -> roles_for_opcode(command[2])
      [] command[1] = "resp" -> resp_roles_for(command[2])
      [] command[1] = "memcached" -> roles_for_command(command[2])

(* A slip: only whether the connection authenticated is asked. *)
ExecuteUnheld(p, command) ==
    /\ permitted(auth.required, peer[p].conn, {})
    /\ effect' = [kind |-> KindOf(command), identity |-> peer[p].conn.identity]
    /\ UNCHANGED <<config, source, auth, peer, tries, loaded, edits>>

Execute(p, command) ==
    /\ permitted(auth.required, peer[p].conn, NeededBy(command))
    /\ effect' = [kind |-> KindOf(command), identity |-> peer[p].conn.identity]
    /\ UNCHANGED <<config, source, auth, peer, tries, loaded, edits>>

-----------------------------------------------------------------------------
CredInit ==
    /\ config \in Configs /\ source \in Sources
    /\ load(config, source) # Error
    /\ auth = load(config, source)
    /\ loaded = {auth.table}
    /\ peer = [p \in Peers |-> [conn |-> Unauthenticated, how |-> "none"]]
    /\ tries = [p \in Peers |-> 0]
    /\ effect = [kind |-> "ping", identity |-> None] /\ edits = 0

CredNext ==
    \/ \E new \in Sources : Edit(new)
    \/ Hangup
    \/ \E p \in Peers, pair \in Presented : PresentSecret(p, pair)
    \/ \E p \in Peers, subjects \in Certificates : PresentCertificate(p, subjects)
    \/ \E p \in Peers, command \in Commands : Execute(p, command)

CredSpec == CredInit /\ [][CredNext]_credVars

-----------------------------------------------------------------------------
(* Properties.                                                              *)

(* A reload never opens the server and never locks everyone out: whether    *)
(* credentials are required is the configuration's word for as long as the  *)
(* server runs, and a server that requires them has some.                   *)
ReloadKeepsTheDoor ==
    /\ auth.required = config.required
    /\ config.required => auth.table # <<>>

(* An identity is what some table in use granted it, whole: the roles of    *)
(* that row and no mixture of two tables, a row of secrets only for who     *)
(* presented a secret and a row of certificates only for a certificate.     *)
IdentityWasGranted ==
    \A p \in Peers :
        is_authenticated(peer[p].conn) =>
            LET who == peer[p].conn.identity
            IN  \E table \in loaded :
                    /\ who.name \in DOMAIN table
                    /\ table[who.name].roles = who.roles
                    /\ (table[who.name].subject = None) <=> (peer[p].how = "secret")

(* Whatever grammar a command arrives in, and whenever the table changes,   *)
(* it has an effect only for a connection whose identity holds every role   *)
(* the command itself needs, or for one that need not authenticate.         *)
EffectsArePermitted ==
    IF effect.identity = None THEN ~config.required \/ effect.kind = "ping"
    ELSE allows(effect.identity.roles, roles_for_command(effect.kind))

(* All three, through every order of edits, reloads, logins and commands    *)
(* (auth.rs AuthState::replace, ConnAuth, refusal).                         *)
CredentialsHold == ReloadKeepsTheDoor /\ IdentityWasGranted /\ EffectsArePermitted
=============================================================================
