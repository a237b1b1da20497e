----------------------------- MODULE ServerProofs -----------------------------
(***************************************************************************)
(* What stands between a socket and the store, each component in a part    *)
(* of its own.                                                             *)
(*                                                                         *)
(* Credentials: through any order of edits, reloads, logins and commands,  *)
(* a command has an effect only for an identity some table granted, with   *)
(* every role the command itself needs.                                    *)
(*                                                                         *)
(* Connections: no permit is lost or returned twice, the registry shows    *)
(* exactly the open connections, and the store closes only behind its last *)
(* connection.  Every step of one connection opens it, ends it, or moves   *)
(* it without changing who is open; OneMoves is that third case, once for  *)
(* all the actions it serves.                                              *)
(***************************************************************************)
EXTENDS Credentials, Connections, TLAPS, FiniteSetTheorems

USE Zenon

(***************************************************************************)
(* CREDENTIALS                                                             *)
(***************************************************************************)

\* What AuthState::load promises when it succeeds.
LoadOK(c, a) ==
    /\ a.required = c.required
    /\ c.required => a.table # <<>>

\* The table in use is one of those that were ever in use.
TableOK == LoadOK(config, auth) /\ auth.table \in loaded

\* A connection is a record: an identity and a count of failures, and how it came by it.
IsPeer(r) ==
    /\ r = [conn |-> r.conn, how |-> r.how]
    /\ r.conn = [identity |-> r.conn.identity, failures |-> r.conn.failures]
PeersOK == DOMAIN peer = Peers /\ \A p \in Peers : IsPeer(peer[p])

\* An identity is what some table in use granted it, whole.
Granted(r) ==
    is_authenticated(r.conn) =>
        \E table \in loaded :
            /\ r.conn.identity.name \in DOMAIN table
            /\ table[r.conn.identity.name].roles = r.conn.identity.roles
            /\ (table[r.conn.identity.name].subject = None) <=> (r.how = "secret")

\* The inductive invariant: CredentialsHold, with the table in use among those loaded,
\* which is what makes the next login's identity one that was granted.
CredInv ==
    /\ TableOK /\ PeersOK /\ DOMAIN tries = Peers
    /\ \A p \in Peers : Granted(peer[p])
    /\ EffectsArePermitted

-----------------------------------------------------------------------------
\* The three mappings of roles agree (roles_for_opcode and resp::roles_for with
\* roles_for_command, over decode and translate): whatever grammar a command
\* comes in, it is held to the roles its kind needs.
LEMMA GrammarsAgree ==
  ASSUME NEW command \in Commands
  PROVE  NeededBy(command) = roles_for_command(KindOf(command))
<1>1. CASE command \in {"vcp"} \X DOMAIN decode
  <2>1. PICK name \in DOMAIN decode : command = <<"vcp", name>>
    BY <1>1, SMT
  <2>2. NeededBy(command) = roles_for_opcode(name) /\ KindOf(command) = decode[name]
    BY <2>1 DEF NeededBy, KindOf
  <2>3. roles_for_opcode(name) = roles_for_command(decode[name])
    BY SMT DEF decode, roles_for_opcode, roles_for_command
  <2> QED BY <2>2, <2>3
<1>2. CASE command \in {"resp"} \X RespNames
  <2>1. PICK name \in RespNames : command = <<"resp", name>>
    BY <1>2, SMT
  <2>2. NeededBy(command) = resp_roles_for(name) /\ KindOf(command) = translate(name)
    BY <2>1 DEF NeededBy, KindOf
  <2>3. resp_roles_for(name) = roles_for_command(translate(name))
    <3>1. CASE name \in {"PING", "INFO"}
      BY <3>1 DEF translate, resp_roles_for, roles_for_command
    <3>2. CASE name \in {"GET", "MGET", "EXISTS", "TYPE", "TTL"}
      BY <3>2 DEF translate, resp_roles_for, roles_for_command
    <3>3. CASE name \in {"DEL", "SET", "MSET", "MSETEX"}
      BY <3>3 DEF translate, resp_roles_for, roles_for_command
    <3>4. CASE name \in {"APPEND", "EXPIRE", "PERSIST"}
      BY <3>4 DEF translate, resp_roles_for, roles_for_command
    <3>5. CASE name \in {"SET GET", "INCR", "INCREX"}
      BY <3>5 DEF translate, resp_roles_for, roles_for_command
    <3>6. CASE name \in {"SCAN", "DELBYTAG"}
      BY <3>6 DEF translate, resp_roles_for, roles_for_command
    <3> QED BY <3>1, <3>2, <3>3, <3>4, <3>5, <3>6 DEF RespNames
  <2> QED BY <2>2, <2>3
<1>3. CASE command \in {"memcached"} \X CommandKinds
  <2>1. PICK name \in CommandKinds : command = <<"memcached", name>>
    BY <1>3, SMT
  <2> QED BY <2>1 DEF NeededBy, KindOf
<1> QED BY <1>1, <1>2, <1>3, CommandsAssumption

\* The roles a command needs are roles.
LEMMA NeedsAreRoles ==
  ASSUME NEW command \in Commands
  PROVE  NeededBy(command) \subseteq UNRESTRICTED
<1>1. CASE command \in {"vcp"} \X DOMAIN decode
  <2>1. PICK name \in DOMAIN decode : command = <<"vcp", name>>
    BY <1>1, SMT
  <2>2. roles_for_opcode(name) \subseteq UNRESTRICTED
    BY DEF decode, roles_for_opcode, UNRESTRICTED, Roles, READ_WRITE
  <2> QED BY <2>1, <2>2 DEF NeededBy
<1>2. CASE command \in {"resp"} \X RespNames
  <2>1. PICK name \in RespNames : command = <<"resp", name>>
    BY <1>2, SMT
  <2>2. resp_roles_for(name) \subseteq UNRESTRICTED
    BY DEF RespNames, resp_roles_for, UNRESTRICTED, Roles, READ_WRITE
  <2> QED BY <2>1, <2>2 DEF NeededBy
<1>3. CASE command \in {"memcached"} \X CommandKinds
  <2>1. PICK name \in CommandKinds : command = <<"memcached", name>>
    BY <1>3, SMT
  <2>2. roles_for_command(name) \subseteq UNRESTRICTED
    BY DEF CommandKinds, roles_for_command, UNRESTRICTED, Roles, READ_WRITE
  <2> QED BY <2>1, <2>2 DEF NeededBy
<1> QED BY <1>1, <1>2, <1>3, CommandsAssumption

\* AuthState::refusal lets a command through only for an identity that holds the roles,
\* or for nobody in particular where nobody has to authenticate.
LEMMA GateHolds ==
  ASSUME NEW required, NEW conn, NEW needed \in SUBSET UNRESTRICTED,
         permitted(required, conn, needed)
  PROVE  IF conn.identity = None THEN ~required ELSE allows(conn.identity.roles, needed)
<1>1. CASE conn.identity = None
  BY <1>1, NoneAssumption DEF permitted, refusal, is_authenticated
<1>2. CASE conn.identity # None
  <2>1. missing(conn.identity.roles, needed) \in SUBSET UNRESTRICTED
    BY DEF missing
  <2>2. missing(conn.identity.roles, needed) # None
    BY <2>1, NoneAssumption
  <2> QED BY <1>2, <2>2 DEF permitted, refusal, is_authenticated
<1> QED BY <1>1, <1>2

-----------------------------------------------------------------------------
\* Auth::parse gives a table or refuses the file.
LEMMA ParseIsTable ==
  ASSUME NEW lines, parse(lines) # Error
  PROVE  parse(lines) = [name \in DOMAIN parse(lines) |-> parse(lines)[name]]
<1> DEFINE rows == SelectSeq(lines, LAMBDA line : line.kind = "row")
           names == {rows[i].name : i \in DOMAIN rows}
           of(name) == CHOOSE i \in DOMAIN rows : rows[i].name = name
           bad == \/ \E i \in DOMAIN rows : parse_line(rows[i]) = Error
                  \/ Cardinality(names) # Len(rows)
           full == [name \in names |-> parse_line(rows[of(name)])]
<1>1. parse(lines) = IF bad THEN Error ELSE full
  BY DEF parse
<1>2. parse(lines) = full
  <2> HIDE DEF bad, full
  <2> QED BY <1>1
<1>3. full = [name \in DOMAIN full |-> full[name]]
  <2> HIDE DEF names, of, rows
  <2> QED OBVIOUS
<1> QED
  <2> HIDE DEF full
  <2> QED BY <1>2, <1>3

\* A table with rows keeps them when its defaults are resolved.
LEMMA DefaultsKeepRows ==
  ASSUME NEW table, table = [name \in DOMAIN table |-> table[name]], table # <<>>,
         NEW default
  PROVE  resolve_defaults(table, default) # <<>>
<1>1. DOMAIN resolve_defaults(table, default) = DOMAIN table
  BY DEF resolve_defaults
<1>2. DOMAIN table # {}
  <2>1. SUFFICES ASSUME DOMAIN table = {} PROVE FALSE
    OBVIOUS
  <2>2. table = <<>>
    BY <2>1, SMT
  <2> QED BY <2>2
<1> QED BY <1>1, <1>2, SMT

\* Auth::load: what it accepts asks for credentials as configured, and has some when it does.
LEMMA LoadIsSound ==
  ASSUME NEW c, NEW s, load(c, s) # Error
  PROVE  LoadOK(c, load(c, s))
<1> DEFINE default == parse_default(c.default_roles)
           fromEnv == [value |-> sha256(s.env), subject |-> None,
                       mechanism |-> "plain", roles |-> UNRESTRICTED,
                       inherited |-> TRUE]
           table == CASE s.file # None /\ s.env # None -> Error
                      [] s.file # None /\ s.env = None ->
                           IF s.private THEN parse(s.file) ELSE Error
                      [] s.file = None /\ s.env # None ->
                           IF s.env = "short" THEN Error
                           ELSE [name \in {"default"} |-> fromEnv]
                      [] OTHER -> <<>>
           bad == default = Error \/ table = Error \/ (c.required /\ table = <<>>)
           good == [required |-> c.required, table |-> resolve_defaults(table, default)]
<1>1. load(c, s) = IF bad THEN Error ELSE good
  BY DEF load
<1>2. load(c, s) = good /\ ~bad
  <2> HIDE DEF bad, good
  <2> QED BY <1>1
<1>3. table # Error => table = [name \in DOMAIN table |-> table[name]]
  <2>1. CASE s.file # None /\ s.env # None
    <3> HIDE DEF fromEnv
    <3> QED BY <2>1
  <2>2. CASE s.file # None /\ s.env = None /\ s.private
    <3>1. table = parse(s.file)
      <4> HIDE DEF fromEnv
      <4> QED BY <2>2
    <3> HIDE DEF table
    <3> QED BY <3>1, ParseIsTable
  <2>3. CASE s.file # None /\ s.env = None /\ ~s.private
    <3> HIDE DEF fromEnv
    <3> QED BY <2>3
  <2>4. CASE s.file = None /\ s.env # None
    <3> HIDE DEF fromEnv
    <3> QED BY <2>4
  <2>5. CASE s.file = None /\ s.env = None
    <3>1. table = <<>>
      <4> HIDE DEF fromEnv
      <4> QED BY <2>5
    <3> HIDE DEF table
    <3> QED BY <3>1, SMT
  <2> QED BY <2>1, <2>2, <2>3, <2>4, <2>5
<1>4. ASSUME c.required PROVE resolve_defaults(table, default) # <<>>
  <2>1. table # Error /\ table # <<>>
    BY <1>2, <1>4
  <2> HIDE DEF table, default
  <2> QED BY <1>3, <2>1, DefaultsKeepRows
<1> HIDE DEF table, default
<1> QED BY <1>2, <1>4, SMT DEF LoadOK

-----------------------------------------------------------------------------
\* The file and the environment the server starts from, and nobody authenticated yet.
LEMMA CredStart == CredInit => CredInv
<1> SUFFICES ASSUME CredInit PROVE CredInv
  OBVIOUS
<1>1. TableOK
  <2>1. LoadOK(config, load(config, source))
    BY LoadIsSound DEF CredInit
  <2> QED BY <2>1 DEF TableOK, CredInit
<1>2. PeersOK /\ DOMAIN tries = Peers /\ \A p \in Peers : Granted(peer[p])
  BY DEF PeersOK, IsPeer, Granted, is_authenticated, Unauthenticated, CredInit
<1>3. EffectsArePermitted
  BY DEF EffectsArePermitted, CredInit
<1> QED BY <1>1, <1>2, <1>3 DEF CredInv

\* SIGHUP replaces the whole table or leaves it: identities keep what they were granted.
LEMMA HangupKeeps == CredInv /\ Hangup => CredInv'
<1> SUFFICES ASSUME CredInv, Hangup PROVE CredInv'
  OBVIOUS
<1>1. TableOK'
  <2>1. LoadOK(config, load(config, source))
    BY LoadIsSound DEF Hangup
  <2>2. LoadOK(config', auth')
    BY <2>1 DEF Hangup
  <2> QED BY <2>2 DEF TableOK, LoadOK, Hangup
<1>2. PeersOK' /\ DOMAIN tries' = Peers /\ \A p \in Peers : Granted(peer[p])'
  BY DEF CredInv, PeersOK, IsPeer, Granted, is_authenticated, Hangup
<1>3. EffectsArePermitted'
  BY DEF CredInv, EffectsArePermitted, Hangup
<1> QED BY <1>1, <1>2, <1>3 DEF CredInv

\* ConnAuth::succeed and ConnAuth::fail: an attempt leaves the identity as it was, or
\* puts a granted one in its place.
LEMMA OutcomeKeeps ==
  ASSUME CredInv, NEW p \in Peers, NEW identity, NEW how, Outcome(p, identity, how),
         identity # None => \E table \in loaded :
             /\ identity.name \in DOMAIN table
             /\ table[identity.name].roles = identity.roles
             /\ (table[identity.name].subject = None) <=> (how = "secret")
  PROVE  CredInv'
<1>1. TableOK' /\ EffectsArePermitted' /\ DOMAIN tries' = Peers
  BY DEF CredInv, TableOK, LoadOK, EffectsArePermitted, Outcome
<1>2. DOMAIN peer' = Peers /\ \A q \in Peers \ {p} : peer'[q] = peer[q]
  BY DEF CredInv, PeersOK, Outcome
<1>3. loaded' = loaded
  BY DEF Outcome
<1>4. IsPeer(peer[p]) /\ Granted(peer[p])
  BY DEF CredInv, PeersOK
<1>5. IsPeer(peer'[p]) /\ Granted(peer[p])'
  <2>1. CASE identity = None
    <3>1. peer'[p] = [peer[p] EXCEPT !.conn = fail(peer[p].conn)]
      <4>1. PICK new : new = [peer[p] EXCEPT !.conn = fail(peer[p].conn)]
        OBVIOUS
      <4>2. PICK kept : kept = [conn |-> succeed(peer[p].conn, identity), how |-> how]
        OBVIOUS
      <4>3. peer' = [peer EXCEPT ![p] = IF identity = None THEN new ELSE kept]
        BY <4>1, <4>2 DEF Outcome
      <4>4. peer'[p] = new
        BY <2>1, <4>3 DEF CredInv, PeersOK
      <4> QED BY <4>1, <4>4
    <3>2. PICK conn : conn = fail(peer[p].conn)
      OBVIOUS
    <3>3. conn = [identity |-> peer[p].conn.identity, failures |-> peer[p].conn.failures + 1]
      BY <1>4, <3>2 DEF fail, IsPeer
    <3>4. peer'[p] = [conn |-> conn, how |-> peer[p].how]
      BY <1>4, <3>1, <3>2 DEF IsPeer
    <3>5. peer'[p].conn.identity = peer[p].conn.identity /\ peer'[p].how = peer[p].how
      BY <3>3, <3>4, SMT
    <3>6. IsPeer(peer'[p])
      BY <3>3, <3>4, SMT DEF IsPeer
    <3>7. Granted(peer[p])'
      BY <1>3, <1>4, <3>5 DEF Granted, is_authenticated
    <3> QED BY <3>6, <3>7
  <2>2. CASE identity # None
    <3>1. peer'[p] = [conn |-> succeed(peer[p].conn, identity), how |-> how]
      BY <2>2 DEF CredInv, PeersOK, Outcome
    <3>2. succeed(peer[p].conn, identity)
            = [identity |-> identity, failures |-> peer[p].conn.failures]
      BY <1>4, SMT DEF succeed, IsPeer
    <3>3. peer'[p].conn.identity = identity /\ peer'[p].how = how
      BY <3>1, <3>2, SMT
    <3>4. IsPeer(peer'[p])
      BY <3>1, <3>2, SMT DEF IsPeer
    <3>5. Granted(peer[p])'
      BY <1>3, <2>2, <3>3 DEF Granted, is_authenticated
    <3> QED BY <3>4, <3>5
  <2> QED BY <2>1, <2>2
<1>6. ASSUME NEW q \in Peers PROVE IsPeer(peer'[q]) /\ Granted(peer[q])'
  <2>1. CASE q = p
    BY <1>5, <2>1
  <2>2. CASE q # p
    <3>1. IsPeer(peer[q]) /\ Granted(peer[q])
      BY DEF CredInv, PeersOK
    <3>2. peer'[q] = peer[q]
      BY <1>2, <2>2
    <3> QED BY <3>1, <3>2, <1>3 DEF Granted, is_authenticated
  <2> QED BY <2>1, <2>2
<1> QED BY <1>1, <1>2, <1>6 DEF CredInv, PeersOK

\* Auth::verify: a secret earns the identity of its row in the table in use.
LEMMA SecretKeeps ==
  ASSUME CredInv, NEW p \in Peers, NEW pair, PresentSecret(p, pair)
  PROVE  CredInv'
<1> DEFINE identity == verify(auth, pair[1], pair[2])
<1>1. ASSUME identity # None
      PROVE  /\ identity.name \in DOMAIN auth.table
             /\ auth.table[identity.name].roles = identity.roles
             /\ auth.table[identity.name].subject = None
  BY <1>1 DEF verify
<1>2. auth.table \in loaded
  BY DEF CredInv, TableOK
<1>3. Outcome(p, identity, "secret")
  BY DEF PresentSecret
<1> HIDE DEF identity
<1> QED BY <1>1, <1>2, <1>3, OutcomeKeeps

\* Auth::identity_for_certificate: the one row whose subject the certificate carries.
LEMMA CertificateKeeps ==
  ASSUME CredInv, NEW p \in Peers, NEW subjects, PresentCertificate(p, subjects)
  PROVE  CredInv'
<1> DEFINE identity == identity_for_certificate(auth, subjects)
           matching == {name \in DOMAIN auth.table :
                           auth.table[name].subject \in subjects \ {None}}
           chosen == CHOOSE n \in matching : TRUE
<1>1. identity \notin {None, Error}
  BY DEF PresentCertificate
<1>2. matching # {} /\ identity = [name |-> chosen, roles |-> auth.table[chosen].roles]
  <2>1. PICK found : found = [name |-> chosen, roles |-> auth.table[chosen].roles]
    OBVIOUS
  <2>2. identity = CASE matching = {} -> None
                     [] Cardinality(matching) = 1 -> found
                     [] OTHER -> Error
    BY <2>1 DEF identity_for_certificate
  <2>3. matching = {} => Cardinality(matching) = 0
    <3> HIDE DEF matching
    <3> QED BY FS_EmptySet
  <2>4. matching # {} /\ identity = found
    <3> HIDE DEF matching, identity, chosen
    <3> QED BY <1>1, <2>2, <2>3, SMT
  <2> QED BY <2>1, <2>4
<1>3. chosen \in matching
  <2> HIDE DEF matching
  <2> QED BY <1>2
<1>4. /\ identity.name \in DOMAIN auth.table
      /\ auth.table[identity.name].roles = identity.roles
      /\ auth.table[identity.name].subject # None
  <2> HIDE DEF chosen, identity
  <2> QED BY <1>2, <1>3
<1>5. auth.table \in loaded
  BY DEF CredInv, TableOK
<1>6. Outcome(p, identity, "certificate")
  BY DEF PresentCertificate
<1> HIDE DEF identity
<1> QED BY <1>4, <1>5, <1>6, OutcomeKeeps

\* The gate of every dialect: the command is held to what its kind needs.
LEMMA ExecuteKeeps ==
  ASSUME CredInv, NEW p \in Peers, NEW command \in Commands, Execute(p, command)
  PROVE  CredInv'
<1>1. TableOK' /\ PeersOK' /\ DOMAIN tries' = Peers /\ \A q \in Peers : Granted(peer[q])'
  BY DEF CredInv, TableOK, LoadOK, PeersOK, IsPeer, Granted, is_authenticated, Execute
<1>2. permitted(auth.required, peer[p].conn, NeededBy(command))
  BY DEF Execute
<1>3. NeededBy(command) \in SUBSET UNRESTRICTED
  BY NeedsAreRoles
<1>4. IF peer[p].conn.identity = None THEN ~auth.required
      ELSE allows(peer[p].conn.identity.roles, NeededBy(command))
  BY <1>2, <1>3, GateHolds
<1>5. NeededBy(command) = roles_for_command(KindOf(command))
  BY GrammarsAgree
<1>6. auth.required = config.required /\ config' = config
  BY DEF CredInv, TableOK, LoadOK, Execute
<1>7. effect'.kind = KindOf(command) /\ effect'.identity = peer[p].conn.identity
  BY DEF Execute
<1>8. EffectsArePermitted'
  BY <1>4, <1>5, <1>6, <1>7 DEF EffectsArePermitted
<1> QED BY <1>1, <1>8 DEF CredInv

\* Every step of the operator, of the connections and of the gates keeps the invariant.
LEMMA CredStep == CredInv /\ [CredNext]_credVars => CredInv'
<1> SUFFICES ASSUME CredInv, [CredNext]_credVars PROVE CredInv'
  OBVIOUS
<1>1. CASE UNCHANGED credVars
  BY <1>1 DEF credVars, CredInv, TableOK, LoadOK, PeersOK, IsPeer, Granted,
              is_authenticated, EffectsArePermitted
<1>2. ASSUME NEW new \in Sources, Edit(new) PROVE CredInv'
  BY <1>2 DEF Edit, CredInv, TableOK, LoadOK, PeersOK, IsPeer, Granted,
              is_authenticated, EffectsArePermitted
<1>3. CASE Hangup
  BY <1>3, HangupKeeps
<1>4. ASSUME NEW p \in Peers, NEW pair \in Presented, PresentSecret(p, pair) PROVE CredInv'
  BY <1>4, SecretKeeps
<1>5. ASSUME NEW p \in Peers, NEW subjects \in Certificates, PresentCertificate(p, subjects)
      PROVE  CredInv'
  BY <1>5, CertificateKeeps
<1>6. ASSUME NEW p \in Peers, NEW command \in Commands, Execute(p, command) PROVE CredInv'
  BY <1>6, ExecuteKeeps
<1> QED BY <1>1, <1>2, <1>3, <1>4, <1>5, <1>6 DEF CredNext

\* For every file, environment and configuration the server accepts at start, through
\* any order of edits, reloads (auth.rs AuthState::replace), logins (ConnAuth::succeed)
\* and commands (AuthState::refusal in all three dialects): the door stays as configured,
\* an identity is what one table granted it, and a command has an effect only for an
\* identity with every role its kind needs.
THEOREM GrantsHold == CredSpec => []CredentialsHold
<1>1. CredInv => CredentialsHold
  BY DEF CredInv, TableOK, LoadOK, Granted, CredentialsHold, ReloadKeepsTheDoor,
         IdentityWasGranted
<1> QED BY <1>1, CredStart, CredStep, PTL DEF CredSpec

-----------------------------------------------------------------------------
\* A reload that is refused (AuthState::replace is not reached) and every other step but
\* an accepted one leave the table in use alone; an accepted one installs what the file
\* on disk says at that moment, and no step takes back what a connection was granted
\* except an attempt of that connection.
OnlyReloadsAndLoginsChangeHands ==
    [][/\ auth' # auth => load(config, source) # Error /\ auth' = load(config, source)
       /\ \A p \in Peers : peer'[p].conn.identity # peer[p].conn.identity =>
             tries'[p] = tries[p] + 1]_credVars

\* What an operator relies on: a bad file is harmless, and a reload logs nobody out.
THEOREM ReloadsAreWhole == CredSpec => OnlyReloadsAndLoginsChangeHands
<1> DEFINE Rule ==
      /\ auth' # auth => load(config, source) # Error /\ auth' = load(config, source)
      /\ \A p \in Peers : peer'[p].conn.identity # peer[p].conn.identity =>
            tries'[p] = tries[p] + 1
<1>1. CredInv /\ [CredNext]_credVars => [Rule]_credVars
  <2> SUFFICES ASSUME CredInv, CredNext PROVE Rule
    OBVIOUS
  <2>1. ASSUME NEW new \in Sources, Edit(new) PROVE Rule
    BY <2>1 DEF Edit
  <2>2. CASE Hangup
    BY <2>2 DEF Hangup
  <2>3. ASSUME NEW p \in Peers, NEW identity, NEW how, Outcome(p, identity, how) PROVE Rule
    BY <2>3 DEF Outcome, CredInv, PeersOK
  <2>4. ASSUME NEW p \in Peers, NEW pair \in Presented, PresentSecret(p, pair) PROVE Rule
    BY <2>4, <2>3 DEF PresentSecret
  <2>5. ASSUME NEW p \in Peers, NEW subjects \in Certificates, PresentCertificate(p, subjects)
        PROVE  Rule
    BY <2>5, <2>3 DEF PresentCertificate
  <2>6. ASSUME NEW p \in Peers, NEW command \in Commands, Execute(p, command) PROVE Rule
    BY <2>6 DEF Execute
  <2> QED BY <2>1, <2>2, <2>4, <2>5, <2>6 DEF CredNext
<1> QED BY <1>1, CredStart, CredStep, PTL DEF CredSpec, OnlyReloadsAndLoginsChangeHands

(***************************************************************************)
(* CONNECTIONS                                                             *)
(***************************************************************************)

\* What a connection task holds (conn.rs handle and its caller).
Tasks ==
    [pc : {"absent", "handshake", "select", "executing", "writing", "ending"},
     id : Nat, tls : BOOLEAN, pre : BOOLEAN, authed : BOOLEAN, failures : Nat,
     protocol : BOOLEAN, buffered : Nat, late : BOOLEAN, closing : BOOLEAN]

\* The connections that hold a pre-auth permit.
Strangers == {c \in Conns : task[c].pre}

\* The variables have their types.
Typed ==
    /\ setup \in Servers
    /\ task \in [Conns -> Tasks]
    /\ free \in Nat /\ pre_free \in Nat /\ next_id \in Nat

\* Both semaphores are balanced against the tasks that hold their permits.
PermitsOK ==
    /\ free + Cardinality(Open) = setup.max
    /\ pre_free + Cardinality(Strangers) = setup.pre

\* A task that is gone or going holds no pre-auth permit; any other holds one
\* exactly while it has yet to authenticate, which a handshake has.
PreOK ==
    \A c \in Conns :
        /\ task[c].pre <=> /\ task[c].pc \notin {"absent", "ending"}
                           /\ Stranger(c)
        /\ task[c].pc = "handshake" => ~task[c].authed

\* The registry shows the open connections, each under an id of its own, and those
\* that a panic in their own task ended; all of these ids were given out before.
RegistryOK ==
    /\ registry \ orphans = {task[c].id : c \in Open} /\ orphans \subseteq registry
    /\ \A id \in orphans : id \in Nat /\ id < next_id
    /\ \A c \in Open : task[c].id < next_id
    /\ \A c, d \in Open : task[c].id = task[d].id => c = d

\* The server's sequence: the listener is gone before anything is waited for, the
\* warmer is joined before the drain, and the drain ends with the last connection.
SequenceOK ==
    /\ stop => server # "serving"
    /\ server \in {"draining", "syncing", "closed"} => warm.pc = "done"
    /\ server \in {"syncing", "closed"} => timed_out \/ Open = {}

\* The inductive invariant.  AdmissionIsBalanced says nothing of the ids of closed
\* connections nor of the stages of the shutdown, on which its preservation rests.
ConnInv == Typed /\ PermitsOK /\ PreOK /\ RegistryOK /\ SequenceOK

-----------------------------------------------------------------------------
\* The sets the semaphores are balanced against are finite.
LEMMA Finite == IsFiniteSet(Open) /\ IsFiniteSet(Strangers)
<1>1. Open \subseteq Conns /\ Strangers \subseteq Conns
  BY DEF Open, Strangers
<1> QED BY <1>1, ConnAssumption, FS_Subset

\* The same of the next state.
LEMMA FiniteNext == IsFiniteSet(Open') /\ IsFiniteSet(Strangers')
<1>1. Open' \subseteq Conns /\ Strangers' \subseteq Conns
  BY DEF Open, Strangers
<1> QED BY <1>1, ConnAssumption, FS_Subset

\* A permit more in use is one member more of the set that holds them.
LEMMA OneMore ==
  ASSUME NEW S, NEW x, IsFiniteSet(S), x \notin S
  PROVE  Cardinality(S) \in Nat /\ Cardinality(S \cup {x}) = Cardinality(S) + 1
BY FS_AddElement, FS_CardinalityType

\* The same for one fewer.
LEMMA OneFewer ==
  ASSUME NEW S, NEW x, IsFiniteSet(S), x \in S
  PROVE  Cardinality(S) \in Nat /\ Cardinality(S \ {x}) = Cardinality(S) - 1
BY FS_RemoveElement, FS_CardinalityType

\* Leave and FreePre: however an open connection moves on, its registry entry and
\* its permit are kept, and its pre-auth permit goes back exactly if it gives it up.
LEMMA OneMoves ==
  ASSUME ConnInv, NEW c \in Conns,
         task' \in [Conns -> Tasks],
         \A d \in Conns \ {c} : task'[d] = task[d],
         task[c].pc # "absent", task'[c].pc # "absent", task'[c].id = task[c].id,
         task'[c].pre <=> task'[c].pc # "ending" /\ setup.enforcing /\ ~task'[c].authed,
         task'[c].pre => task[c].pre,
         task'[c].pc # "handshake",
         pre_free' = IF task[c].pre /\ ~task'[c].pre THEN pre_free + 1 ELSE pre_free,
         UNCHANGED <<ServerSide, Admission>>
  PROVE  ConnInv'
<1> USE DEF ServerSide, Admission
<1>1. Open' = Open
  BY DEF Open
<1>2. Typed'
  BY SMT DEF ConnInv, Typed
<1>3. PermitsOK'
  <2>1. CASE task[c].pre /\ ~task'[c].pre
    <3>1. Strangers' = Strangers \ {c} /\ c \in Strangers
      BY <2>1 DEF Strangers
    <3>2. Cardinality(Strangers) \in Nat /\ Cardinality(Strangers') = Cardinality(Strangers) - 1
      BY <3>1, Finite, OneFewer
    <3>3. pre_free' = pre_free + 1 /\ pre_free \in Nat /\ setup' = setup /\ free' = free
      BY <2>1 DEF ConnInv, Typed
    <3> QED BY <1>1, <3>2, <3>3, SMT DEF ConnInv, PermitsOK
  <2>2. CASE ~(task[c].pre /\ ~task'[c].pre)
    <3>1. Strangers' = Strangers
      BY <2>2 DEF Strangers
    <3> QED BY <1>1, <2>2, <3>1 DEF ConnInv, PermitsOK
  <2> QED BY <2>1, <2>2
<1>4. PreOK'
  BY DEF ConnInv, PreOK, Stranger
<1>5. RegistryOK'
  <2>1. \A d \in Open : task'[d].id = task[d].id
    BY DEF Open
  <2> QED BY <1>1, <2>1, SMT DEF ConnInv, RegistryOK
<1>6. SequenceOK'
  BY <1>1 DEF ConnInv, SequenceOK
<1> QED BY <1>2, <1>3, <1>4, <1>5, <1>6 DEF ConnInv

\* The end of a connection from wherever it stands: conn::handle returns.
LEMMA LeaveKeeps ==
  ASSUME ConnInv, NEW c \in Conns, task[c].pc # "absent", Leave(c)
  PROVE  ConnInv'
<1>1. task[c] \in Tasks
  BY DEF ConnInv, Typed
<1>2. task' = [task EXCEPT ![c] = [task[c] EXCEPT !.pc = "ending", !.pre = FALSE]]
  BY DEF Leave, Move
<1>3. task'[c] = [task[c] EXCEPT !.pc = "ending", !.pre = FALSE]
  BY <1>2 DEF ConnInv, Typed
<1>4. [task[c] EXCEPT !.pc = "ending", !.pre = FALSE] \in Tasks
  BY <1>1 DEF Tasks
<1>5. task' \in [Conns -> Tasks] /\ \A d \in Conns \ {c} : task'[d] = task[d]
  BY <1>2, <1>4 DEF ConnInv, Typed
<1>6. task'[c].pc = "ending" /\ task'[c].id = task[c].id /\ ~task'[c].pre
  BY <1>1, <1>3 DEF Tasks
<1>7. pre_free' = (IF task[c].pre THEN pre_free + 1 ELSE pre_free)
      /\ UNCHANGED <<ServerSide, Admission>>
  BY DEF Leave, FreePre
<1> QED BY <1>5, <1>6, <1>7, OneMoves

\* A task whose connection changes the given way keeps its shape: the record the
\* action writes is a task, and no other task changes.
LEMMA TaskWritten ==
  ASSUME ConnInv, NEW c \in Conns, NEW t \in Tasks, Move(c, t)
  PROVE  /\ task' \in [Conns -> Tasks] /\ task'[c] = t
         /\ \A d \in Conns \ {c} : task'[d] = task[d]
BY DEF ConnInv, Typed, Move

\* peer_identity: a certificate that names a row frees the pre-auth permit.
LEMMA HandshakeSucceedsKeeps ==
  ASSUME ConnInv, NEW c \in Conns, NEW certified \in BOOLEAN, HandshakeSucceeds(c, certified)
  PROVE  ConnInv'
<1>1. task[c] \in Tasks
  BY DEF ConnInv, Typed
<1>2. PICK t : t = [task[c] EXCEPT !.pc = "select", !.authed = certified,
                                   !.pre = @ /\ ~certified]
  OBVIOUS
<1>3. /\ t \in Tasks /\ t.pc = "select" /\ t.id = task[c].id
      /\ t.authed = certified /\ t.pre = (task[c].pre /\ ~certified)
  BY <1>1, <1>2 DEF Tasks
<1>4. task[c].pc = "handshake" /\ Move(c, t) /\ UNCHANGED <<ServerSide, Admission>>
  BY <1>2 DEF HandshakeSucceeds
<1>5. pre_free' = IF certified /\ task[c].pre THEN pre_free + 1 ELSE pre_free
  BY DEF HandshakeSucceeds, FreePre
<1>6. task[c].pre <=> setup.enforcing
  BY <1>4 DEF ConnInv, PreOK, Stranger
<1>7. /\ task' \in [Conns -> Tasks] /\ task'[c] = t
      /\ \A d \in Conns \ {c} : task'[d] = task[d]
  BY <1>3, <1>4, TaskWritten
<1> QED BY <1>3, <1>4, <1>5, <1>6, <1>7, OneMoves

\* A connection that changes nothing the permits depend on: a partial read, a block
\* taken up, replies written, a deadline noticed.
LEMMA QuietMove ==
  ASSUME ConnInv, NEW c \in Conns, NEW t \in Tasks, Move(c, t),
         task[c].pc \in {"select", "executing", "writing"},
         t.pc \in {"select", "executing", "writing"},
         t.id = task[c].id, t.pre = task[c].pre, t.authed = task[c].authed,
         UNCHANGED <<ServerSide, Admission, pre_free>>
  PROVE  ConnInv'
<1>1. /\ task' \in [Conns -> Tasks] /\ task'[c] = t
      /\ \A d \in Conns \ {c} : task'[d] = task[d]
  BY TaskWritten
<1>2. task[c].pre <=> setup.enforcing /\ ~task[c].authed
  BY DEF ConnInv, PreOK, Stranger
<1>3. UNCHANGED <<ServerSide, Admission>> /\ pre_free' = pre_free
  OBVIOUS
<1> QED BY <1>1, <1>2, <1>3, OneMoves

\* Bytes that complete no command.
LEMMA ReadPartKeeps ==
  ASSUME ConnInv, NEW c \in Conns, ReadPart(c)
  PROVE  ConnInv'
<1>1. task[c] \in Tasks
  BY DEF ConnInv, Typed
<1>2. PICK n \in Nat : n = task[c].buffered + 1
  BY <1>1, SMT DEF Tasks
<1> DEFINE t == [task[c] EXCEPT !.buffered = n, !.protocol = TRUE]
<1>3. /\ t \in Tasks /\ t.pc = task[c].pc /\ t.id = task[c].id
      /\ t.authed = task[c].authed /\ t.pre = task[c].pre
  BY <1>1 DEF Tasks
<1>4. task[c].pc = "select" /\ Move(c, t) /\ UNCHANGED <<ServerSide, Admission, pre_free>>
  BY <1>2 DEF ReadPart
<1> HIDE DEF t
<1> QED BY <1>3, <1>4, QuietMove

\* A block to execute.
LEMMA ReadBlockKeeps ==
  ASSUME ConnInv, NEW c \in Conns, ReadBlock(c)
  PROVE  ConnInv'
<1>1. task[c] \in Tasks
  BY DEF ConnInv, Typed
<1>2. PICK t : t = [task[c] EXCEPT !.pc = "executing", !.protocol = TRUE, !.buffered = 0]
  OBVIOUS
<1>3. /\ t \in Tasks /\ t.pc = "executing" /\ t.id = task[c].id
      /\ t.authed = task[c].authed /\ t.pre = task[c].pre
  BY <1>1, <1>2 DEF Tasks
<1>4. task[c].pc = "select" /\ Move(c, t) /\ UNCHANGED <<ServerSide, Admission, pre_free>>
  BY <1>2 DEF ReadBlock
<1> QED BY <1>3, <1>4, QuietMove

\* The deadlines pass.
LEMMA DeadlineKeeps ==
  ASSUME ConnInv, NEW c \in Conns, DeadlinePasses(c)
  PROVE  ConnInv'
<1>1. task[c] \in Tasks
  BY DEF ConnInv, Typed
<1>2. PICK t : t = [task[c] EXCEPT !.late = TRUE]
  OBVIOUS
<1>3. /\ t \in Tasks /\ t.pc = task[c].pc /\ t.id = task[c].id
      /\ t.authed = task[c].authed /\ t.pre = task[c].pre
  BY <1>1, <1>2 DEF Tasks
<1>4. /\ task[c].pc \notin {"absent", "handshake", "ending"}
      /\ Move(c, t) /\ UNCHANGED <<ServerSide, Admission, pre_free>>
  BY <1>2 DEF DeadlinePasses
<1>5. task[c].pc \in {"select", "executing", "writing"}
  BY <1>1, <1>4 DEF Tasks
<1> QED BY <1>3, <1>4, <1>5, QuietMove

\* The replies are written and the connection goes on, or closes.
LEMMA WriteRepliesKeeps ==
  ASSUME ConnInv, NEW c \in Conns, WriteReplies(c)
  PROVE  ConnInv'
<1>1. task[c] \in Tasks /\ task[c].pc = "writing"
  BY DEF ConnInv, Typed, WriteReplies
<1>2. CASE task[c].closing \/ task[c].failures >= setup.attempts
  BY <1>1, <1>2, LeaveKeeps DEF WriteReplies
<1>3. CASE ~(task[c].closing \/ task[c].failures >= setup.attempts)
  <2>1. PICK t : t = [task[c] EXCEPT !.pc = "select"]
    OBVIOUS
  <2>2. /\ t \in Tasks /\ t.pc = "select" /\ t.id = task[c].id
        /\ t.authed = task[c].authed /\ t.pre = task[c].pre
    BY <1>1, <2>1 DEF Tasks
  <2>3. Move(c, t) /\ UNCHANGED <<ServerSide, Admission, pre_free>>
    BY <1>3, <2>1 DEF WriteReplies
  <2> QED BY <1>1, <2>2, <2>3, QuietMove
<1> QED BY <1>2, <1>3

\* A block that authenticates gives the pre-auth permit back.
LEMMA ExecutedKeeps ==
  ASSUME ConnInv, NEW c \in Conns, NEW authed \in BOOLEAN, NEW failed \in BOOLEAN,
         NEW closing \in BOOLEAN, Executed(c, authed, failed, closing)
  PROVE  ConnInv'
<1>1. task[c] \in Tasks
  BY DEF ConnInv, Typed
<1>2. PICK n \in Nat : n = IF failed THEN task[c].failures + 1 ELSE task[c].failures
  BY <1>1, SMT DEF Tasks
<1> DEFINE t == [task[c] EXCEPT !.pc = "writing", !.closing = closing,
                                !.authed = @ \/ authed, !.pre = @ /\ ~authed,
                                !.failures = n]
<1>3. /\ t \in Tasks /\ t.pc = "writing" /\ t.id = task[c].id
      /\ t.authed = (task[c].authed \/ authed) /\ t.pre = (task[c].pre /\ ~authed)
  BY <1>1 DEF Tasks
<1>4. task[c].pc = "executing" /\ Move(c, t) /\ UNCHANGED <<ServerSide, Admission>>
  BY <1>2 DEF Executed
<1> HIDE DEF t
<1>5. pre_free' = IF authed /\ task[c].pre THEN pre_free + 1 ELSE pre_free
  BY DEF Executed, FreePre
<1>6. task[c].pre <=> setup.enforcing /\ ~task[c].authed
  BY <1>4 DEF ConnInv, PreOK, Stranger
<1>7. /\ task' \in [Conns -> Tasks] /\ task'[c] = t
      /\ \A d \in Conns \ {c} : task'[d] = task[d]
  BY <1>3, <1>4, TaskWritten
<1> QED BY <1>3, <1>4, <1>5, <1>6, <1>7, OneMoves

-----------------------------------------------------------------------------
\* The accept loop opens a connection: one permit of each kind is taken, and the id
\* it gives out is new.
LEMMA AcceptKeeps ==
  ASSUME ConnInv, NEW c \in Conns, NEW tls \in BOOLEAN, Accept(c, tls)
  PROVE  ConnInv'
<1> DEFINE t == [Absent EXCEPT !.pc = IF tls THEN "handshake" ELSE "select",
                               !.id = next_id, !.tls = tls, !.pre = setup.enforcing]
<1>1. setup \in Servers /\ setup.enforcing \in BOOLEAN /\ next_id \in Nat
  BY ConnAssumption DEF ConnInv, Typed
<1>2. Absent \in Tasks /\ ~Absent.authed /\ ~Absent.pre
  BY DEF Absent, Tasks
<1>3. /\ t \in Tasks /\ t.pc \in {"handshake", "select"} /\ t.id = next_id
      /\ ~t.authed /\ t.pre = setup.enforcing
  BY <1>1, <1>2 DEF Tasks
<1>4. /\ task[c].pc = "absent" /\ Move(c, t) /\ server = "serving"
      /\ free > 0 /\ free' = free - 1 /\ (setup.enforcing => pre_free > 0)
      /\ pre_free' = (IF setup.enforcing THEN pre_free - 1 ELSE pre_free)
      /\ registry' = registry \cup {next_id} /\ next_id' = next_id + 1
      /\ UNCHANGED <<ServerSide, orphans>>
  BY DEF Accept, Accepting
<1> HIDE DEF t
<1>5. /\ task' \in [Conns -> Tasks] /\ task'[c] = t
      /\ \A d \in Conns \ {c} : task'[d] = task[d]
  BY <1>3, <1>4, TaskWritten
<1>6. Open' = Open \cup {c} /\ c \notin Open
  BY <1>3, <1>4, <1>5 DEF Open
<1>7. setup' = setup /\ free \in Nat /\ pre_free \in Nat
  BY <1>4 DEF ServerSide, ConnInv, Typed
<1>8. Typed'
  BY <1>1, <1>4, <1>5, <1>7, SMT DEF Typed
<1>9. PermitsOK'
  <2>1. Cardinality(Open) \in Nat /\ Cardinality(Open') = Cardinality(Open) + 1
    BY <1>6, Finite, OneMore
  <2>2. free' + Cardinality(Open') = setup.max
    BY <1>4, <1>7, <2>1, SMT DEF ConnInv, PermitsOK
  <2>3. ~task[c].pre
    BY <1>4 DEF ConnInv, PreOK
  <2>4. CASE setup.enforcing
    <3>1. Strangers' = Strangers \cup {c} /\ c \notin Strangers
      BY <1>3, <1>5, <2>3, <2>4 DEF Strangers
    <3>2. Cardinality(Strangers) \in Nat /\ Cardinality(Strangers') = Cardinality(Strangers) + 1
      BY <3>1, Finite, OneMore
    <3> QED BY <1>4, <1>7, <2>2, <2>4, <3>2, SMT DEF ConnInv, PermitsOK
  <2>5. CASE ~setup.enforcing
    <3>1. Strangers' = Strangers
      BY <1>3, <1>5, <2>3, <2>5 DEF Strangers
    <3> QED BY <1>4, <1>7, <2>2, <2>5, <3>1 DEF ConnInv, PermitsOK
  <2> QED BY <2>4, <2>5
<1>10. PreOK'
  BY <1>3, <1>5, <1>7 DEF ConnInv, PreOK, Stranger
<1>11. RegistryOK'
  <2>1. \A d \in Open : d \in Conns /\ task'[d] = task[d] /\ task[d].id \in Nat /\ task[d].id < next_id
    <3>1. \A d \in Open : d \in Conns \ {c} /\ task[d] \in Tasks
      BY <1>6 DEF Open, ConnInv, Typed
    <3> QED BY <1>5, <3>1 DEF ConnInv, RegistryOK, Tasks
  <2>2. task'[c].id = next_id
    BY <1>3, <1>5
  <2>3. /\ orphans' = orphans /\ next_id \notin orphans /\ orphans \subseteq registry
        /\ \A id \in orphans : id \in Nat /\ id < next_id
    BY <1>1, <1>4, SMT DEF ConnInv, RegistryOK
  <2>6. registry' \ orphans' = {task'[d].id : d \in Open'} /\ orphans' \subseteq registry'
    <3>1. registry' \ orphans' = (registry \ orphans) \cup {next_id}
      BY <1>4, <2>3
    <3>2. {task'[d].id : d \in Open'} = {task[d].id : d \in Open} \cup {next_id}
      BY <1>6, <2>1, <2>2
    <3> QED BY <1>4, <2>3, <3>1, <3>2 DEF ConnInv, RegistryOK
  <2>7. \A id \in orphans' : id \in Nat /\ id < next_id'
    BY <1>1, <1>4, <2>3, SMT
  <2>4. \A d \in Open' : task'[d].id < next_id'
    BY <1>1, <1>4, <1>6, <2>1, <2>2, SMT
  <2>5. \A d, e \in Open' : task'[d].id = task'[e].id => d = e
    BY <1>1, <1>6, <2>1, <2>2, SMT DEF ConnInv, RegistryOK
  <2> QED BY <2>4, <2>5, <2>6, <2>7 DEF RegistryOK
<1>12. SequenceOK'
  BY <1>4 DEF ConnInv, SequenceOK, ServerSide
<1> QED BY <1>8, <1>9, <1>10, <1>11, <1>12 DEF ConnInv

\* A task that is gone, its permits back and its id no longer owed an entry.
LEMMA OneGoes ==
  ASSUME ConnInv, NEW c \in Conns, task[c].pc # "absent", Move(c, Absent), free' = free + 1,
         pre_free' = IF task[c].pre THEN pre_free + 1 ELSE pre_free,
         UNCHANGED <<ServerSide, next_id>>,
         registry' \ orphans' = (registry \ orphans) \ {task[c].id},
         orphans' \subseteq registry', orphans' \subseteq orphans \cup {task[c].id}
  PROVE  ConnInv'
<1>1. Absent \in Tasks /\ ~Absent.pre /\ Absent.pc = "absent"
  BY DEF Absent, Tasks
<1>3. /\ task' \in [Conns -> Tasks] /\ task'[c] = Absent
      /\ \A d \in Conns \ {c} : task'[d] = task[d]
  BY <1>1, TaskWritten
<1>4. Open' = Open \ {c} /\ c \in Open
  BY <1>1, <1>3 DEF Open
<1>5. setup' = setup /\ free \in Nat /\ pre_free \in Nat /\ next_id' = next_id
  BY DEF ServerSide, ConnInv, Typed
<1>6. Typed'
  BY <1>3, <1>5, SMT DEF Typed, ConnInv
<1>7. PermitsOK'
  <2>1. Cardinality(Open) \in Nat /\ Cardinality(Open') = Cardinality(Open) - 1
    BY <1>4, Finite, OneFewer
  <2>2. CASE task[c].pre
    <3>1. Strangers' = Strangers \ {c} /\ c \in Strangers
      BY <1>1, <1>3, <2>2 DEF Strangers
    <3>2. Cardinality(Strangers) \in Nat /\ Cardinality(Strangers') = Cardinality(Strangers) - 1
      BY <3>1, Finite, OneFewer
    <3> QED BY <1>5, <2>1, <2>2, <3>2, SMT DEF ConnInv, PermitsOK
  <2>3. CASE ~task[c].pre
    <3>1. Strangers' = Strangers
      BY <1>1, <1>3, <2>3 DEF Strangers
    <3> QED BY <1>5, <2>1, <2>3, <3>1, SMT DEF ConnInv, PermitsOK
  <2> QED BY <2>2, <2>3
<1>8. PreOK'
  BY <1>1, <1>3, <1>5 DEF ConnInv, PreOK, Stranger
<1>9. RegistryOK'
  <2>1. \A d \in Open' : d \in Open /\ d # c /\ task'[d] = task[d]
    BY <1>3, <1>4 DEF Open
  <2>2. \A d \in Open : d # c => task[d].id # task[c].id
    BY <1>4 DEF ConnInv, RegistryOK
  <2>3. {task'[d].id : d \in Open'} = {task[d].id : d \in Open} \ {task[c].id}
    BY <1>4, <2>1, <2>2
  <2>4. registry' \ orphans' = {task'[d].id : d \in Open'}
    BY <2>3 DEF ConnInv, RegistryOK
  <2>5. task[c].id \in Nat /\ task[c].id < next_id
    BY <1>4 DEF ConnInv, RegistryOK, Typed, Tasks
  <2>8. \A id \in orphans : id \in Nat /\ id < next_id
    BY DEF ConnInv, RegistryOK
  <2>6. \A id \in orphans' : id \in Nat /\ id < next_id'
    <3> SUFFICES ASSUME NEW id \in orphans' PROVE id \in Nat /\ id < next_id'
      OBVIOUS
    <3>1. id \in orphans \/ id = task[c].id
      OBVIOUS
    <3>2. id \in Nat /\ id < next_id
      BY <2>5, <2>8, <3>1
    <3> QED BY <1>5, <3>2
  <2>7. /\ \A d \in Open' : task'[d].id < next_id'
        /\ \A d, e \in Open' : task'[d].id = task'[e].id => d = e
    BY <1>5, <2>1 DEF ConnInv, RegistryOK
  <2> QED BY <2>4, <2>6, <2>7 DEF RegistryOK
<1>10. SequenceOK'
  BY <1>4 DEF ConnInv, SequenceOK, ServerSide
<1> QED BY <1>6, <1>7, <1>8, <1>9, <1>10 DEF ConnInv

\* The end of the task: its registry entry and its permit go back.
LEMMA EndKeeps ==
  ASSUME ConnInv, NEW c \in Conns, End(c)
  PROVE  ConnInv'
<1>1. /\ task[c].pc = "ending" /\ registry' = registry \ {task[c].id}
      /\ free' = free + 1 /\ Move(c, Absent)
      /\ UNCHANGED <<ServerSide, pre_free, orphans, next_id>>
  BY DEF End
<1>2. task[c].pc # "absent" /\ ~task[c].pre
  BY <1>1 DEF ConnInv, PreOK
<1>3. task[c].id \in registry \ orphans
  BY <1>2 DEF ConnInv, RegistryOK, Open
<1>4. /\ registry' \ orphans' = (registry \ orphans) \ {task[c].id}
      /\ orphans' \subseteq registry' /\ orphans' \subseteq orphans \cup {task[c].id}
  BY <1>1, <1>3 DEF ConnInv, RegistryOK
<1> QED BY <1>1, <1>2, <1>4, OneGoes

\* A panic in the task: its permits go back, its registry entry stays.
LEMMA TaskPanicsKeeps ==
  ASSUME ConnInv, NEW c \in Conns, TaskPanics(c)
  PROVE  ConnInv'
<1>1. /\ task[c].pc # "absent" /\ free' = free + 1 /\ Move(c, Absent)
      /\ pre_free' = (IF task[c].pre THEN pre_free + 1 ELSE pre_free)
      /\ orphans' = orphans \cup {task[c].id} /\ registry' = registry
      /\ UNCHANGED <<ServerSide, next_id>>
  BY DEF TaskPanics, FreePre
<1>2. task[c].id \in registry
  BY <1>1 DEF ConnInv, RegistryOK, Open
<1>3. /\ registry' \ orphans' = (registry \ orphans) \ {task[c].id}
      /\ orphans' \subseteq registry' /\ orphans' \subseteq orphans \cup {task[c].id}
  BY <1>1, <1>2 DEF ConnInv, RegistryOK
<1> QED BY <1>1, <1>3, OneGoes

\* Nothing but the server's own state moves: the warmer and the stages of the
\* shutdown.
LEMMA ServerMoves ==
  ASSUME ConnInv, SequenceOK',
         UNCHANGED <<setup, task, free, pre_free, registry, orphans, next_id>>
  PROVE  ConnInv'
<1>1. Open' = Open /\ Strangers' = Strangers
  BY DEF Open, Strangers
<1> QED BY <1>1 DEF ConnInv, Typed, PermitsOK, PreOK, Stranger, RegistryOK

\* The stages of serve's end, and the warmer's loop, in the order serve runs them.
LEMMA ServerStepKeeps ==
  ASSUME ConnInv, ServerStep
  PROVE  ConnInv'
<1>1. UNCHANGED <<setup, task, free, pre_free, registry, orphans, next_id>>
  BY DEF ServerStep, WarmStep, WarmAgain, WarmStops, Shutdown, JoinTasks, Drained,
         DrainTimeout, Close, TaskSide, Onward
<1>2. Open' = Open
  BY <1>1 DEF Open
<1>3. SequenceOK'
  <2>1. ASSUME NEW locked \in BOOLEAN, WarmStep(locked) PROVE SequenceOK'
    BY <1>2, <2>1 DEF WarmStep, TaskSide, ConnInv, SequenceOK
  <2>2. CASE WarmAgain
    BY <1>2, <2>2 DEF WarmAgain, TaskSide, ConnInv, SequenceOK
  <2>3. CASE WarmStops
    <3>1. ~(server \in {"draining", "syncing", "closed"})
      BY <2>3 DEF WarmStops, ConnInv, SequenceOK
    <3> QED BY <1>2, <2>3, <3>1 DEF WarmStops, TaskSide, ConnInv, SequenceOK
  <2>4. CASE Shutdown
    BY <1>2, <2>4 DEF Shutdown, Onward, ConnInv, SequenceOK
  <2>5. CASE JoinTasks
    BY <1>2, <2>5 DEF JoinTasks, Onward, ConnInv, SequenceOK
  <2>6. CASE Drained
    <3>1. free = setup.max /\ free + Cardinality(Open) = setup.max /\ free \in Nat
      BY <2>6 DEF Drained, ConnInv, PermitsOK, Typed
    <3>2. Cardinality(Open) \in Nat
      BY Finite, FS_CardinalityType
    <3>3. Cardinality(Open) = 0
      BY <3>1, <3>2, SMT
    <3>4. Open = {}
      BY <3>3, Finite, FS_EmptySet
    <3> QED BY <1>2, <2>6, <3>4 DEF Drained, Onward, ConnInv, SequenceOK
  <2>7. CASE DrainTimeout
    BY <1>2, <2>7 DEF DrainTimeout, Onward, ConnInv, SequenceOK
  <2>8. CASE Close
    BY <1>2, <2>8 DEF Close, Onward, ConnInv, SequenceOK
  <2> QED BY <2>1, <2>2, <2>3, <2>4, <2>5, <2>6, <2>7, <2>8 DEF ServerStep
<1> QED BY <1>1, <1>3, ServerMoves

-----------------------------------------------------------------------------
\* A server in which nobody is connected, be it new or gone.
LEMMA NobodyThere ==
  ASSUME setup \in Servers, task = [c \in Conns |-> Absent], next_id \in Nat,
         free = setup.max, pre_free = setup.pre, registry = {}, orphans = {}, SequenceOK
  PROVE  ConnInv
<1>1. Absent \in Tasks /\ ~Absent.pre /\ Absent.pc = "absent"
  BY DEF Absent, Tasks
<1>2. \A c \in Conns : task[c] = Absent
  OBVIOUS
<1>3. Open = {} /\ Strangers = {}
  BY <1>1, <1>2 DEF Open, Strangers
<1>4. setup.max \in Nat /\ setup.pre \in Nat
  BY ConnAssumption
<1>5. Typed
  BY <1>1, <1>4 DEF Typed
<1>6. PermitsOK
  <2>1. Cardinality(Open) = 0 /\ Cardinality(Strangers) = 0
    BY <1>3, FS_EmptySet
  <2> QED BY <1>4, <2>1, SMT DEF PermitsOK
<1>7. PreOK
  BY <1>1, <1>2 DEF PreOK
<1>8. RegistryOK
  BY <1>3 DEF RegistryOK
<1> QED BY <1>5, <1>6, <1>7, <1>8 DEF ConnInv

\* A server that has accepted nobody.
LEMMA InitOK == ConnInit => ConnInv
<1> SUFFICES ASSUME ConnInit PROVE ConnInv
  OBVIOUS
<1>1. SequenceOK
  BY DEF ConnInit, SequenceOK
<1> QED BY <1>1, NobodyThere DEF ConnInit

\* A panic that ends the process.
LEMMA AbortKeeps ==
  ASSUME ConnInv, NEW c \in Conns, ProcessAborts(c)
  PROVE  ConnInv'
<1>1. /\ server' = "aborted" /\ task' = [d \in Conns |-> Absent]
      /\ free' = setup.max /\ pre_free' = setup.pre /\ registry' = {} /\ orphans' = {}
      /\ setup' = setup /\ next_id' = next_id
  BY DEF ProcessAborts
<1>2. setup \in Servers /\ setup.max \in Nat /\ setup.pre \in Nat /\ next_id \in Nat
  BY ConnAssumption DEF ConnInv, Typed
<1>3. Absent \in Tasks /\ ~Absent.pre /\ Absent.pc = "absent"
  BY DEF Absent, Tasks
<1>4. \A d \in Conns : task'[d] = Absent
  BY <1>1
<1>5. Open' = {} /\ Strangers' = {}
  BY <1>3, <1>4 DEF Open, Strangers
<1>6. Typed'
  BY <1>1, <1>2, <1>3 DEF Typed
<1>7. PermitsOK'
  <2>1. Cardinality(Open') = 0 /\ Cardinality(Strangers') = 0
    BY <1>5, FS_EmptySet
  <2> QED BY <1>1, <1>2, <2>1, SMT DEF PermitsOK
<1>8. PreOK'
  BY <1>3, <1>4 DEF PreOK
<1>9. RegistryOK' /\ SequenceOK'
  BY <1>1, <1>5 DEF RegistryOK, SequenceOK
<1> QED BY <1>6, <1>7, <1>8, <1>9 DEF ConnInv

\* Every step of the server, of a peer or of a task keeps the invariant.
LEMMA StepOK == ConnInv /\ [ConnNext]_connVars => ConnInv'
<1> SUFFICES ASSUME ConnInv, [ConnNext]_connVars PROVE ConnInv'
  OBVIOUS
<1>1. CASE ServerStep
  BY <1>1, ServerStepKeeps
<1>2. ASSUME NEW c \in Conns, PeerStep(c) PROVE ConnInv'
  <2>1. CASE \E tls \in BOOLEAN : Accept(c, tls)
    BY <2>1, AcceptKeeps
  <2>2. CASE \E certified \in BOOLEAN : HandshakeSucceeds(c, certified)
    BY <2>2, HandshakeSucceedsKeeps
  <2>3. CASE PeerCloses(c) \/ ReadTooMuch(c) \/ ReadUnknownDialect(c) \/ WriteFails(c)
    BY <2>3, LeaveKeeps DEF PeerCloses, ReadTooMuch, ReadUnknownDialect, WriteFails
  <2>4. CASE ReadPart(c)
    BY <2>4, ReadPartKeeps
  <2>5. CASE ReadBlock(c)
    BY <2>5, ReadBlockKeeps
  <2>6. CASE WriteReplies(c)
    BY <2>6, WriteRepliesKeeps
  <2> QED BY <1>2, <2>1, <2>2, <2>3, <2>4, <2>5, <2>6 DEF PeerStep
<1>3. ASSUME NEW c \in Conns, TaskStep(c) PROVE ConnInv'
  <2>1. CASE \/ HandshakeFails(c) \/ BlockPanics(c) \/ NoticeShutdown(c)
             \/ AuthTimeout(c) \/ SilentTimeout(c)
    BY <2>1, LeaveKeeps DEF HandshakeFails, BlockPanics, NoticeShutdown, AuthTimeout, SilentTimeout
  <2>2. CASE \E authed, failed, closing \in BOOLEAN :
               ~(authed /\ failed) /\ Executed(c, authed, failed, closing)
    BY <2>2, ExecutedKeeps
  <2>3. CASE DeadlinePasses(c)
    BY <2>3, DeadlineKeeps
  <2>4. CASE End(c) \/ TaskPanics(c)
    BY <2>4, EndKeeps, TaskPanicsKeeps
  <2> QED BY <1>3, <2>1, <2>2, <2>3, <2>4 DEF TaskStep
<1>5. ASSUME NEW c \in Conns, ProcessAborts(c) PROVE ConnInv'
  BY <1>5, AbortKeeps
<1>4. CASE UNCHANGED connVars
  <2>1. Open' = Open /\ Strangers' = Strangers
    BY <1>4 DEF connVars, Open, Strangers
  <2> QED BY <1>4, <2>1 DEF connVars, ConnInv, Typed, PermitsOK, PreOK, Stranger, RegistryOK, SequenceOK
<1> QED BY <1>1, <1>2, <1>3, <1>4, <1>5 DEF ConnNext

\* The invariant holds at every moment of a server's life, panics included.
THEOREM ServingIsSound == ConnSpec => []ConnInv
<1>1. ConnInit => ConnInv
  BY InitOK
<1>2. ConnInv /\ [ConnNext]_connVars => ConnInv'
  BY StepOK
<1> QED BY <1>1, <1>2, PTL DEF ConnSpec

\* However connections end, no permit is lost or returned twice and the pre-auth
\* permits count exactly the strangers; the registry shows every open connection, and
\* beyond them only those whose own task panicked (lib.rs serve, conn.rs handle,
\* connections.rs).
THEOREM PermitsBalance == ConnSpec => []AdmissionIsBalanced
<1>1. ConnInv => AdmissionIsBalanced
  <2> SUFFICES ASSUME ConnInv PROVE AdmissionIsBalanced
    OBVIOUS
  <2>1. free >= 0 /\ pre_free >= 0
    BY SMT DEF ConnInv, Typed
  <2>2. \A c \in Open : task[c].pc # "ending" => (task[c].pre <=> Stranger(c))
    BY DEF ConnInv, PreOK, Open
  <2> QED BY <2>1, <2>2 DEF ConnInv, PermitsOK, RegistryOK, Strangers, AdmissionIsBalanced
<1> QED BY <1>1, ServingIsSound, PTL

\* The store is synced and closed behind the last connection, unless the drain gave
\* up, and behind the warmer (lib.rs serve).
THEOREM ClosesBehindTheLast == ConnSpec => []ClosedOnlyWhenDrained
<1>1. ConnInv => ClosedOnlyWhenDrained
  BY DEF ConnInv, SequenceOK, ClosedOnlyWhenDrained
<1> QED BY <1>1, ServingIsSound, PTL

\* Once the tasks have been told to stop, connections only end: none is opened.
NoneOpensAfterStop == [][stop => stop' /\ Open' \subseteq Open]_connVars

\* The listener is dropped before the tasks are told (lib.rs serve), so the drain waits
\* for a set that only shrinks.
THEOREM DrainOnlyShrinks == ConnSpec => NoneOpensAfterStop
<1>1. ConnInv /\ [ConnNext]_connVars => [stop => stop' /\ Open' \subseteq Open]_connVars
  <2> SUFFICES ASSUME ConnInv, ConnNext, stop PROVE stop' /\ Open' \subseteq Open
    BY DEF connVars
  <2>1. server # "serving" /\ task \in [Conns -> Tasks]
    BY DEF ConnInv, SequenceOK, Typed
  <2>2. CASE ServerStep
    BY <2>2 DEF ServerStep, WarmStep, WarmAgain, WarmStops, Shutdown, JoinTasks, Drained,
                DrainTimeout, Close, TaskSide, Onward, Open
  <2>4. ASSUME NEW c \in Conns, ProcessAborts(c) PROVE stop' /\ Open' = {}
    <3>1. stop' /\ \A d \in Conns : task'[d] = Absent
      BY <2>4 DEF ProcessAborts
    <3>2. Absent.pc = "absent"
      BY DEF Absent
    <3> QED BY <3>1, <3>2 DEF Open
  <2>3. ASSUME NEW c \in Conns, PeerStep(c) \/ TaskStep(c)
        PROVE  stop' = stop /\ task[c].pc # "absent" /\ \A d \in Conns \ {c} : task'[d] = task[d]
    <3>1. \A t : Move(c, t) => \A d \in Conns \ {c} : task'[d] = task[d]
      BY <2>1 DEF Move
    <3>2. \A tls \in BOOLEAN : ~Accept(c, tls)
      BY <2>1 DEF Accept, Accepting
    <3>3. CASE PeerStep(c)
      BY <3>1, <3>2, <3>3 DEF PeerStep, HandshakeSucceeds, PeerCloses, ReadPart, ReadTooMuch,
           ReadUnknownDialect, ReadBlock, WriteReplies, WriteFails, Leave, ServerSide
    <3>4. CASE TaskStep(c)
      BY <3>1, <3>4 DEF TaskStep, HandshakeFails, Executed, BlockPanics, NoticeShutdown,
           TaskPanics, DeadlinePasses, AuthTimeout, SilentTimeout, End, Leave, ServerSide
    <3> QED BY <2>3, <3>3, <3>4
  <2> QED BY <2>2, <2>3, <2>4 DEF ConnNext, Open
<1> QED BY <1>1, ServingIsSound, PTL DEF ConnSpec, NoneOpensAfterStop

==============================================================================
