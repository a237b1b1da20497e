---------------------------- MODULE Connections ----------------------------
(***************************************************************************)
(* Connections from accept to close, and the server around them:           *)
(* vash-server/src/lib.rs serve (the accept loop, the two semaphores, the  *)
(* residency warmer, the shutdown sequence), serve_encrypted, conn.rs      *)
(* handle (the select, its deadlines, the ceilings, the write-back) and    *)
(* connections.rs (the registry).  What a block of commands does inside is *)
(* Pipeline's subject; here it is its outcome for the connection.          *)
(*                                                                         *)
(* A connection task is a record; `pc` is where it stands:                 *)
(*   absent -> handshake -> select -> executing -> writing -> select ...   *)
(*   -> ending -> absent                                                   *)
(***************************************************************************)
EXTENDS Integers, FiniteSets

CONSTANTS
    Conns,          \* the sockets peers may open
    Servers,        \* the settings the runs explore
    MaxAccepts,     \* bound: how many connections are accepted in all
    MaxWarmSteps    \* bound: how many times the warmer looks

(* The permits of a setting are two counts, and whether it authenticates is *)
(* a yes or a no.                                                           *)
ASSUME ConnAssumption ==
    /\ IsFiniteSet(Conns)
    /\ \A s \in Servers : s.max \in Nat /\ s.pre \in Nat /\ s.enforcing \in BOOLEAN

VARIABLES
    setup,          \* [sockets, enforcing, encrypted, first_byte, max, pre,
                    \*  attempts, ceiling, pre_ceiling, governs, unwinds]
    server,         \* serving, joining, draining, syncing, closed, aborted
    stop,           \* the watch channel every task holds a receiver of
    timed_out,      \* the drain gave up on connections still open
    task,           \* one record for every socket
    free,           \* permits left in `connections`
    pre_free,       \* permits left in `pre_auth`
    registry,       \* the ids Registry shows
    orphans,        \* the ids whose task was gone before it could close them
    next_id,        \* Registry's counter
    warm            \* [pc, steps, inline]: the warmer and the flag it swaps

connVars == <<setup, server, stop, timed_out, task, free, pre_free, registry,
              orphans, next_id, warm>>

Absent == [pc |-> "absent", id |-> 0, tls |-> FALSE, pre |-> FALSE,
           authed |-> FALSE, failures |-> 0, protocol |-> FALSE, buffered |-> 0,
           late |-> FALSE, closing |-> FALSE]

Move(c, fields) == task' = [task EXCEPT ![c] = fields]

(* Outside the accept loop nothing touches the admission state. *)
Admission == <<free, registry, orphans, next_id>>
ServerSide == <<setup, server, stop, timed_out, warm>>

-----------------------------------------------------------------------------
(* The accept loop.                                                         *)

Accepting(c) ==
    /\ server = "serving"
    /\ c \in setup.sockets
    /\ task[c].pc = "absent"
    /\ next_id <= MaxAccepts

(* Both permits and a registry entry, then a task of its own. *)
Accept(c, tls) ==
    /\ Accepting(c)
    /\ tls => setup.encrypted
    /\ free > 0
    /\ setup.enforcing => pre_free > 0
    /\ free' = free - 1
    /\ pre_free' = IF setup.enforcing THEN pre_free - 1 ELSE pre_free
    /\ registry' = registry \cup {next_id}
    /\ next_id' = next_id + 1
    /\ Move(c, [Absent EXCEPT !.pc = IF tls THEN "handshake" ELSE "select",
                              !.id = next_id, !.tls = tls,
                              !.pre = setup.enforcing])
    /\ UNCHANGED <<ServerSide, orphans>>

-----------------------------------------------------------------------------
(* TLS: serve_encrypted and peer_identity.                                  *)

FreePre(c) == pre_free' = IF task[c].pre THEN pre_free + 1 ELSE pre_free

(* A slip: the permit a certificate makes unnecessary is never returned. *)
HandshakeLeaks(c, certified) ==
    /\ task[c].pc = "handshake"
    /\ Move(c, [task[c] EXCEPT !.pc = "select", !.authed = certified,
                               !.pre = @ /\ ~certified])
    /\ UNCHANGED <<ServerSide, Admission, pre_free>>

(* No certificate, or one that names exactly one row, whose connection is   *)
(* authenticated before its first byte and needs no pre-auth permit.        *)
HandshakeSucceeds(c, certified) ==
    /\ task[c].pc = "handshake"
    /\ Move(c, [task[c] EXCEPT !.pc = "select", !.authed = certified,
                               !.pre = @ /\ ~certified])
    /\ IF certified THEN FreePre(c) ELSE UNCHANGED pre_free
    /\ UNCHANGED <<ServerSide, Admission>>

(* The future of the connection is dropped, its pre-auth permit with it;    *)
(* what the accept loop's task does afterwards is End.                      *)
Leave(c) ==
    /\ Move(c, [task[c] EXCEPT !.pc = "ending", !.pre = FALSE])
    /\ FreePre(c)
    /\ UNCHANGED <<ServerSide, Admission>>

(* A failed or timed-out handshake, or a certificate no row or several rows *)
(* match.                                                                   *)
HandshakeFails(c) == task[c].pc = "handshake" /\ Leave(c)

-----------------------------------------------------------------------------
(* conn::handle                                                             *)

Stranger(c) == setup.enforcing /\ ~task[c].authed

(* What a read brings: nothing (the peer closed), bytes that complete no    *)
(* command, a first byte no enabled dialect has, or a block to execute.     *)
PeerCloses(c) == task[c].pc = "select" /\ Leave(c)

Ceiling(c) == IF Stranger(c) THEN setup.pre_ceiling ELSE setup.ceiling

ReadPart(c) ==
    /\ task[c].pc = "select"
    /\ task[c].buffered < Ceiling(c)
    /\ Move(c, [task[c] EXCEPT !.buffered = @ + 1, !.protocol = TRUE])
    /\ UNCHANGED <<ServerSide, Admission, pre_free>>

ReadTooMuch(c) ==
    /\ task[c].pc = "select"
    /\ task[c].buffered = Ceiling(c)
    /\ Leave(c)

ReadUnknownDialect(c) == task[c].pc = "select" /\ ~task[c].protocol /\ Leave(c)

ReadBlock(c) ==
    /\ task[c].pc = "select"
    /\ Move(c, [task[c] EXCEPT !.pc = "executing", !.protocol = TRUE, !.buffered = 0])
    /\ UNCHANGED <<ServerSide, Admission, pre_free>>

(* A slip: the permit is kept until the connection closes. *)
ExecutedKeepingPermit(c, authed, failed, closing) ==
    /\ task[c].pc = "executing"
    /\ failed => task[c].failures < setup.attempts
    /\ Move(c, [task[c] EXCEPT !.pc = "writing", !.closing = closing,
                               !.authed = @ \/ authed,
                               !.failures = IF failed THEN @ + 1 ELSE @])
    /\ UNCHANGED <<ServerSide, Admission, pre_free>>

(* drain, for the connection: it may authenticate (and then gives its       *)
(* pre-auth permit back), fail to, ask to close, or none of these.          *)
Executed(c, authed, failed, closing) ==
    /\ task[c].pc = "executing"
    /\ failed => task[c].failures < setup.attempts
    /\ Move(c, [task[c] EXCEPT !.pc = "writing", !.closing = closing,
                               !.authed = @ \/ authed,
                               !.pre = @ /\ ~authed,
                               !.failures = IF failed THEN @ + 1 ELSE @])
    /\ IF authed THEN FreePre(c) ELSE UNCHANGED pre_free
    /\ UNCHANGED <<ServerSide, Admission>>

(* Where panics unwind, one in the storage tier is an io::Error to the      *)
(* connection.                                                              *)
BlockPanics(c) == task[c].pc = "executing" /\ setup.unwinds /\ Leave(c)

(* One in what the task itself runs (a block of the inline tier, a run of   *)
(* writes it awaits) drops the task: both permits go back with it, but      *)
(* nothing closes the registry entry.                                       *)
TaskPanics(c) ==
    /\ task[c].pc = "executing" /\ setup.unwinds
    /\ FreePre(c)
    /\ free' = free + 1
    /\ orphans' = orphans \cup {task[c].id}
    /\ Move(c, Absent)
    /\ UNCHANGED <<ServerSide, registry, next_id>>

(* In a release build (Cargo.toml, panic = "abort") either ends the server, *)
(* and all of this goes with the process.                                   *)
ProcessAborts(c) ==
    /\ task[c].pc = "executing" /\ ~setup.unwinds
    /\ server' = "aborted" /\ stop' = TRUE
    /\ task' = [d \in Conns |-> Absent]
    /\ free' = setup.max /\ pre_free' = setup.pre
    /\ registry' = {} /\ orphans' = {}
    /\ warm' = [warm EXCEPT !.pc = "done"]
    /\ UNCHANGED <<setup, timed_out, next_id>>

(* The replies are out before the connection decides whether to go on. *)
WriteReplies(c) ==
    /\ task[c].pc = "writing"
    /\ IF task[c].closing \/ task[c].failures >= setup.attempts
       THEN Leave(c)
       ELSE /\ Move(c, [task[c] EXCEPT !.pc = "select"])
            /\ UNCHANGED <<ServerSide, Admission, pre_free>>

WriteFails(c) == task[c].pc = "writing" /\ Leave(c)

(* shutdown.changed(), noticed only between requests. *)
NoticeShutdown(c) == task[c].pc = "select" /\ stop /\ Leave(c)

(* The clock passes the deadlines set when the connection was accepted. *)
DeadlinePasses(c) ==
    /\ task[c].pc \notin {"absent", "handshake", "ending"}
    /\ ~task[c].late
    /\ Stranger(c) \/ (setup.first_byte /\ ~task[c].protocol)
    /\ Move(c, [task[c] EXCEPT !.late = TRUE])
    /\ UNCHANGED <<ServerSide, Admission, pre_free>>

(* A slip: only a silent connection is held to the deadline. *)
AuthTimeoutWhenSilent(c) ==
    /\ task[c].pc = "select" /\ task[c].late /\ Stranger(c)
    /\ ~task[c].protocol
    /\ Leave(c)

AuthTimeout(c) ==
    task[c].pc = "select" /\ task[c].late /\ Stranger(c) /\ Leave(c)

SilentTimeout(c) ==
    /\ task[c].pc = "select"
    /\ task[c].late /\ setup.first_byte /\ ~task[c].protocol
    /\ Leave(c)

(* The end of the task: the registry entry goes, then the permit. *)
End(c) ==
    /\ task[c].pc = "ending"
    /\ registry' = registry \ {task[c].id}
    /\ free' = free + 1
    /\ Move(c, Absent)
    /\ UNCHANGED <<ServerSide, pre_free, orphans, next_id>>

-----------------------------------------------------------------------------
(* The residency warmer: spawn_warmer and ServerState::set_inline_reads.    *)

TaskSide == <<setup, server, stop, timed_out, task, free, pre_free, registry, orphans,
              next_id>>

(* warm_step ran on the pool: the flag becomes whether every map is locked. *)
WarmStep(locked) ==
    /\ warm.pc = "step"
    /\ warm' = [pc |-> "wait", steps |-> warm.steps + 1, inline |-> locked]
    /\ UNCHANGED TaskSide

WarmAgain ==
    /\ warm.pc = "wait"
    /\ warm.steps < MaxWarmSteps
    /\ warm' = [warm EXCEPT !.pc = "step"]
    /\ UNCHANGED TaskSide

WarmStops ==
    /\ warm.pc = "wait"
    /\ stop
    /\ warm' = [warm EXCEPT !.pc = "done"]
    /\ UNCHANGED TaskSide

-----------------------------------------------------------------------------
(* Shutdown, in the order serve runs it.                                    *)

Onward == UNCHANGED <<setup, task, free, pre_free, registry, orphans, next_id, warm>>

(* The listener is dropped and every task told. *)
Shutdown ==
    /\ server = "serving"
    /\ server' = "joining"
    /\ stop' = TRUE
    /\ UNCHANGED timed_out /\ Onward

(* The administration, reload and warming tasks are joined first. *)
JoinTasks ==
    /\ server = "joining"
    /\ warm.pc = "done"
    /\ server' = "draining"
    /\ UNCHANGED <<stop, timed_out>> /\ Onward

(* A slip: one permit is waited for instead of all of them. *)
DrainedOfOne ==
    /\ server = "draining"
    /\ free > 0
    /\ server' = "syncing"
    /\ UNCHANGED <<stop, timed_out>> /\ Onward

(* acquire_many(max_connections): every permit is back. *)
Drained ==
    /\ server = "draining"
    /\ free = setup.max
    /\ server' = "syncing"
    /\ UNCHANGED <<stop, timed_out>> /\ Onward

(* A slip: the drain waits for its connections without a limit. *)
DrainTimeoutNever ==
    /\ server = "draining"
    /\ free = setup.max
    /\ server' = "syncing"
    /\ timed_out' = TRUE
    /\ UNCHANGED stop /\ Onward

DrainTimeout ==
    /\ server = "draining"
    /\ server' = "syncing"
    /\ timed_out' = TRUE
    /\ UNCHANGED stop /\ Onward

(* The final sync and the closing of the environments. *)
Close ==
    /\ server = "syncing"
    /\ server' = "closed"
    /\ UNCHANGED <<stop, timed_out>> /\ Onward

-----------------------------------------------------------------------------
ConnInit ==
    /\ setup \in Servers
    /\ server = "serving" /\ stop = FALSE /\ timed_out = FALSE
    /\ task = [c \in Conns |-> Absent]
    /\ free = setup.max
    /\ pre_free = setup.pre
    /\ registry = {} /\ orphans = {} /\ next_id = 1
    /\ warm = [pc |-> IF setup.governs THEN "step" ELSE "done", steps |-> 0,
               inline |-> FALSE]

PeerStep(c) ==
    \/ \E tls \in BOOLEAN : Accept(c, tls)
    \/ \E certified \in BOOLEAN : HandshakeSucceeds(c, certified)
    \/ PeerCloses(c) \/ ReadPart(c) \/ ReadTooMuch(c)
    \/ ReadUnknownDialect(c) \/ ReadBlock(c)
    \/ WriteReplies(c) \/ WriteFails(c)

TaskStep(c) ==
    \/ HandshakeFails(c)
    \/ \E authed, failed, closing \in BOOLEAN :
         ~(authed /\ failed) /\ Executed(c, authed, failed, closing)
    \/ BlockPanics(c) \/ TaskPanics(c)
    \/ NoticeShutdown(c) \/ DeadlinePasses(c)
    \/ AuthTimeout(c) \/ SilentTimeout(c) \/ End(c)

ServerStep ==
    \/ \E locked \in BOOLEAN : WarmStep(locked)
    \/ WarmAgain \/ WarmStops
    \/ Shutdown \/ JoinTasks \/ Drained \/ DrainTimeout \/ Close

ConnNext == \/ ServerStep
            \/ \E c \in Conns : PeerStep(c) \/ TaskStep(c) \/ ProcessAborts(c)

(* The runtime runs what is ready, timers included; a select that finds a   *)
(* deadline past and bytes to read picks either, so it cannot pass the      *)
(* deadline over for ever.  Nothing is assumed of the peer: it need neither *)
(* send, nor read what it is sent, nor close.                               *)
ConnFairness ==
    /\ \A c \in Conns :
         /\ WF_connVars(\/ HandshakeFails(c) \/ End(c)
                        \/ task[c].pc = "executing" /\ TaskStep(c))
         /\ WF_connVars(DeadlinePasses(c))
         /\ SF_connVars(AuthTimeout(c) \/ SilentTimeout(c) \/ NoticeShutdown(c))
    /\ WF_connVars(WarmStops \/ (\E locked \in BOOLEAN : WarmStep(locked))
                   \/ JoinTasks \/ Drained \/ DrainTimeout \/ Close)

ConnSpec == ConnInit /\ [][ConnNext]_connVars /\ ConnFairness

-----------------------------------------------------------------------------
(* Properties.                                                              *)

Open == {c \in Conns : task[c].pc # "absent"}

(* The variables stay in their types. *)
ConnTypeOK ==
    /\ server \in {"serving", "joining", "draining", "syncing", "closed", "aborted"}
    /\ stop \in BOOLEAN /\ timed_out \in BOOLEAN
    /\ free \in 0..setup.max /\ pre_free \in 0..setup.pre
    /\ registry \subseteq 1..MaxAccepts
    /\ \A c \in Conns : /\ task[c].buffered \in 0..setup.ceiling
                         /\ task[c].failures \in 0..setup.attempts

(* However a connection ends (a refused certificate, a timeout, a full      *)
(* buffer, a closing peer, a shutdown, a panic on the pool or in its own    *)
(* task), no permit is lost or returned twice and the caps hold; and the    *)
(* pre-auth permits count exactly the strangers: every connection yet to    *)
(* authenticate holds one, and no authenticated one takes up a stranger's   *)
(* place.  The registry shows every open connection under an id of its own, *)
(* and beyond them only connections that a panic in their own task ended.   *)
AdmissionIsBalanced ==
    /\ free >= 0 /\ free + Cardinality(Open) = setup.max
    /\ pre_free >= 0 /\ pre_free + Cardinality({c \in Conns : task[c].pre}) = setup.pre
    /\ registry \ orphans = {task[c].id : c \in Open} /\ orphans \subseteq registry
    /\ \A c, d \in Open : task[c].id = task[d].id => c = d
    /\ \A c \in Open : task[c].pc # "ending" => (task[c].pre <=> Stranger(c))

(* connections.rs:1: the registry says who is connected.  It still lists a  *)
(* connection whose task panicked.                                          *)
RegistryShowsWhoIsConnected == registry = {task[c].id : c \in Open}

(* Unless the drain gave up, the store is synced and closed with no         *)
(* connection left that could still use it, and with the warmer stopped.    *)
ClosedOnlyWhenDrained ==
    server \in {"syncing", "closed"} =>
        /\ timed_out \/ Open = {}
        /\ warm.pc = "done"

ShutdownCompletes == []<>(stop => server \in {"closed", "aborted"})

StrangersLeave ==
    \A c \in Conns : []<>(~task[c].pre) \/ <>[](task[c].pc = "writing")

(* A shutdown ends, whatever the peers do: idle connections notice it, and  *)
(* those that never finish are waited for no longer than the drain allows   *)
(* (lib.rs serve).  No stranger occupies a pre-auth place for ever, however *)
(* little it sends, except one whose replies its peer does not read: the    *)
(* deadline is only watched between requests (conn.rs handle).              *)
ConnectionsEnd == ShutdownCompletes /\ StrangersLeave
=============================================================================
