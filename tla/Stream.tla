------------------------------- MODULE Stream -------------------------------
(***************************************************************************)
(* The read side of a connection of one dialect: bytes arrive in pieces of *)
(* any size, the buffer is measured for the longest prefix that is whole   *)
(* commands (conn.rs, measure_memcached and measure_resp), that block is   *)
(* handed to an executor which parses it a second time, and what is left   *)
(* waits for more bytes.                                                   *)
(*                                                                         *)
(* A request is a piece of the client's stream with what it means: the     *)
(* outcomes the server gives for it, one for all but the requests whose    *)
(* data block is read as commands, and whether it ends the conversation.   *)
(***************************************************************************)
EXTENDS Integers, Sequences

LOCAL INSTANCE SequencesExt

CONSTANTS
    Parse(_),       \* the dialect's parser: buffer -> [kind, consumed, what]
    Conversations   \* sequences of requests [bytes, means, fatal]

VARIABLES
    conversation,   \* what the client sends, request by request
    sent,           \* bytes of it that have arrived
    buf,            \* bytes read and not yet executed
    done,           \* outcomes answered so far
    dead            \* the stream could not be resynchronised

streamVars == <<conversation, sent, buf, done, dead>>

Bytes == FlattenSeq([i \in DOMAIN conversation |-> conversation[i].bytes])

\* How far the buffer is whole commands, and whether what follows is fatal.
measure(bytes) ==
    LET from[at \in 0 .. Len(bytes)] ==
            LET p == Parse(SubSeq(bytes, at + 1, Len(bytes))) IN
            CASE at = Len(bytes) \/ p.kind = "incomplete" ->
                     [complete |-> at, fatal |-> FALSE]
              [] p.kind = "fatal" -> [complete |-> at, fatal |-> TRUE]
              [] OTHER -> from[at + p.consumed]
    IN  from[0]

\* The executor's own pass over a block, which stops at anything the measure
\* should have left out.
Outcomes(block) ==
    LET from[at \in 0 .. Len(block)] ==
            LET p == Parse(SubSeq(block, at + 1, Len(block))) IN
            CASE at = Len(block) -> << >>
              [] p.kind \in {"incomplete", "fatal"} -> << [kind |-> "stopped"] >>
              [] OTHER -> <<p.what>> \o from[at + p.consumed]
    IN  from[0]

StreamInit ==
    /\ conversation \in Conversations
    /\ sent = 0 /\ buf = << >> /\ done = << >> /\ dead = FALSE

Arrive ==
    /\ ~dead
    /\ \E n \in 1 .. Len(Bytes) - sent :
           /\ sent' = sent + n
           /\ buf' = buf \o SubSeq(Bytes, sent + 1, sent + n)
    /\ UNCHANGED <<conversation, done, dead>>

Drain ==
    LET found == measure(buf) IN
    /\ ~dead
    /\ found.complete > 0 \/ found.fatal
    /\ done' = done \o Outcomes(SubSeq(buf, 1, found.complete))
    /\ buf' = SubSeq(buf, found.complete + 1, Len(buf))
    /\ dead' = found.fatal
    /\ UNCHANGED <<conversation, sent>>

StreamNext == Arrive \/ Drain

StreamSpec == StreamInit /\ [][StreamNext]_streamVars

(***************************************************************************)
(* What the client meant.                                                  *)
(***************************************************************************)

\* The requests up to and including the first that ends the conversation.
Heard ==
    LET upto[i \in 0 .. Len(conversation)] ==
            IF i = 0 THEN << >>
            ELSE IF \E j \in 1 .. i - 1 : conversation[j].fatal THEN upto[i - 1]
                 ELSE Append(upto[i - 1], conversation[i])
    IN  upto[Len(conversation)]

Meant == FlattenSeq([i \in DOMAIN Heard |-> Heard[i].means])

Drained == sent = Len(Bytes) /\ measure(buf) = [complete |-> 0, fatal |-> FALSE]

\* However the network cuts the stream, the server answers the requests the
\* client sent, one by one and in order: the block an executor re-parses ends
\* where the measure said (no "stopped" outcome), a value is read as commands
\* only where the request's meaning says that it is, and once everything has
\* arrived nothing is left unanswered.
AnswersWhatWasSent ==
    /\ IsPrefix(done, Meant)
    /\ (Drained \/ dead) => done = Meant
    /\ dead => \E i \in DOMAIN conversation : conversation[i].fatal
=============================================================================
