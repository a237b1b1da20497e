-------------------------------- MODULE Vcp --------------------------------
(***************************************************************************)
(* One vash-client talking to one server over the native protocol: the     *)
(* client of vash-client/src/lib.rs, the frame executor of                 *)
(* vash-server/src/vcp.rs, and the byte streams between them, which        *)
(* deliver what was written in pieces of any size.                         *)
(*                                                                         *)
(* The client has one request in flight.  A caller may give up on it while *)
(* it waits for the answer (the cluster's calls run under a timeout), and  *)
(* may use the client again afterwards; the answer it gave up on is then   *)
(* still on its way.  Giving up before the whole request was written is    *)
(* not modelled.                                                           *)
(*                                                                         *)
(* A call is [op, arg]: the method and its arguments, or op = "Raw" and    *)
(* the opcode byte and body another client sent.  What the store answers   *)
(* is any member of Answers: the store has modules of its own.             *)
(***************************************************************************)
EXTENDS VcpCodec, Auth

CONSTANTS
    Calls(_),           \* what a caller may ask as its n-th call, HELLO being the first
    Answers(_),         \* the replies the store may give to a decoded request
    Failures,           \* the statuses to_failed gives a store error
    PROTOCOL_VERSION, AUTH_REQUIRED,
    IdSpace,            \* request ids wrap, 2^32 in the code
    MaxCalls, MaxAbandoned,
    VcpWorlds           \* [version, required, roles, right, credential,
                        \*  flush_enabled, listing_enabled]

VARIABLES
    vcp,        \* the world
    client,     \* [pc, call, next_id, id, connected, roles]
    up, inbuf,  \* cells written by the client; cells the server has read
    down, buf,  \* cells written by the server; cells the client has read
    peer,       \* the server's ConnAuth, and whether it closed the connection
    asked,      \* the calls written and not yet executed, in order
    truth,      \* what the server did for each call, by call number
    result,     \* what the last call returned: [n, call, res]
    calls, abandoned

vcpVars == <<vcp, client, up, inbuf, down, buf, peer, asked, truth, result,
             calls, abandoned>>

(* A stream hands over one cell or all it has.  A piece of any other size   *)
(* is several pieces of one cell: nobody acts before a frame is complete.   *)
Pieces(stream) == IF stream = <<>> THEN {} ELSE {1, Len(stream)}

-----------------------------------------------------------------------------
(* The client. *)

(* round_trip, up to the write. *)
Send(call) ==
    LET id == client.next_id
        frame == IF call.op = "Raw"
                 THEN <<call.opcode, 0, 0, id, Len(call.body)>> \o call.body
                 ELSE encode_request(call.op, id, encode_body(call.op, call.arg))
    IN  /\ client' = [client EXCEPT !.pc = "reading", !.call = call, !.id = id,
                                    !.next_id = (id + 1) % IdSpace]
        /\ up' = up \o frame
        /\ asked' = Append(asked, [n |-> calls + 1, call |-> call])
        /\ calls' = calls + 1
        /\ UNCHANGED <<vcp, inbuf, down, buf, peer, truth, result, abandoned>>

(* connect_inner: HELLO first, then AUTH when there is a credential. *)
Connect ==
    /\ client.pc = "new"
    /\ Send([op |-> "Hello", arg |-> vcp.version])

Authenticate ==
    /\ client.pc = "greeted"
    /\ Send([op |-> "Auth",
             arg |-> [mechanism |-> vcp.credential[1], name |-> <<>>,
                      secret |-> vcp.credential[2]]])

Call(call) ==
    /\ client.pc = "idle" /\ calls < MaxCalls
    /\ Send(call)

(* The caller drops the call while it waits. *)
GiveUp ==
    /\ client.pc = "reading" /\ client.connected /\ abandoned < MaxAbandoned
    /\ client' = [client EXCEPT !.pc = "idle"]
    /\ abandoned' = abandoned + 1
    /\ UNCHANGED <<vcp, up, inbuf, down, buf, peer, asked, truth, result, calls>>

(* read_buf: whatever has arrived, in pieces of any size. *)
ClientReads ==
    /\ client.pc = "reading" /\ peek_frame_len(buf).kind = "Incomplete"
    /\ \E n \in Pieces(down) :
          /\ buf' = buf \o SubSeq(down, 1, n)
          /\ down' = SubSeq(down, n + 1, Len(down))
    /\ UNCHANGED <<vcp, client, up, inbuf, peer, asked, truth, result, calls,
                   abandoned>>

(* A slip: the answer is not matched with the request by its id. *)
outcome_unmatched(frame, id, op) ==
    LET status == from_u16(frame[3])
        body == SubSeq(frame, HEADER_LEN + 1, Len(frame))
        answer == decode_answer(op, body)
    IN  CASE status = "None" -> [kind |-> "Protocol"]
          [] status = "NotFound" -> decode_absent(op)
          [] status # "Ok" -> [kind |-> "Status", status |-> status]
          [] answer.ok -> [kind |-> "Ok", val |-> answer.val]
          [] OTHER -> [kind |-> "Protocol"]

(* round_trip after read_frame, and the method's reading of the body. *)
outcome(frame, id, op) ==
    LET status == from_u16(frame[3])
        body == SubSeq(frame, HEADER_LEN + 1, Len(frame))
        answer == decode_answer(op, body)
    IN  CASE frame[4] # id \/ status = "None" -> [kind |-> "Protocol"]
          [] status = "NotFound" -> decode_absent(op)
          [] status # "Ok" -> [kind |-> "Status", status |-> status]
          [] answer.ok -> [kind |-> "Ok", val |-> answer.val]
          [] OTHER -> [kind |-> "Protocol"]

(* What connect_inner does with the answer to HELLO: a client that must     *)
(* authenticate and has no credential fails here.                           *)
AfterHello(res) ==
    CASE res.kind # "Ok" -> "dead"
      [] res.val[1] # PROTOCOL_VERSION -> "dead"
      [] vcp.credential # None -> "greeted"
      [] res.val[5] = AUTH_REQUIRED -> "dead"
      [] OTHER -> "idle"

(* A method returns.  A failed AUTH leaves the roles as they were. *)
Returns(res) ==
    LET op == client.call.op
        pc == CASE op = "Hello" -> AfterHello(res)
                [] op = "Auth" -> IF res.kind = "Ok" THEN "idle" ELSE "dead"
                [] OTHER -> "idle"
    IN  /\ client' = [client EXCEPT !.pc = pc,
                         !.connected = @ \/ pc = "idle",
                         !.roles = IF op = "Auth" /\ res.kind = "Ok"
                                   THEN res.val ELSE @]
        /\ result' = [n |-> calls, res |-> res]

TakeAnswer ==
    LET peek == peek_frame_len(buf)
    IN  /\ client.pc = "reading" /\ peek.kind = "Complete"
        /\ buf' = SubSeq(buf, peek.len + 1, Len(buf))
        /\ Returns(outcome(SubSeq(buf, 1, peek.len), client.id,
                           IF client.call.op = "Raw" THEN "Ping"
                           ELSE client.call.op))
        /\ UNCHANGED <<vcp, up, inbuf, down, peer, asked, truth, calls, abandoned>>

(* A frame over the maximum, or the end of the stream inside a frame. *)
AnswerNeverComes ==
    LET peek == peek_frame_len(buf)
    IN  /\ client.pc = "reading"
        /\ \/ peek.kind = "TooLarge" /\ Returns([kind |-> "Protocol"])
           \/ /\ peek.kind = "Incomplete" /\ down = <<>> /\ peer.closed
              /\ Returns([kind |-> "Io"])
        /\ UNCHANGED <<vcp, up, inbuf, down, buf, peer, asked, truth, calls,
                       abandoned>>

-----------------------------------------------------------------------------
(* The server. *)

ServerReads ==
    /\ ~peer.closed /\ peek_frame_len(inbuf).kind = "Incomplete"
    /\ \E n \in Pieces(up) :
          /\ inbuf' = inbuf \o SubSeq(up, 1, n)
          /\ up' = SubSeq(up, n + 1, Len(up))
    /\ UNCHANGED <<vcp, client, down, buf, peer, asked, truth, result, calls,
                   abandoned>>

(* conn::drain on FrameLen::TooLarge: the stream cannot be resynchronised. *)
ServerCloses ==
    /\ ~peer.closed /\ peek_frame_len(inbuf).kind = "TooLarge"
    /\ peer' = [peer EXCEPT !.closed = TRUE]
    /\ UNCHANGED <<vcp, client, up, inbuf, down, buf, asked, truth, result,
                   calls, abandoned>>

(* header_refusal, from the header alone. *)
header_refusal(frame) ==
    LET op == from_u8(frame[1])
        gate(needed) == refusal(vcp.required, peer.conn, needed)
    IN  CASE ~is_authenticated(peer.conn) /\ op \in {"Hello", "Auth"} -> FALSE
          [] op = "None" -> gate({}) = "unauthenticated"
          [] OTHER -> gate(roles_for_opcode(op)) # None

(* The first frame has been executed: `cells` go out, and `truth` says what *)
(* was done for the call the frame came from.                               *)
Executed(len, cells, what, conn) ==
    /\ inbuf' = SubSeq(inbuf, len + 1, Len(inbuf))
    /\ down' = down \o cells
    /\ asked' = Tail(asked)
    /\ truth' = Append(truth, what)
    /\ peer' = [peer EXCEPT !.conn = conn]
    /\ UNCHANGED <<vcp, client, up, buf, result, calls, abandoned>>

Refusal(status) == [kind |-> "Status", status |-> status]

(* execute_auth: PLAIN only, the default identity for an empty name, and    *)
(* the granted roles in the answer.                                         *)
execute_auth(len, d) ==
    LET auth == d.body.val
        plain == auth.mechanism = 0
        right == plain /\ auth.name = <<>> /\ auth.secret = vcp.right
        status == CASE ~plain -> "Unsupported"
                    [] right -> "Ok"
                    [] OTHER -> "Unauthorized"
        body == IF right THEN <<vcp.bits>> ELSE <<>>
    IN  Executed(len, encode_response(d.raw, d.id, status, body),
                 IF right THEN [kind |-> "Ok", val |-> body] ELSE Refusal(status),
                 CASE right -> succeed(peer.conn, [roles |-> vcp.roles])
                   [] plain /\ ~right -> fail(peer.conn)
                   [] OTHER -> peer.conn)

(* dispatch::execute_inner's own refusals; what passes goes to the store. *)
execute_inner(d) ==
    CASE d.op = "Hello" ->
            IF d.body.val = PROTOCOL_VERSION
            THEN {[kind |-> "Hello",
                   info |-> <<PROTOCOL_VERSION, 1, MAX_KEY_LEN, 9,
                              IF vcp.required THEN AUTH_REQUIRED ELSE 0, 2>>]}
            ELSE {[kind |-> "Failed", status |-> "Unsupported"]}
      [] d.op = "Flush" /\ ~vcp.flush_enabled ->
            {[kind |-> "Failed", status |-> "Unauthorized"]}
      [] d.op \in {"ListKeys", "ListTags"} /\ ~vcp.listing_enabled ->
            {[kind |-> "Failed", status |-> "Unauthorized"]}
      [] d.op \in {"Ping", "Cluster"} -> Answers(d)
      [] OTHER -> Answers(d)
                    \cup {[kind |-> "Failed", status |-> s] : s \in Failures}

(* What the caller should learn from a reply. *)
Meaning(op, reply) ==
    CASE reply.kind = "Failed" -> Refusal(reply.status)
      [] reply.kind = "NotFound" -> decode_absent(op)
      [] OTHER -> [kind |-> "Ok",
           val |-> CASE reply.kind = "Pong" -> <<>>
                     [] reply.kind \in {"Deleted", "Touched"} -> TRUE
                     [] reply.kind = "Invalidated" -> reply.existed
                     [] reply.kind = "Flushed" -> reply.epoch
                     [] reply.kind = "Stored" -> reply.cas
                     [] reply.kind = "StoredMany" -> reply.cas
                     [] reply.kind = "DeletedMany" -> reply.hits
                     [] reply.kind = "Hello" -> reply.info
                     [] reply.kind = "Value" -> <<reply.value>>
                     [] reply.kind = "Values" -> reply.slots
                     [] reply.kind = "Arithmetic" ->
                          <<[mode |-> reply.mode, wrote |-> reply.wrote,
                             value |-> reply.value, applied |-> reply.applied]>>
                     [] reply.kind = "TagSync" ->
                          [full |-> FALSE, entries |-> reply.entries]
                     [] reply.kind = "Listing" ->
                          [entries |-> reply.entries, scanned |-> reply.scanned,
                           cursor |-> reply.cursor, truncated |-> reply.truncated]
                     [] reply.kind = "Cluster" ->
                          [mode |-> reply.mode, peers |-> reply.peers]]

(* A fused GET_MANY streams its entries behind a placeholder length; the    *)
(* store may fail half way, and the body may outgrow a frame.               *)
get_many_into(d, reply) ==
    LET start == Len(down)
        opened == open(down, d.raw, d.id, Len(d.body.val))
        fill(n) == opened \o EachOf(SubSeq(reply.slots, 1, n), encode_slot)
        whole == finish(fill(Len(reply.slots)), start)
    IN  IF reply.kind = "Failed"
        THEN [out |-> abandon(opened \o <<0>>, start)
                        \o encode_error(d.raw, d.id, reply.status),
              what |-> Refusal(reply.status)]
        ELSE IF whole.ok THEN [out |-> whole.out, what |-> Meaning(d.op, reply)]
        ELSE [out |-> whole.out \o encode_error(d.raw, d.id, "TooLarge"),
              what |-> Refusal("TooLarge")]

(* A slip: a failure of the store is not answered. *)
AnswerSilent(d, reply) ==
    IF reply.kind = "Failed" THEN <<>>
    ELSE LET e == encode_reply(reply)
         IN  encode_response(d.raw, d.id, e.status, e.body)

(* The cells of an answer that is not fused. *)
Answer(d, reply) ==
    IF reply.kind = "Failed" THEN encode_error(d.raw, d.id, reply.status)
    ELSE LET e == encode_reply(reply)
         IN  encode_response(d.raw, d.id, e.status, e.body)

(* execute_frame_into of one complete frame.  NO_REPLY is Pipeline's. *)
ExecuteFrame ==
    LET peek == peek_frame_len(inbuf)
        frame == SubSeq(inbuf, 1, peek.len)
        d == decode(frame)
    IN  /\ ~peer.closed /\ peek.kind = "Complete"
        /\ CASE header_refusal(frame) ->
                  Executed(peek.len, encode_error(frame[1], frame[4],
                                                  "Unauthorized"),
                           Refusal("Unauthorized"), peer.conn)
             [] ~header_refusal(frame) /\ ~d.body.ok ->
                  Executed(peek.len, encode_error(d.raw, d.id, d.body.status),
                           Refusal(d.body.status), peer.conn)
             [] ~header_refusal(frame) /\ d.body.ok /\ d.op = "Auth" ->
                  execute_auth(peek.len, d)
             [] OTHER ->
                  \E reply \in execute_inner(d) :
                     IF d.op = "GetMany" /\ d.body.val # <<>>
                     THEN LET r == get_many_into(d, reply)
                          IN  Executed(peek.len,
                                 SubSeq(r.out, Len(down) + 1, Len(r.out)),
                                 r.what, peer.conn)
                     ELSE Executed(peek.len, Answer(d, reply),
                                   Meaning(d.op, reply), peer.conn)

-----------------------------------------------------------------------------
VcpInit ==
    /\ vcp \in VcpWorlds
    /\ client = [pc |-> "new", call |-> [op |-> "Ping", arg |-> <<>>],
                 next_id |-> 0, id |-> 0, connected |-> FALSE, roles |-> None]
    /\ up = <<>> /\ inbuf = <<>> /\ down = <<>> /\ buf = <<>>
    /\ peer = [conn |-> Unauthenticated, closed |-> FALSE]
    /\ asked = <<>> /\ truth = <<>>
    /\ result = [n |-> 0, res |-> [kind |-> "Io"]]
    /\ calls = 0 /\ abandoned = 0

(* What happens by itself once a call is written. *)
Moves == \/ ClientReads \/ TakeAnswer \/ AnswerNeverComes
         \/ ServerReads \/ ServerCloses \/ ExecuteFrame

VcpNext == \/ Connect \/ Authenticate \/ GiveUp
           \/ (\E call \in Calls(calls + 1) : Call(call))
           \/ Moves

VcpSpec == VcpInit /\ [][VcpNext]_vcpVars

-----------------------------------------------------------------------------
(* vash-client round_trip and every method above it: what a call returns,   *)
(* when it returns an answer at all, is what the server did for that very   *)
(* call.  It holds however the streams cut the frames, after calls the      *)
(* caller gave up on, and for every reply the codecs carry.                 *)
AnswerIsForThisCall ==
    result.res.kind \in {"Ok", "Status"} =>
        /\ result.n \in DOMAIN truth
        /\ result.res = truth[result.n]

(* The calls that stay within the limits of the protocol. *)
WithinLimits(call) ==
    LET key(k) == Len(k) \in 1..MAX_KEY_LEN
        tag(t) == Len(t) \in 1..MAX_TAG_LEN
        set(s) == key(s.key) /\ \A i \in DOMAIN s.tags : tag(s.tags[i])
        every(seq, ok(_)) == Len(seq) <= MAX_BATCH_ITEMS
                                /\ \A i \in DOMAIN seq : ok(seq[i])
    IN  CASE call.op \in {"Get", "Delete"} -> key(call.arg)
          [] call.op \in {"Touch", "Arithmetic"} -> key(call.arg.key)
          [] call.op = "Set" -> set(call.arg)
          [] call.op \in {"GetMany", "DeleteMany"} -> every(call.arg, key)
          [] call.op = "SetMany" -> every(call.arg, set)
          [] call.op = "DeleteByTag" -> tag(call.arg)
          [] call.op = "TagSync" ->
                /\ Len(call.arg.entries) <= MAX_TAG_SYNC_ENTRIES
                /\ \A i \in DOMAIN call.arg.entries : tag(call.arg.entries[i][1])
          [] call.op \in {"ListKeys", "ListTags"} ->
                /\ call.arg.limit \in 1..MAX_LIST_LIMIT
                /\ Len(call.arg.cursor) <= MAX_LIST_CURSOR_LEN
                /\ Len(call.arg.pattern) <= MAX_KEY_LEN
          [] OTHER -> call.op \notin {"Raw", "Stats"}

(* vcp/decode.rs against vcp/encode.rs: when the server holds a complete    *)
(* frame it is the frame of the oldest call it has not executed; it accepts *)
(* the body exactly when the call stays within the limits, and reads out of *)
(* it what the caller asked for.  So a frame it refused left the next one   *)
(* where it was, however the stream was cut.                                *)
ServerReadsWhatWasSent ==
    LET peek == peek_frame_len(inbuf)
        d == decode(SubSeq(inbuf, 1, peek.len))
        call == Head(asked).call
    IN  ~peer.closed /\ peek.kind = "Complete" =>
          /\ asked # <<>>
          /\ d.body.ok <=> WithinLimits(call)
          /\ d.body.ok => d.op = call.op /\ d.body.val = call.arg

(* ValuesFrame::finish: the server never writes a frame the client would    *)
(* have to drop the connection over, whatever a batch read adds up to.      *)
ServerFramesFit == peek_frame_len(buf \o down).kind # "TooLarge"

(* A call whose caller waits comes back, with an answer or an error: while  *)
(* round_trip reads there is always a byte to move, a frame to execute or a *)
(* close to notice, and each of those happens only so often per call.       *)
NoCallIsStranded == client.pc = "reading" => ENABLED Moves
=============================================================================
