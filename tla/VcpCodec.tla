------------------------------ MODULE VcpCodec ------------------------------
(***************************************************************************)
(* The wire format of the native protocol: vash-proto/src/vcp.             *)
(*                                                                         *)
(* A frame is a sequence of cells.  A fixed-width integer is one cell      *)
(* whatever its width, a byte of a key, a value or a name is one cell, and *)
(* reserved fields are cells holding 0; so every length below counts       *)
(* cells.  Frames are cut, truncated and concatenated at cell boundaries.  *)
(* Numbers of the three arithmetic domains are one cell each: the bits are *)
(* copied, never interpreted, by both ends.                                *)
(***************************************************************************)
EXTENDS Integers, Sequences

LOCAL INSTANCE SequencesExt

CONSTANTS
    MAX_BODY_LEN, MAX_KEY_LEN, MAX_TAG_LEN,
    MAX_BATCH_ITEMS, MAX_TAG_SYNC_ENTRIES,
    MAX_LIST_CURSOR_LEN, MAX_LIST_LIMIT,
    MAX_AUTH_NAME_LEN, MAX_AUTH_SECRET_LEN

-----------------------------------------------------------------------------
(* frame.rs *)

HEADER_LEN == 5   \* opcode, flags, status, request_id, body_len

RESPONSE == 1

Opcodes == [Hello |-> 1, Ping |-> 2, Auth |-> 3, Stats |-> 4, Cluster |-> 5,
            Get |-> 16, Set |-> 17, Delete |-> 18, Touch |-> 19,
            Arithmetic |-> 20, GetMany |-> 32, SetMany |-> 33,
            DeleteMany |-> 34, DeleteByTag |-> 48, Flush |-> 49,
            TagSync |-> 64, ListKeys |-> 80, ListTags |-> 81]

Statuses == [Ok |-> 0, NotFound |-> 1, Exists |-> 2, BadRequest |-> 3,
             TooLarge |-> 4, Unauthorized |-> 5, Overloaded |-> 6,
             CapacityFull |-> 7, Unsupported |-> 8, Internal |-> 9,
             NotStored |-> 10, NotNumeric |-> 11]

(* Opcode::from_u8 and Status::from_u16: the name of a number, "None" for a *)
(* number that has none.                                                    *)
NameOf(table, v) ==
    IF \E name \in DOMAIN table : table[name] = v
    THEN CHOOSE name \in DOMAIN table : table[name] = v
    ELSE "None"

from_u8(v) == NameOf(Opcodes, v)
from_u16(v) == NameOf(Statuses, v)

(* FrameHeader::request and ::response, encode_request, encode_response,    *)
(* encode_error.                                                            *)
encode_request(opcode, id, body) ==
    <<Opcodes[opcode], 0, 0, id, Len(body)>> \o body

encode_response(opcode, id, status, body) ==
    <<opcode, RESPONSE, Statuses[status], id, Len(body)>> \o body

encode_error(opcode, id, status) == encode_response(opcode, id, status, <<>>)

(* peek_frame_len: where the first frame of a buffer ends. *)
peek_frame_len(buf) ==
    IF Len(buf) < HEADER_LEN THEN [kind |-> "Incomplete"]
    ELSE IF buf[HEADER_LEN] > MAX_BODY_LEN THEN [kind |-> "TooLarge"]
    ELSE IF Len(buf) < HEADER_LEN + buf[HEADER_LEN]
    THEN [kind |-> "Incomplete"]
    ELSE [kind |-> "Complete", len |-> HEADER_LEN + buf[HEADER_LEN]]

-----------------------------------------------------------------------------
(* Cursor, a bounds-checked forward reader.  A reading is a value and the   *)
(* cells left, or the status of the refusal; Then goes on only after a      *)
(* success, as `?` does.                                                    *)

Done(val, rest) == [ok |-> TRUE, val |-> val, rest |-> rest]
Fail(status) == [ok |-> FALSE, status |-> status]

Then(r, next(_, _)) ==
    CHOOSE after \in {IF read.ok THEN next(read.val, read.rest) ELSE read :
                         read \in {r}} : TRUE

take(c, n) == IF n <= Len(c)
              THEN Done(SubSeq(c, 1, n), SubSeq(c, n + 1, Len(c)))
              ELSE Fail("BadRequest")

int(c) == Then(take(c, 1), LAMBDA v, rest : Done(v[1], rest))

(* `n` items one after the other. *)
Many(n, c, item(_)) ==
    LET upTo[i \in 0..n] ==
            IF i = 0 THEN Done(<<>>, c)
            ELSE Then(upTo[i - 1], LAMBDA got, rest :
                   Then(item(rest), LAMBDA one, left :
                     Done(Append(got, one), left)))
    IN  upTo[n]

Checked(ok, status, r) == IF ok THEN r ELSE Fail(status)

-----------------------------------------------------------------------------
(* decode.rs *)

decode_count(c) ==
    Then(int(c), LAMBDA n, rest :
      Checked(n <= MAX_BATCH_ITEMS, "BadRequest", Done(n, rest)))

(* Key::new behind decode_key. *)
decode_key(bytes, rest) ==
    Checked(bytes # <<>>, "BadRequest",
      Checked(Len(bytes) <= MAX_KEY_LEN, "TooLarge", Done(bytes, rest)))

Prefixed(c, accept(_, _)) ==
    Then(int(c), LAMBDA n, rest : Then(take(rest, n), accept))

decode_key_list(c) ==
    Then(decode_count(c), LAMBDA n, rest :
      Many(n, rest, LAMBDA d : Prefixed(d, decode_key)))

TagName(name, rest) ==
    Checked(name # <<>> /\ Len(name) <= MAX_TAG_LEN, "BadRequest",
            Done(name, rest))

(* SetBodyHeader is ttl_secs, key_len, tag_count, reserved, value_len. *)
decode_set(c) ==
    Then(take(c, 5), LAMBDA h, c1 :
      Then(take(c1, h[2]), LAMBDA k, c2 :
        Then(decode_key(k, c2), LAMBDA key, c3 :
          Then(take(c3, h[5]), LAMBDA value, c4 :
            Then(Many(h[3], c4, LAMBDA d : Prefixed(d, TagName)),
                 LAMBDA tags, left :
              Done([key |-> key, value |-> value, ttl |-> h[1],
                    tags |-> tags], left))))))

Entry(c) == Then(int(c), LAMBDA version, rest :
              Then(Prefixed(rest, TagName), LAMBDA name, left :
                Done(<<name, version>>, left)))

decode_tag_sync(body) ==
    Then(take(body, 5), LAMBDA h, rest :
      Checked(h[1] \in {0, 1} /\ h[5] <= MAX_TAG_SYNC_ENTRIES, "BadRequest",
        Then(Many(h[5], rest, Entry), LAMBDA entries, left :
          Done([full |-> h[1] = 1, entries |-> entries], left))))

(* Listing and AUTH bodies refuse trailing cells. *)
Whole(r) == Then(r, LAMBDA v, rest : Checked(rest = <<>>, "BadRequest", r))

(* A slip: cells after the pattern are ignored. *)
decode_list_request_lenient(body) ==
    Then(take(body, 4), LAMBDA h, c1 :
      Checked(h[2] <= MAX_LIST_CURSOR_LEN /\ h[3] <= MAX_KEY_LEN, "BadRequest",
        Then(take(c1, h[2]), LAMBDA cursor, c2 :
          Then(take(c2, h[3]), LAMBDA pattern, left :
            Checked(h[1] \in 1..MAX_LIST_LIMIT, "BadRequest",
              Done([limit |-> h[1], cursor |-> cursor, pattern |-> pattern],
                   left))))))

decode_list_request(body) ==
    Then(take(body, 4), LAMBDA h, c1 :
      Checked(h[2] <= MAX_LIST_CURSOR_LEN /\ h[3] <= MAX_KEY_LEN, "BadRequest",
        Then(take(c1, h[2]), LAMBDA cursor, c2 :
          Then(Whole(take(c2, h[3])), LAMBDA pattern, left :
            Checked(h[1] \in 1..MAX_LIST_LIMIT, "BadRequest",
              Done([limit |-> h[1], cursor |-> cursor, pattern |-> pattern],
                   left))))))

decode_auth(body) ==
    Then(take(body, 3), LAMBDA h, c1 :
      Checked(h[2] <= MAX_AUTH_NAME_LEN /\ h[3] <= MAX_AUTH_SECRET_LEN,
              "BadRequest",
        Then(take(c1, h[2]), LAMBDA name, c2 :
          Then(Whole(take(c2, h[3])), LAMBDA secret, left :
            Done([mechanism |-> h[1], name |-> name, secret |-> secret],
                 left)))))

(* arithmetic_mode, arithmetic_flags, OnBound and TtlChange as numbers. *)
Modes == [Counter |-> 0, Int |-> 1, Float |-> 2]
Bounds == [Fail |-> 0, Skip |-> 1, Clamp |-> 2]
TtlKinds == [Keep |-> 0, Set |-> 1, SetIfPersistent |-> 2]
CREATE_AT_ZERO == 1
DECREMENT == 2

(* The numbers a mode does not use are not kept, as in Delta::Counter. *)
decode_arithmetic(c) ==
    Then(take(c, 8), LAMBDA h, rest :
      LET mode == NameOf(Modes, h[1])
          counter == mode = "Counter"
          ttl == NameOf(TtlKinds, h[4])
      IN  Checked(/\ mode # "None"
                  /\ NameOf(Bounds, h[3]) # "None"
                  /\ ttl # "None", "BadRequest",
            Then(decode_key(rest, <<>>), LAMBDA key, left :
              Done([key |-> key, mode |-> mode, delta |-> h[6],
                    decrement |-> counter /\ h[2] \in {2, 3},
                    lower |-> IF counter THEN 0 ELSE h[7],
                    upper |-> IF counter THEN 0 ELSE h[8],
                    on_bound |-> NameOf(Bounds, h[3]),
                    create |-> h[2] \in {1, 3},
                    ttl |-> <<ttl, IF ttl = "Keep" THEN 0 ELSE h[5]>>], left))))

TagBody(body) ==
    Checked(body # <<>>, "BadRequest",
      Checked(Len(body) <= MAX_TAG_LEN, "TooLarge", Done(body, <<>>)))

(* The argument an opcode's body carries. *)
decode_body(opcode, body) ==
    CASE opcode \in {"Ping", "Flush", "Cluster"} -> Done(<<>>, <<>>)
      [] opcode = "Hello" ->
            Then(take(body, 2), LAMBDA h, rest : Done(h[1], rest))
      [] opcode \in {"Get", "Delete"} -> decode_key(body, <<>>)
      [] opcode = "Set" -> decode_set(body)
      [] opcode = "Arithmetic" -> decode_arithmetic(body)
      [] opcode = "Touch" ->
            Then(int(body), LAMBDA ttl, rest :
              Then(decode_key(rest, <<>>), LAMBDA key, left :
                Done([key |-> key, ttl |-> ttl], left)))
      [] opcode \in {"GetMany", "DeleteMany"} -> decode_key_list(body)
      [] opcode = "SetMany" ->
            Then(decode_count(body), LAMBDA n, rest : Many(n, rest, decode_set))
      [] opcode = "DeleteByTag" -> TagBody(body)
      [] opcode = "TagSync" -> decode_tag_sync(body)
      [] opcode \in {"ListKeys", "ListTags"} -> decode_list_request(body)
      [] opcode = "Auth" -> decode_auth(body)
      [] OTHER -> Fail("Unsupported")   \* Stats, and a byte with no opcode

(* decode, of a frame whose boundary is known: a Request, an Auth or a      *)
(* DecodeError::Body.                                                       *)
decode(frame) ==
    LET op == from_u8(frame[1])
        body == SubSeq(frame, HEADER_LEN + 1, HEADER_LEN + frame[HEADER_LEN])
    IN  [id |-> frame[4], raw |-> frame[1], op |-> op,
         no_reply |-> frame[2] \in {2, 3}, body |-> decode_body(op, body)]

-----------------------------------------------------------------------------
(* encode.rs: the bodies a client builds. *)

WithLen(bytes) == <<Len(bytes)>> \o bytes
EachOf(items, encode(_)) == FlattenSeq([i \in DOMAIN items |-> encode(items[i])])

encode_set_body(s) ==
    <<s.ttl, Len(s.key), Len(s.tags), 0, Len(s.value)>>
        \o s.key \o s.value \o EachOf(s.tags, WithLen)

encode_key_list_body(keys) == <<Len(keys)>> \o EachOf(keys, WithLen)

push_named_entry(e) == <<e[2]>> \o WithLen(e[1])

encode_tag_sync_body(full, entries) ==
    <<IF full THEN 1 ELSE 0, 0, 0, 0, Len(entries)>>
        \o EachOf(entries, push_named_entry)

encode_list_body(r) ==
    <<r.limit, Len(r.cursor), Len(r.pattern), 0>> \o r.cursor \o r.pattern

encode_auth_body(a) ==
    <<a.mechanism, Len(a.name), Len(a.secret)>> \o a.name \o a.secret

encode_touch_body(t) == <<t.ttl>> \o t.key

encode_arithmetic_body(op) ==
    <<Modes[op.mode],
      (IF op.create THEN CREATE_AT_ZERO ELSE 0)
          + (IF op.decrement THEN DECREMENT ELSE 0),
      Bounds[op.on_bound], TtlKinds[op.ttl[1]], op.ttl[2],
      op.delta, op.lower, op.upper>> \o op.key

(* The body each method of the client sends, by opcode. *)
encode_body(opcode, arg) ==
    CASE opcode \in {"Ping", "Flush", "Cluster", "Stats"} -> <<>>
      [] opcode = "Hello" -> <<arg, 0>>
      [] opcode \in {"Get", "Delete", "DeleteByTag"} -> arg
      [] opcode = "Set" -> encode_set_body(arg)
      [] opcode = "Arithmetic" -> encode_arithmetic_body(arg)
      [] opcode = "Touch" -> encode_touch_body(arg)
      [] opcode \in {"GetMany", "DeleteMany"} -> encode_key_list_body(arg)
      [] opcode = "SetMany" -> <<Len(arg)>> \o EachOf(arg, encode_set_body)
      [] opcode = "TagSync" -> encode_tag_sync_body(arg.full, arg.entries)
      [] opcode \in {"ListKeys", "ListTags"} -> encode_list_body(arg)
      [] opcode = "Auth" -> encode_auth_body(arg)

-----------------------------------------------------------------------------
(* encode.rs: the responses.  An absent value is <<>>, a value is <<v>>.    *)

Bit(b) == IF b THEN 1 ELSE 0

(* One entry of a batch: ValuesFrame::hit or ::miss. *)
encode_slot(slot) ==
    IF slot = <<>> THEN <<0>>
    ELSE <<1, slot[1].flags, slot[1].cas>> \o WithLen(slot[1].data)

encode_peer(p) == WithLen(p.addr) \o <<Bit(p.reachable)>>

(* The status and the body of a Reply. *)
encode_reply(reply) ==
    LET ok(body) == [status |-> "Ok", body |-> body]
        bare(status) == [status |-> status, body |-> <<>>]
    IN  CASE reply.kind \in {"Pong", "Deleted", "Touched"} -> ok(<<>>)
          [] reply.kind = "NotFound" -> bare("NotFound")
          [] reply.kind = "Invalidated" ->
                bare(IF reply.existed THEN "Ok" ELSE "NotFound")
          [] reply.kind = "Flushed" -> ok(<<reply.epoch>>)
          [] reply.kind = "Values" ->
                ok(<<Len(reply.slots)>> \o EachOf(reply.slots, encode_slot))
          [] reply.kind = "StoredMany" -> ok(<<Len(reply.cas)>> \o reply.cas)
          [] reply.kind = "DeletedMany" ->
                ok(<<Len(reply.hits)>>
                   \o [i \in DOMAIN reply.hits |-> Bit(reply.hits[i])])
          [] reply.kind = "Hello" -> ok(reply.info)
          [] reply.kind = "Stored" -> ok(<<reply.cas>>)
          [] reply.kind = "NotStored" -> bare("NotStored")
          [] reply.kind = "Arithmetic" ->
                ok(<<Modes[reply.mode], Bit(reply.wrote), 0,
                     reply.value, reply.applied>>)
          [] reply.kind = "TagSync" ->
                ok(encode_tag_sync_body(FALSE, reply.entries))
          [] reply.kind = "Listing" ->
                ok(<<Len(reply.entries), Bit(reply.truncated), 0,
                     reply.scanned, Len(reply.cursor), 0>> \o reply.cursor
                   \o EachOf(reply.entries, push_named_entry))
          [] reply.kind = "Cluster" ->
                ok(<<reply.mode, 0, Len(reply.peers)>>
                   \o EachOf(reply.peers, encode_peer))
          [] reply.kind = "Value" ->
                ok(<<reply.value.flags, reply.value.cas>> \o reply.value.data)
          [] OTHER -> bare("Unsupported")

(* A ValuesFrame is opened with length 0, filled while the store is read,   *)
(* and then finished or abandoned.                                          *)
open(out, opcode, id, count) ==
    out \o <<opcode, RESPONSE, Statuses["Ok"], id, 0, count>>

(* A slip: the length is patched in whatever it is. *)
finish_unbounded(out, start) ==
    [ok |-> TRUE,
     out |-> [out EXCEPT ![start + HEADER_LEN] = Len(out) - start - HEADER_LEN]]

finish(out, start) ==
    LET body_len == Len(out) - start - HEADER_LEN
    IN  IF body_len > MAX_BODY_LEN
        THEN [ok |-> FALSE, out |-> SubSeq(out, 1, start)]
        ELSE [ok |-> TRUE, out |-> [out EXCEPT ![start + HEADER_LEN] = body_len]]

abandon(out, start) == SubSeq(out, 1, start)

-----------------------------------------------------------------------------
(* What the client makes of a response body: encode.rs's decoders and the   *)
(* Reader of vash-client.                                                   *)

Slot(c) ==
    Then(int(c), LAMBDA there, rest :
      IF there = 0 THEN Done(<<>>, rest)
      ELSE Then(take(rest, 3), LAMBDA h, left :
             Then(take(left, h[3]), LAMBDA data, r :
               Done(<<[flags |-> h[1], cas |-> h[2], data |-> data]>>, r))))

Peer(c) == Then(int(c), LAMBDA n, rest :
             Then(take(rest, n), LAMBDA addr, left :
               Then(int(left), LAMBDA up, r :
                 Done([addr |-> addr, reachable |-> up # 0], r))))

decode_cluster_response(body) ==
    Then(take(body, 3), LAMBDA h, rest :
      Then(Many(h[3], rest, Peer), LAMBDA peers, left :
        Done([mode |-> h[1], peers |-> peers], left)))

(* An entry cannot be shorter than its prefix of two cells, which bounds    *)
(* the count before it sizes an allocation.                                 *)
decode_listing(body) ==
    Then(take(body, 6), LAMBDA h, rest :
      Then(take(rest, h[5]), LAMBDA cursor, entries :
        Checked(2 * h[1] <= Len(entries), "BadRequest",
          Then(Many(h[1], entries, Entry), LAMBDA got, left :
            Done([entries |-> got, scanned |-> h[4], cursor |-> cursor,
                  truncated |-> h[2] = 1], left)))))

decode_hello_response(body) == take(body, 6)

Flags(c) == Then(int(c), LAMBDA v, rest : Done(v # 0, rest))

(* The value a method returns for an Ok response, by opcode. *)
decode_answer(opcode, body) ==
    CASE opcode \in {"Delete", "Touch", "DeleteByTag"} -> Done(TRUE, <<>>)
      [] opcode = "Ping" -> Done(<<>>, <<>>)
      [] opcode = "Get" ->
            Then(take(body, 2), LAMBDA h, data :
              Done(<<[flags |-> h[1], cas |-> h[2], data |-> data]>>, <<>>))
      [] opcode \in {"Set", "Flush"} -> int(body)
      [] opcode = "Hello" -> decode_hello_response(body)
      [] opcode = "Auth" -> Done(body, <<>>)
      [] opcode = "Arithmetic" ->
            Then(take(body, 5), LAMBDA h, rest :
              Checked(NameOf(Modes, h[1]) # "None", "BadRequest",
                Done(<<[mode |-> NameOf(Modes, h[1]), wrote |-> h[2] # 0,
                        value |-> h[4], applied |-> h[5]]>>, rest)))
      [] opcode = "GetMany" -> Then(int(body), LAMBDA n, c : Many(n, c, Slot))
      [] opcode = "SetMany" -> Then(int(body), LAMBDA n, c : Many(n, c, int))
      [] opcode = "DeleteMany" ->
            Then(int(body), LAMBDA n, c : Many(n, c, Flags))
      [] opcode = "TagSync" -> decode_tag_sync(body)
      [] opcode = "Cluster" -> decode_cluster_response(body)
      [] opcode \in {"ListKeys", "ListTags"} -> decode_listing(body)

(* What NotFound means to each method. *)
decode_absent(opcode) ==
    CASE opcode \in {"Get", "Arithmetic"} -> [kind |-> "Ok", val |-> <<>>]
      [] opcode \in {"Delete", "Touch", "DeleteByTag"} ->
            [kind |-> "Ok", val |-> FALSE]
      [] OTHER -> [kind |-> "Status", status |-> "NotFound"]

=============================================================================
