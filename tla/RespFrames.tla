----------------------------- MODULE RespFrames -----------------------------
(***************************************************************************)
(* RESP framing (vash-proto, resp/mod.rs): the walk that finds where a     *)
(* multibulk request ends, shared by the measuring pass and the parser.    *)
(*                                                                         *)
(* The stream is a sequence of units.  A unit is a line end, a payload     *)
(* byte, or the printable part of a header ("*2", "$3"), which the code    *)
(* only ever looks at once the line end after it has arrived.              *)
(***************************************************************************)
EXTENDS Integers, Sequences

LOCAL INSTANCE SequencesExt

CONSTANTS
    CR, LF,
    Mark,           \* unit -> its first byte: "*", "$" or another
    Count,          \* header unit -> the integer after the mark, or NotANumber
    NotANumber,
    MAX_ARGS, MAX_BULK_LEN, MAX_HEADER_LEN

Incomplete == [kind |-> "incomplete"]
Fatal(detail) == [kind |-> "fatal", detail |-> detail]
Read(value, next) == [kind |-> "read", value |-> value, next |-> next]

\* Positions are 1-based here: pos is the first unit not yet read.
read_header(buf, pos, prefix, detail) ==
    LET newlines == {i \in pos .. Len(buf) : buf[i] = LF}
        newline == CHOOSE i \in newlines : \A j \in newlines : i <= j
        end == IF newline > pos /\ buf[newline - 1] = CR THEN newline - 1 ELSE newline
        text == SubSeq(buf, pos, end - 1)
    IN  CASE pos > Len(buf) -> Incomplete
          [] pos <= Len(buf) /\ Mark[buf[pos]] # prefix -> Fatal(detail)
          [] OTHER ->
             IF newlines = {}
             THEN IF Len(buf) - pos + 1 > MAX_HEADER_LEN THEN Fatal(detail) ELSE Incomplete
             ELSE IF Len(text) # 1 \/ Count[buf[pos]] = NotANumber THEN Fatal(detail)
                  ELSE Read(Count[buf[pos]], newline + 1)

\* A bulk string taken as soon as its bytes are there: used to mutate.
bulk_eager(buf, header, end) ==
    CASE header.kind # "read" -> header
      [] header.kind = "read" /\ (header.value < 0 \/ header.value > MAX_BULK_LEN) ->
             Fatal("invalid bulk length")
      [] OTHER ->
         IF Len(buf) < end - 1 THEN Incomplete
         ELSE Read(SubSeq(buf, header.next, end - 1),
                   IF Len(buf) >= end + 1 THEN end + 2 ELSE Len(buf) + 1)

\* The payload a header announces, up to `end`, and the line end after it.
bulk(buf, header, end) ==
    CASE header.kind # "read" -> header
      [] header.kind = "read" /\ (header.value < 0 \/ header.value > MAX_BULK_LEN) ->
             Fatal("invalid bulk length")
      [] OTHER ->
         IF Len(buf) < end + 1 THEN Incomplete
         ELSE IF <<buf[end], buf[end + 1]>> # <<CR, LF>> THEN Fatal("expected CRLF")
              ELSE Read(SubSeq(buf, header.next, end - 1), end + 2)

read_bulk(buf, pos) ==
    LET after(header) == bulk(buf, header, header.next + header.value)
    IN  after(read_header(buf, pos, "$", "invalid bulk length"))

Further(got, arg) ==
    IF arg.kind # "read" THEN arg ELSE Read(Append(got.value, arg.value), arg.next)

\* count arguments starting at pos, or whatever stopped the walk.
read_args(buf, start, count) ==
    FoldLeft(LAMBDA got, i :
                 IF got.kind # "read" THEN got
                 ELSE Further(got, read_bulk(buf, got.next)),
             Read(<< >>, start), [i \in 1 .. count |-> i])

\* Empty arrays are skipped, so the walk goes round until it meets a command.
frame(buf) ==
    LET from[pos \in 1 .. Len(buf) + 1] ==
            LET header == read_header(buf, pos, "*", "invalid multibulk length") IN
            CASE header.kind # "read" -> header
              [] header.kind = "read" /\ (header.value < 0 \/ header.value > MAX_ARGS) ->
                     Fatal("invalid multibulk length")
              [] OTHER -> IF header.value = 0 THEN from[header.next]
                          ELSE read_args(buf, header.next, header.value)
    IN  from[1]

\* parse and peek: one walk, so they agree by construction on the boundary.
\* What the arguments mean is RespCommand's business; a command that means
\* nothing is still a command here.
parse(buf) ==
    LET framed == frame(buf) IN
    IF framed.kind = "read"
    THEN [kind |-> "command", consumed |-> framed.next - 1, what |-> framed.value]
    ELSE framed
=============================================================================
