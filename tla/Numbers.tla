------------------------------ MODULE Numbers ------------------------------
(***************************************************************************)
(* Counters: the decimal texts a record may hold, and the arithmetic the   *)
(* writer thread evaluates on them (vash-core/src/arith.rs, and            *)
(* vash-proto/src/digits.rs for the text of an integer).                   *)
(*                                                                         *)
(* A text is a sequence of characters.  The widths are constants, so that  *)
(* every overflow is within reach: an i64 is -I64_MAX-1 .. I64_MAX, a u64  *)
(* 0 .. U64_MAX.  A float is counted in tenths: every tenth is a float up  *)
(* to F64_EXACT and every second one from there to F64_MAX; sums and texts *)
(* are rounded to the nearest float, to even when two are as near, and     *)
(* past F64_MAX is the infinity of the code.                               *)
(***************************************************************************)
EXTENDS Integers, Sequences

LOCAL INSTANCE SequencesExt

CONSTANTS
    Absent,         \* no record under the key
    I64_MAX, U64_MAX, F64_EXACT, F64_MAX,
    Texts,          \* what a client may have stored under the key
    Ops             \* the operations a client may send

VARIABLES
    stored,         \* the text under the key, or Absent
    before, op, out \* the last operation: what it read, what it was, what it did

numVars == <<stored, before, op, out>>

Digit == [c \in {"0", "1", "2", "3", "4", "5", "6", "7", "8", "9"} |->
            CASE c = "0" -> 0 [] c = "1" -> 1 [] c = "2" -> 2 [] c = "3" -> 3
              [] c = "4" -> 4 [] c = "5" -> 5 [] c = "6" -> 6 [] c = "7" -> 7
              [] c = "8" -> 8 [] c = "9" -> 9]
DigitOf(n) == CHOOSE c \in DOMAIN Digit : Digit[c] = n

I64 == (0 - I64_MAX - 1) .. I64_MAX
U64 == 0 .. U64_MAX
rounded(tenths) ==
    CASE tenths \in (0 - F64_EXACT) .. F64_EXACT \/ tenths % 2 = 0 -> tenths
      [] OTHER -> IF (tenths - 1) % 4 = 0 THEN tenths - 1 ELSE tenths + 1
is_finite(value) == value \in (0 - F64_MAX) .. F64_MAX

-----------------------------------------------------------------------------
(* Texts.                                                                   *)

(* digits::push_u64: the digits, written from the last to the first. *)
push_u64[value \in Nat] ==
    (IF value < 10 THEN <<>> ELSE push_u64[value \div 10])
        \o <<DigitOf(value % 10)>>

(* digits::push_i64, through unsigned_abs. *)
push_i64(value) ==
    IF value < 0 THEN <<"-">> \o push_u64[0 - value] ELSE push_u64[value]

(* format_float: no exponent, no trailing zero. *)
format_float(value) ==
    LET size == IF value < 0 THEN 0 - value ELSE value
    IN  (IF value < 0 THEN <<"-">> ELSE <<>>)
            \o push_u64[size \div 10]
            \o (IF size % 10 = 0 THEN <<>> ELSE <<".", DigitOf(size % 10)>>)

(* Number::to_text. *)
to_text(number) ==
    IF number.domain = "Float" THEN format_float(number.value)
    ELSE push_i64(number.value)

AllDigits(text) == ToSet(text) \subseteq DOMAIN Digit
Value(digits) == FoldLeft(LAMBDA n, c : 10 * n + Digit[c], 0, digits)
IsNegative(text) == text # <<>> /\ Head(text) = "-"

(* Mutant: the most negative i64 is refused. *)
parse_int_short(token) ==
    LET digits == IF IsNegative(token) THEN Tail(token) ELSE token
    IN  IF token = <<"0">> THEN 0
        ELSE IF digits = <<>> \/ ~AllDigits(digits) THEN Absent
        ELSE IF digits[1] = "0" \/ Value(digits) > I64_MAX THEN Absent
        ELSE IF IsNegative(token) THEN 0 - Value(digits) ELSE Value(digits)

(* parse_int: one text per number, no leading zero, no sign but `-`.        *)
(* Written as the code is, the u64 magnitude and its wrapping negation      *)
(* included.                                                                *)
parse_int(token) ==
    LET digits == IF IsNegative(token) THEN Tail(token) ELSE token
        magnitude == Value(digits)
    IN  CASE token = <<"0">> -> 0
          [] \/ digits = <<>> \/ ~AllDigits(digits) -> Absent
          [] OTHER ->
                IF digits[1] = "0" \/ magnitude \notin U64 THEN Absent
                ELSE IF IsNegative(token)
                     THEN IF magnitude <= I64_MAX + 1 THEN 0 - magnitude
                          ELSE Absent
                ELSE IF magnitude <= I64_MAX THEN magnitude ELSE Absent

(* str::trim. *)
trim(text) ==
    LET inner == {i \in DOMAIN text : text[i] # " "}
    IN  IF inner = {} THEN <<>>
        ELSE SubSeq(text, CHOOSE i \in inner : \A j \in inner : i <= j,
                          CHOOSE i \in inner : \A j \in inner : j <= i)

(* parse_counter: surrounding space is tolerated, and so is what Rust's u64 *)
(* parser tolerates, a `+` and leading zeros.                               *)
parse_counter(text) ==
    LET token == trim(text)
        digits == IF token # <<>> /\ Head(token) = "+" THEN Tail(token)
                  ELSE token
    IN  IF digits = <<>> \/ ~AllDigits(digits) THEN Absent
        ELSE IF Value(digits) \in U64 THEN Value(digits) ELSE Absent

(* parse_float: a sign, digits, a point and at most one digit after it, and *)
(* the float nearest to them.                                               *)
parse_float(text) ==
    LET signed == text # <<>> /\ Head(text) \in {"-", "+"}
        body == IF signed THEN Tail(text) ELSE text
        points == {i \in DOMAIN body : body[i] = "."}
        at == IF points = {} THEN Len(body) + 1 ELSE CHOOSE i \in points : TRUE
        whole == SubSeq(body, 1, at - 1)
        part == SubSeq(body, at + 1, Len(body))
    IN  IF \/ ~AllDigits(whole) \/ ~AllDigits(part) \/ whole \o part = <<>>
        THEN Absent
        ELSE (IF IsNegative(text) THEN -1 ELSE 1)
                * rounded(10 * Value(whole) + (IF part = <<>> THEN 0 ELSE Digit[part[1]]))

-----------------------------------------------------------------------------
(* Arithmetic::evaluate, one definition for each domain.                    *)

Num(domain, value) == [domain |-> domain, value |-> value]
Failed(why) == [kind |-> why]
stored_at(value, applied) ==
    [kind |-> "Store", text |-> to_text(value), value |-> value,
     applied |-> applied]
Unchanged(domain, current) ==
    [kind |-> "Unchanged", value |-> Num(domain, current),
     applied |-> Num(domain, 0)]

(* Mutant: the distance of a decrement is the delta that was asked for. *)
EvaluateCounterAsAsked(o, current) ==
    LET updated == IF o.decrement
                   THEN IF current >= o.delta THEN current - o.delta ELSE 0
                   ELSE (current + o.delta) % (U64_MAX + 1)
    IN  stored_at(Num("Counter", updated),
                  Num("Counter", (IF o.decrement THEN 0 - o.delta ELSE o.delta)
                                    % (U64_MAX + 1)))

(* The wrapping sum and the saturating difference of memcached's counters.  *)
EvaluateCounter(o, current) ==
    LET wrap(n) == n % (U64_MAX + 1)
        updated == IF o.decrement
                   THEN IF current >= o.delta THEN current - o.delta ELSE 0
                   ELSE wrap(current + o.delta)
    IN  stored_at(Num("Counter", updated), Num("Counter", wrap(updated - current)))

checked(n) == IF n \in I64 THEN n ELSE Absent

(* Mutant: a sum that overflows clamps to the upper bound whatever its sign. *)
EvaluateIntUpward(o, current) ==
    LET candidate == checked(current + o.delta)
        clamped == IF candidate = Absent \/ candidate > o.upper THEN o.upper
                   ELSE o.lower
        applied == checked(clamped - current)
    IN  IF candidate # Absent /\ candidate \in o.lower .. o.upper
        THEN stored_at(Num("Int", candidate), Num("Int", o.delta))
        ELSE CASE o.on_bound = "Fail" -> Failed("Overflow")
               [] o.on_bound = "Skip" -> Unchanged("Int", current)
               [] o.on_bound = "Clamp" ->
                    IF applied = Absent THEN Failed("Overflow")
                    ELSE stored_at(Num("Int", clamped), Num("Int", applied))

EvaluateInt(o, current) ==
    LET candidate == checked(current + o.delta)
        clamped == IF candidate = Absent
                   THEN IF o.delta > 0 THEN o.upper ELSE o.lower
                   ELSE IF candidate > o.upper THEN o.upper ELSE o.lower
        applied == checked(clamped - current)
    IN  IF candidate # Absent /\ candidate \in o.lower .. o.upper
        THEN stored_at(Num("Int", candidate), Num("Int", o.delta))
        ELSE CASE o.on_bound = "Fail" -> Failed("Overflow")
               [] o.on_bound = "Skip" -> Unchanged("Int", current)
               [] o.on_bound = "Clamp" ->
                    IF applied = Absent THEN Failed("Overflow")
                    ELSE stored_at(Num("Int", clamped), Num("Int", applied))

EvaluateFloat(o, current) ==
    LET updated == rounded(current + o.delta)
        clamped == IF updated > o.upper \/ (~is_finite(updated) /\ o.delta > 0)
                   THEN o.upper ELSE o.lower
        applied == rounded(clamped - current)
    IN  IF is_finite(updated) /\ updated \in o.lower .. o.upper
        THEN stored_at(Num("Float", updated), Num("Float", o.delta))
        ELSE CASE o.on_bound = "Fail" -> Failed("NotFinite")
               [] o.on_bound = "Skip" -> Unchanged("Float", current)
               [] o.on_bound = "Clamp" ->
                    IF ~is_finite(applied) THEN Failed("NotFinite")
                    ELSE stored_at(Num("Float", clamped), Num("Float", applied))

(* What the stored bytes are in the domain of an operation, or Absent. *)
Current(domain, bytes) ==
    CASE domain = "Counter" -> parse_counter(bytes)
      [] domain = "Int" -> parse_int(bytes)
      [] domain = "Float" ->
            LET value == parse_float(bytes)
            IN  IF value = Absent THEN Absent
                ELSE IF is_finite(value) THEN value ELSE Absent

evaluate(o, bytes) ==
    LET current == IF bytes = Absent THEN 0 ELSE Current(o.domain, bytes)
    IN  IF bytes = Absent /\ o.missing = "Fail" THEN Failed("Missing")
        ELSE IF current = Absent
             THEN Failed(IF o.domain = "Float" THEN "NotAFloat" ELSE "NotAnInteger")
        ELSE CASE o.domain = "Counter" -> EvaluateCounter(o, current)
               [] o.domain = "Int" -> EvaluateInt(o, current)
               [] o.domain = "Float" -> EvaluateFloat(o, current)

-----------------------------------------------------------------------------
(* A key that clients of every dialect write and count on.                  *)

NumInit ==
    /\ stored \in Texts \cup {Absent}
    /\ before = Absent /\ op = Absent /\ out = Absent

Evaluate(o) ==
    /\ op' = o
    /\ before' = stored
    /\ out' = evaluate(o, stored)
    /\ stored' = IF out'.kind = "Store" THEN out'.text ELSE stored

NumNext == \E o \in Ops : Evaluate(o)

NumSpec == NumInit /\ [][NumNext]_numVars

-----------------------------------------------------------------------------
(* The number the last operation counted from. *)
From == IF before = Absent THEN 0 ELSE Current(op.domain, before)
Moved == op # Absent /\ out.kind \in {"Store", "Unchanged"}

(* What evaluate stores is a text its own parser reads back as the same     *)
(* number: arith.rs shares parse_int between arguments and stored counters  *)
(* because "two copies of a rule this exacting is how a value gets written  *)
(* that the server cannot read back".                                       *)
StoredReadsBack ==
    Moved /\ out.kind = "Store" =>
        Current(op.domain, stored) = out.value.value

(* The increment a reply reports is the distance the counter moved, within  *)
(* the width of its domain, however the result was clamped, floored or      *)
(* wrapped.  Of a float it is that distance up to the rounding of the sum   *)
(* or the difference: at most one tenth off, and exact as long as what is   *)
(* added and what comes out are.                                            *)
AppliedIsTheMove ==
    Moved =>
        LET move == out.value.value - From
            sum == From + op.delta
        IN  CASE op.domain = "Counter" -> out.applied.value = move % (U64_MAX + 1)
              [] op.domain = "Int" -> out.applied.value = move /\ move \in I64
              [] op.domain = "Float" ->
                    /\ out.applied.value - move \in -1 .. 1
                    /\ (rounded(sum) = sum /\ rounded(move) = move) =>
                           out.applied.value = move

(* arith.rs:175: "how far it moved to get there", of every domain.          *)
DeltaIsTheMove ==
    (Moved /\ op.domain # "Counter") => out.applied.value = out.value.value - From

(* An i64 or f64 counter ends where unbounded arithmetic confined to the    *)
(* bounds would put it: at the sum, the nearest float to it for f64, when   *)
(* that is inside, at the nearer bound under Clamp, where it stood under    *)
(* Skip; and an error means that no such answer fits the type.              *)
BoundedReference ==
    op # Absent /\ op.domain # "Counter" /\ From # Absent /\ out.kind # "Missing" =>
        LET fit(n) == IF op.domain = "Float" THEN rounded(n) ELSE n
            sum == fit(From + op.delta)
            nearest == IF sum > op.upper THEN op.upper
                       ELSE IF sum < op.lower THEN op.lower ELSE sum
            fits(n) == IF op.domain = "Int" THEN n \in I64 ELSE is_finite(n)
        IN  CASE nearest = sum /\ fits(sum) ->
                    out.kind = "Store" /\ out.value.value = sum
              [] nearest # sum /\ op.on_bound = "Clamp" ->
                    IF fits(fit(nearest - From))
                    THEN out.kind = "Store" /\ out.value.value = nearest
                    ELSE out.kind \in {"Overflow", "NotFinite"}
              [] nearest # sum /\ op.on_bound = "Skip" ->
                    /\ out.kind = "Unchanged"
                    /\ out.value.value = From
                    /\ stored = before
              [] nearest # sum /\ op.on_bound = "Fail" ->
                    out.kind \in {"Overflow", "NotFinite"} /\ stored = before
              [] OTHER -> TRUE
=============================================================================
