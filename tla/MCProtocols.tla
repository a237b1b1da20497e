---------------------------- MODULE MCProtocols ----------------------------
(***************************************************************************)
(* The three dialects for TLC: the native protocol end to end (Vcp), the   *)
(* Redis-like one from a framed command to its reply (RespServer), the     *)
(* memcached one from a line to its reply (McServer), the framing of the   *)
(* last two over a stream cut anywhere (Stream), the lifetimes all three   *)
(* ask for (Ttl) and the numbers they count with (Numbers).  `part` says   *)
(* which of these machines a behaviour runs; the variables the others use  *)
(* are None.  Words, keys and numbers are few and the limits are small.    *)
(***************************************************************************)
EXTENDS Integers, FiniteSets, Sequences, TLC

CONSTANTS None, Error, Absent, Invalid, NotANumber

VARIABLES
    part,
    vcp, client, up, inbuf, down, buf, peer, asked, truth, result, calls, abandoned,
    args, session, reply,
    request, ran, out,
    conversation, sent, done, dead,
    stored, before, op,
    arrived, time, ttl, deadline, reported, stage

CR == "\r"
LF == "\n"

-----------------------------------------------------------------------------
(* Every method of the client, with arguments inside and outside the limits *)
(* (keys, names and values of up to two cells, batches of up to two), and   *)
(* bodies only another client would send.                                   *)

A == <<21>>
B == <<22, 23>>
Long == <<21, 22, 23>>
Longer == <<21, 22, 23, 24>>
Empty == <<>>

SetOf(key, value, tags) == [key |-> key, value |-> value, ttl |-> 7, tags |-> tags]
Step(mode, expiry) == [key |-> A, mode |-> mode, delta |-> 3, decrement |-> mode = "Counter",
                  lower |-> IF mode = "Counter" THEN 0 ELSE 1,
                  upper |-> IF mode = "Counter" THEN 0 ELSE 9,
                  on_bound |-> "Clamp", create |-> mode # "Int", ttl |-> expiry]
PageAsked(limit, cursor, glob) == [limit |-> limit, cursor |-> cursor, pattern |-> glob]

AnyCall ==
    {[op |-> o, arg |-> k] : o \in {"Get", "Delete"}, k \in {A, Long, Empty}}
    \cup {[op |-> "DeleteByTag", arg |-> t] : t \in {B, Long}}
    \cup {[op |-> o, arg |-> <<>>] : o \in {"Ping", "Flush", "Cluster", "Stats"}}
    \cup {[op |-> "Set", arg |-> SetOf(A, B, <<A, B>>)],
          [op |-> "Set", arg |-> SetOf(A, B, <<Long>>)],
          [op |-> "SetMany", arg |-> <<SetOf(A, A, <<>>), SetOf(B, Empty, <<>>)>>],
          [op |-> "SetMany", arg |-> <<SetOf(A, Long, <<>>), SetOf(B, Long, <<>>)>>],
          [op |-> "GetMany", arg |-> <<A, B>>],
          [op |-> "GetMany", arg |-> Empty],
          [op |-> "GetMany", arg |-> <<A, B, A>>],
          [op |-> "DeleteMany", arg |-> <<A, B>>],
          [op |-> "Touch", arg |-> [key |-> B, ttl |-> 5]],
          [op |-> "Arithmetic", arg |-> Step("Counter", <<"Keep", 0>>)],
          [op |-> "Arithmetic", arg |-> Step("Int", <<"Set", 4>>)],
          [op |-> "Arithmetic", arg |-> Step("Float", <<"SetIfPersistent", 4>>)],
          [op |-> "TagSync", arg |-> [full |-> TRUE, entries |-> <<<<A, 4>>, <<B, 2>>>>]],
          [op |-> "TagSync", arg |-> [full |-> FALSE, entries |-> <<<<Empty, 4>>>>]],
          [op |-> "ListKeys", arg |-> PageAsked(2, B, A)],
          [op |-> "ListTags", arg |-> PageAsked(2, Empty, Empty)],
          [op |-> "ListKeys", arg |-> PageAsked(0, Empty, A)]}
    \cup {[op |-> "Raw", opcode |-> 80, body |-> <<2, 0, 0, 0, 21>>],
          [op |-> "Raw", opcode |-> 17, body |-> <<7, 1, 1, 0, 1, 21, 22>>],
          [op |-> "Raw", opcode |-> 20, body |-> <<3, 0, 0, 0, 0, 1, 0, 0, 21>>],
          [op |-> "Raw", opcode |-> 99, body |-> A]}

(* The call after another call or after AUTH. *)
LaterCall ==
    {[op |-> "Ping", arg |-> <<>>], [op |-> "Get", arg |-> A], [op |-> "Flush", arg |-> <<>>],
     [op |-> "TagSync", arg |-> [full |-> FALSE, entries |-> <<<<B, 2>>>>]]}

VcpCalls(n) == IF n = 2 THEN AnyCall ELSE LaterCall

Val(data) == [flags |-> 1, cas |-> 6, data |-> data]

(* What the store may answer to a decoded request. *)
VcpAnswers(d) ==
    LET none == {[kind |-> "NotFound"]}
    IN  CASE d.op = "Ping" -> {[kind |-> "Pong"]}
          [] d.op = "Get" -> {[kind |-> "Value", value |-> Val(Long)]} \cup none
          [] d.op = "Delete" -> {[kind |-> "Deleted"]} \cup none
          [] d.op = "Touch" -> {[kind |-> "Touched"]} \cup none
          [] d.op = "Set" -> {[kind |-> "Stored", cas |-> 8]}
          [] d.op = "SetMany" -> {[kind |-> "StoredMany", cas |-> <<8, 9>>]}
          [] d.op = "GetMany" ->
                {[kind |-> "Values", slots |-> s] :
                    s \in IF d.body.val = <<>> THEN {<<>>}
                          ELSE {<<<<Val(A)>>, <<>>>>, <<<<>>, <<Val(B)>>>>,
                                <<<<Val(Long)>>, <<Val(Longer)>>>>,
                                <<<<Val(Longer)>>, <<Val(Longer)>>>>}}
          [] d.op = "DeleteMany" -> {[kind |-> "DeletedMany", hits |-> <<TRUE, FALSE>>]}
          [] d.op = "DeleteByTag" -> {[kind |-> "Invalidated", existed |-> b] : b \in BOOLEAN}
          [] d.op = "Flush" -> {[kind |-> "Flushed", epoch |-> 3]}
          [] d.op = "Arithmetic" ->
                {[kind |-> "Arithmetic", mode |-> d.body.val.mode, wrote |-> b,
                  value |-> 5, applied |-> IF b THEN 3 ELSE 0] : b \in BOOLEAN} \cup none
          [] d.op = "TagSync" -> {[kind |-> "TagSync", entries |-> e] :
                                    e \in {<<>>, <<<<B, 7>>>>}}
          [] d.op = "Cluster" ->
                {[kind |-> "Cluster", mode |-> 1,
                  peers |-> <<[addr |-> B, reachable |-> TRUE],
                              [addr |-> A, reachable |-> FALSE]>>]}
          [] OTHER ->
                {[kind |-> "Listing", entries |-> <<<<A, 4>>, <<B, 5>>>>,
                  scanned |-> 3, cursor |-> B, truncated |-> FALSE],
                 [kind |-> "Listing", entries |-> <<>>, scanned |-> 0,
                  cursor |-> <<>>, truncated |-> TRUE]}

AllRoles == {"read", "write", "invalidate", "flush", "list", "peer"}
Anonymous == [version |-> 1, required |-> FALSE, roles |-> AllRoles, right |-> A,
              bits |-> 63, credential |-> None, flush_enabled |-> TRUE,
              listing_enabled |-> TRUE]
Endpoints ==
    {Anonymous,
     [Anonymous EXCEPT !.flush_enabled = FALSE, !.listing_enabled = FALSE],
     [Anonymous EXCEPT !.version = 2],
     [Anonymous EXCEPT !.required = TRUE],
     [Anonymous EXCEPT !.required = TRUE, !.credential = <<0, A>>,
                       !.roles = {"read", "peer"}, !.bits = 33],
     [Anonymous EXCEPT !.required = TRUE, !.credential = <<0, B>>],
     [Anonymous EXCEPT !.required = TRUE, !.credential = <<1, A>>]}

Native == INSTANCE Vcp WITH
            MAX_BODY_LEN <- 16, MAX_KEY_LEN <- 2, MAX_TAG_LEN <- 2,
            MAX_BATCH_ITEMS <- 2, MAX_TAG_SYNC_ENTRIES <- 2,
            MAX_LIST_CURSOR_LEN <- 2, MAX_LIST_LIMIT <- 3,
            MAX_AUTH_NAME_LEN <- 2, MAX_AUTH_SECRET_LEN <- 2,
            Calls <- VcpCalls, Answers <- VcpAnswers, Failures <- {"Overloaded"},
            PROTOCOL_VERSION <- 1, AUTH_REQUIRED <- 8, IdSpace <- 8,
            MaxCalls <- 3, MaxAbandoned <- 1, VcpWorlds <- Endpoints

-----------------------------------------------------------------------------
(* Commands of RESP, word by word: every verb, and after it the words that  *)
(* mean something in its place and some that do not.                        *)

RespVerbs ==
    {"HELLO", "AUTH", "PING", "QUIT", "GET", "get", "SET", "SETTAGS", "DEL", "UNLINK",
     "MGET", "MSET", "MSETEX", "MSETTAGS", "DELBYTAG", "EXISTS", "TYPE", "APPEND",
     "EXPIRE", "EXPIREAT", "PERSIST", "TTL", "INCR", "DECR", "INCRBY", "DECRBY",
     "INCRBYFLOAT", "INCREX", "SCAN", "SLOWLOG", "INFO", "LONG"}
IntWord == ("5" :> 5) @@ ("9" :> 9) @@ ("-1" :> -1) @@ ("0" :> 0) @@ ("99" :> 99)
           @@ ("1" :> 1) @@ ("2" :> 2) @@ ("3" :> 3) @@ ("-100" :> -100)
NatWord == [w \in DOMAIN IntWord \ {"-1", "-100"} |-> IntWord[w]]
FloatWord == ("1.5" :> 3) @@ [w \in DOMAIN IntWord |-> 2 * IntWord[w]]
AllWords ==
    RespVerbs \cup DOMAIN FloatWord \cup
    {"k", "", "LONG", "v", "NX", "nx", "XX", "GET", "EX", "PX", "EXAT", "PXAT", "KEEPTTL",
     "IFEQ", "x", "BYINT", "BYFLOAT", "LBOUND", "UBOUND", "SATURATE", "ENX", "PERSIST",
     "MATCH", "COUNT", "TYPE", "STRING", "a*", "[", "GT", "LT", "default", "good", "bad",
     "AUTH", "LEN", "RESET", "HELP", "all", "SERVER", "t"}
UpperOf == [w \in AllWords |-> CASE w = "nx" -> "NX" [] w = "get" -> "GET"
                                 [] w = "all" -> "ALL" [] OTHER -> w]

ArgumentsOf(option) ==
    CASE option \in {"EX", "PX", "EXAT", "PXAT"} -> {"5", "0", "99", "NX"}
      [] option \in {"BYINT", "BYFLOAT", "LBOUND", "UBOUND"} -> {"5", "9", "1.5"}
      [] option = "MATCH" -> {"a*", "[", "x"}
      [] option = "COUNT" -> {"5", "0", "99", "v"}
      [] option = "TYPE" -> {"STRING", "v"}

OptionsOf(verb) ==
    CASE verb \in {"SET", "SETTAGS"} ->
            {"NX", "nx", "XX", "GET", "EX", "PXAT", "KEEPTTL", "IFEQ"}
      [] verb \in {"MSETEX", "MSETTAGS"} -> {"NX", "XX", "PX", "EXAT", "KEEPTTL", "GET"}
      [] verb = "INCREX" -> {"BYINT", "BYFLOAT", "LBOUND", "UBOUND", "SATURATE", "ENX",
                             "PERSIST", "EX"}
      [] verb = "SCAN" -> {"MATCH", "COUNT", "TYPE", "NX"}

TakesArgument == {"EX", "PX", "EXAT", "PXAT", "BYINT", "BYFLOAT", "LBOUND", "UBOUND",
                  "MATCH", "COUNT", "TYPE"}

(* What may stand in the places of a verb ahead of its options. *)
Leading(verb) ==
    CASE verb = "SET" -> <<{"k", "LONG"}, {"v", "GET"}>>
      [] verb = "SETTAGS" -> <<{"k"}, {"v"}, {"0", "1", "2", "9", "-1", "x"},
                               {"t", "", "LONG", "NX"}, {"t", "", "LONG", "NX"}>>
      [] verb = "MSETEX" -> <<{"1", "2", "9", "-1", "x"}, {"k"}, {"v"}>>
      [] verb = "MSETTAGS" -> <<{"1", "2", "9"}, {"k"}, {"k"}, {"1", "k"},
                                {"1", "t", "NX"}, {"1", "t", "NX"}, {"1", "t", "NX"}>>
      [] verb = "INCREX" -> <<{"k"}>>
      [] verb = "SCAN" -> <<{"0", "5", "x"}>>
      [] verb = "HELLO" -> <<{"2", "3", "9", "x"}, {"AUTH", "NX"}, {"default", "k"},
                             {"good", "bad"}>>
      [] verb = "AUTH" -> <<{"default", "good", "bad"}, {"default", "good", "bad"},
                            {"good"}>>
      [] verb = "SLOWLOG" -> <<{"GET", "LEN", "RESET", "HELP", "x"},
                               {"5", "-1", "-100", "x"}, {"5"}>>
      [] verb = "INFO" -> <<{"all", "SERVER", "x"}, {"all", "SERVER"}>>
      [] verb \in {"EXPIRE", "EXPIREAT"} ->
            <<{"k", ""}, {"5", "-1", "99", "x"}, {"NX", "XX", "GT", "LT", "v"}, {"NX"}>>
      [] verb \in {"INCRBY", "DECRBY", "INCRBYFLOAT"} ->
            <<{"k"}, {"5", "-100", "1.5", "x"}, {"v"}>>
      [] verb = "DELBYTAG" -> <<{"t", "", "LONG"}, {"t", "", "LONG"}>>
      [] OTHER -> <<{"k", "LONG"}, {"k", "LONG"}, {"k", "LONG"}>>

WithOptions == {"SET", "SETTAGS", "MSETEX", "MSETTAGS", "INCREX", "SCAN"}
LastWord == [verb \in WithOptions |-> IF verb \in {"SET", "SETTAGS"} THEN 7 ELSE 8]

RespWords(words) ==
    LET n == Len(words)
        verb == words[1]
    IN  IF n <= Len(Leading(verb)) THEN Leading(verb)[n]
        ELSE IF verb \notin WithOptions THEN {}
        ELSE IF n >= LastWord[verb] THEN {}
        ELSE IF words[n] \in TakesArgument THEN ArgumentsOf(words[n])
        ELSE OptionsOf(verb)

Stranger == [identity |-> None, failures |-> 0]
Known(name, roles) == [identity |-> [name |-> name, roles |-> roles], failures |-> 0]

Secrets == INSTANCE Auth
Table(name, secret, roles) ==
    [n \in {name} |-> [value |-> Secrets!sha256(secret), subject |-> None,
                       mechanism |-> "plain", roles |-> roles, inherited |-> FALSE]]

RespOn(required, table, connection, version, listed) ==
    [auth |-> [required |-> required, table |-> table], conn |-> connection,
     version |-> version, listing |-> listed]
RespAnybody == RespOn(FALSE, <<>>, Stranger, 3, TRUE)
RespConnections(verb) ==
    IF verb \in WithOptions THEN {RespAnybody}
    ELSE {RespAnybody, RespOn(FALSE, <<>>, Stranger, 2, FALSE),
          RespOn(TRUE, Table("default", "good", {"read"}), Stranger, 2, TRUE),
          RespOn(TRUE, Table("default", "good", {"read", "write"}),
                 Known("default", {"read"}), 3, TRUE)}

Resp == INSTANCE RespServer WITH
            Upper <- UpperOf, Ints <- IntWord, Floats <- FloatWord, Unsigned <- NatWord,
            Length <- [w \in AllWords |-> CASE w = "" -> 0 [] w = "LONG" -> 9 [] OTHER -> 1],
            PatternOf <- [w \in AllWords |-> <<w>>],
            ValidPattern <- [w \in AllWords |-> w # "x"],
            ClassPattern <- [w \in AllWords |-> w = "["],
            EXACT <- 200, SECOND <- 4, MAX_TTL_SECS <- 2, U32_MAX <- 63, TIME_MAX <- 99,
            MAX_BATCH_ITEMS <- 5, ABSOLUTE_MAX_TAGS <- 5, MAX_TAG_LEN <- 5,
            MAX_VERB_LEN <- 5, MAX_LIST_LIMIT <- 7, MAX_KEY_LEN <- 5,
            Verbs <- RespVerbs, Words <- RespWords, Sessions <- RespConnections,
            Instants <- {20, 97}

-----------------------------------------------------------------------------
(* Commands of memcached: every verb with its arguments right, missing,     *)
(* malformed and too long; meta commands with up to two flags.              *)

Line(words) == words \o <<CR, LF>>

McNat == ("0" :> 0) @@ ("1" :> 1) @@ ("2" :> 2) @@ ("3" :> 3) @@ ("9" :> 9) @@ ("99" :> 99)
McInt == McNat @@ ("-1" :> -1)
Flags == {"v", "k", "q", "T1", "Tx", "F1", "F99", "Cx", "C1", "D2", "Dx", "ME", "MD", "M",
          "MQ", "Gab", "Gabc", "G", "GL", "O1", "b", "y", "u"}
LetterOf ==
    [f \in Flags |->
        CASE f \in {"T1", "Tx"} -> "T" [] f \in {"F1", "F99"} -> "F"
          [] f \in {"C1", "Cx"} -> "C" [] f \in {"D2", "Dx"} -> "D"
          [] f \in {"ME", "MD", "M", "MQ"} -> "M"
          [] f \in {"Gab", "Gabc", "G", "GL"} -> "G" [] f = "O1" -> "O" [] OTHER -> f]
ArgumentOf ==
    [f \in Flags |->
        CASE f \in {"T1", "F1", "C1", "O1"} -> "1" [] f \in {"Tx", "Cx", "Dx"} -> "x"
          [] f = "F99" -> "99" [] f = "D2" -> "2" [] f = "ME" -> "E" [] f = "MD" -> "D"
          [] f = "MQ" -> "Q" [] f = "Gab" -> "ab" [] f = "Gabc" -> "abc"
          [] f = "GL" -> "L" [] OTHER -> Absent]

Storage ==
    {Line(<<verb, key, f, t, "2">> \o tail) \o Line(v) :
        verb \in {"set", "cas"}, key \in {"k", "LONG"}, f \in {"0", "99"}, t \in {"0", "x"},
        tail \in {<<>>, <<"3">>, <<"noreply">>, <<"3", "noreply">>},
        v \in {<<"u", "p">>, <<"u", "z">>, <<"z", "z">>}}
    \cup {Line(<<verb, key, "0", "0", "2", "3">>) \o Line(<<"u", "p">>) :
             verb \in {"add", "cas"}, key \in {"k", "noreply"}}
MetaSet ==
    {Line(<<"ms", key, "2">> \o f) \o Line(<<"u", "p">>) :
        key \in {"k", "LONG"},
        f \in {<<>>} \cup {<<x>> : x \in Flags}
                     \cup {<<x, y>> : x \in {"C1", "q", "Gab"}, y \in Flags}}
MetaVerbs == {"mg", "md", "ma", "me", "mdt", "mn"}
Meta ==
    {Line(<<verb, "k">> \o f) :
        verb \in MetaVerbs, f \in {<<>>} \cup {<<x>> : x \in Flags}
                                  \cup {<<x, y>> : x \in {"v", "q"}, y \in Flags}}
    \cup {Line(<<verb>>) : verb \in MetaVerbs}
    \cup {Line(<<verb, "LONG">>) : verb \in MetaVerbs}
Keyed ==
    {Line(<<verb>> \o rest) :
        verb \in {"get", "gets", "delete", "touch", "incr", "decr", "flush_all",
                  "delete_by_tag", "version", "quit", "verbosity", "what"},
        rest \in {<<>>, <<"a">>, <<"LONG">>, <<"a", "b">>, <<"a", "1">>, <<"a", "b", "k">>,
                  <<"a", "noreply">>, <<"a", "1", "noreply">>, <<"1">>, <<"noreply">>,
                  <<"1", "noreply">>}}
    \cup {Line(<<verb, "1">> \o rest) :
             verb \in {"gat", "gats"},
             rest \in {<<>>, <<"a">>, <<"a", "b">>, <<"b", "a">>, <<"a", "LONG">>}}
    \cup {Line(<<"gat", "x", "a">>), Line(<<"gat">>), Line(<<>>)}
StatsAsked ==
    {Line(<<"stats">> \o rest) :
        rest \in {<<>>, <<"items", "1">>, <<"cachedump", "1">>}
                 \cup {<<x>> : x \in {"settings", "items", "slabs", "sizes", "conns",
                                      "reset", "detail", "cachedump", "what"}}
                 \cup {<<"cachedump", class, n>> : class \in {"1", "2", "x"},
                                                   n \in {"0", "1", "9", "x"}}}
Crawler ==
    {Line(<<"lru_crawler">> \o rest) :
        rest \in {<<>>} \cup {<<x>> : x \in {"metadump", "enable", "disable", "sleep",
                                             "tocrawl", "crawl", "what"}}
                 \cup {<<dump, class>> : dump \in {"metadump", "mgdump"},
                                         class \in {"all", "hash", "1", "2"}}}

PageOf(entries, scanned, failed) ==
    [entries |-> entries, scanned |-> scanned, failed |-> failed]
OnePage == <<PageOf(<<"a">>, 1, FALSE)>>
Walks == {OnePage,
          <<PageOf(<<"a", "b">>, 2, FALSE), PageOf(<<"k">>, 1, FALSE)>>,
          <<PageOf(<<"a", "b">>, 2, FALSE), PageOf(<<"k">>, 1, TRUE)>>,
          <<PageOf(<<"a">>, 1, FALSE), PageOf(<<"b">>, 1, FALSE), PageOf(<<"k">>, 1, FALSE)>>,
          <<PageOf(<<>>, 0, FALSE)>>, <<PageOf(<<>>, 0, TRUE)>>}
McOn(required, connection, listed, pages, budget) ==
    [auth |-> [required |-> required, table |-> Table("u", "p", {"read"})],
     conn |-> connection, listing |-> listed, flush |-> listed, budget |-> budget,
     pages |-> pages]

Plain == Storage \cup MetaSet \cup Meta \cup Keyed
McConnections ==
    {McOn(TRUE, Stranger, TRUE, OnePage, 2), McOn(FALSE, Stranger, FALSE, OnePage, 2),
     McOn(TRUE, Known("u", {"read"}), TRUE, OnePage, 2)}
    \cup {McOn(FALSE, Stranger, TRUE, pages, budget) : pages \in Walks, budget \in {2, 3}}

Mc == INSTANCE McServer WITH
          Unsigned <- McNat, Ints <- McInt, Unprintable <- {}, Letter <- LetterOf,
          Argument <- ArgumentOf,
          Names <- ("ab" :> <<"a", "b">>) @@ ("abc" :> <<"a", "b", "a">>)
                   @@ ("L" :> <<"a", "LONG">>),
          Length <- [w \in {"a", "b", "k", "x", "LONG", "", "1", "2", "noreply"} |->
                        CASE w = "LONG" -> 9 [] w = "" -> 0 [] OTHER -> 1],
          MAX_LINE_LEN <- 99, MAX_KEY_LEN <- 8, MAX_TAG_LEN <- 4, ABSOLUTE_MAX_TAGS <- 2,
          ABSOLUTE_MAX_VALUE_LEN <- 3, MAX_BATCH_ITEMS <- 2, MAX_LIST_LIMIT <- 2,
          SECOND <- 1, MAX_TTL_SECS <- 4, U32_MAX <- 15, TIME_MAX <- 99,
          Requests <- Plain \cup StatsAsked \cup Crawler, McSessions <- McConnections,
          Credentials <- (<<"u", "p">> :> [name |-> "u", secret |-> "p"])
                         @@ (<<"u", "z">> :> [name |-> "u", secret |-> "z"])

-----------------------------------------------------------------------------
(* Conversations of two or three requests over a stream.  The bytes of a    *)
(* request are its tokens and line ends, the values among them ones that    *)
(* look like requests themselves.                                           *)

Sends(bytes, what) == [bytes |-> bytes, means |-> <<what>>, fatal |-> FALSE]
Strays(bytes, whats) == [bytes |-> bytes, means |-> whats, fatal |-> FALSE]
Breaks(bytes) == [bytes |-> bytes, means |-> <<>>, fatal |-> TRUE]

Counts == ("*0" :> 0) @@ ("*1" :> 1) @@ ("*2" :> 2) @@ ("*9" :> 9) @@ ("*-1" :> -1)
          @@ ("*x" :> NotANumber)
Sizes == ("$0" :> 0) @@ ("$1" :> 1) @@ ("$3" :> 3) @@ ("$9" :> 9) @@ ("$-1" :> -1)
         @@ ("$x" :> NotANumber)
Frames == INSTANCE RespFrames WITH
              Mark <- [u \in DOMAIN Counts |-> "*"] @@ [u \in DOMAIN Sizes |-> "$"]
                      @@ [u \in {CR, LF, "a", "b"} |-> "other"],
              Count <- Counts @@ Sizes, MAX_ARGS <- 3, MAX_BULK_LEN <- 4, MAX_HEADER_LEN <- 3

L(u) == Line(<<u>>)
RespRequests ==
    {Sends(L("*1") \o L("$1") \o L("a"), <<<<"a">>>>),
     Sends(<<"*1", LF, "$1", LF>> \o L("b"), <<<<"b">>>>),
     Sends(L("*0") \o L("*2") \o L("$1") \o L("a") \o L("$3") \o L("*1") \o <<CR, LF>>,
           <<<<"a">>, <<"*1", CR, LF>>>>),
     Sends(L("*2") \o L("$0") \o <<CR, LF>> \o L("$3") \o <<CR, LF, "$1", CR, LF>>,
           <<<<>>, <<CR, LF, "$1">>>>),
     Sends(L("*1") \o L("$3") \o <<"*1", LF, "a", CR, LF>>, <<<<"*1", LF, "a">>>>)}
RespBreaks ==
    {Breaks(L("*-1")), Breaks(L("*9")), Breaks(L("*x")), Breaks(L("$1")), Breaks(<<"a">>),
     Breaks(L("*1") \o L("$9")), Breaks(L("*1") \o L("$-1")),
     Breaks(L("*1") \o L("$1") \o <<"a", "b", CR, LF>>),
     Breaks(L("*1") \o <<"$1", "a", "a", "a">>), Breaks(<<"*1", "a", LF>>),
     Breaks(<<"*1", "*1", "*1", "*1">>), Breaks(L("*2") \o L("$1") \o L("a") \o L("*1"))}
RespConversations ==
    {<<a, b, end>> : a, b \in RespRequests, end \in RespRequests \cup RespBreaks}
    \cup {<<a, end, b>> : a, b \in RespRequests, end \in RespBreaks}

RespParse(b) == Frames!parse(b)
RespStream == INSTANCE Stream WITH Parse <- RespParse, Conversations <- RespConversations

Grammar == INSTANCE McCommand WITH
               Unsigned <- McNat, Ints <- McInt,
               Length <- [w \in {"get", "set", "ms", "mg", "k", "x", "", "noreply"} |->
                             IF w = "" THEN 0 ELSE 1],
               Unprintable <- {"x"},
               Letter <- ("T1" :> "T") @@ ("MQ" :> "M") @@ ("x" :> "x"),
               Argument <- ("T1" :> "1") @@ ("MQ" :> "Q") @@ ("x" :> Absent),
               Names <- <<>>, MAX_LINE_LEN <- 7, MAX_KEY_LEN <- 1, MAX_TAG_LEN <- 1,
               ABSOLUTE_MAX_TAGS <- 1, ABSOLUTE_MAX_VALUE_LEN <- 3, MAX_BATCH_ITEMS <- 2,
               MAX_LIST_LIMIT <- 2, SECOND <- 1, MAX_TTL_SECS <- 4, U32_MAX <- 15,
               TIME_MAX <- 99

Refused(e) == [error |-> e]
Stores(value, expiry, quiet, style) ==
    [command |-> [verb |-> "set", key |-> "k", value |-> value, ttl |-> expiry, mode |-> "set",
                  tags |-> <<>>, cas |-> Absent],
     noreply |-> quiet, style |-> style]
SetsK(value, quiet) == Stores(value, 0, quiet, [name |-> "storage"])
MsK(value) == Stores(value, 1, FALSE, [name |-> "meta", style |-> "set", want |-> {},
                                       opaque |-> Absent])
GetsK == [command |-> [verb |-> "get_many", keys |-> <<"k">>], noreply |-> FALSE,
          style |-> [name |-> "retrieval", with_cas |-> FALSE]]
McRequests ==
    {Sends(Line(<<"get", "k">>), GetsK), Sends(<<"get", "k", LF>>, GetsK),
     Sends(Line(<<"set", "k", "0", "0", "2">>) \o Line(<<"get", "k">>),
           SetsK(<<"get", "k">>, FALSE)),
     Sends(Line(<<"set", "k", "0", "0", "2">>) \o Line(<<CR, LF>>), SetsK(<<CR, LF>>, FALSE)),
     Sends(Line(<<"set", "k", "0", "0", "0", "noreply">>) \o Line(<<>>), SetsK(<<>>, TRUE)),
     Sends(Line(<<"set", "x", "0", "0", "2">>) \o Line(<<"get", "k">>),
           Refused(Grammar!BAD_LINE)),
     Sends(Line(<<"cas", "k", "0", "0", "1">>) \o Line(<<LF>>), Refused(Grammar!BAD_LINE)),
     Sends(Line(<<"set", "k", "0", "0", "1">>) \o <<"get", "k", LF>>,
           Refused(Grammar!Client("bad data chunk"))),
     Sends(Line(<<"ms", "k", "2", "T1">>) \o Line(<<"get", LF>>), MsK(<<"get", LF>>)),
     Sends(Line(<<"ms", "k", "1">>) \o <<"get", "k", LF>>,
           Refused(Grammar!Client("bad data chunk"))),
     Sends(Line(<<"ms", "k", "x">>), Refused(Grammar!Client("bad data length"))),
     Sends(Line(<<"mg", "x">>), Refused(Grammar!Client("invalid key"))),
     Sends(Line(<<"x">>), Refused(<<"ERROR">>))}
(* An `ms` that is refused for its key, a flag or its mode consumes its line *)
(* alone (meta.rs:107, 112, 137), and its block is read as commands.         *)
McStrays ==
    {Strays(Line(<<"ms", "x", "2">>) \o Line(<<"get", "k">>),
            <<Refused(Grammar!Client("invalid key")), GetsK>>),
     Strays(Line(<<"ms", "k", "2", "x">>) \o Line(<<"x", "k">>),
            <<Refused(Grammar!Client("unsupported flag")), Refused(<<"ERROR">>)>>),
     Strays(Line(<<"ms", "k", "2", "MQ">>) \o Line(<<"get", "k">>),
            <<Refused(Grammar!Client("invalid mode for ms")), GetsK>>)}
McBreaks == {Breaks(Line(<<"set", "k", "0", "0", "9">>)), Breaks(Line(<<"ms", "k", "9">>))}
McEndless == {Breaks(<<"get", "k", "k", "k", "k", "k", "k", "k">>)}
McConversations ==
    {<<a, b, Sends(Line(<<"get", "k">>), GetsK)>> : a, b \in McRequests \cup McStrays}
    \cup {<<a, end>> : a \in McRequests, end \in McBreaks \cup McEndless}
    \cup {<<end, a>> : a \in McRequests, end \in McBreaks}

McParse(b) == Grammar!parse(b)
McStream == INSTANCE Stream WITH Parse <- McParse, Conversations <- McConversations

-----------------------------------------------------------------------------
(* Lifetimes of every form, around the limits of each dialect; a second has *)
(* four milliseconds.  Numbers of four bits, and decimals in tenths.        *)

Lifetimes ==
    [dialect : {"memcached"}, command : {"set"}, form : {"after"},
     amount : {-1, 0, 1, 2, 8, 9, 20, 22, 62, 63, 64, 70}]
    \cup [dialect : {"vcp"}, command : {"set", "touch", "arithmetic"}, form : {"after"},
          amount : {0, 1, 8, 9, 40, 63}]
    \cup [dialect : {"resp"}, command : {"set", "expire"}, form : {"after", "at"},
          amount : {1, 2, 3, 4, 5, 6, 7, 8, 34, 80, 81, 83, 85, 86, 90, 200, 300}]
    \cup [dialect : {"resp"}, command : {"expire"}, form : {"after", "at"}, amount : {-5, 0}]

Deadlines == INSTANCE Ttl WITH
                 SECOND <- 4, MAX_TTL_SECS <- 8, U32_MAX <- 63, TIME_MAX <- 320,
                 Requests <- Lifetimes, Starts <- {80, 81, 82, 83}, MaxWait <- 6,
                 Earlier <- {0, 100}

Bounded(domain, deltas, bounds) ==
    {[domain |-> domain, delta |-> d, lower |-> b[1], upper |-> b[2], on_bound |-> w,
      missing |-> m] : d \in deltas, b \in bounds, w \in {"Fail", "Skip", "Clamp"},
                       m \in {"Fail", "CreateAtZero"}}
Steps ==
    [domain : {"Counter"}, delta : {1, 6, 15}, decrement : BOOLEAN,
     missing : {"Fail", "CreateAtZero"}]
    \cup Bounded("Int", {-8, -3, 1, 7}, {<<-8, 7>>, <<-2, 3>>, <<2, 5>>})
    \cup Bounded("Float", {-16, -4, 5, 18, 20}, {<<-20, 20>>, <<-9, 9>>, <<3, 12>>})

Counting == INSTANCE Numbers WITH
                I64_MAX <- 7, U64_MAX <- 15, F64_EXACT <- 10, F64_MAX <- 20, Ops <- Steps,
                Texts <- {<<>>, <<"0">>, <<"7">>, <<"-", "8">>, <<"-", "0">>, <<"0", "3">>,
                          <<" ", "3", " ">>, <<"+", "4">>, <<"1", "5">>, <<"8">>, <<"x">>,
                          <<"0", ".", "5">>, <<"-", "1", ".", "2">>, <<"-">>, <<"1", "6">>}

-----------------------------------------------------------------------------
(* One machine at a time.                                                   *)

vcpOnly == <<vcp, client, up, inbuf, down, peer, asked, truth, result, calls, abandoned>>
respOnly == <<args, reply>>
mcOnly == <<ran>>
streamOnly == <<conversation, sent, done, dead>>
numOnly == <<stored, before, op>>
ttlOnly == <<arrived, time, ttl, deadline, reported, stage>>
protocolVars == <<part, vcpOnly, respOnly, mcOnly, streamOnly, numOnly, ttlOnly,
                  buf, session, request, out>>

NoVcp ==
    /\ vcp = None /\ client = None /\ up = None /\ inbuf = None /\ down = None
    /\ peer = None /\ asked = None /\ truth = None /\ result = None /\ calls = None
    /\ abandoned = None
NoResp == args = None /\ reply = None
NoStream == conversation = None /\ sent = None /\ done = None /\ dead = None
NoNumbers == stored = None /\ before = None /\ op = None
NoTtl ==
    /\ arrived = None /\ time = None /\ ttl = None /\ deadline = None
    /\ reported = None /\ stage = None

ProtocolInit ==
    \/ /\ part = "vcp" /\ Native!VcpInit
       /\ NoResp /\ NoStream /\ NoNumbers /\ NoTtl
       /\ session = None /\ request = None /\ ran = None /\ out = None
    \/ /\ part = "resp" /\ Resp!RespInit
       /\ NoVcp /\ NoStream /\ NoNumbers /\ NoTtl
       /\ buf = None /\ request = None /\ ran = None /\ out = None
    \/ /\ part = "mc" /\ Mc!McInit
       /\ NoVcp /\ NoResp /\ NoStream /\ NoNumbers /\ NoTtl /\ buf = None
    \/ /\ part = "resp stream" /\ RespStream!StreamInit
       /\ NoVcp /\ NoResp /\ NoNumbers /\ NoTtl
       /\ session = None /\ request = None /\ ran = None /\ out = None
    \/ /\ part = "mc stream" /\ McStream!StreamInit
       /\ NoVcp /\ NoResp /\ NoNumbers /\ NoTtl
       /\ session = None /\ request = None /\ ran = None /\ out = None
    \/ /\ part = "numbers" /\ Counting!NumInit
       /\ NoVcp /\ NoResp /\ NoStream /\ NoTtl
       /\ buf = None /\ session = None /\ request = None /\ ran = None
    \/ /\ part = "ttl" /\ Deadlines!TtlInit
       /\ NoVcp /\ NoResp /\ NoStream /\ NoNumbers
       /\ buf = None /\ session = None /\ ran = None /\ out = None

ProtocolNext ==
    \/ /\ part = "vcp" /\ Native!VcpNext
       /\ UNCHANGED <<part, respOnly, mcOnly, streamOnly, numOnly, ttlOnly, session,
                      request, out>>
    \/ /\ part = "resp" /\ Resp!RespNext
       /\ UNCHANGED <<part, vcpOnly, mcOnly, streamOnly, numOnly, ttlOnly, buf, request,
                      out>>
    \/ /\ part = "mc" /\ Mc!McNext
       /\ UNCHANGED <<part, vcpOnly, respOnly, streamOnly, numOnly, ttlOnly, buf>>
    \/ /\ part = "resp stream" /\ RespStream!StreamNext
       /\ UNCHANGED <<part, vcpOnly, respOnly, mcOnly, numOnly, ttlOnly, session, request,
                      out>>
    \/ /\ part = "mc stream" /\ McStream!StreamNext
       /\ UNCHANGED <<part, vcpOnly, respOnly, mcOnly, numOnly, ttlOnly, session, request,
                      out>>
    \/ /\ part = "numbers" /\ Counting!NumNext
       /\ UNCHANGED <<part, vcpOnly, respOnly, mcOnly, streamOnly, ttlOnly, buf, session,
                      request>>
    \/ /\ part = "ttl" /\ Deadlines!TtlNext
       /\ UNCHANGED <<part, vcpOnly, respOnly, mcOnly, streamOnly, numOnly, buf, session,
                      out>>

ProtocolSpec == ProtocolInit /\ [][ProtocolNext]_protocolVars

(* The lifetimes alone. *)
LifetimeSpec == part = "ttl" /\ ProtocolInit /\ [][ProtocolNext]_protocolVars

-----------------------------------------------------------------------------
(* The properties, as the modules state them.                               *)

(* vash-client round_trip, vcp/decode.rs: a call that is waited for comes   *)
(* back, with the answer to that very call, worked out from what the caller *)
(* put into its frame; no frame is larger than a client accepts             *)
(* (vcp/encode.rs ValuesFrame).                                             *)
CallsAreAnswered ==
    part = "vcp" =>
        /\ Native!AnswerIsForThisCall /\ Native!ServerReadsWhatWasSent
        /\ Native!NoCallIsStranded /\ Native!ServerFramesFit

(* resp/command.rs classify, auth.rs for_resp: the cheap look at a command  *)
(* and the role asked for it by name agree with the full parse, and the     *)
(* order of options changes nothing in that parse.                          *)
ParsersAgree ==
    part = "resp" => Resp!CommandsAgree

(* resp.rs execute, resp/encode.rs: a command is answered by one value,     *)
(* which can be written in the version negotiated, but for an MGET whose    *)
(* store fails half-way (resp.rs:768) and an MSETTAGS that lacks its count  *)
(* and ends what runs it (command.rs:826); memcached.rs execute: by one     *)
(* reply for each command whose words ask for one, a key called noreply     *)
(* excepted (text.rs:466), with each value under its own key and END only   *)
(* when nothing is missing (encode_retrieval, execute_dump).                *)
OneReplyEach ==
    /\ part = "resp" => Resp!OneValuePerCommand /\ Resp!EveryReplyRenders
    /\ part = "mc" =>
         Mc!OneReplyPerCommand /\ Mc!ValuesNameTheirKeys /\ Mc!DumpEndMeansComplete

(* resp.rs hello: a HELLO that fails leaves the connection as it was;       *)
(* memcached.rs: a connection that never logged in reaches no record.       *)
RefusedChangesNothing ==
    [][/\ part = "resp" => Resp!HelloKeeps
       /\ part = "mc" => Mc!StrangerStep]_protocolVars

(* conn.rs drain, resp/mod.rs, memcached/mod.rs: however the stream is cut, *)
(* the requests that were sent are the ones answered, and no value is read  *)
(* as a command but the block of an `ms` that was refused for its key, its  *)
(* flags or its mode, which is (meta.rs:107 to 137).                        *)
AnswersWhatWasSent ==
    /\ part = "resp stream" => RespStream!AnswersWhatWasSent
    /\ part = "mc stream" => McStream!AnswersWhatWasSent

(* arith.rs: a result is the one of the reference within its bounds, the    *)
(* delta reported is the distance an integer or a counter moved, and that   *)
(* of a float up to the rounding of one sum (arith.rs:291), and what was    *)
(* written reads back as the number it is.                                  *)
ArithmeticIsExact ==
    part = "numbers" =>
        Counting!BoundedReference /\ Counting!AppliedIsTheMove /\ Counting!StoredReadsBack

(* clock.rs, expiry: a record lives as long as its client asked, except     *)
(* where an ARITHMETIC of VCP asks for more than thirty days, which is read *)
(* as a date, and where a memcached time is past u32, which is stored       *)
(* expired; resp.rs ttl, meta.rs: a lifetime that is reported is the one    *)
(* left.                                                                    *)
LifetimesAreKept ==
    part = "ttl" => Deadlines!LifetimeIsKept /\ Deadlines!ReportsAreHonest

(* What the repository says of four of these cases and the code does not    *)
(* keep: docs/protocol.md:1686, one error line for one bad command;         *)
(* docs/protocol.md:1033, `noreply` is an option at the end of a line;      *)
(* docs/protocol.md:1383, a rejected storage command consumes its block;    *)
(* arith.rs:175, the delta reported is how far the number moved.            *)
EveryCommandGetsItsValue == part = "resp" => Resp!EveryCommandGetsItsValue
SilenceOnlyWhenAsked == part = "mc" => Mc!SilenceOnlyWhenAsked
RejectedBlocksAreConsumed ==
    part = "mc stream" =>
        (McStream!Drained /\ ~dead => Len(done) = Len(conversation))
DeltaIsTheMove == part = "numbers" => Counting!DeltaIsTheMove

(* docs/protocol.md:1782 and 1787: a lifetime VCP asks for is an offset at  *)
(* every magnitude, and one too long is stored as the ceiling in every      *)
(* dialect, so that none makes the record expire at once.                   *)
AskedForNeverExpiresAtOnce == part = "ttl" => Deadlines!AskedForNeverExpiresAtOnce
=============================================================================
