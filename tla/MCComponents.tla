---------------------------- MODULE MCComponents ----------------------------
(***************************************************************************)
(* The smaller machines of the server, for TLC, one at a time: the CAS     *)
(* tokens (CasAllocator), the counters of the lanes (Lanes), the sampled   *)
(* hot keys (HotKeys), the slow log and the waits it charges (SlowLog),    *)
(* the credentials with the identities they gave (Credentials), the store  *)
(* the tests use (StandIn), the warmer of resident mode (Residency), the   *)
(* ages of reads (Readers) and the routing of batches (Routing).  `part`   *)
(* says which machine a behaviour runs.  The others stand in an initial    *)
(* state, or, where they are instances, have None in their variables.      *)
(***************************************************************************)
EXTENDS CasAllocator, Lanes, Credentials, Residency, Readers

CONSTANTS
    t1, t2, t3,         \* threads
    peer1               \* a connection

VARIABLES
    part,
    summary, truth,                                                         \* HotKeys
    slot, task, next_id, rings, admitted, evicted, cleared, resets,         \* SlowLog
    inner, ram, t, now, made, answers, token, parted,                       \* StandIn
    count, items, placed, turn, results                                     \* Routing

-----------------------------------------------------------------------------
(* Three threads on two lanes, of which the second is shared.               *)
MCOutcomes ==
    {[kind |-> "get", reply |-> "read", hits |-> 1, misses |-> 1],
     [kind |-> "set", reply |-> "failed"], [kind |-> "set", reply |-> "stored"],
     [kind |-> "set", reply |-> "skipped"],
     [kind |-> "set", reply |-> "batch", sets |-> 2]}

(* Three keys contend for two counters in each of two lanes.                *)
Hot == INSTANCE HotKeys WITH
    Digests <- 1..3, HotLanes <- 1..2, capacity <- 2, MaxSamples <- 6

(* Three requests on a worker and two threads of the pool, which share a    *)
(* lane; a ring holds two entries.                                          *)
Slow == INSTANCE SlowLog WITH
    Tasks <- 1..3, Kinds <- {"get", "query", "write", "run", "merge"}, Threads <- 1..3,
    Workers <- {1}, lane <- <<1, 2, 2>>, max_len <- 2, MaxShards <- 2, MaxResets <- 1

-----------------------------------------------------------------------------
(* Files an operator may leave behind, right and wrong, and what a client   *)
(* may present.                                                             *)
Row(name, algorithm, value, extra) ==
    [kind |-> "row", name |-> name, field |-> [algorithm |-> algorithm, value |-> value],
     extra |-> extra, valid_name |-> TRUE]
One(extra) == Row("app", "sha256", sha256("one"), extra)
Node(name) == Row(name, "mtls", "node.internal", <<>>)
Comment == [kind |-> "comment"]
Good == <<Comment, One(<<<<"read", "write">>>>),
          Row("node", "mtls", "node.internal", <<<<"peer">>>>)>>

Files ==
    {Good, <<Comment>>,
     <<One(<<<<"read">>>>), Row("ops", "sha256", sha256("two"), <<>>)>>,
     <<Node("node"), Node("spare")>>,
     <<One(<<>>), Row("app", "sha256", sha256("two"), <<>>)>>,
     <<One(<<>>), Row("ops", "sha512", sha256("two"), <<>>)>>,
     <<One(<<None>>)>>, <<One(<<<<"read">>, <<"write">>>>)>>,
     <<One(<<<<"read", "admin">>>>)>>}

MCSources ==
    [file : Files, env : {None}, private : {TRUE}]
    \cup {[file |-> None, env |-> "one", private |-> TRUE],
          [file |-> None, env |-> "short", private |-> TRUE],
          [file |-> Good, env |-> "one", private |-> TRUE],
          [file |-> Good, env |-> None, private |-> FALSE]}

MCConfigs ==
    [required : {TRUE}, default_roles : {None, <<>>, <<"read", "list">>}]
    \cup [required : {FALSE}, default_roles : {<<"write">>}]

MCPresented ==
    {<<"app", "one">>, <<"ops", "two">>, <<"node", "one">>, <<"default", "one">>}

MCCertificates == {{"node.internal"}, {"node.internal", "other"}, {"other"}}

MCCommands ==
    {"vcp"} \X {"Get", "Set", "Arithmetic", "DeleteByTag", "Flush", "TagSync", "ListKeys"}
    \cup {"resp"} \X {"GET", "SET", "SET GET", "INCR", "DELBYTAG", "SCAN", "INFO"}
    \cup {"memcached"} \X {"get", "set", "get_and_touch", "arithmetic", "flush", "stats"}

-----------------------------------------------------------------------------
(* Calls of every kind of the store, on two keys and two tags.              *)
TtlOf(how, secs) == [how |-> how, secs |-> secs]
Write(key, val, names, ttl) ==
    [key |-> key, val |-> val, names |-> names, ttl |-> ttl, mode |-> "set", expected |-> 0]
Guarded(key, names, ttl, mode) ==
    [op |-> "store", set |-> [Write(key, 1, names, ttl) EXCEPT !.mode = mode]]
Expiring(ttl, guard) == [op |-> "expire", key |-> 1, ttl |-> ttl, guard |-> guard]

StoreCalls ==
    {[op |-> "get", keys |-> <<1, 2>>],
     [op |-> "set_many", sets |-> <<Write(1, 1, <<1>>, TtlOf("set", 1))>>],
     [op |-> "set_many", sets |-> <<Write(1, 1, <<>>, TtlOf("set", 0)),
                                    Write(2, 2, <<2, 1>>, TtlOf("set", 2))>>],
     [op |-> "set_many_if", guard |-> "absent",
      sets |-> <<Write(1, 3, <<>>, TtlOf("set", 0)), Write(2, 3, <<2>>, TtlOf("keep", 0))>>],
     [op |-> "set_many_if", guard |-> "present", sets |-> <<Write(1, 3, <<1>>, TtlOf("enx", 2))>>],
     Guarded(1, <<>>, TtlOf("set", 2), "add"), Guarded(1, <<2>>, TtlOf("keep", 0), "replace"),
     Guarded(1, <<1>>, TtlOf("set", 9), "append"), Guarded(2, <<>>, TtlOf("set", 0), "cas"),
     Guarded(1, <<>>, TtlOf("enx", 1), "cas"), Guarded(2, <<>>, TtlOf("set", 9), "set"),
     [op |-> "arithmetic", key |-> 1, absent |-> "create", bound |-> 3, ttl |-> TtlOf("enx", 2)],
     [op |-> "arithmetic", key |-> 2, absent |-> "fail", bound |-> 2, ttl |-> TtlOf("keep", 0)],
     [op |-> "append", key |-> 1],
     Expiring(TtlOf("set", 2), "if_later"), Expiring(TtlOf("set", 0), "always"),
     Expiring(TtlOf("set", 9), "if_volatile"), Expiring(TtlOf("set", 1), "if_earlier"),
     Expiring(TtlOf("enx", 1), "if_persistent"),
     [op |-> "touch", key |-> 1, secs |-> 9],
     [op |-> "get_and_touch", keys |-> <<2, 1>>, secs |-> 2],
     [op |-> "delete_many", keys |-> <<1, 2>>], [op |-> "delete", key |-> 1],
     [op |-> "delete_by_tag", name |-> 1], [op |-> "flush"],
     [op |-> "merge_tag", name |-> 2, gen |-> 2], [op |-> "merge_tag", name |-> 1, gen |-> 1]}

Stand == INSTANCE StandIn WITH
    Keys <- {1, 2}, Names <- {1, 2}, MaxTtlSecs <- 3, AlreadyExpired <- 9,
    Calls <- StoreCalls, MaxCalls <- 3, MaxNow <- 3

(* Every request of up to three keys, over one to four shards.              *)
Route == INSTANCE Routing WITH Hashes <- 0..5, ShardCounts <- 1..4, MaxItems <- 3

-----------------------------------------------------------------------------
(* One machine at a time.                                                   *)

hotVars == <<summary, truth>>
slowVars == <<slot, task, next_id, rings, admitted, evicted, cleared, resets>>
standVars == <<inner, ram, t, now, made, answers, token, parted>>
routeVars == <<count, items, placed, turn, results>>

NoHot == summary = None /\ truth = None
NoSlow ==
    /\ slot = None /\ task = None /\ next_id = None /\ rings = None
    /\ admitted = None /\ evicted = None /\ cleared = None /\ resets = None
NoStand ==
    /\ inner = None /\ ram = None /\ t = None /\ now = None
    /\ made = None /\ answers = None /\ token = None /\ parted = None
StillCred == config = [required |-> FALSE, default_roles |-> <<"write">>] /\ source.env = "one"
StillResident == high = [s \in 1..WarmShards |-> 1] /\ warmed # high
NoRoute == count = None /\ items = None /\ placed = None /\ turn = None /\ results = None

ComponentsInit ==
    /\ part \in {"cas", "lanes", "hot", "slow", "cred", "stand", "resident", "reads", "route"}
    /\ Init /\ LaneInit /\ CredInit /\ ResInit /\ ReadersInit
    /\ IF part = "hot" THEN Hot!HotInit ELSE NoHot
    /\ IF part = "slow" THEN Slow!SlowInit ELSE NoSlow
    /\ part # "cred" => StillCred
    /\ IF part = "stand" THEN Stand!StandInit ELSE NoStand
    /\ part # "resident" => StillResident
    /\ IF part = "route" THEN Route!RouteInit ELSE NoRoute

(* The other machines stand still. *)
Only(p) ==
    /\ part = p
    /\ UNCHANGED part
    /\ IF p = "cas" THEN TRUE ELSE UNCHANGED vars
    /\ IF p = "lanes" THEN TRUE ELSE UNCHANGED laneVars
    /\ IF p = "hot" THEN TRUE ELSE UNCHANGED hotVars
    /\ IF p = "slow" THEN TRUE ELSE UNCHANGED slowVars
    /\ IF p = "cred" THEN TRUE ELSE UNCHANGED credVars
    /\ IF p = "stand" THEN TRUE ELSE UNCHANGED standVars
    /\ IF p = "resident" THEN TRUE ELSE UNCHANGED resVars
    /\ IF p = "reads" THEN TRUE ELSE UNCHANGED readerVars
    /\ IF p = "route" THEN TRUE ELSE UNCHANGED routeVars

ComponentsNext ==
    \/ Only("cas") /\ Next
    \/ Only("lanes") /\ LaneNext
    \/ Only("hot") /\ Hot!HotNext
    \/ Only("slow") /\ Slow!SlowNext
    \/ Only("cred") /\ CredNext
    \/ Only("stand") /\ Stand!StandNext
    \/ Only("resident") /\ ResNext
    \/ Only("reads") /\ ReadersNext
    \/ Only("route") /\ Route!RouteNext

ComponentsSpec ==
    ComponentsInit /\ [][ComponentsNext]_<<part, vars, laneVars, hotVars, slowVars, credVars,
                                           standVars, resVars, readerVars, routeVars>>

-----------------------------------------------------------------------------
(* The properties, as the modules state them; those of the tokens, lanes,   *)
(* credentials, warmer and readers are the modules' own.                    *)

(* hotkeys.rs: a key busier than the share of one counter is tracked, and a *)
(* count is over by no more than the error given with it.  slowlog.rs:      *)
(* entries are in a ring in the order of their ids, pushed out, or cleared; *)
(* never lost.  writer.rs queue_wait: a write the pool waited for is        *)
(* charged its own wait, and what waited for none is charged none or that   *)
(* of a gossip merge before it (cluster.rs:496), never another command's.   *)
IntrospectionIsExact ==
    /\ part = "hot" => Hot!HotKeyIsTracked /\ Hot!ErrorIsABound
    /\ part = "slow" =>
         Slow!EntriesAreAccounted /\ Slow!RingsAreInOrder /\ Slow!PoolWaitsAreCharged

(* vash-store/src/writer.rs:136, which the merges of gossip do not keep.     *)
NoWaitIsInherited == part = "slow" => Slow!NoWaitIsInherited

(* memory.rs: the store of the tests answers as the real one until a tag is *)
(* deleted by that a refused write alone has named (memory.rs:347 against   *)
(* store.rs:346), and its pages show every live key once and in order but   *)
(* those that a page's budget ended at (memory.rs:556).                     *)
StandInAgrees == part = "stand" => Stand!StandInAgrees /\ Stand!StandInListsAll

(* memory.rs:15: both without the exceptions.  It does not hold.            *)
StandInIsFaithful ==
    part = "stand" => Stand!StandInIsFaithful /\ Stand!StandInShowsEveryKey

(* shard.rs group: every item of a batch is answered, in its own place.     *)
EveryItemIsAnswered == part = "route" => Route!EveryItemIsAnswered
=============================================================================
