----------------------------- MODULE MCServing -----------------------------
(***************************************************************************)
(* The serving side for TLC, with its liveness: the block executor         *)
(* (Pipeline), the connections (Connections), the listings (Listing) and   *)
(* the pattern walk (Glob).  They are separate machines: a behaviour runs  *)
(* one of them, chosen by its initial state, while the others stand in a   *)
(* state in which they have ended.                                         *)
(***************************************************************************)
EXTENDS Connections, Sequences

CONSTANTS
    None, Error,
    k1, k2,             \* keys of a block
    s1, s2              \* sockets

VARIABLES
    block, conn, slices, at, batch, out, kv, verdict, faults,       \* Pipeline
    world, record, pager, live, next, now, lost, writes,          \* Listing
    pattern, candidate, p, c, star, retry, answer                   \* Glob

-----------------------------------------------------------------------------
(* Blocks of up to three commands, on connections of each kind.             *)

reader == [name |-> "reader", roles |-> {"read"}]
writer == [name |-> "writer", roles |-> {"read", "write"}]

Cmd(op, key, as, quiet) == [op |-> op, key |-> key, as |-> as, quiet |-> quiet]

Alphabet(dialect) ==
    CASE dialect = "resp" ->
            {Cmd("get", k1, Error, FALSE), Cmd("set", k1, Error, FALSE),
             Cmd("set", k2, Error, FALSE), Cmd("tagged", k1, Error, FALSE),
             Cmd("add", k1, Error, FALSE), Cmd("auth", k1, writer, FALSE),
             Cmd("auth", k1, reader, FALSE), Cmd("badset", k1, Error, FALSE),
             Cmd("quit", k1, Error, FALSE)}
      [] dialect = "memcached" ->
            {Cmd("get", k1, Error, FALSE), Cmd("set", k1, Error, FALSE),
             Cmd("set", k2, writer, FALSE), Cmd("set", k1, Error, TRUE),
             Cmd("add", k1, Error, TRUE), Cmd("bad", k1, Error, FALSE),
             Cmd("quit", k1, Error, FALSE)}
      [] dialect = "vcp" ->
            {Cmd("get", k1, Error, FALSE), Cmd("set", k1, Error, FALSE),
             Cmd("set", k2, Error, TRUE), Cmd("tagged", k1, Error, FALSE),
             Cmd("add", k1, Error, FALSE), Cmd("auth", k1, writer, TRUE),
             Cmd("auth", k1, Error, FALSE), Cmd("bad", k1, Error, TRUE)}

Dialects == {"resp", "memcached", "vcp"}

PipeBlocks ==
    UNION {[dialect : {d}, required : {TRUE}, identity : {None, reader, writer},
            inline : {TRUE}, max : {2}, fatal : {FALSE}, faults : {1},
            cmds : UNION {[1..n -> Alphabet(d)] : n \in 1..3}] : d \in Dialects}
    \cup
    UNION {[dialect : {d}, required : {FALSE}, identity : {None},
            inline : BOOLEAN, max : {3}, fatal : {TRUE}, faults : {1},
            cmds : [1..2 -> Alphabet(d)]] : d \in Dialects}

Pipe == INSTANCE Pipeline WITH Keys <- {k1, k2}, Blocks <- PipeBlocks

PipeOver ==
    /\ block = [dialect |-> "resp", required |-> FALSE, identity |-> None,
                inline |-> TRUE, max |-> 1, fatal |-> FALSE, faults |-> 0, cmds |-> <<>>]
    /\ conn = [identity |-> None, failures |-> 0]
    /\ slices = <<>> /\ at = [pc |-> "written", pos |-> 1, to |-> 0]
    /\ batch = <<>> /\ out = <<>> /\ kv = [k \in {k1, k2} |-> 0]
    /\ verdict = <<>> /\ faults = 0

-----------------------------------------------------------------------------
(* A server with one place for a stranger, one that asks nobody who they    *)
(* are, and one with more sockets than places.                              *)

Strict ==
    [sockets |-> {s1}, enforcing |-> TRUE, encrypted |-> TRUE, first_byte |-> TRUE,
     max |-> 1, pre |-> 1, attempts |-> 2, ceiling |-> 2, pre_ceiling |-> 1,
     governs |-> TRUE, unwinds |-> TRUE]
Unenforced == [Strict EXCEPT !.enforcing = FALSE, !.unwinds = FALSE]
Crowded == [Strict EXCEPT !.sockets = {s1, s2}, !.max = 2, !.attempts = 1,
                          !.first_byte = FALSE, !.encrypted = FALSE,
                          !.ceiling = 1, !.pre_ceiling = 0, !.governs = FALSE]

MCServers == {Strict, Unenforced, Crowded}

ConnOver ==
    /\ setup = Crowded /\ server = "closed" /\ stop = TRUE /\ timed_out = FALSE
    /\ task = [s \in {s1, s2} |-> Absent]
    /\ free = 2 /\ pre_free = 1 /\ registry = {} /\ orphans = {} /\ next_id = 1
    /\ warm = [pc |-> "done", steps |-> 0, inline |-> FALSE]

-----------------------------------------------------------------------------
(* Four keys in two shards, one of which the pattern does not match: paged  *)
(* by one client or two, with writers, lost replies and expiring cursors.   *)

Paged == [kinds |-> <<"list", "off">>, limit |-> 2, max_scan |-> 2, capacity |-> 2,
          ttl |-> 2, present |-> 1..4, writes |-> 2, lost |-> 1, ticks |-> 0]
Two == [Paged EXCEPT !.kinds = <<"scan", "scan">>, !.lost = 0, !.writes = 0]

Listings ==
    {[Paged EXCEPT !.kinds = <<"tags", "off">>, !.limit = 1, !.present = {1, 3, 4}],
     [Two EXCEPT !.limit = 1, !.max_scan = 3, !.present = {1, 2, 4}],
     [Two EXCEPT !.capacity = 1, !.writes = 1, !.present = {1, 4}],
     [Paged EXCEPT !.kinds = <<"scan", "off">>, !.ticks = 2],
     [Paged EXCEPT !.kinds = <<"scan", "off">>, !.ticks = 2, !.limit = 1, !.capacity = 1],
     [Paged EXCEPT !.writes = 3],
     [Paged EXCEPT !.limit = 3, !.max_scan = 1],
     [Paged EXCEPT !.kinds = <<"dump", "off">>, !.limit = 1, !.max_scan = 3],
     [Paged EXCEPT !.kinds = <<"dump", "off">>, !.limit = 1, !.max_scan = 9]}

List == INSTANCE Listing WITH
            Keys <- 1..4, LastShard <- 1, shard_of <- <<0, 0, 1, 1>>,
            Matching <- {1, 2, 4}, Pagers <- {1, 2}, Worlds <- Listings

ListOver ==
    /\ world = Two /\ record = [k \in 1..4 |-> "absent"]
    /\ pager = [i \in {1, 2} |-> List!Idle("off")]
    /\ live = <<>> /\ next = 1 /\ now = 0 /\ lost = 0 /\ writes = 0

-----------------------------------------------------------------------------
(* Patterns and keys of up to three bytes, and the patterns of four that    *)
(* can backtrack to one star or to two.                                     *)

UpTo(S, n) == UNION {[1..k -> S] : k \in 0..n}

Walk == INSTANCE Glob WITH
            Patterns <- UpTo({"a", "b", "*", "?", "\\"}, 3)
                        \cup {<<"*", x, "*", y>> : x, y \in {"a", "b", "?"}}
                        \cup {<<"*", x, y, z>> : x, y, z \in {"a", "b"}},
            Candidates <- UpTo({"a", "b"}, 4) \cup {<<"*">>, <<"a", "*">>}

WalkOver ==
    /\ pattern = <<>> /\ candidate = <<>> /\ p = 0 /\ c = 0
    /\ star = -1 /\ retry = 0 /\ answer = "yes"

-----------------------------------------------------------------------------
(* The machines side by side.                                               *)

pipeVars == <<block, conn, slices, at, batch, out, kv, verdict, faults>>
listVars == <<world, record, pager, live, next, now, lost, writes>>
walkVars == <<pattern, candidate, p, c, star, retry, answer>>
servingVars == <<pipeVars, connVars, listVars, walkVars>>

ServingInit ==
    \/ Pipe!PipeInit /\ ConnOver /\ ListOver /\ WalkOver
    \/ PipeOver /\ ConnInit /\ ListOver /\ WalkOver
    \/ PipeOver /\ ConnOver /\ List!ListInit /\ WalkOver
    \/ PipeOver /\ ConnOver /\ ListOver /\ Walk!GlobInit

ServingNext ==
    \/ Pipe!PipeNext /\ UNCHANGED <<connVars, listVars, walkVars>>
    \/ ConnNext /\ UNCHANGED <<pipeVars, listVars, walkVars>>
    \/ List!ListNext /\ UNCHANGED <<pipeVars, connVars, walkVars>>
    \/ Walk!GlobNext /\ UNCHANGED <<pipeVars, connVars, listVars>>

ServingSpec ==
    /\ ServingInit /\ [][ServingNext]_servingVars
    /\ Pipe!PipeFairness /\ ConnFairness /\ List!ListFairness /\ Walk!GlobFairness

-----------------------------------------------------------------------------
(* The properties, as the modules state them; those of the connections are  *)
(* Connections' own.                                                        *)

(* conn.rs drain, SetBatch::flush: a block is answered in the order sent,   *)
(* and a read behind writes in a block sees them.                           *)
BlocksAreSequential == Pipe!RepliesInOrder /\ Pipe!ReadsSeeEarlierWrites

(* auth.rs, conn.rs: nothing takes effect ahead of the gate, which judges a *)
(* command by the identity it meets; a write that is awaited on the worker, *)
(* by the one the read began with.                                          *)
GateBeforeEffect == Pipe!GateBeforeEffect

(* conn.rs:234, which the writes behind an AUTH in one read do not keep.    *)
AuthNeverGoesStale == Pipe!AuthNeverGoesStale

(* listing.rs, scan.rs: a finished listing missed no key that was there and *)
(* gave none twice, and a page moves to the next shard only with room left; *)
(* glob.rs matches: what is listed is what the pattern means.               *)
ListingIsComplete ==
    /\ List!ListingIsComplete /\ List!ListedOnce /\ List!RoomForTheNextShard
    /\ Walk!GlobIsCorrect

(* conn.rs drain: every block ends; store.rs list_keys, memcached.rs        *)
(* execute_dump: every listing ends; glob.rs matches: the walk ends.        *)
RequestsEnd == Pipe!EveryBlockEnds /\ List!ListingsEnd /\ Walk!GlobEnds
=============================================================================
