------------------------------- MODULE Lanes -------------------------------
(***************************************************************************)
(* Striped counters: vash-server/src/metrics.rs.  A thread that counts has *)
(* a lane of its own for its life and adds to it with a plain load and a   *)
(* plain store; threads past the last private lane share one and add with  *)
(* a locked instruction.  A thread that exits gives its lane back, and the *)
(* next thread to start takes it over, counts and all.                     *)
(*                                                                         *)
(* A command is counted by several additions, one after another, on the    *)
(* thread that served it (dispatch.rs execute, count_stored); a scrape may *)
(* fall between any two of them.                                           *)
(***************************************************************************)
EXTENDS Integers, FiniteSets, Sequences, FiniteSetsExt, SequencesExt

CONSTANTS
    Threads,
    LANES,          \* the lanes; the last one is the shared lane
    Outcomes,       \* what the commands the threads serve come to
    MaxCommands,    \* bound: commands served in all
    MaxThreads      \* bound: threads started in all

(* There is a shared lane. *)
ASSUME LaneAssumption == LANES \in Nat \ {0}

VARIABLES
    next_lane,      \* NEXT_LANE
    freed,          \* FREED_LANES: a stack
    thread,         \* [pc, lane, todo, loaded] of every thread
    cells,          \* [lane -> [counter -> count]]
    ledger,         \* history: what the commands counted so far really came to
    commands,       \* history: commands taken up
    stored,         \* history: sets that were stored
    started         \* history: threads started

laneVars == <<next_lane, freed, thread, cells, ledger, commands, stored, started>>

SHARED_LANE == LANES - 1
Owned(index) == [index |-> index, owned |-> TRUE]
FALLBACK == [index |-> SHARED_LANE, owned |-> FALSE]

Counters == {"set", "get", "commands_total", "reads", "writes", "hits", "misses"}

-----------------------------------------------------------------------------
(* What a command adds, in the order it adds it.                            *)

Plus(counter, n) == IF n = 0 THEN <<>> ELSE <<[counter |-> counter, n |-> n]>>

read(hits, misses) ==
    Plus("commands_total", 1) \o Plus("reads", 1) \o Plus("hits", hits) \o Plus("misses", misses)

write == Plus("commands_total", 1) \o Plus("writes", 1)

other == Plus("commands_total", 1)

(* dispatch.rs execute, over the reply: a read counts what it hit and what  *)
(* it missed; a change that was skipped and a failure are neither.          *)
execute(outcome) ==
    Plus(outcome.kind, 1) \o
    CASE outcome.reply = "read" -> read(outcome.hits, outcome.misses)
      [] outcome.reply = "stored" -> write
      [] outcome.reply \in {"skipped", "failed"} -> other

(* A slip: a batch counts as one command, however many sets it holds. *)
count_stored_once(n) == Plus("set", 1) \o write

(* A run of plain sets that went to the store in one batch. *)
count_stored(n) == FlattenSeq([i \in 1..n |-> Plus("set", 1) \o write])

Counted(outcome) ==
    IF outcome.reply = "batch" THEN count_stored(outcome.sets) ELSE execute(outcome)

-----------------------------------------------------------------------------
(* The life of a thread.                                                    *)

Gone == [pc |-> "gone", lane |-> FALLBACK, todo |-> <<>>, loaded |-> 0]
Becomes(t, fields) == thread' = [thread EXCEPT ![t] = fields]

(* LaneGuard::claim: a lane somebody gave back, *)
ClaimFreed(t) ==
    /\ thread[t].pc = "gone" /\ started < MaxThreads
    /\ freed # <<>>
    /\ freed' = Front(freed)
    /\ Becomes(t, [Gone EXCEPT !.pc = "ready", !.lane = Owned(Last(freed))])
    /\ started' = started + 1
    /\ UNCHANGED <<next_lane, cells, ledger, commands, stored>>

(* or the next one never used, while there are any. *)
ClaimNext(t) ==
    /\ thread[t].pc = "gone" /\ started < MaxThreads
    /\ freed = <<>>
    /\ next_lane' = next_lane + 1
    /\ Becomes(t, IF next_lane < SHARED_LANE
                  THEN [Gone EXCEPT !.pc = "ready", !.lane = Owned(next_lane)]
                  ELSE [Gone EXCEPT !.pc = "pin"])
    /\ started' = started + 1
    /\ UNCHANGED <<freed, cells, ledger, commands, stored>>

(* Past the last private lane the counter is put back, by a store of its    *)
(* own.                                                                     *)
Pin(t) ==
    /\ thread[t].pc = "pin"
    /\ next_lane' = SHARED_LANE
    /\ Becomes(t, [thread[t] EXCEPT !.pc = "ready"])
    /\ UNCHANGED <<freed, cells, ledger, commands, stored, started>>

(* A slip: the shared lane is handed back like a private one. *)
ExitReturningAny(t) ==
    /\ thread[t].pc = "ready" /\ thread[t].todo = <<>>
    /\ freed' = Append(freed, thread[t].lane.index)
    /\ Becomes(t, Gone)
    /\ UNCHANGED <<next_lane, cells, ledger, commands, stored, started>>

(* The guard is dropped as the thread ends. *)
Exit(t) ==
    /\ thread[t].pc = "ready" /\ thread[t].todo = <<>>
    /\ freed' = IF thread[t].lane.owned THEN Append(freed, thread[t].lane.index) ELSE freed
    /\ Becomes(t, Gone)
    /\ UNCHANGED <<next_lane, cells, ledger, commands, stored, started>>

-----------------------------------------------------------------------------
(* Counting.                                                                *)

Serve(t, outcome) ==
    /\ thread[t].pc = "ready" /\ thread[t].todo = <<>>
    /\ commands < MaxCommands
    /\ commands' = commands + 1
    /\ stored' = stored + (CASE outcome.reply = "batch" -> outcome.sets
                             [] outcome.reply = "stored" -> 1
                             [] OTHER -> 0)
    /\ Becomes(t, [thread[t] EXCEPT !.todo = Counted(outcome)])
    /\ UNCHANGED <<next_lane, freed, cells, ledger, started>>

Added(t) == Head(thread[t].todo)

Tally(t) == ledger' = [ledger EXCEPT ![Added(t).counter] = @ + Added(t).n]

(* bump on a private lane: a load, *)
Load(t) ==
    /\ thread[t].pc = "ready" /\ thread[t].todo # <<>> /\ thread[t].lane.owned
    /\ Becomes(t, [thread[t] EXCEPT
                     !.pc = "loaded",
                     !.loaded = cells[thread[t].lane.index][Added(t).counter]])
    /\ UNCHANGED <<next_lane, freed, cells, ledger, commands, stored, started>>

(* and a store. *)
Store(t) ==
    /\ thread[t].pc = "loaded"
    /\ cells' = [cells EXCEPT ![thread[t].lane.index][Added(t).counter] =
                                thread[t].loaded + Added(t).n]
    /\ Tally(t)
    /\ Becomes(t, [thread[t] EXCEPT !.pc = "ready", !.todo = Tail(@), !.loaded = 0])
    /\ UNCHANGED <<next_lane, freed, commands, stored, started>>

(* bump on the shared lane. *)
FetchAdd(t) ==
    /\ thread[t].pc = "ready" /\ thread[t].todo # <<>> /\ ~thread[t].lane.owned
    /\ cells' = [cells EXCEPT ![SHARED_LANE][Added(t).counter] = @ + Added(t).n]
    /\ Tally(t)
    /\ Becomes(t, [thread[t] EXCEPT !.todo = Tail(@)])
    /\ UNCHANGED <<next_lane, freed, commands, stored, started>>

-----------------------------------------------------------------------------
LaneInit ==
    /\ next_lane = 0 /\ freed = <<>>
    /\ thread = [t \in Threads |-> Gone]
    /\ cells = [l \in 0..SHARED_LANE |-> [c \in Counters |-> 0]]
    /\ ledger = [c \in Counters |-> 0]
    /\ commands = 0 /\ stored = 0 /\ started = 0

LaneNext ==
    \E t \in Threads :
        \/ ClaimFreed(t) \/ ClaimNext(t) \/ Pin(t) \/ Exit(t)
        \/ \E outcome \in Outcomes : Serve(t, outcome)
        \/ Load(t) \/ Store(t) \/ FetchAdd(t)

LaneSpec == LaneInit /\ [][LaneNext]_laneVars

-----------------------------------------------------------------------------
(* Properties.                                                              *)

(* Rates::sum, what a scrape reports.                                       *)
Sum(counter) == FoldFunction(+, 0, [l \in 0..SHARED_LANE |-> cells[l][counter]])

Live == {t \in Threads : thread[t].pc \in {"ready", "loaded"}}

(* The condition bump stands on: a private lane has one writer.  No two     *)
(* running threads own a lane, no thread owns one that is on the free list, *)
(* none is on it twice, and the shared lane is never owned.                 *)
OneWriterPerLane ==
    /\ \A t, u \in Live :
        thread[t].lane.owned /\ thread[u].lane = thread[t].lane => t = u
    /\ \A t \in Live : thread[t].lane.owned =>
        /\ thread[t].lane.index < SHARED_LANE
        /\ thread[t].lane.index \notin Range(freed)
    /\ IsInjective(freed)

NoCountIsLost == \A counter \in Counters : Sum(counter) = ledger[counter]

TotalsAgree ==
    (\A t \in Threads : thread[t].todo = <<>>) =>
        /\ Sum("commands_total") = Sum("set") + Sum("get")
        /\ Sum("reads") + Sum("writes") <= Sum("commands_total")
        /\ Sum("writes") = stored

(* Nothing is lost and nothing is counted twice (metrics.rs bump): whenever *)
(* it is read, each counter is the sum of the additions made so far,        *)
(* whichever lanes they fell on and however many threads those lanes have   *)
(* belonged to.  And when every command taken up has been counted the       *)
(* totals agree with one another and with what was done: a command is a set *)
(* or a get once, it is a read, a write or neither, and every set that      *)
(* stored is a write, whichever route its client's pipelining took it.      *)
CountersAreExact == NoCountIsLost /\ TotalsAgree
=============================================================================
