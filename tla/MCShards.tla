------------------------------ MODULE MCShards ------------------------------
(***************************************************************************)
(* Several scenarios of one shard in one run.  A scenario bounds what the  *)
(* callers do, how many of them at once, how long, and what else happens   *)
(* meanwhile; the initial state chooses one, and every step stays in it.   *)
(***************************************************************************)
EXTENDS MCShard

CONSTANTS Scenarios

VARIABLE scenario

Scenario(ops, calls, clients, failing, failures, levels, until) ==
  [ops |-> ops, calls |-> calls, clients |-> clients, failing |-> failing,
   failures |-> failures, levels |-> levels, until |-> until]

Normal == {"normal"}

\* Tags raced by reads; merges and flushes too, with failures and restarts.
TagScenarios ==
  [tags     |-> Scenario(TagOps, 4, 2, {}, 0, Normal, 1),
   recovery |-> Scenario(RecoveryOps, 3, 2, {"apply", "crash"}, 1, Normal, 1)]

\* Every kind of write to one key over time; a map that fills up; a counter
\* and conditional writes of two callers.
IndexScenarios ==
  [keys     |-> Scenario(KeyOps, 3, 1, {}, 0, Normal, 4),
   capacity |-> Scenario(CapacityOps, 3, 1, {"begin", "apply", "commit", "maintenance", "full"},
                         1, {"normal", "soft", "hard", "critical"}, 2),
   updates  |-> Scenario(UpdateOps, 3, 2, {"commit", "crash"}, 1, Normal, 1)]

\* Batches over two keys; then tagged and expiring records of two keys.  The
\* hashes of the two keys collide.
BatchScenarios ==
  [batches    |-> Scenario(BatchOps, 3, 2, {"apply", "commit", "sync", "power"}, 1, Normal, 1),
   collisions |-> Scenario(CollisionOps, 3, 1, {"power"}, 1, Normal, 2)]

\* The calls of all scenarios of a run.
TagCalls   == TagOps \cup RecoveryOps
IndexCalls == KeyOps \cup CapacityOps \cup UpdateOps
BatchCalls == BatchOps \cup CollisionOps

\* A failure of this kind.
Failing(kind) ==
  \/ kind = "begin" /\ BeginFails
  \/ kind = "apply" /\ ApplyFails(FALSE)
  \/ kind = "commit" /\ CommitFails(FALSE)
  \/ kind = "full" /\ (ApplyFails(TRUE) \/ CommitFails(TRUE))
  \/ kind = "maintenance" /\ \E level \in Levels : MaintainFails(level)
  \/ kind = "sync" /\ SyncFails
  \/ kind = "crash" /\ Crash
  \/ kind = "power" /\ PowerLoss

\* The calls a scenario makes are its own; the rest is the shard's Next.
StepIn(s) ==
  \/ \E c \in Clients : ClientStep(c)
  \/ /\ Len(log) < s.calls
     /\ Cardinality({c \in Clients : cl[c].pc # "idle"}) < s.clients
     /\ \E c \in Clients, op \in s.ops : CallRead(c, op) \/ CallStore(c, op) \/ CallWrite(c, op)
  \/ WriterStep
  \/ faults < s.failures /\ \E kind \in s.failing : Failing(kind)
  \/ now < s.until /\ Tick

ScenarioInit == Init /\ scenario \in DOMAIN Scenarios
ScenarioNext ==
  /\ StepIn(Scenarios[scenario])
  /\ ram'.pressure \in Scenarios[scenario].levels
  /\ UNCHANGED scenario
ScenarioSpec == ScenarioInit /\ [][ScenarioNext]_<<vars, scenario>>

============================================================================
