------------------------------ MODULE HotKeys ------------------------------
(***************************************************************************)
(* The hot-key and hot-tag rankings: vash-server/src/introspect/hotkeys.rs *)
(* and hottags.rs.  Each lane has a Space-Saving summary of what its       *)
(* threads admitted; a ranking adds the summaries of all lanes.            *)
(*                                                                         *)
(* Which keys are admitted is the sampler's draw, so an admission is an    *)
(* action of its own and a key that is not drawn leaves no trace.  A tag   *)
(* invalidation is always admitted and is a write.                         *)
(***************************************************************************)
EXTENDS Integers, FiniteSets, Sequences, FiniteSetsExt, SequencesExt

CONSTANTS
    Digests,        \* numbers, one for every key
    HotLanes,
    capacity,
    MaxSamples      \* bound: admissions in all

VARIABLES
    summary,        \* [lane -> [counters, sampled]]
    truth           \* history: [lane -> [digest -> admissions]]

hotVars == <<summary, truth>>

total(c) == c.read_samples + c.write_samples

-----------------------------------------------------------------------------
(* Summary::observe.                                                        *)

One(flag) == IF flag THEN 1 ELSE 0

Seen(c, write) ==
    [c EXCEPT !.write_samples = @ + One(write), !.read_samples = @ + One(~write)]

Entered(digest, inherited, write) ==
    [digest |-> digest, read_samples |-> inherited + One(~write),
     write_samples |-> One(write), error |-> inherited]

(* The first of the least-seen counters. *)
Victim(counters) ==
    CHOOSE i \in 1..Len(counters) :
        \A j \in 1..Len(counters) :
            \/ total(counters[i]) < total(counters[j])
            \/ total(counters[i]) = total(counters[j]) /\ i <= j

At(counters, digest) == {i \in 1..Len(counters) : counters[i].digest = digest}

(* A slip: the newcomer takes the oldest slot, not the least seen. *)
observe_first(counters, digest, write) ==
    LET at == At(counters, digest)
    IN  CASE at # {} -> [counters EXCEPT ![Min(at)] = Seen(@, write)]
          [] at = {} /\ Len(counters) < capacity ->
               Append(counters, Entered(digest, 0, write))
          [] OTHER -> [counters EXCEPT ![1] = Entered(digest, total(@), write)]

(* A slip: the newcomer inherits the count and no record of it. *)
observe_sure(counters, digest, write) ==
    LET at == At(counters, digest)
    IN  CASE at # {} -> [counters EXCEPT ![Min(at)] = Seen(@, write)]
          [] at = {} /\ Len(counters) < capacity ->
               Append(counters, Entered(digest, 0, write))
          [] OTHER -> [counters EXCEPT ![Victim(counters)] =
                         [Entered(digest, total(@), write) EXCEPT !.error = 0]]

(* A tracked key is counted; a new one gets a free slot, or the slot of the *)
(* least-seen key together with its count.                                  *)
observe(counters, digest, write) ==
    LET at == At(counters, digest)
    IN  CASE at # {} -> [counters EXCEPT ![Min(at)] = Seen(@, write)]
          [] at = {} /\ Len(counters) < capacity ->
               Append(counters, Entered(digest, 0, write))
          [] OTHER -> [counters EXCEPT ![Victim(counters)] = Entered(digest, total(@), write)]

-----------------------------------------------------------------------------
SampledIn(l) == summary[l].sampled

AllSampled == FoldFunction(+, 0, [l \in HotLanes |-> SampledIn(l)])

(* HotKeys::admit, HotTags::invalidated. *)
admit(l, digest, write) ==
    /\ AllSampled < MaxSamples
    /\ summary' = [summary EXCEPT ![l] =
                     [counters |-> observe(@.counters, digest, write), sampled |-> @.sampled + 1]]
    /\ truth' = [truth EXCEPT ![l][digest] = @ + 1]

Tracked(l) == {c.digest : c \in Range(summary[l].counters)}

Counter(l, digest) == summary[l].counters[Min(At(summary[l].counters, digest))]

(* merge: the summaries are locked and read one after another; what a       *)
(* ranking says of a key is the sum of what the lanes that track it say.    *)
merge(digest) ==
    LET lanes == {l \in HotLanes : digest \in Tracked(l)}
    IN  [total |-> FoldFunction(+, 0, [l \in lanes |-> total(Counter(l, digest))]),
         error |-> FoldFunction(+, 0, [l \in lanes |-> Counter(l, digest).error])]

-----------------------------------------------------------------------------
HotInit ==
    /\ summary = [l \in HotLanes |-> [counters |-> <<>>, sampled |-> 0]]
    /\ truth = [l \in HotLanes |-> [d \in Digests |-> 0]]

HotNext == \E l \in HotLanes, digest \in Digests, write \in BOOLEAN : admit(l, digest, write)

HotSpec == HotInit /\ [][HotNext]_hotVars

-----------------------------------------------------------------------------
(* Properties.                                                              *)

(* A lane never undercounts a key it tracks, and overcounts it by no more   *)
(* than the error it reports.  Added over the lanes the bound survives on   *)
(* one side: a ranking claims no more for a key than was admitted, once its *)
(* error is taken off.                                                      *)
ErrorIsABound ==
    /\ \A l \in HotLanes : \A c \in Range(summary[l].counters) :
          total(c) - c.error <= truth[l][c.digest] /\ truth[l][c.digest] <= total(c)
    /\ \A d \in Digests :
          merge(d).total - merge(d).error
              <= FoldFunction(+, 0, [l \in HotLanes |-> truth[l][d]])

(* What counters_per_lane promises of an absence: a key with more than one  *)
(* sample in `capacity` of its lane's stream is tracked there, once.        *)
HotKeyIsTracked ==
    \A l \in HotLanes :
        /\ Len(summary[l].counters) <= capacity
        /\ \A d \in Digests :
            /\ Cardinality(At(summary[l].counters, d)) <= 1
            /\ truth[l][d] * capacity > SampledIn(l) => d \in Tracked(l)
=============================================================================
