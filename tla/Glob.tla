-------------------------------- MODULE Glob --------------------------------
(***************************************************************************)
(* The pattern of the listing operations (vash-core/src/glob.rs): the      *)
(* greedy walk with one remembered star, one step of its loop at a time,   *)
(* against the definition of what a pattern matches.  Bytes are one-letter *)
(* strings; STAR, QUESTION and ESCAPE are "*", "?" and "\\".               *)
(***************************************************************************)
EXTENDS Integers, Sequences

CONSTANTS
    Patterns, Candidates

VARIABLES
    pattern, candidate,
    p, c,           \* how much of each is matched
    star, retry,    \* the last star (-1: none), and where it was first tried
    answer          \* "matching", then TRUE or FALSE as "yes" or "no"

globVars == <<pattern, candidate, p, c, star, retry, answer>>

STAR == "*"
QUESTION == "?"
ESCAPE == "\\"

(* validate: an escape must have a byte to escape. *)
validate(pat) ==
    LET ok[i \in 1 .. Len(pat) + 2] ==
            IF i > Len(pat) THEN TRUE
            ELSE IF pat[i] # ESCAPE THEN ok[i + 1]
            ELSE i < Len(pat) /\ ok[i + 2]
    IN  ok[1]

-----------------------------------------------------------------------------
(* matches, as its loop runs.                                               *)

GlobInit ==
    /\ pattern \in Patterns /\ candidate \in Candidates
    /\ validate(pattern)
    /\ p = 0 /\ c = 0 /\ star = -1 /\ retry = 0
    /\ answer = IF pattern = <<>> THEN "yes" ELSE "matching"

Looping == answer = "matching" /\ c < Len(candidate)

(* pattern.get(p). *)
Token == IF p < Len(pattern) THEN pattern[p + 1] ELSE "end"

(* Whether the token takes the next byte, and how many bytes it is long. *)
Takes ==
    \/ Token = QUESTION
    \/ Token = ESCAPE /\ p + 1 < Len(pattern) /\ pattern[p + 2] = candidate[c + 1]
    \/ Token \notin {STAR, QUESTION, ESCAPE} /\ Token = candidate[c + 1]

RememberStar ==
    /\ Looping /\ Token = STAR
    /\ star' = p /\ p' = p + 1 /\ retry' = c
    /\ UNCHANGED <<pattern, candidate, c, answer>>

TakeByte ==
    /\ Looping /\ Token # STAR /\ Takes
    /\ p' = p + (IF Token = ESCAPE THEN 2 ELSE 1)
    /\ c' = c + 1
    /\ UNCHANGED <<pattern, candidate, star, retry, answer>>

(* Mutant: the last star is not given another byte. *)
BacktrackSamePlace ==
    /\ Looping /\ Token # STAR /\ ~Takes /\ star >= 0
    /\ p' = star + 1 /\ c' = retry
    /\ UNCHANGED <<pattern, candidate, star, retry, answer>>

Backtrack ==
    /\ Looping /\ Token # STAR /\ ~Takes /\ star >= 0
    /\ p' = star + 1 /\ retry' = retry + 1 /\ c' = retry + 1
    /\ UNCHANGED <<pattern, candidate, star, answer>>

Mismatch ==
    /\ Looping /\ Token # STAR /\ ~Takes /\ star < 0
    /\ answer' = "no"
    /\ UNCHANGED <<pattern, candidate, p, c, star, retry>>

(* Mutant: a pattern that is not used up has matched. *)
FinishEarly ==
    /\ answer = "matching" /\ c = Len(candidate)
    /\ answer' = "yes"
    /\ UNCHANGED <<pattern, candidate, p, c, star, retry>>

(* Only stars may be left over. *)
Finish ==
    /\ answer = "matching" /\ c = Len(candidate)
    /\ answer' = IF \A i \in p + 1 .. Len(pattern) : pattern[i] = STAR
                 THEN "yes" ELSE "no"
    /\ UNCHANGED <<pattern, candidate, p, c, star, retry>>

GlobNext == RememberStar \/ TakeByte \/ Backtrack \/ Mismatch \/ Finish

GlobFairness == WF_globVars(GlobNext)

GlobSpec == GlobInit /\ [][GlobNext]_globVars /\ GlobFairness

-----------------------------------------------------------------------------
(* What a pattern matches, by definition: docs/opcodes.md, `*` any run, `?` *)
(* one byte, `\` the byte after it; the empty pattern everything.           *)
Matches(pat, cand) ==
    LET m[i \in 0 .. Len(pat) + 1, j \in 0 .. Len(cand)] ==
            CASE i >= Len(pat) -> j = Len(cand)
              [] i < Len(pat) /\ pat[i + 1] = STAR ->
                    \E k \in j .. Len(cand) : m[i + 1, k]
              [] i < Len(pat) /\ pat[i + 1] = QUESTION ->
                    j < Len(cand) /\ m[i + 1, j + 1]
              [] i < Len(pat) /\ pat[i + 1] = ESCAPE ->
                    /\ j < Len(cand) /\ i + 1 < Len(pat)
                    /\ pat[i + 2] = cand[j + 1] /\ m[i + 2, j + 1]
              [] OTHER -> j < Len(cand) /\ pat[i + 1] = cand[j + 1] /\ m[i + 1, j + 1]
    IN  pat = <<>> \/ m[0, 0]

(* The walk that remembers one star answers what the definition says,       *)
(* although it never reconsiders an earlier star.                           *)
GlobIsCorrect ==
    answer # "matching" => (answer = "yes" <=> Matches(pattern, candidate))

(* The walk ends: every backtrack gives the last star one more byte, so no  *)
(* pattern makes matches loop over a key in the middle of a scan.           *)
GlobEnds == []<>(answer # "matching")
=============================================================================
