---------------------------- MODULE BatteryLane ----------------------------
(***************************************************************************)
(* What a battery leaves on disk, and the gate that judges it.             *)
(*                                                                         *)
(* A battery flies one match per seed and keeps, under one state root, the *)
(* event ledger, one row of evidence per measured match                    *)
(* (battery_raw.jsonl), and a summary its process writes when it ends,     *)
(* which names the seeds it skipped.  scripts/check_contamination_gate.py  *)
(* reads these three afterwards and says whether the rows are the seeds    *)
(* that were announced, each once.                                         *)
(*                                                                         *)
(* A match is named by its place among the MATCH_STARTED events, which is  *)
(* also its emitted_at: a file written after k matches had started carries *)
(* k as its mtime.                                                         *)
(***************************************************************************)
EXTENDS Naturals, Sequences, FiniteSets

CONSTANTS SeedBase,    \* --seed-base
          SeedCount    \* --n, the expected battery size

ASSUME SeedsAssumption == SeedBase \in Nat /\ SeedCount \in Nat \ {0}

(* The announced plan.                                                     *)
Seeds == SeedBase + 1 .. SeedBase + SeedCount

VARIABLES
    ledger,     \* match -> what its events say of it
    raw,        \* battery_raw.jsonl
    summary,    \* battery_summary.json
    kept        \* copies of it an operator saved under another name

lane == <<ledger, raw, summary, kept>>

Matches == 1 .. Len(ledger)
NoSummary == [at |-> 0, skips |-> {}]

LaneInit ==
    /\ ledger = <<>>
    /\ raw = <<>>
    /\ summary = NoSummary
    /\ kept = {}

(* The generation the lane's policy chain stands at.                       *)
Generation == Cardinality({m \in Matches : ledger[m].promoted})

Started(seed) ==
    Append(ledger, [seed |-> seed, ended |-> FALSE, gen |-> Generation, promoted |-> FALSE])

Ended(m, promoted) == [ledger EXCEPT ![m].ended = TRUE, ![m].promoted = promoted]

Row(m) == [seed |-> ledger[m].seed, match |-> m]

WriteSummary(skips) == summary' = [at |-> Len(ledger), skips |-> skips]

(* An operator saves the summary before a later run overwrites it.         *)
Preserve ==
    /\ summary.skips # {}
    /\ summary \notin kept
    /\ kept' = kept \cup {summary}
    /\ UNCHANGED <<ledger, raw, summary>>

-----------------------------------------------------------------------------
(* The gate.                                                               *)

RowsOf(seed) == {i \in DOMAIN raw : raw[i].seed = seed}
RawSeeds == {raw[i].seed : i \in DOMAIN raw}
RawMatches == {raw[i].match : i \in DOMAIN raw}
EndedMatches == {m \in Matches : ledger[m].ended}

(* Every seed of the plan once, and no other.                              *)
SeedCoverage == RawSeeds = Seeds /\ \A s \in Seeds : Cardinality(RowsOf(s)) = 1

NoMatchTwice ==
    \A i, j \in DOMAIN raw : raw[i].match = raw[j].match => i = j

EndedNotInRaw == EndedMatches \ RawMatches
RawNotInEnded == RawMatches \ EndedMatches

(* The summaries that name a skipped seed, wherever they are kept.         *)
SkipArtifacts == {a \in kept \cup {summary} : a.skips # {}}

(* The match behind the last row of a seed.                                *)
Makeup(seed) == raw[CHOOSE i \in RowsOf(seed) : \A j \in RowsOf(seed) : j <= i].match

(* An ended match without a row is forgiven when its seed was recorded as  *)
(* skipped before the match that finally gave the seed its row started.    *)
Discharged ==
    {m \in EndedNotInRaw :
        /\ RowsOf(ledger[m].seed) # {}
        /\ \E a \in SkipArtifacts :
              ledger[m].seed \in a.skips /\ a.at < Makeup(ledger[m].seed)}

GateClean ==
    /\ raw # <<>>
    /\ SeedCoverage
    /\ EndedNotInRaw \ Discharged = {}
    /\ RawNotInEnded = {}
    /\ NoMatchTwice
=============================================================================
