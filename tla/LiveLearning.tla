---------------------------- MODULE LiveLearning ----------------------------
(***************************************************************************)
(* What happens after the end of a match, and the policy chain it extends. *)
(*                                                                         *)
(* Every match is composed with its own dependency graph                   *)
(* (match/composition.py).  Composition rebuilds the current policy from   *)
(* the POLICY_PROMOTED rows of all matches (learning/promotion_fold.py);   *)
(* the match flies with it.  Inside the publish of the terminal event the  *)
(* scoring reducer publishes MATCH_SCORED, whose subscribers write the     *)
(* leaderboard row and the learning evidence, have the match judged, write *)
(* the lineage record of a candidate, and publish POLICY_PROMOTED.  All    *)
(* these events are staged: the rows are inserted when the outermost       *)
(* publish returns (EventAdmission).                                       *)
(*                                                                         *)
(* Servers are processes over one set of files.  One of them plays one     *)
(* match after the other; it may crash between any two steps.              *)
(***************************************************************************)
EXTENDS Integers, Sequences, FiniteSets, SequencesExt

CONSTANTS Servers,      \* processes sharing the ledger and the lineage store
          Matches,      \* bound: 1 .. n, in the order they are composed
          Top,          \* the perturbed parameter lies in 0 .. Top
          MaxFaults     \* bound: failures and crashes, over all matches

ASSUME LearningAssumption ==
    /\ Matches \subseteq Nat \ {0} /\ Top \in Nat /\ MaxFaults \in Nat

VARIABLES
    lane,           \* the evaluator: "win" or "selection"
    opened,         \* matches composed so far
    of, at,         \* server -> its match, and where it stands
    policy,         \* server -> current_policy of its coordinator
    scored,         \* server -> ReducerScoring._scored
    staged,         \* server -> events published and not yet inserted
    raised,         \* server -> does the outermost publish owe an error?
    rows,           \* match -> rows of the events table
    started,        \* match -> policy provenance of its MATCH_STARTED row
    result,         \* match -> how it ended
    candidate,      \* match -> the record its evaluation promoted
    fact,           \* match -> payload of its POLICY_PROMOTED
    lineage,        \* match -> the file of that record
    board,          \* matches with a leaderboard row
    evidence,       \* matches with a learning artifact
    met,            \* history: matches that overlapped another one
    trouble,        \* history: match -> what failed in it
    finished        \* history: matches whose graph was closed in order

memory == <<of, at, policy, scored, staged, raised>>
files == <<rows, started, candidate, fact, lineage, board, evidence>>
vars == <<lane, opened, memory, files, result, met, trouble, finished>>

None == [none |-> TRUE]
Genesis == [spec |-> 0, gen |-> 0]

Init ==
    /\ lane \in {"win", "selection"}
    /\ opened = 0
    /\ of = [s \in Servers |-> 0] /\ at = [s \in Servers |-> "closed"]
    /\ policy = [s \in Servers |-> Genesis]
    /\ scored = [s \in Servers |-> FALSE]
    /\ staged = [s \in Servers |-> <<>>] /\ raised = [s \in Servers |-> FALSE]
    /\ rows = [m \in Matches |-> <<>>] /\ started = [m \in Matches |-> None]
    /\ result = [m \in Matches |-> "open"]
    /\ candidate = [m \in Matches |-> None] /\ fact = [m \in Matches |-> None]
    /\ lineage = [m \in Matches |-> "absent"]
    /\ board = {} /\ evidence = {}
    /\ met = {} /\ trouble = [m \in Matches |-> {}] /\ finished = {}

----------------------------------------------------------------------------
(* The chain, as a fold of the durable rows.                               *)

Promoting == {m \in Matches : "promoted" \in Range(rows[m])}
Promotions == {fact[m] : m \in Promoting}

Tip == CHOOSE p \in Promotions : \A q \in Promotions : q.gen <= p.gen

(* resolve_promotion_chain and the checks of rehydrate_current_policy:     *)
(* generations 1 .. n once each, every parent the specification before,    *)
(* the first the genesis, and the tip's record on disk as the event cites. *)
Resolves ==
    /\ \A m, n \in Promoting : fact[m].gen = fact[n].gen => m = n
    /\ {p.gen : p \in Promotions} = 1 .. Cardinality(Promotions)
    /\ \A p, q \in Promotions : q.gen = p.gen + 1 => q.parent = p.spec
    /\ \A p \in Promotions : p.gen = 1 => p.parent = Genesis.spec
    /\ Promotions # {} =>
        /\ lineage[Tip.match] = "whole"
        /\ candidate[Tip.match] = [spec |-> Tip.spec, parent |-> Tip.parent]

(* Mutant of Rehydrated: the chain's root is taken for its tip.            *)
RehydratedFromRoot ==
    IF Promotions = {} THEN Genesis
    ELSE LET root == CHOOSE p \in Promotions : p.gen = 1
         IN  [spec |-> root.spec, gen |-> root.gen]

Rehydrated ==
    IF Promotions = {} THEN Genesis ELSE [spec |-> Tip.spec, gen |-> Tip.gen]

(* Mutant of Opening: a coordinator that outlives its match.               *)
OpeningKept(s) == IF policy[s].gen > 0 THEN policy[s] ELSE Rehydrated

Opening(s) == Rehydrated

(* A graph is composed only over a chain that resolves; anything else      *)
(* raises before a match exists.                                           *)
Compose(s) ==
    /\ at[s] = "closed" /\ opened + 1 \in Matches /\ Resolves
    /\ opened' = opened + 1
    /\ of' = [of EXCEPT ![s] = opened']
    /\ policy' = [policy EXCEPT ![s] = Opening(s)]
    /\ at' = [at EXCEPT ![s] = "composed"]
    /\ LET others == {of[r] : r \in {q \in Servers : at[q] # "closed"}}
       IN  met' = IF others = {} THEN met ELSE met \cup others \cup {opened'}
    /\ UNCHANGED <<lane, scored, staged, raised, files, result, trouble, finished>>

(* begin_match, and MATCH_STARTED with the policy it captured.             *)
Start(s) ==
    /\ at[s] = "composed"
    /\ started' = [started EXCEPT ![of[s]] = policy[s]]
    /\ rows' = [rows EXCEPT ![of[s]] = Append(@, "started")]
    /\ at' = [at EXCEPT ![s] = "running"]
    /\ UNCHANGED <<lane, opened, of, policy, scored, staged, raised, result, candidate,
                   fact, lineage, board, evidence, met, trouble, finished>>

----------------------------------------------------------------------------
(* Inside the publish of the terminal event, subscriber by subscriber.     *)

Goes(s, place) == at' = [at EXCEPT ![s] = place]
Stages(s, event) == staged' = [staged EXCEPT ![s] = Append(@, event)]
Suffers(s, what) ==
    /\ Cardinality(UNION {{m} \X trouble[m] : m \in Matches}) < MaxFaults
    /\ trouble' = [trouble EXCEPT ![of[s]] = @ \cup {what}]

(* A subscriber that raises does not stop the others; the publish raises   *)
(* when it is done (EventAdmission).                                       *)
Raises(s, what) == Suffers(s, what) /\ raised' = [raised EXCEPT ![s] = TRUE]
Works == UNCHANGED <<trouble, raised>>

(* A victory names a winner, the learning seat or the other; a draw or an  *)
(* abort is a MATCH_ENDED only.                                            *)
End(s) ==
    /\ at[s] = "running"
    /\ \E how \in {"won", "lost", "draw"} :
         /\ result' = [result EXCEPT ![of[s]] = how]
         /\ staged' = [staged EXCEPT ![s] =
                           <<IF how = "draw" THEN "ended" ELSE "victory">>]
    /\ Goes(s, "scoring")
    /\ UNCHANGED <<lane, opened, of, policy, scored, raised, files, met, trouble, finished>>

(* ReducerScoring: the first terminal event scores, later ones restate it. *)
(* The flag is set before the replay check, which may refuse the stream.   *)
Score(s) ==
    /\ at[s] = "scoring"
    /\ scored' = [scored EXCEPT ![s] = TRUE]
    /\ \/ scored[s] /\ Goes(s, "flushing") /\ Works /\ UNCHANGED staged
       \/ ~scored[s] /\ Raises(s, "replay") /\ Goes(s, "flushing") /\ UNCHANGED staged
       \/ ~scored[s] /\ Stages(s, "scored") /\ Goes(s, "ranking") /\ Works
    /\ UNCHANGED <<lane, opened, of, policy, files, result, met, finished>>

(* The leaderboard row is an upsert of its own database.                   *)
Rank(s) ==
    /\ at[s] = "ranking" /\ Goes(s, "witnessing")
    /\ \/ board' = board \cup {of[s]} /\ Works
       \/ Raises(s, "board") /\ UNCHANGED board
    /\ UNCHANGED <<lane, opened, of, policy, scored, staged, rows, started, result,
                   candidate, fact, lineage, evidence, met, finished>>

(* AfterMatchLearningHandler.handle: the stream, staged events included,   *)
(* is projected and written; failing to is an error of the publish.        *)
Witness(s) ==
    /\ at[s] = "witnessing"
    /\ \/ evidence' = evidence \cup {of[s]} /\ Goes(s, "judging") /\ Works
       \/ Raises(s, "evidence") /\ Goes(s, "flushing") /\ UNCHANGED evidence
    /\ UNCHANGED <<lane, opened, of, policy, scored, staged, rows, started, result,
                   candidate, fact, lineage, board, met, finished>>

(* Mutant of Contain: the failure is re-raised into the bus.               *)
ContainNothing(s, what) ==
    /\ Suffers(s, what) /\ Goes(s, "flushing")
    /\ raised' = [raised EXCEPT ![s] = TRUE]

(* _evaluate_promotion_contained: what goes wrong in the evaluation or     *)
(* with the lineage file is recorded, and the gate declines.               *)
Contain(s, what) ==
    /\ Suffers(s, what) /\ Goes(s, "flushing")
    /\ UNCHANGED raised

(* Mutant of Direction: the winner's slot, which a draw fills too.         *)
DirectionOfSlot(how) == IF how = "lost" THEN {-1} ELSE {1}

(* Where the evaluators look for a candidate.  The live one moves up after *)
(* a win; the duel-gated one also moves down after a defeat.  A draw says  *)
(* nothing.                                                                *)
Direction(how) ==
    CASE how = "won" -> {1}
      [] how = "lost" /\ lane = "selection" -> {-1}
      [] OTHER -> {}

Neighbours(m) ==
    {started[m].spec + d : d \in Direction(result[m])} \cap (0 .. Top)

(* A neighbour is promoted unless the live evaluator finds the winner      *)
(* out-damaged, or the duel battery behind the other one rejects it.       *)
(* Either may raise.                                                       *)
Judge(s) ==
    LET m == of[s] IN
    /\ at[s] = "judging"
    /\ \/ Contain(s, "evaluator") /\ UNCHANGED candidate
       \/ Goes(s, "flushing") /\ Works /\ UNCHANGED candidate
       \/ /\ \E c \in Neighbours(m) : candidate' =
                 [candidate EXCEPT ![m] = [spec |-> c, parent |-> started[m].spec]]
          /\ Goes(s, "creating") /\ Works
    /\ UNCHANGED <<lane, opened, of, policy, scored, staged, rows, started, result, fact,
                   lineage, board, evidence, met, finished>>

(* write_lineage_record: the file is created, then written.  Its name is   *)
(* the digest of a record that names the match, so no other match meets a  *)
(* file left half written.                                                 *)
CreateRecord(s) ==
    /\ at[s] = "creating"
    /\ \/ /\ lineage' = [lineage EXCEPT ![of[s]] = "torn"]
          /\ Goes(s, "writing") /\ Works
       \/ Contain(s, "lineage") /\ UNCHANGED lineage
    /\ UNCHANGED <<lane, opened, of, policy, scored, staged, rows, started, result,
                   candidate, fact, board, evidence, met, finished>>

(* Mutant of WriteRecord: the failed write is contained too early.         *)
WriteRecordOrNot(s) ==
    /\ at[s] = "writing" /\ Goes(s, "fielding") /\ Works
    /\ \E left \in {"whole", "torn"} : lineage' = [lineage EXCEPT ![of[s]] = left]
    /\ UNCHANGED <<lane, opened, of, policy, scored, staged, rows, started, result,
                   candidate, fact, board, evidence, met, finished>>

WriteRecord(s) ==
    /\ at[s] = "writing"
    /\ \/ /\ lineage' = [lineage EXCEPT ![of[s]] = "whole"]
          /\ Goes(s, "fielding") /\ Works
       \/ Contain(s, "lineage") /\ UNCHANGED lineage
    /\ UNCHANGED <<lane, opened, of, policy, scored, staged, rows, started, result,
                   candidate, fact, board, evidence, met, finished>>

(* The coordinator advances, then POLICY_PROMOTED is published; one of its *)
(* subscribers may raise, and that is not contained.                       *)
Field(s) ==
    LET m == of[s]
        after == [spec |-> candidate[m].spec, gen |-> started[m].gen + 1] IN
    /\ at[s] = "fielding" /\ Goes(s, "flushing")
    /\ policy' = [policy EXCEPT ![s] = after]
    /\ fact' = [fact EXCEPT ![m] = [match |-> m, gen |-> after.gen, spec |-> after.spec,
                                    parent |-> started[m].spec]]
    /\ Stages(s, "promoted")
    /\ Works \/ Raises(s, "emit")
    /\ UNCHANGED <<lane, opened, of, scored, rows, started, result, candidate, lineage,
                   board, evidence, met, finished>>

----------------------------------------------------------------------------
(* The outermost publish inserts what was staged, and then raises or not.  *)
Insert(s) ==
    /\ at[s] = "flushing" /\ staged[s] # <<>>
    /\ \/ /\ rows' = [rows EXCEPT ![of[s]] = Append(@, Head(staged[s]))]
          /\ staged' = [staged EXCEPT ![s] = Tail(@)]
          /\ Works /\ UNCHANGED at
       \/ Raises(s, "insert") /\ Goes(s, "failed") /\ UNCHANGED <<rows, staged>>
    /\ UNCHANGED <<lane, opened, of, policy, scored, started, result, candidate, fact,
                   lineage, board, evidence, met, finished>>

(* After a victory the runner restates it as MATCH_ENDED, unless the       *)
(* publish raised into it: then the match failed.                          *)
Return(s) ==
    /\ at[s] = "flushing" /\ staged[s] = <<>>
    /\ LET restates == ~raised[s] /\ "ended" \notin Range(rows[of[s]]) IN
         \/ restates /\ Stages(s, "ended") /\ Goes(s, "scoring")
         \/ ~restates /\ Goes(s, IF raised[s] THEN "failed" ELSE "ended") /\ UNCHANGED staged
    /\ UNCHANGED <<lane, opened, of, policy, scored, raised, files, result, met, trouble,
                   finished>>

(* With its graph go the staged events and everything a match kept in      *)
(* memory.                                                                 *)
Forgets(s) ==
    /\ Goes(s, "closed")
    /\ of' = [of EXCEPT ![s] = 0]
    /\ scored' = [scored EXCEPT ![s] = FALSE]
    /\ staged' = [staged EXCEPT ![s] = <<>>]
    /\ raised' = [raised EXCEPT ![s] = FALSE]

(* The session, or the command, closes the graph of a match that is over.  *)
Close(s) ==
    /\ at[s] \in {"ended", "failed"} /\ Forgets(s)
    /\ finished' = finished \cup {of[s]}
    /\ UNCHANGED <<lane, opened, policy, files, result, met, trouble>>

(* The process dies, or the match fails before any terminal event: what is *)
(* in memory is gone, what is in files stays as it is.                     *)
Crash(s) ==
    /\ at[s] # "closed" /\ Forgets(s) /\ Suffers(s, "crash")
    /\ UNCHANGED <<lane, opened, policy, files, result, met, finished>>

Next ==
    \E s \in Servers :
        \/ Compose(s) \/ Start(s) \/ End(s)
        \/ Score(s) \/ Rank(s) \/ Witness(s) \/ Judge(s)
        \/ CreateRecord(s) \/ WriteRecord(s) \/ Field(s)
        \/ Insert(s) \/ Return(s) \/ Close(s) \/ Crash(s)

Spec == Init /\ [][Next]_vars

----------------------------------------------------------------------------
(* A chain that no longer resolves ends the lane: no match is composed any *)
(* more.  No crash, failed insert or failed write brings that about, only  *)
(* two processes whose matches overlapped and were promoted from the same  *)
(* generation (learning/promotion_fold.py).                                *)
ChainBreaksOnlyByOverlap ==
    Resolves \/ \E m, n \in met \cap Promoting : m # n /\ fact[m].gen = fact[n].gen

(* A match never flies with a promoted policy whose promotion is only in   *)
(* some process's memory: the provenance in its MATCH_STARTED row names a  *)
(* POLICY_PROMOTED row ("silent in-memory promotion is forbidden"), and    *)
(* the record that row cites is a whole file with the promoted parameters, *)
(* whenever the process died (learning/live.py, persist_lineage).          *)
FieldedIsDurable ==
    \A m \in Matches : started[m] # None =>
        started[m] = Genesis
        \/ \E p \in Promotions :
              /\ [spec |-> p.spec, gen |-> p.gen] = started[m]
              /\ lineage[p.match] = "whole"
              /\ candidate[p.match] = [spec |-> p.spec, parent |-> p.parent]

(* A durable promotion follows the score of its own match, was won by the  *)
(* evidence its lane asks for, and extends the policy that match flew      *)
(* with: draws, whose winner slot is filled as well, promote nothing.      *)
PromotionsAreEarned ==
    \A m \in Promoting :
        /\ result[m] # "draw" /\ (lane = "win" => result[m] = "won")
        /\ fact[m].gen = started[m].gen + 1 /\ fact[m].parent = started[m].spec
        /\ \E i, j \in DOMAIN rows[m] :
               i < j /\ rows[m][i] = "scored" /\ rows[m][j] = "promoted"

(* What goes wrong in the evaluation or with the lineage file never costs  *)
(* a match its terminal rows, its place on the leaderboard or its evidence *)
(* (learning/after_match.py, "the live match terminal is unaffected").     *)
FailuresAreContained ==
    \A m \in finished : trouble[m] \subseteq {"evaluator", "lineage"} =>
        /\ {"scored", "ended"} \subseteq Range(rows[m])
        /\ m \in board \cap evidence
=============================================================================
