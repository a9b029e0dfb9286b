-------------------------- MODULE OfflineLearning --------------------------
(***************************************************************************)
(* `so learn` and `so learn-experiment`: a bounded search over pilot       *)
(* parameters, the promotion gate, and what is published of it             *)
(* (learning/loop.py, cli/learn.py, cli/experiment.py, llm/tuner.py,       *)
(* learning/filesystem_artifacts.py).                                      *)
(*                                                                         *)
(* Processes share three directories: the lineage, the evaluation ledgers  *)
(* and the experiment's artifacts.  An artifact is published in two steps, *)
(* a content-addressed file that appears whole, then a claim that binds an *)
(* identity to its digest for ever; a lineage record is created and        *)
(* written in place.  A process may die between any two of these steps.    *)
(*                                                                         *)
(* A trial of an experiment is one search: an arm that needs a context     *)
(* reads what earlier searches left behind, by whatever process.           *)
(***************************************************************************)
EXTENDS LearnSearch

CONSTANTS Processes,
          Plans,          \* which processes run, and with which commands
          Restarts,       \* n_restarts
          Schedule,       \* the hill climb's step multipliers
          Beneath         \* evaluation_storage.root lies in evaluation_root

ASSUME OfflineAssumption ==
    /\ Restarts \in Nat \ {0} /\ Beneath \in BOOLEAN
    /\ \A plan \in Plans : \A p \in DOMAIN plan :
           p \in Processes /\ plan[p].budget \in Nat \ {0, 1}

VARIABLES cmd,        \* the command each process runs
          pc, job,    \* where it is, and the trial it is in
          lineage,    \* lineage records, whole or torn
          ledgers,    \* kinds of evaluation ledgers a reader would meet
          files,      \* content files of the experiment root
          claims      \* its identity claims

vars == <<cmd, pc, job, lineage, ledgers, files, claims>>
shared == <<lineage, ledgers, files, claims>>

NoVerdict == [status |-> "none"]
Fresh == [arm |-> 1, todo |-> <<>>, log |-> <<>>, current |-> Parent, moved |-> FALSE,
          mult |-> 1, round |-> 0, verdict |-> NoVerdict, rows |-> <<>>]

Init ==
    /\ cmd \in Plans
    /\ pc = [p \in Processes |-> IF p \in DOMAIN cmd THEN "trial" ELSE "done"]
    /\ job = [p \in Processes |-> Fresh]
    /\ lineage = {} /\ ledgers = {} /\ files = {} /\ claims = {}

Over == {"done", "refused", "failed", "dead"}
Goto(p, l) == pc' = [pc EXCEPT ![p] = l]
SetJob(p, j) == job' = [job EXCEPT ![p] = j]
(* A command that ends takes its memory with it.                            *)
Ends(p, l) == Goto(p, l) /\ SetJob(p, Fresh)
Stops(p, l) == Ends(p, l) /\ UNCHANGED <<cmd, shared>>

(* An experiment's baseline comes last, a search has one arm, its strategy.  *)
Experiment(p) == cmd[p].kind = "experiment"
Arms(p) == IF Experiment(p) THEN Append(cmd[p].arms, "baseline") ELSE cmd[p].arms
Arm(p) == Arms(p)[job[p].arm]
Run(p) == <<cmd[p].seed, Arm(p)>>
RichArms == {"llm_replay_trace", "llm_decision_diff", "llm_exemplar"}
LlmArms == RichArms \cup {"llm_off", "llm_full_design_doc"}
(* An experiment's arms are external searches, its baseline is a grid.     *)
Strategy(p) ==
    IF Arm(p) \in LlmArms THEN "external"
    ELSE IF Arm(p) = "baseline" THEN "grid" ELSE Arm(p)

-----------------------------------------------------------------------------
(* read_context_artifacts reads all ledgers and the whole lineage whichever *)
(* arm asks.  A retried duel's match id does not end in the candidate's     *)
(* side, a claimed file is no database before its duel has begun, and a     *)
(* record being written is no mapping: each of them raises.                 *)
Playing(q) == pc[q] \in {"search", "gate"}
Unreadable ==
    \/ Beneath /\ ledgers \cap {"retried", "torn"} # {}
    \/ \E r \in lineage : ~r.whole
MayBeUnreadable(p) ==
    Unreadable \/ (Beneath /\ \E q \in Processes \ {p} : Playing(q))

HasArtifacts(p) ==
    \/ Arm(p) \in {"llm_replay_trace", "llm_decision_diff"} /\ Beneath /\ "won" \in ledgers
    \/ Arm(p) = "llm_exemplar" /\ \E r \in lineage : r.rec.status = "promoted"
ReadsContext(p) ==
    Experiment(p) /\ Arm(p) \in RichArms
(* enforce_negative_control.                                               *)
Controlled(p) ==
    Experiment(p) => \E i \in DOMAIN cmd[p].arms : cmd[p].arms[i] = "llm_full_design_doc"

(* Only an experiment reads artifacts: a learn command hands the tuner none *)
(* and its rich arms are always refused.                                    *)
Missing(p) ==
    \/ Arm(p) \in RichArms /\ (Experiment(p) => ~HasArtifacts(p))
    \/ Arm(p) = "llm_full_design_doc" /\ ~cmd[p].doc

TrialRefused(p) ==
    /\ pc[p] = "trial"
    /\ \/ Missing(p)
       \/ ReadsContext(p) /\ MayBeUnreadable(p)
       \/ ReadsContext(p) /\ Arm(p) = "llm_decision_diff"   \* no decision differed
       \/ ~Controlled(p)
    /\ Stops(p, "refused")

(* The candidates are all there before the pure loop runs; a tuner that     *)
(* fails, whatever the reason, is an empty batch.                           *)
Candidates(p) ==
    CASE Strategy(p) = "external" -> cmd[p].answers
      [] Strategy(p) = "grid" -> {Grid}
      [] Strategy(p) = "random_restart" -> [1 .. Restarts -> Points]
      [] Strategy(p) = "hill_climb" -> {Neighbours(Parent, Schedule[1])}

BeginTrial(p) ==
    /\ pc[p] = "trial"
    /\ ~Missing(p) /\ (ReadsContext(p) => ~Unreadable)
    /\ Controlled(p)
    /\ \E todo \in Candidates(p) :
           SetJob(p, [Fresh EXCEPT !.arm = job[p].arm, !.rows = job[p].rows, !.todo = todo])
    /\ Goto(p, "search")
    /\ UNCHANGED <<cmd, shared>>

-----------------------------------------------------------------------------
(* One evaluation: a workspace of its own, created exclusively, and a       *)
(* battery of duels in it, none of which another process can touch.         *)
Entry(cand, base, result, excess) ==
    [cand |-> cand, base |-> base, excess |-> excess,
     result |-> [wins |-> result.wins, losses |-> result.losses, draws |-> result.draws]]

(* Of what a battery leaves behind, only the evaluation ledgers are shared. *)
Leaves(result) ==
    /\ ledgers' = ledgers \cup result.left
    /\ UNCHANGED <<cmd, lineage, files, claims>>

(* DuelBatteryError is no ValueError and leaves the command as a traceback; *)
(* nothing of the battery counts, but the ledgers of its duels stay.        *)
BatteryFails(p) ==
    /\ Playing(p)
    /\ Ends(p, "failed")
    /\ \E left \in SUBSET {"won", "retried"} : ledgers' = ledgers \cup left
    /\ UNCHANGED <<cmd, lineage, files, claims>>

Logged(j, e) == [j EXCEPT !.log = Append(@, e)]
LogSet(j, from) == {j.log[i] : i \in from + 1 .. Len(j.log)}

(* run_enumeration: the parent's own identity and repeated draws are        *)
(* skipped; one evaluation is kept for the gate.                            *)
Unseen(p) ==
    LET seen == {Parent} \cup {e.cand : e \in LogSet(job[p], 0)}
    IN  SelectSeq(job[p].todo, LAMBDA c : c \notin seen)
Affordable(p) == Len(job[p].log) + 1 <= cmd[p].budget - 1

Enumerate(p) ==
    /\ pc[p] = "search" /\ Strategy(p) # "hill_climb"
    /\ Unseen(p) # <<>> /\ Affordable(p)
    /\ \E r \in SearchResults, x \in Excess :
           /\ SetJob(p, Logged([job[p] EXCEPT !.todo = Tail(Unseen(p))],
                               Entry(Head(Unseen(p)), Parent, r, x)))
           /\ Leaves(r)
    /\ UNCHANGED pc

Enumerated(p) ==
    /\ pc[p] = "search" /\ Strategy(p) # "hill_climb"
    /\ Unseen(p) = <<>> \/ ~Affordable(p)
    /\ \/ /\ Positives(LogSet(job[p], 0)) = {}
          /\ Goto(p, "publish") /\ UNCHANGED job
       \/ \E e \in SelectBest(LogSet(job[p], 0)) :
              /\ SetJob(p, [job[p] EXCEPT !.current = e.cand, !.verdict = [status |-> "gate", search |-> e]])
              /\ Goto(p, "gate")
    /\ UNCHANGED <<cmd, shared>>

-----------------------------------------------------------------------------
(* Mutant of ClimbAffordable: the re-basing is not reserved.                *)
ClimbAffordableForGate(p) == Len(job[p].log) + 2 <= cmd[p].budget

(* run_hill_climb: an evaluation of a neighbour is begun only if the        *)
(* re-basing and the gate can still be paid for.                            *)
ClimbAffordable(p) == Len(job[p].log) + 3 <= cmd[p].budget
Climbing(p) == pc[p] = "search" /\ Strategy(p) = "hill_climb"
                /\ job[p].mult <= Len(Schedule)

ClimbEvaluate(p) ==
    /\ Climbing(p)
    /\ job[p].todo # <<>> /\ ClimbAffordable(p)
    /\ \E r \in SearchResults, x \in Excess :
           /\ SetJob(p, Logged([job[p] EXCEPT !.todo = Tail(@)],
                               Entry(Head(job[p].todo), job[p].current, r, x)))
           /\ Leaves(r)
    /\ UNCHANGED pc

NewRound(p, point, mult) ==
    [job[p] EXCEPT !.current = point, !.mult = mult, !.round = Len(job[p].log),
                   !.todo = IF mult > Len(Schedule) THEN <<>>
                            ELSE Neighbours(point, Schedule[mult])]

(* Mutant of ClimbMove: winners of the earlier rounds qualify again.        *)
ClimbMoveAgain(p) ==
    /\ Climbing(p)
    /\ job[p].todo = <<>> \/ ~ClimbAffordable(p)
    /\ LET qualifying == {e \in LogSet(job[p], 0) : Significant(e.result)}
       IN  \/ /\ Positives(qualifying) = {}
              /\ SetJob(p, NewRound(p, job[p].current, job[p].mult + 1))
           \/ \E e \in SelectBest(qualifying) :
                  SetJob(p, [NewRound(p, e.cand, job[p].mult) EXCEPT !.moved = TRUE])
    /\ UNCHANGED <<cmd, pc, shared>>

(* The round's best significant winner becomes the current point; without   *)
(* one the steps get finer.                                                 *)
ClimbMove(p) ==
    /\ Climbing(p)
    /\ job[p].todo = <<>> \/ ~ClimbAffordable(p)
    /\ LET qualifying == {e \in LogSet(job[p], job[p].round) : Significant(e.result)}
       IN  \/ /\ Positives(qualifying) = {}
              /\ SetJob(p, NewRound(p, job[p].current, job[p].mult + 1))
           \/ \E e \in SelectBest(qualifying) :
                  SetJob(p, [NewRound(p, e.cand, job[p].mult) EXCEPT !.moved = TRUE])
    /\ UNCHANGED <<cmd, pc, shared>>

Climbed(p) == pc[p] = "search" /\ Strategy(p) = "hill_climb"
                /\ job[p].mult > Len(Schedule)

ClimbStays(p) ==
    /\ Climbed(p)
    /\ ~job[p].moved \/ job[p].current = Parent
    /\ Goto(p, "publish")
    /\ UNCHANGED <<cmd, job, shared>>

(* Mutant of ClimbRebase: the last move's comparison goes to the gate.      *)
ClimbRebaseSkipped(p) ==
    /\ Climbed(p)
    /\ job[p].moved /\ job[p].current # Parent
    /\ \E e \in LogSet(job[p], 0) :
           /\ e.cand = job[p].current /\ Positive(e.result)
           /\ SetJob(p, [job[p] EXCEPT !.verdict = [status |-> "gate", search |-> e]])
           /\ Goto(p, "gate")
    /\ UNCHANGED <<cmd, shared>>

(* The climb compared its points with each other: the one it ends at is     *)
(* compared with the parent once more, and is gated only if it beats it.    *)
ClimbRebase(p) ==
    /\ Climbed(p)
    /\ job[p].moved /\ job[p].current # Parent
    /\ \E r \in SearchResults, x \in Excess :
           LET e == Entry(job[p].current, Parent, r, x)
           IN  /\ SetJob(p, IF Positive(r)
                            THEN [Logged(job[p], e) EXCEPT !.verdict = [status |-> "gate", search |-> e]]
                            ELSE Logged(job[p], e))
               /\ Goto(p, IF Positive(r) THEN "gate" ELSE "publish")
               /\ Leaves(r)

(* run_gate: the hidden seeds, and a record for every verdict.              *)
Gate(p) ==
    /\ pc[p] = "gate"
    /\ \E r \in HoldoutResults, x \in Excess :
           LET s == job[p].verdict.search
               h == Entry(job[p].current, Parent, r, x)
               reasons == Reasons(job[p].current, s, h)
           IN  /\ SetJob(p, [Logged(job[p], h) EXCEPT !.verdict =
                      [status |-> IF reasons = {} THEN "promoted" ELSE "rejected",
                       cand |-> job[p].current, search |-> s, holdout |-> h, reasons |-> reasons]])
               /\ Leaves(r)
    /\ Goto(p, "publish")

-----------------------------------------------------------------------------
(* A record keeps the verdict, the rules that failed and the search it      *)
(* stands on, not the hidden seeds' outcomes; its name is its digest.       *)
Verdict(p) == job[p].verdict
Record(p) == [run |-> Run(p), cand |-> Verdict(p).cand, search |-> Verdict(p).search.result,
              excess |-> Verdict(p).search.excess + Verdict(p).holdout.excess,
              status |-> Verdict(p).status, reasons |-> Verdict(p).reasons]
Found(p) == {r \in lineage : Verdict(p) # NoVerdict /\ r.rec = Record(p)}

(* write_lineage_record: created exclusively, then written in place.  Who   *)
(* finds the file reads it back: torn, it is no record.  The trial's row    *)
(* keeps of the verdict only its status.                                    *)
Kept(p) == [Fresh EXCEPT !.arm = job[p].arm, !.rows = job[p].rows,
                         !.verdict = [status |-> Verdict(p).status]]

Unrecorded(p) ==
    /\ pc[p] = "publish" /\ Verdict(p) = NoVerdict
    /\ Goto(p, "usage") /\ SetJob(p, Kept(p))
    /\ UNCHANGED <<cmd, shared>>

CreateRecord(p) ==
    /\ pc[p] = "publish" /\ Verdict(p) # NoVerdict /\ Found(p) = {}
    /\ lineage' = lineage \cup {[rec |-> Record(p), whole |-> FALSE]}
    /\ Goto(p, "write")
    /\ UNCHANGED <<cmd, job, ledgers, files, claims>>

FindRecord(p) ==
    /\ pc[p] = "publish" /\ Found(p) # {}
    /\ Goto(p, IF \A r \in Found(p) : r.whole THEN "usage" ELSE "refused")
    /\ SetJob(p, Kept(p))
    /\ UNCHANGED <<cmd, shared>>

WriteRecord(p) ==
    /\ pc[p] = "write"
    /\ lineage' = (lineage \ Found(p)) \cup {[rec |-> Record(p), whole |-> TRUE]}
    /\ Goto(p, "usage") /\ SetJob(p, Kept(p))
    /\ UNCHANGED <<cmd, ledgers, files, claims>>

-----------------------------------------------------------------------------
(* The artifacts of an experiment.  Their identities are deterministic,     *)
(* the usage's content is not: it holds the time the command was started.   *)
Row(p) == [arm |-> Arm(p), status |-> Verdict(p).status]
Artifact(p) ==
    CASE pc[p] \in {"usage", "claim usage"} ->
             [kind |-> "usage", id |-> Run(p), content |-> cmd[p].at]
      [] pc[p] \in {"summary", "claim summary"} ->
             [kind |-> "summary", id |-> cmd[p].seed, content |-> job[p].rows]
      [] pc[p] \in {"rows", "claim rows"} ->
             [kind |-> "rows", id |-> <<cmd[p].seed, cmd[p].arms>>, content |-> job[p].rows]

Publishing == {"usage", "summary", "rows"}
ClaimOf(l) == CASE l = "usage" -> "claim usage" [] l = "summary" -> "claim summary"
                [] l = "rows" -> "claim rows"

(* A learn command publishes nothing but the lineage.                       *)
LearnEnds(p) ==
    /\ pc[p] = "usage" /\ ~Experiment(p)
    /\ Stops(p, "done")

(* Mutant of WriteContent: the content is left for later.                     *)
WriteContentLater(p) ==
    /\ pc[p] \in Publishing /\ Experiment(p)
    /\ Goto(p, ClaimOf(pc[p]))
    /\ UNCHANGED <<cmd, job, shared>>

(* _write_exclusive_or_verify: a temporary file, linked to its name.        *)
WriteContent(p) ==
    /\ pc[p] \in Publishing /\ Experiment(p)
    /\ files' = files \cup {Artifact(p)}
    /\ Goto(p, ClaimOf(pc[p]))
    /\ UNCHANGED <<cmd, job, lineage, ledgers, claims>>

Taken(a) == \E c \in claims : c.kind = a.kind /\ c.id = a.id /\ c # a

(* _claim_identity: FileExistsError is no ValueError either.                *)
ClaimRefused(p) ==
    /\ pc[p] \in {ClaimOf(l) : l \in Publishing}
    /\ Taken(Artifact(p))
    /\ Stops(p, "failed")

AfterClaim(p) ==
    CASE pc[p] = "claim usage" -> IF job[p].arm < Len(Arms(p)) THEN "trial" ELSE "summary"
      [] pc[p] = "claim summary" -> "rows"
      [] pc[p] = "claim rows" -> "done"

ClaimIdentity(p) ==
    /\ pc[p] \in {ClaimOf(l) : l \in Publishing}
    /\ ~Taken(Artifact(p))
    /\ claims' = claims \cup {Artifact(p)}
    /\ Goto(p, AfterClaim(p))
    /\ SetJob(p, CASE pc[p] = "claim usage" ->
                          [Fresh EXCEPT !.rows = Append(job[p].rows, Row(p)), !.arm = job[p].arm + 1]
                   [] pc[p] = "claim summary" -> job[p]
                   [] pc[p] = "claim rows" -> Fresh)
    /\ UNCHANGED <<cmd, lineage, ledgers, files>>

(* The death of a process.  A duel under way leaves a claimed, empty file.  *)
Crash(p) ==
    /\ pc[p] \notin Over
    /\ Ends(p, "dead")
    /\ \/ UNCHANGED ledgers
       \/ Playing(p) /\ ledgers' = ledgers \cup {"torn"}
    /\ UNCHANGED <<cmd, lineage, files, claims>>

-----------------------------------------------------------------------------
Step(p) ==
    \/ TrialRefused(p) \/ BeginTrial(p)
    \/ Enumerate(p) \/ Enumerated(p)
    \/ ClimbEvaluate(p) \/ ClimbMove(p) \/ ClimbStays(p) \/ ClimbRebase(p)
    \/ Gate(p)
    \/ Unrecorded(p) \/ CreateRecord(p) \/ FindRecord(p) \/ WriteRecord(p)
    \/ LearnEnds(p) \/ WriteContent(p) \/ ClaimRefused(p) \/ ClaimIdentity(p)

(* A process that is neither killed nor loses a battery goes on: every     *)
(* client call and every match ends by itself or by its timeout.           *)
Next == \E p \in Processes : Step(p) \/ BatteryFails(p) \/ Crash(p)

Spec == Init /\ [][Next]_vars /\ \A p \in Processes : WF_vars(Step(p))
-----------------------------------------------------------------------------
TypeOK ==
    /\ pc \in [Processes -> Over \cup Publishing \cup {ClaimOf(l) : l \in Publishing}
                            \cup {"trial", "search", "gate", "publish", "write"}]
    /\ ledgers \subseteq {"won", "retried", "torn"}
    /\ \A c \in claims \cup files : c.kind \in Publishing

(* What the gate judges was earned: it is one of the trial's own            *)
(* evaluations on the whole search battery, against the original parent     *)
(* and not against a point the climb passed, and no other candidate it      *)
(* could have taken had a smaller p-value; the hidden seeds were played by  *)
(* the same candidate, last; and all of it was within the budget.  If any   *)
(* distance is asked for, what is promoted differs from the parent in       *)
(* value, not only in hash.  An enumeration that brings nothing to the gate *)
(* found no winner.                                                         *)
Whole(r, n) == r.wins + r.losses + r.draws = n
Against(e, cand) == e.cand = cand /\ e.base = Parent
Searched(p) == {job[p].log[i] : i \in 1 .. Len(job[p].log) - 1}
JudgedOn(p, s) ==
    /\ s \in Searched(p) /\ Against(s, job[p].current)
    /\ Whole(s.result, SearchSeeds) /\ Positive(s.result)
    /\ Strategy(p) # "hill_climb" =>
           \A e \in Positives(Searched(p)) : AtMost(SignTest(s.result), SignTest(e.result))
Judged(p, v) ==
    /\ v.cand = job[p].current /\ v.holdout = job[p].log[Len(job[p].log)]
    /\ Against(v.holdout, v.cand) /\ Whole(v.holdout.result, HoldoutSeeds)
    /\ v.status = "promoted" /\ MinSteps > 0 => ~SameValue(v.cand, Parent)
VerdictsAreEarned ==
    \A p \in Processes :
        /\ pc[p] \in {"search", "gate", "publish", "write"} => Len(job[p].log) <= cmd[p].budget
        /\ pc[p] = "gate" => Len(job[p].log) < cmd[p].budget
        /\ pc[p] \in {"publish", "write"} =>
               IF Verdict(p) = NoVerdict
               THEN Strategy(p) # "hill_climb" =>
                        \A e \in LogSet(job[p], 0) : ~Positive(e.result)
               ELSE JudgedOn(p, Verdict(p).search) /\ Judged(p, Verdict(p))

(* Whatever fails and wherever a process dies: an identity is bound to one  *)
(* artifact for ever, and to one that is there whole; a summary stands on   *)
(* artifacts that are there, the usage of each of its trials and a whole    *)
(* lineage record for each verdict it counts; and every command ends: no    *)
(* climb moves for ever.                                                    *)
ClaimsNameFiles == claims \subseteq files
SummariesAreBacked ==
    \A s \in {c \in claims : c.kind = "summary"} : \A i \in DOMAIN s.content :
        LET run == <<s.id, s.content[i].arm>> IN
        /\ \E u \in claims : u.kind = "usage" /\ u.id = run
        /\ s.content[i].status # "none" =>
               \E r \in lineage : r.whole /\ r.rec.run = run
                                   /\ r.rec.status = s.content[i].status
NothingReplaced ==
    /\ \A c, d \in claims' : c.kind = d.kind /\ c.id = d.id => c = d
    /\ claims \subseteq claims'
    /\ \A r \in lineage : r.whole => r \in lineage'
PublicationsAreWhole ==
    /\ [](ClaimsNameFiles /\ SummariesAreBacked)
    /\ [][NothingReplaced]_vars
    /\ \A p \in Processes : <>(pc[p] \in Over)
=============================================================================
