----------------------- MODULE OfflineLearning_proofs -----------------------
(***************************************************************************)
(* What offline learning guarantees for any number of processes, plans,    *)
(* budgets, batteries and thresholds: what is judged was earned, and what  *)
(* is published is whole, whoever dies where.                              *)
(***************************************************************************)
EXTENDS OfflineLearning, FiniteSetTheorems, SequenceTheorems, TLAPS

\* What a process remembers of its trial.
IsJob(j) ==
  j = [arm |-> j.arm, todo |-> j.todo, log |-> j.log, current |-> j.current, moved |-> j.moved,
       mult |-> j.mult, round |-> j.round, verdict |-> j.verdict, rows |-> j.rows]

Log(p) == job[p].log
Climbs(p) == Strategy(p) = "hill_climb"

\* While it searches, a trial leaves the gate, and a climb its re-basing, to be paid.
Searching(p) ==
  /\ Verdict(p) = NoVerdict
  /\ Len(Log(p)) <= cmd[p].budget - 1
  /\ Climbs(p) => Len(Log(p)) <= cmd[p].budget - 2
  /\ \A e \in LogSet(job[p], 0) : Whole(e.result, SearchSeeds) /\ (~Climbs(p) => e.base = Parent)

\* What is brought to the gate is the search's own, and its best.
AtTheGate(p) ==
  /\ Verdict(p) = [status |-> "gate", search |-> Verdict(p).search]
  /\ Len(Log(p)) <= cmd[p].budget - 1
  /\ Verdict(p).search \in LogSet(job[p], 0)
  /\ Against(Verdict(p).search, job[p].current)
  /\ Whole(Verdict(p).search.result, SearchSeeds) /\ Positive(Verdict(p).search.result)
  /\ ~Climbs(p) =>
       \A e \in Positives(LogSet(job[p], 0)) :
          AtMost(SignTest(Verdict(p).search.result), SignTest(e.result))

IsVerdict(v) ==
  /\ v = [status |-> v.status, cand |-> v.cand, search |-> v.search,
          holdout |-> v.holdout, reasons |-> v.reasons]
  /\ v.status \in {"promoted", "rejected"}

Concluded(p) ==
  /\ Len(Log(p)) <= cmd[p].budget
  /\ \/ /\ Verdict(p) = NoVerdict
        /\ ~Climbs(p) => Positives(LogSet(job[p], 0)) = {}
     \/ /\ IsVerdict(Verdict(p))
        /\ JudgedOn(p, Verdict(p).search) /\ Judged(p, Verdict(p))

TrialOK(p) ==
  /\ IsJob(job[p])
  /\ pc[p] \notin Over => p \in DOMAIN cmd
  /\ Log(p) \in Seq(LogSet(job[p], 0))
  /\ pc[p] = "search" => Searching(p)
  /\ pc[p] = "gate" => AtTheGate(p)
  /\ pc[p] \in {"publish", "write"} => Concluded(p)

\* A row is counted for a trial whose usage is bound, and its verdict recorded.
Recorded(run, status) ==
  status # "none" =>
    \E r \in lineage : r.whole /\ r.rec.run = run /\ r.rec.status = status
BackedRow(seed, row) ==
  /\ \E u \in claims : u.kind = "usage" /\ u.id = <<seed, row.arm>>
  /\ Recorded(<<seed, row.arm>>, row.status)

RowsOK(p) ==
  /\ job[p].rows \in Seq({job[p].rows[i] : i \in DOMAIN job[p].rows})
  /\ \A i \in DOMAIN job[p].rows : BackedRow(cmd[p].seed, job[p].rows[i])

\* Before it claims an identity, a process has linked the content it names.
PublicationOK(p) ==
  /\ RowsOK(p)
  /\ pc[p] \in {"usage", "claim usage"} => Recorded(Run(p), Verdict(p).status)
  /\ pc[p] \in {ClaimOf(l) : l \in Publishing} => Artifact(p) \in files

Bound ==
  /\ \A c, d \in claims : c.kind = d.kind /\ c.id = d.id => c = d
  /\ \A r \in lineage : r = [rec |-> r.rec, whole |-> r.whole] /\ r.whole \in BOOLEAN

Shape ==
  /\ cmd \in Plans
  /\ pc = [p \in Processes |-> pc[p]]
  /\ job = [p \in Processes |-> job[p]]

IInv ==
  /\ Shape
  /\ \A p \in Processes : TrialOK(p) /\ PublicationOK(p)
  /\ Bound /\ ClaimsNameFiles /\ SummariesAreBacked

-----------------------------------------------------------------------------
(* Only the process that moves changes its place, only its own trial.       *)
LEMMA Moves ==
  ASSUME Shape, NEW p \in Processes, NEW l, Goto(p, l)
  PROVE  /\ pc'[p] = l
         /\ \A q \in Processes : q # p => pc'[q] = pc[q]
         /\ pc' = [q \in Processes |-> pc'[q]]
BY DEF Shape, Goto

LEMMA Sets ==
  ASSUME Shape, NEW p \in Processes, NEW j, SetJob(p, j)
  PROVE  /\ job'[p] = j
         /\ \A q \in Processes : q # p => job'[q] = job[q]
         /\ job' = [q \in Processes |-> job'[q]]
BY DEF Shape, SetJob

LEMMA Stays ==
  ASSUME Shape, UNCHANGED job
  PROVE  job' = [q \in Processes |-> job'[q]]
BY DEF Shape

LEMMA StaysPut ==
  ASSUME Shape, UNCHANGED pc
  PROVE  pc' = [q \in Processes |-> pc'[q]]
BY DEF Shape

(* One more evaluation in a log.                                            *)
LEMMA OneMore ==
  ASSUME NEW S, NEW L \in Seq(S), NEW e
  PROVE  /\ Append(L, e) \in Seq(S \cup {e})
         /\ Len(Append(L, e)) = Len(L) + 1
         /\ \A i \in 1 .. Len(L) : Append(L, e)[i] = L[i]
         /\ Append(L, e)[Len(L) + 1] = e
         /\ Len(L) \in Nat
<1>1. L \in Seq(S \cup {e})  OBVIOUS
<1>2. e \in S \cup {e}  OBVIOUS
<1> QED BY <1>1, <1>2, AppendProperties, LenProperties

LEMMA LogGrows ==
  ASSUME NEW j, IsJob(j), j.log \in Seq(LogSet(j, 0)), NEW e,
         NEW k, k = Logged(j, e)
  PROVE  /\ LogSet(k, 0) = LogSet(j, 0) \cup {e}
         /\ k = [arm |-> j.arm, todo |-> j.todo, log |-> Append(j.log, e), current |-> j.current,
                 moved |-> j.moved, mult |-> j.mult, round |-> j.round,
                 verdict |-> j.verdict, rows |-> j.rows]
         /\ Len(k.log) = Len(j.log) + 1 /\ Len(j.log) \in Nat
         /\ k.log \in Seq(LogSet(k, 0))
         /\ k.log[Len(k.log)] = e
         /\ {k.log[i] : i \in 1 .. Len(k.log) - 1} = LogSet(j, 0)
<1>1. k = [arm |-> j.arm, todo |-> j.todo, log |-> Append(j.log, e), current |-> j.current,
           moved |-> j.moved, mult |-> j.mult, round |-> j.round,
           verdict |-> j.verdict, rows |-> j.rows]
  BY DEF IsJob, Logged
<1>2. k.log = Append(j.log, e)
  BY <1>1
<1> DEFINE n == Len(j.log)
<1>3. /\ Len(k.log) = n + 1 /\ n \in Nat
      /\ \A i \in 1 .. n : k.log[i] = j.log[i]
      /\ k.log[n + 1] = e
      /\ k.log \in Seq(LogSet(j, 0) \cup {e})
  BY <1>2, OneMore
<1>4. LogSet(j, 0) = {j.log[i] : i \in 1 .. n}
  BY DEF LogSet
<1>5. LogSet(k, 0) = {k.log[i] : i \in 1 .. n + 1}
  BY <1>3 DEF LogSet
<1> HIDE DEF n
<1>6. LogSet(k, 0) = LogSet(j, 0) \cup {e}
  <2>1. \A i \in 1 .. n + 1 : i \in 1 .. n \/ i = n + 1
    BY <1>3
  <2>2. \A i \in 1 .. n : i \in 1 .. n + 1
    BY <1>3
  <2>3. n + 1 \in 1 .. n + 1
    BY <1>3
  <2> QED BY <1>3, <1>4, <1>5, <2>1, <2>2, <2>3
<1>7. {k.log[i] : i \in 1 .. Len(k.log) - 1} = LogSet(j, 0)
  <2>1. Len(k.log) - 1 = n
    BY <1>3
  <2> QED BY <2>1, <1>3, <1>4
<1> QED BY <1>1, <1>3, <1>6, <1>7 DEF n

LEMMA EmptyLog ==
  ASSUME NEW j, j.log = << >>
  PROVE  LogSet(j, 0) = {} /\ j.log \in Seq(LogSet(j, 0)) /\ Len(j.log) = 0
<1>1. Len(j.log) = 0
  OBVIOUS
<1>2. LogSet(j, 0) = {}
  BY <1>1 DEF LogSet
<1> QED BY <1>1, <1>2

(* A battery plays every seed: wins, losses and draws add up to them.       *)
LEMMA Partition ==
  ASSUME NEW n \in Nat, NEW o, NEW A, NEW B, NEW C,
         A \cup B \cup C = 1 .. n, A \cap B = {}, A \cap C = {}, B \cap C = {}
  PROVE  Cardinality(A) + Cardinality(B) + Cardinality(C) = n
<1>1. IsFiniteSet(1 .. n) /\ Cardinality(1 .. n) = n
  BY FS_Interval
<1>2. IsFiniteSet(A) /\ IsFiniteSet(B) /\ IsFiniteSet(C)
  BY <1>1, FS_Subset
<1>3. IsFiniteSet(A \cup B) /\ Cardinality(A \cup B) = Cardinality(A) + Cardinality(B) - Cardinality(A \cap B)
  BY <1>2, FS_Union
<1>4. Cardinality((A \cup B) \cup C) = Cardinality(A \cup B) + Cardinality(C) - Cardinality((A \cup B) \cap C)
  BY <1>2, <1>3, FS_Union
<1>5. A \cap B = {} /\ (A \cup B) \cap C = {} /\ (A \cup B) \cup C = 1 .. n
  OBVIOUS
<1>6. Cardinality({}) = 0
  BY FS_EmptySet
<1>7. /\ Cardinality(A) \in Nat /\ Cardinality(B) \in Nat /\ Cardinality(C) \in Nat
      /\ Cardinality(A \cup B) \in Nat
  BY <1>2, <1>3, FS_CardinalityType
<1>8. Cardinality(A \cup B) = Cardinality(A) + Cardinality(B)
  <2>1. Cardinality(A \cap B) = 0
    BY <1>5, <1>6
  <2> QED BY <2>1, <1>3, <1>7
<1>9. Cardinality((A \cup B) \cup C) = Cardinality(A \cup B) + Cardinality(C)
  <2>1. Cardinality((A \cup B) \cap C) = 0
    BY <1>5, <1>6
  <2> QED BY <2>1, <1>4, <1>7
<1> QED BY <1>1, <1>5, <1>7, <1>8, <1>9

LEMMA EverySeedCounts ==
  ASSUME NEW n \in Nat, NEW d \in [1 .. 2 * n -> Duels]
  PROVE  Whole(ResultOf(n, d), n)
<1> DEFINE o == [i \in 1 .. n |-> AggregatePair(d[2 * i - 1].winner, d[2 * i].winner)]
<1>1. \A i \in 1 .. n : o[i] \in Winners
  <2> TAKE i \in 1 .. n
  <2>1. 2 * i - 1 \in 1 .. 2 * n /\ 2 * i \in 1 .. 2 * n
    OBVIOUS
  <2>2. d[2 * i - 1].winner \in Winners /\ d[2 * i].winner \in Winners
    BY <2>1 DEF Duels
  <2> QED BY <2>2 DEF AggregatePair, Winners
<1>2. DOMAIN o = 1 .. n
  OBVIOUS
<1>3. ResultOf(n, d) = [wins |-> Count(o, "candidate"), losses |-> Count(o, "parent"),
                        draws |-> Count(o, "draw"), left |-> Left(d)]
  BY DEF ResultOf
<1> HIDE DEF o
<1> DEFINE A == {i \in DOMAIN o : o[i] = "candidate"}
           B == {i \in DOMAIN o : o[i] = "parent"}
           C == {i \in DOMAIN o : o[i] = "draw"}
<1>4. A \cup B \cup C = 1 .. n /\ A \cap B = {} /\ A \cap C = {} /\ B \cap C = {}
  BY <1>1, <1>2 DEF Winners
<1> HIDE DEF A, B, C
<1>5. Cardinality(A) + Cardinality(B) + Cardinality(C) = n
  BY <1>4, Partition
<1>6. Count(o, "candidate") = Cardinality(A) /\ Count(o, "parent") = Cardinality(B) /\ Count(o, "draw") = Cardinality(C)
  BY DEF Count, A, B, C
<1>7. ResultOf(n, d).wins = Cardinality(A) /\ ResultOf(n, d).losses = Cardinality(B) /\ ResultOf(n, d).draws = Cardinality(C)
  BY <1>3, <1>6
<1> QED BY <1>5, <1>7 DEF Whole

LEMMA BatteriesAreWhole ==
  /\ \A r \in SearchResults : Whole(r, SearchSeeds)
  /\ \A r \in HoldoutResults : Whole(r, HoldoutSeeds)
<1>1. SearchSeeds \in Nat /\ HoldoutSeeds \in Nat
  BY SearchAssumption
<1> QED BY <1>1, EverySeedCounts DEF SearchResults, HoldoutResults

(* An entry of the log keeps what the battery counted.                      *)
LEMMA EntryKeeps ==
  ASSUME NEW c, NEW b, NEW r, NEW x, NEW n, NEW e, e = Entry(c, b, r, x)
  PROVE  /\ e.cand = c /\ e.base = b
         /\ Whole(r, n) => Whole(e.result, n)
         /\ Positive(r) <=> Positive(e.result)
BY DEF Entry, Whole, Positive

-----------------------------------------------------------------------------
(* One trial's part of the invariant.                                       *)
LEMMA BudgetIsNat ==
  ASSUME Shape, NEW p \in Processes, TrialOK(p), pc[p] \notin Over
  PROVE  cmd[p].budget \in Nat \ {0, 1}
BY OfflineAssumption DEF Shape, TrialOK

LEMMA TrialFrame ==
  ASSUME NEW q, TrialOK(q), cmd' = cmd, pc'[q] = pc[q], job'[q] = job[q]
  PROVE  TrialOK(q)'
BY DEF TrialOK, IsJob, Searching, AtTheGate, Concluded, Verdict, Log, Climbs, Strategy, Arm, Arms,
       Experiment, JudgedOn, Judged, Searched

\* Outside search, gate and publication a trial owes nothing.
LEMMA Elsewhere ==
  ASSUME NEW q, cmd' = cmd, q \in DOMAIN cmd \/ pc'[q] \in Over,
         pc'[q] \notin {"search", "gate", "publish", "write"},
         IsJob(job'[q]), job'[q].log \in Seq(LogSet(job'[q], 0))
  PROVE  TrialOK(q)'
BY DEF TrialOK, Log, IsJob, LogSet

LEMMA SameStrategy ==
  ASSUME NEW q, cmd' = cmd, job'[q].arm = job[q].arm
  PROVE  Climbs(q)' <=> Climbs(q)
BY DEF Climbs, Strategy, Arm, Arms, Experiment

\* A trial that has not begun.
New(a, t, v, r) ==
  [arm |-> a, todo |-> t, log |-> << >>, current |-> Parent, moved |-> FALSE,
   mult |-> 1, round |-> 0, verdict |-> v, rows |-> r]

LEMMA NewJob ==
  ASSUME NEW a, NEW t, NEW v, NEW r, NEW j, j = New(a, t, v, r)
  PROVE  /\ j.arm = a /\ j.todo = t /\ j.verdict = v /\ j.rows = r
         /\ IsJob(j) /\ LogSet(j, 0) = {} /\ j.log \in Seq(LogSet(j, 0)) /\ Len(j.log) = 0
<1>1. j.log = << >> /\ j.arm = a /\ j.todo = t /\ j.verdict = v /\ j.rows = r
  BY DEF New
<1>2. IsJob(j)
  BY DEF IsJob, New
<1>3. LogSet(j, 0) = {} /\ j.log \in Seq(LogSet(j, 0)) /\ Len(j.log) = 0
  BY <1>1, EmptyLog
<1> QED BY <1>1, <1>2, <1>3

LEMMA FreshIsNew == Fresh = New(1, << >>, NoVerdict, << >>)
BY DEF Fresh, New

LEMMA SetFresh ==
  ASSUME NEW a, NEW v, NEW r, NEW j, j = [Fresh EXCEPT !.arm = a, !.rows = r, !.verdict = v]
  PROVE  j = New(a, << >>, v, r)
BY DEF Fresh, New

LEMMA KeptIsNew ==
  ASSUME NEW p
  PROVE  Kept(p) = New(job[p].arm, << >>, [status |-> Verdict(p).status], job[p].rows)
<1> DEFINE a == job[p].arm
           r == job[p].rows
           v == [status |-> Verdict(p).status]
           j == Kept(p)
<1>1. j = [Fresh EXCEPT !.arm = a, !.rows = r, !.verdict = v]
  BY DEF Kept
<1> HIDE DEF a, r, v, j
<1>2. j = New(a, << >>, v, r)
  BY <1>1, SetFresh
<1> QED BY <1>2 DEF a, r, v, j

LEMMA EndOK ==
  ASSUME Shape, NEW p \in Processes, NEW l, l \in Over, Ends(p, l), cmd' = cmd
  PROVE  TrialOK(p)'
<1>1. pc'[p] = l /\ job'[p] = Fresh
  BY Moves, Sets DEF Ends
<1>2. IsJob(Fresh) /\ Fresh.log \in Seq(LogSet(Fresh, 0))
  BY NewJob, FreshIsNew
<1>3. l \notin {"search", "gate", "publish", "write"}
  BY DEF Over
<1> QED BY <1>1, <1>2, <1>3, Elsewhere

LEMMA BeginTrialOK ==
  ASSUME Shape, NEW p \in Processes, TrialOK(p), BeginTrial(p)
  PROVE  TrialOK(p)'
<1>1. PICK t : job'[p] = [Fresh EXCEPT !.arm = job[p].arm, !.rows = job[p].rows, !.todo = t]
  BY Sets DEF BeginTrial
<1>2. pc[p] = "trial" /\ pc'[p] = "search" /\ cmd' = cmd
  BY Moves DEF BeginTrial
<1>3. job'[p] = New(job[p].arm, t, NoVerdict, job[p].rows)
  BY <1>1 DEF Fresh, New
<1>4. /\ job'[p].verdict = NoVerdict
      /\ IsJob(job'[p]) /\ LogSet(job'[p], 0) = {} /\ job'[p].log \in Seq(LogSet(job'[p], 0))
      /\ Len(job'[p].log) = 0
  BY <1>3, NewJob
<1>5. p \in DOMAIN cmd /\ cmd[p].budget \in Nat \ {0, 1}
  BY <1>2, BudgetIsNat DEF TrialOK, Over
<1>6. Searching(p)'
  <2>1. Len(job'[p].log) <= cmd[p].budget - 1 /\ Len(job'[p].log) <= cmd[p].budget - 2
    BY <1>4, <1>5
  <2> QED BY <1>2, <1>4, <2>1 DEF Searching, Verdict, Log
<1> QED BY <1>2, <1>4, <1>5, <1>6 DEF TrialOK, Log, Over

\* An evaluation of the search joins the log.
LEMMA SearchGoesOn ==
  ASSUME NEW p, TrialOK(p), pc[p] = "search", cmd' = cmd, pc'[p] = "search",
         NEW t, NEW e, job'[p] = Logged([job[p] EXCEPT !.todo = t], e),
         Whole(e.result, SearchSeeds), ~Climbs(p) => e.base = Parent,
         Len(Log(p)) + 1 <= cmd[p].budget - 1,
         Climbs(p) => Len(Log(p)) + 1 <= cmd[p].budget - 2
  PROVE  TrialOK(p)'
<1> DEFINE j == [job[p] EXCEPT !.todo = t]
<1>1. j = [arm |-> job[p].arm, todo |-> t, log |-> job[p].log, current |-> job[p].current,
           moved |-> job[p].moved, mult |-> job[p].mult, round |-> job[p].round,
           verdict |-> job[p].verdict, rows |-> job[p].rows]
  BY DEF TrialOK, IsJob
<1>2. IsJob(j) /\ LogSet(j, 0) = LogSet(job[p], 0) /\ j.log \in Seq(LogSet(j, 0))
  BY <1>1 DEF IsJob, LogSet, TrialOK, Log
<1> DEFINE k == job'[p]
<1>3. k = Logged(j, e)
  OBVIOUS
<1> HIDE DEF j, k
<1>4. /\ k = [arm |-> j.arm, todo |-> j.todo, log |-> Append(j.log, e), current |-> j.current,
                    moved |-> j.moved, mult |-> j.mult, round |-> j.round,
                    verdict |-> j.verdict, rows |-> j.rows]
      /\ Len(k.log) = Len(j.log) + 1
      /\ LogSet(k, 0) = LogSet(j, 0) \cup {e}
      /\ k.log \in Seq(LogSet(k, 0))
  BY <1>2, <1>3, LogGrows
<1>5. k.arm = job[p].arm /\ k.verdict = job[p].verdict /\ Len(k.log) = Len(job[p].log) + 1 /\ IsJob(k)
  BY <1>1, <1>4 DEF IsJob
<1> USE DEF k
<1>6. Climbs(p)' <=> Climbs(p)
  BY <1>5, SameStrategy
<1>7. Searching(p)'
  <2>1. Searching(p)
    BY DEF TrialOK
  <2>2. \A f \in LogSet(job'[p], 0) : Whole(f.result, SearchSeeds) /\ (~Climbs(p) => f.base = Parent)
    BY <2>1, <1>2, <1>4 DEF Searching
  <2>3. Verdict(p)' = NoVerdict /\ Len(Log(p)') = Len(Log(p)) + 1
    BY <2>1, <1>5 DEF Searching, Verdict, Log
  <2> QED BY <2>2, <2>3, <1>6 DEF Searching
<1> QED BY <1>4, <1>5, <1>7 DEF TrialOK, Log, Over

LEMMA EnumerateOK ==
  ASSUME Shape, NEW p \in Processes, TrialOK(p), Enumerate(p)
  PROVE  TrialOK(p)'
<1>1. PICK r \in SearchResults, x \in Excess :
        job'[p] = Logged([job[p] EXCEPT !.todo = Tail(Unseen(p))], Entry(Head(Unseen(p)), Parent, r, x))
  BY Sets DEF Enumerate
<1> DEFINE e == Entry(Head(Unseen(p)), Parent, r, x)
<1>2. Whole(e.result, SearchSeeds) /\ e.base = Parent
  BY BatteriesAreWhole, EntryKeeps
<1>3. /\ pc[p] = "search" /\ pc'[p] = "search" /\ cmd' = cmd /\ ~Climbs(p)
      /\ Len(Log(p)) + 1 <= cmd[p].budget - 1
  BY DEF Enumerate, Leaves, Climbs, Affordable, Log
<1> HIDE DEF e
<1>4. job'[p] = Logged([job[p] EXCEPT !.todo = Tail(Unseen(p))], e)
  BY <1>1 DEF e
<1> QED BY <1>2, <1>3, <1>4, SearchGoesOn

LEMMA ClimbEvaluateOK ==
  ASSUME Shape, NEW p \in Processes, TrialOK(p), ClimbEvaluate(p)
  PROVE  TrialOK(p)'
<1>1. PICK r \in SearchResults, x \in Excess :
        job'[p] = Logged([job[p] EXCEPT !.todo = Tail(@)],
                         Entry(Head(job[p].todo), job[p].current, r, x))
  BY Sets DEF ClimbEvaluate
<1> DEFINE e == Entry(Head(job[p].todo), job[p].current, r, x)
<1>2. Whole(e.result, SearchSeeds)
  BY BatteriesAreWhole, EntryKeeps
<1>3. /\ pc[p] = "search" /\ pc'[p] = "search" /\ cmd' = cmd /\ Climbs(p)
      /\ Len(Log(p)) + 3 <= cmd[p].budget
  BY DEF ClimbEvaluate, Leaves, Climbs, Climbing, ClimbAffordable, Log
<1>4. Len(Log(p)) + 1 <= cmd[p].budget - 1 /\ Len(Log(p)) + 1 <= cmd[p].budget - 2
  <2>1. cmd[p].budget \in Nat
    BY <1>3, BudgetIsNat DEF Over
  <2>2. Len(Log(p)) \in Nat
    BY LenProperties DEF TrialOK
  <2> QED BY <1>3, <2>1, <2>2
<1> HIDE DEF e
<1>5. job'[p] = Logged([job[p] EXCEPT !.todo = Tail(job[p].todo)], e)
  BY <1>1 DEF e, TrialOK, IsJob
<1> QED BY <1>2, <1>3, <1>4, <1>5, SearchGoesOn

\* What may change in a trial that goes on searching.
LEMMA SearchStays ==
  ASSUME NEW p, TrialOK(p), pc[p] = "search", cmd' = cmd, pc'[p] = "search",
         IsJob(job'[p]), job'[p].arm = job[p].arm, job'[p].log = job[p].log,
         job'[p].verdict = job[p].verdict
  PROVE  TrialOK(p)'
<1>1. Climbs(p)' <=> Climbs(p)
  BY SameStrategy
<1>2. LogSet(job'[p], 0) = LogSet(job[p], 0)
  BY DEF LogSet
<1>3. Searching(p)'
  BY <1>1, <1>2 DEF TrialOK, Searching, Verdict, Log
<1> QED BY <1>2, <1>3 DEF TrialOK, Log, Over

LEMMA SetRound ==
  ASSUME NEW a, NEW t0, NEW l, NEW c0, NEW w0, NEW m0, NEW n0, NEW v, NEW r,
         NEW c, NEW m, NEW n, NEW t, NEW j,
         j = [[arm |-> a, todo |-> t0, log |-> l, current |-> c0, moved |-> w0, mult |-> m0,
               round |-> n0, verdict |-> v, rows |-> r]
                 EXCEPT !.current = c, !.mult = m, !.round = n, !.todo = t]
  PROVE  j = [arm |-> a, todo |-> t, log |-> l, current |-> c, moved |-> w0, mult |-> m,
              round |-> n, verdict |-> v, rows |-> r]
OBVIOUS

LEMMA SetMoved ==
  ASSUME NEW b, IsJob(b), NEW w, NEW j, j = [b EXCEPT !.moved = w]
  PROVE  j = [arm |-> b.arm, todo |-> b.todo, log |-> b.log, current |-> b.current, moved |-> w,
              mult |-> b.mult, round |-> b.round, verdict |-> b.verdict, rows |-> b.rows]
BY DEF IsJob

LEMMA RoundKeeps ==
  ASSUME NEW p, IsJob(job[p]), NEW c, NEW m, NEW j, j = NewRound(p, c, m)
  PROVE  IsJob(j) /\ j.arm = job[p].arm /\ j.log = job[p].log /\ j.verdict = job[p].verdict
           /\ j.rows = job[p].rows
<1> DEFINE n == Len(job[p].log)
           t == IF m > Len(Schedule) THEN << >> ELSE Neighbours(c, Schedule[m])
           b == job[p]
<1>1. j = [b EXCEPT !.current = c, !.mult = m, !.round = n, !.todo = t]
  BY DEF NewRound
<1>2. IsJob(b)
  OBVIOUS
<1> HIDE DEF n, t, b
<1>3. j = [arm |-> b.arm, todo |-> t, log |-> b.log, current |-> c, moved |-> b.moved, mult |-> m,
           round |-> n, verdict |-> b.verdict, rows |-> b.rows]
  BY <1>1, <1>2, SetRound DEF IsJob
<1> QED BY <1>3 DEF IsJob, b

LEMMA ClimbMoveOK ==
  ASSUME Shape, NEW p \in Processes, TrialOK(p), ClimbMove(p)
  PROVE  TrialOK(p)'
<1>1. pc[p] = "search" /\ pc'[p] = "search" /\ cmd' = cmd
  BY DEF ClimbMove, Climbing
<1>2. \/ job'[p] = NewRound(p, job[p].current, job[p].mult + 1)
      \/ \E c : job'[p] = [NewRound(p, c, job[p].mult) EXCEPT !.moved = TRUE]
  BY Sets DEF ClimbMove
<1>3. IsJob(job[p])
  BY DEF TrialOK
<1> DEFINE k == job'[p]
<1>4. IsJob(k) /\ k.arm = job[p].arm /\ k.log = job[p].log /\ k.verdict = job[p].verdict
  <2>1. CASE k = NewRound(p, job[p].current, job[p].mult + 1)
    <3> DEFINE m == job[p].mult + 1
               c == job[p].current
    <3>1. k = NewRound(p, c, m)
      BY <2>1
    <3> HIDE DEF k, m, c
    <3> QED BY <3>1, <1>3, RoundKeeps
  <2>2. CASE \E c : k = [NewRound(p, c, job[p].mult) EXCEPT !.moved = TRUE]
    <3>1. PICK c : k = [NewRound(p, c, job[p].mult) EXCEPT !.moved = TRUE]
      BY <2>2
    <3> DEFINE m == job[p].mult
               b == NewRound(p, c, m)
    <3>2. k = [b EXCEPT !.moved = TRUE] /\ b = NewRound(p, c, m)
      BY <3>1
    <3> HIDE DEF k, m, b
    <3>3. IsJob(b) /\ b.arm = job[p].arm /\ b.log = job[p].log /\ b.verdict = job[p].verdict
      BY <3>2, <1>3, RoundKeeps
    <3>4. k = [arm |-> b.arm, todo |-> b.todo, log |-> b.log, current |-> b.current, moved |-> TRUE,
               mult |-> b.mult, round |-> b.round, verdict |-> b.verdict, rows |-> b.rows]
      BY <3>2, <3>3, SetMoved
    <3> QED BY <3>3, <3>4 DEF IsJob
  <2> QED BY <1>2, <2>1, <2>2
<1> QED BY <1>1, <1>4, SearchStays

LEMMA SetVerdict ==
  ASSUME NEW a, NEW t, NEW l, NEW c0, NEW w, NEW m, NEW n, NEW v0, NEW r, NEW c, NEW v, NEW j,
         j = [[arm |-> a, todo |-> t, log |-> l, current |-> c0, moved |-> w, mult |-> m,
               round |-> n, verdict |-> v0, rows |-> r] EXCEPT !.current = c, !.verdict = v]
  PROVE  j = [arm |-> a, todo |-> t, log |-> l, current |-> c, moved |-> w, mult |-> m,
              round |-> n, verdict |-> v, rows |-> r]
OBVIOUS

LEMMA SetVerdictOnly ==
  ASSUME NEW a, NEW t, NEW l, NEW c, NEW w, NEW m, NEW n, NEW v0, NEW r, NEW v, NEW j,
         j = [[arm |-> a, todo |-> t, log |-> l, current |-> c, moved |-> w, mult |-> m,
               round |-> n, verdict |-> v0, rows |-> r] EXCEPT !.verdict = v]
  PROVE  j = [arm |-> a, todo |-> t, log |-> l, current |-> c, moved |-> w, mult |-> m,
              round |-> n, verdict |-> v, rows |-> r]
OBVIOUS

\* A search that ends without a verdict.
LEMMA NothingFound ==
  ASSUME Shape, NEW p \in Processes, TrialOK(p), pc[p] = "search", cmd' = cmd, pc'[p] = "publish",
         job'[p] = job[p], Climbs(p) \/ Positives(LogSet(job[p], 0)) = {}
  PROVE  TrialOK(p)'
<1>1. Climbs(p)' <=> Climbs(p)
  BY SameStrategy
<1>2. cmd[p].budget \in Nat /\ Len(Log(p)) \in Nat
  BY BudgetIsNat, LenProperties DEF Over, TrialOK
<1>3. Searching(p)
  BY DEF TrialOK
<1>4. Len(Log(p)) <= cmd[p].budget
  BY <1>2, <1>3 DEF Searching
<1>5. Concluded(p)'
  BY <1>1, <1>3, <1>4 DEF Concluded, Searching, Verdict, Log
<1> QED BY <1>5 DEF TrialOK, Log, Over, LogSet

LEMMA EnumeratedOK ==
  ASSUME Shape, NEW p \in Processes, TrialOK(p), Enumerated(p)
  PROVE  TrialOK(p)'
<1>1. pc[p] = "search" /\ cmd' = cmd /\ ~Climbs(p)
  BY DEF Enumerated, Climbs
<1>2. CASE Positives(LogSet(job[p], 0)) = {} /\ Goto(p, "publish") /\ UNCHANGED job
  <2>1. pc'[p] = "publish" /\ job'[p] = job[p]
    BY <1>2, Moves
  <2> QED BY <1>1, <1>2, <2>1, NothingFound
<1>3. CASE \E e \in SelectBest(LogSet(job[p], 0)) :
              /\ SetJob(p, [job[p] EXCEPT !.current = e.cand, !.verdict = [status |-> "gate", search |-> e]])
              /\ Goto(p, "gate")
  <2>1. PICK e \in SelectBest(LogSet(job[p], 0)) :
          /\ job'[p] = [job[p] EXCEPT !.current = e.cand, !.verdict = [status |-> "gate", search |-> e]]
          /\ pc'[p] = "gate"
    BY <1>3, Moves, Sets
  <2> DEFINE k == job'[p]
             b == job[p]
             v == [status |-> "gate", search |-> e]
             c == e.cand
  <2>2. k = [b EXCEPT !.current = c, !.verdict = v] /\ IsJob(b)
    BY <2>1 DEF TrialOK
  <2> HIDE DEF k, b, v, c
  <2>3. k = [arm |-> b.arm, todo |-> b.todo, log |-> b.log, current |-> c, moved |-> b.moved,
             mult |-> b.mult, round |-> b.round, verdict |-> v, rows |-> b.rows]
    BY <2>2, SetVerdict DEF IsJob
  <2>4. /\ k.arm = b.arm /\ k.log = b.log /\ k.current = c /\ k.verdict = v
        /\ IsJob(k) /\ LogSet(k, 0) = LogSet(b, 0)
    BY <2>3 DEF IsJob, LogSet
  <2>5. /\ e \in LogSet(b, 0) /\ Positive(e.result)
        /\ \A f \in Positives(LogSet(b, 0)) : AtMost(SignTest(e.result), SignTest(f.result))
    <3>1. e \in Positives(LogSet(b, 0)) /\ \A f \in Positives(LogSet(b, 0)) : ~Better(f.result, e.result)
      BY <2>1 DEF SelectBest, b
    <3> QED BY <3>1 DEF Positives, Better
  <2>6. Climbs(p)' <=> Climbs(p)
    <3>1. job'[p].arm = job[p].arm
      BY <2>4 DEF k, b
    <3> QED BY <1>1, <3>1, SameStrategy
  <2>7. Searching(p)
    BY <1>1 DEF TrialOK
  <2>8. Whole(e.result, SearchSeeds) /\ e.base = Parent
    BY <1>1, <2>5, <2>7 DEF Searching, b
  <2>9. v.status = "gate" /\ v.search = e /\ v = [status |-> "gate", search |-> v.search]
    BY DEF v
  <2>10. AtTheGate(p)'
    <3>1. Verdict(p)' = v /\ Log(p)' = Log(p) /\ LogSet(job[p], 0)' = LogSet(b, 0) /\ job'[p].current = c
      BY <2>4 DEF Verdict, Log, k, b
    <3>2. Len(Log(p)) <= cmd[p].budget - 1
      BY <2>7 DEF Searching
    <3>3. Against(e, c)
      BY <2>8 DEF Against, c
    <3> QED BY <1>1, <2>5, <2>6, <2>8, <2>9, <3>1, <3>2, <3>3 DEF AtTheGate
  <2>11. job'[p].log \in Seq(LogSet(job'[p], 0)) /\ IsJob(job'[p])
    BY <2>4 DEF k, b, TrialOK, Log
  <2> QED BY <1>1, <2>1, <2>10, <2>11 DEF TrialOK, Log, Over
<1> QED BY <1>2, <1>3 DEF Enumerated

LEMMA ClimbStaysOK ==
  ASSUME Shape, NEW p \in Processes, TrialOK(p), ClimbStays(p)
  PROVE  TrialOK(p)'
<1>1. /\ pc[p] = "search" /\ pc'[p] = "publish" /\ cmd' = cmd /\ job'[p] = job[p] /\ Climbs(p)
  BY Moves DEF ClimbStays, Climbed, Climbs
<1> QED BY <1>1, NothingFound

\* The climb's last evaluation; what does not beat the parent is not gated.
LEMMA ClimbRebaseOK ==
  ASSUME Shape, NEW p \in Processes, TrialOK(p), ClimbRebase(p)
  PROVE  TrialOK(p)'
<1>1. pc[p] = "search" /\ cmd' = cmd /\ Climbs(p)
  BY DEF ClimbRebase, Climbed, Climbs, Leaves
<1>2. PICK r \in SearchResults, x \in Excess :
        LET e == Entry(job[p].current, Parent, r, x)
        IN  /\ SetJob(p, IF Positive(r)
                         THEN [Logged(job[p], e) EXCEPT !.verdict = [status |-> "gate", search |-> e]]
                         ELSE Logged(job[p], e))
            /\ Goto(p, IF Positive(r) THEN "gate" ELSE "publish")
  BY DEF ClimbRebase
<1> DEFINE e == Entry(job[p].current, Parent, r, x)
           b == job[p]
           v == [status |-> "gate", search |-> e]
           g == Logged(b, e)
           k == job'[p]
<1>3. k = IF Positive(r) THEN [g EXCEPT !.verdict = v] ELSE g
  BY <1>2, Sets
<1>4. pc'[p] = IF Positive(r) THEN "gate" ELSE "publish"
  BY <1>2, Moves
<1>5. /\ e.cand = b.current /\ e.base = Parent /\ Whole(e.result, SearchSeeds)
      /\ Positive(r) <=> Positive(e.result)
  BY BatteriesAreWhole, EntryKeeps
<1>6. v.status = "gate" /\ v.search = e /\ v = [status |-> "gate", search |-> v.search]
  OBVIOUS
<1>7. b = job[p]
  OBVIOUS
<1>8. g = Logged(b, e) /\ IsJob(b) /\ b.log \in Seq(LogSet(b, 0))
  BY DEF TrialOK, Log
<1> HIDE DEF e, b, v, g, k
<1>9. /\ g = [arm |-> b.arm, todo |-> b.todo, log |-> Append(b.log, e), current |-> b.current,
              moved |-> b.moved, mult |-> b.mult, round |-> b.round,
              verdict |-> b.verdict, rows |-> b.rows]
      /\ Len(g.log) = Len(b.log) + 1 /\ Len(b.log) \in Nat
      /\ LogSet(g, 0) = LogSet(b, 0) \cup {e}
      /\ g.log \in Seq(LogSet(g, 0))
  BY <1>8, LogGrows
<1>10. Searching(p) /\ cmd[p].budget \in Nat
  BY <1>1, BudgetIsNat DEF TrialOK, Over
<1>11. Len(g.log) <= cmd[p].budget - 1
  <2>1. Len(b.log) <= cmd[p].budget - 2
    BY <1>1, <1>7, <1>10 DEF Searching, Log
  <2> QED BY <1>9, <1>10, <2>1
<1>12. p \in DOMAIN cmd
  BY <1>1 DEF TrialOK, Over
<1>13. CASE Positive(r)
  <2>1. k = [g EXCEPT !.verdict = v]
    BY <1>3, <1>13
  <2>2. k = [arm |-> b.arm, todo |-> b.todo, log |-> Append(b.log, e), current |-> b.current,
             moved |-> b.moved, mult |-> b.mult, round |-> b.round, verdict |-> v, rows |-> b.rows]
    <3> DEFINE l == Append(b.log, e)
    <3>1. g = [arm |-> b.arm, todo |-> b.todo, log |-> l, current |-> b.current, moved |-> b.moved,
               mult |-> b.mult, round |-> b.round, verdict |-> b.verdict, rows |-> b.rows]
      BY <1>9
    <3> HIDE DEF l
    <3>2. k = [arm |-> b.arm, todo |-> b.todo, log |-> l, current |-> b.current, moved |-> b.moved,
               mult |-> b.mult, round |-> b.round, verdict |-> v, rows |-> b.rows]
      BY <2>1, <3>1, SetVerdictOnly
    <3> QED BY <3>2 DEF l
  <2>3. /\ k.arm = b.arm /\ k.log = g.log /\ k.current = b.current /\ k.verdict = v
        /\ IsJob(k) /\ LogSet(k, 0) = LogSet(g, 0)
    BY <2>2, <1>9 DEF IsJob, LogSet
  <2>4. job'[p].arm = job[p].arm
    BY <1>7, <2>3 DEF k
  <2>5. Climbs(p)' <=> Climbs(p)
    BY <1>1, <2>4, SameStrategy
  <2>6. AtTheGate(p)'
    <3>1. Verdict(p)' = v /\ Log(p)' = g.log /\ LogSet(job[p], 0)' = LogSet(g, 0) /\ job'[p].current = b.current
      BY <2>3 DEF Verdict, Log, k
    <3>2. Against(e, b.current)
      BY <1>5 DEF Against
    <3>3. Positive(e.result) /\ e \in LogSet(g, 0)
      BY <1>5, <1>9, <1>13
    <3> QED BY <1>1, <1>5, <1>6, <1>11, <2>5, <3>1, <3>2, <3>3 DEF AtTheGate
  <2>7. pc'[p] = "gate" /\ job'[p].log \in Seq(LogSet(job'[p], 0)) /\ IsJob(job'[p])
    BY <1>4, <1>9, <1>13, <2>3 DEF k
  <2> QED BY <1>1, <1>12, <2>6, <2>7 DEF TrialOK, Log, Over
<1>14. CASE ~Positive(r)
  <2>1. k = g
    BY <1>3, <1>14
  <2>2. job'[p].arm = job[p].arm
    BY <1>7, <1>9, <2>1 DEF k
  <2>3. Climbs(p)' <=> Climbs(p)
    BY <1>1, <2>2, SameStrategy
  <2>4. Concluded(p)'
    <3>1. Verdict(p)' = b.verdict /\ Log(p)' = g.log
      BY <1>9, <2>1 DEF Verdict, Log, k
    <3>2. b.verdict = NoVerdict
      BY <1>7, <1>10 DEF Searching, Verdict
    <3>3. Len(g.log) <= cmd[p].budget
      BY <1>9, <1>10, <1>11
    <3> QED BY <1>1, <2>3, <3>1, <3>2, <3>3 DEF Concluded
  <2>5. pc'[p] = "publish" /\ job'[p].log \in Seq(LogSet(job'[p], 0)) /\ IsJob(job'[p])
    BY <1>4, <1>9, <1>14, <2>1 DEF k, IsJob
  <2> QED BY <1>1, <1>12, <2>4, <2>5 DEF TrialOK, Log, Over
<1> QED BY <1>13, <1>14

LEMMA CloneIsRefused ==
  ASSUME NEW c, NEW s, NEW h, Reasons(c, s, h) = {}, MinSteps > 0
  PROVE  ~SameValue(c, Parent)
<1> SUFFICES ASSUME SameValue(c, Parent) PROVE FALSE
  OBVIOUS
<1>1. Parent.num \in Nat
  BY SearchAssumption
<1>2. Distance(c, Parent) = 0
  BY <1>1 DEF Distance, SameValue
<1>3. 0 < MinSteps
  BY SearchAssumption
<1>4. "trivial_clone" \in Reasons(c, s, h)
  BY <1>2, <1>3 DEF Reasons
<1> QED BY <1>4

LEMMA GateOK ==
  ASSUME Shape, NEW p \in Processes, TrialOK(p), Gate(p)
  PROVE  TrialOK(p)'
<1>1. pc[p] = "gate" /\ pc'[p] = "publish" /\ cmd' = cmd
  BY Moves DEF Gate, Leaves
<1>2. PICK r \in HoldoutResults, x \in Excess :
        LET s == job[p].verdict.search
            h == Entry(job[p].current, Parent, r, x)
            reasons == Reasons(job[p].current, s, h)
        IN  SetJob(p, [Logged(job[p], h) EXCEPT !.verdict =
                [status |-> IF reasons = {} THEN "promoted" ELSE "rejected",
                 cand |-> job[p].current, search |-> s, holdout |-> h, reasons |-> reasons]])
  BY DEF Gate
<1> DEFINE b == job[p]
           s == b.verdict.search
           h == Entry(b.current, Parent, r, x)
           w == Reasons(b.current, s, h)
           v == [status |-> IF w = {} THEN "promoted" ELSE "rejected",
                 cand |-> b.current, search |-> s, holdout |-> h, reasons |-> w]
           g == Logged(b, h)
           k == job'[p]
<1>3. k = [g EXCEPT !.verdict = v]
  BY <1>2, Sets
<1>4. /\ IsVerdict(v)
      /\ v.cand = b.current /\ v.search = s /\ v.holdout = h
      /\ v.status = "promoted" => w = {}
  BY DEF IsVerdict
<1>5. h.cand = b.current /\ h.base = Parent /\ Whole(h.result, HoldoutSeeds)
  BY BatteriesAreWhole, EntryKeeps
<1>6. b = job[p]
  OBVIOUS
<1>20. g = Logged(b, h) /\ IsJob(b) /\ b.log \in Seq(LogSet(b, 0))
  BY DEF TrialOK, Log
<1>7. w = {} /\ MinSteps > 0 => ~SameValue(b.current, Parent)
  BY CloneIsRefused
<1>8. s = Verdict(p).search
  BY DEF Verdict
<1> HIDE DEF b, s, h, w, v, g, k
<1>9. /\ g = [arm |-> b.arm, todo |-> b.todo, log |-> Append(b.log, h), current |-> b.current,
              moved |-> b.moved, mult |-> b.mult, round |-> b.round,
              verdict |-> b.verdict, rows |-> b.rows]
      /\ Len(g.log) = Len(b.log) + 1 /\ Len(b.log) \in Nat
      /\ g.log \in Seq(LogSet(g, 0))
      /\ g.log[Len(g.log)] = h
      /\ {g.log[i] : i \in 1 .. Len(g.log) - 1} = LogSet(b, 0)
  BY <1>20, LogGrows
<1>10. k = [arm |-> b.arm, todo |-> b.todo, log |-> Append(b.log, h), current |-> b.current,
            moved |-> b.moved, mult |-> b.mult, round |-> b.round, verdict |-> v, rows |-> b.rows]
  <2> DEFINE l == Append(b.log, h)
  <2>1. g = [arm |-> b.arm, todo |-> b.todo, log |-> l, current |-> b.current, moved |-> b.moved,
             mult |-> b.mult, round |-> b.round, verdict |-> b.verdict, rows |-> b.rows]
    BY <1>9
  <2> HIDE DEF l
  <2>2. k = [arm |-> b.arm, todo |-> b.todo, log |-> l, current |-> b.current, moved |-> b.moved,
             mult |-> b.mult, round |-> b.round, verdict |-> v, rows |-> b.rows]
    BY <1>3, <2>1, SetVerdictOnly
  <2> QED BY <2>2 DEF l
<1>11. /\ k.arm = b.arm /\ k.log = g.log /\ k.current = b.current /\ k.verdict = v
       /\ IsJob(k) /\ LogSet(k, 0) = LogSet(g, 0)
  BY <1>9, <1>10 DEF IsJob, LogSet
<1>12. Climbs(p)' <=> Climbs(p)
  <2>1. job'[p].arm = job[p].arm
    BY <1>6, <1>11 DEF k
  <2> QED BY <1>1, <2>1, SameStrategy
<1>13. AtTheGate(p) /\ cmd[p].budget \in Nat /\ p \in DOMAIN cmd
  BY <1>1, BudgetIsNat DEF TrialOK, Over
<1>14. Verdict(p)' = v /\ Log(p)' = g.log /\ Searched(p)' = LogSet(b, 0) /\ job'[p].current = b.current
  <2>1. Searched(p)' = {k.log[i] : i \in 1 .. Len(k.log) - 1}
    BY DEF Searched, k
  <2> QED BY <1>9, <1>11, <2>1 DEF Verdict, Log, k
<1>15. JudgedOn(p, Verdict(p).search)'
  <2>1. /\ s \in LogSet(b, 0) /\ Against(s, b.current)
        /\ Whole(s.result, SearchSeeds) /\ Positive(s.result)
        /\ ~Climbs(p) => \A e \in Positives(LogSet(b, 0)) : AtMost(SignTest(s.result), SignTest(e.result))
    BY <1>6, <1>8, <1>13 DEF AtTheGate
  <2> QED BY <1>4, <1>12, <1>14, <2>1 DEF JudgedOn, Climbs
<1>16. Judged(p, Verdict(p))'
  <2>1. Against(h, b.current)
    BY <1>5 DEF Against
  <2>2. job'[p].log = g.log
    BY <1>11 DEF k
  <2> QED BY <1>4, <1>5, <1>7, <1>9, <1>14, <2>1, <2>2 DEF Judged
<1>17. Len(g.log) <= cmd[p].budget
  <2>1. Len(b.log) <= cmd[p].budget - 1
    BY <1>6, <1>13 DEF AtTheGate, Log
  <2> QED BY <1>9, <1>13, <2>1
<1>18. Concluded(p)'
  <2>1. IsVerdict(Verdict(p))'
    BY <1>4, <1>14 DEF IsVerdict
  <2> QED BY <1>1, <1>14, <1>15, <1>16, <1>17, <2>1 DEF Concluded
<1>19. job'[p].log \in Seq(LogSet(job'[p], 0)) /\ IsJob(job'[p])
  BY <1>9, <1>11 DEF k
<1> QED BY <1>1, <1>13, <1>18, <1>19 DEF TrialOK, Log, Over

LEMMA CreateRecordOK ==
  ASSUME Shape, NEW p \in Processes, TrialOK(p), CreateRecord(p)
  PROVE  TrialOK(p)'
<1>1. pc[p] = "publish" /\ pc'[p] = "write" /\ cmd' = cmd /\ job'[p] = job[p]
  BY Moves DEF CreateRecord
<1>2. Concluded(p) /\ p \in DOMAIN cmd
  BY <1>1 DEF TrialOK, Over
<1>3. Concluded(p)'
  BY <1>1, <1>2 DEF Concluded, Verdict, Log, Climbs, Strategy, Arm, Arms, Experiment, JudgedOn, Judged,
                   Searched
<1> QED BY <1>1, <1>2, <1>3 DEF TrialOK, Log, Over

\* The next arm's trial: the row joins the rows.
LEMMA ClaimedUsage ==
  ASSUME Shape, NEW p \in Processes, ClaimIdentity(p), pc[p] = "claim usage"
  PROVE  /\ job'[p].rows = Append(job[p].rows, Row(p))
         /\ IsJob(job'[p]) /\ job'[p].log \in Seq(LogSet(job'[p], 0))
<1> DEFINE a == job[p].arm + 1
           r == Append(job[p].rows, Row(p))
           j == job'[p]
<1>1. j = [Fresh EXCEPT !.rows = r, !.arm = a]
  BY Sets DEF ClaimIdentity
<1> HIDE DEF a, r, j
<1>2. j = New(a, << >>, NoVerdict, r)
  BY <1>1 DEF Fresh, New
<1>3. j.rows = r
  BY <1>2 DEF New
<1>4. IsJob(j) /\ j.log \in Seq(LogSet(j, 0))
  BY <1>2, NewJob
<1> QED BY <1>3, <1>4 DEF r, j

(* Every trial, after a step of any process.                                *)
LEMMA TrialsGoOn ==
  ASSUME Shape, \A q \in Processes : TrialOK(q), NEW p \in Processes,
         Step(p) \/ BatteryFails(p) \/ Crash(p)
  PROVE  Shape' /\ \A q \in Processes : TrialOK(q)'
<1>1. cmd' = cmd
  BY DEF Step, BatteryFails, Crash, TrialRefused, Stops, BeginTrial, Enumerate, Leaves, Enumerated,
         ClimbEvaluate, ClimbMove, ClimbStays, ClimbRebase, Gate, Unrecorded, CreateRecord, FindRecord,
         WriteRecord, LearnEnds, WriteContent, ClaimRefused, ClaimIdentity
<1>2. (\E l : Goto(p, l)) \/ UNCHANGED pc
  BY DEF Step, BatteryFails, Crash, TrialRefused, Stops, Ends, BeginTrial, Enumerate, Enumerated,
         ClimbEvaluate, ClimbMove, ClimbStays, ClimbRebase, Gate, Unrecorded, CreateRecord, FindRecord,
         WriteRecord, LearnEnds, WriteContent, ClaimRefused, ClaimIdentity
<1>3. (\E j : SetJob(p, j)) \/ UNCHANGED job
  BY DEF Step, BatteryFails, Crash, TrialRefused, Stops, Ends, BeginTrial, Enumerate, Enumerated,
         ClimbEvaluate, ClimbMove, ClimbStays, ClimbRebase, Gate, Unrecorded, CreateRecord, FindRecord,
         WriteRecord, LearnEnds, WriteContent, ClaimRefused, ClaimIdentity
<1>4. /\ pc' = [q \in Processes |-> pc'[q]]
      /\ \A q \in Processes : q # p => pc'[q] = pc[q]
  BY <1>2, Moves, StaysPut
<1>5. /\ job' = [q \in Processes |-> job'[q]]
      /\ \A q \in Processes : q # p => job'[q] = job[q]
  BY <1>3, Sets, Stays
<1>6. Shape'
  BY <1>1, <1>4, <1>5 DEF Shape
<1>7. \A q \in Processes : q # p => TrialOK(q)'
  BY <1>1, <1>4, <1>5, TrialFrame
<1>8. TrialOK(p)'
  <2>1. CASE TrialRefused(p) \/ LearnEnds(p) \/ ClaimRefused(p) \/ BatteryFails(p) \/ Crash(p)
    <3>1. \E l \in Over : Ends(p, l)
      BY <2>1 DEF TrialRefused, LearnEnds, ClaimRefused, BatteryFails, Crash, Stops, Over
    <3> QED BY <1>1, <3>1, EndOK
  <2>2. CASE BeginTrial(p)
    BY <2>2, BeginTrialOK
  <2>3. CASE Enumerate(p)
    BY <2>3, EnumerateOK
  <2>4. CASE Enumerated(p)
    BY <2>4, EnumeratedOK
  <2>5. CASE ClimbEvaluate(p)
    BY <2>5, ClimbEvaluateOK
  <2>6. CASE ClimbMove(p)
    BY <2>6, ClimbMoveOK
  <2>7. CASE ClimbStays(p)
    BY <2>7, ClimbStaysOK
  <2>8. CASE ClimbRebase(p)
    BY <2>8, ClimbRebaseOK
  <2>9. CASE Gate(p)
    BY <2>9, GateOK
  <2>10. CASE CreateRecord(p)
    BY <2>10, CreateRecordOK
  <2>11. CASE Unrecorded(p) \/ FindRecord(p) \/ WriteRecord(p)
    <3>1. job'[p] = Kept(p) /\ pc'[p] \in {"usage", "refused"} /\ pc[p] \in {"publish", "write"}
      BY <2>11, Moves, Sets DEF Unrecorded, FindRecord, WriteRecord
    <3> DEFINE j == job'[p]
    <3>2. j = New(job[p].arm, << >>, [status |-> Verdict(p).status], job[p].rows)
      BY <3>1, KeptIsNew
    <3> HIDE DEF j
    <3>3. IsJob(j) /\ j.log \in Seq(LogSet(j, 0))
      BY <3>2, NewJob
    <3>4. p \in DOMAIN cmd
      BY <3>1 DEF TrialOK, Over
    <3>5. pc'[p] \notin {"search", "gate", "publish", "write"}
      BY <3>1
    <3> QED BY <1>1, <3>3, <3>4, <3>5, Elsewhere DEF j
  <2>12. CASE WriteContent(p)
    <3>1. pc'[p] \in {ClaimOf(l) : l \in Publishing} /\ pc[p] \in Publishing /\ job'[p] = job[p]
      BY <2>12, Moves DEF WriteContent
    <3>2. pc'[p] \notin {"search", "gate", "publish", "write"} /\ pc[p] \notin Over
      BY <3>1 DEF ClaimOf, Publishing, Over
    <3>3. p \in DOMAIN cmd /\ IsJob(job'[p]) /\ job'[p].log \in Seq(LogSet(job'[p], 0))
      BY <3>1, <3>2 DEF TrialOK, Log
    <3> QED BY <1>1, <3>2, <3>3, Elsewhere
  <2>13. CASE ClaimIdentity(p)
    <3>1. pc'[p] = AfterClaim(p) /\ pc[p] \in {ClaimOf(l) : l \in Publishing}
      BY <2>13, Moves DEF ClaimIdentity
    <3>2. pc'[p] \notin {"search", "gate", "publish", "write"} /\ pc[p] \notin Over
      BY <3>1 DEF AfterClaim, ClaimOf, Publishing, Over
    <3>3. p \in DOMAIN cmd
      BY <3>2 DEF TrialOK
    <3>4. IsJob(job'[p]) /\ job'[p].log \in Seq(LogSet(job'[p], 0))
      <4>1. CASE pc[p] = "claim usage"
        BY <2>13, <4>1, ClaimedUsage
      <4>2. CASE pc[p] = "claim summary"
        <5>1. job'[p] = job[p]
          <6>1. SetJob(p, job[p])
            BY <2>13, <4>2 DEF ClaimIdentity
          <6> QED BY <6>1, Sets
        <5> QED BY <5>1 DEF TrialOK, Log
      <4>3. CASE pc[p] = "claim rows"
        <5>1. job'[p] = Fresh
          BY <2>13, <4>3, Sets DEF ClaimIdentity
        <5> QED BY <5>1, NewJob, FreshIsNew
      <4> QED BY <3>1, <4>1, <4>2, <4>3 DEF ClaimOf, Publishing
    <3> QED BY <1>1, <3>2, <3>3, <3>4, Elsewhere
  <2> QED BY <2>1, <2>2, <2>3, <2>4, <2>5, <2>6, <2>7, <2>8, <2>9, <2>10, <2>11, <2>12, <2>13 DEF Step
<1> QED BY <1>6, <1>7, <1>8

-----------------------------------------------------------------------------
(* What is stored only grows; a torn record may be completed.               *)
Grows ==
  /\ claims \subseteq claims' /\ files \subseteq files'
  /\ \A r \in lineage : r.whole => r \in lineage'

LEMMA Records ==
  ASSUME Bound, NEW p, WriteRecord(p)
  PROVE  \A r \in lineage : r.whole => r \in lineage'
<1> SUFFICES ASSUME NEW r \in lineage, r.whole PROVE r \in lineage'
  OBVIOUS
<1>1. CASE r \in Found(p)
  <2>1. r = [rec |-> Record(p), whole |-> TRUE]
    BY <1>1 DEF Bound, Found
  <2> QED BY <2>1 DEF WriteRecord
<1>2. CASE r \notin Found(p)
  BY <1>2 DEF WriteRecord
<1> QED BY <1>1, <1>2

LEMMA StepGrows ==
  ASSUME Bound, NEW p, Step(p) \/ BatteryFails(p) \/ Crash(p)
  PROVE  Grows
<1>1. CASE WriteRecord(p)
  BY <1>1, Records DEF Grows, WriteRecord
<1>2. CASE CreateRecord(p)
  BY <1>2 DEF Grows, CreateRecord
<1>3. CASE WriteContent(p) \/ ClaimIdentity(p)
  BY <1>3 DEF Grows, WriteContent, ClaimIdentity
<1>4. CASE UNCHANGED <<lineage, files, claims>>
  BY <1>4 DEF Grows
<1>5. \/ WriteRecord(p) \/ CreateRecord(p) \/ WriteContent(p) \/ ClaimIdentity(p)
      \/ UNCHANGED <<lineage, files, claims>>
  BY DEF Step, BatteryFails, Crash, TrialRefused, Stops, BeginTrial, Enumerate, Leaves, Enumerated,
         ClimbEvaluate, ClimbMove, ClimbStays, ClimbRebase, Gate, Unrecorded, FindRecord, LearnEnds,
         ClaimRefused, shared
<1> QED BY <1>1, <1>2, <1>3, <1>4, <1>5

LEMMA RecordedStays ==
  ASSUME Grows, NEW run, NEW status, Recorded(run, status)
  PROVE  Recorded(run, status)'
BY DEF Grows, Recorded

LEMMA BackedStays ==
  ASSUME Grows, NEW seed, NEW row, BackedRow(seed, row)
  PROVE  BackedRow(seed, row)'
<1>1. Recorded(<<seed, row.arm>>, row.status)'
  BY RecordedStays DEF BackedRow
<1> QED BY <1>1 DEF Grows, BackedRow

LEMMA RowsStay ==
  ASSUME NEW q, RowsOK(q), Grows, cmd' = cmd, job'[q].rows = job[q].rows
  PROVE  RowsOK(q)'
<1>1. \A i \in DOMAIN job'[q].rows : BackedRow(cmd[q].seed, job[q].rows[i])'
  BY BackedStays DEF RowsOK
<1> QED BY <1>1 DEF RowsOK

LEMMA NoRows ==
  ASSUME NEW q, job'[q].rows = << >>
  PROVE  RowsOK(q)'
<1>1. DOMAIN job'[q].rows = {}
  OBVIOUS
<1>2. job'[q].rows \in Seq({job'[q].rows[i] : i \in DOMAIN job'[q].rows})
  OBVIOUS
<1> QED BY <1>1, <1>2 DEF RowsOK

LEMMA OneMoreRow ==
  ASSUME NEW q, RowsOK(q), Grows, cmd' = cmd,
         NEW row, job'[q].rows = Append(job[q].rows, row), BackedRow(cmd[q].seed, row)'
  PROVE  RowsOK(q)'
<1> DEFINE L == job[q].rows
           M == job'[q].rows
           S == {L[i] : i \in DOMAIN L}
           n == Len(L)
<1>1. L \in Seq(S) /\ M = Append(L, row)
  BY DEF RowsOK
<1>2. DOMAIN L = 1 .. n
  BY <1>1, LenProperties
<1>3. /\ M \in Seq(S \cup {row}) /\ Len(M) = n + 1 /\ n \in Nat
      /\ \A i \in 1 .. n : M[i] = L[i]
      /\ M[n + 1] = row
  BY <1>1, OneMore
<1>4. DOMAIN M = 1 .. n + 1
  BY <1>3, LenProperties
<1>5. \A i \in 1 .. n : \A f : f = L[i] => BackedRow(cmd[q].seed, f)'
  BY <1>2, BackedStays DEF RowsOK
<1>6. cmd'[q].seed = cmd[q].seed /\ job'[q].rows = M
  OBVIOUS
<1>7. BackedRow(cmd[q].seed, row)'
  OBVIOUS
<1>8. S = {L[i] : i \in 1 .. n}
  BY <1>2
<1> HIDE DEF L, M, S, n
<1>9. \A i \in 1 .. n + 1 : i \in 1 .. n \/ i = n + 1
  BY <1>3
<1>10. n + 1 \in 1 .. n + 1 /\ \A i \in 1 .. n : i \in 1 .. n + 1
  BY <1>3
<1>11. S \cup {row} = {M[i] : i \in DOMAIN M}
  BY <1>3, <1>4, <1>8, <1>9, <1>10
<1>12. M \in Seq({M[i] : i \in DOMAIN M})
  BY <1>3, <1>11
<1>13. \A i \in DOMAIN M : \A f : f = M[i] => BackedRow(cmd[q].seed, f)'
  BY <1>3, <1>4, <1>5, <1>7, <1>9
<1> QED BY <1>6, <1>12, <1>13 DEF RowsOK

LEMMA PublicationFrame ==
  ASSUME NEW q, PublicationOK(q), Grows, cmd' = cmd, pc'[q] = pc[q], job'[q] = job[q]
  PROVE  PublicationOK(q)'
<1>1. RowsOK(q)'
  BY RowsStay DEF PublicationOK
<1>2. pc[q] \in {"usage", "claim usage"} => Recorded(Run(q), Verdict(q).status)'
  <2>1. Run(q)' = Run(q) /\ Verdict(q)' = Verdict(q)
    BY DEF Run, Arm, Arms, Experiment, Verdict
  <2> QED BY <2>1, RecordedStays DEF PublicationOK
<1>3. Artifact(q)' = Artifact(q)
  BY DEF Artifact, Run, Arm, Arms, Experiment
<1> QED BY <1>1, <1>2, <1>3 DEF PublicationOK, Grows

(* Every publication, after a step of any process.                          *)
Claiming == {ClaimOf(l) : l \in Publishing}

LEMMA ClaimingIs == Claiming = {"claim usage", "claim summary", "claim rows"}
BY DEF Claiming, ClaimOf, Publishing

LEMMA NotPublishing ==
  ASSUME NEW p, RowsOK(p)', pc'[p] \notin {"usage", "claim usage"}, pc'[p] \notin Claiming
  PROVE  PublicationOK(p)'
BY DEF PublicationOK, Claiming

LEMMA KeptOK ==
  ASSUME Shape, NEW p \in Processes, PublicationOK(p), Grows,
         Unrecorded(p) \/ FindRecord(p) \/ WriteRecord(p)
  PROVE  PublicationOK(p)'
<1>1. cmd' = cmd /\ job'[p] = Kept(p) /\ pc'[p] \in {"usage", "refused"}
  BY Moves, Sets DEF Unrecorded, FindRecord, WriteRecord
<1> DEFINE j == job'[p]
           v == [status |-> Verdict(p).status]
<1>2. j = New(job[p].arm, << >>, v, job[p].rows)
  BY <1>1, KeptIsNew
<1>3. v.status = Verdict(p).status
  OBVIOUS
<1> HIDE DEF j, v
<1>4. j.arm = job[p].arm /\ j.rows = job[p].rows /\ j.verdict = v
  BY <1>2 DEF New
<1>5. RowsOK(p)'
  <2>1. job'[p].rows = job[p].rows
    BY <1>4 DEF j
  <2> QED BY <1>1, <2>1, RowsStay DEF PublicationOK
<1>6. Run(p)' = Run(p) /\ Verdict(p)'.status = Verdict(p).status
  <2>1. job'[p].arm = job[p].arm /\ job'[p].verdict = v
    BY <1>4 DEF j
  <2> QED BY <1>1, <1>3, <2>1 DEF Run, Arm, Arms, Experiment, Verdict
<1>7. pc'[p] = "usage" => Recorded(Run(p), Verdict(p).status)'
  <2> SUFFICES ASSUME pc'[p] = "usage", Verdict(p).status # "none"
               PROVE  \E r \in lineage' : r.whole /\ r.rec.run = Run(p) /\ r.rec.status = Verdict(p).status
    BY <1>6 DEF Recorded
  <2>1. Verdict(p) # NoVerdict
    BY DEF NoVerdict
  <2>2. Record(p).run = Run(p) /\ Record(p).status = Verdict(p).status
    BY DEF Record
  <2>3. CASE FindRecord(p)
    <3>1. Found(p) # {} /\ \A r \in Found(p) : r.whole
      <4>1. pc'[p] = IF \A r \in Found(p) : r.whole THEN "usage" ELSE "refused"
        BY <2>3, Moves DEF FindRecord
      <4> QED BY <2>3, <4>1 DEF FindRecord
    <3>2. PICK r \in Found(p) : r.whole
      BY <3>1
    <3>3. r \in lineage' /\ r.rec = Record(p)
      BY <3>2 DEF Found, Grows
    <3> QED BY <2>2, <3>2, <3>3
  <2>4. CASE WriteRecord(p)
    <3> DEFINE r == [rec |-> Record(p), whole |-> TRUE]
    <3>1. r \in lineage' /\ r.whole /\ r.rec = Record(p)
      BY <2>4 DEF WriteRecord
    <3> QED BY <2>2, <3>1
  <2> QED BY <2>1, <2>3, <2>4 DEF Unrecorded
<1>8. pc'[p] \notin Claiming /\ pc'[p] # "claim usage"
  BY <1>1, ClaimingIs
<1> QED BY <1>5, <1>7, <1>8 DEF PublicationOK, Claiming

LEMMA WriteContentOK ==
  ASSUME Shape, NEW p \in Processes, PublicationOK(p), Grows, WriteContent(p)
  PROVE  PublicationOK(p)'
<1>1. /\ cmd' = cmd /\ job'[p] = job[p] /\ pc[p] \in Publishing /\ pc'[p] = ClaimOf(pc[p])
      /\ Artifact(p) \in files'
  BY Moves DEF WriteContent
<1>2. RowsOK(p)'
  BY <1>1, RowsStay DEF PublicationOK
<1>3. Run(p)' = Run(p) /\ Verdict(p)' = Verdict(p)
  BY <1>1 DEF Run, Arm, Arms, Experiment, Verdict
<1>4. \/ pc[p] = "usage" /\ pc'[p] = "claim usage"
      \/ pc[p] = "summary" /\ pc'[p] = "claim summary"
      \/ pc[p] = "rows" /\ pc'[p] = "claim rows"
  BY <1>1 DEF Publishing, ClaimOf
<1>5. Artifact(p)' = Artifact(p)
  <2>1. CASE pc[p] = "usage" /\ pc'[p] = "claim usage"
    BY <1>1, <1>3, <2>1 DEF Artifact
  <2>2. CASE pc[p] = "summary" /\ pc'[p] = "claim summary"
    BY <1>1, <2>2 DEF Artifact
  <2>3. CASE pc[p] = "rows" /\ pc'[p] = "claim rows"
    BY <1>1, <2>3 DEF Artifact
  <2> QED BY <1>4, <2>1, <2>2, <2>3
<1>6. pc'[p] \in {"usage", "claim usage"} => Recorded(Run(p), Verdict(p).status)'
  <2> SUFFICES ASSUME pc'[p] \in {"usage", "claim usage"}
               PROVE  Recorded(Run(p), Verdict(p).status)'
    OBVIOUS
  <2>1. Recorded(Run(p), Verdict(p).status)
    BY <1>4 DEF PublicationOK
  <2> DEFINE run == Run(p)
             status == Verdict(p).status
  <2>2. run' = run /\ status' = status
    BY <1>3
  <2>3. Recorded(run, status)
    BY <2>1
  <2> QED BY <1>3, <2>1 DEF Recorded, Grows
<1> QED BY <1>1, <1>2, <1>5, <1>6 DEF PublicationOK

LEMMA ClaimIdentityOK ==
  ASSUME Shape, NEW p \in Processes, PublicationOK(p), Grows, ClaimIdentity(p)
  PROVE  PublicationOK(p)'
<1>1. /\ cmd' = cmd /\ pc[p] \in Claiming /\ pc'[p] = AfterClaim(p)
      /\ claims' = claims \cup {Artifact(p)}
  BY Moves DEF ClaimIdentity, Claiming
<1>2. pc'[p] \notin {"usage", "claim usage"} /\ pc'[p] \notin Claiming
  BY <1>1, ClaimingIs DEF AfterClaim
<1>3. RowsOK(p)'
  <2>1. CASE pc[p] = "claim usage"
    <3> DEFINE row == Row(p)
               u == Artifact(p)
    <3>1. job'[p].rows = Append(job[p].rows, row)
      BY <2>1, ClaimedUsage
    <3>2. row.arm = Arm(p) /\ row.status = Verdict(p).status
      BY DEF Row
    <3>3. u.kind = "usage" /\ u.id = Run(p)
      BY <2>1 DEF Artifact
    <3>4. Run(p) = <<cmd[p].seed, row.arm>>
      BY <3>2 DEF Run
    <3>5. Recorded(Run(p), Verdict(p).status)
      BY <2>1 DEF PublicationOK
    <3>6. u \in claims'
      BY <1>1
    <3> HIDE DEF row, u
    <3>7. PICK w : w = row
      OBVIOUS
    <3>8. \E c \in claims' : c.kind = "usage" /\ c.id = <<cmd[p].seed, w.arm>>
      BY <3>3, <3>4, <3>6, <3>7
    <3>9. Recorded(<<cmd[p].seed, w.arm>>, w.status)
      BY <3>2, <3>4, <3>5, <3>7
    <3>10. BackedRow(cmd[p].seed, w)'
      BY <1>1, <3>8, <3>9 DEF BackedRow, Recorded, Grows
    <3>11. job'[p].rows = Append(job[p].rows, w)
      BY <3>1, <3>7
    <3>12. RowsOK(p)
      BY DEF PublicationOK
    <3> QED BY <1>1, <3>10, <3>11, <3>12, OneMoreRow
  <2>2. CASE pc[p] = "claim summary"
    <3>1. SetJob(p, job[p])
      BY <2>2 DEF ClaimIdentity
    <3>2. job'[p] = job[p]
      BY <3>1, Sets
    <3> QED BY <1>1, <3>2, RowsStay DEF PublicationOK
  <2>3. CASE pc[p] = "claim rows"
    <3>1. SetJob(p, Fresh)
      BY <2>3 DEF ClaimIdentity
    <3>2. job'[p].rows = << >>
      BY <3>1, Sets DEF Fresh
    <3> QED BY <3>2, NoRows
  <2> QED BY <1>1, <2>1, <2>2, <2>3, ClaimingIs
<1> QED BY <1>2, <1>3, NotPublishing

LEMMA RowsOfTodo ==
  ASSUME NEW b, IsJob(b), NEW t, NEW j, j = [b EXCEPT !.todo = t]
  PROVE  j = [arm |-> b.arm, todo |-> t, log |-> b.log, current |-> b.current, moved |-> b.moved,
              mult |-> b.mult, round |-> b.round, verdict |-> b.verdict, rows |-> b.rows]
BY DEF IsJob

LEMMA RowsOfLogged ==
  ASSUME NEW b, IsJob(b), NEW e, NEW j, j = Logged(b, e)
  PROVE  IsJob(j) /\ j.rows = b.rows
<1>1. j = [arm |-> b.arm, todo |-> b.todo, log |-> Append(b.log, e), current |-> b.current,
           moved |-> b.moved, mult |-> b.mult, round |-> b.round, verdict |-> b.verdict,
           rows |-> b.rows]
  BY DEF IsJob, Logged
<1> QED BY <1>1 DEF IsJob

LEMMA RowsOfVerdict ==
  ASSUME NEW b, IsJob(b), NEW v, NEW j, j = [b EXCEPT !.verdict = v]
  PROVE  j.rows = b.rows
<1>1. j = [arm |-> b.arm, todo |-> b.todo, log |-> b.log, current |-> b.current, moved |-> b.moved,
           mult |-> b.mult, round |-> b.round, verdict |-> v, rows |-> b.rows]
  BY SetVerdictOnly DEF IsJob
<1> QED BY <1>1

LEMMA TodoAndLog ==
  ASSUME Shape, NEW p \in Processes, IsJob(job[p]), NEW t, NEW e,
         SetJob(p, Logged([job[p] EXCEPT !.todo = t], e))
  PROVE  job'[p].rows = job[p].rows
<1> DEFINE b == job[p]
           c == [b EXCEPT !.todo = t]
           k == job'[p]
<1>1. k = Logged(c, e) /\ c = [b EXCEPT !.todo = t] /\ IsJob(b)
  BY Sets
<1> HIDE DEF b, c, k
<1>2. IsJob(c) /\ c.rows = b.rows
  <2>1. c = [arm |-> b.arm, todo |-> t, log |-> b.log, current |-> b.current, moved |-> b.moved,
             mult |-> b.mult, round |-> b.round, verdict |-> b.verdict, rows |-> b.rows]
    BY <1>1, RowsOfTodo
  <2> QED BY <2>1 DEF IsJob
<1>3. k.rows = c.rows
  BY <1>1, <1>2, RowsOfLogged
<1> QED BY <1>2, <1>3 DEF b, k

LEMMA LogAndVerdict ==
  ASSUME Shape, NEW p \in Processes, IsJob(job[p]),
         \/ \E e : SetJob(p, Logged(job[p], e))
         \/ \E e, v : SetJob(p, [Logged(job[p], e) EXCEPT !.verdict = v])
  PROVE  job'[p].rows = job[p].rows
<1>1. PICK e : \/ job'[p] = Logged(job[p], e)
               \/ \E v : job'[p] = [Logged(job[p], e) EXCEPT !.verdict = v]
  BY Sets
<1> DEFINE b == job[p]
           c == Logged(b, e)
           k == job'[p]
<1>2. /\ k = c \/ \E v : k = [c EXCEPT !.verdict = v]
      /\ c = Logged(b, e) /\ IsJob(b)
  BY <1>1
<1> HIDE DEF b, c, k
<1>3. IsJob(c) /\ c.rows = b.rows
  BY <1>2, RowsOfLogged
<1>4. k.rows = c.rows
  BY <1>2, <1>3, RowsOfVerdict
<1> QED BY <1>3, <1>4 DEF b, k

LEMMA Chosen ==
  ASSUME Shape, NEW p \in Processes, IsJob(job[p]), NEW c, NEW v,
         SetJob(p, [job[p] EXCEPT !.current = c, !.verdict = v])
  PROVE  job'[p].rows = job[p].rows
<1> DEFINE b == job[p]
           k == job'[p]
<1>1. k = [b EXCEPT !.current = c, !.verdict = v] /\ IsJob(b)
  BY Sets
<1> HIDE DEF b, k
<1>2. k = [arm |-> b.arm, todo |-> b.todo, log |-> b.log, current |-> c, moved |-> b.moved,
           mult |-> b.mult, round |-> b.round, verdict |-> v, rows |-> b.rows]
  BY <1>1, SetVerdict DEF IsJob
<1>3. k.rows = b.rows
  BY <1>2
<1> QED BY <1>3 DEF b, k

LEMMA RowsUntouched ==
  ASSUME Shape, NEW p \in Processes, TrialOK(p),
         \/ BeginTrial(p) \/ Enumerate(p) \/ Enumerated(p) \/ ClimbEvaluate(p) \/ ClimbMove(p)
         \/ ClimbStays(p) \/ ClimbRebase(p) \/ Gate(p) \/ CreateRecord(p)
  PROVE  cmd' = cmd /\ job'[p].rows = job[p].rows /\ pc'[p] \in {"search", "gate", "publish", "write"}
<1>1. IsJob(job[p])
  BY DEF TrialOK
<1>2. CASE BeginTrial(p)
  <2>1. PICK t : SetJob(p, [Fresh EXCEPT !.arm = job[p].arm, !.rows = job[p].rows, !.todo = t])
    BY <1>2 DEF BeginTrial
  <2>3. job'[p] = [Fresh EXCEPT !.arm = job[p].arm, !.rows = job[p].rows, !.todo = t]
    BY <2>1, Sets
  <2>4. job'[p] = New(job[p].arm, t, NoVerdict, job[p].rows)
    BY <2>3 DEF Fresh, New
  <2>2. job'[p].rows = job[p].rows
    BY <2>4 DEF New
  <2> QED BY <1>2, <2>2, Moves DEF BeginTrial
<1>3. CASE Enumerate(p)
  <2>1. PICK t, e : SetJob(p, Logged([job[p] EXCEPT !.todo = t], e))
    BY <1>3 DEF Enumerate
  <2>2. job'[p].rows = job[p].rows
    BY <1>1, <2>1, TodoAndLog
  <2> QED BY <1>3, <2>2 DEF Enumerate, Leaves
<1>4. CASE Enumerated(p)
  <2>1. \/ UNCHANGED job
        \/ \E c, v : SetJob(p, [job[p] EXCEPT !.current = c, !.verdict = v])
    BY <1>4 DEF Enumerated
  <2>2. job'[p].rows = job[p].rows
    <3>1. CASE UNCHANGED job
      BY <3>1
    <3>2. CASE \E c, v : SetJob(p, [job[p] EXCEPT !.current = c, !.verdict = v])
      BY <1>1, <3>2, Chosen
    <3> QED BY <2>1, <3>1, <3>2
  <2> QED BY <1>4, <2>2, Moves DEF Enumerated
<1>5. CASE ClimbEvaluate(p)
  <2>1. PICK t, e : SetJob(p, Logged([job[p] EXCEPT !.todo = t], e))
    <3>1. PICK e : SetJob(p, Logged([job[p] EXCEPT !.todo = Tail(@)], e))
      BY <1>5 DEF ClimbEvaluate
    <3>2. [job[p] EXCEPT !.todo = Tail(@)] = [job[p] EXCEPT !.todo = Tail(job[p].todo)]
      BY <1>1 DEF IsJob
    <3> QED BY <3>1, <3>2
  <2>2. job'[p].rows = job[p].rows
    BY <1>1, <2>1, TodoAndLog
  <2> QED BY <1>5, <2>2 DEF ClimbEvaluate, Climbing, Leaves
<1>6. CASE ClimbMove(p)
  <2>1. \/ \E c, m : SetJob(p, NewRound(p, c, m))
        \/ \E c, m : SetJob(p, [NewRound(p, c, m) EXCEPT !.moved = TRUE])
    BY <1>6 DEF ClimbMove
  <2>2. CASE \E c, m : SetJob(p, NewRound(p, c, m))
    <3>1. PICK c, m : SetJob(p, NewRound(p, c, m))
      BY <2>2
    <3>2. job'[p].rows = job[p].rows
      BY <1>1, <3>1, Sets, RoundKeeps
    <3> QED BY <1>6, <3>2 DEF ClimbMove, Climbing
  <2>3. CASE \E c, m : SetJob(p, [NewRound(p, c, m) EXCEPT !.moved = TRUE])
    <3>1. PICK c, m : SetJob(p, [NewRound(p, c, m) EXCEPT !.moved = TRUE])
      BY <2>3
    <3> DEFINE b == NewRound(p, c, m)
    <3>2. IsJob(b) /\ b.rows = job[p].rows
      BY <1>1, RoundKeeps
    <3>3. job'[p] = [b EXCEPT !.moved = TRUE]
      BY <3>1, Sets
    <3> HIDE DEF b
    <3>4. job'[p].rows = job[p].rows
      BY <3>2, <3>3 DEF IsJob
    <3> QED BY <1>6, <3>4 DEF ClimbMove, Climbing
  <2> QED BY <2>1, <2>2, <2>3
<1>7. CASE ClimbStays(p)
  BY <1>7, Moves DEF ClimbStays
<1>8. CASE ClimbRebase(p)
  <2>1. \/ \E e : SetJob(p, Logged(job[p], e))
        \/ \E e, v : SetJob(p, [Logged(job[p], e) EXCEPT !.verdict = v])
    BY <1>8 DEF ClimbRebase
  <2>2. job'[p].rows = job[p].rows
    BY <1>1, <2>1, LogAndVerdict
  <2>3. Goto(p, "gate") \/ Goto(p, "publish")
    BY <1>8 DEF ClimbRebase
  <2> QED BY <1>8, <2>2, <2>3, Moves DEF ClimbRebase, Leaves
<1>9. CASE Gate(p)
  <2>1. PICK e, v : SetJob(p, [Logged(job[p], e) EXCEPT !.verdict = v])
    BY <1>9 DEF Gate
  <2>2. job'[p].rows = job[p].rows
    BY <1>1, <2>1, LogAndVerdict
  <2> QED BY <1>9, <2>2, Moves DEF Gate, Leaves
<1>10. CASE CreateRecord(p)
  BY <1>10, Moves DEF CreateRecord
<1> QED BY <1>2, <1>3, <1>4, <1>5, <1>6, <1>7, <1>8, <1>9, <1>10

LEMMA PublicationsGoOn ==
  ASSUME IInv, NEW p \in Processes, Step(p) \/ BatteryFails(p) \/ Crash(p)
  PROVE  \A q \in Processes : PublicationOK(q)'
<1>1. Shape /\ TrialOK(p) /\ PublicationOK(p) /\ Bound
  BY DEF IInv
<1>2. Grows
  BY <1>1, StepGrows
<1>3. cmd' = cmd
  BY DEF Step, BatteryFails, Crash, TrialRefused, Stops, BeginTrial, Enumerate, Leaves, Enumerated,
         ClimbEvaluate, ClimbMove, ClimbStays, ClimbRebase, Gate, Unrecorded, CreateRecord, FindRecord,
         WriteRecord, LearnEnds, WriteContent, ClaimRefused, ClaimIdentity
<1>4. \A q \in Processes : q # p => pc'[q] = pc[q] /\ job'[q] = job[q]
  <2>1. (\E l : Goto(p, l)) \/ UNCHANGED pc
    BY DEF Step, BatteryFails, Crash, TrialRefused, Stops, Ends, BeginTrial, Enumerate, Enumerated,
           ClimbEvaluate, ClimbMove, ClimbStays, ClimbRebase, Gate, Unrecorded, CreateRecord,
           FindRecord, WriteRecord, LearnEnds, WriteContent, ClaimRefused, ClaimIdentity
  <2>2. (\E j : SetJob(p, j)) \/ UNCHANGED job
    BY DEF Step, BatteryFails, Crash, TrialRefused, Stops, Ends, BeginTrial, Enumerate, Enumerated,
           ClimbEvaluate, ClimbMove, ClimbStays, ClimbRebase, Gate, Unrecorded, CreateRecord,
           FindRecord, WriteRecord, LearnEnds, WriteContent, ClaimRefused, ClaimIdentity
  <2>3. \A q \in Processes : q # p => pc'[q] = pc[q]
    BY <1>1, <2>1, Moves
  <2>4. \A q \in Processes : q # p => job'[q] = job[q]
    BY <1>1, <2>2, Sets
  <2> QED BY <2>3, <2>4
<1>5. \A q \in Processes : q # p => PublicationOK(q)'
  BY <1>2, <1>3, <1>4, PublicationFrame DEF IInv
<1>6. PublicationOK(p)'
  <2>1. CASE \E l \in Over : Ends(p, l)
    <3>1. PICK l \in Over : pc'[p] = l /\ job'[p] = Fresh
      BY <1>1, <2>1, Moves, Sets DEF Ends
    <3>2. RowsOK(p)'
      BY <3>1, NoRows DEF Fresh
    <3>3. pc'[p] \notin {"usage", "claim usage"} /\ pc'[p] \notin Claiming
      BY <3>1, ClaimingIs DEF Over
    <3> QED BY <3>2, <3>3, NotPublishing
  <2>2. CASE \/ BeginTrial(p) \/ Enumerate(p) \/ Enumerated(p) \/ ClimbEvaluate(p) \/ ClimbMove(p)
             \/ ClimbStays(p) \/ ClimbRebase(p) \/ Gate(p) \/ CreateRecord(p)
    <3>1. job'[p].rows = job[p].rows /\ pc'[p] \in {"search", "gate", "publish", "write"}
      BY <1>1, <2>2, RowsUntouched
    <3>2. RowsOK(p)'
      BY <1>1, <1>2, <1>3, <3>1, RowsStay DEF PublicationOK
    <3>3. pc'[p] \notin {"usage", "claim usage"} /\ pc'[p] \notin Claiming
      BY <3>1, ClaimingIs
    <3> QED BY <3>2, <3>3, NotPublishing
  <2>3. CASE Unrecorded(p) \/ FindRecord(p) \/ WriteRecord(p)
    BY <1>1, <1>2, <2>3, KeptOK
  <2>4. CASE WriteContent(p)
    BY <1>1, <1>2, <2>4, WriteContentOK
  <2>5. CASE ClaimIdentity(p)
    BY <1>1, <1>2, <2>5, ClaimIdentityOK
  <2>6. CASE TrialRefused(p) \/ LearnEnds(p) \/ ClaimRefused(p) \/ BatteryFails(p) \/ Crash(p)
    <3>1. \E l \in Over : Ends(p, l)
      BY <2>6 DEF TrialRefused, LearnEnds, ClaimRefused, BatteryFails, Crash, Stops, Over
    <3> QED BY <2>1, <3>1
  <2> QED BY <2>2, <2>3, <2>4, <2>5, <2>6 DEF Step
<1> QED BY <1>5, <1>6

-----------------------------------------------------------------------------
(* What is stored, after a step of any process.                             *)
LEMMA BackedMeans ==
  SummariesAreBacked <=>
    \A s \in claims : s.kind = "summary" =>
      \A i \in DOMAIN s.content : BackedRow(s.id, s.content[i])
BY DEF SummariesAreBacked, BackedRow, Recorded

\* What is claimed is there, and nobody claimed it as something else.
LEMMA Claims ==
  ASSUME IInv, NEW p \in Processes, ClaimIdentity(p)
  PROVE  Bound' /\ ClaimsNameFiles' /\ SummariesAreBacked'
<1> DEFINE a == Artifact(p)
<1>1. /\ claims' = claims \cup {a} /\ lineage' = lineage /\ files' = files
      /\ ~Taken(a) /\ pc[p] \in Claiming /\ cmd' = cmd
  BY DEF ClaimIdentity, Claiming
<1>2. a \in files
  BY <1>1 DEF IInv, PublicationOK, Claiming
<1>3. a.kind = "summary" => a.id = cmd[p].seed /\ a.content = job[p].rows
  BY <1>1, ClaimingIs DEF Artifact
<1> HIDE DEF a
<1>4. Bound'
  BY <1>1 DEF IInv, Bound, Taken
<1>5. ClaimsNameFiles'
  BY <1>1, <1>2 DEF IInv, ClaimsNameFiles
<1>6. Grows
  BY StepGrows DEF IInv, Step
<1>7. \A s \in claims' : s.kind = "summary" =>
        \A i \in DOMAIN s.content : \A f : f = s.content[i] => BackedRow(s.id, f)'
  <2> SUFFICES ASSUME NEW s \in claims', s.kind = "summary", NEW i \in DOMAIN s.content
               PROVE  BackedRow(s.id, s.content[i])'
    OBVIOUS
  <2>1. BackedRow(s.id, s.content[i])
    <3>1. CASE s \in claims
      BY <3>1, BackedMeans DEF IInv
    <3>2. CASE s = a
      BY <1>3, <3>2 DEF IInv, PublicationOK, RowsOK
    <3> QED BY <1>1, <3>1, <3>2
  <2> QED BY <1>6, <2>1, BackedStays
<1>8. SummariesAreBacked'
  BY <1>7 DEF SummariesAreBacked, BackedRow, Recorded
<1> QED BY <1>4, <1>5, <1>8

LEMMA StoreGoesOn ==
  ASSUME IInv, NEW p \in Processes, Step(p) \/ BatteryFails(p) \/ Crash(p)
  PROVE  Bound' /\ ClaimsNameFiles' /\ SummariesAreBacked'
<1>1. CASE ClaimIdentity(p)
  BY <1>1, Claims
<1>2. CASE ~ClaimIdentity(p)
  <2>1. Grows
    BY StepGrows DEF IInv
  <2>2. claims' = claims
    BY <1>2 DEF Step, BatteryFails, Crash, TrialRefused, Stops, BeginTrial, Enumerate, Leaves,
                Enumerated, ClimbEvaluate, ClimbMove, ClimbStays, ClimbRebase, Gate, Unrecorded,
                CreateRecord, FindRecord, WriteRecord, LearnEnds, WriteContent, ClaimRefused, shared
  <2>3. CreateRecord(p) \/ WriteRecord(p) \/ lineage' = lineage
    BY DEF Step, BatteryFails, Crash, TrialRefused, Stops, BeginTrial, Enumerate, Leaves,
           Enumerated, ClimbEvaluate, ClimbMove, ClimbStays, ClimbRebase, Gate, Unrecorded,
           FindRecord, LearnEnds, WriteContent, ClaimRefused, ClaimIdentity, shared
  <2>4. \A r \in lineage' : r = [rec |-> r.rec, whole |-> r.whole] /\ r.whole \in BOOLEAN
    <3>1. \A r \in lineage : r = [rec |-> r.rec, whole |-> r.whole] /\ r.whole \in BOOLEAN
      BY DEF IInv, Bound
    <3>2. \A r \in lineage' : r \in lineage \/ \E x : \E w \in BOOLEAN : r = [rec |-> x, whole |-> w]
      BY <2>3 DEF CreateRecord, WriteRecord
    <3> QED BY <3>1, <3>2
  <2>5. Bound'
    BY <2>2, <2>4 DEF IInv, Bound
  <2>6. ClaimsNameFiles'
    BY <2>1, <2>2 DEF IInv, ClaimsNameFiles, Grows
  <2>7. SummariesAreBacked'
    <3>1. \A s \in claims : s.kind = "summary" => \A i \in DOMAIN s.content : BackedRow(s.id, s.content[i])'
      BY <2>1, BackedMeans, BackedStays DEF IInv
    <3> QED BY <2>2, <3>1 DEF SummariesAreBacked, BackedRow, Recorded
  <2> QED BY <2>5, <2>6, <2>7
<1> QED BY <1>1, <1>2

(* Trials, publications and stores keep the relations of IInv: for any      *)
(* processes, plans, budgets, batteries and thresholds.                     *)
THEOREM OfflineInvariance == Spec => []IInv
<1>1. Init => IInv
  <2> SUFFICES ASSUME Init PROVE IInv
    OBVIOUS
  <2>1. Shape
    BY DEF Init, Shape
  <2>2. ASSUME NEW p \in Processes PROVE TrialOK(p)
    <3>1. job[p] = Fresh /\ (pc[p] = "trial" \/ pc[p] = "done")
      BY DEF Init
    <3>2. IsJob(job[p]) /\ job[p].log \in Seq(LogSet(job[p], 0))
      BY <3>1, NewJob, FreshIsNew
    <3>3. pc[p] \notin Over => p \in DOMAIN cmd
      BY DEF Init, Over
    <3> QED BY <3>1, <3>2, <3>3 DEF TrialOK, Log
  <2>3. ASSUME NEW p \in Processes PROVE PublicationOK(p)
    <3>1. job[p].rows = << >> /\ (pc[p] = "trial" \/ pc[p] = "done")
      BY DEF Init, Fresh
    <3>2. DOMAIN job[p].rows = {} /\ job[p].rows \in Seq({job[p].rows[i] : i \in DOMAIN job[p].rows})
      BY <3>1
    <3>3. pc[p] \notin {"usage", "claim usage"} /\ pc[p] \notin Claiming
      BY <3>1, ClaimingIs
    <3> QED BY <3>2, <3>3 DEF PublicationOK, RowsOK, Claiming
  <2>4. Bound /\ ClaimsNameFiles /\ SummariesAreBacked
    BY DEF Init, Bound, ClaimsNameFiles, SummariesAreBacked
  <2> QED BY <2>1, <2>2, <2>3, <2>4 DEF IInv
<1>2. IInv /\ [Next]_vars => IInv'
  <2> SUFFICES ASSUME IInv, [Next]_vars PROVE IInv'
    OBVIOUS
  <2>1. CASE UNCHANGED vars
    <3>1. Shape' /\ Bound' /\ ClaimsNameFiles' /\ SummariesAreBacked'
      BY <2>1 DEF IInv, vars, Shape, Bound, ClaimsNameFiles, SummariesAreBacked
    <3>2. \A q \in Processes : TrialOK(q)'
      BY <2>1, TrialFrame DEF IInv, vars
    <3>3. \A q \in Processes : PublicationOK(q)'
      BY <2>1, PublicationFrame DEF IInv, vars, Grows
    <3> QED BY <3>1, <3>2, <3>3 DEF IInv
  <2>2. CASE Next
    <3>1. PICK p \in Processes : Step(p) \/ BatteryFails(p) \/ Crash(p)
      BY <2>2 DEF Next
    <3>2. Shape' /\ \A q \in Processes : TrialOK(q)'
      BY <3>1, TrialsGoOn DEF IInv
    <3>3. \A q \in Processes : PublicationOK(q)'
      BY <3>1, PublicationsGoOn
    <3>4. Bound' /\ ClaimsNameFiles' /\ SummariesAreBacked'
      BY <3>1, StoreGoesOn
    <3> QED BY <3>2, <3>3, <3>4 DEF IInv
  <2> QED BY <2>1, <2>2
<1> QED BY <1>1, <1>2, PTL DEF Spec

(* A verdict is judged on the trial's own best evaluation against the       *)
(* parent, within the budget, and on hidden seeds the same candidate played;*)
(* a search that concludes without one had no winner to bring.              *)
THEOREM VerdictsAlwaysEarned == Spec => []VerdictsAreEarned
<1>1. IInv => VerdictsAreEarned
  <2> SUFFICES ASSUME IInv, NEW p \in Processes
               PROVE  /\ pc[p] \in {"search", "gate", "publish", "write"} => Len(job[p].log) <= cmd[p].budget
                      /\ pc[p] = "gate" => Len(job[p].log) < cmd[p].budget
                      /\ pc[p] \in {"publish", "write"} =>
                           IF Verdict(p) = NoVerdict
                           THEN Strategy(p) # "hill_climb" =>
                                    \A e \in LogSet(job[p], 0) : ~Positive(e.result)
                           ELSE JudgedOn(p, Verdict(p).search) /\ Judged(p, Verdict(p))
    BY DEF VerdictsAreEarned
  <2>1. Shape /\ TrialOK(p)
    BY DEF IInv
  <2>2. CASE pc[p] \in {"search", "gate"}
    <3>1. cmd[p].budget \in Nat /\ Len(Log(p)) \in Nat
      BY <2>1, <2>2, BudgetIsNat, LenProperties DEF Over, TrialOK
    <3>2. Len(Log(p)) <= cmd[p].budget - 1
      BY <2>1, <2>2 DEF TrialOK, Searching, AtTheGate
    <3> QED BY <2>2, <3>1, <3>2 DEF Log
  <2>3. CASE pc[p] \in {"publish", "write"}
    <3>1. Concluded(p)
      BY <2>1, <2>3 DEF TrialOK
    <3>2. ~(Verdict(p) = NoVerdict /\ IsVerdict(Verdict(p)))
      BY DEF NoVerdict, IsVerdict
    <3> QED BY <2>3, <3>1, <3>2 DEF Concluded, Log, Climbs, Positives
  <2> QED BY <2>2, <2>3
<1> QED BY <1>1, OfflineInvariance, PTL

(* Every claim names a file that is there whole, and every summary stands   *)
(* on the usage of each of its trials and on whole lineage records.         *)
THEOREM SummariesAlwaysBacked == Spec => [](ClaimsNameFiles /\ SummariesAreBacked)
<1>1. IInv => ClaimsNameFiles /\ SummariesAreBacked
  BY DEF IInv
<1> QED BY <1>1, OfflineInvariance, PTL

(* No step of any process, a crash included, rebinds an identity or changes *)
(* a record that is whole.                                                  *)
THEOREM NothingIsReplaced == Spec => [][NothingReplaced]_vars
<1>1. IInv /\ IInv' /\ [Next]_vars => [NothingReplaced]_vars
  <2> SUFFICES ASSUME IInv, IInv', Next PROVE NothingReplaced
    OBVIOUS
  <2>1. PICK p \in Processes : Step(p) \/ BatteryFails(p) \/ Crash(p)
    BY DEF Next
  <2>2. Grows
    BY <2>1, StepGrows DEF IInv
  <2>3. \A c, d \in claims' : c.kind = d.kind /\ c.id = d.id => c = d
    BY DEF IInv, Bound
  <2> QED BY <2>2, <2>3 DEF NothingReplaced, Grows
<1> QED BY <1>1, OfflineInvariance, PTL DEF Spec
=============================================================================
