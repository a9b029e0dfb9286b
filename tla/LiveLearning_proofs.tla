------------------------- MODULE LiveLearning_proofs ------------------------
(***************************************************************************)
(* PromotionsAreEarned and FieldedIsDurable for any number of processes,   *)
(* matches and failures.                                                   *)
(*                                                                         *)
(* The invariant says how far each match has come: before its score it has *)
(* promoted nothing, so that what its promotion is made of is still its to *)
(* write; afterwards the promotion is staged or a row, sound, behind the   *)
(* score, and nobody writes those parts again.  Matches of other processes *)
(* are other matches, so a step of one of them disturbs nothing of this.   *)
(***************************************************************************)
EXTENDS LiveLearning, FiniteSetTheorems, TLAPS
Events == {"started", "victory", "ended", "scored", "promoted"}
Policies == [spec : Int, gen : Nat]

Early == {"composed", "running"}
Middle == {"ranking", "witnessing", "judging", "creating", "writing", "fielding"}
Late == {"flushing", "failed", "ended"}
Places == Early \cup Middle \cup Late \cup {"closed", "scoring"}

Busy(s) == at[s] # "closed"

Shape ==
    /\ opened \in Nat
    /\ of \in [Servers -> Nat] /\ at \in [Servers -> Places]
    /\ DOMAIN policy = Servers
    /\ scored \in [Servers -> BOOLEAN]
    /\ staged \in [Servers -> Seq(Events)]
    /\ rows \in [Matches -> Seq(Events)]
    /\ DOMAIN started = Matches /\ DOMAIN result = Matches /\ DOMAIN candidate = Matches
    /\ DOMAIN fact = Matches /\ DOMAIN lineage = Matches

(* A match belongs to one process, and those to come are untouched.        *)
Owners ==
    /\ \A s \in Servers : Busy(s) => of[s] \in Matches /\ of[s] <= opened
    /\ \A r, s \in Servers : Busy(r) /\ Busy(s) /\ of[r] = of[s] => r = s
    /\ \A m \in Matches : m > opened => rows[m] = <<>>
    /\ \A s \in Servers : ~Busy(s) => staged[s] = <<>> /\ ~scored[s]

Has(events, e) == \E i \in DOMAIN events : events[i] = e

Unpromoted(s) == of[s] \notin Promoting /\ ~Has(staged[s], "promoted")

(* A policy is fielded only as the genesis or as a durable promotion.      *)
Promoted(m) == [spec |-> fact[m].spec, gen |-> fact[m].gen]
Durable == {Genesis} \cup {Promoted(m) : m \in {n \in Promoting : fact[n].match = n}}

(* What the evaluators must have seen in the match.                        *)
Earned(m) == result[m] # "draw" /\ (lane = "win" => result[m] = "won")

(* A promotion is sound: it extends what its match flew with, its record   *)
(* is whole and says the same, and the match earned it.                    *)
Sound(m) ==
    /\ started[m] \in Policies
    /\ fact[m].match = m /\ fact[m].gen = started[m].gen + 1
    /\ fact[m].spec \in Int /\ fact[m].parent = started[m].spec
    /\ candidate[m] = [spec |-> fact[m].spec, parent |-> fact[m].parent]
    /\ lineage[m] = "whole"
    /\ Earned(m)

(* The score is ahead of every promotion, in the table or in the buffer.   *)
ScoredFirst(s) ==
    \A j \in DOMAIN staged[s] : staged[s][j] = "promoted" =>
        Has(rows[of[s]], "scored") \/ \E i \in DOMAIN staged[s] : i < j /\ staged[s][i] = "scored"

Server(s) ==
    /\ at[s] = "composed" => policy[s] \in Policies \cap Durable
    /\ at[s] # "composed" => started[of[s]] \in Policies
    /\ at[s] \in Early => staged[s] = <<>> /\ ~scored[s] /\ Unpromoted(s)
    /\ at[s] = "scoring" /\ ~scored[s] => Unpromoted(s)
    /\ at[s] \in Middle => scored[s] /\ Unpromoted(s) /\ Has(staged[s], "scored")
    /\ at[s] \in Late => scored[s]
    /\ at[s] \in {"creating", "writing", "fielding"} =>
         /\ \E c \in Int : candidate[of[s]] = [spec |-> c, parent |-> started[of[s]].spec]
         /\ Earned(of[s])
    /\ at[s] = "fielding" => lineage[of[s]] = "whole"
    /\ Has(staged[s], "promoted") => Sound(of[s])
    /\ ScoredFirst(s)

ServersFollow == \A s \in Servers : Busy(s) => Server(s)

Table ==
    \A m \in Promoting :
        /\ Sound(m)
        /\ \E i, j \in DOMAIN rows[m] :
               i < j /\ rows[m][i] = "scored" /\ rows[m][j] = "promoted"

Fielded == \A m \in Matches : started[m] # None => started[m] \in Durable

IInv == Shape /\ Owners /\ ServersFollow /\ Table /\ Fielded

----------------------------------------------------------------------------
(* Sequences of events.                                                    *)

LEMMA PromotingHas == \A m \in Matches : m \in Promoting <=> Has(rows[m], "promoted")
<1> QED  BY DEF Promoting, Range, Has

LEMMA HasAppend ==
    ASSUME NEW q \in Seq(Events), NEW e \in Events, NEW f
    PROVE  /\ Append(q, e) \in Seq(Events)
           /\ Has(Append(q, e), f) <=> Has(q, f) \/ e = f
<1>1. Append(q, e) \in Seq(Events) /\ Len(Append(q, e)) = Len(q) + 1 /\ Len(q) \in Nat
  OBVIOUS
<1>2. /\ DOMAIN q = 1 .. Len(q) /\ DOMAIN Append(q, e) = 1 .. (Len(q) + 1)
      /\ \A i \in 1 .. Len(q) : Append(q, e)[i] = q[i]
      /\ Append(q, e)[Len(q) + 1] = e
  OBVIOUS
<1>3. Has(q, f) \/ e = f => Has(Append(q, e), f)
  BY <1>1, <1>2 DEF Has
<1>4. Has(Append(q, e), f) => Has(q, f) \/ e = f
  <2> SUFFICES ASSUME NEW i \in 1 .. (Len(q) + 1), Append(q, e)[i] = f
               PROVE  Has(q, f) \/ e = f
    BY <1>2 DEF Has
  <2>1. i \in 1 .. Len(q) \/ i = Len(q) + 1
    BY <1>1
  <2> QED  BY <1>2, <2>1 DEF Has
<1> QED  BY <1>1, <1>3, <1>4

LEMMA HasEmpty == \A f : ~Has(<<>>, f)
<1> QED  BY DEF Has

LEMMA HasSingle == \A e, f : Has(<<e>>, f) <=> e = f
<1> QED  BY DEF Has

----------------------------------------------------------------------------
LEMMA InitInv == Init => IInv
<1> SUFFICES ASSUME Init PROVE IInv
  OBVIOUS
<1>1. Shape
  BY DEF Init, Shape, Places, Early, Middle, Late
<1>2. \A s \in Servers : ~Busy(s)
  BY DEF Init, Busy
<1>3. Owners
  BY <1>2 DEF Init, Owners
<1>4. Promoting = {}
  BY PromotingHas, HasEmpty DEF Init, Promoting
<1>5. Table /\ Fielded /\ ServersFollow
  BY <1>2, <1>4 DEF Init, Table, Fielded, ServersFollow
<1> QED  BY <1>1, <1>3, <1>5 DEF IInv

(* A step of one process, within its match.                                *)
Local(s) ==
    /\ Busy(s) /\ UNCHANGED <<lane, opened>>
    /\ \A r \in Servers \ {s} :
          /\ of'[r] = of[r] /\ at'[r] = at[r] /\ policy'[r] = policy[r]
          /\ scored'[r] = scored[r] /\ staged'[r] = staged[r]
    /\ \A m \in Matches \ {of[s]} :
          /\ rows'[m] = rows[m] /\ started'[m] = started[m] /\ result'[m] = result[m]
          /\ candidate'[m] = candidate[m] /\ fact'[m] = fact[m] /\ lineage'[m] = lineage[m]
    /\ \/ of'[s] = of[s] /\ Busy(s)'
       \/ ~Busy(s)' /\ staged'[s] = <<>> /\ ~scored'[s]

(* What a match may still do to its own files.                             *)
Grows(m) ==
    /\ DOMAIN rows[m] \subseteq DOMAIN rows'[m]
    /\ \A i \in DOMAIN rows[m] : rows'[m][i] = rows[m][i]

Kept(m) == /\ started'[m] = started[m] /\ result'[m] = result[m]
           /\ candidate'[m] = candidate[m] /\ fact'[m] = fact[m] /\ lineage'[m] = lineage[m]

LEMMA FilesKept ==
    ASSUME IInv, NEW s \in Servers, Local(s), Grows(of[s]),
           of[s] \in Promoting => Kept(of[s])
    PROVE  /\ \A m \in Matches : Grows(m)
           /\ \A m \in Promoting : m \in Promoting' /\ Kept(m)
<1>1. of[s] \in Matches
  BY DEF Local, IInv, Owners
<1>2. \A m \in Matches : Grows(m)
  BY DEF Local, Grows
<1>3. \A m \in Promoting : Kept(m)
  BY DEF Local, Kept, Promoting
<1>4. \A m \in Promoting : m \in Promoting'
  BY <1>2 DEF Grows, Promoting, Range
<1> QED  BY <1>2, <1>3, <1>4

LEMMA DurableKept ==
    ASSUME \A m \in Promoting : m \in Promoting' /\ Kept(m)
    PROVE  Durable \subseteq Durable'
<1> SUFFICES ASSUME NEW m \in Promoting, fact[m].match = m
             PROVE  Promoted(m) \in Durable'
  BY DEF Durable
<1>1. m \in Promoting' /\ fact'[m] = fact[m]
  BY DEF Kept
<1> QED  BY <1>1 DEF Durable, Promoted

LEMMA OthersKept ==
    ASSUME IInv, NEW s \in Servers, Local(s), Grows(of[s]),
           of[s] \in Promoting => Kept(of[s]),
           NEW r \in Servers, r # s, Busy(r)
    PROVE  Server(r)' /\ of'[r] = of[r] /\ Busy(r)'
<1>1. of'[r] = of[r] /\ at'[r] = at[r] /\ policy'[r] = policy[r]
      /\ scored'[r] = scored[r] /\ staged'[r] = staged[r] /\ lane' = lane
  BY DEF Local
<1>2. of[r] \in Matches \ {of[s]}
  BY DEF IInv, Owners, Local
<1>3. rows'[of[r]] = rows[of[r]] /\ Kept(of[r])
  BY <1>2 DEF Local, Kept
<1>4. Server(r)
  BY DEF IInv, ServersFollow
<1>5. of[r] \in Promoting' => of[r] \in Promoting
  BY <1>2, <1>3 DEF Promoting
<1>6. policy[r] \in Durable => policy'[r] \in Durable'
  <2>1. \A m \in Promoting : m \in Promoting' /\ Kept(m)
    BY FilesKept
  <2> QED  BY <1>1, <2>1, DurableKept
<1>7. Unpromoted(r) => Unpromoted(r)'
  BY <1>1, <1>5 DEF Unpromoted
<1>8. (Earned(of[r]) => Earned(of[r])') /\ (Sound(of[r]) => Sound(of[r])')
  BY <1>1, <1>3 DEF Earned, Sound, Kept
<1>9. ScoredFirst(r)'
  BY <1>1, <1>3, <1>4 DEF Server, ScoredFirst
<1> QED  BY <1>1, <1>3, <1>4, <1>6, <1>7, <1>8, <1>9 DEF Server, Kept, Busy

(* So a step is judged by the process that takes it.                       *)
LEMMA LocalKeeps ==
    ASSUME IInv, NEW s \in Servers, Local(s), Grows(of[s]), Shape',
           of[s] \in Promoting => Kept(of[s]),
           Busy(s)' => Server(s)',
           \A m \in Promoting' \ Promoting :
               /\ Sound(m)'
               /\ \E i, j \in DOMAIN rows'[m] :
                      i < j /\ rows'[m][i] = "scored" /\ rows'[m][j] = "promoted",
           started'[of[s]] = started[of[s]] \/ started'[of[s]] \in Durable
    PROVE  IInv'
<1>0. of[s] \in Matches /\ of[s] <= opened /\ opened' = opened
  BY DEF IInv, Owners, Local
<1>1. \A m \in Promoting : m \in Promoting' /\ Kept(m)
  BY FilesKept
<1>2. Owners'
  <2>1. \A r \in Servers : Busy(r)' => Busy(r) /\ of'[r] = of[r]
    BY DEF Local, Busy
  <2>2. \A m \in Matches : m > opened' => rows'[m] = <<>>
    <3> SUFFICES ASSUME NEW m \in Matches, m > opened PROVE rows'[m] = <<>>
      BY <1>0
    <3>1. m # of[s]
      BY <1>0, LearningAssumption DEF IInv, Shape
    <3> QED  BY <3>1 DEF IInv, Owners, Local
  <2>3. \A r \in Servers : ~Busy(r)' => staged'[r] = <<>> /\ ~scored'[r]
    BY DEF Local, Busy, IInv, Owners
  <2> QED  BY <1>0, <2>1, <2>2, <2>3 DEF IInv, Owners
<1>3. ServersFollow'
  BY OthersKept DEF ServersFollow, Local, Busy
<1>4. Table'
  <2> SUFFICES ASSUME NEW m \in Promoting'
               PROVE  /\ Sound(m)'
                      /\ \E i, j \in DOMAIN rows'[m] :
                            i < j /\ rows'[m][i] = "scored" /\ rows'[m][j] = "promoted"
    BY DEF Table
  <2>1. CASE m \in Promoting
    <3>1. Kept(m) /\ Grows(m) /\ lane' = lane
      BY <2>1, FilesKept DEF Promoting, Local
    <3>2. Sound(m)'
      BY <2>1, <3>1 DEF IInv, Table, Sound, Earned, Kept
    <3>3. \E i, j \in DOMAIN rows[m] :
             i < j /\ rows[m][i] = "scored" /\ rows[m][j] = "promoted"
      BY <2>1 DEF IInv, Table
    <3> QED  BY <3>1, <3>2, <3>3 DEF Grows
  <2>2. CASE m \notin Promoting
    BY <2>2
  <2> QED  BY <2>1, <2>2
<1>5. Fielded'
  <2> SUFFICES ASSUME NEW m \in Matches, started'[m] # None
               PROVE  started'[m] \in Durable
    BY <1>1, DurableKept DEF Fielded
  <2>1. CASE started'[m] = started[m]
    BY <2>1 DEF IInv, Fielded
  <2>2. CASE started'[m] # started[m]
    <3>1. m = of[s]
      BY <2>2 DEF Local
    <3> QED  BY <2>2, <3>1
  <2> QED  BY <2>1, <2>2
<1> QED  BY <1>2, <1>3, <1>4, <1>5 DEF IInv

----------------------------------------------------------------------------
(* The steps of a match that is not closed by them.                        *)

Moves(s, p, q, b) ==
    /\ UNCHANGED <<lane, opened, of>>
    /\ at' = [at EXCEPT ![s] = p] /\ staged' = [staged EXCEPT ![s] = q]
    /\ scored' = [scored EXCEPT ![s] = b]
    /\ DOMAIN policy' = Servers /\ \A r \in Servers \ {s} : policy'[r] = policy[r]

Writes(m) ==
    /\ DOMAIN started' = Matches /\ DOMAIN result' = Matches /\ DOMAIN candidate' = Matches
    /\ DOMAIN fact' = Matches /\ DOMAIN lineage' = Matches
    /\ \A n \in Matches \ {m} : Kept(n)

Inserts(m, e) == rows' = [rows EXCEPT ![m] = Append(@, e)]

LEMMA MovesHere ==
    ASSUME IInv, NEW s \in Servers, NEW p, NEW q, NEW b, Moves(s, p, q, b)
    PROVE  at'[s] = p /\ staged'[s] = q /\ scored'[s] = b /\ of' = of /\ lane' = lane
<1> QED  BY DEF IInv, Shape, Moves

LEMMA MovesKeep ==
    ASSUME IInv, NEW s \in Servers, Busy(s),
           NEW p \in Places \ {"closed"}, NEW q \in Seq(Events), NEW b \in BOOLEAN,
           Moves(s, p, q, b), Writes(of[s]),
           rows' = rows \/ \E e \in Events : Inserts(of[s], e),
           of[s] \in Promoting => Kept(of[s]),
           Server(s)',
           \A m \in Promoting' \ Promoting :
               /\ Sound(m)'
               /\ \E i, j \in DOMAIN rows'[m] :
                      i < j /\ rows'[m][i] = "scored" /\ rows'[m][j] = "promoted",
           started'[of[s]] = started[of[s]] \/ started'[of[s]] \in Durable
    PROVE  IInv'
<1>1. of[s] \in Matches /\ Shape
  BY DEF IInv, Owners
<1>2. /\ rows' \in [Matches -> Seq(Events)] /\ Grows(of[s])
      /\ \A m \in Matches \ {of[s]} : rows'[m] = rows[m]
  <2>1. CASE rows' = rows
    BY <1>1, <2>1 DEF Shape, Grows
  <2>2. ASSUME NEW e \in Events, Inserts(of[s], e)
        PROVE  /\ rows' \in [Matches -> Seq(Events)] /\ Grows(of[s])
               /\ \A m \in Matches \ {of[s]} : rows'[m] = rows[m]
    <3>1. rows[of[s]] \in Seq(Events)
      BY <1>1 DEF Shape
    <3>2. Append(rows[of[s]], e) \in Seq(Events)
      BY <3>1
    <3>3. /\ DOMAIN rows[of[s]] \subseteq DOMAIN Append(rows[of[s]], e)
          /\ \A i \in DOMAIN rows[of[s]] : Append(rows[of[s]], e)[i] = rows[of[s]][i]
      BY <3>1
    <3> QED  BY <1>1, <2>2, <3>2, <3>3 DEF Shape, Inserts, Grows
  <2> QED  BY <2>1, <2>2
<1>3. Shape'
  BY <1>1, <1>2 DEF Shape, Moves, Writes
<1>4. Local(s)
  BY <1>1, <1>2 DEF Shape, Moves, Writes, Kept, Local, Busy
<1> QED  BY <1>2, <1>3, <1>4, LocalKeeps

(* Most steps leave the table and what a promotion is made of alone.       *)
Promotes == UNCHANGED <<rows, started, result, candidate, fact, lineage>>

LEMMA QuietKeeps ==
    ASSUME IInv, NEW s \in Servers, Busy(s), Promotes, policy' = policy,
           NEW p \in Places \ {"closed"}, NEW q \in Seq(Events), NEW b \in BOOLEAN,
           Moves(s, p, q, b), Server(s)'
    PROVE  IInv'
<1>1. Writes(of[s]) /\ Kept(of[s])
  BY DEF IInv, Shape, Promotes, Writes, Kept
<1>2. Promoting' = Promoting
  BY DEF Promotes, Promoting
<1> QED  BY <1>1, <1>2, MovesKeep DEF Promotes, Kept

LEMMA QuietHere ==
    ASSUME IInv, NEW s \in Servers, Busy(s), Promotes
    PROVE  /\ Server(s) /\ Durable' = Durable /\ Promoting' = Promoting
           /\ of[s] \in Matches /\ staged[s] \in Seq(Events) /\ scored[s] \in BOOLEAN
<1> QED  BY DEF IInv, Shape, Owners, ServersFollow, Promotes, Promoting, Durable, Promoted

LEMMA ScoreKeeps ==
    ASSUME IInv, NEW s \in Servers, Score(s)
    PROVE  IInv'
<1>1. Busy(s) /\ Promotes /\ policy' = policy /\ at[s] = "scoring"
  BY DEF Score, Busy, Promotes, files
<1>2. /\ Server(s) /\ Promoting' = Promoting
      /\ staged[s] \in Seq(Events) /\ scored[s] \in BOOLEAN
  BY <1>1, QuietHere
<1>3. CASE Goes(s, "flushing") /\ UNCHANGED staged
  <2>1. Moves(s, "flushing", staged[s], TRUE)
    BY <1>3 DEF Score, Moves, Goes, IInv, Shape
  <2>2. at'[s] = "flushing" /\ staged' = staged /\ scored'[s] = TRUE /\ of' = of /\ lane' = lane
    BY <1>3, <2>1, MovesHere
  <2>3. Server(s)'
    BY <1>1, <1>2, <2>2 DEF Server, Early, Middle, Late, Promotes, Sound, Earned, ScoredFirst
  <2> QED  BY <1>1, <1>2, <2>1, <2>3, QuietKeeps DEF Places, Late
<1>4. CASE ~scored[s] /\ Stages(s, "scored") /\ Goes(s, "ranking")
  <2> DEFINE q == Append(staged[s], "scored")
  <2>1. Moves(s, "ranking", q, TRUE)
    BY <1>4 DEF Score, Moves, Goes, Stages, IInv, Shape
  <2>2. at'[s] = "ranking" /\ staged'[s] = q /\ scored'[s] = TRUE /\ of' = of /\ lane' = lane
    BY <2>1, MovesHere
  <2>3. q \in Seq(Events) /\ Has(q, "scored") /\ ~Has(q, "promoted")
    BY <1>1, <1>2, <1>4, HasAppend DEF Server, Unpromoted, Events
  <2>4. Server(s)'
    <3> HIDE DEF q
    <3> QED  BY <1>1, <1>2, <1>4, <2>2, <2>3
             DEF Server, Unpromoted, Early, Middle, Late, Promotes, ScoredFirst, Has
  <2> QED  BY <1>1, <2>1, <2>3, <2>4, QuietKeeps DEF Places, Middle
<1> QED  BY <1>3, <1>4 DEF Score

LEMMA RankKeeps ==
    ASSUME IInv, NEW s \in Servers, Rank(s) \/ Witness(s)
    PROVE  IInv'
<1>1. Busy(s) /\ Promotes /\ UNCHANGED <<policy, scored, staged>> /\ at[s] \in Middle
  BY DEF Rank, Witness, Busy, Promotes, Middle
<1>2. /\ Server(s) /\ Promoting' = Promoting
      /\ staged[s] \in Seq(Events) /\ scored[s] \in BOOLEAN
  BY <1>1, QuietHere
<1>3. PICK p \in {"witnessing", "judging", "flushing"} : Goes(s, p)
  BY DEF Rank, Witness
<1>4. Moves(s, p, staged[s], scored[s])
  BY <1>1, <1>3 DEF Rank, Witness, Moves, Goes, IInv, Shape
<1>5. at'[s] = p /\ UNCHANGED <<staged, scored, of, lane>>
  BY <1>1, <1>4, MovesHere
<1>6. Server(s)'
  BY <1>1, <1>2, <1>3, <1>5
  DEF Server, Unpromoted, Early, Middle, Late, Promotes, Sound, Earned, ScoredFirst
<1> QED  BY <1>1, <1>2, <1>4, <1>6, QuietKeeps DEF Places, Middle, Late

(* Until it is fielded, a match writes what no promotion cites yet.        *)
LEMMA EarlyKeeps ==
    ASSUME IInv, NEW s \in Servers, Busy(s), Unpromoted(s), UNCHANGED <<rows, policy>>,
           NEW p \in Places \ {"closed"}, NEW q \in Seq(Events), NEW b \in BOOLEAN,
           Moves(s, p, q, b), Writes(of[s]), started' = started, Server(s)'
    PROVE  IInv'
<1>1. Promoting' = Promoting /\ of[s] \notin Promoting
  BY DEF Promoting, Unpromoted
<1> QED  BY <1>1, MovesKeep

LEMMA EndKeeps ==
    ASSUME IInv, NEW s \in Servers, End(s)
    PROVE  IInv'
<1>1. /\ Busy(s) /\ at[s] = "running" /\ of[s] \in Matches
      /\ UNCHANGED <<lane, rows, started, candidate, fact, lineage, policy, scored, of>>
  BY DEF End, Busy, IInv, Owners, files
<1>2. Server(s) /\ ~scored[s] /\ Unpromoted(s) /\ started[of[s]] \in Policies
  BY <1>1 DEF IInv, ServersFollow, Server, Early
<1>3. PICK e \in {"ended", "victory"} : staged' = [staged EXCEPT ![s] = <<e>>]
  BY DEF End
<1>4. <<e>> \in Seq(Events) /\ ~Has(<<e>>, "promoted")
  BY HasSingle DEF Events
<1>5. Moves(s, "scoring", <<e>>, scored[s]) /\ scored[s] \in BOOLEAN
  BY <1>3 DEF End, Moves, Goes, IInv, Shape
<1>6. at'[s] = "scoring" /\ staged'[s] = <<e>>
  BY <1>5, MovesHere
<1>7. Writes(of[s])
  BY <1>1 DEF IInv, Shape, End, Writes, Kept
<1>8. Promoting' = Promoting
  BY <1>1 DEF Promoting
<1>9. Server(s)'
  <2> DEFINE q == <<e>>
  <2>1. staged'[s] = q /\ ~Has(q, "promoted")
    BY <1>4, <1>6
  <2> HIDE DEF q
  <2> QED  BY <1>1, <1>2, <1>6, <1>8, <2>1
           DEF Server, Unpromoted, Early, Middle, Late, ScoredFirst, Has
<1> QED  BY <1>1, <1>2, <1>4, <1>5, <1>7, <1>9, EarlyKeeps DEF Places

LEMMA JudgeKeeps ==
    ASSUME IInv, NEW s \in Servers, Judge(s)
    PROVE  IInv'
<1>1. /\ Busy(s) /\ at[s] = "judging" /\ of[s] \in Matches
      /\ UNCHANGED <<lane, rows, started, result, fact, lineage, policy, scored, staged, of>>
  BY DEF Judge, Busy, IInv, Owners
<1>2. /\ Server(s) /\ scored[s] /\ Unpromoted(s) /\ Has(staged[s], "scored")
      /\ started[of[s]] \in Policies /\ staged[s] \in Seq(Events)
  BY <1>1 DEF IInv, Shape, ServersFollow, Server, Middle
<1>3. Promoting' = Promoting /\ ~Has(staged[s], "promoted")
  BY <1>1, <1>2 DEF Promoting, Unpromoted
<1>4. Writes(of[s])
  BY <1>1 DEF IInv, Shape, Judge, Writes, Kept
<1>5. PICK p \in {"flushing", "creating"} : Goes(s, p)
  BY DEF Judge, Contain
<1>6. Moves(s, p, staged[s], scored[s])
  BY <1>1, <1>5 DEF Moves, Goes, Judge, IInv, Shape
<1>7. at'[s] = p
  BY <1>6, MovesHere
<1>8. p = "creating" =>
        /\ \E c \in Int : candidate'[of[s]] = [spec |-> c, parent |-> started[of[s]].spec]
        /\ Earned(of[s])
  <2> SUFFICES ASSUME p = "creating"
               PROVE  /\ \E c \in Int :
                         candidate'[of[s]] = [spec |-> c, parent |-> started[of[s]].spec]
                      /\ Earned(of[s])
    OBVIOUS
  <2>1. PICK c \in Neighbours(of[s]) : candidate' =
            [candidate EXCEPT ![of[s]] = [spec |-> c, parent |-> started[of[s]].spec]]
    BY <1>1, <1>7 DEF Judge, Contain, Goes, IInv, Shape
  <2>2. c \in Int /\ Direction(result[of[s]]) # {}
    BY LearningAssumption DEF Neighbours
  <2>3. Earned(of[s])
    BY <2>2 DEF Direction, Earned
  <2> QED  BY <1>1, <2>1, <2>2, <2>3 DEF IInv, Shape
<1>9. Server(s)'
  BY <1>1, <1>2, <1>3, <1>5, <1>7, <1>8
  DEF Server, Unpromoted, Early, Middle, Late, ScoredFirst, Has, Earned
<1> QED  BY <1>1, <1>2, <1>4, <1>5, <1>6, <1>9, EarlyKeeps DEF Places, Middle, Late

LEMMA RecordKeeps ==
    ASSUME IInv, NEW s \in Servers, CreateRecord(s) \/ WriteRecord(s)
    PROVE  IInv'
<1>1. /\ Busy(s) /\ at[s] \in {"creating", "writing"} /\ of[s] \in Matches
      /\ UNCHANGED <<lane, rows, started, result, candidate, fact, policy, scored, staged, of>>
  BY DEF CreateRecord, WriteRecord, Busy, IInv, Owners
<1>2. /\ Server(s) /\ scored[s] /\ Unpromoted(s) /\ Has(staged[s], "scored")
      /\ started[of[s]] \in Policies /\ staged[s] \in Seq(Events)
  BY <1>1 DEF IInv, Shape, ServersFollow, Server, Middle
<1>3. Promoting' = Promoting /\ ~Has(staged[s], "promoted")
  BY <1>1, <1>2 DEF Promoting, Unpromoted
<1>4. Writes(of[s])
  BY <1>1 DEF IInv, Shape, CreateRecord, WriteRecord, Writes, Kept
<1>5. PICK p \in {"flushing", "writing", "fielding"} : Goes(s, p)
  BY DEF CreateRecord, WriteRecord, Contain
<1>6. Moves(s, p, staged[s], scored[s])
  BY <1>1, <1>5 DEF Moves, Goes, CreateRecord, WriteRecord, IInv, Shape
<1>7. at'[s] = p
  BY <1>6, MovesHere
<1>8. p = "fielding" => lineage'[of[s]] = "whole"
  BY <1>1, <1>7 DEF CreateRecord, WriteRecord, Contain, Goes, IInv, Shape
<1>9. Server(s)'
  BY <1>1, <1>2, <1>3, <1>5, <1>7, <1>8
  DEF Server, Unpromoted, Early, Middle, Late, ScoredFirst, Has, Earned
<1> QED  BY <1>1, <1>2, <1>4, <1>5, <1>6, <1>9, EarlyKeeps DEF Places, Middle, Late

LEMMA Inserted ==
    ASSUME IInv, NEW m \in Matches, NEW e \in Events, Inserts(m, e)
    PROVE  /\ \A f : Has(rows'[m], f) <=> Has(rows[m], f) \/ e = f
           /\ \A n \in Promoting' \ Promoting : n = m /\ e = "promoted"
           /\ Promoting \subseteq Promoting'
<1>1. rows \in [Matches -> Seq(Events)]
  BY DEF IInv, Shape
<1>2. /\ rows'[m] = Append(rows[m], e) /\ rows[m] \in Seq(Events)
      /\ \A n \in Matches \ {m} : rows'[n] = rows[n]
  BY <1>1 DEF Inserts
<1>3. \A f : Has(rows'[m], f) <=> Has(rows[m], f) \/ e = f
  BY <1>2, HasAppend
<1>4. \A n \in Matches : n \in Promoting' <=> Has(rows'[n], "promoted")
  BY DEF Promoting, Range, Has
<1>5. \A n \in Matches : n \in Promoting' <=> n \in Promoting \/ (n = m /\ e = "promoted")
  <2> SUFFICES ASSUME NEW n \in Matches
               PROVE  n \in Promoting' <=> n \in Promoting \/ (n = m /\ e = "promoted")
    OBVIOUS
  <2>1. n \in Promoting <=> Has(rows[n], "promoted")
    BY PromotingHas
  <2> QED  BY <1>2, <1>3, <1>4, <2>1
<1> QED  BY <1>3, <1>5 DEF Promoting

LEMMA StartKeeps ==
    ASSUME IInv, NEW s \in Servers, Start(s)
    PROVE  IInv'
<1>1. /\ Busy(s) /\ at[s] = "composed" /\ of[s] \in Matches
      /\ UNCHANGED <<lane, result, candidate, fact, lineage, policy, scored, staged, of>>
      /\ Inserts(of[s], "started") /\ "started" \in Events
  BY DEF Start, Busy, IInv, Owners, Inserts, Events
<1>2. /\ Server(s) /\ ~scored[s] /\ Unpromoted(s) /\ staged[s] = <<>>
      /\ policy[s] \in Policies \cap Durable /\ staged[s] \in Seq(Events)
  BY <1>1 DEF IInv, Shape, ServersFollow, Server, Early
<1>3. Promoting' = Promoting /\ of[s] \notin Promoting /\ ~Has(staged[s], "promoted")
  BY <1>1, <1>2, Inserted DEF Unpromoted
<1>4. Writes(of[s]) /\ started'[of[s]] = policy[s]
  BY <1>1 DEF IInv, Shape, Start, Writes, Kept
<1>5. Moves(s, "running", staged[s], scored[s]) /\ scored[s] \in BOOLEAN
  BY <1>1 DEF Moves, Start, IInv, Shape
<1>6. at'[s] = "running"
  BY <1>5, MovesHere
<1>7. Server(s)'
  BY <1>1, <1>2, <1>3, <1>4, <1>6
  DEF Server, Unpromoted, Early, Middle, Late, ScoredFirst, Has
<1> QED  BY <1>1, <1>2, <1>3, <1>4, <1>5, <1>7, MovesKeep DEF Places, Early

LEMMA FieldKeeps ==
    ASSUME IInv, NEW s \in Servers, Field(s)
    PROVE  IInv'
<1>1. /\ Busy(s) /\ at[s] = "fielding" /\ of[s] \in Matches
      /\ UNCHANGED <<lane, rows, started, result, candidate, lineage, scored, of>>
  BY DEF Field, Busy, IInv, Owners
<1>2. /\ Server(s) /\ scored[s] /\ Unpromoted(s) /\ Has(staged[s], "scored")
      /\ started[of[s]] \in Policies /\ staged[s] \in Seq(Events)
      /\ lineage[of[s]] = "whole" /\ Earned(of[s])
  BY <1>1 DEF IInv, Shape, ServersFollow, Server, Middle
<1>3. PICK c \in Int : candidate[of[s]] = [spec |-> c, parent |-> started[of[s]].spec]
  BY <1>1, <1>2 DEF Server
<1>4. Promoting' = Promoting /\ of[s] \notin Promoting
  BY <1>1, <1>2 DEF Promoting, Unpromoted
<1>5. Writes(of[s])
  BY <1>1 DEF IInv, Shape, Field, Writes, Kept
<1> DEFINE q == Append(staged[s], "promoted")
<1>6. Moves(s, "flushing", q, scored[s]) /\ scored[s] \in BOOLEAN
  BY <1>1 DEF Moves, Goes, Stages, Field, IInv, Shape
<1>7. at'[s] = "flushing" /\ staged'[s] = q
  BY <1>6, MovesHere
<1>8. fact'[of[s]] = [match |-> of[s], gen |-> started[of[s]].gen + 1, spec |-> c,
                      parent |-> started[of[s]].spec]
  BY <1>1, <1>3 DEF Field, IInv, Shape
<1>9. Sound(of[s])'
  BY <1>1, <1>2, <1>3, <1>8 DEF Sound, Earned
<1>10. /\ q \in Seq(Events)
       /\ \A j \in DOMAIN q : q[j] = "promoted" => \E i \in DOMAIN q : i < j /\ q[i] = "scored"
  <2>1. /\ DOMAIN staged[s] = 1 .. Len(staged[s]) /\ Len(staged[s]) \in Nat
        /\ DOMAIN q = 1 .. (Len(staged[s]) + 1)
        /\ \A i \in 1 .. Len(staged[s]) : q[i] = staged[s][i]
        /\ q[Len(staged[s]) + 1] = "promoted"
    BY <1>2 DEF Events
  <2>2. PICK i \in 1 .. Len(staged[s]) : staged[s][i] = "scored"
    BY <1>2, <2>1 DEF Has
  <2>3. \A j \in 1 .. Len(staged[s]) : staged[s][j] # "promoted"
    BY <1>2, <2>1 DEF Has, Unpromoted
  <2>4. q \in Seq(Events)
    BY <1>2 DEF Events
  <2> HIDE DEF q
  <2>5. ASSUME NEW j \in DOMAIN q, q[j] = "promoted" PROVE i < j
    BY <2>1, <2>3, <2>5
  <2> QED  BY <2>1, <2>2, <2>4, <2>5
<1> HIDE DEF q
<1>11. Server(s)'
  BY <1>1, <1>2, <1>7, <1>9, <1>10 DEF Server, Early, Middle, Late, ScoredFirst
<1> QED  BY <1>1, <1>4, <1>5, <1>6, <1>10, <1>11, MovesKeep DEF Places, Late

LEMMA InsertKeeps ==
    ASSUME IInv, NEW s \in Servers, Insert(s)
    PROVE  IInv'
<1>1. /\ Busy(s) /\ at[s] = "flushing" /\ of[s] \in Matches
      /\ UNCHANGED <<lane, opened, started, result, candidate, fact, lineage, policy>>
      /\ UNCHANGED <<scored, of>>
  BY DEF Insert, Busy, IInv, Owners
<1>2. /\ Server(s) /\ scored[s] /\ scored[s] \in BOOLEAN
      /\ started[of[s]] \in Policies /\ staged[s] \in Seq(Events)
  BY <1>1 DEF IInv, Shape, ServersFollow, Server, Late
<1>3. Writes(of[s]) /\ Kept(of[s])
  BY <1>1 DEF IInv, Shape, Writes, Kept
<1>4. CASE UNCHANGED <<rows, staged>> /\ Goes(s, "failed")
  <2>1. Promotes /\ Promoting' = Promoting
    BY <1>1, <1>4 DEF Promotes, Promoting
  <2>2. Moves(s, "failed", staged[s], scored[s])
    BY <1>1, <1>4 DEF Moves, Goes, IInv, Shape
  <2>3. at'[s] = "failed"
    BY <2>2, MovesHere
  <2>4. Server(s)'
    BY <1>1, <1>2, <1>4, <2>1, <2>3
    DEF Server, Early, Middle, Late, Sound, Earned, ScoredFirst
  <2> QED  BY <1>1, <1>2, <2>1, <2>2, <2>4, QuietKeeps DEF Places, Late
<1>5. CASE /\ Inserts(of[s], Head(staged[s])) /\ staged' = [staged EXCEPT ![s] = Tail(@)]
           /\ at' = at /\ staged[s] # <<>>
  <2> DEFINE e == Head(staged[s])
             q == Tail(staged[s])
  <2>1. /\ e \in Events /\ q \in Seq(Events) /\ 1 \in DOMAIN staged[s] /\ staged[s][1] = e
        /\ \A j \in DOMAIN q : j \in Nat /\ j + 1 \in DOMAIN staged[s] /\ q[j] = staged[s][j + 1]
        /\ \A i \in DOMAIN staged[s] : i \in Nat /\ i # 0
        /\ \A i \in DOMAIN staged[s] : i = 1 \/ (i - 1 \in DOMAIN q /\ q[i - 1] = staged[s][i])
    BY <1>2, <1>5 DEF Events
  <2>2. Moves(s, "flushing", q, scored[s])
    BY <1>1, <1>5 DEF Moves, IInv, Shape
  <2>3. at'[s] = "flushing" /\ staged'[s] = q
    BY <2>2, MovesHere
  <2>4. Inserts(of[s], e)
    BY <1>5
  <2> HIDE DEF e, q
  <2>5. /\ \A f : Has(rows'[of[s]], f) <=> Has(rows[of[s]], f) \/ e = f
        /\ \A n \in Promoting' \ Promoting : n = of[s] /\ e = "promoted"
    BY <1>1, <2>1, <2>4, Inserted
  <2>6. Has(staged[s], "promoted") => Sound(of[s])'
    BY <1>1, <1>2 DEF Server, Sound, Earned
  <2>7. Has(q, "promoted") => Has(staged[s], "promoted")
    BY <2>1 DEF Has
  <2>8. \A j \in DOMAIN q : q[j] = "promoted" =>
            Has(rows'[of[s]], "scored") \/ \E i \in DOMAIN q : i < j /\ q[i] = "scored"
    <3> SUFFICES ASSUME NEW j \in DOMAIN q, q[j] = "promoted", e # "scored",
                        ~Has(rows[of[s]], "scored")
                 PROVE  \E i \in DOMAIN q : i < j /\ q[i] = "scored"
      BY <2>5
    <3>1. PICK i \in DOMAIN staged[s] : i < j + 1 /\ staged[s][i] = "scored"
      BY <1>2, <2>1 DEF Server, ScoredFirst
    <3>2. i - 1 \in DOMAIN q /\ q[i - 1] = "scored" /\ i - 1 < j
      BY <2>1, <3>1
    <3> QED  BY <3>2
  <2>9. Server(s)'
    BY <1>1, <1>2, <2>3, <2>6, <2>7, <2>8 DEF Server, Early, Middle, Late, ScoredFirst
  <2>10. ASSUME NEW m \in Promoting' \ Promoting
         PROVE  /\ Sound(m)'
                /\ \E i, j \in DOMAIN rows'[m] :
                       i < j /\ rows'[m][i] = "scored" /\ rows'[m][j] = "promoted"
    <3>0. m = of[s] /\ e = "promoted"
      BY <2>5
    <3>1. Has(staged[s], "promoted") /\ Has(rows[of[s]], "scored")
      <4>1. staged[s][1] = "promoted" /\ Has(staged[s], "promoted")
        BY <2>1, <3>0 DEF Has
      <4>2. \A i \in DOMAIN staged[s] : ~(i < 1)
        BY <2>1
      <4>3. Has(rows[of[s]], "scored") \/ \E i \in DOMAIN staged[s] : i < 1
        BY <1>2, <2>1, <4>1 DEF Server, ScoredFirst
      <4> QED  BY <4>1, <4>2, <4>3
    <3>2. rows[of[s]] \in Seq(Events) /\ rows'[of[s]] = Append(rows[of[s]], "promoted")
      BY <1>1, <2>4, <3>0 DEF Inserts, IInv, Shape
    <3>3. PICK i \in DOMAIN rows[of[s]] : rows[of[s]][i] = "scored"
      BY <3>1 DEF Has
    <3>4. /\ i \in DOMAIN rows'[of[s]] /\ rows'[of[s]][i] = "scored"
          /\ Len(rows[of[s]]) + 1 \in DOMAIN rows'[of[s]] /\ i < Len(rows[of[s]]) + 1
          /\ rows'[of[s]][Len(rows[of[s]]) + 1] = "promoted"
      BY <3>2, <3>3 DEF Events
    <3>5. Sound(m)'
      BY <1>1, <1>2, <3>0, <3>1 DEF Server, Sound, Earned
    <3> QED  BY <3>0, <3>4, <3>5
  <2> QED  BY <1>1, <1>2, <1>3, <2>1, <2>2, <2>4, <2>9, <2>10, MovesKeep
           DEF Places, Late, Kept
<1> QED  BY <1>4, <1>5 DEF Insert, Inserts

LEMMA ReturnKeeps ==
    ASSUME IInv, NEW s \in Servers, Return(s)
    PROVE  IInv'
<1>1. /\ Busy(s) /\ at[s] = "flushing" /\ of[s] \in Matches /\ Promotes
      /\ UNCHANGED <<lane, policy, scored, of>> /\ staged[s] = <<>>
  BY DEF Return, Busy, IInv, Owners, Promotes, files
<1>2. /\ Server(s) /\ scored[s] /\ scored[s] \in BOOLEAN
      /\ started[of[s]] \in Policies /\ staged[s] \in Seq(Events)
  BY <1>1 DEF IInv, Shape, ServersFollow, Server, Late
<1>3. \E p \in {"scoring", "failed", "ended"}, q \in Seq(Events) :
          /\ Goes(s, p) /\ staged' = [staged EXCEPT ![s] = q] /\ ~Has(q, "promoted")
  <2>1. "ended" \in Events /\ ~Has(staged[s], "promoted")
    BY <1>1, HasEmpty DEF Events
  <2>2. /\ Append(staged[s], "ended") \in Seq(Events)
        /\ ~Has(Append(staged[s], "ended"), "promoted")
    BY <1>2, <2>1, HasAppend
  <2>3. CASE Stages(s, "ended") /\ Goes(s, "scoring")
    BY <2>2, <2>3 DEF Stages
  <2>4. CASE staged' = staged /\ \E p \in {"failed", "ended"} : Goes(s, p)
    <3>1. staged' = [staged EXCEPT ![s] = staged[s]]
      BY <2>4 DEF IInv, Shape
    <3> QED  BY <1>2, <2>1, <2>4, <3>1
  <2> QED  BY <2>3, <2>4 DEF Return
<1>4. PICK p \in {"scoring", "failed", "ended"}, q \in Seq(Events) :
          /\ Goes(s, p) /\ staged' = [staged EXCEPT ![s] = q] /\ ~Has(q, "promoted")
  BY <1>3
<1>5. Moves(s, p, q, scored[s])
  BY <1>4 DEF Return, Moves, Goes, IInv, Shape
<1>6. at'[s] = p /\ staged'[s] = q
  BY <1>5, MovesHere
<1>7. Server(s)'
  BY <1>1, <1>2, <1>4, <1>6 DEF Server, Early, Middle, Late, ScoredFirst, Has, Promotes
<1> QED  BY <1>1, <1>2, <1>4, <1>5, <1>7, QuietKeeps DEF Places, Late

LEMMA ForgetsKeeps ==
    ASSUME IInv, NEW s \in Servers, Close(s) \/ Crash(s)
    PROVE  IInv'
<1>1. Busy(s) /\ Forgets(s) /\ Promotes /\ UNCHANGED <<lane, opened, policy>>
  BY DEF Close, Crash, Busy, Promotes, files
<1>2. Shape'
  <2>1. <<>> \in Seq(Events)
    OBVIOUS
  <2> QED  BY <1>1, <2>1 DEF Forgets, Goes, IInv, Shape, Places, Promotes
<1>3. ~Busy(s)' /\ staged'[s] = <<>> /\ ~scored'[s]
  BY <1>1 DEF Forgets, Goes, IInv, Shape, Busy
<1>4. Local(s)
  BY <1>1, <1>3 DEF Local, Forgets, Goes, IInv, Shape, Promotes
<1>5. Grows(of[s]) /\ Kept(of[s]) /\ Promoting' = Promoting
  BY <1>1 DEF Promotes, Grows, Kept, Promoting
<1> QED  BY <1>1, <1>2, <1>3, <1>4, <1>5, LocalKeeps DEF Kept

----------------------------------------------------------------------------
(* Composition resolves the chain to a promotion that is in the table.     *)
LEMMA PromotionsFinite == ASSUME IInv PROVE IsFiniteSet(Promotions)
<1>1. IsFiniteSet(Promoting)
  <2>1. Promoting \subseteq 1 .. opened
    <3> SUFFICES ASSUME NEW m \in Promoting PROVE m \in 1 .. opened
      OBVIOUS
    <3>1. m \in Matches /\ m \in Nat \ {0} /\ opened \in Nat /\ rows[m] # <<>>
      BY LearningAssumption, PromotingHas, HasEmpty DEF Promoting, IInv, Shape
    <3> QED  BY <3>1 DEF IInv, Owners
  <2>2. IsFiniteSet(1 .. opened)
    BY FS_Interval DEF IInv, Shape
  <2> QED  BY <2>1, <2>2, FS_Subset
<1> DEFINE f == [m \in Promoting |-> fact[m]]
<1>2. f \in Surjection(Promoting, Promotions)
  BY DEF Surjection, Promotions
<1> QED  BY <1>1, <1>2, FS_Surjection

LEMMA TipResolved ==
    ASSUME IInv, Promotions # {}, {p.gen : p \in Promotions} = 1 .. Cardinality(Promotions)
    PROVE  \E m \in Promoting : Tip = fact[m]
<1> DEFINE top == Cardinality(Promotions)
<1>1. top \in Nat /\ top # 0
  BY PromotionsFinite, FS_CardinalityType, FS_EmptySet
<1>2. {p.gen : p \in Promotions} = 1 .. top
  OBVIOUS
<1> HIDE DEF top
<1>3. PICK p \in Promotions : p.gen = top
  BY <1>1, <1>2
<1>4. \A q \in Promotions : q.gen <= p.gen
  <2> SUFFICES ASSUME NEW q \in Promotions PROVE q.gen <= p.gen
    OBVIOUS
  <2>1. q.gen \in 1 .. top
    BY <1>2
  <2> QED  BY <1>1, <1>3, <2>1
<1>5. Tip \in Promotions
  BY <1>4 DEF Tip
<1> QED  BY <1>5 DEF Promotions

LEMMA RehydratedDurable ==
    ASSUME IInv, Resolves
    PROVE  Rehydrated \in Policies \cap Durable
<1>1. CASE Promotions = {}
  BY <1>1 DEF Rehydrated, Genesis, Policies, Durable
<1>2. CASE Promotions # {}
  <2>1. PICK m \in Promoting : Tip = fact[m]
    BY <1>2, TipResolved DEF Resolves
  <2>2. Sound(m)
    BY DEF IInv, Table
  <2>3. Rehydrated = Promoted(m)
    BY <1>2, <2>1 DEF Rehydrated, Promoted
  <2>4. fact[m].spec \in Int /\ fact[m].gen \in Nat /\ fact[m].match = m
    BY <2>2 DEF Sound, Policies
  <2> QED  BY <2>3, <2>4 DEF Promoted, Policies, Durable
<1> QED  BY <1>1, <1>2

LEMMA ComposeKeeps ==
    ASSUME IInv, NEW s \in Servers, Compose(s)
    PROVE  IInv'
<1>1. /\ ~Busy(s) /\ Promotes /\ UNCHANGED <<lane, scored, staged>>
      /\ opened' = opened + 1 /\ opened + 1 \in Matches
      /\ of' = [of EXCEPT ![s] = opened + 1] /\ at' = [at EXCEPT ![s] = "composed"]
      /\ policy' = [policy EXCEPT ![s] = Rehydrated]
  BY DEF Compose, Busy, Promotes, files, Opening
<1>2. Shape /\ Owners /\ ServersFollow /\ Table /\ Fielded /\ opened \in Nat
  BY DEF IInv, Shape
<1>3. Promoting' = Promoting /\ Durable' = Durable
  BY <1>1 DEF Promotes, Promoting, Durable, Promoted
<1>4. Shape'
  BY <1>1, <1>2 DEF Shape, Promotes, Places, Early
<1>5. /\ of'[s] = opened + 1 /\ at'[s] = "composed" /\ policy'[s] = Rehydrated
      /\ \A r \in Servers \ {s} : of'[r] = of[r] /\ at'[r] = at[r] /\ policy'[r] = policy[r]
  BY <1>1, <1>2 DEF Shape
<1>6. \A r \in Servers : Busy(r)' <=> r = s \/ Busy(r)
  BY <1>5 DEF Busy
<1>7. Owners'
  <2>1. \A r \in Servers : Busy(r)' => of'[r] \in Matches /\ of'[r] <= opened'
    BY <1>1, <1>2, <1>5, <1>6 DEF Owners, Shape
  <2>2. \A q, r \in Servers : Busy(q)' /\ Busy(r)' /\ of'[q] = of'[r] => q = r
    <3>1. \A r \in Servers \ {s} : Busy(r)' => of'[r] # opened + 1
      BY <1>2, <1>5, <1>6 DEF Owners, Shape
    <3> QED  BY <1>2, <1>5, <1>6, <3>1 DEF Owners
  <2>3. \A m \in Matches : m > opened' => rows'[m] = <<>>
    <3> SUFFICES ASSUME NEW m \in Matches, m > opened + 1 PROVE rows[m] = <<>>
      BY <1>1 DEF Promotes
    <3>1. m > opened
      BY <1>2, LearningAssumption
    <3> QED  BY <1>2, <3>1 DEF Owners
  <2> QED  BY <1>1, <1>2, <1>6, <2>1, <2>2, <2>3 DEF Owners
<1>8. Server(s)'
  <2>1. staged'[s] = <<>> /\ ~scored'[s]
    BY <1>1, <1>2 DEF Owners
  <2>2. of'[s] \notin Promoting' /\ ~Has(staged'[s], "promoted")
    <3>1. opened + 1 > opened
      BY <1>2
    <3> QED  BY <1>1, <1>2, <1>3, <1>5, <2>1, <3>1, PromotingHas, HasEmpty DEF Owners
  <2> QED  BY <1>3, <1>5, <2>1, <2>2, RehydratedDurable
           DEF Compose, Server, Unpromoted, Early, Middle, Late, ScoredFirst, Has
<1>9. ASSUME NEW r \in Servers, r # s, Busy(r) PROVE Server(r)'
  <2>1. Server(r) /\ of'[r] = of[r] /\ at'[r] = at[r] /\ policy'[r] = policy[r]
    BY <1>2, <1>5, <1>9 DEF ServersFollow
  <2> QED  BY <1>1, <1>3, <2>1
           DEF Server, Unpromoted, Promotes, Sound, Earned, ScoredFirst
<1>10. ServersFollow'
  BY <1>6, <1>8, <1>9 DEF ServersFollow
<1>11. Table' /\ Fielded'
  BY <1>1, <1>2, <1>3 DEF Table, Fielded, Sound, Earned, Promotes
<1> QED  BY <1>4, <1>7, <1>10, <1>11 DEF IInv

LEMMA NextInv == IInv /\ [Next]_vars => IInv'
<1> SUFFICES ASSUME IInv, [Next]_vars PROVE IInv'
  OBVIOUS
<1>1. CASE UNCHANGED vars
  <2>1. UNCHANGED <<lane, opened, of, at, policy, scored, staged, rows, started, result,
                    candidate, fact, lineage>>
    BY <1>1 DEF vars, memory, files
  <2>2. Shape' /\ Owners'
    BY <2>1 DEF IInv, Shape, Owners, Busy
  <2>3. ASSUME NEW s \in Servers, Busy(s)' PROVE Server(s)'
    BY <2>1, <2>3 DEF IInv, ServersFollow, Busy, Server, Unpromoted, Promoting, Durable,
                      Promoted, Sound, Earned, ScoredFirst
  <2>4. ServersFollow'
    BY <2>3 DEF ServersFollow
  <2>5. Table' /\ Fielded'
    BY <2>1 DEF IInv, Table, Fielded, Promoting, Durable, Promoted, Sound, Earned
  <2> QED  BY <2>2, <2>4, <2>5 DEF IInv
<1>2. ASSUME NEW s \in Servers,
             \/ Compose(s) \/ Start(s) \/ End(s)
             \/ Score(s) \/ Rank(s) \/ Witness(s) \/ Judge(s)
             \/ CreateRecord(s) \/ WriteRecord(s) \/ Field(s)
             \/ Insert(s) \/ Return(s) \/ Close(s) \/ Crash(s)
      PROVE  IInv'
  BY <1>2, ComposeKeeps, StartKeeps, EndKeeps, ScoreKeeps, RankKeeps, JudgeKeeps, RecordKeeps,
     FieldKeeps, InsertKeeps, ReturnKeeps, ForgetsKeeps
<1> QED  BY <1>1, <1>2 DEF Next

(* How far every match has come, and what each promotion is made of.       *)
THEOREM LearningInvariant == Spec => []IInv
<1> QED  BY InitInv, NextInv, PTL DEF Spec

(* A durable promotion follows its match's score, was earned by it, and    *)
(* extends the policy the match flew with: whatever the number of          *)
(* processes, crashes and failures (learning/live.py).                     *)
THEOREM Earning == Spec => []PromotionsAreEarned
<1>1. IInv => PromotionsAreEarned
  <2> SUFFICES ASSUME IInv, NEW m \in Promoting
               PROVE  /\ Earned(m)
                      /\ fact[m].gen = started[m].gen + 1 /\ fact[m].parent = started[m].spec
                      /\ \E i, j \in DOMAIN rows[m] :
                             i < j /\ rows[m][i] = "scored" /\ rows[m][j] = "promoted"
    BY DEF PromotionsAreEarned, Earned
  <2> QED  BY DEF IInv, Table, Sound
<1> QED  BY <1>1, LearningInvariant, PTL

(* The policy a match flies with is the genesis or a promotion whose row   *)
(* is in the ledger and whose record is a whole file (learning/live.py).   *)
THEOREM Fielding == Spec => []FieldedIsDurable
<1>1. IInv => FieldedIsDurable
  <2> SUFFICES ASSUME IInv, NEW m \in Matches, started[m] # None, started[m] # Genesis
               PROVE  \E p \in Promotions :
                          /\ [spec |-> p.spec, gen |-> p.gen] = started[m]
                          /\ lineage[p.match] = "whole"
                          /\ candidate[p.match] = [spec |-> p.spec, parent |-> p.parent]
    BY DEF FieldedIsDurable
  <2>1. PICK n \in Promoting : started[m] = Promoted(n)
    BY DEF IInv, Fielded, Durable
  <2>2. Sound(n)
    BY DEF IInv, Table
  <2>3. fact[n] \in Promotions /\ fact[n].match = n
    BY <2>2 DEF Promotions, Sound
  <2> QED  BY <2>1, <2>2, <2>3 DEF Promoted, Sound
<1> QED  BY <1>1, LearningInvariant, PTL
-----------------------------------------------------------------------------
(***************************************************************************)
(* ChainBreaksOnlyByOverlap for any number of processes and matches.       *)
(*                                                                         *)
(* The chain resolves when a match is composed, so the match is based on   *)
(* its tip.  If another match was promoted beyond that base since, the two *)
(* overlapped, and a promotion of the first one repeats a generation;      *)
(* otherwise it extends the tip.                                           *)
(***************************************************************************)
(* The chain, without the record of its tip, which IInv implies.           *)
Line ==
    /\ \A m, n \in Promoting : fact[m].gen = fact[n].gen => m = n
    /\ {p.gen : p \in Promotions} = 1 .. Cardinality(Promotions)
    /\ \A p, q \in Promotions : q.gen = p.gen + 1 => q.parent = p.spec
    /\ \A p \in Promotions : p.gen = 1 => p.parent = Genesis.spec

Doubled == \E m, n \in met \cap Promoting : m # n /\ fact[m].gen = fact[n].gen

(* The policy a match was composed with.                                   *)
Base(s) == IF at[s] = "composed" THEN policy[s] ELSE started[of[s]]

(* Two matches open at the same time have met.                             *)
Meeting == \A r, s \in Servers : Busy(r) /\ Busy(s) /\ r # s => of[r] \in met /\ of[s] \in met

(* What was promoted beyond an open match's base was open beside it.       *)
Beyond ==
    \A s \in Servers : Busy(s) =>
        \A m \in Promoting \ {of[s]} :
            fact[m].gen > Base(s).gen => m \in met /\ of[s] \in met

CInv == Meeting /\ Beyond /\ (Doubled \/ Line)

LEMMA LineResolves == IInv /\ Line => Resolves
<1> SUFFICES ASSUME IInv, Line PROVE Resolves
  OBVIOUS
<1>1. ASSUME Promotions # {}
      PROVE  /\ lineage[Tip.match] = "whole"
             /\ candidate[Tip.match] = [spec |-> Tip.spec, parent |-> Tip.parent]
  <2>1. PICK m \in Promoting : Tip = fact[m]
    BY <1>1, TipResolved DEF Line
  <2>2. Sound(m)
    BY DEF IInv, Table
  <2> QED  BY <2>1, <2>2 DEF Sound
<1> QED  BY <1>1 DEF Line, Resolves

LEMMA ChainInit == Init => CInv
<1> SUFFICES ASSUME Init PROVE CInv
  OBVIOUS
<1>1. Promoting = {} /\ Promotions = {}
  BY PromotingHas, HasEmpty DEF Init, Promoting, Promotions
<1>2. Line
  <2>1. {p.gen : p \in Promotions} = 1 .. 0 /\ Cardinality(Promotions) = 0
    BY <1>1, FS_EmptySet
  <2> QED  BY <1>1, <2>1 DEF Line
<1>3. \A s \in Servers : ~Busy(s)
  BY DEF Init, Busy
<1> QED  BY <1>2, <1>3 DEF CInv, Meeting, Beyond

----------------------------------------------------------------------------
(* An open match is based on the genesis or on a promotion in the table.   *)
LEMMA BaseDurable ==
    ASSUME IInv, NEW s \in Servers, Busy(s)
    PROVE  Base(s) \in Policies \cap Durable
<1>1. Server(s) /\ of[s] \in Matches
  BY DEF IInv, ServersFollow, Owners
<1>2. CASE at[s] = "composed"
  BY <1>1, <1>2 DEF Server, Base
<1>3. CASE at[s] # "composed"
  <2>1. started[of[s]] \in Policies
    BY <1>1, <1>3 DEF Server
  <2>2. started[of[s]] # None
    BY <2>1 DEF Policies, None
  <2> QED  BY <1>1, <1>3, <2>1, <2>2 DEF IInv, Fielded, Base
<1> QED  BY <1>2, <1>3

LEMMA Numbered ==
    ASSUME IInv, NEW m \in Promoting
    PROVE  fact[m].gen \in Nat \ {0} /\ Sound(m)
<1>1. Sound(m)
  BY DEF IInv, Table
<1>2. started[m].gen \in Nat /\ fact[m].gen = started[m].gen + 1
  BY <1>1 DEF Sound, Policies
<1> QED  BY <1>1, <1>2

(* A step that leaves every promotion as it is.                            *)
Same == /\ Promoting' = Promoting
        /\ \A m \in Promoting : fact'[m] = fact[m]

LEMMA SameLine ==
    ASSUME Same, met \subseteq met', Doubled \/ Line
    PROVE  (Doubled \/ Line)'
<1>1. Promotions' = Promotions
  BY DEF Same, Promotions
<1>2. CASE Doubled
  BY <1>2 DEF Same, Doubled
<1>3. CASE Line
  BY <1>1, <1>3 DEF Same, Line
<1> QED  BY <1>2, <1>3

(* No match opens, and those that stay open keep what they are based on.   *)
Stays ==
    /\ met' = met
    /\ \A s \in Servers : Busy(s)' => Busy(s) /\ of'[s] = of[s] /\ Base(s)' = Base(s)

LEMMA StaysSame ==
    ASSUME CInv, Same, Stays
    PROVE  CInv'
<1>1. Meeting'
  BY DEF CInv, Meeting, Stays
<1>2. Beyond'
  BY DEF CInv, Beyond, Stays, Same
<1> QED  BY <1>1, <1>2, SameLine DEF CInv, Stays

LEMMA StepsStay ==
    ASSUME IInv, NEW s \in Servers,
           \/ Start(s) \/ End(s) \/ Score(s) \/ Rank(s) \/ Witness(s) \/ Judge(s)
           \/ CreateRecord(s) \/ WriteRecord(s) \/ Field(s)
           \/ Insert(s) \/ Return(s) \/ Close(s) \/ Crash(s)
    PROVE  Stays
<1>1. Busy(s) /\ of[s] \in Matches /\ Shape
  BY DEF Start, End, Score, Rank, Witness, Judge, CreateRecord, WriteRecord, Field, Insert,
         Return, Close, Crash, Busy, IInv, Owners
<1>2. \A r \in Servers \ {s} : Busy(r) => of[r] \in Matches \ {of[s]}
  BY <1>1 DEF IInv, Owners
<1> DEFINE Elsewhere ==
             /\ met' = met
             /\ \A r \in Servers \ {s} :
                   of'[r] = of[r] /\ at'[r] = at[r] /\ policy'[r] = policy[r]
             /\ \A m \in Matches \ {of[s]} : started'[m] = started[m]
<1>3. CASE Start(s)
  <2>1. Elsewhere /\ of'[s] = of[s] /\ Base(s)' = Base(s)
    BY <1>1, <1>3 DEF Start, Shape, Base
  <2> QED  BY <1>1, <1>2, <2>1 DEF Stays, Busy, Base
<1>4. CASE Close(s) \/ Crash(s)
  <2>1. Elsewhere /\ ~Busy(s)'
    BY <1>1, <1>4 DEF Close, Crash, Forgets, Goes, files, Shape, Busy
  <2> QED  BY <1>1, <1>2, <2>1 DEF Stays, Busy, Base
<1>5. CASE \/ End(s) \/ Score(s) \/ Rank(s) \/ Witness(s) \/ Judge(s)
           \/ CreateRecord(s) \/ WriteRecord(s) \/ Field(s) \/ Insert(s) \/ Return(s)
  <2>1. at[s] # "composed" /\ of' = of /\ started' = started /\ met' = met
    BY <1>5 DEF End, Score, Rank, Witness, Judge, CreateRecord, WriteRecord, Field, Insert,
                Return, files
  <2>2. \E p \in Places \ {"closed", "composed"} : at' = [at EXCEPT ![s] = p]
    <3>1. CASE at' = at
      BY <1>1, <2>1, <3>1 DEF Shape, Busy
    <3>2. CASE at' # at
      BY <1>5, <3>2 DEF End, Score, Rank, Witness, Judge, CreateRecord, WriteRecord, Field,
                        Insert, Return, Contain, Goes, Places, Middle, Late
    <3> QED  BY <3>1, <3>2
  <2>3. at'[s] # "composed" /\ \A r \in Servers \ {s} : at'[r] = at[r]
    BY <1>1, <2>2 DEF Shape
  <2>4. \A r \in Servers \ {s} : policy'[r] = policy[r]
    <3>1. CASE Field(s)
      BY <1>1, <3>1 DEF Field, Shape
    <3>2. CASE ~Field(s)
      BY <1>5, <3>2 DEF End, Score, Rank, Witness, Judge, CreateRecord, WriteRecord, Insert,
                        Return
    <3> QED  BY <3>1, <3>2
  <2> QED  BY <1>1, <2>1, <2>3, <2>4 DEF Stays, Busy, Base
<1> QED  BY <1>3, <1>4, <1>5

(* Promotions are made by Insert only, and what they cite stays.           *)
LEMMA StepsSame ==
    ASSUME IInv, NEW s \in Servers,
           \/ Start(s) \/ End(s) \/ Score(s) \/ Rank(s) \/ Witness(s) \/ Judge(s)
           \/ CreateRecord(s) \/ WriteRecord(s) \/ Field(s)
           \/ Return(s) \/ Close(s) \/ Crash(s)
    PROVE  Same
<1>1. CASE Start(s)
  <2>1. of[s] \in Matches /\ Inserts(of[s], "started") /\ "started" \in Events
    BY <1>1 DEF Start, IInv, Owners, Busy, Inserts, Events
  <2> QED  BY <1>1, <2>1, Inserted DEF Start, Same
<1>2. CASE \/ End(s) \/ Score(s) \/ Rank(s) \/ Witness(s) \/ Judge(s)
           \/ CreateRecord(s) \/ WriteRecord(s) \/ Return(s) \/ Close(s) \/ Crash(s)
  <2>1. UNCHANGED <<rows, fact>>
    BY <1>2 DEF End, Score, Rank, Witness, Judge, CreateRecord, WriteRecord, Return, Close,
                Crash, files
  <2> QED  BY <2>1 DEF Same, Promoting
<1>3. CASE Field(s)
  <2>1. rows' = rows /\ of[s] \in Matches /\ of[s] \notin Promoting
    BY <1>3 DEF Field, IInv, Owners, ServersFollow, Server, Middle, Unpromoted, Busy
  <2>2. \A m \in Matches \ {of[s]} : fact'[m] = fact[m]
    BY <1>3 DEF Field, IInv, Shape
  <2> QED  BY <2>1, <2>2 DEF Same, Promoting
<1> QED  BY <1>1, <1>2, <1>3

----------------------------------------------------------------------------
LEMMA ChainCompose ==
    ASSUME IInv, CInv, NEW s \in Servers, Compose(s)
    PROVE  CInv'
<1>1. Same /\ met \subseteq met'
  BY DEF Compose, files, Same, Promoting
<1>2. /\ ~Busy(s) /\ of'[s] = opened + 1 /\ at'[s] = "composed" /\ policy'[s] = Rehydrated
      /\ \A r \in Servers \ {s} : of'[r] = of[r] /\ at'[r] = at[r] /\ policy'[r] = policy[r]
      /\ started' = started
  BY DEF Compose, Busy, IInv, Shape, Opening, files
<1>3. \A r \in Servers : Busy(r)' <=> r = s \/ Busy(r)
  BY <1>2 DEF Busy
<1>4. \A r \in Servers \ {s} : Busy(r) => of[r] \in met' /\ of'[s] \in met'
  <2> SUFFICES ASSUME NEW r \in Servers \ {s}, Busy(r)
               PROVE  of[r] \in met' /\ of'[s] \in met'
    OBVIOUS
  <2> DEFINE others == {of[q] : q \in {q \in Servers : at[q] # "closed"}}
  <2>1. of[r] \in others
    BY DEF Busy
  <2>2. met' = IF others = {} THEN met ELSE met \cup others \cup {opened'}
    BY DEF Compose
  <2>3. opened' = opened + 1
    BY DEF Compose
  <2> HIDE DEF others
  <2> QED  BY <1>2, <2>1, <2>2, <2>3
<1>5. Meeting'
  BY <1>1, <1>2, <1>3, <1>4 DEF CInv, Meeting
<1>6. \A m \in Promoting : ~(fact[m].gen > Rehydrated.gen)
  <2> SUFFICES ASSUME NEW m \in Promoting PROVE ~(fact[m].gen > Rehydrated.gen)
    OBVIOUS
  <2>1. fact[m] \in Promotions /\ Resolves
    BY DEF Promotions, Compose
  <2>2. PICK n \in Promoting : Tip = fact[n]
    BY <2>1, TipResolved DEF Resolves
  <2>3. Rehydrated.gen = fact[n].gen
    BY <2>1, <2>2 DEF Rehydrated
  <2>4. {p.gen : p \in Promotions} = 1 .. Cardinality(Promotions)
        /\ Cardinality(Promotions) \in Nat /\ Cardinality(Promotions) # 0
    BY <2>1, PromotionsFinite, FS_CardinalityType, FS_EmptySet DEF Resolves
  <2>5. \A q \in Promotions : q.gen <= Tip.gen
    <3>1. PICK p \in Promotions : p.gen = Cardinality(Promotions)
      BY <2>4
    <3>2. \A q \in Promotions : q.gen <= p.gen
      <4> SUFFICES ASSUME NEW q \in Promotions PROVE q.gen <= p.gen
        OBVIOUS
      <4>1. q.gen \in 1 .. Cardinality(Promotions)
        BY <2>4
      <4> QED  BY <2>4, <3>1, <4>1
    <3> QED  BY <3>2 DEF Tip
  <2>6. fact[m].gen <= fact[n].gen
    BY <2>1, <2>2, <2>5
  <2>7. fact[m].gen \in Int /\ fact[n].gen \in Int
    BY Numbered
  <2> QED  BY <2>3, <2>6, <2>7
<1>7. Beyond'
  <2> SUFFICES ASSUME NEW r \in Servers, Busy(r)', NEW m \in Promoting \ {of'[r]},
                      fact[m].gen > Base(r)'.gen
               PROVE  m \in met' /\ of'[r] \in met'
    BY <1>1 DEF Beyond, Same
  <2>1. CASE r = s
    BY <1>2, <1>6, <2>1 DEF Base
  <2>2. CASE r # s
    <3>1. Busy(r) /\ of'[r] = of[r] /\ Base(r)' = Base(r)
      BY <1>2, <1>3, <2>2 DEF Base
    <3> QED  BY <1>1, <2>2, <3>1 DEF CInv, Beyond
  <2> QED  BY <2>1, <2>2
<1> QED  BY <1>1, <1>5, <1>7, SameLine DEF CInv
----------------------------------------------------------------------------
(* A promotion of a match based on the tip, which extends the chain.       *)
LEMMA Extends ==
    ASSUME IInv, IInv', Line, NEW m \in Promoting', m \notin Promoting,
           Promoting' = Promoting \cup {m}, fact' = fact,
           NEW base \in Policies \cap Durable,
           fact[m].gen = base.gen + 1, fact[m].parent = base.spec,
           \A n \in Promoting : fact[n].gen # fact[m].gen
    PROVE  Line'
<1> DEFINE top == Cardinality(Promotions)
<1>1. top \in Nat /\ IsFiniteSet(Promotions)
  BY PromotionsFinite, FS_CardinalityType
<1>2. {p.gen : p \in Promotions} = 1 .. top
  BY DEF Line
<1>3. Promotions' = Promotions \cup {fact[m]} /\ fact[m] \notin Promotions
  BY DEF Promotions
<1>4. Cardinality(Promotions') = top + 1
  BY <1>1, <1>3, FS_AddElement
<1> HIDE DEF top
<1>5. base = Genesis \/ \E n \in Promoting : base = Promoted(n)
  BY DEF Durable
<1>6. base.gen = top
  <2>1. \A n \in Promoting : fact[n].gen \in 1 .. top
    BY <1>2 DEF Promotions
  <2>2. base.gen \in 0 .. top
    <3>1. CASE base = Genesis
      BY <1>1, <3>1 DEF Genesis
    <3>2. ASSUME NEW n \in Promoting, base = Promoted(n) PROVE base.gen \in 0 .. top
      BY <1>1, <2>1, <3>2 DEF Promoted
    <3> QED  BY <1>5, <3>1, <3>2
  <2>3. base.gen + 1 \notin 1 .. top
    BY <1>2 DEF Promotions
  <2> QED  BY <1>1, <2>2, <2>3
<1>7. {p.gen : p \in Promotions'} = 1 .. (top + 1)
  <2>1. {p.gen : p \in Promotions'} = {p.gen : p \in Promotions} \cup {fact[m].gen}
    BY <1>3
  <2> QED  BY <1>1, <1>2, <1>6, <2>1
<1>8. \A n, k \in Promoting' : fact'[n].gen = fact'[k].gen => n = k
  BY DEF Line
<1>9. \A p \in Promotions : p.gen \in 1 .. top
  BY <1>2
<1>10. \A p, q \in Promotions' : q.gen = p.gen + 1 => q.parent = p.spec
  <2> SUFFICES ASSUME NEW p \in Promotions', NEW q \in Promotions', q.gen = p.gen + 1
               PROVE  q.parent = p.spec
    OBVIOUS
  <2>1. CASE p \in Promotions /\ q \in Promotions
    BY <2>1 DEF Line
  <2>2. CASE p = fact[m]
    BY <1>1, <1>3, <1>6, <1>9, <2>2
  <2>3. CASE p \in Promotions /\ q = fact[m]
    <3>1. p.gen = top /\ top # 0
      BY <1>1, <1>6, <1>9, <2>3
    <3>2. PICK n \in Promoting : base = Promoted(n)
      BY <1>5, <1>6, <3>1 DEF Genesis
    <3>3. PICK k \in Promoting : p = fact[k]
      BY <2>3 DEF Promotions
    <3>4. n = k
      BY <1>6, <3>1, <3>2, <3>3 DEF Line, Promoted
    <3> QED  BY <2>3, <3>2, <3>3, <3>4 DEF Promoted
  <2> QED  BY <1>3, <2>1, <2>2, <2>3
<1>11. \A p \in Promotions' : p.gen = 1 => p.parent = Genesis.spec
  <2>1. fact[m].gen = 1 => fact[m].parent = Genesis.spec
    <3> SUFFICES ASSUME top = 0 PROVE base = Genesis
      BY <1>1, <1>6
    <3>1. Promoting = {}
      BY <1>9 DEF Promotions
    <3> QED  BY <1>5, <3>1
  <2> QED  BY <1>3, <2>1 DEF Line
<1> QED  BY <1>4, <1>7, <1>8, <1>10, <1>11 DEF Line

LEMMA ChainInsert ==
    ASSUME IInv, IInv', CInv, NEW s \in Servers, Insert(s)
    PROVE  CInv'
<1>1. Stays
  BY StepsStay
<1>2. /\ Busy(s) /\ of[s] \in Matches /\ fact' = fact /\ started' = started /\ met' = met
      /\ at[s] = "flushing"
  BY DEF Insert, Busy, IInv, Owners
<1>3. CASE Promoting' = Promoting
  BY <1>1, <1>2, <1>3, StaysSame DEF Same
<1>4. CASE Promoting' # Promoting
  <2>1. PICK e \in Events : Inserts(of[s], e)
    <3>1. staged[s] \in Seq(Events) /\ rows' # rows
      BY <1>4 DEF IInv, Shape, Promoting
    <3>2. staged[s] # <<>> /\ Inserts(of[s], Head(staged[s]))
      BY <3>1 DEF Insert, Inserts
    <3>3. Head(staged[s]) \in Events
      BY <3>1, <3>2
    <3> QED  BY <3>2, <3>3
  <2>2. Promoting' = Promoting \cup {of[s]} /\ of[s] \notin Promoting
    BY <1>2, <1>4, <2>1, Inserted
  <2> DEFINE base == Base(s)
  <2>3. PICK m \in Matches : m = of[s]
    BY <1>2
  <2>4. base \in Policies \cap Durable /\ base = started[m]
    BY <1>2, <2>3, BaseDurable DEF Base
  <2>5. fact[m].gen = base.gen + 1 /\ fact[m].parent = base.spec
    <3>1. Sound(m)'
      BY <2>2, <2>3 DEF IInv, Table
    <3> QED  BY <1>2, <2>4, <3>1 DEF Sound
  <2>6. base.gen \in Nat
    BY <2>4 DEF Policies
  <2>7. \A n \in Promoting : fact[n].gen = fact[m].gen => n \in met /\ m \in met
    BY <1>2, <2>2, <2>3, <2>5, <2>6 DEF CInv, Beyond
  <2>8. (Doubled \/ Line)'
    <3>1. CASE Doubled
      BY <1>2, <2>2, <3>1 DEF Doubled
    <3>2. CASE \E n \in Promoting : fact[n].gen = fact[m].gen
      BY <1>2, <2>2, <2>3, <2>7, <3>2 DEF Doubled
    <3>3. CASE Line /\ \A n \in Promoting : fact[n].gen # fact[m].gen
      <4> HIDE DEF base
      <4> QED  BY <1>2, <2>2, <2>3, <2>4, <2>5, <3>3, Extends
    <3> QED  BY <3>1, <3>2, <3>3 DEF CInv
  <2>9. Meeting'
    BY <1>1 DEF CInv, Meeting, Stays
  <2>10. Beyond'
    <3> SUFFICES ASSUME NEW r \in Servers, Busy(r)', NEW n \in Promoting' \ {of'[r]},
                        fact'[n].gen > Base(r)'.gen
                 PROVE  n \in met' /\ of'[r] \in met'
      BY DEF Beyond
    <3>1. Busy(r) /\ of'[r] = of[r] /\ Base(r)' = Base(r)
      BY <1>1 DEF Stays
    <3>2. CASE n \in Promoting
      BY <1>2, <3>1, <3>2 DEF CInv, Beyond
    <3>3. CASE n = of[s]
      BY <1>2, <3>1, <3>3 DEF CInv, Meeting
    <3> QED  BY <2>2, <3>2, <3>3
  <2> QED  BY <2>8, <2>9, <2>10 DEF CInv
<1> QED  BY <1>3, <1>4

LEMMA ChainNext == IInv /\ IInv' /\ CInv /\ [Next]_vars => CInv'
<1> SUFFICES ASSUME IInv, IInv', CInv, [Next]_vars PROVE CInv'
  OBVIOUS
<1>1. CASE UNCHANGED vars
  <2>1. Same /\ Stays
    BY <1>1 DEF vars, memory, files, Same, Stays, Busy, Base, Promoting
  <2> QED  BY <2>1, StaysSame
<1>2. ASSUME NEW s \in Servers,
             \/ Compose(s) \/ Start(s) \/ End(s)
             \/ Score(s) \/ Rank(s) \/ Witness(s) \/ Judge(s)
             \/ CreateRecord(s) \/ WriteRecord(s) \/ Field(s)
             \/ Insert(s) \/ Return(s) \/ Close(s) \/ Crash(s)
      PROVE  CInv'
  <2>1. CASE Compose(s)
    BY <2>1, ChainCompose
  <2>2. CASE Insert(s)
    BY <2>2, ChainInsert
  <2>3. CASE ~Compose(s) /\ ~Insert(s)
    BY <1>2, <2>3, StepsStay, StepsSame, StaysSame
  <2> QED  BY <2>1, <2>2, <2>3
<1> QED  BY <1>1, <1>2 DEF Next

(* A promotion chain that no longer resolves has one generation twice, by  *)
(* two matches that were open at the same time: no crash, failed insert or *)
(* failed lineage write breaks it (learning/promotion_fold.py).            *)
THEOREM ChainBreaks == Spec => []ChainBreaksOnlyByOverlap
<1>1. IInv /\ CInv => ChainBreaksOnlyByOverlap
  BY LineResolves DEF CInv, Doubled, ChainBreaksOnlyByOverlap
<1>2. Init => CInv
  BY ChainInit
<1>3. IInv /\ IInv' /\ CInv /\ [Next]_vars => CInv'
  BY ChainNext
<1>4. Spec => []IInv
  BY LearningInvariant
<1> QED  BY <1>1, <1>2, <1>3, <1>4, PTL DEF Spec
-----------------------------------------------------------------------------
(***************************************************************************)
(* FailuresAreContained for any number of processes, matches and failures. *)
(*                                                                         *)
(* While a match has suffered nothing but a failed evaluation or lineage   *)
(* write, it owes no error, and what it has passed is done: its board row  *)
(* beyond the ranking, its evidence beyond the witnessing, its score in    *)
(* the buffer until it is in the table.                                    *)
(***************************************************************************)
Calm(m) == trouble[m] \subseteq {"evaluator", "lineage"}

Judged == {"judging", "creating", "writing", "fielding", "flushing", "ended"}

(* The end of a match that has been scored is on its way.                  *)
Restating(s) == scored[s] /\ at[s] = "scoring"

Orderly(s) ==
    /\ raised[s] \/ at[s] = "failed" => ~Calm(of[s])
    /\ Calm(of[s]) =>
         /\ at[s] \in Judged \cup {"witnessing"} \/ Restating(s) => of[s] \in board
         /\ at[s] \in Judged \/ Restating(s) => of[s] \in evidence
         /\ at[s] = "flushing" => Has(staged[s], "scored") \/ Has(rows[of[s]], "scored")
         /\ at[s] = "ended" \/ Restating(s) => Has(rows[of[s]], "scored")
         /\ at[s] = "ended" => Has(rows[of[s]], "ended")

Contained ==
    /\ DOMAIN trouble = Matches /\ raised \in [Servers -> BOOLEAN]
    /\ \A s \in Servers : IF Busy(s) THEN Orderly(s) ELSE ~raised[s]
    /\ finished \subseteq Matches
    /\ \A m \in finished : Calm(m) =>
         /\ Has(rows[m], "scored") /\ Has(rows[m], "ended")
         /\ m \in board \cap evidence

(* Records only grow, and so does the list of what went wrong in a match.  *)
Lasts(m) ==
    /\ Grows(m) /\ trouble[m] \subseteq trouble'[m]
    /\ m \in board => m \in board'
    /\ m \in evidence => m \in evidence'

LEMMA CalmBefore == ASSUME NEW m, Lasts(m), Calm(m)' PROVE Calm(m)
<1> QED  BY DEF Calm, Lasts

LEMMA HasLasts == ASSUME NEW m, Lasts(m), NEW e, Has(rows[m], e) PROVE Has(rows'[m], e)
<1> QED  BY DEF Has, Lasts, Grows

LEMMA FinishedStay ==
    ASSUME Contained, \A m \in Matches : Lasts(m), NEW m \in finished, Calm(m)'
    PROVE  /\ Has(rows'[m], "scored") /\ Has(rows'[m], "ended")
           /\ m \in board' \cap evidence'
<1> QED  BY CalmBefore, HasLasts DEF Contained, Lasts

(* A step of one process, within its match.                                *)
Strides(s, p) ==
    /\ Busy(s) /\ p # "closed"
    /\ at' = [at EXCEPT ![s] = p] /\ UNCHANGED <<of, finished>>
    /\ \A r \in Servers \ {s} :
         staged'[r] = staged[r] /\ scored'[r] = scored[r] /\ raised'[r] = raised[r]
    /\ \A m \in Matches \ {of[s]} : rows'[m] = rows[m] /\ trouble'[m] = trouble[m]
    /\ raised' \in [Servers -> BOOLEAN] /\ DOMAIN trouble' = Matches
    /\ board \subseteq board' /\ evidence \subseteq evidence'
    /\ Lasts(of[s])

LEMMA StridesKeep ==
    ASSUME IInv, Contained, NEW s \in Servers, NEW p, Strides(s, p), Orderly(s)'
    PROVE  Contained'
<1>1. of[s] \in Matches /\ \A m \in Matches : Lasts(m)
  BY DEF Strides, IInv, Owners, Lasts, Grows
<1>2. /\ at'[s] = p /\ of' = of /\ finished' = finished
      /\ \A r \in Servers \ {s} : at'[r] = at[r]
  BY DEF Strides, IInv, Shape
<1>3. ASSUME NEW r \in Servers, r # s
      PROVE  IF Busy(r)' THEN Orderly(r)' ELSE ~raised'[r]
  <2>1. CASE ~Busy(r)
    BY <1>2, <1>3, <2>1 DEF Strides, Contained, Busy
  <2>2. CASE Busy(r)
    <3>1. of[r] \in Matches \ {of[s]} /\ Orderly(r)
      BY <1>3, <2>2 DEF Strides, IInv, Owners, Contained
    <3>2. /\ at'[r] = at[r] /\ of'[r] = of[r] /\ staged'[r] = staged[r]
          /\ scored'[r] = scored[r] /\ raised'[r] = raised[r]
          /\ rows'[of[r]] = rows[of[r]] /\ trouble'[of[r]] = trouble[of[r]]
          /\ board \subseteq board' /\ evidence \subseteq evidence'
      BY <1>2, <1>3, <3>1 DEF Strides
    <3>3. Orderly(r)'
      BY <3>1, <3>2 DEF Orderly, Restating, Calm
    <3> QED  BY <2>2, <3>2, <3>3 DEF Busy
  <2> QED  BY <2>1, <2>2
<1>4. Busy(s)'
  BY <1>2 DEF Strides, Busy
<1>5. \A r \in Servers : IF Busy(r)' THEN Orderly(r)' ELSE ~raised'[r]
  BY <1>3, <1>4
<1>6. \A m \in finished' : Calm(m)' => /\ Has(rows'[m], "scored") /\ Has(rows'[m], "ended")
                                       /\ m \in board' \cap evidence'
  BY <1>1, <1>2, FinishedStay
<1> QED  BY <1>2, <1>5, <1>6 DEF Contained, Strides

LEMMA ContainedInit == Init => Contained
<1> QED  BY DEF Init, Contained, Busy

(* What a failure leaves in the match's list.                              *)
LEMMA Suffered ==
    ASSUME IInv, Contained, NEW s \in Servers, Busy(s), NEW what, Suffers(s, what)
    PROVE  /\ trouble'[of[s]] = trouble[of[s]] \cup {what} /\ DOMAIN trouble' = Matches
           /\ \A m \in Matches \ {of[s]} : trouble'[m] = trouble[m]
<1>1. of[s] \in Matches
  BY DEF IInv, Owners
<1> QED  BY <1>1 DEF Suffers, Contained

(* No failure, one that is contained, or one that the publish will raise.  *)
Fares(s) ==
    \/ Works
    \/ \E what \in {"evaluator", "lineage"} : Suffers(s, what) /\ UNCHANGED raised
    \/ \E what \in {"replay", "board", "evidence", "emit", "insert"} : Raises(s, what)

LEMMA Fared ==
    ASSUME IInv, Contained, NEW s \in Servers, Busy(s), Fares(s)
    PROVE  /\ raised' \in [Servers -> BOOLEAN] /\ DOMAIN trouble' = Matches
           /\ \A r \in Servers \ {s} : raised'[r] = raised[r]
           /\ \A m \in Matches \ {of[s]} : trouble'[m] = trouble[m]
           /\ trouble[of[s]] \subseteq trouble'[of[s]]
           /\ Calm(of[s])' /\ of' = of => Calm(of[s]) /\ raised' = raised
<1>1. CASE Works
  BY <1>1 DEF Works, Contained, Calm
<1>2. ASSUME NEW what \in {"evaluator", "lineage"}, Suffers(s, what), UNCHANGED raised
      PROVE  /\ raised' \in [Servers -> BOOLEAN] /\ DOMAIN trouble' = Matches
             /\ \A r \in Servers \ {s} : raised'[r] = raised[r]
             /\ \A m \in Matches \ {of[s]} : trouble'[m] = trouble[m]
             /\ trouble[of[s]] \subseteq trouble'[of[s]]
             /\ Calm(of[s])' /\ of' = of => Calm(of[s]) /\ raised' = raised
  BY <1>2, Suffered DEF Contained, Calm
<1>3. ASSUME NEW what \in {"replay", "board", "evidence", "emit", "insert"}, Raises(s, what)
      PROVE  /\ raised' \in [Servers -> BOOLEAN] /\ DOMAIN trouble' = Matches
             /\ \A r \in Servers \ {s} : raised'[r] = raised[r]
             /\ \A m \in Matches \ {of[s]} : trouble'[m] = trouble[m]
             /\ trouble[of[s]] \subseteq trouble'[of[s]]
             /\ Calm(of[s])' /\ of' = of => Calm(of[s]) /\ raised' = raised
  <2>1. what \in trouble'[of[s]]
    BY <1>3, Suffered DEF Raises
  <2>2. of' = of => ~Calm(of[s])'
    BY <2>1 DEF Calm
  <2> QED  BY <1>3, <2>2, Suffered DEF Raises, Contained
<1> QED  BY <1>1, <1>2, <1>3 DEF Fares

(* So a step is judged while the match has suffered nothing serious.       *)
LEMMA FaresKeep ==
    ASSUME IInv, Contained, NEW s \in Servers, Busy(s), Fares(s), IInv',
           NEW p \in Places \ {"closed"}, at' = [at EXCEPT ![s] = p],
           UNCHANGED <<of, finished>>,
           \A r \in Servers \ {s} : staged'[r] = staged[r] /\ scored'[r] = scored[r],
           \A m \in Matches \ {of[s]} : rows'[m] = rows[m],
           Grows(of[s]), board \subseteq board', evidence \subseteq evidence',
           Calm(of[s]) /\ Calm(of[s])' /\ ~raised[s] /\ at'[s] = p => Orderly(s)',
           p = "failed" => ~Calm(of[s])' 
    PROVE  Contained'
<1>1. Strides(s, p)
  BY Fared DEF Strides, Lasts
<1>2. Orderly(s)
  BY DEF Contained
<1>3. at'[s] = p
  BY DEF IInv, Shape
<1>4. ASSUME Calm(of[s])' PROVE Orderly(s)'
  BY <1>2, <1>3, <1>4, Fared DEF Orderly, Calm
<1>5. ASSUME ~Calm(of[s])' PROVE Orderly(s)'
  BY <1>5 DEF Orderly, Calm
<1>6. Orderly(s)'
  BY <1>4, <1>5
<1> QED  BY <1>1, <1>6, StridesKeep

(* What a calm match has behind it, when a step finds it where it is.      *)
LEMMA Behind ==
    ASSUME IInv, Contained, NEW s \in Servers, Busy(s)
    PROVE  /\ Orderly(s) /\ Server(s) /\ of[s] \in Matches
           /\ staged[s] \in Seq(Events) /\ rows[of[s]] \in Seq(Events)
<1> QED  BY DEF IInv, Shape, Owners, ServersFollow, Contained

LEMMA ContainedScore ==
    ASSUME IInv, IInv', Contained, NEW s \in Servers, Score(s)
    PROVE  Contained'
<1>1. Busy(s) /\ at[s] = "scoring" /\ UNCHANGED <<of, finished, rows, board, evidence>>
  BY DEF Score, Busy, files
<1>2. Orderly(s) /\ staged[s] \in Seq(Events) /\ of[s] \in Matches
  BY <1>1, Behind
<1>3. \A r \in Servers \ {s} : staged'[r] = staged[r] /\ scored'[r] = scored[r]
  BY DEF Score, Stages, IInv, Shape
<1>4. scored'[s] = TRUE /\ Grows(of[s])
  BY <1>1 DEF Score, IInv, Shape, Grows
<1>5. CASE scored[s] /\ Goes(s, "flushing") /\ Works /\ UNCHANGED staged
  <2>1. Calm(of[s]) /\ at'[s] = "flushing" => Orderly(s)' \/ raised[s]
    BY <1>1, <1>2, <1>4, <1>5 DEF Orderly, Restating, Judged, Calm, Works
  <2> QED  BY <1>1, <1>3, <1>4, <1>5, <2>1, FaresKeep DEF Goes, Places, Late, Fares
<1>6. CASE Raises(s, "replay") /\ Goes(s, "flushing")
  <2>1. ~Calm(of[s])'
    BY <1>1, <1>6, Suffered DEF Raises, Calm
  <2> QED  BY <1>1, <1>3, <1>4, <1>6, <2>1, FaresKeep DEF Goes, Places, Late, Fares
<1>7. CASE Stages(s, "scored") /\ Goes(s, "ranking") /\ Works
  <2>1. Calm(of[s]) /\ ~raised[s] /\ at'[s] = "ranking" => Orderly(s)'
    BY <1>1, <1>7 DEF Orderly, Restating, Judged, Calm, Works
  <2> QED  BY <1>1, <1>3, <1>4, <1>7, <2>1, FaresKeep DEF Goes, Places, Middle, Fares
<1> QED  BY <1>5, <1>6, <1>7 DEF Score

LEMMA ContainedRank ==
    ASSUME IInv, IInv', Contained, NEW s \in Servers, Rank(s)
    PROVE  Contained'
<1>1. /\ Busy(s) /\ at[s] = "ranking" /\ Goes(s, "witnessing")
      /\ UNCHANGED <<of, finished, rows, staged, scored, evidence>>
  BY DEF Rank, Busy
<1>2. Orderly(s) /\ of[s] \in Matches /\ Grows(of[s]) /\ board \subseteq board'
  BY <1>1, Behind DEF Rank, Grows
<1>3. Fares(s) /\ (Calm(of[s])' => of[s] \in board')
  <2>1. CASE board' = board \cup {of[s]} /\ Works
    BY <2>1 DEF Fares
  <2>2. CASE Raises(s, "board")
    BY <1>1, <2>2, Suffered DEF Fares, Raises, Calm
  <2> QED  BY <2>1, <2>2 DEF Rank
<1>4. Calm(of[s]) /\ Calm(of[s])' /\ ~raised[s] /\ at'[s] = "witnessing" => Orderly(s)'
  BY <1>1, <1>3, Fared DEF Orderly, Restating, Judged, Calm
<1> QED  BY <1>1, <1>2, <1>3, <1>4, FaresKeep DEF Goes, Places, Middle

LEMMA ContainedWitness ==
    ASSUME IInv, IInv', Contained, NEW s \in Servers, Witness(s)
    PROVE  Contained'
<1>1. /\ Busy(s) /\ at[s] = "witnessing"
      /\ UNCHANGED <<of, finished, rows, staged, scored, board>>
  BY DEF Witness, Busy
<1>2. /\ Orderly(s) /\ Server(s) /\ of[s] \in Matches /\ Grows(of[s])
      /\ evidence \subseteq evidence'
  BY <1>1, Behind DEF Witness, Grows
<1>3. CASE evidence' = evidence \cup {of[s]} /\ Goes(s, "judging") /\ Works
  <2>1. Calm(of[s]) /\ Calm(of[s])' /\ ~raised[s] /\ at'[s] = "judging" => Orderly(s)'
    BY <1>1, <1>2, <1>3 DEF Orderly, Restating, Judged, Calm, Works
  <2> QED  BY <1>1, <1>2, <1>3, <2>1, FaresKeep DEF Goes, Places, Middle, Fares
<1>4. CASE Raises(s, "evidence") /\ Goes(s, "flushing")
  <2>1. ~Calm(of[s])'
    BY <1>1, <1>4, Suffered DEF Raises, Calm
  <2> QED  BY <1>1, <1>2, <1>4, <2>1, FaresKeep DEF Goes, Places, Late, Fares
<1> QED  BY <1>3, <1>4 DEF Witness

(* From the judgement to the flush nothing is undone.                      *)
LEMMA ContainedLater ==
    ASSUME IInv, IInv', Contained, NEW s \in Servers,
           Judge(s) \/ CreateRecord(s) \/ WriteRecord(s) \/ Field(s)
    PROVE  Contained'
<1>1. /\ Busy(s) /\ at[s] \in {"judging", "creating", "writing", "fielding"}
      /\ UNCHANGED <<of, finished, rows, scored, board, evidence>>
  BY DEF Judge, CreateRecord, WriteRecord, Field, Busy
<1>2. /\ Orderly(s) /\ Server(s) /\ of[s] \in Matches /\ Grows(of[s])
      /\ staged[s] \in Seq(Events)
  BY <1>1, Behind DEF Grows
<1>3. Fares(s)
  BY DEF Judge, CreateRecord, WriteRecord, Field, Contain, Fares
<1>4. PICK p \in {"creating", "writing", "fielding", "flushing"} : Goes(s, p)
  BY DEF Judge, CreateRecord, WriteRecord, Field, Contain
<1>5. Has(staged'[s], "scored") /\ \A r \in Servers \ {s} : staged'[r] = staged[r]
  <2>1. Has(staged[s], "scored")
    BY <1>1, <1>2 DEF Server, Middle
  <2>2. CASE staged' = staged
    BY <2>1, <2>2
  <2>3. CASE Field(s)
    <3>1. /\ staged'[s] = Append(staged[s], "promoted")
          /\ \A r \in Servers \ {s} : staged'[r] = staged[r]
      BY <2>3 DEF Field, Stages, IInv, Shape
    <3> QED  BY <1>2, <2>1, <3>1, HasAppend DEF Events
  <2> QED  BY <2>2, <2>3 DEF Judge, CreateRecord, WriteRecord
<1>6. Calm(of[s]) /\ Calm(of[s])' /\ ~raised[s] /\ at'[s] = p => Orderly(s)'
  BY <1>1, <1>2, <1>3, <1>5, Fared DEF Orderly, Restating, Judged, Calm
<1> QED  BY <1>1, <1>2, <1>3, <1>4, <1>5, <1>6, FaresKeep DEF Goes, Places, Middle, Late

(* An event that leaves the buffer is the row that is inserted.            *)
LEMMA ScoreMoves ==
    ASSUME NEW q \in Seq(Events), q # <<>>, NEW e, Has(q, e), Head(q) # e
    PROVE  Has(Tail(q), e)
<1>1. PICK i \in 1 .. Len(q) : q[i] = e
  BY DEF Has
<1>2. Len(q) \in Nat /\ Len(q) # 0 /\ Head(q) = q[1]
  OBVIOUS
<1>3. i - 1 \in 1 .. Len(Tail(q)) /\ Tail(q)[i - 1] = q[i] /\ DOMAIN Tail(q) = 1 .. Len(Tail(q))
  BY <1>1, <1>2
<1> QED  BY <1>1, <1>3 DEF Has

LEMMA ContainedInsert ==
    ASSUME IInv, IInv', Contained, NEW s \in Servers, Insert(s)
    PROVE  Contained'
<1>1. /\ Busy(s) /\ at[s] = "flushing" /\ staged[s] # <<>>
      /\ UNCHANGED <<of, finished, scored, board, evidence>>
  BY DEF Insert, Busy
<1>2. /\ Orderly(s) /\ of[s] \in Matches
      /\ staged[s] \in Seq(Events) /\ rows[of[s]] \in Seq(Events)
  BY <1>1, Behind
<1>3. CASE Raises(s, "insert") /\ Goes(s, "failed") /\ UNCHANGED <<rows, staged>>
  <2>1. ~Calm(of[s])'
    BY <1>1, <1>3, Suffered DEF Raises, Calm
  <2>2. Grows(of[s])
    BY <1>3 DEF Grows
  <2> QED  BY <1>1, <1>2, <1>3, <2>1, <2>2, FaresKeep DEF Goes, Places, Late, Fares
<1>4. CASE /\ rows' = [rows EXCEPT ![of[s]] = Append(@, Head(staged[s]))]
           /\ staged' = [staged EXCEPT ![s] = Tail(@)]
           /\ Works /\ UNCHANGED at
  <2>1. /\ Head(staged[s]) \in Events /\ Inserts(of[s], Head(staged[s]))
        /\ staged'[s] = Tail(staged[s])
        /\ \A r \in Servers \ {s} : staged'[r] = staged[r]
        /\ \A m \in Matches \ {of[s]} : rows'[m] = rows[m]
        /\ rows'[of[s]] = Append(rows[of[s]], Head(staged[s]))
    BY <1>1, <1>2, <1>4 DEF Inserts, IInv, Shape
  <2>2. Grows(of[s])
    BY <1>2, <2>1 DEF Grows
  <2>3. Has(staged[s], "scored") \/ Has(rows[of[s]], "scored") =>
          Has(staged'[s], "scored") \/ Has(rows'[of[s]], "scored")
    <3>1. \A f : Has(rows'[of[s]], f) <=> Has(rows[of[s]], f) \/ Head(staged[s]) = f
      BY <1>2, <2>1, HasAppend
    <3>2. ASSUME Has(staged[s], "scored"), Head(staged[s]) # "scored"
          PROVE  Has(staged'[s], "scored")
      BY <1>1, <1>2, <2>1, <3>2, ScoreMoves
    <3> QED  BY <3>1, <3>2
  <2>4. Calm(of[s]) /\ ~raised[s] => Orderly(s)'
    BY <1>1, <1>2, <1>4, <2>3 DEF Orderly, Restating, Judged, Calm, Works
  <2>5. at' = [at EXCEPT ![s] = "flushing"]
    BY <1>1, <1>4 DEF IInv, Shape
  <2> QED  BY <1>1, <1>2, <1>4, <2>1, <2>2, <2>4, <2>5, FaresKeep DEF Places, Late, Fares
<1> QED  BY <1>3, <1>4 DEF Insert

LEMMA ContainedReturn ==
    ASSUME IInv, IInv', Contained, NEW s \in Servers, Return(s)
    PROVE  Contained'
<1>1. /\ Busy(s) /\ at[s] = "flushing" /\ staged[s] = <<>>
      /\ UNCHANGED <<of, finished, rows, scored, raised, trouble, board, evidence>>
  BY DEF Return, Busy, files
<1>2. Orderly(s) /\ Server(s) /\ of[s] \in Matches /\ Grows(of[s])
  BY <1>1, Behind DEF Grows
<1>3. Calm(of[s]) => /\ Has(rows[of[s]], "scored")
                     /\ of[s] \in board /\ of[s] \in evidence /\ ~raised[s]
  BY <1>1, <1>2, HasEmpty DEF Orderly, Judged
<1>4. CASE Stages(s, "ended") /\ Goes(s, "scoring")
  <2>1. Calm(of[s]) /\ at'[s] = "scoring" => Orderly(s)'
    BY <1>1, <1>3 DEF Orderly, Restating, Judged, Calm
  <2>2. \A r \in Servers \ {s} : staged'[r] = staged[r]
    BY <1>4 DEF Stages, IInv, Shape
  <2> QED  BY <1>1, <1>2, <1>4, <2>1, <2>2, FaresKeep DEF Goes, Places, Fares, Works
<1>5. CASE /\ ~(~raised[s] /\ "ended" \notin Range(rows[of[s]]))
           /\ Goes(s, IF raised[s] THEN "failed" ELSE "ended") /\ UNCHANGED staged
  <2>1. ~raised[s] => Has(rows[of[s]], "ended")
    BY <1>5 DEF Range, Has
  <2>2. Calm(of[s]) /\ at'[s] = "ended" => Orderly(s)'
    BY <1>1, <1>3, <2>1 DEF Orderly, Restating, Judged, Calm
  <2>3. CASE raised[s]
    <3>1. ~Calm(of[s])'
      BY <1>1, <1>3, <2>3 DEF Calm
    <3> QED  BY <1>1, <1>2, <1>5, <2>3, <3>1, FaresKeep DEF Goes, Places, Late, Fares, Works
  <2>4. CASE ~raised[s]
    BY <1>1, <1>2, <1>5, <2>2, <2>4, FaresKeep DEF Goes, Places, Late, Fares, Works
  <2> QED  BY <2>3, <2>4
<1> QED  BY <1>4, <1>5 DEF Return

(* A match that begins or comes to its end has passed nothing yet.         *)
LEMMA ContainedStart ==
    ASSUME IInv, IInv', Contained, NEW s \in Servers, Start(s) \/ End(s)
    PROVE  Contained'
<1>1. /\ Busy(s) /\ at[s] \in {"composed", "running"}
      /\ UNCHANGED <<of, finished, scored, raised, trouble, board, evidence>>
  BY DEF Start, End, Busy, files
<1>2. /\ Orderly(s) /\ Server(s) /\ of[s] \in Matches /\ ~scored[s]
      /\ rows[of[s]] \in Seq(Events)
  BY <1>1, Behind DEF Server, Early
<1>3. PICK p \in {"running", "scoring"} : Goes(s, p)
  BY DEF Start, End, Goes
<1>4. at'[s] = p => Orderly(s)' \/ raised[s]
  BY <1>1, <1>2, <1>3 DEF Orderly, Restating, Judged
<1>5. /\ \A r \in Servers \ {s} : staged'[r] = staged[r]
      /\ \A m \in Matches \ {of[s]} : rows'[m] = rows[m]
  BY DEF Start, End, files, IInv, Shape
<1>6. Grows(of[s])
  <2>1. CASE rows' = rows
    BY <2>1 DEF Grows
  <2>2. CASE rows' = [rows EXCEPT ![of[s]] = Append(@, "started")]
    BY <1>2, <2>2 DEF Grows, IInv, Shape, Events
  <2> QED  BY <2>1, <2>2 DEF Start, End, files
<1> QED  BY <1>1, <1>2, <1>3, <1>4, <1>5, <1>6, FaresKeep DEF Goes, Places, Early, Fares, Works

LEMMA ContainedCompose ==
    ASSUME IInv, Contained, NEW s \in Servers, Compose(s)
    PROVE  Contained'
<1>1. /\ ~Busy(s) /\ UNCHANGED <<scored, staged, raised, rows, board, evidence, trouble, finished>>
      /\ of' = [of EXCEPT ![s] = opened + 1] /\ at' = [at EXCEPT ![s] = "composed"]
  BY DEF Compose, Busy, files
<1>2. /\ at'[s] = "composed" /\ ~raised'[s]
      /\ \A r \in Servers \ {s} : at'[r] = at[r] /\ of'[r] = of[r]
  BY <1>1 DEF IInv, Shape, Contained
<1>3. Orderly(s)'
  BY <1>2 DEF Orderly, Restating, Judged
<1>4. \A r \in Servers : IF Busy(r)' THEN Orderly(r)' ELSE ~raised'[r]
  BY <1>1, <1>2, <1>3 DEF Contained, Orderly, Restating, Calm, Busy
<1> QED  BY <1>1, <1>4 DEF Contained, Calm

(* Closing adds a match to those that were played to their end.            *)
LEMMA ContainedForgets ==
    ASSUME IInv, Contained, NEW s \in Servers, Close(s) \/ Crash(s)
    PROVE  Contained'
<1>1. /\ Busy(s) /\ Forgets(s) /\ UNCHANGED <<rows, board, evidence>>
  BY DEF Close, Crash, Busy, files
<1>2. Orderly(s) /\ of[s] \in Matches
  BY <1>1, Behind
<1>3. /\ DOMAIN trouble' = Matches /\ trouble[of[s]] \subseteq trouble'[of[s]]
      /\ \A m \in Matches \ {of[s]} : trouble'[m] = trouble[m]
  BY <1>1, Suffered DEF Close, Crash, Contained
<1>4. /\ at'[s] = "closed" /\ ~raised'[s] /\ raised' \in [Servers -> BOOLEAN]
      /\ \A r \in Servers \ {s} : /\ at'[r] = at[r] /\ of'[r] = of[r] /\ raised'[r] = raised[r]
                                  /\ staged'[r] = staged[r] /\ scored'[r] = scored[r]
  BY <1>1 DEF Forgets, Goes, IInv, Shape, Contained
<1>5. ASSUME NEW r \in Servers
      PROVE  IF Busy(r)' THEN Orderly(r)' ELSE ~raised'[r]
  <2>1. CASE r = s
    BY <1>4, <2>1 DEF Busy
  <2>2. CASE r # s /\ ~Busy(r)
    BY <1>4, <2>2 DEF Busy, Contained
  <2>3. CASE r # s /\ Busy(r)
    <3>1. Orderly(r) /\ of[r] \in Matches \ {of[s]}
      BY <1>1, <2>3 DEF IInv, Owners, Contained
    <3>2. Orderly(r)'
      BY <1>1, <1>3, <1>4, <2>3, <3>1 DEF Orderly, Restating, Calm
    <3> QED  BY <1>4, <2>3, <3>2 DEF Busy
  <2> QED  BY <2>1, <2>2, <2>3
<1>6. ASSUME NEW m \in finished', Calm(m)'
      PROVE  /\ Has(rows[m], "scored") /\ Has(rows[m], "ended")
             /\ m \in board \cap evidence
  <2>1. m \in Matches /\ Calm(m)
    BY <1>2, <1>3, <1>6 DEF Close, Crash, Contained, Calm
  <2>2. CASE m \in finished
    BY <2>1, <2>2 DEF Contained
  <2>3. CASE m \notin finished
    <3>1. m = of[s] /\ at[s] \in {"ended", "failed"}
      BY <1>6, <2>3 DEF Close, Crash
    <3>2. at[s] = "ended"
      BY <1>2, <2>1, <3>1 DEF Orderly
    <3> QED  BY <1>2, <2>1, <3>1, <3>2 DEF Orderly, Judged
  <2> QED  BY <2>2, <2>3
<1>7. finished' \subseteq Matches
  BY <1>2 DEF Close, Crash, Contained
<1> QED  BY <1>1, <1>3, <1>4, <1>5, <1>6, <1>7 DEF Contained

LEMMA ContainedNext == IInv /\ Contained /\ [Next]_vars => Contained'
<1> SUFFICES ASSUME IInv, Contained, [Next]_vars PROVE Contained'
  OBVIOUS
<1>1. IInv'
  BY NextInv
<1>2. CASE UNCHANGED vars
  BY <1>2 DEF vars, memory, files, Contained, Orderly, Restating, Calm, Busy
<1>3. ASSUME NEW s \in Servers,
             \/ Compose(s) \/ Start(s) \/ End(s)
             \/ Score(s) \/ Rank(s) \/ Witness(s) \/ Judge(s)
             \/ CreateRecord(s) \/ WriteRecord(s) \/ Field(s)
             \/ Insert(s) \/ Return(s) \/ Close(s) \/ Crash(s)
      PROVE  Contained'
  BY <1>1, <1>3, ContainedCompose, ContainedStart, ContainedScore, ContainedRank, ContainedWitness,
     ContainedLater, ContainedInsert, ContainedReturn, ContainedForgets
<1> QED  BY <1>2, <1>3 DEF Next

(* A match that suffered nothing but a failed evaluation or lineage write  *)
(* has its terminal rows, its board row and its evidence when it is closed *)
(* (learning/after_match.py): whatever befell other matches.               *)
THEOREM Containment == Spec => []FailuresAreContained
<1>1. Contained => FailuresAreContained
  BY DEF Contained, FailuresAreContained, Calm, Has, Range
<1>2. IInv /\ Contained /\ [Next]_vars => (IInv /\ Contained)'
  BY NextInv, ContainedNext
<1> QED  BY <1>1, <1>2, InitInv, ContainedInit, PTL DEF Spec
=============================================================================
