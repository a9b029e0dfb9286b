------------------------ MODULE BatteryWatch_proofs ------------------------
(***************************************************************************)
(* What the rows, summaries and exit codes of a battery are worth, for any *)
(* plan of seeds, number of channels, launches and matches.                *)
(*                                                                         *)
(* The first half is about the drivers of evidence: Place and Crossing say *)
(* what a row is written for, Books that no seed falls between plan, rows  *)
(* and casualties, LaneIsHonest that a match without a row is always on    *)
(* somebody's list, and Watches that the verdict is about the lane as the  *)
(* driver left it.  The second half is about the adaptation battery, whose *)
(* lane may hold anything when it starts.                                  *)
(***************************************************************************)
EXTENDS BatteryWatch, FiniteSetTheorems, SequenceTheorems, TLAPS

Exited == {"exit0", "exit1", "exit2", "exit3"}
MatchRecord == [seed : Nat, ended : BOOLEAN, gen : Nat, promoted : BOOLEAN]
Summaries == [at : Nat, skips : SUBSET Nat]
Contracts == [min : Nat, max : Nat]

Shape ==
    /\ ledger \in Seq(MatchRecord)
    /\ raw \in Seq([seed : Nat, match : Nat])
    /\ summary \in Summaries /\ kept \in SUBSET Summaries
    /\ exit \in {"none", "alive", "killed"} \cup Exited
    /\ kind \in {"salience", "objectives", "adaptation", "livefire"}
    /\ pc \in {"idle", "wipe", "boot", "next", "flying", "flush", "measure", "recheck"}
    /\ todo \in Seq(Nat) /\ flown \in Seq(Nat) /\ skipped \in SUBSET Nat
    /\ phase \in Phases /\ phaseRows \in [Phases -> Seq(Nat)]
    /\ honest \in BOOLEAN

(* A match is under way from its start to its row.                         *)
InMatch == pc \in {"flying", "flush", "measure"}

(* Where the process stands, and the match it has in hand.                 *)
Place ==
    /\ exit = "alive" <=> pc # "idle"
    /\ pc \in {"wipe", "boot"} => flown = <<>> /\ skipped = {}
    /\ InMatch => /\ ledger # <<>> /\ todo # <<>>
                  /\ ledger[Current].seed = Head(todo)
                  /\ ledger[Current].ended <=> pc # "flying"
    /\ pc = "flush" => kind = "salience"

(* The messages of the match in hand: queued, then taken by the broker.    *)
Crossing ==
    /\ pc = "flying" /\ kind = "salience" => <<Current, "started">> \in flight
    /\ pc = "flush" => Messages(Current) \subseteq flight
    /\ pc = "measure" /\ kind = "salience" => Messages(Current) \subseteq delivered

SeedsOf(q) == {q[i] : i \in DOMAIN q}
Done == {ledger[flown[i]].seed : i \in DOMAIN flown}

(* Every seed asked for has a row of this process, or is recorded as       *)
(* skipped, or is still to fly; no seed is in two of these places.         *)
Balance ==
    /\ plan = Done \cup skipped \cup SeedsOf(todo)
    /\ Done \cap skipped = {}
    /\ SeedsOf(todo) \cap (Done \cup skipped) = {}
    /\ \A i, j \in DOMAIN todo : todo[i] = todo[j] => i = j

FlownMatches == \A i \in DOMAIN flown : flown[i] \in Matches /\ (InMatch => flown[i] # Current)

Books ==
    /\ FlownMatches
    /\ Evidence /\ exit = "alive" => Balance
    /\ SeedsAccountedFor

(* Only announced seeds are ever flown by an evidence driver.              *)
Announced ==
    Evidence => plan \subseteq Seeds /\ \A m \in Matches : ledger[m].seed \in Seeds

(* Every row is the one row of its seed, for a match that is over.         *)
RowsAreMatches ==
    /\ \A i \in DOMAIN raw :
          /\ raw[i].match \in Matches /\ ledger[raw[i].match].ended
          /\ raw[i].seed = ledger[raw[i].match].seed
    /\ \A i, j \in DOMAIN raw : raw[i].seed = raw[j].seed => i = j
    /\ exit = "alive" => RawSeeds \cap (SeedsOf(todo) \cup skipped) = {}

Artifacts == kept \cup {summary}

(* No summary is younger than the match in hand, and what the next summary *)
(* overwrites has been saved.                                              *)
ArtifactsAreOld ==
    /\ \A a \in Artifacts : a.at <= Len(ledger) /\ (InMatch => a.at < Len(ledger))
    /\ exit = "alive" /\ summary.skips # {} => summary \in kept

(* Some summary names the seed and is older than the seed's row.           *)
Excused(s) ==
    \E a \in Artifacts :
        s \in a.skips /\ \A i \in DOMAIN raw : raw[i].seed = s => a.at < raw[i].match

(* A match that ended without a row is the one in hand, or its seed is on  *)
(* this process's list of casualties, or on a summary's.                   *)
Explained(m, s) ==
    \/ InMatch /\ m = Current
    \/ exit = "alive" /\ s \in skipped
    \/ Excused(s)

OrphansAreExcused ==
    \A m \in EndedMatches \ RawMatches, s \in Nat : s = ledger[m].seed => Explained(m, s)

LaneIsHonest ==
    Evidence /\ honest /\ exit # "killed" /\ pc # "wipe" =>
        RowsAreMatches /\ ArtifactsAreOld /\ OrphansAreExcused

WatchRecord ==
    [pc : {"done", "started", "sleep", "notify"}, contract : Contracts, rows : Nat, quiet : Nat,
     state : {"none", "crashed", "incomplete", "completed", "stalled"},
     tried : Nat, told : Nat, chained : BOOLEAN,
     code : {"none", "exit0", "exit1", "exit2", "exit3", "exit4", "raised"}]

(* What the watchdog holds against the driver.                             *)
Watches ==
    /\ watch \in WatchRecord
    /\ watch.pc # "done" => watch.contract = Contract
    /\ watch.pc \in {"started", "sleep"} => watch.state = "none"
    /\ watch.state = "completed" =>
          watch.contract = Contract /\ exit = "exit0" /\ Satisfies(Len(raw))

IInv == Shape /\ Place /\ Crossing /\ Books /\ Announced /\ LaneIsHonest /\ Watches

-----------------------------------------------------------------------------
Promoted(m) == ledger[m].promoted
Rows(p) == phaseRows[p]

(* At most one match of the lane has promoted, and the match in flight     *)
(* flies the generation the chain stands at.                               *)
OnePromotion ==
    /\ \A m \in Matches : Promoted(m) => ledger[m].ended
    /\ \A m, k \in Matches : Promoted(m) /\ Promoted(k) => m = k
    /\ pc = "flying" => ledger[Current].gen = Generation

RowsAreOver ==
    \A p \in Phases : \A i \in DOMAIN Rows(p) :
        Rows(p)[i] \in Matches /\ ledger[Rows(p)[i]].ended

Flown(p) == skipped = {} => Len(Rows(p)) = N
Flying(p) == skipped = {} /\ pc \notin {"wipe", "boot"} => Len(Rows(p)) + Len(todo) = N

(* The promote phase flew up to its first promotion.                       *)
StoppedAtPromotion == \A i \in PromotionsIn("promote") : i = Len(Rows("promote"))

BaselineDone == Flown("baseline") /\ \A i \in DOMAIN Rows("baseline") : Gen(Rows("baseline")[i]) = 0

Phased ==
    /\ pc \in {"wipe", "boot"} => phase = "baseline" /\ Rows("baseline") = <<>>
    /\ phase = "baseline" => Flying("baseline") /\ Rows("promote") = <<>> /\ Rows("post") = <<>>
    /\ phase # "baseline" => BaselineDone /\ StoppedAtPromotion
    /\ phase = "promote" => /\ Rows("post") = <<>>
                            /\ PromotionsIn("promote") # {} => todo = <<>>
    /\ phase = "post" => Flying("post") /\ PromotionsIn("promote") # {}

AInv ==
    kind = "adaptation" => /\ OnePromotion /\ RowsAreOver
                           /\ exit = "alive" => Phased
                           /\ BeforeAfterIsPure

-----------------------------------------------------------------------------
(* The ledger, and the lists that are appended to and taken from.          *)

LEMMA GenerationIsNat ==
    ASSUME Shape PROVE Generation \in Nat
<1>1. Len(ledger) \in Nat
  BY LenProperties DEF Shape
<1>2. IsFiniteSet(Matches)
  BY <1>1, FS_Interval DEF Matches
<1>3. {m \in Matches : ledger[m].promoted} \in SUBSET Matches
  OBVIOUS
<1>4. IsFiniteSet({m \in Matches : ledger[m].promoted})
  BY <1>2, <1>3, FS_Subset
<1> QED  BY <1>4, FS_CardinalityType DEF Generation

LEMMA OneMore ==
    ASSUME NEW S, NEW s \in Seq(S), NEW x \in S
    PROVE  /\ Append(s, x) \in Seq(S) /\ Append(s, x) # <<>>
           /\ Len(s) \in Nat /\ Len(Append(s, x)) = Len(s) + 1
           /\ DOMAIN s = 1 .. Len(s) /\ DOMAIN Append(s, x) = 1 .. Len(s) + 1
           /\ \A i \in 1 .. Len(s) : Append(s, x)[i] = s[i]
           /\ Append(s, x)[Len(s) + 1] = x
<1> QED  BY AppendProperties, LenProperties

LEMMA OneLess ==
    ASSUME NEW S, NEW s \in Seq(S), s # <<>>
    PROVE  /\ Head(s) \in S /\ Tail(s) \in Seq(S) /\ Head(s) = s[1]
           /\ Len(s) \in Nat /\ Len(s) >= 1 /\ Len(Tail(s)) = Len(s) - 1
           /\ DOMAIN s = 1 .. Len(s) /\ DOMAIN Tail(s) = 1 .. Len(s) - 1
           /\ \A i \in 1 .. Len(s) - 1 : Tail(s)[i] = s[i + 1]
<1>1. Len(s) \in Nat /\ Len(s) # 0 /\ DOMAIN s = 1 .. Len(s)
  BY LenProperties, EmptySeq
<1>2. Tail(s) \in Seq(S) /\ Len(Tail(s)) = Len(s) - 1 /\ Head(s) \in S
      /\ \A i \in 1 .. Len(Tail(s)) : Tail(s)[i] = s[i + 1]
  BY HeadTailProperties
<1> QED  BY <1>1, <1>2, LenProperties

LEMMA StartedLedger ==
    ASSUME Shape, NEW s \in Nat, ledger' = Started(s)
    PROVE  /\ ledger' \in Seq(MatchRecord) /\ Len(ledger) \in Nat
           /\ Len(ledger') = Len(ledger) + 1 /\ ledger' # <<>>
           /\ Matches' = Matches \cup {Len(ledger) + 1}
           /\ Len(ledger) + 1 \notin Matches
           /\ \A m \in Matches : ledger'[m] = ledger[m]
           /\ ledger'[Len(ledger) + 1] =
                  [seed |-> s, ended |-> FALSE, gen |-> Generation, promoted |-> FALSE]
<1> DEFINE new == [seed |-> s, ended |-> FALSE, gen |-> Generation, promoted |-> FALSE]
<1>1. new \in MatchRecord
  BY GenerationIsNat DEF MatchRecord
<1>2. ledger' = Append(ledger, new)
  BY DEF Started
<1> HIDE DEF new
<1>3. /\ ledger' \in Seq(MatchRecord) /\ ledger' # <<>>
      /\ Len(ledger) \in Nat /\ Len(ledger') = Len(ledger) + 1
      /\ \A i \in 1 .. Len(ledger) : ledger'[i] = ledger[i]
      /\ ledger'[Len(ledger) + 1] = new
  <2>1. ledger \in Seq(MatchRecord)
    BY DEF Shape
  <2>2. /\ Append(ledger, new) \in Seq(MatchRecord) /\ Append(ledger, new) # <<>>
        /\ Len(ledger) \in Nat /\ Len(Append(ledger, new)) = Len(ledger) + 1
        /\ \A i \in 1 .. Len(ledger) : Append(ledger, new)[i] = ledger[i]
        /\ Append(ledger, new)[Len(ledger) + 1] = new
    BY <1>1, <2>1, OneMore
  <2> QED  BY <1>2, <2>2
<1> QED  BY <1>3 DEF Matches, new

LEMMA FieldsOfAMatch ==
    ASSUME NEW r \in MatchRecord, NEW p \in BOOLEAN
    PROVE  /\ [r EXCEPT !.ended = TRUE] \in MatchRecord
           /\ [r EXCEPT !.ended = TRUE].seed = r.seed
           /\ [r EXCEPT !.ended = TRUE].gen = r.gen
           /\ [r EXCEPT !.ended = TRUE].ended
           /\ [r EXCEPT !.promoted = p] \in MatchRecord
           /\ [r EXCEPT !.promoted = p].seed = r.seed
           /\ [r EXCEPT !.promoted = p].gen = r.gen
           /\ [r EXCEPT !.promoted = p].ended = r.ended
           /\ [r EXCEPT !.promoted = p].promoted = p
<1> QED  BY DEF MatchRecord

LEMMA EndedLedger ==
    ASSUME Shape, ledger # <<>>, NEW p \in BOOLEAN, ledger' = Ended(Current, p)
    PROVE  /\ ledger' \in Seq(MatchRecord) /\ ledger' # <<>> /\ Current \in Matches
           /\ Len(ledger) \in Nat /\ Len(ledger') = Len(ledger)
           /\ Matches' = Matches /\ Current' = Current
           /\ \A m \in Matches : m # Current => ledger'[m] = ledger[m]
           /\ ledger'[Current].seed = ledger[Current].seed
           /\ ledger'[Current].gen = ledger[Current].gen
           /\ ledger'[Current].ended /\ ledger'[Current].promoted = p
<1>1. Len(ledger) \in Nat \ {0} /\ ledger \in [1 .. Len(ledger) -> MatchRecord]
  BY EmptySeq, LenProperties DEF Shape
<1> DEFINE c == Len(ledger)
           r == ledger[c]
           a == [r EXCEPT !.ended = TRUE]
           b == [a EXCEPT !.promoted = p]
<1>2. c \in 1 .. Len(ledger) /\ r \in MatchRecord
  BY <1>1
<1>3. a \in MatchRecord /\ a.seed = r.seed /\ a.gen = r.gen /\ a.ended
  <2> HIDE DEF r, c
  <2> QED  BY <1>2, FieldsOfAMatch
<1>4. b \in MatchRecord /\ b.seed = a.seed /\ b.gen = a.gen /\ b.ended = a.ended /\ b.promoted = p
  <2> HIDE DEF a
  <2> QED  BY <1>3, FieldsOfAMatch
<1>5. ledger' = [ledger EXCEPT ![c] = b]
  BY <1>1, <1>2 DEF Ended, Current
<1> HIDE DEF a, b
<1>7. /\ ledger' \in Seq(MatchRecord) /\ Len(ledger') = Len(ledger)
      /\ \A j \in 1 .. Len(ledger) : ledger'[j] = IF j = c THEN b ELSE ledger[j]
  BY <1>2, <1>4, <1>5, ExceptSeq DEF Shape
<1>8. ledger' # <<>>
  BY <1>1, <1>7, EmptySeq
<1>9. ledger'[c] = b
  BY <1>2, <1>7
<1>10. Current = c /\ Current' = c /\ Matches' = Matches /\ Current \in Matches
  BY <1>2, <1>7 DEF Current, Matches
<1>11. \A m \in Matches : m # Current => ledger'[m] = ledger[m]
  BY <1>7, <1>10 DEF Matches
<1>12. /\ ledger'[Current].seed = ledger[Current].seed
       /\ ledger'[Current].gen = ledger[Current].gen
       /\ ledger'[Current].ended /\ ledger'[Current].promoted = p
  BY <1>3, <1>4, <1>9, <1>10
<1> QED  BY <1>1, <1>7, <1>8, <1>10, <1>11, <1>12

LEMMA RequestsAreRanges ==
    ASSUME NEW r \in Requests
    PROVE  /\ r[1] \in Nat /\ r[2] \in Nat
           /\ InOrder(r) \in Seq(Nat) /\ Len(InOrder(r)) = r[2]
           /\ DOMAIN InOrder(r) = 1 .. r[2]
           /\ \A i \in 1 .. r[2] : InOrder(r)[i] = r[1] + i
           /\ Asked(r) = SeedsOf(InOrder(r))
           /\ Evidence => Asked(r) \subseteq Seeds
           /\ ~Evidence => InOrder(r) = <<>>
<1>1. r[1] \in Nat /\ r[2] \in Nat /\ (~Evidence => r[2] = 0)
  <2>1. CASE Evidence
    BY <2>1, SeedsAssumption DEF Requests
  <2>2. CASE ~Evidence
    BY <2>2 DEF Requests
  <2> QED  BY <2>1, <2>2
<1>2. \A i \in 1 .. r[2] : r[1] + i \in Nat
  BY <1>1
<1>3. InOrder(r) \in [1 .. r[2] -> Nat]
  BY <1>2 DEF InOrder
<1>4. InOrder(r) \in Seq(Nat) /\ Len(InOrder(r)) = r[2]
  BY <1>1, <1>3
<1>5. Asked(r) = SeedsOf(InOrder(r))
  <2>1. ASSUME NEW s \in Asked(r) PROVE s \in SeedsOf(InOrder(r))
    <3>1. s - r[1] \in 1 .. r[2] /\ r[1] + (s - r[1]) = s
      BY <1>1, <2>1 DEF Asked
    <3> QED  BY <3>1, <1>3 DEF SeedsOf, InOrder
  <2>2. ASSUME NEW s \in SeedsOf(InOrder(r)) PROVE s \in Asked(r)
    <3>1. PICK i \in 1 .. r[2] : s = r[1] + i
      BY <2>2, <1>3 DEF SeedsOf, InOrder
    <3> QED  BY <1>1, <3>1 DEF Asked
  <2> QED  BY <2>1, <2>2
<1>6. Evidence => Asked(r) \subseteq Seeds
  BY <1>1, SeedsAssumption DEF Asked, Seeds, Requests
<1>7. ~Evidence => InOrder(r) = <<>>
  BY <1>1, <1>4, EmptySeq
<1> QED  BY <1>1, <1>3, <1>4, <1>5, <1>6, <1>7 DEF InOrder

LEMMA PhaseSeedsAreSeeds ==
    ASSUME NEW p \in Phases
    PROVE  /\ PhaseSeeds(p) \in Seq(Nat)
           /\ kind = "adaptation" /\ p # "promote" => Len(PhaseSeeds(p)) = N
<1> DEFINE n == IF p = "promote" THEN Attempts ELSE IF kind = "livefire" THEN 1 ELSE N
<1>1. n \in Nat /\ Block(p) \in Nat
  BY AdaptationAssumption DEF Phases, Block
<1>2. PhaseSeeds(p) \in [1 .. n -> Nat]
  BY <1>1 DEF PhaseSeeds
<1>3. PhaseSeeds(p) \in Seq(Nat) /\ Len(PhaseSeeds(p)) = n
  <2> HIDE DEF n
  <2> QED  BY <1>1, <1>2
<1> QED  BY <1>3

(* A summary and a row are what their readers take them for.               *)
LEMMA RecordsAreTyped ==
    ASSUME Shape
    PROVE  /\ [at |-> Len(ledger), skips |-> skipped] \in Summaries
           /\ NoSummary \in Summaries
           /\ ledger # <<>> => Row(Current) \in [seed : Nat, match : Nat]
           /\ ledger # <<>> => Current \in Matches /\ ledger[Current] \in MatchRecord
           /\ Len(ledger) \in Nat /\ Current \in Nat
<1>1. Len(ledger) \in Nat /\ (ledger # <<>> => Len(ledger) # 0)
      /\ ledger \in [1 .. Len(ledger) -> MatchRecord]
  BY EmptySeq, LenProperties DEF Shape
<1> QED  BY <1>1 DEF Shape, Summaries, NoSummary, Row, Current, MatchRecord, Matches

-----------------------------------------------------------------------------
(* The types.                                                              *)

LEMMA InitShape == Init => Shape
<1> QED
  BY WatchAssumption, EmptySeq
  DEF Init, LaneInit, DriverInit, AdaptationInit, Shape, NoSummary, Summaries, NoRows, Phases

LEMMA CasualtyShape ==
    ASSUME Shape, todo # <<>>, NEW m, Casualty(m), ledger' \in Seq(MatchRecord),
           phases' = phases, honest' = honest
    PROVE  Shape'
<1>1. Head(todo) \in Nat /\ Tail(todo) \in Seq(Nat)
  BY OneLess DEF Shape
<1> QED  BY <1>1 DEF Shape, Casualty, phases

LEMMA EvidenceShape ==
    ASSUME Shape, Place, EvidenceNext, UNCHANGED <<phases, honest>> PROVE Shape'
<1>1. CASE Wipe
  BY <1>1, EmptySeq, RecordsAreTyped DEF Wipe, Shape, producer, phases
<1>2. CASE Preflight
  BY <1>2 DEF Preflight, Shape, Exits, Exited, lane, producer, phases
<1>3. CASE AssemblyFails
  BY <1>3, CasualtyShape DEF AssemblyFails, Shape
<1>4. CASE StartMatch
  <2>1. Head(todo) \in Nat /\ todo # <<>>
    BY <1>4, OneLess DEF StartMatch, Shape
  <2>2. ledger' \in Seq(MatchRecord)
    BY <1>4, <2>1, StartedLedger DEF StartMatch
  <2>3. CASE Casualty({Current + 1})
    BY <2>1, <2>2, <2>3, CasualtyShape
  <2>4. CASE pc' = "flying" /\ UNCHANGED <<exit, kind, todo, flown, skipped, casualties, raw, summary, kept>>
    BY <2>2, <2>4 DEF Shape, phases
  <2> QED  BY <1>4, <2>3, <2>4 DEF StartMatch
<1>5. CASE MatchDies
  BY <1>5, CasualtyShape DEF MatchDies, Shape, Place, InMatch
<1>6. CASE MatchEnds
  <2>1. todo # <<>> /\ ledger # <<>>
    BY <1>6 DEF MatchEnds, Place, InMatch
  <2>2. ledger' \in Seq(MatchRecord)
    BY <1>6, <2>1, EndedLedger DEF MatchEnds
  <2>3. CASE Casualty({Current})
    BY <2>1, <2>2, <2>3, CasualtyShape
  <2>4. CASE pc' \in {"measure", "flush"}
             /\ UNCHANGED <<exit, kind, todo, flown, skipped, casualties, raw, summary, kept>>
    BY <2>2, <2>4 DEF Shape, phases
  <2> QED  BY <1>6, <2>3, <2>4 DEF MatchEnds
<1>7. CASE Flush
  <2>1. todo # <<>> /\ ledger' = ledger
    BY <1>7 DEF Flush, Place, InMatch
  <2>2. CASE Casualty({Current})
    BY <2>1, <2>2, CasualtyShape DEF Shape
  <2>3. CASE pc' = "measure" /\ UNCHANGED <<exit, kind, todo, flown, skipped, casualties, raw, summary, kept>>
    BY <2>1, <2>3 DEF Shape, phases
  <2> QED  BY <1>7, <2>2, <2>3 DEF Flush
<1>8. CASE Measure
  <2>1. todo # <<>> /\ ledger' = ledger /\ ledger # <<>>
    BY <1>8 DEF Measure, Place, InMatch
  <2>2. CASE Casualty({Current})
    BY <2>1, <2>2, CasualtyShape DEF Shape
  <2>3. CASE /\ raw' = Append(raw, Row(Current)) /\ flown' = Append(flown, Current)
             /\ todo' = Tail(todo) /\ pc' \in {"recheck", "next"}
             /\ UNCHANGED <<exit, kind, skipped, casualties, summary, kept>>
    <3>1. Row(Current) \in [seed : Nat, match : Nat] /\ Current \in Nat
      BY <2>1, RecordsAreTyped
    <3>2. raw' \in Seq([seed : Nat, match : Nat])
      BY <2>3, <3>1, OneMore DEF Shape
    <3>3. flown' \in Seq(Nat) /\ todo' \in Seq(Nat)
      BY <2>1, <2>3, <3>1, OneMore, OneLess DEF Shape
    <3> QED  BY <2>1, <2>3, <3>2, <3>3 DEF Shape, phases
  <2> QED  BY <1>8, <2>2, <2>3 DEF Measure
<1>9. CASE Recheck \/ Finish
  BY <1>9, RecordsAreTyped
  DEF Recheck, Finish, Shape, Exits, Exited, ExitCode, WriteSummary, producer, phases
<1> QED  BY <1>1, <1>2, <1>3, <1>4, <1>5, <1>6, <1>7, <1>8, <1>9 DEF EvidenceNext

LEMMA EnterShape ==
    ASSUME Shape, NEW p \in Phases, Enter(p), UNCHANGED honest PROVE Shape'
<1> QED  BY PhaseSeedsAreSeeds DEF Enter, Shape, lane, producer

LEMMA LeaveShape ==
    ASSUME Shape, NEW c \in Exited, AbortsWith(c) \/ EndsWith(c), UNCHANGED honest
    PROVE  Shape'
<1> QED
  BY RecordsAreTyped
  DEF AbortsWith, EndsWith, Exits, WriteSummary, Shape, lane, producer, phases

LEMMA AdaptationShape ==
    ASSUME Shape, Place, AdaptationNext, UNCHANGED honest PROVE Shape'
<1>1. CASE EnterFirst \/ EndBaseline \/ EndPromote \/ EndPost
  BY <1>1, EnterShape, LeaveShape
  DEF EnterFirst, EndBaseline, EndPromote, EndPost, Exited, Phases, ExitCode
<1>2. CASE NoMatch \/ Falls
  BY <1>2, CasualtyShape DEF NoMatch, Falls, Shape, Place, InMatch
<1>3. CASE Fly
  <2>1. Head(todo) \in Nat
    BY <1>3, OneLess DEF Fly, Shape
  <2>2. ledger' \in Seq(MatchRecord)
    BY <1>3, <2>1, StartedLedger DEF Fly
  <2> QED  BY <1>3, <2>2 DEF Fly, Shape, phases
<1>4. CASE Lands
  <2>1. ledger' \in Seq(MatchRecord)
    BY <1>4, EndedLedger DEF Lands, Place, InMatch
  <2> QED  BY <1>4, <2>1 DEF Lands, Shape, phases
<1>5. CASE MeasureMatch
  <2>1. todo # <<>> /\ ledger # <<>>
    BY <1>5 DEF MeasureMatch, Place, InMatch
  <2>2. CASE Casualty({Current}) /\ UNCHANGED <<ledger, producer, phases>>
    BY <2>1, <2>2, CasualtyShape DEF Shape
  <2>3. CASE AbortsWith("exit1")
    BY <2>3, LeaveShape DEF Exited
  <2>4. CASE /\ raw' = Append(raw, Row(Current)) /\ flown' = Append(flown, Current)
             /\ phaseRows' = [phaseRows EXCEPT ![phase] = Append(@, Current)]
             /\ todo' = Remaining /\ pc' = "next"
             /\ UNCHANGED <<exit, kind, skipped, casualties, summary, kept, ledger, producer, phase>>
    <3>1. Row(Current) \in [seed : Nat, match : Nat] /\ Current \in Nat
      BY <2>1, RecordsAreTyped
    <3>2. raw' \in Seq([seed : Nat, match : Nat]) /\ flown' \in Seq(Nat)
      BY <2>4, <3>1, OneMore DEF Shape
    <3>3. Append(phaseRows[phase], Current) \in Seq(Nat)
      BY <3>1, OneMore DEF Shape
    <3>4. phaseRows' \in [Phases -> Seq(Nat)]
      BY <2>4, <3>3 DEF Shape
    <3>5. todo' \in Seq(Nat)
      BY <2>1, <2>4, OneLess, EmptySeq DEF Shape, Remaining
    <3> QED  BY <2>4, <3>2, <3>4, <3>5 DEF Shape
  <2> QED  BY <1>5, <2>2, <2>3, <2>4 DEF MeasureMatch
<1> QED  BY <1>1, <1>2, <1>3, <1>4, <1>5 DEF AdaptationNext

LEMMA StepShape ==
    ASSUME Shape, Place, [Next]_vars PROVE Shape'
<1>1. CASE \E r \in Requests, wipe \in BOOLEAN : Launch(r, wipe)
  <2>1. PICK r \in Requests, wipe \in BOOLEAN : Launch(r, wipe)
    BY <1>1
  <2>2. todo' \in Seq(Nat) /\ <<>> \in Seq(Nat)
    BY <2>1, RequestsAreRanges, EmptySeq DEF Launch
  <2>3. NoRows \in [Phases -> Seq(Nat)] /\ "baseline" \in Phases
    BY <2>2 DEF NoRows, Phases
  <2> QED  BY <2>1, <2>2, <2>3 DEF Launch, Shape, lane, ByTheBook
<1>2. CASE Refuse
  BY <1>2 DEF Refuse, Shape, lane, process, phases
<1>3. CASE Saves
  BY <1>3 DEF Saves, Preserve, Shape, process, phases
<1>4. CASE Drives
  BY <1>4, EvidenceShape, AdaptationShape DEF Drives
<1>5. CASE Dies
  BY <1>5 DEF Dies, Exits, Shape, lane, phases
<1>6. CASE Supervises
  BY <1>6
  DEF Supervises, FirstCount, Progress, Quiet, Stall, Notify, Conclude, Watching, DriverKeeps,
      Exits, Shape, lane, process, phases
<1>7. CASE UNCHANGED vars
  BY <1>7 DEF vars, Shape, lane, process, phases
<1> QED  BY <1>1, <1>2, <1>3, <1>4, <1>5, <1>6, <1>7 DEF Next, Operates

-----------------------------------------------------------------------------
(* Where the process stands.                                               *)

LEMMA KindIsFixed ==
    ASSUME [Next]_vars PROVE kind' = kind /\ Evidence' = Evidence
<1>1. kind' = kind
  <2>1. CASE EvidenceNext
    BY <2>1
    DEF EvidenceNext, Wipe, Preflight, AssemblyFails, StartMatch, MatchDies, MatchEnds, Flush,
        Measure, Recheck, Finish, Casualty
  <2>2. CASE AdaptationNext
    BY <2>2
    DEF AdaptationNext, EnterFirst, NoMatch, Fly, Falls, Lands, MeasureMatch, EndBaseline,
        EndPromote, EndPost, Casualty, Enter, AbortsWith, EndsWith
  <2>3. CASE Operates \/ Dies \/ Supervises
    BY <2>3
    DEF Operates, Launch, Refuse, Saves, Dies, Supervises, FirstCount, Progress, Quiet, Stall,
        Notify, Conclude, DriverKeeps, process
  <2>4. CASE UNCHANGED vars
    BY <2>4 DEF vars, process
  <2> QED  BY <2>1, <2>2, <2>3, <2>4 DEF Next, Drives
<1> QED  BY <1>1 DEF Evidence

(* A step that leaves the driver where it is.                              *)
LEMMA DriverStands ==
    ASSUME Place, UNCHANGED <<ledger, exit, kind, todo, pc, flown, skipped>> PROVE Place'
<1> QED  BY DEF Place, InMatch, Current

(* A process that takes up the next seed has no match in hand.             *)
LEMMA NextSeed ==
    ASSUME exit = "alive", exit' = exit, pc' \in {"next", "recheck"} PROVE Place'
<1> QED  BY DEF Place, InMatch

LEMMA TakesOff ==
    ASSUME Shape, todo # <<>>, ledger' = Started(Head(todo)), exit = "alive",
           pc' = "flying", UNCHANGED <<exit, todo>>
    PROVE  Place'
<1>1. Head(todo) \in Nat
  BY OneLess DEF Shape
<1>2. /\ Len(ledger) \in Nat /\ Len(ledger') = Len(ledger) + 1 /\ ledger' # <<>>
      /\ ledger'[Len(ledger) + 1] =
             [seed |-> Head(todo), ended |-> FALSE, gen |-> Generation, promoted |-> FALSE]
  BY <1>1, StartedLedger
<1>3. ledger'[Current'].seed = Head(todo)' /\ ~ ledger'[Current'].ended
  BY <1>2 DEF Current
<1> QED  BY <1>2, <1>3 DEF Place, InMatch

LEMMA ComesDown ==
    ASSUME Shape, Place, pc = "flying", NEW p \in BOOLEAN, ledger' = Ended(Current, p),
           pc' = "measure" \/ (pc' = "flush" /\ kind' = "salience"), UNCHANGED <<exit, todo>>
    PROVE  Place'
<1>1. ledger # <<>> /\ todo # <<>> /\ ledger[Current].seed = Head(todo) /\ exit = "alive"
  BY DEF Place, InMatch
<1>2. /\ ledger' # <<>> /\ ledger'[Current].seed = ledger[Current].seed /\ ledger'[Current].ended
      /\ Current' = Current
  BY <1>1, EndedLedger
<1> QED  BY <1>1, <1>2 DEF Place, InMatch

LEMMA EvidencePlace ==
    ASSUME Shape, Place, exit = "alive", EvidenceNext PROVE Place'
<1>1. CASE Wipe
  BY <1>1 DEF Wipe, Place, InMatch
<1>2. CASE Preflight
  BY <1>2 DEF Preflight, Exits, Place, InMatch
<1>3. CASE AssemblyFails \/ MatchDies
  BY <1>3, NextSeed DEF AssemblyFails, MatchDies, Casualty
<1>4. CASE StartMatch
  <2>1. CASE Casualty({Current + 1})
    BY <2>1, NextSeed DEF Casualty
  <2>2. CASE pc' = "flying" /\ UNCHANGED <<exit, kind, todo, flown, skipped, casualties, raw, summary, kept>>
    BY <1>4, <2>2, TakesOff DEF StartMatch
  <2> QED  BY <1>4, <2>1, <2>2 DEF StartMatch
<1>5. CASE MatchEnds
  <2>1. CASE Casualty({Current})
    BY <2>1, NextSeed DEF Casualty
  <2>2. CASE /\ pc' = "measure" \/ (pc' = "flush" /\ kind = "salience")
             /\ UNCHANGED <<exit, kind, todo, flown, skipped, casualties, raw, summary, kept>>
    BY <1>5, <2>2, ComesDown DEF MatchEnds
  <2> QED  BY <1>5, <2>1, <2>2 DEF MatchEnds
<1>6. CASE Flush
  <2>1. CASE Casualty({Current})
    BY <2>1, NextSeed DEF Casualty
  <2>2. CASE pc' = "measure" /\ UNCHANGED <<exit, kind, todo, flown, skipped, casualties, raw, summary, kept>>
    BY <1>6, <2>2 DEF Flush, Place, InMatch, Current
  <2> QED  BY <1>6, <2>1, <2>2 DEF Flush
<1>7. CASE Measure
  BY <1>7, NextSeed DEF Measure, Casualty
<1>8. CASE Recheck \/ Finish
  BY <1>8 DEF Recheck, Finish, Exits, ExitCode, Place, InMatch
<1> QED  BY <1>1, <1>2, <1>3, <1>4, <1>5, <1>6, <1>7, <1>8 DEF EvidenceNext

LEMMA Leaves ==
    ASSUME NEW c, c # "alive", Exits(c) PROVE Place'
<1> QED  BY DEF Exits, Place, InMatch

LEMMA AdaptationPlace ==
    ASSUME Shape, Place, exit = "alive", AdaptationNext PROVE Place'
<1>1. CASE EnterFirst \/ EndBaseline \/ EndPromote \/ EndPost
  <2>1. CASE \E p \in Phases : Enter(p)
    BY <2>1, NextSeed DEF Enter
  <2>2. CASE \E c \in Exited : AbortsWith(c) \/ EndsWith(c)
    <3>1. PICK c \in Exited : Exits(c)
      BY <2>2 DEF AbortsWith, EndsWith
    <3> QED  BY <3>1, Leaves DEF Exited
  <2> QED
    BY <1>1, <2>1, <2>2
    DEF EnterFirst, EndBaseline, EndPromote, EndPost, Exited, ExitCode, Phases
<1>2. CASE NoMatch \/ Falls
  BY <1>2, NextSeed DEF NoMatch, Falls, Casualty
<1>3. CASE Fly
  BY <1>3, TakesOff DEF Fly
<1>4. CASE Lands
  BY <1>4, ComesDown DEF Lands
<1>5. CASE MeasureMatch
  BY <1>5, NextSeed, Leaves DEF MeasureMatch, Casualty, AbortsWith
<1> QED  BY <1>1, <1>2, <1>3, <1>4, <1>5 DEF AdaptationNext

LEMMA StepPlace ==
    ASSUME Shape, Place, [Next]_vars PROVE Place'
<1>1. CASE \E r \in Requests, wipe \in BOOLEAN : Launch(r, wipe)
  BY <1>1 DEF Launch, Place, InMatch
<1>2. CASE Refuse \/ Saves \/ FirstCount \/ Progress \/ Quiet \/ Notify \/ Conclude \/ UNCHANGED vars
  BY <1>2, DriverStands
  DEF Refuse, Saves, Preserve, FirstCount, Progress, Quiet, Notify, Conclude, DriverKeeps,
      vars, process, lane
<1>3. CASE Drives
  BY <1>3, EvidencePlace, AdaptationPlace DEF Drives
<1>4. CASE Dies \/ Stall
  <2>1. CASE Exits("killed")
    BY <2>1, Leaves
  <2>2. CASE UNCHANGED <<exit, pc>>
    BY <1>4, <2>2, DriverStands DEF Dies, Stall, lane, Exits
  <2> QED  BY <1>4, <2>1, <2>2 DEF Dies, Stall
<1> QED  BY <1>1, <1>2, <1>3, <1>4 DEF Next, Operates, Supervises

LEMMA InitPlace == Init => Place
<1> QED  BY DEF Init, DriverInit, Place, InMatch

-----------------------------------------------------------------------------
(* The messages of the match in hand.                                      *)

LEMMA InitCrossing == Init => Crossing
<1> QED  BY DEF Init, DriverInit, Crossing

LEMMA StepCrossing ==
    ASSUME Shape, Place, Crossing, [Next]_vars PROVE Crossing'
<1>1. kind' = kind
  BY KindIsFixed
<1>2. CASE StartMatch
  <2>1. Current' = Current + 1
    <3>1. Head(todo) \in Nat
      BY <1>2, OneLess DEF StartMatch, Shape
    <3> QED  BY <1>2, <3>1, StartedLedger DEF StartMatch, Current
  <2> QED  BY <1>1, <1>2, <2>1 DEF StartMatch, Casualty, Crossing
<1>3. CASE MatchEnds
  <2>1. Current' = Current
    BY <1>3, EndedLedger DEF MatchEnds, Place, InMatch
  <2>2. kind = "salience" => <<Current, "started">> \in flight
    BY <1>3 DEF MatchEnds, Crossing
  <2> QED  BY <1>1, <1>3, <2>1, <2>2 DEF MatchEnds, Casualty, Crossing, Messages
<1>4. CASE Flush
  <2>1. Current' = Current
    BY <1>4 DEF Flush, Current
  <2>2. CASE pc' = "measure"
    <3>1. PICK good \in SUBSET flight : \E bad \in SUBSET (flight \ good) :
              /\ flight \ (good \cup bad) = {} /\ errors \cup bad = {}
              /\ delivered' = delivered \cup {g \in good : g[1] = Current}
      BY <1>4, <2>2 DEF Flush, Casualty
    <3>2. Messages(Current) \subseteq good
      BY <1>4, <3>1 DEF Flush, Crossing
    <3>3. \A g \in Messages(Current) : g[1] = Current
      BY DEF Messages
    <3>4. Messages(Current') \subseteq delivered'
      BY <2>1, <3>1, <3>2, <3>3
    <3> QED  BY <2>2, <3>4 DEF Crossing
  <2>3. CASE pc' = "next"
    BY <2>3 DEF Crossing
  <2> QED  BY <1>4, <2>2, <2>3 DEF Flush, Casualty
<1>5. CASE pc' \notin {"flying", "flush", "measure"}
  BY <1>5 DEF Crossing
<1>6. CASE UNCHANGED <<ledger, pc, producer>>
  BY <1>1, <1>6 DEF Crossing, producer, Current
<1>7. CASE AdaptationNext
  <2>1. kind # "salience" /\ pc' # "flush"
    BY <1>7, <1>1
    DEF AdaptationNext, EnterFirst, NoMatch, Fly, Falls, Lands, MeasureMatch, EndBaseline,
        EndPromote, EndPost, PhaseOver, Adaptation, Casualty, Enter, AbortsWith, EndsWith, Exits,
        ExitCode
  <2> QED  BY <1>1, <2>1 DEF Crossing
<1>8. CASE EvidenceNext
  BY <1>2, <1>3, <1>4, <1>5, <1>8
  DEF EvidenceNext, Wipe, Preflight, AssemblyFails, MatchDies, Measure, Recheck, Finish, Casualty,
      Exits
<1>9. CASE Operates
  BY <1>5, <1>6, <1>9 DEF Operates, Launch, Refuse, Saves, Preserve, process, producer, lane
<1>10. CASE Dies \/ Supervises
  BY <1>5, <1>6, <1>10
  DEF Dies, Supervises, FirstCount, Progress, Quiet, Stall, Notify, Conclude, DriverKeeps,
      process, producer, lane, Exits
<1>11. CASE UNCHANGED vars
  BY <1>6, <1>11 DEF vars, process, producer, lane
<1> QED  BY <1>7, <1>8, <1>9, <1>10, <1>11 DEF Next, Drives

(* A row is written only for a match that is over in the ledger, and by    *)
(* the salience driver only once the broker has taken every terminal event *)
(* of it (scripts/run_display_salience_battery.py:488).                    *)
THEOREM RowsAlwaysEvidence == Spec => RowsAreEvidence
<1> DEFINE Good == Shape /\ Place /\ Crossing
<1>1. Init => Good
  BY InitShape, InitPlace, InitCrossing
<1>2. Good /\ [Next]_vars => Good'
  BY StepShape, StepPlace, StepCrossing
<1>3. Good /\ [Next]_vars =>
         [raw' # raw /\ raw' # <<>> =>
             /\ ledger[Current].ended
             /\ raw' = Append(raw, Row(Current))
             /\ kind = "salience" => Messages(Current) \subseteq delivered]_vars
  <2> SUFFICES ASSUME Shape, Place, Crossing, [Next]_vars, raw' # raw, raw' # <<>>
               PROVE  /\ ledger[Current].ended
                      /\ raw' = Append(raw, Row(Current))
                      /\ kind = "salience" => Messages(Current) \subseteq delivered
    OBVIOUS
  <2>1. CASE EvidenceNext
    <3>1. Measure /\ raw' = Append(raw, Row(Current))
      BY <2>1
      DEF EvidenceNext, Wipe, Preflight, AssemblyFails, StartMatch, MatchDies, MatchEnds, Flush,
          Measure, Recheck, Finish, Casualty, lane
    <3> QED  BY <3>1 DEF Measure, Place, InMatch, Crossing
  <2>2. CASE AdaptationNext
    <3>1. MeasureMatch /\ raw' = Append(raw, Row(Current))
      BY <2>2
      DEF AdaptationNext, EnterFirst, NoMatch, Fly, Falls, Lands, MeasureMatch, EndBaseline,
          EndPromote, EndPost, Casualty, Enter, AbortsWith, EndsWith, lane
    <3> QED  BY <3>1 DEF MeasureMatch, Adaptation, Place, InMatch, Crossing
  <2>3. CASE Operates \/ Dies \/ Supervises
    BY <2>3
    DEF Operates, Launch, Refuse, Saves, Preserve, Dies, Supervises, FirstCount, Progress, Quiet,
        Stall, Notify, Conclude, DriverKeeps, lane
  <2>4. CASE UNCHANGED vars
    BY <2>4 DEF vars, lane
  <2> QED  BY <2>1, <2>2, <2>3, <2>4 DEF Next, Drives
<1> QED  BY <1>1, <1>2, <1>3, PTL DEF Spec, RowsAreEvidence

-----------------------------------------------------------------------------
(* Every seed asked for is accounted for.                                  *)

(* What a step may do to the ledger.                                       *)
LEMMA LedgerSteps ==
    ASSUME [Next]_vars
    PROVE  \/ Wipe /\ exit = "alive"
           \/ ledger' = ledger
           \/ /\ StartMatch \/ Fly
              /\ pc = "next" /\ todo # <<>> /\ ledger' = Started(Head(todo))
           \/ /\ MatchEnds \/ Lands
              /\ pc = "flying" /\ \E p \in BOOLEAN : ledger' = Ended(Current, p)
<1>1. CASE Drives /\ EvidenceNext
  <2>1. EvidenceNext /\ exit = "alive"
    BY <1>1 DEF Drives
  <2> QED
    BY <2>1
    DEF EvidenceNext, Preflight, AssemblyFails, StartMatch, MatchDies, MatchEnds,
        Flush, Measure, Recheck, Finish, lane
<1>2. CASE AdaptationNext
  BY <1>2
  DEF AdaptationNext, EnterFirst, NoMatch, Fly, Falls, Lands, MeasureMatch, EndBaseline,
      EndPromote, EndPost, Casualty, Enter, AbortsWith, EndsWith, lane
<1>3. CASE Operates \/ Dies \/ Supervises
  BY <1>3
  DEF Operates, Launch, Refuse, Saves, Preserve, Dies, Supervises, FirstCount, Progress, Quiet,
      Stall, Notify, Conclude, DriverKeeps, lane
<1>4. CASE UNCHANGED vars
  BY <1>4 DEF vars, lane
<1> QED  BY <1>1, <1>2, <1>3, <1>4 DEF Next, Drives

(* Short of a wipe no match is forgotten, and what is over is settled.     *)
LEMMA HistoryStands ==
    ASSUME Shape, Place, [Next]_vars, ~ Wipe
    PROVE  /\ Len(ledger) \in Nat /\ Len(ledger') \in Nat
           /\ Matches \subseteq Matches' /\ Len(ledger) <= Len(ledger')
           /\ \A m \in Matches : /\ ledger'[m].seed = ledger[m].seed
                                 /\ ledger'[m].gen = ledger[m].gen
                                 /\ ledger[m].ended => ledger'[m] = ledger[m]
<1>0. Len(ledger) \in Nat
  BY RecordsAreTyped
<1>1. CASE ledger' = ledger
  BY <1>0, <1>1 DEF Matches
<1>2. CASE todo # <<>> /\ ledger' = Started(Head(todo))
  <2>1. Head(todo) \in Nat
    BY <1>2, OneLess DEF Shape
  <2>2. /\ Len(ledger') = Len(ledger) + 1 /\ Matches' = Matches \cup {Len(ledger) + 1}
        /\ \A m \in Matches : ledger'[m] = ledger[m]
    BY <1>2, <2>1, StartedLedger
  <2> QED  BY <1>0, <2>2
<1>3. CASE pc = "flying" /\ \E p \in BOOLEAN : ledger' = Ended(Current, p)
  <2>1. PICK p \in BOOLEAN : ledger' = Ended(Current, p)
    BY <1>3
  <2>2. ledger # <<>> /\ ~ ledger[Current].ended
    BY <1>3 DEF Place, InMatch
  <2>3. /\ Len(ledger') = Len(ledger) /\ Matches' = Matches
        /\ \A m \in Matches : m # Current => ledger'[m] = ledger[m]
        /\ ledger'[Current].seed = ledger[Current].seed
        /\ ledger'[Current].gen = ledger[Current].gen
    BY <2>1, <2>2, EndedLedger
  <2> QED  BY <1>0, <2>2, <2>3
<1> QED  BY <1>1, <1>2, <1>3, LedgerSteps

(* What a step may do to the list of rows of the process.                  *)
LEMMA FlownSteps ==
    ASSUME [Next]_vars
    PROVE  \/ flown' = flown
           \/ flown' = <<>> /\ exit' = "alive"
           \/ /\ Measure \/ MeasureMatch
              /\ pc = "measure" /\ flown' = Append(flown, Current) /\ ledger' = ledger
              /\ pc' \in {"next", "recheck"}
<1>1. CASE EvidenceNext
  BY <1>1
  DEF EvidenceNext, Wipe, Preflight, AssemblyFails, StartMatch, MatchDies, MatchEnds, Flush,
      Measure, Recheck, Finish, Casualty
<1>2. CASE AdaptationNext
  BY <1>2
  DEF AdaptationNext, EnterFirst, NoMatch, Fly, Falls, Lands, MeasureMatch, EndBaseline,
      EndPromote, EndPost, Casualty, Enter, AbortsWith, EndsWith
<1>3. CASE Operates \/ Dies \/ Supervises
  BY <1>3
  DEF Operates, Launch, Refuse, Saves, Dies, Supervises, FirstCount, Progress, Quiet, Stall,
      Notify, Conclude, DriverKeeps, process
<1>4. CASE UNCHANGED vars
  BY <1>4 DEF vars, process
<1> QED  BY <1>1, <1>2, <1>3, <1>4 DEF Next, Drives

(* A match that starts is a new one; otherwise the one in hand stays.      *)
LEMMA InHand ==
    ASSUME Shape, Place, [Next]_vars, InMatch'
    PROVE  \/ InMatch /\ Current' = Current
           \/ Current' = Current + 1 /\ Current \in Nat /\ todo # <<>>
<1>1. CASE StartMatch \/ Fly
  <2>1. Head(todo) \in Nat /\ ledger' = Started(Head(todo)) /\ todo # <<>>
    BY <1>1, OneLess DEF StartMatch, Fly, Shape
  <2> QED  BY <2>1, StartedLedger DEF Current
<1>2. CASE MatchEnds \/ Lands
  <2>1. pc = "flying" /\ \E p \in BOOLEAN : ledger' = Ended(Current, p)
    BY <1>2 DEF MatchEnds, Lands
  <2> QED  BY <2>1, EndedLedger DEF Place, InMatch
<1>3. CASE pc' = pc /\ ledger' = ledger
  BY <1>3 DEF InMatch, Current
<1>4. CASE Flush
  BY <1>4 DEF Flush, InMatch, Current
<1>5. CASE Wipe
  BY <1>5 DEF Wipe, InMatch
<1>6. CASE EvidenceNext
  BY <1>1, <1>2, <1>4, <1>5, <1>6
  DEF EvidenceNext, Preflight, AssemblyFails, MatchDies, Measure, Recheck, Finish, Casualty,
      Exits, InMatch
<1>7. CASE AdaptationNext
  BY <1>1, <1>2, <1>7
  DEF AdaptationNext, EnterFirst, NoMatch, Falls, MeasureMatch, EndBaseline, EndPromote, EndPost,
      Casualty, Enter, AbortsWith, EndsWith, Exits, InMatch
<1>8. CASE Operates
  BY <1>3, <1>8 DEF Operates, Launch, Refuse, Saves, Preserve, process, lane, InMatch
<1>9. CASE Dies \/ Supervises
  BY <1>3, <1>9
  DEF Dies, Supervises, FirstCount, Progress, Quiet, Stall, Notify, Conclude, DriverKeeps,
      process, lane, Exits, InMatch
<1>10. CASE UNCHANGED vars
  BY <1>3, <1>10 DEF vars, process, lane
<1> QED  BY <1>6, <1>7, <1>8, <1>9, <1>10 DEF Next, Drives

LEMMA StepFlownMatches ==
    ASSUME Shape, Place, FlownMatches, [Next]_vars PROVE FlownMatches'
<1>0. Len(ledger) \in Nat /\ Current \in Nat /\ (ledger # <<>> => Current \in Matches)
      /\ \A m \in Matches : m <= Current
  BY RecordsAreTyped DEF Matches, Current
<1>1. CASE flown' = <<>>
  BY <1>1, EmptySeq DEF FlownMatches
<1>2. CASE Wipe
  BY <1>1, <1>2 DEF Wipe, Place
<1>3. CASE ~ Wipe /\ flown' = flown
  <2> SUFFICES ASSUME NEW i \in DOMAIN flown
               PROVE  flown[i] \in Matches' /\ (InMatch' => flown[i] # Current')
    BY <1>3 DEF FlownMatches
  <2>1. flown[i] \in Matches /\ (InMatch => flown[i] # Current)
    BY DEF FlownMatches
  <2>2. flown[i] \in Matches'
    BY <1>3, <2>1, HistoryStands
  <2>3. ASSUME InMatch' PROVE flown[i] # Current'
    BY <1>0, <2>1, <2>3, InHand
  <2> QED  BY <2>2, <2>3
<1>4. CASE /\ pc = "measure" /\ flown' = Append(flown, Current) /\ ledger' = ledger
           /\ pc' \in {"next", "recheck"}
  <2>1. Current \in Matches /\ ~ InMatch' /\ Matches' = Matches
    BY <1>0, <1>4 DEF Place, InMatch, Matches
  <2>2. /\ DOMAIN flown' = 1 .. Len(flown) + 1 /\ DOMAIN flown = 1 .. Len(flown)
        /\ Len(flown) \in Nat
        /\ \A i \in 1 .. Len(flown) : flown'[i] = flown[i]
        /\ flown'[Len(flown) + 1] = Current
    BY <1>0, <1>4, OneMore DEF Shape
  <2>3. \A i \in 1 .. Len(flown) + 1 : i \in 1 .. Len(flown) \/ i = Len(flown) + 1
    BY <2>2
  <2> QED  BY <2>1, <2>2, <2>3 DEF FlownMatches
<1> QED  BY <1>1, <1>2, <1>3, <1>4, FlownSteps

LEMMA DoneKept ==
    ASSUME Shape, Place, FlownMatches, [Next]_vars, flown' = flown
    PROVE  Done' = Done
<1>1. CASE Wipe
  <2>1. flown = <<>>
    BY <1>1 DEF Wipe, Place
  <2> QED  BY <2>1 DEF Done
<1>2. CASE ~ Wipe
  <2>1. \A i \in DOMAIN flown : ledger'[flown[i]].seed = ledger[flown[i]].seed
    BY <1>2, HistoryStands DEF FlownMatches
  <2> QED  BY <2>1 DEF Done
<1> QED  BY <1>1, <1>2

LEMMA HeadOfPlan ==
    ASSUME NEW q \in Seq(Nat), q # <<>>, \A i, j \in DOMAIN q : q[i] = q[j] => i = j
    PROVE  /\ SeedsOf(q) = {Head(q)} \cup SeedsOf(Tail(q))
           /\ Head(q) \notin SeedsOf(Tail(q))
           /\ \A i, j \in DOMAIN Tail(q) : Tail(q)[i] = Tail(q)[j] => i = j
<1> DEFINE n == Len(q)
           t == Tail(q)
<1>1. /\ Head(q) = q[1] /\ n \in Nat /\ n >= 1
      /\ DOMAIN q = 1 .. n /\ DOMAIN t = 1 .. n - 1
      /\ \A i \in 1 .. n - 1 : t[i] = q[i + 1]
  BY OneLess
<1> HIDE DEF n, t
<1>2. \A i \in 1 .. n : i = 1 \/ (i - 1 \in 1 .. n - 1 /\ (i - 1) + 1 = i)
  BY <1>1
<1>3. \A i \in 1 .. n - 1 : i + 1 \in 1 .. n /\ i + 1 # 1
  BY <1>1
<1>4. SeedsOf(q) \subseteq {q[1]} \cup SeedsOf(t)
  <2> SUFFICES ASSUME NEW i \in 1 .. n PROVE q[i] = q[1] \/ q[i] \in SeedsOf(t)
    BY <1>1 DEF SeedsOf
  <2>1. CASE i = 1
    BY <2>1
  <2>2. CASE i - 1 \in 1 .. n - 1 /\ (i - 1) + 1 = i
    <3>1. t[i - 1] = q[i]
      BY <1>1, <2>2
    <3> QED  BY <1>1, <2>2, <3>1 DEF SeedsOf
  <2> QED  BY <1>2, <2>1, <2>2
<1>5. SeedsOf(t) \subseteq SeedsOf(q)
  <2> SUFFICES ASSUME NEW i \in 1 .. n - 1 PROVE t[i] \in SeedsOf(q)
    BY <1>1 DEF SeedsOf
  <2>1. i + 1 \in DOMAIN q /\ t[i] = q[i + 1]
    BY <1>1, <1>3
  <2> QED  BY <2>1 DEF SeedsOf
<1>6. q[1] \in SeedsOf(q)
  BY <1>1 DEF SeedsOf
<1>7. q[1] \notin SeedsOf(t)
  <2> SUFFICES ASSUME NEW i \in 1 .. n - 1, t[i] = q[1] PROVE FALSE
    BY <1>1 DEF SeedsOf
  <2>1. i + 1 \in DOMAIN q /\ 1 \in DOMAIN q /\ q[i + 1] = q[1] /\ i + 1 # 1
    BY <1>1, <1>3
  <2> QED  BY <2>1
<1>8. ASSUME NEW i \in 1 .. n - 1, NEW j \in 1 .. n - 1, t[i] = t[j] PROVE i = j
  <2>1. q[i + 1] = q[j + 1]
    BY <1>1, <1>8
  <2>2. i + 1 = j + 1
    BY <1>1, <1>3, <2>1
  <2> QED  BY <1>1, <2>2
<1> QED  BY <1>1, <1>4, <1>5, <1>6, <1>7, <1>8 DEF t

(* The seed at the head of the plan is flown, or is recorded as skipped.   *)
LEMMA OneSeedLess ==
    ASSUME Shape, Balance, todo # <<>>, todo' = Tail(todo), plan' = plan,
           \/ Done' = Done /\ skipped' = skipped \cup {Head(todo)}
           \/ Done' = Done \cup {Head(todo)} /\ skipped' = skipped
    PROVE  Balance'
<1>1. /\ SeedsOf(todo) = {Head(todo)} \cup SeedsOf(Tail(todo))
      /\ Head(todo) \notin SeedsOf(Tail(todo))
      /\ \A i, j \in DOMAIN Tail(todo) : Tail(todo)[i] = Tail(todo)[j] => i = j
  BY HeadOfPlan DEF Balance, Shape
<1> DEFINE t == Tail(todo)
           h == Head(todo)
<1> HIDE DEF t, h
<1>2. todo' = t /\ SeedsOf(todo) = {h} \cup SeedsOf(t) /\ h \notin SeedsOf(t)
      /\ \A i, j \in DOMAIN t : t[i] = t[j] => i = j
  BY <1>1 DEF t, h
<1>3. /\ plan = Done \cup skipped \cup SeedsOf(todo) /\ Done \cap skipped = {}
      /\ SeedsOf(todo) \cap (Done \cup skipped) = {}
  BY DEF Balance
<1>4. \/ Done' = Done /\ skipped' = skipped \cup {h}
      \/ Done' = Done \cup {h} /\ skipped' = skipped
  BY DEF h
<1>5. /\ plan = Done' \cup skipped' \cup SeedsOf(t) /\ Done' \cap skipped' = {}
      /\ SeedsOf(t) \cap (Done' \cup skipped') = {}
  BY <1>2, <1>3, <1>4
<1> QED  BY <1>2, <1>5 DEF Balance

LEMMA BalanceKept ==
    ASSUME Balance, Done' = Done, UNCHANGED <<plan, skipped, todo>> PROVE Balance'
<1> QED  BY DEF Balance

LEMMA RowDone ==
    ASSUME Shape, Place, FlownMatches, pc = "measure", ledger' = ledger,
           flown' = Append(flown, Current)
    PROVE  Done' = Done \cup {Head(todo)}
<1>1. ledger # <<>> /\ ledger[Current].seed = Head(todo) /\ Current \in Nat
  BY RecordsAreTyped DEF Place, InMatch
<1> DEFINE n == Len(flown)
<1>2. /\ n \in Nat /\ DOMAIN flown' = 1 .. n + 1 /\ DOMAIN flown = 1 .. n
      /\ \A i \in 1 .. n : flown'[i] = flown[i]
      /\ flown'[n + 1] = Current
  BY <1>1, OneMore DEF Shape
<1> HIDE DEF n
<1>3. \A i \in 1 .. n + 1 : i \in 1 .. n \/ i = n + 1
  BY <1>2
<1>4. 1 .. n \subseteq 1 .. n + 1 /\ n + 1 \in 1 .. n + 1
  BY <1>2
<1> QED  BY <1>1, <1>2, <1>3, <1>4 DEF Done

LEMMA LaunchBalance ==
    ASSUME NEW r \in Requests, NEW wipe \in BOOLEAN, Launch(r, wipe) PROVE Balance'
<1>1. /\ plan' = SeedsOf(todo') /\ flown' = <<>> /\ skipped' = {}
      /\ r[1] \in Nat /\ r[2] \in Nat /\ DOMAIN todo' = 1 .. r[2]
      /\ \A i \in 1 .. r[2] : todo'[i] = r[1] + i
  BY RequestsAreRanges DEF Launch
<1>2. \A i, j \in DOMAIN todo' : todo'[i] = todo'[j] => i = j
  BY <1>1
<1>3. Done' = {}
  BY <1>1 DEF Done
<1> QED  BY <1>1, <1>2, <1>3 DEF Balance

LEMMA StepBalance ==
    ASSUME Shape, Place, Books, [Next]_vars, Evidence, exit' = "alive" PROVE Balance'
<1>1. CASE Operates
  <2>1. CASE \E r \in Requests, wipe \in BOOLEAN : Launch(r, wipe)
    BY <2>1, LaunchBalance
  <2>2. CASE Refuse \/ Saves
    BY <2>2, DoneKept, BalanceKept DEF Refuse, Saves, process, Books
  <2> QED  BY <1>1, <2>1, <2>2 DEF Operates
<1>2. CASE Dies \/ Supervises \/ UNCHANGED vars
  <2>1. UNCHANGED <<flown, plan, skipped, todo, exit>>
    BY <1>2
    DEF Dies, Supervises, FirstCount, Progress, Quiet, Stall, Notify, Conclude, Watching,
        DriverKeeps, process, vars, Exits
  <2> QED  BY <2>1, DoneKept, BalanceKept DEF Books
<1>3. CASE Drives
  <2>1. exit = "alive" /\ Balance /\ FlownMatches /\ plan' = plan
    BY <1>3 DEF Drives, Books
  <2>2. EvidenceNext
    BY <1>3
    DEF Drives, AdaptationNext, EnterFirst, NoMatch, Fly, Falls, Lands, MeasureMatch, EndBaseline,
        EndPromote, EndPost, PhaseOver, Adaptation, Evidence
  <2>3. CASE \E m : Casualty(m) /\ todo # <<>>
    <3>1. flown' = flown /\ skipped' = skipped \cup {Head(todo)} /\ todo' = Tail(todo)
      BY <2>3 DEF Casualty
    <3>2. Done' = Done
      BY <2>1, <3>1, DoneKept
    <3> QED  BY <2>1, <2>3, <3>1, <3>2, OneSeedLess
  <2>4. CASE UNCHANGED <<flown, skipped, todo>>
    BY <2>1, <2>4, DoneKept, BalanceKept
  <2>5. CASE Measure
    <3>1. todo # <<>> /\ pc = "measure" /\ ledger' = ledger
      BY <2>5 DEF Measure, Place, InMatch
    <3>2. CASE flown' = Append(flown, Current) /\ todo' = Tail(todo) /\ skipped' = skipped
      BY <2>1, <3>1, <3>2, RowDone, OneSeedLess
    <3> QED  BY <2>3, <2>5, <3>1, <3>2 DEF Measure
  <2> QED
    BY <2>2, <2>3, <2>4, <2>5
    DEF EvidenceNext, Wipe, Preflight, AssemblyFails, StartMatch, MatchDies, MatchEnds, Flush,
        Recheck, Finish, Place, InMatch
<1> QED  BY <1>1, <1>2, <1>3 DEF Next

(* What the exit code says is settled when the driver ends.                *)
LEMMA StepAccounted ==
    ASSUME Shape, Place, Books, [Next]_vars PROVE SeedsAccountedFor'
<1> SUFFICES ASSUME Evidence', exit' \in {"exit0", "exit1"}
             PROVE  /\ Done' \cup summary'.skips = plan' /\ Done' \cap summary'.skips = {}
                    /\ exit' = "exit0" <=> summary'.skips = {}
  BY DEF SeedsAccountedFor, Done
<1>0. Evidence
  BY KindIsFixed
<1>1. CASE Drives
  <2>1. exit = "alive" /\ Balance /\ FlownMatches /\ plan' = plan
    BY <1>0, <1>1 DEF Drives, Books
  <2>2. Finish
    BY <1>0, <1>1
    DEF Drives, AdaptationNext, EnterFirst, NoMatch, Fly, Falls, Lands, MeasureMatch, EndBaseline,
        EndPromote, EndPost, PhaseOver, Adaptation, Evidence, EvidenceNext, Wipe, Preflight,
        AssemblyFails, StartMatch, MatchDies, MatchEnds, Flush, Measure, Recheck, Casualty, Exits
  <2>3. Done' = Done
    BY <2>1, <2>2, DoneKept DEF Finish
  <2>4. summary'.skips = skipped /\ todo = <<>> /\ exit' = ExitCode
    BY <2>2 DEF Finish, WriteSummary, Exits
  <2>5. SeedsOf(todo) = {}
    BY <2>4, EmptySeq DEF SeedsOf
  <2> QED  BY <2>1, <2>3, <2>4, <2>5 DEF Balance, ExitCode
<1>2. CASE UNCHANGED <<exit, flown, plan, summary>>
  <2>1. Done' = Done
    BY <1>2, DoneKept DEF Books
  <2> QED  BY <1>0, <1>2, <2>1 DEF Books, SeedsAccountedFor, Done
<1>3. CASE Operates
  BY <1>2, <1>3 DEF Operates, Launch, Refuse, Saves, Preserve, process, lane
<1>4. CASE Dies \/ Supervises \/ UNCHANGED vars
  BY <1>2, <1>4
  DEF Dies, Supervises, FirstCount, Progress, Quiet, Stall, Notify, Conclude, Watching,
      DriverKeeps, process, lane, vars, Exits
<1> QED  BY <1>1, <1>3, <1>4 DEF Next

LEMMA InitBooks == Init => Books
<1> QED
  BY EmptySeq DEF Init, DriverInit, LaneInit, Books, FlownMatches, SeedsAccountedFor

LEMMA StepBooks ==
    ASSUME Shape, Place, Books, [Next]_vars PROVE Books'
<1>1. FlownMatches'
  BY StepFlownMatches DEF Books
<1>2. Evidence' /\ exit' = "alive" => Balance'
  BY StepBalance, KindIsFixed
<1> QED  BY <1>1, <1>2, StepAccounted DEF Books

(* A driver that ended by itself has a row, or a place among the skipped   *)
(* seeds of its summary, for each seed it was asked to fly, and its exit   *)
(* code owns up to every skipped one                                       *)
(* (scripts/run_ogate_objectives_battery.py:566).                          *)
THEOREM SeedsAlwaysAccounted == Spec => []SeedsAccountedFor
<1> DEFINE Good == Shape /\ Place /\ Books
<1>1. Init => Good
  BY InitShape, InitPlace, InitBooks
<1>2. Good /\ [Next]_vars => Good'
  BY StepShape, StepPlace, StepBooks
<1>3. Good => SeedsAccountedFor
  BY DEF Books
<1> QED  BY <1>1, <1>2, <1>3, PTL DEF Spec

-----------------------------------------------------------------------------
(* Only announced seeds are flown.                                         *)

LEMMA InitAnnounced == Init => Announced
<1> QED  BY EmptySeq DEF Init, LaneInit, Announced, Matches

LEMMA HeadIsPlanned ==
    ASSUME Shape, Balance, todo # <<>>
    PROVE  /\ Head(todo) \in plan /\ Head(todo) \notin skipped
           /\ Head(todo) \in SeedsOf(todo) /\ Head(todo) \in Nat
<1>1. Head(todo) = todo[1] /\ 1 \in DOMAIN todo /\ Head(todo) \in Nat
  BY OneLess DEF Shape
<1>2. Head(todo) \in SeedsOf(todo)
  BY <1>1 DEF SeedsOf
<1> QED  BY <1>1, <1>2 DEF Balance

LEMMA StepAnnounced ==
    ASSUME Shape, Place, Books, Announced, [Next]_vars PROVE Announced'
<1> SUFFICES ASSUME Evidence
             PROVE  plan' \subseteq Seeds /\ \A m \in Matches' : ledger'[m].seed \in Seeds
  BY KindIsFixed DEF Announced
<1>0. plan \subseteq Seeds /\ \A m \in Matches : ledger[m].seed \in Seeds
  BY DEF Announced
<1>1. plan' \subseteq Seeds
  <2>1. CASE \E r \in Requests, wipe \in BOOLEAN : Launch(r, wipe)
    BY <2>1, RequestsAreRanges DEF Launch
  <2>2. CASE plan' = plan
    BY <1>0, <2>2
  <2> QED
    BY <2>1, <2>2
    DEF Next, Operates, Refuse, Saves, Drives, Dies, Supervises, FirstCount, Progress, Quiet,
        Stall, Notify, Conclude, Watching, vars
<1>2. \A m \in Matches' : ledger'[m].seed \in Seeds
  <2>1. CASE Wipe
    BY <2>1, EmptySeq DEF Wipe, Matches
  <2>2. CASE ledger' = ledger
    BY <1>0, <2>2 DEF Matches
  <2>3. CASE StartMatch /\ todo # <<>> /\ ledger' = Started(Head(todo)) /\ pc = "next"
    <3>1. Head(todo) \in Seeds /\ Head(todo) \in Nat
      BY <1>0, <2>3, HeadIsPlanned DEF Books, Place
    <3>2. /\ Matches' = Matches \cup {Len(ledger) + 1}
          /\ \A m \in Matches : ledger'[m] = ledger[m]
          /\ ledger'[Len(ledger) + 1] =
                 [seed |-> Head(todo), ended |-> FALSE, gen |-> Generation, promoted |-> FALSE]
      BY <2>3, <3>1, StartedLedger
    <3>3. ledger'[Len(ledger) + 1].seed = Head(todo)
      BY <3>2
    <3>4. ASSUME NEW m \in Matches' PROVE ledger'[m].seed \in Seeds
      BY <1>0, <3>1, <3>2, <3>3
    <3> QED  BY <3>4
  <2>4. CASE pc = "flying" /\ \E p \in BOOLEAN : ledger' = Ended(Current, p)
    <3>1. PICK p \in BOOLEAN : ledger' = Ended(Current, p)
      BY <2>4
    <3>2. /\ Matches' = Matches
          /\ \A m \in Matches : m # Current => ledger'[m] = ledger[m]
          /\ ledger'[Current].seed = ledger[Current].seed
      BY <2>4, <3>1, EndedLedger DEF Place, InMatch
    <3> QED  BY <1>0, <3>2
  <2>5. ~ Fly
    BY DEF Fly, Adaptation, Evidence
  <2> QED  BY <2>1, <2>2, <2>3, <2>4, <2>5, LedgerSteps
<1> QED  BY <1>1, <1>2

-----------------------------------------------------------------------------
(* A lane flown by the book explains every match without a row.            *)

(* A summary that names a seed is never lost.                              *)
ArtifactsStand == \A a \in Artifacts : a.skips = {} \/ a \in Artifacts'

(* A match that a step brings to its end, or lets go of, is explained.     *)
EndsAreExplained ==
    \A m \in EndedMatches' :
        m \notin EndedMatches \/ (InMatch /\ m = Current) =>
            \A s \in Nat : s = ledger'[m].seed => Explained(m, s)'

SkipsStand == exit = "alive" => \A m \in Matches, s \in skipped : Explained(m, s)'

RowsStay == exit' = "alive" => RawSeeds' \cap (SeedsOf(todo)' \cup skipped') = {}

LEMMA ExcusedStays ==
    ASSUME NEW s, Excused(s), raw' = raw, ArtifactsStand PROVE Excused(s)'
<1>1. PICK a \in Artifacts :
          s \in a.skips /\ \A i \in DOMAIN raw : raw[i].seed = s => a.at < raw[i].match
  BY DEF Excused
<1>2. a \in Artifacts'
  BY <1>1 DEF ArtifactsStand
<1> QED  BY <1>1, <1>2 DEF Excused

LEMMA OrphansStay ==
    ASSUME Shape, Place, OrphansAreExcused, [Next]_vars, ~ Wipe, raw' = raw,
           ArtifactsStand, EndsAreExplained, SkipsStand
    PROVE  OrphansAreExcused'
<1> SUFFICES ASSUME NEW m \in EndedMatches', m \notin RawMatches', NEW s \in Nat,
                    s = ledger'[m].seed
             PROVE  Explained(m, s)'
  BY DEF OrphansAreExcused
<1>1. CASE m \notin EndedMatches \/ (InMatch /\ m = Current)
  BY <1>1 DEF EndsAreExplained
<1>2. CASE m \in EndedMatches /\ ~ (InMatch /\ m = Current)
  <2>1. m \notin RawMatches /\ m \in Matches
    BY <1>2 DEF RawMatches, EndedMatches
  <2>2. ledger[m].seed = s
    BY <2>1, HistoryStands
  <2>3. Explained(m, s)
    BY <1>2, <2>1, <2>2 DEF OrphansAreExcused
  <2>4. CASE exit = "alive" /\ s \in skipped
    BY <2>1, <2>4 DEF SkipsStand
  <2>5. CASE Excused(s)
    <3>1. Excused(s)'
      BY <2>5, ExcusedStays
    <3> QED  BY <3>1 DEF Explained
  <2> QED  BY <1>2, <2>3, <2>4, <2>5 DEF Explained
<1> QED  BY <1>1, <1>2

LEMMA RowsStand ==
    ASSUME Shape, Place, RowsAreMatches, [Next]_vars, ~ Wipe, raw' = raw, RowsStay
    PROVE  RowsAreMatches'
<1>1. \A i \in DOMAIN raw :
          /\ raw[i].match \in Matches' /\ ledger'[raw[i].match].ended
          /\ raw[i].seed = ledger'[raw[i].match].seed
  BY HistoryStands DEF RowsAreMatches
<1> QED  BY <1>1 DEF RowsAreMatches, RowsStay

Honest == RowsAreMatches /\ ArtifactsAreOld /\ OrphansAreExcused

(* Nothing happens to the lane, or only the operator's copy is made.       *)
LEMMA HonestStutter ==
    ASSUME Shape, Place, Honest, [Next]_vars, ~ Wipe,
           UNCHANGED <<ledger, raw, summary>>, Artifacts' = Artifacts,
           InMatch' = InMatch,
           exit' = "alive" => exit = "alive" /\ UNCHANGED <<kept, todo, skipped>>,
           exit' # "alive" => exit # "alive" \/ skipped = {}
    PROVE  Honest'
<1>1. RowsStay
  BY DEF RowsStay, Honest, RowsAreMatches, SeedsOf, RawSeeds
<1>2. ArtifactsStand
  BY DEF ArtifactsStand
<1>3. EndsAreExplained
  BY DEF EndsAreExplained, EndedMatches, Matches, Current, Explained
<1>4. SkipsStand
  BY DEF SkipsStand, Explained
<1>5. ArtifactsAreOld'
  BY DEF ArtifactsAreOld, Honest
<1> QED  BY <1>1, <1>2, <1>3, <1>4, <1>5, OrphansStay, RowsStand DEF Honest

(* The seed of a dead match goes from the plan to the casualties.          *)
LEMMA HonestCasualty ==
    ASSUME Shape, Place, Balance, Honest, [Next]_vars, ~ Wipe, exit = "alive",
           todo # <<>>, NEW c, Casualty(c),
           \A m \in EndedMatches' :
               m \notin EndedMatches => ledger'[m].seed = Head(todo),
           InMatch => ledger'[Current].seed = Head(todo)
    PROVE  Honest'
<1>1. /\ SeedsOf(todo) = {Head(todo)} \cup SeedsOf(Tail(todo))
  BY HeadOfPlan DEF Balance, Shape
<1>2. /\ exit' = "alive" /\ skipped' = skipped \cup {Head(todo)} /\ todo' = Tail(todo)
      /\ UNCHANGED <<raw, summary, kept>> /\ pc' = "next"
  BY DEF Casualty
<1>3. RowsStay
  <2>1. SeedsOf(todo)' = SeedsOf(Tail(todo))
    BY <1>2 DEF SeedsOf
  <2>2. RawSeeds' = RawSeeds /\ RawSeeds \cap (SeedsOf(todo) \cup skipped) = {}
    BY <1>2 DEF RawSeeds, Honest, RowsAreMatches
  <2> QED  BY <1>1, <1>2, <2>1, <2>2 DEF RowsStay
<1>4. ArtifactsStand
  BY <1>2 DEF ArtifactsStand, Artifacts
<1>5. EndsAreExplained
  BY <1>2 DEF EndsAreExplained, Explained
<1>6. SkipsStand
  BY <1>2 DEF SkipsStand, Explained
<1>7. ArtifactsAreOld'
  <2>1. Len(ledger) \in Nat /\ Len(ledger') \in Nat /\ Len(ledger) <= Len(ledger')
    BY HistoryStands
  <2>2. \A a \in Artifacts : a.at \in Nat
    BY DEF Shape, Artifacts, Summaries
  <2>3. \A a \in Artifacts : a.at <= Len(ledger')
    BY <2>1, <2>2 DEF ArtifactsAreOld, Honest
  <2> QED  BY <1>2, <2>3 DEF ArtifactsAreOld, Artifacts, InMatch, Honest
<1> QED  BY <1>2, <1>3, <1>4, <1>5, <1>6, <1>7, OrphansStay, RowsStand DEF Honest

LEMMA HonestStart ==
    ASSUME Shape, Place, Balance, Honest, [Next]_vars, exit = "alive", Evidence, StartMatch
    PROVE  Honest'
<1>1. Head(todo) \in Nat /\ todo # <<>> /\ ~ InMatch /\ ~ Wipe
  BY OneLess DEF StartMatch, Shape, InMatch, Wipe
<1>2. /\ Len(ledger) \in Nat /\ Len(ledger') = Len(ledger) + 1
      /\ Matches' = Matches \cup {Len(ledger) + 1} /\ Len(ledger) + 1 \notin Matches
      /\ \A m \in Matches : ledger'[m] = ledger[m]
      /\ ~ ledger'[Len(ledger) + 1].ended
  <2>1. /\ Len(ledger) \in Nat /\ Len(ledger') = Len(ledger) + 1
        /\ Matches' = Matches \cup {Len(ledger) + 1} /\ Len(ledger) + 1 \notin Matches
        /\ \A m \in Matches : ledger'[m] = ledger[m]
        /\ ledger'[Len(ledger) + 1] =
               [seed |-> Head(todo), ended |-> FALSE, gen |-> Generation, promoted |-> FALSE]
    BY <1>1, StartedLedger DEF StartMatch
  <2> QED  BY <2>1
<1>3. EndedMatches' = EndedMatches
  BY <1>2 DEF EndedMatches
<1>4. CASE Casualty({Current + 1})
  <2>1. \A m \in EndedMatches' : m \notin EndedMatches => ledger'[m].seed = Head(todo)
    BY <1>3
  <2> QED  BY <1>1, <1>4, <2>1, HonestCasualty
<1>5. CASE pc' = "flying" /\ UNCHANGED <<exit, kind, todo, flown, skipped, casualties, raw, summary, kept>>
  <2>1. RowsStay
    BY <1>5 DEF RowsStay, Honest, RowsAreMatches, SeedsOf, RawSeeds
  <2>2. ArtifactsStand
    BY <1>5 DEF ArtifactsStand, Artifacts
  <2>3. EndsAreExplained
    BY <1>1, <1>3 DEF EndsAreExplained
  <2>4. SkipsStand
    BY <1>5 DEF SkipsStand, Explained
  <2>5. ArtifactsAreOld'
    <3>1. \A a \in Artifacts : a.at \in Nat /\ a.at <= Len(ledger)
      BY DEF Shape, Artifacts, Summaries, ArtifactsAreOld, Honest
    <3>2. \A a \in Artifacts : a.at < Len(ledger')
      BY <1>2, <3>1
    <3>3. \A a \in Artifacts : a.at <= Len(ledger')
      BY <1>2, <3>1
    <3> QED  BY <1>5, <3>2, <3>3 DEF ArtifactsAreOld, Artifacts, Honest
  <2> QED  BY <1>1, <1>5, <2>1, <2>2, <2>3, <2>4, <2>5, OrphansStay, RowsStand DEF Honest
<1> QED  BY <1>4, <1>5 DEF StartMatch

LEMMA HonestEnd ==
    ASSUME Shape, Place, Balance, Honest, [Next]_vars, exit = "alive", Evidence, MatchEnds
    PROVE  Honest'
<1>1. /\ todo # <<>> /\ ledger # <<>> /\ InMatch /\ ~ Wipe
      /\ ledger[Current].seed = Head(todo)
  BY DEF MatchEnds, Place, InMatch, Wipe
<1>2. /\ Current \in Matches /\ Len(ledger') = Len(ledger) /\ Matches' = Matches
      /\ Current' = Current
      /\ \A m \in Matches : m # Current => ledger'[m] = ledger[m]
      /\ ledger'[Current].seed = ledger[Current].seed
  BY <1>1, EndedLedger DEF MatchEnds
<1>3. \A m \in EndedMatches' : m \in EndedMatches \/ m = Current
  BY <1>2 DEF EndedMatches
<1>4. CASE Casualty({Current})
  <2>1. \A m \in EndedMatches' : m \notin EndedMatches => ledger'[m].seed = Head(todo)
    BY <1>1, <1>2, <1>3
  <2>2. InMatch => ledger'[Current].seed = Head(todo)
    BY <1>1, <1>2
  <2> QED  BY <1>1, <1>4, <2>1, <2>2, HonestCasualty
<1>5. CASE /\ pc' \in {"measure", "flush"}
           /\ UNCHANGED <<exit, kind, todo, flown, skipped, casualties, raw, summary, kept>>
  <2>0. InMatch'
    BY <1>5 DEF InMatch
  <2>1. RowsStay
    BY <1>5 DEF RowsStay, Honest, RowsAreMatches, SeedsOf, RawSeeds
  <2>2. ArtifactsStand
    BY <1>5 DEF ArtifactsStand, Artifacts
  <2>3. EndsAreExplained
    BY <1>2, <1>3, <2>0 DEF EndsAreExplained, Explained
  <2>4. SkipsStand
    BY <1>5 DEF SkipsStand, Explained
  <2>5. ArtifactsAreOld'
    BY <1>1, <1>2, <1>5 DEF ArtifactsAreOld, Artifacts, Honest
  <2> QED  BY <1>1, <1>5, <2>1, <2>2, <2>3, <2>4, <2>5, OrphansStay, RowsStand DEF Honest
<1> QED  BY <1>4, <1>5 DEF MatchEnds

(* The match in hand gets the row of its seed.                             *)
LEMMA HonestRow ==
    ASSUME Shape, Place, Balance, Honest, exit = "alive", pc = "measure",
           raw' = Append(raw, Row(Current)), todo' = Tail(todo),
           pc' \in {"recheck", "next"},
           UNCHANGED <<ledger, exit, skipped, summary, kept>>
    PROVE  Honest'
<1>1. /\ ledger # <<>> /\ todo # <<>> /\ ledger[Current].seed = Head(todo)
      /\ ledger[Current].ended /\ InMatch /\ ~ InMatch'
  BY DEF Place, InMatch
<1>2. /\ Current \in Matches /\ Current \in Nat /\ Current = Len(ledger)
      /\ Row(Current) \in [seed : Nat, match : Nat]
      /\ Row(Current).seed = Head(todo) /\ Row(Current).match = Current
  BY <1>1, RecordsAreTyped DEF Row, Current
<1> DEFINE n == Len(raw)
           h == Head(todo)
<1>3. /\ n \in Nat /\ DOMAIN raw = 1 .. n /\ DOMAIN raw' = 1 .. n + 1
      /\ \A i \in 1 .. n : raw'[i] = raw[i]
      /\ raw'[n + 1].seed = h /\ raw'[n + 1].match = Current
  <2>1. /\ n \in Nat /\ DOMAIN raw = 1 .. n /\ DOMAIN raw' = 1 .. n + 1
        /\ \A i \in 1 .. n : raw'[i] = raw[i]
        /\ raw'[n + 1] = Row(Current)
    BY <1>2, OneMore DEF Shape
  <2> QED  BY <1>2, <2>1
<1>4. h \in SeedsOf(todo) /\ h \notin skipped
  BY <1>1, HeadIsPlanned
<1>5. /\ SeedsOf(todo) = {h} \cup SeedsOf(Tail(todo)) /\ h \notin SeedsOf(Tail(todo))
  BY <1>1, HeadOfPlan DEF Balance, Shape
<1> HIDE DEF n, h
<1>6. \A i \in 1 .. n + 1 : i \in 1 .. n \/ i = n + 1
  BY <1>3
<1>7. 1 .. n \subseteq 1 .. n + 1 /\ n + 1 \in 1 .. n + 1
  BY <1>3
<1>8. RawSeeds \cap (SeedsOf(todo) \cup skipped) = {} /\ (\A i \in 1 .. n : raw[i].seed \in RawSeeds)
  BY <1>3 DEF Honest, RowsAreMatches, RawSeeds
<1>9. \A i \in 1 .. n : raw[i].seed # h
  BY <1>4, <1>8
<1>10. RowsAreMatches'
  <2>1. \A i \in DOMAIN raw' :
            /\ raw'[i].match \in Matches' /\ ledger'[raw'[i].match].ended
            /\ raw'[i].seed = ledger'[raw'[i].match].seed
    <3> SUFFICES ASSUME NEW i \in 1 .. n + 1
                 PROVE  /\ raw'[i].match \in Matches /\ ledger[raw'[i].match].ended
                        /\ raw'[i].seed = ledger[raw'[i].match].seed
      BY <1>3 DEF Matches
    <3>1. CASE i \in 1 .. n
      BY <1>3, <3>1 DEF Honest, RowsAreMatches
    <3>2. CASE i = n + 1
      BY <1>1, <1>2, <1>3, <3>2 DEF h
    <3> QED  BY <1>6, <3>1, <3>2
  <2>2. \A i, j \in DOMAIN raw' : raw'[i].seed = raw'[j].seed => i = j
    <3>1. \A i, j \in 1 .. n : raw[i].seed = raw[j].seed => i = j
      BY <1>3 DEF Honest, RowsAreMatches
    <3> QED  BY <1>3, <1>6, <1>9, <3>1
  <2>3. RawSeeds' \cap (SeedsOf(todo)' \cup skipped') = {}
    <3>1. RawSeeds' \subseteq RawSeeds \cup {h}
      BY <1>3, <1>6, <1>8 DEF RawSeeds
    <3>2. SeedsOf(todo)' = SeedsOf(Tail(todo))
      BY DEF SeedsOf
    <3> QED  BY <1>4, <1>5, <1>8, <3>1, <3>2
  <2> QED  BY <2>1, <2>2, <2>3 DEF RowsAreMatches
<1>11. ArtifactsAreOld'
  BY <1>1 DEF Honest, ArtifactsAreOld, Artifacts
<1>12. ASSUME NEW s \in Nat, Excused(s) PROVE Excused(s)'
  <2>1. PICK a \in Artifacts :
            s \in a.skips /\ \A i \in DOMAIN raw : raw[i].seed = s => a.at < raw[i].match
    BY <1>12 DEF Excused
  <2>2. a \in Artifacts' /\ a.at < Current
    BY <1>1, <1>2 DEF Honest, ArtifactsAreOld, Artifacts
  <2>3. \A i \in DOMAIN raw' : raw'[i].seed = s => a.at < raw'[i].match
    BY <1>3, <1>6, <2>1, <2>2
  <2> QED  BY <2>1, <2>2, <2>3 DEF Excused
<1>13. OrphansAreExcused'
  <2> SUFFICES ASSUME NEW m \in EndedMatches', m \notin RawMatches', NEW s \in Nat,
                      s = ledger'[m].seed
               PROVE  Explained(m, s)'
    BY DEF OrphansAreExcused
  <2>1. m \in EndedMatches /\ s = ledger[m].seed
    BY DEF EndedMatches, Matches
  <2>2. RawMatches \subseteq RawMatches' /\ Current \in RawMatches'
    <3>1. \A i \in 1 .. n : i \in DOMAIN raw' /\ raw'[i].match = raw[i].match
      BY <1>3, <1>7
    <3>2. n + 1 \in DOMAIN raw' /\ raw'[n + 1].match = Current
      BY <1>3, <1>7
    <3> QED  BY <1>3, <3>1, <3>2 DEF RawMatches
  <2>3. Explained(m, s) /\ m # Current
    BY <2>1, <2>2 DEF Honest, OrphansAreExcused
  <2> QED  BY <1>12, <2>3 DEF Explained
<1> QED  BY <1>10, <1>11, <1>13 DEF Honest

(* The process ends and its summary takes the place of the last one.       *)
LEMMA HonestSummary ==
    ASSUME Shape, Place, Honest, [Next]_vars, exit = "alive", pc \in {"next", "recheck"},
           WriteSummary(skipped), exit' # "alive", pc' = "idle",
           UNCHANGED <<ledger, raw, kept>>
    PROVE  Honest'
<1>1. ~ Wipe /\ ~ InMatch /\ ~ InMatch'
  BY DEF Wipe, InMatch
<1>2. RowsStay
  BY DEF RowsStay
<1>3. ArtifactsStand
  BY DEF ArtifactsStand, Artifacts, Honest, ArtifactsAreOld
<1>4. EndsAreExplained
  BY <1>1 DEF EndsAreExplained, EndedMatches, Matches
<1>5. summary'.at = Len(ledger) /\ summary'.skips = skipped /\ Len(ledger) \in Nat
  BY RecordsAreTyped DEF WriteSummary
<1>6. SkipsStand
  <2> SUFFICES ASSUME NEW s \in skipped PROVE Excused(s)'
    BY DEF SkipsStand, Explained
  <2>1. s \notin RawSeeds
    BY DEF Honest, RowsAreMatches
  <2>2. \A i \in DOMAIN raw : raw[i].seed # s
    BY <2>1 DEF RawSeeds
  <2> QED  BY <1>5, <2>2 DEF Excused, Artifacts
<1>7. ArtifactsAreOld'
  BY <1>1, <1>5 DEF ArtifactsAreOld, Artifacts, Honest
<1> QED  BY <1>1, <1>2, <1>3, <1>4, <1>6, <1>7, OrphansStay, RowsStand DEF Honest

LEMMA HonestDrive ==
    ASSUME Shape, Place, Books, LaneIsHonest, [Next]_vars, Drives, Evidence, honest,
           exit' # "killed"
    PROVE  Honest'
<1>1. exit = "alive" /\ Balance
  BY DEF Drives, Books
<1>2. EvidenceNext
  BY DEF Drives, AdaptationNext, EnterFirst, NoMatch, Fly, Falls, Lands, MeasureMatch, EndBaseline,
         EndPromote, EndPost, PhaseOver, Adaptation, Evidence
<1>3. CASE Wipe
  <2>1. /\ ledger' = <<>> /\ raw' = <<>> /\ summary' = NoSummary /\ kept' = {} /\ pc' = "boot"
    BY <1>3 DEF Wipe
  <2>2. Len(<<>>) = 0 /\ DOMAIN <<>> = {}
    BY EmptySeq
  <2>3. RowsAreMatches'
    BY <2>1, <2>2 DEF RowsAreMatches, RawSeeds
  <2>4. ArtifactsAreOld'
    BY <2>1, <2>2 DEF ArtifactsAreOld, Artifacts, NoSummary, InMatch
  <2>5. OrphansAreExcused'
    BY <2>1, <2>2 DEF OrphansAreExcused, EndedMatches, Matches
  <2> QED  BY <2>3, <2>4, <2>5 DEF Honest
<1>4. CASE ~ Wipe
  <2>1. Honest
    <3>1. pc # "wipe"
      BY <1>2, <1>4
      DEF EvidenceNext, Preflight, AssemblyFails, StartMatch, MatchDies, MatchEnds, Flush, Measure,
          Recheck, Finish
    <3> QED  BY <1>1, <3>1 DEF LaneIsHonest, Honest
  <2>2. \A c : /\ Casualty(c) /\ ledger' = ledger /\ todo # <<>>
               /\ (InMatch => ledger[Current].seed = Head(todo))
               => Honest'
    <3> SUFFICES ASSUME NEW c, Casualty(c), ledger' = ledger, todo # <<>>,
                        InMatch => ledger[Current].seed = Head(todo)
                 PROVE  Honest'
      OBVIOUS
    <3>1. \A m \in EndedMatches' : m \notin EndedMatches => ledger'[m].seed = Head(todo)
      BY DEF EndedMatches, Matches
    <3>2. InMatch => ledger'[Current].seed = Head(todo)
      OBVIOUS
    <3> QED  BY <1>1, <1>4, <2>1, <3>1, <3>2, HonestCasualty
  <2>3. InMatch => todo # <<>> /\ ledger[Current].seed = Head(todo)
    BY DEF Place
  <2>4. CASE UNCHANGED <<lane, todo, skipped>> /\ InMatch' = InMatch
             /\ (exit' = exit \/ skipped = {})
    BY <1>1, <1>4, <2>1, <2>4, HonestStutter DEF lane, Artifacts
  <2>5. CASE Preflight
    <3>1. skipped = {} /\ InMatch' = InMatch
      BY <2>5 DEF Preflight, Exits, Place, InMatch
    <3> QED  BY <2>4, <2>5, <3>1 DEF Preflight
  <2>6. CASE AssemblyFails
    BY <2>2, <2>3, <2>6 DEF AssemblyFails
  <2>7. CASE StartMatch
    BY <1>1, <2>1, <2>7, HonestStart
  <2>8. CASE MatchDies
    BY <2>2, <2>3, <2>8 DEF MatchDies, InMatch
  <2>9. CASE MatchEnds
    BY <1>1, <2>1, <2>9, HonestEnd
  <2>10. CASE Flush
    <3>1. InMatch /\ ledger' = ledger
      BY <2>10 DEF Flush, InMatch
    <3>2. CASE pc' = "measure" /\ UNCHANGED <<exit, kind, todo, flown, skipped, casualties, raw, summary, kept>>
      BY <2>4, <3>1, <3>2 DEF lane, InMatch
    <3> QED  BY <2>2, <2>3, <2>10, <3>1, <3>2 DEF Flush
  <2>11. CASE Measure
    <3>1. InMatch /\ ledger' = ledger
      BY <2>11 DEF Measure, InMatch
    <3>2. CASE /\ raw' = Append(raw, Row(Current)) /\ todo' = Tail(todo)
               /\ pc' \in {"recheck", "next"} /\ UNCHANGED <<exit, skipped, summary, kept>>
      BY <1>1, <2>1, <2>11, <3>1, <3>2, HonestRow DEF Measure
    <3> QED  BY <2>2, <2>3, <2>11, <3>1, <3>2 DEF Measure
  <2>12. CASE Recheck
    <3>1. CASE pc' = "next" /\ UNCHANGED <<exit, summary>>
      BY <2>4, <2>12, <3>1 DEF Recheck, lane, InMatch
    <3>2. CASE Exits("exit3") /\ WriteSummary(skipped)
      BY <1>1, <2>1, <2>12, <3>2, HonestSummary DEF Recheck, Exits
    <3> QED  BY <2>12, <3>1, <3>2 DEF Recheck
  <2>13. CASE Finish
    BY <1>1, <2>1, <2>13, HonestSummary DEF Finish, Exits, ExitCode
  <2> QED
    BY <1>2, <1>4, <2>5, <2>6, <2>7, <2>8, <2>9, <2>10, <2>11, <2>12, <2>13 DEF EvidenceNext
<1> QED  BY <1>3, <1>4

LEMMA HonestLaunch ==
    ASSUME Shape, Place, LaneIsHonest, Evidence, NEW r \in Requests, Launch(r, FALSE), honest'
    PROVE  Honest'
<1>1. /\ exit # "alive" /\ exit # "killed" /\ pc = "idle" /\ Honest
      /\ summary.skips # {} => summary \in kept
      /\ Asked(r) \cap RawSeeds = {}
  BY DEF Launch, ByTheBook, Place, LaneIsHonest, Honest
<1>2. UNCHANGED lane /\ skipped' = {} /\ pc' = "boot" /\ SeedsOf(todo)' = Asked(r)
  BY RequestsAreRanges DEF Launch, SeedsOf
<1>3. RowsAreMatches'
  BY <1>1, <1>2 DEF lane, RowsAreMatches, Honest, RawSeeds, Matches
<1>4. ArtifactsAreOld'
  BY <1>1, <1>2 DEF lane, ArtifactsAreOld, Honest, Artifacts, InMatch
<1>5. OrphansAreExcused'
  <2> SUFFICES ASSUME NEW m \in EndedMatches', m \notin RawMatches', NEW s \in Nat,
                      s = ledger'[m].seed
               PROVE  Explained(m, s)'
    BY DEF OrphansAreExcused
  <2>1. m \in EndedMatches /\ m \notin RawMatches /\ s = ledger[m].seed
    BY <1>2 DEF EndedMatches, RawMatches, Matches, lane
  <2>2. Excused(s)
    BY <1>1, <2>1 DEF Honest, OrphansAreExcused, Explained, InMatch
  <2> QED  BY <1>2, <2>2 DEF Explained, Excused, Artifacts, lane
<1> QED  BY <1>3, <1>4, <1>5 DEF Honest

LEMMA InitHonest == Init => LaneIsHonest
<1> QED
  BY EmptySeq
  DEF Init, LaneInit, DriverInit, LaneIsHonest, RowsAreMatches, ArtifactsAreOld, Artifacts,
      NoSummary, OrphansAreExcused, EndedMatches, Matches, RawSeeds, InMatch

LEMMA StepHonest ==
    ASSUME Shape, Place, Books, LaneIsHonest, [Next]_vars PROVE LaneIsHonest'
<1> SUFFICES ASSUME Evidence, honest', exit' # "killed", pc' # "wipe" PROVE Honest'
  BY KindIsFixed DEF LaneIsHonest, Honest
<1>1. CASE \E r \in Requests, wipe \in BOOLEAN : Launch(r, wipe)
  BY <1>1, HonestLaunch DEF Launch
<1>2. CASE Drives
  BY <1>2, HonestDrive DEF Drives
<1>3. CASE Dies
  BY <1>3 DEF Dies, Exits
<1>4. CASE UNCHANGED <<ledger, raw, summary, exit, pc, todo, skipped, honest>>
           /\ Artifacts' = Artifacts /\ (exit = "alive" => kept' = kept)
  <2>1. Honest /\ ~ Wipe /\ InMatch' = InMatch
    BY <1>4 DEF LaneIsHonest, Honest, Wipe, InMatch
  <2> QED  BY <1>4, <2>1, HonestStutter
<1>5. CASE Refuse \/ Saves
  BY <1>4, <1>5 DEF Refuse, Saves, Preserve, lane, process, Artifacts
<1>6. CASE Supervises \/ UNCHANGED vars
  BY <1>4, <1>6
  DEF Supervises, FirstCount, Progress, Quiet, Stall, Notify, Conclude, Watching, DriverKeeps,
      Exits, lane, process, vars, Artifacts
<1> QED  BY <1>1, <1>2, <1>3, <1>5, <1>6 DEF Next, Operates

-----------------------------------------------------------------------------
(* The watchdog's verdict is about the lane as the driver left it.         *)

(* One field of a watchdog's state is set and the others stay.             *)
LEMMA SetPc ==
    ASSUME NEW w \in WatchRecord, NEW p \in {"done", "started", "sleep", "notify"}
    PROVE  /\ [w EXCEPT !.pc = p] \in WatchRecord
           /\ [w EXCEPT !.pc = p].pc = p
           /\ [w EXCEPT !.pc = p].contract = w.contract
           /\ [w EXCEPT !.pc = p].state = w.state
<1> QED  BY DEF WatchRecord

LEMMA SetContract ==
    ASSUME NEW w \in WatchRecord, NEW c \in Contracts
    PROVE  /\ [w EXCEPT !.contract = c] \in WatchRecord
           /\ [w EXCEPT !.contract = c].pc = w.pc
           /\ [w EXCEPT !.contract = c].contract = c
           /\ [w EXCEPT !.contract = c].state = w.state
<1> QED  BY DEF WatchRecord

LEMMA SetState ==
    ASSUME NEW w \in WatchRecord, NEW v \in {"none", "crashed", "incomplete", "completed", "stalled"}
    PROVE  /\ [w EXCEPT !.state = v] \in WatchRecord
           /\ [w EXCEPT !.state = v].pc = w.pc
           /\ [w EXCEPT !.state = v].contract = w.contract
           /\ [w EXCEPT !.state = v].state = v
<1> QED  BY DEF WatchRecord

LEMMA SetRows ==
    ASSUME NEW w \in WatchRecord, NEW n \in Nat
    PROVE  /\ [w EXCEPT !.rows = n] \in WatchRecord
           /\ [w EXCEPT !.rows = n].pc = w.pc
           /\ [w EXCEPT !.rows = n].contract = w.contract
           /\ [w EXCEPT !.rows = n].state = w.state
<1> QED  BY DEF WatchRecord

LEMMA SetQuiet ==
    ASSUME NEW w \in WatchRecord, NEW n \in Nat
    PROVE  /\ [w EXCEPT !.quiet = n] \in WatchRecord
           /\ [w EXCEPT !.quiet = n].pc = w.pc
           /\ [w EXCEPT !.quiet = n].contract = w.contract
           /\ [w EXCEPT !.quiet = n].state = w.state
<1> QED  BY DEF WatchRecord

LEMMA SetTried ==
    ASSUME NEW w \in WatchRecord, NEW n \in Nat
    PROVE  /\ [w EXCEPT !.tried = n] \in WatchRecord
           /\ [w EXCEPT !.tried = n].pc = w.pc
           /\ [w EXCEPT !.tried = n].contract = w.contract
           /\ [w EXCEPT !.tried = n].state = w.state
<1> QED  BY DEF WatchRecord

LEMMA SetTold ==
    ASSUME NEW w \in WatchRecord, NEW n \in Nat
    PROVE  /\ [w EXCEPT !.told = n] \in WatchRecord
           /\ [w EXCEPT !.told = n].pc = w.pc
           /\ [w EXCEPT !.told = n].contract = w.contract
           /\ [w EXCEPT !.told = n].state = w.state
<1> QED  BY DEF WatchRecord

LEMMA SetChained ==
    ASSUME NEW w \in WatchRecord, NEW b \in BOOLEAN
    PROVE  /\ [w EXCEPT !.chained = b] \in WatchRecord
           /\ [w EXCEPT !.chained = b].pc = w.pc
           /\ [w EXCEPT !.chained = b].contract = w.contract
           /\ [w EXCEPT !.chained = b].state = w.state
<1> QED  BY DEF WatchRecord

LEMMA SetCode ==
    ASSUME NEW w \in WatchRecord, NEW c \in {"none", "exit0", "exit1", "exit2", "exit3", "exit4", "raised"}
    PROVE  /\ [w EXCEPT !.code = c] \in WatchRecord
           /\ [w EXCEPT !.code = c].pc = w.pc
           /\ [w EXCEPT !.code = c].contract = w.contract
           /\ [w EXCEPT !.code = c].state = w.state
<1> QED  BY DEF WatchRecord

LEMMA AsleepIsTyped ==
    /\ Asleep \in WatchRecord /\ NoContract \in Contracts
    /\ Asleep.pc = "done" /\ Asleep.state = "none"
<1> QED  BY DEF Asleep, WatchRecord, NoContract, Contracts

LEMMA SeedsAreCounted ==
    IsFiniteSet(Seeds) /\ Cardinality(Seeds) = SeedCount /\ Seeds \subseteq Nat
<1>1. SeedBase + 1 \in Int /\ SeedBase + SeedCount \in Int
      /\ SeedBase + 1 <= SeedBase + SeedCount
      /\ (SeedBase + SeedCount) - (SeedBase + 1) + 1 = SeedCount
  BY SeedsAssumption
<1>2. Seeds \subseteq Nat
  BY SeedsAssumption DEF Seeds
<1>3. IsFiniteSet(Seeds)
      /\ Cardinality(Seeds) = (SeedBase + SeedCount) - (SeedBase + 1) + 1
  BY <1>1, FS_Interval DEF Seeds
<1> QED  BY <1>1, <1>2, <1>3

LEMMA ContractIsTyped ==
    ASSUME Shape
    PROVE  /\ Contract \in Contracts
           /\ Evidence => /\ Contract.min = SeedCount /\ Contract.max = SeedCount
                          /\ Contract # NoContract
<1>1. Cardinality(Seeds) = SeedCount /\ SeedCount \in Nat \ {0}
  BY SeedsAreCounted, SeedsAssumption
<1> QED
  BY <1>1, AdaptationAssumption
  DEF Contract, RowBounds, NoContract, Contracts, Evidence, Shape

LEMMA PollsWatch ==
    ASSUME NEW w \in WatchRecord, w.state = "none", Len(raw) \in Nat, Polls(w)
    PROVE  /\ watch' \in WatchRecord /\ watch'.contract = w.contract
           /\ \/ watch'.pc = "sleep" /\ watch'.state = "none"
              \/ watch'.pc = "notify" /\ watch'.state = Verdict(Len(raw))
<1>1. CASE exit = "alive"
  BY <1>1, SetPc DEF Polls
<1>2. CASE exit # "alive"
  <2> DEFINE a == [w EXCEPT !.pc = "notify"]
             b == [a EXCEPT !.rows = Len(raw)]
             v == Verdict(Len(raw))
             c == [b EXCEPT !.state = v]
  <2>1. watch' = c
    BY <1>2 DEF Polls
  <2>2. a \in WatchRecord /\ a.pc = "notify" /\ a.contract = w.contract
    BY SetPc
  <2>3. b \in WatchRecord /\ b.pc = a.pc /\ b.contract = a.contract
    <3> HIDE DEF a
    <3> QED  BY <2>2, SetRows
  <2>4. v \in {"none", "crashed", "incomplete", "completed", "stalled"}
    BY DEF Verdict
  <2>5. c \in WatchRecord /\ c.pc = b.pc /\ c.contract = b.contract /\ c.state = v
    <3> HIDE DEF b, v
    <3> QED  BY <2>3, <2>4, SetState
  <2> HIDE DEF a, b, c
  <2> QED  BY <2>1, <2>2, <2>3, <2>5
<1> QED  BY <1>1, <1>2

(* The watchdog looks at what the driver left and changes nothing.         *)
LEMMA PollsWatches ==
    ASSUME Shape, Watches, watch.pc \in {"started", "sleep"}, DriverKeeps,
           NEW w \in WatchRecord, w.state = watch.state, w.contract = watch.contract, Polls(w)
    PROVE  Watches'
<1>1. Len(raw) \in Nat
  BY LenProperties DEF Shape
<1>2. w.state = "none" /\ watch.contract = Contract
  BY DEF Watches
<1>3. /\ watch' \in WatchRecord /\ watch'.contract = Contract
      /\ \/ watch'.pc = "sleep" /\ watch'.state = "none"
         \/ watch'.pc = "notify" /\ watch'.state = Verdict(Len(raw))
  BY <1>1, <1>2, PollsWatch
<1>4. UNCHANGED <<exit, raw, kind>> /\ Contract' = Contract
  BY DEF DriverKeeps, process, lane, Contract
<1>5. Verdict(Len(raw)) = "completed" => exit = "exit0" /\ Satisfies(Len(raw))
  BY DEF Verdict
<1>6. Satisfies(Len(raw)) => Satisfies(Len(raw))'
  BY <1>2, <1>3, <1>4 DEF Satisfies
<1> QED  BY <1>2, <1>3, <1>4, <1>5, <1>6 DEF Watches

LEMMA InitWatches == Init => Watches
<1> QED  BY AsleepIsTyped DEF Init, Watches

LEMMA LaunchWatches ==
    ASSUME Shape, NEW r \in Requests, NEW wipe \in BOOLEAN, Launch(r, wipe) PROVE Watches'
<1> DEFINE c == Contract
           a == [Asleep EXCEPT !.pc = "started"]
           b == [a EXCEPT !.contract = c]
<1>1. watch' = b /\ Contract' = c
  BY DEF Launch, Contract
<1>2. c \in Contracts
  BY ContractIsTyped
<1>3. a \in WatchRecord /\ a.pc = "started" /\ a.state = "none"
  BY AsleepIsTyped, SetPc
<1>4. b \in WatchRecord /\ b.pc = a.pc /\ b.state = a.state /\ b.contract = c
  <2> HIDE DEF a, c
  <2> QED  BY <1>2, <1>3, SetContract
<1> HIDE DEF a, b, c
<1> QED  BY <1>1, <1>3, <1>4 DEF Watches

LEMMA RefuseWatches ==
    ASSUME Refuse PROVE Watches'
<1> DEFINE a == [Asleep EXCEPT !.code = "exit4"]
<1>1. watch' = a
  BY DEF Refuse
<1>2. a \in WatchRecord /\ a.pc = "done" /\ a.state = "none"
  BY AsleepIsTyped, SetCode
<1> HIDE DEF a
<1> QED  BY <1>1, <1>2 DEF Watches

LEMMA PollWatches ==
    ASSUME Shape, Watches, FirstCount \/ Progress \/ Quiet PROVE Watches'
<1>1. Len(raw) \in Nat /\ watch \in WatchRecord /\ watch.quiet + 1 \in Nat /\ 0 \in Nat
  BY LenProperties DEF Shape, Watches, WatchRecord
<1>2. CASE FirstCount
  <2> DEFINE w == [watch EXCEPT !.rows = Len(raw)]
  <2>1. w \in WatchRecord /\ w.state = watch.state /\ w.contract = watch.contract
    BY <1>1, SetRows
  <2>2. Polls(w) /\ DriverKeeps /\ watch.pc = "started"
    BY <1>2 DEF FirstCount, Watching
  <2> HIDE DEF w
  <2> QED  BY <2>1, <2>2, PollsWatches
<1>3. CASE Progress
  <2> DEFINE a == [watch EXCEPT !.rows = Len(raw)]
             w == [a EXCEPT !.quiet = 0]
  <2>1. a \in WatchRecord /\ a.state = watch.state /\ a.contract = watch.contract
    BY <1>1, SetRows
  <2>2. w \in WatchRecord /\ w.state = a.state /\ w.contract = a.contract
    <3> HIDE DEF a
    <3> QED  BY <1>1, <2>1, SetQuiet
  <2>3. Polls(w) /\ DriverKeeps /\ watch.pc = "sleep"
    BY <1>3 DEF Progress, Watching
  <2> HIDE DEF w, a
  <2> QED  BY <2>1, <2>2, <2>3, PollsWatches
<1>4. CASE Quiet
  <2> DEFINE w == [watch EXCEPT !.quiet = watch.quiet + 1]
  <2>1. w \in WatchRecord /\ w.state = watch.state /\ w.contract = watch.contract
    BY <1>1, SetQuiet
  <2>2. Polls(w) /\ DriverKeeps /\ watch.pc = "sleep"
    BY <1>4 DEF Quiet, Watching
  <2> HIDE DEF w
  <2> QED  BY <2>1, <2>2, PollsWatches
<1> QED  BY <1>2, <1>3, <1>4

LEMMA StallWatches ==
    ASSUME Shape, Watches, Stall PROVE Watches'
<1> DEFINE a == [watch EXCEPT !.pc = "notify"]
           b == [a EXCEPT !.state = "stalled"]
<1>1. watch' = b /\ watch.pc = "sleep" /\ kind' = kind
  BY DEF Stall, Watching
<1>2. a \in WatchRecord /\ a.pc = "notify" /\ a.contract = watch.contract
  BY SetPc DEF Watches
<1>3. b \in WatchRecord /\ b.pc = a.pc /\ b.contract = a.contract /\ b.state = "stalled"
  <2> HIDE DEF a
  <2> QED  BY <1>2, SetState
<1> HIDE DEF a, b
<1>4. watch.contract = Contract /\ Contract' = Contract
  BY <1>1 DEF Watches, Contract
<1> QED  BY <1>1, <1>2, <1>3, <1>4 DEF Watches

(* Nothing that the verdict rests on changes after it.                     *)
LEMMA VerdictStands ==
    ASSUME Watches, UNCHANGED <<exit, raw, kind>>, watch' \in WatchRecord,
           watch'.contract = watch.contract, watch'.state = watch.state,
           watch'.pc = watch.pc \/ watch'.pc = "done"
    PROVE  Watches'
<1>1. Contract' = Contract
  BY DEF Contract
<1>2. Satisfies(Len(raw)) => Satisfies(Len(raw))'
  BY DEF Satisfies
<1> QED  BY <1>1, <1>2 DEF Watches

LEMMA NotifyWatches ==
    ASSUME Watches, Notify PROVE Watches'
<1>1. PICK ok \in Delivery :
          watch' = [watch EXCEPT !.tried = watch.tried + 1, !.told = watch.told + ok]
  BY DEF Notify
<1>2. watch.tried + 1 \in Nat /\ watch.told + ok \in Nat /\ watch \in WatchRecord
  BY DEF Watches, WatchRecord, Delivery
<1> DEFINE n == watch.told + ok
           a == [watch EXCEPT !.tried = watch.tried + 1]
           b == [a EXCEPT !.told = n]
<1>3. a \in WatchRecord /\ a.pc = watch.pc /\ a.contract = watch.contract /\ a.state = watch.state
  BY <1>2, SetTried
<1>4. watch' = b
  BY <1>1
<1>5. b \in WatchRecord /\ b.pc = a.pc /\ b.contract = a.contract /\ b.state = a.state
  <2> HIDE DEF a, n
  <2>1. n \in Nat
    BY <1>2 DEF n
  <2> QED  BY <1>3, <2>1, SetTold
<1>6. UNCHANGED <<exit, raw, kind>>
  BY DEF Notify, DriverKeeps, process, lane
<1> HIDE DEF a, b
<1> QED  BY <1>3, <1>4, <1>5, <1>6, VerdictStands

LEMMA ConcludeWatches ==
    ASSUME Watches, Conclude PROVE Watches'
<1>1. PICK chain \in {"none", "runs", "missing"} : \E forced \in BOOLEAN :
          LET chains == ShouldChain(chain, forced)
          IN  watch' = [watch EXCEPT
                  !.pc = "done",
                  !.chained = chains /\ chain = "runs",
                  !.code = IF chains /\ chain = "missing" THEN "raised" ELSE WatchExit]
  BY DEF Conclude
<1>2. PICK forced \in BOOLEAN :
          LET chains == ShouldChain(chain, forced)
          IN  watch' = [watch EXCEPT
                  !.pc = "done",
                  !.chained = chains /\ chain = "runs",
                  !.code = IF chains /\ chain = "missing" THEN "raised" ELSE WatchExit]
  BY <1>1
<1> DEFINE ran == ShouldChain(chain, forced) /\ chain = "runs"
           code == IF ShouldChain(chain, forced) /\ chain = "missing" THEN "raised" ELSE WatchExit
           a == [watch EXCEPT !.pc = "done"]
           b == [a EXCEPT !.chained = ran]
           c == [b EXCEPT !.code = code]
<1>3. watch' = c
  BY <1>2
<1>4. watch \in WatchRecord /\ ran \in BOOLEAN
      /\ code \in {"none", "exit0", "exit1", "exit2", "exit3", "exit4", "raised"}
  BY DEF Watches, WatchExit
<1>5. a \in WatchRecord /\ a.pc = "done" /\ a.contract = watch.contract /\ a.state = watch.state
  BY <1>4, SetPc
<1>6. b \in WatchRecord /\ b.pc = a.pc /\ b.contract = a.contract /\ b.state = a.state
  <2> HIDE DEF a, ran
  <2> QED  BY <1>4, <1>5, SetChained
<1>7. c \in WatchRecord /\ c.pc = b.pc /\ c.contract = b.contract /\ c.state = b.state
  <2> HIDE DEF b, code
  <2> QED  BY <1>4, <1>6, SetCode
<1>8. UNCHANGED <<exit, raw, kind>>
  BY DEF Conclude, DriverKeeps, process, lane
<1> HIDE DEF a, b, c
<1> QED  BY <1>3, <1>5, <1>6, <1>7, <1>8, VerdictStands

LEMMA StepWatches ==
    ASSUME Shape, Watches, [Next]_vars PROVE Watches'
<1>1. CASE \E r \in Requests, wipe \in BOOLEAN : Launch(r, wipe)
  BY <1>1, LaunchWatches
<1>2. CASE Refuse
  BY <1>2, RefuseWatches
<1>3. CASE Saves \/ UNCHANGED vars
  <2>1. UNCHANGED <<watch, exit, raw, kind>>
    BY <1>3 DEF Saves, Preserve, vars, process, lane
  <2> QED  BY <2>1, VerdictStands DEF Watches
<1>4. CASE Drives \/ Dies
  <2>1. exit = "alive" /\ watch' = watch /\ kind' = kind
    BY <1>4, KindIsFixed DEF Drives, Dies
  <2>2. Contract' = Contract
    BY <2>1 DEF Contract
  <2> QED  BY <2>1, <2>2 DEF Watches
<1>5. CASE Supervises
  BY <1>5, PollWatches, StallWatches, NotifyWatches, ConcludeWatches DEF Supervises
<1> QED  BY <1>1, <1>2, <1>3, <1>4, <1>5 DEF Next, Operates

-----------------------------------------------------------------------------
(* A lane that is honest and has as many rows as seeds passes the gate.    *)

LEMMA EverySeedHasItsRow ==
    ASSUME Shape, Honest, Announced, Evidence, Len(raw) = SeedCount
    PROVE  SeedCoverage
<1> DEFINE n == Len(raw)
           f == [i \in 1 .. n |-> raw[i].seed]
<1>1. n \in Nat \ {0} /\ DOMAIN raw = 1 .. n /\ n = SeedCount
  BY LenProperties, SeedsAssumption DEF Shape
<1>2. \A i \in 1 .. n : raw[i].seed \in Seeds
  BY <1>1 DEF Honest, RowsAreMatches, Announced
<1>3. \A i, j \in 1 .. n : raw[i].seed = raw[j].seed => i = j
  BY <1>1 DEF Honest, RowsAreMatches
<1>4. IsFiniteSet(Seeds) /\ Cardinality(Seeds) = n
  BY <1>1, SeedsAreCounted
<1>5. IsFiniteSet(1 .. n) /\ Cardinality(1 .. n) = n
  <2> HIDE DEF n
  <2>1. IsFiniteSet(1 .. n) /\ Cardinality(1 .. n) = IF 1 > n THEN 0 ELSE n - 1 + 1
    BY <1>1, FS_Interval
  <2> QED  BY <1>1, <2>1
<1>6. f \in Injection(1 .. n, Seeds)
  BY <1>2, <1>3 DEF Injection, IsInjective
<1>7. f \in Surjection(1 .. n, Seeds)
  <2> HIDE DEF f, n
  <2> QED  BY <1>4, <1>5, <1>6, FS_Injection
<1>8. \A s \in Seeds : \E i \in 1 .. n : raw[i].seed = s
  BY <1>7 DEF Surjection
<1>9. RawSeeds = Seeds
  <2>1. RawSeeds \subseteq Seeds
    BY <1>1, <1>2 DEF RawSeeds
  <2>2. Seeds \subseteq RawSeeds
    BY <1>1, <1>8 DEF RawSeeds
  <2> QED  BY <2>1, <2>2
<1>10. ASSUME NEW s \in Seeds PROVE Cardinality(RowsOf(s)) = 1
  <2>1. PICK i \in 1 .. n : raw[i].seed = s
    BY <1>8
  <2>2. RowsOf(s) = {i}
    BY <1>1, <1>3, <2>1 DEF RowsOf
  <2> QED  BY <2>2, FS_Singleton
<1> QED  BY <1>9, <1>10 DEF SeedCoverage

LEMMA HonestIsClean ==
    ASSUME Shape, Place, Honest, Announced, Evidence, exit = "exit0", Len(raw) = SeedCount
    PROVE  GateClean
<1>1. SeedCoverage
  BY EverySeedHasItsRow
<1>2. raw # <<>>
  BY EmptySeq, SeedsAssumption
<1>3. \A i \in DOMAIN raw :
          /\ raw[i].match \in EndedMatches
          /\ raw[i].seed = ledger[raw[i].match].seed
  BY DEF Honest, RowsAreMatches, EndedMatches
<1>4. RawNotInEnded = {}
  BY <1>3 DEF RawNotInEnded, RawMatches
<1>5. NoMatchTwice
  BY <1>3 DEF NoMatchTwice, Honest, RowsAreMatches
<1>6. ASSUME NEW m \in EndedNotInRaw PROVE m \in Discharged
  <2> DEFINE s == ledger[m].seed
  <2>1. m \in EndedMatches /\ m \notin RawMatches /\ m \in Matches
    BY DEF EndedNotInRaw, EndedMatches
  <2>2. s \in Nat /\ s \in Seeds
    BY <2>1, SeedsAreCounted DEF Announced
  <2>3. Explained(m, s)
    BY <2>1, <2>2 DEF Honest, OrphansAreExcused
  <2>4. Excused(s)
    BY <2>3 DEF Explained, Place, InMatch
  <2> HIDE DEF s
  <2>5. PICK a \in Artifacts :
            s \in a.skips /\ \A i \in DOMAIN raw : raw[i].seed = s => a.at < raw[i].match
    BY <2>4 DEF Excused
  <2>6. PICK i \in DOMAIN raw : raw[i].seed = s
    BY <1>1, <2>2 DEF SeedCoverage, RawSeeds
  <2>7. RowsOf(s) = {i}
    BY <2>6 DEF RowsOf, Honest, RowsAreMatches
  <2>8. Makeup(s) = raw[i].match
    <3>1. i \in Nat
      BY LenProperties DEF Shape
    <3>2. (CHOOSE k \in {i} : \A j \in {i} : j <= k) = i
      BY <3>1
    <3> QED  BY <2>7, <3>2 DEF Makeup
  <2>9. a \in SkipArtifacts /\ a.at < Makeup(s) /\ RowsOf(s) # {}
    BY <2>5, <2>6, <2>7, <2>8 DEF SkipArtifacts, Artifacts
  <2> QED  BY <2>5, <2>9 DEF Discharged, s
<1> QED  BY <1>1, <1>2, <1>4, <1>5, <1>6 DEF GateClean

LEMMA CompletedMeansClean ==
    ASSUME Shape, Place, Announced, LaneIsHonest, Watches PROVE CompletedIsClean
<1> SUFFICES ASSUME watch.state = "completed", Evidence, honest PROVE GateClean
  BY DEF CompletedIsClean
<1>1. watch.contract = Contract /\ exit = "exit0" /\ Satisfies(Len(raw))
  BY DEF Watches
<1>2. Len(raw) \in Nat
  BY LenProperties DEF Shape
<1>3. Len(raw) = SeedCount
  BY <1>1, <1>2, ContractIsTyped, SeedsAssumption DEF Satisfies
<1>4. Honest
  BY <1>1 DEF LaneIsHonest, Honest, Place
<1> QED  BY <1>1, <1>3, <1>4, HonestIsClean

LEMMA InitIInv == Init => IInv
<1> QED
  BY InitShape, InitPlace, InitCrossing, InitBooks, InitAnnounced, InitHonest, InitWatches DEF IInv

LEMMA StepIInv == IInv /\ [Next]_vars => IInv'
<1> QED
  BY StepShape, StepPlace, StepCrossing, StepBooks, StepAnnounced, StepHonest, StepWatches DEF IInv

(* What the watchdog and the exit codes say of a battery is what happened  *)
(* to its seeds: a COMPLETED lane that was flown and made up by the book   *)
(* passes the contamination gate (scripts/check_contamination_gate.py),    *)
(* and a driver that ended accounts for each of its seeds.                 *)
THEOREM ReportsAlwaysTrue == Spec => []ReportsAreTrue
<1>1. IInv => ReportsAreTrue
  BY CompletedMeansClean DEF IInv, Books, ReportsAreTrue
<1> QED  BY InitIInv, StepIInv, <1>1, PTL DEF Spec

-----------------------------------------------------------------------------
(* The adaptation battery.                                                 *)

(* The matches that have promoted.                                         *)
Promoters == {m \in Matches : Promoted(m)}

LEMMA GenerationCounts ==
    ASSUME Shape
    PROVE  /\ Generation \in Nat
           /\ Generation = 0 => Promoters = {}
           /\ \A m : Promoters = {m} => Generation = 1
<1>1. Generation = Cardinality(Promoters)
  BY DEF Generation, Promoters, Promoted
<1>2. Len(ledger) \in Nat
  BY RecordsAreTyped
<1>3. IsFiniteSet(Matches)
  BY <1>2, FS_Interval DEF Matches
<1>4. Promoters \in SUBSET Matches
  BY DEF Promoters
<1>5. IsFiniteSet(Promoters)
  BY <1>3, <1>4, FS_Subset
<1>6. Cardinality(Promoters) = 0 => Promoters = {}
  BY <1>5, FS_EmptySet
<1> QED  BY <1>1, <1>6, GenerationIsNat, FS_Singleton

(* The cap lets a match promote only above genesis.                        *)
LEMMA OnlyFromGenesis ==
    ASSUME Shape, kind = "adaptation", NEW g \in Nat, CanPromote(g) PROVE g = 0
<1> QED  BY DEF CanPromote, Cap, Shape, Phases

LEMMA StepOnePromotion ==
    ASSUME Shape, Place, kind = "adaptation", OnePromotion, [Next]_vars PROVE OnePromotion'
<1>0. ~ StartMatch /\ ~ MatchEnds /\ (pc' = "flying" => pc = "flying" \/ Fly)
  BY DEF StartMatch, MatchEnds, Evidence, Next, Operates, Launch, Refuse, Saves, process, Drives,
         EvidenceNext, Wipe, Preflight, AssemblyFails, MatchDies, Flush, Measure, Recheck, Finish,
         Casualty, Exits, AdaptationNext, EnterFirst, NoMatch, Falls, Lands, MeasureMatch,
         EndBaseline, EndPromote, EndPost, Enter, AbortsWith, EndsWith, Dies, Supervises,
         FirstCount, Progress, Quiet, Stall, Notify, Conclude, DriverKeeps, vars
<1>1. CASE Wipe
  BY <1>1, EmptySeq DEF Wipe, OnePromotion, Matches
<1>2. CASE ledger' = ledger
  BY <1>0, <1>2 DEF OnePromotion, Promoted, Matches, Current, Generation, Fly, Started
<1>3. CASE Fly
  <2>1. Head(todo) \in Nat
    BY <1>3, OneLess DEF Fly, Shape
  <2>2. /\ Matches' = Matches \cup {Len(ledger) + 1} /\ Len(ledger) + 1 \notin Matches
        /\ Len(ledger') = Len(ledger) + 1
        /\ \A m \in Matches : ledger'[m] = ledger[m]
        /\ ledger'[Len(ledger) + 1] =
               [seed |-> Head(todo), ended |-> FALSE, gen |-> Generation, promoted |-> FALSE]
    BY <1>3, <2>1, StartedLedger DEF Fly
  <2>3. /\ ~ ledger'[Len(ledger) + 1].promoted /\ ledger'[Len(ledger) + 1].gen = Generation
    BY <2>2
  <2>4. {m \in Matches' : ledger'[m].promoted} = {m \in Matches : ledger[m].promoted}
    BY <2>2, <2>3
  <2>5. Generation' = Generation
    BY <2>4 DEF Generation
  <2>6. \A m \in Matches' : ledger'[m].promoted => m \in Matches /\ ledger[m].promoted
    BY <2>4
  <2> QED  BY <2>2, <2>3, <2>5, <2>6 DEF OnePromotion, Promoted, Current
<1>4. CASE Lands
  <2>1. PICK p \in BOOLEAN : (p => CanPromote(ledger[Current].gen)) /\ ledger' = Ended(Current, p)
    BY <1>4 DEF Lands
  <2>2. pc = "flying" /\ pc' = "measure" /\ ledger # <<>> /\ ~ ledger[Current].ended
        /\ ledger[Current].gen = Generation
    BY <1>4 DEF Lands, Place, InMatch, OnePromotion
  <2>3. /\ Current \in Matches /\ Matches' = Matches
        /\ \A m \in Matches : m # Current => ledger'[m] = ledger[m]
        /\ ledger'[Current].ended /\ ledger'[Current].promoted = p
    BY <2>1, <2>2, EndedLedger
  <2>4. CASE p
    <3>1. Promoters = {}
      BY <2>1, <2>2, <2>4, OnlyFromGenesis, GenerationCounts
    <3> QED  BY <2>2, <2>3, <2>4, <3>1 DEF OnePromotion, Promoted, Promoters
  <2>5. CASE ~ p
    BY <2>2, <2>3, <2>5 DEF OnePromotion, Promoted
  <2> QED  BY <2>4, <2>5
<1> QED  BY <1>0, <1>1, <1>2, <1>3, <1>4, LedgerSteps

(* What a step may do to the rows of the phases.                           *)
LEMMA PhaseSteps ==
    ASSUME [Next]_vars
    PROVE  \/ phaseRows' = phaseRows
           \/ phaseRows' = NoRows /\ \E r \in Requests, wipe \in BOOLEAN : Launch(r, wipe)
           \/ /\ MeasureMatch /\ pc = "measure" /\ exit = "alive" /\ ledger' = ledger
              /\ phaseRows' = [phaseRows EXCEPT ![phase] = Append(@, Current)]
<1>1. CASE Drives /\ AdaptationNext
  <2>1. AdaptationNext /\ exit = "alive"
    BY <1>1 DEF Drives
  <2> QED
    BY <2>1
    DEF AdaptationNext, EnterFirst, NoMatch, Fly, Falls, Lands, MeasureMatch, EndBaseline,
        EndPromote, EndPost, Enter, AbortsWith, EndsWith, phases
<1>2. CASE Drives /\ ~ AdaptationNext
  BY <1>2 DEF Drives, phases
<1>3. CASE Refuse \/ Saves \/ Dies \/ Supervises
  BY <1>3
  DEF Refuse, Saves, Dies, Supervises, FirstCount, Progress, Quiet, Stall, Notify, Conclude,
      DriverKeeps, phases
<1>4. CASE UNCHANGED vars
  BY <1>4 DEF vars, phases
<1>5. CASE \E r \in Requests, wipe \in BOOLEAN : Launch(r, wipe)
  <2>1. phaseRows' = NoRows
    BY <1>5 DEF Launch
  <2> QED  BY <1>5, <2>1
<1> QED  BY <1>1, <1>2, <1>3, <1>4, <1>5 DEF Next, Operates

LEMMA NoRowsAreEmpty ==
    \A p \in Phases : NoRows[p] = <<>> /\ DOMAIN NoRows[p] = {} /\ Len(NoRows[p]) = 0
<1> QED  BY EmptySeq DEF NoRows

(* The rows of the current phase, after one more.                          *)
LEMMA OneRowMore ==
    ASSUME Shape, Current \in Nat,
           phaseRows' = [phaseRows EXCEPT ![phase] = Append(@, Current)]
    PROVE  /\ \A p \in Phases : p # phase => phaseRows'[p] = phaseRows[p]
           /\ Len(phaseRows[phase]) \in Nat
           /\ Len(phaseRows'[phase]) = Len(phaseRows[phase]) + 1
           /\ DOMAIN phaseRows[phase] = 1 .. Len(phaseRows[phase])
           /\ DOMAIN phaseRows'[phase] = 1 .. Len(phaseRows[phase]) + 1
           /\ \A i \in 1 .. Len(phaseRows[phase]) : phaseRows'[phase][i] = phaseRows[phase][i]
           /\ phaseRows'[phase][Len(phaseRows[phase]) + 1] = Current
<1>1. phase \in Phases /\ phaseRows \in [Phases -> Seq(Nat)]
  BY DEF Shape
<1> DEFINE q == phaseRows[phase]
<1>2. q \in Seq(Nat)
  BY <1>1
<1>3. phaseRows'[phase] = Append(q, Current) /\ \A p \in Phases : p # phase => phaseRows'[p] = phaseRows[p]
  BY <1>1
<1>4. /\ Len(q) \in Nat /\ Len(Append(q, Current)) = Len(q) + 1
      /\ DOMAIN q = 1 .. Len(q) /\ DOMAIN Append(q, Current) = 1 .. Len(q) + 1
      /\ \A i \in 1 .. Len(q) : Append(q, Current)[i] = q[i]
      /\ Append(q, Current)[Len(q) + 1] = Current
  <2> HIDE DEF q
  <2> QED  BY <1>2, OneMore
<1> QED  BY <1>3, <1>4

LEMMA StepRowsAreOver ==
    ASSUME Shape, Place, kind = "adaptation", RowsAreOver, exit = "alive" => Phased, [Next]_vars
    PROVE  RowsAreOver'
<1> SUFFICES ASSUME NEW p \in Phases, NEW i \in DOMAIN phaseRows'[p]
             PROVE  phaseRows'[p][i] \in Matches' /\ ledger'[phaseRows'[p][i]].ended
  BY DEF RowsAreOver, Rows
<1>0. Len(ledger) \in Nat /\ Current \in Nat /\ (ledger # <<>> => Current \in Matches)
  BY RecordsAreTyped
<1>1. CASE Wipe /\ exit = "alive"
  <2>1. phaseRows' = phaseRows \/ phaseRows' = NoRows
    BY <1>1, PhaseSteps DEF Wipe
  <2>2. Phased /\ pc = "wipe"
    BY <1>1 DEF Wipe
  <2>3. phase = "baseline" /\ Rows("baseline") = <<>>
    BY <2>2 DEF Phased
  <2>4. Rows("promote") = <<>> /\ Rows("post") = <<>>
    BY <2>2, <2>3 DEF Phased
  <2>5. phaseRows[p] = <<>>
    BY <2>3, <2>4 DEF Rows, Phases
  <2> QED  BY <2>1, <2>5, NoRowsAreEmpty, EmptySeq
<1>2. CASE ~ Wipe /\ phaseRows' = phaseRows
  <2>1. phaseRows[p][i] \in Matches /\ ledger[phaseRows[p][i]].ended
    BY <1>2 DEF RowsAreOver, Rows
  <2> QED  BY <1>2, <2>1, HistoryStands
<1>3. CASE phaseRows' = NoRows
  BY <1>3, NoRowsAreEmpty
<1>4. CASE /\ MeasureMatch /\ pc = "measure" /\ exit = "alive" /\ ledger' = ledger
           /\ phaseRows' = [phaseRows EXCEPT ![phase] = Append(@, Current)]
  <2>1. Current \in Matches /\ ledger[Current].ended /\ Matches' = Matches
    BY <1>0, <1>4 DEF Place, InMatch, Matches
  <2>2. /\ \A r \in Phases : r # phase => phaseRows'[r] = phaseRows[r]
        /\ Len(phaseRows[phase]) \in Nat
        /\ DOMAIN phaseRows[phase] = 1 .. Len(phaseRows[phase])
        /\ DOMAIN phaseRows'[phase] = 1 .. Len(phaseRows[phase]) + 1
        /\ \A j \in 1 .. Len(phaseRows[phase]) : phaseRows'[phase][j] = phaseRows[phase][j]
        /\ phaseRows'[phase][Len(phaseRows[phase]) + 1] = Current
    BY <1>0, <1>4, OneRowMore
  <2>3. phase \in Phases
    BY DEF Shape
  <2>4. CASE p # phase
    BY <1>4, <2>1, <2>2, <2>4 DEF RowsAreOver, Rows
  <2>5. CASE p = phase
    <3>1. i \in 1 .. Len(phaseRows[phase]) \/ i = Len(phaseRows[phase]) + 1
      BY <2>2, <2>5
    <3> QED  BY <1>4, <2>1, <2>2, <2>3, <2>5, <3>1 DEF RowsAreOver, Rows
  <2> QED  BY <2>4, <2>5
<1>5. Wipe => exit = "alive"
  BY DEF Wipe, Place
<1> QED  BY <1>1, <1>2, <1>3, <1>4, <1>5, PhaseSteps

(* What a phase has shown stands as long as its rows do.                   *)
LEMMA PhaseStands ==
    ASSUME Shape, Place, RowsAreOver, [Next]_vars, ~ Wipe, NEW p \in Phases,
           phaseRows'[p] = phaseRows[p]
    PROVE  /\ PromotionsIn(p)' = PromotionsIn(p)
           /\ \A i \in DOMAIN phaseRows[p] : ledger'[phaseRows[p][i]] = ledger[phaseRows[p][i]]
<1>1. \A i \in DOMAIN phaseRows[p] : ledger'[phaseRows[p][i]] = ledger[phaseRows[p][i]]
  <2> SUFFICES ASSUME NEW i \in DOMAIN phaseRows[p]
               PROVE  ledger'[phaseRows[p][i]] = ledger[phaseRows[p][i]]
    OBVIOUS
  <2>1. phaseRows[p][i] \in Matches /\ ledger[phaseRows[p][i]].ended
    BY DEF RowsAreOver, Rows
  <2> QED  BY <2>1, HistoryStands
<1> QED  BY <1>1 DEF PromotionsIn

LEMMA BaselineStands ==
    ASSUME Shape, Place, RowsAreOver, BaselineDone, [Next]_vars, ~ Wipe,
           phaseRows'["baseline"] = phaseRows["baseline"],
           skipped' = {} => skipped = {}
    PROVE  BaselineDone'
<1>1. "baseline" \in Phases
  BY DEF Phases
<1>2. \A i \in DOMAIN phaseRows["baseline"] :
          ledger'[phaseRows["baseline"][i]] = ledger[phaseRows["baseline"][i]]
  BY <1>1, PhaseStands
<1> QED  BY <1>2 DEF BaselineDone, Flown, Rows, Gen

LEMMA PromoteStands ==
    ASSUME Shape, Place, RowsAreOver, StoppedAtPromotion, [Next]_vars, ~ Wipe,
           phaseRows'["promote"] = phaseRows["promote"]
    PROVE  StoppedAtPromotion' /\ PromotionsIn("promote")' = PromotionsIn("promote")
<1>1. "promote" \in Phases
  BY DEF Phases
<1>2. PromotionsIn("promote")' = PromotionsIn("promote")
  BY <1>1, PhaseStands
<1> QED  BY <1>2 DEF StoppedAtPromotion, Rows

LEMMA PhasedStutter ==
    ASSUME Shape, Place, RowsAreOver, Phased, [Next]_vars, ~ Wipe,
           UNCHANGED <<phase, phaseRows, todo, skipped>>,
           (pc' \in {"wipe", "boot"}) = (pc \in {"wipe", "boot"})
    PROVE  Phased'
<1>1. BaselineDone => BaselineDone'
  BY BaselineStands
<1>2. StoppedAtPromotion => StoppedAtPromotion' /\ PromotionsIn("promote")' = PromotionsIn("promote")
  BY PromoteStands
<1>3. Flying("baseline") => Flying("baseline")'
  BY DEF Flying, Rows
<1>4. Flying("post") => Flying("post")'
  BY DEF Flying, Rows
<1> QED  BY <1>1, <1>2, <1>3, <1>4 DEF Phased, Rows

(* After a casualty nothing is promised of the counts.                     *)
LEMMA PhasedCasualty ==
    ASSUME Shape, Place, RowsAreOver, Phased, [Next]_vars, ~ Wipe,
           UNCHANGED phases, todo # <<>>, NEW c, Casualty(c), pc \notin {"wipe", "boot"}
    PROVE  Phased'
<1>1. skipped' # {} /\ pc' = "next"
  BY DEF Casualty
<1>2. UNCHANGED <<phase, phaseRows>>
  BY DEF phases
<1>3. BaselineDone => BaselineDone'
  BY <1>1, <1>2, BaselineStands
<1>4. StoppedAtPromotion => StoppedAtPromotion' /\ PromotionsIn("promote")' = PromotionsIn("promote")
  BY <1>2, PromoteStands
<1>5. Flying("baseline")' /\ Flying("post")'
  BY <1>1 DEF Flying
<1> QED  BY <1>1, <1>2, <1>3, <1>4, <1>5 DEF Phased, Rows

LEMMA PhasedRow ==
    ASSUME Shape, Place, RowsAreOver, Phased, [Next]_vars, pc = "measure",
           kind = "adaptation", ledger' = ledger,
           phaseRows' = [phaseRows EXCEPT ![phase] = Append(@, Current)],
           todo' = Remaining, pc' = "next", UNCHANGED <<skipped, phase>>
    PROVE  Phased'
<1>0. /\ Current \in Nat /\ Current \in Matches /\ todo # <<>> /\ ~ Wipe /\ phase \in Phases
  BY RecordsAreTyped DEF Place, InMatch, Wipe, Shape
<1> DEFINE n == Len(phaseRows[phase])
<1>1. /\ \A p \in Phases : p # phase => phaseRows'[p] = phaseRows[p]
      /\ n \in Nat /\ Len(phaseRows'[phase]) = n + 1
      /\ DOMAIN phaseRows[phase] = 1 .. n /\ DOMAIN phaseRows'[phase] = 1 .. n + 1
      /\ \A i \in 1 .. n : phaseRows'[phase][i] = phaseRows[phase][i]
      /\ phaseRows'[phase][n + 1] = Current
  BY <1>0, OneRowMore
<1>2. Len(todo) \in Nat /\ Len(Tail(todo)) = Len(todo) - 1
  BY <1>0, OneLess DEF Shape
<1>3. phase # "promote" => todo' = Tail(todo)
  BY DEF Remaining
<1> HIDE DEF n
<1>4. ASSUME phase # "promote", Flying(phase) PROVE skipped' = {} => Len(phaseRows'[phase]) + Len(todo') = N
  <2>1. skipped = {} => n + Len(todo) = N
    BY <1>4 DEF Flying, Rows, n
  <2>2. Len(todo') = Len(todo) - 1
    BY <1>2, <1>3, <1>4
  <2>3. skipped' = skipped /\ n \in Nat /\ Len(phaseRows'[phase]) = n + 1
    BY <1>1
  <2> HIDE DEF Remaining
  <2> QED  BY <1>2, <2>1, <2>2, <2>3, AdaptationAssumption
<1>5. CASE phase = "baseline"
  <2>1. Flying("baseline") /\ Rows("promote") = <<>> /\ Rows("post") = <<>>
    BY <1>5 DEF Phased
  <2>2. Rows("promote")' = <<>> /\ Rows("post")' = <<>>
    BY <1>1, <1>5, <2>1 DEF Rows, Phases
  <2>3. Flying("baseline")'
    BY <1>4, <1>5, <2>1 DEF Flying, Rows
  <2> QED  BY <1>5, <2>2, <2>3 DEF Phased
<1>6. CASE phase = "post"
  <2>1. /\ Flying("post") /\ BaselineDone /\ StoppedAtPromotion
        /\ PromotionsIn("promote") # {}
    BY <1>6 DEF Phased
  <2>2. phaseRows'["baseline"] = phaseRows["baseline"] /\ phaseRows'["promote"] = phaseRows["promote"]
    BY <1>1, <1>6 DEF Phases
  <2>3. BaselineDone'
    BY <1>0, <2>1, <2>2, BaselineStands
  <2>4. StoppedAtPromotion' /\ PromotionsIn("promote")' # {}
    BY <1>0, <2>1, <2>2, PromoteStands
  <2>5. Flying("post")'
    BY <1>4, <1>6, <2>1 DEF Flying, Rows
  <2> QED  BY <1>6, <2>3, <2>4, <2>5 DEF Phased
<1>7. CASE phase = "promote"
  <2>1. BaselineDone /\ Rows("post") = <<>> /\ PromotionsIn("promote") = {}
    BY <1>0, <1>7 DEF Phased
  <2>2. phaseRows'["baseline"] = phaseRows["baseline"] /\ Rows("post")' = <<>>
    BY <1>1, <1>7, <2>1 DEF Phases, Rows
  <2>3. BaselineDone'
    BY <1>0, <2>1, <2>2, BaselineStands
  <2>4. \A i \in 1 .. n : ~ ledger[phaseRows["promote"][i]].promoted
    BY <1>1, <1>7, <2>1 DEF PromotionsIn
  <2>5. \A i \in 1 .. n + 1 : i \in 1 .. n \/ i = n + 1
    BY <1>1
  <2>6. \A i \in 1 .. n + 1 :
            ledger'[phaseRows'["promote"][i]].promoted =>
                i = n + 1 /\ ledger[Current].promoted
    BY <1>1, <1>7, <2>4, <2>5
  <2>7. \A i \in PromotionsIn("promote")' : i = n + 1 /\ ledger[Current].promoted
    BY <1>1, <1>7, <2>6 DEF PromotionsIn
  <2>8. StoppedAtPromotion'
    BY <1>1, <1>7, <2>7 DEF StoppedAtPromotion, Rows
  <2>9. PromotionsIn("promote")' # {} => todo' = <<>>
    BY <1>7, <2>7 DEF Remaining
  <2> QED  BY <1>7, <2>2, <2>3, <2>8, <2>9 DEF Phased
<1> QED  BY <1>0, <1>5, <1>6, <1>7 DEF Phases

(* Between two phases.                                                     *)
LEMMA PhasedEnter ==
    ASSUME Shape, Place, RowsAreOver, Phased, [Next]_vars, kind = "adaptation",
           EnterFirst \/ (EndBaseline /\ BaselineHeld) \/ (EndPromote /\ PromotionsIn("promote") # {})
    PROVE  Phased'
<1>1. ~ Wipe /\ Phases = {"baseline", "promote", "post"}
  BY DEF Wipe, EnterFirst, EndBaseline, EndPromote, PhaseOver, Phases
<1>2. CASE EnterFirst
  <2>1. /\ phase' = "baseline" /\ todo' = PhaseSeeds("baseline") /\ pc = "boot" /\ pc' = "next"
        /\ UNCHANGED <<phaseRows, skipped>>
    BY <1>2 DEF EnterFirst, Enter
  <2>2. Len(PhaseSeeds("baseline")) = N
    BY <1>1, PhaseSeedsAreSeeds
  <2>3. phase = "baseline" /\ Rows("baseline") = <<>>
    BY <2>1 DEF Phased
  <2>4. Rows("promote") = <<>> /\ Rows("post") = <<>>
    BY <2>3 DEF Phased
  <2>5. Len(Rows("baseline")') + Len(todo') = N
    BY <2>1, <2>2, <2>3, EmptySeq, AdaptationAssumption DEF Rows
  <2> QED  BY <2>1, <2>4, <2>5 DEF Phased, Flying, Rows
<1>3. CASE EndBaseline /\ BaselineHeld
  <2>1. /\ phase = "baseline" /\ phase' = "promote" /\ todo = <<>> /\ pc = "next" /\ pc' = "next"
        /\ UNCHANGED <<phaseRows, skipped>>
    BY <1>3 DEF EndBaseline, PhaseOver, Enter
  <2>2. Flying("baseline") /\ Rows("promote") = <<>> /\ Rows("post") = <<>>
    BY <2>1 DEF Phased
  <2>3. BaselineDone
    <3>1. Len(Rows("baseline")) \in Nat /\ Len(todo) = 0
      BY <1>1, <2>1, EmptySeq, LenProperties DEF Shape, Rows
    <3>2. Flown("baseline")
      BY <2>1, <2>2, <3>1 DEF Flying, Flown
    <3> QED  BY <1>3, <3>2 DEF BaselineDone, BaselineHeld, Rows
  <2>4. BaselineDone'
    BY <1>1, <2>1, <2>3, BaselineStands
  <2>5. PromotionsIn("promote")' = {}
    BY <2>1, <2>2, EmptySeq DEF PromotionsIn, Rows
  <2> QED  BY <2>1, <2>2, <2>4, <2>5 DEF Phased, StoppedAtPromotion, Rows
<1>4. CASE EndPromote /\ PromotionsIn("promote") # {}
  <2>1. /\ phase = "promote" /\ phase' = "post" /\ todo' = PhaseSeeds("post") /\ pc' = "next"
        /\ UNCHANGED <<phaseRows, skipped>>
    BY <1>4 DEF EndPromote, PhaseOver, Enter
  <2>2. BaselineDone /\ StoppedAtPromotion /\ Rows("post") = <<>>
    BY <2>1 DEF Phased
  <2>3. BaselineDone'
    BY <1>1, <2>1, <2>2, BaselineStands
  <2>4. StoppedAtPromotion' /\ PromotionsIn("promote")' # {}
    BY <1>1, <1>4, <2>1, <2>2, PromoteStands
  <2>5. Len(PhaseSeeds("post")) = N
    BY <1>1, PhaseSeedsAreSeeds
  <2>6. Len(Rows("post")') + Len(todo') = N
    BY <2>1, <2>2, <2>5, EmptySeq, AdaptationAssumption DEF Rows
  <2> QED  BY <2>1, <2>3, <2>4, <2>6 DEF Phased, Flying
<1> QED  BY <1>2, <1>3, <1>4

LEMMA PhasedLaunch ==
    ASSUME NEW r \in Requests, NEW wipe \in BOOLEAN, Launch(r, wipe) PROVE Phased'
<1>1. phase' = "baseline" /\ phaseRows' = NoRows /\ pc' \in {"wipe", "boot"}
  BY DEF Launch
<1>2. \A p \in {"baseline", "promote", "post"} : phaseRows'[p] = <<>>
  BY <1>1, NoRowsAreEmpty DEF Phases
<1> QED  BY <1>1, <1>2 DEF Phased, Flying, Rows

LEMMA StepPhased ==
    ASSUME Shape, Place, RowsAreOver, exit = "alive" => Phased, [Next]_vars,
           kind = "adaptation", exit' = "alive"
    PROVE  Phased'
<1>1. CASE \E r \in Requests, wipe \in BOOLEAN : Launch(r, wipe)
  BY <1>1, PhasedLaunch
<1>2. CASE Refuse \/ Saves \/ Supervises \/ UNCHANGED vars
  <2>1. UNCHANGED <<exit, pc, phase, phaseRows, todo, skipped, casualties>> /\ exit = "alive"
    BY <1>2
    DEF Refuse, Saves, Supervises, FirstCount, Progress, Quiet, Stall, Notify, Conclude,
        DriverKeeps, Exits, process, phases, vars
  <2>2. ~ Wipe
    BY <1>2, <2>1 DEF Wipe
  <2> QED  BY <2>1, <2>2, PhasedStutter
<1>3. CASE Dies
  BY <1>3 DEF Dies, Exits
<1>4. CASE Drives /\ EvidenceNext
  <2>1. exit = "alive" /\ Phased /\ UNCHANGED phases
    BY <1>4
    DEF Drives, EvidenceNext, Wipe, Preflight, AssemblyFails, StartMatch, MatchDies, MatchEnds,
        Flush, Measure, Recheck, Finish, Evidence, Place, AdaptationNext, EnterFirst, NoMatch, Fly,
        Falls, Lands, MeasureMatch, EndBaseline, EndPromote, EndPost, PhaseOver
  <2>2. CASE Wipe
    <3>1. pc = "wipe" /\ pc' = "boot" /\ UNCHANGED <<phase, phaseRows>>
      BY <2>1, <2>2 DEF Wipe, phases
    <3> QED  BY <2>1, <3>1 DEF Phased, Rows, Flying
  <2>3. CASE Recheck
    <3>1. pc = "recheck" /\ pc' = "next" /\ UNCHANGED <<phase, phaseRows, todo, skipped>>
      BY <2>1, <2>3 DEF Recheck, Exits, phases
    <3>2. ~ Wipe
      BY <2>3 DEF Recheck, Wipe
    <3> QED  BY <2>1, <3>1, <3>2, PhasedStutter
  <2> QED
    BY <1>4, <2>2, <2>3
    DEF EvidenceNext, Preflight, AssemblyFails, StartMatch, MatchDies, MatchEnds, Flush, Measure,
        Finish, Evidence, Place
<1>5. CASE Drives /\ AdaptationNext
  <2>1. exit = "alive" /\ Phased /\ AdaptationNext
    BY <1>5 DEF Drives
  <2>2. CASE EnterFirst
    BY <2>1, <2>2, PhasedEnter
  <2>3. CASE NoMatch \/ Falls
    <3>1. /\ todo # <<>> /\ UNCHANGED phases /\ ~ Wipe /\ pc \notin {"wipe", "boot"}
          /\ \E c : Casualty(c)
      BY <2>3 DEF NoMatch, Falls, Place, InMatch, Wipe
    <3> QED  BY <2>1, <3>1, PhasedCasualty
  <2>4. CASE Fly \/ Lands
    <3>1. UNCHANGED <<phase, phaseRows, todo, skipped>> /\ ~ Wipe
          /\ pc \notin {"wipe", "boot"} /\ pc' \notin {"wipe", "boot"}
      BY <2>4 DEF Fly, Lands, phases, Wipe
    <3> QED  BY <2>1, <3>1, PhasedStutter
  <2>5. CASE MeasureMatch
    <3>1. pc = "measure" /\ ~ Wipe /\ todo # <<>>
      BY <2>5 DEF MeasureMatch, Wipe, Place, InMatch
    <3>2. CASE \E c : Casualty(c) /\ UNCHANGED phases
      BY <2>1, <3>1, <3>2, PhasedCasualty
    <3>3. CASE /\ ledger' = ledger
               /\ phaseRows' = [phaseRows EXCEPT ![phase] = Append(@, Current)]
               /\ todo' = Remaining /\ pc' = "next" /\ UNCHANGED <<skipped, phase>>
      BY <2>1, <3>1, <3>3, PhasedRow
    <3>4. ~ AbortsWith("exit1")
      BY DEF AbortsWith, Exits
    <3> QED  BY <2>5, <3>2, <3>3, <3>4 DEF MeasureMatch
  <2>6. CASE EndBaseline \/ EndPromote
    <3>1. ~ AbortsWith("exit1")
      BY DEF AbortsWith, Exits
    <3>2. (EndBaseline /\ BaselineHeld) \/ (EndPromote /\ PromotionsIn("promote") # {})
      BY <2>6, <3>1 DEF EndBaseline, EndPromote
    <3> QED  BY <2>1, <3>2, PhasedEnter
  <2>7. CASE EndPost
    BY <2>7 DEF EndPost, EndsWith, AbortsWith, Exits, ExitCode
  <2> QED  BY <2>1, <2>2, <2>3, <2>4, <2>5, <2>6, <2>7 DEF AdaptationNext
<1> QED  BY <1>1, <1>2, <1>3, <1>4, <1>5 DEF Next, Operates, Drives

LEMMA PureAtTheEnd ==
    ASSUME Shape, Place, OnePromotion, RowsAreOver, Phased, kind = "adaptation", EndPost,
           EndsWith(ExitCode), PostHeld, exit' = "exit0"
    PROVE  BeforeAfterIsPure'
<1>1. /\ phase = "post" /\ todo = <<>> /\ pc = "next" /\ skipped = {}
      /\ UNCHANGED <<ledger, phaseRows>>
  BY DEF EndPost, PhaseOver, EndsWith, Exits, ExitCode, phases
<1>2. BaselineDone /\ StoppedAtPromotion /\ Flying("post") /\ PromotionsIn("promote") # {}
  BY <1>1 DEF Phased
<1>3. /\ DOMAIN phaseRows["baseline"] = 1 .. Len(phaseRows["baseline"])
      /\ DOMAIN phaseRows["post"] = 1 .. Len(phaseRows["post"])
      /\ DOMAIN phaseRows["promote"] = 1 .. Len(phaseRows["promote"])
      /\ Len(phaseRows["promote"]) \in Nat /\ Len(phaseRows["post"]) \in Nat /\ Len(todo) = 0
  BY <1>1, LenProperties, EmptySeq DEF Shape, Phases
<1>4. Len(phaseRows["baseline"]) = N /\ Len(phaseRows["post"]) = N
  BY <1>1, <1>2, <1>3 DEF BaselineDone, Flown, Flying, Rows
<1>5. \A i \in 1 .. N : Gen(phaseRows["baseline"][i]) = 0 /\ Gen(phaseRows["post"][i]) = 1
  BY <1>2, <1>3, <1>4 DEF BaselineDone, Rows, PostHeld
<1> DEFINE k == Len(phaseRows["promote"])
           m == phaseRows["promote"][k]
<1>6. k \in DOMAIN phaseRows["promote"] /\ ledger[m].promoted
      /\ PromotionsIn("promote") = {k} /\ k \in Nat
  <2>1. PICK i : i \in PromotionsIn("promote")
    BY <1>2
  <2>2. i = k
    BY <1>2, <2>1 DEF StoppedAtPromotion, Rows
  <2> QED  BY <1>2, <1>3, <2>1, <2>2 DEF PromotionsIn, StoppedAtPromotion, Rows
<1>7. Promotion = m
  <2> HIDE DEF k
  <2>1. (CHOOSE i \in {k} : \A j \in {k} : i <= j) = k
    BY <1>6
  <2> QED  BY <1>6, <2>1 DEF Promotion
<1>8. m \in Matches
  BY <1>6 DEF RowsAreOver, Rows, Phases
<1>9. Promoters = {m}
  BY <1>6, <1>8 DEF Promoters, Promoted, OnePromotion
<1>10. Generation = 1
  BY <1>9, GenerationCounts
<1>11. Generation' = Generation /\ Promotion' = Promotion /\ Last(phaseRows'["promote"]) = m
  BY <1>1 DEF Generation, Promotion, PromotionsIn, Last, Matches
<1> QED  BY <1>1, <1>4, <1>5, <1>7, <1>10, <1>11 DEF BeforeAfterIsPure, Gen

LEMMA StepPure ==
    ASSUME Shape, Place, kind = "adaptation", OnePromotion, RowsAreOver, exit = "alive" => Phased,
           BeforeAfterIsPure, [Next]_vars
    PROVE  BeforeAfterIsPure'
<1> SUFFICES ASSUME exit' = "exit0" PROVE BeforeAfterIsPure'
  BY DEF BeforeAfterIsPure
<1>1. CASE exit = "exit0" /\ UNCHANGED <<ledger, phaseRows>>
  <2>1. Generation' = Generation /\ Promotion' = Promotion
    BY <1>1 DEF Generation, Promotion, PromotionsIn, Matches
  <2> QED  BY <1>1, <2>1 DEF BeforeAfterIsPure, Gen, Last
<1>2. CASE Drives
  <2>1. Phased /\ exit = "alive"
    BY <1>2 DEF Drives
  <2>2. EndPost /\ EndsWith(ExitCode) /\ PostHeld
    BY <1>2
    DEF Drives, EvidenceNext, Wipe, Preflight, AssemblyFails, StartMatch, MatchDies, MatchEnds,
        Flush, Measure, Recheck, Finish, Evidence, Place, AdaptationNext, EnterFirst, NoMatch, Fly,
        Falls, Lands, MeasureMatch, EndBaseline, EndPromote, EndPost, PhaseOver, Casualty, Enter,
        AbortsWith, Exits
  <2> QED  BY <2>1, <2>2, PureAtTheEnd
<1>3. CASE Operates
  BY <1>1, <1>3 DEF Operates, Launch, Refuse, Saves, Evidence, process, phases, lane
<1>4. CASE Dies \/ Supervises \/ UNCHANGED vars
  BY <1>1, <1>4
  DEF Dies, Supervises, FirstCount, Progress, Quiet, Stall, Notify, Conclude, DriverKeeps, Exits,
      process, phases, lane, vars
<1> QED  BY <1>2, <1>3, <1>4 DEF Next

LEMMA InitAInv == Init => AInv
<1> QED
  BY EmptySeq, NoRowsAreEmpty
  DEF Init, LaneInit, DriverInit, AdaptationInit, AInv, OnePromotion, RowsAreOver, Rows, Matches,
      BeforeAfterIsPure

LEMMA StepAInv ==
    ASSUME Shape, Place, AInv, [Next]_vars PROVE AInv'
<1> SUFFICES ASSUME kind = "adaptation"
             PROVE  /\ OnePromotion' /\ RowsAreOver'
                    /\ exit' = "alive" => Phased'
                    /\ BeforeAfterIsPure'
  BY KindIsFixed DEF AInv
<1>1. /\ OnePromotion /\ RowsAreOver /\ BeforeAfterIsPure
      /\ exit = "alive" => Phased
  BY DEF AInv
<1> QED  BY <1>1, StepOnePromotion, StepRowsAreOver, StepPhased, StepPure

(* An adaptation battery that exits 0 compares N rows of generation 0 with *)
(* N rows of generation 1, across the one promotion of its lane            *)
(* (scripts/run_lgate2_adaptation_battery.py:556-632), whatever N, the     *)
(* attempts allowed and the launches and casualties before it.             *)
THEOREM BeforeAfterAlwaysPure == Spec => []BeforeAfterIsPure
<1> DEFINE Good == Shape /\ Place /\ AInv
<1>1. Init => Good
  BY InitShape, InitPlace, InitAInv
<1>2. Good /\ [Next]_vars => Good'
  BY StepShape, StepPlace, StepAInv
<1>3. Good => BeforeAfterIsPure
  BY DEF AInv, BeforeAfterIsPure
<1> QED  BY <1>1, <1>2, <1>3, PTL DEF Spec
=============================================================================
