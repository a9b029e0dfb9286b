------------------------- MODULE MatchEdges_proofs -------------------------
(***************************************************************************)
(* The two edges of a match, for every value of the constants: what it     *)
(* hears from the models (LlmDecision) and what it shows to the browsers   *)
(* (EventProjection).  The two have no state in common, and their proofs   *)
(* no lemma.                                                               *)
(***************************************************************************)
EXTENDS LlmDecision, EventProjection, FiniteSetTheorems, SequenceTheorems,
        WellFoundedInduction, TLAPS

(***************************************************************************)
(* The decision ladder: EvidenceIsTrue for every number of seats,          *)
(* providers, repairs, posts and raising subscribers.                      *)
(*                                                                         *)
(* The invariant follows the token through the ladder: while a completion  *)
(* is under way its request is on record, nothing is told of its end and   *)
(* the exception or the answer in hand is the true consequence of what the *)
(* provider did; a token that leaves the ladder is closed; the attempts    *)
(* before it are settled and those after it are untouched.                 *)
(***************************************************************************)
Shape ==
    /\ attempt \in Attempts
    /\ pc \in {"ask", "call", "wire", "fail", "answer", "exit", "settle",
               "resolve", "ended"}
    /\ asked \in [Attempts -> {"no", "raised", "yes"}]
    /\ ended \in [Attempts -> Seq(Reasons)]
    /\ did \in [Attempts -> Deeds]

(* An attempt nobody has begun, one that is under way, one that is over.   *)
Untouched(a) == asked[a] = "no" /\ ended[a] = <<>> /\ did[a] = "none"
Open(a) == asked[a] = "yes" /\ ended[a] = <<>>
Settled(a) ==
    /\ ended[a] = IF asked[a] = "yes" THEN <<TrueReason(did[a])>> ELSE <<>>
    /\ did[a] # "none" => asked[a] = "yes"

(* What the ladder holds at each of its places.                            *)
Token ==
    /\ pc = "ask" => Untouched(attempt)
    /\ pc \in {"call", "wire"} => Open(attempt) /\ did[attempt] = "none"
    /\ pc = "answer" => Open(attempt) /\ answer \in Answers /\ did[attempt] = answer
    /\ pc = "fail" => Open(attempt) /\ FailureReason(exc) = TrueReason(did[attempt])
    /\ pc = "exit" => Settled(attempt) /\ terminal
    /\ pc \in {"settle", "resolve", "ended"} => Settled(attempt)

Others ==
    \A a \in Attempts : /\ a < attempt => Settled(a)
                        /\ a > attempt => Untouched(a)

IInv == Shape /\ Token /\ Others

----------------------------------------------------------------------------

LEMMA AttemptsOrdered ==
    \A a, b \in Attempts : a < b \/ a = b \/ a > b
<1> QED  BY LlmAssumption DEF Attempts

LEMMA InitInv == Init => IInv
<1>1. 0 \in Attempts
  BY LlmAssumption DEF Attempts
<1>2. \A a \in Attempts : ~(a < 0)
  BY LlmAssumption DEF Attempts
<1> QED
  BY <1>1, <1>2 DEF Init, IInv, Shape, Token, Others, Untouched, Blank, Deeds, Answers

(* A step of the ladder that changes the evidence of the current attempt   *)
(* only, and leaves its number alone, keeps the other attempts as they     *)
(* are.                                                                    *)
LEMMA OthersKept ==
    ASSUME IInv, attempt' = attempt,
           \A a \in Attempts : a # attempt =>
               asked'[a] = asked[a] /\ ended'[a] = ended[a] /\ did'[a] = did[a]
    PROVE  Others'
<1> SUFFICES ASSUME NEW a \in Attempts
             PROVE  (a < attempt => Settled(a)') /\ (a > attempt => Untouched(a)')
  BY DEF Others
<1>1. a # attempt => Settled(a)' = Settled(a) /\ Untouched(a)' = Untouched(a)
  BY DEF Settled, Untouched
<1>2. a < attempt \/ a > attempt => a # attempt
  BY LlmAssumption DEF IInv, Shape, Attempts
<1> QED  BY <1>1, <1>2 DEF IInv, Others

LEMMA FreshDecision ==
    ASSUME NextDecision PROVE IInv'
<1>1. 0 \in Attempts /\ \A a \in Attempts : ~(a < 0)
  BY LlmAssumption DEF Attempts
<1> QED
  BY <1>1 DEF NextDecision, IInv, Shape, Token, Others, Untouched, Blank, Deeds, Answers

LEMMA NextInv == IInv /\ [Next]_vars => IInv'
<1> SUFFICES ASSUME IInv, [Next]_vars PROVE IInv'
  OBVIOUS
<1> USE DEF Shape, Open
<1>1. CASE Request
  <2>1. Shape'
    BY <1>1 DEF IInv, Request
  <2>2. Token'
    BY <1>1 DEF IInv, Request, Token, Untouched, Settled
  <2>3. Others'
    BY <1>1, OthersKept DEF IInv, Request
  <2> QED  BY <2>1, <2>2, <2>3 DEF IInv
<1>2. CASE EnterFails
  <2>1. ended' = [ended EXCEPT ![attempt] = <<FailureReason(exc)>>]
    BY <1>2 DEF EnterFails, Close, IInv, Token
  <2>2. FailureReason(exc) = TrueReason(did[attempt])
    BY <1>2 DEF EnterFails, IInv, Token
  <2>3. TrueReason(did[attempt]) \in Reasons
    BY DEF Reasons, TrueReason, IInv, Deeds, Answers
  <2>4. Shape'
    BY <1>2, <2>1, <2>2, <2>3 DEF IInv, EnterFails
  <2>5. Token'
    BY <1>2, <2>1, <2>2 DEF IInv, EnterFails, Token, Settled
  <2>6. Others'
    BY <1>2, <2>1, OthersKept DEF IInv, EnterFails
  <2> QED  BY <2>4, <2>5, <2>6 DEF IInv
<1>3. CASE Consume
  <2> DEFINE reason == IF Verdict(answer) = NoExc THEN "resolved"
                                                  ELSE FailureReason(Verdict(answer))
  <2>1. did[attempt] = answer /\ answer \in Answers /\ Open(attempt)
    BY <1>3 DEF Consume, IInv, Token
  <2>2. reason = TrueReason(answer) /\ reason \in Reasons
    BY <2>1 DEF Reasons, TrueReason, Verdict, ParseError, FailureReason, NoExc, Boundary,
                Semantic, Answers
  <2>3. ended' = [ended EXCEPT ![attempt] = <<reason>>] /\ terminal'
    BY <1>3, <2>1 DEF Consume, Close, IInv
  <2> HIDE DEF reason
  <2>4. Shape'
    BY <1>3, <2>2, <2>3 DEF IInv, Consume
  <2>5. Token'
    BY <1>3, <2>1, <2>2, <2>3 DEF IInv, Consume, Settled, Token
  <2>6. Others'
    BY <1>3, <2>3, OthersKept DEF IInv, Consume
  <2> QED  BY <2>4, <2>5, <2>6 DEF IInv
<1>4. CASE Exit
  <2>1. terminal
    BY <1>4 DEF Exit, IInv, Token
  <2>2. UNCHANGED <<attempt, asked, ended, did>> /\ pc' = "settle"
    BY <1>4, <2>1 DEF Exit
  <2>3. Shape' /\ Token'
    BY <1>4, <2>2 DEF Exit, IInv, Token, Settled
  <2>4. Others'
    BY <2>2, OthersKept
  <2> QED  BY <2>3, <2>4 DEF IInv
<1>5. CASE HttpComplete \/ CliComplete
  <2>1. UNCHANGED <<attempt, asked, ended, did>> /\ pc = "call"
    BY <1>5 DEF HttpComplete, CliComplete, evidence
  <2>2. \/ pc' = "wire"
        \/ pc' = "fail" /\ exc' = Other
    BY <1>5 DEF HttpComplete, CliComplete, Raised
  <2>3. Shape' /\ Token'
    BY <2>1, <2>2 DEF IInv, Token, FailureReason, TrueReason, Other
  <2>4. Others'
    BY <2>1, OthersKept
  <2> QED  BY <2>3, <2>4 DEF IInv
<1>6. CASE HttpPost \/ CliPrints \/ CliLost \/ CliRejects \/ CliCrashes
  <2>1. UNCHANGED <<attempt, asked, ended>> /\ pc = "wire"
    BY <1>6 DEF HttpPost, CliPrints, CliLost, CliRejects, CliCrashes
  <2>2. \/ UNCHANGED <<did, pc>>
        \/ /\ pc' = "answer" /\ answer' \in Answers
           /\ did' = [did EXCEPT ![attempt] = answer']
        \/ /\ pc' = "fail"
           /\ \E d \in Deeds : /\ did' = [did EXCEPT ![attempt] = d]
                               /\ FailureReason(exc') = TrueReason(d)
    <3> DEFINE Falls(d) == /\ pc' = "fail" /\ did' = [did EXCEPT ![attempt] = d]
                           /\ FailureReason(exc') = TrueReason(d)
    <3>0. \A d \in {"timeout", "refused", "unavailable", "stale"} :
             Did(d) /\ Raised(IF d = "timeout" THEN Boundary("timeout") ELSE Other)
                => d \in Deeds /\ Falls(d)
      BY DEF Did, Raised, Deeds, FailureReason, TrueReason, Boundary, Other
    <3>1. CASE HttpPost
      <4>1. CASE \E a \in Answers : Answered(a) /\ Did(a)
        BY <4>1 DEF Answered, Did
      <4>2. CASE UNCHANGED <<did, pc>>
        BY <4>2
      <4>3. CASE \E d \in {"timeout", "unavailable", "refused"} :
                   Did(d) /\ Raised(IF d = "timeout" THEN Boundary("timeout") ELSE Other)
        BY <4>3, <3>0
      <4> QED  BY <3>1, <4>1, <4>2, <4>3 DEF HttpPost
    <3>2. CASE CliPrints
      <4>1. CASE \E a \in Answers : Answered(a) /\ Did(a)
        BY <4>1 DEF Answered, Did
      <4>2. CASE Did("stale") /\ Raised(Other)
        BY <4>2, <3>0
      <4> QED  BY <3>2, <4>1, <4>2 DEF CliPrints
    <3>3. CASE CliLost
      <4>1. \E d \in {"timeout", "refused"} :
               Did(d) /\ Raised(IF d = "timeout" THEN Boundary("timeout") ELSE Other)
        BY <3>3 DEF CliLost
      <4> QED  BY <4>1, <3>0
    <3>4. CASE CliRejects
      <4>1. PICK g \in Gates \ {"none"} :
                /\ Did(IF g = "other" THEN "refused" ELSE "rejected")
                /\ Raised(Classify([mine |-> TRUE, error |-> FALSE, gates |-> g]))
        BY <3>4 DEF CliRejects
      <4>2. CASE g = "other"
        <5>1. Falls("refused")
          BY <4>1, <4>2 DEF Did, Raised, Classify, FailureReason, TrueReason, Other
        <5> QED  BY <5>1 DEF Deeds
      <4>3. CASE g # "other"
        <5>1. Falls("rejected")
          BY <4>1, <4>3 DEF Did, Raised, Classify, Gates, FailureReason, TrueReason,
                            Semantic
        <5> QED  BY <5>1 DEF Deeds
      <4> QED  BY <4>2, <4>3
    <3>5. CASE CliCrashes
      <4>1. exc' = Other /\ pc' = "fail"
        BY <3>5 DEF CliCrashes, Classify, Raised
      <4>2. did' = [did EXCEPT ![attempt] = "crash"]
        BY <3>5 DEF CliCrashes, Did
      <4>3. Falls("crash")
        BY <4>1, <4>2 DEF FailureReason, TrueReason, Other
      <4> QED  BY <4>3 DEF Deeds
    <3> QED  BY <1>6, <3>1, <3>2, <3>3, <3>4, <3>5
  <2>3. Shape'
    BY <2>1, <2>2 DEF IInv, Deeds
  <2>4. Token'
    BY <2>1, <2>2 DEF IInv, Token
  <2>5. Others'
    BY <2>1, <2>2, OthersKept DEF IInv
  <2> QED  BY <2>3, <2>4, <2>5 DEF IInv
<1>7. CASE Accepted \/ Substituted
  <2>1. pc = "settle" /\ \E source \in {"llm", "fallback"} : Play(source)
    BY <1>7 DEF Accepted, Substituted
  <2>2. CASE NextDecision
    BY <2>2, FreshDecision
  <2>3. CASE UNCHANGED <<attempt, asked, ended, did>> /\ pc' = "resolve"
    <3>1. Shape' /\ Token'
      BY <2>1, <2>3 DEF IInv, Token, Settled
    <3> QED  BY <2>3, <3>1, OthersKept DEF IInv
  <2> QED  BY <2>1, <2>2, <2>3 DEF Play, evidence
<1>8. CASE BoundaryHit \/ Exhausted \/ Crashed
  <2>1. UNCHANGED <<attempt, asked, ended, did>> /\ pc = "settle" /\ pc' = "ended"
    BY <1>8 DEF BoundaryHit, Exhausted, Repairable, Crashed, EndMatch, evidence
  <2>2. Shape' /\ Token'
    BY <2>1 DEF IInv, Token, Settled
  <2> QED  BY <2>1, <2>2, OthersKept DEF IInv
<1>9. CASE Reprompt
  <2>1. /\ UNCHANGED <<asked, ended, did>> /\ pc = "settle" /\ pc' = "ask"
        /\ attempt < RetryLimit /\ attempt' = attempt + 1
    BY <1>9 DEF Reprompt, Repairable, evidence
  <2>2. attempt' \in Attempts
    BY <2>1, LlmAssumption DEF IInv, Attempts
  <2>3. Settled(attempt)
    BY <2>1 DEF IInv, Token
  <2>4. attempt' > attempt
    BY <2>1, LlmAssumption DEF IInv, Attempts
  <2>5. Untouched(attempt')
    BY <2>2, <2>4 DEF IInv, Others
  <2>6. Others'
    <3> SUFFICES ASSUME NEW a \in Attempts
                 PROVE  (a < attempt' => Settled(a)') /\ (a > attempt' => Untouched(a)')
      BY DEF Others
    <3>1. Settled(a)' = Settled(a) /\ Untouched(a)' = Untouched(a)
      BY <2>1 DEF Settled, Untouched
    <3>2. (a < attempt' => a < attempt \/ a = attempt) /\ (a > attempt' => a > attempt)
      BY <2>1, LlmAssumption DEF IInv, Attempts
    <3> QED  BY <2>3, <3>1, <3>2 DEF IInv, Others
  <2>7. Shape' /\ Token'
    BY <2>1, <2>2, <2>5 DEF IInv, Token, Untouched
  <2> QED  BY <2>6, <2>7 DEF IInv
<1>10. CASE ResolveTick
  <2>1. CASE NextDecision
    BY <2>1, FreshDecision
  <2>2. CASE EndMatch("played")
    <3>1. UNCHANGED <<attempt, asked, ended, did>> /\ pc = "resolve" /\ pc' = "ended"
      BY <1>10, <2>2 DEF ResolveTick, EndMatch, evidence
    <3>2. Shape' /\ Token'
      BY <3>1 DEF IInv, Token, Settled
    <3> QED  BY <3>1, <3>2, OthersKept DEF IInv
  <2> QED  BY <1>10, <2>1, <2>2 DEF ResolveTick
<1>11. CASE UNCHANGED vars
  <2>1. UNCHANGED <<attempt, pc, answer, exc, terminal, asked, ended, did>>
    BY <1>11 DEF vars, ladder, evidence
  <2>2. Shape' /\ Token'
    BY <2>1 DEF IInv, Token, Settled, Untouched
  <2> QED  BY <2>1, <2>2, OthersKept DEF IInv
<1> QED
  BY <1>1, <1>2, <1>3, <1>4, <1>5, <1>6, <1>7, <1>8, <1>9, <1>10, <1>11 DEF Next, Done

LEMMA IInvEvidence == IInv => EvidenceIsTrue
<1> SUFFICES ASSUME IInv, NEW a \in Attempts
             PROVE  /\ Over(a) => Settled(a)
                    /\ ~Over(a) => ended[a] = <<>>
                    /\ did[a] # "none" => asked[a] = "yes"
  BY DEF EvidenceIsTrue, Settled
<1>1. a < attempt \/ a = attempt \/ a > attempt
  BY AttemptsOrdered DEF IInv, Shape
<1>2. CASE a < attempt
  BY <1>2 DEF IInv, Others, Over, Settled
<1>3. CASE a = attempt
  BY <1>3, LlmAssumption DEF IInv, Shape, Token, Over, Open, Settled, Untouched, Attempts
<1>4. CASE a > attempt
  <2>1. ~Over(a) /\ Untouched(a)
    BY <1>4, LlmAssumption DEF IInv, Shape, Others, Over, Attempts
  <2> QED  BY <2>1 DEF Untouched
<1> QED  BY <1>1, <1>2, <1>3, <1>4

(* The ladder keeps its token honest, whatever the providers, the CLI and  *)
(* the subscribers do (llm/effect.py, llm/programming.py, llm/pilot.py).   *)
THEOREM LadderInvariance == Spec => []IInv
<1> QED  BY InitInv, NextInv, PTL DEF Spec

(* Every attempt on record is told exactly one end, and the true one       *)
(* (llm/effect.py:69).                                                     *)
THEOREM EvidenceAlwaysTrue == Spec => []EvidenceIsTrue
<1> QED  BY LadderInvariance, IInvEvidence, PTL

----------------------------------------------------------------------------
(* What the exception in flight says of the provider, and what the repairs *)
(* before it were spent on.                                                *)

Lost == Boundaries \cup Rejections \cup {"plan"}

Explained ==
    /\ exc.kind = "none" => did[attempt] = "plan"
    /\ exc.kind = "semantic" => did[attempt] \in Rejections
    /\ exc.kind = "boundary" => did[attempt] \in Boundaries
    /\ exc.kind = "other" => (did[attempt] \in Lost => faults > 0)

Repairs ==
    /\ attempt > 0 => /\ match.policy[seat] = "raise" /\ did[0] \in Rejections
                      /\ lastCode # "none"
    /\ \A a \in Attempts : a < attempt /\ did[a] \in Boundaries \cup {"plan"} => faults > 0

CInv ==
    /\ faults \in Nat /\ exc \in Exceptions /\ played \in [Seats -> {"none", "llm", "fallback"}]
    /\ pc \in {"fail", "exit", "settle"} => Explained
    /\ pc = "fail" => exc.kind # "none"
    /\ Repairs
    /\ pc # "ended" <=> status = "running"
    /\ EndsByWhatHappened

LEMMA InitCause == Init => CInv
<1>1. \A a \in Attempts : ~(a < 0)
  BY LlmAssumption DEF Attempts
<1> QED
  BY <1>1 DEF Init, CInv, Repairs, EndsByWhatHappened, Exceptions, NoExc

(* The steps of an attempt never change what was done in an earlier one.   *)
LEMMA RepairsKept ==
    ASSUME IInv, CInv, pc # "ended", UNCHANGED <<match, turn, attempt, lastCode, status>>,
           \A a \in Attempts : a # attempt => did'[a] = did[a],
           attempt = 0 \/ did'[0] = did[0], faults' \in Nat, faults' >= faults
    PROVE  Repairs' /\ EndsByWhatHappened'
<1>1. \A a \in Attempts : a < attempt => a # attempt
  BY LlmAssumption DEF IInv, Shape, Attempts
<1>2. Repairs'
  <2>1. \A a \in Attempts : a < attempt /\ did'[a] \in Boundaries \cup {"plan"} => faults' > 0
    BY <1>1 DEF CInv, Repairs
  <2>2. attempt > 0 => attempt # 0
    BY LlmAssumption DEF IInv, Shape, Attempts
  <2> QED  BY <2>1, <2>2 DEF CInv, Repairs, seat
<1> QED  BY <1>2 DEF CInv, EndsByWhatHappened, Repairs

(* A new decision has no history.                                          *)
LEMMA FreshCause ==
    ASSUME IInv, CInv, pc # "ended", NextDecision, UNCHANGED <<status, faults>>,
           played' \in [Seats -> {"none", "llm", "fallback"}]
    PROVE  CInv'
<1>1. \A a \in Attempts : ~(a < 0)
  BY LlmAssumption DEF Attempts
<1> QED
  BY <1>1 DEF NextDecision, CInv, Repairs, EndsByWhatHappened, Exceptions, NoExc, Blank

LEMMA FaultsCounted ==
    ASSUME CInv, NEW raised \in BOOLEAN, Telling(raised)
    PROVE  faults' \in Nat /\ faults' >= faults /\ (raised => faults' > 0)
<1> QED  BY DEF Telling, CInv

LEMMA EndingInv ==
    ASSUME IInv, CInv, BoundaryHit \/ Exhausted \/ Crashed PROVE CInv'
<1>1. /\ UNCHANGED <<match, turn, attempt, did, faults, exc, played>>
      /\ pc = "settle" /\ pc' = "ended" /\ Explained
  BY DEF BoundaryHit, Exhausted, Repairable, Crashed, EndMatch, CInv, evidence
<1>2. attempt \in Attempts /\ \A a \in Attempts : a < attempt \/ a = attempt \/ a > attempt
  BY AttemptsOrdered DEF IInv, Shape
<1>3. CASE BoundaryHit
  <2>1. status' = "aborted" /\ did[attempt] \in Boundaries /\ UNCHANGED lastCode
    BY <1>1, <1>3 DEF BoundaryHit, EndMatch, Explained
  <2> QED  BY <1>1, <2>1 DEF CInv, Repairs, EndsByWhatHappened, seat
<1>4. CASE Exhausted
  <2>1. /\ status' = "provider_semantic_failure" /\ attempt = RetryLimit
        /\ match.policy[seat] = "raise"
        /\ exc.kind = "semantic" \/ (exc.kind = "other" /\ attempt > 0)
        /\ lastCode' = IF exc.kind = "semantic" THEN exc.code ELSE lastCode
    BY <1>4 DEF Exhausted, Repairable, EndMatch
  <2>2. did[attempt] \in Boundaries \cup {"plan"} => faults > 0
    BY <1>1, <2>1 DEF Explained, Rejections, Boundaries, Lost
  <2>3. \A a \in Attempts : did[a] \in Boundaries \cup {"plan"} => faults > 0
    <3> SUFFICES ASSUME NEW a \in Attempts, did[a] \in Boundaries \cup {"plan"}
                 PROVE  faults > 0
      OBVIOUS
    <3>1. ~(a > attempt)
      BY <2>1, LlmAssumption DEF Attempts
    <3> QED  BY <1>2, <2>2, <3>1 DEF CInv, Repairs
  <2>4. attempt > 0 \/ attempt = 0
    BY LlmAssumption DEF IInv, Shape, Attempts
  <2>5. did[0] \in Rejections
    BY <1>1, <2>1, <2>4 DEF CInv, Repairs, Explained
  <2>6. lastCode' # "none"
    BY <2>1 DEF CInv, Repairs, Exceptions, NoExc, Other, Boundary, Semantic, Codes
  <2> QED
    BY <1>1, <2>1, <2>3, <2>5, <2>6 DEF CInv, Repairs, EndsByWhatHappened, seat
<1>5. CASE Crashed
  <2>1. /\ status' = "failed" /\ attempt = 0 /\ UNCHANGED lastCode
        /\ did[attempt] \in Lost => faults > 0
    BY <1>1, <1>5 DEF Crashed, EndMatch, Explained
  <2> QED  BY <1>1, <2>1 DEF CInv, Repairs, EndsByWhatHappened, seat, Lost
<1> QED  BY <1>3, <1>4, <1>5

LEMMA NextCause == IInv /\ CInv /\ [Next]_vars => CInv'
<1> SUFFICES ASSUME IInv, CInv, [Next]_vars PROVE CInv'
  OBVIOUS
<1>0. attempt = 0 \/ attempt # 0
  OBVIOUS
<1>1. CASE Request
  <2>1. /\ pc = "ask" /\ UNCHANGED <<match, turn, attempt, lastCode, status, did, played>>
        /\ pc' \in {"settle", "call"} /\ exc' \in {Other, NoExc}
        /\ faults' \in Nat /\ faults' >= faults
        /\ pc' = "settle" => exc' = Other /\ faults' > 0
    BY <1>1, FaultsCounted DEF Request
  <2>2. Repairs' /\ EndsByWhatHappened'
    BY <2>1, RepairsKept DEF CInv
  <2> QED  BY <2>1, <2>2 DEF CInv, Explained, Other, NoExc, Exceptions
<1>2. CASE EnterFails
  <2>1. /\ pc = "fail" /\ UNCHANGED <<match, turn, attempt, lastCode, status, did, played>>
        /\ pc' = "settle" /\ faults' \in Nat /\ faults' >= faults
        /\ exc' = exc \/ (exc' = Other /\ faults' > 0)
    BY <1>2, FaultsCounted DEF EnterFails, Close
  <2>2. Repairs' /\ EndsByWhatHappened'
    BY <2>1, RepairsKept DEF CInv
  <2> QED  BY <2>1, <2>2 DEF CInv, Explained, Other, Exceptions
<1>3. CASE Consume
  <2>1. /\ pc = "answer" /\ UNCHANGED <<match, turn, attempt, lastCode, status, did, played>>
        /\ pc' = "exit" /\ faults' \in Nat /\ faults' >= faults
        /\ exc' = Verdict(answer) \/ (exc' = Other /\ faults' > 0)
    BY <1>3, FaultsCounted DEF Consume, Close
  <2>2. Repairs' /\ EndsByWhatHappened'
    BY <2>1, RepairsKept DEF CInv
  <2>3. did[attempt] = answer /\ answer \in Answers
    BY <2>1 DEF IInv, Token
  <2>4. /\ Verdict(answer) \in Exceptions /\ Verdict(answer).kind # "other"
        /\ Verdict(answer).kind = "none" => answer = "plan"
        /\ Verdict(answer).kind = "semantic" => answer \in Rejections
        /\ Verdict(answer).kind = "boundary" => answer \in Boundaries
    BY <2>3 DEF Verdict, ParseError, Answers, Exceptions, Codes, NoExc, Boundary, Semantic,
                Rejections, Boundaries
  <2>5. Explained' /\ exc' \in Exceptions
    BY <2>1, <2>3, <2>4 DEF Explained, Other, Exceptions
  <2> QED  BY <2>1, <2>2, <2>5 DEF CInv
<1>4. CASE Exit
  <2>1. UNCHANGED <<match, turn, attempt, lastCode, status, did, played, faults, exc>>
    BY <1>4 DEF Exit
  <2>2. Repairs' /\ EndsByWhatHappened'
    BY <1>4, <2>1, RepairsKept DEF CInv, Exit
  <2> QED  BY <1>4, <2>1, <2>2 DEF CInv, Explained, Exit
<1>5. CASE HttpComplete \/ CliComplete
  <2>1. /\ pc = "call" /\ UNCHANGED <<match, turn, attempt, lastCode, status, did, played, faults>>
        /\ \/ pc' = "wire" /\ UNCHANGED exc
           \/ pc' = "fail" /\ exc' = Other
    BY <1>5 DEF HttpComplete, CliComplete, Raised, evidence
  <2>2. Repairs' /\ EndsByWhatHappened'
    BY <2>1, RepairsKept DEF CInv
  <2>3. did[attempt] = "none"
    BY <2>1 DEF IInv, Token
  <2> QED
    BY <2>1, <2>2, <2>3 DEF CInv, Explained, Other, Exceptions, Lost, Rejections, Boundaries
<1>6. CASE HttpPost \/ CliPrints \/ CliLost \/ CliRejects \/ CliCrashes
  <2>1. /\ pc = "wire" /\ UNCHANGED <<match, turn, attempt, lastCode, status, played, faults>>
    BY <1>6 DEF HttpPost, CliPrints, CliLost, CliRejects, CliCrashes
  <2>2. \/ UNCHANGED <<did, pc, exc>>
        \/ pc' = "answer" /\ UNCHANGED exc /\ \E a \in Answers : Did(a)
        \/ pc' = "fail" /\ exc' = Boundary("timeout") /\ Did("timeout")
        \/ pc' = "fail" /\ exc' \in {Semantic(c) : c \in Codes} /\ Did("rejected")
        \/ /\ pc' = "fail" /\ exc' = Other
           /\ \E d \in {"unavailable", "refused", "stale", "crash"} : Did(d)
    <3>1. CASE HttpPost
      BY <3>1 DEF HttpPost, Answered, Raised
    <3>2. CASE CliPrints
      BY <3>2 DEF CliPrints, Answered, Raised
    <3>3. CASE CliLost
      BY <3>3 DEF CliLost, Raised
    <3>4. CASE CliRejects
      BY <3>4 DEF CliRejects, Raised, Classify, Gates, Codes
    <3>5. CASE CliCrashes
      BY <3>5 DEF CliCrashes, Raised, Classify
    <3> QED  BY <1>6, <3>1, <3>2, <3>3, <3>4, <3>5
  <2>3. /\ \A a \in Attempts : a # attempt => did'[a] = did[a]
        /\ attempt = 0 \/ did'[0] = did[0]
    <3>1. \/ UNCHANGED did
          \/ \E d : Did(d)
      BY <2>2
    <3>2. did \in [Attempts -> Deeds] /\ 0 \in Attempts /\ attempt \in Attempts
      BY LlmAssumption DEF IInv, Shape, Attempts
    <3>3. ASSUME NEW d, Did(d)
          PROVE  \A a \in Attempts : a # attempt => did'[a] = did[a]
      BY <3>2, <3>3 DEF Did
    <3>4. \A a \in Attempts : a # attempt => did'[a] = did[a]
      BY <3>1, <3>3
    <3> QED  BY <3>2, <3>4
  <2>4. Repairs' /\ EndsByWhatHappened'
    BY <2>1, <2>3, RepairsKept DEF CInv
  <2>5. exc' \in Exceptions /\ (pc' = "fail" => Explained' /\ exc'.kind # "none")
    <3>1. \A d : Did(d) => did'[attempt] = d
      BY DEF Did, IInv, Shape
    <3> QED
      BY <2>1, <2>2, <3>1 DEF CInv, Explained, Exceptions, Boundary, Semantic, Other, Lost,
                              Rejections, Boundaries
  <2> QED  BY <2>1, <2>2, <2>4, <2>5 DEF CInv
<1>7. CASE Accepted \/ Substituted
  <2>1. /\ pc = "settle" /\ UNCHANGED <<status, faults>>
        /\ played' \in [Seats -> {"none", "llm", "fallback"}]
    BY <1>7 DEF Accepted, Substituted, Play, CInv
  <2>2. CASE NextDecision
    BY <2>1, <2>2, FreshCause
  <2>3. CASE UNCHANGED <<match, turn, attempt, lastCode, exc, did>> /\ pc' = "resolve"
    <3>1. Repairs' /\ EndsByWhatHappened'
      BY <2>1, <2>3, RepairsKept DEF CInv
    <3> QED  BY <2>1, <2>3, <3>1 DEF CInv
  <2> QED  BY <1>7, <2>2, <2>3 DEF Accepted, Substituted, Play, evidence
<1>8. CASE BoundaryHit \/ Exhausted \/ Crashed
  BY <1>8, EndingInv
<1>9. CASE Reprompt
  <2>1. /\ UNCHANGED <<match, turn, did, status, faults, played>> /\ pc = "settle" /\ pc' = "ask"
        /\ attempt < RetryLimit /\ attempt' = attempt + 1 /\ exc' = NoExc
        /\ match.policy[seat] = "raise"
        /\ exc.kind = "semantic" \/ (exc.kind = "other" /\ attempt > 0)
        /\ lastCode' = IF exc.kind = "semantic" THEN exc.code ELSE lastCode
        /\ Explained
    BY <1>9 DEF Reprompt, Repairable, evidence, CInv
  <2>2. did[attempt] \in Boundaries \cup {"plan"} => faults > 0
    BY <2>1 DEF Explained, Rejections, Boundaries, Lost
  <2>3. \A a \in Attempts : a < attempt' => a < attempt \/ a = attempt
    BY <2>1, LlmAssumption DEF IInv, Shape, Attempts
  <2>4. attempt > 0 \/ attempt = 0
    BY LlmAssumption DEF IInv, Shape, Attempts
  <2>5. did[0] \in Rejections
    BY <2>1, <2>4 DEF CInv, Repairs, Explained
  <2>6. lastCode' # "none"
    BY <2>1 DEF CInv, Repairs, Exceptions, NoExc, Other, Boundary, Semantic, Codes
  <2>7. Repairs'
    BY <2>1, <2>2, <2>3, <2>5, <2>6 DEF CInv, Repairs, seat
  <2>8. EndsByWhatHappened'
    BY <2>1, <2>7 DEF CInv, EndsByWhatHappened, Repairs
  <2> QED  BY <2>1, <2>7, <2>8 DEF CInv, Exceptions
<1>10. CASE ResolveTick
  <2>1. CASE NextDecision /\ UNCHANGED <<status, faults>> /\ played' = [s \in Seats |-> "none"]
    BY <1>10, <2>1, FreshCause DEF ResolveTick
  <2>2. CASE EndMatch("played") /\ UNCHANGED lastCode
    <3>1. /\ UNCHANGED <<match, turn, attempt, did, exc, faults, played, lastCode>>
          /\ pc' = "ended" /\ status' = "played"
      BY <2>2 DEF EndMatch, evidence
    <3> QED  BY <3>1 DEF CInv, Repairs, EndsByWhatHappened, seat
  <2> QED  BY <1>10, <2>1, <2>2 DEF ResolveTick
<1>11. CASE UNCHANGED vars
  BY <1>11 DEF vars, ladder, evidence, CInv, Explained, Repairs, EndsByWhatHappened, seat
<1> QED
  BY <1>1, <1>2, <1>3, <1>4, <1>5, <1>6, <1>7, <1>8, <1>9, <1>10, <1>11 DEF Next, Done

LEMMA CauseInvariance == Spec => [](IInv /\ CInv)
<1>1. Init => IInv /\ CInv
  BY InitInv, InitCause
<1>2. (IInv /\ CInv) /\ [Next]_vars => (IInv /\ CInv)'
  BY NextInv, NextCause
<1> QED  BY <1>1, <1>2, PTL DEF Spec

(* A match ended by its models ended for what they did (match/runner.py:590). *)
THEOREM EndsTrue == Spec => []EndsByWhatHappened
<1>1. CInv => EndsByWhatHappened
  BY DEF CInv
<1> QED  BY <1>1, CauseInvariance, PTL

LEMMA PlansEarned ==
    ASSUME IInv, CInv, [Next]_vars, NEW s \in Seats, played'[s] # played[s]
    PROVE  /\ played'[s] = "llm" => did[attempt] = "plan" /\ ended[attempt] = <<"resolved">>
           /\ played'[s] = "fallback" =>
                 /\ match.policy[s] = "fallback"
                 /\ match.path = "program" => did[attempt] \in Rejections
                 /\ did[attempt] \in Boundaries => faults > 0
<1>1. CASE Accepted
  <2>1. played' = [played EXCEPT ![seat] = "llm"] /\ pc = "settle" /\ exc.kind = "none"
    BY <1>1 DEF Accepted, Play, NoExc
  <2>2. played'[s] # "fallback" \/ played'[s] = played[s]
    BY <2>1 DEF CInv
  <2>3. did[attempt] = "plan" /\ Settled(attempt)
    BY <2>1 DEF CInv, Explained, IInv, Token
  <2>4. ended[attempt] = <<"resolved">>
    BY <2>3 DEF Settled, TrueReason
  <2> QED  BY <2>2, <2>3, <2>4
<1>2. CASE Substituted
  <2>1. /\ played' = [played EXCEPT ![seat] = "fallback"] /\ pc = "settle"
        /\ match.policy[seat] = "fallback"
        /\ exc.kind = "semantic" \/ (exc.kind = "other" /\ match.path = "decide")
    BY <1>2 DEF Substituted, Play
  <2>2. s = seat /\ played'[s] = "fallback"
    BY <2>1 DEF CInv
  <2>3. Explained
    BY <2>1 DEF CInv
  <2>4. match.path = "program" => did[attempt] \in Rejections
    BY <2>1, <2>3 DEF Explained
  <2>5. did[attempt] \in Boundaries => faults > 0
    BY <2>1, <2>3 DEF Explained, Boundaries, Rejections, Lost
  <2> QED  BY <2>1, <2>2, <2>4, <2>5
<1>3. CASE ResolveTick
  <2>1. played'[s] = "none" \/ played'[s] = played[s]
    BY <1>3 DEF ResolveTick, EndMatch
  <2> QED  BY <2>1
<1>4. CASE ~Accepted /\ ~Substituted /\ ~ResolveTick
  <2>1. UNCHANGED played
    BY <1>4 DEF Next, Request, EnterFails, Consume, Exit, HttpComplete, HttpPost, CliComplete,
                CliPrints, CliLost, CliRejects, CliCrashes, BoundaryHit, Reprompt, Exhausted,
                Crashed, EndMatch, Done, vars
  <2> QED  BY <2>1
<1> QED  BY <1>1, <1>2, <1>3, <1>4

(* No plan is credited to a provider that did not give it, and none is     *)
(* substituted unasked (llm/programming.py:640, llm/pilot.py:259).         *)
THEOREM PlansAlwaysEarned == Spec => PlansAreEarned
<1>1. IInv /\ CInv /\ [Next]_vars =>
        [\A s \in Seats : played'[s] # played[s] =>
          /\ played'[s] = "llm" => did[attempt] = "plan" /\ ended[attempt] = <<"resolved">>
          /\ played'[s] = "fallback" =>
                /\ match.policy[s] = "fallback"
                /\ match.path = "program" => did[attempt] \in Rejections
                /\ did[attempt] \in Boundaries => faults > 0]_vars
  BY PlansEarned
<1> QED  BY <1>1, CauseInvariance, PTL DEF Spec, PlansAreEarned

-----------------------------------------------------------------------------
(***************************************************************************)
(* The event projection: OnlyStopRefused and, further down, NothingMissed  *)
(* for any browsers, any number of ticks, events and revisions, and either *)
(* place of a status.                                                      *)
(*                                                                         *)
(* Frames have an order, the one the loop sorts by and the transport       *)
(* checks.  The invariant says that what is under way in the worker, what  *)
(* is queued behind it and what the loop holds stands behind all that was  *)
(* sent (WorkerInv, Sound), that what was sent is a prefix the transport   *)
(* accepts (WellFormed), and that every browser has been sent a prefix of  *)
(* that prefix, over all its connections (Watched).  A transport that      *)
(* follows a well formed prefix refuses a status at most, and only before  *)
(* it has accepted one (FollowingIsFine).                                  *)
(***************************************************************************)

Conditions == {"running", "paused", "ended", "failed"}
BusFrames ==
    [kind : {"started", "game", "ended", "scored", "promoted"}, tick : Nat, seq : Nat,
     id : {BusId}, status : {"none"}, rev : {0}]
StatusFrames ==
    [kind : {"status"}, tick : Nat, seq : Nat, id : {0, 1, 3}, status : Conditions, rev : Nat]
Frames == BusFrames \union StatusFrames
Started == BusEvent("started", 0, 0)
Late(e) == e.kind \in {"scored", "promoted"}
StatusesOf(G) == {e \in G : e.kind = "status"}

(* The numbers a frame is ordered by are naturals.                         *)
LEMMA FrameNumbers ==
    ASSUME NEW e \in Frames
    PROVE  e.tick \in Nat /\ e.seq \in Nat /\ e.id \in Nat /\ e.rev \in Nat
BY DEF Frames, BusFrames, StatusFrames, BusId

(* compareOrder is a strict order on frames.                               *)
LEMMA BeforeOrders ==
    ASSUME NEW e \in Frames, NEW f \in Frames, NEW g \in Frames
    PROVE  /\ ~Before(e, e)
           /\ ~(Before(e, f) /\ Before(f, e))
           /\ Before(e, f) /\ Before(f, g) => Before(e, g)
<1>1. /\ e.tick \in Nat /\ e.seq \in Nat /\ e.id \in Nat
      /\ f.tick \in Nat /\ f.seq \in Nat /\ f.id \in Nat
      /\ g.tick \in Nat /\ g.seq \in Nat /\ g.id \in Nat
  BY FrameNumbers
<1> QED  BY <1>1 DEF Before

Ordered(S) ==
    /\ S \subseteq Frames /\ IsFiniteSet(S)
    /\ \A e, f \in S : e = f \/ Before(e, f) \/ Before(f, e)

Lower(x, S) == {f \in S : Before(f, x)}

(* Of two frames of a set, the later one has more frames of the set        *)
(* before it.                                                              *)
LEMMA LowerGrows ==
    ASSUME NEW S, Ordered(S), NEW x \in S, NEW y \in S, Before(x, y)
    PROVE  Cardinality(Lower(x, S)) < Cardinality(Lower(y, S))
<1>1. IsFiniteSet(Lower(y, S))
  BY FS_Subset DEF Lower, Ordered
<1>2. Lower(x, S) \in SUBSET Lower(y, S)
  BY BeforeOrders DEF Lower, Ordered
<1>3. Lower(x, S) # Lower(y, S)
  BY BeforeOrders DEF Lower, Ordered
<1>4. IsFiniteSet(Lower(x, S))
  BY <1>1, <1>2, FS_Subset
<1>5. /\ Cardinality(Lower(x, S)) <= Cardinality(Lower(y, S))
      /\ Cardinality(Lower(x, S)) # Cardinality(Lower(y, S))
  BY <1>1, <1>2, <1>3, FS_Subset
<1> QED  BY <1>1, <1>4, <1>5, FS_CardinalityType

(* The frames of an ordered set have the places 0, 1, 2, ..., each taken   *)
(* once.                                                                   *)
LEMMA Places ==
    ASSUME NEW S, Ordered(S)
    PROVE  /\ \A x \in S : Cardinality(Lower(x, S)) \in 0 .. Cardinality(S) - 1
           /\ \A x, y \in S : Cardinality(Lower(x, S)) = Cardinality(Lower(y, S)) => x = y
           /\ \A i \in 0 .. Cardinality(S) - 1 : \E x \in S : Cardinality(Lower(x, S)) = i
<1> DEFINE n == Cardinality(S)
           place == [x \in S |-> Cardinality(Lower(x, S))]
<1>1. n \in Nat /\ IsFiniteSet(S)
  BY FS_CardinalityType DEF Ordered
<1>2. ASSUME NEW x \in S
      PROVE  place[x] \in 0 .. n - 1
  <2>1. Lower(x, S) \in SUBSET (S \ {x})
    BY BeforeOrders DEF Lower, Ordered
  <2>2. IsFiniteSet(S \ {x}) /\ Cardinality(S \ {x}) = n - 1
    BY <1>1, FS_RemoveElement
  <2>3. IsFiniteSet(Lower(x, S)) /\ Cardinality(Lower(x, S)) <= n - 1
    BY <2>1, <2>2, FS_Subset
  <2> QED  BY <2>3, <1>1, FS_CardinalityType
<1>3. ASSUME NEW x \in S, NEW y \in S, place[x] = place[y]
      PROVE  x = y
  <2>1. Cardinality(Lower(x, S)) \in Nat /\ Cardinality(Lower(y, S)) \in Nat
    BY <1>2, <1>1
  <2>2. ~Before(x, y) /\ ~Before(y, x)
    BY <2>1, <1>3, LowerGrows
  <2> QED  BY <2>2 DEF Ordered
<1>4. place \in Injection(S, 0 .. n - 1)
  <2>1. place \in [S -> 0 .. n - 1]
    BY <1>2
  <2> HIDE DEF place
  <2> QED  BY <2>1, <1>3 DEF Injection, IsInjective
<1>5. IsFiniteSet(0 .. n - 1) /\ Cardinality(0 .. n - 1) = n
  BY <1>1, FS_Interval
<1>6. place \in Surjection(S, 0 .. n - 1)
  <2> HIDE DEF place, n
  <2> QED  BY <1>1, <1>4, <1>5, FS_Injection DEF n
<1>7. \A i \in 0 .. n - 1 : \E x \in S : place[x] = i
  <2> HIDE DEF place, n
  <2> QED  BY <1>6 DEF Surjection
<1> QED  BY <1>2, <1>3, <1>7

(* The list is the set, and a frame stands in it behind the ones before it. *)
Lists(list, S) ==
    /\ list \in Seq(S)
    /\ \A e \in S : \E i \in 1 .. Len(list) : list[i] = e
    /\ \A i, j \in 1 .. Len(list) : i < j => Before(list[i], list[j])

(* Sorting a set of frames lists it in its order.                          *)
LEMMA SortedLists ==
    ASSUME NEW S, Ordered(S) PROVE Lists(Sorted(S), S)
<1> DEFINE n == Cardinality(S)
           list == Sorted(S)
           place(x) == Cardinality(Lower(x, S))
<1>1. n \in Nat
  BY FS_CardinalityType DEF Ordered
<1>2. /\ \A x \in S : place(x) \in 0 .. n - 1
      /\ \A x, y \in S : place(x) = place(y) => x = y
      /\ \A i \in 0 .. n - 1 : \E x \in S : place(x) = i
  BY Places
<1>3. list = [i \in 1 .. n |-> CHOOSE x \in S : place(x) = i - 1]
  BY DEF Sorted, Lower
<1>4. ASSUME NEW i \in 1 .. n
      PROVE  list[i] \in S /\ place(list[i]) = i - 1
  <2>1. \E x \in S : place(x) = i - 1
    BY <1>1, <1>2
  <2>2. list[i] = CHOOSE x \in S : place(x) = i - 1
    BY <1>3
  <2> HIDE DEF place, list
  <2> QED  BY <2>1, <2>2
<1>5. list \in Seq(S) /\ Len(list) = n
  BY <1>1, <1>3, <1>4
<1>6. \A x \in S : \E i \in 1 .. n : list[i] = x
  <2> SUFFICES ASSUME NEW x \in S PROVE \E i \in 1 .. n : list[i] = x
    OBVIOUS
  <2>1. place(x) + 1 \in 1 .. n /\ (place(x) + 1) - 1 = place(x)
    BY <1>1, <1>2
  <2>2. place(list[place(x) + 1]) = place(x) /\ list[place(x) + 1] \in S
    BY <2>1, <1>4
  <2> QED  BY <2>1, <2>2, <1>2
<1>7. \A i, j \in 1 .. n : i < j => Before(list[i], list[j])
  <2> SUFFICES ASSUME NEW i \in 1 .. n, NEW j \in 1 .. n, i < j
               PROVE  Before(list[i], list[j])
    OBVIOUS
  <2>1. list[i] \in S /\ list[j] \in S /\ place(list[i]) = i - 1 /\ place(list[j]) = j - 1
    BY <1>4
  <2>2. list[i] # list[j]
    <3> HIDE DEF place, list
    <3> QED  BY <2>1, <1>1
  <2>3. CASE Before(list[j], list[i])
    <3>1. place(list[j]) < place(list[i])
      BY <2>1, <2>3, LowerGrows
    <3> HIDE DEF place, list
    <3> QED  BY <3>1, <2>1, <1>1
  <2> QED  BY <2>1, <2>2, <2>3 DEF Ordered
<1> QED  BY <1>5, <1>6, <1>7 DEF Lists

-----------------------------------------------------------------------------
(* A set of naturals that is not empty has a least member.                 *)
LEMMA LeastNumberOf ==
    ASSUME NEW T \in SUBSET Nat, T # {}
    PROVE  \E x \in T : \A y \in T : x <= y
<1> DEFINE R == OpToRel(<, Nat)
<1>1. IsWellFoundedOn(R, Nat)
  BY NatLessThanWellFounded
<1>2. \A x, y \in Nat : y < x => <<y, x>> \in R
  BY DEF OpToRel
<1> HIDE DEF R
<1>3. \E x \in T : \A y \in T : <<y, x>> \notin R
  BY <1>1, WFMin, Zenon
<1>4. PICK x \in T : \A y \in T : <<y, x>> \notin R
  BY <1>3
<1>5. \A y \in T : ~ (y < x)
  BY <1>4, <1>2
<1> QED  BY <1>4, <1>5

(* What holds at the first index, and goes on from each to the next,       *)
(* holds at all.                                                           *)
LEMMA StepByStep ==
    ASSUME NEW n \in Nat, NEW T, 0 \in T, \A i \in 0 .. n - 1 : i \in T => i + 1 \in T
    PROVE  \A i \in 0 .. n : i \in T
<1> DEFINE Rest == {i \in 0 .. n : i \notin T}
<1> SUFFICES ASSUME Rest # {} PROVE FALSE
  OBVIOUS
<1>1. PICK x \in Rest : \A y \in Rest : x <= y
  <2>1. Rest \in SUBSET Nat
    OBVIOUS
  <2> HIDE DEF Rest
  <2> QED  BY <2>1, LeastNumberOf
<1>2. x # 0 /\ x - 1 \in 0 .. n - 1 /\ x - 1 \notin Rest
  BY <1>1
<1>3. (x - 1) + 1 \in T
  BY <1>2
<1> QED  BY <1>2, <1>3

(* The transport after n frames is the one after n - 1 with another frame.  *)
Takes(f, tab, frames, n) ==
    f = [i \in 0 .. n |-> IF i = 0 THEN tab ELSE Ingest(f[i - 1], frames[i])]

(* The transports after 0, 1, 2, ... frames are one ingestion apart.       *)
LEMMA TabsStep ==
    ASSUME NEW tab, NEW frames, Len(frames) \in Nat
    PROVE  /\ Tabs(tab, frames)[0] = tab
           /\ \A n \in 1 .. Len(frames) :
                Tabs(tab, frames)[n] = Ingest(Tabs(tab, frames)[n - 1], frames[n])
<1> DEFINE N == Len(frames)
           T == {n \in 0 .. N : \E f : Takes(f, tab, frames, n)}
<1>1. 0 \in T
  <2>1. Takes([i \in 0 .. 0 |-> tab], tab, frames, 0)
    BY DEF Takes
  <2> QED  BY <2>1
<1>2. \A n \in 0 .. N - 1 : n \in T => n + 1 \in T
  <2> SUFFICES ASSUME NEW n \in 0 .. N - 1, NEW f, Takes(f, tab, frames, n)
               PROVE  \E g : Takes(g, tab, frames, n + 1)
    BY DEF T
  <2> DEFINE g == [i \in 0 .. n + 1 |-> IF i = 0 THEN tab ELSE Ingest(f[i - 1], frames[i])]
  <2>1. \A i \in 0 .. n : g[i] = f[i]
    <3>1. f = [i \in 0 .. n |-> IF i = 0 THEN tab ELSE Ingest(f[i - 1], frames[i])]
      BY DEF Takes
    <3> QED  BY <3>1
  <2>2. Takes(g, tab, frames, n + 1)
    <3>1. g = [i \in 0 .. n + 1 |-> IF i = 0 THEN tab ELSE Ingest(g[i - 1], frames[i])]
      <4>0. n \in Nat
        OBVIOUS
      <4>1. \A i \in 0 .. n + 1 : i # 0 => f[i - 1] = g[i - 1]
        <5> HIDE DEF g
        <5>1. \A i \in 0 .. n + 1 : i # 0 => i - 1 \in 0 .. n
          BY <4>0
        <5> QED  BY <5>1, <2>1
      <4> HIDE DEF g
      <4>2. g = [i \in 0 .. n + 1 |-> IF i = 0 THEN tab ELSE Ingest(f[i - 1], frames[i])]
        BY DEF g
      <4> QED  BY <4>1, <4>2
    <3> QED  BY <3>1 DEF Takes
  <2> QED  BY <2>2
<1>3. N \in T
  <2>1. \A n \in 0 .. N : n \in T
    <3> HIDE DEF T
    <3> QED  BY <1>1, <1>2, StepByStep
  <2> HIDE DEF T
  <2> QED  BY <2>1
<1>4. \E f : Takes(f, tab, frames, N)
  BY <1>3
<1>5. Tabs(tab, frames) = CHOOSE f : Takes(f, tab, frames, N)
  BY DEF Tabs, Takes
<1>6. Takes(Tabs(tab, frames), tab, frames, N)
  BY <1>4, <1>5
<1> DEFINE f == Tabs(tab, frames)
<1>7. f = [i \in 0 .. N |-> IF i = 0 THEN tab ELSE Ingest(f[i - 1], frames[i])]
  BY <1>6 DEF Takes
<1> HIDE DEF f
<1> QED  BY <1>7 DEF f
-----------------------------------------------------------------------------
(* A prefix the server sends, and a transport that was sent some of it.    *)

WellFormed(H) ==
    /\ Ordered(H)
    /\ H # {} => Started \in H
    /\ \A e \in H : e = Started \/ (e.kind # "started" /\ Before(Started, e))
    /\ \A s, t \in StatusesOf(H) : Before(s, t) => s.rev < t.rev /\ ~Terminal(s.status)
    /\ \A d \in H : d.kind = "ended" =>
          /\ \E s \in StatusesOf(H) : Terminal(s.status) /\ Before(s, d)
          /\ \A f \in H : Before(d, f) => Late(f)
    /\ \A e, f \in H : e.kind = f.kind /\ Late(e) => e = f
    /\ \A f \in H : f.kind = "promoted" => \E e \in H : e.kind = "scored" /\ Before(e, f)

Good(e) == e.kind = "status" /\ e.status = "running" /\ e.tick = 0 /\ e.seq > 0
Taken(F) == {e \in F : e.kind = "status" => \E g \in F : Good(g) /\ ~Before(e, g)}
Got(tab) == tab.events \union tab.refused
TabSet == [events : SUBSET Frames, refused : SUBSET Frames]

Follows(tab, H) ==
    /\ tab \in TabSet
    /\ Got(tab) \subseteq H
    /\ tab.events = Taken(Got(tab)) /\ tab.refused = Got(tab) \ Taken(Got(tab))
    /\ \A e \in Got(tab), f \in H : Before(f, e) => f \in Got(tab)

Fine(tab) ==
    \A e \in tab.refused :
        e.kind = "status" /\ \A s \in Statuses(tab) : e.rev < s.rev

(* A new page has been sent nothing.                                       *)
LEMMA NewTabFollows == Follows(NewTab, {})
BY DEF Follows, NewTab, TabSet, Got, Taken

(* What a transport refuses is the statuses before the first it accepts.   *)
LEMMA FollowingIsFine ==
    ASSUME NEW tab, NEW H, WellFormed(H), Follows(tab, H)
    PROVE  Fine(tab)
<1> SUFFICES ASSUME NEW e \in tab.refused
             PROVE  e.kind = "status" /\ \A s \in Statuses(tab) : e.rev < s.rev
  BY DEF Fine
<1>1. e \in Got(tab) /\ e.kind = "status" /\ \A g \in Got(tab) : Good(g) => Before(e, g)
  BY DEF Follows, Taken
<1>2. ASSUME NEW s \in Statuses(tab)
      PROVE  e.rev < s.rev
  <2>1. s \in Got(tab) /\ s.kind = "status" /\ \E g \in Got(tab) : Good(g) /\ ~Before(s, g)
    BY DEF Statuses, Follows, Taken
  <2>2. PICK g \in Got(tab) : Good(g) /\ ~Before(s, g)
    BY <2>1
  <2>3. e \in H /\ s \in H /\ g \in H /\ e \in Frames /\ s \in Frames /\ g \in Frames
    BY <1>1, <2>1, <2>2 DEF Follows, WellFormed, Ordered
  <2>4. Before(e, g) /\ (s = g \/ Before(g, s))
    BY <1>1, <2>2, <2>3 DEF WellFormed, Ordered
  <2>5. Before(e, s)
    BY <2>3, <2>4, BeforeOrders
  <2> QED  BY <1>1, <2>1, <2>3, <2>5 DEF WellFormed, StatusesOf
<1> QED  BY <1>1, <1>2

(* A frame that a transport was sent before, as in a replay, changes       *)
(* nothing.                                                                *)
LEMMA IngestSeen ==
    ASSUME NEW tab, NEW H, WellFormed(H), Follows(tab, H), NEW e \in Got(tab)
    PROVE  Ingest(tab, e) = tab
<1>1. CASE e \in tab.events
  BY <1>1 DEF Ingest
<1>2. CASE e \notin tab.events
  <2>1. e \in tab.refused /\ e.kind = "status" /\ \A g \in Got(tab) : Good(g) => Before(e, g)
    BY <1>2 DEF Follows, Taken, Got
  <2>2. e \in H /\ e \in Frames
    BY <2>1 DEF Follows, WellFormed, Ordered
  <2>3. ~Acceptable(tab, e)
    <3> SUFFICES ASSUME Acceptable(tab, e) PROVE FALSE
      OBVIOUS
    <3>1. StatusFollows(tab, e) /\ \A f \in tab.events : Before(f, e)
      BY <2>1 DEF Acceptable
    <3>2. CASE Statuses(tab) = {}
      <4>1. Good(e)
        BY <2>1, <3>1, <3>2 DEF StatusFollows, Good
      <4>2. Before(e, e)
        BY <2>1, <4>1
      <4> QED  BY <4>2, <2>2, BeforeOrders
    <3>3. CASE Statuses(tab) # {}
      <4>1. PICK s \in tab.events : s.kind = "status"
        BY <3>3 DEF Statuses
      <4>2. Before(s, e) /\ s \in Frames /\ s \in Got(tab)
        BY <3>1, <4>1 DEF Follows, TabSet, Got
      <4>3. PICK g \in Got(tab) : Good(g) /\ ~Before(s, g)
        BY <4>1, <4>2 DEF Follows, Taken
      <4>4. Before(e, g) /\ g \in Frames
        BY <2>1, <4>3 DEF Follows, WellFormed, Ordered
      <4> QED  BY <4>2, <4>3, <4>4, <2>2, BeforeOrders
    <3> QED  BY <3>2, <3>3
  <2>4. Ingest(tab, e) = [tab EXCEPT !.refused = @ \union {e}]
    BY <1>2, <2>3 DEF Ingest
  <2>5. tab.refused \union {e} = tab.refused
    BY <2>1
  <2> QED  BY <2>4, <2>5 DEF Follows, TabSet
<1> QED  BY <1>1, <1>2

(* The next frame of the prefix is accepted, unless it is a status and no   *)
(* status up to it could be the first.                                     *)
LEMMA IngestAccepts ==
    ASSUME NEW tab, NEW H, WellFormed(H), Follows(tab, H), NEW e \in H, e \notin Got(tab),
           \A f \in H : Before(f, e) => f \in Got(tab)
    PROVE  Acceptable(tab, e) <=> e \in Taken(Got(tab) \union {e})
<1> DEFINE F == Got(tab)
<1>1. F \subseteq H /\ H \subseteq Frames /\ tab.events = Taken(F)
  BY DEF Follows, WellFormed, Ordered
<1>2. \A f \in F : Before(f, e)
  <2> SUFFICES ASSUME NEW f \in F, ~Before(f, e) PROVE FALSE
    OBVIOUS
  <2>1. Before(e, f)
    BY <1>1 DEF WellFormed, Ordered
  <2> QED  BY <2>1 DEF Follows
<1>3. \A f \in F : f.kind # "status" => f \in tab.events
  BY <1>1 DEF Taken
<1>4. tab.events \subseteq F
  BY <1>1 DEF Taken
<1>5. e.kind = "started" => e = Started
  BY DEF WellFormed
<1>6. tab.events = {} <=> e.kind = "started"
  <2>1. CASE e = Started
    <3>1. \A f \in F : f \in Frames /\ Before(f, Started) /\ Started \in Frames
      BY <1>1, <1>2, <2>1
    <3>2. \A f \in F : f # Started /\ Before(Started, f)
      BY <2>1, <1>1 DEF WellFormed
    <3>3. F = {}
      BY <3>1, <3>2, BeforeOrders
    <3> QED  BY <3>3, <1>4, <2>1 DEF Started, BusEvent
  <2>2. CASE e # Started
    <3>1. Started \in H /\ Before(Started, e)
      BY <2>2 DEF WellFormed
    <3>2. Started \in F /\ Started.kind = "started"
      BY <3>1 DEF Started, BusEvent
    <3> QED  BY <3>2, <1>3, <1>5, <2>2
  <2> QED  BY <2>1, <2>2
<1>7. e.kind = "started" => e.tick = 0 /\ e.seq = 0
  BY <1>5 DEF Started, BusEvent
<1>8. e.kind = "scored" => ~Has(tab, "scored")
  BY <1>1, <1>4 DEF Has, WellFormed, Late
<1>9. e.kind = "promoted" => Has(tab, "scored") /\ ~Has(tab, "promoted")
  <2> SUFFICES ASSUME e.kind = "promoted" PROVE Has(tab, "scored") /\ ~Has(tab, "promoted")
    OBVIOUS
  <2>1. PICK s \in H : s.kind = "scored" /\ Before(s, e)
    BY DEF WellFormed
  <2>2. s \in tab.events
    BY <2>1, <1>3
  <2>3. ~Has(tab, "promoted")
    BY <1>1, <1>4 DEF Has, WellFormed, Late
  <2> QED  BY <2>1, <2>2, <2>3 DEF Has
<1>10. Has(tab, "ended") => AfterTerminal(tab, e)
  <2> SUFFICES ASSUME NEW d \in tab.events, d.kind = "ended" PROVE AfterTerminal(tab, e)
    BY DEF Has
  <2>1. d \in H /\ Before(d, e)
    BY <1>1, <1>2, <1>4
  <2>2. Late(e)
    BY <2>1 DEF WellFormed
  <2> QED  BY <2>2, <1>8, <1>9 DEF AfterTerminal, Late
<1>11. e.kind = "ended" => StatusSettled(tab)
  <2> SUFFICES ASSUME e.kind = "ended", NEW s \in Statuses(tab), ~Terminal(s.status)
               PROVE  \E t \in Statuses(tab) : s.rev < t.rev
    BY DEF StatusSettled
  <2>1. PICK t \in StatusesOf(H) : Terminal(t.status) /\ Before(t, e)
    BY DEF WellFormed
  <2>2. t \in F /\ t \in StatusesOf(H) /\ s \in StatusesOf(H) /\ s \in F /\ t.kind = "status"
    BY <2>1, <1>1, <1>4 DEF Statuses, StatusesOf
  <2>3. t # s
    BY <2>1
  <2>4. ~Before(t, s)
    BY <2>1, <2>2 DEF WellFormed
  <2>5. Before(s, t)
    BY <2>2, <2>3, <2>4, <1>1 DEF WellFormed, Ordered
  <2>6. PICK g \in F : Good(g) /\ ~Before(s, g)
    BY <2>2, <1>1 DEF Statuses, Taken
  <2>7. ~Before(t, g)
    BY <2>2, <2>5, <2>6, <1>1, BeforeOrders
  <2>8. t \in Statuses(tab)
    BY <2>2, <2>6, <2>7, <1>1 DEF Taken, Statuses
  <2> QED  BY <2>2, <2>5, <2>8 DEF WellFormed
<1>12. CASE e.kind # "status"
  <2>1. Acceptable(tab, e)
    BY <1>2, <1>4, <1>6, <1>7, <1>8, <1>9, <1>10, <1>11, <1>12 DEF Acceptable
  <2> QED  BY <2>1, <1>12 DEF Taken
<1>13. CASE e.kind = "status"
  <2>1. Acceptable(tab, e) <=> StatusFollows(tab, e)
    BY <1>2, <1>4, <1>6, <1>7, <1>8, <1>9, <1>10, <1>11, <1>13 DEF Acceptable
  <2>2. e \in Taken(F \union {e}) <=> \E g \in F \union {e} : Good(g) /\ ~Before(e, g)
    BY <1>13 DEF Taken
  <2>3. e \in Frames /\ ~Before(e, e) /\ \A g \in F : ~Before(e, g)
    BY <1>1, <1>2, BeforeOrders
  <2>4. e \in Taken(F \union {e}) <=> \E g \in F \union {e} : Good(g)
    BY <2>2, <2>3
  <2>5. CASE Statuses(tab) = {}
    <3>1. StatusFollows(tab, e) <=> Good(e)
      BY <2>5, <1>13 DEF StatusFollows, Good
    <3>2. ASSUME NEW g \in F, Good(g) PROVE FALSE
      <4>1. g \in Frames /\ ~Before(g, g)
        BY <1>1, BeforeOrders
      <4>2. g \in Statuses(tab)
        BY <3>2, <4>1, <1>1 DEF Taken, Statuses, Good
      <4> QED  BY <4>2, <2>5
    <3> QED  BY <2>1, <2>4, <3>1, <3>2
  <2>6. CASE Statuses(tab) # {}
    <3>1. PICK s \in Statuses(tab) : TRUE
      BY <2>6
    <3>2. \E g \in F : Good(g)
      BY <3>1, <1>1 DEF Statuses, Taken
    <3>3. \A u \in Statuses(tab) : u \in StatusesOf(H) /\ e \in StatusesOf(H) /\ Before(u, e)
      BY <1>1, <1>2, <1>4, <1>13 DEF Statuses, StatusesOf
    <3>4. StatusFollows(tab, e)
      BY <2>6, <3>3 DEF StatusFollows, WellFormed
    <3> QED  BY <2>1, <2>4, <3>2, <3>4
  <2> QED  BY <2>5, <2>6
<1> QED  BY <1>12, <1>13

(* The next frame of the prefix makes the transport follow it one frame    *)
(* further.                                                                *)
LEMMA IngestFollows ==
    ASSUME NEW tab, NEW H, WellFormed(H), Follows(tab, H), NEW e \in H,
           \A f \in H : Before(f, e) => f \in Got(tab)
    PROVE  Follows(Ingest(tab, e), H) /\ Got(Ingest(tab, e)) = Got(tab) \union {e}
<1>1. CASE e \in Got(tab)
  <2>1. Ingest(tab, e) = tab
    BY <1>1, IngestSeen
  <2> QED  BY <1>1, <2>1
<1>2. CASE e \notin Got(tab)
  <2> DEFINE F == Got(tab)
             new == Ingest(tab, e)
  <2>1. Acceptable(tab, e) <=> e \in Taken(F \union {e})
    BY <1>2, IngestAccepts
  <2>2. e \notin tab.events /\ e \in Frames
    BY <1>2 DEF Got, WellFormed, Ordered
  <2>3. /\ F \subseteq Frames
        /\ \A f \in F : ~Before(f, f) /\ Before(f, e) /\ ~Before(e, f)
    <3>1. ASSUME NEW f \in F PROVE f \in Frames /\ Before(f, e)
      <4>1. f \in H /\ f \in Frames /\ f # e
        BY <1>2 DEF Follows, WellFormed, Ordered
      <4>2. ~Before(e, f)
        BY <1>2 DEF Follows
      <4> QED  BY <4>1, <4>2 DEF WellFormed, Ordered
    <3> QED  BY <3>1, <2>2, BeforeOrders
  <2>4. Taken(F \union {e}) = Taken(F) \union (IF Acceptable(tab, e) THEN {e} ELSE {})
    <3>1. \A f \in F : f \in Taken(F \union {e}) <=> f \in Taken(F)
      BY <2>3 DEF Taken
    <3> QED  BY <2>1, <3>1 DEF Taken
  <2>5. new = [events  |-> tab.events \union (IF Acceptable(tab, e) THEN {e} ELSE {}),
               refused |-> tab.refused \union (IF Acceptable(tab, e) THEN {} ELSE {e})]
    BY <2>2 DEF Ingest, Follows, TabSet
  <2>6. new \in TabSet /\ Got(new) = F \union {e}
    <3>1. tab.events \subseteq Frames /\ tab.refused \subseteq Frames
      BY DEF Follows, TabSet
    <3> QED  BY <2>2, <2>5, <3>1 DEF TabSet, Got
  <2>7. new.events = Taken(F \union {e}) /\ new.refused = (F \union {e}) \ Taken(F \union {e})
    <3>1. tab.events = Taken(F) /\ tab.refused = F \ Taken(F) /\ Taken(F) \subseteq F
      BY DEF Follows, Taken
    <3> HIDE DEF F, new
    <3> QED  BY <1>2, <2>4, <2>5, <3>1 DEF F
  <2>8. \A g \in F \union {e}, f \in H : Before(f, g) => f \in F \union {e}
    BY DEF Follows
  <2>9. F \union {e} \subseteq H
    BY DEF Follows
  <2> HIDE DEF F, new
  <2>10. Follows(new, H)
    BY <2>6, <2>7, <2>8, <2>9 DEF Follows
  <2> QED  BY <2>6, <2>10 DEF new, F
<1> QED  BY <1>1, <1>2

(* Frames in order, behind what was sent before.                           *)
Continues(list, old, H) ==
    /\ old \subseteq H
    /\ Lists(list, H \ old)
    /\ \A h \in old, f \in H \ old : Before(h, f)

(* A transport that is sent the continuation of what it has follows the    *)
(* whole prefix, as far as the frames reach it.                            *)
LEMMA TabsFollow ==
    ASSUME NEW tab, NEW H, NEW old, NEW list, WellFormed(H), Follows(tab, H),
           Continues(list, old, H), old \subseteq Got(tab)
    PROVE  \A k \in 0 .. Len(list) :
             /\ Follows(Tabs(tab, list)[k], H)
             /\ k = Len(list) => Got(Tabs(tab, list)[k]) = H
<1> DEFINE at(k) == Tabs(tab, list)[k]
           T == {k \in 0 .. Len(list) :
                   /\ Follows(at(k), H)
                   /\ Got(at(k)) = Got(tab) \union {list[i] : i \in 1 .. k}}
<1>0. list \in Seq(H \ old) /\ Len(list) \in Nat
  BY DEF Continues, Lists
<1>1. at(0) = tab /\ \A n \in 1 .. Len(list) : at(n) = Ingest(at(n - 1), list[n])
  BY <1>0, TabsStep
<1>2. 0 \in T
  BY <1>0, <1>1
<1>3. \A k \in 0 .. Len(list) - 1 : k \in T => k + 1 \in T
  <2> SUFFICES ASSUME NEW k \in 0 .. Len(list) - 1, k \in T PROVE k + 1 \in T
    OBVIOUS
  <2> DEFINE e == list[k + 1]
  <2>1. k \in Nat /\ k + 1 \in 1 .. Len(list) /\ k + 1 \in 0 .. Len(list) /\ (k + 1) - 1 = k
    BY <1>0
  <2>2. at(k + 1) = Ingest(at(k), e)
    BY <1>1, <2>1
  <2>3. e \in H \ old /\ e \in Frames
    BY <1>0, <2>1 DEF WellFormed, Ordered
  <2>4. Follows(at(k), H) /\ Got(at(k)) = Got(tab) \union {list[i] : i \in 1 .. k}
    OBVIOUS
  <2> HIDE DEF at
  <2>5. ASSUME NEW f \in H, Before(f, e) PROVE f \in Got(at(k))
    <3>1. CASE f \in old
      BY <3>1, <2>4
    <3>2. CASE f \notin old
      <4>1. PICK j \in 1 .. Len(list) : list[j] = f
        BY <3>2 DEF Continues, Lists
      <4>2. f \in Frames
        BY DEF WellFormed, Ordered
      <4>3. ~(k + 1 < j) /\ j # k + 1
        BY <4>1, <4>2, <2>1, <2>3, <2>5, BeforeOrders DEF Continues, Lists
      <4>4. j \in 1 .. k
        BY <4>3, <2>1, <1>0
      <4> QED  BY <4>1, <4>4, <2>4
    <3> QED  BY <3>1, <3>2
  <2>6. Follows(Ingest(at(k), e), H) /\ Got(Ingest(at(k), e)) = Got(at(k)) \union {e}
    <3> HIDE DEF e
    <3> QED  BY <2>3, <2>4, <2>5, IngestFollows
  <2>7. {list[i] : i \in 1 .. k + 1} = {list[i] : i \in 1 .. k} \union {e}
    BY <2>1
  <2>8. Got(at(k + 1)) = Got(tab) \union {list[i] : i \in 1 .. k + 1}
    BY <2>2, <2>4, <2>6, <2>7
  <2> QED  BY <2>1, <2>2, <2>6, <2>8
<1>4. \A k \in 0 .. Len(list) : k \in T
  <2> HIDE DEF T
  <2> QED  BY <1>0, <1>2, <1>3, StepByStep
<1>5. H \ old = {list[i] : i \in 1 .. Len(list)}
  BY <1>0 DEF Continues, Lists
<1>6. Got(tab) \subseteq H
  BY DEF Follows
<1> HIDE DEF at
<1>7. \A k \in 0 .. Len(list) :
        Follows(at(k), H) /\ Got(at(k)) = Got(tab) \union {list[i] : i \in 1 .. k}
  BY <1>4
<1>8. \A k \in 0 .. Len(list) : k = Len(list) => Got(at(k)) = H
  BY <1>5, <1>6, <1>7 DEF Continues
<1> QED  BY <1>7, <1>8 DEF at

(* A transport that follows a prefix follows a longer one.                 *)
LEMMA FollowsGrows ==
    ASSUME NEW tab, NEW old, NEW H, WellFormed(H), Follows(tab, old), old \subseteq H,
           \A h \in old, f \in H \ old : Before(h, f)
    PROVE  Follows(tab, H)
<1>1. ASSUME NEW e \in Got(tab), NEW f \in H, Before(f, e)
      PROVE  f \in Got(tab)
  <2>1. e \in old /\ e \in Frames /\ f \in Frames
    BY DEF Follows, WellFormed, Ordered
  <2>2. f \in old
    BY <1>1, <2>1, BeforeOrders
  <2> QED  BY <1>1, <2>2 DEF Follows
<1> QED  BY <1>1 DEF Follows
-----------------------------------------------------------------------------
(* The buffers and the frames they put on the queues.                      *)

BufferSet ==
    [history : SUBSET Frames, pending : SUBSET Frames, tick : Nat \union {None},
     quarantined : SUBSET Frames, keys : SUBSET (Nat \X Conditions)]
ResultSet == [p : BufferSet, out : Seq(Frames)]

Held(p) == p.history \union p.pending

\* The frames queued are what the prefix grew by since it was old.
Sends(r, old) == r \in ResultSet /\ Continues(r.out, old, r.p.history)

(* Two lists, all of one before all of the other, joined list the union.   *)
LEMMA ListsJoin ==
    ASSUME NEW S, NEW T, NEW s, NEW t, Lists(s, S), Lists(t, T),
           \A x \in S, y \in T : Before(x, y)
    PROVE  Lists(s \o t, S \union T)
<1> DEFINE st == s \o t
<1>1. s \in Seq(S) /\ t \in Seq(T) /\ Len(s) \in Nat /\ Len(t) \in Nat
  BY DEF Lists
<1>2. /\ Len(st) = Len(s) + Len(t)
      /\ \A i \in 1 .. Len(st) : st[i] = IF i <= Len(s) THEN s[i] ELSE t[i - Len(s)]
  BY <1>1
<1>3. \A i \in 1 .. Len(s) : st[i] = s[i] /\ s[i] \in S /\ i \in 1 .. Len(st)
  BY <1>1, <1>2
<1>4. \A i \in 1 .. Len(t) : i + Len(s) \in 1 .. Len(st) /\ st[i + Len(s)] = t[i] /\ t[i] \in T
  BY <1>1, <1>2
<1>5. \A i \in 1 .. Len(st) : i \in 1 .. Len(s) \/ (i > Len(s) /\ i - Len(s) \in 1 .. Len(t))
  BY <1>1, <1>2
<1>6. st \in Seq(S \union T)
  <2>1. s \in Seq(S \union T) /\ t \in Seq(S \union T)
    BY <1>1
  <2> QED  BY <2>1
<1>7. \A e \in S \union T : \E i \in 1 .. Len(st) : st[i] = e
  <2>1. \A e \in S : \E i \in 1 .. Len(st) : st[i] = e
    BY <1>3 DEF Lists
  <2>2. ASSUME NEW e \in T PROVE \E i \in 1 .. Len(st) : st[i] = e
    <3>1. PICK i \in 1 .. Len(t) : t[i] = e
      BY DEF Lists
    <3> QED  BY <1>4, <3>1
  <2> QED  BY <2>1, <2>2
<1>8. ASSUME NEW i \in 1 .. Len(st), NEW j \in 1 .. Len(st), i < j
      PROVE  Before(st[i], st[j])
  <2>1. CASE j <= Len(s)
    <3>1. i \in 1 .. Len(s) /\ j \in 1 .. Len(s)
      BY <1>1, <1>2, <1>8, <2>1
    <3>2. st[i] = s[i] /\ st[j] = s[j]
      BY <3>1, <1>3
    <3> QED  BY <1>8, <3>1, <3>2 DEF Lists
  <2>2. CASE i <= Len(s) /\ j > Len(s)
    <3>1. st[i] \in S /\ st[j] \in T
      BY <1>1, <1>2, <1>5, <2>2
    <3> QED  BY <3>1
  <2>3. CASE i > Len(s)
    <3>1. i - Len(s) \in 1 .. Len(t) /\ j - Len(s) \in 1 .. Len(t) /\ i - Len(s) < j - Len(s)
      BY <1>1, <1>2, <1>5, <1>8, <2>3
    <3>2. st[i] = t[i - Len(s)] /\ st[j] = t[j - Len(s)]
      BY <1>1, <1>2, <1>8, <2>3
    <3> QED  BY <3>1, <3>2 DEF Lists
  <2> QED  BY <1>1, <2>1, <2>2, <2>3
<1> HIDE DEF st
<1>9. Lists(st, S \union T)
  BY <1>6, <1>7, <1>8 DEF Lists
<1> QED  BY <1>9 DEF st

(* What _publish_ui_events does to the buffers.                            *)
LEMMA PublishIs ==
    ASSUME NEW r \in ResultSet, NEW events \in SUBSET Frames
    PROVE  /\ Publish(r, events).p = [r.p EXCEPT !.history = r.p.history \union events]
           /\ Publish(r, events).out = r.out \o Sorted(events \ r.p.history)
           /\ Publish(r, events) = [p |-> Publish(r, events).p, out |-> Publish(r, events).out]
           /\ Publish(r, events).p \in BufferSet
<1>1. r = [p |-> r.p, out |-> r.out] /\ r.p \in BufferSet
  BY DEF ResultSet
<1> DEFINE p2 == [r.p EXCEPT !.history = r.p.history \union events]
           out2 == r.out \o Sorted(events \ r.p.history)
<1>2. Publish(r, events) = [p |-> p2, out |-> out2]
  <2>1. Publish(r, events) = [r EXCEPT !.p = p2, !.out = out2]
    BY <1>1 DEF Publish
  <2> HIDE DEF p2, out2
  <2> QED  BY <1>1, <2>1
<1>3. p2 \in BufferSet
  BY <1>1 DEF BufferSet
<1> QED  BY <1>2, <1>3

(* Publishing frames behind all that was sent continues what was sent.     *)
LEMMA PublishSends ==
    ASSUME NEW r, NEW old, Sends(r, old), NEW events \in SUBSET Frames,
           Ordered(events \ r.p.history),
           \A h \in r.p.history, e \in events \ r.p.history : Before(h, e)
    PROVE  Sends(Publish(r, events), old)
<1> DEFINE new == events \ r.p.history
           H == r.p.history \union events
<1>1. r \in ResultSet /\ old \subseteq r.p.history /\ Lists(r.out, r.p.history \ old)
      /\ \A h \in old, f \in r.p.history \ old : Before(h, f)
  BY DEF Sends, Continues
<1>2. Lists(Sorted(new), new)
  BY SortedLists
<1>3. Lists(r.out \o Sorted(new), (r.p.history \ old) \union new)
  BY <1>1, <1>2, ListsJoin
<1>4. (r.p.history \ old) \union new = H \ old
  BY <1>1
<1>5. /\ Publish(r, events).p = [r.p EXCEPT !.history = H]
      /\ Publish(r, events).out = r.out \o Sorted(new)
      /\ Publish(r, events) = [p |-> Publish(r, events).p, out |-> Publish(r, events).out]
      /\ Publish(r, events).p \in BufferSet
  BY <1>1, PublishIs
<1>6. Publish(r, events).p.history = H
  BY <1>1, <1>5 DEF ResultSet, BufferSet
<1>7. Sorted(new) \in Seq(Frames) /\ r.out \in Seq(Frames)
  BY <1>1, <1>2 DEF Lists, ResultSet
<1>8. r.out \o Sorted(new) \in Seq(Frames)
  BY <1>7
<1>9. Publish(r, events) \in ResultSet
  BY <1>5, <1>8 DEF ResultSet
<1>10. Continues(r.out \o Sorted(new), old, H)
  BY <1>1, <1>3, <1>4 DEF Continues
<1> QED  BY <1>5, <1>6, <1>9, <1>10 DEF Sends

(* What draining a tick does to the buffers.                               *)
LEMMA FlushIs ==
    ASSUME NEW r \in ResultSet
    PROVE  /\ Flush(r).p = [r.p EXCEPT !.history = Held(r.p), !.pending = {}, !.tick = None]
           /\ Flush(r).out = Publish(r, r.p.pending).out
           /\ Flush(r) = [p |-> Flush(r).p, out |-> Flush(r).out]
           /\ Flush(r).p \in BufferSet
<1> DEFINE sent == Publish(r, r.p.pending)
           p2 == [r.p EXCEPT !.history = Held(r.p), !.pending = {}, !.tick = None]
<1>1. r.p \in BufferSet /\ r.p.pending \in SUBSET Frames
  BY DEF ResultSet, BufferSet
<1>2. /\ sent.p = [r.p EXCEPT !.history = Held(r.p)]
      /\ sent = [p |-> sent.p, out |-> sent.out]
  BY <1>1, PublishIs DEF Held
<1>3. Flush(r) = [sent EXCEPT !.p.pending = {}, !.p.tick = None]
  BY DEF Flush
<1> HIDE DEF sent
<1>4. Flush(r) = [p |-> [sent.p EXCEPT !.pending = {}, !.tick = None], out |-> sent.out]
  BY <1>2, <1>3
<1>5. [sent.p EXCEPT !.pending = {}, !.tick = None] = p2
  BY <1>1, <1>2 DEF BufferSet
<1>6. p2 \in BufferSet
  BY <1>1 DEF BufferSet, Held
<1> QED  BY <1>4, <1>5, <1>6 DEF sent

(* Draining a tick that is behind all that was sent continues what was     *)
(* sent.                                                                   *)
LEMMA FlushSends ==
    ASSUME NEW r, NEW old, Sends(r, old), Ordered(r.p.pending \ r.p.history),
           \A h \in r.p.history, e \in r.p.pending \ r.p.history : Before(h, e)
    PROVE  Sends(Flush(r), old)
<1>1. r \in ResultSet /\ r.p.pending \in SUBSET Frames
  BY DEF Sends, ResultSet, BufferSet
<1>2. Sends(Publish(r, r.p.pending), old)
  BY <1>1, PublishSends
<1>3. r.p \in BufferSet
  BY <1>1 DEF ResultSet
<1>4. /\ Flush(r).p = [r.p EXCEPT !.history = Held(r.p), !.pending = {}, !.tick = None]
      /\ Flush(r).out = Publish(r, r.p.pending).out
      /\ Flush(r) = [p |-> Flush(r).p, out |-> Flush(r).out] /\ Flush(r).p \in BufferSet
  BY <1>1, FlushIs
<1>5. Publish(r, r.p.pending).p = [r.p EXCEPT !.history = r.p.history \union r.p.pending]
  BY <1>1, PublishIs
<1>6. Publish(r, r.p.pending).p.history = Held(r.p) /\ Flush(r).p.history = Held(r.p)
  BY <1>3, <1>4, <1>5 DEF BufferSet, Held
<1> QED  BY <1>2, <1>4, <1>6 DEF Sends, ResultSet

Advances(p, e) == p.tick # None /\ e.tick > p.tick

\* The buffers with one more frame held at its tick.
Holding(p, e) == [p EXCEPT !.pending = @ \union {e}, !.tick = e.tick]

(* What holding a new frame of the open tick, or of a later one, does to   *)
(* the buffers.                                                            *)
LEMMA HoldIs ==
    ASSUME NEW r \in ResultSet, NEW e \in Frames,
           e \notin Held(r.p) \union r.p.quarantined,
           r.p.tick # None => r.p.tick <= e.tick
    PROVE  LET drained == IF Advances(r.p, e) THEN Flush(r) ELSE r
           IN  /\ Hold(r, e) = [p |-> Holding(drained.p, e), out |-> drained.out]
               /\ Holding(drained.p, e) \in BufferSet /\ drained.p \in BufferSet
<1>1. e.tick \in Nat /\ r.p.tick \in Nat \union {None} /\ None \notin Nat
  BY FrameNumbers DEF ResultSet, BufferSet, None
<1> DEFINE open == IF r.p.tick = None THEN e.tick ELSE r.p.tick
           drained == IF Advances(r.p, e) THEN Flush(r) ELSE r
<1>2. ~(e.tick < open) /\ (e.tick > open <=> Advances(r.p, e))
  BY <1>1 DEF Advances
<1>3. drained.p \in BufferSet /\ drained = [p |-> drained.p, out |-> drained.out]
  BY FlushIs DEF ResultSet
<1>4. Hold(r, e) = [drained EXCEPT !.p.pending = @ \union {e}, !.p.tick = e.tick]
  BY <1>2 DEF Hold, Held
<1>5. Holding(drained.p, e) \in BufferSet
  <2> HIDE DEF drained
  <2> QED  BY <1>1, <1>3 DEF Holding, BufferSet
<1> HIDE DEF drained
<1>6. Hold(r, e) = [p |-> Holding(drained.p, e), out |-> drained.out]
  BY <1>3, <1>4 DEF Holding
<1> QED  BY <1>3, <1>5, <1>6 DEF drained

(* An event of a tick before the one that is open is set aside.            *)
LEMMA HoldLate ==
    ASSUME NEW r \in ResultSet, NEW e \in Frames,
           e \notin Held(r.p) \union r.p.quarantined, r.p.tick # None, e.tick < r.p.tick
    PROVE  Hold(r, e) = [p |-> [r.p EXCEPT !.quarantined = @ \union {e}], out |-> r.out]
BY DEF Hold, Held, ResultSet
-----------------------------------------------------------------------------
(* The worker and what it has handed over: e is an event of published.     *)

Closing(e) == e.kind \in {"ended", "scored", "promoted"}

Types ==
    /\ worker \in [phase : {"admitted", "ticking", "checkpoint", "ending", "done", "reaped"},
                   tick : Nat, seq : Nat, stack : Seq(BusFrames)]
    /\ runtime \in [status : Conditions, rev : Nat, stop : BOOLEAN]
    /\ calls \in Seq(BusFrames)
    /\ proj \in BufferSet
    /\ published \in SUBSET BusFrames
    /\ late \in [seen : BOOLEAN, token : BOOLEAN]

Emitted ==
    /\ \A e \in published :
         \/ e.tick < worker.tick
         \/ e.tick = worker.tick /\ e.seq < worker.seq
    /\ \A e, f \in published : e.tick = f.tick /\ e.seq = f.seq => e = f
    /\ published # {} => Started \in published
    /\ \A e \in published : e.kind = "started" => e = Started
    /\ \A e \in published : Closing(e) =>
         /\ worker.phase \in {"ending", "done", "reaped"}
         /\ e.tick = worker.tick
    /\ \A e \in published : e.kind = "ended" => e.tick > 0 /\ e.seq > 0
    /\ \A e, f \in published : Closing(e) /\ e.kind = f.kind => e = f
    /\ \A f \in published : f.kind = "scored" =>
         \E d \in published : d.kind = "ended"
    /\ \A f \in published : f.kind = "promoted" =>
         \E e \in published : e.kind = "scored" /\ Before(e, f)

Phased ==
    /\ worker.phase = "admitted" => published = {} /\ worker.tick = 0
    /\ worker.phase \notin {"ticking", "ending"} => worker.stack = <<>>
    /\ worker.phase \in {"ticking", "ending"} => worker.seq > 0
    /\ worker.phase \in {"ticking", "checkpoint", "ending"} => published # {}
    /\ runtime.status = "failed" => published # {}
    /\ worker.phase = "ending" => worker.tick > 0
    /\ Terminal(runtime.status) => worker.phase \in {"ending", "done", "reaped"}
    /\ runtime.status = "failed" => \A e \in published : e.kind # "ended"

Nested ==
    /\ \A i \in DOMAIN worker.stack :
         worker.stack[i] \in published /\ worker.stack[i].tick = worker.tick
    /\ \A i, j \in DOMAIN worker.stack : i < j => worker.stack[i].seq < worker.stack[j].seq
    /\ \A i, j \in DOMAIN worker.stack :
         i < j /\ Closing(worker.stack[i]) => Late(worker.stack[j])
    /\ \A i \in DOMAIN worker.stack : Late(worker.stack[i]) =>
         \E j \in DOMAIN worker.stack : worker.stack[j].kind = "ended"

Queued(q) ==
    /\ \A i \in DOMAIN q : q[i] \in published
    /\ \A i, j \in DOMAIN q : i < j => q[i].tick <= q[j].tick
    /\ \A i, j \in DOMAIN q : q[i] = q[j] => i = j
    /\ \A i \in DOMAIN q, j \in DOMAIN worker.stack : q[i] # worker.stack[j]
    /\ \A i \in DOMAIN q : q[i].kind = "ended" => runtime.status = "ended"

\* What the loop has still to handle.
Coming(q) == ToSet(q) \union ToSet(worker.stack)

WorkerInv(q) == Emitted /\ Phased /\ Nested /\ Queued(q)

-----------------------------------------------------------------------------
(* The loop's buffers p, with the calls q ahead of it.                     *)

Finished(G) == \E e \in G : e.kind = "ended"

Buffered(p, q) ==
    /\ IsFiniteSet(p.history) /\ IsFiniteSet(p.pending)
    /\ BusEvents(Held(p)) \subseteq published
    /\ p.quarantined \subseteq published
    /\ \A e \in Coming(q) : e \notin Held(p) \union p.quarantined
    /\ \A e \in Held(p) : e.tick <= worker.tick
    /\ p.tick = None => p.pending = {}
    /\ p.tick # None =>
         /\ p.tick <= worker.tick
         /\ \A e \in p.pending : e.tick = p.tick
         /\ \A e \in p.history : e.tick <= p.tick

Keyed(p) ==
    /\ \A s \in StatusesOf(Held(p)) :
         /\ <<s.rev, s.status>> \in p.keys
         /\ s.rev <= runtime.rev
         /\ s.rev = runtime.rev => s.status = runtime.status
         /\ Terminal(s.status) => s.rev = runtime.rev
         /\ s.tick > 0 \/ s.seq > 0
    /\ \A s, t \in StatusesOf(Held(p)) :
         \/ s = t
         \/ Before(s, t) /\ s.rev < t.rev
         \/ Before(t, s) /\ t.rev < s.rev
    /\ \A k \in p.keys : \E s \in StatusesOf(Held(p)) : k = <<s.rev, s.status>>

\* Until MATCH_STARTED is handled.
Opening(p, q) ==
    p.history = {} =>
       /\ StatusesOf(p.pending) = {}
       /\ p.tick \in {None, 0}
       /\ published # {} => Started \in Coming(q)

\* Until MATCH_ENDED is: what waits is behind what was sent, ...
Apart(p) ==
    /\ ~Finished(p.pending)
    /\ \A h \in p.history, e \in p.pending : Before(h, e)

InOrder(p, q) ==
    \A e \in Coming(q) :
        \/ p.tick # None /\ e.tick < p.tick
        \/ \A h \in p.history : Before(h, e)

\* ... a tick is under way, ...
Ticking == worker.phase \in {"ticking", "ending"} \/ runtime.status = "ended"

\* ... whose statuses so far are in front of its events, ...
StatusPlaces(p) ==
    Ticking =>
        \A s \in StatusesOf(Held(p)) : s.tick = worker.tick =>
            \/ s.seq = 0
            \/ worker.tick = 0 /\ s \in p.pending

\* ... the score of a draw is not set aside, ...
ScoreKept(p, q) ==
    \A e \in published : e.kind = "scored" =>
        \/ e \in ToSet(worker.stack)
        \/ e \in Held(p)
        \/ \E i \in DOMAIN q :
             q[i] = e /\ \A j \in DOMAIN q : q[j].kind = "ended" => i < j

\* ... and only it and a promotion are queued before MATCH_ENDED, and behind it
\* by the order of the frames.
TerminalLast(p, q) ==
    \A d \in Coming(q) : d.kind = "ended" =>
        /\ \A f \in p.pending : Before(d, f) => Late(f)
        /\ \A i \in DOMAIN q : Before(d, q[i]) /\ ~Late(q[i])
             => \E j \in DOMAIN q : j < i /\ q[j] = d

Running(p, q) ==
    ~Finished(p.history) =>
        Apart(p) /\ InOrder(p, q) /\ StatusPlaces(p) /\ ScoreKept(p, q) /\ TerminalLast(p, q)

\* From MATCH_ENDED on nothing is sent any more.
Closed(p, q) ==
    Finished(p.history) =>
        /\ runtime.status = "ended" /\ <<runtime.rev, "ended">> \in p.keys
        /\ \A e \in Coming(q) : e.tick = worker.tick
        /\ p.tick \in {None, worker.tick}

Sound(p, q) ==
    /\ p \in BufferSet /\ WellFormed(p.history)
    /\ Buffered(p, q) /\ Keyed(p) /\ Opening(p, q) /\ Running(p, q) /\ Closed(p, q)

Commanded ==
    /\ worker.phase = "reaped" => calls = <<>>
    /\ handler = "resumed" =>
         /\ runtime.status # "paused"
         /\ proj.tick = None /\ proj.history # {} /\ ~Finished(proj.history)
         /\ \/ worker.phase = "checkpoint" /\ calls = <<>>
            \/ \A h \in proj.history : h.tick < worker.tick
    /\ runtime.status = "paused" /\ handler = "idle" =>
         worker.phase = "checkpoint" /\ calls = <<>> /\ proj.tick = None

Watched ==
    \A c \in Clients :
        /\ Follows(clients[c].tab, proj.history)
        /\ clients[c].link = "up" => Got(clients[c].tab) = proj.history

Live ==
    /\ session /\ ~late.token
    /\ WorkerInv(calls) /\ Sound(proj, calls) /\ Commanded /\ Watched

Retired ==
    /\ ~session /\ worker.phase = "reaped" /\ worker.stack = <<>> /\ calls = <<>>
    /\ handler # "resumed"
    /\ WellFormed(proj.history)
    /\ \/ \A c \in Clients : Follows(clients[c].tab, proj.history)
       \/ proj.history = {} /\ \A c \in Clients : Fine(clients[c].tab)

ClientTypes ==
    clients \in [Clients -> [link : {"up", "down"}, tab : TabSet]]

Stoppable == runtime \in [status : Conditions, rev : Nat, stop : BOOLEAN]

ProjectionInv ==
    /\ Stoppable
    /\ ~runtime.stop => Types /\ ClientTypes /\ (Live \/ Retired)
-----------------------------------------------------------------------------
(* Facts of the queue and of the frames held.                              *)

(* A published event is a frame of the bus.                                *)
LEMMA BusFacts ==
    ASSUME Types, NEW e \in published
    PROVE  e \in BusFrames /\ e \in Frames /\ e.kind # "status" /\ e.id = 2
BY DEF Types, Frames, BusFrames, BusId

(* An event still to be handled was published, at the worker's tick at     *)
(* the latest.                                                             *)
LEMMA ComingFacts ==
    ASSUME NEW q \in Seq(BusFrames), Types, WorkerInv(q), NEW e \in Coming(q)
    PROVE  e \in published /\ e \in Frames /\ e.tick \in Nat /\ e.tick <= worker.tick
<1>1. e \in published
  BY DEF WorkerInv, Queued, Nested, Coming, ToSet
<1>2. e \in Frames /\ e.tick \in Nat /\ worker.tick \in Nat
  BY <1>1, BusFacts, FrameNumbers DEF Types
<1> QED  BY <1>1, <1>2 DEF WorkerInv, Emitted

(* The places of a queue and of what is left behind its head.              *)
LEMMA TailPlaces ==
    ASSUME NEW q \in Seq(BusFrames), q # <<>>
    PROVE  /\ Tail(q) \in Seq(BusFrames)
           /\ \A i \in DOMAIN Tail(q) : i + 1 \in DOMAIN q /\ Tail(q)[i] = q[i + 1] /\ i \in Nat
           /\ \A i \in DOMAIN q : i \in Nat /\ (i # 1 => i - 1 \in DOMAIN Tail(q) /\ Tail(q)[i - 1] = q[i])
           /\ 1 \in DOMAIN q /\ q[1] = Head(q)
<1>1. Len(q) \in Nat /\ Len(q) # 0 /\ DOMAIN q = 1 .. Len(q)
  OBVIOUS
<1>2. Tail(q) \in Seq(BusFrames) /\ DOMAIN Tail(q) = 1 .. Len(q) - 1
      /\ \A i \in 1 .. Len(q) - 1 : Tail(q)[i] = q[i + 1]
  BY <1>1
<1> QED  BY <1>1, <1>2

(* The oldest call is of the lowest tick still to come, and running it     *)
(* leaves the worker's invariant.                                          *)
LEMMA HeadFacts ==
    ASSUME NEW q \in Seq(BusFrames), q # <<>>, Types, WorkerInv(q)
    PROVE  /\ WorkerInv(Tail(q))
           /\ Head(q) \in Coming(q) /\ Head(q) \notin Coming(Tail(q))
           /\ Coming(q) = Coming(Tail(q)) \union {Head(q)}
           /\ \A e \in Coming(q) : Head(q).tick <= e.tick
<1> DEFINE rest == Tail(q)
           e == Head(q)
<1>1. /\ rest \in Seq(BusFrames)
      /\ \A i \in DOMAIN rest : i + 1 \in DOMAIN q /\ rest[i] = q[i + 1] /\ i \in Nat
      /\ \A i \in DOMAIN q : i \in Nat /\ (i # 1 => i - 1 \in DOMAIN rest /\ rest[i - 1] = q[i])
      /\ 1 \in DOMAIN q /\ q[1] = e
  BY TailPlaces
<1> HIDE DEF rest, e
<1>2. Queued(rest)
  <2>1. \A i \in DOMAIN rest : rest[i] \in published /\ (rest[i].kind = "ended" => runtime.status = "ended")
    BY <1>1 DEF WorkerInv, Queued
  <2>2. \A i, j \in DOMAIN rest : i < j => rest[i].tick <= rest[j].tick
    <3>1. \A i, j \in DOMAIN rest : i < j => i + 1 < j + 1
      BY <1>1
    <3> QED  BY <1>1, <3>1 DEF WorkerInv, Queued
  <2>3. \A i, j \in DOMAIN rest : rest[i] = rest[j] => i = j
    <3>1. \A i, j \in DOMAIN rest : rest[i] = rest[j] => i + 1 = j + 1
      BY <1>1 DEF WorkerInv, Queued
    <3> QED  BY <1>1, <3>1
  <2>4. \A i \in DOMAIN rest, j \in DOMAIN worker.stack : rest[i] # worker.stack[j]
    BY <1>1 DEF WorkerInv, Queued
  <2> QED  BY <2>1, <2>2, <2>3, <2>4 DEF Queued
<1>3. ToSet(q) = ToSet(rest) \union {e}
  BY <1>1 DEF ToSet
<1>4. e \notin ToSet(rest)
  BY <1>1 DEF ToSet, WorkerInv, Queued
<1>5. e \notin ToSet(worker.stack)
  BY <1>1 DEF ToSet, WorkerInv, Queued
<1>6. ASSUME NEW f \in Coming(q) PROVE e.tick <= f.tick
  <2>1. f.tick \in Nat /\ e \in Coming(q) /\ e.tick <= worker.tick /\ e.tick \in Nat
    BY <1>3, ComingFacts DEF Coming
  <2>2. CASE f \in ToSet(worker.stack)
    BY <2>1, <2>2 DEF WorkerInv, Nested, ToSet
  <2>3. CASE f \in ToSet(q)
    <3>1. PICK i \in DOMAIN q : q[i] = f
      BY <2>3 DEF ToSet
    <3>2. i = 1 \/ 1 < i
      BY <1>1
    <3> QED  BY <1>1, <2>1, <3>1, <3>2 DEF WorkerInv, Queued
  <2> QED  BY <2>2, <2>3 DEF Coming
<1> QED  BY <1>2, <1>3, <1>4, <1>5, <1>6 DEF WorkerInv, Coming, rest, e

(* The frames the loop has are ordered: no two share a place.              *)
LEMMA HeldFacts ==
    ASSUME Types, Emitted, NEW p \in BufferSet, NEW q, Buffered(p, q), Keyed(p)
    PROVE  Ordered(Held(p))
<1>1. Held(p) \subseteq Frames
  BY DEF Held, BufferSet
<1>2. IsFiniteSet(Held(p))
  BY FS_Union DEF Held, Buffered
<1>3. ASSUME NEW e \in Held(p), NEW f \in Held(p), e.kind # "status"
      PROVE  e = f \/ Before(e, f) \/ Before(f, e)
  <2>1. e \in published /\ e.id = 2
    BY <1>3, BusFacts DEF Buffered, BusEvents
  <2>2. /\ e.tick \in Nat /\ e.seq \in Nat /\ e.id \in Nat
        /\ f.tick \in Nat /\ f.seq \in Nat /\ f.id \in Nat
    BY <1>1, FrameNumbers
  <2>3. CASE f.kind = "status"
    <3>1. f.id # 2
      BY <1>1, <2>3 DEF Frames, BusFrames, StatusFrames
    <3> QED  BY <2>1, <2>2, <3>1 DEF Before
  <2>4. CASE f.kind # "status"
    <3>1. f \in published
      BY <2>4 DEF Buffered, BusEvents
    <3>2. e.tick = f.tick /\ e.seq = f.seq => e = f
      BY <2>1, <3>1 DEF Emitted
    <3> QED  BY <2>2, <3>2 DEF Before
  <2> QED  BY <2>3, <2>4
<1>4. ASSUME NEW e \in Held(p), NEW f \in Held(p), e.kind = "status", f.kind = "status"
      PROVE  e = f \/ Before(e, f) \/ Before(f, e)
  BY <1>4 DEF Keyed, StatusesOf
<1>5. \A e, f \in Held(p) : e = f \/ Before(e, f) \/ Before(f, e)
  BY <1>3, <1>4
<1> QED  BY <1>1, <1>2, <1>5 DEF Ordered
-----------------------------------------------------------------------------
(* What a call does to the buffers p: q is the queue, the call its head.   *)

(* The score of a draw is still accounted for when the head of the queue   *)
(* is handled.                                                             *)
LEMMA ScoreTail ==
    ASSUME NEW q \in Seq(BusFrames), q # <<>>, NEW p, NEW p2, ScoreKept(p, q),
           Held(p) \subseteq Held(p2), Head(q).kind = "scored" => Head(q) \in Held(p2)
    PROVE  ScoreKept(p2, Tail(q))
<1> DEFINE rest == Tail(q)
<1>1. /\ \A i \in DOMAIN rest : i + 1 \in DOMAIN q /\ rest[i] = q[i + 1] /\ i \in Nat
      /\ \A i \in DOMAIN q : i \in Nat /\ (i # 1 => i - 1 \in DOMAIN rest /\ rest[i - 1] = q[i])
      /\ 1 \in DOMAIN q /\ q[1] = Head(q)
  BY TailPlaces
<1> HIDE DEF rest
<1>2. SUFFICES ASSUME NEW e \in published, e.kind = "scored",
                      e \notin ToSet(worker.stack), e \notin Held(p2)
               PROVE  \E i \in DOMAIN rest :
                        rest[i] = e /\ \A j \in DOMAIN rest : rest[j].kind = "ended" => i < j
  BY DEF ScoreKept, rest
<1>3. PICK i \in DOMAIN q : q[i] = e /\ \A j \in DOMAIN q : q[j].kind = "ended" => i < j
  BY <1>2 DEF ScoreKept
<1>4. i # 1
  BY <1>1, <1>2, <1>3
<1>5. i - 1 \in DOMAIN rest /\ rest[i - 1] = e
  BY <1>1, <1>3, <1>4
<1>6. ASSUME NEW j \in DOMAIN rest, rest[j].kind = "ended" PROVE i - 1 < j
  <2>1. i < j + 1
    BY <1>1, <1>3, <1>6
  <2> QED  BY <1>1, <2>1
<1> QED  BY <1>5, <1>6

(* MATCH_ENDED is still last when an event in front of it is handled.      *)
LEMMA TerminalTail ==
    ASSUME NEW q \in Seq(BusFrames), q # <<>>, NEW p, NEW p2, TerminalLast(p, q),
           Types, WorkerInv(q), Head(q).kind # "ended",
           p2.pending \subseteq p.pending \union {Head(q)}
    PROVE  TerminalLast(p2, Tail(q))
<1> DEFINE rest == Tail(q)
<1>1. /\ \A i \in DOMAIN rest : i + 1 \in DOMAIN q /\ rest[i] = q[i + 1] /\ i \in Nat
      /\ \A i \in DOMAIN q : i \in Nat /\ (i # 1 => i - 1 \in DOMAIN rest /\ rest[i - 1] = q[i])
      /\ 1 \in DOMAIN q /\ q[1] = Head(q)
  BY TailPlaces
<1>2. Coming(rest) \subseteq Coming(q)
  BY HeadFacts
<1> HIDE DEF rest
<1>3. SUFFICES ASSUME NEW d \in Coming(rest), d.kind = "ended"
               PROVE  /\ \A f \in p2.pending : Before(d, f) => Late(f)
                      /\ \A i \in DOMAIN rest : Before(d, rest[i]) /\ ~Late(rest[i])
                           => \E j \in DOMAIN rest : j < i /\ rest[j] = d
  BY DEF TerminalLast, rest
<1>4. d \in Coming(q)
  BY <1>2
<1>5. \A i \in DOMAIN q : Before(d, q[i]) /\ ~Late(q[i]) => \E j \in DOMAIN q : j < i /\ q[j] = d
  BY <1>3, <1>4 DEF TerminalLast
<1>6. Before(d, Head(q)) => Late(Head(q))
  <2> SUFFICES ASSUME Before(d, q[1]), ~Late(q[1]) PROVE FALSE
    BY <1>1
  <2>1. PICK j \in DOMAIN q : j < 1 /\ q[j] = d
    BY <1>1, <1>5
  <2> QED  BY <1>1, <2>1
<1>7. \A f \in p2.pending : Before(d, f) => Late(f)
  BY <1>3, <1>4, <1>6 DEF TerminalLast
<1>8. ASSUME NEW i \in DOMAIN rest, Before(d, rest[i]), ~Late(rest[i])
      PROVE  \E j \in DOMAIN rest : j < i /\ rest[j] = d
  <2>1. PICK j \in DOMAIN q : j < i + 1 /\ q[j] = d
    BY <1>1, <1>5, <1>8
  <2>2. j # 1
    BY <1>1, <1>3, <2>1
  <2>3. j - 1 \in DOMAIN rest /\ rest[j - 1] = d /\ j - 1 < i
    BY <1>1, <2>1, <2>2
  <2> QED  BY <2>3
<1> QED  BY <1>7, <1>8

\* A call whose tick is over.
LEMMA SetAside ==
    ASSUME NEW q \in Seq(BusFrames), q # <<>>, NEW p, Types, WorkerInv(q), Sound(p, q),
           Head(q).kind \in {"game", "scored", "promoted"},
           p.tick # None, Head(q).tick < p.tick
    PROVE  Sound([p EXCEPT !.quarantined = @ \union {Head(q)}], Tail(q))
<1> DEFINE e == Head(q)
           rest == Tail(q)
           p2 == [p EXCEPT !.quarantined = @ \union {e}]
<1>1. /\ e \in Coming(q) /\ e \notin Coming(rest)
      /\ Coming(q) = Coming(rest) \union {e}
  BY HeadFacts
<1>2. e \in published /\ e \in Frames /\ e.tick \in Nat
  BY <1>1, ComingFacts
<1>3. p \in BufferSet
  BY DEF Sound
<1>4. /\ p2.history = p.history /\ p2.pending = p.pending /\ p2.tick = p.tick
      /\ p2.keys = p.keys /\ p2.quarantined = p.quarantined \union {e} /\ p2 \in BufferSet
  BY <1>2, <1>3 DEF BufferSet
<1>5. Held(p2) = Held(p)
  BY <1>4 DEF Held
<1>6. worker.tick \in Nat /\ p.tick \in Nat /\ p.tick <= worker.tick
  BY <1>3 DEF Types, Sound, Buffered, BufferSet
<1> HIDE DEF e, rest, p2
<1>7. Buffered(p2, rest)
  BY <1>1, <1>2, <1>4, <1>5 DEF Sound, Buffered
<1>8. Keyed(p2)
  BY <1>4, <1>5 DEF Sound, Keyed
<1>9. e # Started
  BY DEF e, Started, BusEvent
<1>10. Opening(p2, rest)
  BY <1>1, <1>4, <1>9 DEF Sound, Opening
<1>11. e.kind # "scored"
  BY <1>2, <1>6 DEF WorkerInv, Emitted, Closing, e
<1>12. Running(p2, rest)
  <2> SUFFICES ASSUME ~Finished(p.history)
               PROVE  /\ Apart(p2) /\ InOrder(p2, rest) /\ StatusPlaces(p2)
                      /\ ScoreKept(p2, rest) /\ TerminalLast(p2, rest)
    BY <1>4 DEF Running
  <2>1. Apart(p) /\ InOrder(p, q) /\ StatusPlaces(p) /\ ScoreKept(p, q) /\ TerminalLast(p, q)
    BY DEF Sound, Running
  <2>2. Apart(p2) /\ StatusPlaces(p2)
    BY <2>1, <1>4, <1>5 DEF Apart, StatusPlaces
  <2>3. InOrder(p2, rest)
    BY <2>1, <1>1, <1>4 DEF InOrder
  <2>4. ScoreKept(p2, rest)
    BY <2>1, <1>5, <1>11, ScoreTail DEF e, rest
  <2>5. TerminalLast(p2, rest)
    BY <2>1, <1>4, TerminalTail DEF e, rest
  <2> QED  BY <2>2, <2>3, <2>4, <2>5
<1>13. Closed(p2, rest)
  BY <1>1, <1>4 DEF Sound, Closed
<1>14. Sound(p2, rest)
  BY <1>4, <1>7, <1>8, <1>10, <1>12, <1>13 DEF Sound
<1> QED  BY <1>14 DEF e, rest, p2

\* Before MATCH_STARTED is handled, only calls of tick 0 are.
LEMMA OpeningTick ==
    ASSUME NEW q \in Seq(BusFrames), q # <<>>, NEW p, Types, WorkerInv(q), Sound(p, q),
           p.history = {}
    PROVE  Head(q).tick = 0
<1> DEFINE e == Head(q)
<1>1. e \in Coming(q) /\ \A f \in Coming(q) : e.tick <= f.tick
  BY HeadFacts
<1>2. e \in published /\ e.tick \in Nat
  BY <1>1, ComingFacts
<1>3. Started \in Coming(q)
  BY <1>2 DEF Sound, Opening
<1> QED  BY <1>1, <1>2, <1>3 DEF Started, BusEvent

\* A call of the tick that is open, or that opens one.
LEMMA AddCall ==
    ASSUME NEW q \in Seq(BusFrames), q # <<>>, NEW p, Types, WorkerInv(q), Sound(p, q),
           Head(q).kind \in {"game", "scored", "promoted"},
           p.tick # None => Head(q).tick = p.tick
    PROVE  Sound(Holding(p, Head(q)), Tail(q))
<1> DEFINE e == Head(q)
           rest == Tail(q)
           p2 == Holding(p, e)
<1>1. /\ e \in Coming(q) /\ e \notin Coming(rest)
      /\ Coming(q) = Coming(rest) \union {e}
  BY HeadFacts
<1>2. e \in published /\ e \in Frames /\ e.tick \in Nat /\ e.kind # "status"
      /\ e.tick <= worker.tick
  BY <1>1, ComingFacts, BusFacts
<1>3. p \in BufferSet
  BY DEF Sound
<1>4. /\ p2.history = p.history /\ p2.pending = p.pending \union {e} /\ p2.tick = e.tick
      /\ p2.keys = p.keys /\ p2.quarantined = p.quarantined /\ p2 \in BufferSet
  BY <1>2, <1>3 DEF BufferSet, Holding
<1>5. Held(p2) = Held(p) \union {e} /\ StatusesOf(Held(p2)) = StatusesOf(Held(p))
  BY <1>2, <1>4 DEF Held, StatusesOf
<1>6. e # Started /\ e.kind # "ended" /\ None \notin Nat
  BY DEF Started, BusEvent, None
<1>7. \A h \in p.history : h.tick \in Nat /\ h.tick <= e.tick
  <2> SUFFICES ASSUME NEW h \in p.history PROVE h.tick \in Nat /\ h.tick <= e.tick
    OBVIOUS
  <2>1. h \in Frames /\ h.tick \in Nat /\ h.seq \in Nat /\ worker.tick \in Nat
    BY <1>3, FrameNumbers DEF BufferSet, Types
  <2>2. CASE p.tick # None
    BY <2>1, <2>2 DEF Sound, Buffered
  <2>3. CASE p.tick = None /\ ~Finished(p.history)
    BY <1>1, <1>2, <2>1, <2>3 DEF Sound, Running, InOrder, Before
  <2>4. CASE Finished(p.history)
    BY <1>1, <2>1, <2>4 DEF Sound, Closed, Buffered, Held
  <2> QED  BY <2>2, <2>3, <2>4
<1>8. p.history = {} => e.tick = 0
  BY OpeningTick
<1> HIDE DEF e, rest, p2
<1>9. Buffered(p2, rest)
  <2>1. IsFiniteSet(p2.history) /\ IsFiniteSet(p2.pending)
    <3>1. IsFiniteSet(p.history) /\ IsFiniteSet(p.pending)
      BY DEF Sound, Buffered
    <3>2. IsFiniteSet(p.pending \union {e})
      BY <3>1, FS_AddElement
    <3> QED  BY <1>4, <3>1, <3>2
  <2>2. BusEvents(Held(p2)) \subseteq published /\ p2.quarantined \subseteq published
    BY <1>2, <1>4, <1>5 DEF Sound, Buffered, BusEvents
  <2>3. \A f \in Coming(rest) : f \notin Held(p2) \union p2.quarantined
    BY <1>1, <1>4, <1>5 DEF Sound, Buffered
  <2>4. \A f \in Held(p2) : f.tick <= worker.tick
    BY <1>2, <1>5 DEF Sound, Buffered
  <2>5. p2.tick # None /\ p2.tick <= worker.tick /\ \A f \in p2.history : f.tick <= p2.tick
    BY <1>2, <1>4, <1>6, <1>7
  <2>6. \A f \in p2.pending : f.tick = p2.tick
    BY <1>4 DEF Sound, Buffered, e
  <2> QED  BY <2>1, <2>2, <2>3, <2>4, <2>5, <2>6 DEF Buffered
<1>10. Keyed(p2)
  BY <1>4, <1>5 DEF Sound, Keyed
<1>11. Opening(p2, rest)
  BY <1>1, <1>2, <1>4, <1>6, <1>8 DEF Sound, Opening, StatusesOf
<1>12. Running(p2, rest)
  <2> SUFFICES ASSUME ~Finished(p.history)
               PROVE  /\ Apart(p2) /\ InOrder(p2, rest) /\ StatusPlaces(p2)
                      /\ ScoreKept(p2, rest) /\ TerminalLast(p2, rest)
    BY <1>4 DEF Running
  <2>1. Apart(p) /\ InOrder(p, q) /\ StatusPlaces(p) /\ ScoreKept(p, q) /\ TerminalLast(p, q)
    BY DEF Sound, Running
  <2>2. p.tick = None \/ (e.tick = p.tick /\ p.tick \in Nat)
    BY <1>2 DEF e
  <2>3. \A h \in p.history : Before(h, e)
    BY <1>1, <2>1, <2>2 DEF InOrder
  <2>4. Apart(p2)
    BY <2>1, <2>3, <1>4, <1>6 DEF Apart, Finished
  <2>5. InOrder(p2, rest)
    BY <2>1, <2>2, <1>1, <1>4, <1>6 DEF InOrder
  <2>6. StatusPlaces(p2)
    BY <2>1, <1>4, <1>5 DEF StatusPlaces
  <2>7. ScoreKept(p2, rest)
    BY <2>1, <1>5, ScoreTail DEF e, rest
  <2>8. TerminalLast(p2, rest)
    BY <2>1, <1>4, <1>6, TerminalTail DEF e, rest
  <2> QED  BY <2>4, <2>5, <2>6, <2>7, <2>8
<1>13. Closed(p2, rest)
  BY <1>1, <1>4 DEF Sound, Closed
<1>14. Sound(p2, rest)
  BY <1>3, <1>4, <1>9, <1>10, <1>11, <1>12, <1>13 DEF Sound
<1> QED  BY <1>14 DEF e, rest, p2
\* The tick that was open is sent; every call to come is of a later one, or
\* there is none to come.
LEMMA FlushSound ==
    ASSUME NEW q \in Seq(BusFrames), NEW r, NEW old, Types, WorkerInv(q), Sends(r, old), Sound(r.p, q),
           r.p.history # {}, ~Finished(r.p.history),
           \A e \in Held(r.p) : ~Late(e),
           Ticking => r.p.tick = None \/ r.p.tick < worker.tick,
           \A e \in Coming(q) : r.p.tick # None /\ e.tick > r.p.tick
    PROVE  Sound(Flush(r).p, q) /\ Sends(Flush(r), old)
<1> DEFINE p == r.p
           p2 == Flush(r).p
<1>1. r \in ResultSet /\ p \in BufferSet
  BY DEF Sound, Sends
<1>2. p2 = [p EXCEPT !.history = Held(p), !.pending = {}, !.tick = None] /\ p2 \in BufferSet
  BY <1>1, FlushIs
<1>3. /\ p2.history = Held(p) /\ p2.pending = {} /\ p2.tick = None
      /\ p2.keys = p.keys /\ p2.quarantined = p.quarantined
  BY <1>1, <1>2 DEF BufferSet
<1>4. Ordered(Held(p)) /\ Held(p) \subseteq Frames
  BY <1>1, HeldFacts DEF Sound, WorkerInv, Ordered
<1>5. /\ Apart(p) /\ StatusPlaces(p) /\ ScoreKept(p, q) /\ TerminalLast(p, q)
      /\ Buffered(p, q) /\ Keyed(p)
  BY DEF Sound, Running
<1>6. \A h \in p.history, e \in p.pending : Before(h, e)
  BY <1>5 DEF Apart
<1>7. Sends(Flush(r), old)
  <2>1. Ordered(p.pending \ p.history)
    <3>1. (p.pending \ p.history) \subseteq Held(p)
      BY DEF Held
    <3> QED  BY <1>4, <3>1, FS_Subset DEF Ordered
  <2> QED  BY <1>6, <2>1, FlushSends
<1> HIDE DEF p, p2
<1>8. Held(p2) = Held(p)
  BY <1>3 DEF Held
<1>9. WellFormed(p2.history)
  <2>1. Started \in Held(p)
    BY DEF Sound, WellFormed, Held, p
  <2>2. ASSUME NEW e \in Held(p)
        PROVE  e = Started \/ (e.kind # "started" /\ Before(Started, e))
    <3>1. CASE e \in p.history
      BY <3>1 DEF Sound, WellFormed, p
    <3>2. CASE e \in p.pending
      <4>1. Started \in p.history
        BY DEF Sound, WellFormed, p
      <4>2. Before(Started, e)
        BY <1>6, <3>2, <4>1
      <4>3. e.kind = "started" => e \in published
        BY <1>5 DEF Buffered, BusEvents
      <4>4. e.kind = "started" => e = Started
        BY <4>3 DEF WorkerInv, Emitted
      <4> QED  BY <4>2, <4>4
    <3> QED  BY <3>1, <3>2 DEF Held
  <2>3. ASSUME NEW s \in StatusesOf(Held(p)), NEW t \in StatusesOf(Held(p)), Before(s, t)
        PROVE  s.rev < t.rev /\ ~Terminal(s.status)
    <3>1. s \in Frames /\ t \in Frames
      BY <1>4 DEF StatusesOf
    <3>2. ~Before(s, s) /\ ~Before(t, s)
      BY <2>3, <3>1, BeforeOrders
    <3>3. s.rev < t.rev
      BY <1>5, <2>3, <3>2 DEF Keyed
    <3>4. t.rev <= runtime.rev /\ (Terminal(s.status) => s.rev = runtime.rev)
      BY <1>5 DEF Keyed
    <3>5. s.rev \in Nat /\ t.rev \in Nat
      BY <3>1, FrameNumbers
    <3> QED  BY <3>3, <3>4, <3>5
  <2>4. \A d \in Held(p) : d.kind # "ended"
    BY <1>5 DEF Apart, Finished, Held, p
  <2>5. \A e \in Held(p) : ~Late(e) /\ e.kind # "promoted"
    BY DEF Late, p
  <2>6. WellFormed(Held(p))
    BY <1>4, <2>1, <2>2, <2>3, <2>4, <2>5 DEF WellFormed
  <2> QED  BY <1>3, <2>6
<1>10. Buffered(p2, q)
  <2>1. IsFiniteSet(p2.history) /\ IsFiniteSet(p2.pending)
    BY <1>3, <1>4, FS_EmptySet DEF Ordered
  <2> QED  BY <1>3, <1>5, <1>8, <2>1 DEF Buffered
<1>11. Keyed(p2)
  BY <1>3, <1>5, <1>8 DEF Keyed
<1>12. Opening(p2, q)
  BY <1>3 DEF Opening, Held, p
<1>13. ~Finished(p2.history)
  BY <1>3, <1>5 DEF Apart, Finished, Held, p
<1>14. Running(p2, q)
  <2>1. Apart(p2)
    BY <1>3 DEF Apart, Finished
  <2>2. InOrder(p2, q)
    <3> SUFFICES ASSUME NEW e \in Coming(q), NEW h \in Held(p) PROVE Before(h, e)
      BY <1>3 DEF InOrder
    <3>1. p.tick # None /\ e.tick > p.tick
      BY DEF p
    <3>2. h.tick <= p.tick /\ p.tick \in Nat /\ h.tick \in Nat
      <4>1. h.tick \in Nat
        BY <1>4, FrameNumbers
      <4>2. p.tick \in Nat
        BY <1>1, <3>1 DEF BufferSet, p
      <4> QED  BY <1>5, <3>1, <4>1, <4>2 DEF Buffered, Held
    <3>3. e.tick \in Nat
      BY ComingFacts
    <3> QED  BY <3>1, <3>2, <3>3 DEF Before
  <2>3. StatusPlaces(p2)
    <3> SUFFICES ASSUME Ticking,
                        NEW s \in StatusesOf(Held(p)), s.tick = worker.tick, s \in p.pending
                 PROVE  FALSE
      BY <1>5, <1>8 DEF StatusPlaces
    <3>1. p.tick # None /\ s.tick = p.tick
      BY <1>5 DEF Buffered
    <3>2. worker.tick \in Nat /\ p.tick < worker.tick
      BY <3>1 DEF Types, p
    <3> QED  BY <3>1, <3>2
  <2>4. ScoreKept(p2, q)
    BY <1>5, <1>8 DEF ScoreKept
  <2>5. TerminalLast(p2, q)
    BY <1>3, <1>5 DEF TerminalLast
  <2> QED  BY <2>1, <2>2, <2>3, <2>4, <2>5 DEF Running
<1>15. Closed(p2, q)
  BY <1>13 DEF Closed
<1>16. Sound(p2, q)
  BY <1>2, <1>9, <1>10, <1>11, <1>12, <1>14, <1>15 DEF Sound
<1> QED  BY <1>7, <1>16 DEF p2
\* An event that is neither MATCH_STARTED nor MATCH_ENDED is handled.
LEMMA HoldSound ==
    ASSUME NEW q \in Seq(BusFrames), q # <<>>, NEW r, NEW old, Types, WorkerInv(q),
           Sends(r, old), Sound(r.p, q), Head(q).kind \in {"game", "scored", "promoted"}
    PROVE  Sound(Hold(r, Head(q)).p, Tail(q)) /\ Sends(Hold(r, Head(q)), old)
<1> DEFINE e == Head(q)
           p == r.p
<1>1. e \in Coming(q) /\ \A f \in Coming(q) : e.tick <= f.tick
  BY HeadFacts
<1>2. e \in published /\ e \in Frames /\ e.tick \in Nat /\ e.tick <= worker.tick
  BY <1>1, ComingFacts
<1>3. r \in ResultSet /\ p \in BufferSet /\ r = [p |-> p, out |-> r.out]
  BY DEF Sends, Sound, ResultSet
<1>4. e \notin Held(p) \union p.quarantined
  BY <1>1 DEF Sound, Buffered
<1>5. p.tick \in Nat \union {None} /\ None \notin Nat /\ worker.tick \in Nat
  BY <1>3 DEF BufferSet, None, Types
<1>6. CASE p.tick # None /\ e.tick < p.tick
  <2> DEFINE p2 == [p EXCEPT !.quarantined = @ \union {e}]
  <2>1. Hold(r, e) = [p |-> p2, out |-> r.out]
    BY <1>2, <1>3, <1>4, <1>6, HoldLate
  <2>2. Sound(p2, Tail(q))
    BY <1>6, SetAside
  <2>3. p2.history = p.history /\ p2 \in BufferSet
    BY <1>2, <1>3 DEF BufferSet
  <2> HIDE DEF p2
  <2>4. Sends(Hold(r, e), old)
    BY <2>1, <2>3 DEF Sends, ResultSet
  <2> QED  BY <2>1, <2>2, <2>4
<1>7. CASE p.tick = None \/ e.tick = p.tick
  <2>1. ~Advances(p, e) /\ (p.tick # None => p.tick <= e.tick)
    BY <1>2, <1>5, <1>7 DEF Advances
  <2>2. Hold(r, e) = [p |-> Holding(p, e), out |-> r.out] /\ Holding(p, e) \in BufferSet
    BY <1>2, <1>3, <1>4, <2>1, HoldIs
  <2>3. Sound(Holding(p, e), Tail(q))
    BY <1>7, AddCall
  <2>4. Holding(p, e).history = p.history
    BY <1>3 DEF Holding, BufferSet
  <2>5. Sends(Hold(r, e), old)
    BY <2>2, <2>4 DEF Sends, ResultSet
  <2> QED  BY <2>2, <2>3, <2>5
<1>8. CASE p.tick # None /\ e.tick > p.tick
  <2>1. Advances(p, e) /\ p.tick <= e.tick /\ p.tick < worker.tick /\ p.tick \in Nat
    BY <1>2, <1>5, <1>8 DEF Advances
  <2>2. Hold(r, e) = [p |-> Holding(Flush(r).p, e), out |-> Flush(r).out]
        /\ Holding(Flush(r).p, e) \in BufferSet
    BY <1>2, <1>3, <1>4, <2>1, HoldIs
  <2>3. p.history # {}
    <3> SUFFICES ASSUME p.history = {} PROVE FALSE
      OBVIOUS
    <3>1. e.tick = 0
      BY OpeningTick
    <3> QED  BY <3>1, <2>1, <1>8
  <2>4. ~Finished(p.history)
    <3> SUFFICES ASSUME Finished(p.history) PROVE FALSE
      OBVIOUS
    <3>1. p.tick \in {None, worker.tick}
      BY DEF Sound, Closed
    <3> QED  BY <3>1, <2>1, <1>5
  <2>5. \A f \in Held(p) : ~Late(f)
    <3> SUFFICES ASSUME NEW f \in Held(p), Late(f) PROVE FALSE
      OBVIOUS
    <3>1. f \in published
      BY DEF Sound, Buffered, BusEvents, Late
    <3>2. f.tick = worker.tick
      BY <3>1 DEF WorkerInv, Emitted, Closing, Late
    <3>3. f.tick <= p.tick
      BY <1>8, <2>1 DEF Sound, Buffered, Held
    <3> QED  BY <3>2, <3>3, <2>1, <1>5
  <2>6. \A f \in Coming(q) : f.tick > p.tick
    <3> SUFFICES ASSUME NEW f \in Coming(q) PROVE f.tick > p.tick
      OBVIOUS
    <3>1. e.tick <= f.tick /\ f.tick \in Nat
      BY <1>1, ComingFacts
    <3> QED  BY <3>1, <1>2, <1>8, <2>1
  <2>7. Sound(Flush(r).p, q) /\ Sends(Flush(r), old)
    BY <1>8, <2>1, <2>3, <2>4, <2>5, <2>6, FlushSound
  <2>8. Flush(r).p.tick = None /\ Flush(r).p \in BufferSet
    BY <1>3, FlushIs DEF BufferSet
  <2>9. Sound(Holding(Flush(r).p, e), Tail(q))
    BY <2>7, <2>8, AddCall
  <2>10. Holding(Flush(r).p, e).history = Flush(r).p.history
    BY <2>8 DEF Holding, BufferSet
  <2>11. Sends(Hold(r, e), old)
    BY <2>2, <2>7, <2>10 DEF Sends, ResultSet
  <2> QED  BY <2>2, <2>9, <2>11
<1> QED  BY <1>2, <1>5, <1>6, <1>7, <1>8

-----------------------------------------------------------------------------
(* A status frame.                                                         *)

(* An ordered set of frames that is not empty has a last one.              *)
LEMMA GreatestFrame ==
    ASSUME NEW S, Ordered(S), S # {}
    PROVE  \E x \in S : \A y \in S : y = x \/ Before(y, x)
<1> DEFINE list == Sorted(S)
<1>1. Lists(list, S)
  BY SortedLists
<1> HIDE DEF list
<1>2. Len(list) \in Nat /\ Len(list) # 0 /\ list \in Seq(S)
  BY <1>1 DEF Lists
<1>3. Len(list) \in 1 .. Len(list) /\ list[Len(list)] \in S
  BY <1>2
<1>4. \A y \in S : y = list[Len(list)] \/ Before(y, list[Len(list)])
  <2> SUFFICES ASSUME NEW y \in S PROVE y = list[Len(list)] \/ Before(y, list[Len(list)])
    OBVIOUS
  <2>1. PICK i \in 1 .. Len(list) : list[i] = y
    BY <1>1 DEF Lists
  <2>2. i = Len(list) \/ i < Len(list)
    BY <1>2
  <2> QED  BY <1>1, <1>3, <2>1, <2>2 DEF Lists
<1> QED  BY <1>3, <1>4

\* The sequence of a status is past those of the frames held at its tick.
LEMMA SequenceIsNext ==
    ASSUME NEW p \in BufferSet, Ordered(Held(p)), NEW t \in Nat
    PROVE  /\ RuntimeSequence(p, t) \in Nat
           /\ \A g \in Held(p) : g.tick = t => g.seq < RuntimeSequence(p, t)
           /\ (\A g \in Held(p) : g.tick # t) => RuntimeSequence(p, t) = 0
<1> DEFINE S == {f \in Held(p) : f.tick = t}
           taken == {e.seq : e \in S}
<1>1. RuntimeSequence(p, t) = IF taken = {} THEN 0 ELSE Max(taken) + 1
  BY DEF RuntimeSequence, Held
<1>2. CASE S = {}
  BY <1>1, <1>2
<1>3. CASE S # {}
  <2>1. Ordered(S)
    <3>1. S \subseteq Held(p)
      OBVIOUS
    <3> QED  BY <3>1, FS_Subset DEF Ordered
  <2>2. PICK x \in S : \A y \in S : y = x \/ Before(y, x)
    BY <1>3, <2>1, GreatestFrame
  <2>3. \A y \in S : y.seq \in Nat /\ y.tick = t /\ y.seq <= x.seq
    <3> SUFFICES ASSUME NEW y \in S PROVE y.seq \in Nat /\ y.tick = t /\ y.seq <= x.seq
      OBVIOUS
    <3>1. y \in Frames /\ x \in Frames
      BY <2>1 DEF Ordered
    <3>2. y.seq \in Nat /\ x.seq \in Nat /\ y.tick \in Nat /\ y.id \in Nat /\ x.id \in Nat
      BY <3>1, FrameNumbers
    <3>3. y.tick = t /\ x.tick = t
      OBVIOUS
    <3>4. y = x \/ Before(y, x)
      BY <2>2
    <3> QED  BY <3>2, <3>3, <3>4 DEF Before
  <2> HIDE DEF S
  <2>4. x.seq \in taken /\ \A n \in taken : n \in Nat /\ x.seq >= n
    BY <2>3
  <2>5. Max(taken) \in taken /\ \A n \in taken : Max(taken) >= n
    BY <2>4 DEF Max
  <2>6. Max(taken) \in Nat /\ RuntimeSequence(p, t) = Max(taken) + 1
    BY <1>1, <2>4, <2>5
  <2>7. \A g \in Held(p) : g.tick = t => g.seq \in taken
    BY DEF S
  <2> HIDE DEF taken
  <2>8. \A g \in Held(p) : g.tick = t => g.seq < RuntimeSequence(p, t)
    BY <2>4, <2>5, <2>6, <2>7
  <2> QED  BY <1>3, <2>6, <2>8 DEF S
<1> QED  BY <1>2, <1>3
StatusFrame(t, n, id) ==
    [kind |-> "status", tick |-> t, seq |-> n, id |-> id,
     status |-> runtime.status, rev |-> runtime.rev]

Key == <<runtime.rev, runtime.status>>

\* The buffers with the status held at its tick.
Marked(p, s) == [Holding(p, s) EXCEPT !.keys = @ \union {Key}]

(* The frames a drained tick sends.                                        *)
LEMMA FlushOut ==
    ASSUME NEW r \in ResultSet
    PROVE  Flush(r).out = r.out \o Sorted(r.p.pending \ r.p.history)
<1>1. r.p.pending \in SUBSET Frames
  BY DEF ResultSet, BufferSet
<1> QED  BY <1>1, FlushIs, PublishIs

(* Buffers that agree in every part are the same.                          *)
LEMMA SameBuffers ==
    ASSUME NEW p1 \in BufferSet, NEW p2 \in BufferSet,
           p1.history = p2.history, p1.pending = p2.pending, p1.tick = p2.tick,
           p1.quarantined = p2.quarantined, p1.keys = p2.keys
    PROVE  p1 = p2
BY DEF BufferSet

(* What enqueueing a status that was not told yet does to the buffers.     *)
LEMMA StatusIs ==
    ASSUME NEW r \in ResultSet, Types, NEW t \in Nat, NEW n \in Nat, NEW id \in {0, 1, 3},
           session, Key \notin r.p.keys,
           StatusFrame(t, n, id) \notin Held(r.p) \union r.p.quarantined,
           r.p.tick # None => r.p.tick <= t
    PROVE  LET s == StatusFrame(t, n, id)
               drained == IF Advances(r.p, s) THEN Flush(r) ELSE r
           IN  /\ EnqueueStatus(r, t, n, id) = [p |-> Marked(drained.p, s), out |-> drained.out]
               /\ Marked(drained.p, s) \in BufferSet
<1> DEFINE s == StatusFrame(t, n, id)
           r1 == [r EXCEPT !.p.keys = @ \union {Key}]
           p1 == [r.p EXCEPT !.keys = @ \union {Key}]
           drained == IF Advances(r.p, s) THEN Flush(r) ELSE r
           drained1 == IF Advances(p1, s) THEN Flush(r1) ELSE r1
<1>1. s \in Frames /\ s.tick = t
  BY DEF StatusFrame, Frames, StatusFrames, Types
<1>2. r = [p |-> r.p, out |-> r.out] /\ r.p \in BufferSet /\ r.out \in Seq(Frames)
  BY DEF ResultSet
<1>3. r1 = [p |-> p1, out |-> r.out]
  <2>1. r1 = [r EXCEPT !.p = p1]
    BY <1>2
  <2> HIDE DEF p1
  <2> QED  BY <1>2, <2>1
<1>4. Key \in Nat \X Conditions
  BY DEF Key, Types
<1>5. /\ p1 \in BufferSet /\ p1.history = r.p.history /\ p1.pending = r.p.pending
      /\ p1.tick = r.p.tick /\ p1.quarantined = r.p.quarantined
      /\ p1.keys = r.p.keys \union {Key}
  BY <1>2, <1>4 DEF BufferSet
<1> HIDE DEF p1, s
<1>6. r1 \in ResultSet /\ r1.p = p1
  BY <1>2, <1>3, <1>5 DEF ResultSet
<1>7. EnqueueStatus(r, t, n, id) = Hold(r1, s)
  BY DEF EnqueueStatus, Key, s, StatusFrame
<1>8. /\ Hold(r1, s) = [p |-> Holding(drained1.p, s), out |-> drained1.out]
      /\ Holding(drained1.p, s) \in BufferSet /\ drained1.p \in BufferSet
  <2>1. s \notin Held(r1.p) \union r1.p.quarantined
    BY <1>5, <1>6 DEF Held, s
  <2>2. r1.p.tick # None => r1.p.tick <= s.tick
    BY <1>1, <1>5, <1>6
  <2> HIDE DEF r1
  <2> QED  BY <1>1, <1>6, <2>1, <2>2, HoldIs
<1>9. drained1.out = drained.out /\ drained1.p = [drained.p EXCEPT !.keys = @ \union {Key}]
      /\ drained.p \in BufferSet
  <2>1. Advances(p1, s) <=> Advances(r.p, s)
    BY <1>5 DEF Advances
  <2>2. CASE Advances(r.p, s)
    <3>1. Flush(r).out = r.out \o Sorted(r.p.pending \ r.p.history)
      BY FlushOut
    <3>2. Flush(r1).out = r.out \o Sorted(r.p.pending \ r.p.history)
      <4>1. r1.out = r.out /\ r1.p.pending = r.p.pending /\ r1.p.history = r.p.history
        BY <1>3, <1>5, <1>6
      <4> HIDE DEF r1
      <4> QED  BY <1>6, <4>1, FlushOut
    <3>3. Flush(r).p = [r.p EXCEPT !.history = Held(r.p), !.pending = {}, !.tick = None]
          /\ Flush(r).p \in BufferSet
      BY FlushIs
    <3>4. Flush(r1).p = [p1 EXCEPT !.history = Held(p1), !.pending = {}, !.tick = None]
          /\ Flush(r1).p \in BufferSet
      BY <1>6, FlushIs
    <3>5. Held(p1) = Held(r.p)
      BY <1>5 DEF Held
    <3>6. Flush(r1).p = [Flush(r).p EXCEPT !.keys = @ \union {Key}]
      <4> DEFINE f == Flush(r).p
                 f1 == Flush(r1).p
                 f2 == [f EXCEPT !.keys = @ \union {Key}]
      <4>1. /\ f.history = Held(r.p) /\ f.pending = {} /\ f.tick = None
            /\ f.quarantined = r.p.quarantined /\ f.keys = r.p.keys
        BY <1>2, <3>3 DEF BufferSet
      <4>2. /\ f1.history = Held(r.p) /\ f1.pending = {} /\ f1.tick = None
            /\ f1.quarantined = r.p.quarantined /\ f1.keys = r.p.keys \union {Key}
        BY <1>5, <3>4, <3>5 DEF BufferSet
      <4>3. f \in BufferSet /\ f1 \in BufferSet
        BY <3>3, <3>4
      <4> HIDE DEF f, f1
      <4>4. /\ f2 \in BufferSet /\ f2.history = f.history /\ f2.pending = f.pending
            /\ f2.tick = f.tick /\ f2.quarantined = f.quarantined
            /\ f2.keys = f.keys \union {Key}
        BY <1>4, <4>3 DEF BufferSet
      <4> HIDE DEF f2
      <4>6. /\ f1.history = f2.history /\ f1.pending = f2.pending /\ f1.tick = f2.tick
            /\ f1.quarantined = f2.quarantined /\ f1.keys = f2.keys
        BY <4>1, <4>2, <4>4
      <4>7. f1 \in BufferSet /\ f2 \in BufferSet
        BY <4>3, <4>4
      <4>5. f1 = f2
        BY <4>6, <4>7, SameBuffers
      <4> QED  BY <4>5 DEF f, f1, f2
    <3> QED  BY <2>1, <2>2, <3>1, <3>2, <3>3, <3>6
  <2>3. CASE ~Advances(r.p, s)
    BY <1>2, <1>3, <1>6, <2>1, <2>3 DEF p1
  <2> QED  BY <2>2, <2>3
<1> HIDE DEF drained, drained1
<1>10. Holding(drained1.p, s) = Marked(drained.p, s)
  BY <1>9 DEF Holding, Marked, BufferSet
<1> QED  BY <1>7, <1>8, <1>9, <1>10 DEF drained, s

(* The status of the open tick joins what waits, behind its frames.        *)
LEMMA AddStatus ==
    ASSUME NEW q \in Seq(BusFrames), NEW p, Types, WorkerInv(q), Sound(p, q),
           NEW t \in Nat, NEW n \in Nat, NEW id \in {1, 3}, Key \notin p.keys,
           p.history # {}, ~Finished(p.history), t <= worker.tick,
           p.tick # None => p.tick = t,
           \A g \in Held(p) : g.tick <= t /\ (g.tick = t => g.seq < n),
           Ticking /\ t = worker.tick => n = 0 \/ worker.tick = 0
    PROVE  Sound(Marked(p, StatusFrame(t, n, id)), q)
<1> DEFINE s == StatusFrame(t, n, id)
           p2 == Marked(p, s)
<1>1. p \in BufferSet /\ Buffered(p, q) /\ Keyed(p)
  BY DEF Sound
<1>2. /\ s \in Frames /\ s.kind = "status" /\ s.tick = t /\ s.seq = n
      /\ s.status = runtime.status /\ s.rev = runtime.rev
  BY DEF StatusFrame, Frames, StatusFrames, Types
<1>3. Key \in Nat \X Conditions /\ None \notin Nat
  BY DEF Key, Types, None
<1>4. /\ p2.history = p.history /\ p2.pending = p.pending \union {s} /\ p2.tick = t
      /\ p2.keys = p.keys \union {Key} /\ p2.quarantined = p.quarantined /\ p2 \in BufferSet
  BY <1>1, <1>2, <1>3 DEF BufferSet, Holding, Marked
<1>5. Held(p2) = Held(p) \union {s} /\ StatusesOf(Held(p2)) = StatusesOf(Held(p)) \union {s}
  BY <1>2, <1>4 DEF Held, StatusesOf
<1>6. \A g \in Held(p) : g \in Frames /\ g.tick \in Nat /\ g.seq \in Nat
  BY <1>1, FrameNumbers DEF Held, BufferSet
<1> HIDE DEF s, p2
<1>7. \A g \in Held(p) : Before(g, s)
  BY <1>2, <1>6 DEF Before
<1>8. Started \in Held(p) /\ Started.tick = 0 /\ Started.seq = 0
  BY DEF Sound, WellFormed, Held, Started, BusEvent
<1>9. t > 0 \/ n > 0
  BY <1>8
<1>10. Buffered(p2, q)
  <2>1. IsFiniteSet(p2.history) /\ IsFiniteSet(p2.pending)
    <3>1. IsFiniteSet(p.history) /\ IsFiniteSet(p.pending)
      BY <1>1 DEF Buffered
    <3>2. IsFiniteSet(p.pending \union {s})
      BY <3>1, FS_AddElement
    <3> QED  BY <1>4, <3>1, <3>2
  <2>2. BusEvents(Held(p2)) \subseteq published /\ p2.quarantined \subseteq published
    BY <1>1, <1>2, <1>4, <1>5 DEF Buffered, BusEvents
  <2>3. \A f \in Coming(q) : f \notin Held(p2) \union p2.quarantined
    <3>1. \A f \in Coming(q) : f.kind # "status"
      BY ComingFacts, BusFacts
    <3> QED  BY <1>1, <1>2, <1>4, <1>5, <3>1 DEF Buffered
  <2>4. \A f \in Held(p2) : f.tick <= worker.tick
    BY <1>1, <1>2, <1>5 DEF Buffered
  <2>5. p2.tick # None /\ p2.tick <= worker.tick /\ \A f \in p2.history : f.tick <= p2.tick
    BY <1>3, <1>4 DEF Held
  <2>6. \A f \in p2.pending : f.tick = p2.tick
    BY <1>1, <1>2, <1>4 DEF Buffered
  <2> QED  BY <2>1, <2>2, <2>3, <2>4, <2>5, <2>6 DEF Buffered
<1>11. \A u \in StatusesOf(Held(p)) : Before(u, s) /\ u.rev < s.rev /\ ~Terminal(u.status)
  <2> SUFFICES ASSUME NEW u \in StatusesOf(Held(p))
               PROVE  Before(u, s) /\ u.rev < s.rev /\ ~Terminal(u.status)
    OBVIOUS
  <2>1. u \in Held(p) /\ u.rev \in Nat /\ runtime.rev \in Nat
    BY <1>6, FrameNumbers DEF StatusesOf, Types
  <2>2. u.rev <= runtime.rev /\ u.rev # runtime.rev
    BY <1>1 DEF Keyed, Key
  <2>3. Terminal(u.status) => u.rev = runtime.rev
    BY <1>1 DEF Keyed
  <2> QED  BY <1>2, <1>7, <2>1, <2>2, <2>3
<1>12. Keyed(p2)
  <2>1. \A u \in StatusesOf(Held(p2)) :
          /\ <<u.rev, u.status>> \in p2.keys
          /\ u.rev <= runtime.rev
          /\ u.rev = runtime.rev => u.status = runtime.status
          /\ Terminal(u.status) => u.rev = runtime.rev
          /\ u.tick > 0 \/ u.seq > 0
    <3>1. runtime.rev <= runtime.rev
      BY DEF Types
    <3> QED  BY <1>1, <1>2, <1>4, <1>5, <1>9, <3>1 DEF Keyed, Key
  <2>2. \A u, v \in StatusesOf(Held(p2)) :
          \/ u = v
          \/ Before(u, v) /\ u.rev < v.rev
          \/ Before(v, u) /\ v.rev < u.rev
    BY <1>1, <1>5, <1>11 DEF Keyed
  <2>3. \A k \in p2.keys : \E u \in StatusesOf(Held(p2)) : k = <<u.rev, u.status>>
    BY <1>1, <1>2, <1>4, <1>5 DEF Keyed, Key
  <2> QED  BY <2>1, <2>2, <2>3 DEF Keyed
<1>13. Opening(p2, q)
  BY <1>4 DEF Opening
<1>14. Running(p2, q)
  <2> USE DEF Sound, Running
  <2>1. Apart(p) /\ InOrder(p, q) /\ StatusPlaces(p) /\ ScoreKept(p, q) /\ TerminalLast(p, q)
    OBVIOUS
  <2>2. Apart(p2)
    BY <2>1, <1>2, <1>4, <1>7 DEF Apart, Finished, Held
  <2>3. InOrder(p2, q)
    BY <2>1, <1>3, <1>4 DEF InOrder
  <2>4. StatusPlaces(p2)
    BY <2>1, <1>2, <1>4, <1>5 DEF StatusPlaces
  <2>5. ScoreKept(p2, q)
    BY <2>1, <1>5 DEF ScoreKept
  <2>6. ASSUME NEW d \in Coming(q), d.kind = "ended" PROVE ~Before(d, s)
    <3>1. d \in published /\ d.tick \in Nat /\ d.seq \in Nat /\ worker.tick \in Nat
      BY ComingFacts, FrameNumbers DEF Types
    <3>2. d.tick = worker.tick /\ d.tick > 0 /\ d.seq > 0
      BY <2>6, <3>1 DEF WorkerInv, Emitted, Closing
    <3>3. Ticking
      <4>1. CASE d \in ToSet(q)
        BY <2>6, <4>1 DEF Ticking, WorkerInv, Queued, ToSet
      <4>2. CASE d \in ToSet(worker.stack)
        BY <4>2 DEF Ticking, WorkerInv, Phased, ToSet
      <4> QED  BY <4>1, <4>2 DEF Coming
    <3> QED  BY <1>2, <3>1, <3>2, <3>3 DEF Before
  <2>7. TerminalLast(p2, q)
    BY <2>1, <2>6, <1>4 DEF TerminalLast
  <2> QED  BY <2>2, <2>3, <2>4, <2>5, <2>7, <1>4
<1>15. Closed(p2, q)
  BY <1>4 DEF Closed
<1>16. Sound(p2, q)
  BY <1>4, <1>10, <1>12, <1>13, <1>14, <1>15 DEF Sound
<1> QED  BY <1>16 DEF p2, s

\* A status whose tick no frame held is past.
LEMMA StatusSound ==
    ASSUME NEW q \in Seq(BusFrames), NEW r, NEW old, Types, WorkerInv(q),
           Sends(r, old), Sound(r.p, q), session,
           NEW t \in Nat, NEW id \in {1, 3},
           r.p.history # {}, ~Finished(r.p.history), t <= worker.tick,
           r.p.tick # None => r.p.tick <= t,
           r.p.tick # None /\ r.p.tick < t =>
               Coming(q) = {} /\ ~Ticking /\ \A g \in Held(r.p) : ~Late(g),
           \A g \in Held(r.p) : g.tick <= t,
           Ticking /\ t = worker.tick => worker.tick = 0 \/ \A g \in Held(r.p) : g.tick # t
    PROVE  LET r2 == EnqueueStatus(r, t, RuntimeSequence(r.p, t), id)
           IN  Sound(r2.p, q) /\ Sends(r2, old)
<1> DEFINE p == r.p
           n == RuntimeSequence(p, t)
           s == StatusFrame(t, n, id)
           r2 == EnqueueStatus(r, t, n, id)
<1>1. r \in ResultSet /\ p \in BufferSet /\ Buffered(p, q) /\ Keyed(p)
  BY DEF Sends, Sound
<1>2. Ordered(Held(p))
  BY <1>1, HeldFacts DEF WorkerInv
<1>3. /\ n \in Nat /\ \A g \in Held(p) : g.tick = t => g.seq < n
      /\ (\A g \in Held(p) : g.tick # t) => n = 0
  BY <1>1, <1>2, SequenceIsNext
<1>4. CASE Key \in p.keys
  <2>1. r2 = r
    BY <1>4 DEF EnqueueStatus, Key
  <2> QED  BY <2>1
<1>5. CASE Key \notin p.keys
  <2>1. /\ s.kind = "status" /\ s.tick = t /\ s.rev = runtime.rev /\ s.status = runtime.status
    BY DEF StatusFrame
  <2> HIDE DEF n, s
  <2>2. s \notin Held(p)
    BY <1>1, <1>5, <2>1 DEF Keyed, StatusesOf, Key
  <2>3. s \notin p.quarantined
    BY <1>1, <2>1, BusFacts DEF Buffered
  <2>4. t \in Nat /\ p.tick \in Nat \union {None} /\ None \notin Nat
    BY <1>1 DEF BufferSet, None
  <2> DEFINE drained == IF Advances(p, s) THEN Flush(r) ELSE r
  <2>5. r2 = [p |-> Marked(drained.p, s), out |-> drained.out] /\ Marked(drained.p, s) \in BufferSet
    BY <1>1, <1>3, <1>5, <2>2, <2>3, StatusIs DEF s
  <2>6. Sound(drained.p, q) /\ Sends(drained, old)
    <3>1. CASE Advances(p, s)
      <4>1. p.tick # None /\ p.tick < t
        BY <2>1, <2>4, <3>1 DEF Advances
      <4>2. Sound(Flush(r).p, q) /\ Sends(Flush(r), old)
        BY <4>1, FlushSound
      <4> QED  BY <3>1, <4>2
    <3>2. CASE ~Advances(p, s)
      BY <3>2
    <3> QED  BY <3>1, <3>2
  <2>7. /\ drained.p.history # {} /\ Held(drained.p) = Held(p) /\ drained.p.keys = p.keys
        /\ ~Finished(drained.p.history) /\ (drained.p.tick # None => drained.p.tick = t)
    <3>1. CASE Advances(p, s)
      <4>1. Flush(r).p = [p EXCEPT !.history = Held(p), !.pending = {}, !.tick = None]
        BY <1>1, FlushIs
      <4>2. /\ Flush(r).p.history = Held(p) /\ Flush(r).p.pending = {}
            /\ Flush(r).p.tick = None /\ Flush(r).p.keys = p.keys
        BY <1>1, <4>1 DEF BufferSet
      <4>3. ~Finished(Held(p))
        BY DEF Sound, Running, Apart, Finished, Held
      <4> QED  BY <3>1, <4>2, <4>3 DEF Held
    <3>2. CASE ~Advances(p, s)
      <4>1. p.tick # None => p.tick = t
        BY <2>1, <2>4, <3>2 DEF Advances
      <4> QED  BY <3>2, <4>1
    <3> QED  BY <3>1, <3>2
  <2> HIDE DEF drained
  <2>8. Sound(Marked(drained.p, s), q)
    <3>1. \A g \in Held(drained.p) : g.tick <= t /\ (g.tick = t => g.seq < n)
      BY <1>3, <2>7
    <3>2. Ticking /\ t = worker.tick => n = 0 \/ worker.tick = 0
      BY <1>3
    <3> QED  BY <1>3, <1>5, <2>6, <2>7, <3>1, <3>2, AddStatus DEF s
  <2>9. Marked(drained.p, s).history = drained.p.history
    BY <2>6 DEF Sound, Marked, Holding, BufferSet
  <2> HIDE DEF r2
  <2>10. r2 \in ResultSet
    BY <2>5, <2>6 DEF Sends, ResultSet
  <2>11. Sends(r2, old)
    BY <2>5, <2>6, <2>9, <2>10 DEF Sends
  <2> QED  BY <2>5, <2>8, <2>11 DEF r2, n
<1> QED  BY <1>4, <1>5
-----------------------------------------------------------------------------
(* MATCH_STARTED and MATCH_ENDED.                                          *)

(* Handling MATCH_STARTED sends it at once, as the first frame.            *)
LEMMA StartSound ==
    ASSUME NEW q \in Seq(BusFrames), q # <<>>, NEW r, NEW old, Types, WorkerInv(q),
           Sends(r, old), Sound(r.p, q), Head(q).kind = "started"
    PROVE  LET sent == Publish(r, {Head(q)})
               r1 == [sent EXCEPT !.p.tick = Head(q).tick]
           IN  /\ Sound(r1.p, Tail(q)) /\ Sends(r1, old)
               /\ r1.p.history = {Started} /\ r1.p.tick = 0
               /\ Head(q) = Started
               /\ r1.p.pending = sent.p.pending /\ r1.p.history = sent.p.history
               /\ \A g \in Held(r1.p) : g.tick = 0
<1> DEFINE e == Head(q)
           rest == Tail(q)
           p == r.p
           sent == Publish(r, {e})
           r1 == [sent EXCEPT !.p.tick = e.tick]
           p2 == r1.p
<1>1. e \in Coming(q) /\ e \notin Coming(rest) /\ Coming(q) = Coming(rest) \union {e}
  BY HeadFacts
<1>2. e \in published /\ e \in Frames /\ e = Started
  BY <1>1, ComingFacts DEF WorkerInv, Emitted
<1>3. Started.kind = "started" /\ Started.tick = 0 /\ Started.seq = 0 /\ Started.id = 2
  BY DEF Started, BusEvent, BusId
<1>4. r \in ResultSet /\ p \in BufferSet /\ Buffered(p, q)
  BY DEF Sends, Sound
<1>5. p.history = {}
  <2>1. Started \notin p.history
    BY <1>1, <1>2, <1>4 DEF Buffered, Held
  <2> QED  BY <2>1 DEF Sound, WellFormed
<1>6. StatusesOf(p.pending) = {} /\ p.tick \in {None, 0} /\ Apart(p)
      /\ ScoreKept(p, q) /\ TerminalLast(p, q)
  BY <1>5 DEF Sound, Opening, Running, Finished
<1>7. /\ sent.p = [p EXCEPT !.history = {Started}]
      /\ sent = [p |-> sent.p, out |-> sent.out] /\ sent.p \in BufferSet
  <2>1. {e} \in SUBSET Frames
    BY <1>2
  <2>2. p.history \union {e} = {Started}
    BY <1>2, <1>5
  <2> HIDE DEF e
  <2>3. /\ sent.p = [p EXCEPT !.history = p.history \union {e}]
        /\ sent = [p |-> sent.p, out |-> sent.out] /\ sent.p \in BufferSet
    <3> HIDE DEF p
    <3> QED  BY <1>4, <2>1, PublishIs DEF p
  <2> QED  BY <2>2, <2>3
<1>8. Sends(sent, old)
  <2>1. {e} \in SUBSET Frames /\ {e} \ p.history = {e} /\ IsFiniteSet({e})
    BY <1>2, <1>5, FS_Singleton
  <2>2. Ordered({e})
    BY <2>1 DEF Ordered
  <2> HIDE DEF e
  <2> QED  BY <1>5, <2>1, <2>2, PublishSends
<1> HIDE DEF sent, e
<1>9. r1 = [p |-> [sent.p EXCEPT !.tick = 0], out |-> sent.out]
  BY <1>2, <1>3, <1>7
<1> HIDE DEF r1
<1>10. /\ p2.history = {Started} /\ p2.pending = p.pending /\ p2.tick = 0
       /\ p2.keys = p.keys /\ p2.quarantined = p.quarantined /\ p2 \in BufferSet
       /\ sent.p.history = {Started} /\ sent.p.pending = p.pending
  BY <1>4, <1>7, <1>9 DEF BufferSet
<1>11. Sends(r1, old)
  BY <1>8, <1>9, <1>10 DEF Sends, ResultSet
<1>12. Held(p2) = p.pending \union {Started} /\ Held(p) = p.pending
       /\ StatusesOf(Held(p2)) = {} /\ StatusesOf(Held(p)) = {}
  BY <1>3, <1>5, <1>6, <1>10 DEF Held, StatusesOf
<1>13. \A g \in Held(p2) : g.tick = 0
  BY <1>3, <1>4, <1>6, <1>12 DEF Buffered
<1>14. ASSUME NEW f \in published, f # Started PROVE Before(Started, f)
  <2>1. f.tick # 0 \/ f.seq # 0
    BY <1>2, <1>3, <1>14, BusFacts, FrameNumbers DEF WorkerInv, Emitted
  <2>2. f.tick \in Nat /\ f.seq \in Nat
    BY BusFacts, FrameNumbers
  <2> QED  BY <1>3, <2>1, <2>2 DEF Before
<1>15. WellFormed(p2.history)
  <2>1. IsFiniteSet({Started}) /\ {Started} \subseteq Frames
    BY <1>2, FS_Singleton
  <2> QED  BY <1>3, <1>10, <2>1 DEF WellFormed, Ordered, StatusesOf, Late
<1>16. Buffered(p2, rest)
  <2>1. IsFiniteSet(p2.history) /\ IsFiniteSet(p2.pending)
    <3>1. IsFiniteSet({Started}) /\ IsFiniteSet(p.pending)
      BY <1>4, FS_Singleton DEF Buffered
    <3> QED  BY <1>10, <3>1
  <2>2. BusEvents(Held(p2)) \subseteq published /\ p2.quarantined \subseteq published
    BY <1>2, <1>4, <1>10, <1>12 DEF Buffered, BusEvents
  <2>3. \A f \in Coming(rest) : f \notin Held(p2) \union p2.quarantined
    BY <1>1, <1>2, <1>4, <1>10, <1>12 DEF Buffered
  <2>4. worker.tick \in Nat /\ 0 # None
    BY DEF Types, None
  <2>5. \A f \in Held(p2) : f.tick <= worker.tick /\ f.tick = p2.tick /\ f.tick <= p2.tick
    BY <1>10, <1>13, <2>4
  <2>6. p2.tick # None /\ p2.tick <= worker.tick
    BY <1>10, <2>4
  <2> QED  BY <2>1, <2>2, <2>3, <2>5, <2>6 DEF Buffered, Held
<1>17. Keyed(p2)
  BY <1>10, <1>12 DEF Sound, Keyed
<1>18. Running(p2, rest)
  <2>1. Apart(p2)
    <3>1. \A f \in p.pending : f \in published /\ f # Started
      BY <1>1, <1>2, <1>4, <1>6, <1>12 DEF Buffered, BusEvents, StatusesOf
    <3> QED  BY <1>6, <1>10, <1>14, <3>1 DEF Apart
  <2>2. InOrder(p2, rest)
    <3>1. \A f \in Coming(rest) : f \in published /\ f # Started
      BY <1>1, <1>2, ComingFacts
    <3> QED  BY <1>10, <1>14, <3>1 DEF InOrder
  <2>3. StatusPlaces(p2)
    BY <1>12 DEF StatusPlaces
  <2>4. ScoreKept(p2, rest)
    BY <1>6, <1>12, ScoreTail
  <2>5. TerminalLast(p2, rest)
    BY <1>6, <1>10, TerminalTail
  <2> QED  BY <2>1, <2>2, <2>3, <2>4, <2>5 DEF Running
<1>19. Sound(p2, rest)
  <2>1. p2.history # {} /\ ~Finished(p2.history)
    BY <1>3, <1>10 DEF Finished
  <2> QED  BY <1>10, <1>15, <1>16, <1>17, <1>18, <2>1 DEF Sound, Opening, Closed
<1> QED  BY <1>2, <1>10, <1>11, <1>13, <1>19 DEF r1, sent, e

\* The status that goes before MATCH_ENDED d, unless it is there already.
TerminalStatus(p, d) ==
    IF Key \in p.keys THEN {} ELSE {StatusFrame(d.tick, d.seq, TerminalId)}

(* What is known when the loop comes to MATCH_ENDED.                       *)
LEMMA EndFacts ==
    ASSUME NEW q \in Seq(BusFrames), q # <<>>, NEW p, Types, WorkerInv(q), Sound(p, q),
           Head(q).kind = "ended"
    PROVE  LET d == Head(q) IN
           /\ d \in published /\ d.tick = worker.tick /\ d.tick > 0 /\ d.seq > 0
           /\ d.tick \in Nat /\ d.seq \in Nat /\ d \in Frames /\ d.id = 2
           /\ d \in Coming(q) /\ d \notin Coming(Tail(q))
           /\ d \notin Held(p) \union p.quarantined
           /\ runtime.status = "ended" /\ Ticking
           /\ ~Finished(p.history)
           /\ p.tick # None => p.tick <= d.tick
           /\ \A h \in p.history : Before(h, d)
           /\ \A f \in Held(p) : ~Before(d, f) \/ Late(f)
           /\ \A s \in StatusesOf(Held(p)) : s.tick < d.tick \/ (s.tick = d.tick /\ s.seq = 0)
<1> DEFINE d == Head(q)
<1>1. d \in Coming(q) /\ d \notin Coming(Tail(q)) /\ 1 \in DOMAIN q /\ q[1] = d
  BY HeadFacts, TailPlaces
<1>2. d \in published /\ d \in Frames /\ d.tick \in Nat /\ d.seq \in Nat /\ d.id = 2
  BY <1>1, ComingFacts, FrameNumbers, BusFacts
<1>3. d.tick = worker.tick /\ d.tick > 0 /\ d.seq > 0
  BY <1>2 DEF WorkerInv, Emitted, Closing
<1>4. runtime.status = "ended" /\ Ticking
  BY <1>1 DEF WorkerInv, Queued, Ticking
<1>5. p \in BufferSet /\ Buffered(p, q)
  BY DEF Sound
<1>6. d \notin Held(p) \union p.quarantined
  BY <1>1, <1>5 DEF Buffered
<1>7. ~Finished(p.history)
  <2> SUFFICES ASSUME NEW f \in p.history, f.kind = "ended" PROVE FALSE
    BY DEF Finished
  <2>1. f \in published
    BY <1>5 DEF Buffered, BusEvents, Held
  <2>2. f = d
    BY <1>2, <2>1 DEF WorkerInv, Emitted, Closing
  <2> QED  BY <1>6, <2>2 DEF Held
<1>8. p.tick # None => p.tick <= d.tick
  BY <1>3, <1>5 DEF Buffered
<1>9. Apart(p) /\ InOrder(p, q) /\ StatusPlaces(p) /\ TerminalLast(p, q)
  BY <1>7 DEF Sound, Running
<1>10. p.tick # None => ~(d.tick < p.tick)
  BY <1>2, <1>5, <1>8 DEF BufferSet
<1>11. \A h \in p.history : Before(h, d)
  BY <1>1, <1>9, <1>10 DEF InOrder
<1>12. ASSUME NEW f \in Held(p), Before(d, f) PROVE Late(f)
  <2>1. f \in Frames
    BY <1>5 DEF Held, BufferSet
  <2>2. CASE f \in p.history
    BY <1>2, <1>11, <1>12, <2>1, <2>2, BeforeOrders
  <2>3. CASE f \in p.pending
    BY <1>1, <1>9, <1>12, <2>3 DEF TerminalLast
  <2> QED  BY <2>2, <2>3 DEF Held
<1>13. ASSUME NEW s \in StatusesOf(Held(p)), ~(s.tick < d.tick)
       PROVE  s.tick = d.tick /\ s.seq = 0
  <2>1. s \in Held(p) /\ s.tick \in Nat
    BY <1>5, FrameNumbers DEF StatusesOf, Held, BufferSet
  <2>2. s.tick = worker.tick
    BY <1>2, <1>3, <1>5, <1>13, <2>1 DEF Buffered
  <2> QED  BY <1>3, <1>4, <1>9, <2>2 DEF StatusPlaces
<1> HIDE DEF d
<1> QED  BY <1>1, <1>2, <1>3, <1>4, <1>6, <1>7, <1>8, <1>11, <1>12, <1>13 DEF d
(* The terminal status stands in front of MATCH_ENDED and behind every     *)
(* other status.                                                           *)
LEMMA EndStatus ==
    ASSUME NEW q \in Seq(BusFrames), q # <<>>, NEW p, Types, WorkerInv(q), Sound(p, q),
           Head(q).kind = "ended", NEW s \in TerminalStatus(p, Head(q))
    PROVE  /\ s \in Frames /\ s.kind = "status" /\ s.status = "ended" /\ s.rev = runtime.rev
           /\ s.tick = Head(q).tick /\ s.seq = Head(q).seq /\ s.id = 0
           /\ s = StatusFrame(Head(q).tick, Head(q).seq, 0) /\ Key \notin p.keys
           /\ s \notin Held(p) \union p.quarantined
           /\ Before(s, Head(q))
           /\ \A u \in StatusesOf(Held(p)) : Before(u, s) /\ u.rev < s.rev /\ ~Terminal(u.status)
           /\ \A h \in p.history : Before(h, s)
<1> DEFINE d == Head(q)
<1>1. /\ d \in published /\ d.tick > 0 /\ d.seq > 0 /\ d.id = 2
      /\ d.tick \in Nat /\ d.seq \in Nat /\ d \in Frames /\ runtime.status = "ended"
      /\ \A h \in p.history : Before(h, d)
      /\ \A u \in StatusesOf(Held(p)) : u.tick < d.tick \/ (u.tick = d.tick /\ u.seq = 0)
  BY EndFacts
<1> HIDE DEF d
<1>2. Key \notin p.keys /\ s = StatusFrame(d.tick, d.seq, 0)
  BY DEF TerminalStatus, TerminalId, d
<1>3. /\ s \in Frames /\ s.kind = "status" /\ s.status = "ended" /\ s.rev = runtime.rev
      /\ s.tick = d.tick /\ s.seq = d.seq /\ s.id = 0
  BY <1>1, <1>2 DEF StatusFrame, Frames, StatusFrames, Types
<1>4. p \in BufferSet /\ Buffered(p, q) /\ Keyed(p)
  BY DEF Sound
<1>5. s \notin Held(p) \union p.quarantined
  <2>1. s \notin p.quarantined
    BY <1>3, <1>4, BusFacts DEF Buffered
  <2>2. s \notin Held(p)
    BY <1>2, <1>3, <1>4 DEF Keyed, StatusesOf, Key, StatusFrame
  <2> QED  BY <2>1, <2>2
<1>6. Before(s, d)
  BY <1>1, <1>3 DEF Before
<1>7. ASSUME NEW u \in StatusesOf(Held(p))
      PROVE  Before(u, s) /\ u.rev < s.rev /\ ~Terminal(u.status)
  <2>1. u \in Frames /\ u.rev \in Nat /\ u.tick \in Nat /\ u.seq \in Nat /\ runtime.rev \in Nat
    BY <1>4, FrameNumbers DEF StatusesOf, Held, BufferSet, Types
  <2>2. u.rev <= runtime.rev /\ u.rev # runtime.rev /\ (Terminal(u.status) => u.rev = runtime.rev)
    BY <1>2, <1>4 DEF Keyed, Key
  <2>3. Before(u, s)
    BY <1>1, <1>3, <2>1 DEF Before
  <2> QED  BY <1>3, <2>1, <2>2, <2>3
<1>8. ASSUME NEW h \in p.history PROVE Before(h, s)
  <2>1. h \in Frames /\ h.tick \in Nat /\ h.seq \in Nat /\ h.id \in Nat
    BY <1>4, FrameNumbers DEF BufferSet
  <2>2. CASE h.kind = "status"
    BY <1>7, <2>2 DEF StatusesOf, Held
  <2>3. CASE h.kind # "status"
    <3>1. h.id = 2
      BY <2>1, <2>3 DEF Frames, BusFrames, StatusFrames, BusId
    <3>2. Before(h, d)
      BY <1>1
    <3> QED  BY <1>1, <1>3, <2>1, <3>1, <3>2 DEF Before
  <2> QED  BY <2>2, <2>3
<1> QED  BY <1>2, <1>3, <1>5, <1>6, <1>7, <1>8 DEF d

\* The prefix with the terminal at its end.
LEMMA EndPrefix ==
    ASSUME NEW q \in Seq(BusFrames), q # <<>>, NEW p, Types, WorkerInv(q), Sound(p, q),
           Head(q).kind = "ended"
    PROVE  WellFormed(Held(p) \union TerminalStatus(p, Head(q)) \union {Head(q)})
<1> DEFINE d == Head(q)
           X == TerminalStatus(p, d)
           G == Held(p)
           All == G \union X \union {d}
<1>1. /\ d \in published /\ d.tick = worker.tick /\ d.tick > 0 /\ d.seq > 0
      /\ d.tick \in Nat /\ d.seq \in Nat /\ d \in Frames /\ d.id = 2
      /\ d \in Coming(q) /\ d \notin G /\ runtime.status = "ended"
      /\ ~Finished(p.history)
      /\ \A h \in p.history : Before(h, d)
      /\ \A f \in G : ~Before(d, f) \/ Late(f)
      /\ \A s \in StatusesOf(G) : s.tick < d.tick \/ (s.tick = d.tick /\ s.seq = 0)
  BY EndFacts
<1>2. \A s \in X :
        /\ s \in Frames /\ s.kind = "status" /\ s.status = "ended" /\ s.rev = runtime.rev
        /\ Before(s, d) /\ s.tick = d.tick /\ s.seq = d.seq /\ s.id = 0
        /\ \A u \in StatusesOf(G) : Before(u, s) /\ u.rev < s.rev /\ ~Terminal(u.status)
  BY EndStatus
<1>3. \A s, u \in X : s = u
  BY DEF TerminalStatus
<1>4. p \in BufferSet /\ Buffered(p, q) /\ Keyed(p) /\ Apart(p) /\ ScoreKept(p, q)
  BY <1>1 DEF Sound, Running
<1>5. Ordered(G) /\ G \subseteq Frames /\ IsFiniteSet(G)
  BY <1>4, HeldFacts DEF WorkerInv, Ordered
<1>6. d.kind = "ended"
  OBVIOUS
<1>7. Key \in p.keys => \E s \in StatusesOf(G) : s.rev = runtime.rev /\ s.status = "ended"
  BY <1>1, <1>4 DEF Keyed, Key
<1>8. IsFiniteSet(X)
  BY FS_Singleton, FS_EmptySet DEF TerminalStatus
<1>9. Key \in p.keys \/ X = {StatusFrame(d.tick, d.seq, TerminalId)}
  BY DEF TerminalStatus
<1> HIDE DEF d, X
<1>10. \A f \in G : f.kind = "status" \/ f \in published
  BY <1>4 DEF Buffered, BusEvents
<1>11. Ordered(All)
  <2>1. All \subseteq Frames
    BY <1>1, <1>2, <1>5
  <2>2. IsFiniteSet(All)
    BY <1>5, <1>8, FS_Union, FS_AddElement
  <2>3. ASSUME NEW f \in G PROVE Before(f, d) \/ Before(d, f)
    <3>1. f \in Frames /\ f.tick \in Nat /\ f.seq \in Nat /\ f.id \in Nat
      BY <1>5, FrameNumbers
    <3>2. CASE f.kind = "status"
      <4>1. f.id # 2
        BY <3>1, <3>2 DEF Frames, BusFrames, StatusFrames
      <4> QED  BY <1>1, <3>1, <4>1 DEF Before
    <3>3. CASE f.kind # "status"
      <4>1. f \in published /\ f # d
        BY <1>1, <1>10, <3>3
      <4>2. ~(f.tick = d.tick /\ f.seq = d.seq)
        BY <1>1, <4>1 DEF WorkerInv, Emitted
      <4> QED  BY <1>1, <3>1, <4>2 DEF Before
    <3> QED  BY <3>2, <3>3
  <2>4. ASSUME NEW f \in G, NEW s \in X PROVE Before(f, s) \/ Before(s, f)
    <3>1. f \in Frames /\ f.tick \in Nat /\ f.seq \in Nat /\ f.id \in Nat
      BY <1>5, FrameNumbers
    <3>2. CASE f.kind = "status"
      BY <1>2, <3>2 DEF StatusesOf
    <3>3. CASE f.kind # "status"
      <4>1. f.id = 2
        BY <3>1, <3>3 DEF Frames, BusFrames, StatusFrames, BusId
      <4> QED  BY <1>1, <1>2, <3>1, <4>1 DEF Before
    <3> QED  BY <3>2, <3>3
  <2>5. \A e, f \in All : e = f \/ Before(e, f) \/ Before(f, e)
    BY <1>2, <1>3, <1>5, <2>3, <2>4 DEF Ordered
  <2> QED  BY <2>1, <2>2, <2>5 DEF Ordered
<1>12. Started \in p.history /\ Started.kind = "started" /\ Started.tick = 0
  <2>1. p.history # {}
    <3> SUFFICES ASSUME p.history = {} PROVE FALSE
      OBVIOUS
    <3>1. d.tick = 0
      BY OpeningTick DEF d
    <3> QED  BY <3>1, <1>1
  <2> QED  BY <2>1 DEF Sound, WellFormed, Started, BusEvent
<1>13. ASSUME NEW e \in All
       PROVE  e = Started \/ (e.kind # "started" /\ Before(Started, e))
  <2>1. CASE e \in X
    BY <1>1, <1>2, <1>12, <2>1 DEF Before
  <2>2. CASE e = d
    BY <1>1, <1>6, <1>12, <2>2 DEF Before
  <2>3. CASE e \in p.history
    BY <2>3 DEF Sound, WellFormed
  <2>4. CASE e \in p.pending
    <3>1. Before(Started, e)
      BY <1>4, <1>12, <2>4 DEF Apart
    <3>2. e.kind = "started" => e \in published
      BY <1>10, <2>4 DEF Held
    <3> QED  BY <3>1, <3>2 DEF WorkerInv, Emitted
  <2> QED  BY <2>1, <2>2, <2>3, <2>4 DEF Held
<1>14. ASSUME NEW s \in StatusesOf(All), NEW t \in StatusesOf(All), Before(s, t)
       PROVE  s.rev < t.rev /\ ~Terminal(s.status)
  <2>1. s \in Frames /\ t \in Frames /\ ~Before(s, s) /\ ~Before(t, s)
    BY <1>11, <1>14, BeforeOrders DEF StatusesOf, Ordered
  <2>2. s \in StatusesOf(G) \union X /\ t \in StatusesOf(G) \union X
    BY <1>6 DEF StatusesOf
  <2>3. CASE t \in X
    BY <1>2, <1>3, <1>14, <2>1, <2>2, <2>3
  <2>4. CASE s \in X /\ t \in StatusesOf(G)
    BY <1>2, <2>1, <2>4
  <2>5. CASE s \in StatusesOf(G) /\ t \in StatusesOf(G)
    <3>1. s.rev < t.rev
      BY <1>4, <1>14, <2>1, <2>5 DEF Keyed
    <3>2. t.rev <= runtime.rev /\ (Terminal(s.status) => s.rev = runtime.rev)
      BY <1>4, <2>5 DEF Keyed
    <3>3. s.rev \in Nat /\ t.rev \in Nat
      BY <2>1, FrameNumbers
    <3> QED  BY <3>1, <3>2, <3>3
  <2> QED  BY <2>2, <2>3, <2>4, <2>5
<1>15. ASSUME NEW e \in All, e.kind = "ended" PROVE e = d
  <2>1. CASE e \in G
    BY <1>1, <1>4, <1>15, <2>1 DEF Finished, Apart, Held
  <2> QED  BY <1>2, <1>15, <2>1
<1>16. \E s \in StatusesOf(All) : Terminal(s.status) /\ Before(s, d)
  <2>1. CASE X # {}
    BY <1>2, <2>1 DEF StatusesOf, Terminal
  <2>2. CASE X = {}
    <3>1. PICK s \in StatusesOf(G) : s.rev = runtime.rev /\ s.status = "ended"
      BY <1>7, <1>9, <2>2
    <3>2. s \in Frames /\ s.tick \in Nat /\ s.seq \in Nat
      BY <1>5, FrameNumbers DEF StatusesOf
    <3>3. Before(s, d)
      BY <1>1, <3>2 DEF Before
    <3> QED  BY <3>1, <3>3 DEF StatusesOf, Terminal
  <2> QED  BY <2>1, <2>2
<1>17. ASSUME NEW f \in All, Before(d, f) PROVE Late(f)
  <2>1. CASE f \in G
    BY <1>1, <1>17, <2>1
  <2>2. CASE f \in X \union {d}
    BY <1>1, <1>2, <1>17, <2>2, BeforeOrders
  <2> QED  BY <2>1, <2>2
<1>18. \A e, f \in All : e.kind = f.kind /\ Late(e) => e = f
  <2>1. \A e \in All : Late(e) => e \in published
    BY <1>1, <1>2, <1>10 DEF Late
  <2> QED  BY <2>1 DEF WorkerInv, Emitted, Closing, Late
<1>19. ASSUME NEW f \in All, f.kind = "promoted" PROVE \E e \in All : e.kind = "scored" /\ Before(e, f)
  <2>1. f \in published
    BY <1>1, <1>2, <1>10, <1>19
  <2>2. PICK e \in published : e.kind = "scored" /\ Before(e, f)
    BY <1>19, <2>1 DEF WorkerInv, Emitted
  <2>3. e \notin ToSet(worker.stack)
    <3> SUFFICES ASSUME NEW i \in DOMAIN worker.stack, worker.stack[i] = e PROVE FALSE
      BY DEF ToSet
    <3>1. PICK j \in DOMAIN worker.stack : worker.stack[j].kind = "ended"
      BY <2>2 DEF WorkerInv, Nested, Late
    <3>2. worker.stack[j] \in published
      BY DEF WorkerInv, Nested
    <3>3. worker.stack[j] = d
      BY <1>1, <1>6, <3>1, <3>2 DEF WorkerInv, Emitted, Closing
    <3>4. 1 \in DOMAIN q /\ q[1] = d
      BY TailPlaces DEF d
    <3> QED  BY <3>3, <3>4 DEF WorkerInv, Queued
  <2>4. ~ \E i \in DOMAIN q : q[i] = e /\ \A j \in DOMAIN q : q[j].kind = "ended" => i < j
    <3> SUFFICES ASSUME NEW i \in DOMAIN q, \A j \in DOMAIN q : q[j].kind = "ended" => i < j
                 PROVE  FALSE
      OBVIOUS
    <3>1. 1 \in DOMAIN q /\ q[1] = d /\ i \in 1 .. Len(q)
      BY TailPlaces DEF d
    <3> QED  BY <1>6, <3>1
  <2>5. e \in G
    BY <1>4, <2>2, <2>3, <2>4 DEF ScoreKept
  <2> QED  BY <2>2, <2>5
<1>20. Started \in All
  BY <1>12 DEF Held
<1> HIDE DEF All
<1>21. WellFormed(All)
  BY <1>11, <1>13, <1>14, <1>15, <1>16, <1>17, <1>18, <1>19, <1>20 DEF WellFormed
<1> QED  BY <1>21 DEF All, X, d
\* The terminal and its status are sent with what waited.
LEMMA EndSends ==
    ASSUME NEW q \in Seq(BusFrames), q # <<>>, NEW r, NEW old, Types, WorkerInv(q), session,
           Sends(r, old), Sound(r.p, q), Head(q).kind = "ended"
    PROVE  LET r2 == EnqueueEnded(r, Head(q))
           IN  /\ Sends(r2, old) /\ r2.p \in BufferSet
               /\ r2.p.history = Held(r.p) \union TerminalStatus(r.p, Head(q)) \union {Head(q)}
               /\ r2.p.pending = {} /\ r2.p.tick = None
               /\ r2.p.quarantined = r.p.quarantined
               /\ r2.p.keys = r.p.keys \union {Key}
<1> DEFINE d == Head(q)
           p == r.p
           X == TerminalStatus(p, d)
           All == Held(p) \union X \union {d}
           drained == IF Advances(p, d) THEN Flush(r) ELSE r
           r1 == EnqueueStatus(r, d.tick, d.seq, TerminalId)
           r2 == Hold(r1, d)
           r3 == Flush(r2)
           P1 == drained.p.pending \union X \union {d}
<1>1. /\ d \in published /\ d.tick \in Nat /\ d.seq \in Nat /\ d \in Frames
      /\ d \notin Held(p) \union p.quarantined
      /\ ~Finished(p.history)
      /\ p.tick # None => p.tick <= d.tick
      /\ \A h \in p.history : Before(h, d)
  BY EndFacts
<1>2. \A s \in X :
        /\ s \in Frames /\ s.kind = "status" /\ s.tick = d.tick
        /\ s = StatusFrame(d.tick, d.seq, 0) /\ Key \notin p.keys
        /\ s \notin Held(p) \union p.quarantined
        /\ \A h \in p.history : Before(h, s)
  BY EndStatus
<1>3. WellFormed(All)
  BY EndPrefix
<1>4. r \in ResultSet /\ p \in BufferSet /\ Buffered(p, q) /\ Keyed(p) /\ Apart(p)
  BY <1>1 DEF Sends, Sound, Running
<1>5. /\ p.tick \in Nat \union {None} /\ None \notin Nat
      /\ p.tick # None => ~(d.tick < p.tick)
  BY <1>1, <1>4 DEF BufferSet, None
<1>6. EnqueueEnded(r, d) = r3
  BY <1>1, <1>4, <1>5 DEF EnqueueEnded, BufferSet
<1>7. d.kind = "ended"
  OBVIOUS
<1>8. Ordered(Held(p))
  BY <1>4, HeldFacts DEF WorkerInv
<1> HIDE DEF d, p
<1>9. \A h \in p.history, e \in p.pending : Before(h, e)
  BY <1>4 DEF Apart
<1>10. Sends(drained, old) /\ drained.p \in BufferSet
  <2>1. CASE Advances(p, d)
    <3>1. Ordered(p.pending \ p.history)
      <4>1. (p.pending \ p.history) \subseteq Held(p)
        BY DEF Held
      <4> QED  BY <1>8, <4>1, FS_Subset DEF Ordered
    <3>2. Sends(Flush(r), old)
      BY <1>9, <3>1, FlushSends DEF p
    <3>3. Flush(r).p \in BufferSet
      BY <1>4, FlushIs
    <3> QED  BY <2>1, <3>2, <3>3
  <2>2. CASE ~Advances(p, d)
    BY <1>4, <2>2 DEF p
  <2> QED  BY <2>1, <2>2
<1>11. /\ Held(drained.p) = Held(p) /\ drained.p.keys = p.keys
       /\ drained.p.quarantined = p.quarantined
       /\ drained.p.tick # None => drained.p.tick = d.tick
       /\ \A h \in drained.p.history, e \in P1 : Before(h, e)
  <2>1. CASE Advances(p, d)
    <3>1. Flush(r).p = [p EXCEPT !.history = Held(p), !.pending = {}, !.tick = None]
      BY <1>4, FlushIs DEF p
    <3>2. /\ Flush(r).p.history = Held(p) /\ Flush(r).p.pending = {} /\ Flush(r).p.tick = None
          /\ Flush(r).p.keys = p.keys /\ Flush(r).p.quarantined = p.quarantined
      BY <1>4, <3>1 DEF BufferSet
    <3>3. ASSUME NEW h \in Held(p), NEW e \in X \union {d} PROVE Before(h, e)
      <4>1. h.tick \in Nat
        BY <1>4, FrameNumbers DEF Held, BufferSet
      <4>2. p.tick # None /\ p.tick \in Nat /\ p.tick < d.tick /\ h.tick <= p.tick
        <5>1. p.tick # None /\ d.tick > p.tick /\ p.tick \in Nat /\ d.tick \in Nat
          BY <1>1, <1>5, <2>1 DEF Advances
        <5>2. h.tick = p.tick \/ h.tick <= p.tick
          BY <1>4, <5>1 DEF Buffered, Held
        <5> QED  BY <4>1, <5>1, <5>2
      <4>3. e.tick = d.tick
        BY <1>2
      <4> QED  BY <1>1, <4>1, <4>2, <4>3 DEF Before
    <3> QED  BY <2>1, <3>2, <3>3 DEF Held
  <2>2. CASE ~Advances(p, d)
    <3>1. p.tick # None => p.tick = d.tick
      <4>1. d.tick \in Nat /\ (p.tick # None => p.tick <= d.tick)
        BY <1>1
      <4>2. p.tick # None => ~(d.tick > p.tick)
        BY <2>2 DEF Advances
      <4> QED  BY <1>5, <4>1, <4>2
    <3>2. drained = r
      BY <2>2
    <3>3. \A h \in p.history, e \in p.pending \union X \union {d} : Before(h, e)
      BY <1>1, <1>2, <1>9
    <3> QED  BY <3>1, <3>2, <3>3 DEF p
  <2> QED  BY <2>1, <2>2
<1>12. /\ r2 = [p |-> r2.p, out |-> drained.out] /\ r2.p \in BufferSet
       /\ r2.p.history = drained.p.history /\ r2.p.pending = P1
       /\ r2.p.quarantined = p.quarantined /\ r2.p.keys = p.keys \union {Key}
  <2>1. CASE Key \in p.keys
    <3>1. r1 = r /\ X = {}
      BY <2>1 DEF EnqueueStatus, Key, TerminalStatus, p
    <3>2. Hold(r, d) = [p |-> Holding(drained.p, d), out |-> drained.out]
          /\ Holding(drained.p, d) \in BufferSet
      BY <1>1, <1>4, HoldIs DEF p
    <3> HIDE DEF drained, r1, X
    <3>3. /\ Holding(drained.p, d).history = drained.p.history
          /\ Holding(drained.p, d).pending = drained.p.pending \union {d}
          /\ Holding(drained.p, d).quarantined = drained.p.quarantined
          /\ Holding(drained.p, d).keys = drained.p.keys
      BY <1>10 DEF Holding, BufferSet
    <3>4. r2 = [p |-> Holding(drained.p, d), out |-> drained.out]
      BY <3>1, <3>2
    <3> HIDE DEF r2
    <3>5. r2.p = Holding(drained.p, d)
      BY <3>4
    <3> QED  BY <1>11, <2>1, <3>1, <3>2, <3>3, <3>4, <3>5
  <2>2. CASE Key \notin p.keys
    <3> DEFINE s == StatusFrame(d.tick, d.seq, 0)
    <3>1. X = {s}
      BY <2>2 DEF TerminalStatus, TerminalId
    <3>2. s \notin Held(p) \union p.quarantined /\ s \in Frames /\ s.tick = d.tick
          /\ s.kind = "status"
      BY <1>2, <3>1
    <3>3. Advances(p, s) <=> Advances(p, d)
      BY <3>2 DEF Advances
    <3>4. r1 = [p |-> Marked(drained.p, s), out |-> drained.out]
          /\ Marked(drained.p, s) \in BufferSet
      BY <1>1, <1>4, <2>2, <3>2, <3>3, StatusIs DEF TerminalId, p
    <3> HIDE DEF drained, r1, X, s
    <3> DEFINE p1 == Marked(drained.p, s)
    <3>5. /\ p1.history = drained.p.history /\ p1.pending = drained.p.pending \union {s}
          /\ p1.quarantined = drained.p.quarantined /\ p1.tick = d.tick
          /\ p1.keys = drained.p.keys \union {Key} /\ p1 \in BufferSet
      <4>1. Holding(drained.p, s) \in [history : SUBSET Frames, pending : SUBSET Frames,
               tick : Nat, quarantined : SUBSET Frames, keys : SUBSET (Nat \X Conditions)]
        BY <1>1, <1>10, <3>2 DEF Holding, BufferSet
      <4>2. /\ Holding(drained.p, s).history = drained.p.history
            /\ Holding(drained.p, s).pending = drained.p.pending \union {s}
            /\ Holding(drained.p, s).quarantined = drained.p.quarantined
            /\ Holding(drained.p, s).tick = d.tick
            /\ Holding(drained.p, s).keys = drained.p.keys
        BY <1>10, <3>2 DEF Holding, BufferSet
      <4> QED  BY <3>4, <4>1, <4>2 DEF Marked
    <3> HIDE DEF p1
    <3>6. r1 \in ResultSet /\ r1.p = p1 /\ r1.out = drained.out
      BY <1>10, <3>4, <3>5 DEF Sends, ResultSet, p1
    <3>7. d \notin Held(p1) \union p1.quarantined
      BY <1>1, <1>7, <1>11, <3>2, <3>5 DEF Held
    <3>8. ~Advances(p1, d) /\ (p1.tick # None => p1.tick <= d.tick)
      BY <1>1, <3>5 DEF Advances
    <3>9. r2 = [p |-> Holding(p1, d), out |-> drained.out] /\ Holding(p1, d) \in BufferSet
      BY <1>1, <3>6, <3>7, <3>8, HoldIs
    <3>10. /\ Holding(p1, d).history = p1.history
           /\ Holding(p1, d).pending = p1.pending \union {d}
           /\ Holding(p1, d).quarantined = p1.quarantined
           /\ Holding(p1, d).keys = p1.keys
      BY <3>5 DEF Holding, BufferSet
    <3> HIDE DEF r2
    <3>11. r2.p = Holding(p1, d)
      BY <3>9
    <3> QED  BY <1>11, <3>1, <3>5, <3>9, <3>10, <3>11
  <2> QED  BY <2>1, <2>2
<1> HIDE DEF drained, r2
<1>13. Sends(r2, old)
  <2>1. r2 \in ResultSet
    BY <1>10, <1>12 DEF Sends, ResultSet
  <2> QED  BY <1>10, <1>12, <2>1 DEF Sends
<1>14. Ordered(r2.p.pending \ r2.p.history)
  <2>1. (r2.p.pending \ r2.p.history) \subseteq All
    BY <1>11, <1>12 DEF Held
  <2> QED  BY <1>3, <2>1, FS_Subset DEF WellFormed, Ordered
<1>15. Sends(r3, old)
  BY <1>11, <1>12, <1>13, <1>14, FlushSends
<1>16. r3.p = [r2.p EXCEPT !.history = Held(r2.p), !.pending = {}, !.tick = None]
       /\ r3.p \in BufferSet
  BY <1>13, FlushIs DEF Sends
<1>17. Held(r2.p) = All
  BY <1>11, <1>12 DEF Held
<1>18. /\ r3.p.history = All /\ r3.p.pending = {} /\ r3.p.tick = None
       /\ r3.p.quarantined = p.quarantined /\ r3.p.keys = p.keys \union {Key}
  BY <1>12, <1>16, <1>17 DEF BufferSet
<1> QED  BY <1>6, <1>15, <1>16, <1>18 DEF p, d, r3

(* Behind MATCH_ENDED the buffers are closed.                              *)
LEMMA EndSound ==
    ASSUME NEW q \in Seq(BusFrames), q # <<>>, NEW r, NEW old, Types, WorkerInv(q), session,
           Sends(r, old), Sound(r.p, q), Head(q).kind = "ended"
    PROVE  Sound(EnqueueEnded(r, Head(q)).p, Tail(q))
<1> DEFINE d == Head(q)
           p == r.p
           X == TerminalStatus(p, d)
           All == Held(p) \union X \union {d}
           p2 == EnqueueEnded(r, d).p
           rest == Tail(q)
<1>1. /\ p2 \in BufferSet /\ p2.history = All /\ p2.pending = {} /\ p2.tick = None
      /\ p2.quarantined = p.quarantined /\ p2.keys = p.keys \union {Key}
  BY EndSends
<1>2. WellFormed(All)
  BY EndPrefix
<1>3. /\ d \in published /\ d.tick = worker.tick /\ d.tick \in Nat /\ d.tick > 0
      /\ d \in Coming(q) /\ d \notin Coming(rest) /\ runtime.status = "ended"
  BY EndFacts
<1>4. \A s \in X :
        /\ s \in Frames /\ s.kind = "status" /\ s.status = "ended" /\ s.rev = runtime.rev
        /\ s.tick = d.tick
        /\ \A u \in StatusesOf(Held(p)) : Before(u, s) /\ u.rev < s.rev
  BY EndStatus
<1>5. p \in BufferSet /\ Buffered(p, q) /\ Keyed(p)
  BY DEF Sound
<1>6. d.kind = "ended" /\ Coming(q) = Coming(rest) \union {d}
      /\ \A e \in Coming(q) : d.tick <= e.tick
  BY HeadFacts
<1>7. \A e \in Coming(q) : e \in published /\ e.tick \in Nat /\ e.tick <= worker.tick
  BY ComingFacts
<1>8. Key \in p.keys \/ X = {StatusFrame(d.tick, d.seq, TerminalId)}
  BY DEF TerminalStatus
<1>9. \A s, u \in X : s = u
  BY DEF TerminalStatus
<1> HIDE DEF d, X, p2, rest
<1>10. Held(p2) = All /\ StatusesOf(Held(p2)) = StatusesOf(Held(p)) \union X
  BY <1>1, <1>4, <1>6 DEF Held, StatusesOf
<1>11. Buffered(p2, rest)
  <2>1. IsFiniteSet(p2.history) /\ IsFiniteSet(p2.pending)
    BY <1>1, <1>2, FS_EmptySet DEF WellFormed, Ordered
  <2>2. BusEvents(Held(p2)) \subseteq published /\ p2.quarantined \subseteq published
    BY <1>1, <1>3, <1>4, <1>5, <1>10 DEF Buffered, BusEvents
  <2>3. \A e \in Coming(rest) : e \notin Held(p2) \union p2.quarantined
    <3>1. \A e \in Coming(rest) : e \notin X
      BY <1>4, <1>6, <1>7, BusFacts
    <3> QED  BY <1>1, <1>3, <1>5, <1>6, <1>10, <3>1 DEF Buffered
  <2>4. \A e \in Held(p2) : e.tick <= worker.tick
    BY <1>3, <1>4, <1>5, <1>10 DEF Buffered
  <2> QED  BY <1>1, <2>1, <2>2, <2>3, <2>4 DEF Buffered
<1>12. Keyed(p2)
  <2>1. \A u \in StatusesOf(Held(p2)) :
          /\ <<u.rev, u.status>> \in p2.keys
          /\ u.rev <= runtime.rev
          /\ u.rev = runtime.rev => u.status = runtime.status
          /\ Terminal(u.status) => u.rev = runtime.rev
          /\ u.tick > 0 \/ u.seq > 0
    <3>1. runtime.rev <= runtime.rev
      BY DEF Types
    <3> QED  BY <1>1, <1>3, <1>4, <1>5, <1>10, <3>1 DEF Keyed, Key
  <2>2. \A u, v \in StatusesOf(Held(p2)) :
          \/ u = v
          \/ Before(u, v) /\ u.rev < v.rev
          \/ Before(v, u) /\ v.rev < u.rev
    BY <1>4, <1>5, <1>9, <1>10 DEF Keyed
  <2>3. \A k \in p2.keys : \E u \in StatusesOf(Held(p2)) : k = <<u.rev, u.status>>
    <3>1. Key \notin p.keys => \E u \in X : Key = <<u.rev, u.status>>
      BY <1>3, <1>4, <1>8 DEF Key
    <3> QED  BY <1>1, <1>5, <1>10, <3>1 DEF Keyed
  <2> QED  BY <2>1, <2>2, <2>3 DEF Keyed
<1>13. Finished(p2.history) /\ p2.history # {}
  BY <1>1, <1>6 DEF Finished
<1>14. Closed(p2, rest)
  <2>1. \A e \in Coming(rest) : e.tick = worker.tick
    <3> SUFFICES ASSUME NEW e \in Coming(rest) PROVE e.tick = worker.tick
      OBVIOUS
    <3>1. e \in Coming(q) /\ d.tick <= e.tick
      BY <1>6
    <3>2. worker.tick \in Nat
      BY <1>3
    <3> QED  BY <1>3, <1>7, <3>1, <3>2
  <2> QED  BY <1>1, <1>3, <2>1 DEF Closed, Key
<1>15. Sound(p2, rest)
  BY <1>1, <1>2, <1>11, <1>12, <1>13, <1>14 DEF Sound, Opening, Running
<1> QED  BY <1>15 DEF p2, rest, d

\* Any call.
LEMMA CallSound ==
    ASSUME NEW q \in Seq(BusFrames), q # <<>>, NEW r, NEW old, Types, WorkerInv(q), session,
           Sends(r, old), Sound(r.p, q), NEW id \in {1, 3}
    PROVE  LET r2 == EnqueueEvent(r, Head(q), id)
           IN  Sound(r2.p, Tail(q)) /\ Sends(r2, old)
<1> DEFINE e == Head(q)
<1>1. e \in BusFrames
  OBVIOUS
<1>2. CASE e.kind = "started"
  <2> DEFINE sent == Publish(r, {e})
             r1 == [sent EXCEPT !.p.tick = e.tick]
             r2 == EnqueueStatus(r1, 0, RuntimeSequence(r1.p, 0), id)
  <2>1. /\ Sound(r1.p, Tail(q)) /\ Sends(r1, old)
        /\ r1.p.history = {Started} /\ r1.p.tick = 0 /\ e = Started
        /\ r1.p.pending = sent.p.pending /\ r1.p.history = sent.p.history
        /\ \A g \in Held(r1.p) : g.tick = 0
    BY <1>2, StartSound
  <2> HIDE DEF sent, r1
  <2>2. e.tick = 0 /\ Started.kind = "started"
    BY <2>1 DEF Started, BusEvent
  <2>3. RuntimeSequence(sent.p, 0) = RuntimeSequence(r1.p, 0)
    <3>1. sent.p.history \union sent.p.pending = r1.p.history \union r1.p.pending
      BY <2>1
    <3> QED  BY <3>1 DEF RuntimeSequence
  <2>4. EnqueueEvent(r, e, id) = r2
    <3>1. EnqueueEvent(r, e, id) = EnqueueStarted(r, e, id)
      BY <1>2 DEF EnqueueEvent
    <3>2. EnqueueStarted(r, e, id) = EnqueueStatus(r1, 0, RuntimeSequence(sent.p, 0), id)
      BY <2>2 DEF EnqueueStarted, sent, r1
    <3> QED  BY <2>3, <3>1, <3>2
  <2>5. WorkerInv(Tail(q)) /\ Tail(q) \in Seq(BusFrames)
    BY HeadFacts, TailPlaces
  <2>6. worker.tick \in Nat /\ 0 <= worker.tick
    BY DEF Types
  <2>7. ~Finished(r1.p.history) /\ r1.p.history # {}
    BY <2>1, <2>2 DEF Finished
  <2>8. r1.p.tick <= 0 /\ ~(r1.p.tick < 0) /\ \A g \in Held(r1.p) : g.tick <= 0
    BY <2>1
  <2>9. Ticking /\ 0 = worker.tick => worker.tick = 0 \/ \A g \in Held(r1.p) : g.tick # 0
    OBVIOUS
  <2>10. Sound(r2.p, Tail(q)) /\ Sends(r2, old)
    <3> DEFINE rest == Tail(q)
    <3>1. rest \in Seq(BusFrames) /\ WorkerInv(rest) /\ Sound(r1.p, rest) /\ 0 \in Nat
      BY <2>1, <2>5
    <3>2. Sends(r1, old)
      BY <2>1
    <3> HIDE DEF rest
    <3>3. Sound(r2.p, rest) /\ Sends(r2, old)
      BY <2>6, <2>7, <2>8, <2>9, <3>1, <3>2, StatusSound
    <3> QED  BY <3>3 DEF rest
  <2> QED  BY <2>4, <2>10
<1>3. CASE e.kind = "ended"
  <2>1. EnqueueEvent(r, e, id) = EnqueueEnded(r, e)
    BY <1>3 DEF EnqueueEvent
  <2> QED  BY <1>3, <2>1, EndSends, EndSound
<1>4. CASE e.kind \in {"game", "scored", "promoted"}
  <2>1. EnqueueEvent(r, e, id) = Hold(r, e)
    BY <1>4 DEF EnqueueEvent
  <2> QED  BY <1>4, <2>1, HoldSound
<1> QED  BY <1>1, <1>2, <1>3, <1>4 DEF BusFrames
-----------------------------------------------------------------------------
(* The browsers.                                                           *)

(* Before an operation nothing is to be sent.                              *)
LEMMA BuffersSend ==
    ASSUME proj \in BufferSet
    PROVE  /\ Sends(Buffers, proj.history) /\ Buffers.p = proj
<1>1. Buffers.p = proj /\ Buffers.out = <<>> /\ Buffers \in ResultSet
  BY DEF Buffers, ResultSet
<1>2. <<>> \in Seq({}) /\ Len(<<>>) = 0
  OBVIOUS
<1>3. Lists(<<>>, {})
  BY <1>2 DEF Lists
<1>4. proj.history \ proj.history = {}
  OBVIOUS
<1> QED  BY <1>1, <1>3, <1>4 DEF Sends, Continues

\* A browser that is sent the continuation of what it has.
LEMMA ReceiveFollows ==
    ASSUME NEW client, NEW H, NEW old, NEW list, NEW k \in 0 .. Len(list),
           WellFormed(H), Follows(client.tab, H), Continues(list, old, H),
           old \subseteq Got(client.tab), client.link \in {"up", "down"}
    PROVE  LET new == Receive(client, list, k)
           IN  /\ new \in [link : {"up", "down"}, tab : TabSet]
               /\ Follows(new.tab, H)
               /\ new.link = "up" => Got(new.tab) = H
<1> DEFINE new == Receive(client, list, k)
<1>1. new.tab = Tabs(client.tab, list)[k]
      /\ new.link = (IF k = Len(list) THEN client.link ELSE "down")
      /\ new = [link |-> new.link, tab |-> new.tab]
  BY DEF Receive
<1>2. /\ Follows(new.tab, H)
      /\ k = Len(list) => Got(new.tab) = H
  BY <1>1, TabsFollow
<1> HIDE DEF new
<1>3. new.tab \in TabSet /\ new.link \in {"up", "down"}
  BY <1>1, <1>2 DEF Follows
<1>4. new \in [link : {"up", "down"}, tab : TabSet]
  BY <1>1, <1>3
<1>5. new.link = "up" => Got(new.tab) = H
  BY <1>1, <1>2
<1> QED  BY <1>2, <1>4, <1>5 DEF new

\* A result is sent to every browser.
LEMMA SendFollows ==
    ASSUME NEW r, Sends(r, proj.history), WellFormed(r.p.history),
           Watched, ClientTypes, Send(r)
    PROVE  /\ proj' = r.p /\ ClientTypes' /\ Watched'
<1> DEFINE H == r.p.history
           old == proj.history
<1>1. proj' = r.p
  BY DEF Send
<1>2. Continues(r.out, old, H)
  BY DEF Sends
<1>3. PICK got \in [Clients -> 0 .. Len(r.out)] :
         clients' = [c \in Clients |->
                       IF clients[c].link = "up"
                       THEN Receive(clients[c], r.out, got[c])
                       ELSE clients[c]]
  BY DEF Send
<1>4. ASSUME NEW c \in Clients
      PROVE  /\ clients'[c] \in [link : {"up", "down"}, tab : TabSet]
             /\ Follows(clients'[c].tab, H)
             /\ clients'[c].link = "up" => Got(clients'[c].tab) = H
  <2> DEFINE client == clients[c]
  <2>1. /\ client \in [link : {"up", "down"}, tab : TabSet]
        /\ Follows(client.tab, old)
        /\ client.link = "up" => Got(client.tab) = old
    BY DEF ClientTypes, Watched
  <2>2. clients'[c] = IF client.link = "up" THEN Receive(client, r.out, got[c]) ELSE client
    BY <1>3
  <2>3. got[c] \in 0 .. Len(r.out)
    BY <1>3
  <2> HIDE DEF client, H, old
  <2>4. Follows(client.tab, H)
    BY <1>2, <2>1, FollowsGrows DEF Continues, H
  <2>5. CASE client.link = "up"
    <3>1. old \subseteq Got(client.tab) /\ client.link \in {"up", "down"}
      BY <2>1, <2>5
    <3> DEFINE new == Receive(client, r.out, got[c])
    <3>2. /\ new \in [link : {"up", "down"}, tab : TabSet]
          /\ Follows(new.tab, H)
          /\ new.link = "up" => Got(new.tab) = H
      BY <1>2, <2>3, <2>4, <3>1, ReceiveFollows DEF H
    <3>3. clients'[c] = new
      BY <2>2, <2>5
    <3> HIDE DEF new
    <3> QED  BY <3>2, <3>3
  <2>6. CASE client.link # "up"
    BY <2>1, <2>2, <2>4, <2>6
  <2> QED  BY <2>5, <2>6
<1>5. clients' = [c \in Clients |-> clients'[c]]
  BY <1>3
<1>6. ClientTypes'
  BY <1>4, <1>5 DEF ClientTypes
<1>7. Watched'
  BY <1>1, <1>4 DEF Watched
<1> QED  BY <1>1, <1>6, <1>7

\* A browser that connects is sent the prefix.
LEMMA ReplayFollows ==
    ASSUME NEW client \in [link : {"up", "down"}, tab : TabSet], NEW H, WellFormed(H),
           Follows(client.tab, H), NEW k \in 0 .. Len(Sorted(H))
    PROVE  LET new == Receive(client, Sorted(H), k)
           IN  /\ new \in [link : {"up", "down"}, tab : TabSet]
               /\ Follows(new.tab, H)
               /\ new.link = "up" => Got(new.tab) = H
<1>1. Lists(Sorted(H), H)
  BY SortedLists DEF WellFormed
<1>2. Continues(Sorted(H), {}, H)
  <2>1. H \ {} = H
    OBVIOUS
  <2> QED  BY <1>1, <2>1 DEF Continues
<1>3. client.link \in {"up", "down"} /\ {} \subseteq Got(client.tab)
  OBVIOUS
<1> QED  BY <1>2, <1>3, ReceiveFollows
-----------------------------------------------------------------------------
(* What is left alone by a step.                                           *)

(* The worker's invariant depends on the worker, the runtime and the       *)
(* queue only.                                                             *)
LEMMA WorkerStays ==
    ASSUME NEW q, WorkerInv(q), calls' = q, worker' = worker, runtime' = runtime,
           published' = published
    PROVE  WorkerInv(calls)'
<1>1. Emitted' /\ Phased' /\ Nested'
  BY DEF WorkerInv, Emitted, Phased, Nested
<1>2. Queued(calls)'
  BY DEF WorkerInv, Queued
<1> QED  BY <1>1, <1>2 DEF WorkerInv

(* The buffers' invariant depends on neither the browsers nor the          *)
(* commands.                                                               *)
LEMMA SoundStays ==
    ASSUME NEW p, NEW q, Sound(p, q), proj' = p, calls' = q,
           worker'.tick = worker.tick, worker'.stack = worker.stack, Ticking' => Ticking,
           runtime' = runtime, published' = published
    PROVE  Sound(proj, calls)'
<1>1. Coming(calls)' = Coming(q)
  BY DEF Coming
<1>2. Buffered(proj, calls)'
  BY <1>1 DEF Sound, Buffered, Held, BusEvents
<1>3. Keyed(proj)'
  BY DEF Sound, Keyed, Held, StatusesOf
<1>4. Opening(proj, calls)'
  BY <1>1 DEF Sound, Opening, StatusesOf
<1>5. Running(proj, calls)'
  <2>1. CASE Finished(p.history)
    BY <2>1 DEF Running, Finished
  <2>2. CASE ~Finished(p.history)
    <3>1. Apart(p) /\ InOrder(p, q) /\ StatusPlaces(p) /\ ScoreKept(p, q) /\ TerminalLast(p, q)
      BY <2>2 DEF Sound, Running
    <3>2. Apart(proj)'
      BY <3>1 DEF Apart, Finished
    <3>3. InOrder(proj, calls)'
      BY <1>1, <3>1 DEF InOrder
    <3>4. StatusPlaces(proj)'
      BY <3>1 DEF StatusPlaces, StatusesOf, Held
    <3>5. ScoreKept(proj, calls)'
      BY <3>1 DEF ScoreKept, Held
    <3>6. TerminalLast(proj, calls)'
      BY <1>1, <3>1 DEF TerminalLast
    <3> QED  BY <3>2, <3>3, <3>4, <3>5, <3>6 DEF Running
  <2> QED  BY <2>1, <2>2
<1>6. Closed(proj, calls)'
  BY <1>1 DEF Sound, Closed, Finished
<1>7. (proj \in BufferSet)' /\ WellFormed(proj.history)'
  BY DEF Sound
<1> QED  BY <1>2, <1>3, <1>4, <1>5, <1>6, <1>7 DEF Sound
-----------------------------------------------------------------------------
(* The steps of the loop.                                                  *)

Kept == Types' /\ ClientTypes' /\ (Live' \/ Retired')

(* A step of the loop that sends frames to every browser keeps the         *)
(* invariant when its buffers are sound.                                   *)
LEMMA SentKept ==
    ASSUME Types, ClientTypes, Live, NEW q \in Seq(BusFrames), NEW r,
           Sends(r, proj.history), Sound(r.p, q), Send(r), calls' = q,
           worker' = worker \/ worker' = [worker EXCEPT !.phase = "reaped"],
           Ticking' => Ticking, WorkerInv(calls)',
           UNCHANGED <<runtime, session, late, published>>, Commanded'
    PROVE  Kept
<1>1. WellFormed(r.p.history) /\ r.p \in BufferSet
  BY DEF Sound
<1>2. proj' = r.p /\ ClientTypes' /\ Watched'
  BY <1>1, SendFollows DEF Live
<1>3. Types'
  BY <1>1, <1>2 DEF Types
<1>4. worker'.tick = worker.tick /\ worker'.stack = worker.stack
  BY DEF Types
<1>5. Sound(proj, calls)'
  BY <1>2, <1>4, SoundStays
<1>6. Live'
  BY <1>2, <1>5 DEF Live
<1> QED  BY <1>2, <1>3, <1>6 DEF Kept

(* The loop runs the oldest call.                                          *)
LEMMA StepRunCall ==
    ASSUME ProjectionAssumption, Types, ClientTypes, Live, RunCall
    PROVE  Kept
<1>1. PICK id \in StatusIds : Send(EnqueueEvent(Buffers, Head(calls), id))
  BY DEF RunCall
<1> DEFINE r == EnqueueEvent(Buffers, Head(calls), id)
           q == Tail(calls)
<1>2. /\ calls # <<>> /\ calls' = q /\ LoopFree
      /\ UNCHANGED <<worker, runtime, session, late, handler, published>>
  BY DEF RunCall
<1>3. id \in {1, 3} /\ calls \in Seq(BusFrames) /\ proj \in BufferSet
  BY DEF ProjectionAssumption, Types
<1>4. WorkerInv(calls) /\ session /\ Sound(proj, calls)
  BY DEF Live
<1>5. Sends(Buffers, proj.history) /\ Buffers.p = proj
  BY <1>3, BuffersSend
<1>6. Sound(r.p, q) /\ Sends(r, proj.history)
  BY <1>2, <1>3, <1>4, <1>5, CallSound
<1>7. q \in Seq(BusFrames) /\ WorkerInv(q)
  BY <1>2, <1>3, <1>4, HeadFacts, TailPlaces
<1>8. Send(r)
  BY <1>1
<1> HIDE DEF r, q
<1>9. WorkerInv(calls)'
  BY <1>2, <1>7, WorkerStays
<1>10. Ticking' => Ticking
  BY <1>2 DEF Ticking
<1>11. Commanded'
  <2>1. handler' # "resumed" /\ worker.phase # "reaped"
        /\ ~(runtime.status = "paused" /\ handler = "idle")
    BY <1>2 DEF Live, Commanded, LoopFree
  <2> QED  BY <1>2, <2>1 DEF Commanded
<1> QED  BY <1>2, <1>6, <1>7, <1>8, <1>9, <1>10, <1>11, SentKept

(* Nothing is to come while the worker is between ticks and the queue is   *)
(* empty.                                                                  *)
LEMMA NothingComes ==
    ASSUME Types, WorkerInv(calls), calls = <<>>, worker.phase \notin {"ticking", "ending"}
    PROVE  Coming(calls) = {} /\ worker.stack = <<>>
<1>1. worker.stack = <<>>
  BY DEF WorkerInv, Phased
<1>2. DOMAIN <<>> = {}
  OBVIOUS
<1> QED  BY <1>1, <1>2 DEF Coming, ToSet

\* The status of a boundary, or of a failure, with all that waits.
LEMMA BoundarySound ==
    ASSUME ProjectionAssumption, Types, Live, NEW t \in Nat, NEW id \in {1, 3},
           calls = <<>>, worker.phase \in {"checkpoint", "done"},
           runtime.status \in {"paused", "failed"}, published # {},
           t <= worker.tick, proj.tick # None => proj.tick <= t,
           \A g \in Held(proj) : g.tick <= t,
           \A e \in published : ~Late(e)
    PROVE  LET r == Flush(EnqueueStatus(Buffers, t, RuntimeSequence(proj, t), id))
           IN  /\ Sends(r, proj.history) /\ Sound(r.p, calls)
               /\ r.p.tick = None
<1> DEFINE r1 == EnqueueStatus(Buffers, t, RuntimeSequence(proj, t), id)
<1>1. /\ calls \in Seq(BusFrames) /\ proj \in BufferSet /\ session
      /\ WorkerInv(calls) /\ Sound(proj, calls)
  BY DEF Types, Live
<1>2. Sends(Buffers, proj.history) /\ Buffers.p = proj
  BY <1>1, BuffersSend
<1>3. Coming(calls) = {} /\ ~Ticking
  BY <1>1, NothingComes DEF Ticking
<1>4. proj.history # {} /\ ~Finished(proj.history)
  BY <1>1, <1>3 DEF Sound, Opening, Closed
<1>5. \A g \in Held(proj) : ~Late(g)
  BY <1>1 DEF Sound, Buffered, BusEvents, Late
<1>6. Sound(r1.p, calls) /\ Sends(r1, proj.history)
  BY <1>1, <1>2, <1>3, <1>4, <1>5, StatusSound
<1> HIDE DEF r1
<1>7. r1.p.history # {} /\ ~Finished(r1.p.history)
  BY <1>4, <1>6 DEF Sends, Continues, Sound, Closed
<1>8. \A g \in Held(r1.p) : ~Late(g)
  BY <1>6 DEF Sound, Buffered, BusEvents, Late
<1>9. Sound(Flush(r1).p, calls) /\ Sends(Flush(r1), proj.history)
  BY <1>1, <1>3, <1>6, <1>7, <1>8, FlushSound
<1>10. Flush(r1).p.tick = None
  <2>1. r1 \in ResultSet /\ r1.p \in BufferSet
    BY <1>6 DEF Sends, ResultSet
  <2> QED  BY <2>1, FlushIs DEF BufferSet
<1> QED  BY <1>9, <1>10 DEF r1

(* The wait of a PAUSE ends at the boundary: the tick is drained.          *)
LEMMA StepPauseBoundary ==
    ASSUME ProjectionAssumption, Types, ClientTypes, Live, PauseBoundary
    PROVE  Kept
<1> DEFINE t == worker.tick
<1>1. PICK id \in StatusIds : Send(Flush(EnqueueStatus(Buffers, t, RuntimeSequence(proj, t), id)))
  BY DEF PauseBoundary
<1> DEFINE r == Flush(EnqueueStatus(Buffers, t, RuntimeSequence(proj, t), id))
<1>2. /\ worker.phase = "checkpoint" /\ runtime.status = "paused" /\ calls = <<>>
      /\ calls' = calls /\ handler' = "idle"
      /\ UNCHANGED <<worker, runtime, session, late, published>>
  BY DEF PauseBoundary
<1>3. id \in {1, 3} /\ calls \in Seq(BusFrames) /\ t \in Nat
  BY DEF ProjectionAssumption, Types
<1>4. WorkerInv(calls) /\ Sound(proj, calls)
  BY DEF Live
<1>5. /\ t <= worker.tick
      /\ proj.tick # None => proj.tick <= t
      /\ \A g \in Held(proj) : g.tick <= t
  BY <1>3, <1>4 DEF Sound, Buffered
<1>6. published # {} /\ \A e \in published : ~Late(e)
  BY <1>2, <1>4 DEF WorkerInv, Phased, Emitted, Closing, Late
<1>7. Sends(r, proj.history) /\ Sound(r.p, calls) /\ r.p.tick = None
  BY <1>2, <1>3, <1>5, <1>6, BoundarySound
<1>8. Send(r)
  BY <1>1
<1> HIDE DEF r, t
<1>9. WorkerInv(calls)' /\ (Ticking' => Ticking)
  BY <1>2, <1>4, WorkerStays DEF Ticking
<1>10. Commanded'
  <2>1. proj' = r.p
    BY <1>8 DEF Send
  <2> QED  BY <1>2, <1>7, <2>1 DEF Commanded
<1> QED  BY <1>2, <1>3, <1>7, <1>8, <1>9, <1>10, SentKept

(* The RESUME handler goes on with the status it read.                     *)
LEMMA StepResumeStatus ==
    ASSUME ProjectionAssumption, Types, ClientTypes, Live, ResumeStatus
    PROVE  Kept
<1>1. PICK t \in StatusTicks(proj), id \in StatusIds :
        Send(EnqueueStatus(Buffers, t, RuntimeSequence(proj, t), id))
  BY DEF ResumeStatus
<1> DEFINE r == EnqueueStatus(Buffers, t, RuntimeSequence(proj, t), id)
<1>2. /\ handler = "resumed" /\ calls' = calls /\ handler' = "idle"
      /\ UNCHANGED <<worker, runtime, session, late, published>>
  BY DEF ResumeStatus
<1>3. /\ id \in {1, 3} /\ calls \in Seq(BusFrames) /\ proj \in BufferSet
      /\ worker.tick \in Nat
  BY DEF ProjectionAssumption, Types
<1>4. WorkerInv(calls) /\ Sound(proj, calls) /\ session
  BY DEF Live
<1>5. /\ proj.tick = None /\ proj.history # {} /\ ~Finished(proj.history)
      /\ runtime.status # "paused"
      /\ \/ worker.phase = "checkpoint" /\ calls = <<>>
         \/ \A h \in proj.history : h.tick < worker.tick
  BY <1>2 DEF Live, Commanded
<1>6. t \in Nat /\ t <= worker.tick /\ (worker.stack = <<>> => t = worker.tick)
      /\ (t = worker.tick \/ t = worker.tick - 1)
  <2>1. t \in FoldTicks
    BY <1>1, <1>5 DEF StatusTicks
  <2>2. Len(<<>>) # 1
    OBVIOUS
  <2> QED  BY <1>3, <2>1, <2>2 DEF FoldTicks
<1>7. Held(proj) = proj.history /\ \A g \in proj.history : g.tick \in Nat /\ g.tick <= worker.tick
  <2>1. proj.pending = {}
    BY <1>4, <1>5 DEF Sound, Buffered
  <2> QED  BY <1>3, <1>4, <2>1, FrameNumbers DEF Sound, Buffered, Held, BufferSet
<1>8. /\ \A g \in Held(proj) : g.tick <= t
      /\ Ticking /\ t = worker.tick => \A g \in Held(proj) : g.tick # t
  <2>1. CASE worker.phase = "checkpoint" /\ calls = <<>>
    <3>1. worker.stack = <<>> /\ ~Terminal(runtime.status)
      BY <1>4, <2>1 DEF WorkerInv, Phased
    <3>2. ~Ticking
      BY <2>1, <3>1 DEF Ticking, Terminal
    <3> QED  BY <1>6, <1>7, <3>1, <3>2
  <2>2. CASE \A h \in proj.history : h.tick < worker.tick
    BY <1>3, <1>6, <1>7, <2>2
  <2> QED  BY <1>5, <2>1, <2>2
<1>9. Sends(Buffers, proj.history) /\ Buffers.p = proj
  BY <1>3, BuffersSend
<1>10. Sound(r.p, calls) /\ Sends(r, proj.history)
  BY <1>3, <1>4, <1>5, <1>6, <1>8, <1>9, StatusSound
<1>11. Send(r)
  BY <1>1
<1> HIDE DEF r
<1>12. WorkerInv(calls)' /\ (Ticking' => Ticking)
  BY <1>2, <1>4, WorkerStays DEF Ticking
<1>13. Commanded'
  BY <1>2, <1>5 DEF Live, Commanded
<1> QED  BY <1>2, <1>3, <1>10, <1>11, <1>12, <1>13, SentKept
\* A command raises the revision.
LEMMA SoundRevised ==
    ASSUME Types, NEW p, NEW q, Sound(p, q), proj' = p, calls' = q,
           worker'.tick = worker.tick, worker'.stack = worker.stack, Ticking' => Ticking,
           runtime'.rev = runtime.rev + 1, ~Terminal(runtime.status), published' = published
    PROVE  Sound(proj, calls)'
<1>1. Coming(calls)' = Coming(q)
  BY DEF Coming
<1>2. Buffered(proj, calls)'
  BY <1>1 DEF Sound, Buffered, Held, BusEvents
<1>3. Keyed(proj)'
  <2>1. runtime.rev \in Nat
    BY DEF Types
  <2>2. ASSUME NEW s \in StatusesOf(Held(p))
        PROVE  /\ <<s.rev, s.status>> \in p.keys
               /\ s.rev <= runtime.rev + 1 /\ s.rev # runtime.rev + 1
               /\ ~Terminal(s.status)
               /\ s.tick > 0 \/ s.seq > 0
    <3>1. s.rev <= runtime.rev /\ s.rev \in Nat
      BY FrameNumbers DEF Sound, Keyed, StatusesOf, Held, BufferSet
    <3>2. ~Terminal(s.status)
      BY DEF Sound, Keyed
    <3> QED  BY <2>1, <3>1, <3>2 DEF Sound, Keyed
  <2> QED  BY <2>2 DEF Sound, Keyed, Held, StatusesOf
<1>4. Opening(proj, calls)'
  BY <1>1 DEF Sound, Opening, StatusesOf
<1>5. ~Finished(p.history)
  BY DEF Sound, Closed, Terminal
<1>6. Running(proj, calls)'
  <2>1. Apart(p) /\ InOrder(p, q) /\ StatusPlaces(p) /\ ScoreKept(p, q) /\ TerminalLast(p, q)
    BY <1>5 DEF Sound, Running
  <2>2. Apart(proj)'
    BY <2>1 DEF Apart, Finished
  <2>3. InOrder(proj, calls)'
    BY <1>1, <2>1 DEF InOrder
  <2>4. StatusPlaces(proj)'
    BY <2>1 DEF StatusPlaces, StatusesOf, Held
  <2>5. ScoreKept(proj, calls)'
    BY <2>1 DEF ScoreKept, Held
  <2>6. TerminalLast(proj, calls)'
    BY <1>1, <2>1 DEF TerminalLast
  <2> QED  BY <2>2, <2>3, <2>4, <2>5, <2>6 DEF Running
<1>7. Closed(proj, calls)'
  BY <1>5 DEF Closed, Finished
<1>8. (proj \in BufferSet)' /\ WellFormed(proj.history)'
  BY DEF Sound
<1> QED  BY <1>2, <1>3, <1>4, <1>6, <1>7, <1>8 DEF Sound

(* The worker's invariant does not see a PAUSE or a RESUME.                *)
LEMMA WorkerRevised ==
    ASSUME NEW q, WorkerInv(q), calls' = q, worker' = worker, published' = published,
           ~Terminal(runtime.status), ~Terminal(runtime'.status)
    PROVE  WorkerInv(calls)'
<1>1. Emitted' /\ Phased' /\ Nested'
  BY DEF WorkerInv, Emitted, Phased, Nested, Terminal
<1>2. Queued(calls)'
  BY DEF WorkerInv, Queued, Terminal
<1> QED  BY <1>1, <1>2 DEF WorkerInv

\* Of the loop's state, only the command and the revision change.
LEMMA CommandKept ==
    ASSUME Types, ClientTypes, Live, Commanded',
           runtime' \in [status : {"running", "paused"}, rev : {runtime.rev + 1}, stop : BOOLEAN],
           ~Terminal(runtime.status),
           UNCHANGED <<worker, calls, proj, session, late, clients, published>>
    PROVE  Kept
<1>1. ~Terminal(runtime'.status) /\ runtime'.rev = runtime.rev + 1
  BY DEF Terminal
<1>2. WorkerInv(calls)'
  BY <1>1, WorkerRevised DEF Live
<1>3. Ticking' => Ticking
  BY DEF Ticking
<1>4. Sound(proj, calls)'
  BY <1>1, <1>3, SoundRevised DEF Live
<1>5. Watched' /\ ClientTypes'
  BY DEF Live, Watched, ClientTypes
<1>6. Types'
  BY DEF Types, Conditions
<1>7. session' /\ ~late'.token
  BY DEF Live
<1>8. Live'
  BY <1>2, <1>4, <1>5, <1>7 DEF Live
<1> QED  BY <1>5, <1>6, <1>8 DEF Kept

(* PAUSE is accepted.                                                      *)
LEMMA StepPause ==
    ASSUME Types, ClientTypes, Live, Pause
    PROVE  Kept
<1>1. runtime.status = "running" /\ runtime' = [runtime EXCEPT !.status = "paused", !.rev = @ + 1]
      /\ handler' = "awaiting"
      /\ UNCHANGED <<worker, calls, proj, session, late, clients, published>>
  BY DEF Pause
<1>2. Commanded'
  BY <1>1 DEF Live, Commanded
<1>3. runtime' \in [status : {"running", "paused"}, rev : {runtime.rev + 1}, stop : BOOLEAN]
  BY <1>1 DEF Types
<1> QED  BY <1>1, <1>2, <1>3, CommandKept DEF Terminal

(* RESUME is accepted.                                                     *)
LEMMA StepResume ==
    ASSUME Types, ClientTypes, Live, Resume
    PROVE  Kept
<1>1. /\ runtime.status = "paused" /\ handler = "idle"
      /\ runtime' = [runtime EXCEPT !.status = "running", !.rev = @ + 1]
      /\ handler' = "resumed"
      /\ UNCHANGED <<worker, calls, proj, session, late, clients, published>>
  BY DEF Resume
<1>2. worker.phase = "checkpoint" /\ calls = <<>> /\ proj.tick = None
  BY <1>1 DEF Live, Commanded
<1>3. Coming(calls) = {} /\ published # {}
  BY <1>2, NothingComes DEF Live, WorkerInv, Phased
<1>4. proj.history # {} /\ ~Finished(proj.history)
  BY <1>1, <1>3 DEF Live, Sound, Opening, Closed
<1>5. runtime' \in [status : {"running", "paused"}, rev : {runtime.rev + 1}, stop : BOOLEAN]
      /\ runtime'.status = "running"
  BY <1>1 DEF Types
<1>6. Commanded'
  <2>1. ~Finished(proj.history)'
    BY <1>1, <1>4 DEF Finished
  <2> QED  BY <1>1, <1>2, <1>4, <1>5, <2>1 DEF Commanded
<1> QED  BY <1>1, <1>5, <1>6, CommandKept DEF Terminal

(* The wait of a PAUSE is given up because the match is over.              *)
LEMMA StepPauseRefused ==
    ASSUME Types, ClientTypes, Live, ~runtime.stop, PauseRefused
    PROVE  Kept
<1>1. /\ runtime.status \in {"ended", "failed"} /\ handler' = "idle" /\ handler = "awaiting"
      /\ UNCHANGED <<worker, runtime, calls, proj, session, late, clients, published>>
  BY DEF PauseRefused
<1>2. WorkerInv(calls)' /\ (Ticking' => Ticking)
  BY <1>1, WorkerStays DEF Ticking, Live
<1>3. Sound(proj, calls)'
  BY <1>1, <1>2, SoundStays DEF Live
<1>4. Commanded'
  BY <1>1 DEF Live, Commanded
<1>5. Watched' /\ ClientTypes' /\ Types'
  BY <1>1 DEF Live, Watched, ClientTypes, Types
<1>6. Live'
  BY <1>1, <1>2, <1>3, <1>4, <1>5 DEF Live
<1> QED  BY <1>5, <1>6 DEF Kept

(* The done callback of the run task drains a match that failed.           *)
LEMMA StepRunTaskDone ==
    ASSUME ProjectionAssumption, Types, ClientTypes, Live, RunTaskDone
    PROVE  Kept
<1>1. /\ LoopFree /\ worker.phase = "done" /\ calls = <<>>
      /\ worker' = [worker EXCEPT !.phase = "reaped"] /\ calls' = calls
      /\ UNCHANGED <<runtime, session, late, handler, published>>
  BY DEF RunTaskDone
<1>2. WorkerInv(calls) /\ Sound(proj, calls) /\ calls \in Seq(BusFrames) /\ proj \in BufferSet
      /\ worker.tick \in Nat
  BY DEF Live, Types
<1>3. worker' = [phase |-> "reaped", tick |-> worker.tick, seq |-> worker.seq,
                 stack |-> worker.stack]
  BY <1>1 DEF Types
<1>4. WorkerInv(calls)'
  <2>1. Emitted'
    BY <1>1, <1>2, <1>3 DEF WorkerInv, Emitted
  <2>2. Phased'
    BY <1>1, <1>2, <1>3 DEF WorkerInv, Phased
  <2>3. Nested' /\ Queued(calls)'
    BY <1>1, <1>2, <1>3 DEF WorkerInv, Nested, Queued
  <2> QED  BY <2>1, <2>2, <2>3 DEF WorkerInv
<1>5. Ticking' => Ticking
  BY <1>1, <1>3 DEF Ticking
<1>6. Commanded'
  <2>1. handler' # "resumed" /\ ~(runtime.status = "paused" /\ handler = "idle")
    BY <1>1 DEF Live, Commanded, LoopFree
  <2> QED  BY <1>1, <2>1 DEF Commanded
<1>7. CASE runtime.status = "failed"
  <2>1. PICK t \in StatusTicks(proj), id \in StatusIds :
          Send(Flush(EnqueueStatus(Buffers, t, RuntimeSequence(proj, t), id)))
    BY <1>7 DEF RunTaskDone
  <2> DEFINE r == Flush(EnqueueStatus(Buffers, t, RuntimeSequence(proj, t), id))
  <2>2. id \in {1, 3}
    BY DEF ProjectionAssumption
  <2>3. worker.stack = <<>>
    BY <1>1, <1>2, NothingComes
  <2>4. \/ t = worker.tick /\ proj.tick = None
        \/ t = proj.tick /\ proj.tick # None
    <3>1. Len(<<>>) # 1
      OBVIOUS
    <3>2. FoldTicks = {worker.tick}
      BY <2>3, <3>1 DEF FoldTicks
    <3>3. t \in StatusTicks(proj)
      BY <2>1
    <3>4. CASE proj.tick = None
      <4>1. StatusTicks(proj) = {worker.tick}
        BY <3>2, <3>4 DEF StatusTicks
      <4> QED  BY <3>3, <3>4, <4>1
    <3>5. CASE proj.tick # None
      <4>1. StatusTicks(proj) = {proj.tick}
        BY <3>5 DEF StatusTicks
      <4> QED  BY <3>3, <3>5, <4>1
    <3> QED  BY <3>4, <3>5
  <2>5. /\ t \in Nat /\ t <= worker.tick
        /\ proj.tick # None => proj.tick <= t
    BY <1>2, <2>4 DEF Sound, Buffered, BufferSet
  <2>6. \A g \in Held(proj) : g.tick <= t
    <3> SUFFICES ASSUME NEW g \in Held(proj) PROVE g.tick <= t
      OBVIOUS
    <3>1. g.tick \in Nat
      BY <1>2, FrameNumbers DEF Held, BufferSet
    <3> QED  BY <1>2, <2>4, <2>5, <3>1 DEF Sound, Buffered, Held
  <2>7. published # {} /\ \A e \in published : ~Late(e)
    BY <1>2, <1>7 DEF WorkerInv, Phased, Emitted, Late
  <2>8. Sends(r, proj.history) /\ Sound(r.p, calls)
    BY <1>1, <1>7, <2>2, <2>5, <2>6, <2>7, BoundarySound
  <2>9. Send(r)
    BY <2>1
  <2> HIDE DEF r
  <2> QED  BY <1>1, <1>2, <1>4, <1>5, <1>6, <2>8, <2>9, SentKept
<1>8. CASE runtime.status # "failed"
  <2>1. UNCHANGED <<proj, clients>>
    BY <1>8 DEF RunTaskDone
  <2>2. worker'.tick = worker.tick /\ worker'.stack = worker.stack
    BY <1>3
  <2>3. Sound(proj, calls)'
    BY <1>1, <1>2, <1>5, <2>1, <2>2, SoundStays
  <2>4. Watched' /\ ClientTypes'
    BY <2>1 DEF Live, Watched, ClientTypes
  <2>5. Types'
    BY <1>1, <1>3, <2>1 DEF Types
  <2>6. Live'
    BY <1>1, <1>4, <1>6, <2>3, <2>4 DEF Live
  <2> QED  BY <2>4, <2>5, <2>6 DEF Kept
<1> QED  BY <1>7, <1>8

(* The match is retired: its prefix is kept only for a browser that never  *)
(* came.                                                                   *)
LEMMA StepRetire ==
    ASSUME Types, ClientTypes, Live, Retire
    PROVE  Kept
<1>1. /\ LoopFree /\ worker.phase = "reaped" /\ session' = FALSE
      /\ late' = [late EXCEPT !.token = ~late.seen]
      /\ proj' = [EmptyProjection EXCEPT !.history = IF late.seen THEN {} ELSE proj.history]
      /\ UNCHANGED <<worker, runtime, calls, handler, clients, published>>
  BY DEF Retire
<1>2. worker.stack = <<>> /\ calls = <<>>
  BY <1>1 DEF Live, WorkerInv, Phased, Commanded
<1>3. proj \in BufferSet /\ WellFormed(proj.history)
  BY DEF Live, Sound
<1>4. proj' \in BufferSet /\ proj'.history = IF late.seen THEN {} ELSE proj.history
  BY <1>1, <1>3 DEF EmptyProjection, BufferSet
<1>5. WellFormed({})
  BY FS_EmptySet DEF WellFormed, Ordered, StatusesOf
<1>6. WellFormed(proj'.history)
  BY <1>3, <1>4, <1>5
<1>7. \A c \in Clients : Follows(clients[c].tab, proj.history) /\ Fine(clients[c].tab)
  BY <1>3, FollowingIsFine DEF Live, Watched
<1>8. late' \in [seen : BOOLEAN, token : BOOLEAN]
  BY <1>1 DEF Types
<1>9. Types' /\ ClientTypes'
  BY <1>1, <1>4, <1>8 DEF Types, ClientTypes
<1>10. Retired'
  <2>1. handler' # "resumed"
    BY <1>1 DEF LoopFree
  <2>2. \/ \A c \in Clients : Follows(clients'[c].tab, proj'.history)
        \/ proj'.history = {} /\ \A c \in Clients : Fine(clients'[c].tab)
    BY <1>1, <1>4, <1>7
  <2> QED  BY <1>1, <1>2, <1>6, <2>1, <2>2 DEF Retired
<1> QED  BY <1>9, <1>10 DEF Kept
-----------------------------------------------------------------------------
(* The steps of the worker.                                                *)

\* The worker moves without a call.
LEMMA WorkerKept ==
    ASSUME Types, ClientTypes, Live, Commanded', WorkerInv(calls)', Sound(proj, calls)',
           worker' \in [phase : {"admitted", "ticking", "checkpoint", "ending", "done", "reaped"},
                        tick : Nat, seq : Nat, stack : Seq(BusFrames)],
           runtime' \in [status : Conditions, rev : Nat, stop : BOOLEAN],
           calls' \in Seq(BusFrames), published' \in SUBSET BusFrames,
           UNCHANGED <<proj, session, late, clients>>
    PROVE  Kept
<1>1. Types' /\ ClientTypes' /\ Watched'
  BY DEF Types, ClientTypes, Live, Watched
<1>2. Live'
  BY <1>1 DEF Live
<1> QED  BY <1>1, <1>2 DEF Kept

(* The worker comes to the boundary of a tick.                             *)
LEMMA StepAtCheckpoint ==
    ASSUME Types, ClientTypes, Live, AtCheckpoint
    PROVE  Kept
<1>1. /\ worker.phase = "ticking" /\ worker.stack = <<>>
      /\ worker' = [worker EXCEPT !.phase = "checkpoint"]
      /\ UNCHANGED <<runtime, calls, proj, session, late, handler, clients, published>>
  BY DEF AtCheckpoint
<1>2. worker' = [phase |-> "checkpoint", tick |-> worker.tick, seq |-> worker.seq,
                 stack |-> worker.stack]
  BY <1>1 DEF Types
<1>3. WorkerInv(calls)'
  <2>1. Emitted'
    BY <1>1, <1>2 DEF Live, WorkerInv, Emitted
  <2>2. Phased'
    BY <1>1, <1>2 DEF Live, WorkerInv, Phased
  <2>3. Nested' /\ Queued(calls)'
    BY <1>1, <1>2 DEF Live, WorkerInv, Nested, Queued
  <2> QED  BY <2>1, <2>2, <2>3 DEF WorkerInv
<1>4. Sound(proj, calls)'
  <2>1. Ticking' => Ticking
    BY <1>1 DEF Ticking
  <2>2. worker'.tick = worker.tick /\ worker'.stack = worker.stack
    BY <1>2
  <2> QED  BY <1>1, <2>1, <2>2, SoundStays DEF Live
<1>5. Commanded'
  BY <1>1, <1>2 DEF Live, Commanded
<1> QED  BY <1>1, <1>2, <1>3, <1>4, <1>5, WorkerKept DEF Types

(* A runtime that does not run is refused.                                 *)
LEMMA StepRunRefused ==
    ASSUME Types, ClientTypes, Live, RunRefused
    PROVE  Kept
<1>1. /\ worker.phase = "admitted"
      /\ worker' = [worker EXCEPT !.phase = "done"]
      /\ UNCHANGED <<runtime, calls, proj, session, late, handler, clients, published>>
  BY DEF RunRefused
<1>2. worker' = [phase |-> "done", tick |-> worker.tick, seq |-> worker.seq,
                 stack |-> worker.stack]
  BY <1>1 DEF Types
<1>3. WorkerInv(calls)'
  <2>1. Emitted'
    BY <1>1, <1>2 DEF Live, WorkerInv, Emitted
  <2>2. Phased'
    BY <1>1, <1>2 DEF Live, WorkerInv, Phased
  <2>3. Nested' /\ Queued(calls)'
    BY <1>1, <1>2 DEF Live, WorkerInv, Nested, Queued
  <2> QED  BY <2>1, <2>2, <2>3 DEF WorkerInv
<1>4. Sound(proj, calls)'
  <2>1. Ticking' => Ticking
    BY <1>1, <1>2 DEF Ticking
  <2>2. worker'.tick = worker.tick /\ worker'.stack = worker.stack
    BY <1>2
  <2> QED  BY <1>1, <2>1, <2>2, SoundStays DEF Live
<1>5. Commanded'
  <2>1. ~(runtime.status = "paused" /\ handler = "idle")
    BY <1>1 DEF Live, Commanded
  <2> QED  BY <1>1, <1>2, <2>1 DEF Live, Commanded
<1> QED  BY <1>1, <1>2, <1>3, <1>4, <1>5, WorkerKept DEF Types

(* The worker returns from a match that ended.                             *)
LEMMA StepWorkerReturns ==
    ASSUME Types, ClientTypes, Live, WorkerReturns
    PROVE  Kept
<1>1. /\ worker.phase = "ending" /\ worker.stack = <<>>
      /\ worker' = [worker EXCEPT !.phase = "done"]
      /\ UNCHANGED <<runtime, calls, proj, session, late, handler, clients, published>>
  BY DEF WorkerReturns
<1>2. worker' = [phase |-> "done", tick |-> worker.tick, seq |-> worker.seq,
                 stack |-> worker.stack]
  BY <1>1 DEF Types
<1>3. WorkerInv(calls)'
  <2>1. Emitted'
    BY <1>1, <1>2 DEF Live, WorkerInv, Emitted
  <2>2. Phased'
    BY <1>1, <1>2 DEF Live, WorkerInv, Phased
  <2>3. Nested' /\ Queued(calls)'
    BY <1>1, <1>2 DEF Live, WorkerInv, Nested, Queued
  <2> QED  BY <2>1, <2>2, <2>3 DEF WorkerInv
<1>4. Sound(proj, calls)'
  <2>1. Ticking' => Ticking
    BY <1>1 DEF Ticking
  <2>2. worker'.tick = worker.tick /\ worker'.stack = worker.stack
    BY <1>2
  <2> QED  BY <1>1, <2>1, <2>2, SoundStays DEF Live
<1>5. Commanded'
  BY <1>1, <1>2 DEF Live, Commanded
<1> QED  BY <1>1, <1>2, <1>3, <1>4, <1>5, WorkerKept DEF Types

(* The worker raises, and the runtime has failed.                          *)
LEMMA StepWorkerRaises ==
    ASSUME Types, ClientTypes, Live, WorkerRaises
    PROVE  Kept
<1>1. /\ worker.phase = "ticking" /\ worker.stack = <<>>
      /\ worker' = [worker EXCEPT !.phase = "done"]
      /\ runtime' = [runtime EXCEPT !.status = "failed", !.rev = @ + 1]
      /\ UNCHANGED <<calls, proj, session, late, handler, clients, published>>
  BY DEF WorkerRaises
<1>2. /\ worker' = [phase |-> "done", tick |-> worker.tick, seq |-> worker.seq,
                    stack |-> worker.stack]
      /\ runtime' = [status |-> "failed", rev |-> runtime.rev + 1, stop |-> runtime.stop]
  BY <1>1 DEF Types
<1>3. ~Terminal(runtime.status) /\ \A e \in published : ~Closing(e)
  BY <1>1 DEF Live, WorkerInv, Phased, Emitted
<1>4. WorkerInv(calls)'
  <2>1. Emitted'
    BY <1>1, <1>2 DEF Live, WorkerInv, Emitted
  <2>2. Phased'
    BY <1>1, <1>2, <1>3 DEF Live, WorkerInv, Phased, Closing
  <2>3. Nested'
    BY <1>1, <1>2 DEF Live, WorkerInv, Nested
  <2>4. Queued(calls)'
    BY <1>1, <1>2, <1>3 DEF Live, WorkerInv, Queued, Closing
  <2> QED  BY <2>1, <2>2, <2>3, <2>4 DEF WorkerInv
<1>5. Sound(proj, calls)'
  <2>1. Ticking' => Ticking
    BY <1>1, <1>2 DEF Ticking
  <2>2. worker'.tick = worker.tick /\ worker'.stack = worker.stack /\ runtime'.rev = runtime.rev + 1
    BY <1>2
  <2> QED  BY <1>1, <1>3, <2>1, <2>2, SoundRevised DEF Live
<1>6. Commanded'
  BY <1>1, <1>2 DEF Live, Commanded
<1> QED  BY <1>1, <1>2, <1>4, <1>5, <1>6, WorkerKept DEF Types, Conditions

(* The browser subscriber marks the runtime ended.                         *)
LEMMA StepMarkEnded ==
    ASSUME Types, ClientTypes, Live, MarkEnded
    PROVE  Kept
<1>1. /\ worker.stack # <<>> /\ Last(worker.stack).kind = "ended"
      /\ runtime.status \in {"running", "paused"}
      /\ runtime' = [runtime EXCEPT !.status = "ended", !.rev = @ + 1]
      /\ UNCHANGED <<worker, calls, proj, session, late, handler, clients, published>>
  BY DEF MarkEnded
<1>2. runtime' = [status |-> "ended", rev |-> runtime.rev + 1, stop |-> runtime.stop]
  BY <1>1 DEF Types
<1>3. worker.phase = "ending" /\ ~Terminal(runtime.status)
  <2>1. worker.stack \in Seq(BusFrames)
    BY DEF Types
  <2>2. Len(worker.stack) \in DOMAIN worker.stack
    BY <1>1, <2>1
  <2>3. Last(worker.stack) \in published
    BY <2>2 DEF Live, WorkerInv, Nested, Last
  <2>4. worker.phase \in {"ending", "done", "reaped"}
    BY <1>1, <2>3 DEF Live, WorkerInv, Emitted, Closing
  <2> QED  BY <1>1, <2>4 DEF Live, WorkerInv, Phased, Terminal
<1>4. WorkerInv(calls)'
  <2>1. Emitted' /\ Nested'
    BY <1>1 DEF Live, WorkerInv, Emitted, Nested
  <2>2. Phased'
    BY <1>1, <1>2, <1>3 DEF Live, WorkerInv, Phased
  <2>3. Queued(calls)'
    BY <1>1, <1>2 DEF Live, WorkerInv, Queued
  <2> QED  BY <2>1, <2>2, <2>3 DEF WorkerInv
<1>5. Sound(proj, calls)'
  <2>1. Ticking' => Ticking
    BY <1>3 DEF Ticking
  <2>2. worker'.tick = worker.tick /\ worker'.stack = worker.stack /\ runtime'.rev = runtime.rev + 1
    BY <1>1, <1>2
  <2> QED  BY <1>1, <1>3, <2>1, <2>2, SoundRevised DEF Live
<1>6. Commanded'
  BY <1>1, <1>2 DEF Live, Commanded
<1> QED  BY <1>1, <1>2, <1>4, <1>5, <1>6, WorkerKept DEF Types, Conditions
\* An event that the worker may stamp now, and its phase in the dispatch.
Newcomer(e, phase) ==
    /\ e \in BusFrames /\ e.kind # "started"
    /\ \/ /\ worker.phase \in {"ticking", "ending"}
          /\ e.tick = worker.tick /\ e.seq = worker.seq
          /\ \/ phase = worker.phase
             \/ worker.phase = "ticking" /\ phase = "ending" /\ e.kind = "ended"
       \/ /\ worker.phase = "checkpoint" /\ phase = "ticking"
          /\ runtime.status = "running"
          /\ e.kind = "game" /\ e.tick = worker.tick + 1 /\ e.seq = 0
    /\ Closing(e) => phase = "ending"
    /\ e.kind = "ended" => worker.phase = "ticking" /\ e.tick > 0
    /\ Late(e) => \A f \in published : f.kind # e.kind
    /\ Late(e) \/ \A i \in DOMAIN worker.stack : ~Closing(worker.stack[i])
    /\ Late(e) => \E j \in DOMAIN worker.stack : worker.stack[j].kind = "ended"
    /\ e.kind = "promoted" => \E f \in published : f.kind = "scored"

Called(e, phase) ==
    /\ worker' = [phase |-> phase, tick |-> e.tick, seq |-> e.seq + 1,
                  stack |-> Append(worker.stack, e)]
    /\ published' = published \union {e}
    /\ UNCHANGED <<runtime, calls, proj, session, late, handler, clients>>

(* A new event is behind every event published.                            *)
LEMMA NewcomerIsLast ==
    ASSUME Types, WorkerInv(calls), NEW e, NEW phase, Newcomer(e, phase)
    PROVE  /\ e.tick \in Nat /\ e.seq \in Nat /\ worker.tick \in Nat
           /\ worker.tick <= e.tick
           /\ \A f \in published :
                /\ Before(f, e) /\ ~Before(e, f) /\ f # e
                /\ f.tick < e.tick \/ (f.tick = e.tick /\ f.seq < e.seq)
<1>1. e \in Frames /\ e.tick \in Nat /\ e.seq \in Nat /\ worker.tick \in Nat /\ worker.seq \in Nat
  BY FrameNumbers DEF Newcomer, Types, Frames
<1>2. \/ e.tick = worker.tick /\ e.seq = worker.seq
      \/ e.tick = worker.tick + 1 /\ e.seq = 0
  BY DEF Newcomer
<1>3. ASSUME NEW f \in published
      PROVE  /\ Before(f, e) /\ ~Before(e, f) /\ f # e
             /\ f.tick < e.tick \/ (f.tick = e.tick /\ f.seq < e.seq)
  <2>1. f \in Frames /\ f.tick \in Nat /\ f.seq \in Nat
    BY BusFacts, FrameNumbers
  <2>2. f.tick < worker.tick \/ (f.tick = worker.tick /\ f.seq < worker.seq)
    BY DEF WorkerInv, Emitted
  <2>3. f.tick < e.tick \/ (f.tick = e.tick /\ f.seq < e.seq)
    BY <1>1, <1>2, <2>1, <2>2
  <2>4. Before(f, e)
    BY <2>1, <2>3 DEF Before
  <2> QED  BY <1>1, <2>1, <2>3, <2>4, BeforeOrders
<1> QED  BY <1>1, <1>2, <1>3

(* The dispatches under way with one more on top.                          *)
LEMMA StackGrows ==
    ASSUME Types, NEW e \in BusFrames
    PROVE  LET stack == Append(worker.stack, e)
               n == Len(worker.stack)
           IN  /\ stack \in Seq(BusFrames) /\ n \in Nat
               /\ DOMAIN stack = 1 .. n + 1 /\ DOMAIN worker.stack = 1 .. n
               /\ \A i \in DOMAIN worker.stack : i \in DOMAIN stack /\ stack[i] = worker.stack[i]
               /\ n + 1 \in DOMAIN stack /\ stack[n + 1] = e
               /\ \A i \in DOMAIN stack : i \in DOMAIN worker.stack \/ i = n + 1
               /\ ToSet(stack) = ToSet(worker.stack) \union {e}
<1> DEFINE stack == Append(worker.stack, e)
           n == Len(worker.stack)
<1>1. worker.stack \in Seq(BusFrames)
  BY DEF Types
<1>2. /\ stack \in Seq(BusFrames) /\ n \in Nat
      /\ DOMAIN stack = 1 .. n + 1 /\ DOMAIN worker.stack = 1 .. n
  BY <1>1
<1>3. /\ \A i \in 1 .. n : i \in 1 .. n + 1 /\ stack[i] = worker.stack[i]
      /\ n + 1 \in 1 .. n + 1 /\ stack[n + 1] = e
      /\ \A i \in 1 .. n + 1 : i \in 1 .. n \/ i = n + 1
  BY <1>1, <1>2
<1> HIDE DEF stack, n
<1>4. ToSet(stack) = ToSet(worker.stack) \union {e}
  BY <1>2, <1>3 DEF ToSet
<1> QED  BY <1>2, <1>3, <1>4 DEF stack, n

(* Publishing an event keeps the worker's invariant.                       *)
LEMMA CallWorker ==
    ASSUME Types, WorkerInv(calls), NEW e, NEW phase, Newcomer(e, phase), Called(e, phase)
    PROVE  WorkerInv(calls)'
<1> DEFINE stack == Append(worker.stack, e)
           n == Len(worker.stack)
<1>1. /\ e.tick \in Nat /\ e.seq \in Nat /\ worker.tick \in Nat /\ worker.tick <= e.tick
      /\ \A f \in published :
           /\ Before(f, e) /\ ~Before(e, f) /\ f # e
           /\ f.tick < e.tick \/ (f.tick = e.tick /\ f.seq < e.seq)
  BY NewcomerIsLast
<1>2. e \in BusFrames
  BY DEF Newcomer
<1>3. /\ n \in Nat /\ DOMAIN stack = 1 .. n + 1 /\ DOMAIN worker.stack = 1 .. n
      /\ \A i \in DOMAIN worker.stack : i \in DOMAIN stack /\ stack[i] = worker.stack[i]
      /\ n + 1 \in DOMAIN stack /\ stack[n + 1] = e
      /\ \A i \in DOMAIN stack : i \in DOMAIN worker.stack \/ i = n + 1
  BY <1>2, StackGrows
<1> HIDE DEF stack, n
<1>4. /\ worker'.phase = phase /\ worker'.tick = e.tick /\ worker'.seq = e.seq + 1
      /\ worker'.stack = stack
      /\ published' = published \union {e} /\ runtime' = runtime /\ calls' = calls
  BY DEF Called, stack
<1>5. Emitted /\ Phased /\ Nested /\ Queued(calls)
  BY DEF WorkerInv
<1>6. published # {} /\ Started \in published
  BY <1>5 DEF Phased, Emitted, Newcomer
<1>7. \A f \in published : Closing(f) => worker.phase = "ending" /\ f.tick = e.tick
      /\ phase = "ending"
  BY <1>5 DEF Emitted, Newcomer
<1>8. e.kind = "ended" => \A f \in published : f.kind # "ended"
  BY <1>7 DEF Newcomer, Closing
<1>9. Emitted'
  <2>1. \A f \in published \union {e} :
          \/ f.tick < e.tick
          \/ f.tick = e.tick /\ f.seq < e.seq + 1
    <3>1. \A f \in published : f.seq \in Nat
      BY BusFacts, FrameNumbers
    <3> QED  BY <1>1, <3>1
  <2>2. \A f, g \in published \union {e} : f.tick = g.tick /\ f.seq = g.seq => f = g
    <3>1. \A f \in published : ~(f.tick = e.tick /\ f.seq = e.seq)
      BY <1>1
    <3> QED  BY <1>5, <3>1 DEF Emitted
  <2>3. \A f \in published \union {e} : f.kind = "started" => f = Started
    BY <1>5 DEF Emitted, Newcomer
  <2>4. \A f \in published \union {e} : Closing(f) => phase = "ending" /\ f.tick = e.tick
    BY <1>7 DEF Newcomer
  <2>5. \A f \in published \union {e} : f.kind = "ended" => f.tick > 0 /\ f.seq > 0
    <3>1. e.kind = "ended" => e.tick > 0 /\ e.seq > 0
      BY <1>1, <1>5 DEF Newcomer, Phased
    <3> QED  BY <1>5, <3>1 DEF Emitted
  <2>6. \A f, g \in published \union {e} : Closing(f) /\ f.kind = g.kind => f = g
    <3>1. Closing(e) => \A f \in published : f.kind # e.kind
      BY <1>8 DEF Newcomer, Closing, Late
    <3>2. \A f, g : Closing(f) /\ f.kind = g.kind => Closing(g)
      BY DEF Closing
    <3> QED  BY <1>5, <3>1, <3>2 DEF Emitted
  <2>7. \A f \in published \union {e} : f.kind = "scored" =>
          \E d \in published \union {e} : d.kind = "ended"
    <3>1. e.kind = "scored" => \E d \in published : d.kind = "ended"
      BY <1>5 DEF Newcomer, Nested, Late
    <3> QED  BY <1>5, <3>1 DEF Emitted
  <2>8. \A f \in published \union {e} : f.kind = "promoted" =>
          \E g \in published \union {e} : g.kind = "scored" /\ Before(g, f)
    <3>1. e.kind = "promoted" => \E g \in published : g.kind = "scored" /\ Before(g, e)
      BY <1>1 DEF Newcomer
    <3> QED  BY <1>5, <3>1 DEF Emitted
  <2> QED  BY <1>4, <1>6, <2>1, <2>2, <2>3, <2>4, <2>5, <2>6, <2>7, <2>8 DEF Emitted
<1>10. Phased'
  <2>1. phase \in {"ticking", "ending"} /\ e.seq + 1 > 0 /\ published' # {}
    BY <1>1, <1>4 DEF Newcomer
  <2>2. phase = "ending" => e.tick > 0
    BY <1>1, <1>5 DEF Newcomer, Phased
  <2>3. Terminal(runtime.status) => phase = "ending" /\ e.kind # "ended"
    BY <1>5 DEF Newcomer, Phased, Terminal
  <2>4. runtime.status = "failed" => \A f \in published' : f.kind # "ended"
    BY <1>4, <1>5, <2>3 DEF Phased, Terminal
  <2> QED  BY <1>4, <2>1, <2>2, <2>3, <2>4 DEF Phased
<1>11. Nested'
  <2>1. \A i \in DOMAIN worker.stack :
          /\ worker.stack[i] \in published /\ worker.stack[i].tick = worker.tick
          /\ worker.stack[i].tick = e.tick /\ worker.stack[i].seq < e.seq
    <3> SUFFICES ASSUME NEW i \in DOMAIN worker.stack
                 PROVE  /\ worker.stack[i] \in published /\ worker.stack[i].tick = worker.tick
                        /\ worker.stack[i].tick = e.tick /\ worker.stack[i].seq < e.seq
      OBVIOUS
    <3>1. worker.stack[i] \in published /\ worker.stack[i].tick = worker.tick
      BY <1>5 DEF Nested
    <3>2. worker.phase \in {"ticking", "ending"}
      <4>1. worker.stack # <<>>
        BY <1>3
      <4> QED  BY <1>5, <4>1 DEF Phased
    <3>3. e.tick = worker.tick
      BY <3>2 DEF Newcomer
    <3>4. ~(worker.stack[i].tick < e.tick)
      BY <1>1, <3>1, <3>3
    <3> QED  BY <1>1, <3>1, <3>3, <3>4
  <2>2. \A i \in DOMAIN stack : stack[i] \in published' /\ stack[i].tick = e.tick
    BY <1>3, <1>4, <2>1
  <2>3. ASSUME NEW i \in DOMAIN stack, NEW j \in DOMAIN stack, i < j
        PROVE  stack[i].seq < stack[j].seq /\ (Closing(stack[i]) => Late(stack[j]))
    <3>1. i \in DOMAIN worker.stack
      BY <1>3, <2>3
    <3>2. CASE j \in DOMAIN worker.stack
      BY <1>3, <1>5, <2>3, <3>1, <3>2 DEF Nested
    <3>3. CASE j = n + 1
      BY <1>3, <2>1, <3>1, <3>3 DEF Newcomer
    <3> QED  BY <1>3, <3>2, <3>3
  <2>4. ASSUME NEW i \in DOMAIN stack, Late(stack[i])
        PROVE  \E j \in DOMAIN stack : stack[j].kind = "ended"
    <3>1. \E j \in DOMAIN worker.stack : worker.stack[j].kind = "ended"
      BY <1>3, <1>5, <2>4 DEF Newcomer, Nested
    <3> QED  BY <1>3, <3>1
  <2> QED  BY <1>4, <2>2, <2>3, <2>4 DEF Nested
<1>12. Queued(calls)'
  <2>1. \A i \in DOMAIN calls : calls[i] \in published /\ calls[i] # e
    BY <1>1, <1>5 DEF Queued
  <2>2. \A i \in DOMAIN calls, j \in DOMAIN stack : calls[i] # stack[j]
    BY <1>3, <1>5, <2>1 DEF Queued
  <2> QED  BY <1>4, <1>5, <2>1, <2>2 DEF Queued
<1> QED  BY <1>9, <1>10, <1>11, <1>12 DEF WorkerInv
(* Publishing an event keeps the buffers sound.                            *)
LEMMA CallBuffers ==
    ASSUME Types, WorkerInv(calls), Sound(proj, calls), NEW e, NEW phase,
           Newcomer(e, phase), Called(e, phase)
    PROVE  Sound(proj, calls)'
<1> DEFINE stack == Append(worker.stack, e)
           p == proj
           q == calls
<1>1. /\ e.tick \in Nat /\ e.seq \in Nat /\ worker.tick \in Nat /\ worker.tick <= e.tick
      /\ \A f \in published :
           /\ Before(f, e) /\ ~Before(e, f) /\ f # e
           /\ f.tick < e.tick \/ (f.tick = e.tick /\ f.seq < e.seq)
  BY NewcomerIsLast
<1>2. e \in BusFrames /\ e \in Frames /\ e.kind # "status" /\ e.kind # "started"
  BY DEF Newcomer, BusFrames, Frames
<1>3. ToSet(stack) = ToSet(worker.stack) \union {e}
  BY <1>2, StackGrows
<1> HIDE DEF stack
<1>4. /\ worker'.phase = phase /\ worker'.tick = e.tick /\ worker'.stack = stack
      /\ published' = published \union {e} /\ runtime' = runtime
      /\ calls' = q /\ proj' = p
  BY DEF Called, stack
<1>5. Coming(calls)' = Coming(q) \union {e}
  BY <1>3, <1>4 DEF Coming
<1>6. p \in BufferSet /\ Buffered(p, q) /\ Keyed(p) /\ Opening(p, q)
  BY DEF Sound
<1>7. published # {}
  BY DEF WorkerInv, Phased, Newcomer
<1>8. \A h \in Held(p) : h \in Frames /\ h.tick \in Nat /\ h.seq \in Nat /\ h.id \in Nat
                         /\ h.tick <= worker.tick
  BY <1>6, FrameNumbers DEF Buffered, Held, BufferSet
<1> HIDE DEF p, q
<1>9. \A h \in Held(p) : h.kind = "status" \/ h \in published
  BY <1>6 DEF Buffered, BusEvents
<1>10. Buffered(proj, calls)'
  <2>1. \A f \in Coming(q) \union {e} : f \notin Held(p) \union p.quarantined
    BY <1>1, <1>2, <1>6, <1>9 DEF Buffered
  <2>2. \A h \in Held(p) : h.tick <= e.tick
    BY <1>1, <1>8
  <2>3. p.tick # None => p.tick <= e.tick
    <3>1. p.tick # None => p.tick \in Nat /\ p.tick <= worker.tick
      BY <1>6 DEF Buffered, BufferSet
    <3> QED  BY <1>1, <3>1
  <2>4. BusEvents(Held(p)) \subseteq published' /\ p.quarantined \subseteq published'
    BY <1>4, <1>6 DEF Buffered
  <2> QED  BY <1>4, <1>5, <1>6, <2>1, <2>2, <2>3, <2>4 DEF Buffered, Held, BusEvents
<1>11. Keyed(proj)'
  BY <1>4, <1>6 DEF Keyed, Held, StatusesOf
<1>12. Opening(proj, calls)'
  BY <1>4, <1>5, <1>6, <1>7 DEF Opening, StatusesOf
<1>13. Running(proj, calls)'
  <2>1. CASE Finished(p.history)
    BY <1>4, <2>1 DEF Running, Finished
  <2>2. CASE ~Finished(p.history)
    <3>1. Apart(p) /\ InOrder(p, q) /\ StatusPlaces(p) /\ ScoreKept(p, q) /\ TerminalLast(p, q)
      BY <2>2 DEF Sound, Running, p, q
    <3>2. Apart(proj)'
      BY <1>4, <3>1 DEF Apart, Finished
    <3>3. \A s \in StatusesOf(Held(p)) : e.tick = worker.tick /\ s.tick = e.tick =>
             s.seq = 0 \/ (worker.tick = 0 /\ s \in p.pending)
      <4>1. e.tick = worker.tick => Ticking
        BY <1>1 DEF Newcomer, Ticking
      <4> QED  BY <3>1, <4>1 DEF StatusPlaces
    <3>4. e.tick = worker.tick => e.seq > 0
      BY <1>1 DEF Newcomer, WorkerInv, Phased
    <3>5. ASSUME NEW h \in Held(p), h \in p.history \/ worker.tick > 0 PROVE Before(h, e)
      <4>1. CASE h.kind # "status"
        BY <1>1, <1>9, <4>1
      <4>2. CASE h.kind = "status" /\ h.tick < e.tick
        BY <1>1, <1>8, <4>2 DEF Before
      <4>3. CASE h.kind = "status" /\ ~(h.tick < e.tick)
        <5>1. h.tick = e.tick /\ e.tick = worker.tick
          BY <1>1, <1>8, <4>3
        <5>2. h \in StatusesOf(Held(p))
          BY <4>3 DEF StatusesOf
        <5>3. h \in p.history => h \notin p.pending
          BY <1>8, <3>1, BeforeOrders DEF Apart
        <5>4. h.seq = 0
          BY <1>1, <3>3, <3>5, <5>1, <5>2, <5>3
        <5> QED  BY <1>1, <1>8, <3>4, <5>1, <5>4 DEF Before
      <4> QED  BY <4>1, <4>2, <4>3
    <3>6. InOrder(proj, calls)'
      <4>1. \A h \in p.history : Before(h, e)
        BY <3>5 DEF Held
      <4> QED  BY <1>4, <1>5, <3>1, <4>1 DEF InOrder
    <3>7. StatusPlaces(proj)'
      <4> SUFFICES ASSUME NEW s \in StatusesOf(Held(p)), s.tick = e.tick
                   PROVE  s.seq = 0 \/ (e.tick = 0 /\ s \in p.pending)
        BY <1>4 DEF StatusPlaces, StatusesOf, Held
      <4>1. s.tick <= worker.tick /\ s.tick \in Nat
        BY <1>8 DEF StatusesOf
      <4>2. e.tick = worker.tick
        BY <1>1, <4>1
      <4> QED  BY <3>3, <4>2
    <3>8. ScoreKept(proj, calls)'
      <4>1. e \in ToSet(stack) /\ ToSet(worker.stack) \subseteq ToSet(stack)
        BY <1>3
      <4> QED  BY <1>4, <3>1, <4>1 DEF ScoreKept, Held
    <3>9. ASSUME e.kind = "ended"
          PROVE  /\ \A f \in p.pending : ~Before(e, f)
                 /\ \A i \in DOMAIN q : ~Before(e, q[i])
      <4>1. e.tick = worker.tick /\ worker.tick > 0
        BY <3>9 DEF Newcomer
      <4>2. ASSUME NEW f \in p.pending PROVE ~Before(e, f)
        <5>1. f \in Held(p) /\ Before(f, e)
          BY <3>5, <4>1 DEF Held
        <5> QED  BY <1>2, <1>8, <5>1, BeforeOrders
      <4>3. \A i \in DOMAIN q : q[i] \in published
        BY DEF WorkerInv, Queued, q
      <4> QED  BY <1>1, <4>2, <4>3
    <3>10. TerminalLast(proj, calls)'
      BY <1>4, <1>5, <3>1, <3>9 DEF TerminalLast
    <3> QED  BY <3>2, <3>6, <3>7, <3>8, <3>10 DEF Running
  <2> QED  BY <2>1, <2>2
<1>14. Closed(proj, calls)'
  <2>1. CASE Finished(p.history)
    <3>1. runtime.status = "ended" /\ <<runtime.rev, "ended">> \in p.keys
          /\ (\A f \in Coming(q) : f.tick = worker.tick) /\ p.tick \in {None, worker.tick}
      BY <2>1 DEF Sound, Closed, p, q
    <3>2. e.tick = worker.tick
      BY <3>1 DEF Newcomer
    <3> QED  BY <1>4, <1>5, <3>1, <3>2 DEF Closed
  <2>2. CASE ~Finished(p.history)
    BY <1>4, <2>2 DEF Closed, Finished
  <2> QED  BY <2>1, <2>2
<1>15. (proj \in BufferSet)' /\ WellFormed(proj.history)'
  BY <1>4 DEF Sound, p
<1> QED  BY <1>10, <1>11, <1>12, <1>13, <1>14, <1>15 DEF Sound

(* Publishing an event keeps the invariant.                                *)
LEMMA CallKept ==
    ASSUME Types, ClientTypes, Live, NEW e, NEW phase, Newcomer(e, phase), Called(e, phase)
    PROVE  Kept
<1>1. WorkerInv(calls)' /\ Sound(proj, calls)'
  BY CallWorker, CallBuffers DEF Live
<1>2. /\ worker' = [phase |-> phase, tick |-> e.tick, seq |-> e.seq + 1,
                    stack |-> Append(worker.stack, e)]
      /\ published' = published \union {e}
      /\ UNCHANGED <<runtime, calls, proj, session, late, handler, clients>>
  BY DEF Called
<1>3. e.tick \in Nat /\ e.seq \in Nat /\ worker.tick \in Nat
  BY NewcomerIsLast DEF Live
<1>4. e \in BusFrames /\ phase \in {"ticking", "ending"}
  BY DEF Newcomer
<1>5. Append(worker.stack, e) \in Seq(BusFrames)
  BY <1>4, StackGrows
<1>6. Commanded'
  <2>1. ~(runtime.status = "paused" /\ handler = "idle")
    BY DEF Live, Commanded, Newcomer
  <2>2. ASSUME handler = "resumed" PROVE \A h \in proj.history : h.tick < e.tick
    <3> SUFFICES ASSUME NEW h \in proj.history PROVE h.tick < e.tick
      OBVIOUS
    <3>1. h.tick \in Nat /\ h.tick <= worker.tick
      BY FrameNumbers DEF Live, Sound, Buffered, Held, BufferSet
    <3>2. CASE worker.phase = "checkpoint"
      <4>1. e.tick = worker.tick + 1
        BY <3>2 DEF Newcomer
      <4> QED  BY <1>3, <3>1, <4>1
    <3>3. CASE worker.phase # "checkpoint"
      <4>1. e.tick = worker.tick /\ h.tick < worker.tick
        BY <2>2, <3>3 DEF Newcomer, Live, Commanded
      <4> QED  BY <4>1
    <3> QED  BY <3>2, <3>3
  <2>3. worker'.phase = phase /\ worker'.tick = e.tick
    BY <1>2
  <2> QED  BY <1>2, <1>4, <2>1, <2>2, <2>3 DEF Live, Commanded
<1>7. /\ worker' \in [phase : {"admitted", "ticking", "checkpoint", "ending", "done", "reaped"},
                      tick : Nat, seq : Nat, stack : Seq(BusFrames)]
      /\ published' \in SUBSET BusFrames
      /\ runtime' \in [status : Conditions, rev : Nat, stop : BOOLEAN]
      /\ calls' \in Seq(BusFrames)
  BY <1>2, <1>3, <1>4, <1>5 DEF Types
<1> QED  BY <1>1, <1>2, <1>6, <1>7, WorkerKept
(* The innermost dispatch is the last of the stack.                        *)
LEMMA LastFacts ==
    ASSUME Types, worker.stack # <<>>
    PROVE  /\ Len(worker.stack) \in DOMAIN worker.stack /\ Len(worker.stack) \in Nat
           /\ Last(worker.stack) = worker.stack[Len(worker.stack)]
           /\ \A i \in DOMAIN worker.stack : i \in Nat /\ (i = Len(worker.stack) \/ i < Len(worker.stack))
<1>1. worker.stack \in Seq(BusFrames)
  BY DEF Types
<1> QED  BY <1>1 DEF Last

\* Only a closing event is above a closing one.
LEMMA LastCloses ==
    ASSUME Types, Live, worker.stack # <<>>, ~Closing(Last(worker.stack))
    PROVE  \A i \in DOMAIN worker.stack : ~Closing(worker.stack[i])
<1>1. \A i \in DOMAIN worker.stack : i < Len(worker.stack) /\ Closing(worker.stack[i])
        => Late(Last(worker.stack))
  BY LastFacts DEF Live, WorkerInv, Nested
<1>2. ~Late(Last(worker.stack))
  BY DEF Closing, Late
<1> QED  BY <1>1, <1>2, LastFacts

(* What Call does, with its event named.                                   *)
LEMMA CallIs ==
    ASSUME NEW kind, NEW t, NEW n, NEW phase, Call(kind, t, n, phase)
    PROVE  Called(BusEvent(kind, t, n), phase)
<1> DEFINE e == BusEvent(kind, t, n)
<1>1. e.tick = t /\ e.seq = n
  BY DEF BusEvent
<1> HIDE DEF e
<1> QED  BY <1>1 DEF Call, Called, e

(* A stamped event is a frame of the bus.                                  *)
LEMMA EventIs ==
    ASSUME NEW kind \in {"started", "game", "ended", "scored", "promoted"},
           NEW t \in Nat, NEW n \in Nat
    PROVE  LET e == BusEvent(kind, t, n)
           IN  e \in BusFrames /\ e.kind = kind /\ e.tick = t /\ e.seq = n
BY DEF BusEvent, BusFrames

(* The runner opens a tick.                                                *)
LEMMA StepPublishTick ==
    ASSUME Types, ClientTypes, Live, PublishTick
    PROVE  Kept
<1> DEFINE e == BusEvent("game", worker.tick + 1, 0)
<1>1. worker.phase = "checkpoint" /\ runtime.status = "running"
      /\ Call("game", worker.tick + 1, 0, "ticking")
  BY DEF PublishTick
<1>2. worker.tick + 1 \in Nat
  BY DEF Types
<1>3. e \in BusFrames /\ e.kind = "game" /\ e.tick = worker.tick + 1 /\ e.seq = 0
  BY <1>2, EventIs
<1>4. Called(e, "ticking")
  BY <1>1, CallIs
<1> HIDE DEF e
<1>5. worker.stack = <<>> /\ DOMAIN <<>> = {}
  BY <1>1 DEF Live, WorkerInv, Phased
<1>6. Newcomer(e, "ticking")
  BY <1>1, <1>3, <1>5 DEF Newcomer, Closing, Late
<1> QED  BY <1>4, <1>6, CallKept

(* The runner or a subscriber publishes an event of the tick.              *)
LEMMA StepPublishGame ==
    ASSUME Types, ClientTypes, Live, PublishGame
    PROVE  Kept
<1> DEFINE e == BusEvent("game", worker.tick, worker.seq)
<1>1. worker.phase \in {"ticking", "ending"}
      /\ Call("game", worker.tick, worker.seq, worker.phase)
      /\ (worker.stack # <<>> => ~Closing(Last(worker.stack)))
  BY DEF PublishGame, Closing
<1>2. worker.tick \in Nat /\ worker.seq \in Nat
  BY DEF Types
<1>3. e \in BusFrames /\ e.kind = "game" /\ e.tick = worker.tick /\ e.seq = worker.seq
  BY <1>2, EventIs
<1>4. Called(e, worker.phase)
  BY <1>1, CallIs
<1> HIDE DEF e
<1>5. \A i \in DOMAIN worker.stack : ~Closing(worker.stack[i])
  <2>1. CASE worker.stack = <<>>
    BY <2>1
  <2>2. CASE worker.stack # <<>>
    BY <1>1, <2>2, LastCloses
  <2> QED  BY <2>1, <2>2
<1>6. Newcomer(e, worker.phase)
  BY <1>1, <1>3, <1>5 DEF Newcomer, Closing, Late
<1> QED  BY <1>4, <1>6, CallKept

\* A phase in which an event closes the match.
LEMMA EndingPhase ==
    ASSUME Types, Live, worker.stack # <<>>, Closing(Last(worker.stack))
    PROVE  worker.phase = "ending" /\ Last(worker.stack) \in published
<1>1. Last(worker.stack) \in published
  BY LastFacts DEF Live, WorkerInv, Nested
<1>2. worker.phase \in {"ending", "done", "reaped"}
  BY <1>1 DEF Live, WorkerInv, Emitted
<1> QED  BY <1>1, <1>2 DEF Live, WorkerInv, Phased

(* A draw is scored while MATCH_ENDED is handled.                          *)
LEMMA StepPublishScored ==
    ASSUME Types, ClientTypes, Live, PublishScored
    PROVE  Kept
<1> DEFINE e == BusEvent("scored", worker.tick, worker.seq)
<1>1. /\ worker.stack # <<>> /\ Last(worker.stack).kind = "ended"
      /\ \A f \in published : f.kind # "scored"
      /\ Call("scored", worker.tick, worker.seq, worker.phase)
  BY DEF PublishScored
<1>2. worker.tick \in Nat /\ worker.seq \in Nat
  BY DEF Types
<1>3. e \in BusFrames /\ e.kind = "scored" /\ e.tick = worker.tick /\ e.seq = worker.seq
  BY <1>2, EventIs
<1>4. Called(e, worker.phase)
  BY <1>1, CallIs
<1> HIDE DEF e
<1>5. worker.phase = "ending"
  BY <1>1, EndingPhase DEF Closing
<1>6. \E j \in DOMAIN worker.stack : worker.stack[j].kind = "ended"
  BY <1>1, LastFacts
<1>7. Newcomer(e, worker.phase)
  BY <1>1, <1>3, <1>5, <1>6 DEF Newcomer, Closing, Late
<1> QED  BY <1>4, <1>7, CallKept

(* A promotion is told while the score is handled.                         *)
LEMMA StepPublishPromoted ==
    ASSUME Types, ClientTypes, Live, PublishPromoted
    PROVE  Kept
<1> DEFINE e == BusEvent("promoted", worker.tick, worker.seq)
<1>1. /\ worker.stack # <<>> /\ Last(worker.stack).kind = "scored"
      /\ \A f \in published : f.kind # "promoted"
      /\ Call("promoted", worker.tick, worker.seq, worker.phase)
  BY DEF PublishPromoted
<1>2. worker.tick \in Nat /\ worker.seq \in Nat
  BY DEF Types
<1>3. e \in BusFrames /\ e.kind = "promoted" /\ e.tick = worker.tick /\ e.seq = worker.seq
  BY <1>2, EventIs
<1>4. Called(e, worker.phase)
  BY <1>1, CallIs
<1> HIDE DEF e
<1>5. worker.phase = "ending" /\ Last(worker.stack) \in published
  BY <1>1, EndingPhase DEF Closing
<1>6. \E j \in DOMAIN worker.stack : worker.stack[j].kind = "ended"
  BY <1>1, LastFacts DEF Live, WorkerInv, Nested, Late
<1>7. Newcomer(e, worker.phase)
  BY <1>1, <1>3, <1>5, <1>6 DEF Newcomer, Closing, Late
<1> QED  BY <1>4, <1>7, CallKept

\* The event that ends the match, from within a dispatch or not.
LEMMA StepEnds ==
    ASSUME Types, ClientTypes, Live, worker.phase = "ticking", worker.tick > 0,
           Call("ended", worker.tick, worker.seq, "ending")
    PROVE  Kept
<1> DEFINE e == BusEvent("ended", worker.tick, worker.seq)
<1>2. worker.tick \in Nat /\ worker.seq \in Nat
  BY DEF Types
<1>3. e \in BusFrames /\ e.kind = "ended" /\ e.tick = worker.tick /\ e.seq = worker.seq
  BY <1>2, EventIs
<1>4. Called(e, "ending")
  BY CallIs
<1> HIDE DEF e
<1>5. \A i \in DOMAIN worker.stack : ~Closing(worker.stack[i])
  BY DEF Live, WorkerInv, Nested, Emitted
<1>6. Newcomer(e, "ending")
  BY <1>3, <1>5 DEF Newcomer, Late
<1> QED  BY <1>4, <1>6, CallKept

(* The runner starts the match.                                            *)
LEMMA StepPublishStarted ==
    ASSUME Types, ClientTypes, Live, PublishStarted
    PROVE  Kept
<1>1. /\ worker.phase = "admitted" /\ runtime.status = "running"
      /\ worker' = [phase |-> "ticking", tick |-> 0, seq |-> 1,
                    stack |-> Append(worker.stack, Started)]
      /\ published' = published \union {Started}
      /\ UNCHANGED <<runtime, calls, proj, session, late, handler, clients>>
  BY DEF PublishStarted, Call, Started
<1>2. /\ published = {} /\ worker.tick = 0 /\ worker.stack = <<>>
      /\ Queued(calls) /\ Sound(proj, calls) /\ proj \in BufferSet /\ calls \in Seq(BusFrames)
  BY <1>1 DEF Live, WorkerInv, Phased, Types
<1>3. /\ Started \in BusFrames /\ Started.kind = "started" /\ Started.tick = 0 /\ Started.seq = 0
  BY EventIs DEF Started
<1>4. /\ worker'.phase = "ticking" /\ worker'.tick = 0 /\ worker'.seq = 1
      /\ worker'.stack = <<Started>> /\ published' = {Started}
      /\ DOMAIN <<Started>> = {1} /\ <<Started>>[1] = Started
  BY <1>1, <1>2
<1>5. calls = <<>> /\ DOMAIN calls = {}
  <2>1. DOMAIN calls = {}
    BY <1>2 DEF Queued
  <2> QED  BY <1>2, <2>1
<1>6. proj.quarantined = {} /\ BusEvents(Held(proj)) = {}
  BY <1>2 DEF Sound, Buffered
<1>7. proj.history = {}
  <2>1. Started \in proj.history => Started \in BusEvents(Held(proj))
    BY <1>3 DEF BusEvents, Held
  <2> QED  BY <1>2, <1>6, <2>1 DEF Sound, WellFormed
<1>8. proj.pending = {} /\ proj.tick \in {None, 0} /\ Held(proj) = {}
  <2>1. StatusesOf(proj.pending) = {} /\ proj.tick \in {None, 0}
    BY <1>2, <1>7 DEF Sound, Opening
  <2> QED  BY <1>6, <1>7, <2>1 DEF BusEvents, StatusesOf, Held
<1> HIDE DEF Started
<1>9. WorkerInv(calls)'
  <2>1. Emitted'
    BY <1>3, <1>4 DEF Emitted, Closing
  <2>2. Phased'
    BY <1>1, <1>3, <1>4 DEF Phased, Terminal
  <2>3. Nested'
    BY <1>3, <1>4 DEF Nested, Closing, Late
  <2>4. Queued(calls)'
    BY <1>1, <1>5 DEF Queued
  <2> QED  BY <2>1, <2>2, <2>3, <2>4 DEF WorkerInv
<1>10. Sound(proj, calls)'
  <2>1. Coming(calls)' = {Started}
    BY <1>1, <1>4, <1>5 DEF Coming, ToSet
  <2>2. proj' = proj /\ runtime' = runtime /\ calls' = calls
    BY <1>1
  <2>3. Buffered(proj, calls)'
    <3>1. IsFiniteSet({})
      BY FS_EmptySet
    <3> QED  BY <1>4, <1>6, <1>7, <1>8, <2>2, <3>1 DEF Buffered, Held, BusEvents
  <2>4. Keyed(proj)'
    BY <1>2, <2>2 DEF Sound, Keyed, Held, StatusesOf
  <2>5. Opening(proj, calls)'
    BY <1>7, <1>8, <2>1, <2>2 DEF Opening, StatusesOf
  <2>6. Running(proj, calls)'
    <3>1. Apart(proj)' /\ InOrder(proj, calls)' /\ StatusPlaces(proj)'
      BY <1>7, <1>8, <2>2 DEF Apart, Finished, InOrder, StatusPlaces, StatusesOf, Held
    <3>2. ScoreKept(proj, calls)' /\ TerminalLast(proj, calls)'
      BY <1>3, <1>4, <2>1 DEF ScoreKept, TerminalLast
    <3> QED  BY <3>1, <3>2 DEF Running
  <2>7. Closed(proj, calls)'
    BY <1>7, <2>2 DEF Closed, Finished
  <2>8. (proj \in BufferSet)' /\ WellFormed(proj.history)'
    BY <1>2, <2>2 DEF Sound
  <2> QED  BY <2>3, <2>4, <2>5, <2>6, <2>7, <2>8 DEF Sound
<1>11. Commanded'
  <2>1. handler # "resumed" /\ ~(runtime.status = "paused" /\ handler = "idle")
    BY <1>1, <1>7 DEF Live, Commanded
  <2> QED  BY <1>1, <1>4, <2>1 DEF Commanded
<1>12. worker' \in [phase : {"admitted", "ticking", "checkpoint", "ending", "done", "reaped"},
                    tick : Nat, seq : Nat, stack : Seq(BusFrames)]
  <2>1. <<Started>> \in Seq(BusFrames)
    BY <1>3
  <2> QED  BY <1>1, <1>4, <2>1
<1> QED  BY <1>1, <1>3, <1>4, <1>9, <1>10, <1>11, <1>12, WorkerKept DEF Types
\* The call of the innermost event is queued.
LEMMA StepOnEvent ==
    ASSUME Types, ClientTypes, Live, OnEvent
    PROVE  Kept
<1> DEFINE e == Last(worker.stack)
           n == Len(worker.stack)
           m == Len(calls)
           stack == Front(worker.stack)
           queue == Append(calls, e)
<1>1. /\ worker.stack # <<>> /\ (e.kind = "ended" => runtime.status = "ended")
      /\ calls' = queue /\ worker' = [worker EXCEPT !.stack = Front(@)]
      /\ UNCHANGED <<runtime, proj, session, late, handler, clients, published>>
  BY DEF OnEvent
<1>2. worker.stack \in Seq(BusFrames) /\ calls \in Seq(BusFrames) /\ worker.tick \in Nat
  BY DEF Types
<1>3. /\ n \in Nat /\ n \in DOMAIN worker.stack /\ e = worker.stack[n] /\ e \in BusFrames
      /\ \A i \in DOMAIN worker.stack : i \in Nat /\ (i = n \/ i < n)
  BY <1>1, <1>2, LastFacts
<1>4. /\ stack \in Seq(BusFrames)
      /\ \A i \in DOMAIN stack : i \in DOMAIN worker.stack /\ i < n /\ stack[i] = worker.stack[i]
      /\ \A i \in DOMAIN worker.stack : i < n => i \in DOMAIN stack
  <2>1. stack = [i \in 1 .. n - 1 |-> worker.stack[i]]
    BY DEF Front
  <2>2. n - 1 \in Nat /\ DOMAIN worker.stack = 1 .. n
    BY <1>1, <1>2, <1>3
  <2> HIDE DEF stack, n
  <2>3. \A i \in 1 .. n - 1 : worker.stack[i] \in BusFrames
    BY <1>2, <1>3, <2>2
  <2> QED  BY <1>3, <2>1, <2>2, <2>3
<1>5. /\ queue \in Seq(BusFrames) /\ m \in Nat
      /\ \A i \in DOMAIN calls : i \in Nat /\ i <= m /\ i \in DOMAIN queue /\ queue[i] = calls[i]
      /\ m + 1 \in DOMAIN queue /\ queue[m + 1] = e
      /\ \A i \in DOMAIN queue : i \in DOMAIN calls \/ i = m + 1
  <2>1. queue \in Seq(BusFrames) /\ m \in Nat /\ DOMAIN queue = 1 .. m + 1 /\ DOMAIN calls = 1 .. m
    BY <1>2, <1>3
  <2>2. /\ \A i \in 1 .. m : i \in Nat /\ i <= m /\ i \in 1 .. m + 1 /\ queue[i] = calls[i]
        /\ m + 1 \in 1 .. m + 1 /\ queue[m + 1] = e
        /\ \A i \in 1 .. m + 1 : i \in 1 .. m \/ i = m + 1
    BY <1>2, <1>3, <2>1
  <2> HIDE DEF queue, m
  <2> QED  BY <2>1, <2>2
<1> HIDE DEF e, n, m, stack, queue
<1>6. /\ worker' = [phase |-> worker.phase, tick |-> worker.tick, seq |-> worker.seq,
                    stack |-> stack]
      /\ calls' = queue /\ published' = published /\ runtime' = runtime /\ proj' = proj
  BY <1>1 DEF Types, stack
<1>7. Emitted /\ Phased /\ Nested /\ Queued(calls) /\ Sound(proj, calls)
  BY DEF Live, WorkerInv
<1>8. e \in published /\ e.tick = worker.tick /\ worker.phase \in {"ticking", "ending"}
  BY <1>1, <1>3, <1>7 DEF Nested, Phased
<1>9. Coming(calls)' = Coming(calls)
  <2>1. ToSet(queue) = ToSet(calls) \union {e}
    BY <1>5 DEF ToSet
  <2>2. ToSet(worker.stack) = ToSet(stack) \union {e}
    <3>1. \A x \in ToSet(worker.stack) : x \in ToSet(stack) \/ x = e
      BY <1>3, <1>4 DEF ToSet
    <3>2. \A x \in ToSet(stack) : x \in ToSet(worker.stack)
      BY <1>4 DEF ToSet
    <3>3. e \in ToSet(worker.stack)
      BY <1>3 DEF ToSet
    <3> QED  BY <3>1, <3>2, <3>3
  <2> QED  BY <1>6, <2>1, <2>2 DEF Coming
<1>10. \A i \in DOMAIN calls : calls[i] # e
  BY <1>3, <1>7 DEF Queued
<1>11. WorkerInv(calls)'
  <2>1. Emitted' /\ Phased'
    BY <1>6, <1>7, <1>8 DEF Emitted, Phased
  <2>2. Nested'
    <3>1. \A i \in DOMAIN stack : stack[i] \in published /\ stack[i].tick = worker.tick
      BY <1>4, <1>7 DEF Nested
    <3>2. \A i, j \in DOMAIN stack : i < j =>
             stack[i].seq < stack[j].seq /\ (Closing(stack[i]) => Late(stack[j]))
      BY <1>4, <1>7 DEF Nested
    <3>3. ASSUME NEW i \in DOMAIN stack, Late(stack[i])
          PROVE  \E j \in DOMAIN stack : stack[j].kind = "ended"
      <4>1. PICK j \in DOMAIN worker.stack : worker.stack[j].kind = "ended"
        BY <1>4, <1>7, <3>3 DEF Nested
      <4>2. j # n
        <5>1. i < n /\ Closing(worker.stack[i])
          BY <1>4, <3>3 DEF Closing, Late
        <5>2. Late(worker.stack[n])
          BY <1>3, <1>4, <1>7, <5>1 DEF Nested
        <5> QED  BY <4>1, <5>2 DEF Late
      <4> QED  BY <1>3, <1>4, <4>1, <4>2
    <3> QED  BY <1>6, <3>1, <3>2, <3>3 DEF Nested
  <2>3. Queued(calls)'
    <3>1. \A i \in DOMAIN queue : queue[i] \in published /\ (queue[i].kind = "ended" => runtime.status = "ended")
      BY <1>1, <1>5, <1>7, <1>8 DEF Queued
    <3>2. \A i, j \in DOMAIN queue : i < j => queue[i].tick <= queue[j].tick
      <4> SUFFICES ASSUME NEW i \in DOMAIN queue, NEW j \in DOMAIN queue, i < j
                   PROVE  queue[i].tick <= queue[j].tick
        OBVIOUS
      <4>1. i \in DOMAIN calls
        BY <1>5
      <4>2. CASE j \in DOMAIN calls
        BY <1>5, <1>7, <4>1, <4>2 DEF Queued
      <4>3. CASE j = m + 1
        <5>1. calls[i] \in Coming(calls)
          BY <4>1 DEF Coming, ToSet
        <5>2. calls[i].tick <= worker.tick
          BY <1>2, <5>1, ComingFacts DEF Live
        <5> QED  BY <1>5, <1>8, <4>1, <4>3, <5>2
      <4> QED  BY <1>5, <4>2, <4>3
    <3>3. \A i, j \in DOMAIN queue : queue[i] = queue[j] => i = j
      BY <1>5, <1>7, <1>10 DEF Queued
    <3>4. \A i \in DOMAIN queue, j \in DOMAIN stack : queue[i] # stack[j]
      <4> SUFFICES ASSUME NEW i \in DOMAIN queue, NEW j \in DOMAIN stack PROVE queue[i] # stack[j]
        OBVIOUS
      <4>1. CASE i \in DOMAIN calls
        BY <1>4, <1>5, <1>7, <4>1 DEF Queued
      <4>2. CASE i = m + 1
        <5>1. stack[j].seq < e.seq
          BY <1>3, <1>4, <1>7 DEF Nested
        <5>2. e.seq \in Nat
          BY <1>3, FrameNumbers DEF Frames
        <5> QED  BY <1>5, <4>2, <5>1, <5>2
      <4> QED  BY <1>5, <4>1, <4>2
    <3> QED  BY <1>6, <3>1, <3>2, <3>3, <3>4 DEF Queued
  <2> QED  BY <2>1, <2>2, <2>3 DEF WorkerInv
<1>12. Sound(proj, calls)'
  <2>1. Buffered(proj, calls)'
    BY <1>6, <1>7, <1>9 DEF Sound, Buffered, Held, BusEvents
  <2>2. Keyed(proj)'
    BY <1>6, <1>7 DEF Sound, Keyed, Held, StatusesOf
  <2>3. Opening(proj, calls)'
    BY <1>6, <1>7, <1>9 DEF Sound, Opening, StatusesOf
  <2>4. Running(proj, calls)'
    <3>1. CASE Finished(proj.history)
      BY <1>6, <3>1 DEF Running, Finished
    <3>2. CASE ~Finished(proj.history)
      <4>1. /\ Apart(proj) /\ InOrder(proj, calls) /\ StatusPlaces(proj)
            /\ ScoreKept(proj, calls) /\ TerminalLast(proj, calls)
        BY <1>7, <3>2 DEF Sound, Running
      <4>2. Apart(proj)' /\ InOrder(proj, calls)'
        BY <1>6, <1>9, <4>1 DEF Apart, Finished, InOrder
      <4>3. StatusPlaces(proj)'
        <5>1. Ticking
          BY <1>8 DEF Ticking
        <5> QED  BY <1>6, <4>1, <5>1 DEF StatusPlaces, StatusesOf, Held
      <4>4. ScoreKept(proj, calls)'
        <5> SUFFICES ASSUME NEW f \in published, f.kind = "scored",
                            f \notin ToSet(stack), f \notin Held(proj)
                     PROVE  \E i \in DOMAIN queue :
                              queue[i] = f /\ \A j \in DOMAIN queue : queue[j].kind = "ended" => i < j
          BY <1>6 DEF ScoreKept, Held
        <5>1. CASE f \in ToSet(worker.stack)
          <6>1. f = e
            BY <1>3, <1>4, <5>1 DEF ToSet
          <6>2. PICK k \in DOMAIN worker.stack : worker.stack[k].kind = "ended"
            BY <1>3, <1>7, <6>1 DEF Nested, Late
          <6>3. \A j \in DOMAIN calls : calls[j].kind # "ended"
            <7> SUFFICES ASSUME NEW j \in DOMAIN calls, calls[j].kind = "ended" PROVE FALSE
              OBVIOUS
            <7>1. calls[j] \in published /\ worker.stack[k] \in published
              BY <1>7 DEF Queued, Nested
            <7>2. calls[j] = worker.stack[k]
              BY <1>7, <6>2, <7>1 DEF Emitted, Closing
            <7> QED  BY <1>7, <7>2 DEF Queued
          <6>4. \A j \in DOMAIN queue : queue[j].kind # "ended"
            BY <1>5, <6>1, <6>3
          <6> QED  BY <1>5, <6>1, <6>4
        <5>2. CASE f \notin ToSet(worker.stack)
          <6>1. PICK i \in DOMAIN calls :
                  calls[i] = f /\ \A j \in DOMAIN calls : calls[j].kind = "ended" => i < j
            BY <4>1, <5>2 DEF ScoreKept
          <6>2. i \in DOMAIN queue /\ queue[i] = f /\ i < m + 1
            BY <1>5, <6>1
          <6> QED  BY <1>5, <6>1, <6>2
        <5> QED  BY <5>1, <5>2
      <4>5. TerminalLast(proj, calls)'
        <5> SUFFICES ASSUME NEW d \in Coming(calls), d.kind = "ended"
                     PROVE  /\ \A f \in proj.pending : Before(d, f) => Late(f)
                            /\ \A i \in DOMAIN queue : Before(d, queue[i]) /\ ~Late(queue[i])
                                 => \E j \in DOMAIN queue : j < i /\ queue[j] = d
          BY <1>6, <1>9 DEF TerminalLast
        <5>1. /\ \A f \in proj.pending : Before(d, f) => Late(f)
              /\ \A i \in DOMAIN calls : Before(d, calls[i]) /\ ~Late(calls[i])
                   => \E j \in DOMAIN calls : j < i /\ calls[j] = d
          BY <4>1 DEF TerminalLast
        <5>2. ASSUME Before(d, e), ~Late(e)
              PROVE  \E j \in DOMAIN queue : j < m + 1 /\ queue[j] = d
          <6>1. d # e
            BY <1>3, <5>2, BeforeOrders DEF Frames
          <6>2. d \notin ToSet(worker.stack)
            <7> SUFFICES ASSUME NEW j \in DOMAIN worker.stack, worker.stack[j] = d PROVE FALSE
              BY DEF ToSet
            <7>1. j < n
              BY <1>3, <6>1
            <7>2. Late(e)
              BY <1>3, <1>7, <7>1 DEF Nested, Closing
            <7> QED  BY <5>2, <7>2
          <6>3. PICK j \in DOMAIN calls : calls[j] = d
            BY <6>2 DEF Coming, ToSet
          <6>4. j \in DOMAIN queue /\ queue[j] = d /\ j < m + 1
            BY <1>5, <6>3
          <6> QED  BY <6>4
        <5>3. ASSUME NEW i \in DOMAIN queue, Before(d, queue[i]), ~Late(queue[i])
              PROVE  \E j \in DOMAIN queue : j < i /\ queue[j] = d
          <6>1. CASE i \in DOMAIN calls
            <7>1. PICK j \in DOMAIN calls : j < i /\ calls[j] = d
              BY <1>5, <5>1, <5>3, <6>1
            <7> QED  BY <1>5, <7>1
          <6>2. CASE i = m + 1
            BY <1>5, <5>2, <5>3, <6>2
          <6> QED  BY <1>5, <6>1, <6>2
        <5> QED  BY <5>1, <5>3
      <4> QED  BY <4>2, <4>3, <4>4, <4>5 DEF Running
    <3> QED  BY <3>1, <3>2
  <2>5. Closed(proj, calls)'
    BY <1>6, <1>7, <1>9 DEF Sound, Closed, Finished
  <2>6. (proj \in BufferSet)' /\ WellFormed(proj.history)'
    BY <1>6, <1>7 DEF Sound
  <2> QED  BY <2>1, <2>2, <2>3, <2>4, <2>5, <2>6 DEF Sound
<1>13. Commanded'
  <2>1. /\ worker.phase \notin {"reaped", "checkpoint"} /\ handler' = handler
        /\ worker'.phase = worker.phase /\ worker'.tick = worker.tick
    BY <1>1, <1>6, <1>8
  <2> QED  BY <1>6, <2>1 DEF Live, Commanded, Finished
<1>14. worker' \in [phase : {"admitted", "ticking", "checkpoint", "ending", "done", "reaped"},
                    tick : Nat, seq : Nat, stack : Seq(BusFrames)]
  BY <1>4, <1>6 DEF Types
<1> QED  BY <1>1, <1>5, <1>6, <1>11, <1>12, <1>13, <1>14, WorkerKept DEF Types
-----------------------------------------------------------------------------
(* The steps of the browsers.                                              *)

(* A browser that connects during the match is sent the prefix, or part of *)
(* it.                                                                     *)
LEMMA StepConnect ==
    ASSUME Types, ClientTypes, Live, NEW c \in Clients, Connect(c)
    PROVE  Kept
<1> DEFINE H == proj.history
           old == clients[c]
           client == [old EXCEPT !.link = "up"]
<1>1. PICK k \in 0 .. Len(Sorted(H)) :
        clients' = [clients EXCEPT ![c] = Receive([@ EXCEPT !.link = "up"], Sorted(H), k)]
  BY DEF Connect
<1>2. /\ late' = [late EXCEPT !.seen = @ \/ session]
      /\ UNCHANGED <<worker, runtime, calls, proj, session, handler, published>>
  BY DEF Connect
<1> DEFINE new == Receive(client, Sorted(H), k)
<1>3. WellFormed(H) /\ Follows(old.tab, H) /\ old \in [link : {"up", "down"}, tab : TabSet]
  BY DEF Live, Sound, Watched, ClientTypes
<1>4. client \in [link : {"up", "down"}, tab : TabSet] /\ Follows(client.tab, H)
  <2> HIDE DEF H, old
  <2>1. client.tab = old.tab
    BY <1>3
  <2> QED  BY <1>3, <2>1
<1>5. /\ new \in [link : {"up", "down"}, tab : TabSet]
      /\ Follows(new.tab, H)
      /\ new.link = "up" => Got(new.tab) = H
  <2> HIDE DEF client, H
  <2> QED  BY <1>3, <1>4, ReplayFollows
<1>6. clients' = [clients EXCEPT ![c] = new]
  BY <1>1
<1> HIDE DEF new, client, old, H
<1>7. ClientTypes'
  BY <1>5, <1>6 DEF ClientTypes
<1>8. \A d \in Clients : clients'[d] = IF d = c THEN new ELSE clients[d]
  BY <1>6 DEF ClientTypes
<1>9. Watched'
  BY <1>2, <1>5, <1>8 DEF Live, Watched, H
<1>10. WorkerInv(calls)'
  BY <1>2, WorkerStays DEF Live
<1>11. Sound(proj, calls)'
  BY <1>2, SoundStays DEF Live, Ticking
<1>12. Commanded'
  BY <1>2 DEF Live, Commanded
<1>13. late' \in [seen : BOOLEAN, token : BOOLEAN] /\ late'.token = late.token
  BY <1>2 DEF Types, Live
<1>14. Types'
  BY <1>2, <1>13 DEF Types
<1>15. Live'
  BY <1>2, <1>9, <1>10, <1>11, <1>12, <1>13 DEF Live
<1> QED  BY <1>7, <1>14, <1>15 DEF Kept

(* A connection that is lost leaves the transport as it was.               *)
LEMMA StepDisconnect ==
    ASSUME Types, ClientTypes, Live, NEW c \in Clients, Disconnect(c)
    PROVE  Kept
<1>1. /\ clients' = [clients EXCEPT ![c].link = "down"]
      /\ UNCHANGED <<worker, runtime, calls, proj, session, late, handler, published>>
  BY DEF Disconnect
<1>2. ClientTypes'
  BY <1>1 DEF ClientTypes
<1>3. \A d \in Clients : /\ clients'[d].tab = clients[d].tab
                         /\ clients'[d].link = IF d = c THEN "down" ELSE clients[d].link
  BY <1>1 DEF ClientTypes
<1>4. Watched'
  BY <1>1, <1>3 DEF Live, Watched
<1>5. WorkerInv(calls)'
  BY <1>1, WorkerStays DEF Live
<1>6. Sound(proj, calls)'
  BY <1>1, SoundStays DEF Live, Ticking
<1>7. Commanded'
  BY <1>1 DEF Live, Commanded
<1>8. Types'
  BY <1>1 DEF Types
<1>9. Live'
  BY <1>1, <1>4, <1>5, <1>6, <1>7 DEF Live
<1> QED  BY <1>2, <1>8, <1>9 DEF Kept

(* A transport that is sent nothing stays as it was.                       *)
LEMMA NothingSorted ==
    /\ Sorted({}) = <<>> /\ Len(Sorted({})) = 0
    /\ \A tab : Tabs(tab, Sorted({}))[0] = tab
<1>1. Cardinality({}) = 0
  BY FS_EmptySet
<1>2. Sorted({}) = [i \in 1 .. 0 |->
          CHOOSE e \in {} : Cardinality({f \in {} : Before(f, e)}) = i - 1]
  BY <1>1 DEF Sorted
<1>3. 1 .. 0 = {}
  OBVIOUS
<1>4. Sorted({}) = <<>>
  BY <1>2, <1>3
<1>5. Len(<<>>) = 0
  OBVIOUS
<1> QED  BY <1>4, <1>5, TabsStep

(* The prefix that is kept is empty, or a browser was sent part of it.     *)
LEMMA RetiredReceive ==
    ASSUME ClientTypes, Retired, NEW client \in [link : {"up", "down"}, tab : TabSet],
           NEW c \in Clients, client.tab = clients[c].tab,
           NEW k \in 0 .. Len(Sorted(proj.history))
    PROVE  LET new == Receive(client, Sorted(proj.history), k)
           IN  /\ new \in [link : {"up", "down"}, tab : TabSet]
               /\ Fine(new.tab)
               /\ Follows(clients[c].tab, proj.history) => Follows(new.tab, proj.history)
<1> DEFINE H == proj.history
           new == Receive(client, Sorted(H), k)
<1>1. WellFormed(H)
  BY DEF Retired
<1>2. CASE Follows(clients[c].tab, H)
  <2>1. Follows(client.tab, H)
    BY <1>2
  <2> HIDE DEF H
  <2>2. new \in [link : {"up", "down"}, tab : TabSet] /\ Follows(new.tab, H)
    BY <1>1, <2>1, ReplayFollows DEF H
  <2>3. Fine(new.tab)
    BY <1>1, <2>2, FollowingIsFine
  <2> QED  BY <2>2, <2>3 DEF H
<1>3. CASE ~Follows(clients[c].tab, H)
  <2>1. H = {} /\ Fine(clients[c].tab)
    BY <1>3 DEF Retired
  <2>2. k = 0 /\ Len(Sorted(H)) = 0
    BY <2>1, NothingSorted
  <2>3. Tabs(client.tab, Sorted(H))[k] = client.tab
    BY <2>1, <2>2, NothingSorted
  <2>4. new = [link |-> client.link, tab |-> client.tab]
    BY <2>2, <2>3 DEF Receive
  <2> QED  BY <1>3, <2>1, <2>4
<1> QED  BY <1>2, <1>3

(* The browsers after the match: c was sent part of what is kept.          *)
LEMMA RetiredKept ==
    ASSUME Types, ClientTypes, Retired, NEW c \in Clients, NEW new,
           new \in [link : {"up", "down"}, tab : TabSet], Fine(new.tab),
           Follows(clients[c].tab, proj.history) => Follows(new.tab, proj.history),
           clients' = [clients EXCEPT ![c] = new],
           UNCHANGED <<worker, runtime, calls, session, handler, published>>,
           late' \in [seen : BOOLEAN, token : BOOLEAN],
           proj' = proj \/ proj' = [proj EXCEPT !.history = {}]
    PROVE  Kept
<1>1. \A d \in Clients : clients'[d] = IF d = c THEN new ELSE clients[d]
  BY DEF ClientTypes
<1>2. ClientTypes'
  BY DEF ClientTypes
<1>3. WellFormed({})
  BY FS_EmptySet DEF WellFormed, Ordered, StatusesOf
<1>4. proj' \in BufferSet /\ (proj'.history = proj.history \/ proj'.history = {})
  BY DEF Types, BufferSet
<1>5. WellFormed(proj'.history)
  BY <1>3, <1>4 DEF Retired
<1>6. Types'
  BY <1>4 DEF Types
<1>7. \A d \in Clients : Fine(clients[d].tab)
  BY FollowingIsFine DEF Retired
<1>8. \A d \in Clients : Fine(clients'[d].tab)
  BY <1>1, <1>7
<1>9. \/ \A d \in Clients : Follows(clients'[d].tab, proj'.history)
      \/ proj'.history = {} /\ \A d \in Clients : Fine(clients'[d].tab)
  BY <1>1, <1>4, <1>8 DEF Retired
<1>10. Retired'
  BY <1>5, <1>9 DEF Retired
<1> QED  BY <1>2, <1>6, <1>10 DEF Kept

(* After the match only browsers come and go, a start may be refused, and  *)
(* what is kept goes to them.                                              *)
LEMMA StepRetired ==
    ASSUME Types, ClientTypes, Retired, ~runtime.stop, ProjectionNext
    PROVE  Kept \/ runtime'.stop
<1>1. ~session /\ worker.phase = "reaped" /\ worker.stack = <<>> /\ calls = <<>>
      /\ handler # "resumed" /\ WellFormed(proj.history)
  BY DEF Retired
<1>2. ~WorkerStep
  BY <1>1 DEF WorkerStep, PublishStarted, RunRefused, AtCheckpoint, PublishTick, PublishGame,
     PublishScored, PublishPromoted, PublishEndedNested, PublishEnded, MarkEnded, OnEvent,
     WorkerReturns, WorkerRaises
<1>3. ~(RunCall \/ Pause \/ PauseBoundary \/ Resume \/ ResumeStatus \/ Stop \/ RunTaskDone
        \/ Retire)
  BY <1>1 DEF RunCall, Pause, PauseBoundary, Resume, ResumeStatus, Stop, RunTaskDone, Retire
<1>4. CASE PauseRefused
  <2>1. /\ handler' = "idle"
        /\ UNCHANGED <<worker, runtime, calls, proj, session, late, clients, published>>
    BY <1>4 DEF PauseRefused
  <2>2. Types' /\ ClientTypes'
    BY <2>1 DEF Types, ClientTypes
  <2>3. Retired'
    BY <2>1 DEF Retired
  <2> QED  BY <2>2, <2>3 DEF Kept
<1>5. CASE AdmissionRefused
  <2>1. /\ proj' = EmptyProjection
        /\ UNCHANGED <<worker, runtime, calls, session, late, handler, clients, published>>
    BY <1>5 DEF AdmissionRefused
  <2>2. proj'.history = {} /\ proj' \in BufferSet
    BY <2>1 DEF EmptyProjection, BufferSet, None
  <2>3. Types' /\ ClientTypes'
    BY <2>1, <2>2 DEF Types, ClientTypes
  <2>4. WellFormed({})
    BY FS_EmptySet DEF WellFormed, Ordered, StatusesOf
  <2>5. \A d \in Clients : Fine(clients[d].tab)
    BY FollowingIsFine DEF Retired
  <2>6. Retired'
    BY <1>1, <2>1, <2>2, <2>4, <2>5 DEF Retired
  <2> QED  BY <2>3, <2>6 DEF Kept
<1>6. ASSUME NEW c \in Clients, Connect(c) \/ LateReplay(c) \/ LateReplayFails(c)
                                \/ Disconnect(c)
      PROVE  Kept
  <2> DEFINE H == proj.history
             old == clients[c]
             client == [old EXCEPT !.link = "up"]
  <2>1. /\ old \in [link : {"up", "down"}, tab : TabSet]
        /\ client \in [link : {"up", "down"}, tab : TabSet]
        /\ client.tab = old.tab
    BY DEF ClientTypes
  <2>2. late \in [seen : BOOLEAN, token : BOOLEAN]
    BY <1>1 DEF Types
  <2>3. CASE Connect(c)
    <3>1. PICK k \in 0 .. Len(Sorted(H)) :
            clients' = [clients EXCEPT ![c] = Receive([@ EXCEPT !.link = "up"], Sorted(H), k)]
      BY <2>3 DEF Connect
    <3> DEFINE new == Receive(client, Sorted(H), k)
    <3>2. /\ late' = [late EXCEPT !.seen = @ \/ session]
          /\ UNCHANGED <<worker, runtime, calls, proj, session, handler, published>>
      BY <2>3 DEF Connect
    <3>3. clients' = [clients EXCEPT ![c] = new]
      BY <3>1
    <3> HIDE DEF client
    <3>4. /\ new \in [link : {"up", "down"}, tab : TabSet]
          /\ Fine(new.tab)
          /\ Follows(clients[c].tab, proj.history) => Follows(new.tab, proj.history)
      BY <2>1, RetiredReceive
    <3>5. late' \in [seen : BOOLEAN, token : BOOLEAN]
      BY <1>1, <2>2, <3>2
    <3> HIDE DEF new
    <3> QED  BY <3>2, <3>3, <3>4, <3>5, RetiredKept
  <2>4. CASE LateReplay(c)
    <3> DEFINE k == Len(Sorted(H))
               new == Receive(client, Sorted(H), k)
    <3>1. /\ late' = [late EXCEPT !.token = FALSE]
          /\ proj' = [proj EXCEPT !.history = {}]
          /\ UNCHANGED <<worker, runtime, calls, session, handler, published>>
          /\ clients' = [clients EXCEPT ![c] =
               Receive([@ EXCEPT !.link = "up"], Sorted(H), k)]
      BY <2>4 DEF LateReplay
    <3>2. k \in 0 .. k
      <4>1. Lists(Sorted(H), H)
        BY <1>1, SortedLists DEF WellFormed
      <4>2. Sorted(H) \in Seq(H)
        BY <4>1 DEF Lists
      <4> QED  BY <4>2
    <3>3. clients' = [clients EXCEPT ![c] = new]
      BY <3>1
    <3> HIDE DEF client
    <3>4. /\ new \in [link : {"up", "down"}, tab : TabSet]
          /\ Fine(new.tab)
          /\ Follows(clients[c].tab, proj.history) => Follows(new.tab, proj.history)
      BY <2>1, <3>2, RetiredReceive
    <3>5. late' \in [seen : BOOLEAN, token : BOOLEAN]
      BY <2>2, <3>1
    <3> HIDE DEF new
    <3> QED  BY <3>1, <3>3, <3>4, <3>5, RetiredKept
  <2>5. CASE LateReplayFails(c)
    <3>1. PICK k \in 0 .. Len(Sorted(H)) - 1 :
            clients' = [clients EXCEPT ![c] = Receive(@, Sorted(H), k)]
      BY <2>5 DEF LateReplayFails, ReplayBreaks
    <3> DEFINE new == Receive(old, Sorted(H), k)
    <3>2. UNCHANGED <<worker, runtime, calls, proj, session, handler, late, published>>
      BY <2>5 DEF LateReplayFails, ReplayBreaks
    <3>3. clients' = [clients EXCEPT ![c] = new]
      BY <3>1
    <3>4. k \in 0 .. Len(Sorted(H))
      <4>1. Lists(Sorted(H), H)
        BY <1>1, SortedLists DEF WellFormed
      <4>2. Sorted(H) \in Seq(H)
        BY <4>1 DEF Lists
      <4> QED  BY <4>2
    <3>5. /\ new \in [link : {"up", "down"}, tab : TabSet]
          /\ Fine(new.tab)
          /\ Follows(clients[c].tab, proj.history) => Follows(new.tab, proj.history)
      BY <2>1, <3>4, RetiredReceive
    <3>6. late' \in [seen : BOOLEAN, token : BOOLEAN]
      BY <2>2, <3>2
    <3> HIDE DEF new, old, H
    <3> QED  BY <3>2, <3>3, <3>5, <3>6, RetiredKept
  <2>6. CASE Disconnect(c)
    <3> DEFINE new == [old EXCEPT !.link = "down"]
    <3>1. /\ clients' = [clients EXCEPT ![c] = new]
          /\ UNCHANGED <<worker, runtime, calls, proj, session, late, handler, published>>
      BY <2>6 DEF Disconnect
    <3>2. new \in [link : {"up", "down"}, tab : TabSet] /\ new.tab = clients[c].tab
      BY <2>1
    <3>3. Fine(new.tab)
      BY <3>2, FollowingIsFine DEF Retired
    <3>4. Follows(clients[c].tab, proj.history) => Follows(new.tab, proj.history)
      BY <3>2
    <3>5. late' \in [seen : BOOLEAN, token : BOOLEAN]
      BY <2>2, <3>1
    <3> HIDE DEF new
    <3> QED  BY <3>1, <3>2, <3>3, <3>4, <3>5, RetiredKept
  <2> QED  BY <1>6, <2>3, <2>4, <2>5, <2>6
<1> QED  BY <1>2, <1>3, <1>4, <1>5, <1>6 DEF ProjectionNext, LoopStep, ClientStep
-----------------------------------------------------------------------------
(* All of it.                                                              *)

(* While the match is live no start is admitted, and no replay is kept for *)
(* later.                                                                  *)
LEMMA StepLive ==
    ASSUME ProjectionAssumption, Types, ClientTypes, Live, ~runtime.stop, ProjectionNext
    PROVE  Kept \/ runtime'.stop
<1>1. session /\ ~late.token /\ runtime \in [status : Conditions, rev : Nat, stop : BOOLEAN]
      /\ worker.tick \in Nat
  BY DEF Live, Types
<1>2. CASE WorkerStep
  <2>1. CASE PublishEndedNested
    BY <2>1, StepEnds DEF PublishEndedNested
  <2>2. CASE PublishEnded
    <3>1. worker.phase = "ticking" /\ worker.tick > 0
      BY <2>2 DEF PublishEnded
    <3> QED  BY <2>2, <3>1, StepEnds DEF PublishEnded
  <2>3. CASE \/ PublishStarted \/ RunRefused \/ AtCheckpoint \/ PublishTick \/ PublishGame
             \/ PublishScored \/ PublishPromoted
    BY <2>3, StepPublishStarted, StepRunRefused, StepAtCheckpoint, StepPublishTick,
       StepPublishGame, StepPublishScored, StepPublishPromoted
  <2>4. CASE MarkEnded \/ OnEvent \/ WorkerReturns \/ WorkerRaises
    BY <2>4, StepMarkEnded, StepOnEvent, StepWorkerReturns, StepWorkerRaises
  <2> QED  BY <1>2, <2>1, <2>2, <2>3, <2>4 DEF WorkerStep
<1>3. CASE LoopStep
  <2>1. CASE Stop
    BY <1>1, <2>1 DEF Stop
  <2>2. CASE AdmissionRefused
    BY <1>1, <2>2 DEF AdmissionRefused
  <2>3. CASE RunCall \/ Pause \/ PauseBoundary \/ PauseRefused
    BY <2>3, StepRunCall, StepPause, StepPauseBoundary, StepPauseRefused
  <2>4. CASE Resume \/ ResumeStatus \/ RunTaskDone \/ Retire
    BY <2>4, StepResume, StepResumeStatus, StepRunTaskDone, StepRetire
  <2> QED  BY <1>3, <2>1, <2>2, <2>3, <2>4 DEF LoopStep
<1>4. CASE ClientStep
  <2>1. PICK c \in Clients : Connect(c) \/ LateReplay(c) \/ LateReplayFails(c) \/ Disconnect(c)
    BY <1>4 DEF ClientStep
  <2>2. ~LateReplay(c) /\ ~LateReplayFails(c)
    BY <1>1 DEF LateReplay, LateReplayFails, ReplayBreaks
  <2> QED  BY <2>1, <2>2, StepConnect, StepDisconnect
<1> QED  BY <1>2, <1>3, <1>4 DEF ProjectionNext

(* A match that was stopped stays so.                                      *)
LEMMA StopStays ==
    ASSUME Stoppable, ProjectionNext \/ UNCHANGED projectionVars
    PROVE  Stoppable' /\ (runtime.stop => runtime'.stop)
<1>1. CASE UNCHANGED runtime
  BY <1>1 DEF Stoppable
<1>2. CASE MarkEnded \/ WorkerRaises \/ Pause \/ Resume \/ Stop
  <2>1. runtime \in [status : Conditions, rev : Nat, stop : BOOLEAN] /\ runtime.rev + 1 \in Nat
    BY DEF Stoppable
  <2>2. \/ runtime' = [runtime EXCEPT !.status = "ended", !.rev = @ + 1]
        \/ runtime' = [runtime EXCEPT !.status = "failed", !.rev = @ + 1]
        \/ runtime' = [runtime EXCEPT !.status = "paused", !.rev = @ + 1]
        \/ runtime' = [runtime EXCEPT !.status = "running", !.rev = @ + 1]
        \/ runtime' = [runtime EXCEPT !.stop = TRUE, !.rev = @ + 1]
    BY <1>2 DEF MarkEnded, WorkerRaises, Pause, Resume, Stop
  <2> QED  BY <2>1, <2>2 DEF Stoppable, Conditions
<1>3. CASE PublishStarted \/ PublishTick \/ PublishGame \/ PublishScored \/ PublishPromoted
           \/ PublishEndedNested \/ PublishEnded
  <2>1. UNCHANGED runtime
    BY <1>3 DEF PublishStarted, PublishTick, PublishGame, PublishScored, PublishPromoted,
       PublishEndedNested, PublishEnded, Call
  <2> QED  BY <1>1, <2>1
<1>4. CASE RunRefused \/ AtCheckpoint \/ OnEvent \/ WorkerReturns \/ RunCall \/ PauseBoundary
           \/ PauseRefused \/ ResumeStatus \/ RunTaskDone \/ Retire \/ AdmissionRefused
  <2>1. UNCHANGED runtime
    BY <1>4 DEF RunRefused, AtCheckpoint, OnEvent, WorkerReturns, RunCall, PauseBoundary,
       PauseRefused, ResumeStatus, RunTaskDone, Retire, AdmissionRefused
  <2> QED  BY <1>1, <2>1
<1>5. CASE ClientStep
  <2>1. UNCHANGED runtime
    BY <1>5 DEF ClientStep, Connect, LateReplay, LateReplayFails, ReplayBreaks, Disconnect
  <2> QED  BY <1>1, <2>1
<1>6. CASE UNCHANGED projectionVars
  BY <1>1, <1>6 DEF projectionVars
<1> QED  BY <1>2, <1>3, <1>4, <1>5, <1>6 DEF ProjectionNext, WorkerStep, LoopStep

(* At the admission there is nothing to send.                              *)
LEMMA ProjectionBegins ==
    ASSUME ProjectionInit PROVE ProjectionInv
<1>1. /\ worker = [phase |-> "admitted", tick |-> 0, seq |-> 0, stack |-> <<>>]
      /\ runtime = [status |-> "running", rev |-> 1, stop |-> FALSE]
      /\ calls = <<>> /\ proj = EmptyProjection /\ session = TRUE /\ handler = "idle"
      /\ late = [seen |-> \E c \in Clients : clients[c].link = "up", token |-> FALSE]
      /\ clients \in [Clients -> {[link |-> l, tab |-> NewTab] : l \in {"down", "up"}}]
      /\ published = {}
  BY DEF ProjectionInit
<1>2. Stoppable
  BY <1>1 DEF Stoppable, Conditions
<1>3. <<>> \in Seq(BusFrames) /\ DOMAIN <<>> = {}
  OBVIOUS
<1>4. proj \in BufferSet /\ proj.history = {} /\ proj.pending = {} /\ proj.quarantined = {}
      /\ proj.keys = {} /\ proj.tick = None
  BY <1>1 DEF EmptyProjection, BufferSet, None
<1>5. Types
  BY <1>1, <1>2, <1>3, <1>4 DEF Types, Stoppable
<1>6. /\ \A c \in Clients : clients[c].tab = NewTab /\ clients[c].link \in {"up", "down"}
                            /\ clients[c] = [link |-> clients[c].link, tab |-> NewTab]
      /\ clients = [c \in Clients |-> clients[c]]
  BY <1>1
<1>7. NewTab \in TabSet /\ Follows(NewTab, {}) /\ Got(NewTab) = {}
  BY NewTabFollows DEF Follows, Got, NewTab
<1>8. ClientTypes
  BY <1>6, <1>7 DEF ClientTypes
<1>9. Watched
  BY <1>4, <1>6, <1>7 DEF Watched
<1>10. WorkerInv(calls)
  BY <1>1, <1>3 DEF WorkerInv, Emitted, Phased, Nested, Queued, Terminal
<1>11. Coming(calls) = {} /\ Held(proj) = {} /\ ~Finished({})
  BY <1>1, <1>3, <1>4 DEF Coming, ToSet, Held, Finished
<1>12. WellFormed({}) /\ IsFiniteSet({})
  BY FS_EmptySet DEF WellFormed, Ordered, StatusesOf
<1>13. Buffered(proj, calls) /\ Keyed(proj) /\ Opening(proj, calls)
  BY <1>1, <1>4, <1>11, <1>12 DEF Buffered, Keyed, Opening, StatusesOf, BusEvents
<1>14. Running(proj, calls)
  BY <1>1, <1>4, <1>11 DEF Running, Apart, InOrder, StatusPlaces, ScoreKept, TerminalLast,
     StatusesOf
<1>15. Closed(proj, calls)
  BY <1>4, <1>11 DEF Closed
<1>16. Sound(proj, calls)
  BY <1>4, <1>12, <1>13, <1>14, <1>15 DEF Sound
<1>17. Commanded
  BY <1>1 DEF Commanded
<1>18. Live
  BY <1>1, <1>9, <1>10, <1>16, <1>17 DEF Live
<1> QED  BY <1>2, <1>5, <1>8, <1>18 DEF ProjectionInv

(* Nothing changes when nothing does.                                      *)
LEMMA ProjectionStutters ==
    ASSUME Types, ClientTypes, Live \/ Retired, UNCHANGED projectionVars
    PROVE  Kept
<1>1. UNCHANGED <<worker, runtime, calls, proj, session, late, handler, clients, published>>
  BY DEF projectionVars
<1>2. Types' /\ ClientTypes'
  BY <1>1 DEF Types, ClientTypes
<1>3. CASE Live
  <2>1. WorkerInv(calls)'
    BY <1>1, <1>3, WorkerStays DEF Live
  <2>2. Sound(proj, calls)'
    BY <1>1, <1>3, SoundStays DEF Live, Ticking
  <2>3. Commanded' /\ Watched'
    BY <1>1, <1>3 DEF Live, Commanded, Watched
  <2>4. Live'
    BY <1>1, <1>3, <2>1, <2>2, <2>3 DEF Live
  <2> QED  BY <1>2, <2>4 DEF Kept
<1>4. CASE Retired
  <2>1. Retired'
    BY <1>1, <1>4 DEF Retired
  <2> QED  BY <1>2, <2>1 DEF Kept
<1> QED  BY <1>3, <1>4

(* Every step keeps the invariant.                                         *)
LEMMA ProjectionGoesOn ==
    ASSUME ProjectionAssumption, ProjectionInv, [ProjectionNext]_projectionVars
    PROVE  ProjectionInv'
<1>1. Stoppable' /\ (runtime.stop => runtime'.stop)
  BY StopStays DEF ProjectionInv
<1>2. CASE runtime'.stop
  BY <1>1, <1>2 DEF ProjectionInv
<1>3. CASE ~runtime'.stop
  <2>1. ~runtime.stop /\ Types /\ ClientTypes /\ (Live \/ Retired)
    BY <1>1, <1>3 DEF ProjectionInv
  <2>2. Kept
    BY <1>3, <2>1, StepLive, StepRetired, ProjectionStutters
  <2> QED  BY <1>1, <2>2 DEF ProjectionInv, Kept
<1> QED  BY <1>2, <1>3

(* The invariant of the event projection, for any browsers and any bounds  *)
(* on ticks, events and revisions: until the match is stopped, what is     *)
(* buffered, queued and under way continues what was sent, and every       *)
(* browser has a prefix of it.                                             *)
THEOREM ProjectionIsSound == ProjectionSpec => []ProjectionInv
<1>1. ProjectionInv /\ [ProjectionNext]_projectionVars => ProjectionInv'
  BY ProjectionAssumption, ProjectionGoesOn
<1> QED  BY <1>1, ProjectionBegins, PTL DEF ProjectionSpec

(* A frame is refused only when the match was stopped, or as one of the    *)
(* statuses before the first a browser accepts (cli/play.py and the        *)
(* transport of the front end).                                            *)
THEOREM RefusesOnlyStopped == ProjectionSpec => []OnlyStopRefused
<1>1. ProjectionInv => OnlyStopRefused
  <2> SUFFICES ASSUME ProjectionInv, ~runtime.stop, NEW c \in Clients
               PROVE  Fine(clients[c].tab)
    BY DEF OnlyStopRefused, Fine
  <2>1. CASE Live
    BY <2>1, FollowingIsFine DEF Live, Sound, Watched
  <2>2. CASE Retired
    BY <2>2, FollowingIsFine DEF Retired
  <2> QED  BY <2>1, <2>2 DEF ProjectionInv
<1> QED  BY <1>1, ProjectionIsSound, PTL

-----------------------------------------------------------------------------
(***************************************************************************)
(* NothingMissed, which also speaks of a match that was stopped.  Nothing  *)
(* is said of the order of statuses here.  A set of frames has no gap when *)
(* it has, of every event, all that was published before and not lost.     *)
(***************************************************************************)

NoGap(G, gone) ==
    \A e \in BusEvents(G), f \in published : Before(f, e) => f \in G \union gone

(* The worker, and the events it has handed over.                          *)
Traced(q) ==
    /\ \A e \in published :
         \/ e.tick < worker.tick
         \/ e.tick = worker.tick /\ e.seq < worker.seq
    /\ \A e, f \in published : e.tick = f.tick /\ e.seq = f.seq => e = f
    /\ \A e \in published : e.kind = "started" => e = Started
    /\ worker.phase \notin {"ticking", "ending"} => worker.stack = <<>>
    /\ \A i \in DOMAIN worker.stack :
         worker.stack[i] \in published /\ worker.stack[i].tick = worker.tick
    /\ \A i, j \in DOMAIN worker.stack : i < j => worker.stack[i].seq < worker.stack[j].seq
    /\ \A i \in DOMAIN q : q[i] \in published
    /\ \A i, j \in DOMAIN q : i < j => q[i].tick <= q[j].tick
    /\ \A i, j \in DOMAIN q : q[i] = q[j] => i = j
    /\ \A i \in DOMAIN q, j \in DOMAIN worker.stack : q[i] # worker.stack[j]

(* What comes to the loop behind the call at place j.                      *)
Behind(q, j) == {q[k] : k \in {k \in DOMAIN q : k > j}} \union ToSet(worker.stack)

(* MATCH_ENDED: the dispatches around it are lost, and what else comes     *)
(* behind it is later than all that does not.                              *)
EndsLast(q) ==
    /\ \A e \in published : e.kind = "ended" =>
         worker.phase \in {"ending", "done", "reaped"} /\ e.tick = worker.tick
    /\ \A d, e \in published : d.kind = "ended" /\ e.kind = "ended" => d = e
    /\ worker.phase = "admitted" => published = {} /\ worker.tick = 0
    /\ worker.phase = "ending" => Finished(published)
    /\ worker.phase \in {"done", "reaped"} =>
         published = {} \/ runtime.status = "failed" \/ Finished(published)
    /\ \A i, j \in DOMAIN worker.stack : i < j /\ worker.stack[j].kind = "ended" =>
         worker.stack[i] \in lost
    /\ \A j \in DOMAIN q : q[j].kind = "ended" =>
         \A f \in Behind(q, j) : f \in lost \/ \A e \in published \ Behind(q, j) : Before(e, f)

(* The loop's buffers: every event is on its way, held or set aside.       *)
Accounted(p, q) ==
    /\ IsFiniteSet(p.history) /\ IsFiniteSet(p.pending)
    /\ BusEvents(Held(p)) \subseteq published
    /\ p.quarantined \subseteq published
    /\ \A e \in Coming(q) : e \notin Held(p) \union p.quarantined
    /\ published \subseteq Coming(q) \union Held(p) \union p.quarantined
    /\ \A e \in Held(p) : e.tick <= worker.tick
    /\ p.tick = None => p.pending = {}
    /\ p.tick # None => p.tick <= worker.tick /\ \A e \in p.pending : e.tick = p.tick

(* No two statuses share a place; the terminal one stands before           *)
(* MATCH_ENDED, which does not wait.                                       *)
Placed(p) == \A s, t \in StatusesOf(Held(p)) : s = t \/ Before(s, t) \/ Before(t, s)
Zeros(p) ==
    /\ \A s \in StatusesOf(Held(p)) : s.id = 0 => Finished(p.history)
    /\ Finished(Held(p)) => Finished(p.history)

(* Only the status of a RESUME overtakes an event of an earlier tick.      *)
Overtaken(p, q) ==
    /\ \A e \in p.quarantined : \E f \in StatusesOf(Held(p)) : e.tick < f.tick
    /\ p.tick # None =>
         \/ \A e \in Coming(q) : p.tick <= e.tick
         \/ \E f \in StatusesOf(Held(p)) : p.tick <= f.tick

(* MATCH_STARTED has not been handled.                                     *)
Unstarted(q) == worker.phase = "admitted" \/ Started \in Coming(q)

(* Behind MATCH_ENDED.                                                     *)
Rest(p, q) ==
    \A d \in p.history : d.kind = "ended" =>
        \A f \in Coming(q) \union BusEvents(p.pending) : f \in lost \/ Before(d, f)

(* The buffers with the calls q still to run.                              *)
Steady(p, q) ==
    /\ p \in BufferSet
    /\ Accounted(p, q) /\ Placed(p) /\ Overtaken(p, q) /\ Rest(p, q)
    /\ NoGap(p.history, lost \union p.quarantined)
    /\ Unstarted(q) => p.tick \in {None, 0}

(* Nothing is missing but what the end of the match leaves out.            *)
Complete(G) ==
    \A e \in published : e \in G \union lost \/ \E d \in published : d.kind = "ended" /\ Before(d, e)

(* The match is in the session; nobody waits for a prefix.                 *)
Showing ==
    /\ session /\ ~late.token
    /\ Traced(calls) /\ EndsLast(calls) /\ Steady(proj, calls) /\ Zeros(proj)
    /\ proj.quarantined \subseteq lost
    /\ worker.phase = "reaped" => calls = <<>> /\ Complete(proj.history)
    /\ ~late.seen => \A c \in Clients : clients[c].link = "down"
    /\ handler = "resumed" \/ (runtime.status = "paused" /\ handler = "idle" /\ ~runtime.stop)
         => ~Unstarted(calls)

(* The match is retired; its prefix is kept for a browser that comes       *)
(* late.                                                                   *)
Retained ==
    /\ ~session /\ worker.phase = "reaped" /\ worker.stack = <<>> /\ calls = <<>>
    /\ handler # "resumed"
    /\ proj.quarantined = {}
    /\ BusEvents(proj.history) \subseteq published
    /\ Ordered(proj.history) /\ NoGap(proj.history, lost)
    /\ late.token /\ ~cleared => Complete(proj.history)

(* What each browser was sent, over all its connections.                   *)
HaveAll ==
    \A c \in Clients :
        /\ BusEvents(Got(clients[c].tab)) \subseteq published
        /\ NoGap(Got(clients[c].tab), lost)
        /\ clients[c].link = "up" => proj.history \subseteq Got(clients[c].tab)

(* The invariant.                                                          *)
NoMissInv == Types /\ ClientTypes /\ HaveAll /\ (Showing \/ Retained)

-----------------------------------------------------------------------------
(* The frames the loop has are ordered.                                    *)
LEMMA HeldOrdered ==
    ASSUME Types, NEW p \in BufferSet, NEW q, Traced(q), Accounted(p, q), Placed(p)
    PROVE  Ordered(Held(p))
<1>1. Held(p) \subseteq Frames
  BY DEF Held, BufferSet
<1>2. IsFiniteSet(Held(p))
  BY FS_Union DEF Held, Accounted
<1>3. ASSUME NEW e \in Held(p), NEW f \in Held(p), e.kind # "status"
      PROVE  e = f \/ Before(e, f) \/ Before(f, e)
  <2>1. e \in published /\ e.id = 2
    BY <1>3, BusFacts DEF Accounted, BusEvents
  <2>2. /\ e.tick \in Nat /\ e.seq \in Nat /\ e.id \in Nat
        /\ f.tick \in Nat /\ f.seq \in Nat /\ f.id \in Nat
    BY <1>1, FrameNumbers
  <2>3. CASE f.kind = "status"
    <3>1. f.id # 2
      BY <1>1, <2>3 DEF Frames, BusFrames, StatusFrames
    <3> QED  BY <2>1, <2>2, <3>1 DEF Before
  <2>4. CASE f.kind # "status"
    <3>1. f \in published
      BY <2>4 DEF Accounted, BusEvents
    <3>2. e.tick = f.tick /\ e.seq = f.seq => e = f
      BY <2>1, <3>1 DEF Traced
    <3> QED  BY <2>2, <3>2 DEF Before
  <2> QED  BY <2>3, <2>4
<1>4. ASSUME NEW e \in Held(p), NEW f \in Held(p), e.kind = "status", f.kind = "status"
      PROVE  e = f \/ Before(e, f) \/ Before(f, e)
  BY <1>4 DEF Placed, StatusesOf
<1>5. \A e, f \in Held(p) : e = f \/ Before(e, f) \/ Before(f, e)
  BY <1>3, <1>4
<1> QED  BY <1>1, <1>2, <1>5 DEF Ordered

(* Some of the frames of an ordered set are ordered.                       *)
LEMMA SomeOrdered ==
    ASSUME NEW S, Ordered(S), NEW T \in SUBSET S
    PROVE  Ordered(T)
BY FS_Subset DEF Ordered

(* The frames queued are what the prefix grew by since it was old, and     *)
(* however many of them are sent, no event is without one before it.       *)
Feeds(r, old) ==
    /\ r \in ResultSet
    /\ r.p.history = old \union ToSet(r.out)
    /\ \A i \in 1 .. Len(r.out), f \in published :
         r.out[i].kind # "status" /\ Before(f, r.out[i]) =>
            \/ f \in old \union lost \union r.p.quarantined
            \/ \E j \in 1 .. Len(r.out) : j < i /\ r.out[j] = f

(* Publishing frames that leave no gap.                                    *)
LEMMA PublishFeeds ==
    ASSUME Types, NEW r, NEW old, Feeds(r, old), NEW events \in SUBSET Frames,
           Ordered(events \ r.p.history),
           \A e \in BusEvents(events), f \in published : Before(f, e) =>
              f \in events \union r.p.history \union lost \union r.p.quarantined
    PROVE  Feeds(Publish(r, events), old)
<1> DEFINE new == events \ r.p.history
           list == Sorted(new)
           all == r.out \o list
           r2 == Publish(r, events)
           gone == lost \union r.p.quarantined
<1>1. r \in ResultSet /\ r.p \in BufferSet /\ r.out \in Seq(Frames)
      /\ r.p.history = old \union ToSet(r.out)
  BY DEF Feeds, ResultSet
<1>2. /\ list \in Seq(new)
      /\ \A e \in new : \E i \in 1 .. Len(list) : list[i] = e
      /\ \A i, j \in 1 .. Len(list) : i < j => Before(list[i], list[j])
  BY SortedLists DEF Lists
<1>3. /\ r2.p = [r.p EXCEPT !.history = r.p.history \union events]
      /\ r2.out = all
      /\ r2 = [p |-> r2.p, out |-> r2.out]
      /\ r2.p \in BufferSet
  BY <1>1, PublishIs
<1>4. r2.p.history = r.p.history \union events /\ r2.p.quarantined = r.p.quarantined
  BY <1>1, <1>3 DEF BufferSet
<1> HIDE DEF list, r2
<1>5. list \in Seq(Frames) /\ Len(list) \in Nat /\ Len(r.out) \in Nat
  BY <1>1, <1>2
<1>6. /\ all \in Seq(Frames) /\ Len(all) = Len(r.out) + Len(list)
      /\ \A i \in 1 .. Len(r.out) : all[i] = r.out[i]
      /\ \A i \in 1 .. Len(list) : all[Len(r.out) + i] = list[i]
  BY <1>1, <1>5
<1> HIDE DEF all
<1>7. DOMAIN all = 1 .. Len(all) /\ DOMAIN r.out = 1 .. Len(r.out)
  BY <1>1, <1>6
<1>8. ASSUME NEW i \in 1 .. Len(all)
      PROVE  \/ i \in 1 .. Len(r.out)
             \/ i > Len(r.out) /\ i - Len(r.out) \in 1 .. Len(list) /\ all[i] = list[i - Len(r.out)]
  <2>1. CASE i <= Len(r.out)
    BY <1>5, <2>1
  <2>2. CASE i > Len(r.out)
    <3>1. i - Len(r.out) \in 1 .. Len(list) /\ Len(r.out) + (i - Len(r.out)) = i
      BY <1>5, <1>6, <2>2
    <3>2. all[Len(r.out) + (i - Len(r.out))] = list[i - Len(r.out)]
      BY <1>6, <3>1
    <3> QED  BY <2>2, <3>1, <3>2
  <2> QED  BY <1>5, <2>1, <2>2
<1>9. \A i \in 1 .. Len(list) : list[i] \in new
  BY <1>2, <1>5
<1>10. \A i \in 1 .. Len(r.out) : i \in 1 .. Len(all)
  BY <1>5, <1>6
<1>11. \A i \in 1 .. Len(list) : Len(r.out) + i \in 1 .. Len(all)
  BY <1>5, <1>6
<1>12. ToSet(all) = ToSet(r.out) \union new
  <2>1. ASSUME NEW e \in ToSet(all) PROVE e \in ToSet(r.out) \union new
    <3>1. PICK i \in 1 .. Len(all) : all[i] = e
      BY <1>7 DEF ToSet
    <3>2. CASE i \in 1 .. Len(r.out)
      BY <1>6, <1>7, <3>1, <3>2 DEF ToSet
    <3>3. CASE i - Len(r.out) \in 1 .. Len(list) /\ all[i] = list[i - Len(r.out)]
      BY <1>9, <3>1, <3>3
    <3> QED  BY <1>8, <3>2, <3>3
  <2>2. ASSUME NEW e \in ToSet(r.out) PROVE e \in ToSet(all)
    BY <1>6, <1>7, <1>10 DEF ToSet
  <2>3. ASSUME NEW e \in new PROVE e \in ToSet(all)
    <3>1. PICK i \in 1 .. Len(list) : list[i] = e
      BY <1>2, <2>3
    <3>2. all[Len(r.out) + i] = e /\ Len(r.out) + i \in DOMAIN all
      BY <1>6, <1>7, <1>11, <3>1
    <3> QED  BY <3>2 DEF ToSet
  <2> QED  BY <2>1, <2>2, <2>3
<1>13. r2.p.history = old \union ToSet(r2.out)
  BY <1>1, <1>3, <1>4, <1>12
<1>14. ASSUME NEW i \in 1 .. Len(all), NEW f \in published,
              all[i].kind # "status", Before(f, all[i])
       PROVE  \/ f \in old \union gone
              \/ \E j \in 1 .. Len(all) : j < i /\ all[j] = f
  <2>1. CASE i \in 1 .. Len(r.out)
    <3>1. \/ f \in old \union gone
          \/ \E j \in 1 .. Len(r.out) : j < i /\ r.out[j] = f
      BY <1>6, <1>14, <2>1 DEF Feeds
    <3> QED  BY <1>6, <1>10, <3>1
  <2>2. CASE i > Len(r.out) /\ i - Len(r.out) \in 1 .. Len(list) /\ all[i] = list[i - Len(r.out)]
    <3> DEFINE m == i - Len(r.out)
               e == list[m]
    <3>1. e \in new /\ e = all[i]
      BY <1>9, <2>2
    <3>2. f \in events \union r.p.history \union gone
      BY <1>14, <3>1 DEF BusEvents
    <3>3. CASE f \in ToSet(r.out)
      <4>1. PICK j \in 1 .. Len(r.out) : r.out[j] = f
        BY <1>7, <3>3 DEF ToSet
      <4>2. j \in 1 .. Len(all) /\ all[j] = f /\ j < i
        BY <1>5, <1>6, <1>10, <2>2, <4>1
      <4> QED  BY <4>2
    <3>4. CASE f \in new
      <4>1. PICK j \in 1 .. Len(list) : list[j] = f
        BY <1>2, <3>4
      <4>2. Before(list[j], list[m]) /\ e \in Frames /\ f \in Frames
        BY <1>14, <2>2, <3>1, <3>4, <4>1
      <4>3. ~(m < j)
        BY <1>2, <2>2, <4>1, <4>2, BeforeOrders
      <4>4. m # j
        BY <3>1, <4>1, <4>2, BeforeOrders
      <4>5. m \in Nat /\ j \in Nat /\ i \in Nat /\ i = Len(r.out) + m
        BY <1>5, <2>2
      <4>6. Len(r.out) + j < i
        BY <1>5, <4>3, <4>4, <4>5
      <4>7. Len(r.out) + j \in 1 .. Len(all) /\ all[Len(r.out) + j] = f
        BY <1>6, <1>11, <4>1
      <4> QED  BY <4>6, <4>7
    <3> QED  BY <1>1, <3>2, <3>3, <3>4
  <2> QED  BY <1>8, <2>1, <2>2
<1>15. r2 \in ResultSet
  BY <1>3, <1>6 DEF ResultSet
<1> QED  BY <1>3, <1>4, <1>13, <1>14, <1>15 DEF Feeds, r2

(* What is not in the prefix or among what is queued does not matter.      *)
LEMMA SameFeeds ==
    ASSUME NEW r, NEW old, Feeds(r, old), NEW p \in BufferSet,
           p.history = r.p.history, r.p.quarantined \subseteq p.quarantined,
           NEW r2, r2 = [p |-> p, out |-> r.out]
    PROVE  Feeds(r2, old)
<1>1. r2.p = p /\ r2.out = r.out /\ r.out \in Seq(Frames)
  BY DEF Feeds, ResultSet
<1>2. r2 \in ResultSet
  BY <1>1 DEF ResultSet
<1> HIDE DEF Feeds
<1>3. /\ r.p.history = old \union ToSet(r.out)
      /\ \A i \in 1 .. Len(r.out), f \in published :
         r.out[i].kind # "status" /\ Before(f, r.out[i]) =>
            \/ f \in old \union lost \union r.p.quarantined
            \/ \E j \in 1 .. Len(r.out) : j < i /\ r.out[j] = f
  BY DEF Feeds
<1> QED  BY <1>1, <1>2, <1>3 DEF Feeds

-----------------------------------------------------------------------------
(* The oldest call, and what is left behind it.                            *)
LEMMA CallFacts ==
    ASSUME NEW q \in Seq(BusFrames), q # <<>>, Types, Traced(q)
    PROVE  /\ Traced(Tail(q))
           /\ Head(q) \in Coming(q) /\ Head(q) \notin Coming(Tail(q))
           /\ Coming(q) = Coming(Tail(q)) \union {Head(q)}
           /\ Behind(q, 1) = Coming(Tail(q))
           /\ Head(q) \in published /\ Head(q) \in Frames /\ Head(q).kind # "status"
           /\ Head(q).tick \in Nat /\ Head(q).tick <= worker.tick
           /\ \A e \in Coming(q) : e \in published /\ e \in Frames /\ e.kind # "status"
                                   /\ e.tick \in Nat /\ Head(q).tick <= e.tick
<1> DEFINE rest == Tail(q)
           e == Head(q)
<1>1. /\ rest \in Seq(BusFrames)
      /\ \A i \in DOMAIN rest : i + 1 \in DOMAIN q /\ rest[i] = q[i + 1] /\ i \in Nat
      /\ \A i \in DOMAIN q : i \in Nat /\ (i # 1 => i - 1 \in DOMAIN rest /\ rest[i - 1] = q[i])
      /\ 1 \in DOMAIN q /\ q[1] = e
  BY TailPlaces
<1> HIDE DEF rest, e
<1>2. Traced(rest)
  <2>1. \A i \in DOMAIN rest : rest[i] \in published
    BY <1>1 DEF Traced
  <2>2. \A i, j \in DOMAIN rest : i < j => rest[i].tick <= rest[j].tick
    <3>1. \A i, j \in DOMAIN rest : i < j => i + 1 < j + 1
      BY <1>1
    <3> QED  BY <1>1, <3>1 DEF Traced
  <2>3. \A i, j \in DOMAIN rest : rest[i] = rest[j] => i = j
    <3>1. \A i, j \in DOMAIN rest : rest[i] = rest[j] => i + 1 = j + 1
      BY <1>1 DEF Traced
    <3> QED  BY <1>1, <3>1
  <2>4. \A i \in DOMAIN rest, j \in DOMAIN worker.stack : rest[i] # worker.stack[j]
    BY <1>1 DEF Traced
  <2> QED  BY <2>1, <2>2, <2>3, <2>4 DEF Traced
<1>3. ToSet(q) = ToSet(rest) \union {e}
  BY <1>1 DEF ToSet
<1>4. e \notin ToSet(rest)
  BY <1>1 DEF ToSet, Traced
<1>5. e \notin ToSet(worker.stack)
  BY <1>1 DEF ToSet, Traced
<1>6. \A f \in Coming(q) : f \in published
  BY DEF Coming, ToSet, Traced
<1>7. \A f \in published : f \in Frames /\ f.kind # "status" /\ f.tick \in Nat /\ f.seq \in Nat
  BY BusFacts, FrameNumbers
<1>8. worker.tick \in Nat
  BY DEF Types
<1>9. \A f \in published : f.tick <= worker.tick
  BY <1>7, <1>8 DEF Traced
<1>10. e \in Coming(q)
  BY <1>3 DEF Coming
<1>11. ASSUME NEW f \in Coming(q) PROVE e.tick <= f.tick
  <2>1. f.tick \in Nat /\ e.tick <= worker.tick /\ e.tick \in Nat
    BY <1>6, <1>7, <1>9, <1>10
  <2>2. CASE f \in ToSet(worker.stack)
    BY <2>1, <2>2 DEF Traced, ToSet
  <2>3. CASE f \in ToSet(q)
    <3>1. PICK i \in DOMAIN q : q[i] = f
      BY <2>3 DEF ToSet
    <3>2. i = 1 \/ 1 < i
      BY <1>1
    <3> QED  BY <1>1, <2>1, <3>1, <3>2 DEF Traced
  <2> QED  BY <2>2, <2>3 DEF Coming
<1>12. {q[k] : k \in {k \in DOMAIN q : k > 1}} = ToSet(rest)
  <2>1. \A k \in DOMAIN q : k > 1 => k - 1 \in DOMAIN rest /\ rest[k - 1] = q[k]
    <3>1. \A k \in DOMAIN q : k > 1 => k # 1
      BY <1>1
    <3> QED  BY <1>1, <3>1
  <2>2. \A i \in DOMAIN rest : i + 1 > 1
    BY <1>1
  <2> QED  BY <1>1, <2>1, <2>2 DEF ToSet
<1>13. Behind(q, 1) = Coming(rest)
  BY <1>12 DEF Behind, Coming
<1> QED  BY <1>2, <1>3, <1>4, <1>5, <1>6, <1>7, <1>9, <1>10, <1>11, <1>13 DEF Coming, rest, e

(* What waits may be sent when nothing that comes stands before it.        *)
Ripe(p, q) ==
    \A e \in BusEvents(Held(p)), f \in Coming(q) : Before(f, e) => f \in lost

(* Draining a tick that is ripe leaves no gap.                             *)
LEMMA SteadyFlush ==
    ASSUME Types, NEW q, Traced(q), NEW r, NEW old, Feeds(r, old),
           Steady(r.p, q), Ripe(r.p, q)
    PROVE  /\ Steady(Flush(r).p, q) /\ Feeds(Flush(r), old)
           /\ Flush(r).p.tick = None /\ Flush(r).p.history = Held(r.p)
           /\ Flush(r).p.quarantined = r.p.quarantined
<1> DEFINE p == r.p
           p2 == Flush(r).p
           sent == Publish(r, p.pending)
<1>1. r \in ResultSet /\ p \in BufferSet
  BY DEF Feeds, ResultSet
<1>2. /\ p2 = [p EXCEPT !.history = Held(p), !.pending = {}, !.tick = None]
      /\ Flush(r).out = sent.out
      /\ Flush(r) = [p |-> p2, out |-> Flush(r).out]
      /\ p2 \in BufferSet
  BY <1>1, FlushIs
<1>3. /\ p2.history = Held(p) /\ p2.pending = {} /\ p2.tick = None
      /\ p2.quarantined = p.quarantined
  BY <1>1, <1>2 DEF BufferSet
<1>4. Held(p2) = Held(p)
  BY <1>3 DEF Held
<1>5. p.pending \in SUBSET Frames
  BY <1>1 DEF BufferSet
<1>6. /\ sent.p = [p EXCEPT !.history = Held(p)]
      /\ sent = [p |-> sent.p, out |-> sent.out]
  BY <1>1, <1>5, PublishIs DEF Held
<1>7. sent.p.history = Held(p) /\ sent.p.quarantined = p.quarantined
  BY <1>1, <1>6 DEF BufferSet
<1> HIDE DEF p2, p
<1>8. Accounted(p, q) /\ Placed(p) /\ Overtaken(p, q) /\ Rest(p, q)
      /\ NoGap(p.history, lost \union p.quarantined)
  BY DEF Steady, p
<1>9. Ordered(Held(p))
  BY <1>1, <1>8, HeldOrdered
<1>10. \A e \in BusEvents(Held(p)), f \in published : Before(f, e) =>
          f \in Held(p) \union lost \union p.quarantined
  BY <1>8 DEF Accounted, Ripe, p
<1>11. Feeds(sent, old)
  <2>1. Ordered(p.pending \ p.history)
    BY <1>9, SomeOrdered DEF Held
  <2>2. \A e \in BusEvents(p.pending) : e \in BusEvents(Held(p))
    BY DEF Held, BusEvents
  <2> QED  BY <1>5, <1>10, <2>1, <2>2, PublishFeeds DEF Held, p
<1> HIDE DEF sent
<1>12. Feeds(Flush(r), old)
  BY <1>2, <1>3, <1>7, <1>11, SameFeeds
<1>13. Accounted(p2, q)
  <2>1. IsFiniteSet(Held(p)) /\ IsFiniteSet({})
    BY <1>9, FS_EmptySet DEF Ordered
  <2> QED  BY <1>3, <1>4, <1>8, <2>1 DEF Accounted
<1>14. Placed(p2) /\ Overtaken(p2, q)
  BY <1>3, <1>4, <1>8 DEF Placed, Overtaken
<1>15. NoGap(p2.history, lost \union p2.quarantined)
  BY <1>3, <1>10 DEF NoGap
<1>16. Rest(p2, q)
  <2> SUFFICES ASSUME NEW d \in Held(p), d.kind = "ended", NEW f \in Coming(q), f \notin lost
               PROVE  Before(d, f)
    BY <1>3 DEF Rest, BusEvents
  <2>1. d \in BusEvents(Held(p)) /\ d \in published /\ f \in published /\ f \notin Held(p)
    BY <1>8 DEF BusEvents, Accounted, Coming, ToSet, Traced
  <2>2. ~Before(f, d) /\ f # d
    BY <2>1 DEF Ripe, p
  <2>3. d.id = 2 /\ f.id = 2 /\ d \in Frames /\ f \in Frames
    BY <2>1, BusFacts
  <2>4. d.tick \in Nat /\ d.seq \in Nat /\ f.tick \in Nat /\ f.seq \in Nat
    BY <2>3, FrameNumbers
  <2>5. d.tick # f.tick \/ d.seq # f.seq
    BY <2>1, <2>2 DEF Traced
  <2> QED  BY <2>2, <2>3, <2>4, <2>5 DEF Before
<1>17. Steady(p2, q)
  BY <1>2, <1>3, <1>13, <1>14, <1>15, <1>16 DEF Steady
<1> QED  BY <1>3, <1>12, <1>17 DEF p, p2

(* A call's event joins what waits.                                        *)
LEMMA SteadyHolding ==
    ASSUME Types, NEW q \in Seq(BusFrames), q # <<>>, Traced(q), EndsLast(q),
           NEW p, Steady(p, q), p.tick # None => p.tick = Head(q).tick
    PROVE  Steady(Holding(p, Head(q)), Tail(q))
<1> DEFINE e == Head(q)
           p2 == Holding(p, e)
           rest == Tail(q)
<1>1. /\ Traced(rest)
      /\ e \in Coming(q) /\ e \notin Coming(rest)
      /\ Coming(q) = Coming(rest) \union {e}
      /\ e \in published /\ e \in Frames /\ e.kind # "status"
      /\ e.tick \in Nat /\ e.tick <= worker.tick
      /\ \A f \in Coming(q) : f \in published /\ f.tick \in Nat /\ e.tick <= f.tick
  BY CallFacts
<1>2. p \in BufferSet /\ Accounted(p, q) /\ Placed(p) /\ Overtaken(p, q) /\ Rest(p, q)
      /\ NoGap(p.history, lost \union p.quarantined)
  BY DEF Steady
<1> HIDE DEF e, rest
<1>3. /\ p2.history = p.history /\ p2.pending = p.pending \union {e} /\ p2.tick = e.tick
      /\ p2.quarantined = p.quarantined /\ p2 \in BufferSet
  BY <1>1, <1>2 DEF Holding, BufferSet
<1>4. e \notin Held(p) \union p.quarantined
  BY <1>1, <1>2 DEF Accounted
<1> HIDE DEF p2
<1>5. Held(p2) = Held(p) \union {e} /\ StatusesOf(Held(p2)) = StatusesOf(Held(p))
      /\ BusEvents(Held(p2)) = BusEvents(Held(p)) \union {e}
      /\ BusEvents(p2.pending) = BusEvents(p.pending) \union {e}
  BY <1>1, <1>3 DEF Held, StatusesOf, BusEvents
<1>6. e.tick # None
  BY <1>1 DEF None
<1>7. Accounted(p2, rest)
  <2>1. IsFiniteSet(p2.pending)
    BY <1>2, <1>3, FS_AddElement DEF Accounted
  <2>2. \A f \in p2.pending : f.tick = e.tick
    <3>1. CASE p.tick = None
      BY <1>2, <1>3, <3>1 DEF Accounted
    <3>2. CASE p.tick # None
      BY <1>2, <1>3, <3>2 DEF Accounted, e
    <3> QED  BY <3>1, <3>2
  <2>3. \A f \in Coming(rest) : f \notin Held(p2) \union p2.quarantined
    BY <1>1, <1>2, <1>3, <1>5 DEF Accounted
  <2>4. published \subseteq Coming(rest) \union Held(p2) \union p2.quarantined
    BY <1>1, <1>2, <1>3, <1>5 DEF Accounted
  <2>5. \A f \in Held(p2) : f.tick <= worker.tick
    BY <1>1, <1>2, <1>5 DEF Accounted
  <2>6. /\ IsFiniteSet(p2.history)
        /\ BusEvents(Held(p2)) \subseteq published
        /\ p2.quarantined \subseteq published
    BY <1>1, <1>2, <1>3, <1>5 DEF Accounted
  <2> QED  BY <1>1, <1>3, <1>6, <2>1, <2>2, <2>3, <2>4, <2>5, <2>6 DEF Accounted
<1>8. Placed(p2)
  BY <1>2, <1>5 DEF Placed
<1>9. Overtaken(p2, rest)
  BY <1>1, <1>2, <1>3, <1>5 DEF Overtaken
<1>10. Rest(p2, rest)
  BY <1>1, <1>2, <1>3, <1>5 DEF Rest
<1>11. NoGap(p2.history, lost \union p2.quarantined)
  BY <1>2, <1>3
<1>12. Unstarted(rest) => p2.tick \in {None, 0}
  <2>1. Started.tick = 0 /\ (worker.phase = "admitted" => worker.tick = 0)
    BY DEF Started, BusEvent, EndsLast
  <2>2. Unstarted(rest) => e.tick <= 0
    BY <1>1, <2>1 DEF Unstarted
  <2> QED  BY <1>1, <1>3, <2>2
<1>13. Steady(p2, rest)
  BY <1>3, <1>7, <1>8, <1>9, <1>10, <1>11, <1>12 DEF Steady
<1> QED  BY <1>13 DEF p2, e, rest

(* A call's event is of a tick that was overtaken.                         *)
LEMMA SteadyAside ==
    ASSUME Types, NEW q \in Seq(BusFrames), q # <<>>, Traced(q),
           NEW p, Steady(p, q), p.tick # None, Head(q).tick < p.tick
    PROVE  Steady([p EXCEPT !.quarantined = @ \union {Head(q)}], Tail(q))
<1> DEFINE e == Head(q)
           p2 == [p EXCEPT !.quarantined = @ \union {e}]
           rest == Tail(q)
<1>1. /\ Traced(rest)
      /\ e \in Coming(q) /\ e \notin Coming(rest)
      /\ Coming(q) = Coming(rest) \union {e}
      /\ e \in published /\ e \in Frames /\ e.kind # "status" /\ e.tick \in Nat
      /\ \A f \in Coming(q) : f \in published /\ f.tick \in Nat /\ e.tick <= f.tick
  BY CallFacts
<1>2. p \in BufferSet /\ Accounted(p, q) /\ Placed(p) /\ Overtaken(p, q) /\ Rest(p, q)
      /\ NoGap(p.history, lost \union p.quarantined) /\ (Unstarted(q) => p.tick \in {None, 0})
  BY DEF Steady
<1>3. e.tick < p.tick
  OBVIOUS
<1> HIDE DEF e, rest
<1>4. /\ p2.history = p.history /\ p2.pending = p.pending /\ p2.tick = p.tick
      /\ p2.quarantined = p.quarantined \union {e} /\ p2 \in BufferSet
  BY <1>1, <1>2 DEF BufferSet
<1> HIDE DEF p2
<1>5. Held(p2) = Held(p)
  BY <1>4 DEF Held
<1>6. Accounted(p2, rest)
  BY <1>1, <1>2, <1>4, <1>5 DEF Accounted
<1>7. Placed(p2)
  BY <1>2, <1>5 DEF Placed
<1>8. Overtaken(p2, rest)
  <2>1. p.tick \in Nat
    BY <1>2 DEF BufferSet
  <2>2. \E f \in StatusesOf(Held(p)) : p.tick <= f.tick
    BY <1>1, <1>2, <1>3, <2>1 DEF Overtaken
  <2>3. PICK s \in StatusesOf(Held(p)) : p.tick <= s.tick
    BY <2>2
  <2>4. s.tick \in Nat
    BY <1>2, FrameNumbers DEF StatusesOf, Held, BufferSet
  <2>5. e.tick < s.tick
    BY <1>1, <1>3, <2>1, <2>3, <2>4
  <2> QED  BY <1>1, <1>2, <1>4, <1>5, <2>3, <2>5 DEF Overtaken
<1>9. Rest(p2, rest)
  BY <1>1, <1>2, <1>4 DEF Rest
<1>10. NoGap(p2.history, lost \union p2.quarantined)
  BY <1>2, <1>4 DEF NoGap
<1>11. Unstarted(rest) => p2.tick \in {None, 0}
  BY <1>1, <1>2, <1>4 DEF Unstarted
<1>12. Steady(p2, rest)
  BY <1>4, <1>6, <1>7, <1>8, <1>9, <1>10, <1>11 DEF Steady
<1> QED  BY <1>12 DEF p2, e, rest

-----------------------------------------------------------------------------
(* A tick is ripe when a later one opens.                                  *)
LEMMA LaterIsRipe ==
    ASSUME Types, NEW q \in Seq(BusFrames), Traced(q), NEW p, Steady(p, q),
           \A f \in Coming(q) : p.tick # None /\ p.tick < f.tick
    PROVE  Ripe(p, q)
<1> SUFFICES ASSUME NEW e \in BusEvents(Held(p)), NEW f \in Coming(q), Before(f, e)
             PROVE  f \in lost
  BY DEF Ripe
<1>1. p \in BufferSet /\ Accounted(p, q) /\ NoGap(p.history, lost \union p.quarantined)
  BY DEF Steady
<1>2. f \in published /\ f \notin Held(p) \union p.quarantined
  BY <1>1 DEF Coming, ToSet, Traced, Accounted
<1>3. CASE e \in p.history
  BY <1>1, <1>2, <1>3 DEF NoGap, BusEvents, Held
<1>4. CASE e \in p.pending
  <2>1. e.tick = p.tick /\ p.tick < f.tick
    BY <1>1, <1>4 DEF Accounted
  <2>2. e.tick \in Nat /\ f.tick \in Nat
    BY <1>1, <1>2, FrameNumbers, BusFacts DEF Held, BusEvents, BufferSet
  <2> QED  BY <2>1, <2>2 DEF Before
<1> QED  BY <1>3, <1>4 DEF Held, BusEvents

(* Handling an event that is neither MATCH_STARTED nor MATCH_ENDED, or     *)
(* holding MATCH_ENDED before it is sent.                                  *)
LEMMA HoldSteady ==
    ASSUME Types, NEW q \in Seq(BusFrames), q # <<>>, Traced(q), EndsLast(q),
           NEW r, NEW old, Feeds(r, old), Steady(r.p, q)
    PROVE  /\ Steady(Hold(r, Head(q)).p, Tail(q)) /\ Feeds(Hold(r, Head(q)), old)
           /\ StatusesOf(Held(Hold(r, Head(q)).p)) = StatusesOf(Held(r.p))
           /\ r.p.history \subseteq Hold(r, Head(q)).p.history
<1> DEFINE e == Head(q)
           p == r.p
<1>1. /\ e \in Coming(q) /\ e \in Frames /\ e.kind # "status" /\ e.tick \in Nat
      /\ \A f \in Coming(q) : f.tick \in Nat /\ e.tick <= f.tick
  BY CallFacts
<1>2. r \in ResultSet /\ p \in BufferSet /\ r = [p |-> p, out |-> r.out]
      /\ p.tick \in Nat \union {None} /\ None \notin Nat
  BY DEF Feeds, ResultSet, BufferSet, None
<1>3. e \notin Held(p) \union p.quarantined
  BY <1>1 DEF Steady, Accounted
<1> HIDE DEF e
<1>4. CASE p.tick # None /\ e.tick < p.tick
  <2> DEFINE p2 == [p EXCEPT !.quarantined = @ \union {e}]
             r2 == Hold(r, e)
  <2>1. ~(e \in p.history \union p.pending \union p.quarantined)
    BY <1>3 DEF Held
  <2>2. r2 = [r EXCEPT !.p.quarantined = @ \union {e}]
    BY <1>4, <2>1 DEF Hold
  <2> HIDE DEF r2
  <2>3. r2 = [p |-> p2, out |-> r.out]
    <3>1. r2 = [r EXCEPT !.p = p2]
      BY <2>2
    <3> HIDE DEF p2, p
    <3> QED  BY <1>2, <3>1
  <2>4. /\ p2.history = p.history /\ p2.pending = p.pending
        /\ p2.quarantined = p.quarantined \union {e} /\ p2 \in BufferSet
    BY <1>1, <1>2 DEF BufferSet
  <2>5. Steady(p2, Tail(q))
    BY <1>4, SteadyAside DEF e
  <2> HIDE DEF p2
  <2>6. Feeds(r2, old)
    BY <2>3, <2>4, SameFeeds
  <2>7. StatusesOf(Held(p2)) = StatusesOf(Held(p)) /\ r2.p = p2
    BY <2>3, <2>4 DEF Held
  <2> QED  BY <2>4, <2>5, <2>6, <2>7 DEF r2, e
<1>5. CASE ~(p.tick # None /\ e.tick < p.tick)
  <2> DEFINE drained == IF Advances(p, e) THEN Flush(r) ELSE r
             r2 == Hold(r, e)
             p2 == Holding(drained.p, e)
  <2>1. p.tick # None => p.tick <= e.tick
    BY <1>1, <1>2, <1>5
  <2>2. /\ r2 = [p |-> p2, out |-> drained.out]
        /\ p2 \in BufferSet /\ drained.p \in BufferSet
    BY <1>1, <1>2, <1>3, <2>1, HoldIs
  <2>3. /\ Steady(drained.p, q) /\ Feeds(drained, old)
        /\ drained.p.tick # None => drained.p.tick = e.tick
        /\ Held(drained.p) = Held(p) /\ p.history \subseteq drained.p.history
    <3>1. CASE Advances(p, e)
      <4>1. \A f \in Coming(q) : p.tick # None /\ p.tick < f.tick
        BY <1>1, <1>2, <3>1 DEF Advances
      <4>2. Ripe(p, q)
        BY <4>1, LaterIsRipe
      <4>3. /\ Steady(Flush(r).p, q) /\ Feeds(Flush(r), old)
            /\ Flush(r).p.tick = None /\ Flush(r).p.history = Held(p)
        BY <4>2, SteadyFlush
      <4>4. Flush(r).p.pending = {}
        BY <4>3 DEF Steady, Accounted
      <4> QED  BY <3>1, <4>3, <4>4 DEF Held
    <3>2. CASE ~Advances(p, e)
      BY <1>1, <1>2, <2>1, <3>2 DEF Advances
    <3> QED  BY <3>1, <3>2
  <2> HIDE DEF drained
  <2>4. Steady(p2, Tail(q))
    BY <2>3, SteadyHolding DEF e
  <2>5. /\ p2.history = drained.p.history /\ p2.quarantined = drained.p.quarantined
        /\ p2.pending = drained.p.pending \union {e}
    BY <2>2 DEF Holding, BufferSet
  <2> HIDE DEF p2, r2
  <2>6. Feeds(r2, old)
    BY <2>2, <2>3, <2>5, SameFeeds
  <2>7. StatusesOf(Held(p2)) = StatusesOf(Held(p)) /\ r2.p = p2
    BY <1>1, <2>2, <2>3, <2>5 DEF Held, StatusesOf
  <2> QED  BY <2>3, <2>4, <2>5, <2>6, <2>7 DEF r2, e
<1> QED  BY <1>4, <1>5

(* A status of the open tick, or of one that is opened, joins what waits.  *)
LEMMA SteadyMarked ==
    ASSUME Types, NEW q \in Seq(BusFrames), Traced(q), NEW p, Steady(p, q),
           NEW s \in StatusFrames, s.tick <= worker.tick, p.tick # None => p.tick = s.tick,
           \A g \in StatusesOf(Held(p)) : Before(g, s) \/ Before(s, g),
           Unstarted(q) => s.tick = 0
    PROVE  Steady(Marked(p, s), q)
<1> DEFINE p2 == Marked(p, s)
<1>1. p \in BufferSet /\ Accounted(p, q) /\ Placed(p) /\ Overtaken(p, q) /\ Rest(p, q)
      /\ NoGap(p.history, lost \union p.quarantined)
  BY DEF Steady
<1>2. s \in Frames /\ s.kind = "status" /\ s.tick \in Nat
  BY DEF Frames, StatusFrames
<1>3. Key \in Nat \X Conditions
  BY DEF Key, Types
<1>4. /\ p2.history = p.history /\ p2.pending = p.pending \union {s} /\ p2.tick = s.tick
      /\ p2.quarantined = p.quarantined /\ p2 \in BufferSet
  BY <1>1, <1>2, <1>3 DEF Marked, Holding, BufferSet
<1> HIDE DEF p2
<1>5. Held(p2) = Held(p) \union {s} /\ StatusesOf(Held(p2)) = StatusesOf(Held(p)) \union {s}
      /\ BusEvents(Held(p2)) = BusEvents(Held(p))
      /\ BusEvents(p2.pending) = BusEvents(p.pending)
  BY <1>2, <1>4 DEF Held, StatusesOf, BusEvents
<1>6. s.tick # None
  BY <1>2 DEF None
<1>7. Accounted(p2, q)
  <2>1. IsFiniteSet(p2.pending)
    <3>1. IsFiniteSet(p.pending) /\ p2.pending = p.pending \union {s}
      BY <1>1, <1>4 DEF Accounted
    <3>2. IsFiniteSet(p.pending \union {s})
      BY <3>1, FS_AddElement
    <3> QED  BY <3>1, <3>2
  <2>2. \A f \in p2.pending : f.tick = s.tick
    <3>1. CASE p.tick = None
      BY <1>1, <1>4, <3>1 DEF Accounted
    <3>2. CASE p.tick # None
      BY <1>1, <1>4, <3>2 DEF Accounted
    <3> QED  BY <3>1, <3>2
  <2>3. \A f \in Coming(q) : f # s
    <3>1. \A f \in Coming(q) : f \in published
      BY DEF Coming, ToSet, Traced
    <3> QED  BY <1>2, <3>1, BusFacts
  <2> QED  BY <1>1, <1>4, <1>5, <1>6, <2>1, <2>2, <2>3 DEF Accounted
<1>8. Placed(p2)
  BY <1>1, <1>5 DEF Placed
<1>9. Overtaken(p2, q)
  <2>1. s \in StatusesOf(Held(p2))
    BY <1>5
  <2>2. s.tick <= s.tick
    BY <1>2
  <2> QED  BY <1>1, <1>4, <1>5, <2>1, <2>2 DEF Overtaken
<1>10. Rest(p2, q)
  BY <1>1, <1>4, <1>5 DEF Rest
<1>11. NoGap(p2.history, lost \union p2.quarantined)
  BY <1>1, <1>4
<1>12. Steady(p2, q)
  BY <1>4, <1>7, <1>8, <1>9, <1>10, <1>11 DEF Steady
<1> QED  BY <1>12 DEF p2

(* Enqueueing a status, told before or not.                                *)
LEMMA StatusSteady ==
    ASSUME Types, NEW q \in Seq(BusFrames), Traced(q), NEW r, NEW old, Feeds(r, old), Steady(r.p, q),
           NEW t \in Nat, NEW n \in Nat, NEW id \in {0, 1, 3},
           t <= worker.tick, r.p.tick # None => r.p.tick <= t,
           r.p.tick # None /\ r.p.tick < t => \A f \in Coming(q) : r.p.tick < f.tick,
           \A g \in StatusesOf(Held(r.p)) :
              Before(g, StatusFrame(t, n, id)) \/ Before(StatusFrame(t, n, id), g),
           Unstarted(q) => t = 0
    PROVE  LET r2 == EnqueueStatus(r, t, n, id)
           IN  /\ Steady(r2.p, q) /\ Feeds(r2, old)
               /\ StatusesOf(Held(r2.p)) \subseteq StatusesOf(Held(r.p)) \union {StatusFrame(t, n, id)}
               /\ r.p.history \subseteq r2.p.history
<1> DEFINE s == StatusFrame(t, n, id)
           r2 == EnqueueStatus(r, t, n, id)
<1>1. CASE ~session \/ Key \in r.p.keys
  <2>1. r2 = r
    BY <1>1 DEF EnqueueStatus, Key
  <2> QED  BY <2>1
<1>2. CASE session /\ Key \notin r.p.keys
  <2> DEFINE drained == IF Advances(r.p, s) THEN Flush(r) ELSE r
             p2 == Marked(drained.p, s)
  <2>1. r \in ResultSet /\ r.p \in BufferSet /\ r.p.tick \in Nat \union {None} /\ None \notin Nat
    BY DEF Feeds, ResultSet, BufferSet, None
  <2>2. s \in StatusFrames /\ s \in Frames /\ s.tick = t /\ s.kind = "status"
    BY DEF StatusFrame, StatusFrames, Frames, Types
  <2>3. s \notin Held(r.p) \union r.p.quarantined
    <3>1. s \notin Held(r.p)
      BY <2>2, BeforeOrders DEF StatusesOf
    <3>2. s \notin r.p.quarantined
      BY <2>2, BusFacts DEF Steady, Accounted
    <3> QED  BY <3>1, <3>2
  <2>4. /\ r2 = [p |-> p2, out |-> drained.out]
        /\ p2 \in BufferSet
    BY <1>2, <2>1, <2>3, StatusIs
  <2> HIDE DEF s
  <2>5. /\ Steady(drained.p, q) /\ Feeds(drained, old)
        /\ drained.p.tick # None => drained.p.tick = s.tick
        /\ Held(drained.p) = Held(r.p) /\ r.p.history \subseteq drained.p.history
    <3>1. CASE Advances(r.p, s)
      <4>1. \A f \in Coming(q) : r.p.tick # None /\ r.p.tick < f.tick
        BY <2>1, <2>2, <3>1 DEF Advances
      <4>2. Ripe(r.p, q)
        BY <4>1, LaterIsRipe
      <4>3. /\ Steady(Flush(r).p, q) /\ Feeds(Flush(r), old)
            /\ Flush(r).p.tick = None /\ Flush(r).p.history = Held(r.p)
        BY <4>2, SteadyFlush
      <4>4. Flush(r).p.pending = {}
        BY <4>3 DEF Steady, Accounted
      <4> QED  BY <3>1, <4>3, <4>4 DEF Held
    <3>2. CASE ~Advances(r.p, s)
      BY <2>1, <2>2, <3>2 DEF Advances
    <3> QED  BY <3>1, <3>2
  <2> HIDE DEF drained
  <2>6. Steady(p2, q)
    BY <2>2, <2>5, SteadyMarked DEF s
  <2>7. /\ p2.history = drained.p.history /\ p2.quarantined = drained.p.quarantined
        /\ p2.pending = drained.p.pending \union {s}
    <3>1. drained.p \in BufferSet
      BY <2>5 DEF Steady
    <3> QED  BY <3>1 DEF Marked, Holding, BufferSet
  <2> HIDE DEF p2, r2
  <2>8. Feeds(r2, old)
    BY <2>4, <2>5, <2>7, SameFeeds
  <2>9. r2.p = p2
    BY <2>4
  <2>10. StatusesOf(Held(p2)) \subseteq StatusesOf(Held(r.p)) \union {s}
    <3>1. Held(p2) = Held(r.p) \union {s}
      BY <2>5, <2>7 DEF Held
    <3> QED  BY <3>1 DEF StatusesOf
  <2> QED  BY <2>5, <2>6, <2>7, <2>8, <2>9, <2>10 DEF r2, s
<1> QED  BY <1>1, <1>2

-----------------------------------------------------------------------------
(* MATCH_STARTED is sent as it arrives.                                    *)
LEMMA StartSent ==
    ASSUME Types, NEW q \in Seq(BusFrames), q # <<>>, Traced(q), EndsLast(q),
           NEW r, NEW old, Feeds(r, old), Steady(r.p, q), Head(q).kind = "started"
    PROVE  LET sent == Publish(r, {Head(q)})
               r1 == [sent EXCEPT !.p.tick = Head(q).tick]
           IN  /\ Steady(r1.p, Tail(q)) /\ Feeds(r1, old)
               /\ Head(q) = Started
               /\ sent.p \in BufferSet /\ Held(r1.p) = Held(sent.p)
               /\ r1.p.tick = 0
               /\ StatusesOf(Held(r1.p)) = StatusesOf(Held(r.p))
               /\ r1.p.history = r.p.history \union {Started}
               /\ r1.p.quarantined = r.p.quarantined
<1> DEFINE e == Head(q)
           rest == Tail(q)
           p == r.p
           sent == Publish(r, {e})
           r1 == [sent EXCEPT !.p.tick = e.tick]
           p2 == r1.p
<1>1. /\ Traced(rest)
      /\ e \in Coming(q) /\ e \notin Coming(rest)
      /\ Coming(q) = Coming(rest) \union {e}
      /\ e \in published /\ e \in Frames
      /\ \A f \in Coming(q) : f \in published /\ f.tick \in Nat
  BY CallFacts
<1>2. e = Started
  BY <1>1 DEF Traced
<1>3. Started.kind = "started" /\ Started.tick = 0 /\ Started.seq = 0 /\ Started.id = 2
  BY DEF Started, BusEvent, BusId
<1>4. r \in ResultSet /\ p \in BufferSet /\ Accounted(p, q) /\ Placed(p) /\ Overtaken(p, q)
      /\ Rest(p, q) /\ NoGap(p.history, lost \union p.quarantined)
      /\ (Unstarted(q) => p.tick \in {None, 0})
  BY DEF Feeds, Steady
<1>5. p.tick \in {None, 0} /\ Started \notin Held(p) \union p.quarantined
  BY <1>1, <1>2, <1>4 DEF Unstarted, Accounted
<1>6. /\ sent.p = [p EXCEPT !.history = p.history \union {Started}]
      /\ sent = [p |-> sent.p, out |-> sent.out] /\ sent.p \in BufferSet
  <2>1. {e} \in SUBSET Frames
    BY <1>1
  <2> HIDE DEF e
  <2>2. /\ sent.p = [p EXCEPT !.history = p.history \union {e}]
        /\ sent = [p |-> sent.p, out |-> sent.out] /\ sent.p \in BufferSet
    <3> HIDE DEF p
    <3> QED  BY <1>4, <2>1, PublishIs DEF p
  <2> QED  BY <1>2, <2>2
<1>7. \A f \in published : ~Before(f, Started)
  BY <1>3, BusFacts, FrameNumbers DEF Before
<1>8. Feeds(sent, old)
  <2>0. IsFiniteSet({e}) /\ {e} \ p.history \in SUBSET {e}
    BY FS_Singleton
  <2>1. {e} \in SUBSET Frames /\ IsFiniteSet({e} \ p.history)
    BY <1>1, <2>0, FS_Subset
  <2>2. Ordered({e} \ p.history)
    BY <1>1, <2>1 DEF Ordered
  <2>3. \A d \in BusEvents({e}), f \in published : Before(f, d) =>
          f \in {e} \union p.history \union lost \union p.quarantined
    BY <1>2, <1>7 DEF BusEvents
  <2> HIDE DEF e, Feeds
  <2> QED  BY <2>1, <2>2, <2>3, PublishFeeds
<1> HIDE DEF sent, e, rest
<1>9. r1 = [p |-> [sent.p EXCEPT !.tick = 0], out |-> sent.out]
  BY <1>2, <1>3, <1>6
<1> HIDE DEF r1
<1>10. /\ p2.history = p.history \union {Started} /\ p2.pending = p.pending /\ p2.tick = 0
       /\ p2.quarantined = p.quarantined /\ p2 \in BufferSet
       /\ sent.p.history = p2.history /\ sent.p.pending = p.pending
       /\ sent.p.quarantined = p.quarantined
  BY <1>4, <1>6, <1>9 DEF BufferSet
<1>11. Feeds(r1, old)
  <2>1. r1 = [p |-> p2, out |-> sent.out]
    BY <1>9
  <2> HIDE DEF p2
  <2> QED  BY <1>8, <1>10, <2>1, SameFeeds
<1> HIDE DEF p2
<1>12. /\ Held(p2) = Held(p) \union {Started} /\ Held(p2) = Held(sent.p)
       /\ StatusesOf(Held(p2)) = StatusesOf(Held(p))
       /\ BusEvents(Held(p2)) = BusEvents(Held(p)) \union {Started}
       /\ BusEvents(p2.pending) = BusEvents(p.pending)
       /\ BusEvents(p2.history) = BusEvents(p.history) \union {Started}
  BY <1>3, <1>10 DEF Held, StatusesOf, BusEvents
<1>13. Accounted(p2, rest)
  <2>1. IsFiniteSet(p2.history) /\ IsFiniteSet(p2.pending)
    <3>1. IsFiniteSet(p.history) /\ IsFiniteSet(p.pending)
      BY <1>4 DEF Accounted
    <3>2. IsFiniteSet(p.history \union {Started})
      BY <3>1, FS_AddElement
    <3> QED  BY <1>10, <3>1, <3>2
  <2>2. BusEvents(Held(p2)) \subseteq published /\ p2.quarantined \subseteq published
    BY <1>1, <1>2, <1>4, <1>10, <1>12 DEF Accounted
  <2>3. \A f \in Coming(rest) : f \notin Held(p2) \union p2.quarantined
    BY <1>1, <1>2, <1>4, <1>10, <1>12 DEF Accounted
  <2>4. published \subseteq Coming(rest) \union Held(p2) \union p2.quarantined
    BY <1>1, <1>2, <1>4, <1>10, <1>12 DEF Accounted
  <2>5. worker.tick \in Nat /\ 0 # None
    BY DEF Types, None
  <2>6. \A f \in Held(p2) : f.tick <= worker.tick
    BY <1>3, <1>4, <1>12, <2>5 DEF Accounted
  <2>7. p2.tick # None /\ p2.tick <= worker.tick
    BY <1>10, <2>5
  <2>8. \A f \in p2.pending : f.tick = p2.tick
    BY <1>4, <1>5, <1>10 DEF Accounted
  <2> QED  BY <2>1, <2>2, <2>3, <2>4, <2>6, <2>7, <2>8 DEF Accounted
<1>14. Placed(p2)
  BY <1>4, <1>12 DEF Placed
<1>15. Overtaken(p2, rest)
  <2>1. \A f \in Coming(rest) : p2.tick <= f.tick
    BY <1>1, <1>10
  <2> QED  BY <1>4, <1>10, <1>12, <2>1 DEF Overtaken
<1>16. Rest(p2, rest)
  BY <1>1, <1>3, <1>4, <1>10, <1>12 DEF Rest
<1>17. NoGap(p2.history, lost \union p2.quarantined)
  BY <1>4, <1>7, <1>10, <1>12 DEF NoGap
<1>18. Steady(p2, rest)
  BY <1>10, <1>13, <1>14, <1>15, <1>16, <1>17 DEF Steady
<1> QED  BY <1>2, <1>6, <1>10, <1>11, <1>12, <1>18 DEF r1, sent, e, p2, rest

(* The status behind the frames of its tick shares a place with none.      *)
LEMMA NextIsFresh ==
    ASSUME Types, NEW p \in BufferSet, Ordered(Held(p)), NEW t \in Nat, NEW id \in {0, 1, 3}
    PROVE  /\ RuntimeSequence(p, t) \in Nat
           /\ \A g \in Held(p) :
                \/ Before(g, StatusFrame(t, RuntimeSequence(p, t), id))
                \/ Before(StatusFrame(t, RuntimeSequence(p, t), id), g)
<1> DEFINE n == RuntimeSequence(p, t)
<1>1. n \in Nat /\ \A g \in Held(p) : g.tick = t => g.seq < n
  BY SequenceIsNext
<1> HIDE DEF n
<1>2. \A g \in Held(p) : g.tick \in Nat /\ g.seq \in Nat
  BY FrameNumbers DEF Ordered
<1>3. StatusFrame(t, n, id).tick = t /\ StatusFrame(t, n, id).seq = n
  BY DEF StatusFrame
<1> HIDE DEF StatusFrame
<1>4. ASSUME NEW g \in Held(p) PROVE Before(g, StatusFrame(t, n, id)) \/ Before(StatusFrame(t, n, id), g)
  <2>1. CASE g.tick = t
    BY <1>1, <1>3, <2>1 DEF Before
  <2>2. CASE g.tick # t
    BY <1>2, <1>3, <2>2 DEF Before
  <2> QED  BY <2>1, <2>2
<1> QED  BY <1>1, <1>4 DEF n

(* A status that is enqueued behind the frames of its tick.                *)
LEMMA StatusNext ==
    ASSUME Types, NEW q \in Seq(BusFrames), Traced(q), NEW r, NEW old, Feeds(r, old), Steady(r.p, q),
           NEW p \in BufferSet, Held(p) = Held(r.p),
           NEW t \in Nat, NEW id \in {1, 3},
           t <= worker.tick, r.p.tick # None => r.p.tick <= t,
           r.p.tick # None /\ r.p.tick < t => \A f \in Coming(q) : r.p.tick < f.tick,
           Unstarted(q) => t = 0
    PROVE  LET r2 == EnqueueStatus(r, t, RuntimeSequence(p, t), id)
           IN  /\ Steady(r2.p, q) /\ Feeds(r2, old)
               /\ \A s \in StatusesOf(Held(r2.p)) : s \in StatusesOf(Held(r.p)) \/ s.id # 0
               /\ r.p.history \subseteq r2.p.history
<1> DEFINE n == RuntimeSequence(p, t)
           r2 == EnqueueStatus(r, t, n, id)
<1>1. Ordered(Held(r.p))
  BY HeldOrdered DEF Steady
<1>2. id \in {0, 1, 3}
  OBVIOUS
<1>3. /\ n \in Nat
      /\ \A g \in Held(p) : Before(g, StatusFrame(t, n, id)) \/ Before(StatusFrame(t, n, id), g)
  BY <1>1, <1>2, NextIsFresh
<1> HIDE DEF n
<1>4. \A g \in StatusesOf(Held(r.p)) :
        Before(g, StatusFrame(t, n, id)) \/ Before(StatusFrame(t, n, id), g)
  BY <1>3 DEF StatusesOf
<1>5. /\ Steady(r2.p, q) /\ Feeds(r2, old)
      /\ StatusesOf(Held(r2.p)) \subseteq StatusesOf(Held(r.p)) \union {StatusFrame(t, n, id)}
      /\ r.p.history \subseteq r2.p.history
  BY <1>2, <1>3, <1>4, StatusSteady
<1>6. StatusFrame(t, n, id).id # 0
  BY DEF StatusFrame
<1> HIDE DEF r2, StatusFrame
<1> QED  BY <1>5, <1>6 DEF n, r2

(* MATCH_STARTED and the status behind it leave the buffers steady.        *)
LEMMA StartSteady ==
    ASSUME Types, NEW q \in Seq(BusFrames), q # <<>>, Traced(q), EndsLast(q),
           NEW r, NEW old, Feeds(r, old), Steady(r.p, q), Head(q).kind = "started",
           NEW id \in {1, 3}
    PROVE  LET r2 == EnqueueStarted(r, Head(q), id)
           IN  /\ Steady(r2.p, Tail(q)) /\ Feeds(r2, old)
               /\ \A s \in StatusesOf(Held(r2.p)) : s \in StatusesOf(Held(r.p)) \/ s.id # 0
               /\ r.p.history \subseteq r2.p.history
<1> DEFINE rest == Tail(q)
           sent == Publish(r, {Head(q)})
           r1 == [sent EXCEPT !.p.tick = Head(q).tick]
           t == Head(q).tick
           r2 == EnqueueStatus(r1, t, RuntimeSequence(sent.p, t), id)
<1>1. /\ Steady(r1.p, rest) /\ Feeds(r1, old)
      /\ Head(q) = Started
      /\ sent.p \in BufferSet /\ Held(r1.p) = Held(sent.p)
      /\ r1.p.tick = 0
      /\ StatusesOf(Held(r1.p)) = StatusesOf(Held(r.p))
      /\ r1.p.history = r.p.history \union {Started}
  BY StartSent
<1>2. Traced(rest) /\ rest \in Seq(BusFrames)
  BY CallFacts, TailPlaces
<1>3. EnqueueStarted(r, Head(q), id) = r2
  BY DEF EnqueueStarted
<1>4. t = 0
  BY <1>1 DEF Started, BusEvent
<1> HIDE DEF sent, r1, rest, t
<1>5. /\ t \in Nat /\ t <= worker.tick
      /\ r1.p.tick # None => r1.p.tick <= t
      /\ ~(r1.p.tick < t)
      /\ Unstarted(rest) => t = 0
  BY <1>1, <1>4 DEF Types
<1>6. /\ Steady(r2.p, rest) /\ Feeds(r2, old)
      /\ \A s \in StatusesOf(Held(r2.p)) : s \in StatusesOf(Held(r1.p)) \/ s.id # 0
      /\ r1.p.history \subseteq r2.p.history
  BY <1>1, <1>2, <1>5, StatusNext
<1> HIDE DEF r2
<1> QED  BY <1>1, <1>3, <1>6 DEF rest

(* MATCH_ENDED, with its status before it, sends all that waits.           *)
LEMMA EndSteady ==
    ASSUME Types, NEW q \in Seq(BusFrames), q # <<>>, Traced(q), EndsLast(q),
           NEW r, NEW old, Feeds(r, old), Steady(r.p, q), Zeros(r.p), Head(q).kind = "ended"
    PROVE  LET r2 == EnqueueEnded(r, Head(q))
           IN  /\ Steady(r2.p, Tail(q)) /\ Feeds(r2, old) /\ Zeros(r2.p)
               /\ r.p.history \subseteq r2.p.history
<1> DEFINE e == Head(q)
           rest == Tail(q)
           t == e.tick
           n == e.seq
           r1 == EnqueueStatus(r, t, n, 0)
           r2 == Hold(r1, e)
           r3 == Flush(r2)
<1>1. /\ Traced(rest) /\ rest \in Seq(BusFrames)
      /\ e \in Coming(q) /\ e \notin Coming(rest)
      /\ Behind(q, 1) = Coming(rest)
      /\ e \in published /\ e \in Frames /\ e.tick \in Nat /\ e.seq \in Nat
      /\ 1 \in DOMAIN q /\ q[1] = e
      /\ \A f \in Coming(q) : f \in published /\ f \in Frames /\ f.tick \in Nat /\ e.tick <= f.tick
  BY CallFacts, TailPlaces, FrameNumbers
<1>2. e.kind = "ended" /\ e.tick = worker.tick
  BY <1>1 DEF EndsLast
<1>3. r \in ResultSet /\ r.p \in BufferSet /\ Accounted(r.p, q)
  BY DEF Feeds, Steady
<1>4. r.p.tick # None => r.p.tick <= e.tick /\ ~(e.tick < r.p.tick)
  BY <1>1, <1>2, <1>3 DEF Accounted, BufferSet
<1>5. EnqueueEnded(r, e) = r3
  BY <1>4 DEF EnqueueEnded, TerminalId
<1>6. Unstarted(q) => e.tick = 0
  BY <1>1 DEF Unstarted, EndsLast, Started, BusEvent
<1>7. \A g \in StatusesOf(Held(r.p)) : g.id # 0
  <2> SUFFICES ASSUME NEW g \in StatusesOf(Held(r.p)), g.id = 0 PROVE FALSE
    OBVIOUS
  <2>1. PICK d \in r.p.history : d.kind = "ended"
    BY DEF Zeros, Finished
  <2>2. d \in published /\ d \in Held(r.p)
    BY <1>3, <2>1 DEF Accounted, BusEvents, Held
  <2>3. d = e
    BY <1>1, <1>2, <2>1, <2>2 DEF EndsLast
  <2> QED  BY <1>1, <1>3, <2>2, <2>3 DEF Accounted
<1> HIDE DEF e, rest, t, n
<1>8. t \in Nat /\ n \in Nat /\ t = e.tick
  BY <1>1 DEF t, n
<1>9. ASSUME NEW g \in StatusesOf(Held(r.p))
      PROVE  Before(g, StatusFrame(t, n, 0)) \/ Before(StatusFrame(t, n, 0), g)
  <2>1. g \in Frames
    BY <1>3 DEF StatusesOf, Held, BufferSet
  <2>2. g.tick \in Nat /\ g.seq \in Nat /\ g.id \in Nat /\ g.id # 0
    BY <1>7, <2>1, FrameNumbers
  <2>3. /\ StatusFrame(t, n, 0).tick = t /\ StatusFrame(t, n, 0).seq = n
        /\ StatusFrame(t, n, 0).id = 0
    BY DEF StatusFrame
  <2> QED  BY <1>8, <2>2, <2>3 DEF Before
<1>10. /\ Steady(r1.p, q) /\ Feeds(r1, old)
       /\ r.p.history \subseteq r1.p.history
  <2>1. /\ t <= worker.tick
        /\ r.p.tick # None => r.p.tick <= t
        /\ Unstarted(q) => t = 0
    BY <1>1, <1>2, <1>4, <1>6, <1>8
  <2>2. r.p.tick # None /\ r.p.tick < t => \A f \in Coming(q) : r.p.tick < f.tick
    BY <1>1, <1>3, <1>8 DEF BufferSet
  <2> QED  BY <1>8, <1>9, <2>1, <2>2, StatusSteady
<1> HIDE DEF r1
<1>11. /\ Steady(r2.p, rest) /\ Feeds(r2, old)
       /\ r1.p.history \subseteq r2.p.history
  BY <1>10, HoldSteady DEF e, rest
<1> HIDE DEF r2
<1>12. Accounted(r2.p, rest) /\ Overtaken(r2.p, rest) /\ r2.p \in BufferSet
  BY <1>11 DEF Steady
<1>13. e \in Held(r2.p)
  <2>1. CASE e \in r2.p.quarantined
    <3>1. PICK f \in StatusesOf(Held(r2.p)) : e.tick < f.tick
      BY <1>12, <2>1 DEF Overtaken
    <3>2. f.tick <= worker.tick /\ f \in Frames
      BY <1>12 DEF Accounted, StatusesOf, Held, BufferSet
    <3> QED  BY <1>1, <1>2, <3>1, <3>2, FrameNumbers
  <2> QED  BY <1>1, <1>12, <2>1 DEF Accounted
<1>14. Ripe(r2.p, rest)
  <2> SUFFICES ASSUME NEW g \in BusEvents(Held(r2.p)), NEW f \in Coming(rest), Before(f, g),
                      f \notin lost
               PROVE  FALSE
    BY DEF Ripe
  <2>1. g \in published /\ g \notin Coming(rest)
    BY <1>12 DEF Accounted, BusEvents
  <2>2. Before(g, f)
    BY <1>1, <1>2, <2>1 DEF EndsLast
  <2>3. f \in published
    BY <1>1 DEF Coming, ToSet, Traced
  <2> QED  BY <2>1, <2>2, <2>3, BusFacts, BeforeOrders
<1>15. /\ Steady(r3.p, rest) /\ Feeds(r3, old) /\ r3.p.history = Held(r2.p)
  BY <1>1, <1>11, <1>14, SteadyFlush
<1> HIDE DEF r3
<1>16. Zeros(r3.p)
  BY <1>2, <1>13, <1>15 DEF Zeros, Finished
<1>17. r.p.history \subseteq r3.p.history
  BY <1>10, <1>11, <1>15 DEF Held
<1> QED  BY <1>5, <1>15, <1>16, <1>17 DEF e, rest

(* A terminal status stands before MATCH_ENDED still.                      *)
LEMMA ZerosStay ==
    ASSUME Types, NEW q, NEW p, Steady(p, q), Zeros(p), Traced(q), EndsLast(q),
           NEW rest, NEW p2, Steady(p2, rest),
           \A f \in Coming(q) : f \in Coming(rest) \/ f.kind # "ended",
           p.history \subseteq p2.history,
           \A s \in StatusesOf(Held(p2)) : s \in StatusesOf(Held(p)) \/ s.id # 0
    PROVE  Zeros(p2)
<1>1. p \in BufferSet /\ Accounted(p, q) /\ Overtaken(p, q) /\ Accounted(p2, rest)
  BY DEF Steady
<1>2. ASSUME Finished(Held(p2)) PROVE Finished(p2.history)
  <2>1. PICK d \in Held(p2) : d.kind = "ended"
    BY <1>2 DEF Finished
  <2>2. d \in published /\ d \notin Coming(rest)
    BY <1>1, <2>1 DEF Accounted, BusEvents
  <2>3. d \in Held(p) \union p.quarantined
    BY <1>1, <2>1, <2>2 DEF Accounted
  <2>4. d.tick = worker.tick
    BY <2>1, <2>2 DEF EndsLast
  <2>5. d \notin p.quarantined
    <3> SUFFICES ASSUME d \in p.quarantined PROVE FALSE
      OBVIOUS
    <3>1. PICK f \in StatusesOf(Held(p)) : d.tick < f.tick
      BY <1>1 DEF Overtaken
    <3>2. f.tick <= worker.tick /\ f \in Frames /\ worker.tick \in Nat
      BY <1>1 DEF Accounted, StatusesOf, Held, BufferSet, Types
    <3> QED  BY <2>4, <3>1, <3>2, FrameNumbers
  <2>6. Finished(p.history)
    BY <2>1, <2>3, <2>5 DEF Zeros, Finished
  <2> QED  BY <2>6 DEF Finished
<1>3. \A s \in StatusesOf(Held(p2)) : s.id = 0 => Finished(p2.history)
  BY DEF Zeros, Finished
<1> QED  BY <1>2, <1>3 DEF Zeros

(* MATCH_ENDED is last still when the oldest call has run.                 *)
LEMMA EndsLastTail ==
    ASSUME NEW q \in Seq(BusFrames), q # <<>>, EndsLast(q)
    PROVE  EndsLast(Tail(q))
<1> DEFINE rest == Tail(q)
<1>1. /\ rest \in Seq(BusFrames)
      /\ \A i \in DOMAIN rest : i + 1 \in DOMAIN q /\ rest[i] = q[i + 1] /\ i \in Nat
      /\ \A i \in DOMAIN q : i \in Nat /\ (i # 1 => i - 1 \in DOMAIN rest /\ rest[i - 1] = q[i])
  BY TailPlaces
<1> HIDE DEF rest
<1>2. ASSUME NEW j \in DOMAIN rest
      PROVE  Behind(rest, j) = Behind(q, j + 1)
  <2>1. \A k \in DOMAIN rest : k > j => k + 1 > j + 1
    BY <1>1
  <2>2. \A k \in DOMAIN q : k > j + 1 => k - 1 \in DOMAIN rest /\ rest[k - 1] = q[k] /\ k - 1 > j
    <3>1. \A k \in DOMAIN q : k > j + 1 => k # 1 /\ k - 1 > j
      BY <1>1
    <3> QED  BY <1>1, <3>1
  <2>3. {rest[k] : k \in {k \in DOMAIN rest : k > j}} = {q[k] : k \in {k \in DOMAIN q : k > j + 1}}
    BY <1>1, <2>1, <2>2
  <2> QED  BY <2>3 DEF Behind
<1>3. \A j \in DOMAIN rest : rest[j].kind = "ended" =>
         \A f \in Behind(rest, j) : f \in lost \/ \A e \in published \ Behind(rest, j) : Before(e, f)
  BY <1>1, <1>2 DEF EndsLast
<1>4. EndsLast(rest)
  BY <1>3 DEF EndsLast
<1> QED  BY <1>4 DEF rest

(* The loop handles the oldest call.                                       *)
LEMMA CallSteady ==
    ASSUME Types, NEW q \in Seq(BusFrames), q # <<>>, Traced(q), EndsLast(q),
           NEW r, NEW old, Feeds(r, old), Steady(r.p, q), Zeros(r.p), NEW id \in {1, 3}
    PROVE  LET r2 == EnqueueEvent(r, Head(q), id)
           IN  /\ Steady(r2.p, Tail(q)) /\ Feeds(r2, old) /\ Zeros(r2.p)
               /\ r.p.history \subseteq r2.p.history
<1> DEFINE e == Head(q)
           r2 == EnqueueEvent(r, e, id)
<1>1. CASE e.kind = "started"
  <2>1. r2 = EnqueueStarted(r, e, id)
    BY <1>1 DEF EnqueueEvent
  <2>2. /\ Steady(r2.p, Tail(q)) /\ Feeds(r2, old)
        /\ \A s \in StatusesOf(Held(r2.p)) : s \in StatusesOf(Held(r.p)) \/ s.id # 0
        /\ r.p.history \subseteq r2.p.history
    BY <1>1, <2>1, StartSteady
  <2> HIDE DEF r2
  <2>3. \A f \in Coming(q) : f \in Coming(Tail(q)) \/ f.kind # "ended"
    BY <1>1, CallFacts
  <2>4. Zeros(r2.p)
    BY <2>2, <2>3, ZerosStay
  <2> QED  BY <2>2, <2>4 DEF r2
<1>2. CASE e.kind = "ended"
  <2>1. r2 = EnqueueEnded(r, e)
    BY <1>2 DEF EnqueueEvent
  <2>2. /\ Steady(r2.p, Tail(q)) /\ Feeds(r2, old) /\ Zeros(r2.p)
        /\ r.p.history \subseteq r2.p.history
    BY <1>2, <2>1, EndSteady
  <2> HIDE DEF r2
  <2> QED  BY <2>2 DEF r2
<1>3. CASE e.kind \notin {"started", "ended"}
  <2>1. r2 = Hold(r, e)
    BY <1>3 DEF EnqueueEvent
  <2>2. /\ Steady(r2.p, Tail(q)) /\ Feeds(r2, old)
        /\ StatusesOf(Held(r2.p)) = StatusesOf(Held(r.p))
        /\ r.p.history \subseteq r2.p.history
    BY <2>1, HoldSteady
  <2> HIDE DEF r2
  <2>3. \A f \in Coming(q) : f \in Coming(Tail(q)) \/ f.kind # "ended"
    BY <1>3, CallFacts
  <2>4. Zeros(r2.p)
    BY <2>2, <2>3, ZerosStay
  <2> QED  BY <2>2, <2>4 DEF r2
<1> QED  BY <1>1, <1>2, <1>3

-----------------------------------------------------------------------------
(* A transport keeps every frame it is sent, accepted or refused.          *)
LEMMA IngestKeeps ==
    ASSUME NEW tab \in TabSet, NEW e \in Frames
    PROVE  Ingest(tab, e) \in TabSet /\ Got(Ingest(tab, e)) = Got(tab) \union {e}
<1>1. CASE e \in tab.events
  BY <1>1 DEF Ingest, Got
<1>2. CASE e \notin tab.events /\ Acceptable(tab, e)
  BY <1>2 DEF Ingest, Got, TabSet
<1>3. CASE e \notin tab.events /\ ~Acceptable(tab, e)
  BY <1>3 DEF Ingest, Got, TabSet
<1> QED  BY <1>1, <1>2, <1>3

(* A transport keeps all frames of a list it is sent, as far as they       *)
(* reach it.                                                               *)
LEMMA TabsKeep ==
    ASSUME NEW tab \in TabSet, NEW list \in Seq(Frames)
    PROVE  \A k \in 0 .. Len(list) :
             /\ Tabs(tab, list)[k] \in TabSet
             /\ Got(Tabs(tab, list)[k]) = Got(tab) \union {list[i] : i \in 1 .. k}
<1> DEFINE at(k) == Tabs(tab, list)[k]
           T == {k \in 0 .. Len(list) :
                   /\ at(k) \in TabSet
                   /\ Got(at(k)) = Got(tab) \union {list[i] : i \in 1 .. k}}
<1>0. Len(list) \in Nat
  OBVIOUS
<1>1. at(0) = tab /\ \A n \in 1 .. Len(list) : at(n) = Ingest(at(n - 1), list[n])
  BY <1>0, TabsStep
<1>2. 0 \in T
  BY <1>0, <1>1
<1>3. \A k \in 0 .. Len(list) - 1 : k \in T => k + 1 \in T
  <2> SUFFICES ASSUME NEW k \in 0 .. Len(list) - 1, k \in T PROVE k + 1 \in T
    OBVIOUS
  <2> DEFINE e == list[k + 1]
  <2>1. k \in Nat /\ k + 1 \in 1 .. Len(list) /\ k + 1 \in 0 .. Len(list) /\ (k + 1) - 1 = k
    BY <1>0
  <2>2. at(k + 1) = Ingest(at(k), e)
    BY <1>1, <2>1
  <2>3. e \in Frames
    BY <2>1
  <2>4. at(k) \in TabSet /\ Got(at(k)) = Got(tab) \union {list[i] : i \in 1 .. k}
    OBVIOUS
  <2> HIDE DEF at
  <2>5. at(k + 1) \in TabSet /\ Got(at(k + 1)) = Got(at(k)) \union {e}
    <3> HIDE DEF e
    <3> QED  BY <2>2, <2>3, <2>4, IngestKeeps
  <2>6. {list[i] : i \in 1 .. k + 1} = {list[i] : i \in 1 .. k} \union {e}
    BY <2>1
  <2> QED  BY <2>1, <2>4, <2>5, <2>6
<1>4. \A k \in 0 .. Len(list) : k \in T
  <2> HIDE DEF T
  <2> QED  BY <1>0, <1>2, <1>3, StepByStep
<1> QED  BY <1>4

(* A browser keeps the frames that reach it, and is connected behind the   *)
(* last one at most.                                                       *)
LEMMA ReceiveKeeps ==
    ASSUME NEW client \in [link : {"up", "down"}, tab : TabSet], NEW list \in Seq(Frames),
           NEW k \in 0 .. Len(list)
    PROVE  LET new == Receive(client, list, k)
           IN  /\ new \in [link : {"up", "down"}, tab : TabSet]
               /\ Got(new.tab) = Got(client.tab) \union {list[i] : i \in 1 .. k}
               /\ new.link = "up" => k = Len(list) /\ client.link = "up"
<1> DEFINE new == Receive(client, list, k)
<1>1. new.tab = Tabs(client.tab, list)[k]
      /\ new.link = (IF k = Len(list) THEN client.link ELSE "down")
      /\ new = [link |-> new.link, tab |-> new.tab]
  BY DEF Receive
<1>2. new.tab \in TabSet /\ Got(new.tab) = Got(client.tab) \union {list[i] : i \in 1 .. k}
  BY <1>1, TabsKeep
<1>3. new.link \in {"up", "down"} /\ (new.link = "up" => k = Len(list) /\ client.link = "up")
  BY <1>1
<1> HIDE DEF new
<1>4. new \in [link : {"up", "down"}, tab : TabSet]
  BY <1>1, <1>2, <1>3
<1> QED  BY <1>2, <1>3, <1>4 DEF new

(* What a browser has when it is sent some of what the loop queued.        *)
LEMMA FeedLeavesNoGap ==
    ASSUME Types, NEW r, NEW old, Feeds(r, old), NEW k \in 0 .. Len(r.out),
           BusEvents(r.p.history) \subseteq published, r.p.quarantined \subseteq published,
           NEW G, BusEvents(G) \subseteq published, NoGap(G, lost), old \subseteq G
    PROVE  LET H == G \union {r.out[i] : i \in 1 .. k}
           IN  /\ BusEvents(H) \subseteq published
               /\ NoGap(H, lost \union r.p.quarantined)
               /\ k = Len(r.out) => r.p.history \subseteq H
<1> DEFINE H == G \union {r.out[i] : i \in 1 .. k}
<1>1. /\ r.out \in Seq(Frames) /\ Len(r.out) \in Nat /\ DOMAIN r.out = 1 .. Len(r.out)
      /\ r.p.history = old \union ToSet(r.out)
      /\ \A i \in 1 .. Len(r.out), f \in published :
         r.out[i].kind # "status" /\ Before(f, r.out[i]) =>
            \/ f \in old \union lost \union r.p.quarantined
            \/ \E j \in 1 .. Len(r.out) : j < i /\ r.out[j] = f
  BY DEF Feeds, ResultSet
<1>2. \A i \in 1 .. k : i \in 1 .. Len(r.out)
  BY <1>1
<1>3. \A i \in 1 .. k : r.out[i] \in r.p.history
  BY <1>1, <1>2 DEF ToSet
<1>4. BusEvents(H) \subseteq published
  BY <1>3 DEF BusEvents
<1>5. NoGap(H, lost \union r.p.quarantined)
  <2> SUFFICES ASSUME NEW e \in BusEvents(H), NEW f \in published, Before(f, e)
               PROVE  f \in H \union (lost \union r.p.quarantined)
    BY DEF NoGap
  <2>1. CASE e \in G
    BY <2>1 DEF NoGap, BusEvents
  <2>2. CASE e \notin G
    <3>1. PICK i \in 1 .. k : r.out[i] = e
      BY <2>2 DEF BusEvents
    <3>2. \/ f \in old \union lost \union r.p.quarantined
          \/ \E j \in 1 .. Len(r.out) : j < i /\ r.out[j] = f
      BY <1>1, <1>2, <3>1 DEF BusEvents
    <3>3. CASE \E j \in 1 .. Len(r.out) : j < i /\ r.out[j] = f
      <4>1. PICK j \in 1 .. Len(r.out) : j < i /\ r.out[j] = f
        BY <3>3
      <4>2. j \in 1 .. k
        BY <4>1
      <4> QED  BY <4>1, <4>2
    <3> QED  BY <3>2, <3>3
  <2> QED  BY <2>1, <2>2
<1>6. ASSUME k = Len(r.out) PROVE r.p.history \subseteq H
  BY <1>1, <1>6 DEF ToSet
<1> QED  BY <1>4, <1>5, <1>6

(* What has no gap has none when more is lost.                             *)
LEMMA LostGrows ==
    ASSUME NEW G, NEW gone, NoGap(G, gone), NEW more, gone \subseteq more
    PROVE  NoGap(G, more)
BY DEF NoGap

(* A result is sent to every browser.                                      *)
LEMMA SentAll ==
    ASSUME Types, ClientTypes, HaveAll, NEW r, Feeds(r, proj.history), Send(r),
           BusEvents(r.p.history) \subseteq published, r.p.quarantined \subseteq published,
           published' = published
    PROVE  /\ proj' = r.p /\ lost' = lost \union r.p.quarantined
           /\ ClientTypes' /\ HaveAll'
           /\ \A c \in Clients : clients[c].link = "down" => clients'[c].link = "down"
<1>1. proj' = r.p
  BY DEF Send
<1>2. lost' = lost \union r.p.quarantined
  <2>1. \A e \in r.p.quarantined : e.kind # "status"
    BY BusFacts
  <2> QED  BY <2>1 DEF Send
<1>3. PICK got \in [Clients -> 0 .. Len(r.out)] :
         clients' = [c \in Clients |->
                       IF clients[c].link = "up"
                       THEN Receive(clients[c], r.out, got[c])
                       ELSE clients[c]]
  BY DEF Send
<1>4. r.out \in Seq(Frames)
  BY DEF Feeds, ResultSet
<1>5. ASSUME NEW c \in Clients
      PROVE  /\ clients'[c] \in [link : {"up", "down"}, tab : TabSet]
             /\ BusEvents(Got(clients'[c].tab)) \subseteq published
             /\ NoGap(Got(clients'[c].tab), lost')
             /\ clients'[c].link = "up" => r.p.history \subseteq Got(clients'[c].tab)
             /\ clients[c].link = "down" => clients'[c].link = "down"
  <2> DEFINE client == clients[c]
             G == Got(client.tab)
  <2>1. /\ client \in [link : {"up", "down"}, tab : TabSet]
        /\ BusEvents(G) \subseteq published /\ NoGap(G, lost)
        /\ client.link = "up" => proj.history \subseteq G
    BY DEF ClientTypes, HaveAll
  <2>2. clients'[c] = IF client.link = "up" THEN Receive(client, r.out, got[c]) ELSE client
    BY <1>3
  <2>3. got[c] \in 0 .. Len(r.out)
    BY <1>3
  <2>4. CASE client.link = "up"
    <3> DEFINE new == Receive(client, r.out, got[c])
               H == G \union {r.out[i] : i \in 1 .. got[c]}
    <3>1. /\ new \in [link : {"up", "down"}, tab : TabSet]
          /\ Got(new.tab) = H
          /\ new.link = "up" => got[c] = Len(r.out) /\ client.link = "up"
      <4> HIDE DEF client
      <4> QED  BY <1>4, <2>1, <2>3, ReceiveKeeps DEF client
    <3>2. /\ BusEvents(H) \subseteq published
          /\ NoGap(H, lost \union r.p.quarantined)
          /\ got[c] = Len(r.out) => r.p.history \subseteq H
      <4> HIDE DEF client, G
      <4> QED  BY <2>1, <2>3, <2>4, FeedLeavesNoGap
    <3>3. clients'[c] = new
      BY <2>2, <2>4
    <3>4. clients[c].link # "down"
      BY <2>4
    <3> HIDE DEF new, H
    <3> QED  BY <1>2, <3>1, <3>2, <3>3, <3>4
  <2>5. CASE client.link # "up"
    <3>1. clients'[c] = client
      BY <2>2, <2>5
    <3>2. NoGap(G, lost')
      <4> HIDE DEF client, G
      <4> QED  BY <1>2, <2>1, LostGrows
    <3> QED  BY <2>1, <2>5, <3>1, <3>2
  <2> QED  BY <2>4, <2>5
<1>6. clients' = [c \in Clients |-> clients'[c]]
  BY <1>3
<1>7. ClientTypes'
  BY <1>5, <1>6 DEF ClientTypes
<1>8. HaveAll'
  BY <1>1, <1>5 DEF HaveAll, NoGap
<1> QED  BY <1>1, <1>2, <1>5, <1>7, <1>8

-----------------------------------------------------------------------------
(* What a step leaves as it is.                                            *)
Remains == Types' /\ ClientTypes' /\ HaveAll' /\ (Showing' \/ Retained')

(* A step that publishes nothing leaves the worker's part, for the calls   *)
(* it leaves.                                                              *)
LEMMA WorkerHolds ==
    ASSUME NEW q, Traced(q), EndsLast(q), calls' = q, published' = published, lost \subseteq lost',
           worker'.tick = worker.tick, worker'.seq = worker.seq, worker'.stack = worker.stack,
           \/ worker'.phase = worker.phase
           \/ worker.stack = <<>> /\ worker'.phase \in {"checkpoint", "done", "reaped"},
           worker.phase \in {"ending", "done", "reaped"} =>
              worker'.phase \in {"ending", "done", "reaped"},
           worker'.phase \in {"done", "reaped"} =>
              published = {} \/ runtime'.status = "failed" \/ Finished(published)
    PROVE  Traced(calls)' /\ EndsLast(calls)'
<1>1. Traced(calls)'
  BY DEF Traced
<1>2. \A j : Behind(calls, j)' = Behind(q, j)
  BY DEF Behind
<1>3. /\ \A i, j \in DOMAIN worker.stack : i < j /\ worker.stack[j].kind = "ended" =>
            worker.stack[i] \in lost'
      /\ \A j \in DOMAIN q : q[j].kind = "ended" =>
           \A f \in Behind(q, j) : f \in lost' \/ \A e \in published \ Behind(q, j) : Before(e, f)
  BY DEF EndsLast
<1>4. /\ \A e \in published : e.kind = "ended" =>
            worker'.phase \in {"ending", "done", "reaped"} /\ e.tick = worker'.tick
      /\ \A d, e \in published : d.kind = "ended" /\ e.kind = "ended" => d = e
      /\ worker'.phase = "admitted" => published = {} /\ worker'.tick = 0
      /\ worker'.phase = "ending" => Finished(published)
  BY DEF EndsLast
<1>5. Finished(published)' <=> Finished(published)
  BY DEF Finished
<1>6. EndsLast(calls)'
  BY <1>2, <1>3, <1>4, <1>5 DEF EndsLast
<1> QED  BY <1>1, <1>6

(* Buffers stay steady while the same events come.                         *)
LEMMA SteadyHolds ==
    ASSUME NEW p, NEW q, Steady(p, q), proj' = p, Coming(calls)' = Coming(q),
           worker'.tick = worker.tick, worker'.phase = "admitted" => worker.phase = "admitted",
           published' = published, lost \subseteq lost'
    PROVE  Steady(proj, calls)'
<1>1. Accounted(proj, calls)'
  BY DEF Steady, Accounted, Held, BusEvents
<1>2. Placed(proj)'
  BY DEF Steady, Placed, Held, StatusesOf
<1>3. Overtaken(proj, calls)'
  BY DEF Steady, Overtaken, Held, StatusesOf
<1>4. Rest(proj, calls)'
  BY DEF Steady, Rest, BusEvents
<1>5. NoGap(proj.history, lost \union proj.quarantined)'
  BY DEF Steady, NoGap, BusEvents
<1>6. Unstarted(calls)' => Unstarted(q)
  BY DEF Unstarted
<1>7. (proj \in BufferSet)' /\ (Unstarted(calls)' => proj'.tick \in {None, 0})
  BY <1>6 DEF Steady
<1> QED  BY <1>1, <1>2, <1>3, <1>4, <1>5, <1>7 DEF Steady

(* Before a callback sends anything its queue is empty.                    *)
LEMMA BuffersFeed ==
    ASSUME proj \in BufferSet
    PROVE  Feeds(Buffers, proj.history) /\ Buffers.p = proj
<1>1. Buffers.p = proj /\ Buffers.out = <<>> /\ Buffers \in ResultSet
  BY DEF Buffers, ResultSet
<1>2. ToSet(<<>>) = {} /\ Len(<<>>) = 0
  BY DEF ToSet
<1>3. \A i \in 1 .. 0 : FALSE
  OBVIOUS
<1> QED  BY <1>1, <1>2, <1>3 DEF Feeds

(* A result is sent.                                                       *)
LEMMA SentShowing ==
    ASSUME Types, ClientTypes, HaveAll, Showing, NEW q \in Seq(BusFrames), NEW r,
           Feeds(r, proj.history), Steady(r.p, q), Zeros(r.p), Traced(q), EndsLast(q),
           Send(r), calls' = q, UNCHANGED <<runtime, session, late, published>>,
           \/ worker' = worker
           \/ worker' = [worker EXCEPT !.phase = "reaped"] /\ worker.phase = "done",
           worker'.phase = "reaped" =>
              /\ q = <<>>
              /\ \A e \in published :
                   \/ e \in r.p.history \union lost \union r.p.quarantined
                   \/ \E d \in published : d.kind = "ended" /\ Before(d, e),
           handler' = "resumed" \/ (runtime.status = "paused" /\ handler' = "idle" /\ ~runtime.stop)
              => ~Unstarted(q)
    PROVE  Remains
<1>1. r.p \in BufferSet /\ Accounted(r.p, q)
  BY DEF Steady
<1>2. /\ proj' = r.p /\ lost' = lost \union r.p.quarantined
      /\ ClientTypes' /\ HaveAll'
      /\ \A c \in Clients : clients[c].link = "down" => clients'[c].link = "down"
  <2>1. BusEvents(r.p.history) \subseteq published /\ r.p.quarantined \subseteq published
    BY <1>1 DEF Accounted, BusEvents, Held
  <2> QED  BY <2>1, SentAll
<1>3. /\ worker'.tick = worker.tick /\ worker'.seq = worker.seq /\ worker'.stack = worker.stack
      /\ worker' \in [phase : {"admitted", "ticking", "checkpoint", "ending", "done", "reaped"},
                   tick : Nat, seq : Nat, stack : Seq(BusFrames)]
      /\ worker'.phase = worker.phase \/ (worker.phase = "done" /\ worker'.phase = "reaped")
  BY DEF Types
<1>4. Types'
  BY <1>1, <1>2, <1>3 DEF Types
<1>5. Traced(calls)' /\ EndsLast(calls)'
  <2>1. /\ worker'.phase \in {"done", "reaped"} =>
              published = {} \/ runtime'.status = "failed" \/ Finished(published)
        /\ worker.phase = "done" => worker.stack = <<>>
    BY <1>3 DEF EndsLast, Traced
  <2> QED  BY <1>2, <1>3, <2>1, WorkerHolds
<1>6. Coming(calls)' = Coming(q)
  BY <1>3 DEF Coming
<1>7. Steady(proj, calls)'
  BY <1>2, <1>3, <1>6, SteadyHolds
<1>8. Zeros(proj)' /\ proj'.quarantined \subseteq lost'
  BY <1>2 DEF Zeros, Finished, StatusesOf, Held
<1>9. worker'.phase = "reaped" => calls' = <<>> /\ Complete(proj.history)'
  BY <1>2, <1>3 DEF Complete
<1>10. Unstarted(calls)' => Unstarted(q)
  BY <1>3, <1>6 DEF Unstarted
<1>11. ~late'.seen => \A c \in Clients : clients'[c].link = "down"
  BY <1>2 DEF Showing
<1>12. session' /\ ~late'.token
  BY DEF Showing
<1>13. Showing'
  BY <1>5, <1>7, <1>8, <1>9, <1>10, <1>11, <1>12 DEF Showing
<1> QED  BY <1>2, <1>4, <1>13 DEF Remains

-----------------------------------------------------------------------------
(* The steps of the loop that send.                                        *)
LEMMA RemainsRunCall ==
    ASSUME ProjectionAssumption, Types, ClientTypes, HaveAll, Showing, RunCall
    PROVE  Remains
<1>1. PICK id \in StatusIds : Send(EnqueueEvent(Buffers, Head(calls), id))
  BY DEF RunCall
<1> DEFINE r == EnqueueEvent(Buffers, Head(calls), id)
           q == Tail(calls)
<1>2. /\ calls # <<>> /\ calls' = q /\ LoopFree
      /\ UNCHANGED <<worker, runtime, session, late, handler, published>>
  BY DEF RunCall
<1>3. id \in {1, 3} /\ calls \in Seq(BusFrames) /\ proj \in BufferSet
  BY DEF ProjectionAssumption, Types
<1>4. Traced(calls) /\ EndsLast(calls) /\ Steady(proj, calls) /\ Zeros(proj)
  BY DEF Showing
<1>5. Feeds(Buffers, proj.history) /\ Buffers.p = proj
  BY <1>3, BuffersFeed
<1>6. Steady(r.p, q) /\ Feeds(r, proj.history) /\ Zeros(r.p)
  BY <1>2, <1>3, <1>4, <1>5, CallSteady
<1>7. q \in Seq(BusFrames) /\ Traced(q) /\ EndsLast(q) /\ Coming(q) \subseteq Coming(calls)
  BY <1>2, <1>3, <1>4, CallFacts, TailPlaces, EndsLastTail
<1>8. Send(r)
  BY <1>1
<1> HIDE DEF r, q
<1>9. worker'.phase # "reaped"
  BY <1>2 DEF Showing
<1>10. handler' = "resumed" \/ (runtime.status = "paused" /\ handler' = "idle" /\ ~runtime.stop)
         => ~Unstarted(q)
  BY <1>2, <1>7 DEF Showing, Unstarted
<1> QED  BY <1>2, <1>6, <1>7, <1>8, <1>9, <1>10, SentShowing

(* Between two ticks of a loop that has run every call nothing comes.      *)
LEMMA NoneComes ==
    ASSUME Traced(calls), calls = <<>>, worker.phase \notin {"ticking", "ending"}
    PROVE  Coming(calls) = {}
<1>1. worker.stack = <<>>
  BY DEF Traced
<1>2. DOMAIN <<>> = {}
  OBVIOUS
<1> QED  BY <1>1, <1>2 DEF Coming, ToSet

(* A status with all that waits, when nothing comes.                       *)
LEMMA BoundarySteady ==
    ASSUME ProjectionAssumption, Types, Showing, NEW t \in Nat, NEW id \in {1, 3},
           Coming(calls) = {}, worker.phase # "admitted",
           t <= worker.tick, proj.tick # None => proj.tick <= t
    PROVE  LET r == Flush(EnqueueStatus(Buffers, t, RuntimeSequence(proj, t), id))
           IN  /\ Steady(r.p, calls) /\ Feeds(r, proj.history) /\ Zeros(r.p)
               /\ published \subseteq r.p.history \union lost \union r.p.quarantined
<1> DEFINE r1 == EnqueueStatus(Buffers, t, RuntimeSequence(proj, t), id)
           r == Flush(r1)
<1>1. calls \in Seq(BusFrames) /\ proj \in BufferSet
  BY DEF Types
<1>2. Traced(calls) /\ EndsLast(calls) /\ Steady(proj, calls) /\ Zeros(proj)
  BY DEF Showing
<1>4. ~Unstarted(calls)
  BY DEF Unstarted
<1>5. Feeds(Buffers, proj.history) /\ Buffers.p = proj
  BY <1>1, BuffersFeed
<1>6. /\ Steady(r1.p, calls) /\ Feeds(r1, proj.history)
      /\ \A s \in StatusesOf(Held(r1.p)) : s \in StatusesOf(Held(proj)) \/ s.id # 0
      /\ proj.history \subseteq r1.p.history
  <2>1. /\ Buffers.p.tick # None => Buffers.p.tick <= t
        /\ \A f \in Coming(calls) : Buffers.p.tick < f.tick
        /\ Unstarted(calls) => t = 0
        /\ Held(proj) = Held(Buffers.p)
    BY <1>4, <1>5
  <2> QED  BY <1>1, <1>2, <1>5, <2>1, StatusNext
<1> HIDE DEF r1
<1>7. Ripe(r1.p, calls)
  BY DEF Ripe
<1>8. /\ Steady(r.p, calls) /\ Feeds(r, proj.history)
      /\ r.p.tick = None /\ r.p.history = Held(r1.p)
  BY <1>2, <1>6, <1>7, SteadyFlush
<1> HIDE DEF r
<1>9. Held(r.p) = Held(r1.p) /\ r.p.history = Held(r.p) /\ Accounted(r.p, calls)
  BY <1>8 DEF Steady, Accounted, Held
<1>10. Zeros(r.p)
  <2>1. proj.history \subseteq r.p.history
    BY <1>6, <1>8 DEF Held
  <2>2. \A s \in StatusesOf(Held(r.p)) : s \in StatusesOf(Held(proj)) \/ s.id # 0
    BY <1>6, <1>9
  <2> QED  BY <1>2, <1>8, <2>1, <2>2, ZerosStay
<1>11. published \subseteq r.p.history \union lost \union r.p.quarantined
  BY <1>9 DEF Accounted
<1> QED  BY <1>8, <1>10, <1>11 DEF r, r1

(* The boundary of a PAUSE sends its status and what waited.               *)
LEMMA RemainsPauseBoundary ==
    ASSUME ProjectionAssumption, Types, ClientTypes, HaveAll, Showing, PauseBoundary
    PROVE  Remains
<1> DEFINE t == worker.tick
<1>1. PICK id \in StatusIds : Send(Flush(EnqueueStatus(Buffers, t, RuntimeSequence(proj, t), id)))
  BY DEF PauseBoundary
<1> DEFINE r == Flush(EnqueueStatus(Buffers, t, RuntimeSequence(proj, t), id))
<1>2. /\ worker.phase = "checkpoint" /\ calls = <<>>
      /\ calls' = calls /\ handler' = "idle"
      /\ UNCHANGED <<worker, runtime, session, late, published>>
  BY DEF PauseBoundary
<1>3. id \in {1, 3} /\ calls \in Seq(BusFrames) /\ t \in Nat /\ t <= worker.tick
  BY DEF ProjectionAssumption, Types
<1>4. /\ Traced(calls) /\ EndsLast(calls) /\ (proj.tick # None => proj.tick <= t)
      /\ Coming(calls) = {}
  BY <1>2, NoneComes DEF Showing, Steady, Accounted
<1>5. Steady(r.p, calls) /\ Feeds(r, proj.history) /\ Zeros(r.p)
  BY <1>2, <1>3, <1>4, BoundarySteady
<1>6. Send(r)
  BY <1>1
<1> HIDE DEF r, t
<1>7. ~Unstarted(calls)
  BY <1>2, <1>4 DEF Unstarted
<1> QED  BY <1>2, <1>3, <1>4, <1>5, <1>6, <1>7, SentShowing

(* A status is of a tick the worker has opened.                            *)
LEMMA TicksOfStatuses ==
    ASSUME Types, Steady(proj, calls), NEW t \in StatusTicks(proj)
    PROVE  t \in Nat /\ t <= worker.tick /\ (proj.tick # None => proj.tick = t)
<1>1. worker.tick \in Nat /\ proj.tick \in Nat \union {None}
  BY DEF Types, BufferSet
<1>2. CASE proj.tick = None
  <2>1. t \in FoldTicks
    BY <1>2 DEF StatusTicks
  <2>2. t = worker.tick \/ (worker.tick > 0 /\ t = worker.tick - 1)
    BY <2>1 DEF FoldTicks
  <2> QED  BY <1>1, <1>2, <2>2
<1>3. CASE proj.tick # None
  BY <1>1, <1>3 DEF StatusTicks, Steady, Accounted
<1> QED  BY <1>2, <1>3

(* The status of a RESUME is held or sent as an event is.                  *)
LEMMA RemainsResumeStatus ==
    ASSUME ProjectionAssumption, Types, ClientTypes, HaveAll, Showing, ResumeStatus
    PROVE  Remains
<1>1. PICK t \in StatusTicks(proj), id \in StatusIds :
        Send(EnqueueStatus(Buffers, t, RuntimeSequence(proj, t), id))
  BY DEF ResumeStatus
<1> DEFINE r == EnqueueStatus(Buffers, t, RuntimeSequence(proj, t), id)
<1>2. /\ handler = "resumed" /\ calls' = calls /\ handler' = "idle"
      /\ UNCHANGED <<worker, runtime, session, late, published>>
  BY DEF ResumeStatus
<1>3. id \in {1, 3} /\ calls \in Seq(BusFrames) /\ proj \in BufferSet
  BY DEF ProjectionAssumption, Types
<1>4. Traced(calls) /\ EndsLast(calls) /\ Steady(proj, calls) /\ Zeros(proj)
      /\ ~Unstarted(calls)
  BY <1>2 DEF Showing
<1>5. t \in Nat /\ t <= worker.tick /\ (proj.tick # None => proj.tick = t)
  BY <1>4, TicksOfStatuses
<1>6. Feeds(Buffers, proj.history) /\ Buffers.p = proj
  BY <1>3, BuffersFeed
<1>7. /\ Steady(r.p, calls) /\ Feeds(r, proj.history)
      /\ \A s \in StatusesOf(Held(r.p)) : s \in StatusesOf(Held(proj)) \/ s.id # 0
      /\ proj.history \subseteq r.p.history
  <2>1. /\ Buffers.p.tick # None => Buffers.p.tick <= t
        /\ ~(Buffers.p.tick # None /\ Buffers.p.tick < t)
    BY <1>5, <1>6
  <2> QED  BY <1>3, <1>4, <1>5, <1>6, <2>1, StatusNext
<1>8. Send(r)
  BY <1>1
<1> HIDE DEF r
<1>9. Zeros(r.p)
  BY <1>4, <1>7, ZerosStay
<1>10. worker'.phase = "reaped" =>
         /\ calls = <<>>
         /\ \A e \in published :
              \/ e \in r.p.history \union lost \union r.p.quarantined
              \/ \E d \in published : d.kind = "ended" /\ Before(d, e)
  BY <1>2, <1>7 DEF Showing, Complete
<1> QED  BY <1>2, <1>3, <1>4, <1>7, <1>8, <1>9, <1>10, SentShowing

(* The done callback of the run task leaves nothing behind.                *)
LEMMA RemainsRunTaskDone ==
    ASSUME ProjectionAssumption, Types, ClientTypes, HaveAll, Showing, RunTaskDone
    PROVE  Remains
<1>1. /\ LoopFree /\ worker.phase = "done" /\ calls = <<>>
      /\ worker' = [worker EXCEPT !.phase = "reaped"] /\ calls' = calls
      /\ UNCHANGED <<runtime, session, late, handler, published>>
  BY DEF RunTaskDone
<1>2. /\ calls \in Seq(BusFrames) /\ proj \in BufferSet
      /\ worker.tick \in Nat
      /\ worker'.phase = "reaped"
      /\ worker'.tick = worker.tick /\ worker'.seq = worker.seq /\ worker'.stack = worker.stack
  BY <1>1 DEF Types
<1>3. Traced(calls) /\ EndsLast(calls) /\ Steady(proj, calls) /\ Zeros(proj)
      /\ proj.quarantined \subseteq lost
  BY DEF Showing
<1>4. Coming(calls) = {} /\ worker.stack = <<>>
  BY <1>1, <1>3, NoneComes DEF Traced
<1>5. ~Unstarted(calls)
  BY <1>1, <1>4 DEF Unstarted
<1>6. CASE runtime.status = "failed"
  <2>1. PICK t \in StatusTicks(proj), id \in StatusIds :
          Send(Flush(EnqueueStatus(Buffers, t, RuntimeSequence(proj, t), id)))
    BY <1>6 DEF RunTaskDone
  <2> DEFINE r == Flush(EnqueueStatus(Buffers, t, RuntimeSequence(proj, t), id))
  <2>2. t \in Nat /\ t <= worker.tick /\ (proj.tick # None => proj.tick = t) /\ id \in {1, 3}
    BY <1>3, TicksOfStatuses DEF ProjectionAssumption
  <2>3. proj.tick # None => proj.tick <= t
    BY <2>2
  <2>4. /\ Steady(r.p, calls) /\ Feeds(r, proj.history) /\ Zeros(r.p)
        /\ published \subseteq r.p.history \union lost \union r.p.quarantined
    BY <1>1, <1>4, <2>2, <2>3, BoundarySteady
  <2>5. Send(r)
    BY <2>1
  <2> HIDE DEF r
  <2>6. \A e \in published : e \in r.p.history \union lost \union r.p.quarantined
    BY <2>4
  <2> QED  BY <1>1, <1>2, <1>3, <1>5, <2>4, <2>5, <2>6, SentShowing
<1>7. CASE runtime.status # "failed"
  <2>1. UNCHANGED <<proj, clients, lost>>
    BY <1>7 DEF RunTaskDone
  <2>2. published = {} \/ Finished(published)
    BY <1>1, <1>3, <1>7 DEF EndsLast
  <2>3. Complete(proj.history)
    <3> SUFFICES ASSUME NEW e \in published, e \notin proj.history \union lost
                 PROVE  \E d \in published : d.kind = "ended" /\ Before(d, e)
      BY DEF Complete
    <3>1. PICK d \in published : d.kind = "ended"
      BY <2>2 DEF Finished
    <3>2. Accounted(proj, calls) /\ Overtaken(proj, calls) /\ Rest(proj, calls)
      BY <1>3 DEF Steady
    <3>3. d.tick = worker.tick
      BY <1>3, <3>1 DEF EndsLast
    <3>4. d \notin proj.quarantined
      <4> SUFFICES ASSUME d \in proj.quarantined PROVE FALSE
        OBVIOUS
      <4>1. PICK f \in StatusesOf(Held(proj)) : d.tick < f.tick
        BY <3>2 DEF Overtaken
      <4>2. f.tick <= worker.tick /\ f \in Frames
        BY <1>2, <3>2 DEF Accounted, StatusesOf, Held, BufferSet
      <4> QED  BY <1>2, <3>3, <4>1, <4>2, FrameNumbers
    <3>5. d \in Held(proj)
      BY <1>4, <3>2, <3>4 DEF Accounted
    <3>6. PICK g \in proj.history : g.kind = "ended"
      BY <1>3, <3>1, <3>5 DEF Zeros, Finished
    <3>7. g \in published
      BY <3>2, <3>6 DEF Accounted, BusEvents, Held
    <3>8. e \in proj.pending /\ e.kind # "status"
      BY <1>3, <1>4, <3>2, BusFacts DEF Accounted, Held
    <3>9. Before(g, e)
      BY <3>2, <3>6, <3>8 DEF Rest, BusEvents
    <3> QED  BY <3>6, <3>7, <3>9
  <2>4. lost \subseteq lost'
    BY <2>1
  <2>5. Traced(calls)' /\ EndsLast(calls)'
    BY <1>1, <1>2, <1>3, <1>4, <1>7, <2>2, <2>4, WorkerHolds
  <2>6. Coming(calls)' = Coming(calls)
    BY <1>1, <1>2 DEF Coming
  <2>7. Steady(proj, calls)'
    BY <1>1, <1>2, <1>3, <2>1, <2>4, <2>6, SteadyHolds
  <2>8. Zeros(proj)' /\ Complete(proj.history)' /\ ~Unstarted(calls)'
    BY <1>1, <1>2, <1>3, <1>4, <2>1, <2>3, <2>6 DEF Zeros, Finished, StatusesOf, Held, Complete, Unstarted
  <2>9. Showing'
    BY <1>1, <2>1, <2>5, <2>7, <2>8 DEF Showing
  <2>10. HaveAll' /\ ClientTypes'
    BY <1>1, <2>1 DEF HaveAll, ClientTypes, NoGap
  <2>11. Types'
    BY <1>1, <2>1 DEF Types
  <2> QED  BY <2>9, <2>10, <2>11 DEF Remains
<1> QED  BY <1>6, <1>7

-----------------------------------------------------------------------------
(* The steps that publish nothing and send nothing.                        *)
Waiting == handler = "resumed" \/ (runtime.status = "paused" /\ handler = "idle" /\ ~runtime.stop)

(* A step that moves no event between worker, calls and buffers.           *)
LEMMA QuietStep ==
    ASSUME ClientTypes, HaveAll, Showing, Types', Traced(calls)', EndsLast(calls)',
           Coming(calls)' = Coming(calls), worker'.tick = worker.tick,
           worker'.phase = "admitted" => worker.phase = "admitted",
           worker'.phase = "reaped" => worker.phase = "reaped" /\ calls' = calls,
           Waiting' => ~Unstarted(calls),
           UNCHANGED <<proj, session, late, clients, published, lost>>
    PROVE  Remains
<1>1. lost \subseteq lost'
  OBVIOUS
<1>2. Steady(proj, calls)'
  BY <1>1, SteadyHolds DEF Showing
<1>3. Zeros(proj)'
  BY DEF Showing, Zeros, Finished, StatusesOf, Held
<1>4. Unstarted(calls)' => Unstarted(calls)
  BY DEF Unstarted
<1>5. worker'.phase = "reaped" => calls' = <<>> /\ Complete(proj.history)'
  BY DEF Showing, Complete
<1>6. Showing'
  BY <1>2, <1>3, <1>4, <1>5 DEF Showing, Waiting
<1>7. HaveAll' /\ ClientTypes'
  BY DEF HaveAll, ClientTypes, NoGap
<1> QED  BY <1>6, <1>7 DEF Remains

(* A step that changes the runtime and the command connection only.        *)
LEMMA RemainsCommand ==
    ASSUME Types, ClientTypes, HaveAll, Showing,
           runtime' \in [status : Conditions, rev : Nat, stop : BOOLEAN],
           runtime.status = "failed" => runtime'.status = "failed",
           Waiting' => ~Unstarted(calls),
           UNCHANGED <<worker, calls, proj, session, late, clients, published, lost>>
    PROVE  Remains
<1>1. Traced(calls)' /\ EndsLast(calls)'
  <2>1. worker.phase \in {"done", "reaped"} =>
           published = {} \/ runtime'.status = "failed" \/ Finished(published)
    BY DEF Showing, EndsLast
  <2>2. lost \subseteq lost'
    OBVIOUS
  <2> QED  BY <2>1, <2>2, WorkerHolds DEF Showing
<1>2. Types'
  BY DEF Types
<1>3. Coming(calls)' = Coming(calls)
  BY DEF Coming
<1> QED  BY <1>1, <1>2, <1>3, QuietStep

(* A command leaves a status, a revision and the stop flag.                *)
LEMMA RuntimeTyped ==
    ASSUME Types, NEW said \in Conditions, NEW stop \in BOOLEAN,
           \/ runtime' = [runtime EXCEPT !.status = said, !.rev = @ + 1]
              /\ stop = runtime.stop
           \/ runtime' = [runtime EXCEPT !.stop = stop, !.rev = @ + 1]
              /\ said = runtime.status
    PROVE  /\ runtime' \in [status : Conditions, rev : Nat, stop : BOOLEAN]
           /\ runtime'.status = said /\ runtime'.stop = stop
<1>1. runtime \in [status : Conditions, rev : Nat, stop : BOOLEAN] /\ runtime.rev + 1 \in Nat
  BY DEF Types
<1>2. runtime' = [status |-> said, rev |-> runtime.rev + 1, stop |-> stop]
  BY <1>1
<1> QED  BY <1>1, <1>2

(* PAUSE.                                                                  *)
LEMMA RemainsPause ==
    ASSUME Types, ClientTypes, HaveAll, Showing, Pause
    PROVE  Remains
<1>1. /\ runtime.status = "running"
      /\ runtime' = [runtime EXCEPT !.status = "paused", !.rev = @ + 1]
      /\ handler' = "awaiting"
      /\ UNCHANGED <<worker, calls, proj, session, late, clients, published, lost>>
  BY DEF Pause
<1>2. runtime' \in [status : Conditions, rev : Nat, stop : BOOLEAN]
  <2>1. "paused" \in Conditions /\ runtime.stop \in BOOLEAN
    BY DEF Types, Conditions
  <2> QED  BY <1>1, <2>1, RuntimeTyped
<1>3. ~Waiting'
  BY <1>1 DEF Waiting
<1> QED  BY <1>1, <1>2, <1>3, RemainsCommand

(* A PAUSE whose match ends or is stopped while it waits.                  *)
LEMMA RemainsPauseRefused ==
    ASSUME Types, ClientTypes, HaveAll, Showing, PauseRefused
    PROVE  Remains
<1>1. /\ runtime.stop \/ runtime.status \in {"ended", "failed"}
      /\ handler' = "idle"
      /\ UNCHANGED <<worker, runtime, calls, proj, session, late, clients, published, lost>>
  BY DEF PauseRefused
<1>2. runtime' \in [status : Conditions, rev : Nat, stop : BOOLEAN]
  BY <1>1 DEF Types
<1>3. ~Waiting'
  BY <1>1 DEF Waiting
<1> QED  BY <1>1, <1>2, <1>3, RemainsCommand

(* RESUME: MATCH_STARTED has been handled by then.                         *)
LEMMA RemainsResume ==
    ASSUME Types, ClientTypes, HaveAll, Showing, Resume
    PROVE  Remains
<1>1. /\ runtime.status = "paused" /\ handler = "idle" /\ ~runtime.stop
      /\ runtime' = [runtime EXCEPT !.status = "running", !.rev = @ + 1]
      /\ UNCHANGED <<worker, calls, proj, session, late, clients, published, lost>>
  BY DEF Resume
<1>2. runtime' \in [status : Conditions, rev : Nat, stop : BOOLEAN]
  <2>1. "running" \in Conditions /\ runtime.stop \in BOOLEAN
    BY DEF Types, Conditions
  <2> QED  BY <1>1, <2>1, RuntimeTyped
<1>3. ~Unstarted(calls)
  BY <1>1 DEF Showing
<1> QED  BY <1>1, <1>2, <1>3, RemainsCommand

(* STOP.                                                                   *)
LEMMA RemainsStop ==
    ASSUME Types, ClientTypes, HaveAll, Showing, Stop
    PROVE  Remains
<1>1. /\ runtime.status \in {"running", "paused"} /\ handler = "idle"
      /\ runtime' = [runtime EXCEPT !.stop = TRUE, !.rev = @ + 1]
      /\ UNCHANGED <<worker, calls, proj, session, late, handler, clients, published, lost>>
  BY DEF Stop
<1>2. runtime' \in [status : Conditions, rev : Nat, stop : BOOLEAN] /\ runtime'.stop
  <2>1. runtime.status \in Conditions /\ TRUE \in BOOLEAN
    BY DEF Types, Conditions
  <2> QED  BY <1>1, <2>1, RuntimeTyped
<1>3. ~Waiting'
  BY <1>1, <1>2 DEF Waiting
<1> QED  BY <1>1, <1>2, <1>3, RemainsCommand

(* The browser subscriber marks the runtime ended.                         *)
LEMMA RemainsMarkEnded ==
    ASSUME Types, ClientTypes, HaveAll, Showing, MarkEnded
    PROVE  Remains
<1>1. /\ runtime.status \in {"running", "paused"}
      /\ runtime' = [runtime EXCEPT !.status = "ended", !.rev = @ + 1]
      /\ UNCHANGED <<worker, calls, proj, session, late, handler, clients, published, lost>>
  BY DEF MarkEnded
<1>2. /\ runtime' \in [status : Conditions, rev : Nat, stop : BOOLEAN]
      /\ runtime'.status = "ended"
  <2>1. "ended" \in Conditions /\ runtime.stop \in BOOLEAN
    BY DEF Types, Conditions
  <2> QED  BY <1>1, <2>1, RuntimeTyped
<1>3. Waiting' => ~Unstarted(calls)
  BY <1>1, <1>2 DEF Waiting, Showing
<1> QED  BY <1>1, <1>2, <1>3, RemainsCommand

(* The phase of the worker changes between its dispatches.                 *)
LEMMA RemainsPhase ==
    ASSUME Types, ClientTypes, HaveAll, Showing, NEW phase \in {"checkpoint", "done"},
           worker' = [worker EXCEPT !.phase = phase], worker.stack = <<>>,
           worker.phase \notin {"done", "reaped"}, worker.phase = "ending" => phase = "done",
           runtime' \in [status : Conditions, rev : Nat, stop : BOOLEAN],
           runtime' = runtime \/ runtime'.status = "failed",
           phase = "done" => published = {} \/ runtime'.status = "failed" \/ Finished(published),
           UNCHANGED <<calls, proj, session, late, handler, clients, published, lost>>
    PROVE  Remains
<1>1. /\ worker'.phase = phase /\ worker'.tick = worker.tick /\ worker'.seq = worker.seq
      /\ worker'.stack = worker.stack
      /\ worker' \in [phase : {"admitted", "ticking", "checkpoint", "ending", "done", "reaped"},
                   tick : Nat, seq : Nat, stack : Seq(BusFrames)]
  BY DEF Types
<1>2. lost \subseteq lost'
  OBVIOUS
<1>3. Traced(calls)' /\ EndsLast(calls)'
  BY <1>1, <1>2, WorkerHolds DEF Showing
<1>4. Types'
  BY <1>1 DEF Types
<1>5. Coming(calls)' = Coming(calls)
  BY <1>1 DEF Coming
<1>6. Waiting' => ~Unstarted(calls)
  BY DEF Waiting, Showing
<1> QED  BY <1>1, <1>3, <1>4, <1>5, <1>6, QuietStep

(* The worker's steps between publishes.                                   *)
LEMMA RemainsBetween ==
    ASSUME Types, ClientTypes, HaveAll, Showing,
           AtCheckpoint \/ RunRefused \/ WorkerReturns \/ WorkerRaises
    PROVE  Remains
<1>1. CASE AtCheckpoint
  <2>1. worker' = [worker EXCEPT !.phase = "checkpoint"]
    BY <1>1 DEF AtCheckpoint
  <2> QED  BY <1>1, <2>1, RemainsPhase DEF AtCheckpoint, Types
<1>2. CASE RunRefused
  <2>1. worker' = [worker EXCEPT !.phase = "done"]
    BY <1>2 DEF RunRefused
  <2>2. worker.stack = <<>> /\ published = {}
    BY <1>2 DEF RunRefused, Showing, Traced, EndsLast
  <2> QED  BY <1>2, <2>1, <2>2, RemainsPhase DEF RunRefused, Types
<1>3. CASE WorkerReturns
  <2>1. worker' = [worker EXCEPT !.phase = "done"]
    BY <1>3 DEF WorkerReturns
  <2>2. Finished(published)
    BY <1>3 DEF WorkerReturns, Showing, EndsLast
  <2> QED  BY <1>3, <2>1, <2>2, RemainsPhase DEF WorkerReturns, Types
<1>4. CASE WorkerRaises
  <2>1. worker' = [worker EXCEPT !.phase = "done"]
    BY <1>4 DEF WorkerRaises
  <2>2. runtime' \in [status : Conditions, rev : Nat, stop : BOOLEAN] /\ runtime'.status = "failed"
    <3>1. "failed" \in Conditions /\ runtime.stop \in BOOLEAN
      BY DEF Types, Conditions
    <3>2. runtime' = [runtime EXCEPT !.status = "failed", !.rev = @ + 1]
      BY <1>4 DEF WorkerRaises
    <3> QED  BY <3>1, <3>2, RuntimeTyped
  <2> QED  BY <1>4, <2>1, <2>2, RemainsPhase DEF WorkerRaises
<1> QED  BY <1>1, <1>2, <1>3, <1>4

(* The worker hands over the innermost event.                              *)
LEMMA RemainsOnEvent ==
    ASSUME Types, ClientTypes, HaveAll, Showing, OnEvent
    PROVE  Remains
<1> DEFINE e == Last(worker.stack)
           n == Len(worker.stack)
           m == Len(calls)
           stack == Front(worker.stack)
           queue == Append(calls, e)
<1>1. /\ worker.stack # <<>>
      /\ calls' = queue /\ worker' = [worker EXCEPT !.stack = Front(@)]
      /\ UNCHANGED <<runtime, proj, session, late, handler, clients, published, lost>>
  BY DEF OnEvent
<1>2. worker.stack \in Seq(BusFrames) /\ calls \in Seq(BusFrames) /\ worker.tick \in Nat
  BY DEF Types
<1>3. /\ n \in Nat /\ n \in DOMAIN worker.stack /\ e = worker.stack[n] /\ e \in BusFrames
      /\ \A i \in DOMAIN worker.stack : i \in Nat /\ (i = n \/ i < n)
  BY <1>1, <1>2, LastFacts
<1>4. /\ stack \in Seq(BusFrames)
      /\ \A i \in DOMAIN stack : i \in DOMAIN worker.stack /\ i < n /\ stack[i] = worker.stack[i]
      /\ \A i \in DOMAIN worker.stack : i < n => i \in DOMAIN stack
  <2>1. stack = [i \in 1 .. n - 1 |-> worker.stack[i]]
    BY DEF Front
  <2>2. n - 1 \in Nat /\ DOMAIN worker.stack = 1 .. n
    BY <1>1, <1>2, <1>3
  <2> HIDE DEF stack, n
  <2>3. \A i \in 1 .. n - 1 : worker.stack[i] \in BusFrames
    BY <1>2, <1>3, <2>2
  <2> QED  BY <1>3, <2>1, <2>2, <2>3
<1>5. /\ queue \in Seq(BusFrames) /\ m \in Nat
      /\ \A i \in DOMAIN calls : i \in Nat /\ i <= m /\ i \in DOMAIN queue /\ queue[i] = calls[i]
      /\ m + 1 \in DOMAIN queue /\ queue[m + 1] = e
      /\ \A i \in DOMAIN queue : i \in Nat /\ i <= m + 1 /\ (i \in DOMAIN calls \/ i = m + 1)
  <2>1. queue \in Seq(BusFrames) /\ m \in Nat /\ DOMAIN queue = 1 .. m + 1 /\ DOMAIN calls = 1 .. m
    BY <1>2, <1>3
  <2>2. /\ \A i \in 1 .. m : i \in Nat /\ i <= m /\ i \in 1 .. m + 1 /\ queue[i] = calls[i]
        /\ m + 1 \in 1 .. m + 1 /\ queue[m + 1] = e
        /\ \A i \in 1 .. m + 1 : i \in Nat /\ i <= m + 1 /\ (i \in 1 .. m \/ i = m + 1)
    BY <1>2, <1>3, <2>1
  <2> HIDE DEF queue, m
  <2> QED  BY <2>1, <2>2
<1> HIDE DEF e, n, m, stack, queue
<1>6. /\ worker' = [phase |-> worker.phase, tick |-> worker.tick, seq |-> worker.seq,
                    stack |-> stack]
      /\ calls' = queue /\ published' = published /\ runtime' = runtime /\ lost' = lost
  BY <1>1 DEF Types, stack
<1>7. Traced(calls) /\ EndsLast(calls)
  BY DEF Showing
<1>8. e \in published /\ e.tick = worker.tick /\ worker.phase \in {"ticking", "ending"}
  BY <1>1, <1>3, <1>7 DEF Traced
<1>9. ToSet(worker.stack) = ToSet(stack) \union {e}
  <2>1. \A x \in ToSet(worker.stack) : x \in ToSet(stack) \/ x = e
    BY <1>3, <1>4 DEF ToSet
  <2>2. \A x \in ToSet(stack) : x \in ToSet(worker.stack)
    BY <1>4 DEF ToSet
  <2>3. e \in ToSet(worker.stack)
    BY <1>3 DEF ToSet
  <2> QED  BY <2>1, <2>2, <2>3
<1>10. Coming(calls)' = Coming(calls)
  <2>1. ToSet(queue) = ToSet(calls) \union {e}
    BY <1>5 DEF ToSet
  <2> QED  BY <1>6, <1>9, <2>1 DEF Coming
<1>11. \A i \in DOMAIN calls : calls[i] # e /\ calls[i] \in published
                               /\ calls[i].tick <= e.tick /\ e.tick <= e.tick
  <2>1. \A i \in DOMAIN calls : calls[i] # e /\ calls[i] \in published
    BY <1>3, <1>7 DEF Traced
  <2>2. \A f \in published : f.tick <= worker.tick
    BY <1>2, <1>7, BusFacts, FrameNumbers DEF Traced
  <2> QED  BY <1>8, <2>1, <2>2
<1>12. Traced(calls)'
  <2>1. \A i \in DOMAIN stack : stack[i] \in published /\ stack[i].tick = worker.tick
    BY <1>4, <1>7 DEF Traced
  <2>2. \A i, j \in DOMAIN stack : i < j => stack[i].seq < stack[j].seq
    BY <1>4, <1>7 DEF Traced
  <2>3. \A i \in DOMAIN queue : queue[i] \in published
    BY <1>5, <1>8, <1>11
  <2>4. \A i, j \in DOMAIN queue : i < j => queue[i].tick <= queue[j].tick
    <3>1. \A i, j \in DOMAIN queue : i < j => i \in DOMAIN calls
      BY <1>5
    <3> QED  BY <1>5, <1>7, <1>11, <3>1 DEF Traced
  <2>5. \A i, j \in DOMAIN queue : queue[i] = queue[j] => i = j
    BY <1>5, <1>7, <1>11 DEF Traced
  <2>6. \A i \in DOMAIN queue, j \in DOMAIN stack : queue[i] # stack[j]
    <3> SUFFICES ASSUME NEW i \in DOMAIN queue, NEW j \in DOMAIN stack, queue[i] = stack[j]
                 PROVE  FALSE
      OBVIOUS
    <3>1. j \in DOMAIN worker.stack /\ j < n /\ stack[j] = worker.stack[j]
      BY <1>4
    <3>2. CASE i \in DOMAIN calls
      BY <1>5, <1>7, <3>1, <3>2 DEF Traced
    <3>3. CASE i = m + 1
      <4>1. worker.stack[j].seq < worker.stack[n].seq /\ worker.stack[j] = worker.stack[n]
        BY <1>3, <1>5, <1>7, <3>1, <3>3 DEF Traced
      <4>2. worker.stack[n].seq \in Nat
        BY <1>3, FrameNumbers DEF Frames
      <4> QED  BY <4>1, <4>2
    <3> QED  BY <1>5, <3>2, <3>3
  <2>7. /\ \A f \in published :
             \/ f.tick < worker.tick
             \/ f.tick = worker.tick /\ f.seq < worker.seq
        /\ \A f, g \in published : f.tick = g.tick /\ f.seq = g.seq => f = g
        /\ \A f \in published : f.kind = "started" => f = Started
    BY <1>7 DEF Traced
  <2> QED  BY <1>6, <1>8, <2>1, <2>2, <2>3, <2>4, <2>5, <2>6, <2>7 DEF Traced
<1>13. EndsLast(calls)'
  <2>1. \A i, j \in DOMAIN stack : i < j /\ stack[j].kind = "ended" => stack[i] \in lost
    BY <1>4, <1>7 DEF EndsLast
  <2>2. ASSUME NEW j \in DOMAIN queue, queue[j].kind = "ended"
        PROVE  \A f \in Behind(calls, j)' : f \in lost \/ \A x \in published \ Behind(calls, j)' : Before(x, f)
    <3>1. Behind(calls, j)' = {queue[k] : k \in {k \in DOMAIN queue : k > j}} \union ToSet(stack)
      BY <1>6 DEF Behind
    <3>2. CASE j \in DOMAIN calls
      <4>1. m + 1 > j
        BY <1>5, <3>2
      <4>2. {queue[k] : k \in {k \in DOMAIN queue : k > j}}
               = {calls[k] : k \in {k \in DOMAIN calls : k > j}} \union {e}
        BY <1>5, <4>1
      <4>3. Behind(calls, j)' = Behind(calls, j)
        BY <1>9, <3>1, <4>2 DEF Behind
      <4> QED  BY <1>5, <1>7, <2>2, <3>2, <4>3 DEF EndsLast
    <3>3. CASE j = m + 1
      <4>1. \A k \in DOMAIN queue : ~(k > j)
        BY <1>5, <3>3
      <4>2. Behind(calls, j)' = ToSet(stack)
        BY <3>1, <4>1
      <4>3. e.kind = "ended"
        BY <1>5, <2>2, <3>3
      <4>4. \A i \in DOMAIN stack : stack[i] \in lost
        BY <1>3, <1>4, <1>7, <4>3 DEF EndsLast
      <4> QED  BY <4>2, <4>4 DEF ToSet
    <3> QED  BY <1>5, <3>2, <3>3
  <2>3. Finished(published)' <=> Finished(published)
    BY <1>6 DEF Finished
  <2>4. /\ \A f \in published : f.kind = "ended" =>
             worker.phase \in {"ending", "done", "reaped"} /\ f.tick = worker.tick
        /\ \A f, g \in published : f.kind = "ended" /\ g.kind = "ended" => f = g
        /\ worker.phase = "admitted" => published = {} /\ worker.tick = 0
        /\ worker.phase = "ending" => Finished(published)
        /\ worker.phase \in {"done", "reaped"} =>
             published = {} \/ runtime.status = "failed" \/ Finished(published)
    BY <1>7 DEF EndsLast
  <2> QED  BY <1>6, <2>1, <2>2, <2>3, <2>4 DEF EndsLast
<1>14. Types'
  <2>1. worker' \in [phase : {"admitted", "ticking", "checkpoint", "ending", "done", "reaped"},
                    tick : Nat, seq : Nat, stack : Seq(BusFrames)]
    BY <1>4, <1>6 DEF Types
  <2> QED  BY <1>1, <1>5, <1>6, <2>1 DEF Types
<1>15. Waiting' => ~Unstarted(calls)
  BY <1>1 DEF Waiting, Showing
<1> QED  BY <1>1, <1>6, <1>8, <1>10, <1>12, <1>13, <1>14, <1>15, QuietStep

-----------------------------------------------------------------------------
(* An event is published: it is later than all that were.                  *)
Adds(e, phase) ==
    /\ e \in BusFrames /\ worker.tick <= e.tick
    /\ worker.stack # <<>> => e.tick = worker.tick
    /\ \A f \in published : f.tick < e.tick \/ (f.tick = e.tick /\ f.seq < e.seq)
    /\ worker.phase \notin {"done", "reaped"} /\ phase \in {"ticking", "ending"}
    /\ worker.phase = "ending" => phase = "ending" /\ e.tick = worker.tick
    /\ phase = "ending" => worker.phase = "ending" \/ e.kind = "ended"
    /\ e.kind = "ended" => phase = "ending" /\ worker.phase \in {"ticking", "checkpoint"}
                           /\ ToSet(worker.stack) \subseteq lost'
    /\ e.kind = "started" => e = Started /\ worker.phase = "admitted"

(* The new event is later than every published one.                        *)
LEMMA AddedIsLast ==
    ASSUME Types, NEW e, NEW phase, Adds(e, phase)
    PROVE  /\ e \in Frames /\ e.kind # "status" /\ e.tick \in Nat /\ e.seq \in Nat
           /\ e \notin published
           /\ \A f \in published : Before(f, e) /\ ~Before(e, f)
<1>1. e \in Frames /\ e.kind # "status" /\ e.tick \in Nat /\ e.seq \in Nat
  BY FrameNumbers DEF Adds, BusFrames, Frames
<1>2. ASSUME NEW f \in published PROVE Before(f, e) /\ ~Before(e, f) /\ f # e
  <2>1. f \in Frames /\ f.tick \in Nat /\ f.seq \in Nat
    BY BusFacts, FrameNumbers
  <2>2. f.tick < e.tick \/ (f.tick = e.tick /\ f.seq < e.seq)
    BY DEF Adds
  <2>3. Before(f, e)
    BY <2>2 DEF Before
  <2> QED  BY <1>1, <2>1, <2>2, <2>3, BeforeOrders
<1> QED  BY <1>1, <1>2

(* The new event is the innermost of the worker's stack and the only one   *)
(* to come besides the others.                                             *)
LEMMA AddedTraced ==
    ASSUME Types, Traced(calls), NEW e, NEW phase, Adds(e, phase), Called(e, phase)
    PROVE  /\ Traced(calls)' /\ Coming(calls)' = Coming(calls) \union {e}
<1> DEFINE stack == Append(worker.stack, e)
           n == Len(worker.stack)
<1>1. /\ e \in Frames /\ e.tick \in Nat /\ e.seq \in Nat /\ e \notin published /\ e \in BusFrames
      /\ \A f \in published : f.tick < e.tick \/ (f.tick = e.tick /\ f.seq < e.seq)
  BY AddedIsLast DEF Adds
<1>2. /\ n \in Nat /\ DOMAIN worker.stack = 1 .. n
      /\ \A i \in DOMAIN worker.stack : i \in DOMAIN stack /\ stack[i] = worker.stack[i]
      /\ n + 1 \in DOMAIN stack /\ stack[n + 1] = e
      /\ \A i \in DOMAIN stack : i \in DOMAIN worker.stack \/ i = n + 1
      /\ ToSet(stack) = ToSet(worker.stack) \union {e}
  BY <1>1, StackGrows
<1>3. DOMAIN worker.stack # {} => worker.stack # <<>>
  OBVIOUS
<1> HIDE DEF stack, n
<1>4. /\ worker'.phase = phase /\ worker'.tick = e.tick /\ worker'.seq = e.seq + 1
      /\ worker'.stack = stack
      /\ published' = published \union {e} /\ runtime' = runtime /\ calls' = calls
  BY DEF Called, stack
<1>5. \A f \in published \union {e} :
        \/ f.tick < e.tick
        \/ f.tick = e.tick /\ f.seq < e.seq + 1
  <2>1. \A f \in published : f.seq \in Nat
    BY BusFacts, FrameNumbers
  <2> QED  BY <1>1, <2>1
<1>6. \A f, g \in published \union {e} : f.tick = g.tick /\ f.seq = g.seq => f = g
  <2>1. \A f \in published : ~(f.tick = e.tick /\ f.seq = e.seq)
    BY <1>1
  <2> QED  BY <2>1 DEF Traced
<1>7. \A f \in published \union {e} : f.kind = "started" => f = Started
  BY DEF Traced, Adds
<1>8. \A i \in DOMAIN stack : stack[i] \in published \union {e} /\ stack[i].tick = e.tick
  <2>1. \A i \in DOMAIN worker.stack :
           worker.stack[i] \in published /\ worker.stack[i].tick = e.tick
    BY <1>3 DEF Traced, Adds
  <2> QED  BY <1>2, <2>1
<1>9. \A i, j \in DOMAIN stack : i < j => stack[i].seq < stack[j].seq
  <2> SUFFICES ASSUME NEW i \in DOMAIN stack, NEW j \in DOMAIN stack, i < j
               PROVE  stack[i].seq < stack[j].seq
    OBVIOUS
  <2>1. i \in DOMAIN worker.stack
    BY <1>2
  <2>2. CASE j \in DOMAIN worker.stack
    BY <1>2, <2>1, <2>2 DEF Traced
  <2>3. CASE j = n + 1
    <3>1. stack[i] \in published /\ stack[i].tick = e.tick
      BY <1>2, <1>8, <2>1 DEF Traced
    <3>2. stack[i].seq < e.seq
      BY <1>1, <3>1
    <3> QED  BY <1>2, <2>3, <3>2
  <2> QED  BY <1>2, <2>2, <2>3
<1>10. \A i \in DOMAIN calls, j \in DOMAIN stack : calls[i] # stack[j]
  BY <1>1, <1>2 DEF Traced
<1>11. Traced(calls)'
  <2>1. phase \in {"ticking", "ending"}
    BY DEF Adds
  <2>2. /\ \A i \in DOMAIN calls : calls[i] \in published \union {e}
        /\ \A i, j \in DOMAIN calls : i < j => calls[i].tick <= calls[j].tick
        /\ \A i, j \in DOMAIN calls : calls[i] = calls[j] => i = j
    BY DEF Traced
  <2> QED  BY <1>4, <1>5, <1>6, <1>7, <1>8, <1>9, <1>10, <2>1, <2>2 DEF Traced
<1>12. Coming(calls)' = Coming(calls) \union {e}
  BY <1>2, <1>4 DEF Coming
<1> QED  BY <1>11, <1>12

(* A new MATCH_ENDED is last, and what it interrupts is lost.              *)
LEMMA AddedEndsLast ==
    ASSUME Types, Traced(calls), EndsLast(calls), NEW e, NEW phase, Adds(e, phase),
           Called(e, phase), lost \subseteq lost'
    PROVE  EndsLast(calls)'
<1> DEFINE stack == Append(worker.stack, e)
           n == Len(worker.stack)
<1>1. e \in BusFrames /\ \A f \in published : Before(f, e) /\ f # e
  BY AddedIsLast DEF Adds
<1>2. /\ n \in Nat /\ DOMAIN worker.stack = 1 .. n
      /\ \A i \in DOMAIN worker.stack : i \in DOMAIN stack /\ stack[i] = worker.stack[i]
      /\ n + 1 \in DOMAIN stack /\ stack[n + 1] = e
      /\ \A i \in DOMAIN stack : i \in DOMAIN worker.stack \/ i = n + 1
      /\ ToSet(stack) = ToSet(worker.stack) \union {e}
  BY <1>1, StackGrows
<1> HIDE DEF stack, n
<1>3. /\ worker'.phase = phase /\ worker'.tick = e.tick /\ worker'.stack = stack
      /\ published' = published \union {e} /\ runtime' = runtime /\ calls' = calls
  BY DEF Called, stack
<1>4. \A f \in published : f.kind = "ended" =>
        worker.phase = "ending" /\ phase = "ending" /\ f.tick = e.tick
  BY DEF EndsLast, Adds
<1>5. \A f \in published \union {e} : f.kind = "ended" => phase = "ending" /\ f.tick = e.tick
  BY <1>4 DEF Adds
<1>6. \A f, g \in published \union {e} : f.kind = "ended" /\ g.kind = "ended" => f = g
  <2>1. e.kind = "ended" => \A f \in published : f.kind # "ended"
    BY <1>4 DEF Adds
  <2> QED  BY <2>1 DEF EndsLast
<1>7. phase = "ending" => Finished(published \union {e})
  BY DEF EndsLast, Adds, Finished
<1>8. \A i, j \in DOMAIN stack : i < j /\ stack[j].kind = "ended" => stack[i] \in lost'
  <2> SUFFICES ASSUME NEW i \in DOMAIN stack, NEW j \in DOMAIN stack, i < j,
                      stack[j].kind = "ended"
               PROVE  stack[i] \in lost'
    OBVIOUS
  <2>1. i \in DOMAIN worker.stack
    BY <1>2
  <2>2. CASE j \in DOMAIN worker.stack
    BY <1>2, <2>1, <2>2 DEF EndsLast
  <2>3. CASE j = n + 1
    <3>1. e.kind = "ended" /\ worker.stack[i] \in ToSet(worker.stack)
      BY <1>2, <2>1, <2>3 DEF ToSet
    <3> QED  BY <1>2, <2>1, <3>1 DEF Adds
  <2> QED  BY <1>2, <2>2, <2>3
<1>9. ASSUME NEW j \in DOMAIN calls, calls[j].kind = "ended"
      PROVE  \A f \in Behind(calls, j)' : f \in lost'
                \/ \A x \in published' \ Behind(calls, j)' : Before(x, f)
  <2>1. Behind(calls, j)' = Behind(calls, j) \union {e}
    BY <1>2, <1>3 DEF Behind
  <2>2. \A f \in Behind(calls, j) :
          f \in lost \/ \A x \in published \ Behind(calls, j) : Before(x, f)
    BY <1>9 DEF EndsLast
  <2> QED  BY <1>1, <1>3, <2>1, <2>2
<1>10. phase \in {"ticking", "ending"}
  BY DEF Adds
<1> QED  BY <1>3, <1>5, <1>6, <1>7, <1>8, <1>9, <1>10 DEF EndsLast

(* The buffers are steady with the new event to come.                      *)
LEMMA AddedSteady ==
    ASSUME Types, Traced(calls), Steady(proj, calls), NEW e, NEW phase, Adds(e, phase),
           Called(e, phase), lost \subseteq lost'
    PROVE  Steady(proj, calls)'
<1>1. /\ e \notin published /\ e.kind # "status" /\ e.tick \in Nat /\ worker.tick \in Nat
      /\ worker.tick <= e.tick
      /\ \A f \in published : Before(f, e) /\ ~Before(e, f)
  BY AddedIsLast DEF Adds, Types
<1>2. Coming(calls)' = Coming(calls) \union {e}
  BY AddedTraced
<1>3. /\ worker'.phase = phase /\ worker'.tick = e.tick
      /\ published' = published \union {e} /\ calls' = calls /\ proj' = proj
  BY DEF Called
<1>4. /\ proj \in BufferSet /\ Accounted(proj, calls) /\ Placed(proj) /\ Overtaken(proj, calls)
      /\ Rest(proj, calls) /\ NoGap(proj.history, lost \union proj.quarantined)
  BY DEF Steady
<1>5. proj.tick # None => proj.tick \in Nat /\ proj.tick <= worker.tick /\ proj.tick <= e.tick
  <2>1. proj.tick # None => proj.tick \in Nat /\ proj.tick <= worker.tick
    BY <1>4 DEF Accounted, BufferSet
  <2> QED  BY <1>1, <2>1
<1>6. \A h \in Held(proj) : h.tick \in Nat /\ h.tick <= worker.tick /\ h.tick <= e.tick
  <2>1. \A h \in Held(proj) : h.tick \in Nat /\ h.tick <= worker.tick
    BY <1>4, FrameNumbers DEF Accounted, Held, BufferSet
  <2> QED  BY <1>1, <2>1
<1>7. e \notin Held(proj) \union proj.quarantined
  BY <1>1, <1>4 DEF Accounted, BusEvents
<1>8. Accounted(proj, calls)'
  <2>1. /\ IsFiniteSet(proj.history) /\ IsFiniteSet(proj.pending)
        /\ BusEvents(Held(proj)) \subseteq published'
        /\ proj.quarantined \subseteq published'
    BY <1>3, <1>4 DEF Accounted
  <2>2. /\ \A f \in Coming(calls) \union {e} : f \notin Held(proj) \union proj.quarantined
        /\ published \union {e}
             \subseteq (Coming(calls) \union {e}) \union Held(proj) \union proj.quarantined
    BY <1>4, <1>7 DEF Accounted
  <2>3. /\ proj.tick = None => proj.pending = {}
        /\ proj.tick # None => \A f \in proj.pending : f.tick = proj.tick
    BY <1>4 DEF Accounted
  <2> QED  BY <1>2, <1>3, <1>5, <1>6, <2>1, <2>2, <2>3 DEF Accounted, Held, BusEvents
<1>9. Placed(proj)'
  BY <1>3, <1>4 DEF Placed, Held, StatusesOf
<1>10. Overtaken(proj, calls)'
  BY <1>2, <1>3, <1>4, <1>5 DEF Overtaken, Held, StatusesOf
<1>11. Rest(proj, calls)'
  <2>1. \A d \in proj.history : d.kind = "ended" => Before(d, e)
    BY <1>1, <1>4 DEF Accounted, BusEvents, Held
  <2> QED  BY <1>2, <1>3, <1>4, <2>1 DEF Rest, BusEvents
<1>12. NoGap(proj.history, lost \union proj.quarantined)'
  <2>1. \A g \in BusEvents(proj.history) : ~Before(e, g)
    BY <1>1, <1>4 DEF Accounted, BusEvents, Held
  <2> QED  BY <1>3, <1>4, <2>1 DEF NoGap, BusEvents
<1>13. Unstarted(calls)' => Unstarted(calls)
  <2>1. e = Started => worker.phase = "admitted"
    BY EventIs DEF Started, Adds
  <2>2. phase # "admitted"
    BY DEF Adds
  <2> QED  BY <1>2, <1>3, <2>1, <2>2 DEF Unstarted, Started
<1> QED  BY <1>3, <1>4, <1>8, <1>9, <1>10, <1>11, <1>12, <1>13 DEF Steady

(* So a publish keeps the invariant.                                       *)
LEMMA RemainsCalled ==
    ASSUME Types, ClientTypes, HaveAll, Showing, NEW e, NEW phase, Adds(e, phase),
           Called(e, phase), lost \subseteq lost'
    PROVE  Remains
<1>1. Traced(calls)' /\ EndsLast(calls)' /\ Steady(proj, calls)'
  BY AddedTraced, AddedEndsLast, AddedSteady DEF Showing
<1>2. /\ worker' = [phase |-> phase, tick |-> e.tick, seq |-> e.seq + 1,
                    stack |-> Append(worker.stack, e)]
      /\ published' = published \union {e}
      /\ UNCHANGED <<runtime, calls, proj, session, late, handler, clients>>
  BY DEF Called
<1>3. /\ e \notin published /\ e.tick \in Nat /\ e.seq \in Nat /\ e \in BusFrames
      /\ phase \in {"ticking", "ending"}
      /\ \A f \in published : ~Before(e, f)
  BY AddedIsLast DEF Adds
<1>4. Zeros(proj)'
  BY <1>2 DEF Showing, Zeros, Finished, StatusesOf, Held
<1>5. Waiting' => ~Unstarted(calls)'
  <2>1. Waiting' => ~Unstarted(calls)
    BY <1>2 DEF Waiting, Showing
  <2>2. Coming(calls)' = Coming(calls) \union {e}
    BY AddedTraced DEF Showing
  <2>3. e = Started => worker.phase = "admitted"
    BY EventIs DEF Started, Adds
  <2> QED  BY <1>2, <1>3, <2>1, <2>2, <2>3 DEF Unstarted, Started
<1>6. Showing'
  <2>1. worker'.phase # "reaped"
    BY <1>2, <1>3
  <2> QED  BY <1>1, <1>2, <1>4, <1>5, <2>1 DEF Showing, Waiting
<1>7. HaveAll'
  <2> SUFFICES ASSUME NEW c \in Clients
               PROVE  /\ BusEvents(Got(clients[c].tab)) \subseteq published'
                      /\ NoGap(Got(clients[c].tab), lost)'
                      /\ clients[c].link = "up" => proj.history \subseteq Got(clients[c].tab)
    BY <1>2 DEF HaveAll, Got, BusEvents, NoGap
  <2>1. BusEvents(Got(clients[c].tab)) \subseteq published /\ NoGap(Got(clients[c].tab), lost)
    BY DEF HaveAll
  <2>2. \A g \in BusEvents(Got(clients[c].tab)) : ~Before(e, g)
    BY <1>3, <2>1
  <2>3. NoGap(Got(clients[c].tab), lost)'
    BY <1>2, <2>1, <2>2 DEF NoGap, Got, BusEvents
  <2> QED  BY <1>2, <2>1, <2>3 DEF HaveAll
<1>8. Types'
  <2>1. Append(worker.stack, e) \in Seq(BusFrames)
    BY <1>3, StackGrows
  <2>2. worker' \in [phase : {"admitted", "ticking", "checkpoint", "ending", "done", "reaped"},
                     tick : Nat, seq : Nat, stack : Seq(BusFrames)]
    BY <1>2, <1>3, <2>1
  <2> QED  BY <1>2, <1>3, <2>2 DEF Types
<1>9. ClientTypes'
  BY <1>2 DEF ClientTypes
<1> QED  BY <1>6, <1>7, <1>8, <1>9 DEF Remains

-----------------------------------------------------------------------------
(* Each event the worker publishes.                                        *)
LEMMA RemainsPublish ==
    ASSUME Types, ClientTypes, HaveAll, Showing,
           PublishStarted \/ PublishTick \/ PublishGame \/ PublishScored \/ PublishPromoted
    PROVE  Remains
<1>1. /\ worker.tick \in Nat /\ worker.tick + 1 \in Nat /\ worker.seq \in Nat /\ 0 \in Nat
      /\ \A f \in published : f.tick \in Nat /\ f.seq \in Nat
  BY BusFacts, FrameNumbers DEF Types
<1>2. Traced(calls) /\ EndsLast(calls)
  BY DEF Showing
<1>3. \A f \in published :
        \/ f.tick < worker.tick
        \/ f.tick = worker.tick /\ f.seq < worker.seq
  BY <1>2 DEF Traced
<1>4. \A f \in published : f.tick < worker.tick + 1
  BY <1>1, <1>3
<1>5. worker.stack # <<>> => worker.phase \in {"ticking", "ending"}
  BY <1>2 DEF Traced
<1>6. ASSUME NEW kind \in {"started", "game", "scored", "promoted"}, NEW t \in Nat, NEW n \in Nat,
             NEW phase \in {"ticking", "ending"}, Call(kind, t, n, phase), UNCHANGED lost,
             worker.tick <= t, worker.stack # <<>> => t = worker.tick,
             \A f \in published : f.tick < t \/ (f.tick = t /\ f.seq < n),
             worker.phase \notin {"done", "reaped"},
             phase = "ending" <=> worker.phase = "ending",
             phase = "ending" => t = worker.tick,
             kind = "started" => t = 0 /\ n = 0 /\ worker.phase = "admitted"
      PROVE  Remains
  <2> DEFINE e == BusEvent(kind, t, n)
  <2>1. e \in BusFrames /\ e.kind = kind /\ e.tick = t /\ e.seq = n
    BY <1>6, EventIs
  <2>2. Called(e, phase)
    BY <1>6, CallIs
  <2>3. kind = "started" => e = Started
    BY <1>6 DEF Started
  <2> HIDE DEF e
  <2>4. Adds(e, phase)
    BY <1>6, <2>1, <2>3 DEF Adds
  <2>5. lost \subseteq lost'
    BY <1>6
  <2> QED  BY <2>2, <2>4, <2>5, RemainsCalled
<1>7. CASE PublishStarted
  <2>1. /\ worker.phase = "admitted" /\ Call("started", 0, 0, "ticking") /\ UNCHANGED lost
    BY <1>7 DEF PublishStarted
  <2>2. published = {} /\ worker.tick = 0 /\ worker.stack = <<>>
    BY <1>2, <1>5, <2>1 DEF EndsLast
  <2> QED  BY <1>1, <1>6, <2>1, <2>2
<1>8. CASE PublishTick
  <2>1. /\ worker.phase = "checkpoint" /\ Call("game", worker.tick + 1, 0, "ticking")
        /\ UNCHANGED lost
    BY <1>8 DEF PublishTick
  <2>2. worker.stack = <<>> /\ worker.tick <= worker.tick + 1
    BY <1>1, <1>5, <2>1
  <2> QED  BY <1>1, <1>4, <1>6, <2>1, <2>2
<1>9. CASE PublishGame \/ PublishScored \/ PublishPromoted
  <2>1. /\ worker.phase \in {"ticking", "ending"} /\ UNCHANGED lost
        /\ \E kind \in {"game", "scored", "promoted"} :
             Call(kind, worker.tick, worker.seq, worker.phase)
    BY <1>5, <1>9 DEF PublishGame, PublishScored, PublishPromoted
  <2>2. PICK kind \in {"game", "scored", "promoted"} :
          Call(kind, worker.tick, worker.seq, worker.phase)
    BY <2>1
  <2>3. worker.tick <= worker.tick
    BY <1>1
  <2> QED  BY <1>1, <1>3, <1>6, <2>1, <2>2, <2>3
<1> QED  BY <1>7, <1>8, <1>9

(* MATCH_ENDED is published, by the runner or from inside another          *)
(* dispatch.                                                               *)
LEMMA RemainsPublishEnd ==
    ASSUME Types, ClientTypes, HaveAll, Showing, PublishEndedNested \/ PublishEnded
    PROVE  Remains
<1> DEFINE e == BusEvent("ended", worker.tick, worker.seq)
<1>1. worker.tick \in Nat /\ worker.seq \in Nat /\ worker.tick <= worker.tick
  BY DEF Types
<1>2. /\ worker.phase \in {"ticking", "checkpoint"}
      /\ Call("ended", worker.tick, worker.seq, "ending")
      /\ lost \subseteq lost' /\ ToSet(worker.stack) \subseteq lost'
  <2>1. CASE PublishEndedNested
    BY <2>1 DEF PublishEndedNested
  <2>2. CASE PublishEnded
    <3>1. DOMAIN <<>> = {}
      OBVIOUS
    <3>2. worker.stack = <<>> /\ UNCHANGED lost
      BY <2>2 DEF PublishEnded
    <3>3. ToSet(worker.stack) = {}
      BY <3>1, <3>2 DEF ToSet
    <3> QED  BY <2>2, <3>2, <3>3 DEF PublishEnded
  <2> QED  BY <2>1, <2>2
<1>3. e \in BusFrames /\ e.kind = "ended" /\ e.tick = worker.tick /\ e.seq = worker.seq
  BY <1>1, EventIs
<1>4. Called(e, "ending")
  BY <1>2, CallIs
<1> HIDE DEF e
<1>5. \A f \in published :
        \/ f.tick < worker.tick
        \/ f.tick = worker.tick /\ f.seq < worker.seq
  BY DEF Showing, Traced
<1>6. Adds(e, "ending")
  BY <1>1, <1>2, <1>3, <1>5 DEF Adds
<1> QED  BY <1>2, <1>4, <1>6, RemainsCalled

-----------------------------------------------------------------------------
(* The browsers, and the end of the match.                                 *)

(* While the match is shown, a step that changes clients only.             *)
LEMMA ShowingStays ==
    ASSUME Types, Showing, late'.token = late.token,
           ~late'.seen => \A c \in Clients : clients'[c].link = "down",
           UNCHANGED <<worker, runtime, calls, proj, session, handler, published, lost>>
    PROVE  Showing'
<1>1. /\ session /\ ~late.token /\ Traced(calls) /\ EndsLast(calls) /\ Steady(proj, calls)
      /\ Zeros(proj) /\ proj.quarantined \subseteq lost
      /\ worker.phase = "reaped" => calls = <<>> /\ Complete(proj.history)
      /\ Waiting => ~Unstarted(calls)
  BY DEF Showing, Waiting
<1>2. Coming(calls)' = Coming(calls) /\ lost \subseteq lost'
  BY DEF Coming
<1>3. Traced(calls)' /\ EndsLast(calls)'
  <2>1. worker.phase \in {"done", "reaped"} =>
           published = {} \/ runtime.status = "failed" \/ Finished(published)
    BY <1>1 DEF EndsLast
  <2> QED  BY <1>1, <1>2, <2>1, WorkerHolds
<1>4. Steady(proj, calls)'
  BY <1>1, <1>2, SteadyHolds
<1>5. Zeros(proj)'
  BY <1>1 DEF Zeros, Finished, StatusesOf, Held
<1>6. Complete(proj.history)' <=> Complete(proj.history)
  BY DEF Complete
<1>7. (Waiting' <=> Waiting) /\ (Unstarted(calls)' <=> Unstarted(calls))
  BY <1>2 DEF Waiting, Unstarted
<1> QED  BY <1>1, <1>3, <1>4, <1>5, <1>6, <1>7 DEF Showing, Waiting

(* After the retirement, a step that changes the prefix and clients only.  *)
LEMMA RetainedStays ==
    ASSUME Retained, handler' # "resumed", cleared => cleared',
           UNCHANGED <<worker, calls, session, published, lost>>,
           proj'.quarantined = {},
           \/ proj'.history = proj.history /\ late'.token = late.token
           \/ proj'.history = {} /\ (late'.token => cleared')
    PROVE  Retained'
<1>1. CASE proj'.history = proj.history /\ late'.token = late.token
  BY <1>1 DEF Retained, Complete, NoGap, BusEvents
<1>2. CASE proj'.history = {} /\ (late'.token => cleared')
  <2>1. Ordered({})
    BY FS_EmptySet DEF Ordered
  <2>2. Ordered(proj.history)' /\ NoGap(proj.history, lost)'
        /\ (BusEvents(proj.history) \subseteq published)'
    BY <1>2, <2>1 DEF NoGap, BusEvents
  <2> QED  BY <1>2, <2>2 DEF Retained
<1> QED  BY <1>1, <1>2

(* One browser changes.                                                    *)
LEMMA BrowserKeeps ==
    ASSUME ClientTypes, HaveAll, NEW c \in Clients,
           NEW new \in [link : {"up", "down"}, tab : TabSet],
           BusEvents(Got(new.tab)) \subseteq published, NoGap(Got(new.tab), lost),
           new.link = "up" => proj'.history \subseteq Got(new.tab),
           proj'.history \subseteq proj.history,
           clients' = [clients EXCEPT ![c] = new], UNCHANGED <<published, lost>>
    PROVE  ClientTypes' /\ HaveAll'
<1>1. \A d \in Clients : clients'[d] = IF d = c THEN new ELSE clients[d]
  BY DEF ClientTypes
<1>2. ClientTypes'
  BY DEF ClientTypes
<1>3. ASSUME NEW d \in Clients
      PROVE  /\ BusEvents(Got(clients'[d].tab)) \subseteq published'
             /\ NoGap(Got(clients[d].tab), lost)'
             /\ clients'[d].link = "up" => proj'.history \subseteq Got(clients'[d].tab)
  <2>1. CASE d = c
    BY <1>1, <2>1 DEF NoGap, BusEvents, Got
  <2>2. CASE d # c
    <3>1. clients'[d] = clients[d]
      BY <1>1, <2>2
    <3> QED  BY <3>1 DEF HaveAll, NoGap, BusEvents, Got
  <2> QED  BY <2>1, <2>2
<1>4. HaveAll'
  BY <1>3 DEF HaveAll, Got, BusEvents
<1> QED  BY <1>2, <1>4

(* A replay of the prefix, however far it gets, leaves no gap.             *)
LEMMA ReplayKeeps ==
    ASSUME Types, Ordered(proj.history), NoGap(proj.history, lost),
           BusEvents(proj.history) \subseteq published,
           NEW client \in [link : {"up", "down"}, tab : TabSet],
           BusEvents(Got(client.tab)) \subseteq published, NoGap(Got(client.tab), lost),
           NEW k \in 0 .. Len(Sorted(proj.history))
    PROVE  LET new == Receive(client, Sorted(proj.history), k)
           IN  /\ new \in [link : {"up", "down"}, tab : TabSet]
               /\ BusEvents(Got(new.tab)) \subseteq published
               /\ NoGap(Got(new.tab), lost)
               /\ new.link = "up" => k = Len(Sorted(proj.history))
               /\ k = Len(Sorted(proj.history)) => proj.history \subseteq Got(new.tab)
<1> DEFINE H == proj.history
           list == Sorted(H)
           G == Got(client.tab)
           new == Receive(client, list, k)
<1>1. H \in SUBSET Frames
  BY DEF Types, BufferSet
<1>2. Lists(list, H)
  BY SortedLists
<1> HIDE DEF list
<1>3. /\ list \in Seq(Frames) /\ Len(list) \in Nat /\ DOMAIN list = 1 .. Len(list)
      /\ \A i \in 1 .. Len(list) : list[i] \in H
      /\ \A x \in H : \E i \in 1 .. Len(list) : list[i] = x
      /\ \A i, j \in 1 .. Len(list) : i < j => Before(list[i], list[j])
  <2>1. list \in Seq(H)
    BY <1>2 DEF Lists
  <2>2. Len(list) \in Nat /\ DOMAIN list = 1 .. Len(list) /\ \A i \in 1 .. Len(list) : list[i] \in H
    BY <2>1
  <2>3. list \in Seq(Frames)
    BY <1>1, <2>1, <2>2
  <2> QED  BY <1>2, <2>2, <2>3 DEF Lists
<1>4. k \in 0 .. Len(list)
  BY DEF list
<1>5. /\ new \in [link : {"up", "down"}, tab : TabSet]
      /\ Got(new.tab) = G \union {list[i] : i \in 1 .. k}
      /\ new.link = "up" => k = Len(list)
  <2> HIDE DEF new, G
  <2>1. LET at == Receive(client, list, k)
        IN  /\ at \in [link : {"up", "down"}, tab : TabSet]
            /\ Got(at.tab) = Got(client.tab) \union {list[i] : i \in 1 .. k}
            /\ at.link = "up" => k = Len(list) /\ client.link = "up"
    BY <1>3, <1>4, ReceiveKeeps
  <2> QED  BY <2>1 DEF new, G
<1>6. \A i \in 1 .. k : i \in 1 .. Len(list)
  BY <1>3, <1>4
<1>7. BusEvents(Got(new.tab)) \subseteq published
  <2>1. \A i \in 1 .. k : list[i] \in H
    BY <1>3, <1>6
  <2>2. Got(new.tab) = G \union {list[i] : i \in 1 .. k}
    BY <1>5
  <2>3. BusEvents(G) \subseteq published
    BY DEF G
  <2> HIDE DEF new, G, list
  <2>4. \A x \in Got(new.tab) : x \in G \/ x \in H
    BY <2>1, <2>2
  <2> HIDE DEF Got
  <2> QED  BY <2>3, <2>4 DEF BusEvents
<1>8. NoGap(Got(new.tab), lost)
  <2> SUFFICES ASSUME NEW e \in BusEvents(Got(new.tab)), NEW f \in published, Before(f, e)
               PROVE  f \in Got(new.tab) \union lost
    BY DEF NoGap
  <2>1. CASE e \in G
    BY <1>5, <2>1 DEF NoGap, BusEvents
  <2>2. CASE e \notin G
    <3>1. PICK i \in 1 .. k : list[i] = e
      BY <1>5, <2>2 DEF BusEvents
    <3>2. e \in BusEvents(H)
      BY <1>3, <1>6, <3>1 DEF BusEvents
    <3>3. CASE f \in H
      <4>1. PICK j \in 1 .. Len(list) : list[j] = f
        BY <1>3, <3>3
      <4>2. f \in Frames /\ e \in Frames
        BY <1>1, <3>2, <3>3 DEF BusEvents
      <4>3. ~Before(e, f) /\ e # f
        BY <4>2, BeforeOrders
      <4>4. i \in Nat /\ j \in Nat /\ i <= k /\ i \in 1 .. Len(list)
        BY <1>3, <1>4, <1>6, <4>1
      <4>5. ~(i < j) /\ i # j
        BY <1>3, <3>1, <4>1, <4>3, <4>4
      <4>6. j \in 1 .. k
        BY <1>4, <4>1, <4>4, <4>5
      <4> QED  BY <1>5, <4>1, <4>6
    <3>4. CASE f \notin H
      BY <3>2, <3>4 DEF NoGap
    <3> QED  BY <3>3, <3>4
  <2> QED  BY <2>1, <2>2
<1>9. ASSUME k = Len(list) PROVE H \subseteq Got(new.tab)
  BY <1>3, <1>5, <1>9
<1> QED  BY <1>5, <1>7, <1>8, <1>9 DEF list


(* A browser connects and is sent the prefix, or some of it.               *)
LEMMA RemainsConnect ==
    ASSUME Types, ClientTypes, HaveAll, Showing \/ Retained, NEW c \in Clients, Connect(c)
    PROVE  Remains
<1> DEFINE old == clients[c]
           client == [old EXCEPT !.link = "up"]
           list == Sorted(proj.history)
<1>1. PICK k \in 0 .. Len(list) :
        clients' = [clients EXCEPT ![c] = Receive([@ EXCEPT !.link = "up"], list, k)]
  BY DEF Connect
<1> DEFINE new == Receive(client, list, k)
<1>2. /\ late' = [late EXCEPT !.seen = @ \/ session]
      /\ UNCHANGED <<worker, runtime, calls, proj, session, handler, published, lost, cleared>>
  BY DEF Connect
<1>3. clients' = [clients EXCEPT ![c] = new]
  BY <1>1
<1>4. /\ Ordered(proj.history) /\ NoGap(proj.history, lost)
      /\ BusEvents(proj.history) \subseteq published
  <2>1. CASE Showing
    <3>1. /\ proj \in BufferSet /\ Accounted(proj, calls) /\ Placed(proj) /\ Traced(calls)
          /\ NoGap(proj.history, lost \union proj.quarantined)
          /\ lost \union proj.quarantined \subseteq lost
      BY <2>1 DEF Showing, Steady
    <3>2. Ordered(Held(proj)) /\ proj.history \in SUBSET Held(proj)
      BY <3>1, HeldOrdered DEF Held
    <3>3. BusEvents(proj.history) \subseteq published
      BY <3>1 DEF Accounted, BusEvents, Held
    <3> QED  BY <3>1, <3>2, <3>3, SomeOrdered, LostGrows
  <2>2. CASE Retained
    BY <2>2 DEF Retained
  <2> QED  BY <2>1, <2>2
<1>5. /\ client \in [link : {"up", "down"}, tab : TabSet] /\ client.tab = clients[c].tab
  BY DEF ClientTypes
<1>6. BusEvents(Got(client.tab)) \subseteq published /\ NoGap(Got(client.tab), lost)
  BY <1>5 DEF HaveAll
<1> HIDE DEF client
<1>7. /\ new \in [link : {"up", "down"}, tab : TabSet]
      /\ BusEvents(Got(new.tab)) \subseteq published
      /\ NoGap(Got(new.tab), lost)
      /\ new.link = "up" => proj.history \subseteq Got(new.tab)
  BY <1>4, <1>5, <1>6, ReplayKeeps
<1> HIDE DEF new, list, old
<1>8. ClientTypes' /\ HaveAll'
  BY <1>2, <1>3, <1>7, BrowserKeeps
<1>9. CASE Showing
  <2>1. session /\ late \in [seen : BOOLEAN, token : BOOLEAN]
    BY <1>9 DEF Showing, Types
  <2>2. late' \in [seen : BOOLEAN, token : BOOLEAN] /\ late'.token = late.token /\ late'.seen
    BY <1>2, <2>1
  <2>3. Showing'
    BY <1>2, <1>9, <2>2, ShowingStays
  <2>4. Types'
    BY <1>2, <2>2 DEF Types
  <2> QED  BY <1>8, <2>3, <2>4 DEF Remains
<1>10. CASE Retained
  <2>1. ~session /\ late \in [seen : BOOLEAN, token : BOOLEAN]
        /\ handler # "resumed" /\ proj.quarantined = {}
    BY <1>10 DEF Retained, Types
  <2>2. late' \in [seen : BOOLEAN, token : BOOLEAN] /\ late'.token = late.token
    BY <1>2, <2>1
  <2>3. Retained'
    BY <1>2, <1>10, <2>1, <2>2, RetainedStays
  <2>4. Types'
    BY <1>2, <2>2 DEF Types
  <2> QED  BY <1>8, <2>3, <2>4 DEF Remains
<1> QED  BY <1>9, <1>10

(* A connection breaks.                                                    *)
LEMMA RemainsDisconnect ==
    ASSUME Types, ClientTypes, HaveAll, Showing \/ Retained, NEW c \in Clients, Disconnect(c)
    PROVE  Remains
<1> DEFINE old == clients[c]
           new == [old EXCEPT !.link = "down"]
<1>1. /\ clients' = [clients EXCEPT ![c] = new]
      /\ UNCHANGED <<worker, runtime, calls, proj, session, late, handler, published, lost, cleared>>
  BY DEF Disconnect
<1>2. /\ new \in [link : {"up", "down"}, tab : TabSet] /\ new.tab = clients[c].tab
      /\ new.link = "down"
  BY DEF ClientTypes
<1> HIDE DEF new
<1>3. ClientTypes' /\ HaveAll'
  <2>1. BusEvents(Got(new.tab)) \subseteq published /\ NoGap(Got(new.tab), lost)
    BY <1>2 DEF HaveAll
  <2> QED  BY <1>1, <1>2, <2>1, BrowserKeeps
<1>4. Types'
  BY <1>1 DEF Types
<1>5. CASE Showing
  <2>1. \A d \in Clients : clients'[d].link = "down" \/ clients'[d].link = clients[d].link
    BY <1>1, <1>2 DEF ClientTypes
  <2>2. ~late'.seen => \A d \in Clients : clients'[d].link = "down"
    BY <1>1, <1>5, <2>1 DEF Showing
  <2>3. Showing'
    BY <1>1, <1>5, <2>2, ShowingStays
  <2> QED  BY <1>3, <1>4, <2>3 DEF Remains
<1>6. CASE Retained
  <2>1. handler' # "resumed" /\ proj'.quarantined = {} /\ proj'.history = proj.history
        /\ late'.token = late.token
    BY <1>1, <1>6 DEF Retained
  <2>2. Retained'
    BY <1>1, <1>6, <2>1, RetainedStays
  <2> QED  BY <1>3, <1>4, <2>2 DEF Remains
<1> QED  BY <1>5, <1>6

(* What is kept for a browser that comes late goes to it whole, or is kept *)
(* on.                                                                     *)
LEMMA RemainsLate ==
    ASSUME Types, ClientTypes, HaveAll, Retained, NEW c \in Clients,
           LateReplay(c) \/ LateReplayFails(c)
    PROVE  /\ Remains
           /\ late.token /\ ~late'.token /\ ~cleared => Whole(clients'[c].tab)
<1> DEFINE old == clients[c]
           client == [old EXCEPT !.link = "up"]
           list == Sorted(proj.history)
<1>1. /\ Ordered(proj.history) /\ NoGap(proj.history, lost)
      /\ BusEvents(proj.history) \subseteq published /\ proj.quarantined = {}
      /\ handler # "resumed" /\ ~session
      /\ late.token /\ ~cleared => Complete(proj.history)
  BY DEF Retained
<1>2. Len(list) \in Nat /\ (Len(list) \in 0 .. Len(list))
      /\ \A k \in 0 .. Len(list) - 1 : k \in 0 .. Len(list)
  <2>1. list \in Seq(proj.history)
    BY <1>1, SortedLists DEF Lists
  <2>2. Len(list) \in Nat
    BY <2>1
  <2> HIDE DEF list
  <2> QED  BY <2>2
<1>3. /\ client \in [link : {"up", "down"}, tab : TabSet] /\ client.tab = old.tab
      /\ old \in [link : {"up", "down"}, tab : TabSet]
  BY DEF ClientTypes
<1>4. BusEvents(Got(old.tab)) \subseteq published /\ NoGap(Got(old.tab), lost)
  BY DEF HaveAll
<1>5. CASE LateReplay(c)
  <2> DEFINE new == Receive(client, list, Len(list))
  <2>1. /\ clients' = [clients EXCEPT ![c] =
                Receive([@ EXCEPT !.link = "up"], list, Len(list))]
        /\ late' = [late EXCEPT !.token = FALSE]
        /\ proj' = [proj EXCEPT !.history = {}]
        /\ UNCHANGED <<worker, runtime, calls, session, handler, published, lost, cleared>>
    BY <1>5 DEF LateReplay
  <2>2. clients' = [clients EXCEPT ![c] = new]
    BY <2>1
  <2> HIDE DEF client, old
  <2>3. /\ new \in [link : {"up", "down"}, tab : TabSet]
        /\ BusEvents(Got(new.tab)) \subseteq published
        /\ NoGap(Got(new.tab), lost)
        /\ proj.history \subseteq Got(new.tab)
    BY <1>1, <1>2, <1>3, <1>4, ReplayKeeps
  <2> HIDE DEF new, list
  <2>4. /\ proj' \in BufferSet /\ proj'.history = {} /\ proj'.quarantined = {}
        /\ late' \in [seen : BOOLEAN, token : BOOLEAN] /\ ~late'.token
    BY <1>1, <2>1 DEF Types, BufferSet
  <2>5. ClientTypes' /\ HaveAll'
    BY <2>1, <2>2, <2>3, <2>4, BrowserKeeps
  <2>6. Types'
    BY <2>1, <2>4 DEF Types
  <2>7. Retained'
    BY <1>1, <2>1, <2>4, RetainedStays
  <2>8. late.token /\ ~cleared => Whole(clients'[c].tab)
    <3>1. clients'[c] = new
      BY <2>2 DEF ClientTypes
    <3> QED  BY <1>1, <2>3, <3>1 DEF Complete, Whole, Got
  <2> QED  BY <2>5, <2>6, <2>7, <2>8 DEF Remains
<1>6. CASE LateReplayFails(c)
  <2>1. PICK k \in 0 .. Len(list) - 1 :
          clients' = [clients EXCEPT ![c] = Receive(@, list, k)]
    BY <1>6 DEF LateReplayFails, ReplayBreaks
  <2> DEFINE new == Receive(old, list, k)
  <2>2. UNCHANGED <<worker, runtime, calls, proj, session, handler, late, published, lost, cleared>>
    BY <1>6 DEF LateReplayFails, ReplayBreaks
  <2>3. clients' = [clients EXCEPT ![c] = new]
    BY <2>1
  <2> HIDE DEF old
  <2>4. /\ new \in [link : {"up", "down"}, tab : TabSet]
        /\ BusEvents(Got(new.tab)) \subseteq published
        /\ NoGap(Got(new.tab), lost)
        /\ new.link = "up" => proj.history \subseteq Got(new.tab)
    BY <1>1, <1>2, <1>3, <1>4, ReplayKeeps
  <2> HIDE DEF new, list
  <2>5. ClientTypes' /\ HaveAll'
    BY <2>2, <2>3, <2>4, BrowserKeeps
  <2>6. Types'
    BY <2>2 DEF Types
  <2>7. Retained'
    BY <1>1, <2>2, RetainedStays
  <2> QED  BY <2>2, <2>5, <2>6, <2>7 DEF Remains
<1> QED  BY <1>5, <1>6

(* The match is retired; its prefix is kept if nobody was there.           *)
LEMMA RemainsRetire ==
    ASSUME Types, ClientTypes, HaveAll, Showing, Retire
    PROVE  Remains
<1> DEFINE H == IF late.seen THEN {} ELSE proj.history
<1>1. /\ worker.phase = "reaped" /\ handler # "resumed" /\ session' = FALSE
      /\ late' = [late EXCEPT !.token = ~late.seen]
      /\ proj' = [EmptyProjection EXCEPT !.history = H]
      /\ UNCHANGED <<worker, runtime, calls, handler, clients, published, lost, cleared>>
  BY DEF Retire, LoopFree
<1>2. /\ proj \in BufferSet /\ Accounted(proj, calls) /\ Placed(proj) /\ Traced(calls)
      /\ NoGap(proj.history, lost \union proj.quarantined)
      /\ lost \union proj.quarantined \subseteq lost
      /\ calls = <<>> /\ Complete(proj.history)
  BY <1>1 DEF Showing, Steady
<1>3. worker.stack = <<>>
  BY <1>1, <1>2 DEF Traced
<1>4. Ordered(proj.history)
  <2>1. Ordered(Held(proj)) /\ proj.history \in SUBSET Held(proj)
    BY <1>2, HeldOrdered DEF Held
  <2> QED  BY <2>1, SomeOrdered
<1>5. Ordered({}) /\ H \subseteq proj.history /\ (H = {} \/ H = proj.history)
  BY FS_EmptySet DEF Ordered
<1>6. Ordered(H) /\ NoGap(H, lost) /\ BusEvents(H) \subseteq published
  <2>1. BusEvents(proj.history) \subseteq published
    BY <1>2 DEF Accounted, BusEvents, Held
  <2>2. NoGap(proj.history, lost)
    BY <1>2, LostGrows
  <2>3. NoGap({}, lost) /\ BusEvents({}) \subseteq published
    BY DEF NoGap, BusEvents
  <2> QED  BY <1>4, <1>5, <2>1, <2>2, <2>3
<1>7. ~late.seen => H = proj.history
  OBVIOUS
<1>8. H \in SUBSET Frames
  BY <1>5, <1>2 DEF BufferSet
<1> HIDE DEF H
<1>9. proj' = [history |-> H, pending |-> {}, tick |-> None, quarantined |-> {}, keys |-> {}]
  BY <1>1 DEF EmptyProjection
<1>10. proj' \in BufferSet
  BY <1>8, <1>9 DEF BufferSet
<1>11. late' \in [seen : BOOLEAN, token : BOOLEAN] /\ late'.token = ~late.seen
  BY <1>1 DEF Types
<1>12. Types' /\ ClientTypes'
  BY <1>1, <1>10, <1>11 DEF Types, ClientTypes
<1>13. HaveAll'
  BY <1>1, <1>5, <1>9 DEF HaveAll, NoGap
<1>14. Retained'
  <2>1. /\ ~session' /\ worker'.phase = "reaped" /\ worker'.stack = <<>> /\ calls' = <<>>
        /\ handler' # "resumed" /\ proj'.quarantined = {} /\ proj'.history = H
    BY <1>1, <1>2, <1>3, <1>9
  <2>2. Ordered(H) /\ NoGap(H, lost') /\ BusEvents(H) \subseteq published'
    <3>1. UNCHANGED <<lost, published>>
      BY <1>1
    <3>2. NoGap(H, lost') <=> NoGap(H, lost)
      BY <3>1 DEF NoGap, BusEvents
    <3> QED  BY <1>6, <3>1, <3>2
  <2>3. late'.token /\ ~cleared' => Complete(proj.history)'
    <3>1. SUFFICES ASSUME late'.token PROVE Complete(proj.history)'
      OBVIOUS
    <3>2. proj'.history = proj.history
      BY <1>7, <1>11, <2>1, <3>1
    <3> QED  BY <1>1, <1>2, <3>2 DEF Complete
  <2>4. /\ BusEvents(proj.history)' \subseteq published'
        /\ Ordered(proj.history)' /\ NoGap(proj.history, lost)'
    BY <1>1, <2>1, <2>2 DEF BusEvents, Ordered, NoGap
  <2> QED  BY <2>1, <2>3, <2>4 DEF Retained
<1> QED  BY <1>12, <1>13, <1>14 DEF Remains


(* After the retirement nothing moves but a refused admission and what is  *)
(* left of a command.                                                      *)
LEMMA RemainsAfter ==
    ASSUME Types, ClientTypes, HaveAll, Retained, WorkerStep \/ LoopStep
    PROVE  Remains /\ late' = late
<1>1. /\ ~session /\ worker.phase = "reaped" /\ worker.stack = <<>> /\ calls = <<>>
      /\ handler # "resumed" /\ proj.quarantined = {}
  BY DEF Retained
<1>2. PauseRefused \/ AdmissionRefused
  <2>1. ~WorkerStep
    BY <1>1 DEF WorkerStep, PublishStarted, RunRefused, AtCheckpoint, PublishTick, PublishGame,
       PublishScored, PublishPromoted, PublishEndedNested, PublishEnded, MarkEnded, OnEvent,
       WorkerReturns, WorkerRaises
  <2> QED  BY <1>1, <2>1 DEF LoopStep, RunCall, Pause, PauseBoundary, Resume, ResumeStatus, Stop,
              RunTaskDone, Retire
<1>3. CASE PauseRefused
  <2>1. /\ handler' = "idle"
        /\ UNCHANGED <<worker, runtime, calls, proj, session, late, clients, published, lost, cleared>>
    BY <1>3 DEF PauseRefused
  <2>2. Types' /\ ClientTypes'
    BY <2>1 DEF Types, ClientTypes
  <2>3. HaveAll'
    BY <2>1 DEF HaveAll, NoGap, BusEvents, Got
  <2>4. Retained'
    BY <1>1, <2>1, RetainedStays
  <2> QED  BY <2>1, <2>2, <2>3, <2>4 DEF Remains
<1>4. CASE AdmissionRefused
  <2>1. /\ proj' = EmptyProjection /\ cleared' = TRUE
        /\ UNCHANGED <<worker, runtime, calls, session, late, handler, clients, published, lost>>
    BY <1>4 DEF AdmissionRefused
  <2>2. proj' \in BufferSet /\ proj'.history = {} /\ proj'.quarantined = {}
    BY <2>1 DEF EmptyProjection, BufferSet
  <2>3. Types' /\ ClientTypes'
    BY <2>1, <2>2 DEF Types, ClientTypes
  <2>4. HaveAll'
    BY <2>1, <2>2 DEF HaveAll, NoGap, BusEvents, Got
  <2>5. Retained'
    BY <1>1, <2>1, <2>2, RetainedStays
  <2> QED  BY <2>1, <2>3, <2>4, <2>5 DEF Remains
<1> QED  BY <1>2, <1>3, <1>4

(* While the match is shown no prefix is kept, whatever is done.           *)
LEMMA RemainsShown ==
    ASSUME ProjectionAssumption, Types, ClientTypes, HaveAll, Showing, WorkerStep \/ LoopStep
    PROVE  Remains
<1>1. CASE WorkerStep
  <2>1. CASE PublishStarted \/ PublishTick \/ PublishGame \/ PublishScored \/ PublishPromoted
    BY <2>1, RemainsPublish
  <2>2. CASE PublishEndedNested \/ PublishEnded
    BY <2>2, RemainsPublishEnd
  <2>3. CASE AtCheckpoint \/ RunRefused \/ WorkerReturns \/ WorkerRaises
    BY <2>3, RemainsBetween
  <2>4. CASE MarkEnded
    BY <2>4, RemainsMarkEnded
  <2>5. CASE OnEvent
    BY <2>5, RemainsOnEvent
  <2> QED  BY <1>1, <2>1, <2>2, <2>3, <2>4, <2>5 DEF WorkerStep
<1>2. CASE LoopStep
  <2>1. ~AdmissionRefused
    BY DEF AdmissionRefused, Showing
  <2> QED  BY <1>2, <2>1, RemainsRunCall, RemainsPause, RemainsPauseBoundary, RemainsPauseRefused,
              RemainsResume, RemainsResumeStatus, RemainsStop, RemainsRunTaskDone, RemainsRetire
           DEF LoopStep
<1> QED  BY <1>1, <1>2

(* Nothing changes when nothing does.                                      *)
LEMMA RemainsStill ==
    ASSUME Types, ClientTypes, HaveAll, Showing \/ Retained, UNCHANGED projectionVars
    PROVE  Remains
<1>1. UNCHANGED <<worker, runtime, calls, proj, session, late, handler, clients, published,
                  lost, cleared>>
  BY DEF projectionVars
<1>2. Types' /\ ClientTypes'
  BY <1>1 DEF Types, ClientTypes
<1>3. HaveAll'
  BY <1>1 DEF HaveAll, NoGap, BusEvents, Got
<1>4. CASE Showing
  <2>1. ~late'.seen => \A c \in Clients : clients'[c].link = "down"
    BY <1>1, <1>4 DEF Showing
  <2>2. Showing'
    BY <1>1, <1>4, <2>1, ShowingStays
  <2> QED  BY <1>2, <1>3, <2>2 DEF Remains
<1>5. CASE Retained
  <2>1. handler' # "resumed" /\ proj'.quarantined = {}
    BY <1>1, <1>5 DEF Retained
  <2>2. Retained'
    BY <1>1, <1>5, <2>1, RetainedStays
  <2> QED  BY <1>2, <1>3, <2>2 DEF Remains
<1> QED  BY <1>4, <1>5

(* Every step keeps the invariant, and one that gives up the prefix has    *)
(* sent it.                                                                *)
HandedOver == late.token /\ ~late'.token /\ ~cleared => \E c \in Clients : Whole(clients'[c].tab)

(* Each step does both.                                                    *)
LEMMA NoMissGoesOn ==
    ASSUME ProjectionAssumption, NoMissInv, [ProjectionNext]_projectionVars
    PROVE  NoMissInv' /\ HandedOver
<1>1. Types /\ ClientTypes /\ HaveAll /\ (Showing \/ Retained)
  BY DEF NoMissInv
<1>2. Showing => HandedOver
  BY DEF Showing, HandedOver
<1>3. CASE WorkerStep \/ LoopStep
  <2>1. CASE Showing
    BY <1>1, <1>2, <1>3, <2>1, RemainsShown DEF Remains, NoMissInv
  <2>2. CASE Retained
    <3>1. Remains /\ late' = late
      BY <1>1, <1>3, <2>2, RemainsAfter
    <3> QED  BY <3>1 DEF Remains, NoMissInv, HandedOver
  <2> QED  BY <1>1, <2>1, <2>2
<1>4. ASSUME NEW c \in Clients, Connect(c) \/ LateReplay(c) \/ LateReplayFails(c) \/ Disconnect(c)
      PROVE  NoMissInv' /\ HandedOver
  <2>1. CASE Connect(c) \/ Disconnect(c)
    <3>1. Remains
      BY <1>1, <2>1, RemainsConnect, RemainsDisconnect
    <3>2. late.token => late'.token
      BY <1>1, <2>1 DEF Connect, Disconnect, Types
    <3> QED  BY <3>1, <3>2 DEF Remains, NoMissInv, HandedOver
  <2>2. CASE LateReplay(c) \/ LateReplayFails(c)
    <3>1. late.token
      BY <2>2 DEF LateReplay, LateReplayFails, ReplayBreaks
    <3>2. Retained
      BY <1>1, <3>1 DEF Showing
    <3>3. Remains /\ (late.token /\ ~late'.token /\ ~cleared => Whole(clients'[c].tab))
      BY <1>1, <2>2, <3>2, RemainsLate
    <3> QED  BY <3>3 DEF Remains, NoMissInv, HandedOver
  <2> QED  BY <1>4, <2>1, <2>2
<1>5. CASE UNCHANGED projectionVars
  <2>1. late' = late
    BY <1>5 DEF projectionVars
  <2> QED  BY <1>1, <1>5, <2>1, RemainsStill DEF Remains, NoMissInv, HandedOver
<1> QED  BY <1>3, <1>4, <1>5 DEF ProjectionNext, ClientStep

(* At the admission nothing is published.                                  *)
LEMMA NoMissBegins ==
    ASSUME ProjectionInit PROVE NoMissInv
<1>1. /\ worker = [phase |-> "admitted", tick |-> 0, seq |-> 0, stack |-> <<>>]
      /\ runtime = [status |-> "running", rev |-> 1, stop |-> FALSE]
      /\ calls = <<>> /\ proj = EmptyProjection /\ session = TRUE /\ handler = "idle"
      /\ late = [seen |-> \E c \in Clients : clients[c].link = "up", token |-> FALSE]
      /\ clients \in [Clients -> {[link |-> l, tab |-> NewTab] : l \in {"down", "up"}}]
      /\ published = {} /\ lost = {}
  BY DEF ProjectionInit
<1>2. Types /\ ClientTypes
  BY ProjectionBegins DEF ProjectionInv, ProjectionInit
<1>3. /\ proj \in BufferSet /\ proj.history = {} /\ proj.pending = {} /\ proj.quarantined = {}
      /\ proj.tick = None
  BY <1>1 DEF EmptyProjection, BufferSet, None
<1>4. <<>> \in Seq(BusFrames) /\ DOMAIN <<>> = {}
  OBVIOUS
<1>5. Held(proj) = {} /\ Coming(calls) = {} /\ ~Finished({}) /\ IsFiniteSet({})
  BY <1>1, <1>3, <1>4, FS_EmptySet DEF Held, Coming, ToSet, Finished
<1>6. Traced(calls) /\ EndsLast(calls)
  BY <1>1, <1>4 DEF Traced, EndsLast
<1>7. Accounted(proj, calls)
  BY <1>1, <1>3, <1>5 DEF Accounted, BusEvents
<1>8. Placed(proj) /\ Zeros(proj) /\ Overtaken(proj, calls) /\ Rest(proj, calls)
  BY <1>3, <1>5 DEF Placed, Zeros, StatusesOf, Overtaken, Rest
<1>9. Steady(proj, calls)
  BY <1>1, <1>3, <1>7, <1>8 DEF Steady, NoGap, BusEvents, None
<1>10. \A c \in Clients : clients[c].tab = NewTab /\ clients[c].link \in {"up", "down"}
  BY <1>1
<1>11. Got(NewTab) = {}
  BY DEF Got, NewTab
<1>12. HaveAll
  BY <1>3, <1>10, <1>11 DEF HaveAll, NoGap, BusEvents
<1>13. Showing
  BY <1>1, <1>3, <1>6, <1>8, <1>9, <1>10 DEF Showing
<1> QED  BY <1>2, <1>12, <1>13 DEF NoMissInv

(* A browser that has an event of the bus was sent every earlier one that  *)
(* is not lost, and all that is published while it is connected, over all  *)
(* its connections; and a match that nobody watched goes whole to the      *)
(* first browser that stays (cli/play.py), for any browsers, any bounds    *)
(* and a match that may be stopped.                                        *)
THEOREM NothingIsMissed == ProjectionSpec => NothingMissed
<1>1. NoMissInv => Gapless
  <2> SUFFICES ASSUME NoMissInv PROVE Gapless
    OBVIOUS
  <2>1. HaveAll /\ (Showing \/ Retained)
    BY DEF NoMissInv
  <2>2. \A e \in proj.quarantined :
          \E f \in proj.history \union proj.pending : f.kind = "status" /\ e.tick < f.tick
    <3>1. CASE Showing
      BY <3>1 DEF Showing, Steady, Overtaken, StatusesOf, Held
    <3>2. CASE Retained
      BY <3>2 DEF Retained
    <3> QED  BY <2>1, <3>1, <3>2
  <2> QED  BY <2>1, <2>2 DEF Gapless, HaveAll, NoGap, Got
<1>2. NoMissInv /\ [ProjectionNext]_projectionVars => NoMissInv' /\ HandedOver
  BY ProjectionAssumption, NoMissGoesOn
<1>3. HandedOver =>
        [late.token /\ ~late.token' /\ ~cleared
           => \E c \in Clients : Whole(clients'[c].tab)]_projectionVars
  BY DEF HandedOver
<1> QED  BY <1>1, <1>2, <1>3, NoMissBegins, PTL
         DEF ProjectionSpec, NothingMissed, UnseenIsReplayedWhole
=============================================================================
