---------------------------- MODULE LlmDecision ----------------------------
(***************************************************************************)
(* One pilot decision taken by a language model, and the ladder under it.  *)
(*                                                                         *)
(* A seat bound to a provider is asked for a plan (whole-round card        *)
(* programming, llm/programming.py) or for an action (per tick,            *)
(* llm/pilot.py).  The question is an ATTEMPT of llm/effect.py: a token    *)
(* that publishes llm_completion_requested, calls the provider, lets the   *)
(* caller's parser accept or reject the answer, and publishes exactly one  *)
(* of llm_completion_resolved and llm_completion_failed.  A rejected       *)
(* answer is reprompted, at most RetryLimit times; a length or timeout     *)
(* boundary ends the match; what else goes wrong crashes it or, where the  *)
(* seat opted in, is replaced by a deterministic plan.                     *)
(*                                                                         *)
(* The worker thread does all of this, one seat after the other.  What is  *)
(* nondeterministic is the outside: the provider, the delegation CLI and   *)
(* the file its runs share, and any subscriber of the bus that raises out  *)
(* of a publish (EventAdmission), at most MaxFaults times.                 *)
(***************************************************************************)
EXTENDS Naturals, Sequences

CONSTANTS Order,        \* the seats, in the order the tick asks them
          Providers,
          ClientOf,     \* provider -> "http" or "cli"
          RetryLimit,   \* semantic_retry_limit
          MaxPosts,     \* provider -> retry.max_attempts
          Budget,       \* max_completions of a BoundedLlmClient
          MaxTick,      \* bound: ticks of the match
          MaxFaults     \* bound: publishes that raise

Seats == {Order[i] : i \in 1 .. Len(Order)}
Attempts == 0 .. RetryLimit

ASSUME LlmAssumption ==
    /\ Order \in Seq(Seats) /\ Len(Order) > 0
    /\ ClientOf \in [Providers -> {"http", "cli"}]
    /\ RetryLimit \in Nat /\ Budget \in Nat \ {0}
    /\ MaxPosts \in [Providers -> Nat \ {0}]
    /\ MaxTick \in Nat /\ MaxFaults \in Nat

VARIABLES
    match,          \* what composition bound: path, policies and providers
    tick, turn,     \* the tick, and whose turn in Order
    attempt,        \* 0 for the question, k for the k-th repair
    pc,             \* where the ladder stands
    posts,          \* HTTP posts this completion has already lost
    answer,         \* the provider's answer in the consumer's hands
    exc,            \* the exception in flight
    terminal,       \* the attempt token's _terminal flag
    lastCode,       \* code of the last semantic rejection of this decision
    spent,          \* completions each bounded client has consumed
    disk,           \* the CLI's shared workflow_result.json, per provider
    asked, ended,   \* per attempt: the evidence published for it
    did,            \* history: what the provider really did in it
    played,         \* per seat: what this tick's plan was made by
    status,         \* "running", or how the match came to its end
    faults          \* publishes that have raised

ladder == <<attempt, pc, posts, answer, exc, terminal, lastCode>>
evidence == <<asked, ended, did>>
vars == <<match, tick, turn, ladder, spent, disk, evidence, played, status, faults>>

seat == Order[turn]
prov == match.provider[seat]

(* The exceptions the ladder tells apart.  Both boundary reasons, and      *)
(* every other error of a transport, a budget or a subscriber.             *)
NoExc == [kind |-> "none", code |-> "none"]
Boundary(reason) == [kind |-> "boundary", code |-> reason]
Semantic(code) == [kind |-> "semantic", code |-> code]
Other == [kind |-> "other", code |-> "none"]

Codes == {"malformed_json", "invalid_action_parameters"}
Exceptions == {NoExc, Other, Boundary("length"), Boundary("timeout")}
                  \cup {Semantic(c) : c \in Codes}

(* What a provider may answer, and what else may come of a call.           *)
Answers == {"plan", "illegal", "garbled", "length"}
Deeds == Answers \cup {"none", "timeout", "unavailable", "refused",
                       "rejected", "crash", "stale"}

Gates == {"none", "malformed", "schema", "other"}
NoResult == [mine |-> FALSE, gates |-> "none"]

Blank(x) == [a \in Attempts |-> x]

(* A match is all card rounds or all per-tick pilots.  A programmer's      *)
(* failure policy is its side's binding, a pilot's is the whole graph's;   *)
(* two seats may be bound to one provider, hence to one client.            *)
Matches ==
    {m \in [path : {"program", "decide"}, policy : [Seats -> {"raise", "fallback"}],
            provider : [Seats -> Providers]] :
        m.path = "decide" => \A s, r \in Seats : m.policy[s] = m.policy[r]}

Init ==
    /\ match \in Matches
    /\ tick = 1 /\ turn = 1
    /\ attempt = 0 /\ pc = "ask" /\ posts = 0 /\ answer = "none"
    /\ exc = NoExc /\ terminal = FALSE /\ lastCode = "none"
    /\ spent = [p \in Providers |-> 0]
    /\ disk = [p \in Providers |-> NoResult]
    /\ asked = Blank("no") /\ ended = Blank(<<>>) /\ did = Blank("none")
    /\ played = [s \in Seats |-> "none"]
    /\ status = "running" /\ faults = 0

----------------------------------------------------------------------------
(* The attempt token of llm/effect.py.                                     *)

(* A publish may raise: whether it did is the subscriber's choice.         *)
Telling(raised) ==
    IF raised THEN faults < MaxFaults /\ faults' = faults + 1
              ELSE UNCHANGED faults

(* __enter__: the requested event is published first.  A publish that      *)
(* raises leaves before the try block: the provider is not called and the  *)
(* token never owes a terminal.                                            *)
Request ==
    /\ pc = "ask"
    /\ \E raised \in BOOLEAN :
         /\ Telling(raised)
         /\ asked' = [asked EXCEPT ![attempt] = IF raised THEN "raised" ELSE "yes"]
         /\ pc' = IF raised THEN "settle" ELSE "call"
         /\ exc' = IF raised THEN Other ELSE NoExc
    /\ terminal' = FALSE
    /\ UNCHANGED <<match, tick, turn, attempt, posts, answer, lastCode, spent, disk,
                   ended, did, played, status>>

(* Mutant of Close: the flag is set once the observer has been told.       *)
CloseAfterTelling(reason, raised) ==
    /\ Telling(raised)
    /\ terminal' = ~raised
    /\ ended' = [ended EXCEPT ![attempt] = Append(@, reason)]

(* resolve() and fail(): the flag is set before the observer is told, so   *)
(* an observer that raises is not told twice.                              *)
Close(reason, raised) ==
    /\ Telling(raised)
    /\ terminal' = TRUE
    /\ ended' = [ended EXCEPT ![attempt] = Append(@, reason)]

(* The except arms of __enter__: what complete() raised names the reason.  *)
FailureReason(e) ==
    CASE e.kind = "boundary" -> e.code
      [] e.kind = "semantic" -> "invalid_response"
      [] OTHER -> "provider_error"

EnterFails ==
    /\ pc = "fail"
    /\ \E raised \in BOOLEAN :
         /\ Close(FailureReason(exc), raised)
         /\ exc' = IF raised THEN Other ELSE exc
    /\ pc' = "settle"
    /\ UNCHANGED <<match, tick, turn, attempt, posts, answer, lastCode, spent, disk,
                   asked, did, played, status>>

(* The parser of either path: an answer that is not the closed JSON shape, *)
(* or one the rules refuse for this hand or this tick.                     *)
ParseError(a) ==
    CASE a = "garbled" -> Semantic("malformed_json")
      [] a = "illegal" -> Semantic("invalid_action_parameters")
      [] OTHER -> NoExc

(* consume_llm_completion: a truncated answer is not even parsed.          *)
Verdict(a) == IF a = "length" THEN Boundary("length") ELSE ParseError(a)

Consume ==
    /\ pc = "answer"
    /\ \E raised \in BOOLEAN :
         /\ Close(IF Verdict(answer) = NoExc THEN "resolved"
                                             ELSE FailureReason(Verdict(answer)), raised)
         /\ exc' = IF raised THEN Other ELSE Verdict(answer)
    /\ pc' = "exit" /\ answer' = "none"
    /\ UNCHANGED <<match, tick, turn, attempt, posts, lastCode, spent, disk,
                   asked, did, played, status>>

(* __exit__: a token that is still open is failed on the way out.          *)
Exit ==
    /\ pc = "exit"
    /\ IF terminal THEN UNCHANGED <<ended, terminal>>
                   ELSE /\ ended' = [ended EXCEPT ![attempt] = Append(@,
                              IF exc = NoExc THEN "abandoned" ELSE "consumer_error")]
                        /\ terminal' = TRUE
    /\ pc' = "settle"
    /\ UNCHANGED <<match, tick, turn, attempt, posts, answer, exc, lastCode, spent,
                   disk, asked, did, played, status, faults>>

----------------------------------------------------------------------------
(* The provider clients: complete().                                       *)

Answered(a) == answer' = a /\ pc' = "answer" /\ UNCHANGED exc
Raised(e) == exc' = e /\ pc' = "fail" /\ UNCHANGED answer
Did(d) == did' = [did EXCEPT ![attempt] = d]

(* BoundedLlmClient: one completion is consumed before the call, so that a *)
(* failure cannot restore it.                                              *)
HttpComplete ==
    /\ pc = "call" /\ ClientOf[prov] = "http"
    /\ IF spent[prov] >= Budget
          THEN Raised(Other) /\ UNCHANGED <<spent, posts>>
          ELSE /\ spent' = [spent EXCEPT ![prov] = @ + 1]
               /\ posts' = 0 /\ pc' = "wire"
               /\ UNCHANGED <<answer, exc>>
    /\ UNCHANGED <<match, tick, turn, attempt, terminal, lastCode, disk, evidence,
                   played, status, faults>>

(* OpenAICompatibleClient: timeouts, lost connections and the retryable    *)
(* statuses are posted again, up to the binding's max_attempts.            *)
HttpPost ==
    /\ pc = "wire" /\ ClientOf[prov] = "http"
    /\ \/ /\ \E a \in Answers : Answered(a) /\ Did(a)
          /\ UNCHANGED posts
       \/ \E d \in {"timeout", "unavailable", "refused"} :
             IF d # "refused" /\ posts + 1 < MaxPosts[prov]
                THEN posts' = posts + 1 /\ UNCHANGED <<answer, pc, exc, did>>
                ELSE /\ Raised(IF d = "timeout" THEN Boundary("timeout") ELSE Other)
                     /\ Did(d) /\ UNCHANGED posts
    /\ UNCHANGED <<match, tick, turn, attempt, terminal, lastCode, spent, disk,
                   asked, ended, played, status, faults>>

(* LlmBusDelegationClient mints a correlation id: whatever the provider's  *)
(* shared file holds was written by an earlier run.                        *)
CliComplete ==
    /\ pc = "call" /\ ClientOf[prov] = "cli"
    /\ disk' = [disk EXCEPT ![prov].mine = FALSE]
    /\ pc' = "wire"
    /\ UNCHANGED <<match, tick, turn, attempt, posts, answer, exc, terminal, lastCode,
                   spent, evidence, played, status, faults>>

(* The run exits 0 and prints a result.  Only a result that names this     *)
(* run's correlation id is read.                                           *)
CliPrints ==
    /\ pc = "wire" /\ ClientOf[prov] = "cli"
    /\ \/ /\ \E a \in Answers \ {"length"} : Answered(a) /\ Did(a)
          /\ disk' = [disk EXCEPT ![prov] = [mine |-> TRUE, gates |-> "none"]]
       \/ /\ Did("stale") /\ Raised(Other) /\ UNCHANGED disk
    /\ UNCHANGED <<match, tick, turn, attempt, posts, terminal, lastCode, spent,
                   asked, ended, played, status, faults>>

(* The run never starts, or outlives its timeout.                          *)
CliLost ==
    /\ pc = "wire" /\ ClientOf[prov] = "cli"
    /\ \E d \in {"timeout", "refused"} :
         /\ Did(d)
         /\ Raised(IF d = "timeout" THEN Boundary("timeout") ELSE Other)
    /\ UNCHANGED <<match, tick, turn, attempt, posts, terminal, lastCode, spent, disk,
                   asked, ended, played, status, faults>>

(* Mutant of Classify: the receipt is not bound to the invocation.         *)
ClassifyAnyRun(receipt) ==
    IF ~receipt.error /\ receipt.gates \in {"malformed", "schema"}
       THEN Semantic("malformed_json") ELSE Other

(* _classify_quality_gate_rejection: the receipt of a run that exited      *)
(* non-zero is a semantic rejection only when it names this run, carries   *)
(* no runtime error and lists a gate about the answer's shape.             *)
Classify(receipt) ==
    IF receipt.mine /\ ~receipt.error /\ receipt.gates \in {"malformed", "schema"}
       THEN Semantic(IF receipt.gates = "malformed" THEN "malformed_json"
                                                    ELSE "invalid_action_parameters")
       ELSE Other

(* The gate rejects this run's answer: the run writes the file, then its   *)
(* receipt.                                                                *)
CliRejects ==
    /\ pc = "wire" /\ ClientOf[prov] = "cli"
    /\ \E g \in Gates \ {"none"} :
         /\ disk' = [disk EXCEPT ![prov] = [mine |-> TRUE, gates |-> g]]
         /\ Did(IF g = "other" THEN "refused" ELSE "rejected")
         /\ Raised(Classify([mine |-> TRUE, error |-> FALSE, gates |-> g]))
    /\ UNCHANGED <<match, tick, turn, attempt, posts, terminal, lastCode, spent,
                   asked, ended, played, status, faults>>

(* The run crashes, before it wrote the file or after: its receipt repeats *)
(* what the file holds.  A crash that found its own file always names the  *)
(* error; one that found an earlier run's may not.                         *)
CliCrashes ==
    /\ pc = "wire" /\ ClientOf[prov] = "cli"
    /\ \E file \in {disk[prov]} \cup [mine : {TRUE}, gates : Gates], error \in BOOLEAN :
         /\ file.mine => error
         /\ disk' = [disk EXCEPT ![prov] = file]
         /\ Raised(Classify([mine |-> file.mine, error |-> error, gates |-> file.gates]))
    /\ Did("crash")
    /\ UNCHANGED <<match, tick, turn, attempt, posts, terminal, lastCode, spent,
                   asked, ended, played, status, faults>>

----------------------------------------------------------------------------
(* The callers: LLMProgrammingPilot.program and LLMPilot.decide.           *)

NextDecision ==
    /\ attempt' = 0 /\ pc' = "ask" /\ posts' = 0 /\ exc' = NoExc
    /\ terminal' = FALSE /\ lastCode' = "none"
    /\ asked' = Blank("no") /\ ended' = Blank(<<>>) /\ did' = Blank("none")
    /\ UNCHANGED answer

(* The plan goes to the runner, which asks the next seat or resolves the   *)
(* tick.                                                                   *)
Play(source) ==
    /\ played' = [played EXCEPT ![seat] = source]
    /\ IF turn < Len(Order)
          THEN turn' = turn + 1 /\ NextDecision
          ELSE pc' = "resolve"
               /\ UNCHANGED <<turn, attempt, posts, answer, exc, terminal, lastCode, evidence>>
    /\ UNCHANGED <<match, tick, spent, disk, status, faults>>

EndMatch(how) ==
    /\ status' = how /\ pc' = "ended"
    /\ UNCHANGED <<match, tick, turn, attempt, posts, answer, exc, terminal, spent,
                   disk, evidence, played, faults>>

(* The parser accepted the answer and the evidence says so.                *)
Accepted == pc = "settle" /\ exc = NoExc /\ Play("llm")

(* A boundary passes every handler of both callers, and the runner ends    *)
(* the match with reason aborted.                                          *)
BoundaryHit ==
    /\ pc = "settle" /\ exc.kind = "boundary"
    /\ EndMatch("aborted") /\ UNCHANGED lastCode

(* Mutant of Substituted: any exception of a programmer is recovered.      *)
SubstitutedForAny ==
    /\ pc = "settle" /\ match.policy[seat] = "fallback"
    /\ exc.kind \in {"semantic", "other"}
    /\ Play("fallback")

(* The explicit recovery of a seat that opted in: a programmer only for a  *)
(* classified rejection, a per-tick pilot (REMAIN) for any exception.      *)
Substituted ==
    /\ pc = "settle" /\ match.policy[seat] = "fallback"
    /\ \/ exc.kind = "semantic"
       \/ exc.kind = "other" /\ match.path = "decide"
    /\ Play("fallback")

(* Mutant of Repairable: the broad except of the loop takes a boundary too. *)
RepairableAnyway ==
    /\ pc = "settle" /\ match.policy[seat] = "raise"
    /\ exc.kind = "semantic" \/ (exc.kind # "none" /\ attempt > 0)
    /\ lastCode' = IF exc.kind = "semantic" THEN exc.code ELSE lastCode

(* The bounded reprompt loop: a semantic rejection is carried into the     *)
(* next prompt, any other failure of a repair is a spent attempt.          *)
Repairable ==
    /\ pc = "settle" /\ match.policy[seat] = "raise"
    /\ exc.kind = "semantic" \/ (exc.kind = "other" /\ attempt > 0)
    /\ lastCode' = IF exc.kind = "semantic" THEN exc.code ELSE lastCode

(* Mutant of Reprompt: an unclassified failure is repeated, not counted.   *)
RepromptUncounted ==
    /\ Repairable /\ attempt < RetryLimit
    /\ IF exc.kind = "semantic"
          THEN attempt' = attempt + 1 /\ UNCHANGED evidence
          ELSE /\ asked' = [asked EXCEPT ![attempt] = "no"]
               /\ ended' = [ended EXCEPT ![attempt] = <<>>]
               /\ did' = [did EXCEPT ![attempt] = "none"]
               /\ UNCHANGED attempt
    /\ pc' = "ask" /\ exc' = NoExc
    /\ UNCHANGED <<match, tick, turn, posts, answer, terminal, spent, disk,
                   played, status, faults>>

Reprompt ==
    /\ Repairable /\ attempt < RetryLimit
    /\ attempt' = attempt + 1 /\ pc' = "ask" /\ exc' = NoExc
    /\ UNCHANGED <<match, tick, turn, posts, answer, terminal, spent, disk, evidence,
                   played, status, faults>>

(* LlmSemanticExhaustedError: the runner ends the match with its own       *)
(* reason.                                                                 *)
Exhausted == Repairable /\ attempt = RetryLimit /\ EndMatch("provider_semantic_failure")

(* Any other exception of the first attempt leaves run(): the runtime      *)
(* commits FAILED, and no terminal is published.                           *)
Crashed ==
    /\ pc = "settle" /\ exc.kind = "other" /\ attempt = 0
    /\ match.policy[seat] = "raise" \/ match.path = "program"
    /\ EndMatch("failed") /\ UNCHANGED lastCode

(* The tick is resolved (MatchRunner): the match goes on or is over.       *)
ResolveTick ==
    /\ pc = "resolve"
    /\ \/ /\ tick < MaxTick
          /\ tick' = tick + 1 /\ turn' = 1 /\ NextDecision
          /\ played' = [s \in Seats |-> "none"]
          /\ UNCHANGED <<match, spent, disk, status, faults>>
       \/ EndMatch("played") /\ UNCHANGED lastCode

Done == status # "running" /\ UNCHANGED vars

Next ==
    \/ Request \/ EnterFails \/ Consume \/ Exit
    \/ HttpComplete \/ HttpPost
    \/ CliComplete \/ CliPrints \/ CliLost \/ CliRejects \/ CliCrashes
    \/ Accepted \/ BoundaryHit \/ Substituted \/ Reprompt \/ Exhausted \/ Crashed
    \/ ResolveTick \/ Done

(* Every call the ladder makes returns: posts and runs have timeouts, and  *)
(* the worker thread is scheduled.                                         *)
Spec == Init /\ [][Next]_vars /\ WF_vars(Next)

----------------------------------------------------------------------------
(* Properties.                                                             *)

Reasons == {"resolved", "invalid_response", "length", "timeout", "provider_error",
            "consumer_error", "abandoned"}

TypeOK ==
    /\ match \in Matches
    /\ tick \in Nat /\ turn \in 1 .. Len(Order) /\ attempt \in Attempts
    /\ pc \in {"ask", "call", "wire", "fail", "answer", "exit", "settle",
               "resolve", "ended"}
    /\ posts \in Nat /\ answer \in Answers \cup {"none"}
    /\ exc \in Exceptions /\ terminal \in BOOLEAN
    /\ lastCode \in Codes \cup {"none"}
    /\ spent \in [Providers -> 0 .. Budget]
    /\ disk \in [Providers -> [mine : BOOLEAN, gates : Gates]]
    /\ asked \in [Attempts -> {"no", "raised", "yes"}]
    /\ ended \in [Attempts -> Seq(Reasons)]
    /\ did \in [Attempts -> Deeds]
    /\ played \in [Seats -> {"none", "llm", "fallback"}]
    /\ status \in {"running", "aborted", "provider_semantic_failure", "failed", "played"}
    /\ faults \in 0 .. MaxFaults

(* The evidence a completion must leave, whatever layer noticed its end.   *)
TrueReason(d) ==
    CASE d = "plan" -> "resolved"
      [] d \in {"illegal", "garbled", "rejected"} -> "invalid_response"
      [] d \in {"length", "timeout"} -> d
      [] OTHER -> "provider_error"

Over(a) == a < attempt \/ (a = attempt /\ pc \in {"exit", "settle", "resolve", "ended"})

(* Every attempt that published its request is told exactly one end, and   *)
(* the true one: nothing the parser, a client or a raising subscriber does *)
(* leaves a request without its terminal, gives it two, blames the         *)
(* provider's answer for a crash (a receipt that repeats an earlier run's  *)
(* rejection), or records a rejected answer as a bare provider error.  A   *)
(* provider is called only in an attempt on record (llm/effect.py:69,      *)
(* llm/client_delegation.py:443).                                          *)
EvidenceIsTrue ==
    \A a \in Attempts :
        /\ Over(a) => ended[a] = IF asked[a] = "yes" THEN <<TrueReason(did[a])>> ELSE <<>>
        /\ ~Over(a) => ended[a] = <<>>
        /\ did[a] # "none" => asked[a] = "yes"

Boundaries == {"length", "timeout"}
Rejections == {"illegal", "garbled", "rejected"}

(* A plan stamped as the provider's own is the answer of the attempt that  *)
(* just resolved, and nothing is ever substituted for it except by the     *)
(* seat's own policy; a programmer's substitute also needs a classified    *)
(* rejection, and a boundary is substituted by nobody unless telling of it *)
(* failed (llm/programming.py:640, llm/pilot.py:259).                      *)
PlansAreEarned ==
    [][\A s \in Seats : played'[s] # played[s] =>
          /\ played'[s] = "llm" => did[attempt] = "plan" /\ ended[attempt] = <<"resolved">>
          /\ played'[s] = "fallback" =>
                /\ match.policy[s] = "fallback"
                /\ match.path = "program" => did[attempt] \in Rejections
                /\ did[attempt] \in Boundaries => faults > 0]_vars

(* The match ends for what really happened: aborted by a boundary of the   *)
(* last completion; a semantic failure only for a seat under "raise" whose *)
(* first answer was rejected and whose whole budget of attempts is spent   *)
(* without a plan or a boundary; a crash only in a first attempt.  And a   *)
(* boundary never goes by: no attempt is followed by another one after it  *)
(* (match/runner.py:590).                                                  *)
EndsByWhatHappened ==
    /\ status = "aborted" => did[attempt] \in Boundaries
    /\ status = "provider_semantic_failure" =>
          /\ match.policy[seat] = "raise" /\ did[0] \in Rejections /\ attempt = RetryLimit
          /\ lastCode # "none"
          /\ \A a \in Attempts : did[a] \in Boundaries \cup {"plan"} => faults > 0
    /\ status = "failed" =>
          /\ attempt = 0
          /\ did[0] \in Boundaries \cup Rejections \cup {"plan"} => faults > 0
    /\ \A a \in Attempts : a < attempt /\ did[a] \in Boundaries => faults > 0

(* A decision that was asked for is taken, or the match ends: the ladder   *)
(* has no loop without a bound.                                            *)
EveryTurnDecides == [](pc = "ask" => <>(pc \in {"resolve", "ended"}))
=============================================================================
