----------------------------- MODULE HumanTurn -----------------------------
(***************************************************************************)
(* A human seat's turn, from the prompt to the action that is played:      *)
(* the pilot on the match worker's thread (commands/coordinator.py,        *)
(* wait_for_observation), the decision inbox (commands/inbox.py), the      *)
(* browser gateway that admits actions (commands/browser_gateway.py), and  *)
(* the play server's prompt watchers and command connection, which run on  *)
(* the event loop (cli/play.py).                                           *)
(*                                                                         *)
(* Each lock-protected section is one step.  The coordinator and the inbox *)
(* have a condition variable each; a waiting thread leaves wait() after a  *)
(* notify_all() and evaluates its predicate again.  Closing the session    *)
(* takes two steps, one per lock, on the event loop, or on the worker's    *)
(* own thread when an event subscriber reports a failure.  When the worker *)
(* has ended the loop retires the session, and answers no more for it.     *)
(***************************************************************************)
EXTENDS Naturals, FiniteSets

CONSTANTS
  Sides,          \* the human seats
  Commands,       \* command ids the client may use
  PlayerActions,
  MaxTick,        \* bound on the ticks of the match
  MaxSent,        \* bound on the distinct requests the client sends
  None

ASSUME HumanTurnAssumption ==
  /\ IsFiniteSet(Sides)
  /\ MaxTick \in Nat \ {0}
  /\ MaxSent \in Nat
  /\ None \notin Commands \cup PlayerActions \cup Sides \cup {"loop", "worker"}

Ticks == 1 .. MaxTick
Turns == [side : Sides, tick : Ticks]
Requests == [id : Commands, side : Sides, tick : Ticks, action : PlayerActions]
NoPrompt == [tick |-> 0, offer |-> {}]

ASSUME NoneAssumption == None \notin Requests

VARIABLES
  pilot,      \* the worker: program counter, tick, seats already played
  asked,      \* the inbox's newest prompt of each seat
  shown,      \* the coordinator's newest prompt of each seat
  accepted,   \* command id -> the admitted request
  down,       \* which of coordinator and inbox are shut down
  closer,     \* the thread closing the session, if any
  watcher,    \* the prompt watcher of each seat
  prompts,    \* turns the server keeps for clients that connect
  link,       \* the command connection
  seen,       \* turns the client has been sent
  sent,       \* requests in flight: any of them may arrive, again and again
  verdicts,   \* the server's answers
  played,     \* turn -> the action the pilot returned
  retired     \* the server has forgotten the session and its gateway

inbox == <<asked, accepted>>
server == <<watcher, prompts, link, seen>>
vars == <<pilot, asked, shown, accepted, down, closer, watcher, prompts, link,
          seen, sent, verdicts, played, retired>>
-----------------------------------------------------------------------------
TurnOf(r) == [side |-> r.side, tick |-> r.tick]
Admitted == {accepted[c] : c \in {d \in Commands : accepted[d] # None}}
DecisionsOf(t) == {r \in Admitted : TurnOf(r) = t}

Down(part) == part \in down
LoopFree == closer # "loop"
PilotFree == closer # "worker"

CurrentTurn == [side |-> pilot.side, tick |-> pilot.tick]

Init ==
  /\ pilot = [pc |-> "idle", tick |-> 1, side |-> None, done |-> {}, woken |-> FALSE]
  /\ asked = [s \in Sides |-> NoPrompt]
  /\ shown = [s \in Sides |-> NoPrompt]
  /\ accepted = [c \in Commands |-> None]
  /\ down = {}
  /\ closer = None
  /\ watcher = [s \in Sides |-> [pc |-> "waiting", after |-> 0, tick |-> 0, woken |-> TRUE]]
  /\ prompts = {}
  /\ link = "none"
  /\ seen = {}
  /\ sent = {}
  /\ verdicts = {}
  /\ played = [t \in Turns |-> None]
  /\ retired = FALSE
-----------------------------------------------------------------------------
(* The worker's thread *)
PilotRaises ==
  /\ pilot' = [pilot EXCEPT !.pc = "raised"]
  /\ UNCHANGED <<asked, shown, accepted, down, closer, server, sent, verdicts, played, retired>>

\* publish_prompt(): the newest prompt of the seat replaces the one before.
Ask(s) ==
  /\ PilotFree
  /\ pilot.pc = "idle"
  /\ s \notin pilot.done
  /\ ~Down("inbox")
  /\ \E offer \in (SUBSET PlayerActions) \ {{}} :
       asked' = [asked EXCEPT ![s] = [tick |-> pilot.tick, offer |-> offer]]
  /\ pilot' = [pilot EXCEPT !.pc = "asked", !.side = s]
  /\ UNCHANGED <<shown, accepted, down, closer, server, sent, verdicts, played, retired>>

\* The coordinator stores the prompt and notifies the watchers.
Show ==
  /\ pilot.pc = "asked"
  /\ ~Down("coordinator")
  /\ shown' = [shown EXCEPT ![pilot.side] = asked[pilot.side]]
  /\ watcher' = [s \in Sides |-> [watcher[s] EXCEPT !.woken = TRUE]]
  /\ pilot' = [pilot EXCEPT !.pc = "shown"]
  /\ UNCHANGED <<asked, accepted, down, closer, prompts, link, seen, sent, verdicts, played, retired>>

\* The pilot evaluates the inbox's predicate, on arrival or when notified.
AtInbox ==
  \/ pilot.pc = "shown"
  \/ pilot.pc = "waiting" /\ pilot.woken

Await ==
  /\ AtInbox
  /\ ~Down("inbox")
  /\ DecisionsOf(CurrentTurn) = {}
  /\ pilot' = [pilot EXCEPT !.pc = "waiting", !.woken = FALSE]
  /\ UNCHANGED <<asked, shown, accepted, down, closer, server, sent, verdicts, played, retired>>

\* The decision is returned; when every seat has played, the next tick begins.
Play ==
  /\ AtInbox
  /\ ~Down("inbox")
  /\ \E r \in DecisionsOf(CurrentTurn) :
       played' = [played EXCEPT ![CurrentTurn] = r.action]
  /\ LET done == pilot.done \cup {pilot.side}
     IN  pilot' = [pc    |-> IF done = Sides /\ pilot.tick = MaxTick THEN "over" ELSE "idle",
                   tick  |-> IF done = Sides /\ pilot.tick < MaxTick
                             THEN pilot.tick + 1 ELSE pilot.tick,
                   side  |-> None,
                   done  |-> IF done = Sides THEN {} ELSE done,
                   woken |-> FALSE]
  /\ UNCHANGED <<asked, shown, accepted, down, closer, server, sent, verdicts, retired>>

\* HumanDecisionCancelledError, wherever the pilot meets a shut-down lock.
Cancelled ==
  /\ PilotFree
  /\ \/ pilot.pc = "idle" /\ Down("inbox")
     \/ pilot.pc = "asked" /\ Down("coordinator")
     \/ AtInbox /\ Down("inbox")
  /\ PilotRaises

PilotStep == (\E s \in Sides : Ask(s)) \/ Show \/ Await \/ Play \/ Cancelled
-----------------------------------------------------------------------------
(* The prompt watchers: wait_for_prompt() in a thread, the rest on the loop *)
WatcherSleeps(s) ==
  /\ watcher[s].pc = "waiting"
  /\ watcher[s].woken
  /\ ~Down("coordinator")
  /\ shown[s].tick <= watcher[s].after
  /\ watcher' = [watcher EXCEPT ![s].woken = FALSE]
  /\ UNCHANGED <<pilot, inbox, shown, down, closer, prompts, link, seen, sent, verdicts, played, retired>>

WatcherFinds(s) ==
  /\ watcher[s].pc = "waiting"
  /\ watcher[s].woken
  /\ ~Down("coordinator")
  /\ shown[s].tick > watcher[s].after
  /\ watcher' = [watcher EXCEPT ![s].pc = "found", ![s].tick = shown[s].tick]
  /\ UNCHANGED <<pilot, inbox, shown, down, closer, prompts, link, seen, sent, verdicts, played, retired>>

WatcherCancelled(s) ==
  /\ watcher[s].pc = "waiting"
  /\ watcher[s].woken
  /\ Down("coordinator")
  /\ watcher' = [watcher EXCEPT ![s].pc = "gone"]
  /\ UNCHANGED <<pilot, inbox, shown, down, closer, prompts, link, seen, sent, verdicts, played, retired>>

\* The loop keeps the prompt for clients that connect and sends it to the one
\* connected now.  A connection may have closed without the loop knowing: then
\* send() raises, and the failure closes the session.
FoundTurn(s) == [side |-> s, tick |-> watcher[s].tick]

Deliver(s) ==
  /\ LoopFree
  /\ ~retired
  /\ watcher[s].pc = "found"
  /\ link # "broken"
  /\ prompts' = prompts \cup {FoundTurn(s)}
  /\ seen' = IF link = "open" THEN seen \cup {FoundTurn(s)} ELSE seen
  /\ watcher' = [watcher EXCEPT ![s] =
                   [pc |-> "waiting", after |-> @.tick, tick |-> @.tick, woken |-> TRUE]]
  /\ UNCHANGED <<pilot, inbox, shown, down, closer, link, sent, verdicts, played, retired>>

DeliverFails(s) ==
  /\ LoopFree
  /\ ~retired
  /\ watcher[s].pc = "found"
  /\ link = "broken"
  /\ prompts' = prompts \cup {FoundTurn(s)}
  /\ watcher' = [watcher EXCEPT ![s].pc = "gone"]
  /\ closer' = IF closer = None /\ down = {} THEN "loop" ELSE closer
  /\ UNCHANGED <<pilot, inbox, shown, down, link, seen, sent, verdicts, played, retired>>

\* Retiring has cancelled the watcher's task: what its thread found is dropped.
WatcherDropped(s) ==
  /\ LoopFree
  /\ retired
  /\ watcher[s].pc = "found"
  /\ watcher' = [watcher EXCEPT ![s].pc = "gone"]
  /\ UNCHANGED <<pilot, inbox, shown, down, closer, prompts, link, seen, sent, verdicts, played, retired>>

WatcherStep(s) ==
  \/ WatcherSleeps(s) \/ WatcherFinds(s) \/ WatcherCancelled(s)
  \/ Deliver(s) \/ DeliverFails(s) \/ WatcherDropped(s)
-----------------------------------------------------------------------------
(* The client and its connection *)
Connect ==
  /\ LoopFree
  /\ link = "none"
  /\ link' = "open"
  /\ seen' = seen \cup prompts
  /\ UNCHANGED <<pilot, inbox, shown, down, closer, watcher, prompts, sent, verdicts, played, retired>>

Disconnect ==
  /\ link = "open"
  /\ link' = "broken"
  /\ UNCHANGED <<pilot, inbox, shown, down, closer, watcher, prompts, seen, sent, verdicts, played, retired>>

\* The handler of a closed connection ends and forgets it.
Forget ==
  /\ LoopFree
  /\ link = "broken"
  /\ link' = "none"
  /\ UNCHANGED <<pilot, inbox, shown, down, closer, watcher, prompts, seen, sent, verdicts, played, retired>>

Send(r) ==
  /\ TurnOf(r) \in seen
  /\ r \notin sent
  /\ Cardinality(sent) < MaxSent
  /\ sent' = sent \cup {r}
  /\ UNCHANGED <<pilot, inbox, shown, down, closer, server, verdicts, played, retired>>

\* Mutant: the prompt is looked at before the id.
ReplaysActivePrompt(r) == accepted[r.id] # None /\ asked[r.side].tick = r.tick

\* submit_action() of the gateway and of the inbox, the checks in their order:
\* the id first, then the prompt, the action, and the turn's decision.
Replays(r) == accepted[r.id] # None

\* Mutant: a turn may be decided again.
AnswersAgain(r) ==
  /\ ~Down("inbox")
  /\ asked[r.side].tick = r.tick
  /\ r.action \in asked[r.side].offer

Answers(r) ==
  /\ ~Down("inbox")
  /\ asked[r.side].tick = r.tick
  /\ r.action \in asked[r.side].offer
  /\ DecisionsOf(TurnOf(r)) = {}

Receive(r, verdict) ==
  /\ LoopFree
  /\ link = "open"
  /\ r \in sent
  /\ verdicts' = verdicts \cup {[request |-> r, verdict |-> verdict, live |-> ~retired]}
  /\ UNCHANGED <<asked, shown, down, closer, watcher, link, seen, sent, played, retired>>

\* Mutant: the server keeps the prompt of a decided turn.
SubmitKeepsPrompt(r) ==
  /\ ~retired /\ ~Replays(r) /\ Answers(r)
  /\ Receive(r, "accepted")
  /\ accepted' = [accepted EXCEPT ![r.id] = r]
  /\ pilot' = [pilot EXCEPT !.woken = TRUE]
  /\ UNCHANGED prompts

\* The server then forgets the turn's prompt, for a replay as well.
SubmitAccepted(r) ==
  /\ ~retired /\ ~Replays(r) /\ Answers(r)
  /\ Receive(r, "accepted")
  /\ accepted' = [accepted EXCEPT ![r.id] = r]
  /\ prompts' = prompts \ {TurnOf(r)}
  /\ pilot' = [pilot EXCEPT !.woken = TRUE]

SubmitReplayed(r) ==
  /\ ~retired /\ Replays(r) /\ accepted[r.id] = r
  /\ Receive(r, "accepted")
  /\ prompts' = prompts \ {TurnOf(r)}
  /\ UNCHANGED <<accepted, pilot>>

\* Once the session is retired there is no gateway, and every action is refused.
SubmitRefused(r) ==
  /\ retired \/ IF Replays(r) THEN accepted[r.id] # r ELSE ~Answers(r)
  /\ Receive(r, "refused")
  /\ UNCHANGED <<accepted, prompts, pilot>>

Submit(r) == SubmitAccepted(r) \/ SubmitReplayed(r) \/ SubmitRefused(r)
-----------------------------------------------------------------------------
(* Closing the session *)
\* browser_cancel, or stop(): the loop closes the session.
CloseFromLoop ==
  /\ closer = None /\ down = {}
  /\ closer' = "loop"
  /\ prompts' = {}
  /\ UNCHANGED <<pilot, inbox, shown, down, watcher, link, seen, sent, verdicts, played, retired>>

\* A subscriber on the worker's thread reports a failure while a tick runs.
CloseFromWorker ==
  /\ closer = None /\ down = {}
  /\ pilot.pc \in {"idle", "over"}
  /\ closer' = "worker"
  /\ UNCHANGED <<pilot, inbox, shown, down, server, sent, verdicts, played, retired>>

CloseCoordinator ==
  /\ closer # None
  /\ ~Down("coordinator")
  /\ down' = down \cup {"coordinator"}
  /\ watcher' = [s \in Sides |-> [watcher[s] EXCEPT !.woken = TRUE]]
  /\ UNCHANGED <<pilot, inbox, shown, closer, prompts, link, seen, sent, verdicts, played, retired>>

\* Mutant: the inbox is shut down without waking its waiters.
CloseInboxSilently ==
  /\ Down("coordinator")
  /\ ~Down("inbox")
  /\ down' = down \cup {"inbox"}
  /\ closer' = None
  /\ UNCHANGED <<pilot, inbox, shown, server, sent, verdicts, played, retired>>

CloseInbox ==
  /\ Down("coordinator")
  /\ ~Down("inbox")
  /\ down' = down \cup {"inbox"}
  /\ closer' = None
  /\ pilot' = [pilot EXCEPT !.woken = TRUE]
  /\ UNCHANGED <<inbox, shown, server, sent, verdicts, played, retired>>

CloseStep == CloseCoordinator \/ CloseInbox

\* The worker has ended, having closed what it had begun to close: the loop
\* closes the session if nobody has, and forgets it with its gateway, its prompts
\* and its watchers' tasks.
Retire ==
  /\ closer = None
  /\ pilot.pc \in {"raised", "over"}
  /\ ~retired
  /\ retired' = TRUE
  /\ prompts' = {}
  /\ closer' = IF down = {} THEN "loop" ELSE None
  /\ UNCHANGED <<pilot, inbox, shown, down, watcher, link, seen, sent, verdicts, played>>
-----------------------------------------------------------------------------
Next ==
  \/ PilotStep
  \/ \E s \in Sides : WatcherStep(s)
  \/ Connect \/ Disconnect \/ Forget
  \/ \E r \in Requests : Send(r) \/ Submit(r)
  \/ CloseFromLoop \/ CloseFromWorker \/ CloseStep \/ Retire

Spec == Init /\ [][Next]_vars

\* The worker's thread, the watchers, and a close that has begun are scheduled;
\* the client promises nothing.
Fairness ==
  /\ WF_vars(PilotStep)
  /\ \A s \in Sides : WF_vars(WatcherStep(s))
  /\ WF_vars(CloseStep)

FairSpec == Spec /\ Fairness
-----------------------------------------------------------------------------
(***************************************************************************)
(* Properties                                                              *)
(***************************************************************************)
\* A client told that its action is accepted sees that action played, if the
\* turn is played at all: no second command for the turn was ever accepted.
PlayedAsAnswered ==
  \A v \in verdicts :
    LET t == TurnOf(v.request)
    IN  v.verdict = "accepted" /\ played[t] # None => played[t] = v.request.action

\* As long as the server keeps the session, closed or not, its answers tell the
\* truth of the inbox at every later time: the delivery of a request is answered
\* "accepted" if and only if that very request is in the inbox's records, so all
\* its deliveries are answered alike, and one refused is never admitted after
\* all.  A retired session has no say: everything sent to it is refused, what it
\* had accepted too.
OneVerdict ==
  \A v \in verdicts : v.live => (v.verdict = "accepted" <=> v.request \in Admitted)

\* While the session is open, a turn the watcher has gone past is kept for
\* clients that connect later exactly as long as it has no decision: the watcher
\* passes over no undecided prompt, and a decided one is never offered again.
PromptKeptUntilDecided ==
  closer = None /\ down = {} =>
    \A s \in Sides : \A t \in 1 .. watcher[s].after :
      LET turn == [side |-> s, tick |-> t]
      IN  turn \in prompts <=> DecisionsOf(turn) = {}

\* Once a decision is admitted the pilot stops waiting, be it to play or to be
\* cancelled; closing the session releases every thread that waits on it, the
\* pilot's and the watchers'.
NobodyLeftWaiting ==
  /\ pilot.pc = "waiting" /\ DecisionsOf(CurrentTurn) # {} ~> pilot.pc # "waiting"
  /\ closer # None ~> (/\ pilot.pc \in {"raised", "over"}
                       /\ \A s \in Sides : watcher[s].pc # "waiting")
=============================================================================
