-------------------------- MODULE SeatPlay_proofs --------------------------
(***************************************************************************)
(* What a seat plays, proved for any number of seats: the actions a human  *)
(* player is answered (HumanTurn) and the cards of a round (CardRound).    *)
(* The two are proved from their own invariants and share no fact.         *)
(*                                                                         *)
(* The properties of the inbox's answers rest on one fact: the prompts of  *)
(* a seat only go forward, and a client cannot speak of a turn that was    *)
(* not shown, so whatever made the inbox refuse a request stays so.  That  *)
(* the watcher passes over no open prompt rests on another: the pilot does *)
(* not go past a turn that has no decision, and a decision needs a client  *)
(* that was sent the prompt by the watcher.                                *)
(*                                                                         *)
(* Those of a round rest on what each of its operators does for every      *)
(* input: a sorted set lists each element once, a deal loses no card, a    *)
(* rule leaves a legal plan legal, the rows have each seat once for each   *)
(* register.  The invariant then only says that the plans are what the     *)
(* rules left, and that what may be repeated was shown.                    *)
(***************************************************************************)
EXTENDS HumanTurn, CardRound, FiniteSetTheorems, WellFoundedInduction, TLAPS

Prompt == [tick : 0 .. MaxTick, offer : SUBSET PlayerActions]

Verdict == [request : Requests, verdict : {"accepted", "refused"}, live : BOOLEAN]

Types ==
  /\ pilot \in [pc : {"idle", "asked", "shown", "waiting", "over", "raised"},
                tick : Ticks, side : Sides \cup {None}, done : SUBSET Sides,
                woken : BOOLEAN]
  /\ asked \in [Sides -> Prompt]
  /\ shown \in [Sides -> Prompt]
  /\ accepted \in [Commands -> Requests \cup {None}]
  /\ watcher \in [Sides -> [pc : {"waiting", "found", "gone"}, after : 0 .. MaxTick,
                            tick : 0 .. MaxTick, woken : BOOLEAN]]
  /\ prompts \subseteq Turns
  /\ seen \subseteq Turns
  /\ sent \subseteq Requests
  /\ verdicts \subseteq Verdict
  /\ played \in [Turns -> PlayerActions \cup {None}]

InTurn == pilot.pc \in {"asked", "shown", "waiting"}

\* A seat is asked once in a tick.
Pace ==
  /\ \A s \in Sides : asked[s].tick <= pilot.tick
  /\ pilot.pc = "idle" => \A s \in Sides \ pilot.done : asked[s].tick < pilot.tick
  /\ InTurn =>
       /\ pilot.side \in Sides \ pilot.done
       /\ asked[pilot.side].tick = pilot.tick
       /\ \A s \in Sides \ (pilot.done \cup {pilot.side}) : asked[s].tick < pilot.tick

\* The coordinator follows the inbox, a watcher the coordinator, and the client
\* knows of no turn that was not shown.
Follows ==
  /\ \A s \in Sides :
       /\ watcher[s].after <= shown[s].tick
       /\ shown[s].tick <= asked[s].tick
       /\ watcher[s].pc = "found" =>
            watcher[s].after < watcher[s].tick /\ watcher[s].tick <= shown[s].tick
  /\ \A t \in prompts \cup seen : t.tick <= shown[t.side].tick
  /\ \A r \in sent : r.tick <= shown[r.side].tick

\* The inbox's records: each under its id, of a request that was sent, one for a
\* turn, and what is played is one of them.
Records ==
  /\ \A c \in Commands : accepted[c] # None => accepted[c].id = c /\ accepted[c] \in sent
  /\ \A c, d \in Commands :
       accepted[c] # None /\ accepted[d] # None /\ TurnOf(accepted[c]) = TurnOf(accepted[d])
         => c = d
  /\ \A t \in Turns : played[t] # None => \E r \in DecisionsOf(t) : r.action = played[t]

\* The pilot goes past no turn without its decision.
Decided ==
  \A t \in Turns :
    t.tick < pilot.tick \/ (t.tick = pilot.tick /\ t.side \in pilot.done)
      => DecisionsOf(t) # {}

\* Why the inbox will never answer r otherwise than it did.
Settled(r) ==
  \/ accepted[r.id] # None
  \/ Down("inbox")
  \/ r.tick < asked[r.side].tick
  \/ r.tick = asked[r.side].tick /\ r.action \notin asked[r.side].offer
  \/ DecisionsOf(TurnOf(r)) # {}

Answered ==
  \A v \in verdicts :
    /\ v.request \in sent
    /\ v.verdict = "accepted" => accepted[v.request.id] = v.request
    /\ v.live /\ v.verdict = "refused" =>
         accepted[v.request.id] # v.request /\ Settled(v.request)

\* The session is open: nobody has begun to close it.
IsOpen == closer = None /\ down = {}

\* What the client knows while the session is open was delivered by a watcher.
Delivered ==
  IsOpen =>
    /\ \A t \in prompts \cup seen : t.tick <= watcher[t.side].after
    /\ \A r \in sent : r.tick <= watcher[r.side].after

IInv ==
  /\ Types /\ Pace /\ Follows /\ Records /\ Decided /\ Answered
  /\ Delivered /\ PromptKeptUntilDecided
-----------------------------------------------------------------------------
(* What the parts of the invariant depend on.                                *)

\* The decisions of a turn are a function of the inbox's records.
LEMMA DecisionsSame ==
  ASSUME accepted' = accepted
  PROVE  /\ Admitted' = Admitted
         /\ \A t : DecisionsOf(t)' = DecisionsOf(t)
  BY DEF Admitted, DecisionsOf, TurnOf

\* A decision is a request of its own turn.
LEMMA DecisionsTyped ==
  ASSUME Types
  PROVE  /\ \A t : \A r \in DecisionsOf(t) : r \in Requests /\ TurnOf(r) = t
         /\ \A r \in Requests : TurnOf(r) \in Turns
  BY DEF Types, Admitted, DecisionsOf, TurnOf, Requests, Turns

\* A decision is a record.
LEMMA DecisionIsRecord ==
  ASSUME Types, NEW t, NEW r \in DecisionsOf(t)
  PROVE  \E c \in Commands : accepted[c] = r /\ accepted[c] # None
  BY NoneAssumption DEF Types, Admitted, DecisionsOf

\* A record is a decision of its turn.
LEMMA RecordIsDecision ==
  ASSUME Types, NEW c \in Commands, accepted[c] # None
  PROVE  accepted[c] \in DecisionsOf(TurnOf(accepted[c]))
  BY DEF Types, Admitted, DecisionsOf

\* Nobody has asked, been asked or answered.
LEMMA Initially == Init => IInv
  <1> SUFFICES ASSUME Init PROVE IInv
      OBVIOUS
  <1> USE HumanTurnAssumption, NoneAssumption
  <1>1. Types
    BY DEF Init, Types, Prompt, NoPrompt, Ticks
  <1>2. Pace /\ Follows
    BY DEF Init, Pace, Follows, InTurn, NoPrompt, Ticks
  <1>3. Records
    BY DEF Init, Records
  <1>4. Decided
    BY DEF Init, Decided, Turns, Ticks
  <1>5. Answered /\ Delivered /\ PromptKeptUntilDecided
    BY DEF Init, Answered, Delivered, PromptKeptUntilDecided
  <1> QED
    BY <1>1, <1>2, <1>3, <1>4, <1>5 DEF IInv

-----------------------------------------------------------------------------
(* The pilot. *)

\* Steps of the pilot that move no prompt and play nothing.
LEMMA PilotMoves ==
  ASSUME IInv, Await \/ Cancelled
  PROVE  IInv'
  <1> USE DEF IInv, Await, Cancelled, PilotRaises, AtInbox
  <1>1. Types'
    BY DEF Types, server
  <1>2. Pace'
    BY DEF Types, Pace, InTurn, server
  <1>3. Follows' /\ Delivered'
    BY DEF Follows, Delivered, IsOpen, server
  <1>4. Records' /\ PromptKeptUntilDecided'
    BY DecisionsSame DEF Records, PromptKeptUntilDecided, server
  <1>5. Decided'
    BY DecisionsSame DEF Types, Decided
  <1>6. Answered'
    BY DecisionsSame DEF Answered, Settled, Down, server
  <1> QED
    BY <1>1, <1>2, <1>3, <1>4, <1>5, <1>6

\* A new prompt is younger than its seat's last one, so no refusal is undone.
LEMMA AskKeeps ==
  ASSUME IInv, NEW s \in Sides, Ask(s)
  PROVE  IInv'
  <1> USE DEF IInv, Ask
  <1>0. PICK offer \in (SUBSET PlayerActions) \ {{}} :
          asked' = [asked EXCEPT ![s] = [tick |-> pilot.tick, offer |-> offer]]
    BY DEF Ask
  <1>1. Types'
    <2>1. asked' \in [Sides -> Prompt]
      BY <1>0, HumanTurnAssumption DEF Types, Prompt, Ticks
    <2>2. /\ pilot' = [pilot EXCEPT !.pc = "asked", !.side = s]
          /\ pilot' \in [pc : {"idle", "asked", "shown", "waiting", "over", "raised"},
                         tick : Ticks, side : Sides \cup {None}, done : SUBSET Sides,
                         woken : BOOLEAN]
      BY DEF Types
    <2> QED
      BY <2>1, <2>2 DEF Types, server
  <1>2. \A u \in Sides : asked[u].tick <= asked'[u].tick
    BY <1>0, HumanTurnAssumption DEF Types, Pace, Prompt, Ticks
  <1>3. Pace'
    BY <1>0, HumanTurnAssumption DEF Types, Pace, InTurn, Prompt, Ticks
  <1>4. Follows' /\ Delivered'
    BY <1>2, <1>1, HumanTurnAssumption DEF Types, Follows, Delivered, IsOpen, server, Prompt, Ticks
  <1>5. Records' /\ PromptKeptUntilDecided'
    BY DecisionsSame DEF Records, PromptKeptUntilDecided, server
  <1>6. Decided'
    BY DecisionsSame DEF Types, Decided
  <1>7. ASSUME NEW r \in Requests, Settled(r) PROVE Settled(r)'
    <2>1. r.side \in Sides /\ r.tick \in Ticks
      BY DEF Requests
    <2>2. CASE r.side = s
      BY <1>7, <2>1, <2>2, <1>0, DecisionsSame, HumanTurnAssumption
         DEF Settled, Down, Types, Pace, Prompt, Ticks
    <2>3. CASE r.side # s
      BY <1>7, <2>1, <2>3, <1>0, DecisionsSame DEF Settled, Down, Types
    <2> QED
      BY <2>2, <2>3
  <1>8. Answered'
    BY <1>7 DEF Types, Answered, server
  <1> QED
    BY <1>1, <1>3, <1>4, <1>5, <1>6, <1>8

\* The coordinator catches up with the inbox.
LEMMA ShowKeeps ==
  ASSUME IInv, Show
  PROVE  IInv'
  <1> USE DEF IInv, Show
  <1>1. Types'
    BY DEF Types, Pace, InTurn
  <1>2. Pace'
    BY DEF Types, Pace, InTurn
  <1>3. /\ \A u \in Sides : shown[u].tick <= shown'[u].tick /\ shown'[u].tick <= asked[u].tick
        /\ \A u \in Sides : /\ watcher'[u].pc = watcher[u].pc
                            /\ watcher'[u].after = watcher[u].after
                            /\ watcher'[u].tick = watcher[u].tick
    BY HumanTurnAssumption DEF Types, Pace, InTurn, Follows, Prompt
  <1>4. Follows'
    <2>1. \A u \in Sides : /\ shown[u].tick \in Nat /\ shown'[u].tick \in Nat
                           /\ watcher[u].tick \in Nat /\ watcher[u].after \in Nat
      BY <1>1, HumanTurnAssumption DEF Types, Prompt
    <2>2. \A u \in Sides :
            /\ watcher'[u].after <= shown'[u].tick
            /\ shown'[u].tick <= asked'[u].tick
            /\ watcher'[u].pc = "found" =>
                 watcher'[u].after < watcher'[u].tick /\ watcher'[u].tick <= shown'[u].tick
      BY <1>3, <2>1 DEF Follows
    <2>3. \A t \in Turns \cup Requests : t.side \in Sides /\ t.tick \in Nat
      BY DEF Turns, Requests, Ticks
    <2>4. /\ \A t \in prompts' \cup seen' : t.tick <= shown'[t.side].tick
          /\ \A t \in sent' : t.tick <= shown'[t.side].tick
      BY <1>3, <2>1, <2>3 DEF Types, Follows
    <2> QED
      BY <2>2, <2>4 DEF Follows
  <1>5. Delivered'
    BY <1>3 DEF Types, Delivered, IsOpen, Turns, Requests
  <1>6. Records' /\ PromptKeptUntilDecided'
    BY <1>3, DecisionsSame DEF Records, PromptKeptUntilDecided
  <1>7. Decided'
    BY DecisionsSame DEF Types, Decided
  <1>8. Answered'
    BY DecisionsSame DEF Answered, Settled, Down
  <1> QED
    BY <1>1, <1>2, <1>4, <1>5, <1>6, <1>7, <1>8

\* A turn is played with its decision, and the pilot goes on.
LEMMA PlayKeeps ==
  ASSUME IInv, Play
  PROVE  IInv'
  <1> USE DEF IInv, Play
  <1>0. InTurn /\ pilot.side \in Sides \ pilot.done /\ CurrentTurn \in Turns
    BY DEF Types, Pace, InTurn, AtInbox, CurrentTurn, Turns
  <1>1. PICK r \in DecisionsOf(CurrentTurn) : played' = [played EXCEPT ![CurrentTurn] = r.action]
    BY DEF Play
  <1>2. r.action \in PlayerActions
    BY DecisionsTyped DEF Requests
  <1>3. Types'
    BY <1>0, <1>1, <1>2, HumanTurnAssumption DEF Types, Ticks, server
  <1>4. Pace'
    BY <1>0, HumanTurnAssumption DEF Types, Pace, InTurn, Ticks, Prompt
  <1>5. Follows' /\ Delivered'
    BY DEF Follows, Delivered, IsOpen, server
  <1>6. Records'
    BY <1>0, <1>1, DecisionsSame DEF Types, Records, server
  <1>7. Decided'
    <2> SUFFICES ASSUME NEW t \in Turns,
                        t.tick < pilot'.tick \/ (t.tick = pilot'.tick /\ t.side \in pilot'.done)
                 PROVE  DecisionsOf(t) # {}
      BY DecisionsSame DEF Decided
    <2>1. CASE t = CurrentTurn
      BY <2>1
    <2>2. CASE t # CurrentTurn
      <3>1. t.tick \in Nat /\ t.side \in Sides /\ (t.tick = pilot.tick => t.side # pilot.side)
        BY <2>2 DEF Turns, Ticks, CurrentTurn
      <3>2. /\ pilot.tick \in Nat /\ pilot'.done \subseteq pilot.done \cup {pilot.side}
            /\ \/ pilot'.tick = pilot.tick
               \/ pilot'.tick = pilot.tick + 1 /\ pilot.done \cup {pilot.side} = Sides
        BY <1>0, HumanTurnAssumption DEF Types, Ticks
      <3>3. t.tick < pilot.tick \/ (t.tick = pilot.tick /\ t.side \in pilot.done)
        BY <3>1, <3>2
      <3> QED
        BY <3>3 DEF Decided
    <2> QED
      BY <2>1, <2>2
  <1>8. Answered' /\ PromptKeptUntilDecided'
    BY DecisionsSame DEF Answered, Settled, Down, PromptKeptUntilDecided, server
  <1> QED
    BY <1>3, <1>4, <1>5, <1>6, <1>7, <1>8

-----------------------------------------------------------------------------
(* The watchers. *)

\* Where everything but a watcher's place is left alone.
LEMMA WatcherOnly ==
  ASSUME IInv, UNCHANGED <<pilot, inbox, shown, down, sent, verdicts, played>>
  PROVE  Pace' /\ Records' /\ Decided' /\ Answered'
  <1> USE DEF IInv, inbox
  <1>1. Pace'
    BY DEF Pace, InTurn
  <1>2. Records' /\ Decided'
    BY DecisionsSame DEF Records, Decided
  <1>3. Answered'
    BY DecisionsSame DEF Answered, Settled, Down
  <1> QED
    BY <1>1, <1>2, <1>3

\* A watcher looks at its seat's newest prompt: w is where it stands then.
LEMMA WatcherTurns ==
  ASSUME IInv, NEW s \in Sides,
         NEW w \in [pc : {"waiting", "found", "gone"}, after : 0 .. MaxTick,
                    tick : 0 .. MaxTick, woken : BOOLEAN],
         watcher' = [watcher EXCEPT ![s] = w],
         w.after = watcher[s].after,
         w.pc = "found" => w.after < w.tick /\ w.tick = shown[s].tick,
         UNCHANGED <<pilot, asked, accepted, shown, down, closer, prompts, seen, sent,
                     verdicts, played>>
  PROVE  IInv'
  <1>1. Types'
    BY DEF IInv, Types
  <1>2. \A u \in Sides : /\ watcher'[u].after = watcher[u].after
                         /\ watcher'[u].pc = "found" =>
                              \/ watcher[u].pc = "found" /\ watcher'[u].tick = watcher[u].tick
                              \/ watcher[u].after < watcher'[u].tick /\ watcher'[u].tick = shown[u].tick
    BY DEF IInv, Types
  <1>3. Follows'
    <2>1. \A u \in Sides : shown[u].tick \in Nat
      BY HumanTurnAssumption DEF IInv, Types, Prompt
    <2>2. \A u \in Sides : watcher'[u].pc = "found" =>
            watcher'[u].after < watcher'[u].tick /\ watcher'[u].tick <= shown[u].tick
      BY <1>2, <2>1 DEF IInv, Follows
    <2> QED
      BY <1>2, <2>2 DEF IInv, Follows
  <1>4. Delivered'
    BY <1>2 DEF IInv, Types, Delivered, IsOpen, Turns, Requests
  <1>5. PromptKeptUntilDecided'
    <2>1. \A t : DecisionsOf(t)' = DecisionsOf(t)
      BY DecisionsSame
    <2>2. \A u \in Sides : 1 .. watcher'[u].after = 1 .. watcher[u].after
      BY <1>2
    <2> QED
      BY <2>1, <2>2 DEF IInv, PromptKeptUntilDecided
  <1> QED
    BY <1>1, <1>3, <1>4, <1>5, WatcherOnly DEF IInv, inbox

LEMMA WatcherLooks ==
  ASSUME IInv, NEW s \in Sides,
         \/ WatcherSleeps(s) \/ WatcherFinds(s) \/ WatcherCancelled(s)
         \/ WatcherDropped(s)
  PROVE  IInv'
  <1> DEFINE Places == [pc : {"waiting", "found", "gone"}, after : 0 .. MaxTick,
                        tick : 0 .. MaxTick, woken : BOOLEAN]
             asleep == [watcher[s] EXCEPT !.woken = FALSE]
             finds == [watcher[s] EXCEPT !.pc = "found", !.tick = shown[s].tick]
             gone == [watcher[s] EXCEPT !.pc = "gone"]
  <1>1. /\ watcher[s] \in Places /\ shown[s].tick \in 0 .. MaxTick
        /\ DOMAIN watcher = Sides
    BY DEF IInv, Types, Prompt
  <1>2. CASE WatcherSleeps(s)
    <2>1. watcher' = [watcher EXCEPT ![s] = asleep] /\ watcher[s].pc = "waiting"
      BY <1>2 DEF WatcherSleeps
    <2>2. asleep \in Places /\ asleep.after = watcher[s].after /\ asleep.pc # "found"
      BY <1>1, <2>1
    <2>3. UNCHANGED <<pilot, asked, accepted, shown, down, closer, prompts, seen, sent,
                      verdicts, played>>
      BY <1>2 DEF WatcherSleeps, inbox
    <2> QED
      BY <2>1, <2>2, <2>3, WatcherTurns
  <1>3. CASE WatcherFinds(s)
    <2>1. watcher' = [watcher EXCEPT ![s] = finds] /\ watcher[s].after < shown[s].tick
      BY <1>1, <1>3, HumanTurnAssumption DEF WatcherFinds
    <2>2. finds \in Places /\ finds.after = watcher[s].after /\ finds.tick = shown[s].tick
      BY <1>1
    <2>3. UNCHANGED <<pilot, asked, accepted, shown, down, closer, prompts, seen, sent,
                      verdicts, played>>
      BY <1>3 DEF WatcherFinds, inbox
    <2> HIDE DEF finds
    <2> QED
      BY <2>1, <2>2, <2>3, WatcherTurns
  <1>4. CASE WatcherCancelled(s) \/ WatcherDropped(s)
    <2>1. watcher' = [watcher EXCEPT ![s] = gone]
      BY <1>4 DEF WatcherCancelled, WatcherDropped
    <2>2. gone \in Places /\ gone.after = watcher[s].after /\ gone.pc # "found"
      BY <1>1
    <2>3. UNCHANGED <<pilot, asked, accepted, shown, down, closer, prompts, seen, sent,
                      verdicts, played>>
      BY <1>4 DEF WatcherCancelled, WatcherDropped, inbox
    <2> HIDE DEF gone
    <2> QED
      BY <2>1, <2>2, <2>3, WatcherTurns
  <1> QED
    BY <1>2, <1>3, <1>4

\* While the session is open a watcher finds the turn after the last one it
\* delivered: the turns before it are decided, so they were delivered.
LEMMA FoundIsNext ==
  ASSUME IInv, IsOpen, NEW s \in Sides, watcher[s].pc = "found"
  PROVE  /\ watcher[s].tick = watcher[s].after + 1
         /\ FoundTurn(s) \in Turns
         /\ DecisionsOf(FoundTurn(s)) = {}
  <1> USE DEF IInv
  <1>1. /\ watcher[s].after \in 0 .. MaxTick /\ watcher[s].tick \in 0 .. MaxTick
        /\ watcher[s].after < watcher[s].tick /\ watcher[s].tick <= pilot.tick
        /\ pilot.tick \in Ticks
    BY HumanTurnAssumption DEF Types, Prompt, Follows, Pace, Ticks
  <1>2. ASSUME NEW t \in Turns, NEW r \in DecisionsOf(t)
        PROVE  t.tick <= watcher[t.side].after
    BY <1>2, DecisionIsRecord, DecisionsTyped DEF Records, Delivered, TurnOf
  <1>3. watcher[s].tick = watcher[s].after + 1
    <2> SUFFICES ASSUME watcher[s].after + 1 < watcher[s].tick PROVE FALSE
      BY <1>1, HumanTurnAssumption
    <2> DEFINE t == [side |-> s, tick |-> watcher[s].after + 1]
    <2>1. t \in Turns /\ t.tick < pilot.tick
      BY <1>1, HumanTurnAssumption DEF Turns, Ticks
    <2>2. PICK r \in DecisionsOf(t) : TRUE
      BY <2>1 DEF Decided
    <2>3. t.tick <= watcher[t.side].after
      BY <1>2, <2>1, <2>2
    <2> QED
      BY <2>3, <1>1, HumanTurnAssumption
  <1>4. FoundTurn(s) \in Turns
    BY <1>1, HumanTurnAssumption DEF FoundTurn, Turns, Ticks
  <1>5. DecisionsOf(FoundTurn(s)) = {}
    BY <1>1, <1>2, <1>4, HumanTurnAssumption DEF FoundTurn
  <1> QED
    BY <1>3, <1>4, <1>5

\* What a watcher delivers is kept, and is undecided until a client has it.
LEMMA DeliverKeeps ==
  ASSUME IInv, NEW s \in Sides, Deliver(s)
  PROVE  IInv'
  <1> USE DEF IInv, Deliver, inbox
  <1>0. /\ watcher[s].after \in 0 .. MaxTick /\ watcher[s].tick \in 0 .. MaxTick
        /\ watcher[s].after < watcher[s].tick /\ watcher[s].tick <= shown[s].tick
        /\ shown[s].tick \in 0 .. MaxTick
    BY HumanTurnAssumption DEF Types, Prompt, Follows
  <1>1. FoundTurn(s) \in Turns
    BY <1>0, HumanTurnAssumption DEF FoundTurn, Turns, Ticks
  <1>2. Types'
    BY <1>0, <1>1 DEF Types
  <1>3. /\ watcher'[s].pc = "waiting" /\ watcher'[s].after = watcher[s].tick
        /\ \A u \in Sides \ {s} : watcher'[u] = watcher[u]
        /\ prompts' = prompts \cup {FoundTurn(s)}
        /\ seen' \subseteq seen \cup {FoundTurn(s)}
        /\ FoundTurn(s).tick = watcher[s].tick /\ FoundTurn(s).side = s
    BY DEF Types, FoundTurn
  <1>4. Follows'
    BY <1>0, <1>3 DEF Follows
  <1>5. Delivered'
    <2> SUFFICES ASSUME IsOpen
                 PROVE  /\ \A t \in prompts' \cup seen' : t.tick <= watcher'[t.side].after
                        /\ \A r \in sent : r.tick <= watcher'[r.side].after
      BY DEF Delivered, IsOpen
    <2>1. \A t \in Turns \cup Requests : t.side \in Sides /\ t.tick \in Nat
      BY DEF Turns, Requests, Ticks
    <2> QED
      BY <1>0, <1>3, <2>1, HumanTurnAssumption DEF Types, Delivered
  <1>6. PromptKeptUntilDecided'
    <2> SUFFICES ASSUME IsOpen, NEW u \in Sides, NEW k \in 1 .. watcher'[u].after
                 PROVE  [side |-> u, tick |-> k] \in prompts'
                          <=> DecisionsOf([side |-> u, tick |-> k]) = {}
      BY DecisionsSame DEF PromptKeptUntilDecided, IsOpen
    <2>1. CASE u = s /\ k = watcher[s].tick
      BY <2>1, <1>3, FoundIsNext DEF FoundTurn
    <2>2. CASE ~(u = s /\ k = watcher[s].tick)
      <3>1. k \in 1 .. watcher[u].after
        BY <2>2, <1>0, <1>3, FoundIsNext, HumanTurnAssumption
      <3>2. [side |-> u, tick |-> k] # FoundTurn(s)
        BY <2>2 DEF FoundTurn
      <3> QED
        BY <3>1, <3>2, <1>3 DEF PromptKeptUntilDecided, IsOpen
    <2> QED
      BY <2>1, <2>2
  <1> QED
    BY <1>2, <1>4, <1>5, <1>6, WatcherOnly

\* A send that raises closes the session.
LEMMA DeliverFailsKeeps ==
  ASSUME IInv, NEW s \in Sides, DeliverFails(s)
  PROVE  IInv'
  <1> USE DEF IInv, DeliverFails, inbox
  <1>0. /\ watcher[s].after < watcher[s].tick /\ watcher[s].tick <= shown[s].tick
        /\ watcher[s].after \in 0 .. MaxTick /\ watcher[s].tick \in 0 .. MaxTick
    BY HumanTurnAssumption DEF Types, Prompt, Follows
  <1>1. FoundTurn(s) \in Turns
    BY <1>0, HumanTurnAssumption DEF FoundTurn, Turns, Ticks
  <1>2. Types'
    BY <1>1 DEF Types
  <1>3. /\ \A u \in Sides : watcher'[u].after = watcher[u].after
        /\ \A u \in Sides : watcher'[u].pc = "found" => watcher'[u] = watcher[u]
        /\ FoundTurn(s).tick = watcher[s].tick /\ FoundTurn(s).side = s
    BY DEF Types, FoundTurn
  <1>4. Follows'
    BY <1>0, <1>3 DEF Follows
  <1>5. ~IsOpen'
    BY HumanTurnAssumption DEF IsOpen
  <1>6. Delivered' /\ PromptKeptUntilDecided'
    BY <1>5 DEF Delivered, PromptKeptUntilDecided, IsOpen
  <1> QED
    BY <1>2, <1>4, <1>6, WatcherOnly

-----------------------------------------------------------------------------
(* The client and the close. *)

\* A client that connects is told of the open prompts.
LEMMA ClientKeeps ==
  ASSUME IInv, Connect \/ Disconnect \/ Forget
  PROVE  IInv'
  <1> USE DEF IInv, Connect, Disconnect, Forget, inbox
  <1>1. Types'
    BY DEF Types
  <1>2. seen' \subseteq prompts \cup seen
    OBVIOUS
  <1>3. Follows'
    BY <1>2 DEF Follows
  <1>4. Delivered'
    BY <1>2 DEF Delivered, IsOpen
  <1>5. PromptKeptUntilDecided'
    BY DecisionsSame DEF PromptKeptUntilDecided
  <1> QED
    BY <1>1, <1>3, <1>4, <1>5, WatcherOnly

\* A client speaks of turns it was told of.
LEMMA SendKeeps ==
  ASSUME IInv, NEW r \in Requests, Send(r)
  PROVE  IInv'
  <1> USE DEF IInv, Send, inbox, server
  <1>1. Types' /\ Pace'
    BY DEF Types, Pace, InTurn
  <1>2. r.tick <= shown[r.side].tick
    BY DEF Follows, TurnOf
  <1>3. Follows'
    BY <1>2 DEF Follows
  <1>4. Records' /\ Decided' /\ PromptKeptUntilDecided'
    BY DecisionsSame DEF Records, Decided, PromptKeptUntilDecided
  <1>5. Answered'
    BY DecisionsSame DEF Answered, Settled, Down
  <1>6. Delivered'
    BY DEF Delivered, IsOpen, TurnOf
  <1> QED
    BY <1>1, <1>3, <1>4, <1>5, <1>6

\* A close shuts the inbox for good, and retiring the session closes it.
LEMMA CloseKeeps ==
  ASSUME IInv, CloseFromLoop \/ CloseFromWorker \/ CloseStep \/ Retire
  PROVE  IInv'
  <1> USE DEF IInv, CloseFromLoop, CloseFromWorker, CloseStep, Retire, CloseCoordinator, CloseInbox, inbox, server
  <1>1. ~IsOpen'
    BY HumanTurnAssumption DEF IsOpen
  <1>2. /\ asked' = asked /\ shown' = shown /\ accepted' = accepted /\ seen' = seen
        /\ sent' = sent /\ verdicts' = verdicts /\ played' = played
        /\ prompts' \subseteq prompts
        /\ pilot' = pilot \/ pilot' = [pilot EXCEPT !.woken = TRUE]
        /\ \/ watcher' = watcher
           \/ watcher' = [u \in Sides |-> [watcher[u] EXCEPT !.woken = TRUE]]
    OBVIOUS
  <1> HIDE DEF CloseFromLoop, CloseFromWorker, CloseStep, Retire, CloseCoordinator, CloseInbox
  <1>a. Types' /\ Pace'
    <2>1. /\ pilot'.pc = pilot.pc /\ pilot'.tick = pilot.tick /\ pilot'.side = pilot.side
          /\ pilot'.done = pilot.done
      BY <1>2 DEF Types
    <2>2. watcher' \in [Sides -> [pc : {"waiting", "found", "gone"}, after : 0 .. MaxTick,
                                  tick : 0 .. MaxTick, woken : BOOLEAN]]
      <3>1. ASSUME NEW w \in [pc : {"waiting", "found", "gone"}, after : 0 .. MaxTick,
                              tick : 0 .. MaxTick, woken : BOOLEAN]
            PROVE  [w EXCEPT !.woken = TRUE] \in
                     [pc : {"waiting", "found", "gone"}, after : 0 .. MaxTick,
                      tick : 0 .. MaxTick, woken : BOOLEAN]
        OBVIOUS
      <3> QED
        BY <1>2, <3>1 DEF Types
    <2>3. Types'
      BY <1>2, <2>2 DEF Types
    <2>4. Pace'
      BY <1>2, <2>1 DEF Pace, InTurn
    <2> QED
      BY <2>3, <2>4
  <1>3. \A u \in Sides : /\ watcher'[u].pc = watcher[u].pc
                         /\ watcher'[u].after = watcher[u].after
                         /\ watcher'[u].tick = watcher[u].tick
    BY <1>2 DEF Types
  <1>5. Follows'
    BY <1>2, <1>3 DEF Follows
  <1>6. Records' /\ Decided'
    BY <1>2, DecisionsSame DEF Types, Records, Decided
  <1>d. Down("inbox") => Down("inbox")'
    BY DEF Down, CloseFromLoop, CloseFromWorker, CloseStep, Retire, CloseCoordinator, CloseInbox
  <1>7. Answered'
    BY <1>2, <1>d, DecisionsSame DEF Answered, Settled
  <1>8. Delivered' /\ PromptKeptUntilDecided'
    BY <1>1 DEF Delivered, PromptKeptUntilDecided, IsOpen
  <1> QED
    BY <1>a, <1>5, <1>6, <1>7, <1>8

-----------------------------------------------------------------------------
(* A request arrives. *)

\* A new record adds one decision, of its own turn.
LEMMA AcceptAdds ==
  ASSUME IInv, NEW r \in Requests, SubmitAccepted(r)
  PROVE  \A t : DecisionsOf(t)' = IF t = TurnOf(r) THEN DecisionsOf(t) \cup {r} ELSE DecisionsOf(t)
  <1>1. r.id \in Commands /\ accepted[r.id] = None /\ r # None
    BY NoneAssumption DEF SubmitAccepted, Replays, Requests
  <1>2. accepted' = [accepted EXCEPT ![r.id] = r]
    BY DEF SubmitAccepted
  <1>3. Admitted' = Admitted \cup {r}
    BY <1>1, <1>2 DEF IInv, Types, Admitted
  <1> QED
    BY <1>3 DEF DecisionsOf, TurnOf

\* What the server answers is a verdict, whether it still keeps the session or not.
LEMMA VerdictTyped ==
  ASSUME NEW r \in Requests, NEW v \in {"accepted", "refused"}
  PROVE  [request |-> r, verdict |-> v, live |-> ~retired] \in Verdict
  <1> DEFINE l == ~retired
  <1>1. l \in BOOLEAN
    BY Zenon
  <1> HIDE DEF l
  <1>2. [request |-> r, verdict |-> v, live |-> l] \in Verdict
    BY <1>1 DEF Verdict
  <1> QED
    BY <1>2, Zenon DEF l

\* What is accepted was not refused before.
LEMMA SubmitAcceptedKeeps ==
  ASSUME IInv, NEW r \in Requests, SubmitAccepted(r)
  PROVE  IInv'
  <1> DEFINE new == [request |-> r, verdict |-> "accepted", live |-> ~retired]
  <1>0. /\ r.id \in Commands /\ r.side \in Sides /\ r.tick \in Ticks /\ r \in sent
        /\ accepted[r.id] = None /\ r # None
        /\ accepted' = [accepted EXCEPT ![r.id] = r]
        /\ prompts' = prompts \ {TurnOf(r)}
        /\ pilot' = [pilot EXCEPT !.woken = TRUE]
        /\ verdicts' = verdicts \cup {new}
        /\ ~Down("inbox") /\ asked[r.side].tick = r.tick
        /\ r.action \in asked[r.side].offer /\ DecisionsOf(TurnOf(r)) = {}
        /\ UNCHANGED <<asked, shown, down, closer, watcher, seen, sent, played>>
    BY NoneAssumption DEF SubmitAccepted, Receive, Replays, Answers, Requests
  <1>1. Types'
    <2>1. /\ accepted' \in [Commands -> Requests \cup {None}]
          /\ prompts' \subseteq Turns
          /\ verdicts' \subseteq Verdict
      BY <1>0, VerdictTyped DEF IInv, Types
    <2>2. pilot' \in [pc : {"idle", "asked", "shown", "waiting", "over", "raised"},
                      tick : Ticks, side : Sides \cup {None}, done : SUBSET Sides,
                      woken : BOOLEAN]
      BY <1>0 DEF IInv, Types
    <2> QED
      BY <1>0, <2>1, <2>2 DEF IInv, Types
  <1>2. Pace' /\ Follows'
    BY <1>0 DEF IInv, Types, Pace, Follows, InTurn
  <1>3. Records'
    <2>1. \A c \in Commands : accepted'[c] # None => accepted'[c].id = c /\ accepted'[c] \in sent'
      BY <1>0 DEF IInv, Types, Records
    <2>2. ASSUME NEW c \in Commands, accepted[c] # None
          PROVE  TurnOf(accepted[c]) # TurnOf(r)
      BY <2>2, <1>0, RecordIsDecision DEF IInv
    <2>3. \A c, d \in Commands :
            accepted'[c] # None /\ accepted'[d] # None
              /\ TurnOf(accepted'[c]) = TurnOf(accepted'[d]) => c = d
      BY <2>2, <1>0 DEF IInv, Types, Records
    <2>4. \A t \in Turns : played'[t] # None => \E q \in DecisionsOf(t)' : q.action = played'[t]
      BY <1>0, AcceptAdds DEF IInv, Records
    <2> QED
      BY <2>1, <2>3, <2>4 DEF Records, TurnOf
  <1>4. Decided'
    BY <1>0, AcceptAdds DEF IInv, Types, Decided
  <1>5. Answered'
    <2> SUFFICES ASSUME NEW v \in verdicts'
                 PROVE  /\ v.request \in sent
                        /\ v.verdict = "accepted" => accepted'[v.request.id] = v.request
                        /\ v.live /\ v.verdict = "refused" =>
                             accepted'[v.request.id] # v.request /\ Settled(v.request)'
      BY <1>0 DEF Answered
    <2>1. CASE v = new
      BY <2>1, <1>0 DEF IInv, Types
    <2>2. CASE v \in verdicts
      <3>1. v.request \in Requests /\ v.request.id \in Commands
        BY <2>2 DEF IInv, Types, Verdict, Requests
      <3>2. v.verdict = "accepted" => accepted'[v.request.id] = v.request
        BY <2>2, <3>1, <1>0, NoneAssumption DEF IInv, Types, Answered
      <3>3. ASSUME v.live, v.verdict = "refused"
            PROVE  accepted'[v.request.id] # v.request /\ Settled(v.request)'
        <4>1. accepted[v.request.id] # v.request /\ Settled(v.request)
          BY <2>2, <3>3 DEF IInv, Answered
        <4>2. ~Settled(r)
          BY <1>0, HumanTurnAssumption DEF IInv, Types, Prompt, Ticks, Settled
        <4>3. v.request # r
          BY <4>1, <4>2
        <4>4. accepted'[v.request.id] # v.request
          BY <4>1, <4>3, <3>1, <1>0 DEF IInv, Types
        <4>5. Settled(v.request)'
          BY <4>1, <3>1, <1>0, AcceptAdds DEF IInv, Types, Settled, Down
        <4> QED
          BY <4>4, <4>5
      <3> QED
        BY <2>2, <3>2, <3>3 DEF IInv, Answered
    <2> QED
      BY <2>1, <2>2, <1>0
  <1>6. Delivered'
    BY <1>0 DEF IInv, Delivered, IsOpen
  <1>7. PromptKeptUntilDecided'
    <2> SUFFICES ASSUME closer = None /\ down = {}, NEW s \in Sides,
                        NEW k \in 1 .. watcher[s].after
                 PROVE  [side |-> s, tick |-> k] \in prompts'
                          <=> DecisionsOf([side |-> s, tick |-> k])' = {}
      BY <1>0 DEF PromptKeptUntilDecided
    <2> QED
      BY <1>0, AcceptAdds DEF IInv, PromptKeptUntilDecided
  <1> QED
    BY <1>1, <1>2, <1>3, <1>4, <1>5, <1>6, <1>7 DEF IInv

\* A retry of what was accepted changes no record.
LEMMA SubmitReplayedKeeps ==
  ASSUME IInv, NEW r \in Requests, SubmitReplayed(r)
  PROVE  IInv'
  <1> DEFINE new == [request |-> r, verdict |-> "accepted", live |-> ~retired]
  <1>0. /\ r.id \in Commands /\ r \in sent /\ accepted[r.id] = r /\ r # None
        /\ prompts' = prompts \ {TurnOf(r)}
        /\ verdicts' = verdicts \cup {new}
        /\ UNCHANGED <<accepted, pilot, asked, shown, down, closer, watcher, seen, sent, played>>
    BY NoneAssumption DEF SubmitReplayed, Receive, Requests
  <1>1. Types'
    BY <1>0, VerdictTyped DEF IInv, Types
  <1>2. Pace' /\ Follows'
    BY <1>0 DEF IInv, Pace, Follows, InTurn
  <1>3. Records' /\ Decided'
    BY <1>0, DecisionsSame DEF IInv, Records, Decided
  <1>4. Answered'
    <2>1. \A q : Settled(q)' = Settled(q)
      BY <1>0, DecisionsSame DEF Settled, Down
    <2> QED
      BY <1>0, <2>1 DEF IInv, Answered
  <1>5. Delivered'
    BY <1>0 DEF IInv, Delivered, IsOpen
  <1>6. PromptKeptUntilDecided'
    <2>1. DecisionsOf(TurnOf(r)) # {}
      BY <1>0, RecordIsDecision DEF IInv
    <2> QED
      BY <1>0, <2>1, DecisionsSame DEF IInv, PromptKeptUntilDecided
  <1> QED
    BY <1>1, <1>2, <1>3, <1>4, <1>5, <1>6 DEF IInv

\* A request is refused for a reason that stays.
LEMMA SubmitRefusedKeeps ==
  ASSUME IInv, NEW r \in Requests, SubmitRefused(r)
  PROVE  IInv'
  <1> DEFINE new == [request |-> r, verdict |-> "refused", live |-> ~retired]
  <1>0. /\ r.id \in Commands /\ r.side \in Sides /\ r \in sent /\ r # None
        /\ retired \/ IF Replays(r) THEN accepted[r.id] # r ELSE ~Answers(r)
        /\ verdicts' = verdicts \cup {new}
        /\ UNCHANGED <<accepted, prompts, pilot, asked, shown, down, closer, watcher, seen, sent, played>>
    BY NoneAssumption DEF SubmitRefused, Receive, Requests
  <1>1. Types'
    BY <1>0, VerdictTyped DEF IInv, Types
  <1>2. Pace' /\ Follows'
    BY <1>0 DEF IInv, Pace, Follows, InTurn
  <1>3. Records' /\ Decided'
    BY <1>0, DecisionsSame DEF IInv, Records, Decided
  <1>4. Answered'
    <2>1. \A q : Settled(q)' = Settled(q)
      BY <1>0, DecisionsSame DEF Settled, Down
    <2>2. /\ r.tick \in Nat /\ asked[r.side].tick \in Nat
          /\ r.tick <= asked[r.side].tick
      BY <1>0, HumanTurnAssumption DEF IInv, Types, Prompt, Follows, Requests, Ticks
    <2>3. ~retired => accepted[r.id] # r /\ Settled(r)
      BY <1>0, <2>2 DEF Replays, Answers, Settled
    <2>4. ~new.live \/ ~retired
      OBVIOUS
    <2>5. \A v \in verdicts' : v \in verdicts \/ v = new
      BY <1>0
    <2>6. new.request = r /\ new.verdict = "refused"
      OBVIOUS
    <2> HIDE DEF new
    <2> QED
      BY <1>0, <2>1, <2>3, <2>4, <2>5, <2>6 DEF IInv, Answered
  <1>5. Delivered' /\ PromptKeptUntilDecided'
    BY <1>0, DecisionsSame DEF IInv, Delivered, IsOpen, PromptKeptUntilDecided
  <1> QED
    BY <1>1, <1>2, <1>3, <1>4, <1>5 DEF IInv

-----------------------------------------------------------------------------
(* The theorems. *)

\* The parts of IInv hold together in every state, for any number of seats,
\* requests and ticks.
THEOREM TurnInvariance == Spec => []IInv
  <1>1. Init => IInv
    BY Initially
  <1>2. IInv /\ [Next]_vars => IInv'
    <2> SUFFICES ASSUME IInv, [Next]_vars PROVE IInv'
      OBVIOUS
    <2>1. CASE PilotStep
      BY <2>1, AskKeeps, ShowKeeps, PilotMoves, PlayKeeps DEF PilotStep
    <2>2. ASSUME NEW s \in Sides, WatcherStep(s) PROVE IInv'
      BY <2>2, WatcherLooks, DeliverKeeps, DeliverFailsKeeps DEF WatcherStep
    <2>3. CASE Connect \/ Disconnect \/ Forget
      BY <2>3, ClientKeeps
    <2>4. ASSUME NEW r \in Requests, Send(r) \/ Submit(r) PROVE IInv'
      BY <2>4, SendKeeps, SubmitAcceptedKeeps, SubmitReplayedKeeps, SubmitRefusedKeeps DEF Submit
    <2>5. CASE CloseFromLoop \/ CloseFromWorker \/ CloseStep \/ Retire
      BY <2>5, CloseKeeps
    <2>6. CASE UNCHANGED vars
      <3>1. UNCHANGED <<pilot, inbox, shown, down, sent, verdicts, played>>
        BY <2>6 DEF vars, inbox
      <3>2. Types' /\ Follows'
        BY <2>6 DEF vars, IInv, Types, Follows
      <3>3. Delivered' /\ PromptKeptUntilDecided'
        BY <2>6, DecisionsSame DEF vars, IInv, Delivered, IsOpen, PromptKeptUntilDecided
      <3> QED
        BY <3>1, <3>2, <3>3, WatcherOnly DEF IInv
    <2> QED
      BY <2>1, <2>2, <2>3, <2>4, <2>5, <2>6 DEF Next
  <1> QED
    BY <1>1, <1>2, PTL DEF Spec

\* A client told that its action is accepted sees that action played, if the turn
\* is played at all, for any number of seats, clients' requests and ticks
\* (commands/inbox.py, submit and wait_for_decision).
THEOREM AcceptedIsPlayed == Spec => []PlayedAsAnswered
  <1>1. IInv => PlayedAsAnswered
    <2> SUFFICES ASSUME IInv, NEW v \in verdicts, v.verdict = "accepted",
                        played[TurnOf(v.request)] # None
                 PROVE  played[TurnOf(v.request)] = v.request.action
      BY DEF PlayedAsAnswered
    <2> DEFINE r == v.request
    <2>1. r \in Requests /\ r.id \in Commands /\ accepted[r.id] = r /\ r # None
      BY NoneAssumption DEF IInv, Types, Answered, Requests
    <2>2. PICK q \in DecisionsOf(TurnOf(r)) : q.action = played[TurnOf(r)]
      BY <2>1, DecisionsTyped DEF IInv, Records
    <2>3. PICK c \in Commands : accepted[c] = q /\ accepted[c] # None
      BY DecisionIsRecord DEF IInv
    <2>4. TurnOf(q) = TurnOf(r)
      BY DecisionsTyped DEF IInv
    <2>5. c = r.id
      BY <2>1, <2>3, <2>4 DEF IInv, Records
    <2> QED
      BY <2>1, <2>2, <2>3, <2>5
  <1> QED
    BY <1>1, TurnInvariance, PTL

\* Until the session is retired, a request is answered as accepted if and only if
\* it is in the inbox's records, then and ever after: the reason for which the
\* inbox refused it never goes away, and a record never does (commands/inbox.py).
THEOREM VerdictIsFinal == Spec => []OneVerdict
  <1>1. ASSUME IInv
        PROVE  OneVerdict
    <2> SUFFICES ASSUME NEW v \in verdicts, v.live
                 PROVE  v.verdict = "accepted" <=> v.request \in Admitted
      BY DEF OneVerdict
    <2>1. /\ v.request \in Requests /\ v.request.id \in Commands /\ v.request # None
          /\ v.verdict \in {"accepted", "refused"}
      BY <1>1, NoneAssumption DEF IInv, Types, Verdict, Requests
    <2>2. CASE v.verdict = "accepted"
      BY <1>1, <2>1, <2>2 DEF IInv, Answered, Admitted
    <2>3. CASE v.verdict = "refused"
      <3>1. accepted[v.request.id] # v.request
        BY <1>1, <2>3 DEF IInv, Answered
      <3>2. \A c \in Commands : accepted[c] # None => accepted[c].id = c
        BY <1>1 DEF IInv, Records
      <3> QED
        BY <2>1, <2>3, <3>1, <3>2 DEF Admitted
    <2> QED
      BY <2>1, <2>2, <2>3
  <1> QED
    BY <1>1, TurnInvariance, PTL

\* While the session is open the server keeps exactly the undecided prompts of
\* the turns its watchers have gone past (cli/play.py, _watch_prompts).
THEOREM PromptsKept == Spec => []PromptKeptUntilDecided
  <1>1. IInv => PromptKeptUntilDecided
    BY DEF IInv
  <1> QED
    BY <1>1, TurnInvariance, PTL

-----------------------------------------------------------------------------
(* Card rounds.                                                             *)

(* Numbers.  The library's rule of induction takes a predicate; a least     *)
(* element takes a set, and serves as well.                                *)

LEMMA LeastNumber ==
    ASSUME NEW T \in SUBSET Nat, T # {}
    PROVE  \E x \in T : \A y \in T : x <= y
<1> DEFINE R == OpToRel(<, Nat)
<1>1. IsWellFoundedOn(R, Nat)
  BY NatLessThanWellFounded
<1>2. \A x, y \in Nat : y < x => <<y, x>> \in R
  BY DEF OpToRel
<1> HIDE DEF R
<1>3. \E x \in T : \A y \in T : <<y, x>> \notin R
  BY <1>1, WFMin, Zenon
<1>4. PICK x \in T : \A y \in T : <<y, x>> \notin R
  BY <1>3
<1>5. \A y \in T : ~ (y < x)
  BY <1>4, <1>2
<1> QED  BY <1>4, <1>5

LEMMA InductionUpTo ==
    ASSUME NEW n \in Nat, NEW T, 0 \in T, \A i \in 0 .. n - 1 : i \in T => i + 1 \in T
    PROVE  \A i \in 0 .. n : i \in T
<1> DEFINE Rest == {i \in 0 .. n : i \notin T}
<1> SUFFICES ASSUME Rest # {} PROVE FALSE
  OBVIOUS
<1>0. Rest \in SUBSET Nat
  OBVIOUS
<1>1. PICK x \in Rest : \A y \in Rest : x <= y
  <2> HIDE DEF Rest
  <2> QED  BY <1>0, LeastNumber
<1>2. x # 0 /\ x - 1 \in 0 .. n - 1 /\ x - 1 \notin Rest
  BY <1>1
<1>3. (x - 1) + 1 \in T
  BY <1>2
<1> QED  BY <1>2, <1>3

LEMMA Rows ==
    ASSUME NEW n \in Nat \ {0}, NEW i \in Nat
    PROVE  /\ i \div n \in Nat /\ i % n \in 0 .. n - 1
           /\ i = n * (i \div n) + (i % n)
OBVIOUS

LEMMA RowIs ==
    ASSUME NEW n \in Nat \ {0}, NEW r \in Nat, NEW j \in 0 .. n - 1
    PROVE  /\ (n * r + j) \div n = r /\ (n * r + j) % n = j
OBVIOUS

-----------------------------------------------------------------------------
(* Sequences in order.                                                     *)

Orders(R, S) ==
    /\ \A x \in S : <<x, x>> \notin R
    /\ \A x, y \in S : x # y => <<x, y>> \in R \/ <<y, x>> \in R
    /\ \A x, y, z \in S : <<x, y>> \in R /\ <<y, z>> \in R => <<x, z>> \in R

Below(x, S, R) == {y \in S : <<y, x>> \in R}

LEMMA RankGrows ==
    ASSUME NEW S, IsFiniteSet(S), NEW R, Orders(R, S), NEW x \in S, NEW y \in S,
           <<x, y>> \in R
    PROVE  Cardinality(Below(x, S, R)) < Cardinality(Below(y, S, R))
<1>1. IsFiniteSet(Below(y, S, R))
  BY FS_Subset DEF Below
<1>2. Below(x, S, R) \in SUBSET Below(y, S, R)
  BY DEF Below, Orders
<1>3. Below(x, S, R) # Below(y, S, R)
  BY DEF Below, Orders
<1>4. IsFiniteSet(Below(x, S, R))
  BY <1>1, <1>2, FS_Subset
<1>5. /\ Cardinality(Below(x, S, R)) <= Cardinality(Below(y, S, R))
      /\ Cardinality(Below(x, S, R)) # Cardinality(Below(y, S, R))
  BY <1>1, <1>2, <1>3, FS_Subset
<1> QED  BY <1>1, <1>4, <1>5, FS_CardinalityType

LEMMA Ranks ==
    ASSUME NEW S, IsFiniteSet(S), NEW R, Orders(R, S)
    PROVE  /\ \A x \in S : Cardinality(Below(x, S, R)) \in 0 .. Cardinality(S) - 1
           /\ \A x, y \in S : Cardinality(Below(x, S, R)) = Cardinality(Below(y, S, R)) => x = y
           /\ \A i \in 0 .. Cardinality(S) - 1 : \E x \in S : Cardinality(Below(x, S, R)) = i
<1> DEFINE n == Cardinality(S)
           rank == [x \in S |-> Cardinality(Below(x, S, R))]
<1>1. n \in Nat
  BY FS_CardinalityType
<1>2. ASSUME NEW x \in S
      PROVE  rank[x] \in 0 .. n - 1
  <2>1. Below(x, S, R) \in SUBSET (S \ {x})
    BY DEF Below, Orders
  <2>2. IsFiniteSet(S \ {x}) /\ Cardinality(S \ {x}) = n - 1
    BY FS_RemoveElement
  <2>3. IsFiniteSet(Below(x, S, R)) /\ Cardinality(Below(x, S, R)) <= n - 1
    BY <2>1, <2>2, FS_Subset
  <2> QED  BY <2>3, <1>1, FS_CardinalityType
<1>3. ASSUME NEW x \in S, NEW y \in S, rank[x] = rank[y]
      PROVE  x = y
  <2>1. Cardinality(Below(x, S, R)) \in Nat /\ Cardinality(Below(y, S, R)) \in Nat
    BY <1>2, <1>1
  <2>2. <<x, y>> \notin R /\ <<y, x>> \notin R
    BY <2>1, <1>3, RankGrows
  <2> QED  BY <2>2 DEF Orders
<1>4. rank \in Injection(S, 0 .. n - 1)
  <2>1. rank \in [S -> 0 .. n - 1]
    BY <1>2
  <2> HIDE DEF rank
  <2> QED  BY <2>1, <1>3 DEF Injection, IsInjective
<1>5. IsFiniteSet(0 .. n - 1) /\ Cardinality(0 .. n - 1) = n
  BY <1>1, FS_Interval
<1>6. rank \in Surjection(S, 0 .. n - 1)
  <2> HIDE DEF rank, n
  <2> QED  BY <1>4, <1>5, FS_Injection DEF n
<1>7. \A i \in 0 .. n - 1 : \E x \in S : rank[x] = i
  <2> HIDE DEF rank, n
  <2> QED  BY <1>6 DEF Surjection
<1> QED  BY <1>2, <1>3, <1>7

(* Sorted lists each element once, those before others first.              *)
LEMMA SortedLists ==
    ASSUME NEW S, IsFiniteSet(S), NEW R, Orders(R, S)
    PROVE  LET list == Sorted(S, R)
           IN  /\ Cardinality(S) \in Nat /\ list \in [1 .. Cardinality(S) -> S]
               /\ \A x \in S : \E i \in 1 .. Cardinality(S) : list[i] = x
               /\ \A i, j \in 1 .. Cardinality(S) : list[i] = list[j] => i = j
               /\ \A i, j \in 1 .. Cardinality(S) : i < j => <<list[i], list[j]>> \in R
<1> DEFINE n == Cardinality(S)
           list == Sorted(S, R)
           rank(x) == Cardinality(Below(x, S, R))
<1>1. n \in Nat
  BY FS_CardinalityType
<1>2. /\ \A x \in S : rank(x) \in 0 .. n - 1
      /\ \A x, y \in S : rank(x) = rank(y) => x = y
      /\ \A i \in 0 .. n - 1 : \E x \in S : rank(x) = i
  BY Ranks
<1>3. list = [i \in 1 .. n |-> CHOOSE x \in S : rank(x) = i - 1]
  BY DEF Sorted, Below
<1>4. ASSUME NEW i \in 1 .. n
      PROVE  list[i] \in S /\ rank(list[i]) = i - 1
  <2>1. \E x \in S : rank(x) = i - 1
    BY <1>1, <1>2
  <2>2. list[i] = CHOOSE x \in S : rank(x) = i - 1
    BY <1>3
  <2> HIDE DEF rank, list
  <2> QED  BY <2>1, <2>2
<1>5. list \in [1 .. n -> S]
  BY <1>3, <1>4
<1>6. \A x \in S : \E i \in 1 .. n : list[i] = x
  <2> SUFFICES ASSUME NEW x \in S PROVE \E i \in 1 .. n : list[i] = x
    OBVIOUS
  <2>1. rank(x) + 1 \in 1 .. n /\ (rank(x) + 1) - 1 = rank(x)
    BY <1>1, <1>2
  <2>2. rank(list[rank(x) + 1]) = rank(x) /\ list[rank(x) + 1] \in S
    BY <2>1, <1>4
  <2> QED  BY <2>1, <2>2, <1>2
<1>7. \A i, j \in 1 .. n : list[i] = list[j] => i = j
  <2> SUFFICES ASSUME NEW i \in 1 .. n, NEW j \in 1 .. n, list[i] = list[j] PROVE i = j
    OBVIOUS
  <2>1. rank(list[i]) = i - 1 /\ rank(list[j]) = j - 1
    BY <1>4
  <2> HIDE DEF rank, list
  <2> QED  BY <2>1, <1>1
<1>8. \A i, j \in 1 .. n : i < j => <<list[i], list[j]>> \in R
  <2> SUFFICES ASSUME NEW i \in 1 .. n, NEW j \in 1 .. n, i < j
               PROVE  <<list[i], list[j]>> \in R
    OBVIOUS
  <2>1. list[i] \in S /\ list[j] \in S /\ rank(list[i]) = i - 1 /\ rank(list[j]) = j - 1
    BY <1>4
  <2>2. list[i] # list[j]
    BY <1>7
  <2>3. CASE <<list[j], list[i]>> \in R
    <3>1. rank(list[j]) < rank(list[i])
      BY <2>1, <2>3, RankGrows
    <3> HIDE DEF rank, list
    <3> QED  BY <3>1, <2>1, <1>1
  <2> QED  BY <2>1, <2>2, <2>3 DEF Orders
<1> QED  BY <1>1, <1>5, <1>6, <1>7, <1>8

(* What is before everything else, of a set that is ordered.               *)
LEMMA FirstExists ==
    ASSUME NEW S, IsFiniteSet(S), S # {}, NEW R, Orders(R, S)
    PROVE  \E x \in S : \A y \in S : y = x \/ <<x, y>> \in R
<1> DEFINE list == Sorted(S, R)
<1>1. /\ Cardinality(S) \in Nat /\ list \in [1 .. Cardinality(S) -> S]
      /\ \A x \in S : \E i \in 1 .. Cardinality(S) : list[i] = x
      /\ \A i, j \in 1 .. Cardinality(S) : i < j => <<list[i], list[j]>> \in R
  BY SortedLists
<1> HIDE DEF list
<1>2. 1 \in 1 .. Cardinality(S)
  BY <1>1
<1>3. \A y \in S : y = list[1] \/ <<list[1], y>> \in R
  BY <1>1, <1>2
<1> QED  BY <1>1, <1>2, <1>3

(* An order by three numbers, the greatest first, that tell apart any two.  *)
LEMMA LexicographicOrder ==
    ASSUME NEW S, NEW R, NEW f \in [S -> Int], NEW g \in [S -> Int], NEW h \in [S -> Int],
           \A x, y \in S : <<x, y>> \in R <=> \/ f[x] > f[y]
                                              \/ f[x] = f[y] /\ g[x] > g[y]
                                              \/ f[x] = f[y] /\ g[x] = g[y] /\ h[x] > h[y],
           \A x, y \in S : f[x] = f[y] /\ g[x] = g[y] /\ h[x] = h[y] => x = y
    PROVE  Orders(R, S)
<1>0. \A x \in S : f[x] \in Int /\ g[x] \in Int /\ h[x] \in Int
  OBVIOUS
<1>1. \A x \in S : <<x, x>> \notin R
  BY <1>0
<1>2. \A x, y \in S : x # y => <<x, y>> \in R \/ <<y, x>> \in R
  <2> SUFFICES ASSUME NEW x \in S, NEW y \in S, x # y
               PROVE  <<x, y>> \in R \/ <<y, x>> \in R
    OBVIOUS
  <2>1. /\ f[x] \in Int /\ g[x] \in Int /\ h[x] \in Int
        /\ f[y] \in Int /\ g[y] \in Int /\ h[y] \in Int
    BY <1>0
  <2>2. ~ (f[x] = f[y] /\ g[x] = g[y] /\ h[x] = h[y])
    OBVIOUS
  <2>3. \/ \/ f[x] > f[y]
           \/ f[x] = f[y] /\ g[x] > g[y]
           \/ f[x] = f[y] /\ g[x] = g[y] /\ h[x] > h[y]
        \/ \/ f[y] > f[x]
           \/ f[y] = f[x] /\ g[y] > g[x]
           \/ f[y] = f[x] /\ g[y] = g[x] /\ h[y] > h[x]
    BY <2>1, <2>2
  <2> QED  BY <2>3
<1>3. \A x, y, z \in S : <<x, y>> \in R /\ <<y, z>> \in R => <<x, z>> \in R
  <2> SUFFICES ASSUME NEW x \in S, NEW y \in S, NEW z \in S,
                      <<x, y>> \in R, <<y, z>> \in R
               PROVE  <<x, z>> \in R
    OBVIOUS
  <2>1. /\ f[x] \in Int /\ g[x] \in Int /\ h[x] \in Int
        /\ f[y] \in Int /\ g[y] \in Int /\ h[y] \in Int
        /\ f[z] \in Int /\ g[z] \in Int /\ h[z] \in Int
    BY <1>0
  <2>2. \/ f[x] > f[y]
        \/ f[x] = f[y] /\ g[x] > g[y]
        \/ f[x] = f[y] /\ g[x] = g[y] /\ h[x] > h[y]
    OBVIOUS
  <2>3. \/ f[y] > f[z]
        \/ f[y] = f[z] /\ g[y] > g[z]
        \/ f[y] = f[z] /\ g[y] = g[z] /\ h[y] > h[z]
    OBVIOUS
  <2>4. \/ f[x] > f[z]
        \/ f[x] = f[z] /\ g[x] > g[z]
        \/ f[x] = f[z] /\ g[x] = g[z] /\ h[x] > h[z]
    BY <2>1, <2>2, <2>3
  <2> QED  BY <2>4
<1> QED  BY <1>1, <1>2, <1>3 DEF Orders

ByNumbers(R, S, f, g, h) ==
    \A x, y \in S : <<x, y>> \in R <=> \/ f[x] > f[y]
                                       \/ f[x] = f[y] /\ g[x] > g[y]
                                       \/ f[x] = f[y] /\ g[x] = g[y] /\ h[x] > h[y]

ToldApart(S, f, g, h) ==
    \A x, y \in S : f[x] = f[y] /\ g[x] = g[y] /\ h[x] = h[y] => x = y

LEMMA OrderByNumbers ==
    ASSUME NEW S, NEW R, NEW f \in [S -> Int], NEW g \in [S -> Int], NEW h \in [S -> Int],
           ByNumbers(R, S, f, g, h), ToldApart(S, f, g, h)
    PROVE  Orders(R, S)
BY LexicographicOrder DEF ByNumbers, ToldApart

LEMMA NaturalsOrder ==
    ASSUME NEW S, S \subseteq Nat
    PROVE  Orders({e \in S \X S : e[1] < e[2]}, S)
<1> DEFINE R == {e \in S \X S : e[1] < e[2]}
<1>1. \A x, y \in S : <<x, y>> \in R <=> x < y
  OBVIOUS
<1> HIDE DEF R
<1>2. \A x \in S : x \in Nat
  OBVIOUS
<1>3. Orders(R, S)
  BY <1>1, <1>2 DEF Orders
<1> QED  BY <1>3 DEF R

Distinct(f, n) == \A i, j \in 1 .. n : f[i] = f[j] => i = j

LEMMA InOrderLists ==
    ASSUME NEW S \in SUBSET Nat, IsFiniteSet(S)
    PROVE  /\ Cardinality(S) \in Nat /\ InOrder(S) \in [1 .. Cardinality(S) -> S]
           /\ \A x \in S : \E i \in 1 .. Cardinality(S) : InOrder(S)[i] = x
           /\ Distinct(InOrder(S), Cardinality(S))
<1> DEFINE R == {e \in S \X S : e[1] < e[2]}
<1>1. Orders(R, S)
  BY NaturalsOrder
<1>2. InOrder(S) = Sorted(S, R)
  BY DEF InOrder
<1> HIDE DEF R
<1>3. LET list == Sorted(S, R)
      IN  /\ Cardinality(S) \in Nat /\ list \in [1 .. Cardinality(S) -> S]
          /\ \A x \in S : \E i \in 1 .. Cardinality(S) : list[i] = x
          /\ \A i, j \in 1 .. Cardinality(S) : list[i] = list[j] => i = j
  BY <1>1, SortedLists
<1> QED  BY <1>2, <1>3 DEF Distinct

KindsSorted(S) == {e \in S \X S :
    \/ Catalog[e[1]].priority > Catalog[e[2]].priority
    \/ Catalog[e[1]].priority = Catalog[e[2]].priority /\ e[1] < e[2]}

LEMMA KindsAre ==
    /\ Kinds \in SUBSET (Nat \ {0}) /\ IsFiniteSet(Kinds) /\ NoCard \notin Kinds
    /\ \A k \in Kinds : Catalog[k].priority \in Nat
<1>1. Catalog \in Seq([category : STRING, priority : Nat, effect : STRING])
  BY CardAssumption
<1>2. Kinds = 1 .. Len(Catalog) /\ Len(Catalog) \in Nat
  BY <1>1 DEF Kinds
<1>3. IsFiniteSet(Kinds)
  BY <1>2, FS_Interval
<1>4. \A k \in Kinds : Catalog[k].priority \in Nat
  <2> DEFINE Printed == [category : STRING, priority : Nat, effect : STRING]
  <2>1. \A c \in Printed : c.priority \in Nat
    OBVIOUS
  <2> HIDE DEF Printed
  <2>2. Catalog \in Seq(Printed)
    BY <1>1 DEF Printed
  <2>3. \A k \in 1 .. Len(Catalog) : Catalog[k] \in Printed
    BY <2>2
  <2> QED  BY <2>1, <2>3, <1>2
<1> QED  BY <1>2, <1>3, <1>4 DEF NoCard

LEMMA ByValueLists ==
    ASSUME NEW S \in SUBSET Kinds
    PROVE  /\ Cardinality(S) \in Nat /\ ByValue(S) \in [1 .. Cardinality(S) -> S]
           /\ \A x \in S : \E i \in 1 .. Cardinality(S) : ByValue(S)[i] = x
           /\ Distinct(ByValue(S), Cardinality(S))
<1> DEFINE R == KindsSorted(S)
           f == [x \in S |-> Catalog[x].priority]
           g == [x \in S |-> 0 - x]
<1>1. IsFiniteSet(S) /\ S \in SUBSET Nat
  BY KindsAre, FS_Subset
<1>2. ByValue(S) = Sorted(S, R)
  BY DEF ByValue, KindsSorted
<1>3. f \in [S -> Int] /\ g \in [S -> Int]
  BY <1>1, KindsAre
<1>4. \A x, y \in S : <<x, y>> \in R <=> \/ Catalog[x].priority > Catalog[y].priority
                                         \/ Catalog[x].priority = Catalog[y].priority /\ x < y
  <2> SUFFICES ASSUME NEW x \in S, NEW y \in S
               PROVE  <<x, y>> \in R <=> \/ Catalog[x].priority > Catalog[y].priority
                                         \/ Catalog[x].priority = Catalog[y].priority /\ x < y
    OBVIOUS
  <2> DEFINE e == <<x, y>>
  <2>1. e \in S \X S /\ e[1] = x /\ e[2] = y
    OBVIOUS
  <2> HIDE DEF e
  <2>2. e \in R <=> \/ Catalog[x].priority > Catalog[y].priority
                    \/ Catalog[x].priority = Catalog[y].priority /\ x < y
    BY <2>1, Zenon DEF KindsSorted
  <2> QED  BY <2>2 DEF e
<1>5. \A x, y \in S : /\ x < y <=> g[x] > g[y]
                      /\ g[x] = g[y] => x = y
                      /\ f[x] = Catalog[x].priority
                      /\ g[x] \in Int
  BY <1>1
<1>6. Orders(R, S)
  <2> HIDE DEF R, f, g
  <2>1. ASSUME NEW x \in S, NEW y \in S
        PROVE  <<x, y>> \in R <=> \/ f[x] > f[y]
                                  \/ f[x] = f[y] /\ g[x] > g[y]
                                  \/ f[x] = f[y] /\ g[x] = g[y] /\ g[x] > g[y]
    <3>1. <<x, y>> \in R <=> \/ Catalog[x].priority > Catalog[y].priority
                             \/ Catalog[x].priority = Catalog[y].priority /\ x < y
      BY <1>4
    <3>2. /\ x < y <=> g[x] > g[y]
          /\ f[x] = Catalog[x].priority /\ f[y] = Catalog[y].priority
          /\ g[x] \in Int /\ g[y] \in Int
          /\ g[x] = g[y] => ~ (g[x] > g[y])
      BY <1>5
    <3> QED  BY <3>1, <3>2, Zenon
  <2>2. \A x, y \in S : f[x] = f[y] /\ g[x] = g[y] /\ g[x] = g[y] => x = y
    BY <1>5
  <2> QED  BY <2>1, <2>2, <1>3, LexicographicOrder
<1> HIDE DEF R
<1>7. LET list == Sorted(S, R)
      IN  /\ Cardinality(S) \in Nat /\ list \in [1 .. Cardinality(S) -> S]
          /\ \A x \in S : \E i \in 1 .. Cardinality(S) : list[i] = x
          /\ \A i, j \in 1 .. Cardinality(S) : list[i] = list[j] => i = j
  BY <1>1, <1>6, SortedLists
<1> QED  BY <1>2, <1>7 DEF Distinct

-----------------------------------------------------------------------------
(* Plans: what fits a hand, and how replacing cards changes what is used.   *)

LEMMA Sequence ==
    ASSUME NEW n \in Nat, NEW S, NEW f \in [1 .. n -> S]
    PROVE  f \in Seq(S) /\ Len(f) = n /\ DOMAIN f = 1 .. n
OBVIOUS

Places(f, D, k) == {i \in D : f[i] = k}

LEMMA CountedIs ==
    ASSUME NEW D, IsFiniteSet(D), NEW plan \in [D -> Kinds]
    PROVE  /\ Counted(plan) \in Bags
           /\ \A k \in Kinds : Counted(plan)[k] = Cardinality(Places(plan, D, k))
           /\ \A k \in Kinds : Counted(plan)[k] = 0 <=> \A r \in D : plan[r] # k
<1>1. \A k \in Kinds : /\ IsFiniteSet(Places(plan, D, k))
                       /\ Cardinality(Places(plan, D, k)) \in Nat
  <2> SUFFICES ASSUME NEW k \in Kinds
               PROVE  /\ IsFiniteSet(Places(plan, D, k))
                      /\ Cardinality(Places(plan, D, k)) \in Nat
    OBVIOUS
  <2>1. Places(plan, D, k) \in SUBSET D
    BY DEF Places
  <2> QED  BY <2>1, FS_Subset, FS_CardinalityType
<1>2. DOMAIN plan = D
  OBVIOUS
<1>3. Counted(plan) = [k \in Kinds |-> Cardinality(Places(plan, D, k))]
  BY <1>2 DEF Counted, Places
<1>4. ASSUME NEW k \in Kinds
      PROVE  Cardinality(Places(plan, D, k)) = 0 <=> \A r \in D : plan[r] # k
  <2>1. Cardinality(Places(plan, D, k)) = 0 <=> Places(plan, D, k) = {}
    BY <1>1, FS_EmptySet
  <2> QED  BY <2>1 DEF Places
<1>5. Counted(plan) \in Bags
  BY <1>1, <1>3 DEF Bags
<1>6. \A k \in Kinds : Counted(plan)[k] = Cardinality(Places(plan, D, k))
  BY <1>3
<1> QED  BY <1>4, <1>5, <1>6

(* One card put into one register.                                          *)
LEMMA PutOne ==
    ASSUME NEW D, IsFiniteSet(D), NEW plan \in [D -> Kinds], NEW at \in D, NEW card \in Kinds
    PROVE  LET new == [plan EXCEPT ![at] = card]
           IN  /\ new \in [D -> Kinds]
               /\ \A k \in Kinds \ {card} : Counted(new)[k] <= Counted(plan)[k]
               /\ Counted(new)[card] <= Counted(plan)[card] + 1
<1> DEFINE new == [plan EXCEPT ![at] = card]
           Of(p, k) == Places(p, D, k)
<1>1. new \in [D -> Kinds]
  OBVIOUS
<1>2. \A k \in Kinds : /\ Counted(new)[k] = Cardinality(Of(new, k))
                       /\ Counted(plan)[k] = Cardinality(Of(plan, k))
  <2>1. \A k \in Kinds : Counted(plan)[k] = Cardinality(Of(plan, k))
    BY CountedIs
  <2> HIDE DEF new
  <2> QED  BY <1>1, <2>1, CountedIs
<1>3. \A k \in Kinds : IsFiniteSet(Of(plan, k))
  <2>1. \A k \in Kinds : Of(plan, k) \in SUBSET D
    BY DEF Places
  <2> QED  BY <2>1, FS_Subset
<1>4. \A k \in Kinds \ {card} : Of(new, k) \in SUBSET Of(plan, k)
  BY DEF Places
<1>5. \A k \in Kinds \ {card} : Counted(new)[k] <= Counted(plan)[k]
  <2> HIDE DEF new, Of
  <2> QED  BY <1>2, <1>3, <1>4, FS_Subset
<1>6. Of(new, card) \in SUBSET (Of(plan, card) \union {at})
  BY DEF Places
<1>7. Counted(new)[card] <= Counted(plan)[card] + 1
  <2>1. /\ IsFiniteSet(Of(plan, card) \union {at})
        /\ Cardinality(Of(plan, card) \union {at}) \in Nat
        /\ Cardinality(Of(plan, card) \union {at}) <= Cardinality(Of(plan, card)) + 1
    <3>1. IsFiniteSet(Of(plan, card)) /\ Cardinality(Of(plan, card)) \in Nat
      BY <1>3, FS_CardinalityType
    <3> HIDE DEF Of
    <3>2. /\ IsFiniteSet(Of(plan, card) \union {at})
          /\ \/ Cardinality(Of(plan, card) \union {at}) = Cardinality(Of(plan, card))
             \/ Cardinality(Of(plan, card) \union {at}) = Cardinality(Of(plan, card)) + 1
      BY <3>1, FS_AddElement
    <3> QED  BY <3>1, <3>2
  <2>2. /\ Cardinality(Of(new, card)) <= Cardinality(Of(plan, card) \union {at})
        /\ Cardinality(Of(new, card)) \in Nat
    <3> HIDE DEF new, Of
    <3> QED  BY <2>1, <1>6, FS_Subset, FS_CardinalityType
  <2>3. Cardinality(Of(plan, card)) \in Nat
    BY <1>3, FS_CardinalityType
  <2> HIDE DEF new, Of
  <2> QED  BY <1>2, <2>1, <2>2, <2>3
<1> QED  BY <1>1, <1>5, <1>7

(* Cards put into registers, one each: at most that many more of each card. *)
LEMMA PutMany ==
    ASSUME NEW D, IsFiniteSet(D), NEW plan \in [D -> Kinds],
           NEW m \in Nat, NEW regs \in [1 .. m -> D],
           Distinct(regs, m),
           NEW n \in Nat, NEW cards \in [1 .. n -> Kinds]
    PROVE  /\ Replace(plan, regs, cards) \in [D -> Kinds]
           /\ \A k \in Kinds : Cardinality(Places(cards, 1 .. n, k)) \in Nat
           /\ \A k \in Kinds : Counted(Replace(plan, regs, cards))[k]
                  <= Counted(plan)[k] + Cardinality(Places(cards, 1 .. n, k))
<1> DEFINE new == Replace(plan, regs, cards)
           l == Low(m, n)
           Of(p, k) == Places(p, D, k)
           From(k) == Places(cards, 1 .. n, k)
<1>1. Len(regs) = m /\ DOMAIN regs = 1 .. m /\ Len(cards) = n
  BY Sequence
<1>2. l \in Nat /\ l <= m /\ l <= n
  BY DEF Low
<1>3. new = [r \in D |-> IF \E i \in 1 .. l : regs[i] = r
                         THEN cards[CHOOSE i \in 1 .. m : regs[i] = r] ELSE plan[r]]
  BY <1>1 DEF Replace
<1>4. ASSUME NEW i \in 1 .. l
      PROVE  i \in 1 .. m /\ i \in 1 .. n /\ regs[i] \in D /\ new[regs[i]] = cards[i]
  <2>1. i \in 1 .. m /\ i \in 1 .. n
    BY <1>2
  <2>2. (CHOOSE j \in 1 .. m : regs[j] = regs[i]) = i
    BY <2>1 DEF Distinct
  <2>3. regs[i] \in D
    BY <2>1
  <2> QED  BY <1>3, <2>1, <2>2, <2>3
<1>5. \A r \in D : (~ \E i \in 1 .. l : regs[i] = r) => new[r] = plan[r]
  BY <1>3
<1> HIDE DEF new, l
<1>6. DOMAIN new = D
  BY <1>3
<1>7. \A r \in D : new[r] \in Kinds
  <2> SUFFICES ASSUME NEW r \in D PROVE new[r] \in Kinds
    OBVIOUS
  <2>1. CASE \E i \in 1 .. l : regs[i] = r
    BY <2>1, <1>4
  <2>2. CASE ~ \E i \in 1 .. l : regs[i] = r
    BY <2>2, <1>5
  <2> QED  BY <2>1, <2>2
<1>8. new \in [D -> Kinds]
  BY <1>3, <1>7
<1>9. ASSUME NEW k \in Kinds
      PROVE  /\ Cardinality(From(k)) \in Nat
             /\ Counted(new)[k] <= Counted(plan)[k] + Cardinality(From(k))
  <2> DEFINE Cover == Of(plan, k) \union {regs[i] : i \in From(k) \cap (1 .. l)}
  <2>1. Of(new, k) \in SUBSET Cover
    BY <1>4, <1>5 DEF Places
  <2>2. IsFiniteSet(From(k)) /\ IsFiniteSet(From(k) \cap (1 .. l))
    <3>1. IsFiniteSet(1 .. n) /\ From(k) \in SUBSET (1 .. n)
             /\ From(k) \cap (1 .. l) \in SUBSET (1 .. n)
      BY FS_Interval DEF Places
    <3> QED  BY <3>1, FS_Subset
  <2>3. /\ Cardinality(From(k)) \in Nat
        /\ Cardinality(From(k) \cap (1 .. l)) \in Nat
        /\ Cardinality(From(k) \cap (1 .. l)) <= Cardinality(From(k))
    <3>1. From(k) \cap (1 .. l) \in SUBSET From(k)
      OBVIOUS
    <3> HIDE DEF From
    <3> QED  BY <3>1, <2>2, FS_Subset, FS_CardinalityType
  <2> DEFINE Put == {regs[i] : i \in From(k) \cap (1 .. l)}
             chosen == [i \in From(k) \cap (1 .. l) |-> regs[i]]
  <2>4. /\ IsFiniteSet(Put) /\ Cardinality(Put) \in Nat
        /\ Cardinality(Put) <= Cardinality(From(k) \cap (1 .. l))
    <3>1. chosen \in Surjection(From(k) \cap (1 .. l), Put)
      BY DEF Surjection
    <3> HIDE DEF chosen, Put, From
    <3> QED  BY <3>1, <2>2, FS_Surjection, FS_CardinalityType
  <2>5. IsFiniteSet(Of(plan, k)) /\ Cardinality(Of(plan, k)) \in Nat
    <3>1. Of(plan, k) \in SUBSET D
      BY DEF Places
    <3> QED  BY <3>1, FS_Subset, FS_CardinalityType
  <2> HIDE DEF Put, From, Of
  <2>6. /\ IsFiniteSet(Cover) /\ Cardinality(Cover) \in Nat
        /\ Cardinality(Cover) <= Cardinality(Of(plan, k)) + Cardinality(Put)
    <3>1. Cardinality(Of(plan, k) \cap Put) \in Nat
      BY <2>5, FS_Intersection, FS_CardinalityType
    <3>2. Cover = Of(plan, k) \union Put
      BY DEF Put
    <3>3. /\ IsFiniteSet(Cover)
          /\ Cardinality(Cover) = Cardinality(Of(plan, k)) + Cardinality(Put)
                                    - Cardinality(Of(plan, k) \cap Put)
      <4> HIDE DEF Cover
      <4> QED  BY <3>2, <2>4, <2>5, FS_Union
    <3>4. Cardinality(Cover) \in Nat
      BY <3>3, FS_CardinalityType
    <3> HIDE DEF Cover
    <3> QED  BY <3>1, <3>3, <3>4, <2>4, <2>5
  <2>7. Cardinality(Of(new, k)) <= Cardinality(Cover) /\ Cardinality(Of(new, k)) \in Nat
    <3> HIDE DEF Cover
    <3> QED  BY <2>1, <2>6, FS_Subset, FS_CardinalityType
  <2>8. Counted(new)[k] = Cardinality(Of(new, k)) /\ Counted(plan)[k] = Cardinality(Of(plan, k))
    BY <1>8, CountedIs DEF Of
  <2> QED  BY <2>3, <2>4, <2>5, <2>6, <2>7, <2>8
<1> QED  BY <1>8, <1>9 DEF new

LEMMA PutFirst ==
    ASSUME NEW D, NEW plan \in [D -> Kinds], NEW at \in D,
           NEW n \in Nat \ {0}, NEW cards \in [1 .. n -> Kinds]
    PROVE  Replace(plan, <<at>>, cards)[at] = cards[1]
<1> DEFINE regs == <<at>>
<1>1. Len(regs) = 1 /\ DOMAIN regs = 1 .. 1 /\ regs[1] = at /\ Len(cards) = n
  BY Sequence
<1> HIDE DEF regs
<1>2. Low(1, n) = 1
  BY DEF Low
<1>3. (CHOOSE i \in 1 .. 1 : regs[i] = at) = 1
  BY <1>1
<1>4. Replace(plan, regs, cards)[at] = cards[1]
  <2>1. Replace(plan, regs, cards) =
            [r \in D |-> IF \E i \in 1 .. 1 : regs[i] = r
                         THEN cards[CHOOSE i \in 1 .. 1 : regs[i] = r] ELSE plan[r]]
    BY <1>1, <1>2 DEF Replace
  <2>2. 1 \in 1 .. 1
    OBVIOUS
  <2> QED  BY <2>1, <2>2, <1>1, <1>3
<1> QED  BY <1>4 DEF regs

LEMMA PutCounts ==
    ASSUME NEW D, IsFiniteSet(D), NEW plan \in [D -> Kinds],
           NEW m \in Nat, NEW regs \in [1 .. m -> D], Distinct(regs, m),
           NEW n \in Nat, NEW cards \in [1 .. n -> Kinds], NEW k \in Kinds
    PROVE  /\ Cardinality(Places(cards, 1 .. n, k)) \in Nat
           /\ Counted(Replace(plan, regs, cards))[k]
                  <= Counted(plan)[k] + Cardinality(Places(cards, 1 .. n, k))
BY PutMany

-----------------------------------------------------------------------------
(* The rules: each keeps a plan that fits the hand one that fits.           *)

Ready(seat) ==
    seat \in Seats /\ setup \in Setups /\ depth[seat] \in Nat /\ hands[seat] \in Bags

Fits(plan, seat) == plan \in [Free(seat) -> Kinds] /\ Legal(plan, seat)

LEMMA SetupIs ==
    ASSUME setup \in Setups
    PROVE  /\ setup.decks \in [DOMAIN setup.decks -> Bags] /\ setup.policy \subseteq Seats
           /\ setup.registers \in [Seats -> Nat \ {0}] /\ setup.rules \in Seq(Rules)
           /\ DOMAIN setup.quota = Seats
           /\ \A q \in Seats : \A p \in DOMAIN setup.quota[q] :
                  /\ p \in DOMAIN setup.decks /\ IsFiniteSet(DOMAIN setup.quota[q])
                  /\ setup.quota[q][p] \in Nat
                  /\ setup.shared => setup.quota[q][p] <= Size(setup.decks[p])
BY CardAssumption

LEMMA FreeIs ==
    ASSUME NEW seat \in Seats, setup \in Setups, depth[seat] \in Nat
    PROVE  \E m \in Nat \ {0} :
               /\ m <= setup.registers[seat]
               /\ Locked(seat) = m .. setup.registers[seat] - 1
               /\ Free(seat) = 0 .. m - 1
<1> DEFINE n == setup.registers[seat]
           m == n - Low(depth[seat], n - 1)
<1>1. n \in Nat \ {0}
  BY SetupIs
<1> HIDE DEF n
<1>2. m \in Nat \ {0} /\ m <= n
  BY <1>1 DEF Low
<1>3. Locked(seat) = m .. n - 1
  BY DEF Locked, n
<1> HIDE DEF m
<1>4. Free(seat) = 0 .. m - 1
  BY <1>1, <1>2, <1>3 DEF Free, n
<1> QED  BY <1>2, <1>3, <1>4 DEF n

LEMMA FreeRegisters ==
    ASSUME NEW seat \in Seats, setup \in Setups, depth[seat] \in Nat
    PROVE  /\ Free(seat) \in SUBSET Nat /\ IsFiniteSet(Free(seat)) /\ 0 \in Free(seat)
           /\ Cardinality(Free(seat)) \in Nat /\ Cardinality(Free(seat)) - 1 \in Free(seat)
<1>1. PICK m \in Nat \ {0} : Free(seat) = 0 .. m - 1
  BY FreeIs
<1>2. IsFiniteSet(0 .. m - 1) /\ Cardinality(0 .. m - 1) = m
  BY FS_Interval
<1> QED  BY <1>1, <1>2

LEMMA FitsIs ==
    ASSUME NEW seat, Ready(seat), NEW plan
    PROVE  Fits(plan, seat) <=>
               /\ plan \in [Free(seat) -> Kinds]
               /\ \A k \in Kinds : Counted(plan)[k] <= hands[seat][k]
BY DEF Fits, Legal, Within

LEMMA PutFits ==
    ASSUME NEW seat, Ready(seat), NEW plan, Fits(plan, seat),
           NEW m \in Nat, NEW regs \in [1 .. m -> Free(seat)],
           Distinct(regs, m),
           NEW n \in Nat, NEW cards \in [1 .. n -> Kinds],
           \A i \in 1 .. n : Cardinality(Places(cards, 1 .. n, cards[i]))
                                 + Counted(plan)[cards[i]] <= hands[seat][cards[i]]
    PROVE  Fits(Replace(plan, regs, cards), seat)
<1> DEFINE D == Free(seat)
           new == Replace(plan, regs, cards)
           From(k) == Places(cards, 1 .. n, k)
<1>1. /\ IsFiniteSet(D) /\ plan \in [D -> Kinds]
      /\ \A k \in Kinds : Counted(plan)[k] <= hands[seat][k] /\ hands[seat][k] \in Nat
  BY FreeRegisters, FitsIs DEF Ready, Bags
<1>2. regs \in [1 .. m -> D]
  OBVIOUS
<1> HIDE DEF D
<1>3. /\ new \in [D -> Kinds]
      /\ \A k \in Kinds : Cardinality(From(k)) \in Nat
      /\ \A k \in Kinds : Counted(new)[k] <= Counted(plan)[k] + Cardinality(From(k))
  <2>1. IsFiniteSet(D) /\ plan \in [D -> Kinds]
    BY <1>1
  <2> HIDE DEF new, From
  <2>2. new \in [D -> Kinds]
    BY <2>1, <1>2, PutMany DEF new
  <2>3. ASSUME NEW k \in Kinds
        PROVE  /\ Cardinality(From(k)) \in Nat
               /\ Counted(new)[k] <= Counted(plan)[k] + Cardinality(From(k))
    BY <2>1, <1>2, PutCounts DEF new, From
  <2> QED  BY <2>2, <2>3
<1>4. ASSUME NEW k \in Kinds
      PROVE  Counted(new)[k] <= hands[seat][k]
  <2>1. Counted(plan)[k] \in Nat
    BY <1>1, CountedIs DEF Bags
  <2>2. Counted(new)[k] \in Nat
    <3> HIDE DEF new, From
    <3>1. IsFiniteSet(D) /\ new \in [D -> Kinds]
      BY <1>1, <1>3
    <3> QED  BY <3>1, CountedIs DEF Bags
  <2>3. CASE From(k) = {}
    <3>1. Cardinality(From(k)) = 0
      BY <2>3, FS_EmptySet
    <3> HIDE DEF From, new
    <3> QED  BY <3>1, <2>1, <2>2, <1>1, <1>3
  <2>4. CASE From(k) # {}
    <3>1. PICK i \in 1 .. n : cards[i] = k
      BY <2>4 DEF Places
    <3>2. Cardinality(From(k)) + Counted(plan)[k] <= hands[seat][k]
      BY <3>1
    <3> HIDE DEF From, new
    <3> QED  BY <3>2, <2>1, <2>2, <1>1, <1>3
  <2> QED  BY <2>3, <2>4
<1> HIDE DEF new
<1>5. Fits(new, seat)
  BY <1>3, <1>4, FitsIs DEF D
<1> QED  BY <1>5 DEF new

(* Cards listed once each.                                                  *)
LEMMA Once ==
    ASSUME NEW n \in Nat, NEW cards, Distinct(cards, n)
    PROVE  \A i \in 1 .. n : Cardinality(Places(cards, 1 .. n, cards[i])) = 1
<1> SUFFICES ASSUME NEW i \in 1 .. n
             PROVE  Cardinality(Places(cards, 1 .. n, cards[i])) = 1
  OBVIOUS
<1>1. Places(cards, 1 .. n, cards[i]) = {i}
  BY DEF Places, Distinct
<1> QED  BY <1>1, FS_Singleton

LEMMA PreferAttackFits ==
    ASSUME NEW seat, Ready(seat), NEW plan, Fits(plan, seat)
    PROVE  Fits(PreferAttack(seat, plan), seat)
<1> DEFINE D == Free(seat)
           R == D \ Registers(plan, "attack")
           C == {k \in Held(seat, "attack") : Counted(plan)[k] = 0}
           regs == InOrder(R)
           cards == InOrder(C)
           m == Cardinality(R)
           n == Cardinality(C)
<1>1. /\ D \in SUBSET Nat /\ IsFiniteSet(D) /\ plan \in [D -> Kinds]
      /\ \A k \in Kinds : hands[seat][k] \in Nat
  BY FreeRegisters, FitsIs DEF Ready, Bags
<1> HIDE DEF D
<1>2. R \in SUBSET Nat /\ IsFiniteSet(R) /\ R \in SUBSET D
  <2>1. R \in SUBSET D /\ R \in SUBSET Nat
    BY <1>1
  <2> QED  BY <2>1, <1>1, FS_Subset
<1>3. C \in SUBSET Kinds /\ C \in SUBSET Nat /\ IsFiniteSet(C)
  <2>1. C \in SUBSET Kinds
    BY DEF Held
  <2> QED  BY <2>1, KindsAre, FS_Subset
<1>4. \A k \in C : Counted(plan)[k] = 0 /\ hands[seat][k] > 0
  BY DEF Held
<1>5. PreferAttack(seat, plan) = Replace(plan, regs, cards)
  <2>1. DOMAIN plan = D
    BY <1>1
  <2> QED  BY <2>1 DEF PreferAttack
<1> HIDE DEF R, C
<1>6. /\ m \in Nat /\ regs \in [1 .. m -> R]
      /\ Distinct(regs, m)
  BY <1>2, InOrderLists
<1>7. /\ n \in Nat /\ cards \in [1 .. n -> C]
      /\ Distinct(cards, n)
  BY <1>3, InOrderLists
<1> HIDE DEF regs, cards, m, n
<1>8. regs \in [1 .. m -> Free(seat)] /\ cards \in [1 .. n -> Kinds]
  BY <1>2, <1>3, <1>6, <1>7 DEF D
<1>9. \A i \in 1 .. n : Cardinality(Places(cards, 1 .. n, cards[i]))
                            + Counted(plan)[cards[i]] <= hands[seat][cards[i]]
  <2> SUFFICES ASSUME NEW i \in 1 .. n
               PROVE  Cardinality(Places(cards, 1 .. n, cards[i]))
                          + Counted(plan)[cards[i]] <= hands[seat][cards[i]]
    OBVIOUS
  <2>1. Cardinality(Places(cards, 1 .. n, cards[i])) = 1
    BY <1>7, Once
  <2>2. cards[i] \in C /\ cards[i] \in Kinds
    BY <1>7, <1>3
  <2> QED  BY <2>1, <2>2, <1>4, <1>1
<1> QED  BY <1>5, <1>6, <1>7, <1>8, <1>9, PutFits

LEMMA EnsureMovementFits ==
    ASSUME NEW seat, Ready(seat), NEW plan, Fits(plan, seat)
    PROVE  /\ Fits(EnsureMovement(seat, plan), seat)
           /\ Held(seat, "movement") # {}
              => Registers(EnsureMovement(seat, plan), "movement") # {}
<1> DEFINE D == Free(seat)
           C == Held(seat, "movement")
           last == Cardinality(D) - 1
           regs == <<last>>
           cards == ByValue(C)
           n == Cardinality(C)
<1>1. /\ IsFiniteSet(D) /\ plan \in [D -> Kinds] /\ last \in D
      /\ \A k \in Kinds : hands[seat][k] \in Nat
  BY FreeRegisters, FitsIs DEF Ready, Bags
<1>2. CASE Registers(plan, "movement") # {}
  BY <1>2 DEF EnsureMovement
<1>3. CASE Registers(plan, "movement") = {}
  <2>1. EnsureMovement(seat, plan) = Replace(plan, regs, cards)
    <3>1. DOMAIN plan = D
      BY <1>1
    <3> QED  BY <1>3, <3>1 DEF EnsureMovement
  <2>2. C \in SUBSET Kinds /\ \A k \in C : hands[seat][k] > 0 /\ Catalog[k].category = "movement"
    BY DEF Held
  <2>3. \A k \in C : Counted(plan)[k] = 0
    <3>1. \A r \in D : Catalog[plan[r]].category # "movement"
      BY <1>1, <1>3 DEF Registers
    <3> HIDE DEF D
    <3>2. \A k \in Kinds : Counted(plan)[k] = 0 <=> \A r \in D : plan[r] # k
      <4>1. IsFiniteSet(D) /\ plan \in [D -> Kinds]
        BY <1>1
      <4> QED  BY <4>1, CountedIs
    <3> QED  BY <3>1, <3>2, <2>2
  <2> HIDE DEF C, D, last
  <2>4. /\ n \in Nat /\ cards \in [1 .. n -> C]
        /\ Distinct(cards, n)
    BY <2>2, ByValueLists
  <2>5. C # {} => n > 0
    <3>1. IsFiniteSet(C)
      BY <2>2, KindsAre, FS_Subset
    <3>2. C # {} => n # 0
      BY <3>1, FS_EmptySet
    <3> QED  BY <3>2, <2>4
  <2> HIDE DEF cards, n
  <2>6. regs \in [1 .. 1 -> Free(seat)] /\ cards \in [1 .. n -> Kinds]
    BY <1>1, <2>2, <2>4 DEF D
  <2>7. \A i \in 1 .. n : Cardinality(Places(cards, 1 .. n, cards[i]))
                              + Counted(plan)[cards[i]] <= hands[seat][cards[i]]
    <3> SUFFICES ASSUME NEW i \in 1 .. n
                 PROVE  Cardinality(Places(cards, 1 .. n, cards[i]))
                            + Counted(plan)[cards[i]] <= hands[seat][cards[i]]
      OBVIOUS
    <3>1. Cardinality(Places(cards, 1 .. n, cards[i])) = 1
      BY <2>4, Once
    <3>2. cards[i] \in C /\ cards[i] \in Kinds
      BY <2>4, <2>2
    <3> QED  BY <3>1, <3>2, <2>2, <2>3, <1>1
  <2>8. /\ Fits(Replace(plan, regs, cards), seat)
        /\ n > 0 => Replace(plan, regs, cards)[last] = cards[1]
    <3>1. Distinct(regs, 1)
      BY DEF Distinct
    <3> HIDE DEF regs
    <3> DEFINE m == 1
    <3>3. m \in Nat
      OBVIOUS
    <3>4. /\ regs \in [1 .. m -> Free(seat)]
          /\ Distinct(regs, m)
      BY <2>6, <3>1
    <3> HIDE DEF m
    <3>5. Fits(Replace(plan, regs, cards), seat)
      BY <2>4, <2>6, <2>7, <3>3, <3>4, PutFits
    <3>6. n > 0 => Replace(plan, regs, cards)[last] = cards[1]
      <4>1. plan \in [D -> Kinds] /\ last \in D
        BY <1>1
      <4> QED  BY <4>1, <2>4, <2>6, PutFirst DEF regs
    <3> QED  BY <3>5, <3>6
  <2>9. ASSUME C # {}
        PROVE  Registers(EnsureMovement(seat, plan), "movement") # {}
    <3> DEFINE new == Replace(plan, regs, cards)
    <3>1. new[last] = cards[1] /\ cards[1] \in C
      BY <2>9, <2>4, <2>5, <2>8
    <3>2. last \in DOMAIN new
      BY <2>8, <1>1, FitsIs DEF D
    <3>3. Catalog[new[last]].category = "movement"
      BY <3>1, <2>2
    <3> HIDE DEF new
    <3>4. last \in Registers(new, "movement")
      BY <3>2, <3>3 DEF Registers
    <3> QED  BY <3>4, <2>1 DEF new
  <2> QED  BY <2>1, <2>8, <2>9 DEF C
<1> QED  BY <1>2, <1>3

-----------------------------------------------------------------------------
(* Copies of what a bag counts.                                             *)

LEMMA NoMore ==
    ASSUME NEW S, NEW T, IsFiniteSet(T), NEW f \in [S -> T],
           \A a, b \in S : f[a] = f[b] => a = b
    PROVE  /\ IsFiniteSet(S) /\ Cardinality(S) \in Nat /\ Cardinality(T) \in Nat
           /\ Cardinality(S) <= Cardinality(T)
<1>1. f \in Injection(S, T)
  BY DEF Injection, IsInjective
<1> QED  BY <1>1, FS_Injection, FS_CardinalityType

LEMMA CopiesOf ==
    ASSUME NEW S, IsFiniteSet(S), NEW f \in [S -> Nat]
    PROVE  /\ IsFiniteSet(Copies(f)) /\ Size(f) \in Nat /\ Cardinality(Copies(f)) = Size(f)
           /\ \A c : c \in Copies(f) <=> \E x \in S : c \in {x} \X (1 .. f[x])
<1> DEFINE Each == {{x} \X (1 .. f[x]) : x \in S}
           each == [x \in S |-> {x} \X (1 .. f[x])]
<1>1. Copies(f) = UNION Each
  <2>1. DOMAIN f = S
    OBVIOUS
  <2> QED  BY <2>1 DEF Copies
<1>2. IsFiniteSet(Each)
  <2>1. each \in Surjection(S, Each)
    BY DEF Surjection
  <2> HIDE DEF each, Each
  <2> QED  BY <2>1, FS_Surjection
<1>3. \A T \in Each : IsFiniteSet(T)
  <2> SUFFICES ASSUME NEW x \in S PROVE IsFiniteSet({x} \X (1 .. f[x]))
    OBVIOUS
  <2>1. IsFiniteSet({x})
    BY FS_Singleton
  <2>2. f[x] \in Int /\ 1 \in Int
    OBVIOUS
  <2>3. IsFiniteSet(1 .. f[x])
    BY <2>2, FS_Interval
  <2> QED  BY <2>1, <2>3, FS_Product
<1>4. IsFiniteSet(UNION Each)
  <2> HIDE DEF Each
  <2> QED  BY <1>2, <1>3, FS_UNION
<1>5. \A c : c \in UNION Each <=> \E x \in S : c \in {x} \X (1 .. f[x])
  OBVIOUS
<1> QED  BY <1>1, <1>4, <1>5, FS_CardinalityType DEF Size

LEMMA CopiesOfOne ==
    ASSUME NEW x, NEW n \in Nat
    PROVE  IsFiniteSet({x} \X (1 .. n)) /\ Cardinality({x} \X (1 .. n)) = n
<1>1. IsFiniteSet({x}) /\ Cardinality({x}) = 1
  BY FS_Singleton
<1>2. n \in Int /\ 1 \in Int
  OBVIOUS
<1>3. IsFiniteSet(1 .. n) /\ Cardinality(1 .. n) = n
  BY <1>2, FS_Interval
<1>4. IsFiniteSet({x} \X (1 .. n)) /\ Cardinality({x} \X (1 .. n))
                                          = Cardinality({x}) * Cardinality(1 .. n)
  <2>1. IsFiniteSet({x}) /\ IsFiniteSet(1 .. n)
    BY <1>1, <1>3
  <2> QED  BY <2>1, FS_Product
<1>5. 1 * n = n
  OBVIOUS
<1> QED  BY <1>1, <1>3, <1>4, <1>5

LEMMA CloseTheGapFits ==
    ASSUME NEW seat, Ready(seat), NEW plan, Fits(plan, seat), NEW far
    PROVE  Fits(CloseTheGap(seat, plan, far), seat)
<1> DEFINE D == Free(seat)
           A == {k \in Held(seat, "movement") :
                    Catalog[k].effect = "toward" /\ Spare(seat, plan)[k] > 0}
           f == [k \in A |-> Spare(seat, plan)[k]]
           copies == Copies(f)
           best == Sorted(copies, BestFirst(copies))
           n == Cardinality(copies)
           cards == [i \in DOMAIN best |-> best[i][1]]
           R == Heading(plan, "away")
           regs == InOrder(R)
           m == Cardinality(R)
<1>1. /\ D \in SUBSET Nat /\ IsFiniteSet(D) /\ plan \in [D -> Kinds]
      /\ \A k \in Kinds : hands[seat][k] \in Nat /\ Counted(plan)[k] <= hands[seat][k]
  BY FreeRegisters, FitsIs DEF Ready, Bags
<1>2. CASE ~far
  BY <1>2 DEF CloseTheGap
<1>3. CASE far
  <2>0. CloseTheGap(seat, plan, far) = Replace(plan, regs, cards)
    BY <1>3 DEF CloseTheGap
  <2>1. \A k \in Kinds : /\ Counted(plan)[k] \in Nat
                         /\ Spare(seat, plan)[k] = hands[seat][k] - Counted(plan)[k]
                         /\ Spare(seat, plan)[k] \in Nat
    <3> HIDE DEF D
    <3>1. IsFiniteSet(D) /\ plan \in [D -> Kinds]
      BY <1>1
    <3>2. Counted(plan) \in Bags
      BY <3>1, CountedIs
    <3> QED  BY <3>2, <1>1 DEF Spare, Minus, Bags
  <2>2. A \in SUBSET Kinds /\ IsFiniteSet(A)
    <3>1. A \in SUBSET Kinds
      BY DEF Held
    <3> QED  BY <3>1, KindsAre, FS_Subset
  <2>3. R \in SUBSET D /\ R \in SUBSET Nat /\ IsFiniteSet(R)
    <3>1. R \in SUBSET D
      BY <1>1 DEF Heading, Registers
    <3> HIDE DEF R, D
    <3> QED  BY <3>1, <1>1, FS_Subset
  <2> HIDE DEF A, R
  <2>4. f \in [A -> Nat] /\ \A k \in A : f[k] = hands[seat][k] - Counted(plan)[k]
    BY <2>1, <2>2
  <2> HIDE DEF f
  <2>5. /\ IsFiniteSet(copies)
        /\ \A c : c \in copies <=> \E k \in A : c \in {k} \X (1 .. f[k])
    BY <2>2, <2>4, CopiesOf
  <2>6. \A c \in copies : /\ c[1] \in A /\ c[1] \in Kinds /\ c[2] \in Nat
                          /\ c \in {c[1]} \X (1 .. f[c[1]])
                          /\ c = <<c[1], c[2]>>
    BY <2>2, <2>4, <2>5
  <2> HIDE DEF copies
  <2>7. Orders(BestFirst(copies), copies)
    <3> DEFINE p == [c \in copies |-> Catalog[c[1]].priority]
               g == [c \in copies |-> 0 - c[1]]
               h == [c \in copies |-> 0 - c[2]]
    <3>1. p \in [copies -> Int] /\ g \in [copies -> Int] /\ h \in [copies -> Int]
      BY <2>6, KindsAre
    <3>2. ASSUME NEW x \in copies, NEW y \in copies
          PROVE  <<x, y>> \in BestFirst(copies) <=>
                     \/ p[x] > p[y]
                     \/ p[x] = p[y] /\ g[x] > g[y]
                     \/ p[x] = p[y] /\ g[x] = g[y] /\ h[x] > h[y]
      <4> DEFINE e == <<x, y>>
      <4>1. e \in copies \X copies /\ e[1] = x /\ e[2] = y
        OBVIOUS
      <4> HIDE DEF e
      <4>2. e \in BestFirst(copies) <=>
                     \/ Catalog[x[1]].priority > Catalog[y[1]].priority
                     \/ Catalog[x[1]].priority = Catalog[y[1]].priority /\ x[1] < y[1]
                     \/ x[1] = y[1] /\ x[2] < y[2]
        BY <4>1, Zenon DEF BestFirst
      <4>3. /\ x[1] \in Nat /\ y[1] \in Nat /\ x[2] \in Nat /\ y[2] \in Nat
            /\ x[1] \in Kinds /\ y[1] \in Kinds
        BY <2>6, KindsAre
      <4>4. /\ x[1] < y[1] <=> g[x] > g[y]
            /\ x[1] = y[1] <=> g[x] = g[y]
            /\ x[2] < y[2] <=> h[x] > h[y]
        BY <4>3
      <4>5. x[1] = y[1] => Catalog[x[1]].priority = Catalog[y[1]].priority
        OBVIOUS
      <4>6. p[x] = Catalog[x[1]].priority /\ p[y] = Catalog[y[1]].priority
        OBVIOUS
      <4> HIDE DEF p, g, h
      <4>7. e \in BestFirst(copies) <=>
                     \/ p[x] > p[y]
                     \/ p[x] = p[y] /\ g[x] > g[y]
                     \/ p[x] = p[y] /\ g[x] = g[y] /\ h[x] > h[y]
        BY <4>2, <4>4, <4>5, <4>6, Zenon
      <4> QED  BY <4>7 DEF e
    <3>3. \A x, y \in copies : p[x] = p[y] /\ g[x] = g[y] /\ h[x] = h[y] => x = y
      <4> SUFFICES ASSUME NEW x \in copies, NEW y \in copies, g[x] = g[y], h[x] = h[y]
                   PROVE  x = y
        OBVIOUS
      <4>1. x[1] \in Nat /\ y[1] \in Nat /\ x[2] \in Nat /\ y[2] \in Nat
        BY <2>6, KindsAre
      <4>2. x[1] = y[1] /\ x[2] = y[2]
        BY <4>1
      <4> QED  BY <4>2, <2>6
    <3> HIDE DEF p, g, h
    <3> QED  BY <3>1, <3>2, <3>3, LexicographicOrder
  <2>8. /\ n \in Nat /\ best \in [1 .. n -> copies]
        /\ \A i, j \in 1 .. n : best[i] = best[j] => i = j
    BY <2>5, <2>7, SortedLists
  <2> HIDE DEF best, n
  <2>9. cards = [i \in 1 .. n |-> best[i][1]] /\ cards \in [1 .. n -> Kinds]
    BY <2>8, <2>6
  <2> HIDE DEF cards
  <2>10. /\ m \in Nat /\ regs \in [1 .. m -> D] /\ Distinct(regs, m)
    <3>1. /\ m \in Nat /\ regs \in [1 .. m -> R] /\ Distinct(regs, m)
      BY <2>3, InOrderLists
    <3> HIDE DEF m, regs, D
    <3> QED  BY <3>1, <2>3
  <2> HIDE DEF m, regs
  <2>11. \A i \in 1 .. n : Cardinality(Places(cards, 1 .. n, cards[i]))
                               + Counted(plan)[cards[i]] <= hands[seat][cards[i]]
    <3> SUFFICES ASSUME NEW i \in 1 .. n
                 PROVE  Cardinality(Places(cards, 1 .. n, cards[i]))
                            + Counted(plan)[cards[i]] <= hands[seat][cards[i]]
      OBVIOUS
    <3> DEFINE k == cards[i]
               P == Places(cards, 1 .. n, k)
               T == {k} \X (1 .. f[k])
               chosen == [j \in P |-> best[j]]
    <3>1. k \in A /\ k \in Kinds
      BY <2>9, <2>8, <2>6
    <3>2. f[k] = hands[seat][k] - Counted(plan)[k] /\ f[k] \in Nat
      BY <3>1, <2>4
    <3>3. IsFiniteSet(T) /\ Cardinality(T) = f[k]
      BY <3>2, CopiesOfOne
    <3>4. \A j \in P : j \in 1 .. n /\ best[j] \in copies /\ best[j][1] = k
      BY <2>8, <2>9 DEF Places
    <3>5. chosen \in [P -> T]
      BY <3>4, <2>6
    <3>6. \A a, b \in P : chosen[a] = chosen[b] => a = b
      BY <3>4, <2>8
    <3> HIDE DEF P, T, chosen
    <3>7. Cardinality(P) \in Nat /\ Cardinality(P) <= f[k]
      BY <3>3, <3>5, <3>6, NoMore
    <3>8. Counted(plan)[k] \in Nat /\ hands[seat][k] \in Nat
      BY <3>1, <2>1, <1>1
    <3> HIDE DEF k
    <3>9. Cardinality(P) + Counted(plan)[k] <= hands[seat][k]
      BY <3>2, <3>7, <3>8
    <3> QED  BY <3>9 DEF P, k
  <2>12. Fits(Replace(plan, regs, cards), seat)
    BY <2>8, <2>9, <2>10, <2>11, PutFits
  <2> QED  BY <2>0, <2>12
<1> QED  BY <1>2, <1>3

(* The register with the cheapest card is one of the plan's.                *)
LEMMA CheapestIs ==
    ASSUME NEW D, \A r \in D : r \in Nat, IsFiniteSet(D), D # {}, NEW plan \in [D -> Kinds]
    PROVE  Cheapest(plan) \in D
<1> DEFINE R == {e \in D \X D :
                    \/ Catalog[plan[e[1]]].priority < Catalog[plan[e[2]]].priority
                    \/ /\ Catalog[plan[e[1]]].priority = Catalog[plan[e[2]]].priority
                       /\ e[2] < e[1]}
           p == [r \in D |-> 0 - Catalog[plan[r]].priority]
           g == [r \in D |-> r]
           h == [r \in D |-> 0]
<1>1. \A r \in D : Catalog[plan[r]].priority \in Nat /\ r \in Nat
  BY KindsAre
<1>2. p \in [D -> Int] /\ g \in [D -> Int] /\ h \in [D -> Int]
  BY <1>1
<1>3. \A x, y \in D : <<x, y>> \in R <=>
          \/ Catalog[plan[x]].priority < Catalog[plan[y]].priority
          \/ Catalog[plan[x]].priority = Catalog[plan[y]].priority /\ y < x
  OBVIOUS
<1> HIDE DEF R
<1>4. ASSUME NEW x \in D, NEW y \in D
      PROVE  <<x, y>> \in R <=> \/ p[x] > p[y]
                                \/ p[x] = p[y] /\ g[x] > g[y]
                                \/ p[x] = p[y] /\ g[x] = g[y] /\ h[x] > h[y]
  BY <1>1, <1>3
<1>5. \A x, y \in D : p[x] = p[y] /\ g[x] = g[y] /\ h[x] = h[y] => x = y
  OBVIOUS
<1> HIDE DEF p, g, h
<1>6. Orders(R, D)
  BY <1>2, <1>4, <1>5, LexicographicOrder
<1>7. PICK x \in D : \A y \in D : y = x \/ <<x, y>> \in R
  BY <1>6, FirstExists
<1>8. \A y \in D : \/ Catalog[plan[x]].priority < Catalog[plan[y]].priority
                   \/ Catalog[plan[x]].priority = Catalog[plan[y]].priority /\ y <= x
  <2> SUFFICES ASSUME NEW y \in D
               PROVE  \/ Catalog[plan[x]].priority < Catalog[plan[y]].priority
                      \/ Catalog[plan[x]].priority = Catalog[plan[y]].priority /\ y <= x
    OBVIOUS
  <2>1. CASE y = x
    <3>1. x \in Nat /\ x <= x
      BY <1>1
    <3> QED  BY <3>1, <2>1
  <2>2. CASE <<x, y>> \in R
    <3>1. \/ Catalog[plan[x]].priority < Catalog[plan[y]].priority
          \/ Catalog[plan[x]].priority = Catalog[plan[y]].priority /\ y < x
      BY <2>2, <1>3
    <3> QED  BY <3>1, <1>1
  <2> QED  BY <2>1, <2>2, <1>7
<1>9. DOMAIN plan = D
  OBVIOUS
<1> QED  BY <1>8, <1>9 DEF Cheapest

LEMMA HeadOfOrder ==
    ASSUME NEW S \in SUBSET Nat, IsFiniteSet(S), S # {}
    PROVE  Head(InOrder(S)) \in S
<1> DEFINE list == InOrder(S)
           n == Cardinality(S)
<1>1. n \in Nat /\ list \in [1 .. n -> S]
  BY InOrderLists
<1>2. n # 0
  BY FS_EmptySet
<1> HIDE DEF list, n
<1>3. list \in Seq(S) /\ Len(list) = n /\ n > 0
  BY <1>1, <1>2, Sequence
<1>4. Head(list) = list[1] /\ list[1] \in S
  BY <1>1, <1>3
<1> QED  BY <1>4 DEF list

LEMMA HeadByValue ==
    ASSUME NEW S \in SUBSET Kinds, S # {}
    PROVE  Head(ByValue(S)) \in S
<1> DEFINE list == ByValue(S)
           n == Cardinality(S)
<1>1. n \in Nat /\ list \in [1 .. n -> S]
  BY ByValueLists
<1>2. n # 0
  <2>1. IsFiniteSet(S)
    BY KindsAre, FS_Subset
  <2> QED  BY <2>1, FS_EmptySet
<1> HIDE DEF list, n
<1>3. list \in Seq(S) /\ Len(list) = n /\ n > 0
  BY <1>1, <1>2, Sequence
<1>4. Head(list) = list[1] /\ list[1] \in S
  BY <1>1, <1>3
<1> QED  BY <1>4 DEF list

(* Swapping two registers uses the same cards.                              *)
LEMMA SwapFits ==
    ASSUME NEW seat, Ready(seat), NEW plan, Fits(plan, seat),
           NEW i \in Free(seat), NEW j \in Free(seat)
    PROVE  Fits(Swap(plan, i, j), seat) /\ Swap(plan, i, j)[i] = plan[j]
<1> DEFINE D == Free(seat)
           new == Swap(plan, i, j)
           turn == [r \in D |-> IF r = i THEN j ELSE IF r = j THEN i ELSE r]
<1>1. /\ D \in SUBSET Nat /\ IsFiniteSet(D) /\ plan \in [D -> Kinds]
      /\ \A k \in Kinds : hands[seat][k] \in Nat /\ Counted(plan)[k] <= hands[seat][k]
  BY FreeRegisters, FitsIs DEF Ready, Bags
<1>2. i \in D /\ j \in D
  OBVIOUS
<1> HIDE DEF D
<1>3. new \in [D -> Kinds] /\ new[i] = plan[j]
  BY <1>1, <1>2 DEF Swap
<1>4. /\ turn \in [D -> D]
      /\ \A r \in D : plan[turn[r]] = new[r]
      /\ \A a, b \in D : turn[a] = turn[b] => a = b
  BY <1>1, <1>2 DEF Swap
<1> HIDE DEF new, turn
<1>5. ASSUME NEW k \in Kinds
      PROVE  Counted(new)[k] <= hands[seat][k]
  <2> DEFINE P == Places(new, D, k)
             Q == Places(plan, D, k)
             f == [r \in P |-> turn[r]]
  <2>1. IsFiniteSet(Q)
    <3>1. Q \in SUBSET D
      BY DEF Places
    <3> QED  BY <3>1, <1>1, FS_Subset
  <2>2. f \in [P -> Q] /\ \A a, b \in P : f[a] = f[b] => a = b
    BY <1>4 DEF Places
  <2> HIDE DEF P, Q, f
  <2>3. Cardinality(P) <= Cardinality(Q) /\ Cardinality(P) \in Nat /\ Cardinality(Q) \in Nat
    BY <2>1, <2>2, NoMore
  <2>4. Counted(new)[k] = Cardinality(P) /\ Counted(plan)[k] = Cardinality(Q)
    <3>1. IsFiniteSet(D) /\ new \in [D -> Kinds] /\ plan \in [D -> Kinds]
      BY <1>1, <1>3
    <3> QED  BY <3>1, CountedIs DEF P, Q
  <2>5. Counted(plan)[k] <= hands[seat][k] /\ hands[seat][k] \in Nat
    BY <1>1
  <2> QED  BY <2>3, <2>4, <2>5
<1>6. Fits(new, seat)
  BY <1>3, <1>5, FitsIs DEF D
<1> QED  BY <1>3, <1>6 DEF new

LEMMA LeadWithPolicyFits ==
    ASSUME NEW seat, Ready(seat), NEW plan, Fits(plan, seat), NEW want \in SUBSET Kinds
    PROVE  /\ Fits(LeadWithPolicy(seat, plan, want), seat)
           /\ Handed(seat, want) => LeadWithPolicy(seat, plan, want)[0] \in want
<1> DEFINE D == Free(seat)
           present == {r \in DOMAIN plan : plan[r] \in want}
           spare == {k \in want : Spare(seat, plan)[k] > 0}
           card == Head(ByValue(spare))
           put == [plan EXCEPT ![Cheapest(plan)] = card]
           fixed == IF present # {} \/ spare = {} THEN plan ELSE put
           there == {r \in DOMAIN fixed : fixed[r] \in want}
           led == IF there = {} THEN fixed ELSE Swap(fixed, 0, Head(InOrder(there)))
<1>0. LeadWithPolicy(seat, plan, want) = led
  BY DEF LeadWithPolicy
<1>1. /\ D \in SUBSET Nat /\ IsFiniteSet(D) /\ 0 \in D /\ plan \in [D -> Kinds]
      /\ \A k \in Kinds : hands[seat][k] \in Nat /\ Counted(plan)[k] <= hands[seat][k]
  BY FreeRegisters, FitsIs DEF Ready, Bags
<1>2. DOMAIN plan = D
  BY <1>1
<1>3. IsFiniteSet(D) /\ plan \in [D -> Kinds]
  BY <1>1
<1> HIDE DEF D
<1>4. /\ Counted(plan) \in Bags
      /\ \A k \in Kinds : Counted(plan)[k] = 0 <=> \A r \in D : plan[r] # k
  BY <1>3, CountedIs
<1>5. \A k \in Kinds : /\ Counted(plan)[k] \in Nat
                       /\ Spare(seat, plan)[k] = hands[seat][k] - Counted(plan)[k]
  BY <1>4, <1>1 DEF Spare, Minus, Bags
<1>6. ASSUME spare # {}
      PROVE  Cheapest(plan) \in D /\ card \in spare /\ card \in Kinds /\ Fits(put, seat)
  <2>1. Cheapest(plan) \in D
    BY <1>1, CheapestIs
  <2>2. spare \in SUBSET Kinds
    OBVIOUS
  <2>3. card \in spare /\ card \in Kinds
    <3> HIDE DEF spare
    <3> QED  BY <1>6, <2>2, HeadByValue
  <2> HIDE DEF card
  <2>4. hands[seat][card] - Counted(plan)[card] > 0
    BY <2>3, <1>5
  <2>5. /\ put \in [D -> Kinds]
        /\ \A k \in Kinds \ {card} : Counted(put)[k] <= Counted(plan)[k]
        /\ Counted(put)[card] <= Counted(plan)[card] + 1
    <3> DEFINE at == Cheapest(plan)
    <3>1. at \in D
      BY <2>1
    <3> HIDE DEF at
    <3>2. LET new == [plan EXCEPT ![at] = card]
          IN  /\ new \in [D -> Kinds]
              /\ \A k \in Kinds \ {card} : Counted(new)[k] <= Counted(plan)[k]
              /\ Counted(new)[card] <= Counted(plan)[card] + 1
      BY <1>3, <2>3, <3>1, PutOne
    <3> QED  BY <3>2 DEF at
  <2> HIDE DEF put
  <2>6. ASSUME NEW k \in Kinds
        PROVE  Counted(put)[k] <= hands[seat][k]
    <3>1. Counted(put) \in Bags
      BY <1>3, <2>5, CountedIs
    <3>2. /\ Counted(put)[k] \in Nat /\ Counted(plan)[k] \in Nat /\ hands[seat][k] \in Nat
          /\ Counted(plan)[k] <= hands[seat][k]
      BY <3>1, <1>1, <1>5 DEF Bags
    <3> QED  BY <3>2, <2>4, <2>5
  <2> QED  BY <2>1, <2>3, <2>5, <2>6, FitsIs DEF D
<1>7. Fits(fixed, seat) /\ fixed \in [D -> Kinds] /\ DOMAIN fixed = D
  <2>1. Fits(fixed, seat)
    BY <1>6
  <2> HIDE DEF fixed
  <2>2. fixed \in [D -> Kinds]
    BY <2>1, FitsIs DEF D
  <2> QED  BY <2>1, <2>2
<1>8. ASSUME Handed(seat, want)
      PROVE  there # {}
  <2>1. PICK k \in want : hands[seat][k] > 0
    BY <1>8 DEF Handed
  <2>2. CASE present # {}
    BY <2>2
  <2>3. CASE present = {}
    <3>1. Counted(plan)[k] = 0
      BY <2>3, <1>2, <1>4
    <3>2. k \in spare
      BY <3>1, <2>1, <1>1, <1>5
    <3>3. fixed = put /\ Cheapest(plan) \in D /\ card \in want
      BY <2>3, <3>2, <1>6
    <3>4. put[Cheapest(plan)] = card
      BY <3>3, <1>1
    <3> HIDE DEF put, card, present, spare
    <3>5. Cheapest(plan) \in there
      BY <3>3, <3>4, <1>7
    <3> QED  BY <3>5
  <2> QED  BY <2>2, <2>3
<1> HIDE DEF fixed
<1>9. CASE there = {}
  BY <1>9, <1>0, <1>7, <1>8
<1>10. CASE there # {}
  <2> DEFINE at == Head(InOrder(there))
  <2>1. there \in SUBSET D /\ there \in SUBSET Nat
    BY <1>1, <1>7
  <2>2. at \in there
    <3>1. IsFiniteSet(there)
      BY <2>1, <1>1, FS_Subset
    <3> HIDE DEF there
    <3> QED  BY <3>1, <2>1, <1>10, HeadOfOrder
  <2> HIDE DEF at
  <2>3. led = Swap(fixed, 0, at)
    BY <1>10 DEF at
  <2>4. at \in D /\ fixed[at] \in want
    BY <2>2, <2>1
  <2> HIDE DEF there, led
  <2>5. Fits(Swap(fixed, 0, at), seat) /\ Swap(fixed, 0, at)[0] = fixed[at]
    BY <1>1, <1>7, <2>4, SwapFits DEF D
  <2> QED  BY <1>0, <2>3, <2>4, <2>5
<1> QED  BY <1>9, <1>10

-----------------------------------------------------------------------------
(* The rules one after another.                                             *)

LEMMA AppliedFits ==
    ASSUME NEW seat, Ready(seat), NEW plan, Fits(plan, seat), NEW far, NEW want \in SUBSET Kinds,
           NEW rule \in Rules \union {"pilot_policy"}
    PROVE  /\ Fits(Applied(rule, seat, plan, far, want), seat)
           /\ rule = "pilot_policy" /\ Handed(seat, want)
              => Applied(rule, seat, plan, far, want)[0] \in want
           /\ rule = "ensure_movement_card" /\ Held(seat, "movement") # {}
              => Registers(Applied(rule, seat, plan, far, want), "movement") # {}
<1>1. CASE rule = "prefer_attack_cards"
  BY <1>1, PreferAttackFits DEF Applied
<1>2. CASE rule = "ensure_movement_card"
  BY <1>2, EnsureMovementFits DEF Applied
<1>3. CASE rule = "close_the_gap"
  BY <1>3, CloseTheGapFits DEF Applied
<1>4. CASE rule = "pilot_policy"
  BY <1>4, LeadWithPolicyFits DEF Applied
<1> QED  BY <1>1, <1>2, <1>3, <1>4 DEF Rules

LEMMA RulesOfSeat ==
    ASSUME NEW seat \in Seats, setup \in Setups
    PROVE  /\ RulesOf(seat) \in Seq(Rules \union {"pilot_policy"})
           /\ Len(RulesOf(seat)) \in Nat
           /\ \A i \in 1 .. Len(RulesOf(seat)) :
                  RulesOf(seat)[i] \in Rules \union {"pilot_policy"}
           /\ seat \in setup.policy => /\ Len(RulesOf(seat)) > 0
                                       /\ RulesOf(seat)[Len(RulesOf(seat))] = "pilot_policy"
           /\ seat \notin setup.policy => RulesOf(seat) = setup.rules
<1> DEFINE rules == setup.rules
           All == Rules \union {"pilot_policy"}
<1>1. rules \in Seq(Rules)
  BY SetupIs
<1> HIDE DEF rules
<1>2. CASE seat \in setup.policy
  <2>1. RulesOf(seat) = rules \o <<"pilot_policy">>
    BY <1>2 DEF RulesOf, rules
  <2>2. rules \in Seq(All) /\ <<"pilot_policy">> \in Seq(All)
    BY <1>1
  <2> HIDE DEF All
  <2>3. /\ rules \o <<"pilot_policy">> \in Seq(All)
        /\ Len(rules \o <<"pilot_policy">>) = Len(rules) + 1 /\ Len(rules) \in Nat
        /\ (rules \o <<"pilot_policy">>)[Len(rules) + 1] = "pilot_policy"
    BY <2>2
  <2> QED  BY <1>2, <2>1, <2>3 DEF All
<1>3. CASE seat \notin setup.policy
  <2>1. RulesOf(seat) = rules \o <<>>
    BY <1>3 DEF RulesOf, rules
  <2>2. RulesOf(seat) = rules /\ rules \in Seq(All) /\ Len(rules) \in Nat
    BY <2>1, <1>1
  <2> QED  BY <1>3, <2>2 DEF rules
<1> QED  BY <1>2, <1>3

LEMMA RuledIs ==
    ASSUME NEW seat \in Seats, setup \in Setups, NEW plan, NEW far, NEW want
    PROVE  Ruled(seat, plan, far, want) =
               [i \in 0 .. Len(RulesOf(seat)) |->
                   IF i = 0 THEN plan
                   ELSE Applied(RulesOf(seat)[i], seat, Ruled(seat, plan, far, want)[i - 1],
                                far, want)]
<1> DEFINE n == Len(RulesOf(seat))
           F(i, p) == Applied(RulesOf(seat)[i], seat, p, far, want)
           Runs(g, m) == g = [i \in 0 .. m |-> IF i = 0 THEN plan ELSE F(i, g[i - 1])]
           T == {m \in 0 .. n : \E g : Runs(g, m)}
<1>1. n \in Nat
  BY RulesOfSeat
<1>2. Ruled(seat, plan, far, want) = CHOOSE g : Runs(g, n)
  BY DEF Ruled
<1> HIDE DEF n, F
<1>3. \E g : Runs(g, 0)
  <2>1. Runs([i \in 0 .. 0 |-> plan], 0)
    OBVIOUS
  <2> QED  BY <2>1
<1>4. ASSUME NEW m \in 0 .. n - 1, m \in T
      PROVE  m + 1 \in T
  <2>1. PICK g : Runs(g, m)
    BY <1>4
  <2> DEFINE h == [i \in 0 .. m + 1 |-> IF i = m + 1 THEN F(m + 1, g[m]) ELSE g[i]]
  <2>2. m \in Nat /\ m + 1 \in 0 .. n
    BY <1>1
  <2>3. ASSUME NEW i \in 0 .. m + 1
        PROVE  h[i] = IF i = 0 THEN plan ELSE F(i, h[i - 1])
    <3>1. CASE i = m + 1
      <4>1. i # 0 /\ i - 1 = m /\ m \in 0 .. m + 1 /\ m # m + 1
        BY <3>1, <2>2
      <4>2. h[i] = F(m + 1, g[m]) /\ h[m] = g[m]
        BY <3>1, <4>1
      <4> HIDE DEF h
      <4> QED  BY <4>1, <4>2, <3>1
    <3>2. CASE i # m + 1
      <4>1. i \in 0 .. m /\ h[i] = g[i]
        BY <3>2, <2>2
      <4>2. g[i] = IF i = 0 THEN plan ELSE F(i, g[i - 1])
        BY <4>1, <2>1
      <4>3. CASE i = 0
        BY <4>1, <4>2, <4>3
      <4>4. CASE i # 0
        <5>1. i - 1 \in 0 .. m + 1 /\ i - 1 # m + 1
          BY <4>1, <4>4, <2>2
        <5>2. h[i - 1] = g[i - 1]
          BY <5>1
        <5> HIDE DEF h
        <5> QED  BY <4>1, <4>2, <4>4, <5>2
      <4> QED  BY <4>3, <4>4
    <3> QED  BY <3>1, <3>2
  <2>4. h = [i \in 0 .. m + 1 |-> h[i]]
    OBVIOUS
  <2> HIDE DEF h
  <2>5. Runs(h, m + 1)
    BY <2>3, <2>4
  <2> HIDE DEF Runs
  <2> QED  BY <2>2, <2>5
<1>5. n \in T
  <2>1. 0 \in T
    BY <1>1, <1>3
  <2> HIDE DEF T
  <2> QED  BY <1>1, <1>4, <2>1, InductionUpTo
<1>6. \E g : Runs(g, n)
  BY <1>5
<1>7. Runs(Ruled(seat, plan, far, want), n)
  <2> HIDE DEF Runs
  <2> QED  BY <1>2, <1>6
<1> QED  BY <1>7 DEF n, F

(* Every rule leaves a plan that fits; the last one delivers.               *)
LEMMA RuledFits ==
    ASSUME NEW seat, Ready(seat), NEW plan, Fits(plan, seat), NEW far, NEW want \in SUBSET Kinds
    PROVE  LET n == Len(RulesOf(seat))
               after == Ruled(seat, plan, far, want)
           IN  /\ n \in Nat /\ DOMAIN after = 0 .. n
               /\ \A i \in 0 .. n : Fits(after[i], seat)
               /\ seat \in setup.policy /\ Handed(seat, want) => after[n][0] \in want
               /\ /\ seat \notin setup.policy /\ setup.rules # <<>>
                  /\ setup.rules[Len(setup.rules)] = "ensure_movement_card"
                  /\ Held(seat, "movement") # {}
                  => Registers(after[n], "movement") # {}
<1> DEFINE n == Len(RulesOf(seat))
           after == Ruled(seat, plan, far, want)
           T == {i \in 0 .. n : Fits(after[i], seat)}
<1>0. seat \in Seats /\ setup \in Setups
  BY DEF Ready
<1>1. n \in Nat /\ \A i \in 1 .. n : RulesOf(seat)[i] \in Rules \union {"pilot_policy"}
  BY <1>0, RulesOfSeat
<1>2. after = [i \in 0 .. n |-> IF i = 0 THEN plan
                                ELSE Applied(RulesOf(seat)[i], seat, after[i - 1], far, want)]
  BY <1>0, RuledIs
<1> HIDE DEF n, after
<1>3. /\ DOMAIN after = 0 .. n /\ after[0] = plan
      /\ \A i \in 1 .. n : after[i] = Applied(RulesOf(seat)[i], seat, after[i - 1], far, want)
  <2>1. DOMAIN after = 0 .. n
    BY <1>2
  <2>2. after[0] = plan
    BY <1>1, <1>2
  <2>3. \A i \in 1 .. n : after[i] = Applied(RulesOf(seat)[i], seat, after[i - 1], far, want)
    BY <1>1, <1>2
  <2> QED  BY <2>1, <2>2, <2>3
<1>4. ASSUME NEW i \in 0 .. n - 1, i \in T
      PROVE  i + 1 \in T
  <2>1. i + 1 \in 1 .. n /\ i + 1 \in 0 .. n /\ (i + 1) - 1 = i
    BY <1>1
  <2>2. after[i + 1] = Applied(RulesOf(seat)[i + 1], seat, after[i], far, want)
    BY <2>1, <1>3
  <2>3. Fits(after[i], seat) /\ RulesOf(seat)[i + 1] \in Rules \union {"pilot_policy"}
    BY <1>4, <1>1, <2>1
  <2>4. Fits(after[i + 1], seat)
    BY <2>2, <2>3, AppliedFits
  <2> QED  BY <2>1, <2>4
<1>5. \A i \in 0 .. n : i \in T
  <2>1. 0 \in T
    BY <1>1, <1>3
  <2> HIDE DEF T
  <2> QED  BY <1>1, <1>4, <2>1, InductionUpTo
<1>6. ASSUME n > 0
      PROVE  /\ Fits(after[n - 1], seat) /\ RulesOf(seat)[n] \in Rules \union {"pilot_policy"}
             /\ after[n] = Applied(RulesOf(seat)[n], seat, after[n - 1], far, want)
  <2>1. n \in 1 .. n /\ n - 1 \in 0 .. n
    BY <1>1, <1>6
  <2> QED  BY <2>1, <1>1, <1>3, <1>5
<1>7. ASSUME seat \in setup.policy, Handed(seat, want)
      PROVE  after[n][0] \in want
  <2>1. n > 0 /\ RulesOf(seat)[n] = "pilot_policy"
    BY <1>7, <1>0, RulesOfSeat DEF n
  <2> QED  BY <2>1, <1>6, <1>7, AppliedFits
<1>8. ASSUME seat \notin setup.policy, setup.rules # <<>>, Held(seat, "movement") # {},
             setup.rules[Len(setup.rules)] = "ensure_movement_card"
      PROVE  Registers(after[n], "movement") # {}
  <2>1. RulesOf(seat) = setup.rules /\ setup.rules \in Seq(Rules)
    BY <1>8, <1>0, RulesOfSeat, SetupIs
  <2>2. n > 0 /\ RulesOf(seat)[n] = "ensure_movement_card"
    BY <1>8, <2>1 DEF n
  <2> QED  BY <2>2, <1>6, <1>8, AppliedFits
<1> QED  BY <1>1, <1>3, <1>5, <1>7, <1>8 DEF n, after

-----------------------------------------------------------------------------
(* The dealer.                                                              *)

LEMMA SizeOf ==
    ASSUME NEW b \in Bags
    PROVE  /\ IsFiniteSet(Copies(b)) /\ Size(b) \in Nat /\ Cardinality(Copies(b)) = Size(b)
           /\ \A c : c \in Copies(b) <=> \E k \in Kinds : c \in {k} \X (1 .. b[k])
<1>1. b \in [Kinds -> Nat] /\ IsFiniteSet(Kinds)
  BY KindsAre DEF Bags
<1> QED  BY <1>1, CopiesOf

LEMMA SizePlus ==
    ASSUME NEW a \in Bags, NEW b \in Bags
    PROVE  /\ Plus(a, b) \in Bags /\ Size(Plus(a, b)) = Size(a) + Size(b)
           /\ Size(a) \in Nat /\ Size(b) \in Nat
<1> DEFINE c == Plus(a, b)
           A == Copies(a)
           B == Copies(b)
           C == Copies(c)
           move == [x \in B |-> <<x[1], a[x[1]] + x[2]>>]
           T == C \ A
<1>1. a \in [Kinds -> Nat] /\ b \in [Kinds -> Nat]
  BY DEF Bags
<1>2. c \in Bags /\ \A k \in Kinds : c[k] = a[k] + b[k]
  BY <1>1 DEF Plus, Bags
<1>3. /\ IsFiniteSet(A) /\ Cardinality(A) = Size(a) /\ Size(a) \in Nat
      /\ \A x : x \in A <=> \E k \in Kinds : x \in {k} \X (1 .. a[k])
  BY SizeOf
<1>4. /\ IsFiniteSet(B) /\ Cardinality(B) = Size(b) /\ Size(b) \in Nat
      /\ \A x : x \in B <=> \E k \in Kinds : x \in {k} \X (1 .. b[k])
  BY SizeOf
<1>5. /\ IsFiniteSet(C) /\ Cardinality(C) = Size(c) /\ Size(c) \in Nat
      /\ \A x : x \in C <=> \E k \in Kinds : x \in {k} \X (1 .. c[k])
  <2> HIDE DEF c
  <2> QED  BY <1>2, SizeOf
<1> HIDE DEF A, B, C, c
<1>6. ASSUME NEW x
      PROVE  /\ x \in A <=> \E k \in Kinds : \E i \in 1 .. a[k] : x = <<k, i>>
             /\ x \in B <=> \E k \in Kinds : \E i \in 1 .. b[k] : x = <<k, i>>
             /\ x \in C <=> \E k \in Kinds : \E i \in 1 .. c[k] : x = <<k, i>>
  BY <1>3, <1>4, <1>5
<1>7. A \in SUBSET C
  <2> SUFFICES ASSUME NEW k \in Kinds, NEW i \in 1 .. a[k] PROVE <<k, i>> \in C
    BY <1>6
  <2>1. i \in 1 .. c[k]
    BY <1>1, <1>2
  <2> QED  BY <2>1, <1>6
<1>8. ASSUME NEW k \in Kinds, NEW i \in 1 .. b[k]
      PROVE  <<k, a[k] + i>> \in T
  <2>1. a[k] + i \in 1 .. c[k] /\ a[k] + i \notin 1 .. a[k]
    BY <1>1, <1>2
  <2>2. <<k, a[k] + i>> \in C
    BY <2>1, <1>6
  <2>3. <<k, a[k] + i>> \notin A
    BY <2>1, <1>6
  <2> QED  BY <2>2, <2>3
<1>9. ASSUME NEW x \in T
      PROVE  \E k \in Kinds : \E i \in 1 .. b[k] : x = <<k, a[k] + i>>
  <2>0. PICK k \in Kinds : \E j \in 1 .. c[k] : x = <<k, j>>
    BY <1>6
  <2>1. PICK j \in 1 .. c[k] : x = <<k, j>>
    BY <2>0
  <2>2. j \notin 1 .. a[k]
    BY <2>1, <1>6
  <2>3. j - a[k] \in 1 .. b[k] /\ j = a[k] + (j - a[k])
    BY <2>1, <2>2, <1>1, <1>2
  <2> QED  BY <2>1, <2>3
<1>10. \A k \in Kinds : \A i \in 1 .. b[k] : <<k, i>> \in B /\ move[<<k, i>>] = <<k, a[k] + i>>
  BY <1>6
<1>11. move \in [B -> T]
  <2>1. \A x \in B : move[x] \in T
    BY <1>6, <1>8, <1>10
  <2> QED  BY <2>1
<1>12. \A x \in T : \E y \in B : move[y] = x
  BY <1>9, <1>10
<1>13. \A x, y \in B : move[x] = move[y] => x = y
  <2> SUFFICES ASSUME NEW x \in B, NEW y \in B, move[x] = move[y] PROVE x = y
    OBVIOUS
  <2>1. PICK k \in Kinds : \E i \in 1 .. b[k] : x = <<k, i>>
    BY <1>6
  <2>2. PICK i \in 1 .. b[k] : x = <<k, i>>
    BY <2>1
  <2>3. PICK l \in Kinds : \E j \in 1 .. b[l] : y = <<l, j>>
    BY <1>6
  <2>4. PICK j \in 1 .. b[l] : y = <<l, j>>
    BY <2>3
  <2>5. <<k, a[k] + i>> = <<l, a[l] + j>>
    BY <2>2, <2>4, <1>10
  <2>6. k = l /\ a[k] + i = a[l] + j
    BY <2>5
  <2>7. i = j
    BY <2>6, <1>1
  <2> QED  BY <2>2, <2>4, <2>6, <2>7
<1> HIDE DEF move
<1>14. IsFiniteSet(T) /\ Cardinality(T) = Size(b)
  <2>1. IsFiniteSet(T)
    BY <1>5, FS_Difference
  <2>2. move \in Surjection(B, T)
    BY <1>11, <1>12 DEF Surjection
  <2>3. move \in Injection(B, T)
    BY <1>11, <1>13 DEF Injection, IsInjective
  <2> HIDE DEF T
  <2>4. Cardinality(T) = Cardinality(B)
    BY <2>2, <2>3, <1>4, FS_Surjection
  <2> QED  BY <2>1, <2>4, <1>4
<1>15. Cardinality(C) = Cardinality(A) + Cardinality(T)
  <2>1. Cardinality(C \ A) = Cardinality(C) - Cardinality(C \cap A)
    BY <1>5, FS_Difference
  <2>2. C \cap A = A
    BY <1>7
  <2>3. Cardinality(C) \in Nat /\ Cardinality(A) \in Nat
    BY <1>3, <1>5
  <2> QED  BY <2>1, <2>2, <2>3
<1> QED  BY <1>2, <1>3, <1>4, <1>5, <1>14, <1>15 DEF c

Piles == [draw : Bags, discard : Bags]

(* A hand is as large as it is asked to be and the deck can make it, and no *)
(* card is lost.                                                            *)
LEMMA DealIs ==
    ASSUME NEW pile \in Piles, NEW n \in Nat, NEW deck \in Bags,
           Plus(pile.draw, pile.discard) = deck, NEW d \in Deal(pile, n)
    PROVE  /\ d.hand \in Bags /\ d.draw \in Bags /\ d.discard \in Bags
           /\ Size(d.hand) = Low(n, Size(deck))
           /\ \A k \in Kinds : d.hand[k] + d.draw[k] + d.discard[k] = deck[k]
<1> DEFINE a == pile.draw
           b == pile.discard
           short == High(0, n - Size(a))
<1>1. a \in Bags /\ b \in Bags
  BY DEF Piles
<1>2. Size(a) \in Nat /\ Size(b) \in Nat /\ Size(deck) = Size(a) + Size(b)
  BY <1>1, SizePlus
<1>3. \A k \in Kinds : a[k] \in Nat /\ b[k] \in Nat /\ deck[k] = a[k] + b[k]
  BY <1>1 DEF Plus, Bags
<1>4. ASSUME NEW pool \in Bags, NEW l \in Nat, NEW h \in Draws(pool, l)
      PROVE  /\ h \in Bags /\ Size(h) = l /\ Minus(pool, h) \in Bags
             /\ \A k \in Kinds : h[k] \in Nat /\ pool[k] \in Nat
                                 /\ Minus(pool, h)[k] = pool[k] - h[k]
  <2>1. h \in [Kinds -> 0 .. l] /\ Size(h) = l /\ \A k \in Kinds : h[k] <= pool[k]
    BY DEF Draws, Within
  <2>2. \A k \in Kinds : h[k] \in Nat /\ pool[k] \in Nat
    BY <2>1 DEF Bags
  <2>3. \A k \in Kinds : pool[k] - h[k] \in Nat
    BY <2>1, <2>2
  <2>4. h \in Bags
    BY <2>1, <2>2 DEF Bags
  <2>5. Minus(pool, h) \in Bags
    BY <2>3 DEF Minus, Bags
  <2> QED  BY <2>1, <2>2, <2>4, <2>5 DEF Minus
<1> HIDE DEF a, b
<1>5. CASE short = 0
  <2>1. PICK h \in Draws(a, n) :
            d = [hand |-> h, draw |-> Minus(a, h), discard |-> b]
    BY <1>5 DEF Deal, a, b
  <2>2. /\ h \in Bags /\ Size(h) = n /\ Minus(a, h) \in Bags
        /\ \A k \in Kinds : h[k] \in Nat /\ a[k] \in Nat /\ Minus(a, h)[k] = a[k] - h[k]
    BY <1>1, <1>4
  <2>3. d.hand = h /\ d.draw = Minus(a, h) /\ d.discard = b
    BY <2>1
  <2>4. \A k \in Kinds : d.hand[k] + d.draw[k] + d.discard[k] = deck[k]
    BY <2>2, <2>3, <1>3
  <2>5. n = Low(n, Size(deck))
    BY <1>2, <1>5 DEF High, Low
  <2> QED  BY <1>1, <2>2, <2>3, <2>4, <2>5
<1>6. CASE short # 0
  <2> DEFINE l == Low(short, Size(b))
  <2>1. /\ short = n - Size(a) /\ l \in Nat
        /\ Size(a) + l = Low(n, Size(deck))
    BY <1>2, <1>6 DEF High, Low
  <2>2. PICK h \in Draws(b, l) :
            d = [hand |-> Plus(a, h), draw |-> Minus(b, h), discard |-> Nothing]
    BY <1>6 DEF Deal, a, b
  <2> HIDE DEF l
  <2>3. /\ h \in Bags /\ Size(h) = l /\ Minus(b, h) \in Bags
        /\ \A k \in Kinds : h[k] \in Nat /\ b[k] \in Nat /\ Minus(b, h)[k] = b[k] - h[k]
    BY <2>1, <1>1, <1>4
  <2>4. Plus(a, h) \in Bags /\ Size(Plus(a, h)) = Low(n, Size(deck))
    BY <2>1, <2>3, <1>1, <1>2, SizePlus
  <2>5. d.hand = Plus(a, h) /\ d.draw = Minus(b, h) /\ d.discard = Nothing
    BY <2>2
  <2>6. Nothing \in Bags /\ \A k \in Kinds : Nothing[k] = 0
    BY DEF Nothing, Bags
  <2>7. \A k \in Kinds : Plus(a, h)[k] = a[k] + h[k]
    BY DEF Plus
  <2>8. \A k \in Kinds : d.hand[k] + d.draw[k] + d.discard[k] = deck[k]
    BY <2>3, <2>5, <2>6, <2>7, <1>3
  <2> QED  BY <2>3, <2>4, <2>5, <2>6, <2>8
<1> QED  BY <1>5, <1>6

Whole(state) ==
    \A p \in DOMAIN setup.decks :
        state[p] \in Piles /\ Plus(state[p].draw, state[p].discard) = setup.decks[p]

LEMMA DealtSeat ==
    ASSUME setup \in Setups, NEW seat \in Seats, Whole(dealt), NEW d \in DealSeat(dealt, seat)
    PROVE  /\ DOMAIN d = DOMAIN setup.quota[seat] /\ DOMAIN d \subseteq DOMAIN setup.decks
           /\ IsFiniteSet(DOMAIN d)
           /\ \A p \in DOMAIN d :
                  /\ d[p].hand \in Bags /\ d[p].draw \in Bags /\ d[p].discard \in Bags
                  /\ Size(d[p].hand) = Low(setup.quota[seat][p], Size(setup.decks[p]))
                  /\ Conserved(d[p], p)
                  /\ Within(d[p].hand, setup.decks[p])
                  /\ Plus(d[p].draw, Plus(d[p].discard, d[p].hand)) = setup.decks[p]
<1> DEFINE Q == DOMAIN setup.quota[seat]
<1>1. \A p \in Q : /\ p \in DOMAIN setup.decks /\ IsFiniteSet(Q)
                   /\ setup.quota[seat][p] \in Nat
                   /\ setup.decks[p] \in Bags
  BY SetupIs
<1>2. DOMAIN d = Q /\ \A p \in Q : d[p] \in Deal(dealt[p], setup.quota[seat][p])
  BY DEF DealSeat
<1>3. IsFiniteSet(Q)
  BY <1>1, FS_EmptySet
<1> HIDE DEF Q
<1>4. ASSUME NEW p \in Q
      PROVE  /\ d[p].hand \in Bags /\ d[p].draw \in Bags /\ d[p].discard \in Bags
             /\ Size(d[p].hand) = Low(setup.quota[seat][p], Size(setup.decks[p]))
             /\ Conserved(d[p], p)
             /\ Within(d[p].hand, setup.decks[p])
             /\ Plus(d[p].draw, Plus(d[p].discard, d[p].hand)) = setup.decks[p]
  <2> DEFINE e == d[p]
             deck == setup.decks[p]
             pile == dealt[p]
             n == setup.quota[seat][p]
  <2>1. pile \in Piles /\ Plus(pile.draw, pile.discard) = deck /\ deck \in Bags
    BY <1>1 DEF Whole
  <2>2. n \in Nat
    BY <1>1
  <2>3. e \in Deal(pile, n)
    BY <1>2
  <2> HIDE DEF e, deck, pile, n
  <2>4. /\ e.hand \in Bags /\ e.draw \in Bags /\ e.discard \in Bags
        /\ Size(e.hand) = Low(n, Size(deck))
        /\ \A k \in Kinds : e.hand[k] + e.draw[k] + e.discard[k] = deck[k]
    BY <2>1, <2>2, <2>3, DealIs
  <2>5. /\ e.hand \in [Kinds -> Nat] /\ e.draw \in [Kinds -> Nat] /\ e.discard \in [Kinds -> Nat]
        /\ deck \in [Kinds -> Nat]
    BY <2>1, <2>4 DEF Bags
  <2>6. Within(e.hand, deck)
    BY <2>4, <2>5 DEF Within
  <2>7. /\ Plus(e.hand, Plus(e.draw, e.discard)) = [k \in Kinds |-> deck[k]]
        /\ Plus(e.draw, Plus(e.discard, e.hand)) = [k \in Kinds |-> deck[k]]
    <3>1. \A k \in Kinds : /\ e.hand[k] + (e.draw[k] + e.discard[k]) = deck[k]
                           /\ e.draw[k] + (e.discard[k] + e.hand[k]) = deck[k]
      BY <2>4, <2>5
    <3>2. /\ Plus(e.hand, Plus(e.draw, e.discard))
                 = [k \in Kinds |-> e.hand[k] + (e.draw[k] + e.discard[k])]
          /\ Plus(e.draw, Plus(e.discard, e.hand))
                 = [k \in Kinds |-> e.draw[k] + (e.discard[k] + e.hand[k])]
      BY DEF Plus
    <3> QED  BY <3>1, <3>2
  <2>8. deck = [k \in Kinds |-> deck[k]]
    BY <2>5
  <2> QED  BY <2>4, <2>6, <2>7, <2>8 DEF e, deck, n, Conserved
<1> QED  BY <1>1, <1>2, <1>3, <1>4 DEF Q

-----------------------------------------------------------------------------
(* The rows of a round.                                                     *)

LEMMA SeatsAre ==
    /\ Seats \in SUBSET Nat /\ IsFiniteSet(Seats) /\ Seats # {}
    /\ Cardinality(Seats) \in Nat \ {0}
<1>1. Seats \in SUBSET Nat /\ IsFiniteSet(Seats) /\ Seats # {}
  BY CardAssumption
<1>2. Cardinality(Seats) \in Nat /\ Cardinality(Seats) # 0
  BY <1>1, FS_CardinalityType, FS_EmptySet
<1> QED  BY <1>1, <1>2

LEMMA RoundLengthIs ==
    ASSUME setup \in Setups
    PROVE  /\ RoundLength \in Nat \ {0}
           /\ \A s \in Seats : setup.registers[s] \in Nat \ {0} /\ setup.registers[s] <= RoundLength
<1> DEFINE f == setup.registers
           g == [s \in Seats |-> s]
           R == {e \in Seats \X Seats : \/ f[e[1]] > f[e[2]]
                                        \/ f[e[1]] = f[e[2]] /\ e[1] > e[2]}
<1>1. f \in [Seats -> Nat \ {0}]
  BY SetupIs
<1> HIDE DEF f
<1>2. \A s \in Seats : s \in Nat /\ f[s] \in Nat \ {0}
  BY <1>1, SeatsAre
<1>3. f \in [Seats -> Int] /\ g \in [Seats -> Int]
  BY <1>1, <1>2
<1>4. ASSUME NEW x \in Seats, NEW y \in Seats
      PROVE  <<x, y>> \in R <=> \/ f[x] > f[y]
                                \/ f[x] = f[y] /\ g[x] > g[y]
                                \/ f[x] = f[y] /\ g[x] = g[y] /\ g[x] > g[y]
  <2>1. <<x, y>> \in R <=> \/ f[x] > f[y]
                           \/ f[x] = f[y] /\ x > y
    OBVIOUS
  <2> QED  BY <2>1, <1>2
<1>5. \A x, y \in Seats : f[x] = f[y] /\ g[x] = g[y] /\ g[x] = g[y] => x = y
  OBVIOUS
<1> HIDE DEF R, g
<1>6. Orders(R, Seats)
  BY <1>3, <1>4, <1>5, LexicographicOrder
<1>7. PICK x \in Seats : \A y \in Seats : y = x \/ <<x, y>> \in R
  <2>1. IsFiniteSet(Seats) /\ Seats # {}
    BY SeatsAre
  <2> QED  BY <1>6, <2>1, FirstExists
<1>8. \A y \in Seats : f[y] <= f[x]
  <2> SUFFICES ASSUME NEW y \in Seats PROVE f[y] <= f[x]
    OBVIOUS
  <2>1. y = x \/ f[x] > f[y] \/ f[x] = f[y]
    BY <1>4, <1>7
  <2> QED  BY <2>1, <1>2
<1>9. \E s \in Seats : \A q \in Seats : f[q] <= f[s]
  BY <1>8
<1>10. RoundLength = f[CHOOSE s \in Seats : \A q \in Seats : f[q] <= f[s]]
  BY DEF RoundLength, f
<1>11. /\ (CHOOSE s \in Seats : \A q \in Seats : f[q] <= f[s]) \in Seats
       /\ \A q \in Seats : f[q] <= f[CHOOSE s \in Seats : \A t \in Seats : f[t] <= f[s]]
  BY <1>9
<1> QED  BY <1>2, <1>10, <1>11 DEF f

LEMMA RowOfIndex ==
    ASSUME NEW n \in Nat \ {0}, NEW l \in Nat, NEW i \in 1 .. l * n
    PROVE  (i - 1) \div n \in 0 .. l - 1 /\ (i - 1) % n \in 0 .. n - 1
<1>1. i - 1 \in Nat /\ i - 1 < l * n /\ l * n \in Nat
  BY SMT
<1>2. /\ (i - 1) \div n \in Nat /\ (i - 1) % n \in 0 .. n - 1
      /\ i - 1 = n * ((i - 1) \div n) + ((i - 1) % n)
  BY <1>1, Rows
<1> DEFINE q == (i - 1) \div n
<1>3. q \in Nat /\ n * q < l * n
  BY <1>1, <1>2
<1> HIDE DEF q
<1>4. q < l
  BY <1>3
<1> QED  BY <1>2, <1>3, <1>4 DEF q

LEMMA IndexOfRow ==
    ASSUME NEW n \in Nat \ {0}, NEW l \in Nat, NEW r \in 0 .. l - 1, NEW j \in 0 .. n - 1
    PROVE  /\ n * r + j + 1 \in 1 .. l * n
           /\ ((n * r + j + 1) - 1) \div n = r /\ ((n * r + j + 1) - 1) % n = j
<1>1. r + 1 <= l /\ r \in Nat
  OBVIOUS
<1>2. n * (r + 1) <= n * l /\ n * (r + 1) = n * r + n /\ n * l = l * n /\ n * r \in Nat
  BY <1>1
<1>3. n * r + j + 1 \in 1 .. l * n
  BY <1>2
<1>4. (n * r + j + 1) - 1 = n * r + j
  BY <1>2
<1> QED  BY <1>1, <1>3, <1>4, RowIs

LEMMA SameIndex ==
    ASSUME NEW n \in Nat \ {0}, NEW i \in Nat \ {0}, NEW j \in Nat \ {0},
           (i - 1) \div n = (j - 1) \div n, (i - 1) % n = (j - 1) % n
    PROVE  i = j
<1>1. i - 1 \in Nat /\ j - 1 \in Nat
  OBVIOUS
<1>2. /\ i - 1 = n * ((i - 1) \div n) + ((i - 1) % n)
      /\ j - 1 = n * ((j - 1) \div n) + ((j - 1) % n)
  BY <1>1, Rows
<1>3. i - 1 = j - 1
  BY <1>2
<1> QED  BY <1>1, <1>3

LEMMA NextIndex ==
    ASSUME NEW n \in Nat \ {0}, NEW i \in Nat, i >= 2
    PROVE  /\ ~ ((i - 1) \div n < ((i - 1) - 1) \div n)
           /\ (i - 1) \div n = ((i - 1) - 1) \div n => ~ ((i - 1) % n < ((i - 1) - 1) % n)
<1> DEFINE x == i - 1
           y == (i - 1) - 1
<1>1. x \in Nat /\ y \in Nat /\ x = y + 1
  OBVIOUS
<1> HIDE DEF x, y
<1>2. /\ x \div n \in Nat /\ x % n \in 0 .. n - 1 /\ x = n * (x \div n) + (x % n)
      /\ y \div n \in Nat /\ y % n \in 0 .. n - 1 /\ y = n * (y \div n) + (y % n)
  BY <1>1, Rows
<1>3. ASSUME NEW p \in Nat, NEW q \in Nat, NEW a \in 0 .. n - 1, NEW b \in 0 .. n - 1,
             n * p + a = n * q + b + 1
      PROVE  ~ (p < q) /\ (p = q => ~ (a < b))
  <2>1. ASSUME p < q PROVE FALSE
    <3>1. p + 1 <= q
      BY <2>1
    <3>2. n * (p + 1) <= n * q /\ n * (p + 1) = n * p + n
      BY <3>1
    <3> QED  BY <3>2, <1>3
  <2> QED  BY <2>1, <1>3
<1>4. n * (x \div n) + (x % n) = n * (y \div n) + (y % n) + 1
  BY <1>1, <1>2
<1>5. ~ (x \div n < y \div n) /\ (x \div n = y \div n => ~ (x % n < y % n))
  BY <1>2, <1>3, <1>4
<1> QED  BY <1>5 DEF x, y

(* What a closed round's rows are.                                          *)
RowsRight(list) ==
    LET n == Cardinality(Seats)
    IN  /\ Len(list) = RoundLength * n /\ DOMAIN list = 1 .. RoundLength * n
        /\ \A i \in 1 .. RoundLength * n :
               /\ list[i].seat \in Seats
               /\ list[i].register = (i - 1) \div n /\ list[i].rank = (i - 1) % n
               /\ IF list[i].register < setup.registers[list[i].seat]
                  THEN list[i].card \in Kinds ELSE list[i].card = NoCard
               /\ \/ list[i].outcome = "heat_locked"
                  \/ list[i].card = NoCard
                  \/ hands[list[i].seat][list[i].card] > 0
        /\ \A i, j \in 1 .. RoundLength * n :
               list[i].register = list[j].register /\ list[i].seat = list[j].seat => i = j
        /\ \A r \in 0 .. RoundLength - 1 : \A s \in Seats :
               \E i \in 1 .. RoundLength * n : list[i].register = r /\ list[i].seat = s

Repeats(list) ==
    \A i \in DOMAIN list : list[i].outcome = "heat_locked" =>
        /\ list[i].seat \in Seats /\ list[i].register \in Locked(list[i].seat)
        /\ list[i].card = previous[list[i].seat][list[i].register]

\* What a plan must be for its rows to be right.
PlanUsable(s) == Ready(s) /\ Fits(plans[s], s)

Memory(s) ==
    /\ DOMAIN previous[s] = 0 .. setup.registers[s] - 1
    /\ \A r \in 0 .. setup.registers[s] - 1 : previous[s][r] \in Kinds

Remembers(s) == Locked(s) # {} => Memory(s)

LEMMA CardIs ==
    ASSUME NEW s \in Seats, PlanUsable(s), Remembers(s), NEW r \in Nat
    PROVE  /\ r < setup.registers[s] => CardAt(s, r) \in Kinds
           /\ ~ (r < setup.registers[s]) => CardAt(s, r) = NoCard
           /\ Outcome(s, r) = "heat_locked" => r \in Locked(s) /\ CardAt(s, r) = previous[s][r]
           /\ \/ Outcome(s, r) = "heat_locked" \/ CardAt(s, r) = NoCard
              \/ hands[s][CardAt(s, r)] > 0
           /\ Urgency(s, r) \in Nat
<1>0. setup \in Setups /\ depth[s] \in Nat
  BY DEF PlanUsable, Ready
<1>1. PICK m \in Nat \ {0} : /\ m <= setup.registers[s]
                             /\ Locked(s) = m .. setup.registers[s] - 1
                             /\ Free(s) = 0 .. m - 1
  BY <1>0, FreeIs
<1> DEFINE n == setup.registers[s]
<1>2. n \in Nat \ {0}
  BY <1>0, SetupIs
<1> HIDE DEF n
<1>4. CASE ~ (r < n)
  <2>1. r >= n
    BY <1>2, <1>4
  <2>2. CardAt(s, r) = NoCard /\ Outcome(s, r) = "auto_remain"
    BY <2>1 DEF CardAt, Outcome, n
  <2>3. Urgency(s, r) = 0
    BY <2>2 DEF Urgency
  <2> QED  BY <1>4, <2>2, <2>3 DEF n
<1>5. CASE r < n /\ r \in Locked(s)
  <2>1. ~ (r >= n)
    BY <1>2, <1>5
  <2>2. CardAt(s, r) = previous[s][r] /\ Outcome(s, r) = "heat_locked"
    BY <2>1, <1>5 DEF CardAt, Outcome, n
  <2>3. previous[s][r] \in Kinds
    <3>1. r \in 0 .. n - 1
      BY <1>2, <1>5
    <3> QED  BY <1>5, <3>1 DEF Remembers, Memory, n
  <2>4. Urgency(s, r) \in Nat
    BY <2>2, <2>3, KindsAre DEF Urgency
  <2> QED  BY <1>5, <2>2, <2>3, <2>4 DEF n
<1>6. CASE r < n /\ r \notin Locked(s)
  <2>1. ~ (r >= n) /\ r \in Free(s)
    BY <1>1, <1>2, <1>6 DEF n
  <2>2. CardAt(s, r) = plans[s][r] /\ Outcome(s, r) = "resolved"
    BY <2>1, <1>6 DEF CardAt, Outcome, n
  <2>3. plans[s] \in [Free(s) -> Kinds] /\ \A k \in Kinds : Counted(plans[s])[k] <= hands[s][k]
    BY FitsIs DEF PlanUsable
  <2>4. plans[s][r] \in Kinds
    BY <2>1, <2>3
  <2>5. hands[s][plans[s][r]] > 0
    <3> DEFINE k == plans[s][r]
               D == Free(s)
    <3>1. IsFiniteSet(D) /\ plans[s] \in [D -> Kinds]
      BY <2>3, <1>0, FreeRegisters
    <3>2. k \in Kinds /\ hands[s][k] \in Nat
      BY <2>4 DEF PlanUsable, Ready, Bags
    <3>3. ~ \A q \in D : plans[s][q] # k
      BY <2>1
    <3> HIDE DEF D, k
    <3>4. /\ Counted(plans[s]) \in Bags
          /\ \A x \in Kinds : Counted(plans[s])[x] = 0 <=> \A q \in D : plans[s][q] # x
      BY <3>1, CountedIs
    <3>5. Counted(plans[s])[k] # 0 /\ Counted(plans[s])[k] \in Nat
      BY <3>2, <3>3, <3>4 DEF Bags
    <3>6. Counted(plans[s])[k] <= hands[s][k]
      BY <2>3, <3>2
    <3>7. hands[s][k] > 0
      BY <3>2, <3>5, <3>6
    <3> QED  BY <3>7 DEF k
  <2>6. Urgency(s, r) \in Nat
    BY <2>2, <2>4, KindsAre DEF Urgency
  <2> QED  BY <1>6, <2>2, <2>4, <2>5, <2>6 DEF n
<1> QED  BY <1>4, <1>5, <1>6

LEMMA BeforeOrders ==
    ASSUME NEW r \in Nat, NEW initiative \in [Seats -> 0 .. 1],
           \A s \in Seats : Urgency(s, r) \in Nat
    PROVE  Orders(Before(r, initiative), Seats)
<1> DEFINE R == Before(r, initiative)
           f == [s \in Seats |-> Urgency(s, r)]
           g == [s \in Seats |-> initiative[s]]
           h == [s \in Seats |-> 0 - s]
<1>1. \A s \in Seats : s \in Nat /\ initiative[s] \in Int
  BY SeatsAre
<1>2. f \in [Seats -> Int] /\ g \in [Seats -> Int] /\ h \in [Seats -> Int]
  BY <1>1
<1>3. ASSUME NEW x \in Seats, NEW y \in Seats
      PROVE  <<x, y>> \in R <=> \/ f[x] > f[y]
                                \/ f[x] = f[y] /\ g[x] > g[y]
                                \/ f[x] = f[y] /\ g[x] = g[y] /\ h[x] > h[y]
  <2> DEFINE e == <<x, y>>
  <2>1. e \in Seats \X Seats /\ e[1] = x /\ e[2] = y
    OBVIOUS
  <2> HIDE DEF e
  <2>2. e \in R <=> \/ Urgency(x, r) > Urgency(y, r)
                    \/ Urgency(x, r) = Urgency(y, r) /\ initiative[x] > initiative[y]
                    \/ Urgency(x, r) = Urgency(y, r) /\ initiative[x] = initiative[y] /\ x < y
    BY <2>1, Zenon DEF Before
  <2>3. x < y <=> h[x] > h[y]
    BY <1>1
  <2>4. /\ f[x] = Urgency(x, r) /\ f[y] = Urgency(y, r)
        /\ g[x] = initiative[x] /\ g[y] = initiative[y]
    OBVIOUS
  <2> HIDE DEF R, f, g, h
  <2>5. e \in R <=> \/ f[x] > f[y]
                    \/ f[x] = f[y] /\ g[x] > g[y]
                    \/ f[x] = f[y] /\ g[x] = g[y] /\ h[x] > h[y]
    BY <2>2, <2>3, <2>4, Zenon
  <2> QED  BY <2>5 DEF e
<1>4. \A x, y \in Seats : f[x] = f[y] /\ g[x] = g[y] /\ h[x] = h[y] => x = y
  BY <1>1
<1> HIDE DEF R, f, g, h
<1>5. Orders(R, Seats)
  <2>1. ByNumbers(R, Seats, f, g, h)
    BY <1>3 DEF ByNumbers
  <2>2. ToldApart(Seats, f, g, h)
    BY <1>4 DEF ToldApart
  <2> QED  BY <2>1, <2>2, <1>2, OrderByNumbers
<1> QED  BY <1>5 DEF R

LEMMA AllRowsRight ==
    ASSUME setup \in Setups, \A s \in Seats : PlanUsable(s) /\ Remembers(s),
           NEW initiative \in [Seats -> 0 .. 1]
    PROVE  RowsRight(AllRows(initiative)) /\ Repeats(AllRows(initiative))
<1> DEFINE n == Cardinality(Seats)
           l == RoundLength
           N == l * n
           order == [r \in 0 .. l - 1 |-> Sorted(Seats, Before(r, initiative))]
           list == AllRows(initiative)
           reg(i) == (i - 1) \div n
           rank(i) == (i - 1) % n
           who(i) == order[reg(i)][rank(i) + 1]
<1>1. n \in Nat \ {0} /\ l \in Nat \ {0}
  BY SeatsAre, RoundLengthIs
<1>2. ASSUME NEW r \in 0 .. l - 1
      PROVE  /\ \A j \in 1 .. n : order[r][j] \in Seats
             /\ \A x \in Seats : \E j \in 1 .. n : order[r][j] = x
             /\ \A i, j \in 1 .. n : order[r][i] = order[r][j] => i = j
  <2>0. r \in Nat
    BY <1>1
  <2>1. \A s \in Seats : Urgency(s, r) \in Nat
    BY <2>0, CardIs
  <2>2. Orders(Before(r, initiative), Seats)
    BY <2>0, <2>1, BeforeOrders
  <2>3. IsFiniteSet(Seats)
    BY SeatsAre
  <2> DEFINE sorted == Sorted(Seats, Before(r, initiative))
  <2>4. /\ sorted \in [1 .. n -> Seats]
        /\ \A x \in Seats : \E i \in 1 .. n : sorted[i] = x
        /\ \A i, j \in 1 .. n : sorted[i] = sorted[j] => i = j
    BY <2>2, <2>3, SortedLists
  <2>5. order[r] = sorted
    OBVIOUS
  <2> HIDE DEF sorted, order, n
  <2> QED  BY <2>4, <2>5
<1>3. list = [i \in 1 .. N |->
                 [seat |-> who(i), register |-> reg(i), card |-> CardAt(who(i), reg(i)),
                  outcome |-> Outcome(who(i), reg(i)), rank |-> rank(i)]]
  BY DEF AllRows
<1> HIDE DEF n, l, order, list
<1>4. N \in Nat
  BY <1>1
<1>5. ASSUME NEW i \in 1 .. N
      PROVE  /\ reg(i) \in 0 .. l - 1 /\ rank(i) \in 0 .. n - 1
             /\ rank(i) + 1 \in 1 .. n /\ who(i) \in Seats /\ i \in Nat \ {0} /\ reg(i) \in Nat
  <2>1. reg(i) \in 0 .. l - 1 /\ rank(i) \in 0 .. n - 1
    BY <1>1, RowOfIndex
  <2>2. rank(i) + 1 \in 1 .. n /\ reg(i) \in Nat /\ i \in Nat \ {0}
    <3> HIDE DEF rank, reg
    <3> QED  BY <1>1, <2>1
  <2> HIDE DEF reg, rank
  <2> QED  BY <2>1, <2>2, <1>2
<1> HIDE DEF N, reg, rank
<1>6. ASSUME NEW i \in 1 .. N
      PROVE  /\ list[i].seat = who(i) /\ list[i].register = reg(i) /\ list[i].rank = rank(i)
             /\ list[i].card = CardAt(who(i), reg(i))
             /\ list[i].outcome = Outcome(who(i), reg(i))
  <2> HIDE DEF who
  <2> QED  BY <1>3
<1>7. Len(list) = N /\ DOMAIN list = 1 .. N
  <2> DEFINE S == {list[i] : i \in 1 .. N}
  <2>1. list \in [1 .. N -> S]
    <3> HIDE DEF who
    <3>1. DOMAIN list = 1 .. N /\ list = [i \in 1 .. N |-> list[i]]
      BY <1>3
    <3> QED  BY <3>1
  <2> HIDE DEF S
  <2> QED  BY <2>1, <1>4, Sequence
<1>8. ASSUME NEW i \in 1 .. N
      PROVE  /\ list[i].seat \in Seats
             /\ IF list[i].register < setup.registers[list[i].seat]
                THEN list[i].card \in Kinds ELSE list[i].card = NoCard
             /\ \/ list[i].outcome = "heat_locked"
                \/ list[i].card = NoCard
                \/ hands[list[i].seat][list[i].card] > 0
             /\ list[i].outcome = "heat_locked" =>
                    /\ list[i].register \in Locked(list[i].seat)
                    /\ list[i].card = previous[list[i].seat][list[i].register]
  <2> DEFINE s == who(i)
             r == reg(i)
  <2>1. s \in Seats /\ r \in Nat
    BY <1>5
  <2> HIDE DEF s, r
  <2>2. /\ r < setup.registers[s] => CardAt(s, r) \in Kinds
        /\ ~ (r < setup.registers[s]) => CardAt(s, r) = NoCard
        /\ Outcome(s, r) = "heat_locked" => r \in Locked(s) /\ CardAt(s, r) = previous[s][r]
        /\ \/ Outcome(s, r) = "heat_locked" \/ CardAt(s, r) = NoCard
           \/ hands[s][CardAt(s, r)] > 0
    BY <2>1, CardIs
  <2>3. /\ list[i].seat = s /\ list[i].register = r
        /\ list[i].card = CardAt(s, r) /\ list[i].outcome = Outcome(s, r)
    BY <1>6 DEF s, r
  <2> QED  BY <2>1, <2>2, <2>3, Zenon
<1>9. ASSUME NEW i \in 1 .. N, NEW j \in 1 .. N,
             list[i].register = list[j].register, list[i].seat = list[j].seat
      PROVE  i = j
  <2>1. reg(i) = reg(j) /\ who(i) = who(j)
    BY <1>6, <1>9
  <2>2. rank(i) + 1 = rank(j) + 1
    BY <1>2, <1>5, <2>1
  <2>3. rank(i) = rank(j)
    BY <1>1, <1>5, <2>2
  <2> QED  BY <1>1, <1>5, <2>1, <2>3, SameIndex DEF reg, rank
<1>10. ASSUME NEW r \in 0 .. l - 1, NEW s \in Seats
       PROVE  \E i \in 1 .. N : list[i].register = r /\ list[i].seat = s
  <2>1. PICK j \in 1 .. n : order[r][j] = s
    BY <1>2
  <2> DEFINE k == j - 1
             i == n * r + k + 1
  <2>2. k \in 0 .. n - 1 /\ k + 1 = j
    BY <1>1
  <2> HIDE DEF k
  <2>3. i \in 1 .. N /\ reg(i) = r /\ rank(i) = k
    BY <1>1, <2>2, IndexOfRow DEF reg, rank, N
  <2> HIDE DEF i
  <2>4. who(i) = s
    BY <2>1, <2>2, <2>3
  <2> QED  BY <2>3, <2>4, <1>6
<1>11. RowsRight(list)
  <2> HIDE DEF who
  <2>1. \A i \in 1 .. N : list[i].register = (i - 1) \div n /\ list[i].rank = (i - 1) % n
    BY <1>6 DEF reg, rank
  <2> QED  BY <1>7, <1>8, <1>9, <1>10, <2>1 DEF RowsRight, N, n, l
<1>12. Repeats(list)
  BY <1>7, <1>8 DEF Repeats
<1> QED  BY <1>11, <1>12 DEF list

(* A row of a seat and register, by what carry_forward_plans keeps.         *)
LEMMA CarriedIs ==
    ASSUME setup \in Setups, RowsRight(rows), NEW s \in Seats
    PROVE  /\ DOMAIN Carried[s] = 0 .. setup.registers[s] - 1
           /\ \A r \in 0 .. setup.registers[s] - 1 :
                  /\ Carried[s][r] \in Kinds
                  /\ \E j \in DOMAIN rows : /\ rows[j].seat = s /\ rows[j].register = r
                                            /\ rows[j].card = Carried[s][r]
<1> DEFINE N == RoundLength * Cardinality(Seats)
           n == setup.registers[s]
           mine == {i \in DOMAIN rows : rows[i].seat = s /\ rows[i].card # NoCard}
           used == {rows[i].register : i \in mine}
<1>1. n \in Nat \ {0} /\ n <= RoundLength /\ RoundLength \in Nat \ {0}
  BY RoundLengthIs
<1>2. /\ DOMAIN rows = 1 .. N
      /\ \A i \in 1 .. N : /\ rows[i].seat \in Seats
                           /\ rows[i].register = (i - 1) \div Cardinality(Seats)
                           /\ IF rows[i].register < setup.registers[rows[i].seat]
                              THEN rows[i].card \in Kinds ELSE rows[i].card = NoCard
      /\ \A i, j \in 1 .. N :
             rows[i].register = rows[j].register /\ rows[i].seat = rows[j].seat => i = j
      /\ \A r \in 0 .. RoundLength - 1 : \A q \in Seats :
             \E i \in 1 .. N : rows[i].register = r /\ rows[i].seat = q
  BY DEF RowsRight
<1>3. Carried[s] = [r \in used |-> rows[CHOOSE i \in mine : rows[i].register = r].card]
  BY DEF Carried
<1>4. \A i \in 1 .. N : rows[i].register \in 0 .. RoundLength - 1
  <2> DEFINE l == RoundLength
             c == Cardinality(Seats)
  <2>1. l \in Nat /\ c \in Nat \ {0}
    BY <1>1, SeatsAre
  <2> HIDE DEF l, c
  <2>2. \A i \in 1 .. l * c : (i - 1) \div c \in 0 .. l - 1
    BY <2>1, RowOfIndex
  <2> QED  BY <1>2, <2>2 DEF l, c
<1> HIDE DEF N, n
<1>5. ASSUME NEW i \in mine
      PROVE  rows[i].register \in 0 .. n - 1 /\ rows[i].card \in Kinds /\ rows[i].seat = s
             /\ i \in 1 .. N
  <2>1. i \in 1 .. N /\ rows[i].seat = s /\ rows[i].card # NoCard
    BY <1>2
  <2>2. rows[i].register < n /\ rows[i].card \in Kinds
    BY <1>2, <2>1 DEF n
  <2> QED  BY <1>1, <1>4, <2>1, <2>2
<1>6. ASSUME NEW r \in 0 .. n - 1
      PROVE  \E i \in mine : rows[i].register = r
  <2>1. r \in 0 .. RoundLength - 1 /\ r < n
    BY <1>1
  <2>2. PICK i \in 1 .. N : rows[i].register = r /\ rows[i].seat = s
    BY <1>2, <2>1
  <2>3. rows[i].card \in Kinds
    BY <1>2, <2>1, <2>2 DEF n
  <2>4. rows[i].card # NoCard
    BY <2>3, KindsAre
  <2> QED  BY <1>2, <2>2, <2>4
<1>7. used = 0 .. n - 1
  BY <1>5, <1>6
<1>8. ASSUME NEW r \in 0 .. n - 1
      PROVE  /\ Carried[s][r] \in Kinds
             /\ \E j \in DOMAIN rows : /\ rows[j].seat = s /\ rows[j].register = r
                                       /\ rows[j].card = Carried[s][r]
  <2> DEFINE i == CHOOSE i \in mine : rows[i].register = r
  <2>1. i \in mine /\ rows[i].register = r
    BY <1>6
  <2>2. Carried[s][r] = rows[i].card
    <3>1. r \in used
      BY <1>7
    <3> HIDE DEF used, mine
    <3> QED  BY <1>3, <3>1
  <2> HIDE DEF i
  <2> QED  BY <1>5, <2>1, <2>2
<1>9. DOMAIN Carried[s] = 0 .. n - 1
  <2> HIDE DEF used, mine
  <2> QED  BY <1>3, <1>7
<1> QED  BY <1>8, <1>9 DEF n

-----------------------------------------------------------------------------
(* What replay refuses.                                                     *)

LEMMA RowsShown ==
    ASSUME setup \in Setups, RowsRight(rows), NEW m \in 1 .. RoundLength,
           published = m * Cardinality(Seats)
    PROVE  /\ Shown # {} /\ Used = 0 .. m - 1
           /\ \A i \in Shown : i \in DOMAIN rows
           /\ \A r \in Used : /\ {rows[i].seat : i \in At(r)} = Seats
                              /\ {rows[i].rank : i \in At(r)} = 0 .. Cardinality(Seats) - 1
                              /\ Cardinality(At(r)) = Cardinality(Seats)
           /\ \A i \in 2 .. published :
                  /\ ~ (rows[i].register < rows[i - 1].register)
                  /\ rows[i].register = rows[i - 1].register
                         => ~ (rows[i].rank < rows[i - 1].rank)
<1> DEFINE n == Cardinality(Seats)
           l == RoundLength
<1>1. n \in Nat \ {0} /\ l \in Nat \ {0} /\ m \in Nat \ {0} /\ m <= l
  BY SeatsAre, RoundLengthIs
<1>2. /\ DOMAIN rows = 1 .. l * n
      /\ \A i \in 1 .. l * n : /\ rows[i].seat \in Seats
                               /\ rows[i].register = (i - 1) \div n
                               /\ rows[i].rank = (i - 1) % n
      /\ \A i, j \in 1 .. l * n :
             rows[i].register = rows[j].register /\ rows[i].seat = rows[j].seat => i = j
      /\ \A r \in 0 .. l - 1 : \A s \in Seats :
             \E i \in 1 .. l * n : rows[i].register = r /\ rows[i].seat = s
  BY DEF RowsRight
<1>3. Shown = 1 .. m * n
  BY DEF Shown
<1> HIDE DEF n, l
<1>4. m * n \in Nat /\ m * n <= l * n /\ 1 <= m * n /\ l * n \in Nat
  BY <1>1
<1>5. Shown # {} /\ \A i \in Shown : i \in 1 .. l * n
  BY <1>3, <1>4
<1>6. \A i \in Shown : /\ rows[i].register = (i - 1) \div n /\ rows[i].rank = (i - 1) % n
                       /\ rows[i].register \in 0 .. m - 1 /\ rows[i].rank \in 0 .. n - 1
  <2> SUFFICES ASSUME NEW i \in 1 .. m * n
               PROVE  /\ rows[i].register = (i - 1) \div n /\ rows[i].rank = (i - 1) % n
                      /\ rows[i].register \in 0 .. m - 1 /\ rows[i].rank \in 0 .. n - 1
    BY <1>3
  <2>1. rows[i].register = (i - 1) \div n /\ rows[i].rank = (i - 1) % n
    BY <1>2, <1>3, <1>5
  <2>2. (i - 1) \div n \in 0 .. m - 1 /\ (i - 1) % n \in 0 .. n - 1
    BY <1>1, RowOfIndex
  <2> QED  BY <2>1, <2>2
<1>7. ASSUME NEW r \in 0 .. m - 1, NEW j \in 0 .. n - 1
      PROVE  \E i \in Shown : rows[i].register = r /\ rows[i].rank = j
  <2> DEFINE i == n * r + j + 1
  <2>1. i \in 1 .. m * n /\ (i - 1) \div n = r /\ (i - 1) % n = j
    BY <1>1, IndexOfRow
  <2> HIDE DEF i
  <2> QED  BY <2>1, <1>3, <1>6
<1>8. Used = 0 .. m - 1
  <2>1. \A r \in 0 .. m - 1 : r \in Used
    <3>1. 0 \in 0 .. n - 1
      BY <1>1
    <3> QED  BY <3>1, <1>7 DEF Used
  <2>2. \A r \in Used : r \in 0 .. m - 1
    BY <1>6 DEF Used
  <2> QED  BY <2>1, <2>2
<1>9. ASSUME NEW i \in 1 .. l * n, rows[i].register \in 0 .. m - 1
      PROVE  i \in Shown
  <2>1. i - 1 \in Nat /\ rows[i].register = (i - 1) \div n
    BY <1>2, <1>4
  <2> DEFINE q == (i - 1) \div n
             j == (i - 1) % n
  <2>2. q \in Nat /\ j \in 0 .. n - 1 /\ i - 1 = n * q + j
    BY <2>1, <1>1, Rows
  <2>3. q \in 0 .. m - 1
    BY <2>1, <1>9
  <2> HIDE DEF q, j
  <2>4. n * q + j + 1 \in 1 .. m * n
    BY <1>1, <2>2, <2>3, IndexOfRow
  <2>5. i = n * q + j + 1
    <3>1. n * q \in Nat
      BY <1>1, <2>2
    <3> QED  BY <2>2, <3>1
  <2> QED  BY <2>4, <2>5, <1>3
<1>10. ASSUME NEW r \in Used
       PROVE  /\ {rows[i].seat : i \in At(r)} = Seats
              /\ {rows[i].rank : i \in At(r)} = 0 .. n - 1
              /\ Cardinality(At(r)) = n
  <2>1. r \in 0 .. m - 1 /\ r \in 0 .. l - 1
    BY <1>1, <1>8
  <2>2. \A i \in At(r) : i \in Shown /\ i \in 1 .. l * n /\ rows[i].register = r
    BY <1>5 DEF At
  <2>3. \A i \in 1 .. l * n : rows[i].register = r => i \in At(r)
    BY <1>9, <2>1 DEF At
  <2>4. \A s \in Seats : \E i \in At(r) : rows[i].seat = s
    BY <1>2, <2>1, <2>3
  <2>5. {rows[i].seat : i \in At(r)} = Seats
    BY <1>2, <2>2, <2>4
  <2>6. {rows[i].rank : i \in At(r)} = 0 .. n - 1
    <3>1. \A j \in 0 .. n - 1 : \E i \in At(r) : rows[i].rank = j
      BY <1>7, <2>1 DEF At
    <3>2. \A i \in At(r) : rows[i].rank \in 0 .. n - 1
      BY <1>6, <2>2
    <3> QED  BY <3>1, <3>2
  <2>7. Cardinality(At(r)) = n
    <3> DEFINE f == [i \in At(r) |-> rows[i].seat]
    <3>1. f \in [At(r) -> Seats] /\ \A s \in Seats : \E i \in At(r) : f[i] = s
      BY <1>2, <2>2, <2>4
    <3>2. \A a, b \in At(r) : f[a] = f[b] => a = b
      BY <1>2, <2>2
    <3>3. IsFiniteSet(Seats)
      BY SeatsAre
    <3> HIDE DEF f
    <3>4. f \in Injection(At(r), Seats) /\ f \in Surjection(At(r), Seats)
      BY <3>1, <3>2 DEF Injection, IsInjective, Surjection
    <3> QED  BY <3>3, <3>4, FS_Injection DEF n
  <2> QED  BY <2>5, <2>6, <2>7
<1>11. ASSUME NEW i \in 2 .. published
       PROVE  /\ ~ (rows[i].register < rows[i - 1].register)
              /\ rows[i].register = rows[i - 1].register
                     => ~ (rows[i].rank < rows[i - 1].rank)
  <2>1. published = m * n
    BY DEF n
  <2>2. i \in Shown /\ i - 1 \in Shown /\ i \in Nat /\ i >= 2
    BY <1>3, <1>4, <2>1
  <2>3. /\ rows[i].register = (i - 1) \div n /\ rows[i].rank = (i - 1) % n
        /\ rows[i - 1].register = ((i - 1) - 1) \div n
        /\ rows[i - 1].rank = ((i - 1) - 1) % n
    BY <1>6, <2>2
  <2> QED  BY <1>1, <2>2, <2>3, NextIndex
<1> QED  BY <1>2, <1>5, <1>8, <1>10, <1>11 DEF n

(* Of a round with right rows, usable plans and hands from the decks,       *)
(* replay refuses only a repeated card or two hands of a shared deck.       *)
LEMMA RefusalsAre ==
    ASSUME setup \in Setups, RowsRight(rows), NEW m \in 1 .. RoundLength,
           published = m * Cardinality(Seats),
           \A s \in Seats : PlanUsable(s),
           \A s \in Seats : \A p \in DOMAIN parts[s] : Within(parts[s][p], setup.decks[p])
    PROVE  /\ Refusals \subseteq {"absent", "hands"}
           /\ "absent" \in Refusals => \E i \in Shown : rows[i].outcome = "heat_locked"
           /\ "hands" \in Refusals => setup.shared
<1>1. /\ Shown # {} /\ Used = 0 .. m - 1
      /\ \A i \in Shown : i \in DOMAIN rows
  BY RowsShown
<1>2. \A r \in Used : /\ {rows[i].seat : i \in At(r)} = Seats
                      /\ {rows[i].rank : i \in At(r)} = 0 .. Cardinality(At(r)) - 1
  BY RowsShown
<1>3. ~ \E i \in 2 .. published :
            \/ rows[i].register < rows[i - 1].register
            \/ rows[i].register = rows[i - 1].register /\ rows[i].rank < rows[i - 1].rank
  BY RowsShown
<1>4. DOMAIN rows = 1 .. RoundLength * Cardinality(Seats)
  BY DEF RowsRight
<1>5. ~ \E i, j \in Shown :
            i # j /\ rows[i].register = rows[j].register /\ rows[i].seat = rows[j].seat
  BY <1>1, <1>4 DEF RowsRight
<1>6. ~ \E s \in Seats : ~ Within(Counted(plans[s]), hands[s])
  BY DEF PlanUsable, Fits, Legal
<1>7. ASSUME NEW i \in Shown, rows[i].card # NoCard, hands[rows[i].seat][rows[i].card] = 0
      PROVE  rows[i].outcome = "heat_locked"
  <2>1. \/ rows[i].outcome = "heat_locked"
        \/ rows[i].card = NoCard
        \/ hands[rows[i].seat][rows[i].card] > 0
    BY <1>1, <1>4 DEF RowsRight
  <2> QED  BY <2>1, <1>7
<1>8. ASSUME "hands" \in Refusals PROVE setup.shared
  BY <1>8 DEF Refusals, Refused
<1>9. ASSUME "absent" \in Refusals PROVE \E i \in Shown : rows[i].outcome = "heat_locked"
  <2>1. \E i \in Shown : rows[i].card # NoCard /\ hands[rows[i].seat][rows[i].card] = 0
    BY <1>9 DEF Refusals, Refused
  <2> QED  BY <2>1, <1>7
<1>10. /\ Refused("phases", Shown = {}) = {}
       /\ Refused("plans", \E s \in Seats : ~Within(Counted(plans[s]), hands[s])) = {}
       /\ Refused("order", \E i \in 2 .. published :
             \/ rows[i].register < rows[i - 1].register
             \/ rows[i].register = rows[i - 1].register /\ rows[i].rank < rows[i - 1].rank) = {}
       /\ Refused("repeats", \E i, j \in Shown :
             i # j /\ rows[i].register = rows[j].register /\ rows[i].seat = rows[j].seat) = {}
       /\ Refused("seats", \E r \in Used : {rows[i].seat : i \in At(r)} # Seats) = {}
       /\ Refused("ranks", \E r \in Used :
             {rows[i].rank : i \in At(r)} # 0 .. Cardinality(At(r)) - 1) = {}
  <2>1. \A why, condition : ~condition => Refused(why, condition) = {}
    BY DEF Refused
  <2> QED  BY <1>1, <1>2, <1>3, <1>5, <1>6 DEF Refused
<1>11. Refusals \subseteq {"absent", "hands"}
  BY <1>10 DEF Refusals, Refused
<1> QED  BY <1>8, <1>9, <1>11

-----------------------------------------------------------------------------
(* The invariant.                                                           *)

Open == stage \in {"latched", "committed", "cancelled"}

\* What the rules leave the plan of a seat with.
Delivers(s) ==
    /\ Handed(s, wanted[s]) => plans[s][0] \in wanted[s]
    /\ /\ s \notin setup.policy /\ setup.rules # <<>>
       /\ setup.rules[Len(setup.rules)] = "ensure_movement_card" /\ Held(s, "movement") # {}
       => Registers(plans[s], "movement") # {}

RoundTypes ==
    /\ setup \in Setups
    /\ stage \in {"idle", "dealing", "latched", "committed", "cancelled"}
    /\ depth \in [Seats -> Nat] /\ wanted \in [Seats -> SUBSET Kinds]
    /\ DOMAIN previous = Seats
    /\ DOMAIN hands \in SUBSET Seats /\ DOMAIN parts = DOMAIN hands /\ DOMAIN plans \in SUBSET Seats

\* Decks are whole, and hands come from them.
CardsKept ==
    /\ DOMAIN piles = DOMAIN setup.decks /\ Whole(piles)
    /\ DOMAIN dealt = DOMAIN setup.decks /\ Whole(dealt)
    /\ \A s \in DOMAIN hands :
           /\ hands[s] \in Bags
           /\ \A p \in DOMAIN parts[s] : Within(parts[s][p], setup.decks[p])

PlansFit ==
    /\ DOMAIN plans # {} => DOMAIN hands = Seats
    /\ \A s \in DOMAIN plans : Fits(plans[s], s) /\ Delivers(s)

\* What a locked register may have to repeat is a card its row of the last
\* committed round showed.
Remembered ==
    /\ \A s \in Seats : previous[s] = NoOne \/ Memory(s)
    /\ stage = "dealing" => \A s \in Seats : previous[s] = NoOne => depth[s] = 0
    /\ stage \in {"idle", "dealing", "committed"} =>
           \A s \in Seats : previous[s] # NoOne =>
               \A r \in DOMAIN previous[s] : \E j \in DOMAIN rows :
                   rows[j].seat = s /\ rows[j].register = r /\ rows[j].card = previous[s][r]

RoundPublished ==
    Open => /\ RowsRight(rows) /\ DOMAIN plans = Seats
            /\ \E m \in 1 .. RoundLength : published = m * Cardinality(Seats)

\* Who was dealt a hand was dealt a full one; nobody plays before all were.
Filled ==
    /\ \A s \in DOMAIN hands : Fillable(s)
    /\ rows # <<>> => \A s \in Seats : Fillable(s)

RoundInv == RoundTypes /\ CardsKept /\ PlansFit /\ Remembered /\ RoundPublished /\ Filled

\* The first deal of the match raised: no step follows.
Failed == stage = "failed" /\ rows = <<>> /\ \E s \in Seats : ~Fillable(s)

LEMMA NothingYet == DOMAIN NoOne = {}
BY DEF NoOne

LEMMA RoundStarts == RoundInit => RoundInv
<1> SUFFICES ASSUME RoundInit PROVE RoundInv
  OBVIOUS
<1>1. RoundTypes
  BY NothingYet DEF RoundInit, RoundTypes
<1>2. CardsKept
  <2>1. setup \in Setups /\ \A p \in DOMAIN setup.decks : setup.decks[p] \in Bags
    BY SetupIs DEF RoundInit
  <2>2. DOMAIN piles = DOMAIN setup.decks /\ dealt = piles /\ DOMAIN hands = {}
    BY NothingYet DEF RoundInit
  <2>3. \A p \in DOMAIN setup.decks : piles[p] = [draw |-> setup.decks[p], discard |-> Nothing]
    BY DEF RoundInit
  <2>4. Nothing \in Bags /\ \A k \in Kinds : Nothing[k] = 0
    BY DEF Nothing, Bags
  <2>5. ASSUME NEW b \in Bags
        PROVE  Plus(b, Nothing) = b
    <3>1. b \in [Kinds -> Nat]
      BY DEF Bags
    <3>2. \A k \in Kinds : b[k] + Nothing[k] = b[k]
      BY <2>4, <3>1
    <3> QED  BY <3>1, <3>2 DEF Plus
  <2>6. Whole(piles)
    <3> SUFFICES ASSUME NEW p \in DOMAIN setup.decks
                 PROVE  piles[p] \in Piles /\ Plus(piles[p].draw, piles[p].discard) = setup.decks[p]
      BY DEF Whole
    <3> DEFINE b == setup.decks[p]
    <3>1. b \in Bags /\ piles[p] = [draw |-> b, discard |-> Nothing]
      BY <2>1, <2>3
    <3> HIDE DEF b
    <3>2. [draw |-> b, discard |-> Nothing] \in Piles
      BY <2>4, <3>1 DEF Piles
    <3>3. Plus(b, Nothing) = b
      BY <2>5, <3>1
    <3>4. piles[p].draw = b /\ piles[p].discard = Nothing
      BY <3>1
    <3>5. piles[p] \in Piles /\ Plus(piles[p].draw, piles[p].discard) = b
      BY <3>1, <3>2, <3>3, <3>4
    <3> QED  BY <3>5 DEF b
  <2> QED  BY <2>2, <2>6 DEF CardsKept
<1>3. PlansFit
  BY NothingYet DEF RoundInit, PlansFit
<1>4. Remembered
  BY DEF RoundInit, Remembered
<1>5. RoundPublished
  BY DEF RoundInit, RoundPublished, Open
<1>6. Filled
  BY NothingYet DEF RoundInit, Filled
<1> QED  BY <1>1, <1>2, <1>3, <1>4, <1>5, <1>6 DEF RoundInv

(* Who can be dealt a full hand is settled by the overlay.                  *)
LEMMA SameFill ==
    ASSUME RoundInv, setup' = setup, DOMAIN hands' = DOMAIN hands \/ DOMAIN hands' = {},
           rows' = rows \/ DOMAIN hands = Seats
    PROVE  Filled'
<1>1. \A s \in Seats : Fillable(s)' <=> Fillable(s)
  BY DEF Fillable
<1>2. DOMAIN hands \subseteq Seats
  BY DEF RoundInv, RoundTypes
<1>3. \A s \in DOMAIN hands' : Fillable(s)'
  BY <1>1, <1>2 DEF RoundInv, Filled
<1>4. rows' # <<>> => \A s \in Seats : Fillable(s)'
  BY <1>1 DEF RoundInv, Filled
<1> QED  BY <1>3, <1>4 DEF Filled

LEMMA Usable ==
    ASSUME RoundInv, NEW s \in DOMAIN plans
    PROVE  PlanUsable(s) /\ s \in Seats
<1>1. s \in Seats /\ setup \in Setups /\ depth[s] \in Nat /\ s \in DOMAIN hands
  BY DEF RoundInv, RoundTypes, PlansFit
<1>2. hands[s] \in Bags /\ Fits(plans[s], s)
  BY <1>1 DEF RoundInv, CardsKept, PlansFit
<1> QED  BY <1>1, <1>2 DEF PlanUsable, Ready

LEMMA LocksRemembered ==
    ASSUME RoundInv, stage = "dealing", NEW s \in Seats
    PROVE  /\ Remembers(s) /\ Locked(s) \subseteq DOMAIN previous[s]
           /\ Locked(s) # {} => previous[s] # NoOne
<1>1. setup \in Setups /\ depth[s] \in Nat
  BY DEF RoundInv, RoundTypes
<1> DEFINE n == setup.registers[s]
<1>2. n \in Nat \ {0}
  BY <1>1, SetupIs
<1>3. CASE previous[s] = NoOne
  <2>1. depth[s] = 0
    BY <1>3 DEF RoundInv, Remembered
  <2> HIDE DEF n
  <2>2. n - Low(0, n - 1) = n
    BY <1>2 DEF Low
  <2>3. Locked(s) = n .. (n - 1)
    BY <2>1, <2>2 DEF Locked, n
  <2>4. Locked(s) = {}
    BY <2>3, <1>2
  <2> QED  BY <2>4 DEF Remembers
<1>4. CASE previous[s] # NoOne
  <2>1. Memory(s)
    BY <1>4 DEF RoundInv, Remembered
  <2>2. PICK m \in Nat \ {0} : Locked(s) = m .. n - 1
    BY <1>1, FreeIs
  <2>3. DOMAIN previous[s] = 0 .. n - 1
    BY <2>1 DEF Memory
  <2> HIDE DEF n
  <2>4. Locked(s) \subseteq 0 .. n - 1
    BY <1>2, <2>2
  <2> QED  BY <1>4, <2>1, <2>3, <2>4 DEF Remembers
<1> QED  BY <1>3, <1>4

LEMMA StartKeeps == ASSUME RoundInv, StartRound PROVE RoundInv'
<1> USE DEF StartRound
<1>1. RoundTypes'
  <2>1. depth' \in [Seats -> Nat]
    <3>1. depth' \in [Seats -> 0 .. 2] /\ 0 .. 2 \subseteq Nat
      OBVIOUS
    <3> QED  BY <3>1
  <2>2. wanted' \in [Seats -> SUBSET Kinds]
    OBVIOUS
  <2>3. DOMAIN hands' = {} /\ DOMAIN parts' = {} /\ DOMAIN plans' = {}
    BY NothingYet
  <2> QED  BY <2>1, <2>2, <2>3 DEF RoundInv, RoundTypes
<1>2. CardsKept'
  <2>1. DOMAIN hands' = {}
    BY NothingYet
  <2>2. setup' = setup /\ piles' = piles /\ dealt' = piles
    OBVIOUS
  <2> QED  BY <2>1, <2>2 DEF RoundInv, CardsKept, Whole
<1>3. PlansFit'
  <2>1. DOMAIN plans' = {}
    BY NothingYet
  <2> QED  BY <2>1 DEF PlansFit
<1>4. Remembered'
  <2>1. /\ previous' = previous /\ rows' = rows /\ setup' = setup
        /\ \A s \in Seats : previous[s] = NoOne => depth'[s] = 0
    OBVIOUS
  <2>2. /\ \A s \in Seats : previous[s] = NoOne \/ Memory(s)
        /\ \A s \in Seats : previous[s] # NoOne =>
               \A r \in DOMAIN previous[s] : \E j \in DOMAIN rows :
                   rows[j].seat = s /\ rows[j].register = r /\ rows[j].card = previous[s][r]
    BY DEF RoundInv, Remembered
  <2>3. \A s \in Seats : Memory(s) => Memory(s)'
    BY <2>1 DEF Memory
  <2>4. NoOne' = NoOne
    BY DEF NoOne
  <2> QED  BY <2>1, <2>2, <2>3, <2>4 DEF Remembered
<1>5. RoundPublished'
  BY DEF RoundPublished, Open
<1>6. Filled'
  BY NothingYet, SameFill
<1> QED  BY <1>1, <1>2, <1>3, <1>4, <1>5, <1>6 DEF RoundInv

(* A short hand raises, and nothing was played before it.                   *)
LEMMA DealFails ==
    ASSUME RoundInv, NEW seat \in Seats, DealHand(seat), ~Fillable(seat)
    PROVE  Failed'
<1>1. PICK d \in DealSeat(dealt, seat) :
          stage' = IF \E p \in DOMAIN d : \/ Size(d[p].hand) < setup.quota[seat][p]
                                          \/ ~Conserved(d[p], p)
                   THEN "failed" ELSE stage
  BY DEF DealHand
<1>2. /\ setup \in Setups /\ Whole(dealt) /\ setup' = setup /\ rows' = rows
  BY DEF RoundInv, RoundTypes, CardsKept, DealHand
<1>3. /\ DOMAIN d = DOMAIN setup.quota[seat]
      /\ \A p \in DOMAIN d : Size(d[p].hand) = Low(setup.quota[seat][p], Size(setup.decks[p]))
  BY <1>2, DealtSeat
<1>4. PICK p \in DOMAIN setup.quota[seat] : ~ (setup.quota[seat][p] <= Size(setup.decks[p]))
  BY DEF Fillable
<1>5. setup.quota[seat][p] \in Nat /\ setup.decks[p] \in Bags
  BY <1>2, SetupIs
<1>6. Size(setup.decks[p]) \in Nat
  BY <1>5, SizeOf
<1>7. Low(setup.quota[seat][p], Size(setup.decks[p])) < setup.quota[seat][p]
  BY <1>4, <1>5, <1>6 DEF Low
<1>8. stage' = "failed"
  BY <1>1, <1>3, <1>4, <1>7
<1>9. rows = <<>>
  BY DEF RoundInv, Filled
<1>10. ~Fillable(seat)'
  BY <1>2 DEF Fillable
<1> QED  BY <1>2, <1>8, <1>9, <1>10 DEF Failed

LEMMA DealKeeps ==
    ASSUME RoundInv, NEW seat \in Seats, DealHand(seat), Fillable(seat)
    PROVE  RoundInv' /\ stage' = "dealing"
<1>0. /\ stage = "dealing" /\ setup \in Setups /\ seat \notin DOMAIN hands
      /\ UNCHANGED <<setup, piles, previous, depth, wanted, plans, rows, published>>
  BY DEF RoundInv, RoundTypes, DealHand, IsNext
<1>1. PICK d \in DealSeat(dealt, seat) :
          /\ parts' = With(parts, seat, [p \in DOMAIN d |-> d[p].hand])
          /\ hands' = With(hands, seat, Total([p \in DOMAIN d |-> d[p].hand]))
          /\ dealt' = [p \in DOMAIN dealt |->
                 IF p \in DOMAIN d
                 THEN [draw |-> d[p].draw, discard |-> Plus(d[p].discard, d[p].hand)]
                 ELSE dealt[p]]
          /\ stage' = IF \E p \in DOMAIN d : \/ Size(d[p].hand) < setup.quota[seat][p]
                                             \/ ~Conserved(d[p], p)
                      THEN "failed" ELSE stage
  BY DEF DealHand
<1>2. DOMAIN dealt = DOMAIN setup.decks /\ Whole(dealt)
  BY DEF RoundInv, CardsKept
<1>3. /\ DOMAIN d \subseteq DOMAIN setup.decks /\ IsFiniteSet(DOMAIN d)
      /\ DOMAIN d = DOMAIN setup.quota[seat]
      /\ \A p \in DOMAIN d :
             /\ d[p].hand \in Bags /\ d[p].draw \in Bags /\ d[p].discard \in Bags
             /\ Size(d[p].hand) = Low(setup.quota[seat][p], Size(setup.decks[p]))
             /\ Conserved(d[p], p)
             /\ Within(d[p].hand, setup.decks[p])
             /\ Plus(d[p].draw, Plus(d[p].discard, d[p].hand)) = setup.decks[p]
  BY <1>0, <1>2, DealtSeat
<1>4. stage' = "dealing"
  <2>1. \A p \in DOMAIN d : ~ (Size(d[p].hand) < setup.quota[seat][p])
    <3> SUFFICES ASSUME NEW p \in DOMAIN d PROVE ~ (Size(d[p].hand) < setup.quota[seat][p])
      OBVIOUS
    <3>1. setup.quota[seat][p] \in Nat /\ setup.decks[p] \in Bags
      BY <1>0, <1>3, SetupIs
    <3>2. Size(setup.decks[p]) \in Nat
      BY <3>1, SizeOf
    <3>3. setup.quota[seat][p] <= Size(setup.decks[p])
      BY <1>3 DEF Fillable
    <3>4. Low(setup.quota[seat][p], Size(setup.decks[p])) = setup.quota[seat][p]
      BY <3>1, <3>2, <3>3 DEF Low
    <3> QED  BY <3>1, <3>4, <1>3
  <2> QED  BY <1>0, <1>1, <1>3, <2>1
<1>5. \A p \in DOMAIN setup.decks :
          /\ dealt'[p] \in Piles /\ Plus(dealt'[p].draw, dealt'[p].discard) = setup.decks[p]
  <2> SUFFICES ASSUME NEW p \in DOMAIN setup.decks
               PROVE  /\ dealt'[p] \in Piles
                      /\ Plus(dealt'[p].draw, dealt'[p].discard) = setup.decks[p]
    OBVIOUS
  <2>1. CASE p \in DOMAIN d
    <3>1. dealt'[p] = [draw |-> d[p].draw, discard |-> Plus(d[p].discard, d[p].hand)]
      BY <1>1, <1>2, <2>1
    <3>2. Plus(d[p].discard, d[p].hand) \in Bags
      BY <1>3, <2>1, SizePlus
    <3> QED  BY <1>3, <2>1, <3>1, <3>2 DEF Piles
  <2>2. CASE p \notin DOMAIN d
    <3>1. dealt'[p] = dealt[p]
      BY <1>1, <1>2, <2>2
    <3> QED  BY <1>2, <3>1 DEF Whole
  <2> QED  BY <2>1, <2>2
<1>6. DOMAIN dealt' = DOMAIN setup.decks
  BY <1>1, <1>2
<1> DEFINE dealtParts == [p \in DOMAIN d |-> d[p].hand]
<1>7. Total(dealtParts) \in Bags
  <2>1. ASSUME NEW k \in Kinds
        PROVE  Size([x \in DOMAIN dealtParts |-> dealtParts[x][k]]) \in Nat
    <3> DEFINE f == [x \in DOMAIN d |-> d[x].hand[k]]
    <3>1. f \in [DOMAIN d -> Nat]
      BY <1>3 DEF Bags
    <3>2. [x \in DOMAIN dealtParts |-> dealtParts[x][k]] = f
      OBVIOUS
    <3> HIDE DEF f
    <3>3. Size(f) \in Nat
      BY <1>3, <3>1, CopiesOf
    <3> QED  BY <3>2, <3>3
  <2> HIDE DEF dealtParts
  <2> QED  BY <2>1 DEF Total, Bags
<1>8. /\ DOMAIN hands' = DOMAIN hands \union {seat} /\ DOMAIN parts' = DOMAIN parts \union {seat}
      /\ hands'[seat] = Total(dealtParts) /\ parts'[seat] = dealtParts
      /\ \A s \in DOMAIN hands : hands'[s] = hands[s]
      /\ \A s \in DOMAIN parts : s # seat => parts'[s] = parts[s]
  <2> HIDE DEF dealtParts
  <2>1. hands' = With(hands, seat, Total(dealtParts)) /\ parts' = With(parts, seat, dealtParts)
    BY <1>1 DEF dealtParts
  <2> DEFINE hand == Total(dealtParts)
  <2> HIDE DEF hand
  <2>2. /\ DOMAIN With(hands, seat, hand) = DOMAIN hands \union {seat}
        /\ With(hands, seat, hand)[seat] = hand
        /\ \A s \in DOMAIN hands : s # seat => With(hands, seat, hand)[s] = hands[s]
    BY DEF With
  <2>3. /\ DOMAIN With(parts, seat, dealtParts) = DOMAIN parts \union {seat}
        /\ With(parts, seat, dealtParts)[seat] = dealtParts
        /\ \A s \in DOMAIN parts : s # seat => With(parts, seat, dealtParts)[s] = parts[s]
    BY DEF With
  <2>4. hands' = With(hands, seat, hand)
    BY <2>1 DEF hand
  <2>5. \A s \in DOMAIN hands : s # seat
    BY <1>0
  <2>6. /\ DOMAIN hands' = DOMAIN hands \union {seat} /\ hands'[seat] = hand
        /\ \A s \in DOMAIN hands : hands'[s] = hands[s]
    BY <2>2, <2>4, <2>5
  <2>7. /\ DOMAIN parts' = DOMAIN parts \union {seat} /\ parts'[seat] = dealtParts
        /\ \A s \in DOMAIN parts : s # seat => parts'[s] = parts[s]
    BY <2>1, <2>3
  <2> QED  BY <2>6, <2>7 DEF hand
<1>9. DOMAIN plans = {}
  BY <1>0 DEF RoundInv, PlansFit
<1>10. RoundTypes'
  BY <1>0, <1>4, <1>8 DEF RoundInv, RoundTypes
<1>11. CardsKept'
  <2>1. ASSUME NEW s \in DOMAIN hands'
        PROVE  hands'[s] \in Bags /\ \A p \in DOMAIN parts'[s] : Within(parts'[s][p], setup.decks[p])
    <3>1. CASE s = seat
      <4>1. \A p \in DOMAIN dealtParts : Within(dealtParts[p], setup.decks[p])
        BY <1>3
      <4> HIDE DEF dealtParts
      <4> QED  BY <3>1, <4>1, <1>7, <1>8
    <3>2. CASE s # seat
      <4>1. s \in DOMAIN hands /\ s \in DOMAIN parts
        BY <3>2, <1>8 DEF RoundInv, RoundTypes
      <4> QED  BY <3>2, <4>1, <1>8 DEF RoundInv, CardsKept
    <3> QED  BY <3>1, <3>2
  <2>2. Whole(piles)' /\ DOMAIN piles' = DOMAIN setup'.decks
    BY <1>0 DEF RoundInv, CardsKept, Whole
  <2>3. Whole(dealt)'
    BY <1>0, <1>5 DEF Whole
  <2> QED  BY <1>0, <1>6, <2>1, <2>2, <2>3 DEF CardsKept, Within
<1>12. PlansFit'
  BY <1>0, <1>9 DEF PlansFit
<1>13. Remembered'
  <2>1. \A s \in Seats : Memory(s)' = Memory(s)
    BY <1>0 DEF Memory
  <2>2. NoOne' = NoOne
    BY DEF NoOne
  <2> QED  BY <1>0, <1>4, <2>1, <2>2 DEF RoundInv, Remembered
<1>14. RoundPublished'
  BY <1>4 DEF RoundPublished, Open
<1>15. Filled'
  <2>1. \A s \in Seats : Fillable(s)' <=> Fillable(s)
    BY <1>0 DEF Fillable
  <2>2. DOMAIN hands \subseteq Seats
    BY DEF RoundInv, RoundTypes
  <2> QED  BY <1>0, <1>8, <2>1, <2>2 DEF RoundInv, Filled
<1> QED  BY <1>4, <1>10, <1>11, <1>12, <1>13, <1>14, <1>15 DEF RoundInv

LEMMA ProgramKeeps ==
    ASSUME RoundInv, NEW seat \in Seats, Program(seat)
    PROVE  RoundInv' /\ stage' = "dealing"
<1>0. /\ stage = "dealing" /\ DOMAIN hands = Seats /\ seat \notin DOMAIN plans
      /\ setup \in Setups /\ depth[seat] \in Nat /\ hands[seat] \in Bags
      /\ UNCHANGED <<setup, piles, previous, dealt, parts, hands, depth, rows, published>>
  BY DEF RoundInv, RoundTypes, CardsKept, Program, IsNext
<1>1. PICK plan \in [Free(seat) -> Kinds], far \in BOOLEAN,
          want \in IF seat \in setup.policy THEN Wishes ELSE {{}} :
          /\ Legal(plan, seat)
          /\ plans' = With(plans, seat, Ruled(seat, plan, far, want)[Len(RulesOf(seat))])
          /\ stage' = IF \A i \in DOMAIN Ruled(seat, plan, far, want) :
                            Legal(Ruled(seat, plan, far, want)[i], seat)
                      THEN stage ELSE "failed"
          /\ wanted' = [wanted EXCEPT ![seat] = want]
  BY DEF Program
<1> DEFINE n == Len(RulesOf(seat))
           after == Ruled(seat, plan, far, want)
<1>2. want \in SUBSET Kinds /\ (seat \notin setup.policy => want = {})
  <2>1. \A w \in Wishes : w \in SUBSET Kinds
    BY DEF Wishes, Cards, WithEffect
  <2> QED
    BY <2>1, <1>1
<1>3. Ready(seat) /\ Fits(plan, seat)
  BY <1>0, <1>1 DEF Ready, Fits
<1>4. /\ n \in Nat /\ DOMAIN after = 0 .. n
      /\ \A i \in 0 .. n : Fits(after[i], seat)
      /\ seat \in setup.policy /\ Handed(seat, want) => after[n][0] \in want
      /\ /\ seat \notin setup.policy /\ setup.rules # <<>>
         /\ setup.rules[Len(setup.rules)] = "ensure_movement_card"
         /\ Held(seat, "movement") # {}
         => Registers(after[n], "movement") # {}
  BY <1>2, <1>3, RuledFits
<1>5. plans' = With(plans, seat, after[n]) /\ wanted' = [wanted EXCEPT ![seat] = want]
  BY <1>1
<1>6. stage' = "dealing"
  <2>1. \A i \in DOMAIN after : Legal(after[i], seat)
    BY <1>4 DEF Fits
  <2> QED  BY <1>0, <1>1, <2>1
<1> HIDE DEF n, after
<1>7. n \in 0 .. n
  BY <1>4
<1>8. /\ DOMAIN plans' = DOMAIN plans \union {seat} /\ plans'[seat] = after[n]
      /\ \A s \in DOMAIN plans : plans'[s] = plans[s]
  <2> DEFINE plan1 == after[n]
  <2> HIDE DEF plan1
  <2>1. /\ DOMAIN With(plans, seat, plan1) = DOMAIN plans \union {seat}
        /\ With(plans, seat, plan1)[seat] = plan1
        /\ \A s \in DOMAIN plans : s # seat => With(plans, seat, plan1)[s] = plans[s]
    BY DEF With
  <2>2. plans' = With(plans, seat, plan1)
    BY <1>5 DEF plan1
  <2>3. \A s \in DOMAIN plans : s # seat
    BY <1>0
  <2>4. /\ DOMAIN plans' = DOMAIN plans \union {seat} /\ plans'[seat] = plan1
        /\ \A s \in DOMAIN plans : plans'[s] = plans[s]
    BY <2>1, <2>2, <2>3
  <2> QED  BY <2>4 DEF plan1
<1>9. wanted \in [Seats -> SUBSET Kinds]
  BY DEF RoundInv, RoundTypes
<1>10. /\ wanted' \in [Seats -> SUBSET Kinds] /\ wanted'[seat] = want
       /\ \A s \in Seats : s # seat => wanted'[s] = wanted[s]
  BY <1>2, <1>5, <1>9
<1>11. RoundTypes'
  BY <1>0, <1>6, <1>8, <1>10 DEF RoundInv, RoundTypes
<1>12. CardsKept'
  BY <1>0 DEF RoundInv, CardsKept, Whole, Within
<1>13. ASSUME NEW s \in DOMAIN plans'
       PROVE  Fits(plans[s], s)' /\ Delivers(s)'
  <2>1. CASE s = seat
    <3>1. Fits(after[n], seat)
      BY <1>4, <1>7
    <3>2. Handed(seat, want) => after[n][0] \in want
      BY <1>2, <1>4 DEF Handed
    <3>3. Fits(plans[seat], seat)'
      BY <3>1, <1>8, <1>0 DEF Fits, Legal, Free, Locked, Within
    <3>4. Delivers(seat)'
      BY <3>2, <1>0, <1>4, <1>8, <1>10 DEF Delivers, Handed, Held, Registers
    <3> QED  BY <2>1, <3>3, <3>4
  <2>2. CASE s # seat
    <3>1. s \in DOMAIN plans /\ s \in Seats
      BY <2>2, <1>8 DEF RoundInv, RoundTypes
    <3>2. Fits(plans[s], s) /\ Delivers(s)
      BY <3>1 DEF RoundInv, PlansFit
    <3>3. plans'[s] = plans[s] /\ wanted'[s] = wanted[s]
      BY <2>2, <3>1, <1>8, <1>10
    <3>4. Fits(plans[s], s)'
      BY <3>2, <3>3, <1>0 DEF Fits, Legal, Free, Locked, Within
    <3>5. Delivers(s)'
      BY <3>2, <3>3, <1>0 DEF Delivers, Handed, Held, Registers
    <3> QED  BY <3>4, <3>5
  <2> QED  BY <2>1, <2>2
<1>14. PlansFit'
  BY <1>0, <1>13 DEF PlansFit
<1>15. Remembered'
  <2>1. \A s \in Seats : Memory(s)' = Memory(s)
    BY <1>0 DEF Memory
  <2>2. NoOne' = NoOne
    BY DEF NoOne
  <2> QED  BY <1>0, <1>6, <2>1, <2>2 DEF RoundInv, Remembered
<1>16. RoundPublished'
  BY <1>6 DEF RoundPublished, Open
<1>17. Filled'
  BY <1>0, SameFill
<1> QED  BY <1>6, <1>11, <1>12, <1>14, <1>15, <1>16, <1>17 DEF RoundInv

-----------------------------------------------------------------------------
(* The steps of a round that is dealt and planned.                          *)

LEMMA SameMemory ==
    ASSUME UNCHANGED <<setup, previous>>
    PROVE  NoOne' = NoOne /\ \A s \in Seats : Memory(s)' = Memory(s)
BY DEF NoOne, Memory

(* What the plans are like, whatever becomes of the stage and the rows.     *)
LEMMA SamePlans ==
    ASSUME RoundInv, UNCHANGED <<setup, dealt, parts, hands, depth, wanted, plans>>
    PROVE  PlansFit'
<1>1. ASSUME NEW s \in DOMAIN plans, Fits(plans[s], s), Delivers(s)
      PROVE  Fits(plans[s], s)' /\ Delivers(s)'
  <2>1. Fits(plans[s], s)'
    BY <1>1 DEF Fits, Legal, Free, Locked, Within
  <2>2. Delivers(s)'
    BY <1>1 DEF Delivers, Handed, Held, Registers
  <2> QED  BY <2>1, <2>2
<1> QED  BY <1>1 DEF RoundInv, PlansFit

LEMMA SameCards ==
    ASSUME RoundInv, UNCHANGED <<setup, dealt, parts, hands>>, piles' = piles \/ piles' = dealt
    PROVE  CardsKept'
BY DEF RoundInv, CardsKept, Whole, Within


LEMMA ResolveKeeps ==
    ASSUME RoundInv, Resolve
    PROVE  /\ RoundInv' /\ stage' = "latched" /\ Repeats(rows')
           /\ stage = "dealing"
           /\ UNCHANGED <<setup, piles, previous, dealt, parts, hands, depth, wanted, plans>>
<1>0. /\ stage = "dealing" /\ DOMAIN plans = Seats /\ setup \in Setups
      /\ UNCHANGED <<setup, piles, previous, dealt, parts, hands, depth, wanted, plans>>
  BY DEF RoundInv, RoundTypes, Resolve
<1>1. Resolvable
  BY <1>0, LocksRemembered DEF Resolvable
<1>2. PICK initiative \in [Seats -> 0 .. 1] :
          /\ rows' = AllRows(initiative)
          /\ published' = IF setup.paced THEN Cardinality(Seats) ELSE Len(rows')
          /\ stage' = "latched"
  BY <1>1 DEF Resolve
<1>3. \A s \in Seats : PlanUsable(s) /\ Remembers(s)
  BY <1>0, Usable, LocksRemembered
<1>4. RowsRight(rows') /\ Repeats(rows')
  BY <1>0, <1>2, <1>3, AllRowsRight
<1>5. RoundLength' = RoundLength
  BY <1>0 DEF RoundLength
<1>6. RowsRight(rows)'
  BY <1>0, <1>4, <1>5 DEF RowsRight, Locked
<1>7. \E m \in 1 .. RoundLength : published' = m * Cardinality(Seats)
  <2> DEFINE n == Cardinality(Seats)
             l == RoundLength
  <2>1. n \in Nat \ {0} /\ l \in Nat \ {0}
    BY <1>0, SeatsAre, RoundLengthIs
  <2>2. Len(rows') = l * n
    BY <1>4 DEF RowsRight
  <2>3. published' = n \/ published' = l * n
    BY <1>2, <2>2
  <2> HIDE DEF n, l
  <2>4. 1 \in 1 .. l /\ l \in 1 .. l /\ n = 1 * n
    BY <2>1
  <2>5. \E m \in 1 .. l : published' = m * n
    BY <2>3, <2>4
  <2> QED  BY <2>5 DEF n, l
<1>8. RoundPublished'
  BY <1>0, <1>5, <1>6, <1>7 DEF RoundPublished
<1>9. RoundTypes'
  BY <1>0, <1>2 DEF RoundInv, RoundTypes
<1>10. CardsKept' /\ PlansFit'
  BY <1>0, SameCards, SamePlans
<1>11. Remembered'
  BY <1>0, <1>2, SameMemory DEF RoundInv, Remembered
<1>12. Filled'
  <2>1. DOMAIN hands = Seats
    BY <1>0, SeatsAre DEF RoundInv, PlansFit
  <2> QED  BY <1>0, <2>1, SameFill
<1> QED  BY <1>0, <1>2, <1>4, <1>8, <1>9, <1>10, <1>11, <1>12 DEF RoundInv

LEMMA AdvanceKeeps == ASSUME RoundInv, Advance PROVE RoundInv' /\ stage' = "latched"
<1>0. /\ stage = "latched" /\ stage' = "latched" /\ setup \in Setups
      /\ published < Len(rows) /\ published' = published + Cardinality(Seats)
      /\ UNCHANGED <<setup, piles, previous, dealt, parts, hands, depth, wanted, plans, rows>>
  BY DEF RoundInv, RoundTypes, Advance
<1>1. RowsRight(rows) /\ DOMAIN plans = Seats
  BY <1>0 DEF RoundInv, RoundPublished, Open
<1>2. RoundLength' = RoundLength
  BY <1>0 DEF RoundLength
<1>3. RowsRight(rows)'
  BY <1>0, <1>1, <1>2 DEF RowsRight, Locked
<1>4. \E m \in 1 .. RoundLength : published' = m * Cardinality(Seats)
  <2> DEFINE n == Cardinality(Seats)
             l == RoundLength
  <2>1. n \in Nat \ {0} /\ l \in Nat \ {0}
    BY <1>0, SeatsAre, RoundLengthIs
  <2>2. Len(rows) = l * n
    BY <1>1 DEF RowsRight
  <2>3. PICK m \in 1 .. l : published = m * n
    BY <1>0 DEF RoundInv, RoundPublished, Open
  <2>4. published' = m * n + n /\ m * n < l * n
    BY <1>0, <2>2, <2>3
  <2> HIDE DEF n, l
  <2>5. m \in Nat
    BY <2>1
  <2>6. m # l
    <3>1. l * n \in Nat
      BY <2>1
    <3> QED  BY <2>4, <3>1
  <2>7. m + 1 \in 1 .. l
    BY <2>1, <2>5, <2>6
  <2>8. (m + 1) * n = m * n + n
    BY <2>1, <2>5
  <2>9. \E k \in 1 .. l : published' = k * n
    BY <2>4, <2>7, <2>8
  <2> QED  BY <2>9 DEF n, l
<1>5. RoundPublished'
  BY <1>0, <1>1, <1>2, <1>3, <1>4 DEF RoundPublished
<1>6. RoundTypes'
  BY <1>0 DEF RoundInv, RoundTypes
<1>7. CardsKept' /\ PlansFit'
  BY <1>0, SameCards, SamePlans
<1>8. Remembered'
  BY <1>0, SameMemory DEF RoundInv, Remembered
<1>9. Filled'
  BY <1>0, SameFill
<1> QED  BY <1>0, <1>5, <1>6, <1>7, <1>8, <1>9 DEF RoundInv

(* The committed round is the last one that is remembered.                  *)
LEMMA FinishKeeps == ASSUME RoundInv, Finish PROVE RoundInv' /\ stage' = "committed"
<1>0. /\ stage = "latched" /\ stage' = "committed" /\ setup \in Setups
      /\ piles' = dealt /\ previous' = Carried
      /\ UNCHANGED <<setup, dealt, parts, hands, depth, wanted, plans, rows, published>>
  BY DEF RoundInv, RoundTypes, Finish, Commit
<1>1. RowsRight(rows) /\ DOMAIN plans = Seats
  BY <1>0 DEF RoundInv, RoundPublished, Open
<1>2. RoundLength' = RoundLength
  BY <1>0 DEF RoundLength
<1>3. RowsRight(rows)'
  BY <1>0, <1>1, <1>2 DEF RowsRight, Locked
<1>4. RoundPublished'
  BY <1>0, <1>1, <1>2, <1>3 DEF RoundInv, RoundPublished, Open
<1>5. DOMAIN previous' = Seats
  BY <1>0 DEF Carried
<1>6. RoundTypes'
  BY <1>0, <1>5 DEF RoundInv, RoundTypes
<1>7. CardsKept' /\ PlansFit'
  BY <1>0, SameCards, SamePlans
<1>8. \A s \in Seats :
          /\ DOMAIN previous'[s] = 0 .. setup.registers[s] - 1
          /\ \A r \in 0 .. setup.registers[s] - 1 :
                 /\ previous'[s][r] \in Kinds
                 /\ \E j \in DOMAIN rows : /\ rows[j].seat = s /\ rows[j].register = r
                                           /\ rows[j].card = previous'[s][r]
  BY <1>0, <1>1, CarriedIs
<1>9. Remembered'
  <2>1. \A s \in Seats : Memory(s)'
    BY <1>0, <1>8 DEF Memory
  <2>2. \A s \in Seats : \A r \in DOMAIN previous'[s] : \E j \in DOMAIN rows' :
            rows'[j].seat = s /\ rows'[j].register = r /\ rows'[j].card = previous'[s][r]
    BY <1>0, <1>8
  <2> QED  BY <1>0, <2>1, <2>2 DEF Remembered
<1>10. Filled'
  BY <1>0, SameFill
<1> QED  BY <1>0, <1>4, <1>6, <1>7, <1>9, <1>10 DEF RoundInv

LEMMA CancelKeeps == ASSUME RoundInv, Cancel PROVE RoundInv' /\ stage' = "cancelled"
<1>0. /\ stage = "latched" /\ stage' = "cancelled"
      /\ UNCHANGED <<setup, piles, previous, dealt, parts, hands, depth, wanted, plans, rows,
                     published>>
  BY DEF Cancel
<1>1. RowsRight(rows) /\ DOMAIN plans = Seats
  BY <1>0 DEF RoundInv, RoundPublished, Open
<1>2. RoundLength' = RoundLength
  BY <1>0 DEF RoundLength
<1>3. RowsRight(rows)'
  BY <1>0, <1>1, <1>2 DEF RowsRight, Locked
<1>4. RoundPublished'
  BY <1>0, <1>1, <1>2, <1>3 DEF RoundInv, RoundPublished, Open
<1>5. RoundTypes'
  BY <1>0 DEF RoundInv, RoundTypes
<1>6. CardsKept' /\ PlansFit'
  BY <1>0, SameCards, SamePlans
<1>7. Remembered'
  BY <1>0, SameMemory DEF RoundInv, Remembered
<1>8. Filled'
  BY <1>0, SameFill
<1> QED  BY <1>0, <1>4, <1>5, <1>6, <1>7, <1>8 DEF RoundInv

(* Every step of a match leaves the invariant true.                         *)
LEMMA RoundKeeps == ASSUME RoundInv, [RoundNext]_roundVars PROVE RoundInv' \/ Failed'
<1>1. CASE StartRound
  BY <1>1, StartKeeps
<1>2. CASE \E s \in Seats : DealHand(s) \/ Program(s)
  BY <1>2, DealFails, DealKeeps, ProgramKeeps
<1>3. CASE Resolve
  BY <1>3, ResolveKeeps
<1>4. CASE Advance
  BY <1>4, AdvanceKeeps
<1>5. CASE Finish
  BY <1>5, FinishKeeps
<1>6. CASE Cancel
  BY <1>6, CancelKeeps
<1>7. CASE UNCHANGED roundVars
  <2>1. UNCHANGED <<setup, piles, previous, stage, dealt, parts, hands, depth, wanted,
                    plans, rows, published>>
    BY <1>7 DEF roundVars
  <2>2. RoundLength' = RoundLength
    BY <2>1 DEF RoundLength
  <2>3. RoundTypes'
    BY <2>1 DEF RoundInv, RoundTypes
  <2>4. CardsKept' /\ PlansFit'
    BY <2>1, SameCards, SamePlans
  <2>5. Remembered'
    BY <2>1, SameMemory DEF RoundInv, Remembered
  <2>6. RoundPublished'
    BY <2>1, <2>2 DEF RoundInv, RoundPublished, Open, RowsRight, Locked
  <2>7. Filled'
    BY <2>1, SameFill
  <2> QED  BY <2>3, <2>4, <2>5, <2>6, <2>7 DEF RoundInv
<1> QED  BY <1>1, <1>2, <1>3, <1>4, <1>5, <1>6, <1>7 DEF RoundNext

LEMMA NothingAfterFailure == ASSUME Failed, [RoundNext]_roundVars PROVE Failed'
<1>1. ~ RoundNext
  BY DEF Failed, RoundNext, StartRound, DealHand, Program, Resolve, Advance, Finish, Cancel
<1>2. setup' = setup /\ stage' = stage /\ rows' = rows
  BY <1>1 DEF roundVars
<1>3. \A s \in Seats : Fillable(s)' <=> Fillable(s)
  BY <1>2 DEF Fillable
<1> QED  BY <1>2, <1>3 DEF Failed

(* Only the rows of a dealt round make it latched, and a locked one repeats *)
(* what a row of the round before showed.                                   *)
LEMMA LatchingRepeats ==
    ASSUME RoundInv, [RoundNext]_roundVars, stage = "dealing", stage' = "latched"
    PROVE  \A i \in DOMAIN rows' : rows'[i].outcome = "heat_locked" =>
               \E j \in DOMAIN rows : /\ rows[j].seat = rows'[i].seat
                                      /\ rows[j].register = rows'[i].register
                                      /\ rows[j].card = rows'[i].card
<1>1. Resolve
  <2>1. \A s \in Seats : ~DealHand(s) /\ ~Program(s)
    BY DealFails, DealKeeps, ProgramKeeps DEF Failed
  <2>2. ~StartRound /\ ~Advance /\ ~Finish /\ ~Cancel /\ ~UNCHANGED roundVars
    BY DEF StartRound, Advance, Finish, Cancel, roundVars
  <2> QED  BY <2>1, <2>2 DEF RoundNext
<1>2. Repeats(rows')
  BY <1>1, ResolveKeeps
<1> SUFFICES ASSUME NEW i \in DOMAIN rows', rows'[i].outcome = "heat_locked"
             PROVE  \E j \in DOMAIN rows : /\ rows[j].seat = rows'[i].seat
                                           /\ rows[j].register = rows'[i].register
                                           /\ rows[j].card = rows'[i].card
  OBVIOUS
<1> DEFINE s == rows'[i].seat
           r == rows'[i].register
<1>3. s \in Seats /\ r \in Locked(s) /\ rows'[i].card = previous[s][r]
  BY <1>2 DEF Repeats
<1> HIDE DEF s, r
<1>4. r \in DOMAIN previous[s] /\ previous[s] # NoOne
  BY <1>3, LocksRemembered
<1>5. \E j \in DOMAIN rows : rows[j].seat = s /\ rows[j].register = r /\ rows[j].card = previous[s][r]
  BY <1>3, <1>4 DEF RoundInv, Remembered
<1> QED  BY <1>3, <1>5 DEF s, r

(* The rounds of a match hold the invariant unless its first deal raised,   *)
(* for any seats, catalog, decks, quotas, registers and rules (cards/,      *)
(* match/card_adapter.py).                                                  *)
THEOREM RoundsInvariant == RoundSpec => [](RoundInv \/ Failed)
<1>1. RoundInit => RoundInv
  BY RoundStarts
<1>2. (RoundInv \/ Failed) /\ [RoundNext]_roundVars => (RoundInv \/ Failed)'
  BY RoundKeeps, NothingAfterFailure
<1> QED  BY <1>1, <1>2, PTL DEF RoundSpec

(* No round raises but a first deal from a pile smaller than its quota,     *)
(* whatever the rules and however often registers are locked, and a locked  *)
(* register repeats what its row of the round before showed                 *)
(* (cards/round.py, cards/registers.py).                                    *)
THEOREM RoundsAlwaysHold == RoundSpec => RoundsHold
<1>1. RoundInv \/ Failed => OnlyShortPilesFail
  BY DEF RoundInv, RoundTypes, Failed, OnlyShortPilesFail
<1>2. (RoundInv \/ Failed) /\ [RoundNext]_roundVars =>
          (stage = "dealing" /\ stage' = "latched" =>
              \A i \in DOMAIN rows' : rows'[i].outcome = "heat_locked" =>
                  \E j \in DOMAIN rows : /\ rows[j].seat = rows'[i].seat
                                         /\ rows[j].register = rows'[i].register
                                         /\ rows[j].card = rows'[i].card)
  BY LatchingRepeats DEF Failed
<1>3. RoundSpec => LocksRepeatWhatWasResolved
  <2>1. (RoundInv \/ Failed) /\ [RoundNext]_roundVars =>
            [stage = "dealing" /\ stage' = "latched" =>
                \A i \in DOMAIN rows' : rows'[i].outcome = "heat_locked" =>
                    \E j \in DOMAIN rows : /\ rows[j].seat = rows'[i].seat
                                           /\ rows[j].register = rows'[i].register
                                           /\ rows[j].card = rows'[i].card]_roundVars
    BY <1>2
  <2> QED  BY <2>1, RoundsInvariant, PTL DEF RoundSpec, LocksRepeatWhatWasResolved
<1> QED  BY <1>1, <1>3, RoundsInvariant, PTL DEF RoundsHold

(* What the rules promise of a plan holds for every hand, every plan a      *)
(* programmer may return and every order of the rules                       *)
(* (cards/rules.py, cards/pilot_policy_rules.py).                           *)
THEOREM RulesAlwaysDeliver == RoundSpec => []RulesDeliver
<1>1. RoundInv \/ Failed => RulesDeliver
  <2>0. Failed => RulesDeliver
    BY DEF Failed, RulesDeliver
  <2> SUFFICES ASSUME RoundInv, stage = "latched", NEW s \in Seats PROVE Delivers(s)
    BY <2>0 DEF RulesDeliver, Delivers
  <2>1. s \in DOMAIN plans
    BY DEF RoundInv, RoundPublished, Open
  <2> QED  BY <2>1 DEF RoundInv, PlansFit
<1> QED  BY <1>1, RoundsInvariant, PTL

(* Of a closed round replay refuses only what a locked register repeats and *)
(* the two hands of a shared deck, wherever the round was cancelled         *)
(* (replay/card_round.py).                                                  *)
THEOREM OnlyRepeatsAlwaysRefused == RoundSpec => []OnlyRepeatsRefused
<1>1. RoundInv \/ Failed => OnlyRepeatsRefused
  <2>0. Failed => OnlyRepeatsRefused
    BY DEF Failed, Closed, OnlyRepeatsRefused
  <2> SUFFICES ASSUME RoundInv, Closed
               PROVE  /\ Refusals \subseteq {"absent", "hands"}
                      /\ "absent" \in Refusals => \E i \in Shown : rows[i].outcome = "heat_locked"
                      /\ "hands" \in Refusals => setup.shared
    BY <2>0 DEF OnlyRepeatsRefused
  <2>1. setup \in Setups /\ DOMAIN plans = Seats /\ RowsRight(rows) /\ DOMAIN hands = Seats
    BY SeatsAre DEF Closed, Open, RoundInv, RoundTypes, RoundPublished, PlansFit
  <2>2. PICK m \in 1 .. RoundLength : published = m * Cardinality(Seats)
    BY DEF Closed, Open, RoundInv, RoundPublished
  <2>3. \A s \in Seats : PlanUsable(s)
    BY <2>1, Usable
  <2>4. \A s \in Seats : \A p \in DOMAIN parts[s] : Within(parts[s][p], setup.decks[p])
    BY <2>1 DEF RoundInv, CardsKept
  <2> QED  BY <2>1, <2>2, <2>3, <2>4, RefusalsAre
<1> QED  BY <1>1, RoundsInvariant, PTL
=============================================================================
