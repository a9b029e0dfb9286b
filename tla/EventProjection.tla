--------------------------- MODULE EventProjection ---------------------------
(***************************************************************************)
(* The event stream of the browser play server (cli/play.py).  The worker  *)
(* publishes on the bus; the browser subscriber is the last one, so the    *)
(* call of a nested event is queued before the call of the event around    *)
(* it.  The loop runs the queued calls in order, holds a tick until the    *)
(* next one opens, adds runtime status frames of its own, and sends the    *)
(* result to every connected browser, whose transport (MatchTransport)     *)
(* takes or refuses each frame and survives its connections.  One match,   *)
(* from its admission to its retirement, and one command connection, which *)
(* is read serially.                                                       *)
(***************************************************************************)
EXTENDS MatchTransport, Sequences, FiniteSets, SequencesExt

CONSTANTS
    Clients,        \* browsers, each with an EventStream that reconnects
    LastTick,        \* bound on the ticks of the match
    MaxEvents,      \* bound on the events published on the bus
    MaxRevision,    \* bound on the revision a command may reach
    StatusIds       \* places of a status' id beside a bus event's, 1 or 3

ASSUME ProjectionAssumption ==
    /\ IsFiniteSet(Clients)
    /\ LastTick \in Nat /\ MaxEvents \in Nat /\ MaxRevision \in Nat
    /\ StatusIds \subseteq {1, 3}

VARIABLES
    worker,     \* [phase, tick, seq, stack]: the worker and its publish calls
    runtime,    \* [status, rev, stop]: what MatchRuntime says
    calls,      \* events handed to call_soon_threadsafe, oldest first
    proj,       \* [history, pending, tick, quarantined, keys]: the loop's buffers
    session,    \* the server has an admitted match
    late,       \* [seen, token]: a client was there; a prefix is kept for one
    handler,    \* the command connection: idle, awaiting a boundary, resumed
    clients,    \* [link, tab]: each browser's connection and transport
    published,  \* history: every event published on the bus
    lost,       \* history: bus events quarantined, or enclosing the terminal
    cleared     \* history: a refused admission has discarded the prefix

projectionVars == <<worker, runtime, calls, proj, session, late, handler, clients,
          published, lost, cleared>>

None == -1

\* An event id is a ULID or, for the terminal status, all zeros; only its
\* place among events of one tick and sequence matters.
TerminalId == 0
BusId == 2

BusEvent(kind, tick, seq) ==
    [kind |-> kind, tick |-> tick, seq |-> seq, id |-> BusId, status |-> "none", rev |-> 0]

Sorted(events) ==
    [i \in 1 .. Cardinality(events) |->
        CHOOSE e \in events : Cardinality({f \in events : Before(f, e)}) = i - 1]

EmptyProjection ==
    [history |-> {}, pending |-> {}, tick |-> None, quarantined |-> {}, keys |-> {}]

-----------------------------------------------------------------------------
(* The loop's buffers.  An operator returns the buffers and, as out, the     *)
(* frames it put on every connection's queue.                                *)

Publish(r, events) ==
    [r EXCEPT !.p.history = @ \union events,
              !.out = @ \o Sorted(events \ r.p.history)]

Flush(r) ==
    LET sent == Publish(r, r.p.pending)
    IN  [sent EXCEPT !.p.pending = {}, !.p.tick = None]

\* Mutant: a tick is not held, each event is published as it arrives.
HoldNothing(r, e) ==
    IF e \in r.p.history \union r.p.pending \union r.p.quarantined
    THEN r ELSE Publish([r EXCEPT !.p.tick = e.tick], {e})

\* Mutant: the buffer of the tick before is dropped, not sent.
HoldForgetting(r, e) ==
    IF e.tick < r.p.tick THEN [r EXCEPT !.p.quarantined = @ \union {e}]
    ELSE IF e.tick > r.p.tick THEN [r EXCEPT !.p.pending = {e}, !.p.tick = e.tick]
    ELSE [r EXCEPT !.p.pending = @ \union {e}]

\* An event that is neither MATCH_STARTED nor MATCH_ENDED.
Hold(r, e) ==
    LET open    == IF r.p.tick = None THEN e.tick ELSE r.p.tick
        drained == IF e.tick > open THEN Flush(r) ELSE r
    IN  IF e \in r.p.history \union r.p.pending \union r.p.quarantined
        THEN r
        ELSE IF e.tick < open
        THEN [r EXCEPT !.p.quarantined = @ \union {e}]
        ELSE [drained EXCEPT !.p.pending = @ \union {e}, !.p.tick = e.tick]

RuntimeSequence(p, tick) ==
    LET taken == {e.seq : e \in {f \in p.history \union p.pending : f.tick = tick}}
    IN  IF taken = {} THEN 0 ELSE Max(taken) + 1

EnqueueStatus(r, tick, seq, id) ==
    LET key == <<runtime.rev, runtime.status>>
        e   == [kind |-> "status", tick |-> tick, seq |-> seq, id |-> id,
                status |-> runtime.status, rev |-> runtime.rev]
    IN  IF ~session \/ key \in r.p.keys
        THEN r
        ELSE Hold([r EXCEPT !.p.keys = @ \union {key}], e)

EnqueueStarted(r, e, id) ==
    LET sent == Publish(r, {e})
    IN  EnqueueStatus([sent EXCEPT !.p.tick = e.tick], e.tick,
                      RuntimeSequence(sent.p, e.tick), id)

\* Mutant: MATCH_ENDED waits for a next tick, as any event does.
EnqueueEndedHeld(r, e) ==
    Hold(EnqueueStatus(r, e.tick, e.seq, TerminalId), e)

EnqueueEnded(r, e) ==
    IF r.p.tick # None /\ e.tick < r.p.tick
    THEN Hold(r, e)
    ELSE Flush(Hold(EnqueueStatus(r, e.tick, e.seq, TerminalId), e))

EnqueueEvent(r, e, id) ==
    CASE e.kind = "started" -> EnqueueStarted(r, e, id)
      [] e.kind = "ended"   -> EnqueueEnded(r, e)
      [] OTHER              -> Hold(r, e)

\* The tick of the fold's state, which a status outside any tick falls back
\* to: the event that opens a tick may or may not have been folded yet.
FoldTicks ==
    IF Len(worker.stack) = 1 /\ worker.stack[1].seq = 0 /\ worker.tick > 0
    THEN {worker.tick - 1, worker.tick}
    ELSE {worker.tick}

StatusTicks(p) == IF p.tick = None THEN FoldTicks ELSE {p.tick}

Buffers == [p |-> proj, out |-> <<>>]

\* A transport after each of the frames it is sent.
Tabs(tab, frames) ==
    LET after[n \in 0 .. Len(frames)] ==
            IF n = 0 THEN tab ELSE Ingest(after[n - 1], frames[n])
    IN  after

\* A browser that is sent frames ingests them, or its connection breaks behind
\* the first k of them.
Receive(client, frames, k) ==
    [link |-> IF k = Len(frames) THEN client.link ELSE "down",
     tab  |-> Tabs(client.tab, frames)[k]]

\* The result r becomes the state, its frames go to every open connection.
Send(r) ==
    /\ proj' = r.p
    /\ \E got \in [Clients -> 0 .. Len(r.out)] :
         clients' = [c \in Clients |->
                       IF clients[c].link = "up"
                       THEN Receive(clients[c], r.out, got[c])
                       ELSE clients[c]]
    /\ lost' = lost \union {e \in r.p.quarantined : e.kind # "status"}

-----------------------------------------------------------------------------
ProjectionInit ==
    /\ worker = [phase |-> "admitted", tick |-> 0, seq |-> 0, stack |-> <<>>]
    /\ runtime = [status |-> "running", rev |-> 1, stop |-> FALSE]
    /\ calls = <<>>
    /\ proj = EmptyProjection
    /\ session = TRUE
    /\ clients \in [Clients -> {[link |-> l, tab |-> NewTab] : l \in {"down", "up"}}]
    /\ late = [seen |-> \E c \in Clients : clients[c].link = "up", token |-> FALSE]
    /\ handler = "idle"
    /\ published = {}
    /\ lost = {}
    /\ cleared = FALSE

-----------------------------------------------------------------------------
(* The worker thread: MatchRunner.run as the bus and the gate see it.        *)

\* Stamps an event and enters its dispatch.
Call(kind, tick, seq, phase) ==
    /\ Cardinality(published) < MaxEvents
    /\ worker' = [phase |-> phase, tick |-> tick, seq |-> seq + 1,
                  stack |-> Append(worker.stack, BusEvent(kind, tick, seq))]
    /\ published' = published \union {BusEvent(kind, tick, seq)}
    /\ UNCHANGED <<runtime, calls, proj, session, late, handler, clients, cleared>>

PublishStarted ==
    /\ worker.phase = "admitted"
    /\ runtime.status = "running"
    /\ Call("started", 0, 0, "ticking")
    /\ UNCHANGED lost

\* run() refuses a runtime that is not RUNNING, outside its try.
RunRefused ==
    /\ worker.phase = "admitted"
    /\ runtime.status # "running"
    /\ worker' = [worker EXCEPT !.phase = "done"]
    /\ UNCHANGED <<runtime, calls, proj, session, late, handler, clients, published, lost, cleared>>

AtCheckpoint ==
    /\ worker.phase = "ticking"
    /\ worker.stack = <<>>
    /\ worker' = [worker EXCEPT !.phase = "checkpoint"]
    /\ UNCHANGED <<runtime, calls, proj, session, late, handler, clients, published, lost, cleared>>

PublishTick ==
    /\ worker.phase = "checkpoint"
    /\ runtime.status = "running" /\ ~runtime.stop
    /\ worker.tick < LastTick
    /\ Call("game", worker.tick + 1, 0, "ticking")
    /\ UNCHANGED lost

\* Another event of the tick, from the runner or from inside a subscriber;
\* also the cancellation of a card round after an aborted match.
PublishGame ==
    /\ worker.phase \in {"ticking", "ending"}
    /\ worker.tick > 0 \/ worker.stack # <<>>
    /\ worker.stack # <<>> => Last(worker.stack).kind \notin {"ended", "scored", "promoted"}
    /\ Call("game", worker.tick, worker.seq, worker.phase)
    /\ UNCHANGED lost

\* A match without a victor is scored while its terminal is handled, and a
\* promotion is told while the score is.  (A victor's score comes before the
\* terminal and is a game event here.)
PublishScored ==
    /\ worker.stack # <<>> /\ Last(worker.stack).kind = "ended"
    /\ \A e \in published : e.kind # "scored"
    /\ Call("scored", worker.tick, worker.seq, worker.phase)
    /\ UNCHANGED lost

PublishPromoted ==
    /\ worker.stack # <<>> /\ Last(worker.stack).kind = "scored"
    /\ \A e \in published : e.kind # "promoted"
    /\ Call("promoted", worker.tick, worker.seq, worker.phase)
    /\ UNCHANGED lost

\* The fold ends the match while it handles an event (a draw).
PublishEndedNested ==
    /\ worker.phase = "ticking"
    /\ worker.tick > 0 /\ worker.stack # <<>>
    /\ Call("ended", worker.tick, worker.seq, "ending")
    /\ lost' = lost \union ToSet(worker.stack)

\* The runner ends the match, after a tick or because the gate was stopped.
PublishEnded ==
    /\ worker.stack = <<>>
    /\ \/ worker.phase = "ticking" /\ worker.tick > 0
       \/ worker.phase = "checkpoint" /\ runtime.stop
    /\ Call("ended", worker.tick, worker.seq, "ending")
    /\ UNCHANGED lost

\* The browser subscriber marks the runtime before it queues MATCH_ENDED.
MarkEnded ==
    /\ worker.stack # <<>> /\ Last(worker.stack).kind = "ended"
    /\ runtime.status \in {"running", "paused"}
    /\ runtime' = [runtime EXCEPT !.status = "ended", !.rev = @ + 1]
    /\ UNCHANGED <<worker, calls, proj, session, late, handler, clients, published, lost, cleared>>

\* The dispatch of the innermost event reaches its last subscriber.
OnEvent ==
    /\ worker.stack # <<>>
    /\ Last(worker.stack).kind = "ended" => runtime.status = "ended"
    /\ calls' = Append(calls, Last(worker.stack))
    /\ worker' = [worker EXCEPT !.stack = Front(@)]
    /\ UNCHANGED <<runtime, proj, session, late, handler, clients, published, lost, cleared>>

WorkerReturns ==
    /\ worker.phase = "ending"
    /\ worker.stack = <<>>
    /\ worker' = [worker EXCEPT !.phase = "done"]
    /\ UNCHANGED <<runtime, calls, proj, session, late, handler, clients, published, lost, cleared>>

WorkerRaises ==
    /\ worker.phase = "ticking"
    /\ worker.stack = <<>>
    /\ worker' = [worker EXCEPT !.phase = "done"]
    /\ runtime' = [runtime EXCEPT !.status = "failed", !.rev = @ + 1]
    /\ UNCHANGED <<calls, proj, session, late, handler, clients, published, lost, cleared>>

-----------------------------------------------------------------------------
(* The loop.  RESUME reads the status in the same callback as it dispatches: *)
(* between the two only the worker moves.                                    *)

LoopFree == handler # "resumed"

RunCall ==
    /\ LoopFree
    /\ calls # <<>>
    /\ calls' = Tail(calls)
    /\ \E id \in StatusIds : Send(EnqueueEvent(Buffers, Head(calls), id))
    /\ UNCHANGED <<worker, runtime, session, late, handler, published, cleared>>

Pause ==
    /\ handler = "idle" /\ session
    /\ runtime.status = "running" /\ runtime.rev < MaxRevision
    /\ runtime' = [runtime EXCEPT !.status = "paused", !.rev = @ + 1]
    /\ handler' = "awaiting"
    /\ UNCHANGED <<worker, calls, proj, session, late, clients, published, lost, cleared>>

\* The wait ends behind every call the worker had queued before it blocked.
PauseBoundary ==
    /\ handler = "awaiting"
    /\ worker.phase = "checkpoint" /\ runtime.status = "paused" /\ ~runtime.stop
    /\ calls = <<>>
    /\ \E id \in StatusIds :
         Send(Flush(EnqueueStatus(Buffers, worker.tick,
                                  RuntimeSequence(proj, worker.tick), id)))
    /\ handler' = "idle"
    /\ UNCHANGED <<worker, runtime, calls, session, late, published, cleared>>

PauseRefused ==
    /\ handler = "awaiting"
    /\ runtime.stop \/ runtime.status \in {"ended", "failed"}
    /\ handler' = "idle"
    /\ UNCHANGED <<worker, runtime, calls, proj, session, late, clients, published, lost, cleared>>

Resume ==
    /\ handler = "idle" /\ session
    /\ runtime.status = "paused" /\ ~runtime.stop /\ runtime.rev < MaxRevision
    /\ runtime' = [runtime EXCEPT !.status = "running", !.rev = @ + 1]
    /\ handler' = "resumed"
    /\ UNCHANGED <<worker, calls, proj, session, late, clients, published, lost, cleared>>

ResumeStatus ==
    /\ handler = "resumed"
    /\ \E tick \in StatusTicks(proj), id \in StatusIds :
         Send(EnqueueStatus(Buffers, tick, RuntimeSequence(proj, tick), id))
    /\ handler' = "idle"
    /\ UNCHANGED <<worker, runtime, calls, session, late, published, cleared>>

Stop ==
    /\ handler = "idle" /\ session
    /\ runtime.status \in {"running", "paused"} /\ worker.phase # "admitted"
    /\ runtime.rev < MaxRevision
    /\ runtime' = [runtime EXCEPT !.stop = TRUE, !.rev = @ + 1]
    /\ UNCHANGED <<worker, calls, proj, session, late, handler, clients, published, lost, cleared>>

\* The done callback of the run task.
RunTaskDone ==
    /\ LoopFree
    /\ worker.phase = "done"
    /\ calls = <<>>
    /\ worker' = [worker EXCEPT !.phase = "reaped"]
    /\ IF runtime.status = "failed"
       THEN \E tick \in StatusTicks(proj), id \in StatusIds :
              Send(Flush(EnqueueStatus(Buffers, tick, RuntimeSequence(proj, tick), id)))
       ELSE UNCHANGED <<proj, clients, lost>>
    /\ UNCHANGED <<runtime, calls, session, late, handler, published, cleared>>

Retire ==
    /\ LoopFree
    /\ worker.phase = "reaped" /\ session
    /\ session' = FALSE
    /\ late' = [late EXCEPT !.token = ~late.seen]
    /\ proj' = [EmptyProjection EXCEPT !.history = IF late.seen THEN {} ELSE proj.history]
    /\ UNCHANGED <<worker, runtime, calls, handler, clients, published, lost, cleared>>

\* A start that the session factory refuses: the prefix is cleared first.
AdmissionRefused ==
    /\ LoopFree
    /\ ~session
    /\ proj' = EmptyProjection
    /\ cleared' = TRUE
    /\ UNCHANGED <<worker, runtime, calls, session, late, handler, clients, published, lost>>

-----------------------------------------------------------------------------
(* Event connections.                                                        *)

\* The snapshot is queued behind nothing; the connection may break on it.
Connect(c) ==
    /\ LoopFree
    /\ clients[c].link = "down"
    /\ ~late.token
    /\ LET history == Sorted(proj.history)
       IN  \E k \in 0 .. Len(history) :
             clients' = [clients EXCEPT ![c] = Receive([@ EXCEPT !.link = "up"], history, k)]
    /\ late' = [late EXCEPT !.seen = @ \/ session]
    /\ UNCHANGED <<worker, runtime, calls, proj, session, handler, published, lost, cleared>>

\* The first connection after a match nobody watched: its frames are sent
\* before the token and the prefix are given up.  A frame that connection.send
\* has taken counts as received: one lost in the socket afterwards is not seen.
LateReplay(c) ==
    /\ LoopFree
    /\ clients[c].link = "down"
    /\ late.token
    /\ LET history == Sorted(proj.history)
       IN  clients' = [clients EXCEPT ![c] =
                         Receive([@ EXCEPT !.link = "up"], history, Len(history))]
    /\ late' = [late EXCEPT !.token = FALSE]
    /\ proj' = [proj EXCEPT !.history = {}]
    /\ UNCHANGED <<worker, runtime, calls, session, handler, published, lost, cleared>>

ReplayBreaks(c) ==
    /\ LoopFree
    /\ clients[c].link = "down"
    /\ late.token
    /\ LET history == Sorted(proj.history)
       IN  \E k \in 0 .. Len(history) - 1 :
             clients' = [clients EXCEPT ![c] = Receive(@, history, k)]
    /\ UNCHANGED <<worker, runtime, calls, session, handler, published, lost, cleared>>

\* Mutant: the prefix is given up as soon as it is queued.
LateReplayFailsConsumed(c) ==
    /\ ReplayBreaks(c)
    /\ late' = [late EXCEPT !.token = FALSE]
    /\ proj' = [proj EXCEPT !.history = {}]

LateReplayFails(c) ==
    /\ ReplayBreaks(c)
    /\ UNCHANGED <<late, proj>>

Disconnect(c) ==
    /\ LoopFree
    /\ clients[c].link = "up"
    /\ clients' = [clients EXCEPT ![c].link = "down"]
    /\ UNCHANGED <<worker, runtime, calls, proj, session, late, handler, published, lost, cleared>>

WorkerStep ==
    \/ PublishStarted \/ RunRefused \/ AtCheckpoint \/ PublishTick \/ PublishGame
    \/ PublishScored \/ PublishPromoted
    \/ PublishEndedNested \/ PublishEnded \/ MarkEnded \/ OnEvent
    \/ WorkerReturns \/ WorkerRaises

LoopStep ==
    \/ RunCall \/ Pause \/ PauseBoundary \/ PauseRefused \/ Resume \/ ResumeStatus
    \/ Stop \/ RunTaskDone \/ Retire \/ AdmissionRefused

ClientStep ==
    \E c \in Clients : Connect(c) \/ LateReplay(c) \/ LateReplayFails(c) \/ Disconnect(c)

ProjectionNext == WorkerStep \/ LoopStep \/ ClientStep

\* What a step of RunCall, and of ResumeStatus, is recognised by.
CallRuns == LoopFree /\ calls # <<>> /\ calls' = Tail(calls)
HandlerGoesOn == handler = "resumed" /\ handler' = "idle"

\* A dispatch under way goes on and the loop runs what is queued; whether the
\* match ends, and what clients do, is nobody's promise.
Fairness ==
    /\ WF_projectionVars(MarkEnded \/ OnEvent)
    /\ WF_calls(CallRuns) /\ WF_handler(HandlerGoesOn)

ProjectionSpec == ProjectionInit /\ [][ProjectionNext]_projectionVars /\ Fairness

-----------------------------------------------------------------------------
(* Properties.                                                               *)

BusEvents(events) == {e \in events : e.kind # "status"}

\* Whatever order nested calls are queued in, however status frames are mixed
\* in and wherever connections break and are replayed, the transport refuses a
\* frame only when the match was stopped, or because the first status was read
\* after it had changed: then only statuses, and those before one is accepted.
OnlyStopRefused ==
    \A c \in Clients : \A e \in clients[c].tab.refused :
        \/ runtime.stop
        \/ e.kind = "status" /\ \A s \in Statuses(clients[c].tab) : e.rev < s.rev

\* A browser that has an event of the bus was sent every earlier one, over all
\* its connections, except the calls that enclose a nested MATCH_ENDED and what
\* the loop set aside; that was overtaken by the status of a RESUME that read a
\* later tick.  While it is connected it has been sent all that was published.
Gapless ==
    /\ \A c \in Clients :
        LET got == clients[c].tab.events \union clients[c].tab.refused
        IN  /\ \A e \in BusEvents(got), f \in published : Before(f, e) => f \in got \union lost
            /\ clients[c].link = "up" => proj.history \subseteq got
    /\ \A e \in proj.quarantined :
        \E f \in proj.history \union proj.pending : f.kind = "status" /\ e.tick < f.tick

Whole(tab) ==
    \A e \in published :
        \/ e \in tab.events \union tab.refused \union lost
        \/ \E t \in published : t.kind = "ended" /\ Before(t, e)

\* A match that no client watched is kept whole for the first one that stays:
\* a replay that breaks off does not consume it, and the one that does was
\* sent every frame, which the server takes for received.
UnseenIsReplayedWhole ==
    [][late.token /\ ~late.token' /\ ~cleared
        => \E c \in Clients : Whole(clients'[c].tab)]_projectionVars

\* No browser misses an event, whether it was there or comes late: both of the
\* above.
NothingMissed == []Gapless /\ UnseenIsReplayedWhole

\* A browser that is connected when a match ends that nobody stopped learns it:
\* its transport completes the match, unless the connection breaks.
EndReachesBrowser ==
    \A c \in Clients :
        (/\ clients[c].link = "up" /\ session /\ ~runtime.stop
         /\ \E e \in published : e.kind = "ended")
        ~> clients[c].link = "down" \/ Has(clients[c].tab, "ended")
=============================================================================
