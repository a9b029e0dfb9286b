--------------------------- MODULE MatchTransport ---------------------------
(***************************************************************************)
(* What a browser keeps of a match: the ingest side of the front end's     *)
(* transport (frontend/src/lib/transport.ts).  A frame is validated        *)
(* against the prefix accepted so far and then committed; a frame that is  *)
(* refused raises in the socket's message listener, is not buffered, and   *)
(* the next one is tried all the same.  The transport outlives its         *)
(* connections: EventStream reconnects and the server replays.             *)
(*                                                                         *)
(* A frame is [kind, tick, seq, id, status, rev]; status and rev say       *)
(* something for frames of kind "status" only.                             *)
(***************************************************************************)
EXTENDS Integers

\* compareOrder, which is also the order the server sorts by.
Before(e, f) ==
    \/ e.tick < f.tick
    \/ e.tick = f.tick /\ e.seq < f.seq
    \/ e.tick = f.tick /\ e.seq = f.seq /\ e.id < f.id

\* refused is history: the transport itself forgets what it threw away.
NewTab == [events |-> {}, refused |-> {}]

Has(tab, kind) == \E e \in tab.events : e.kind = kind

Statuses(tab) == {e \in tab.events : e.kind = "status"}
Terminal(status) == status \in {"ended", "failed"}

\* Mutant: nothing may come behind the terminal.
AfterTerminalNothing(tab, e) == FALSE

\* The sole match_scored may come behind the terminal (a draw is scored while
\* match_ended is handled), and the sole policy_promoted behind that.
AfterTerminal(tab, e) ==
    \/ e.kind = "scored" /\ ~Has(tab, "scored")
    \/ e.kind = "promoted" /\ Has(tab, "scored") /\ ~Has(tab, "promoted")

StatusFollows(tab, e) ==
    IF Statuses(tab) = {}
    THEN e.status = "running" /\ e.tick = 0 /\ e.seq > 0
    ELSE \A s \in Statuses(tab) : s.rev < e.rev /\ ~Terminal(s.status)

\* The runtime status last accepted, if any, is a terminal one.
StatusSettled(tab) ==
    \A s \in Statuses(tab) : Terminal(s.status) \/ \E t \in Statuses(tab) : s.rev < t.rev

Acceptable(tab, e) ==
    /\ tab.events = {} <=> e.kind = "started"
    /\ e.kind = "started" => e.tick = 0 /\ e.seq = 0
    /\ Has(tab, "ended") => AfterTerminal(tab, e)
    /\ \A f \in tab.events : Before(f, e)
    /\ e.kind = "status" => StatusFollows(tab, e)
    /\ e.kind = "ended" => StatusSettled(tab)
    /\ e.kind = "scored" => ~Has(tab, "scored")
    /\ e.kind = "promoted" => Has(tab, "scored") /\ ~Has(tab, "promoted")

\* Mutant: frames replayed to a reconnecting browser are not recognised.
IngestAgain(tab, e) ==
    IF Acceptable(tab, e)
    THEN [tab EXCEPT !.events = @ \union {e}]
    ELSE [tab EXCEPT !.refused = @ \union {e}]

\* A frame the transport has already (a reconnection's replay) is dropped.
Ingest(tab, e) ==
    IF e \in tab.events THEN tab
    ELSE IF Acceptable(tab, e)
    THEN [tab EXCEPT !.events = @ \union {e}]
    ELSE [tab EXCEPT !.refused = @ \union {e}]
=============================================================================
