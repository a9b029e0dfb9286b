--------------------------- MODULE EventAdmission ---------------------------
(***************************************************************************)
(* The in-process event bus, the canonical-state fold as its admission     *)
(* subscriber, and the admission-scoped ledger in front of SQLite          *)
(* (bus/in_process.py, ledger/admission_scoped.py, the registration order  *)
(* of match/composition.py).                                               *)
(*                                                                         *)
(* publish() is synchronous and re-entrant: a handler may publish, so the  *)
(* dispatches in progress form a stack, one frame per publish() call.      *)
(* A frame walks the subscribers in registration order (the ledger facade, *)
(* the fold, then Downstream others), then delivers one verdict to the     *)
(* facade, which drops the event or marks it and writes the admitted       *)
(* prefix of its buffer to SQLite one autocommitted row at a time.         *)
(* Events are named by the order in which publish() stamped them.          *)
(***************************************************************************)
EXTENDS Naturals, Sequences

CONSTANTS
  Downstream,   \* subscribers registered after the fold
  MaxEvents     \* bound on the number of events published

ASSUME AdmissionAssumption ==
  /\ Downstream \in Nat
  /\ MaxEvents \in Nat

VARIABLES
  events,     \* every stamped event: tick, sequence in tick, publishing event
  tick,       \* the bus's current tick
  nextSeq,    \* the bus's next sequence number in the tick
  stack,      \* publish() calls in progress, innermost last
  pending,    \* the facade's staging buffer
  durable,    \* rows of the events table, in insertion order
  rejected,   \* events whose own fold handler raised
  dropped,    \* events the facade deleted from its buffer
  fault,      \* a row insert has failed
  caught,     \* the last outermost publish() is a pilot's, which swallows its error
  halted      \* an error left an outermost publish() and took the runner with it

vars == <<events, tick, nextSeq, stack, pending, durable,
          rejected, dropped, fault, caught, halted>>
-----------------------------------------------------------------------------
Ledger == 1
Fold   == 2
Last   == 2 + Downstream
Verdict == Last + 1
Flush   == Last + 2

NewFrame(e) ==
  [ev |-> e, pos |-> Ledger, refused |-> FALSE, raised |-> FALSE, flushed |-> 0]

Frame == [ev : Nat, pos : Ledger .. Flush, refused : BOOLEAN,
          raised : BOOLEAN, flushed : Nat]

Busy == stack # <<>>
Top  == stack[Len(stack)]
Rest == SubSeq(stack, 1, Len(stack) - 1)

At(p) == Busy /\ Top.pos = p

\* The innermost call goes on as frame f.
Replace(f) == stack' = [stack EXCEPT ![Len(stack)] = f]

\* The innermost publish() returns.  An ExceptionGroup aborts the handler that
\* called it, and is collected there without ever being read as a refusal; out
\* of the outermost publish() it ends the runner or is swallowed by the pilot.
Return(raised) ==
  IF Len(stack) = 1
  THEN /\ stack' = <<>>
       /\ halted' = (raised /\ ~caught)
  ELSE LET caller == stack[Len(stack) - 1]
       IN  /\ stack' = IF raised
                       THEN [Rest EXCEPT ![Len(stack) - 1] =
                               [caller EXCEPT !.pos = @ + 1, !.raised = TRUE]]
                       ELSE Rest
           /\ UNCHANGED halted

StagedEvents == {pending[i].ev : i \in DOMAIN pending}
DurableEvents == {durable[i] : i \in DOMAIN durable}
-----------------------------------------------------------------------------
Init ==
  /\ events = <<>>
  /\ tick = 0
  /\ nextSeq = 0
  /\ stack = <<>>
  /\ pending = <<>>
  /\ durable = <<>>
  /\ rejected = {}
  /\ dropped = {}
  /\ fault = FALSE
  /\ caught = FALSE
  /\ halted = FALSE

\* Mutant: a tick resets the sequence to 0 without having used the 0 itself.
StampRepeatingSequence(isTick, parent) ==
  LET t == IF isTick THEN tick + 1 ELSE tick
      s == IF isTick THEN 0 ELSE nextSeq
  IN  /\ Len(events) < MaxEvents
      /\ events' = Append(events, [tick |-> t, seq |-> s, parent |-> parent])
      /\ tick' = t
      /\ nextSeq' = IF isTick THEN 0 ELSE s + 1
      /\ stack' = Append(stack, NewFrame(Len(events) + 1))
      /\ UNCHANGED <<pending, durable, rejected, dropped, fault, halted>>

\* publish(): stamp with the bus's tick and sequence, then start to dispatch.
Stamp(isTick, parent) ==
  LET t == IF isTick THEN tick + 1 ELSE tick
      s == IF isTick THEN 0 ELSE nextSeq
  IN  /\ Len(events) < MaxEvents
      /\ events' = Append(events, [tick |-> t, seq |-> s, parent |-> parent])
      /\ tick' = t
      /\ nextSeq' = s + 1
      /\ stack' = Append(stack, NewFrame(Len(events) + 1))
      /\ UNCHANGED <<pending, durable, rejected, dropped, fault, halted>>

\* Outside every dispatch the runner publishes, or a pilot it has asked for a
\* decision publishes the evidence of an LLM completion: an error of that is
\* caught by the repair loop or the per-turn fallback around the completion,
\* and the runner publishes on.  Only the runner publishes MATCH_TICK.
PublishRoot ==
  /\ ~Busy
  /\ ~halted
  /\ \E isTick \in BOOLEAN, swallows \in BOOLEAN :
       /\ ~(isTick /\ swallows)
       /\ Stamp(isTick, 0)
       /\ caught' = swallows

\* A subscriber publishes from inside its handler.
PublishNested ==
  /\ Busy
  /\ Top.pos \in Fold .. Last
  /\ Stamp(FALSE, Top.ev)
  /\ UNCHANGED caught

Stage ==
  /\ At(Ledger)
  /\ pending' = Append(pending, [ev |-> Top.ev, admitted |-> FALSE])
  /\ Replace([Top EXCEPT !.pos = @ + 1])
  /\ UNCHANGED <<events, tick, nextSeq, durable, rejected, dropped, fault, caught, halted>>

HandlerReturns ==
  /\ Busy
  /\ Top.pos \in Fold .. Last
  /\ Replace([Top EXCEPT !.pos = @ + 1])
  /\ UNCHANGED <<events, tick, nextSeq, pending, durable, rejected, dropped, fault, caught, halted>>

\* The fold raises a ReducerError of its own: the event is refused.  It may
\* already have published events derived from this one.
FoldRefuses ==
  /\ At(Fold)
  /\ rejected' = rejected \cup {Top.ev}
  /\ Replace([Top EXCEPT !.pos = @ + 1, !.refused = TRUE, !.raised = TRUE])
  /\ UNCHANGED <<events, tick, nextSeq, pending, durable, dropped, fault, caught, halted>>

\* Mutant: any failing handler refuses the event.
HandlerRefuses ==
  /\ Busy
  /\ Top.pos \in Fold + 1 .. Last
  /\ Replace([Top EXCEPT !.pos = @ + 1, !.refused = TRUE, !.raised = TRUE])
  /\ UNCHANGED <<events, tick, nextSeq, pending, durable, rejected, dropped, fault, caught, halted>>

HandlerRaises ==
  /\ Busy
  /\ Top.pos \in Fold + 1 .. Last
  /\ Replace([Top EXCEPT !.pos = @ + 1, !.raised = TRUE])
  /\ UNCHANGED <<events, tick, nextSeq, pending, durable, rejected, dropped, fault, caught, halted>>

\* on_event_refused: delete the event and everything staged after it.
IndexOf(e) == CHOOSE i \in DOMAIN pending : pending[i].ev = e

BeforeEvent(e) == SubSeq(pending, 1, IndexOf(e) - 1)

Refuse ==
  /\ At(Verdict)
  /\ Top.refused
  /\ pending' = BeforeEvent(Top.ev)
  /\ dropped' = dropped \cup {pending[i].ev : i \in IndexOf(Top.ev) .. Len(pending)}
  /\ Return(Top.raised)
  /\ UNCHANGED <<events, tick, nextSeq, durable, rejected, fault, caught>>

\* Mutant: every event is admitted once its handlers have run.
AdmitAlways ==
  /\ At(Verdict)
  /\ pending' = [i \in DOMAIN pending |->
                   IF pending[i].ev = Top.ev
                   THEN [pending[i] EXCEPT !.admitted = TRUE] ELSE pending[i]]
  /\ Replace([Top EXCEPT !.pos = Flush])
  /\ UNCHANGED <<events, tick, nextSeq, durable, rejected, dropped, fault, caught, halted>>

\* on_event_admitted: mark the event, then enter the flush loop.
Admit ==
  /\ At(Verdict)
  /\ ~Top.refused
  /\ pending' = [i \in DOMAIN pending |->
                   IF pending[i].ev = Top.ev
                   THEN [pending[i] EXCEPT !.admitted = TRUE] ELSE pending[i]]
  /\ Replace([Top EXCEPT !.pos = Flush])
  /\ UNCHANGED <<events, tick, nextSeq, durable, rejected, dropped, fault, caught, halted>>

\* Mutant: the loop stops one short of the end of the buffer.
FlushableButLast(n) == n + 1 < Len(pending) /\ pending[n + 1].admitted

\* The flush loop stops at the end of the buffer or at an unadmitted event.
Flushable(n) == n < Len(pending) /\ pending[n + 1].admitted

\* Mutant: the loop walks the buffer backwards, as on_event_admitted does.
FlushRowReversed ==
  /\ At(Flush)
  /\ Flushable(Top.flushed)
  /\ durable' = Append(durable, pending[Len(pending) - Top.flushed].ev)
  /\ Replace([Top EXCEPT !.flushed = @ + 1])
  /\ UNCHANGED <<events, tick, nextSeq, pending, rejected, dropped, fault, caught, halted>>

FlushRow ==
  /\ At(Flush)
  /\ Flushable(Top.flushed)
  /\ pending[Top.flushed + 1].ev \notin DurableEvents
  /\ durable' = Append(durable, pending[Top.flushed + 1].ev)
  /\ Replace([Top EXCEPT !.flushed = @ + 1])
  /\ UNCHANGED <<events, tick, nextSeq, pending, rejected, dropped, fault, caught, halted>>

\* Mutant: a failed insert is kept to the flush, publish() returns as before.
FlushFailsQuietly ==
  /\ At(Flush)
  /\ Flushable(Top.flushed)
  /\ fault' = TRUE
  /\ Return(Top.raised)
  /\ UNCHANGED <<events, tick, nextSeq, pending, durable, rejected, dropped, caught>>

\* The insert raises (a busy database, a key already present): the loop is left
\* before the buffer is trimmed, so the rows already written stay staged too.
FlushFails ==
  /\ At(Flush)
  /\ Flushable(Top.flushed)
  /\ fault' = TRUE
  /\ Return(TRUE)
  /\ UNCHANGED <<events, tick, nextSeq, pending, durable, rejected, dropped, caught>>

FlushDone ==
  /\ At(Flush)
  /\ ~Flushable(Top.flushed)
  /\ pending' = SubSeq(pending, Top.flushed + 1, Len(pending))
  /\ Return(Top.raised)
  /\ UNCHANGED <<events, tick, nextSeq, durable, rejected, dropped, fault, caught>>

Next ==
  \/ PublishRoot
  \/ PublishNested
  \/ Stage
  \/ HandlerReturns
  \/ FoldRefuses
  \/ HandlerRaises
  \/ Refuse
  \/ Admit
  \/ FlushRow
  \/ FlushFails
  \/ FlushDone

Spec == Init /\ [][Next]_vars
-----------------------------------------------------------------------------
(***************************************************************************)
(* Properties                                                              *)
(***************************************************************************)
\* The shape of the state.
TypeOK ==
  /\ events \in Seq([tick : Nat, seq : Nat, parent : Nat])
  /\ tick \in Nat
  /\ nextSeq \in Nat
  /\ stack \in Seq(Frame)
  /\ pending \in Seq([ev : Nat, admitted : BOOLEAN])
  /\ durable \in Seq(Nat)
  /\ rejected \in SUBSET Nat
  /\ dropped \in SUBSET Nat
  /\ fault \in BOOLEAN
  /\ caught \in BOOLEAN
  /\ halted \in BOOLEAN

\* An event the fold rejected never becomes a row, not even for an instant and
\* not even when events derived from it were admitted
\* (AdmissionScopedLedger: "every write reaching real storage has already been
\* admitted").
NoRejectedRow == rejected \cap DurableEvents = {}

\* A row's publishing event is an earlier row: no reader, and no restart after
\* a crash between two inserts, finds a consequence without its cause.
ParentsFirst ==
  \A i \in DOMAIN durable :
    LET p == events[durable[i]].parent
    IN  p # 0 => \E j \in 1 .. i - 1 : durable[j] = p

\* Rows are inserted in the canonical read order (tick, sequence_in_tick),
\* although verdicts arrive innermost first.
CanonicallyBefore(e, f) ==
  \/ events[e].tick < events[f].tick
  \/ events[e].tick = events[f].tick /\ events[e].seq < events[f].seq

InsertedInCanonicalOrder ==
  \A i, j \in DOMAIN durable :
    i < j => CanonicallyBefore(durable[i], durable[j])

\* What a reader of the table finds is what was admitted, in the order it was
\* published: both of the above.
RowsAreCanonical == NoRejectedRow /\ InsertedInCanonicalOrder

\* An event leaves the buffer without becoming a row only when the fold itself
\* rejected it or an older event of the same outermost publish(): a failing
\* scoring, learning or projection handler never erases admitted truth.
OnlyRejectionDrops ==
  \A e \in dropped : \E r \in rejected :
    /\ r <= e
    /\ \A f \in r + 1 .. e : events[f].parent >= r

\* When no publish() is in progress every event is settled, a row or dropped,
\* unless an insert failed; and even then once a publish() of the runner has
\* returned normally: the rows a failed flush left in the buffer would make its
\* own inserts fail, so what a pilot's publish() lost in silence has been
\* written by then or ends the match.
NothingStranded ==
  ~Busy /\ (~fault \/ (~halted /\ ~caught)) =>
    /\ pending = <<>>
    /\ 1 .. Len(events) = DurableEvents \cup dropped

\* A running handler reads every staged or durable event that was not dropped,
\* its own included (AdmissionScopedLedger.read_all merges both).
ReadYourWrites ==
  Busy /\ Top.pos \in Fold .. Last =>
    1 .. Len(events) \subseteq DurableEvents \cup StagedEvents \cup dropped

\* The facade with SQLite behind it implements the ledger's promise.
Log == INSTANCE CanonicalLog WITH
         published <- Len(events),
         open <- (1 .. Len(events)) \ (DurableEvents \cup dropped),
         log <- durable,
         withdrawn <- dropped

ImplementsLog == Log!LogSpec
=============================================================================
