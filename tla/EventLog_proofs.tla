--------------------------- MODULE EventLog_proofs --------------------------
(***************************************************************************)
(* What bus, facade and table guarantee for any number of subscribers and  *)
(* events, in four layers, each of which stands on the ones before: which  *)
(* events are rows, in what order, the promise of the log, and how an      *)
(* outermost publish() leaves the ledger.  Behind them, for any number of  *)
(* workers and commands, the runtime whose ENDED the last layer is about.  *)
(***************************************************************************)
EXTENDS TerminalEvidence, MatchRuntime, SequenceTheorems, TLAPS

(***************************************************************************)
(* The shape of the state, and that no rejected event is ever a row.       *)
(* Admission is one inductive invariant; each of its parts says of one     *)
(* piece of the state how it relates to the stack of publish() calls in    *)
(* progress.                                                               *)
(***************************************************************************)
\* A call that is not the innermost one waits in a handler it called; the calls
\* in progress are ordered as their events were stamped.
StackShape ==
  /\ \A k \in 1 .. Len(stack) : stack[k].ev \in 1 .. Len(events)
  /\ \A k, l \in 1 .. Len(stack) : k < l => stack[k].ev < stack[l].ev
  /\ \A k \in 1 .. Len(stack) : k # Len(stack) => stack[k].pos \in Fold .. Last
  /\ \A k \in 1 .. Len(stack) : stack[k].pos # Flush => stack[k].flushed = 0

\* The event about to be staged is the newest, published by the call below.
NewestUnstaged ==
  \A k \in 1 .. Len(stack) : stack[k].pos = Ledger =>
    /\ stack[k].ev = Len(events)
    /\ \A i \in 1 .. Len(pending) : pending[i].ev < stack[k].ev
    /\ events[stack[k].ev].parent # 0 =>
         k > 1 /\ events[stack[k].ev].parent = stack[k - 1].ev

\* The buffer holds events in the order they were stamped.
StagedShape ==
  /\ \A i \in 1 .. Len(pending) : pending[i].ev \in 1 .. Len(events)
  /\ \A i, j \in 1 .. Len(pending) : i < j => pending[i].ev < pending[j].ev

\* Between its staging and its verdict an event stays in the buffer.
InProgressStaged ==
  \A k \in 1 .. Len(stack) : stack[k].pos \in Fold .. Verdict =>
    \E i \in 1 .. Len(pending) : pending[i].ev = stack[k].ev

\* The call of a rejected event knows it, and never gets to the flush.
RejectedRefused ==
  /\ rejected \subseteq 1 .. Len(events)
  /\ \A k \in 1 .. Len(stack) : stack[k].ev \in rejected => stack[k].refused
  /\ \A k \in 1 .. Len(stack) : stack[k].refused => stack[k].pos \in Fold + 1 .. Verdict

\* An admitted entry, and a row, is of an event that was not rejected and can
\* no longer be.
AdmittedClean ==
  \A i \in 1 .. Len(pending) : pending[i].admitted =>
    /\ pending[i].ev \notin rejected
    /\ \A k \in 1 .. Len(stack) : stack[k].ev = pending[i].ev => stack[k].pos = Flush

DurableClean ==
  \A d \in DurableEvents :
    /\ d \in 1 .. Len(events)
    /\ d \notin rejected
    /\ \A k \in 1 .. Len(stack) : stack[k].ev = d => stack[k].pos = Flush

\* The entries the flush loop has passed are admitted, and rows.
FlushedDurable ==
  \A k \in 1 .. Len(stack) : stack[k].pos = Flush =>
    /\ stack[k].flushed <= Len(pending)
    /\ \A i \in 1 .. stack[k].flushed :
         pending[i].admitted /\ pending[i].ev \in DurableEvents

Admission ==
  /\ StackShape
  /\ NewestUnstaged
  /\ StagedShape
  /\ InProgressStaged
  /\ RejectedRefused
  /\ AdmittedClean
  /\ DurableClean
  /\ FlushedDurable

-----------------------------------------------------------------------------
(* How the operations move the stack of calls and the buffer *)

\* The positions of a call, in their order.
LEMMA Positions ==
  /\ Ledger \in Ledger .. Flush /\ Flush \in Ledger .. Flush
  /\ Ledger + 1 \in Ledger .. Flush
  /\ \A p \in Fold .. Last :
       /\ p \in Int
       /\ p # Ledger /\ p # Flush
       /\ p + 1 \in Ledger .. Flush
       /\ p \in Fold .. Verdict
       /\ p + 1 \in Fold + 1 .. Verdict
       /\ p + 1 # Ledger /\ p + 1 # Flush
  BY AdmissionAssumption DEF Ledger, Fold, Last, Verdict, Flush

\* A call goes on, whatever its handler has come to.
LEMMA FrameMoves ==
  ASSUME NEW f \in Frame, NEW p \in Ledger .. Flush, NEW b \in BOOLEAN, NEW c \in BOOLEAN
  PROVE  /\ [f EXCEPT !.pos = p, !.refused = b, !.raised = c] \in Frame
         /\ [f EXCEPT !.pos = p, !.raised = c] \in Frame
         /\ [f EXCEPT !.pos = p] \in Frame
  <1>1. [f EXCEPT !.pos = p] \in Frame
    BY DEF Frame
  <1>2. [f EXCEPT !.pos = p, !.raised = c] \in Frame
    BY <1>1 DEF Frame
  <1>3. ASSUME NEW g \in Frame
        PROVE  [g EXCEPT !.refused = b] \in Frame /\ [g EXCEPT !.raised = c] \in Frame
    BY DEF Frame
  <1>4. [[[f EXCEPT !.pos = p] EXCEPT !.refused = b] EXCEPT !.raised = c] \in Frame
    BY <1>1, <1>3
  <1> QED BY <1>1, <1>2, <1>4

\* The innermost call goes on and the others stay as they are.
LEMMA ReplaceStack ==
  ASSUME stack \in Seq(Frame), Busy, NEW f \in Frame, Replace(f)
  PROVE  /\ stack' \in Seq(Frame)
         /\ Len(stack') = Len(stack)
         /\ \A k \in 1 .. Len(stack) :
              stack'[k] = IF k = Len(stack) THEN f ELSE stack[k]
  BY DEF Replace, Busy

\* The innermost call is gone and its caller, if it is affected at all, goes on
\* to the next handler.
LEMMA ReturnStack ==
  ASSUME stack \in Seq(Frame), Busy, StackShape, halted \in BOOLEAN,
         NEW raised \in BOOLEAN, Return(raised)
  PROVE  /\ stack' \in Seq(Frame)
         /\ Len(stack') = Len(stack) - 1
         /\ halted' \in BOOLEAN
         /\ \A k \in 1 .. Len(stack') :
              /\ stack'[k].ev = stack[k].ev
              /\ stack'[k].refused = stack[k].refused
              /\ stack'[k].flushed = stack[k].flushed
              /\ stack[k].pos \in Fold .. Last
              /\ stack'[k].pos \in Fold .. Verdict
              /\ k # Len(stack') => stack'[k] = stack[k]
              /\ stack[k].pos <= stack'[k].pos
  <1>1. CASE Len(stack) = 1
    BY <1>1 DEF Return, Busy
  <1>2. CASE Len(stack) # 1
    <2>0. Len(stack) - 1 \in Nat \ {0}
      BY <1>2 DEF Busy
    <2>1. PICK n \in Nat \ {0} : n = Len(stack) - 1
      BY <2>0
    <2>2. /\ Rest \in Seq(Frame)
          /\ Len(Rest) = n
          /\ \A k \in 1 .. n : Rest[k] = stack[k]
      BY <2>1 DEF Rest
    <2>3. \A k \in 1 .. n : stack[k] \in Frame
      BY <2>1
    <2>4. \A k \in 1 .. n : stack[k].pos \in Fold .. Last
      BY <2>1 DEF StackShape
    <2> DEFINE f == [stack[n] EXCEPT !.pos = @ + 1, !.raised = TRUE]
    <2>5. stack' = (IF raised THEN [Rest EXCEPT ![n] = f] ELSE Rest) /\ halted' = halted
      <3>1. ASSUME raised
            PROVE  stack' = [Rest EXCEPT ![n] = f]
        BY <1>2, <2>1, <3>1 DEF Return
      <3>2. ASSUME ~raised
            PROVE  stack' = Rest
        BY <1>2, <2>1, <3>2 DEF Return
      <3>3. halted' = halted
        BY <1>2, <2>1 DEF Return
      <3> QED BY <3>1, <3>2, <3>3
    <2>6. /\ f \in Frame /\ f.pos = stack[n].pos + 1 /\ f.ev = stack[n].ev
          /\ f.refused = stack[n].refused /\ f.flushed = stack[n].flushed
      <3>1. stack[n] \in Frame /\ stack[n].pos \in Fold .. Last
        BY <2>1, <2>3, <2>4
      <3>2. stack[n].pos + 1 \in Ledger .. Flush
        BY <3>1, AdmissionAssumption DEF Fold, Last, Ledger, Flush
      <3> QED BY <3>1, <3>2 DEF Frame
    <2> HIDE DEF f
    <2>7. \A k \in 1 .. n : stack[k].pos \in Fold .. Verdict
      BY <2>3, <2>4, AdmissionAssumption DEF Frame, Fold, Last, Verdict, Ledger, Flush
    <2>8. f.pos \in Fold .. Verdict
      BY <2>4, <2>6, AdmissionAssumption DEF Fold, Last, Verdict
    <2>9. CASE raised
      <3>1. /\ stack' \in Seq(Frame) /\ Len(stack') = n
            /\ \A k \in 1 .. n : stack'[k] = IF k = n THEN f ELSE stack[k]
        BY <2>1, <2>2, <2>5, <2>6, <2>9
      <3>2. \A k \in 1 .. n : stack[k].pos \in Int
        BY <2>4, AdmissionAssumption DEF Fold, Last
      <3>3. ASSUME NEW k \in 1 .. n
            PROVE  /\ stack'[k].ev = stack[k].ev
                   /\ stack'[k].refused = stack[k].refused
                   /\ stack'[k].flushed = stack[k].flushed
                   /\ stack'[k].pos \in Fold .. Verdict
                   /\ k # n => stack'[k] = stack[k]
                   /\ stack[k].pos <= stack'[k].pos
        <4>1. CASE k = n
          <5>1. stack'[k] = f
            BY <3>1, <4>1
          <5>2. stack[k].pos <= stack[k].pos + 1
            BY <3>2
          <5> QED BY <4>1, <5>1, <5>2, <2>6, <2>8
        <4>2. CASE k # n
          <5>1. stack'[k] = stack[k]
            BY <3>1, <4>2
          <5>2. stack[k].pos <= stack[k].pos
            BY <3>2
          <5> QED BY <4>2, <5>1, <5>2, <2>7
        <4> QED BY <4>1, <4>2
      <3> QED
        BY <3>1, <3>3, <2>1, <2>4, <2>5
    <2>10. CASE ~raised
      <3>1. stack' = Rest
        BY <2>5, <2>10
      <3>2. \A k \in 1 .. n : stack[k].pos \in Int
        BY <2>4, AdmissionAssumption DEF Fold, Last
      <3> QED
        BY <3>1, <3>2, <2>1, <2>2, <2>4, <2>5, <2>7
    <2> QED BY <2>9, <2>10
  <1> QED BY <1>1, <1>2

Entry == [ev : Nat, admitted : BOOLEAN]

\* The refused event is found in the buffer, and what was staged before it stays.
LEMMA BeforeEventStaged ==
  ASSUME pending \in Seq(Entry), NEW e,
         \E i \in 1 .. Len(pending) : pending[i].ev = e
  PROVE  /\ IndexOf(e) \in 1 .. Len(pending)
         /\ pending[IndexOf(e)].ev = e
         /\ BeforeEvent(e) \in Seq(Entry)
         /\ Len(BeforeEvent(e)) = IndexOf(e) - 1
         /\ \A i \in 1 .. IndexOf(e) - 1 : BeforeEvent(e)[i] = pending[i]
  <1>1. IndexOf(e) \in DOMAIN pending /\ pending[IndexOf(e)].ev = e
    BY DEF IndexOf
  <1>2. IndexOf(e) \in 1 .. Len(pending)
    BY <1>1
  <1> QED BY <1>1, <1>2 DEF BeforeEvent

\* Marking an event as admitted changes nothing else in the buffer.
LEMMA AdmitStaged ==
  ASSUME pending \in Seq(Entry), Admit
  PROVE  /\ pending' \in Seq(Entry)
         /\ Len(pending') = Len(pending)
         /\ \A i \in 1 .. Len(pending) :
              /\ pending'[i].ev = pending[i].ev
              /\ pending'[i].admitted = (pending[i].admitted \/ pending[i].ev = Top.ev)
  <1>1. pending' = [i \in 1 .. Len(pending) |->
                     IF pending[i].ev = Top.ev
                     THEN [pending[i] EXCEPT !.admitted = TRUE] ELSE pending[i]]
    BY DEF Admit
  <1>2. \A i \in 1 .. Len(pending) : pending[i] \in Entry
    OBVIOUS
  <1>3. \A i \in 1 .. Len(pending) :
          /\ pending'[i] \in Entry
          /\ pending'[i].ev = pending[i].ev
          /\ pending'[i].admitted = (pending[i].admitted \/ pending[i].ev = Top.ev)
    BY <1>1, <1>2 DEF Entry
  <1>4. pending' \in [1 .. Len(pending) -> Entry]
    BY <1>1, <1>3
  <1>5. pending' \in Seq(Entry) /\ Len(pending') = Len(pending)
    <2>1. Len(pending) \in Nat
      OBVIOUS
    <2>2. ASSUME NEW n \in Nat, NEW f \in [1 .. n -> Entry]
          PROVE  f \in Seq(Entry) /\ Len(f) = n
      OBVIOUS
    <2> QED BY <1>4, <2>1, <2>2
  <1> QED BY <1>3, <1>5

\* What the buffer keeps when its first y entries are deleted.
LEMMA SuffixEntries ==
  ASSUME NEW s \in Seq(Entry), NEW y \in Nat, y <= Len(s)
  PROVE  /\ Len(SubSeq(s, y + 1, Len(s))) = Len(s) - y
         /\ \A i \in 1 .. Len(s) - y : SubSeq(s, y + 1, Len(s))[i] = s[i + y]
  <1>1. /\ Len(SubSeq(s, y + 1, Len(s))) = Len(s) - y
        /\ \A i \in 1 .. Len(s) - y : SubSeq(s, y + 1, Len(s))[i] = s[y + 1 + i - 1]
    BY SubSeqProperties
  <1>2. \A i \in 1 .. Len(s) - y : y + 1 + i - 1 = i + y
    OBVIOUS
  <1> QED BY <1>1, <1>2

\* The flush loop writes one more row.
LEMMA FlushRowDurable ==
  ASSUME durable \in Seq(Nat), NEW e \in Nat, durable' = Append(durable, e)
  PROVE  /\ durable' \in Seq(Nat)
         /\ Len(durable') = Len(durable) + 1
         /\ \A i \in 1 .. Len(durable) : durable'[i] = durable[i]
         /\ durable'[Len(durable) + 1] = e
         /\ DurableEvents' = DurableEvents \cup {e}
  <1>1. /\ durable' \in Seq(Nat)
        /\ Len(durable') = Len(durable) + 1
        /\ \A i \in 1 .. Len(durable) : durable'[i] = durable[i]
        /\ durable'[Len(durable) + 1] = e
    OBVIOUS
  <1>2. DurableEvents' = {durable'[i] : i \in 1 .. Len(durable) + 1}
    BY <1>1, SMTT(20) DEF DurableEvents
  <1>3. DurableEvents = {durable[i] : i \in 1 .. Len(durable)}
    BY DEF DurableEvents
  <1>4. 1 .. Len(durable) + 1 = 1 .. Len(durable) \cup {Len(durable) + 1}
    OBVIOUS
  <1> QED BY <1>1, <1>2, <1>3, <1>4
-----------------------------------------------------------------------------
(* Type correctness *)

LEMMA InitTyped == Init => TypeOK
  <1>1. ASSUME NEW S
        PROVE  << >> \in Seq(S)
    BY EmptySeq
  <1>2. ASSUME Init
        PROVE  TypeOK
    <2>1. /\ events \in Seq([tick : Nat, seq : Nat, parent : Nat])
          /\ stack \in Seq(Frame)
          /\ pending \in Seq([ev : Nat, admitted : BOOLEAN])
          /\ durable \in Seq(Nat)
      BY <1>1, <1>2, Zenon DEF Init
    <2> QED BY <1>2, <2>1 DEF Init, TypeOK
  <1> QED BY <1>2

LEMMA StepTyped ==
  ASSUME TypeOK, Admission, [Next]_vars
  PROVE  TypeOK'
  <1> USE AdmissionAssumption
  <1>1. /\ stack \in Seq(Frame)
        /\ pending \in Seq(Entry)
        /\ halted \in BOOLEAN
        /\ StackShape
    BY DEF TypeOK, Entry, Admission
  <1>2. Busy => /\ Len(stack) \in Nat \ {0}
                /\ Top \in Frame
                /\ Top = stack[Len(stack)]
    BY <1>1 DEF Busy, Top
  <1>3. ASSUME NEW isTick \in BOOLEAN, NEW parent \in Nat, Stamp(isTick, parent),
               caught' \in BOOLEAN
        PROVE  TypeOK'
    <2>1. NewFrame(Len(events) + 1) \in Frame
      BY DEF NewFrame, Frame, TypeOK, Ledger, Flush, Last
    <2> QED BY <1>3, <2>1 DEF Stamp, TypeOK
  <1>4. CASE PublishRoot
    BY <1>3, <1>4 DEF PublishRoot
  <1>5. CASE PublishNested
    BY <1>2, <1>3, <1>5 DEF PublishNested, Frame, TypeOK
  <1>6. CASE Stage
    <2>1. [Top EXCEPT !.pos = @ + 1] \in Frame
      <3>1. Top \in Frame /\ Top.pos + 1 \in Ledger .. Flush
        BY <1>2, <1>6, Positions DEF Stage, At
      <3> QED BY <3>1, FrameMoves
    <2>2. stack' \in Seq(Frame)
      BY <1>1, <1>6, <2>1, ReplaceStack DEF Stage, At
    <2>3. [ev |-> Top.ev, admitted |-> FALSE] \in Entry
      BY <1>2, <1>6 DEF Stage, At, Frame, Entry
    <2> QED BY <1>1, <1>6, <2>2, <2>3 DEF Stage, TypeOK, Entry
  <1>7. CASE HandlerReturns
    <2>1. [Top EXCEPT !.pos = @ + 1] \in Frame
      <3>1. Top \in Frame /\ Top.pos + 1 \in Ledger .. Flush
        BY <1>2, <1>7, Positions DEF HandlerReturns
      <3> QED BY <3>1, FrameMoves
    <2>2. stack' \in Seq(Frame)
      BY <1>1, <1>7, <2>1, ReplaceStack DEF HandlerReturns
    <2> QED BY <1>7, <2>2 DEF HandlerReturns, TypeOK
  <1>8. CASE FoldRefuses
    <2>1. [Top EXCEPT !.pos = @ + 1, !.refused = TRUE, !.raised = TRUE] \in Frame
      <3>1. Top.pos + 1 \in Ledger .. Flush
        BY <1>2, <1>8 DEF FoldRefuses, At, Ledger, Fold, Flush, Last
      <3> QED BY <1>2, <1>8, <3>1, FrameMoves DEF FoldRefuses, At
    <2>2. stack' \in Seq(Frame)
      BY <1>1, <1>8, <2>1, ReplaceStack DEF FoldRefuses, At
    <2> QED BY <1>2, <1>8, <2>2 DEF FoldRefuses, At, Frame, TypeOK
  <1>9. CASE HandlerRaises
    <2>1. [Top EXCEPT !.pos = @ + 1, !.raised = TRUE] \in Frame
      <3>1. Top.pos + 1 \in Ledger .. Flush
        BY <1>9 DEF HandlerRaises, Ledger, Fold, Flush, Last
      <3> QED BY <1>2, <1>9, <3>1, FrameMoves DEF HandlerRaises
    <2>2. stack' \in Seq(Frame)
      BY <1>1, <1>9, <2>1, ReplaceStack DEF HandlerRaises
    <2> QED BY <1>9, <2>2 DEF HandlerRaises, TypeOK
  <1>10. CASE Refuse
    <2>1. Top.raised \in BOOLEAN /\ Top.pos = Verdict /\ Busy
      BY <1>2, <1>10 DEF Refuse, At, Frame
    <2>2. stack' \in Seq(Frame) /\ halted' \in BOOLEAN
      BY <1>1, <1>10, <2>1, ReturnStack DEF Refuse
    <2>3. \E i \in 1 .. Len(pending) : pending[i].ev = Top.ev
      BY <1>2, <2>1 DEF Admission, InProgressStaged, Verdict, Fold, Last
    <2>4. pending' \in Seq(Entry) /\ IndexOf(Top.ev) \in 1 .. Len(pending)
      BY <1>1, <1>10, <2>3, BeforeEventStaged DEF Refuse
    <2>5. dropped' \in SUBSET Nat
      <3>1. \A i \in 1 .. Len(pending) : pending[i] \in Entry
        BY <1>1
      <3>2. \A i \in IndexOf(Top.ev) .. Len(pending) : pending[i].ev \in Nat
        BY <2>4, <3>1 DEF Entry
      <3> QED BY <1>10, <3>2 DEF Refuse, TypeOK
    <2> QED BY <1>10, <2>2, <2>4, <2>5 DEF Refuse, TypeOK, Entry
  <1>11. CASE Admit
    <2>1. [Top EXCEPT !.pos = Flush] \in Frame
      BY <1>2, <1>11 DEF Admit, At, Frame, Ledger, Flush, Last
    <2>2. stack' \in Seq(Frame)
      BY <1>1, <1>11, <2>1, ReplaceStack DEF Admit, At
    <2>3. pending' \in Seq(Entry)
      BY <1>1, <1>11, AdmitStaged
    <2> QED BY <1>11, <2>2, <2>3 DEF Admit, TypeOK, Entry
  <1>12. CASE FlushRow
    <2>1. [Top EXCEPT !.flushed = @ + 1] \in Frame
      <3>1. Top \in Frame
        BY <1>2, <1>12 DEF FlushRow, At
      <3> QED BY <3>1 DEF Frame
    <2>2. stack' \in Seq(Frame)
      BY <1>1, <1>12, <2>1, ReplaceStack DEF FlushRow, At
    <2>3. Top.flushed + 1 \in 1 .. Len(pending)
      <3>1. Top.flushed \in Nat
        BY <1>2, <1>12 DEF FlushRow, At, Frame
      <3> QED BY <1>1, <1>12, <3>1 DEF FlushRow, Flushable
    <2>4. pending[Top.flushed + 1].ev \in Nat
      <3>1. pending[Top.flushed + 1] \in Entry
        BY <1>1, <2>3
      <3> QED BY <3>1 DEF Entry
    <2> QED BY <1>12, <2>2, <2>4 DEF FlushRow, TypeOK
  <1>13. CASE FlushFails
    <2>1. stack' \in Seq(Frame) /\ halted' \in BOOLEAN
      BY <1>1, <1>13, ReturnStack DEF FlushFails, At
    <2> QED BY <1>13, <2>1 DEF FlushFails, TypeOK
  <1>14. CASE FlushDone
    <2>1. Top.raised \in BOOLEAN /\ Top.flushed \in Nat
      BY <1>2, <1>14 DEF FlushDone, At, Frame
    <2>2. stack' \in Seq(Frame) /\ halted' \in BOOLEAN
      BY <1>1, <1>14, <2>1, ReturnStack DEF FlushDone, At
    <2>3. pending' \in Seq(Entry)
      BY <1>1, <1>14, <2>1 DEF FlushDone
    <2> QED BY <1>14, <2>2, <2>3 DEF FlushDone, TypeOK, Entry
  <1>15. CASE UNCHANGED vars
    BY <1>15 DEF vars, TypeOK
  <1> QED
    BY <1>4, <1>5, <1>6, <1>7, <1>8, <1>9, <1>10, <1>11, <1>12, <1>13, <1>14, <1>15 DEF Next
-----------------------------------------------------------------------------
(* The inductive invariant *)

\* What the proofs below take from the type invariant.
LEMMA Shapes ==
  ASSUME TypeOK
  PROVE  /\ Len(events) \in Nat /\ Len(stack) \in Nat /\ Len(pending) \in Nat
         /\ stack \in Seq(Frame) /\ pending \in Seq(Entry)
         /\ \A k \in 1 .. Len(stack) :
              /\ stack[k] \in Frame
              /\ stack[k].ev \in Nat /\ stack[k].flushed \in Nat
              /\ stack[k].pos \in Int /\ stack[k].pos \in Ledger .. Flush
         /\ \A i \in 1 .. Len(pending) :
              pending[i].ev \in Nat /\ pending[i].admitted \in BOOLEAN
         /\ Busy => Len(stack) \in 1 .. Len(stack) /\ Top = stack[Len(stack)]
         /\ Ledger = 1 /\ Fold = 2 /\ Last \in Nat /\ Last >= 2
         /\ Verdict = Last + 1 /\ Flush = Last + 2
  <1>1. stack \in Seq(Frame) /\ pending \in Seq(Entry) /\ events \in Seq([tick : Nat, seq : Nat, parent : Nat])
    BY DEF TypeOK, Entry
  <1>2. \A k \in 1 .. Len(stack) : stack[k] \in Frame
    BY <1>1
  <1>3. \A i \in 1 .. Len(pending) : pending[i] \in Entry
    BY <1>1
  <1>4. Last \in Nat /\ Last >= 2 /\ Flush = Last + 2 /\ Ledger = 1 /\ Fold = 2 /\ Verdict = Last + 1
    BY AdmissionAssumption DEF Last, Flush, Ledger, Fold, Verdict
  <1>5. Busy => Len(stack) \in 1 .. Len(stack) /\ Top = stack[Len(stack)]
    BY <1>1 DEF Busy, Top
  <1>6. \A k \in 1 .. Len(stack) :
          /\ stack[k].ev \in Nat /\ stack[k].flushed \in Nat
          /\ stack[k].pos \in Int /\ stack[k].pos \in Ledger .. Flush
    BY <1>2, <1>4 DEF Frame
  <1>7. \A i \in 1 .. Len(pending) : pending[i].ev \in Nat /\ pending[i].admitted \in BOOLEAN
    BY <1>3 DEF Entry
  <1>8. Len(events) \in Nat /\ Len(stack) \in Nat /\ Len(pending) \in Nat
    BY <1>1
  <1> QED BY <1>1, <1>2, <1>4, <1>5, <1>6, <1>7, <1>8

\* A new event is on top of the stack, newer than anything it could meet.
LEMMA StampAdmission ==
  ASSUME TypeOK, Admission, NEW isTick \in BOOLEAN, NEW parent \in Nat,
         Stamp(isTick, parent),
         parent # 0 => Busy /\ parent = Top.ev,
         Busy => Top.pos \in Fold .. Last
  PROVE  Admission'
  <1> DEFINE n == Len(events)
             m == Len(stack)
  <1>1. /\ n \in Nat /\ m \in Nat
        /\ Len(events') = n + 1 /\ Len(stack') = m + 1
        /\ \A k \in 1 .. m : stack'[k] = stack[k]
        /\ stack'[m + 1] = NewFrame(n + 1)
        /\ \A e \in 1 .. n : events'[e] = events[e]
        /\ events'[n + 1].parent = parent
    BY Shapes, SMTT(20) DEF Stamp, TypeOK
  <1>2. /\ NewFrame(n + 1).ev = n + 1 /\ NewFrame(n + 1).pos = Ledger
        /\ NewFrame(n + 1).flushed = 0 /\ ~NewFrame(n + 1).refused
    BY DEF NewFrame
  <1>3. UNCHANGED <<pending, durable, rejected>> /\ DurableEvents' = DurableEvents
    BY DEF Stamp, DurableEvents
  <1>4. Busy => m \in 1 .. m /\ Top = stack[m]
    BY Shapes
  <1>5. ~Busy => m = 0
    BY Shapes DEF Busy, TypeOK
  <1>6. \A k \in 1 .. m : stack[k].pos \in Fold .. Last
    BY <1>1, <1>4, <1>5 DEF Admission, StackShape
  <1>7. /\ \A k \in 1 .. m : /\ stack[k].ev \in 1 .. n
                             /\ stack[k].pos \in Int
                             /\ stack[k].pos \in Fold .. Last
                             /\ stack[k].pos # Ledger /\ stack[k].pos # Flush
        /\ \A i \in 1 .. Len(pending) : pending[i].ev \in 1 .. n
        /\ Len(pending) \in Nat
    <2>1. \A i \in 1 .. Len(pending) : pending[i].ev \in 1 .. n
      BY DEF Admission, StagedShape
    <2>2. \A k \in 1 .. m : stack[k].ev \in 1 .. n
      BY DEF Admission, StackShape
    <2>3. \A k \in 1 .. m : stack[k].pos \in Int /\ stack[k].pos # Ledger /\ stack[k].pos # Flush
      BY <1>1, <1>6, Shapes
    <2> QED BY <1>6, <2>1, <2>2, <2>3, Shapes
  <1>8. \A k \in 1 .. Len(stack') :
          \/ k \in 1 .. m /\ stack'[k] = stack[k]
          \/ k = m + 1 /\ stack'[k] = NewFrame(n + 1)
    BY <1>1
  <1>9. Ledger \notin Fold .. Last /\ Ledger # Flush /\ Ledger \notin Fold .. Verdict
    BY Shapes
  <1> HIDE DEF n, m
  <1>10. StackShape'
    <2>1. \A k \in 1 .. Len(stack') : stack'[k].ev \in 1 .. Len(events')
      <3>1. n + 1 \in 1 .. n + 1 /\ \A e \in 1 .. n : e \in 1 .. n + 1
        BY <1>1
      <3> QED BY <1>1, <1>2, <1>7, <1>8, <3>1
    <2>2. \A k, l \in 1 .. Len(stack') : k < l => stack'[k].ev < stack'[l].ev
      <3> SUFFICES ASSUME NEW k \in 1 .. Len(stack'), NEW l \in 1 .. Len(stack'), k < l
                   PROVE  stack'[k].ev < stack'[l].ev
        OBVIOUS
      <3>1. k \in 1 .. m
        BY <1>1
      <3>2. CASE l \in 1 .. m
        BY <1>1, <3>1, <3>2 DEF Admission, StackShape, m
      <3>3. CASE l = m + 1
        BY <1>1, <1>2, <1>7, <3>1, <3>3
      <3> QED BY <1>1, <3>2, <3>3
    <2>3. \A k \in 1 .. Len(stack') : k # Len(stack') => stack'[k].pos \in Fold .. Last
      BY <1>1, <1>7, <1>8
    <2>4. \A k \in 1 .. Len(stack') : stack'[k].pos # Flush => stack'[k].flushed = 0
      BY <1>1, <1>2, <1>8 DEF Admission, StackShape, m
    <2> QED BY <2>1, <2>2, <2>3, <2>4 DEF StackShape, Fold, Last, Flush
  <1>11. NewestUnstaged'
    <2> SUFFICES ASSUME NEW k \in 1 .. Len(stack'), stack'[k].pos = Ledger
                 PROVE  /\ stack'[k].ev = Len(events')
                        /\ \A i \in 1 .. Len(pending') : pending'[i].ev < stack'[k].ev
                        /\ events'[stack'[k].ev].parent # 0 =>
                             k > 1 /\ events'[stack'[k].ev].parent = stack'[k - 1].ev
      BY DEF NewestUnstaged, Ledger
    <2>1. k = m + 1 /\ stack'[k].ev = n + 1
      BY <1>2, <1>7, <1>8
    <2>2. \A i \in 1 .. Len(pending') : pending'[i].ev < n + 1
      BY <1>1, <1>3, <1>7
    <2>3. parent # 0 => m \in 1 .. m /\ parent = stack[m].ev
      BY <1>4 DEF m
    <2>4. parent # 0 => k > 1 /\ parent = stack'[k - 1].ev
      BY <1>1, <2>1, <2>3
    <2> QED BY <1>1, <2>1, <2>2, <2>4
  <1>12. StagedShape'
    BY <1>1, <1>3, <1>7 DEF Admission, StagedShape
  <1>13. InProgressStaged'
    BY <1>2, <1>3, <1>8, <1>9 DEF Admission, InProgressStaged, m, Fold, Verdict, Last
  <1>14. RejectedRefused'
    <2>1. rejected' \subseteq 1 .. Len(events')
      BY <1>1, <1>3 DEF Admission, RejectedRefused, n
    <2>2. n + 1 \notin rejected
      BY <1>1 DEF Admission, RejectedRefused, n
    <2>3. \A k \in 1 .. Len(stack') : stack'[k].ev \in rejected' => stack'[k].refused
      BY <1>2, <1>3, <1>8, <2>2 DEF Admission, RejectedRefused, m
    <2>4. \A k \in 1 .. Len(stack') : stack'[k].refused => stack'[k].pos \in Fold + 1 .. Verdict
      BY <1>2, <1>8 DEF Admission, RejectedRefused, m
    <2> QED BY <2>1, <2>3, <2>4 DEF RejectedRefused, Fold, Verdict, Last
  <1>15. AdmittedClean'
    <2> SUFFICES ASSUME NEW i \in 1 .. Len(pending), pending[i].admitted
                 PROVE  /\ pending[i].ev \notin rejected
                        /\ \A k \in 1 .. Len(stack') :
                             stack'[k].ev = pending[i].ev => stack'[k].pos = Flush
      BY <1>3 DEF AdmittedClean, Flush, Last
    <2>1. pending[i].ev # n + 1
      BY <1>1, <1>7
    <2> QED BY <1>2, <1>8, <2>1 DEF Admission, AdmittedClean, m
  <1>16. DurableClean'
    <2> SUFFICES ASSUME NEW d \in DurableEvents
                 PROVE  /\ d \in 1 .. Len(events') /\ d \notin rejected
                        /\ \A k \in 1 .. Len(stack') :
                             stack'[k].ev = d => stack'[k].pos = Flush
      BY <1>3 DEF DurableClean, Flush, Last
    <2>1. d \in 1 .. n /\ d \notin rejected
          /\ \A k \in 1 .. m : stack[k].ev = d => stack[k].pos = Flush
      BY DEF Admission, DurableClean, n, m
    <2> QED BY <1>1, <1>2, <1>8, <2>1
  <1>17. FlushedDurable'
    <2> SUFFICES ASSUME NEW k \in 1 .. Len(stack'), stack'[k].pos = Flush
                 PROVE  FALSE
      BY DEF FlushedDurable, Flush, Last
    <2> QED BY <1>2, <1>7, <1>8, <1>9
  <1> QED
    BY <1>10, <1>11, <1>12, <1>13, <1>14, <1>15, <1>16, <1>17 DEF Admission

\* A handler is done, whether it returned or raised, and the fold may have
\* rejected the event.
LEMMA HandlerAdmission ==
  ASSUME TypeOK, Admission, Busy, Top.pos \in Fold .. Last,
         NEW f \in Frame, Replace(f),
         f.ev = Top.ev, f.pos = Top.pos + 1, f.flushed = Top.flushed,
         UNCHANGED <<events, pending, durable>>,
         \/ rejected' = rejected /\ f.refused = Top.refused
         \/ rejected' = rejected \cup {Top.ev} /\ f.refused
  PROVE  Admission'
  <1> DEFINE n == Len(events)
             m == Len(stack)
  <1>1. /\ m \in Nat /\ n \in Nat /\ m \in 1 .. m /\ Top = stack[m]
        /\ Len(stack') = m
        /\ stack'[m] = f
        /\ \A k \in 1 .. m : k # m => stack'[k] = stack[k]
        /\ DurableEvents' = DurableEvents
    BY Shapes, ReplaceStack DEF DurableEvents
  <1>2. \A k \in 1 .. m : k # m => stack[k].ev < Top.ev /\ stack[k].pos \in Fold .. Last
    BY <1>1 DEF Admission, StackShape
  <1>3. /\ Top.ev \in 1 .. n
        /\ Top.flushed = 0
    BY <1>1, Shapes DEF Admission, StackShape
  <1>4. /\ f.pos \in Fold + 1 .. Verdict
        /\ f.pos # Ledger /\ f.pos # Flush /\ f.flushed = 0
        /\ Top.pos \in Fold .. Verdict
        /\ Top.pos # Flush
    BY <1>3, Positions
  <1>5. \A k \in 1 .. m : stack'[k].ev = stack[k].ev
    BY <1>1
  <1>6. \A k \in 1 .. m : stack[k].ev \in Nat
    BY Shapes
  <1>7. \A k \in 1 .. m : stack'[k].pos # Ledger /\ stack'[k].pos # Flush
    <2>1. \A p \in Fold .. Last : p # Ledger /\ p # Flush
      BY Shapes
    <2> QED BY <1>1, <1>2, <1>4, <2>1
  <1> HIDE DEF n, m
  <1>10. StackShape'
    <2>1. \A k \in 1 .. m : stack'[k].ev \in 1 .. Len(events')
      BY <1>5 DEF Admission, StackShape, m
    <2>2. \A k, l \in 1 .. m : k < l => stack'[k].ev < stack'[l].ev
      BY <1>5 DEF Admission, StackShape, m
    <2>3. \A k \in 1 .. m : k # m => stack'[k].pos \in Fold .. Last
      BY <1>1, <1>2
    <2>4. \A k \in 1 .. m : stack'[k].pos # Flush => stack'[k].flushed = 0
      BY <1>1, <1>4 DEF Admission, StackShape, m
    <2> QED BY <1>1, <2>1, <2>2, <2>3, <2>4 DEF StackShape, Fold, Last, Flush
  <1>11. NewestUnstaged'
    <2> SUFFICES ASSUME NEW k \in 1 .. m, stack'[k].pos = Ledger
                 PROVE  FALSE
      BY <1>1 DEF NewestUnstaged, Ledger
    <2> QED BY <1>7
  <1>12. StagedShape'
    BY DEF Admission, StagedShape
  <1>13. InProgressStaged'
    <2>1. \A k \in 1 .. m : stack'[k].pos \in Fold .. Verdict =>
                                stack[k].pos \in Fold .. Verdict
      BY <1>1, <1>4
    <2> QED BY <1>1, <1>5, <2>1 DEF Admission, InProgressStaged, m, Fold, Verdict, Last
  <1>14. RejectedRefused'
    <2>1. rejected' \subseteq 1 .. Len(events')
      BY <1>3 DEF Admission, RejectedRefused, n
    <2>2. \A k \in 1 .. m : k # m => stack[k].ev # Top.ev
      BY <1>2, <1>3, <1>6
    <2>3. \A k \in 1 .. m : stack'[k].ev \in rejected' => stack'[k].refused
      BY <1>1, <1>5, <2>2 DEF Admission, RejectedRefused, m
    <2>4. \A k \in 1 .. m : stack'[k].refused => stack'[k].pos \in Fold + 1 .. Verdict
      BY <1>1, <1>4 DEF Admission, RejectedRefused, m
    <2> QED BY <1>1, <2>1, <2>3, <2>4 DEF RejectedRefused, Fold, Verdict, Last
  <1>15. \A e : (\A k \in 1 .. m : stack[k].ev = e => stack[k].pos = Flush) =>
                 /\ e # Top.ev
                 /\ \A k \in 1 .. m : stack'[k].ev = e => stack'[k].pos = Flush
    BY <1>1, <1>4, <1>5
  <1>16. AdmittedClean'
    <2> SUFFICES ASSUME NEW i \in 1 .. Len(pending), pending[i].admitted
                 PROVE  /\ pending[i].ev \notin rejected'
                        /\ \A k \in 1 .. m :
                             stack'[k].ev = pending[i].ev => stack'[k].pos = Flush
      BY <1>1 DEF AdmittedClean, Flush, Last
    <2> QED BY <1>15 DEF Admission, AdmittedClean, m
  <1>17. DurableClean'
    <2> SUFFICES ASSUME NEW d \in DurableEvents
                 PROVE  /\ d \in 1 .. n /\ d \notin rejected'
                        /\ \A k \in 1 .. m : stack'[k].ev = d => stack'[k].pos = Flush
      BY <1>1 DEF DurableClean, Flush, Last, n
    <2> QED BY <1>15 DEF Admission, DurableClean, m, n
  <1>18. FlushedDurable'
    <2> SUFFICES ASSUME NEW k \in 1 .. m, stack'[k].pos = Flush
                 PROVE  FALSE
      BY <1>1 DEF FlushedDurable, Flush, Last
    <2> QED BY <1>7
  <1> QED
    BY <1>10, <1>11, <1>12, <1>13, <1>14, <1>16, <1>17, <1>18 DEF Admission

\* The facade puts the event at the end of its buffer.
LEMMA StageAdmission ==
  ASSUME TypeOK, Admission, Stage
  PROVE  Admission'
  <1> DEFINE n == Len(events)
             m == Len(stack)
             b == Len(pending)
             f == [Top EXCEPT !.pos = @ + 1]
             entry == [ev |-> Top.ev, admitted |-> FALSE]
  <1>1. /\ n \in Nat /\ m \in Nat /\ b \in Nat /\ m \in 1 .. m
        /\ Top = stack[m] /\ Top \in Frame
    BY Shapes DEF Stage, At
  <1>2. f \in Frame /\ f.ev = Top.ev /\ f.pos = Fold /\ f.flushed = Top.flushed /\ f.refused = Top.refused
    <2>1. Ledger = 1 /\ Fold = 2 /\ Fold \in Ledger .. Flush /\ Top.pos = Ledger
      BY Shapes DEF Stage, At
    <2> QED BY <1>1, <2>1 DEF Frame
  <1>3. Top.pos = Ledger /\ Busy /\ Replace(f) /\ pending' = Append(pending, entry)
    BY DEF Stage, At
  <1> HIDE DEF f
  <1>4. /\ Len(stack') = m
        /\ stack'[m] = f
        /\ \A k \in 1 .. m : k # m => stack'[k] = stack[k]
    BY <1>1, <1>2, <1>3, ReplaceStack, Shapes
  <1>5. /\ Len(pending') = b + 1
        /\ \A i \in 1 .. b : pending'[i] = pending[i]
        /\ pending'[b + 1] = entry
    BY <1>3, Shapes
  <1>6. UNCHANGED <<events, durable, rejected>> /\ DurableEvents' = DurableEvents
    BY DEF Stage, DurableEvents
  <1>7. entry.ev = Top.ev /\ ~entry.admitted
    OBVIOUS
  <1> HIDE DEF n, m, b, entry
  <1>8. /\ Top.ev \in 1 .. n /\ Top.flushed = 0
        /\ \A i \in 1 .. b : pending[i].ev \in 1 .. n /\ pending[i].ev < Top.ev
    BY <1>1, <1>3, Shapes DEF Admission, StackShape, NewestUnstaged, StagedShape, m, n, b
  <1>9. \A k \in 1 .. m : k # m => /\ stack[k].ev < Top.ev
                                   /\ stack[k].pos \in Fold .. Last
    BY <1>1 DEF Admission, StackShape, m
  <1>10. \A k \in 1 .. m : stack'[k].ev = stack[k].ev /\ stack[k].ev \in Nat
    BY <1>1, <1>2, <1>4, Shapes DEF m
  <1>11. \A k \in 1 .. m : stack'[k].pos # Ledger /\ stack'[k].pos # Flush
    <2>1. \A p \in Fold .. Last : p # Ledger /\ p # Flush
      BY Shapes
    <2>2. Fold # Ledger /\ Fold # Flush
      BY Shapes
    <2> QED BY <1>2, <1>4, <1>9, <2>1, <2>2
  <1>12. StackShape'
    <2>1. \A k \in 1 .. m : stack'[k].ev \in 1 .. Len(events')
      BY <1>6, <1>10 DEF Admission, StackShape, m
    <2>2. \A k, l \in 1 .. m : k < l => stack'[k].ev < stack'[l].ev
      BY <1>10 DEF Admission, StackShape, m
    <2>3. \A k \in 1 .. m : k # m => stack'[k].pos \in Fold .. Last
      BY <1>4, <1>9
    <2>4. \A k \in 1 .. m : stack'[k].pos # Flush => stack'[k].flushed = 0
      <3>1. \A k \in 1 .. m : k # m => stack[k].flushed = 0
        BY <1>4, <1>11 DEF Admission, StackShape, m
      <3> QED BY <1>2, <1>4, <1>8, <3>1
    <2> QED BY <1>4, <2>1, <2>2, <2>3, <2>4 DEF StackShape, Fold, Last, Flush
  <1>13. NewestUnstaged'
    BY <1>4, <1>11 DEF NewestUnstaged, Ledger
  <1>14. \A i \in 1 .. b + 1 : i \in 1 .. b \/ i = b + 1
    BY <1>1
  <1>15. StagedShape'
    <2>1. \A i \in 1 .. b + 1 : pending'[i].ev \in 1 .. Len(events')
      BY <1>5, <1>6, <1>7, <1>8, <1>14 DEF n
    <2>2. ASSUME NEW i \in 1 .. b + 1, NEW j \in 1 .. b + 1, i < j
          PROVE  pending'[i].ev < pending'[j].ev
      <3>1. i \in 1 .. b
        BY <1>1, <2>2
      <3>2. CASE j \in 1 .. b
        BY <1>5, <2>2, <3>1, <3>2 DEF Admission, StagedShape, b
      <3>3. CASE j = b + 1
        BY <1>5, <1>7, <1>8, <3>1, <3>3
      <3> QED BY <1>14, <3>2, <3>3
    <2> QED BY <1>5, <2>1, <2>2 DEF StagedShape
  <1>16. InProgressStaged'
    <2> SUFFICES ASSUME NEW k \in 1 .. m
                 PROVE  \E i \in 1 .. b + 1 : pending'[i].ev = stack[k].ev
      BY <1>4, <1>5, <1>10 DEF InProgressStaged
    <2>1. CASE k = m
      BY <1>1, <1>5, <1>7, <2>1
    <2>2. CASE k # m
      <3>1. stack[k].pos \in Fold .. Verdict
        BY <1>9, <2>2, Shapes
      <3>2. PICK i \in 1 .. b : pending[i].ev = stack[k].ev
        BY <3>1 DEF Admission, InProgressStaged, m, b
      <3> QED BY <1>1, <1>5, <3>2
    <2> QED BY <2>1, <2>2
  <1>17. RejectedRefused'
    <2>1. ~Top.refused
      <3>1. Top.refused => Top.pos \in Fold + 1 .. Verdict
        BY <1>1 DEF Admission, RejectedRefused, m
      <3> QED BY <1>3, <3>1, Shapes
    <2>2. \A k \in 1 .. m : stack'[k].refused = stack[k].refused
      BY <1>1, <1>2, <1>4
    <2>3. \A k \in 1 .. m : stack'[k].refused => stack'[k].pos \in Fold + 1 .. Verdict
      BY <1>1, <1>2, <1>4, <2>1 DEF Admission, RejectedRefused, m
    <2>4. \A k \in 1 .. m : stack'[k].ev \in rejected' => stack'[k].refused
      BY <1>6, <1>10, <2>2 DEF Admission, RejectedRefused, m
    <2>5. rejected' \subseteq 1 .. Len(events')
      BY <1>6 DEF Admission, RejectedRefused
    <2> QED BY <1>4, <2>3, <2>4, <2>5 DEF RejectedRefused, Fold, Verdict, Last
  <1>18. \A e : (\A k \in 1 .. m : stack[k].ev = e => stack[k].pos = Flush) =>
                \A k \in 1 .. m : stack'[k].ev # e
    <2>1. \A k \in 1 .. m : stack[k].pos # Flush
      <3>1. \A p \in Fold .. Last : p # Flush
        BY Shapes
      <3>2. Ledger # Flush
        BY Shapes
      <3> QED BY <1>1, <1>3, <1>9, <3>1, <3>2
    <2> QED BY <1>10, <2>1
  <1>19. AdmittedClean'
    <2> SUFFICES ASSUME NEW i \in 1 .. b + 1, pending'[i].admitted
                 PROVE  /\ pending'[i].ev \notin rejected
                        /\ \A k \in 1 .. m : stack'[k].ev # pending'[i].ev
      BY <1>4, <1>5, <1>6 DEF AdmittedClean
    <2>1. i \in 1 .. b /\ pending'[i] = pending[i]
      BY <1>5, <1>7, <1>14
    <2> QED BY <1>18, <2>1 DEF Admission, AdmittedClean, m, b
  <1>20. DurableClean'
    BY <1>4, <1>6, <1>18 DEF Admission, DurableClean, m
  <1>21. FlushedDurable'
    BY <1>4, <1>11 DEF FlushedDurable, Flush, Last
  <1> QED
    BY <1>12, <1>13, <1>15, <1>16, <1>17, <1>19, <1>20, <1>21 DEF Admission

\* A verdict is accepted: the entry is marked and the call enters the flush.
LEMMA AdmitAdmission ==
  ASSUME TypeOK, Admission, Admit
  PROVE  Admission'
  <1> DEFINE n == Len(events)
             m == Len(stack)
             b == Len(pending)
             f == [Top EXCEPT !.pos = Flush]
  <1>1. /\ n \in Nat /\ m \in Nat /\ b \in Nat /\ m \in 1 .. m
        /\ Top = stack[m] /\ Top \in Frame
    BY Shapes DEF Admit, At
  <1>2. /\ f \in Frame /\ f.ev = Top.ev /\ f.pos = Flush /\ f.flushed = Top.flushed
        /\ ~f.refused /\ ~Top.refused
    <2>1. Flush \in Ledger .. Flush /\ ~Top.refused
      BY Shapes DEF Admit, At
    <2> QED BY <1>1, <2>1 DEF Frame
  <1>3. Top.pos = Verdict /\ Busy /\ Replace(f)
    BY DEF Admit, At
  <1> HIDE DEF f
  <1>4. /\ Len(stack') = m
        /\ stack'[m] = f
        /\ \A k \in 1 .. m : k # m => stack'[k] = stack[k]
    BY <1>1, <1>2, <1>3, ReplaceStack, Shapes
  <1>5. /\ Len(pending') = b
        /\ \A i \in 1 .. b :
             /\ pending'[i].ev = pending[i].ev
             /\ pending'[i].admitted = (pending[i].admitted \/ pending[i].ev = Top.ev)
    BY AdmitStaged, Shapes
  <1>6. UNCHANGED <<events, durable, rejected>> /\ DurableEvents' = DurableEvents
    BY DEF Admit, DurableEvents
  <1> HIDE DEF n, m, b
  <1>7. Top.flushed = 0 /\ Top.ev \notin rejected
    <2>1. Verdict # Flush
      BY Shapes
    <2> QED BY <1>1, <1>2, <1>3, <2>1 DEF Admission, StackShape, RejectedRefused, m
  <1>8. \A k \in 1 .. m : k # m => /\ stack[k].ev < Top.ev /\ stack[k].ev # Top.ev
                                   /\ stack[k].pos \in Fold .. Last
                                   /\ stack[k].pos # Ledger
                                   /\ stack[k].pos # Flush
    <2>1. \A p \in Fold .. Last : p # Ledger /\ p # Flush
      BY Shapes
    <2>2. \A k \in 1 .. m : stack[k].ev \in Nat
      BY Shapes DEF m
    <2> QED BY <1>1, <2>1, <2>2 DEF Admission, StackShape, m
  <1>9. \A k \in 1 .. m : stack'[k].ev = stack[k].ev
    BY <1>1, <1>2, <1>4
  <1>10. Flush # Ledger /\ Flush \notin Fold .. Verdict /\ Verdict # Flush
    BY Shapes
  <1>11. StackShape'
    <2>1. \A k \in 1 .. m : stack'[k].ev \in 1 .. Len(events')
      BY <1>6, <1>9 DEF Admission, StackShape, m
    <2>2. \A k, l \in 1 .. m : k < l => stack'[k].ev < stack'[l].ev
      BY <1>9 DEF Admission, StackShape, m
    <2>3. \A k \in 1 .. m : k # m => stack'[k].pos \in Fold .. Last
      BY <1>4, <1>8
    <2>4. \A k \in 1 .. m : stack'[k].pos # Flush => stack'[k].flushed = 0
      BY <1>2, <1>4 DEF Admission, StackShape, m
    <2> QED BY <1>4, <2>1, <2>2, <2>3, <2>4 DEF StackShape, Fold, Last, Flush
  <1>12. NewestUnstaged'
    BY <1>2, <1>4, <1>8, <1>10 DEF NewestUnstaged, Ledger
  <1>13. StagedShape'
    BY <1>5, <1>6 DEF Admission, StagedShape, b
  <1>14. InProgressStaged'
    <2> SUFFICES ASSUME NEW k \in 1 .. m, stack'[k].pos \in Fold .. Verdict
                 PROVE  \E i \in 1 .. b : pending'[i].ev = stack'[k].ev
      BY <1>4, <1>5 DEF InProgressStaged, Fold, Verdict, Last
    <2>1. k # m
      BY <1>2, <1>4, <1>10
    <2>2. stack[k].pos \in Fold .. Verdict
      BY <1>4, <2>1
    <2> QED BY <1>5, <1>9, <2>2 DEF Admission, InProgressStaged, m, b
  <1>15. RejectedRefused'
    <2>1. \A k \in 1 .. m : stack'[k].refused => stack'[k].pos \in Fold + 1 .. Verdict
      BY <1>2, <1>4 DEF Admission, RejectedRefused, m
    <2>2. \A k \in 1 .. m : stack'[k].ev \in rejected' => stack'[k].refused
      BY <1>1, <1>4, <1>6, <1>7, <1>9 DEF Admission, RejectedRefused, m
    <2>3. rejected' \subseteq 1 .. Len(events')
      BY <1>6 DEF Admission, RejectedRefused
    <2> QED BY <1>4, <2>1, <2>2, <2>3 DEF RejectedRefused, Fold, Verdict, Last
  <1>16. \A e : (\A k \in 1 .. m : stack[k].ev = e => stack[k].pos = Flush) =>
                \A k \in 1 .. m : stack'[k].ev = e => stack'[k].pos = Flush
    BY <1>2, <1>4, <1>9
  <1>17. AdmittedClean'
    <2> SUFFICES ASSUME NEW i \in 1 .. b, pending'[i].admitted
                 PROVE  /\ pending[i].ev \notin rejected
                        /\ \A k \in 1 .. m : stack'[k].ev = pending[i].ev =>
                                               stack'[k].pos = Flush
      BY <1>4, <1>5, <1>6 DEF AdmittedClean, Flush, Last
    <2>1. CASE pending[i].ev = Top.ev
      BY <1>1, <1>2, <1>4, <1>7, <1>8, <1>9, <2>1
    <2>2. CASE pending[i].admitted
      BY <1>16, <2>2 DEF Admission, AdmittedClean, m, b
    <2> QED BY <1>5, <2>1, <2>2
  <1>18. DurableClean'
    BY <1>4, <1>6, <1>16 DEF Admission, DurableClean, m, Flush, Last
  <1>19. FlushedDurable'
    <2> SUFFICES ASSUME NEW k \in 1 .. m, stack'[k].pos = Flush
                 PROVE  stack'[k].flushed = 0
      BY <1>1, <1>4, <1>5 DEF FlushedDurable, Flush, Last
    <2>1. k = m
      BY <1>4, <1>8
    <2> QED BY <1>2, <1>4, <1>7, <2>1
  <1> QED
    BY <1>11, <1>12, <1>13, <1>14, <1>15, <1>17, <1>18, <1>19 DEF Admission

\* The flush loop inserts the next admitted entry.
LEMMA FlushRowAdmission ==
  ASSUME TypeOK, Admission, FlushRow
  PROVE  Admission'
  <1> DEFINE m == Len(stack)
             b == Len(pending)
             x == Top.flushed + 1
             f == [Top EXCEPT !.flushed = @ + 1]
  <1>1. /\ m \in Nat /\ b \in Nat /\ m \in 1 .. m
        /\ Top = stack[m] /\ Top \in Frame /\ Top.flushed \in Nat
    BY Shapes DEF FlushRow, At
  <1>2. /\ f \in Frame /\ f.ev = Top.ev /\ f.pos = Top.pos /\ f.flushed = x
        /\ f.refused = Top.refused
    BY <1>1 DEF Frame
  <1>3. Top.pos = Flush /\ Busy /\ Replace(f)
    BY DEF FlushRow, At
  <1> HIDE DEF f
  <1>4. /\ Len(stack') = m
        /\ stack'[m] = f
        /\ \A k \in 1 .. m : k # m => stack'[k] = stack[k]
    BY <1>1, <1>2, <1>3, ReplaceStack, Shapes
  <1>5. x \in 1 .. b /\ pending[x].admitted /\ pending[x].ev \in Nat
    <2>1. x \in 1 .. b /\ pending[x].admitted
      BY <1>1 DEF FlushRow, Flushable
    <2>2. \A i \in 1 .. b : pending[i].ev \in Nat
      BY Shapes
    <2> QED BY <2>1, <2>2
  <1>6. UNCHANGED <<events, pending, rejected>>
    BY DEF FlushRow
  <1>7. DurableEvents' = DurableEvents \cup {pending[x].ev}
    BY <1>5, FlushRowDurable DEF FlushRow, TypeOK
  <1> HIDE DEF m, b
  <1>8. \A k \in 1 .. m : /\ stack'[k].ev = stack[k].ev
                          /\ stack'[k].pos = stack[k].pos
                          /\ stack'[k].refused = stack[k].refused
    BY <1>1, <1>2, <1>4
  <1>9. \A k \in 1 .. m : k # m => stack[k].pos \in Fold .. Last /\ stack[k].pos # Flush
    <2>1. \A p \in Fold .. Last : p # Flush
      BY Shapes
    <2> QED BY <1>1, <2>1 DEF Admission, StackShape, m
  <1>10. StackShape'
    <2>1. \A k \in 1 .. m : stack'[k].pos # Flush => stack'[k].flushed = 0
      BY <1>3, <1>1, <1>4, <1>8 DEF Admission, StackShape, m
    <2>2. \A k \in 1 .. m : stack'[k].ev \in 1 .. Len(events')
      BY <1>6, <1>8 DEF Admission, StackShape, m
    <2>3. \A k, l \in 1 .. m : k < l => stack'[k].ev < stack'[l].ev
      BY <1>8 DEF Admission, StackShape, m
    <2>4. \A k \in 1 .. m : k # m => stack'[k].pos \in Fold .. Last
      BY <1>8, <1>9
    <2> QED BY <1>4, <2>1, <2>2, <2>3, <2>4 DEF StackShape, Fold, Last, Flush
  <1>11. NewestUnstaged'
    <2> SUFFICES ASSUME NEW k \in 1 .. m, stack'[k].pos = Ledger
                 PROVE  FALSE
      BY <1>4 DEF NewestUnstaged, Ledger
    <2>1. Ledger # Flush /\ Ledger \notin Fold .. Last
      BY Shapes
    <2> QED BY <1>1, <1>3, <1>8, <1>9, <2>1
  <1>12. StagedShape'
    BY <1>6 DEF Admission, StagedShape
  <1>13. InProgressStaged'
    BY <1>4, <1>6, <1>8 DEF Admission, InProgressStaged, m, Fold, Verdict, Last
  <1>14. RejectedRefused'
    BY <1>4, <1>6, <1>8 DEF Admission, RejectedRefused, m, Fold, Verdict, Last
  <1>15. AdmittedClean'
    BY <1>4, <1>6, <1>8 DEF Admission, AdmittedClean, m, Flush, Last
  <1>16. DurableClean'
    <2> SUFFICES ASSUME NEW d \in DurableEvents \cup {pending[x].ev}
                 PROVE  /\ d \in 1 .. Len(events) /\ d \notin rejected
                        /\ \A k \in 1 .. m : stack[k].ev = d => stack[k].pos = Flush
      <3>1. \A k \in 1 .. Len(stack') : k \in 1 .. m
                                          /\ stack'[k].ev = stack[k].ev
                                          /\ stack'[k].pos = stack[k].pos
        BY <1>4, <1>8
      <3>2. Flush' = Flush /\ Len(events') = Len(events) /\ rejected' = rejected
        BY <1>6 DEF Flush, Last
      <3> QED BY <1>7, <3>1, <3>2 DEF DurableClean
    <2>1. CASE d \in DurableEvents
      BY <2>1 DEF Admission, DurableClean, m
    <2>2. CASE d = pending[x].ev
      BY <1>5, <2>2 DEF Admission, AdmittedClean, StagedShape, m, b
    <2> QED BY <2>1, <2>2
  <1>17. FlushedDurable'
    <2> SUFFICES ASSUME NEW k \in 1 .. m, stack'[k].pos = Flush
                 PROVE  /\ stack'[k].flushed <= b
                        /\ \A i \in 1 .. stack'[k].flushed :
                             pending[i].admitted /\ pending[i].ev \in DurableEvents'
      BY <1>4, <1>6 DEF FlushedDurable, Flush, Last, b
    <2>1. k = m /\ stack'[k].flushed = x
      BY <1>2, <1>4, <1>8, <1>9
    <2>2. \A i \in 1 .. Top.flushed : pending[i].admitted /\ pending[i].ev \in DurableEvents
      BY <1>1, <1>3 DEF Admission, FlushedDurable, m
    <2>3. \A i \in 1 .. x : i \in 1 .. Top.flushed \/ i = x
      BY <1>1
    <2> QED BY <1>1, <1>5, <1>7, <2>1, <2>2, <2>3
  <1> QED
    BY <1>10, <1>11, <1>12, <1>13, <1>14, <1>15, <1>16, <1>17 DEF Admission

\* What a return from publish() leaves true whatever became of the buffer.
LEMMA ReturnAdmission ==
  ASSUME TypeOK, Admission, Busy, NEW raised \in BOOLEAN, Return(raised),
         UNCHANGED <<events, durable, rejected>>
  PROVE  /\ StackShape' /\ NewestUnstaged' /\ RejectedRefused'
         /\ DurableClean' /\ FlushedDurable'
         /\ Len(stack') = Len(stack) - 1
         /\ \A k \in 1 .. Len(stack') :
              /\ stack'[k].ev = stack[k].ev
              /\ stack[k].ev < Top.ev
              /\ stack[k].pos \in Fold .. Verdict
              /\ stack[k].pos # Flush
  <1> DEFINE m == Len(stack')
  <1>1. /\ m \in Nat /\ Len(stack) = m + 1 /\ m + 1 \in 1 .. Len(stack)
        /\ Top = stack[m + 1]
    BY Shapes, ReturnStack DEF Admission, TypeOK
  <1>2. \A k \in 1 .. m :
          /\ k \in 1 .. Len(stack)
          /\ stack'[k].ev = stack[k].ev
          /\ stack'[k].refused = stack[k].refused
          /\ stack'[k].flushed = stack[k].flushed
          /\ stack[k].pos \in Fold .. Last
          /\ stack'[k].pos \in Fold .. Verdict
          /\ k # m => stack'[k] = stack[k]
          /\ stack[k].pos <= stack'[k].pos
    BY <1>1, ReturnStack DEF Admission, TypeOK
  <1> HIDE DEF m
  <1>3. /\ \A p \in Fold .. Verdict : p # Ledger /\ p # Flush
        /\ \A p \in Fold .. Last : p \in Fold .. Verdict
        /\ \A p \in Fold .. Last, q \in Fold .. Verdict :
             p \in Fold + 1 .. Verdict /\ p <= q => q \in Fold + 1 .. Verdict
    BY Shapes
  <1>4. \A k \in 1 .. m : stack[k].ev < Top.ev /\ stack[k].ev \in Nat
    BY <1>1, <1>2, Shapes DEF Admission, StackShape
  <1>5. DurableEvents' = DurableEvents
    BY DEF DurableEvents
  <1>6. StackShape'
    <2>1. \A k \in 1 .. m : stack'[k].ev \in 1 .. Len(events')
      BY <1>2 DEF Admission, StackShape
    <2>2. \A k, l \in 1 .. m : k < l => stack'[k].ev < stack'[l].ev
      BY <1>2 DEF Admission, StackShape
    <2>3. \A k \in 1 .. m : k # m => stack'[k].pos \in Fold .. Last
      BY <1>2
    <2>4. \A k \in 1 .. m : stack'[k].flushed = 0
      BY <1>2, <1>3 DEF Admission, StackShape
    <2> QED BY <2>1, <2>2, <2>3, <2>4 DEF StackShape, Fold, Last, Flush, m
  <1>7. NewestUnstaged'
    BY <1>2, <1>3 DEF NewestUnstaged, Ledger, m
  <1>8. RejectedRefused'
    <2>1. \A k \in 1 .. m : stack'[k].refused => stack'[k].pos \in Fold + 1 .. Verdict
      BY <1>2, <1>3 DEF Admission, RejectedRefused
    <2>2. \A k \in 1 .. m : stack'[k].ev \in rejected' => stack'[k].refused
      BY <1>2 DEF Admission, RejectedRefused
    <2>3. rejected' \subseteq 1 .. Len(events')
      BY DEF Admission, RejectedRefused
    <2> QED BY <2>1, <2>2, <2>3 DEF RejectedRefused, Fold, Verdict, Last, m
  <1>9. DurableClean'
    <2> SUFFICES ASSUME NEW d \in DurableEvents
                 PROVE  /\ d \in 1 .. Len(events) /\ d \notin rejected
                        /\ \A k \in 1 .. m : stack'[k].ev # d
      BY <1>5 DEF DurableClean, m
    <2> QED BY <1>2, <1>3 DEF Admission, DurableClean
  <1>10. FlushedDurable'
    BY <1>2, <1>3 DEF FlushedDurable, Flush, Last, m
  <1> QED
    BY <1>1, <1>2, <1>3, <1>4, <1>6, <1>7, <1>8, <1>9, <1>10 DEF m

\* A refused event leaves with what was staged after it.
LEMMA RefuseAdmission ==
  ASSUME TypeOK, Admission, Refuse
  PROVE  Admission'
  <1> DEFINE m == Len(stack')
             b == Len(pending)
             c == IndexOf(Top.ev)
  <1>1. /\ Busy /\ Top.pos = Verdict /\ Top.raised \in BOOLEAN /\ Return(Top.raised)
        /\ UNCHANGED <<events, durable, rejected>> /\ pending' = BeforeEvent(Top.ev)
    <2>1. Busy /\ Top \in Frame
      BY Shapes DEF Refuse, At
    <2> QED BY <2>1 DEF Refuse, At, Frame
  <1>2. /\ StackShape' /\ NewestUnstaged' /\ RejectedRefused'
        /\ DurableClean' /\ FlushedDurable'
        /\ m = Len(stack) - 1
        /\ \A k \in 1 .. m : /\ stack'[k].ev = stack[k].ev
                             /\ stack[k].ev < Top.ev
                             /\ stack[k].pos \in Fold .. Verdict
                             /\ stack[k].pos # Flush
    BY <1>1, ReturnAdmission
  <1>3. /\ Len(stack) \in Nat /\ b \in Nat /\ Len(stack) \in 1 .. Len(stack)
        /\ Top = stack[Len(stack)]
        /\ \A i \in 1 .. b : pending[i].ev \in Nat
    BY <1>1, Shapes
  <1>4. \E i \in 1 .. b : pending[i].ev = Top.ev
    <2>1. Verdict \in Fold .. Verdict
      BY Shapes
    <2> QED BY <1>1, <1>3, <2>1 DEF Admission, InProgressStaged
  <1>5. /\ c \in 1 .. b /\ pending[c].ev = Top.ev
        /\ Len(pending') = c - 1
        /\ \A i \in 1 .. c - 1 : pending'[i] = pending[i]
    BY <1>1, <1>4, BeforeEventStaged, Shapes
  <1> HIDE DEF m, b, c
  <1>6. \A i \in 1 .. c - 1 : i \in 1 .. b
    BY <1>3, <1>5
  <1>7. StagedShape'
    BY <1>1, <1>5, <1>6 DEF Admission, StagedShape, b
  <1>8. InProgressStaged'
    <2> SUFFICES ASSUME NEW k \in 1 .. m
                 PROVE  \E i \in 1 .. c - 1 : pending'[i].ev = stack[k].ev
      BY <1>2, <1>5 DEF InProgressStaged, m
    <2>1. k \in 1 .. Len(stack)
      BY <1>2, <1>3
    <2>2. PICK i \in 1 .. b : pending[i].ev = stack[k].ev
      BY <1>2, <2>1 DEF Admission, InProgressStaged, b
    <2>3. pending[i].ev < pending[c].ev
      BY <1>2, <1>5, <2>2
    <2>4. i < c
      <3>1. c < i => pending[c].ev < pending[i].ev
        BY <1>5, <2>2 DEF Admission, StagedShape, b
      <3> QED BY <1>3, <1>5, <2>2, <2>3, <3>1
    <2>5. i \in 1 .. c - 1
      BY <1>5, <2>2, <2>4, <1>3
    <2> QED BY <1>5, <2>2, <2>5
  <1>9. AdmittedClean'
    <2> SUFFICES ASSUME NEW i \in 1 .. c - 1, pending'[i].admitted
                 PROVE  /\ pending'[i].ev \notin rejected'
                        /\ \A k \in 1 .. m : stack'[k].ev # pending'[i].ev
      BY <1>5 DEF AdmittedClean, m
    <2>1. pending'[i] = pending[i] /\ i \in 1 .. b
      BY <1>5, <1>6
    <2>2. /\ pending[i].ev \notin rejected
          /\ \A k \in 1 .. Len(stack) : stack[k].ev = pending[i].ev => stack[k].pos = Flush
      BY <2>1 DEF Admission, AdmittedClean, b
    <2>3. \A k \in 1 .. m : k \in 1 .. Len(stack)
      BY <1>2, <1>3
    <2> QED BY <1>1, <1>2, <2>1, <2>2, <2>3
  <1> QED BY <1>2, <1>7, <1>8, <1>9 DEF Admission

\* A failed insert leaves the buffer as it is.
LEMMA FlushFailsAdmission ==
  ASSUME TypeOK, Admission, FlushFails
  PROVE  Admission'
  <1> DEFINE m == Len(stack')
  <1>1. Busy /\ Return(TRUE) /\ UNCHANGED <<events, durable, rejected, pending>>
    BY DEF FlushFails, At
  <1>2. /\ StackShape' /\ NewestUnstaged' /\ RejectedRefused'
        /\ DurableClean' /\ FlushedDurable'
        /\ m = Len(stack) - 1
        /\ \A k \in 1 .. m : /\ stack'[k].ev = stack[k].ev
                             /\ stack[k].pos \in Fold .. Verdict
                             /\ stack[k].pos # Flush
    BY <1>1, ReturnAdmission
  <1>3. \A k \in 1 .. m : k \in 1 .. Len(stack)
    BY <1>2, Shapes
  <1> HIDE DEF m
  <1>4. StagedShape'
    BY <1>1 DEF Admission, StagedShape
  <1>5. InProgressStaged'
    <2>1. \A k \in 1 .. m : \E i \in 1 .. Len(pending) : pending[i].ev = stack[k].ev
      BY <1>2, <1>3 DEF Admission, InProgressStaged
    <2> QED BY <1>1, <1>2, <2>1 DEF InProgressStaged, m
  <1>6. AdmittedClean'
    <2> SUFFICES ASSUME NEW i \in 1 .. Len(pending), pending[i].admitted
                 PROVE  /\ pending[i].ev \notin rejected
                        /\ \A k \in 1 .. m : stack'[k].ev # pending[i].ev
      BY <1>1 DEF AdmittedClean, m
    <2> QED BY <1>2, <1>3 DEF Admission, AdmittedClean
  <1> QED BY <1>2, <1>4, <1>5, <1>6 DEF Admission

\* After a flush the entries it passed are gone from the buffer.
LEMMA FlushDoneAdmission ==
  ASSUME TypeOK, Admission, FlushDone
  PROVE  Admission'
  <1> DEFINE m == Len(stack')
             b == Len(pending)
             x == Top.flushed
  <1>1. /\ Busy /\ Top.pos = Flush /\ Top.raised \in BOOLEAN /\ x \in Nat
        /\ Return(Top.raised)
        /\ UNCHANGED <<events, durable, rejected>>
        /\ pending' = SubSeq(pending, x + 1, b)
    <2>1. Busy /\ Top \in Frame
      BY Shapes DEF FlushDone, At
    <2> QED BY <2>1 DEF FlushDone, At, Frame
  <1>2. /\ StackShape' /\ NewestUnstaged' /\ RejectedRefused'
        /\ DurableClean' /\ FlushedDurable'
        /\ m = Len(stack) - 1
        /\ \A k \in 1 .. m : /\ stack'[k].ev = stack[k].ev
                             /\ stack[k].pos \in Fold .. Verdict
                             /\ stack[k].pos # Flush
    BY <1>1, ReturnAdmission
  <1>3. /\ Len(stack) \in Nat /\ b \in Nat /\ Len(stack) \in 1 .. Len(stack)
        /\ Top = stack[Len(stack)]
        /\ \A k \in 1 .. m : k \in 1 .. Len(stack)
    BY <1>1, <1>2, Shapes
  <1>4. x <= b /\ \A i \in 1 .. x : pending[i].admitted
    BY <1>1, <1>3 DEF Admission, FlushedDurable
  <1>5. /\ Len(pending') = b - x
        /\ \A i \in 1 .. b - x : pending'[i] = pending[i + x]
    BY <1>1, <1>4, SuffixEntries, Shapes
  <1> HIDE DEF m, b, x
  <1>6. \A i \in 1 .. b - x : i + x \in 1 .. b
    BY <1>1, <1>3, <1>4
  <1>7. StagedShape'
    <2>1. \A i \in 1 .. b - x : pending'[i].ev \in 1 .. Len(events')
      BY <1>1, <1>5, <1>6 DEF Admission, StagedShape, b
    <2>2. ASSUME NEW i \in 1 .. b - x, NEW j \in 1 .. b - x, i < j
          PROVE  pending'[i].ev < pending'[j].ev
      <3>1. i + x \in 1 .. b /\ j + x \in 1 .. b /\ i + x < j + x
        BY <1>1, <1>6, <1>3, <2>2
      <3>2. pending[i + x].ev < pending[j + x].ev
        BY <3>1 DEF Admission, StagedShape, b
      <3> QED BY <1>5, <3>2
    <2> QED BY <1>5, <2>1, <2>2 DEF StagedShape
  <1>8. InProgressStaged'
    <2> SUFFICES ASSUME NEW k \in 1 .. m
                 PROVE  \E i \in 1 .. b - x : pending'[i].ev = stack[k].ev
      BY <1>2, <1>5 DEF InProgressStaged, m
    <2>1. PICK i \in 1 .. b : pending[i].ev = stack[k].ev
      BY <1>2, <1>3 DEF Admission, InProgressStaged, b
    <2>2. i \notin 1 .. x
      BY <1>2, <1>3, <1>4, <2>1 DEF Admission, AdmittedClean, b
    <2>3. i - x \in 1 .. b - x /\ (i - x) + x = i
      BY <1>1, <1>3, <1>4, <2>1, <2>2
    <2> QED BY <1>5, <2>1, <2>3
  <1>9. AdmittedClean'
    <2> SUFFICES ASSUME NEW i \in 1 .. b - x, pending'[i].admitted
                 PROVE  /\ pending'[i].ev \notin rejected
                        /\ \A k \in 1 .. m : stack'[k].ev # pending'[i].ev
      BY <1>1, <1>5 DEF AdmittedClean, m
    <2>1. pending'[i] = pending[i + x] /\ i + x \in 1 .. b
      BY <1>5, <1>6
    <2>2. /\ pending[i + x].ev \notin rejected
          /\ \A k \in 1 .. Len(stack) : stack[k].ev = pending[i + x].ev => stack[k].pos = Flush
      BY <2>1 DEF Admission, AdmittedClean, b
    <2> QED BY <1>2, <1>3, <2>1, <2>2
  <1> QED BY <1>2, <1>7, <1>8, <1>9 DEF Admission

\* Admission holds when the bus is built.
LEMMA InitAdmission == Init => Admission
  <1> SUFFICES ASSUME Init
               PROVE  Admission
    OBVIOUS
  <1>1. Len(stack) = 0 /\ Len(pending) = 0 /\ Len(events) = 0 /\ rejected = {} /\ durable = << >>
    BY DEF Init
  <1>2. DurableEvents = {}
    BY <1>1 DEF DurableEvents
  <1>3. \A k \in 1 .. 0 : FALSE
    OBVIOUS
  <1> QED
    BY <1>1, <1>2, <1>3 DEF Admission, StackShape, NewestUnstaged, StagedShape,
         InProgressStaged, RejectedRefused, AdmittedClean, DurableClean, FlushedDurable

\* Every step keeps Admission.
LEMMA StepAdmission ==
  ASSUME TypeOK, Admission, [Next]_vars
  PROVE  Admission'
  <1>1. Busy => Top \in Frame /\ Top = stack[Len(stack)]
    BY Shapes
  <1>2. CASE PublishRoot
    BY <1>2, StampAdmission DEF PublishRoot
  <1>3. CASE PublishNested
    <2>1. Busy /\ Top.pos \in Fold .. Last /\ Top.ev \in Nat /\ Stamp(FALSE, Top.ev)
      BY <1>1, <1>3 DEF PublishNested, Frame
    <2> QED BY <2>1, StampAdmission
  <1>4. CASE Stage
    BY <1>4, StageAdmission
  <1>5. ASSUME Busy, Top.pos \in Fold .. Last
        PROVE  Top.pos + 1 \in Ledger .. Flush /\ Top.pos \in Int
    BY <1>5, Positions
  <1>6. CASE HandlerReturns
    <2> DEFINE f == [Top EXCEPT !.pos = @ + 1]
    <2>1. Busy /\ Top.pos \in Fold .. Last /\ Replace(f)
      BY <1>6 DEF HandlerReturns
    <2>2. /\ f \in Frame /\ f.ev = Top.ev /\ f.pos = Top.pos + 1
          /\ f.flushed = Top.flushed /\ f.refused = Top.refused
      BY <1>1, <1>5, <2>1 DEF Frame
    <2>3. UNCHANGED <<events, pending, durable, rejected>>
      BY <1>6 DEF HandlerReturns
    <2> HIDE DEF f
    <2> QED BY <2>1, <2>2, <2>3, HandlerAdmission
  <1>7. CASE FoldRefuses
    <2> DEFINE f == [Top EXCEPT !.pos = @ + 1, !.refused = TRUE, !.raised = TRUE]
    <2>1. Busy /\ Top.pos \in Fold .. Last /\ Replace(f)
      BY <1>7, Shapes DEF FoldRefuses, At
    <2>2. f \in Frame
      BY <1>1, <1>5, <2>1, FrameMoves
    <2>3. f.ev = Top.ev /\ f.pos = Top.pos + 1 /\ f.flushed = Top.flushed /\ f.refused
      BY <1>1, <2>1 DEF Frame
    <2>4. UNCHANGED <<events, pending, durable>> /\ rejected' = rejected \cup {Top.ev}
      BY <1>7 DEF FoldRefuses
    <2> HIDE DEF f
    <2> QED BY <2>1, <2>2, <2>3, <2>4, HandlerAdmission
  <1>8. CASE HandlerRaises
    <2> DEFINE f == [Top EXCEPT !.pos = @ + 1, !.raised = TRUE]
    <2>1. Busy /\ Top.pos \in Fold .. Last /\ Replace(f)
      BY <1>8, Shapes DEF HandlerRaises
    <2>2. f \in Frame
      BY <1>1, <1>5, <2>1, FrameMoves
    <2>3. f.ev = Top.ev /\ f.pos = Top.pos + 1 /\ f.flushed = Top.flushed /\ f.refused = Top.refused
      BY <1>1, <2>1 DEF Frame
    <2>4. UNCHANGED <<events, pending, durable, rejected>>
      BY <1>8 DEF HandlerRaises
    <2> HIDE DEF f
    <2> QED BY <2>1, <2>2, <2>3, <2>4, HandlerAdmission
  <1>9. CASE UNCHANGED vars
    BY <1>9 DEF vars, Admission, StackShape, NewestUnstaged, StagedShape,
         InProgressStaged, RejectedRefused, AdmittedClean, DurableClean,
         FlushedDurable, DurableEvents, Ledger, Fold, Last, Verdict, Flush
  <1> QED
    BY <1>2, <1>3, <1>4, <1>6, <1>7, <1>8, <1>9, RefuseAdmission, AdmitAdmission,
       FlushRowAdmission, FlushFailsAdmission, FlushDoneAdmission DEF Next
-----------------------------------------------------------------------------
(* Theorems *)

\* The invariant is inductive.
THEOREM Invariance == Spec => [](TypeOK /\ Admission)
  <1>1. Init => TypeOK /\ Admission
    BY InitTyped, InitAdmission
  <1>2. TypeOK /\ Admission /\ [Next]_vars => TypeOK' /\ Admission'
    BY StepTyped, StepAdmission
  <1> QED BY <1>1, <1>2, PTL DEF Spec

\* The state of bus, facade and table keeps its shape, whatever handlers do.
THEOREM Typing == Spec => []TypeOK
  <1> QED BY Invariance, PTL

\* AdmissionScopedLedger: no event the fold rejected is ever a row, however
\* deeply publish() calls nest and whichever insert fails.
THEOREM RejectedNeverRow == Spec => []NoRejectedRow
  <1>1. Admission => NoRejectedRow
    BY DEF Admission, DurableClean, NoRejectedRow
  <1> QED BY <1>1, Invariance, PTL


(***************************************************************************)
(* In which order rows reach the events table, for any number of           *)
(* subscribers and events: a row follows the row of its publishing event,  *)
(* and rows are inserted in the order readers sort them by, whatever nests *)
(* and whatever is refused or fails.  The invariant relates the staging    *)
(* buffer to the rows; it stands on Admission.                             *)
(***************************************************************************)
\* A buffered event that is not yet a row is younger than every row.
StagedAfterRows ==
  \A i \in 1 .. Len(pending) :
    pending[i].ev \in DurableEvents \/ \A d \in DurableEvents : d < pending[i].ev

RowsAscend == \A i, j \in 1 .. Len(durable) : i < j => durable[i] < durable[j]

\* The publishing event of a buffered event is in the buffer or a row.
CauseKept ==
  /\ \A e \in 1 .. Len(events) : events[e].parent < e
  /\ \A i \in 1 .. Len(pending) :
       events[pending[i].ev].parent # 0 =>
         \/ events[pending[i].ev].parent \in DurableEvents
         \/ \E j \in 1 .. Len(pending) : pending[j].ev = events[pending[i].ev].parent

\* The bus's counters are beyond every stamp.
StampsAscend ==
  /\ \A e, f \in 1 .. Len(events) : e < f => CanonicallyBefore(e, f)
  /\ \A e \in 1 .. Len(events) :
       \/ events[e].tick < tick
       \/ events[e].tick = tick /\ events[e].seq < nextSeq

Ordering ==
  /\ StagedAfterRows
  /\ RowsAscend
  /\ CauseKept
  /\ ParentsFirst
  /\ StampsAscend
-----------------------------------------------------------------------------
\* What the proofs below take from the two invariants about rows and events.
LEMMA Rows ==
  ASSUME TypeOK, Admission
  PROVE  /\ Len(events) \in Nat /\ Len(durable) \in Nat /\ Len(pending) \in Nat
         /\ tick \in Nat /\ nextSeq \in Nat
         /\ DOMAIN durable = 1 .. Len(durable)
         /\ \A i \in 1 .. Len(durable) : durable[i] \in DurableEvents
         /\ \A d \in DurableEvents :
              d \in 1 .. Len(events) /\ \E i \in 1 .. Len(durable) : durable[i] = d
         /\ \A e \in 1 .. Len(events) : /\ events[e].tick \in Nat
                                        /\ events[e].seq \in Nat
                                        /\ events[e].parent \in Nat
         /\ \A i \in 1 .. Len(pending) : pending[i].ev \in 1 .. Len(events)
         /\ \A i, j \in 1 .. Len(pending) :
              pending[i].ev < pending[j].ev => i < j
  <1>1. Len(events) \in Nat /\ Len(durable) \in Nat /\ Len(pending) \in Nat /\ tick \in Nat /\ nextSeq \in Nat
    BY DEF TypeOK
  <1>2. DOMAIN durable = 1 .. Len(durable)
    BY DEF TypeOK
  <1>3. /\ \A i \in 1 .. Len(durable) : durable[i] \in DurableEvents
        /\ \A d \in DurableEvents : \E i \in 1 .. Len(durable) : durable[i] = d
    BY <1>2 DEF DurableEvents
  <1>4. \A d \in DurableEvents : d \in 1 .. Len(events)
    BY DEF Admission, DurableClean
  <1>5. \A e \in 1 .. Len(events) : /\ events[e].tick \in Nat
                                    /\ events[e].seq \in Nat
                                    /\ events[e].parent \in Nat
    <2>1. \A e \in 1 .. Len(events) : events[e] \in [tick : Nat, seq : Nat, parent : Nat]
      <3>1. ASSUME NEW S, NEW s \in Seq(S)
            PROVE  \A e \in 1 .. Len(s) : s[e] \in S
        OBVIOUS
      <3> QED BY <3>1 DEF TypeOK
    <2> QED BY <2>1
  <1>6. \A i \in 1 .. Len(pending) : pending[i].ev \in 1 .. Len(events)
    BY DEF Admission, StagedShape
  <1>7. \A i, j \in 1 .. Len(pending) : pending[i].ev < pending[j].ev => i < j
    <2> SUFFICES ASSUME NEW i \in 1 .. Len(pending), NEW j \in 1 .. Len(pending),
                        pending[i].ev < pending[j].ev
                 PROVE  i < j
      OBVIOUS
    <2>1. j < i => pending[j].ev < pending[i].ev
      BY DEF Admission, StagedShape
    <2>2. pending[i].ev \in Int /\ pending[j].ev \in Int
      BY <1>1, <1>6
    <2>3. i # j
      BY <2>2
    <2> QED BY <1>1, <2>1, <2>2, <2>3
  <1> QED BY <1>1, <1>2, <1>3, <1>4, <1>5, <1>6, <1>7

\* The rows do not depend on the buffer.
LEMMA RowsKept ==
  ASSUME TypeOK, Admission, Ordering, UNCHANGED <<events, tick, nextSeq, durable>>
  PROVE  RowsAscend' /\ ParentsFirst' /\ StampsAscend'
         /\ DurableEvents' = DurableEvents
         /\ \A e \in 1 .. Len(events') : events'[e].parent < e
  BY DEF Ordering, RowsAscend, ParentsFirst, StampsAscend, CanonicallyBefore,
         DurableEvents, CauseKept

\* A new event is stamped beyond every other one.
LEMMA StampOrdering ==
  ASSUME TypeOK, Admission, Ordering, NEW isTick \in BOOLEAN,
         NEW parent \in 0 .. Len(events), Stamp(isTick, parent)
  PROVE  Ordering'
  <1> DEFINE n == Len(events)
             t == IF isTick THEN tick + 1 ELSE tick
             s == IF isTick THEN 0 ELSE nextSeq
  <1>1. /\ n \in Nat /\ Len(events') = n + 1
        /\ \A e \in 1 .. n : events'[e] = events[e]
        /\ events'[n + 1] = [tick |-> t, seq |-> s, parent |-> parent]
    BY SMTT(20) DEF Stamp, TypeOK
  <1>2. /\ t \in Nat /\ s \in Nat /\ tick \in Nat /\ nextSeq \in Nat
        /\ tick < t \/ (tick = t /\ nextSeq = s)
        /\ tick' = t /\ nextSeq' = s + 1
    BY DEF TypeOK, Stamp
  <1>3. UNCHANGED <<pending, durable>> /\ DurableEvents' = DurableEvents
    BY DEF Stamp, DurableEvents
  <1>4. /\ events'[n + 1].tick = t /\ events'[n + 1].seq = s
        /\ events'[n + 1].parent = parent
    BY <1>1
  <1>5. \A e \in 1 .. n + 1 : e \in 1 .. n \/ e = n + 1
    BY <1>1
  <1> HIDE DEF n, t, s
  <1>6. StagedAfterRows' /\ RowsAscend'
    BY <1>3 DEF Ordering, StagedAfterRows, RowsAscend
  <1>7. CauseKept'
    <2>1. \A e \in 1 .. n + 1 : events'[e].parent < e
      <3>1. parent < n + 1
        BY <1>1 DEF n
      <3> QED BY <1>1, <1>4, <1>5, <3>1 DEF Ordering, CauseKept, n
    <2>2. \A i \in 1 .. Len(pending) : events'[pending[i].ev] = events[pending[i].ev]
      BY <1>1, Rows DEF n
    <2>3. \A i \in 1 .. Len(pending) :
            events'[pending[i].ev].parent # 0 =>
              \/ events'[pending[i].ev].parent \in DurableEvents
              \/ \E j \in 1 .. Len(pending) : pending[j].ev = events'[pending[i].ev].parent
      BY <2>2 DEF Ordering, CauseKept
    <2> QED BY <1>1, <1>3, <2>1, <2>3 DEF CauseKept
  <1>8. ParentsFirst'
    <2>1. \A i \in 1 .. Len(durable) : events'[durable[i]] = events[durable[i]]
      BY <1>1, Rows DEF n
    <2> QED BY <1>3, <2>1, Rows DEF Ordering, ParentsFirst
  <1>9. StampsAscend'
    <2>1. ASSUME NEW e \in 1 .. n + 1, NEW f \in 1 .. n + 1, e < f
          PROVE  CanonicallyBefore(e, f)'
      <3>1. e \in 1 .. n
        BY <1>1, <2>1
      <3>2. CASE f \in 1 .. n
        BY <1>1, <2>1, <3>1, <3>2 DEF Ordering, StampsAscend, CanonicallyBefore, n
      <3>3. CASE f = n + 1
        <4>1. \/ events[e].tick < tick
              \/ events[e].tick = tick /\ events[e].seq < nextSeq
          BY <3>1 DEF Ordering, StampsAscend, n
        <4>2. events[e].tick \in Nat /\ events[e].seq \in Nat
          BY <3>1, Rows DEF n
        <4>3. events[e].tick < t \/ (events[e].tick = t /\ events[e].seq < s)
          BY <1>2, <4>1, <4>2
        <4> QED BY <1>1, <1>4, <3>1, <3>3, <4>3 DEF CanonicallyBefore
      <3> QED BY <1>5, <3>2, <3>3
    <2>2. ASSUME NEW e \in 1 .. n + 1
          PROVE  \/ events'[e].tick < tick'
                 \/ events'[e].tick = tick' /\ events'[e].seq < nextSeq'
      <3>1. CASE e = n + 1
        BY <1>2, <1>4, <3>1
      <3>2. CASE e \in 1 .. n
        <4>1. \/ events[e].tick < tick
              \/ events[e].tick = tick /\ events[e].seq < nextSeq
          BY <3>2 DEF Ordering, StampsAscend, n
        <4>2. events[e].tick \in Nat /\ events[e].seq \in Nat
          BY <3>2, Rows DEF n
        <4>3. events[e].tick < t \/ (events[e].tick = t /\ events[e].seq < s + 1)
          BY <1>2, <4>1, <4>2
        <4> QED BY <1>1, <1>2, <3>2, <4>3
      <3> QED BY <1>5, <3>1, <3>2
    <2> QED BY <1>1, <2>1, <2>2 DEF StampsAscend
  <1> QED BY <1>6, <1>7, <1>8, <1>9 DEF Ordering

\* The staged event is the newest, and the call that published it is waiting.
LEMMA StageOrdering ==
  ASSUME TypeOK, Admission, Ordering, Stage
  PROVE  Ordering'
  <1> DEFINE n == Len(events)
             m == Len(stack)
             b == Len(pending)
             e == Top.ev
  <1>1. /\ n \in Nat /\ m \in Nat /\ b \in Nat /\ m \in 1 .. m
        /\ Top = stack[m] /\ Top.pos = Ledger
    BY Shapes DEF Stage, At
  <1>2. /\ Len(pending') = b + 1
        /\ \A i \in 1 .. b : pending'[i].ev = pending[i].ev
        /\ pending'[b + 1].ev = e
    BY Shapes DEF Stage
  <1>3. UNCHANGED <<events, tick, nextSeq, durable>>
    BY DEF Stage
  <1>4. \A i \in 1 .. b + 1 : i \in 1 .. b \/ i = b + 1
    BY <1>1
  <1> HIDE DEF n, m, b
  <1>5. /\ e = n
        /\ events[e].parent # 0 => m > 1 /\ events[e].parent = stack[m - 1].ev
    BY <1>1 DEF Admission, NewestUnstaged, n, m
  <1>6. \A d \in DurableEvents : d < e
    <2>1. Ledger # Flush
      BY Positions, Shapes
    <2> SUFFICES ASSUME NEW d \in DurableEvents
                 PROVE  d < e
      OBVIOUS
    <2>2. d # e
      BY <1>1, <2>1 DEF Admission, DurableClean, m
    <2>3. d \in 1 .. n
      BY Rows DEF n
    <2> QED BY <1>1, <1>5, <2>2, <2>3
  <1>7. events[e].parent # 0 => \E j \in 1 .. b : pending[j].ev = events[e].parent
    <2> SUFFICES ASSUME events[e].parent # 0
                 PROVE  \E j \in 1 .. b : pending[j].ev = stack[m - 1].ev
      BY <1>5
    <2>1. m - 1 \in 1 .. m /\ m - 1 # m
      BY <1>1, <1>5
    <2>2. stack[m - 1].pos \in Fold .. Verdict
      BY <2>1, Positions DEF Admission, StackShape, m
    <2> QED BY <2>1, <2>2 DEF Admission, InProgressStaged, m, b
  <1>8. /\ RowsAscend' /\ ParentsFirst' /\ StampsAscend' /\ DurableEvents' = DurableEvents
        /\ \A f \in 1 .. Len(events') : events'[f].parent < f
    BY <1>3, RowsKept
  <1>9. StagedAfterRows'
    BY <1>2, <1>4, <1>6, <1>8 DEF Ordering, StagedAfterRows, b
  <1>10. CauseKept'
    <2> SUFFICES ASSUME NEW i \in 1 .. b + 1, events[pending'[i].ev].parent # 0
                 PROVE  \/ events[pending'[i].ev].parent \in DurableEvents
                        \/ \E j \in 1 .. b + 1 : pending'[j].ev = events[pending'[i].ev].parent
      BY <1>2, <1>3, <1>8 DEF CauseKept
    <2>1. \A j \in 1 .. b : j \in 1 .. b + 1
      BY <1>1
    <2>2. CASE i \in 1 .. b
      <3>1. pending'[i].ev = pending[i].ev
        BY <1>2, <2>2
      <3>2. \/ events[pending[i].ev].parent \in DurableEvents
            \/ \E j \in 1 .. b : pending[j].ev = events[pending[i].ev].parent
        BY <2>2, <3>1 DEF Ordering, CauseKept, b
      <3> QED BY <1>2, <2>1, <3>1, <3>2
    <2>3. CASE i = b + 1
      BY <1>2, <1>7, <2>1, <2>3
    <2> QED BY <1>4, <2>2, <2>3
  <1> QED BY <1>8, <1>9, <1>10 DEF Ordering

\* A refusal takes the end of the buffer, and causes are nearer its front.
LEMMA RefuseOrdering ==
  ASSUME TypeOK, Admission, Ordering, Refuse
  PROVE  Ordering'
  <1> DEFINE b == Len(pending)
             c == IndexOf(Top.ev)
  <1>1. UNCHANGED <<events, tick, nextSeq, durable>> /\ pending' = BeforeEvent(Top.ev)
    BY DEF Refuse
  <1>2. \E i \in 1 .. b : pending[i].ev = Top.ev
    <2>1. Busy /\ Top.pos = Verdict /\ Verdict \in Fold .. Verdict
      BY Shapes DEF Refuse, At
    <2> QED BY <2>1, Shapes DEF Admission, InProgressStaged
  <1>3. /\ b \in Nat /\ c \in 1 .. b
        /\ Len(pending') = c - 1
        /\ \A i \in 1 .. c - 1 : pending'[i] = pending[i]
    BY <1>1, <1>2, BeforeEventStaged, Shapes
  <1> HIDE DEF b, c
  <1>4. \A i \in 1 .. c - 1 : i \in 1 .. b
    BY <1>3
  <1>5. /\ RowsAscend' /\ ParentsFirst' /\ StampsAscend' /\ DurableEvents' = DurableEvents
        /\ \A f \in 1 .. Len(events') : events'[f].parent < f
    BY <1>1, RowsKept
  <1>6. StagedAfterRows'
    BY <1>3, <1>4, <1>5 DEF Ordering, StagedAfterRows, b
  <1>7. CauseKept'
    <2> SUFFICES ASSUME NEW i \in 1 .. c - 1, events[pending[i].ev].parent # 0,
                        events[pending[i].ev].parent \notin DurableEvents
                 PROVE  \E j \in 1 .. c - 1 : pending'[j].ev = events[pending[i].ev].parent
      BY <1>1, <1>3, <1>5 DEF CauseKept
    <2>1. PICK j \in 1 .. b : pending[j].ev = events[pending[i].ev].parent
      BY <1>4 DEF Ordering, CauseKept, b
    <2>2. events[pending[i].ev].parent < pending[i].ev
      BY <1>4, Rows DEF Ordering, CauseKept, b
    <2>3. j < i
      BY <1>4, <2>1, <2>2, Rows DEF b
    <2>4. j \in 1 .. c - 1
      BY <1>3, <2>3
    <2> QED BY <1>3, <2>1, <2>4
  <1> QED BY <1>5, <1>6, <1>7 DEF Ordering

\* The next row is younger than every row, and its cause is one of them.
LEMMA FlushRowOrdering ==
  ASSUME TypeOK, Admission, Ordering, FlushRow
  PROVE  Ordering'
  <1> DEFINE b == Len(pending)
             r == Len(durable)
             x == Top.flushed + 1
             e == pending[x].ev
  <1>1. /\ b \in Nat /\ r \in Nat /\ Top.flushed \in Nat
        /\ UNCHANGED <<events, tick, nextSeq, pending>>
    BY Shapes, Rows DEF FlushRow, At
  <1>2. x \in 1 .. b /\ e \notin DurableEvents
    BY <1>1 DEF FlushRow, Flushable
  <1>3. e \in Nat
    BY <1>2, Shapes
  <1>4. /\ Len(durable') = r + 1
        /\ \A i \in 1 .. r : durable'[i] = durable[i]
        /\ durable'[r + 1] = e
        /\ DurableEvents' = DurableEvents \cup {e}
        /\ durable' \in Seq(Nat)
    BY <1>3, FlushRowDurable DEF FlushRow, TypeOK
  <1>5. \A i \in 1 .. Top.flushed : pending[i].ev \in DurableEvents
    BY Shapes DEF FlushRow, At, Admission, FlushedDurable
  <1>6. \A i \in 1 .. r + 1 : i \in 1 .. r \/ i = r + 1
    BY <1>1
  <1> HIDE DEF b, r, x, e
  <1>7. \A d \in DurableEvents : d < e
    BY <1>2 DEF Ordering, StagedAfterRows, b, e
  <1>8. RowsAscend'
    <2> SUFFICES ASSUME NEW i \in 1 .. r + 1, NEW j \in 1 .. r + 1, i < j
                 PROVE  durable'[i] < durable'[j]
      BY <1>4 DEF RowsAscend
    <2>1. i \in 1 .. r
      BY <1>1
    <2>2. CASE j \in 1 .. r
      BY <1>4, <2>1, <2>2 DEF Ordering, RowsAscend, r
    <2>3. CASE j = r + 1
      BY <1>4, <1>7, <2>1, <2>3, Rows DEF r
    <2> QED BY <1>6, <2>2, <2>3
  <1>9. StagedAfterRows'
    <2> SUFFICES ASSUME NEW i \in 1 .. b, pending[i].ev \notin DurableEvents, i # x
                 PROVE  \A d \in DurableEvents \cup {e} : d < pending[i].ev
      BY <1>1, <1>4 DEF StagedAfterRows, b, e
    <2>1. \A d \in DurableEvents : d < pending[i].ev
      BY DEF Ordering, StagedAfterRows, b
    <2>2. x < i
      <3>1. i \notin 1 .. Top.flushed
        BY <1>5
      <3> QED BY <1>1, <3>1 DEF x
    <2>3. e < pending[i].ev
      BY <1>2, <2>2 DEF Admission, StagedShape, b, e
    <2> QED BY <2>1, <2>3
  <1>10. CauseKept'
    BY <1>1, <1>4 DEF Ordering, CauseKept
  <1>11. events[e].parent # 0 => events[e].parent \in DurableEvents
    <2> SUFFICES ASSUME events[e].parent # 0, events[e].parent \notin DurableEvents
                 PROVE  FALSE
      OBVIOUS
    <2>1. PICK j \in 1 .. b : pending[j].ev = events[e].parent
      BY <1>2 DEF Ordering, CauseKept, b, e
    <2>2. events[e].parent < e
      BY <1>2, Rows DEF Ordering, CauseKept, b, e
    <2>3. j < x
      BY <1>2, <2>1, <2>2, Rows DEF b, e
    <2>4. j \in 1 .. Top.flushed
      BY <1>1, <2>3 DEF x
    <2> QED BY <1>5, <2>1, <2>4
  <1>12. ParentsFirst'
    <2>1. DOMAIN durable' = 1 .. r + 1
      BY <1>4
    <2> SUFFICES ASSUME NEW i \in 1 .. r + 1, events[durable'[i]].parent # 0
                 PROVE  \E j \in 1 .. i - 1 : durable'[j] = events[durable'[i]].parent
      BY <1>1, <2>1 DEF ParentsFirst
    <2>2. CASE i \in 1 .. r
      <3>1. PICK j \in 1 .. i - 1 : durable[j] = events[durable[i]].parent
        BY <1>4, <2>2, Rows DEF Ordering, ParentsFirst, r
      <3>2. j \in 1 .. r
        BY <1>1, <2>2
      <3> QED BY <1>4, <2>2, <3>1, <3>2
    <2>3. CASE i = r + 1
      <3>1. PICK j \in 1 .. r : durable[j] = events[e].parent
        BY <1>4, <1>11, <2>3, Rows DEF r
      <3> QED BY <1>1, <1>4, <2>3, <3>1
    <2> QED BY <1>6, <2>2, <2>3
  <1>13. StampsAscend'
    BY <1>1 DEF Ordering, StampsAscend, CanonicallyBefore
  <1> QED BY <1>8, <1>9, <1>10, <1>12, <1>13 DEF Ordering

\* What the flush loop has passed and the trim removes is a row.
LEMMA FlushDoneOrdering ==
  ASSUME TypeOK, Admission, Ordering, FlushDone
  PROVE  Ordering'
  <1> DEFINE b == Len(pending)
             x == Top.flushed
  <1>1. /\ b \in Nat /\ x \in Nat
        /\ UNCHANGED <<events, tick, nextSeq, durable>>
        /\ pending' = SubSeq(pending, x + 1, b)
    BY Shapes DEF FlushDone, At
  <1>2. x <= b /\ \A i \in 1 .. x : pending[i].ev \in DurableEvents
    BY Shapes DEF FlushDone, At, Admission, FlushedDurable
  <1>3. /\ Len(pending') = b - x
        /\ \A i \in 1 .. b - x : pending'[i] = pending[i + x]
    BY <1>1, <1>2, SuffixEntries, Shapes
  <1> HIDE DEF b, x
  <1>4. \A i \in 1 .. b - x : i + x \in 1 .. b
    BY <1>1, <1>2
  <1>5. /\ RowsAscend' /\ ParentsFirst' /\ StampsAscend' /\ DurableEvents' = DurableEvents
        /\ \A f \in 1 .. Len(events') : events'[f].parent < f
    BY <1>1, RowsKept
  <1>6. StagedAfterRows'
    BY <1>3, <1>4, <1>5 DEF Ordering, StagedAfterRows, b
  <1>7. CauseKept'
    <2> SUFFICES ASSUME NEW i \in 1 .. b - x, events[pending'[i].ev].parent # 0,
                        events[pending'[i].ev].parent \notin DurableEvents
                 PROVE  \E j \in 1 .. b - x : pending'[j].ev = events[pending'[i].ev].parent
      BY <1>1, <1>3, <1>5 DEF CauseKept
    <2>1. PICK j \in 1 .. b : pending[j].ev = events[pending'[i].ev].parent
      BY <1>3, <1>4 DEF Ordering, CauseKept, b
    <2>2. j \notin 1 .. x
      BY <1>2, <2>1
    <2>3. j - x \in 1 .. b - x /\ (j - x) + x = j
      BY <1>1, <1>2, <2>2
    <2> QED BY <1>3, <2>1, <2>3
  <1> QED BY <1>5, <1>6, <1>7 DEF Ordering

\* Nothing is staged or written before the first publish().
LEMMA InitOrdering == Init => Ordering
  <1> SUFFICES ASSUME Init
               PROVE  Ordering
    OBVIOUS
  <1>1. Len(pending) = 0 /\ Len(events) = 0 /\ Len(durable) = 0 /\ DOMAIN durable = {}
    BY DEF Init
  <1>2. \A k \in 1 .. 0 : FALSE
    OBVIOUS
  <1> QED
    BY <1>1, <1>2 DEF Ordering, StagedAfterRows, RowsAscend, CauseKept,
         ParentsFirst, StampsAscend

\* A step that leaves the events named in the buffer alone keeps Ordering.
LEMMA SameBuffer ==
  ASSUME TypeOK, Admission, Ordering, UNCHANGED <<events, tick, nextSeq, durable>>,
         Len(pending') = Len(pending),
         \A i \in 1 .. Len(pending) : pending'[i].ev = pending[i].ev
  PROVE  Ordering'
  <1>1. /\ RowsAscend' /\ ParentsFirst' /\ StampsAscend' /\ DurableEvents' = DurableEvents
        /\ \A f \in 1 .. Len(events') : events'[f].parent < f
    BY RowsKept
  <1>2. StagedAfterRows'
    BY <1>1 DEF Ordering, StagedAfterRows
  <1>3. CauseKept'
    BY <1>1 DEF Ordering, CauseKept
  <1> QED BY <1>1, <1>2, <1>3 DEF Ordering

\* Every step keeps Ordering.
LEMMA StepOrdering ==
  ASSUME TypeOK, Admission, Ordering, [Next]_vars
  PROVE  Ordering'
  <1>1. CASE PublishRoot
    <2>1. 0 \in 0 .. Len(events)
      BY Shapes
    <2> QED BY <1>1, <2>1, StampOrdering DEF PublishRoot
  <1>2. CASE PublishNested
    <2>1. Busy /\ Stamp(FALSE, Top.ev)
      BY <1>2 DEF PublishNested
    <2>2. Top.ev \in 1 .. Len(events)
      BY <2>1, Shapes DEF Admission, StackShape
    <2>3. Top.ev \in 0 .. Len(events)
      BY <2>2, Shapes
    <2> QED BY <2>1, <2>3, StampOrdering
  <1>3. CASE Admit
    BY <1>3, SameBuffer, AdmitStaged, Shapes DEF Admit
  <1>4. CASE HandlerReturns \/ FoldRefuses \/ HandlerRaises \/ FlushFails \/ UNCHANGED vars
    <2>1. UNCHANGED <<events, tick, nextSeq, durable, pending>>
      BY <1>4 DEF HandlerReturns, FoldRefuses, HandlerRaises, FlushFails, vars
    <2> QED BY <2>1, SameBuffer
  <1> QED
    BY <1>1, <1>2, <1>3, <1>4, StageOrdering, RefuseOrdering, FlushRowOrdering,
       FlushDoneOrdering DEF Next
-----------------------------------------------------------------------------
(* Theorems *)

\* The order of the buffer and of the rows is an invariant.
THEOREM OrderInvariance == Spec => [](TypeOK /\ Admission /\ Ordering)
  <1>1. Init => TypeOK /\ Admission /\ Ordering
    BY InitTyped, InitAdmission, InitOrdering
  <1>2. TypeOK /\ Admission /\ Ordering /\ [Next]_vars
          => TypeOK' /\ Admission' /\ Ordering'
    BY StepTyped, StepAdmission, StepOrdering
  <1> QED BY <1>1, <1>2, PTL DEF Spec

\* A row's publishing event is an earlier row, so that no reader and no restart
\* between two inserts finds a consequence without its cause.
THEOREM CausesAreRows == Spec => []ParentsFirst
  <1>1. Ordering => ParentsFirst
    BY DEF Ordering
  <1> QED BY <1>1, OrderInvariance, PTL

\* The insertion order of the events table is the order in which its readers
\* sort, although verdicts arrive innermost first.
THEOREM InsertionIsCanonical == Spec => []InsertedInCanonicalOrder
  <1>1. ASSUME TypeOK, Admission, Ordering
        PROVE  InsertedInCanonicalOrder
    <2> SUFFICES ASSUME NEW i \in 1 .. Len(durable), NEW j \in 1 .. Len(durable), i < j
                 PROVE  CanonicallyBefore(durable[i], durable[j])
      BY <1>1, Rows DEF InsertedInCanonicalOrder
    <2>1. durable[i] \in 1 .. Len(events) /\ durable[j] \in 1 .. Len(events)
      BY <1>1, Rows
    <2>2. durable[i] < durable[j]
      BY <1>1 DEF Ordering, RowsAscend
    <2> QED BY <1>1, <2>1, <2>2 DEF Ordering, StampsAscend
  <1> QED BY <1>1, OrderInvariance, PTL

\* The table holds no rejected event and is in canonical order: the two theorems
\* about its rows together.
THEOREM RowsAlwaysCanonical == Spec => []RowsAreCanonical
  <1>1. NoRejectedRow /\ InsertedInCanonicalOrder => RowsAreCanonical
    BY DEF RowsAreCanonical
  <1> QED BY <1>1, RejectedNeverRow, InsertionIsCanonical, PTL
-----------------------------------------------------------------------------
(***************************************************************************)
(* Bus, fold and ledger facade keep the promise of CanonicalLog, for any   *)
(* number of subscribers and events: a flush writes the oldest open event, *)
(* and a refusal withdraws an event with everything younger that is open.  *)
(* For that no published event may get lost between the buffer, the table  *)
(* and the dropped ones: Accounted.                                        *)
(***************************************************************************)
\* Every event is a row, dropped, in the buffer, or about to be staged.
NoneLost ==
  \A e \in 1 .. Len(events) :
    \/ e \in DurableEvents
    \/ e \in dropped
    \/ \E i \in 1 .. Len(pending) : pending[i].ev = e
    \/ \E k \in 1 .. Len(stack) : stack[k].ev = e /\ stack[k].pos = Ledger

\* A dropped event is none of the others.
DroppedGone ==
  /\ dropped \subseteq 1 .. Len(events)
  /\ \A d \in DurableEvents : d \notin dropped
  /\ \A i \in 1 .. Len(pending) : pending[i].ev \notin dropped
  /\ \A k \in 1 .. Len(stack) : stack[k].pos = Ledger => stack[k].ev \notin dropped

Accounted == NoneLost /\ DroppedGone

Inv == TypeOK /\ Admission /\ Ordering /\ Accounted

OpenEvents == (1 .. Len(events)) \ (DurableEvents \cup dropped)
-----------------------------------------------------------------------------
\* The frames of the stack, seen by the calls that wait to be staged.
LEMMA OnlyTopUnstaged ==
  ASSUME TypeOK, Admission, NEW k \in 1 .. Len(stack), stack[k].pos = Ledger
  PROVE  Busy /\ k = Len(stack) /\ Top.pos = Ledger
  <1>1. Busy
    BY DEF Busy, TypeOK
  <1>2. Len(stack) \in 1 .. Len(stack) /\ Top = stack[Len(stack)]
    BY <1>1, Shapes
  <1>3. k = Len(stack)
    BY Positions DEF Admission, StackShape
  <1> QED BY <1>1, <1>2, <1>3

\* Once a call is past its staging, an open event is in the buffer.
LEMMA OpenIsStaged ==
  ASSUME Inv, Busy, Top.pos # Ledger, NEW f \in OpenEvents
  PROVE  \E i \in 1 .. Len(pending) : pending[i].ev = f
  <1>1. ~ \E k \in 1 .. Len(stack) : stack[k].ev = f /\ stack[k].pos = Ledger
    BY OnlyTopUnstaged DEF Inv
  <1> QED BY <1>1 DEF Inv, Accounted, NoneLost, OpenEvents

\* The durable entries of the buffer are its first ones.
LEMMA DurablePrefix ==
  ASSUME Inv, NEW i \in 1 .. Len(pending), NEW j \in 1 .. Len(pending),
         i < j, pending[j].ev \in DurableEvents
  PROVE  pending[i].ev \in DurableEvents
  <1> SUFFICES ASSUME pending[i].ev \notin DurableEvents
               PROVE  FALSE
    OBVIOUS
  <1>1. pending[j].ev < pending[i].ev
    BY DEF Inv, Ordering, StagedAfterRows
  <1>2. pending[i].ev < pending[j].ev
    BY DEF Inv, Admission, StagedShape
  <1>3. pending[i].ev \in Nat /\ pending[j].ev \in Nat
    BY Shapes DEF Inv
  <1> QED BY <1>1, <1>2, <1>3

\* What a refusal removes: the refused event and everything younger that is open.
LEMMA RefusalWithdraws ==
  ASSUME Inv, Refuse
  PROVE  /\ Top.ev \in OpenEvents
         /\ dropped' = dropped \cup {f \in OpenEvents : Top.ev <= f}
         /\ UNCHANGED <<events, durable>>
         /\ Len(pending') = IndexOf(Top.ev) - 1
         /\ \A i \in 1 .. Len(pending') :
              i \in 1 .. Len(pending) /\ pending'[i].ev = pending[i].ev
         /\ \A i \in 1 .. Len(pending) :
              \/ i \in 1 .. Len(pending')
              \/ pending[i].ev \in {f \in OpenEvents : Top.ev <= f}
         /\ \A i \in 1 .. Len(pending') : pending'[i].ev < Top.ev
  <1> DEFINE b == Len(pending)
             c == IndexOf(Top.ev)
             m == Len(stack)
  <1>1. /\ Busy /\ Top.pos = Verdict /\ Verdict # Ledger /\ Verdict # Flush
        /\ Verdict \in Fold .. Verdict
        /\ m \in 1 .. m /\ Top = stack[m]
    BY Shapes DEF Refuse, At, Inv
  <1>2. UNCHANGED <<events, durable>> /\ pending' = BeforeEvent(Top.ev)
        /\ dropped' = dropped \cup {pending[i].ev : i \in c .. b}
    BY DEF Refuse
  <1>3. \E i \in 1 .. b : pending[i].ev = Top.ev
    BY <1>1 DEF Inv, Admission, InProgressStaged
  <1>4. /\ b \in Nat /\ c \in 1 .. b /\ pending[c].ev = Top.ev
        /\ Len(pending') = c - 1
        /\ \A i \in 1 .. c - 1 : pending'[i] = pending[i]
        /\ \A i \in 1 .. b : pending[i].ev \in Nat /\ pending[i].ev \in 1 .. Len(events)
    BY <1>2, <1>3, BeforeEventStaged, Shapes, Rows DEF Inv
  <1> HIDE DEF b, c, m
  <1>5. Top.ev \notin DurableEvents
    BY <1>1 DEF Inv, Admission, DurableClean, m
  <1>6. \A i \in c .. b : i \in 1 .. b /\ (i = c \/ c < i)
    BY <1>4
  <1>7. \A i \in c .. b : pending[i].ev \in OpenEvents
    <2> SUFFICES ASSUME NEW i \in c .. b
                 PROVE  pending[i].ev \in OpenEvents
      OBVIOUS
    <2>1. pending[i].ev \notin DurableEvents
      BY <1>4, <1>5, <1>6, DurablePrefix DEF b
    <2>2. pending[i].ev \notin dropped
      BY <1>6 DEF Inv, Accounted, DroppedGone, b
    <2> QED BY <1>4, <1>6, <2>1, <2>2 DEF OpenEvents
  <1>8. \A i \in c .. b : Top.ev <= pending[i].ev
    <2> SUFFICES ASSUME NEW i \in c .. b
                 PROVE  pending[c].ev <= pending[i].ev
      BY <1>4
    <2>1. c < i => pending[c].ev < pending[i].ev
      BY <1>4, <1>6 DEF Inv, Admission, StagedShape, b
    <2> QED BY <1>4, <1>6, <2>1
  <1>9. ASSUME NEW f \in OpenEvents, Top.ev <= f
        PROVE  \E i \in c .. b : pending[i].ev = f
    <2>1. PICK i \in 1 .. b : pending[i].ev = f
      BY <1>1, OpenIsStaged DEF b
    <2>2. i < c => pending[i].ev < pending[c].ev
      BY <1>4, <2>1 DEF Inv, Admission, StagedShape, b
    <2>3. ~(i < c)
      BY <1>4, <1>9, <2>1, <2>2
    <2>4. i \in c .. b
      BY <1>4, <2>1, <2>3
    <2> QED BY <2>1, <2>4
  <1>10. {pending[i].ev : i \in c .. b} = {f \in OpenEvents : Top.ev <= f}
    BY <1>7, <1>8, <1>9
  <1>11. \A i \in 1 .. c - 1 : i \in 1 .. b /\ i < c
    BY <1>4
  <1>12. \A i \in 1 .. c - 1 : pending[i].ev < Top.ev
    BY <1>4, <1>11 DEF Inv, Admission, StagedShape, b
  <1>13. \A i \in 1 .. b : i \in 1 .. c - 1 \/ i \in c .. b
    BY <1>4
  <1>14. Top.ev \in OpenEvents
    BY <1>4, <1>7
  <1>15. \A i \in 1 .. b : \/ i \in 1 .. c - 1
                           \/ pending[i].ev \in {f \in OpenEvents : Top.ev <= f}
    BY <1>7, <1>8, <1>13
  <1>16. dropped' = dropped \cup {f \in OpenEvents : Top.ev <= f}
    BY <1>2, <1>10
  <1> QED
    BY <1>2, <1>4, <1>11, <1>12, <1>14, <1>15, <1>16 DEF b, c

\* What a flush writes: the oldest open event.
LEMMA FlushWritesOldest ==
  ASSUME Inv, FlushRow
  PROVE  \E e \in OpenEvents :
           /\ \A f \in OpenEvents : e <= f
           /\ durable' = Append(durable, e)
           /\ DurableEvents' = DurableEvents \cup {e}
           /\ e \notin dropped
           /\ UNCHANGED <<events, pending, dropped>>
  <1> DEFINE b == Len(pending)
             x == Top.flushed + 1
             e == pending[x].ev
  <1>1. /\ b \in Nat /\ Top.flushed \in Nat /\ Busy /\ Top.pos = Flush
        /\ Flush # Ledger
    BY Shapes, Positions DEF FlushRow, At, Inv
  <1>2. x \in 1 .. b /\ e \notin DurableEvents /\ durable' = Append(durable, e)
    BY <1>1 DEF FlushRow, Flushable
  <1>3. /\ \A i \in 1 .. b : pending[i].ev \in Nat /\ pending[i].ev \in 1 .. Len(events)
        /\ durable \in Seq(Nat)
    BY Shapes, Rows DEF Inv, TypeOK
  <1>4. DurableEvents' = DurableEvents \cup {e}
    BY <1>2, <1>3, FlushRowDurable
  <1>5. \A i \in 1 .. Top.flushed : pending[i].ev \in DurableEvents
    BY <1>1, Shapes DEF Inv, Admission, FlushedDurable
  <1> HIDE DEF b, e
  <1>6. e \notin dropped
    BY <1>2 DEF Inv, Accounted, DroppedGone, b, e
  <1>7. e \in OpenEvents
    BY <1>2, <1>3, <1>6 DEF OpenEvents, e
  <1>8. ASSUME NEW f \in OpenEvents
        PROVE  e <= f
    <2>1. PICK i \in 1 .. b : pending[i].ev = f
      BY <1>1, OpenIsStaged DEF b
    <2>2. i \notin 1 .. Top.flushed
      BY <1>5, <2>1 DEF OpenEvents
    <2>3. i = x \/ x < i
      BY <1>1, <2>1, <2>2
    <2>4. x < i => pending[x].ev < pending[i].ev
      BY <1>2, <2>1 DEF Inv, Admission, StagedShape, b
    <2> QED BY <1>2, <1>3, <2>1, <2>3, <2>4 DEF e
  <1>9. UNCHANGED <<events, pending, dropped>>
    BY DEF FlushRow
  <1> QED BY <1>2, <1>4, <1>6, <1>7, <1>8, <1>9
-----------------------------------------------------------------------------
\* Only publish() makes a call that has not staged its event.
LEMMA CallGoesOn ==
  ASSUME Inv, NEW f \in Frame, Busy, Top.pos # Ledger, Replace(f), f.pos # Ledger
  PROVE  \A k \in 1 .. Len(stack') : stack'[k].pos # Ledger
  <1>1. /\ Len(stack') = Len(stack)
        /\ \A k \in 1 .. Len(stack) :
             stack'[k] = IF k = Len(stack) THEN f ELSE stack[k]
    BY ReplaceStack, Shapes DEF Inv
  <1>2. \A k \in 1 .. Len(stack) : stack[k].pos # Ledger
    BY OnlyTopUnstaged DEF Inv
  <1> QED BY <1>1, <1>2

LEMMA CallReturns ==
  ASSUME Inv, Busy, NEW raised \in BOOLEAN, Return(raised)
  PROVE  \A k \in 1 .. Len(stack') : stack'[k].pos # Ledger
  <1>1. \A k \in 1 .. Len(stack') : stack'[k].pos \in Fold .. Verdict
    BY ReturnStack DEF Inv, TypeOK, Admission
  <1>2. Ledger \notin Fold .. Verdict
    BY Shapes DEF Inv
  <1> QED BY <1>1, <1>2

LEMMA NothingUnstaged ==
  ASSUME Inv, \/ HandlerReturns \/ FoldRefuses \/ HandlerRaises \/ Admit
              \/ FlushRow \/ FlushFails \/ FlushDone \/ Refuse
  PROVE  /\ \A k \in 1 .. Len(stack) : stack[k].pos # Ledger
         /\ \A k \in 1 .. Len(stack') : stack'[k].pos # Ledger
  <1>1. Busy /\ Top \in Frame
    BY Shapes DEF Inv, HandlerReturns, FoldRefuses, HandlerRaises, Admit, FlushRow,
         FlushFails, FlushDone, Refuse, At
  <1>2. /\ \A p \in Fold .. Last : p # Ledger /\ p + 1 # Ledger /\ p + 1 \in Ledger .. Flush
        /\ Fold \in Fold .. Last
        /\ \A p \in Fold + 1 .. Last : p \in Fold .. Last
        /\ Verdict # Ledger /\ Flush # Ledger /\ Flush \in Ledger .. Flush
    BY <1>1, Positions, Shapes DEF Inv
  <1>3. Top.pos # Ledger
    BY <1>2 DEF HandlerReturns, FoldRefuses, HandlerRaises, Admit, FlushRow,
         FlushFails, FlushDone, Refuse, At
  <1>4. \A k \in 1 .. Len(stack) : stack[k].pos # Ledger
    BY <1>3, OnlyTopUnstaged DEF Inv
  <1>5. CASE FlushFails \/ FlushDone \/ Refuse
    <2>1. Top.raised \in BOOLEAN
      BY <1>1 DEF Frame
    <2>2. Return(TRUE) \/ Return(Top.raised)
      BY <1>5 DEF FlushFails, FlushDone, Refuse
    <2> QED BY <1>1, <1>4, <2>1, <2>2, CallReturns
  <1>6. CASE Admit
    <2>1. Replace([Top EXCEPT !.pos = Flush]) /\ [Top EXCEPT !.pos = Flush] \in Frame
          /\ [Top EXCEPT !.pos = Flush].pos = Flush
      BY <1>1, <1>2, <1>6 DEF Admit, Frame
    <2> QED BY <1>1, <1>2, <1>3, <1>4, <2>1, CallGoesOn
  <1>7. CASE FlushRow
    <2>1. /\ Replace([Top EXCEPT !.flushed = @ + 1])
          /\ [Top EXCEPT !.flushed = @ + 1] \in Frame
          /\ [Top EXCEPT !.flushed = @ + 1].pos = Top.pos
      BY <1>1, <1>7 DEF FlushRow, Frame
    <2> QED BY <1>1, <1>3, <1>4, <2>1, CallGoesOn
  <1>8. CASE HandlerReturns \/ FoldRefuses \/ HandlerRaises
    <2>1. Top.pos \in Fold .. Last
      BY <1>2, <1>8 DEF HandlerReturns, FoldRefuses, HandlerRaises, At
    <2>2. PICK f \in { [Top EXCEPT !.pos = @ + 1],
                       [Top EXCEPT !.pos = @ + 1, !.refused = TRUE, !.raised = TRUE],
                       [Top EXCEPT !.pos = @ + 1, !.raised = TRUE] } : Replace(f)
      BY <1>8 DEF HandlerReturns, FoldRefuses, HandlerRaises
    <2>3. f \in Frame
      <3>1. Top.pos + 1 \in Ledger .. Flush /\ TRUE \in BOOLEAN
        BY <1>2, <2>1
      <3>2. /\ [Top EXCEPT !.pos = Top.pos + 1] \in Frame
            /\ [Top EXCEPT !.pos = Top.pos + 1, !.raised = TRUE] \in Frame
            /\ [Top EXCEPT !.pos = Top.pos + 1, !.refused = TRUE, !.raised = TRUE] \in Frame
        BY <1>1, <3>1, FrameMoves
      <3> QED BY <2>2, <3>2
    <2>4. f.pos = Top.pos + 1
      BY <1>1 DEF Frame
    <2>5. f.pos # Ledger
      BY <1>2, <2>1, <2>4
    <2> QED BY <1>1, <1>3, <1>4, <2>2, <2>3, <2>5, CallGoesOn
  <1> QED BY <1>5, <1>6, <1>7, <1>8

\* A step that publishes, stages and drops nothing may move events from the
\* buffer to the table.
LEMMA SameAccounts ==
  ASSUME Inv, UNCHANGED <<events, dropped>>,
         \A k \in 1 .. Len(stack) : stack[k].pos # Ledger,
         \A k \in 1 .. Len(stack') : stack'[k].pos # Ledger,
         DurableEvents \subseteq DurableEvents',
         \A d \in DurableEvents' : d \notin dropped,
         \A i \in 1 .. Len(pending) :
           \/ pending[i].ev \in DurableEvents'
           \/ \E j \in 1 .. Len(pending') : pending'[j].ev = pending[i].ev,
         \A j \in 1 .. Len(pending') :
           \E i \in 1 .. Len(pending) : pending'[j].ev = pending[i].ev
  PROVE  Accounted'
  <1>1. NoneLost'
    <2> SUFFICES ASSUME NEW e \in 1 .. Len(events)
                 PROVE  \/ e \in DurableEvents'
                        \/ e \in dropped
                        \/ \E i \in 1 .. Len(pending') : pending'[i].ev = e
      BY DEF NoneLost
    <2>1. \/ e \in DurableEvents
          \/ e \in dropped
          \/ \E i \in 1 .. Len(pending) : pending[i].ev = e
      BY DEF Inv, Accounted, NoneLost
    <2> QED BY <2>1
  <1>2. \A j \in 1 .. Len(pending') : pending'[j].ev \notin dropped
    BY DEF Inv, Accounted, DroppedGone
  <1>3. DroppedGone'
    BY <1>2 DEF Inv, Accounted, DroppedGone
  <1> QED BY <1>1, <1>3 DEF Accounted

LEMMA StampAccounted ==
  ASSUME Inv, NEW isTick, NEW parent, Stamp(isTick, parent)
  PROVE  Accounted'
  <1> DEFINE n == Len(events)
             m == Len(stack)
  <1>1. /\ n \in Nat /\ m \in Nat
        /\ Len(events') = n + 1 /\ Len(stack') = m + 1
        /\ \A k \in 1 .. m : stack'[k] = stack[k]
        /\ stack'[m + 1] = NewFrame(n + 1)
    BY Shapes DEF Inv, TypeOK, Stamp
  <1>2. UNCHANGED <<pending, durable, dropped>> /\ DurableEvents' = DurableEvents
    BY DEF Stamp, DurableEvents
  <1>3. stack'[m + 1].ev = n + 1 /\ stack'[m + 1].pos = Ledger
    BY <1>1 DEF NewFrame
  <1> HIDE DEF n, m
  <1>4. /\ \A e \in 1 .. n + 1 : e \in 1 .. n \/ e = n + 1
        /\ \A k \in 1 .. m + 1 : k \in 1 .. m \/ k = m + 1
        /\ \A k \in 1 .. m : k \in 1 .. m + 1
        /\ m + 1 \in 1 .. m + 1 /\ n + 1 \notin 1 .. n
        /\ 1 .. n \subseteq 1 .. n + 1
    BY <1>1
  <1>5. NoneLost'
    <2> SUFFICES ASSUME NEW e \in 1 .. n + 1
                 PROVE  \/ e \in DurableEvents
                        \/ e \in dropped
                        \/ \E i \in 1 .. Len(pending) : pending[i].ev = e
                        \/ \E k \in 1 .. m + 1 : stack'[k].ev = e /\ stack'[k].pos = Ledger
      BY <1>1, <1>2 DEF NoneLost
    <2>1. CASE e \in 1 .. n
      <3>1. \/ e \in DurableEvents
            \/ e \in dropped
            \/ \E i \in 1 .. Len(pending) : pending[i].ev = e
            \/ \E k \in 1 .. m : stack[k].ev = e /\ stack[k].pos = Ledger
        BY <2>1 DEF Inv, Accounted, NoneLost, n, m
      <3> QED BY <1>1, <1>4, <3>1
    <2> QED BY <1>3, <1>4, <2>1
  <1>6. DroppedGone'
    <2>1. dropped \subseteq 1 .. n /\ n + 1 \notin dropped
      BY <1>4 DEF Inv, Accounted, DroppedGone, n
    <2>2. \A k \in 1 .. m : stack[k].pos = Ledger => stack[k].ev \notin dropped
      BY DEF Inv, Accounted, DroppedGone, m
    <2>3. \A k \in 1 .. m + 1 : stack'[k].pos = Ledger => stack'[k].ev \notin dropped
      BY <1>1, <1>3, <1>4, <2>1, <2>2
    <2> QED BY <1>1, <1>2, <1>4, <2>1, <2>3 DEF Inv, Accounted, DroppedGone
  <1> QED BY <1>5, <1>6 DEF Accounted

LEMMA StageAccounted ==
  ASSUME Inv, Stage
  PROVE  Accounted'
  <1> DEFINE b == Len(pending)
             m == Len(stack)
  <1>1. /\ b \in Nat /\ m \in 1 .. m /\ Busy
        /\ Top = stack[m] /\ Top \in Frame /\ Top.pos = Ledger
    BY Shapes DEF Inv, Stage, At
  <1>2. /\ Len(pending') = b + 1
        /\ \A i \in 1 .. b : pending'[i].ev = pending[i].ev
        /\ pending'[b + 1].ev = Top.ev
    BY Shapes DEF Stage, Inv
  <1>3. UNCHANGED <<events, dropped, durable>> /\ DurableEvents' = DurableEvents
    BY DEF Stage, DurableEvents
  <1>4. \A k \in 1 .. Len(stack') : stack'[k].pos # Ledger
    <2> DEFINE f == [Top EXCEPT !.pos = @ + 1]
    <2>1. Ledger + 1 \in Ledger .. Flush /\ Ledger + 1 # Ledger
      BY Positions, Shapes DEF Inv
    <2>2. f \in Frame /\ f.pos # Ledger /\ Replace(f)
      BY <1>1, <2>1 DEF Stage, Frame
    <2> HIDE DEF f
    <2>3. /\ Len(stack') = Len(stack)
          /\ \A k \in 1 .. Len(stack) :
               stack'[k] = IF k = Len(stack) THEN f ELSE stack[k]
      BY <1>1, <2>2, ReplaceStack, Shapes DEF Inv
    <2> QED BY <2>2, <2>3, OnlyTopUnstaged DEF Inv
  <1>5. \A k \in 1 .. m : stack[k].pos = Ledger => stack[k].ev = Top.ev
    BY <1>1, OnlyTopUnstaged DEF Inv
  <1> HIDE DEF b, m
  <1>6. /\ \A i \in 1 .. b + 1 : i \in 1 .. b \/ i = b + 1
        /\ \A i \in 1 .. b : i \in 1 .. b + 1
        /\ b + 1 \in 1 .. b + 1
    BY <1>1
  <1>7. NoneLost'
    <2> SUFFICES ASSUME NEW e \in 1 .. Len(events)
                 PROVE  \/ e \in DurableEvents
                        \/ e \in dropped
                        \/ \E i \in 1 .. b + 1 : pending'[i].ev = e
      BY <1>2, <1>3 DEF NoneLost
    <2>1. \/ e \in DurableEvents
          \/ e \in dropped
          \/ \E i \in 1 .. b : pending[i].ev = e
          \/ e = Top.ev
      BY <1>5 DEF Inv, Accounted, NoneLost, b, m
    <2> QED BY <1>2, <1>6, <2>1
  <1>8. DroppedGone'
    <2>1. Top.ev \notin dropped
      BY <1>1 DEF Inv, Accounted, DroppedGone, m
    <2>2. \A i \in 1 .. b + 1 : pending'[i].ev \notin dropped
      BY <1>2, <1>6, <2>1 DEF Inv, Accounted, DroppedGone, b
    <2> QED BY <1>2, <1>3, <1>4, <2>2 DEF Inv, Accounted, DroppedGone
  <1> QED BY <1>7, <1>8 DEF Accounted

LEMMA RefuseAccounted ==
  ASSUME Inv, Refuse
  PROVE  Accounted'
  <1> DEFINE G == {f \in OpenEvents : Top.ev <= f}
  <1>1. /\ dropped' = dropped \cup G
        /\ UNCHANGED <<events, durable>>
        /\ \A i \in 1 .. Len(pending') :
             i \in 1 .. Len(pending) /\ pending'[i].ev = pending[i].ev
        /\ \A i \in 1 .. Len(pending) : i \in 1 .. Len(pending') \/ pending[i].ev \in G
        /\ \A i \in 1 .. Len(pending') : pending'[i].ev < Top.ev
    BY RefusalWithdraws
  <1>2. DurableEvents' = DurableEvents
    BY <1>1 DEF DurableEvents
  <1>3. /\ \A k \in 1 .. Len(stack) : stack[k].pos # Ledger
        /\ \A k \in 1 .. Len(stack') : stack'[k].pos # Ledger
    BY NothingUnstaged
  <1>4. NoneLost'
    <2> SUFFICES ASSUME NEW e \in 1 .. Len(events)
                 PROVE  \/ e \in DurableEvents
                        \/ e \in dropped'
                        \/ \E i \in 1 .. Len(pending') : pending'[i].ev = e
      BY <1>1, <1>2 DEF NoneLost
    <2>1. \/ e \in DurableEvents
          \/ e \in dropped
          \/ \E i \in 1 .. Len(pending) : pending[i].ev = e
      BY <1>3 DEF Inv, Accounted, NoneLost
    <2> QED BY <1>1, <2>1
  <1>5. DroppedGone'
    <2>1. G \subseteq 1 .. Len(events) /\ \A d \in DurableEvents : d \notin G
      BY DEF OpenEvents
    <2>2. \A i \in 1 .. Len(pending') : pending'[i].ev \notin G
      <3>1. \A i \in 1 .. Len(pending') : pending'[i].ev \in Nat
        BY <1>1, Shapes DEF Inv
      <3>2. Top.ev \in Nat
        <4>1. Busy
          BY DEF Refuse, At
        <4> QED BY <4>1, Shapes DEF Inv
      <3> QED BY <1>1, <3>1, <3>2
    <2>3. \A i \in 1 .. Len(pending') : pending'[i].ev \notin dropped
      BY <1>1 DEF Inv, Accounted, DroppedGone
    <2> HIDE DEF G
    <2> QED BY <1>1, <1>2, <1>3, <2>1, <2>2, <2>3 DEF Inv, Accounted, DroppedGone
  <1> QED BY <1>4, <1>5 DEF Accounted

LEMMA FlushRowAccounted ==
  ASSUME Inv, FlushRow
  PROVE  Accounted'
  <1>1. PICK e \in OpenEvents :
          /\ DurableEvents' = DurableEvents \cup {e}
          /\ e \notin dropped
          /\ UNCHANGED <<events, pending, dropped>>
    BY FlushWritesOldest
  <1>2. /\ DurableEvents \subseteq DurableEvents'
        /\ \A d \in DurableEvents' : d \notin dropped
    BY <1>1 DEF Inv, Accounted, DroppedGone
  <1> QED BY <1>1, <1>2, NothingUnstaged, SameAccounts

LEMMA FlushDoneAccounted ==
  ASSUME Inv, FlushDone
  PROVE  Accounted'
  <1> DEFINE b == Len(pending)
             x == Top.flushed
  <1>1. /\ b \in Nat /\ x \in Nat
        /\ UNCHANGED <<events, dropped, durable>>
        /\ DurableEvents' = DurableEvents
        /\ pending' = SubSeq(pending, x + 1, b)
    BY Shapes DEF FlushDone, At, Inv, DurableEvents
  <1>2. x <= b /\ \A i \in 1 .. x : pending[i].ev \in DurableEvents
    BY Shapes DEF FlushDone, At, Inv, Admission, FlushedDurable
  <1>3. /\ Len(pending') = b - x
        /\ \A i \in 1 .. b - x : pending'[i] = pending[i + x]
    BY <1>1, <1>2, SuffixEntries, Shapes DEF Inv
  <1> HIDE DEF b, x
  <1>4. \A i \in 1 .. b - x : i + x \in 1 .. b
    BY <1>1, <1>2
  <1>5. \A i \in 1 .. b : i \notin 1 .. x => i - x \in 1 .. b - x /\ (i - x) + x = i
    BY <1>1, <1>2
  <1>6. \A i \in 1 .. b :
          \/ pending[i].ev \in DurableEvents
          \/ \E j \in 1 .. Len(pending') : pending'[j].ev = pending[i].ev
    <2> SUFFICES ASSUME NEW i \in 1 .. b, i \notin 1 .. x
                 PROVE  \E j \in 1 .. b - x : pending'[j].ev = pending[i].ev
      BY <1>2, <1>3
    <2> QED BY <1>3, <1>5
  <1>7. \A j \in 1 .. Len(pending') :
          \E i \in 1 .. b : pending'[j].ev = pending[i].ev
    BY <1>3, <1>4
  <1>8. \A d \in DurableEvents : d \notin dropped
    BY DEF Inv, Accounted, DroppedGone
  <1> QED
    BY <1>1, <1>6, <1>7, <1>8, NothingUnstaged, SameAccounts DEF b

LEMMA InitAccounted == Init => Accounted
  <1> SUFFICES ASSUME Init
               PROVE  Accounted
    OBVIOUS
  <1>1. /\ Len(pending) = 0 /\ Len(events) = 0 /\ Len(stack) = 0 /\ dropped = {}
        /\ DOMAIN durable = {}
    BY DEF Init
  <1>2. \A k \in 1 .. 0 : FALSE
    OBVIOUS
  <1>3. NoneLost
    BY <1>1, <1>2 DEF NoneLost
  <1>4. DroppedGone
    BY <1>1, <1>2 DEF DroppedGone
  <1> QED BY <1>3, <1>4 DEF Accounted

\* Every step keeps the accounts.
LEMMA StepAccounted ==
  ASSUME Inv, [Next]_vars
  PROVE  Accounted'
  <1>1. CASE PublishRoot \/ PublishNested
    BY <1>1, StampAccounted DEF PublishRoot, PublishNested
  <1>2. CASE HandlerReturns \/ FoldRefuses \/ HandlerRaises \/ FlushFails
    <2>1. UNCHANGED <<events, pending, durable, dropped>> /\ DurableEvents' = DurableEvents
      BY <1>2 DEF HandlerReturns, FoldRefuses, HandlerRaises, FlushFails, DurableEvents
    <2>2. \A d \in DurableEvents : d \notin dropped
      BY DEF Inv, Accounted, DroppedGone
    <2> QED BY <1>2, <2>1, <2>2, NothingUnstaged, SameAccounts
  <1>3. CASE Admit
    <2>1. UNCHANGED <<events, durable, dropped>> /\ DurableEvents' = DurableEvents
      BY <1>3 DEF Admit, DurableEvents
    <2>2. /\ Len(pending') = Len(pending)
          /\ \A i \in 1 .. Len(pending) : pending'[i].ev = pending[i].ev
      BY <1>3, AdmitStaged, Shapes DEF Inv
    <2>3. \A d \in DurableEvents : d \notin dropped
      BY DEF Inv, Accounted, DroppedGone
    <2> QED BY <1>3, <2>1, <2>2, <2>3, NothingUnstaged, SameAccounts
  <1>4. CASE UNCHANGED vars
    BY <1>4 DEF Inv, vars, Accounted, NoneLost, DroppedGone, DurableEvents
  <1> QED
    BY <1>1, <1>2, <1>3, <1>4, StageAccounted, RefuseAccounted, FlushRowAccounted,
       FlushDoneAccounted DEF Next
-----------------------------------------------------------------------------
\* A step of the bus, read as a step of the log.
LEMMA StampOpens ==
  ASSUME Inv, NEW isTick, NEW parent, Stamp(isTick, parent)
  PROVE  Log!Open
  <1> DEFINE n == Len(events)
  <1>1. n \in Nat /\ Len(events') = n + 1
    BY Shapes DEF Inv, TypeOK, Stamp
  <1>2. UNCHANGED <<durable, dropped>> /\ DurableEvents' = DurableEvents
    BY DEF Stamp, DurableEvents
  <1>3. \A d \in DurableEvents \cup dropped : d \in 1 .. n
    BY Rows DEF Inv, Accounted, DroppedGone
  <1> HIDE DEF n
  <1>4. n + 1 \notin 1 .. n /\ 1 .. n + 1 = (1 .. n) \cup {n + 1}
    BY <1>1
  <1>5. OpenEvents' = OpenEvents \cup {n + 1}
    BY <1>1, <1>2, <1>3, <1>4 DEF OpenEvents, n
  <1> QED BY <1>1, <1>2, <1>5 DEF Log!Open, OpenEvents, n

LEMMA FlushRowWrites ==
  ASSUME Inv, FlushRow
  PROVE  \E e \in OpenEvents : Log!Write(e)
  <1>1. PICK e \in OpenEvents :
          /\ \A f \in OpenEvents : e <= f
          /\ durable' = Append(durable, e)
          /\ DurableEvents' = DurableEvents \cup {e}
          /\ UNCHANGED <<events, pending, dropped>>
    BY FlushWritesOldest
  <1>2. OpenEvents' = OpenEvents \ {e}
    BY <1>1 DEF OpenEvents
  <1> QED BY <1>1, <1>2 DEF Log!Write, OpenEvents

LEMMA RefuseWithdraws ==
  ASSUME Inv, Refuse
  PROVE  Top.ev \in OpenEvents /\ Log!Withdraw(Top.ev)
  <1>1. /\ Top.ev \in OpenEvents
        /\ dropped' = dropped \cup {f \in OpenEvents : Top.ev <= f}
        /\ UNCHANGED <<events, durable>>
    BY RefusalWithdraws
  <1>2. DurableEvents' = DurableEvents
    BY <1>1 DEF DurableEvents
  <1>3. OpenEvents' = OpenEvents \ {f \in OpenEvents : Top.ev <= f}
    BY <1>1, <1>2 DEF OpenEvents
  <1> QED BY <1>1, <1>3 DEF Log!Withdraw, OpenEvents

\* Every step of the bus is a step of the log or leaves the log alone.
LEMMA StepImplements ==
  ASSUME Inv, [Next]_vars
  PROVE  [Log!LogNext]_(Log!logVars)
  <1>1. CASE PublishRoot \/ PublishNested
    BY <1>1, StampOpens DEF PublishRoot, PublishNested, Log!LogNext
  <1>2. CASE FlushRow
    BY <1>2, FlushRowWrites DEF Log!LogNext, OpenEvents
  <1>3. CASE Refuse
    BY <1>3, RefuseWithdraws DEF Log!LogNext, OpenEvents
  <1>4. CASE \/ Stage \/ HandlerReturns \/ FoldRefuses \/ HandlerRaises \/ Admit
             \/ FlushFails \/ FlushDone \/ UNCHANGED vars
    <2>1. UNCHANGED <<events, durable, dropped>>
      BY <1>4 DEF Stage, HandlerReturns, FoldRefuses, HandlerRaises, Admit,
           FlushFails, FlushDone, vars
    <2> QED BY <2>1 DEF Log!logVars, DurableEvents
  <1> QED BY <1>1, <1>2, <1>3, <1>4 DEF Next

LEMMA InitImplements == Init => Log!LogInit
  <1> SUFFICES ASSUME Init
               PROVE  Log!LogInit
    OBVIOUS
  <1>1. Len(events) = 0 /\ durable = <<>> /\ dropped = {}
    BY DEF Init
  <1>2. 1 .. 0 = {}
    OBVIOUS
  <1> QED BY <1>1, <1>2 DEF Log!LogInit
-----------------------------------------------------------------------------
(* Theorems *)

\* No event published is lost: it is a row, dropped, in the buffer or about to
\* be staged, and a dropped one is none of the others.
THEOREM AccountsInvariance == Spec => []Inv
  <1>1. Init => Inv
    BY InitTyped, InitAdmission, InitOrdering, InitAccounted DEF Inv
  <1>2. Inv /\ [Next]_vars => Inv'
    BY StepTyped, StepAdmission, StepOrdering, StepAccounted DEF Inv
  <1> QED BY <1>1, <1>2, PTL DEF Spec

\* The bus, the fold and the facade in front of SQLite implement the ledger's
\* promise: the log grows by the oldest open event only, whatever nests,
\* whatever is refused and wherever an insert fails.
THEOREM Implements == Spec => ImplementsLog
  <1>1. Init => Log!LogInit
    BY InitImplements
  <1>2. Inv /\ [Next]_vars => [Log!LogNext]_(Log!logVars)
    BY StepImplements
  <1> QED BY <1>1, <1>2, AccountsInvariance, PTL DEF Spec, ImplementsLog, Log!LogSpec

\* A running handler reads every event that was not dropped, its own included:
\* the rows and the buffer together hold it.
THEOREM HandlersReadEverything == Spec => []ReadYourWrites
  <1>1. ASSUME Inv
        PROVE  ReadYourWrites
    <2> SUFFICES ASSUME Busy, Top.pos \in Fold .. Last, NEW e \in 1 .. Len(events),
                        e \notin DurableEvents, e \notin dropped
                 PROVE  e \in StagedEvents
      BY DEF ReadYourWrites
    <2>1. Top.pos # Ledger
      BY <1>1, Positions DEF Inv
    <2>2. PICK i \in 1 .. Len(pending) : pending[i].ev = e
      BY <1>1, <2>1, OpenIsStaged DEF OpenEvents
    <2>3. i \in DOMAIN pending
      BY <1>1 DEF Inv, TypeOK
    <2> QED BY <2>2, <2>3 DEF StagedEvents
  <1> QED BY <1>1, AccountsInvariance, PTL
-----------------------------------------------------------------------------
(***************************************************************************)
(* How an outermost publish() leaves the ledger, for any number of         *)
(* subscribers and events: unless an insert failed it settles every event  *)
(* it published, and what it dropped it dropped because the fold rejected  *)
(* that event or one it was published from.                                *)
(***************************************************************************)
\* An event in the buffer without a verdict still awaits its own; and without a
\* failed insert the buffer holds what the outermost call published.
Underway ==
  /\ \A i \in 1 .. Len(pending) : ~pending[i].admitted =>
       \E k \in 1 .. Len(stack) :
         stack[k].ev = pending[i].ev /\ stack[k].pos \in Fold .. Verdict
  /\ fault \/ /\ ~Busy => Len(pending) = 0
              /\ Busy => \A i \in 1 .. Len(pending) : stack[1].ev <= pending[i].ev

\* A call is refused only for its own event's rejection, and whatever was
\* published since it began was published from it.
Descent ==
  /\ \A k \in 1 .. Len(stack) : stack[k].refused => stack[k].ev \in rejected
  /\ \A k \in 1 .. Len(stack) : \A f \in 1 .. Len(events) :
       stack[k].ev < f => stack[k].ev <= events[f].parent

Settlement == Underway /\ Descent /\ OnlyRejectionDrops
-----------------------------------------------------------------------------
\* How the innermost call goes on.
LEMMA Moves ==
  ASSUME Inv, Stage \/ HandlerReturns \/ FoldRefuses \/ HandlerRaises \/ Admit \/ FlushRow
  PROVE  \E f \in Frame :
           /\ Busy /\ Replace(f) /\ f.ev = Top.ev
           /\ f.refused => Top.refused \/ FoldRefuses
           /\ Top.pos \in Fold .. Verdict => f.pos \in Fold .. Verdict \/ Admit
           /\ Stage => f.pos \in Fold .. Verdict
  <1>1. Busy /\ Top \in Frame
    BY Shapes DEF Inv, Stage, HandlerReturns, FoldRefuses, HandlerRaises, Admit, FlushRow, At
  <1>2. /\ \A p \in Fold .. Last : p + 1 \in Fold .. Verdict /\ p + 1 \in Ledger .. Flush
        /\ Fold \in Fold .. Last /\ Ledger + 1 \in Fold .. Verdict
        /\ \A p \in Fold + 1 .. Last : p \in Fold .. Last
        /\ Flush \in Ledger .. Flush /\ Flush \notin Fold .. Verdict
        /\ Ledger + 1 \in Ledger .. Flush /\ Ledger \notin Fold .. Verdict
    BY <1>1, Positions, Shapes DEF Inv
  <1>3. CASE Stage
    <2>1. Replace([Top EXCEPT !.pos = @ + 1]) /\ Top.pos = Ledger
      BY <1>3 DEF Stage, At
    <2>2. /\ [Top EXCEPT !.pos = @ + 1] \in Frame
          /\ [Top EXCEPT !.pos = @ + 1].ev = Top.ev
          /\ [Top EXCEPT !.pos = @ + 1].refused = Top.refused
          /\ [Top EXCEPT !.pos = @ + 1].pos = Ledger + 1
      BY <1>1, <1>2, <2>1 DEF Frame
    <2> QED BY <1>1, <1>2, <2>1, <2>2
  <1>4. CASE Admit
    <2>1. Replace([Top EXCEPT !.pos = Flush])
      BY <1>4 DEF Admit
    <2>2. /\ [Top EXCEPT !.pos = Flush] \in Frame
          /\ [Top EXCEPT !.pos = Flush].ev = Top.ev
          /\ [Top EXCEPT !.pos = Flush].refused = Top.refused
      BY <1>1, <1>2 DEF Frame
    <2>3. ~Stage
      BY <1>2, <1>4, Shapes DEF Inv, Admit, Stage, At
    <2> QED BY <1>1, <1>4, <2>1, <2>2, <2>3
  <1>5. CASE FlushRow
    <2>1. Replace([Top EXCEPT !.flushed = @ + 1]) /\ Top.pos = Flush
      BY <1>5 DEF FlushRow, At
    <2>2. /\ [Top EXCEPT !.flushed = @ + 1] \in Frame
          /\ [Top EXCEPT !.flushed = @ + 1].ev = Top.ev
          /\ [Top EXCEPT !.flushed = @ + 1].refused = Top.refused
      BY <1>1 DEF Frame
    <2>3. ~Stage
      BY <2>1, Shapes DEF Inv, Stage, At
    <2> QED BY <1>1, <1>2, <2>1, <2>2, <2>3
  <1>6. CASE HandlerReturns \/ FoldRefuses \/ HandlerRaises
    <2>1. Top.pos \in Fold .. Last
      BY <1>2, <1>6 DEF HandlerReturns, FoldRefuses, HandlerRaises, At
    <2>2. PICK f \in { [Top EXCEPT !.pos = @ + 1],
                       [Top EXCEPT !.pos = @ + 1, !.refused = TRUE, !.raised = TRUE],
                       [Top EXCEPT !.pos = @ + 1, !.raised = TRUE] } :
             /\ Replace(f)
             /\ f.refused = Top.refused \/ FoldRefuses
      BY <1>1, <1>6 DEF HandlerReturns, FoldRefuses, HandlerRaises, Frame
    <2>3. f \in Frame
      <3>1. Top.pos + 1 \in Ledger .. Flush /\ TRUE \in BOOLEAN
        BY <1>2, <2>1
      <3>2. /\ [Top EXCEPT !.pos = Top.pos + 1] \in Frame
            /\ [Top EXCEPT !.pos = Top.pos + 1, !.raised = TRUE] \in Frame
            /\ [Top EXCEPT !.pos = Top.pos + 1, !.refused = TRUE, !.raised = TRUE] \in Frame
        BY <1>1, <3>1, FrameMoves
      <3> QED BY <2>2, <3>2
    <2>4. f.pos = Top.pos + 1 /\ f.ev = Top.ev
      BY <1>1 DEF Frame
    <2>5. f.pos \in Fold .. Verdict
      BY <1>2, <2>1, <2>4
    <2> QED BY <1>1, <2>2, <2>3, <2>4, <2>5
  <1> QED BY <1>3, <1>4, <1>5, <1>6

\* The same, for every call in progress.
LEMMA CallsMove ==
  ASSUME Inv, Stage \/ HandlerReturns \/ FoldRefuses \/ HandlerRaises \/ Admit \/ FlushRow
  PROVE  /\ Busy /\ Busy' /\ Len(stack') = Len(stack)
         /\ \A k \in 1 .. Len(stack) :
              /\ stack'[k].ev = stack[k].ev
              /\ stack'[k].refused =>
                   stack[k].refused \/ (FoldRefuses /\ k = Len(stack))
              /\ stack[k].pos \in Fold .. Verdict =>
                   stack'[k].pos \in Fold .. Verdict \/ (Admit /\ k = Len(stack))
         /\ Stage => stack'[Len(stack)].pos \in Fold .. Verdict
  <1>1. PICK f \in Frame :
           /\ Busy /\ Replace(f) /\ f.ev = Top.ev
           /\ f.refused => Top.refused \/ FoldRefuses
           /\ Top.pos \in Fold .. Verdict => f.pos \in Fold .. Verdict \/ Admit
           /\ Stage => f.pos \in Fold .. Verdict
    BY Moves
  <1>2. /\ Len(stack') = Len(stack)
        /\ \A k \in 1 .. Len(stack) :
             stack'[k] = IF k = Len(stack) THEN f ELSE stack[k]
    BY <1>1, ReplaceStack, Shapes DEF Inv
  <1>3. Len(stack) \in 1 .. Len(stack) /\ Top = stack[Len(stack)]
    BY <1>1, Shapes DEF Inv
  <1>4. Busy'
    BY <1>2, <1>3 DEF Busy
  <1> QED BY <1>1, <1>2, <1>3, <1>4

LEMMA CallsReturn ==
  ASSUME Inv, Refuse \/ FlushFails \/ FlushDone
  PROVE  /\ Busy /\ Len(stack') = Len(stack) - 1
         /\ Len(stack) \in 1 .. Len(stack) /\ Top = stack[Len(stack)]
         /\ \A k \in 1 .. Len(stack') :
              /\ k \in 1 .. Len(stack) /\ k # Len(stack)
              /\ stack'[k].ev = stack[k].ev
              /\ stack'[k].refused = stack[k].refused
              /\ stack'[k].pos \in Fold .. Verdict
         /\ Busy' => 1 \in 1 .. Len(stack')
         /\ ~Busy' => Len(stack) = 1
  <1>1. Busy /\ Top \in Frame
    BY Shapes DEF Inv, FlushFails, FlushDone, Refuse, At
  <1>2. PICK raised \in BOOLEAN : Return(raised)
    <2>1. Top.raised \in BOOLEAN
      BY <1>1 DEF Frame
    <2> QED BY <2>1 DEF Refuse, FlushFails, FlushDone
  <1>3. /\ stack' \in Seq(Frame)
        /\ Len(stack') = Len(stack) - 1
        /\ \A k \in 1 .. Len(stack') :
             /\ stack'[k].ev = stack[k].ev
             /\ stack'[k].refused = stack[k].refused
             /\ stack'[k].pos \in Fold .. Verdict
    BY <1>1, <1>2, ReturnStack DEF Inv, TypeOK, Admission
  <1>4. Len(stack) \in 1 .. Len(stack) /\ Top = stack[Len(stack)] /\ Len(stack) \in Nat
    BY <1>1, Shapes DEF Inv
  <1>5. Busy' <=> Len(stack') # 0
    BY <1>3 DEF Busy
  <1>6. /\ \A k \in 1 .. Len(stack') : k \in 1 .. Len(stack) /\ k # Len(stack)
        /\ Len(stack') # 0 => 1 \in 1 .. Len(stack')
        /\ Len(stack') = 0 => Len(stack) = 1
    BY <1>3, <1>4
  <1> QED BY <1>1, <1>3, <1>4, <1>5, <1>6
-----------------------------------------------------------------------------
\* publish() adds a call above the others.
LEMMA CallsGrow ==
  ASSUME Inv, NEW isTick, NEW parent, Stamp(isTick, parent)
  PROVE  /\ Len(stack) \in Nat /\ Len(stack') = Len(stack) + 1 /\ Busy'
         /\ \A k \in 1 .. Len(stack) : stack'[k] = stack[k] /\ k \in 1 .. Len(stack')
         /\ \A k \in 1 .. Len(stack') : k \in 1 .. Len(stack) \/ k = Len(stack) + 1
         /\ stack'[Len(stack) + 1].ev = Len(events) + 1
         /\ ~stack'[Len(stack) + 1].refused
         /\ Len(events) \in Nat /\ Len(events') = Len(events) + 1
         /\ \A e \in 1 .. Len(events) : events'[e] = events[e]
         /\ events'[Len(events) + 1].parent = parent
         /\ UNCHANGED <<pending, durable, rejected, dropped, fault>>
  <1>1. /\ Len(stack) \in Nat /\ Len(stack') = Len(stack) + 1
        /\ \A k \in 1 .. Len(stack) : stack'[k] = stack[k]
        /\ stack'[Len(stack) + 1] = NewFrame(Len(events) + 1)
    BY Shapes DEF Inv, Stamp
  <1>2. /\ Len(events) \in Nat /\ Len(events') = Len(events) + 1
        /\ \A e \in 1 .. Len(events) : events'[e] = events[e]
        /\ events'[Len(events) + 1].parent = parent
    BY SMTT(20) DEF Inv, TypeOK, Stamp
  <1>3. stack'[Len(stack) + 1].ev = Len(events) + 1 /\ ~stack'[Len(stack) + 1].refused
    BY <1>1 DEF NewFrame
  <1>4. Busy'
    BY <1>1 DEF Busy
  <1>5. UNCHANGED <<pending, durable, rejected, dropped, fault>>
    BY DEF Stamp
  <1>6. /\ \A k \in 1 .. Len(stack) : k \in 1 .. Len(stack')
        /\ \A k \in 1 .. Len(stack') : k \in 1 .. Len(stack) \/ k = Len(stack) + 1
    BY <1>1
  <1> QED BY <1>1, <1>2, <1>3, <1>4, <1>5, <1>6

LEMMA PublishUnderway ==
  ASSUME Inv, Underway, PublishRoot \/ PublishNested
  PROVE  Underway'
  <1>1. PICK isTick, parent : Stamp(isTick, parent)
    BY DEF PublishRoot, PublishNested
  <1>2. CASE PublishRoot
    <2>1. ~Busy
      BY <1>2 DEF PublishRoot
    <2>2. fault \/ Len(pending) = 0
      BY <2>1 DEF Underway
    <2>3. \A i \in 1 .. 0 : FALSE
      OBVIOUS
    <2>4. /\ \A k \in 1 .. Len(stack) : stack'[k] = stack[k] /\ k \in 1 .. Len(stack')
          /\ UNCHANGED <<pending, fault>> /\ Busy'
      BY <1>1, CallsGrow
    <2>5. \A i \in 1 .. Len(pending') : ~pending'[i].admitted =>
            \E k \in 1 .. Len(stack') :
              stack'[k].ev = pending'[i].ev /\ stack'[k].pos \in Fold .. Verdict
      BY <2>4 DEF Underway
    <2> QED BY <2>2, <2>3, <2>4, <2>5 DEF Underway
  <1>3. CASE PublishNested
    <2>1. Busy /\ 1 \in 1 .. Len(stack)
      BY <1>3, Shapes DEF PublishNested, Inv
    <2>2. stack'[1] = stack[1] /\ Busy'
      BY <1>1, <2>1, CallsGrow
    <2>3. /\ \A k \in 1 .. Len(stack) : stack'[k] = stack[k] /\ k \in 1 .. Len(stack')
          /\ UNCHANGED <<pending, fault>>
      BY <1>1, CallsGrow
    <2>4. fault \/ \A i \in 1 .. Len(pending) : stack'[1].ev <= pending[i].ev
      BY <2>1, <2>2 DEF Underway
    <2>5. \A i \in 1 .. Len(pending) : ~pending[i].admitted =>
            \E k \in 1 .. Len(stack') :
              stack'[k].ev = pending[i].ev /\ stack'[k].pos \in Fold .. Verdict
      <3>1. \A i \in 1 .. Len(pending) : ~pending[i].admitted =>
              \E k \in 1 .. Len(stack) :
                stack[k].ev = pending[i].ev /\ stack[k].pos \in Fold .. Verdict
        BY DEF Underway
      <3> QED BY <2>3, <3>1
    <2> QED BY <2>2, <2>3, <2>4, <2>5 DEF Underway
  <1> QED BY <1>2, <1>3

LEMMA StageUnderway ==
  ASSUME Inv, Underway, Stage
  PROVE  Underway'
  <1> DEFINE b == Len(pending)
             m == Len(stack)
  <1>1. /\ b \in Nat /\ m \in 1 .. m /\ m \in Nat /\ Busy /\ Top = stack[m]
    BY Shapes DEF Inv, Stage, At
  <1>2. /\ Len(pending') = b + 1
        /\ \A i \in 1 .. b : pending'[i] = pending[i]
        /\ pending'[b + 1].ev = Top.ev
        /\ fault' = fault
    BY Shapes DEF Stage, Inv
  <1>3. /\ Busy' /\ Len(stack') = m
        /\ \A k \in 1 .. m : /\ stack'[k].ev = stack[k].ev
                             /\ stack[k].pos \in Fold .. Verdict =>
                                  stack'[k].pos \in Fold .. Verdict
        /\ stack'[m].pos \in Fold .. Verdict
    <2>1. ~Admit
      BY Shapes DEF Inv, Stage, Admit, At
    <2> QED BY <2>1, CallsMove
  <1>4. stack[1].ev <= Top.ev
    <2>1. 1 < m => stack[1].ev < stack[m].ev
      BY <1>1 DEF Inv, Admission, StackShape, m
    <2>2. stack[m].ev \in Nat /\ stack[1].ev \in Nat
      BY <1>1, Shapes DEF Inv, m
    <2> QED BY <1>1, <2>1, <2>2
  <1> HIDE DEF b, m
  <1>5. \A i \in 1 .. b + 1 : i \in 1 .. b \/ i = b + 1
    BY <1>1
  <1>6. 1 \in 1 .. m
    BY <1>1
  <1>7. fault \/ \A i \in 1 .. b + 1 : stack'[1].ev <= pending'[i].ev
    BY <1>1, <1>2, <1>3, <1>4, <1>5, <1>6 DEF Underway, b
  <1>8. \A i \in 1 .. b + 1 : ~pending'[i].admitted =>
          \E k \in 1 .. m : stack'[k].ev = pending'[i].ev /\ stack'[k].pos \in Fold .. Verdict
    <2> SUFFICES ASSUME NEW i \in 1 .. b + 1, ~pending'[i].admitted
                 PROVE  \E k \in 1 .. m :
                          stack'[k].ev = pending'[i].ev /\ stack'[k].pos \in Fold .. Verdict
      OBVIOUS
    <2>1. CASE i \in 1 .. b
      <3>1. pending'[i] = pending[i]
        BY <1>2, <2>1
      <3>2. PICK k \in 1 .. m : stack[k].ev = pending[i].ev /\ stack[k].pos \in Fold .. Verdict
        BY <2>1, <3>1 DEF Underway, b, m
      <3> QED BY <1>3, <3>1, <3>2
    <2>2. CASE i = b + 1
      BY <1>1, <1>2, <1>3, <2>2
    <2> QED BY <1>5, <2>1, <2>2
  <1> QED BY <1>2, <1>3, <1>7, <1>8 DEF Underway

\* An event stops waiting for its verdict only by having it.
LEMMA MoveUnderway ==
  ASSUME Inv, Underway, HandlerReturns \/ FoldRefuses \/ HandlerRaises \/ FlushRow \/ Admit
  PROVE  Underway'
  <1>1. fault' = fault
    BY DEF HandlerReturns, FoldRefuses, HandlerRaises, FlushRow, Admit
  <1>2. /\ Len(pending') = Len(pending)
        /\ \A i \in 1 .. Len(pending) :
             /\ pending'[i].ev = pending[i].ev
             /\ ~pending'[i].admitted => ~pending[i].admitted
             /\ Admit /\ ~pending'[i].admitted => pending[i].ev # Top.ev
    <2>1. CASE Admit
      BY <2>1, AdmitStaged, Shapes DEF Inv
    <2>2. CASE HandlerReturns \/ FoldRefuses \/ HandlerRaises \/ FlushRow
      <3>1. pending' = pending
        BY <2>2 DEF HandlerReturns, FoldRefuses, HandlerRaises, FlushRow
      <3>2. ~Admit
        BY <2>2, Shapes DEF Inv, HandlerReturns, FoldRefuses, HandlerRaises, FlushRow, Admit, At
      <3> QED BY <3>1, <3>2
    <2> QED BY <2>1, <2>2
  <1>3. /\ Busy /\ Busy' /\ Len(stack') = Len(stack)
        /\ \A k \in 1 .. Len(stack) :
              /\ stack'[k].ev = stack[k].ev
              /\ stack[k].pos \in Fold .. Verdict =>
                   stack'[k].pos \in Fold .. Verdict \/ (Admit /\ k = Len(stack))
    BY CallsMove
  <1>4. Top = stack[Len(stack)] /\ 1 \in 1 .. Len(stack)
    BY <1>3, Shapes DEF Inv
  <1>5. fault \/ \A i \in 1 .. Len(pending) : stack'[1].ev <= pending'[i].ev
    BY <1>2, <1>3, <1>4 DEF Underway
  <1>6. ASSUME NEW i \in 1 .. Len(pending), ~pending'[i].admitted
        PROVE  \E k \in 1 .. Len(stack) :
                 stack'[k].ev = pending'[i].ev /\ stack'[k].pos \in Fold .. Verdict
    <2>1. PICK k \in 1 .. Len(stack) :
            stack[k].ev = pending[i].ev /\ stack[k].pos \in Fold .. Verdict
      BY <1>2, <1>6 DEF Underway
    <2>2. ~(Admit /\ k = Len(stack))
      BY <1>2, <1>4, <1>6, <2>1
    <2> QED BY <1>2, <1>3, <2>1, <2>2
  <1> QED BY <1>1, <1>2, <1>3, <1>5, <1>6 DEF Underway

LEMMA BelowTop ==
  ASSUME NEW m \in Nat, NEW k \in 1 .. m, k # m
  PROVE  k \in 1 .. m - 1
  OBVIOUS

\* A refusal by the outermost call empties the buffer.
LEMMA RefuseUnderway ==
  ASSUME Inv, Underway, Refuse
  PROVE  Underway'
  <1>1. /\ Len(pending') = IndexOf(Top.ev) - 1
        /\ \A i \in 1 .. Len(pending') :
             i \in 1 .. Len(pending) /\ pending'[i].ev = pending[i].ev
        /\ \A i \in 1 .. Len(pending') : pending'[i].ev < Top.ev
        /\ Top.ev \in OpenEvents
    BY RefusalWithdraws
  <1>2. /\ Busy /\ Top = stack[Len(stack)]
        /\ \A k \in 1 .. Len(stack') :
              /\ k \in 1 .. Len(stack) /\ k # Len(stack)
              /\ stack'[k].ev = stack[k].ev
              /\ stack'[k].pos \in Fold .. Verdict
        /\ Busy' => 1 \in 1 .. Len(stack')
        /\ ~Busy' => Len(stack) = 1
        /\ Len(stack') = Len(stack) - 1
    BY CallsReturn
  <1>3. fault' = fault
    BY DEF Refuse
  <1>4. /\ IndexOf(Top.ev) \in 1 .. Len(pending)
        /\ \A i \in 1 .. Len(pending') : pending'[i] = pending[i]
    <2>1. Top.pos = Verdict /\ Verdict \in Fold .. Verdict /\ Len(stack) \in 1 .. Len(stack)
      BY <1>2, Shapes DEF Refuse, At, Inv
    <2>2. \E i \in 1 .. Len(pending) : pending[i].ev = Top.ev
      BY <1>2, <2>1 DEF Inv, Admission, InProgressStaged
    <2>3. pending' = BeforeEvent(Top.ev)
      BY DEF Refuse
    <2> QED BY <1>1, <2>2, <2>3, BeforeEventStaged, Shapes DEF Inv
  <1>5. /\ \A i \in 1 .. Len(pending) : pending[i].ev \in Nat
        /\ Top.ev \in Nat /\ Len(pending) \in Nat /\ Len(stack) \in Nat
        /\ Len(stack) \in 1 .. Len(stack)
    BY <1>2, Shapes DEF Inv
  <1>6. fault \/ \A i \in 1 .. Len(pending) : stack[1].ev <= pending[i].ev
    BY <1>2 DEF Underway
  <1>7. fault \/ (~Busy' => Len(pending') = 0)
    <2> SUFFICES ASSUME ~fault, Len(stack) = 1, Len(pending') # 0
                 PROVE  FALSE
      BY <1>2
    <2>1. 1 \in 1 .. Len(pending')
      BY <1>1, <1>4, <1>5
    <2>2. stack[1].ev <= pending[1].ev /\ pending[1].ev < stack[1].ev /\ pending[1].ev \in Nat
      BY <1>1, <1>2, <1>5, <1>6, <2>1
    <2>3. stack[1].ev \in Nat
      BY <1>2, <1>5
    <2> QED BY <2>2, <2>3
  <1>8. fault \/ (Busy' => \A i \in 1 .. Len(pending') : stack'[1].ev <= pending'[i].ev)
    BY <1>1, <1>2, <1>6
  <1>9. \A k \in 1 .. Len(stack) : k # Len(stack) => k \in 1 .. Len(stack')
    BY <1>2, <1>5, BelowTop
  <1>10. ASSUME NEW i \in 1 .. Len(pending'), ~pending'[i].admitted
        PROVE  \E k \in 1 .. Len(stack') :
                 stack'[k].ev = pending'[i].ev /\ stack'[k].pos \in Fold .. Verdict
    <2>1. pending'[i] = pending[i] /\ i \in 1 .. Len(pending)
      BY <1>1, <1>4, <1>10
    <2>2. PICK k \in 1 .. Len(stack) :
            stack[k].ev = pending[i].ev /\ stack[k].pos \in Fold .. Verdict
      BY <1>10, <2>1 DEF Underway
    <2>3. pending[i].ev # Top.ev
      <3>1. pending[i].ev < Top.ev /\ pending[i].ev \in Nat /\ Top.ev \in Nat
        BY <1>1, <1>5, <2>1
      <3> QED BY <3>1
    <2>4. k # Len(stack)
      BY <1>2, <2>2, <2>3
    <2>5. k \in 1 .. Len(stack')
      BY <1>5, <1>9, <2>4
    <2> QED BY <1>2, <2>1, <2>2, <2>5
  <1> QED BY <1>3, <1>7, <1>8, <1>10 DEF Underway

\* A flush stops at an event that another call is still handling, so the
\* outermost call's stops at the end of the buffer.
LEMMA FlushDoneUnderway ==
  ASSUME Inv, Underway, FlushDone
  PROVE  Underway' /\ (~Busy' => Len(pending') = 0)
  <1> DEFINE b == Len(pending)
             x == Top.flushed
  <1>1. /\ Busy /\ Top = stack[Len(stack)]
        /\ \A k \in 1 .. Len(stack') :
              /\ k \in 1 .. Len(stack) /\ k # Len(stack)
              /\ stack'[k].ev = stack[k].ev
              /\ stack'[k].pos \in Fold .. Verdict
        /\ Busy' => 1 \in 1 .. Len(stack')
        /\ ~Busy' => Len(stack) = 1
        /\ Len(stack') = Len(stack) - 1
    BY CallsReturn
  <1>2. /\ b \in Nat /\ x \in Nat /\ Top.pos = Flush /\ Flush \notin Fold .. Verdict
        /\ Len(stack) \in Nat /\ Len(stack) \in 1 .. Len(stack)
        /\ fault' = fault
        /\ pending' = SubSeq(pending, x + 1, b)
        /\ ~Flushable(x)
    <2>1. /\ Top.pos = Flush /\ fault' = fault /\ ~Flushable(x)
          /\ pending' = SubSeq(pending, x + 1, b)
      BY DEF FlushDone, At
    <2>2. /\ b \in Nat /\ x \in Nat /\ Len(stack) \in Nat
          /\ Len(stack) \in 1 .. Len(stack)
      BY <1>1, Shapes DEF Inv
    <2>3. Flush \notin Fold .. Verdict
      BY Shapes DEF Inv
    <2> QED BY <2>1, <2>2, <2>3
  <1>3. x <= b
    BY <1>1, <1>2 DEF Inv, Admission, FlushedDurable
  <1>4. /\ Len(pending') = b - x
        /\ \A i \in 1 .. b - x : pending'[i] = pending[i + x]
    BY <1>2, <1>3, SuffixEntries, Shapes DEF Inv
  <1>5. x < b => ~pending[x + 1].admitted
    BY <1>2 DEF Flushable
  <1> HIDE DEF b, x
  <1>6. \A i \in 1 .. b - x : i + x \in 1 .. b
    BY <1>2, <1>3
  <1>7. ASSUME NEW i \in 1 .. b, ~pending[i].admitted
        PROVE  \E k \in 1 .. Len(stack') :
                 stack'[k].ev = pending[i].ev /\ stack'[k].pos \in Fold .. Verdict
    <2>1. PICK k \in 1 .. Len(stack) :
            stack[k].ev = pending[i].ev /\ stack[k].pos \in Fold .. Verdict
      BY <1>7 DEF Underway, b
    <2>2. k # Len(stack)
      BY <1>1, <1>2, <2>1
    <2>3. k \in 1 .. Len(stack')
      BY <1>1, <1>2, <2>2, BelowTop
    <2> QED BY <1>1, <2>1, <2>3
  <1>8. ~Busy' => Len(pending') = 0
    <2> SUFFICES ASSUME Len(stack) = 1, x < b
                 PROVE  FALSE
      BY <1>1, <1>2, <1>3, <1>4
    <2>1. x + 1 \in 1 .. b /\ ~pending[x + 1].admitted
      BY <1>2, <1>5
    <2>2. \E k \in 1 .. Len(stack') : TRUE
      BY <1>7, <2>1
    <2> QED BY <1>1, <2>2
  <1>9. fault \/ (Busy' => \A i \in 1 .. Len(pending') : stack'[1].ev <= pending'[i].ev)
    BY <1>1, <1>4, <1>6 DEF Underway, b
  <1>10. \A i \in 1 .. Len(pending') : ~pending'[i].admitted =>
           \E k \in 1 .. Len(stack') :
             stack'[k].ev = pending'[i].ev /\ stack'[k].pos \in Fold .. Verdict
    BY <1>4, <1>6, <1>7
  <1> QED BY <1>2, <1>8, <1>9, <1>10 DEF Underway

LEMMA StepUnderway ==
  ASSUME Inv, Underway, [Next]_vars
  PROVE  Underway'
  <1>1. CASE FlushFails
    <2>1. /\ Len(stack') = Len(stack) - 1 /\ Top = stack[Len(stack)]
          /\ \A k \in 1 .. Len(stack') : stack'[k].ev = stack[k].ev
                                        /\ stack'[k].pos \in Fold .. Verdict
          /\ Len(stack) \in Nat
      BY <1>1, CallsReturn, Shapes DEF Inv
    <2>2. fault' /\ pending' = pending /\ Top.pos \notin Fold .. Verdict
      BY <1>1, Shapes DEF Inv, FlushFails, At
    <2>3. ASSUME NEW i \in 1 .. Len(pending), ~pending[i].admitted
          PROVE  \E k \in 1 .. Len(stack') :
                   stack'[k].ev = pending[i].ev /\ stack'[k].pos \in Fold .. Verdict
      <3>1. PICK k \in 1 .. Len(stack) :
              stack[k].ev = pending[i].ev /\ stack[k].pos \in Fold .. Verdict
        BY <2>3 DEF Underway
      <3>2. k \in 1 .. Len(stack')
        BY <2>1, <2>2, <3>1, BelowTop
      <3> QED BY <2>1, <3>1, <3>2
    <2> QED BY <2>2, <2>3 DEF Underway
  <1>2. CASE UNCHANGED vars
    <2>1. UNCHANGED <<stack, pending, fault>>
      BY <1>2 DEF vars
    <2>2. Busy' <=> Busy
      BY <2>1 DEF Busy
    <2> QED BY <2>1, <2>2 DEF Underway
  <1> QED
    BY <1>1, <1>2, PublishUnderway, StageUnderway, MoveUnderway, RefuseUnderway,
       FlushDoneUnderway DEF Next
-----------------------------------------------------------------------------
\* A new event's publishing event is the innermost call's, the youngest.
LEMMA PublishDescent ==
  ASSUME Inv, Descent, PublishRoot \/ PublishNested
  PROVE  Descent'
  <1>1. PICK isTick, parent :
          /\ Stamp(isTick, parent)
          /\ Busy => parent = Top.ev
    BY DEF PublishRoot, PublishNested
  <1>2. /\ \A k \in 1 .. Len(stack) : stack'[k] = stack[k]
        /\ \A k \in 1 .. Len(stack') : k \in 1 .. Len(stack) \/ k = Len(stack) + 1
        /\ stack'[Len(stack) + 1].ev = Len(events) + 1
        /\ ~stack'[Len(stack) + 1].refused
        /\ Len(events) \in Nat /\ Len(events') = Len(events) + 1
        /\ \A e \in 1 .. Len(events) : events'[e] = events[e]
        /\ events'[Len(events) + 1].parent = parent
        /\ rejected' = rejected
    BY <1>1, CallsGrow
  <1>3. \A k \in 1 .. Len(stack') : stack'[k].refused => stack'[k].ev \in rejected'
    BY <1>2 DEF Descent
  <1>4. ASSUME NEW k \in 1 .. Len(stack)
        PROVE  stack[k].ev <= parent
    <2>1. Len(stack) \in Nat
      BY Shapes DEF Inv
    <2>2. Busy /\ Len(stack) \in 1 .. Len(stack) /\ Top = stack[Len(stack)]
      <3>1. Busy
        BY <1>4, <2>1 DEF Busy
      <3> QED BY <3>1, Shapes DEF Inv
    <2>3. k < Len(stack) => stack[k].ev < stack[Len(stack)].ev
      BY <2>2 DEF Inv, Admission, StackShape
    <2>4. stack[k].ev \in Nat /\ stack[Len(stack)].ev \in Nat
      BY <2>2, Shapes DEF Inv
    <2>5. k < Len(stack) \/ k = Len(stack)
      BY <2>1
    <2> QED BY <1>1, <2>2, <2>3, <2>4, <2>5
  <1>5. ASSUME NEW k \in 1 .. Len(stack'), NEW f \in 1 .. Len(events'), stack'[k].ev < f
        PROVE  stack'[k].ev <= events'[f].parent
    <2>1. f \in 1 .. Len(events) \/ f = Len(events) + 1
      BY <1>2
    <2>2. CASE k = Len(stack) + 1
      BY <1>2, <1>5, <2>1, <2>2
    <2>3. CASE k \in 1 .. Len(stack)
      BY <1>2, <1>4, <1>5, <2>1, <2>3 DEF Descent
    <2> QED BY <1>2, <2>2, <2>3
  <1> QED BY <1>3, <1>5 DEF Descent

LEMMA StepDescent ==
  ASSUME Inv, Descent, [Next]_vars
  PROVE  Descent'
  <1>1. CASE PublishRoot \/ PublishNested
    BY <1>1, PublishDescent
  <1>2. CASE Stage \/ HandlerReturns \/ FoldRefuses \/ HandlerRaises \/ Admit \/ FlushRow
    <2>1. /\ Busy /\ Len(stack') = Len(stack)
          /\ \A k \in 1 .. Len(stack) :
              /\ stack'[k].ev = stack[k].ev
              /\ stack'[k].refused =>
                   stack[k].refused \/ (FoldRefuses /\ k = Len(stack))
      BY <1>2, CallsMove
    <2>2. Top = stack[Len(stack)]
      BY <2>1, Shapes DEF Inv
    <2>3. events' = events /\ rejected \subseteq rejected'
      BY <1>2 DEF Stage, HandlerReturns, FoldRefuses, HandlerRaises, Admit, FlushRow
    <2>4. FoldRefuses => Top.ev \in rejected'
      BY DEF FoldRefuses
    <2>5. \A k \in 1 .. Len(stack) : stack'[k].refused => stack'[k].ev \in rejected'
      BY <2>1, <2>2, <2>3, <2>4 DEF Descent
    <2> QED BY <2>1, <2>3, <2>5 DEF Descent
  <1>3. CASE Refuse \/ FlushFails \/ FlushDone
    <2>1. \A k \in 1 .. Len(stack') :
              /\ k \in 1 .. Len(stack)
              /\ stack'[k].ev = stack[k].ev
              /\ stack'[k].refused = stack[k].refused
      BY <1>3, CallsReturn
    <2>2. events' = events /\ rejected' = rejected
      BY <1>3 DEF Refuse, FlushFails, FlushDone
    <2> QED BY <2>1, <2>2 DEF Descent
  <1>4. CASE UNCHANGED vars
    BY <1>4 DEF vars, Descent
  <1> QED BY <1>1, <1>2, <1>3, <1>4 DEF Next

\* What a refusal drops was published from the rejected event.
LEMMA StepDrops ==
  ASSUME Inv, Descent, OnlyRejectionDrops, [Next]_vars
  PROVE  OnlyRejectionDrops'
  <1>1. \A e \in dropped : e \in 1 .. Len(events) /\ e \in Nat
    BY Shapes DEF Inv, Accounted, DroppedGone
  <1>2. \A r \in rejected : r \in 1 .. Len(events) /\ r \in Nat
    BY Shapes DEF Inv, Admission, RejectedRefused
  <1>3. CASE PublishRoot \/ PublishNested
    <2>1. /\ \A e \in 1 .. Len(events) : events'[e] = events[e]
          /\ UNCHANGED <<rejected, dropped>>
      BY <1>3, CallsGrow DEF PublishRoot, PublishNested
    <2>2. ASSUME NEW e \in dropped
          PROVE  \E r \in rejected :
                   r <= e /\ \A f \in r + 1 .. e : events'[f].parent >= r
      <3>1. PICK r \in rejected : r <= e /\ \A f \in r + 1 .. e : events[f].parent >= r
        BY <2>2 DEF OnlyRejectionDrops
      <3>2. \A f \in r + 1 .. e : f \in 1 .. Len(events)
        BY <1>1, <1>2, <2>2, Shapes DEF Inv
      <3> QED BY <2>1, <3>1, <3>2
    <2> QED BY <2>1, <2>2 DEF OnlyRejectionDrops
  <1>4. CASE \/ Stage \/ HandlerReturns \/ FoldRefuses \/ HandlerRaises \/ Admit
             \/ FlushRow \/ FlushFails \/ FlushDone \/ UNCHANGED vars
    <2>1. UNCHANGED <<events, dropped>> /\ rejected \subseteq rejected'
      BY <1>4 DEF Stage, HandlerReturns, FoldRefuses, HandlerRaises, Admit,
           FlushRow, FlushFails, FlushDone, vars
    <2> QED BY <2>1 DEF OnlyRejectionDrops
  <1>5. CASE Refuse
    <2>1. /\ dropped' = dropped \cup {f \in OpenEvents : Top.ev <= f}
          /\ events' = events /\ rejected' = rejected
      BY <1>5, RefusalWithdraws DEF Refuse
    <2>2. Busy /\ Len(stack) \in 1 .. Len(stack) /\ Top = stack[Len(stack)]
      BY <1>5, CallsReturn
    <2>3. Top.ev \in rejected
      BY <1>5, <2>2 DEF Refuse, Descent
    <2>4. ASSUME NEW e \in {f \in OpenEvents : Top.ev <= f}
          PROVE  \A f \in Top.ev + 1 .. e : events[f].parent >= Top.ev
      <3> SUFFICES ASSUME NEW f \in Top.ev + 1 .. e
                   PROVE  events[f].parent >= Top.ev
        OBVIOUS
      <3>1. Len(events) \in Nat /\ e \in 1 .. Len(events) /\ Top.ev \in Nat
        BY <1>2, <2>3, <2>4, Shapes DEF Inv, OpenEvents
      <3>2. f \in 1 .. Len(events) /\ Top.ev < f
        BY <3>1
      <3>3. Top.ev <= events[f].parent
        BY <2>2, <3>2 DEF Descent
      <3>4. events[f].parent \in Nat
        BY <3>2, Rows DEF Inv
      <3> QED BY <3>1, <3>3, <3>4
    <2>5. ASSUME NEW e \in dropped'
          PROVE  \E r \in rejected :
                   r <= e /\ \A f \in r + 1 .. e : events[f].parent >= r
      <3>1. CASE e \in dropped
        BY <3>1 DEF OnlyRejectionDrops
      <3>2. CASE e \in {f \in OpenEvents : Top.ev <= f}
        BY <2>3, <2>4, <3>2
      <3> QED BY <2>1, <2>5, <3>1, <3>2
    <2> QED BY <2>1, <2>5 DEF OnlyRejectionDrops
  <1> QED BY <1>3, <1>4, <1>5 DEF Next

LEMMA InitSettlement == Init => Settlement
  <1> SUFFICES ASSUME Init
               PROVE  Settlement
    OBVIOUS
  <1>1. Len(pending) = 0 /\ Len(stack) = 0 /\ ~Busy /\ dropped = {}
    BY DEF Init, Busy
  <1>2. \A k \in 1 .. 0 : FALSE
    OBVIOUS
  <1>3. Underway
    BY <1>1, <1>2 DEF Underway
  <1>4. Descent /\ OnlyRejectionDrops
    BY <1>1, <1>2 DEF Descent, OnlyRejectionDrops
  <1> QED BY <1>3, <1>4 DEF Settlement
-----------------------------------------------------------------------------
(* Theorems *)

\* What the calls in progress still owe their events is an invariant.
THEOREM SettlementInvariance == Spec => [](Inv /\ Settlement)
  <1>1. Init => Settlement
    BY InitSettlement
  <1>2. Inv /\ Settlement /\ [Next]_vars => Settlement'
    BY StepUnderway, StepDescent, StepDrops DEF Settlement
  <1> QED BY <1>1, <1>2, AccountsInvariance, PTL DEF Spec

\* Only the fold's own rejection erases events: the rejected one and those
\* published from it.
THEOREM OnlyTheFoldErases == Spec => []OnlyRejectionDrops
  <1>1. Settlement => OnlyRejectionDrops
    BY DEF Settlement
  <1> QED BY <1>1, SettlementInvariance, PTL
-----------------------------------------------------------------------------
(***************************************************************************)
(* The runner, its pilots and the runtime's ENDED.  A publish() that drops *)
(* one of its events or leaves any in the buffer returns with an error,    *)
(* which ends the runner unless a pilot catches it.  So when a publish()   *)
(* of the runner returns normally, all it has published are rows,          *)
(* MATCH_ENDED with them, and nothing is left of what its pilots lost.     *)
(***************************************************************************)
\* An error is on its way out through the calls in progress.
Raising == \E k \in 1 .. Len(stack) : stack[k].raised

\* No call is in progress once the runner is gone; an event of the outermost
\* publish() is dropped, and the buffer is left filled, with an error only.
LostLoudly ==
  /\ halted => ~Busy
  /\ \A k \in 1 .. Len(stack) : stack[k].refused => stack[k].raised
  /\ Busy /\ (\E e \in dropped : stack[1].ev <= e) => Raising
  /\ ~Busy /\ ~halted /\ ~caught => Len(pending) = 0

\* The error that leaves a call is its caller's, or the runner's.
LEMMA ReturnRaises ==
  ASSUME stack \in Seq(Frame), Busy, NEW raised \in BOOLEAN, Return(raised)
  PROVE  /\ Len(stack) = 1 => Len(stack') = 0 /\ halted' = (raised /\ ~caught)
         /\ Len(stack) # 1 => halted' = halted
         /\ raised /\ Len(stack) # 1 => stack'[Len(stack) - 1].raised
         /\ \A k \in 1 .. Len(stack) - 1 : stack[k].raised => stack'[k].raised
  <1>1. CASE Len(stack) = 1
    <2>1. stack' = <<>> /\ halted' = (raised /\ ~caught)
      BY <1>1 DEF Return
    <2> QED BY <1>1, <2>1
  <1>2. CASE Len(stack) # 1
    <2>0. Len(stack) - 1 \in Nat \ {0}
      BY <1>2 DEF Busy
    <2>1. PICK n \in Nat \ {0} : n = Len(stack) - 1
      BY <2>0
    <2>2. Len(Rest) = n /\ Rest \in Seq(Frame) /\ \A k \in 1 .. n : Rest[k] = stack[k]
      BY <2>1 DEF Rest
    <2> DEFINE f == [stack[n] EXCEPT !.pos = @ + 1, !.raised = TRUE]
    <2>3. stack[n] \in Frame
      BY <2>1
    <2>4. f.raised
      BY <2>3 DEF Frame
    <2>5. /\ halted' = halted
          /\ stack' = IF raised THEN [Rest EXCEPT ![n] = f] ELSE Rest
      <3>1. stack[Len(stack) - 1] = stack[n] /\ Len(stack) - 1 = n
        BY <2>1
      <3>2. ASSUME raised
            PROVE  stack' = [Rest EXCEPT ![n] = f]
        BY <1>2, <3>1, <3>2 DEF Return
      <3>3. ASSUME ~raised
            PROVE  stack' = Rest
        BY <1>2, <3>3 DEF Return
      <3>4. halted' = halted
        BY <1>2 DEF Return
      <3> QED BY <3>2, <3>3, <3>4
    <2> HIDE DEF f
    <2>6. CASE raised
      <3>1. \A k \in 1 .. n : stack'[k] = IF k = n THEN f ELSE stack[k]
        BY <2>2, <2>5, <2>6
      <3>2. stack'[n].raised /\ \A k \in 1 .. n : stack[k].raised => stack'[k].raised
        BY <2>1, <2>4, <3>1
      <3> QED BY <1>2, <2>1, <2>5, <3>2
    <2>7. CASE ~raised
      <3>1. \A k \in 1 .. n : stack'[k] = stack[k]
        BY <2>2, <2>5, <2>7
      <3> QED BY <1>2, <2>1, <2>5, <2>7, <3>1
    <2> QED BY <2>6, <2>7
  <1> QED BY <1>1, <1>2

\* A call that goes on keeps its error, and the fold's refusal is one.
LEMMA MovesLoudly ==
  ASSUME Inv, LostLoudly,
         Stage \/ HandlerReturns \/ FoldRefuses \/ HandlerRaises \/ Admit \/ FlushRow
  PROVE  LostLoudly'
  <1>1. Busy /\ Top \in Frame /\ Len(stack) \in 1 .. Len(stack) /\ Top = stack[Len(stack)]
    BY Shapes DEF Inv, Stage, HandlerReturns, FoldRefuses, HandlerRaises, Admit, FlushRow, At
  <1>2. PICK f \in Frame : /\ Replace(f)
                           /\ Top.raised => f.raised
                           /\ f.refused => Top.refused \/ f.raised
    <2>1. /\ \A p \in Fold .. Last : p + 1 \in Ledger .. Flush
          /\ Fold \in Fold .. Last /\ \A p \in Fold + 1 .. Last : p \in Fold .. Last
          /\ Flush \in Ledger .. Flush /\ Ledger + 1 \in Ledger .. Flush
      BY Positions, Shapes DEF Inv
    <2>2. CASE Stage
      <3>1. Replace([Top EXCEPT !.pos = @ + 1]) /\ Top.pos + 1 \in Ledger .. Flush
        BY <2>1, <2>2 DEF Stage, At
      <3>2. /\ [Top EXCEPT !.pos = @ + 1] \in Frame
            /\ [Top EXCEPT !.pos = @ + 1].raised = Top.raised
            /\ [Top EXCEPT !.pos = @ + 1].refused = Top.refused
        BY <1>1, <3>1 DEF Frame
      <3> QED BY <3>1, <3>2
    <2>3. CASE HandlerReturns
      <3>1. Replace([Top EXCEPT !.pos = @ + 1]) /\ Top.pos + 1 \in Ledger .. Flush
        BY <2>1, <2>3 DEF HandlerReturns
      <3>2. /\ [Top EXCEPT !.pos = @ + 1] \in Frame
            /\ [Top EXCEPT !.pos = @ + 1].raised = Top.raised
            /\ [Top EXCEPT !.pos = @ + 1].refused = Top.refused
        BY <1>1, <3>1 DEF Frame
      <3> QED BY <3>1, <3>2
    <2>4. CASE FoldRefuses
      <3> DEFINE g == [Top EXCEPT !.pos = @ + 1, !.refused = TRUE, !.raised = TRUE]
      <3>1. Replace(g) /\ Top.pos + 1 \in Ledger .. Flush
        BY <2>1, <2>4 DEF FoldRefuses, At
      <3>2. g \in Frame /\ g.raised
        BY <1>1, <3>1 DEF Frame
      <3> QED BY <3>1, <3>2
    <2>5. CASE HandlerRaises
      <3> DEFINE g == [Top EXCEPT !.pos = @ + 1, !.raised = TRUE]
      <3>1. Replace(g) /\ Top.pos + 1 \in Ledger .. Flush
        BY <2>1, <2>5 DEF HandlerRaises
      <3>2. g \in Frame /\ g.raised
        BY <1>1, <3>1 DEF Frame
      <3> QED BY <3>1, <3>2
    <2>6. CASE Admit
      <3>1. Replace([Top EXCEPT !.pos = Flush])
        BY <2>6 DEF Admit
      <3>2. /\ [Top EXCEPT !.pos = Flush] \in Frame
            /\ [Top EXCEPT !.pos = Flush].raised = Top.raised
            /\ [Top EXCEPT !.pos = Flush].refused = Top.refused
        BY <1>1, <2>1 DEF Frame
      <3> QED BY <3>1, <3>2
    <2>7. CASE FlushRow
      <3>1. Replace([Top EXCEPT !.flushed = @ + 1])
        BY <2>7 DEF FlushRow
      <3>2. /\ [Top EXCEPT !.flushed = @ + 1] \in Frame
            /\ [Top EXCEPT !.flushed = @ + 1].raised = Top.raised
            /\ [Top EXCEPT !.flushed = @ + 1].refused = Top.refused
        BY <1>1 DEF Frame
      <3> QED BY <3>1, <3>2
    <2> QED BY <2>2, <2>3, <2>4, <2>5, <2>6, <2>7
  <1>3. /\ Len(stack') = Len(stack)
        /\ \A k \in 1 .. Len(stack) :
             stack'[k] = IF k = Len(stack) THEN f ELSE stack[k]
    BY <1>1, <1>2, ReplaceStack, Shapes DEF Inv
  <1>4. UNCHANGED <<dropped, halted>> /\ stack'[1].ev = stack[1].ev /\ Busy'
    <2>1. 1 \in 1 .. Len(stack)
      BY <1>1, Shapes DEF Inv
    <2> QED BY <2>1, CallsMove DEF Stage, HandlerReturns, FoldRefuses, HandlerRaises, Admit, FlushRow
  <1>5. \A k \in 1 .. Len(stack) :
          /\ stack[k].raised => stack'[k].raised
          /\ stack'[k].refused => stack'[k].raised
    BY <1>1, <1>2, <1>3 DEF LostLoudly
  <1>6. Raising => Raising'
    BY <1>3, <1>5 DEF Raising
  <1> QED BY <1>1, <1>3, <1>4, <1>5, <1>6 DEF LostLoudly

\* A call that loses something returns with an error.
LEMMA ReturnsLoudly ==
  ASSUME Inv, Underway, LostLoudly, Refuse \/ FlushFails \/ FlushDone
  PROVE  LostLoudly'
  <1>1. /\ Busy /\ Len(stack') = Len(stack) - 1 /\ Len(stack) \in Nat
        /\ Len(stack) \in 1 .. Len(stack) /\ Top = stack[Len(stack)] /\ Top \in Frame
        /\ \A k \in 1 .. Len(stack') : stack'[k].refused = stack[k].refused
    BY CallsReturn, Shapes DEF Inv
  <1>2. PICK raised \in BOOLEAN :
          /\ Return(raised)
          /\ Top.raised \/ ~FlushDone => raised
    <2>1. CASE Refuse
      <3>1. Return(Top.raised) /\ Top.refused /\ Top.raised
        BY <1>1, <2>1 DEF Refuse, LostLoudly
      <3> QED BY <3>1
    <2>2. CASE FlushFails
      BY <2>2 DEF FlushFails
    <2>3. CASE FlushDone
      <3>1. Return(Top.raised) /\ Top.raised \in BOOLEAN
        BY <1>1, <2>3 DEF FlushDone, Frame
      <3> QED BY <2>3, <3>1
    <2> QED BY <2>1, <2>2, <2>3
  <1>3. /\ Len(stack) = 1 => Len(stack') = 0 /\ halted' = (raised /\ ~caught)
        /\ Len(stack) # 1 => halted' = halted
        /\ raised /\ Len(stack) # 1 => stack'[Len(stack) - 1].raised
        /\ \A k \in 1 .. Len(stack) - 1 : stack[k].raised => stack'[k].raised
    BY <1>1, <1>2, ReturnRaises, Shapes DEF Inv
  <1>4. /\ ~halted
        /\ Len(stack) = 1 => ~Busy'
        /\ Len(stack) # 1 => ~halted' /\ Len(stack) - 1 \in 1 .. Len(stack')
    BY <1>1, <1>3 DEF LostLoudly, Busy
  <1>5. \A k \in 1 .. Len(stack') : stack'[k].refused => stack'[k].raised
    BY <1>1, <1>3 DEF LostLoudly
  <1>6. raised /\ Busy' => Raising'
    BY <1>3, <1>4 DEF Raising
  <1>7. Raising /\ Busy' => Raising'
    <2> SUFFICES ASSUME NEW k \in 1 .. Len(stack), stack[k].raised, Busy'
                 PROVE  Raising'
      BY DEF Raising
    <2>1. CASE k = Len(stack)
      BY <1>1, <1>2, <1>6, <2>1
    <2>2. CASE k # Len(stack)
      <3>1. k \in 1 .. Len(stack') /\ stack'[k].raised
        BY <1>1, <1>3, <2>2
      <3> QED BY <3>1 DEF Raising
    <2> QED BY <2>1, <2>2
  <1>8. ASSUME Busy', NEW e \in dropped', stack'[1].ev <= e
        PROVE  Raising'
    <2>1. stack'[1].ev = stack[1].ev
      BY <1>8, CallsReturn
    <2>2. CASE FlushDone
      BY <1>1, <1>7, <1>8, <2>1, <2>2 DEF FlushDone, LostLoudly
    <2> QED BY <1>2, <1>6, <1>8, <2>2
  <1>9. ASSUME ~Busy', ~halted', ~caught'
        PROVE  Len(pending') = 0
    <2>1. Len(stack) = 1 /\ caught' = caught
      BY <1>9, CallsReturn DEF Refuse, FlushFails, FlushDone
    <2>2. ~raised
      BY <1>3, <1>9, <2>1
    <2> QED BY <1>2, <1>9, <2>2, FlushDoneUnderway
  <1>10. halted' => ~Busy'
    BY <1>1, <1>3, <1>4
  <1> QED BY <1>5, <1>8, <1>9, <1>10 DEF LostLoudly

LEMMA PublishesLoudly ==
  ASSUME Inv, LostLoudly, PublishRoot \/ PublishNested
  PROVE  LostLoudly'
  <1>1. PICK isTick \in BOOLEAN, parent \in Nat : Stamp(isTick, parent)
    <2>1. PublishNested => Top.ev \in Nat
      BY Shapes DEF Inv, PublishNested
    <2> QED BY <2>1 DEF PublishRoot, PublishNested
  <1>2. /\ Len(stack) \in Nat /\ Len(stack') = Len(stack) + 1
        /\ \A k \in 1 .. Len(stack) : stack'[k] = stack[k] /\ k \in 1 .. Len(stack')
        /\ \A k \in 1 .. Len(stack') : k \in 1 .. Len(stack) \/ k = Len(stack) + 1
        /\ ~stack'[Len(stack) + 1].refused
        /\ UNCHANGED dropped /\ Busy'
        /\ Len(events) \in Nat /\ stack'[Len(stack) + 1].ev = Len(events) + 1
    BY <1>1, CallsGrow
  <1>3. halted' = halted
    BY <1>1 DEF Stamp
  <1>4. ~halted
    BY DEF LostLoudly, PublishRoot, PublishNested
  <1>5. ASSUME NEW e \in dropped, stack'[1].ev <= e
        PROVE  Raising'
    <2>1. e \in 1 .. Len(events)
      BY DEF Inv, Accounted, DroppedGone
    <2>2. Busy
      <3> SUFFICES ASSUME Len(stack) = 0
                   PROVE  FALSE
        BY Shapes DEF Inv, Busy
      <3>1. stack'[1].ev = Len(events) + 1
        BY <1>2
      <3> QED BY <1>2, <1>5, <2>1, <3>1
    <2>3. 1 \in 1 .. Len(stack) /\ stack'[1] = stack[1]
      BY <1>2, <2>2, Shapes DEF Inv
    <2>4. Raising
      BY <1>5, <2>2, <2>3 DEF LostLoudly
    <2> QED BY <1>2, <2>4 DEF Raising
  <1> QED BY <1>2, <1>3, <1>4, <1>5 DEF LostLoudly

LEMMA StepLoudly ==
  ASSUME Inv, Underway, LostLoudly, [Next]_vars
  PROVE  LostLoudly'
  <1>1. CASE UNCHANGED vars
    BY <1>1 DEF vars, LostLoudly, Raising, Busy
  <1> QED BY <1>1, PublishesLoudly, MovesLoudly, ReturnsLoudly DEF Next

LEMMA InitLoudly == Init => LostLoudly
  <1> SUFFICES ASSUME Init
               PROVE  LostLoudly
    OBVIOUS
  <1>1. Len(stack) = 0 /\ ~Busy /\ Len(pending) = 0 /\ ~halted
    BY DEF Init, Busy
  <1> QED BY <1>1 DEF LostLoudly

\* Whatever an outermost publish() loses it loses loudly: it drops an event of
\* its own, or leaves one in the buffer, only with an error among its calls, and
\* then nobody publishes on but after a pilot that caught it.
THEOREM LossesAreLoud == Spec => [](Inv /\ Settlement /\ LostLoudly)
  <1>1. Init => LostLoudly
    BY InitLoudly
  <1>2. Inv /\ Settlement /\ LostLoudly /\ [Next]_vars => LostLoudly'
    BY StepLoudly DEF Settlement
  <1> QED BY <1>1, <1>2, SettlementInvariance, PTL DEF Spec

\* When no publish() is in progress every event is a row or dropped and the
\* buffer is empty, unless an insert failed and no publish() of the runner has
\* returned normally since.
THEOREM NothingIsStranded == Spec => []NothingStranded
  <1>1. ASSUME Inv, Settlement, LostLoudly
        PROVE  NothingStranded
    <2> SUFFICES ASSUME ~Busy, ~fault \/ (~halted /\ ~caught)
                 PROVE  /\ pending = <<>>
                        /\ 1 .. Len(events) = DurableEvents \cup dropped
      BY DEF NothingStranded
    <2>1. Len(pending) = 0 /\ Len(stack) = 0
      BY <1>1 DEF Settlement, Underway, LostLoudly, Busy
    <2>2. pending = <<>>
      BY <1>1, <2>1, EmptySeq DEF Inv, TypeOK
    <2>3. \A k \in 1 .. 0 : FALSE
      OBVIOUS
    <2>4. 1 .. Len(events) \subseteq DurableEvents \cup dropped
      BY <1>1, <2>1, <2>3 DEF Inv, Accounted, NoneLost
    <2>5. DurableEvents \cup dropped \subseteq 1 .. Len(events)
      BY <1>1, Rows DEF Inv, Accounted, DroppedGone
    <2> QED BY <2>2, <2>4, <2>5
  <1> QED BY <1>1, LossesAreLoud, PTL

\* A publish() stays the runner's or the pilot's, and its event the first, until
\* it returns.
LEMMA OutermostStays ==
  ASSUME Inv, [Next]_vars, Busy
  PROVE  /\ caught' = caught
         /\ Busy' => stack'[1].ev = stack[1].ev
         /\ ~Busy' => Refuse \/ FlushFails \/ FlushDone
  <1>1. 1 \in 1 .. Len(stack)
    BY Shapes DEF Inv
  <1>2. CASE PublishRoot \/ PublishNested
    <2>1. PublishNested
      BY <1>2 DEF PublishRoot
    <2>2. stack'[1] = stack[1] /\ Busy'
      BY <1>1, <2>1, CallsGrow DEF PublishNested
    <2> QED BY <2>1, <2>2 DEF PublishNested
  <1>3. CASE Stage \/ HandlerReturns \/ FoldRefuses \/ HandlerRaises \/ Admit \/ FlushRow
    <2>1. caught' = caught
      BY <1>3 DEF Stage, HandlerReturns, FoldRefuses, HandlerRaises, Admit, FlushRow
    <2>2. Busy' /\ stack'[1].ev = stack[1].ev
      BY <1>1, <1>3, CallsMove
    <2> QED BY <2>1, <2>2
  <1>4. CASE Refuse \/ FlushFails \/ FlushDone
    <2>1. caught' = caught
      BY <1>4 DEF Refuse, FlushFails, FlushDone
    <2>2. Busy' => stack'[1].ev = stack[1].ev
      BY <1>4, CallsReturn
    <2> QED BY <1>4, <2>1, <2>2
  <1>5. CASE UNCHANGED vars
    BY <1>5 DEF vars, Busy
  <1> QED BY <1>2, <1>3, <1>4, <1>5 DEF Next

\* When a publish() of the runner returns normally, every event published in it
\* is a row: its own, and whatever its handlers published, however deep.
RunnerSettles ==
  Busy /\ ~Busy' /\ ~caught /\ ~halted' =>
    \A e \in 1 .. Len(events) : stack[1].ev <= e => e \in DurableEvents'

LEMMA StepSettles ==
  ASSUME Inv, Inv', Underway, LostLoudly, LostLoudly', [Next]_vars
  PROVE  RunnerSettles
  <1> SUFFICES ASSUME Busy, ~Busy', ~caught, ~halted',
                      NEW e \in 1 .. Len(events), stack[1].ev <= e
               PROVE  e \in DurableEvents'
    BY DEF RunnerSettles
  <1>1. /\ Refuse \/ FlushFails \/ FlushDone
        /\ caught' = caught
    BY OutermostStays
  <1>2. /\ Len(stack) = 1 /\ Len(stack') = 0 /\ Top = stack[1] /\ Top \in Frame
        /\ events' = events
    <2>1. /\ Busy /\ Len(stack) = 1 /\ Len(stack') = Len(stack) - 1
          /\ Top = stack[Len(stack)]
      BY <1>1, CallsReturn
    <2>2. Top \in Frame
      BY <2>1, Shapes DEF Inv
    <2>3. events' = events
      BY <1>1 DEF Refuse, FlushFails, FlushDone
    <2> QED BY <2>1, <2>2, <2>3
  <1>3. ~Top.raised /\ FlushDone
    <2>1. CASE Refuse
      <3>1. Top.raised /\ Return(Top.raised) /\ Top.raised \in BOOLEAN
        BY <1>2, <2>1 DEF Refuse, LostLoudly, Frame
      <3> QED BY <1>2, <3>1, ReturnRaises DEF Inv, TypeOK
    <2>2. CASE FlushFails
      BY <1>2, <2>2, ReturnRaises DEF Inv, TypeOK, FlushFails
    <2>3. CASE FlushDone
      <3>1. Return(Top.raised) /\ Top.raised \in BOOLEAN
        BY <1>2, <2>3 DEF FlushDone, Frame
      <3> QED BY <1>2, <2>3, <3>1, ReturnRaises DEF Inv, TypeOK
    <2> QED BY <1>1, <2>1, <2>2, <2>3
  <1>4. e \notin dropped'
    <2>1. dropped' = dropped
      BY <1>3 DEF FlushDone
    <2>2. ~Raising
      BY <1>2, <1>3 DEF Raising
    <2> QED BY <2>1, <2>2 DEF LostLoudly
  <1>5. Len(pending') = 0
    BY <1>1 DEF LostLoudly
  <1>6. \A k \in 1 .. 0 : FALSE
    OBVIOUS
  <1> QED BY <1>2, <1>4, <1>5, <1>6 DEF Inv, Accounted, NoneLost

\* What the runner publishes is durable when it goes on: when a publish() of its
\* returns normally, each event of it is a row, whatever inserts have failed
\* under its pilots before.
THEOREM EverythingIsDurable == Spec => [][RunnerSettles]_vars
  <1>1. Inv /\ Settlement /\ LostLoudly /\ Inv' /\ LostLoudly' /\ [Next]_vars
          => [RunnerSettles]_vars
    BY StepSettles DEF Settlement
  <1> QED BY <1>1, LossesAreLoud, PTL DEF Spec
-----------------------------------------------------------------------------
\* An ENDED runtime has seen a published MATCH_ENDED.
Marked ==
  /\ terminal \in 0 .. Len(events)
  /\ ended => terminal # 0

\* A published MATCH_ENDED is a row, unless the publish() of the runner that it
\* belongs to is still in progress or has ended the runner.
TerminalKept ==
  terminal # 0 =>
    \/ halted
    \/ terminal \in DurableEvents
    \/ Busy /\ ~caught /\ stack[1].ev <= terminal

\* With or without a runtime, the bus and the ledger do the same.
LEMMA EvidenceStep ==
  ASSUME [EvidenceNext]_evidenceVars
  PROVE  [Next]_vars
  <1>1. CASE PublishTerminal
    <2>1. CASE ~Busy /\ ~halted /\ Stamp(FALSE, 0) /\ caught' = FALSE
      BY <2>1 DEF Next, PublishRoot
    <2>2. CASE Busy /\ ~caught /\ Top.pos = Fold /\ Stamp(FALSE, Top.ev) /\ UNCHANGED caught
      <3>1. Fold \in Fold .. Last
        BY AdmissionAssumption DEF Fold, Last
      <3> QED BY <2>2, <3>1 DEF Next, PublishNested
    <2> QED BY <1>1, <2>1, <2>2 DEF PublishTerminal
  <1>2. CASE MarkEnded
    BY <1>2 DEF MarkEnded, Next
  <1>3. CASE Other
    BY <1>3 DEF Other
  <1>4. CASE UNCHANGED evidenceVars
    BY <1>4 DEF evidenceVars
  <1> QED BY <1>1, <1>2, <1>3, <1>4 DEF EvidenceNext

LEMMA StepMarked ==
  ASSUME Inv, Marked, [EvidenceNext]_evidenceVars
  PROVE  Marked'
  <1>1. Len(events) \in Nat /\ Len(events') \in Nat /\ Len(events) <= Len(events')
    <2>1. CASE PublishRoot \/ PublishNested
      <3>1. PICK isTick, parent : Stamp(isTick, parent)
        BY <2>1 DEF PublishRoot, PublishNested
      <3>2. Len(events) \in Nat /\ Len(events') = Len(events) + 1
        BY <3>1, CallsGrow
      <3> QED BY <3>2
    <2>2. CASE ~(PublishRoot \/ PublishNested)
      <3>1. events' = events
        BY <2>2, EvidenceStep DEF Next, Stage, HandlerReturns, FoldRefuses, HandlerRaises,
             Refuse, Admit, FlushRow, FlushFails, FlushDone, vars
      <3> QED BY <3>1, Shapes DEF Inv
    <2> QED BY <2>1, <2>2
  <1>2. CASE PublishTerminal
    <2>1. Len(events') = Len(events) + 1
      BY <1>2, CallsGrow DEF PublishTerminal
    <2>2. terminal' = Len(events')
      BY <1>2, <2>1 DEF PublishTerminal
    <2> QED BY <1>1, <2>1, <2>2 DEF Marked
  <1>3. CASE MarkEnded
    <2>1. terminal = Top.ev /\ terminal' = terminal
      BY <1>3 DEF MarkEnded
    <2>2. Top.ev \in 1 .. Len(events)
      BY <1>3, Shapes DEF Inv, Admission, StackShape, MarkEnded, At
    <2> QED BY <1>1, <2>1, <2>2 DEF Marked
  <1>4. CASE Other \/ UNCHANGED evidenceVars
    <2>1. terminal' = terminal /\ ended' = ended
      BY <1>4 DEF Other, evidenceVars
    <2> QED BY <1>1, <2>1 DEF Marked
  <1> QED BY <1>2, <1>3, <1>4 DEF EvidenceNext

LEMMA EvidenceIsLog == EvidenceSpec => Spec
  <1>1. EvidenceInit => Init
    BY DEF EvidenceInit
  <1>2. [EvidenceNext]_evidenceVars => [Next]_vars
    BY EvidenceStep
  <1> QED BY <1>1, <1>2, PTL DEF EvidenceSpec, Spec

\* An event stays a row.
LEMMA RowsStay ==
  ASSUME Inv, [Next]_vars
  PROVE  DurableEvents \subseteq DurableEvents'
  <1>1. CASE FlushRow
    BY <1>1, FlushWritesOldest
  <1>2. CASE ~FlushRow
    <2>1. durable' = durable
      BY <1>2 DEF Next, PublishRoot, PublishNested, Stamp, Stage, HandlerReturns, FoldRefuses,
           HandlerRaises, Refuse, Admit, FlushFails, FlushDone, vars
    <2> QED BY <2>1 DEF DurableEvents
  <1> QED BY <1>1, <1>2

LEMMA StepTerminalKept ==
  ASSUME Inv, LostLoudly, Marked, TerminalKept, RunnerSettles, [EvidenceNext]_evidenceVars
  PROVE  TerminalKept'
  <1>1. [Next]_vars
    BY EvidenceStep
  <1>2. CASE PublishTerminal
    <2>1. PICK parent : Stamp(FALSE, parent)
      <3>1. Stamp(FALSE, 0) \/ Stamp(FALSE, Top.ev)
        BY <1>2 DEF PublishTerminal
      <3> QED BY <3>1
    <2>2. /\ Len(stack) \in Nat /\ Busy' /\ Len(events) \in Nat
          /\ \A k \in 1 .. Len(stack) : stack'[k] = stack[k]
          /\ stack'[Len(stack) + 1].ev = Len(events) + 1
      BY <2>1, CallsGrow
    <2>3. terminal' = Len(events) + 1 /\ ~caught'
      <3>1. caught' = FALSE \/ (~caught /\ caught' = caught)
        BY <1>2, Zenon DEF PublishTerminal
      <3>2. terminal' = Len(events) + 1
        BY <1>2, Zenon DEF PublishTerminal
      <3> QED BY <3>1, <3>2
    <2>4. stack'[1].ev <= Len(events) + 1
      <3>1. CASE Len(stack) = 0
        BY <2>2, <3>1
      <3>2. CASE Len(stack) # 0
        <4>1. 1 \in 1 .. Len(stack) /\ stack'[1] = stack[1]
          BY <2>2, <3>2
        <4>2. stack[1].ev \in 1 .. Len(events)
          BY <4>1 DEF Inv, Admission, StackShape
        <4> QED BY <2>2, <4>1, <4>2
      <3> QED BY <3>1, <3>2
    <2> QED BY <2>2, <2>3, <2>4 DEF TerminalKept
  <1>3. CASE MarkEnded \/ Other \/ UNCHANGED evidenceVars
    <2>1. terminal' = terminal
      BY <1>3 DEF MarkEnded, Other, evidenceVars
    <2> SUFFICES ASSUME terminal # 0
                 PROVE  TerminalKept'
      BY <2>1 DEF TerminalKept
    <2>2. CASE halted
      <3>1. ~Busy
        BY <2>2 DEF LostLoudly
      <3>2. halted' = halted
        BY <1>1, <2>2, <3>1 DEF Next, PublishRoot, PublishNested, Stage, HandlerReturns,
             FoldRefuses, HandlerRaises, Refuse, Admit, FlushRow, FlushFails, FlushDone, At, vars
      <3> QED BY <2>2, <3>2 DEF TerminalKept
    <2>3. CASE terminal \in DurableEvents
      BY <1>1, <2>1, <2>3, RowsStay DEF TerminalKept
    <2>4. CASE Busy /\ ~caught /\ stack[1].ev <= terminal
      <3>1. CASE Busy'
        BY <1>1, <2>1, <2>4, <3>1, OutermostStays DEF TerminalKept
      <3>2. CASE ~Busy'
        <4>1. terminal \in 1 .. Len(events)
          BY Shapes DEF Inv, Marked
        <4>2. halted' \/ terminal \in DurableEvents'
          BY <2>4, <3>2, <4>1 DEF RunnerSettles
        <4> QED BY <2>1, <4>2 DEF TerminalKept
      <3> QED BY <3>1, <3>2
    <2> QED BY <2>2, <2>3, <2>4 DEF TerminalKept
  <1> QED BY <1>2, <1>3 DEF EvidenceNext

\* While no error has ended the runner, an ENDED runtime has its MATCH_ENDED
\* among the durable rows whenever no publish() is in progress, although it read
\* the facade's merged view while that event was still being dispatched, and
\* whatever inserts have failed under the pilots.
THEOREM EndedIsDurable == EvidenceSpec => []EndedIsDurableAtRest
  <1>1. EvidenceInit => Marked /\ TerminalKept
    BY DEF EvidenceInit, Init, Marked, TerminalKept
  <1>2. Inv /\ Marked /\ [EvidenceNext]_evidenceVars => Marked'
    BY StepMarked
  <1>3. EvidenceSpec => [](Inv /\ Settlement /\ LostLoudly)
    BY EvidenceIsLog, LossesAreLoud, PTL
  <1>4. /\ Inv /\ Settlement /\ LostLoudly /\ Inv' /\ LostLoudly' /\ Marked /\ TerminalKept
        /\ [EvidenceNext]_evidenceVars
        => TerminalKept'
    BY EvidenceStep, StepSettles, StepTerminalKept DEF Settlement
  <1>5. Marked /\ TerminalKept => EndedIsDurableAtRest
    BY DEF Marked, TerminalKept, EndedIsDurableAtRest
  <1> QED BY <1>1, <1>2, <1>3, <1>4, <1>5, PTL DEF EvidenceSpec

\* The properties of the ledger hold under it as well: it is the same bus, and
\* these are the runs' own specification.
THEOREM EvidenceKeepsLog ==
  EvidenceSpec => [](RowsAreCanonical /\ OnlyRejectionDrops /\ NothingStranded) /\ ImplementsLog
  BY EvidenceIsLog, RowsAlwaysCanonical, OnlyTheFoldErases, NothingIsStranded, Implements, PTL

-----------------------------------------------------------------------------
(***************************************************************************)
(* Commands are settled once, and what the status says of the match's      *)
(* worker is so: proofs for any number of command ids, workers, ticks and  *)
(* successors.                                                             *)
(*                                                                         *)
(* The first rests on the lock: nothing but its holder changes the status, *)
(* the receipts or the revision.  The second needs to know where the       *)
(* workers are.  A match has had one worker at most (OneEach); one that has*)
(* published its end is beyond its ticks (Announced), and the matches      *)
(* before the present one have ended (Finished): so whoever ticks or is    *)
(* blocked is the worker of the present match.                             *)
(***************************************************************************)

Worker == [pc : WorkerStates, match : Nat, tick : Nat, woken : BOOLEAN]

Types ==
  /\ status \in Payload
  /\ receipts \in [Ids -> Receipt \cup {None}]
  /\ stopRequested \in BOOLEAN /\ workerStarted \in BOOLEAN
  /\ pauseEpochs \in [Ids -> Nat]
  /\ held \in [op : Actions \cup {"free", "mark"}, id : Ids \cup {None},
               mode : Modes \cup {None}]
  /\ open \in BOOLEAN /\ stopped \in BOOLEAN
  /\ epoch \in Nat /\ blockedEpoch \in Nat /\ blockedTick \in Nat \cup {None}
  /\ worker \in [Workers -> Worker]
  /\ waiter \in [Ids -> [pc : WaiterStates, woken : BOOLEAN, tick : Nat]]
  /\ evidence \in SUBSET Nat
  /\ answers \in [Ids -> SUBSET Payload]

\* The operation inside the lock: what it has found and what it has done.
HeldFresh ==
  /\ held.op \in Actions => held.id \in Ids /\ receipts[held.id] = None
  /\ held.op \notin Actions => held.id = None

HeldFound ==
  /\ held.op = "free" => Idle
  /\ held.op = "start" => status.status \in {"ready", "ended"} /\ ~workerStarted
  /\ held.op = "pause" => status.status = "running" /\ pauseEpochs[held.id] = epoch
  /\ held.op = "resume" => status.status = "paused"
  /\ held.op = "stop" => status.status \in {"running", "paused"}
  /\ held.op = "mark" => status.status = "ended"

HeldGate ==
  /\ stopped => ~open
  /\ held.op = "start" => open \/ stopped
  /\ held.op = "pause" => ~open
  /\ held.op = "stop" => stopped

Marking ==
  \A v \in Workers : worker[v].pc = "marking" =>
    /\ held.op = "mark"
    /\ \A w \in Workers : worker[w].pc = "marking" => w = v

\* A receipt is of a revision that has passed, and the only answer there is.
Settled ==
  \A c \in Ids :
    /\ receipts[c] # None => receipts[c].expected < status.revision
    /\ receipts[c] = None => answers[c] = {}
    /\ \A a \in answers[c] : a = receipts[c].reply

\* A match has one worker at most, whom only a START makes room for.
OneEach ==
  /\ \A w \in Workers : Alive(w) =>
       /\ worker[w].match <= status.index
       /\ worker[w].match = status.index => workerStarted \/ held.op = "start"
  /\ \A v, w \in Workers : Alive(v) /\ Alive(w) /\ v # w => worker[v].match # worker[w].match
  /\ status.status = "ready" => \A w \in Workers : ~Alive(w)

\* The pcs of a worker that has yet to publish MATCH_ENDED.
Early == {"loop", "blocked", "ticking", "stopping"}

Announced ==
  /\ \A w \in Workers : worker[w].pc \in Early => worker[w].match \notin evidence
  /\ \A i \in evidence : i <= status.index
  /\ status.status = "ready" => evidence = {}
  /\ status.status \in {"running", "paused"} /\ ~workerStarted => status.index \notin evidence

\* The matches before this one have ended.
Finished ==
  /\ \A i \in Nat : i < status.index => i \in evidence
  /\ status.status = "ended" => status.index \in evidence

\* A pause in force whose epoch is recorded has the worker that recorded it.
BoundaryHeld ==
  /\ blockedEpoch <= epoch
  /\ \A c \in Ids : pauseEpochs[c] <= epoch
  /\ blockedEpoch > 0 => blockedTick \in Nat \ {0}
  /\ ~open /\ ~stopped /\ blockedEpoch = epoch =>
       \E w \in Workers : /\ worker[w].pc = "blocked"
                          /\ worker[w].match = status.index
                          /\ worker[w].tick + 1 = blockedTick

\* What the waiters were told, of a pause that is still in force.
Told ==
  /\ \A c \in Ids :
       /\ pauseEpochs[c] # 0 => receipts[c] # None \/ held.id = c
       /\ waiter[c].pc # "none" => pauseEpochs[c] # 0
       /\ waiter[c].pc = "released" =>
            /\ blockedEpoch >= pauseEpochs[c]
            /\ pauseEpochs[c] = epoch /\ ~open /\ ~stopped => blockedTick = waiter[c].tick + 1
  /\ status.status = "paused" /\ ~stopped =>
       status.last \in Ids /\ pauseEpochs[status.last] = epoch
  /\ status.status = "paused" /\ held.op # "resume" => ~open

\* The first match: once its worker has published the end and gone on, it ENDED.
FirstEnds ==
  status.index = 0 =>
    /\ \A w \in Workers :
         worker[w].pc \in {"marking", "ended", "raised", "failing"} /\ 0 \in evidence
           => status.status = "ended"
    /\ status.status = "failed" => \A w \in Workers : ~Alive(w)

IInv ==
  /\ Types /\ HeldFresh /\ HeldFound /\ HeldGate /\ Marking
  /\ Settled /\ RevisionCAS
  /\ OneEach /\ Announced /\ Finished
  /\ BoundaryHeld /\ Told /\ FirstEnds /\ FailedHasNoTerminal
-----------------------------------------------------------------------------
(* What a step does to the workers and to the waiters, wakings aside.        *)

Same(v) ==
  /\ worker'[v].pc = worker[v].pc
  /\ worker'[v].match = worker[v].match
  /\ worker'[v].tick = worker[v].tick

Stand == worker' \in [Workers -> Worker] /\ \A v \in Workers : Same(v)

WorkerTo(w, pc) ==
  /\ worker' \in [Workers -> Worker]
  /\ worker'[w].pc = pc /\ worker'[w].match = worker[w].match
  /\ \A v \in Workers \ {w} : Same(v)

WaitersStand ==
  /\ waiter' \in [Ids -> [pc : WaiterStates, woken : BOOLEAN, tick : Nat]]
  /\ \A c \in Ids : waiter'[c].pc = waiter[c].pc /\ waiter'[c].tick = waiter[c].tick

\* Arriving somewhere is a step of one worker, within its match.
LEMMA ArrivesIs ==
  ASSUME Types, NEW w \in Workers, NEW pc \in WorkerStates, NEW at \in Nat
  PROVE  /\ Arrives(w, pc, at) \in [Workers -> Worker]
         /\ Arrives(w, pc, at)[w].pc = pc
         /\ Arrives(w, pc, at)[w].match = worker[w].match
         /\ \A v \in Workers \ {w} : Arrives(w, pc, at)[v] = worker[v]
  BY DEF Types, Worker, Arrives

\* A notification changes nothing but woken.
LEMMA WokenIs ==
  ASSUME NEW ws \in [Workers -> Worker]
  PROVE  /\ Woken(ws) \in [Workers -> Worker]
         /\ \A v \in Workers : /\ Woken(ws)[v].pc = ws[v].pc
                               /\ Woken(ws)[v].match = ws[v].match
                               /\ Woken(ws)[v].tick = ws[v].tick
  BY DEF Woken, Worker

LEMMA WokenWaitersIs ==
  ASSUME Types, waiter' = WokenWaiters
  PROVE  WaitersStand
  BY DEF Types, WokenWaiters, WaitersStand

LEMMA NotifyStands ==
  ASSUME Types, NotifyAll
  PROVE  Stand /\ WaitersStand
  BY WokenIs, WokenWaitersIs DEF Types, NotifyAll, Stand, Same

\* A command moves nobody.
LEMMA DispatchStands ==
  ASSUME Types, NEW c \in Ids,
         (\E mode \in Modes : BeginStart(c, mode)) \/ BeginPause(c) \/ BeginResume(c) \/ BeginStop(c)
  PROVE  Stand /\ WaitersStand
  BY NotifyStands DEF BeginStart, BeginPause, BeginResume, BeginStop, GateStart, GatePause,
     GateResume

LEMMA UnchangedStands ==
  ASSUME Types, UNCHANGED worker
  PROVE  Stand
  BY DEF Types, Stand, Same

LEMMA UnchangedWaiters ==
  ASSUME Types, UNCHANGED waiter
  PROVE  WaitersStand
  BY DEF Types, WaitersStand

\* Where each of a worker's steps takes it.
LEMMA WorkerMoves ==
  ASSUME Types, NEW w \in Workers
  PROVE  /\ Block(w) => WorkerTo(w, "blocked") /\ worker'[w].tick = worker[w].tick /\ WaitersStand
         /\ Pass(w) => WorkerTo(w, "ticking") /\ WaitersStand
         /\ Halt(w) => WorkerTo(w, "stopping") /\ WaitersStand
         /\ TickContinues(w) => WorkerTo(w, "loop") /\ WaitersStand
         /\ PublishEnded(w) => WorkerTo(w, "announcing") /\ WaitersStand
         /\ MarkCommits(w) => WorkerTo(w, "marking") /\ WaitersStand
         /\ MarkStopsGate(w) => WorkerTo(w, "ended") /\ WaitersStand
         /\ MarkDeclined(w) => WorkerTo(w, "ended") /\ WaitersStand
         /\ WorkerReturns(w) => WorkerTo(w, "done") /\ WaitersStand
         /\ WorkerRaises(w) => WorkerTo(w, "raised") /\ WaitersStand
         /\ FailStopsGate(w) => WorkerTo(w, "failing") /\ WaitersStand
         /\ FailCommits(w) => WorkerTo(w, "done") /\ WaitersStand
  <1> USE DEF WorkerTo, Same
  <1>0. ASSUME NEW pc \in WorkerStates, NEW at \in Nat,
               worker' = Arrives(w, pc, at) \/ worker' = Woken(Arrives(w, pc, at))
        PROVE  WorkerTo(w, pc)
    <2> DEFINE G == Arrives(w, pc, at)
    <2>1. /\ G \in [Workers -> Worker]
          /\ G[w].pc = pc /\ G[w].match = worker[w].match
          /\ \A v \in Workers \ {w} : G[v] = worker[v]
      BY <1>0, ArrivesIs
    <2>2. worker' = G \/ worker' = Woken(G)
      BY <1>0
    <2> HIDE DEF G
    <2>3. /\ worker' \in [Workers -> Worker]
          /\ \A v \in Workers : /\ worker'[v].pc = G[v].pc
                                /\ worker'[v].match = G[v].match
                                /\ worker'[v].tick = G[v].tick
      BY <2>1, <2>2, WokenIs
    <2> QED
      BY <2>1, <2>3
  <1>a. worker[w].tick \in Nat
    BY DEF Types, Worker
  <1>b. ASSUME NEW pc \in WorkerStates, worker' = Goto(w, pc) \/ worker' = Woken(Goto(w, pc))
        PROVE  WorkerTo(w, pc)
    BY <1>0, <1>a, <1>b DEF Goto
  <1>1. Block(w) => WorkerTo(w, "blocked") /\ worker'[w].tick = worker[w].tick /\ WaitersStand
    <2> SUFFICES ASSUME Block(w)
                 PROVE  WorkerTo(w, "blocked") /\ worker'[w].tick = worker[w].tick /\ WaitersStand
        OBVIOUS
    <2>1. /\ Woken(worker) \in [Workers -> Worker]
          /\ \A v \in Workers : /\ Woken(worker)[v].pc = worker[v].pc
                                /\ Woken(worker)[v].match = worker[v].match
                                /\ Woken(worker)[v].tick = worker[v].tick
      BY WokenIs DEF Types
    <2>2. worker' = [Woken(worker) EXCEPT ![w] = [@ EXCEPT !.pc = "blocked", !.woken = FALSE]]
      BY DEF Block
    <2> QED
      BY <2>1, <2>2, WokenWaitersIs DEF Block, Worker, WorkerStates
  <1>2. Pass(w) => WorkerTo(w, "ticking") /\ WaitersStand
    BY <1>b, UnchangedWaiters DEF Pass, WorkerStates
  <1>3. Halt(w) => WorkerTo(w, "stopping") /\ WaitersStand
    BY <1>b, UnchangedWaiters DEF Halt, WorkerStates
  <1>4. TickContinues(w) => WorkerTo(w, "loop") /\ WaitersStand
    BY <1>0, <1>a, UnchangedWaiters DEF TickContinues, WorkerStates
  <1>5. PublishEnded(w) => WorkerTo(w, "announcing") /\ WaitersStand
    <2> SUFFICES ASSUME PublishEnded(w) PROVE WorkerTo(w, "announcing") /\ WaitersStand
      OBVIOUS
    <2>1. PICK at \in Nat : worker' = Arrives(w, "announcing", at)
      BY <1>a DEF PublishEnded
    <2> QED
      BY <2>1, <1>0, UnchangedWaiters DEF PublishEnded, WorkerStates
  <1>6. MarkCommits(w) => WorkerTo(w, "marking") /\ WaitersStand
    BY <1>b, UnchangedWaiters DEF MarkCommits, WorkerStates
  <1>7. MarkStopsGate(w) => WorkerTo(w, "ended") /\ WaitersStand
    BY <1>b, WokenWaitersIs DEF MarkStopsGate, WorkerStates
  <1>8. MarkDeclined(w) => WorkerTo(w, "ended") /\ WaitersStand
    BY <1>b, UnchangedWaiters DEF MarkDeclined, WorkerStates
  <1>9. WorkerReturns(w) => WorkerTo(w, "done") /\ WaitersStand
    BY <1>b, UnchangedWaiters DEF WorkerReturns, WorkerStates
  <1>10. WorkerRaises(w) => WorkerTo(w, "raised") /\ WaitersStand
    BY <1>b, UnchangedWaiters DEF WorkerRaises, WorkerStates
  <1>11. FailStopsGate(w) => WorkerTo(w, "failing") /\ WaitersStand
    BY <1>b, WokenWaitersIs DEF FailStopsGate, WorkerStates
  <1>12. FailCommits(w) => WorkerTo(w, "done") /\ WaitersStand
    BY <1>b, UnchangedWaiters DEF FailCommits, WorkerStates
  <1> QED
    BY <1>1, <1>2, <1>3, <1>4, <1>5, <1>6, <1>7, <1>8, <1>9, <1>10, <1>11, <1>12
-----------------------------------------------------------------------------
(* The initial state and the types.                                          *)

LEMMA InitIInv == RuntimeInit => IInv
  <1> SUFFICES ASSUME RuntimeInit PROVE IInv
    OBVIOUS
  <1>1. Types
    BY RuntimeAssumption DEF RuntimeInit, Types, Worker, Payload, Statuses, Free, NewWorker,
       WorkerStates, NewWaiter, WaiterStates
  <1>2. \A w \in Workers : worker[w].pc = "new"
    BY DEF RuntimeInit, NewWorker
  <1>3. /\ status.status = "ready" /\ status.index = 0 /\ evidence = {}
        /\ held.op = "free" /\ held.id = None /\ Idle /\ open /\ ~stopped
        /\ \A c \in Ids : /\ receipts[c] = None /\ answers[c] = {}
                          /\ pauseEpochs[c] = 0 /\ waiter[c].pc = "none"
        /\ blockedEpoch = 0 /\ epoch = 0
    BY DEF RuntimeInit, Free, Idle, NewWaiter
  <1>4. HeldFresh /\ HeldFound /\ HeldGate /\ Marking
    BY <1>2, <1>3 DEF HeldFresh, HeldFound, HeldGate, Marking, Actions
  <1>5. Settled /\ RevisionCAS
    BY <1>3 DEF Settled, RevisionCAS
  <1>6. OneEach /\ Announced /\ Finished
    BY <1>2, <1>3 DEF OneEach, Announced, Finished, Alive, Early
  <1>7. BoundaryHeld /\ Told /\ FirstEnds /\ FailedHasNoTerminal
    BY <1>2, <1>3 DEF BoundaryHeld, Told, FirstEnds, FailedHasNoTerminal, Alive
  <1> QED
    BY <1>1, <1>4, <1>5, <1>6, <1>7 DEF IInv

\* The status a command commits, field by field.
LEMMA AdmittedIs ==
  ASSUME Types, HeldFresh, HeldFound, held.op \in Actions
  PROVE  /\ Admitted \in Payload
         /\ Admitted.revision = status.revision + 1
         /\ Admitted.last = held.id
         /\ held.op \in {"start", "resume"} => Admitted.status = "running"
         /\ held.op = "pause" => Admitted.status = "paused"
         /\ held.op = "stop" => Admitted.status = status.status
         /\ held.op = "start" /\ status.status = "ended" => Admitted.index = status.index + 1
         /\ ~(held.op = "start" /\ status.status = "ended") => Admitted.index = status.index
  BY DEF Types, HeldFresh, Admitted, Actions, Payload, Statuses

\* The two ends a match's status may come to.
LEMMA MarkedIs ==
  ASSUME Types, NEW w \in Workers, MarkCommits(w)
  PROVE  /\ status' \in Payload /\ status'.status = "ended" /\ status'.index = status.index
         /\ status'.revision = status.revision + 1
  <1>1. status \in Payload /\ status' = [status EXCEPT !.status = "ended", !.revision = @ + 1]
    BY DEF Types, MarkCommits
  <1>2. status' = [status |-> "ended", mode |-> status.mode, revision |-> status.revision + 1,
                   index |-> status.index, last |-> status.last]
    BY <1>1 DEF Payload
  <1> QED
    BY <1>1, <1>2 DEF Payload, Statuses

LEMMA FailedIs ==
  ASSUME Types, NEW w \in Workers, FailCommits(w)
  PROVE  /\ status' \in Payload /\ status'.index = status.index
         /\ status'.revision >= status.revision
         /\ status.status \in {"ended", "failed"} => status' = status
         /\ status.status \notin {"ended", "failed"} => status'.status = "failed"
  <1>1. /\ status \in Payload
        /\ status' = IF status.status \in {"ended", "failed"} THEN status
                     ELSE [status EXCEPT !.status = "failed", !.revision = @ + 1]
    BY DEF Types, FailCommits
  <1>2. CASE status.status \notin {"ended", "failed"}
    <2>1. status' = [status |-> "failed", mode |-> status.mode, revision |-> status.revision + 1,
                     index |-> status.index, last |-> status.last]
      BY <1>1, <1>2 DEF Payload
    <2> QED
      BY <1>1, <1>2, <2>1 DEF Payload, Statuses
  <1> QED
    BY <1>1, <1>2 DEF Payload

\* What a command does on its way in.
LEMMA BeginIs ==
  ASSUME Types, NEW c \in Ids,
         (\E mode \in Modes : BeginStart(c, mode)) \/ BeginPause(c) \/ BeginResume(c) \/ BeginStop(c)
  PROVE  /\ Idle /\ receipts[c] = None
         /\ held' \in [op : Actions, id : {c}, mode : Modes \cup {None}]
         /\ UNCHANGED <<status, receipts, answers, evidence>>
  BY DEF BeginStart, BeginPause, BeginResume, BeginStop, Begin, Actions

LEMMA TypesStep ==
  ASSUME IInv, [RuntimeNext]_runtimeVars
  PROVE  Types'
  <1> USE DEF IInv
  <1>1. ASSUME NEW c \in Ids,
               (\E mode \in Modes : BeginStart(c, mode)) \/ BeginPause(c) \/ BeginResume(c)
                 \/ BeginStop(c)
        PROVE  Types'
    <2>1. worker' \in [Workers -> Worker]
          /\ waiter' \in [Ids -> [pc : WaiterStates, woken : BOOLEAN, tick : Nat]]
      BY <1>1, DispatchStands DEF Stand, WaitersStand
    <2>2. /\ held' \in [op : Actions \cup {"free", "mark"}, id : Ids \cup {None},
                         mode : Modes \cup {None}]
          /\ UNCHANGED <<status, receipts, answers, evidence>>
      BY <1>1, BeginIs
    <2>3. /\ stopRequested' \in BOOLEAN /\ workerStarted' \in BOOLEAN
          /\ pauseEpochs' \in [Ids -> Nat]
          /\ open' \in BOOLEAN /\ stopped' \in BOOLEAN
          /\ epoch' \in Nat /\ blockedEpoch' \in Nat /\ blockedTick' \in Nat \cup {None}
      <3>1. CASE \E mode \in Modes : BeginStart(c, mode)
        BY <3>1 DEF Types, BeginStart, GateStart
      <3>2. CASE BeginPause(c)
        BY <3>2 DEF Types, BeginPause, GatePause
      <3>3. CASE BeginResume(c)
        BY <3>3 DEF Types, BeginResume, GateResume
      <3>4. CASE BeginStop(c)
        BY <3>4 DEF Types, BeginStop, GateStop
      <3> QED
        BY <1>1, <3>1, <3>2, <3>3, <3>4
    <2> QED
      BY <2>1, <2>2, <2>3 DEF Types
  <1>2. CASE Commit
    <2>1. held.op \in Actions /\ held.id \in Ids
      BY <1>2 DEF Commit, HeldFresh
    <2>2. Admitted \in Payload
      BY <2>1, AdmittedIs
    <2>3. /\ status' \in Payload
          /\ receipts' \in [Ids -> Receipt \cup {None}]
          /\ answers' \in [Ids -> SUBSET Payload]
          /\ held' \in [op : Actions \cup {"free", "mark"}, id : Ids \cup {None},
                         mode : Modes \cup {None}]
      BY <1>2, <2>1, <2>2 DEF Commit, Types, Receipt, Free, Payload
    <2> QED
      BY <1>2, <2>3 DEF Commit, Types, gate
  <1>3. ASSUME NEW c \in Ids, Redeliver(c)
        PROVE  Types'
    <2>1. receipts[c].reply \in Payload
      BY <1>3 DEF Redeliver, Types, Receipt
    <2> QED
      BY <1>3, <2>1 DEF Redeliver, Types, gate
  <1>4. ASSUME NEW c \in Ids, WaiterStep(c)
        PROVE  Types'
    <2>1. PICK pc \in WaiterStates, at \in Nat : Settle(c, pc, at)
      <3>1. CASE WaitForBoundary(c) \/ BoundaryRefused(c)
        BY <3>1 DEF WaitForBoundary, BoundaryRefused, WaiterStates
      <3>2. CASE BoundaryReached(c)
        <4>1. pauseEpochs[c] \in Nat /\ pauseEpochs[c] # 0
          BY <3>2 DEF BoundaryReached, AtBoundary, Told, Types
        <4>2. blockedTick - 1 \in Nat
          BY <3>2, <4>1 DEF BoundaryReached, BoundaryHeld, Types
        <4> QED
          BY <3>2, <4>2 DEF BoundaryReached, WaiterStates
      <3> QED
        BY <1>4, <3>1, <3>2 DEF WaiterStep
    <2> QED
      BY <2>1 DEF Settle, Types, owner, gate
  <1>5. ASSUME NEW w \in Workers, Run(w)
        PROVE  Types'
    BY <1>5 DEF Run, Types, Worker, WorkerStates, gate, Payload
  <1>6. ASSUME NEW w \in Workers, WorkerStep(w) \/ WorkerRaises(w)
        PROVE  Types'
    <2>1. worker' \in [Workers -> Worker] /\ WaitersStand
      BY <1>6, WorkerMoves DEF WorkerTo, WorkerStep
    <2>2. worker[w].tick + 1 \in Nat /\ worker[w].match \in Nat
      BY DEF Types, Worker
    <2>3. CASE Block(w)
      BY <2>1, <2>2, <2>3 DEF Block, Types, WaitersStand, owner
    <2>4. CASE Pass(w) \/ Halt(w) \/ TickContinues(w) \/ MarkDeclined(w) \/ WorkerReturns(w)
            \/ WorkerRaises(w)
      BY <2>1, <2>4 DEF Pass, Halt, TickContinues, MarkDeclined, WorkerReturns, WorkerRaises,
         Types, WaitersStand, owner, gate
    <2>5. CASE PublishEnded(w)
      BY <2>1, <2>2, <2>5 DEF PublishEnded, Types, WaitersStand, owner, gate
    <2>6. CASE MarkCommits(w)
      BY <2>1, <2>6, MarkedIs DEF MarkCommits, Types, WaitersStand, gate
    <2>7. CASE MarkStopsGate(w)
      BY <2>1, <2>7 DEF MarkStopsGate, GateStop, Types, WaitersStand, Free
    <2>8. CASE FailStopsGate(w)
      BY <2>1, <2>8 DEF FailStopsGate, GateStop, Types, WaitersStand, owner
    <2>9. CASE FailCommits(w)
      BY <2>1, <2>9, FailedIs DEF FailCommits, Types, WaitersStand, gate
    <2> QED
      BY <1>6, <2>3, <2>4, <2>5, <2>6, <2>7, <2>8, <2>9 DEF WorkerStep
  <1>7. CASE UNCHANGED runtimeVars
    BY <1>7 DEF runtimeVars, owner, gate, Types
  <1> QED
    BY <1>1, <1>2, <1>3, <1>4, <1>5, <1>6, <1>7 DEF RuntimeNext, Dispatch
-----------------------------------------------------------------------------
(* The lock and the gate.                                                    *)

\* Steps that leave the lock, the status and the gate as they are.
Aside ==
  /\ UNCHANGED <<status, held, workerStarted, pauseEpochs, open, stopped, epoch>>
  /\ UNCHANGED receipts

LEMMA AsideSteps ==
  ASSUME NEW w \in Workers,
         \/ Block(w) \/ Pass(w) \/ Halt(w) \/ TickContinues(w) \/ PublishEnded(w)
         \/ MarkDeclined(w) \/ WorkerReturns(w) \/ WorkerRaises(w)
  PROVE  Aside
  BY DEF Aside, Block, Pass, Halt, TickContinues, PublishEnded, MarkDeclined, WorkerReturns,
     WorkerRaises, owner, gate

\* Steps that leave the workers as they are too, and what has been published.
LEMMA StillSteps ==
  ASSUME (\E c \in Ids : Redeliver(c) \/ WaiterStep(c)) \/ UNCHANGED runtimeVars
  PROVE  Aside /\ UNCHANGED <<worker, evidence, blockedEpoch, blockedTick>>
  BY DEF Aside, Redeliver, WaiterStep, WaitForBoundary, BoundaryReached, BoundaryRefused, Settle,
     runtimeVars, owner, gate

\* Nobody but its holder disturbs an operation inside the lock.
LEMMA HeldStep ==
  ASSUME IInv, [RuntimeNext]_runtimeVars
  PROVE  HeldFresh' /\ HeldFound' /\ HeldGate'
  <1> USE DEF IInv, HeldFresh, HeldFound, HeldGate
  <1>1. ASSUME NEW c \in Ids, NEW mode \in Modes, BeginStart(c, mode)
        PROVE  HeldFresh' /\ HeldFound' /\ HeldGate'
    BY <1>1 DEF BeginStart, Begin, GateStart, Idle, Actions
  <1>2. ASSUME NEW c \in Ids, BeginPause(c)
        PROVE  HeldFresh' /\ HeldFound' /\ HeldGate'
    BY <1>2 DEF BeginPause, Begin, GatePause, Idle, Actions, Types
  <1>3. ASSUME NEW c \in Ids, BeginResume(c)
        PROVE  HeldFresh' /\ HeldFound' /\ HeldGate'
    BY <1>3 DEF BeginResume, Begin, GateResume, Idle, Actions, Types
  <1>4. ASSUME NEW c \in Ids, BeginStop(c)
        PROVE  HeldFresh' /\ HeldFound' /\ HeldGate'
    BY <1>4 DEF BeginStop, Begin, GateStop, Idle, Actions, Types
  <1>5. CASE Commit
    BY <1>5 DEF Commit, Idle, Free, Actions, gate
  <1>6. ASSUME NEW w \in Workers, Run(w)
        PROVE  HeldFresh' /\ HeldFound' /\ HeldGate'
    BY <1>6 DEF Run, Idle, Free, Actions, gate
  <1>7. ASSUME NEW w \in Workers, MarkCommits(w)
        PROVE  HeldFresh' /\ HeldFound' /\ HeldGate'
    BY <1>7, MarkedIs DEF MarkCommits, Actions, gate
  <1>8. ASSUME NEW w \in Workers, MarkStopsGate(w)
        PROVE  HeldFresh' /\ HeldFound' /\ HeldGate'
    BY <1>8 DEF MarkStopsGate, GateStop, Idle, Free, Actions
  <1>9. ASSUME NEW w \in Workers, FailStopsGate(w)
        PROVE  HeldFresh' /\ HeldFound' /\ HeldGate'
    BY <1>9 DEF FailStopsGate, GateStop, Idle, Free, Actions, owner
  <1>10. ASSUME NEW w \in Workers, FailCommits(w)
        PROVE  HeldFresh' /\ HeldFound' /\ HeldGate'
    BY <1>10 DEF FailCommits, Idle, Free, Actions, gate
  <1>11. ASSUME Aside
         PROVE  HeldFresh' /\ HeldFound' /\ HeldGate'
    BY <1>11 DEF Aside, Idle
  <1> QED
    <2>1. ASSUME NEW w \in Workers, WorkerStep(w) \/ WorkerRaises(w)
          PROVE  HeldFresh' /\ HeldFound' /\ HeldGate'
      BY <2>1, <1>7, <1>8, <1>9, <1>10, <1>11, AsideSteps DEF WorkerStep
    <2>2. ASSUME NEW c \in Ids, Redeliver(c) \/ WaiterStep(c)
          PROVE  HeldFresh' /\ HeldFound' /\ HeldGate'
      BY <2>2, <1>11, StillSteps
    <2>3. CASE UNCHANGED runtimeVars
      BY <2>3, <1>11, StillSteps
    <2> HIDE DEF HeldFresh, HeldFound, HeldGate
    <2> QED
      BY <2>1, <2>2, <2>3, <1>1, <1>2, <1>3, <1>4, <1>5, <1>6 DEF RuntimeNext, Dispatch

\* One worker at a time is inside mark_match_ended().
LEMMA MarkingStep ==
  ASSUME IInv, [RuntimeNext]_runtimeVars
  PROVE  Marking'
  <1> USE DEF IInv, Marking
  <1>1. ASSUME NEW c \in Ids,
               (\E mode \in Modes : BeginStart(c, mode)) \/ BeginPause(c) \/ BeginResume(c)
                 \/ BeginStop(c)
        PROVE  Marking'
    <2>1. Stand /\ Idle
      BY <1>1, DispatchStands, BeginIs
    <2> QED
      BY <2>1 DEF Stand, Same, Idle, Free
  <1>2. CASE Commit
    BY <1>2 DEF Commit, Actions
  <1>3. ASSUME NEW w \in Workers, Run(w)
        PROVE  Marking'
    BY <1>3 DEF Run, Types
  <1>4. ASSUME NEW w \in Workers, MarkCommits(w)
        PROVE  Marking'
    <2>1. WorkerTo(w, "marking") /\ Idle /\ held'.op = "mark"
      BY <1>4, WorkerMoves DEF MarkCommits
    <2> QED
      BY <2>1 DEF WorkerTo, Same, Idle, Free
  <1>5. ASSUME NEW w \in Workers, MarkStopsGate(w)
        PROVE  Marking'
    <2>1. WorkerTo(w, "ended") /\ worker[w].pc = "marking"
      BY <1>5, WorkerMoves DEF MarkStopsGate
    <2> QED
      BY <2>1 DEF WorkerTo, Same
  <1>6. ASSUME NEW w \in Workers, NEW pc \in WorkerStates \ {"marking"}, WorkerTo(w, pc),
               UNCHANGED held
        PROVE  Marking'
    BY <1>6 DEF WorkerTo, Same
  <1>7. ASSUME UNCHANGED <<worker, held>>
        PROVE  Marking'
    BY <1>7
  <1>8. ASSUME NEW w \in Workers, WorkerStep(w) \/ WorkerRaises(w)
        PROVE  Marking'
    <2>1. CASE MarkCommits(w) \/ MarkStopsGate(w)
      BY <2>1, <1>4, <1>5
    <2>2. CASE ~(MarkCommits(w) \/ MarkStopsGate(w))
      <3>1. UNCHANGED held
        BY <1>8, <2>2, AsideSteps DEF WorkerStep, Aside, FailStopsGate, FailCommits, owner
      <3>2. \E pc \in WorkerStates \ {"marking"} : WorkerTo(w, pc)
        BY <1>8, <2>2, WorkerMoves DEF WorkerStep, WorkerStates
      <3> QED
        BY <1>6, <3>1, <3>2
    <2> QED
      BY <2>1, <2>2
  <1> QED
    BY <1>1, <1>2, <1>3, <1>7, <1>8, StillSteps DEF RuntimeNext, Dispatch, Aside
-----------------------------------------------------------------------------
(* Commands.                                                                 *)

\* Steps that admit no command: the revision goes no way but up.
LEMMA Unsettling ==
  ASSUME IInv, UNCHANGED receipts, status'.revision \in Nat,
         status'.revision >= status.revision,
         \A c \in Ids : \/ answers'[c] = answers[c]
                        \/ receipts[c] # None /\ answers'[c] = answers[c] \cup {receipts[c].reply}
  PROVE  Settled' /\ RevisionCAS'
  <1>1. \A c \in Ids : receipts[c] # None => receipts[c].expected \in Nat
    BY DEF IInv, Types, Receipt
  <1>2. status.revision \in Nat
    BY DEF IInv, Types, Payload
  <1> QED
    BY <1>1, <1>2 DEF IInv, Settled, RevisionCAS

LEMMA SettledStep ==
  ASSUME IInv, Types', [RuntimeNext]_runtimeVars
  PROVE  Settled' /\ RevisionCAS'
  <1>1. status.revision \in Nat /\ status'.revision \in Nat
    BY DEF IInv, Types, Payload
  <1>2. CASE Commit
    <2>1. held.op \in Actions /\ held.id \in Ids /\ receipts[held.id] = None
      BY <1>2 DEF Commit, IInv, HeldFresh
    <2>2. Admitted \in Payload /\ Admitted.revision = status.revision + 1
      BY <2>1, AdmittedIs DEF IInv
    <2> DEFINE r == [action |-> held.op, expected |-> status.revision, reply |-> Admitted]
    <2>3. /\ status'.revision = status.revision + 1
          /\ receipts' = [receipts EXCEPT ![held.id] = r]
          /\ answers' = [answers EXCEPT ![held.id] = @ \cup {Admitted}]
      BY <1>2, <2>2 DEF Commit
    <2>4. r # None
      BY <1>1, <2>1, <2>2, NoneAssumption DEF Receipt
    <2>5. /\ receipts'[held.id] = r /\ answers'[held.id] = answers[held.id] \cup {Admitted}
          /\ \A c \in Ids \ {held.id} : receipts'[c] = receipts[c] /\ answers'[c] = answers[c]
      BY <2>1, <2>3 DEF IInv, Types
    <2>6. r.expected = status.revision /\ r.reply = Admitted
      OBVIOUS
    <2> HIDE DEF r
    <2>7. \A c \in Ids : receipts[c] # None => receipts[c].expected \in Nat
      BY DEF IInv, Types, Receipt
    <2>8. Settled'
      BY <1>1, <2>1, <2>3, <2>4, <2>5, <2>6, <2>7 DEF IInv, Settled
    <2>9. RevisionCAS'
      BY <1>1, <2>1, <2>3, <2>4, <2>5, <2>6, <2>7 DEF IInv, Settled, RevisionCAS
    <2> QED
      BY <2>8, <2>9
  <1>3. ASSUME NEW c \in Ids,
               (\E mode \in Modes : BeginStart(c, mode)) \/ BeginPause(c) \/ BeginResume(c)
                 \/ BeginStop(c)
        PROVE  Settled' /\ RevisionCAS'
    BY <1>1, <1>3, BeginIs, Unsettling DEF IInv
  <1>4. ASSUME NEW c \in Ids, Redeliver(c)
        PROVE  Settled' /\ RevisionCAS'
    BY <1>1, <1>4, Unsettling DEF Redeliver, IInv, Types
  <1>5. ASSUME NEW w \in Workers, MarkCommits(w)
        PROVE  Settled' /\ RevisionCAS'
    BY <1>1, <1>5, MarkedIs, Unsettling DEF MarkCommits, IInv
  <1>6. ASSUME NEW w \in Workers, FailCommits(w)
        PROVE  Settled' /\ RevisionCAS'
    BY <1>1, <1>6, FailedIs, Unsettling DEF FailCommits, IInv
  <1>7. ASSUME UNCHANGED <<status, receipts, answers>>
        PROVE  Settled' /\ RevisionCAS'
    <2>1. status'.revision >= status.revision /\ UNCHANGED receipts
      BY <1>1, <1>7
    <2>2. \A c \in Ids : answers'[c] = answers[c]
      BY <1>7
    <2> QED
      BY <1>1, <2>1, <2>2, Unsettling
  <1>8. ASSUME NEW w \in Workers, Run(w) \/ WorkerStep(w) \/ WorkerRaises(w)
        PROVE  Settled' /\ RevisionCAS'
    BY <1>5, <1>6, <1>7, <1>8 DEF Run, WorkerStep, Block, Pass, Halt, TickContinues, PublishEnded,
       MarkStopsGate, MarkDeclined, WorkerReturns, WorkerRaises, FailStopsGate, owner
  <1>9. ASSUME NEW c \in Ids, WaiterStep(c)
        PROVE  Settled' /\ RevisionCAS'
    BY <1>7, <1>9 DEF WaiterStep, WaitForBoundary, BoundaryReached, BoundaryRefused, Settle, owner
  <1> QED
    BY <1>2, <1>3, <1>4, <1>7, <1>8, <1>9 DEF RuntimeNext, Dispatch, runtimeVars, owner
-----------------------------------------------------------------------------
(* Workers and their matches.                                                *)

\* A worker that goes on within its match leaves one worker to each match.
LEMMA OneEachMoves ==
  ASSUME IInv, NEW w \in Workers, worker[w].pc # "new", NEW pc \in WorkerStates, WorkerTo(w, pc),
         status'.index = status.index, UNCHANGED workerStarted,
         held'.op = "start" <=> held.op = "start",
         worker[w].pc # "done", status'.status # "ready"
  PROVE  OneEach'
  BY DEF IInv, OneEach, WorkerTo, Same, Alive

LEMMA OneEachStep ==
  ASSUME IInv, Types', [RuntimeNext]_runtimeVars
  PROVE  OneEach'
  <1> USE DEF IInv
  <1>1. status.index \in Nat /\ \A w \in Workers : worker[w].match \in Nat
    BY DEF Types, Payload, Worker
  <1>2. ASSUME NEW c \in Ids,
               (\E mode \in Modes : BeginStart(c, mode)) \/ BeginPause(c) \/ BeginResume(c)
                 \/ BeginStop(c)
        PROVE  OneEach'
    <2>1. Stand /\ Idle /\ UNCHANGED status
      BY <1>2, DispatchStands, BeginIs
    <2>2. (workerStarted \/ held.op = "start") => (workerStarted' \/ held'.op = "start")
      <3>1. CASE \E mode \in Modes : BeginStart(c, mode)
        BY <3>1 DEF BeginStart, Begin
      <3>2. CASE BeginPause(c) \/ BeginResume(c) \/ BeginStop(c)
        BY <2>1, <3>2 DEF BeginPause, BeginResume, BeginStop, Idle, Free
      <3> QED
        BY <1>2, <3>1, <3>2
    <2> QED
      BY <2>1, <2>2 DEF Stand, Same, OneEach, Alive
  <1>3. CASE Commit
    <2>1. held.op \in Actions /\ UNCHANGED <<worker, workerStarted>> /\ status' = Admitted
      BY <1>3 DEF Commit
    <2>2. CASE held.op = "start" /\ status.status = "ended"
      <3>1. status'.index = status.index + 1 /\ status'.status = "running"
        BY <2>1, <2>2, AdmittedIs
      <3> QED
        BY <1>1, <2>1, <3>1 DEF OneEach, Alive
    <2>3. CASE held.op = "start" /\ status.status # "ended"
      <3>1. status'.status = "running" /\ \A w \in Workers : ~Alive(w)
        BY <2>1, <2>3, AdmittedIs DEF OneEach, HeldFound
      <3> QED
        BY <2>1, <3>1 DEF OneEach, Alive
    <2>4. CASE held.op # "start"
      <3>1. status'.status # "ready" /\ status'.index = status.index
        BY <2>1, <2>4, AdmittedIs DEF HeldFound, Actions
      <3> QED
        BY <2>1, <2>4, <3>1 DEF OneEach, Alive
    <2> QED
      BY <2>2, <2>3, <2>4
  <1>4. ASSUME NEW w \in Workers, Run(w)
        PROVE  OneEach'
    <2>1. /\ workerStarted' /\ ~workerStarted /\ Idle
          /\ status.status = "running" /\ UNCHANGED status
          /\ worker'[w].match = status.index
          /\ \A v \in Workers \ {w} : worker'[v] = worker[v]
      BY <1>4 DEF Run, Types
    <2>2. \A v \in Workers : Alive(v) => worker[v].match < status.index
      BY <1>1, <2>1 DEF OneEach, Idle, Free
    <2> QED
      BY <1>1, <2>1, <2>2 DEF OneEach, Alive
  <1>5. ASSUME NEW w \in Workers, WorkerStep(w) \/ WorkerRaises(w)
        PROVE  OneEach'
    <2>1. Alive(w)
      BY <1>5 DEF WorkerStep, Block, Pass, Halt, AtCheckpoint, TickContinues, PublishEnded,
         MarkCommits, MarkStopsGate, MarkDeclined, WorkerReturns, WorkerRaises, FailStopsGate,
         FailCommits, Alive
    <2>2. status.status # "ready"
      BY <2>1 DEF OneEach
    <2>3. PICK pc \in WorkerStates : WorkerTo(w, pc)
      BY <1>5, WorkerMoves DEF WorkerStep, WorkerStates
    <2>4. CASE MarkCommits(w)
      BY <2>1, <2>3, <2>4, MarkedIs, OneEachMoves DEF MarkCommits, Idle, Free, Alive
    <2>5. CASE MarkStopsGate(w)
      <3>1. held.op = "mark"
        BY <2>5 DEF MarkStopsGate, Marking
      <3> QED
        BY <2>1, <2>2, <2>3, <2>5, <3>1, OneEachMoves DEF MarkStopsGate, Free, Alive
    <2>6. CASE FailCommits(w)
      BY <2>1, <2>2, <2>3, <2>6, FailedIs, OneEachMoves DEF FailCommits, Alive
    <2>7. CASE FailStopsGate(w)
      BY <2>1, <2>2, <2>3, <2>7, OneEachMoves DEF FailStopsGate, owner, Alive
    <2>8. CASE Aside
      BY <2>1, <2>2, <2>3, <2>8, OneEachMoves DEF Aside, Alive
    <2> QED
      BY <1>5, <2>4, <2>5, <2>6, <2>7, <2>8, AsideSteps DEF WorkerStep
  <1>6. ASSUME UNCHANGED <<worker, held, status, workerStarted>>
        PROVE  OneEach'
    BY <1>6 DEF OneEach, Alive
  <1> QED
    BY <1>2, <1>3, <1>4, <1>5, <1>6, StillSteps DEF RuntimeNext, Dispatch, Aside

\* A worker that has yet to publish the end is the present match's.
LEMMA EarlyIsPresent ==
  ASSUME IInv, NEW w \in Workers, worker[w].pc \in Early
  PROVE  worker[w].match = status.index /\ worker[w].match \notin evidence
  <1>1. status.index \in Nat /\ worker[w].match \in Nat
    BY DEF IInv, Types, Payload, Worker
  <1>2. Alive(w)
    BY DEF Alive, Early
  <1> QED
    BY <1>1, <1>2 DEF IInv, OneEach, Announced, Finished

\* Nothing is published and no command is admitted: matches end as they did.
LEMMA AnnouncedStays ==
  ASSUME IInv, UNCHANGED evidence, status'.index = status.index, UNCHANGED workerStarted,
         \A w \in Workers : worker'[w].pc \in Early =>
            worker[w].pc \in Early /\ worker'[w].match = worker[w].match,
         \/ status'.status = status.status \/ status'.status = "failed"
         \/ status'.status = "ended" /\ status.index \in evidence
  PROVE  Announced' /\ Finished'
  BY DEF IInv, Announced, Finished

LEMMA AnnouncedStep ==
  ASSUME IInv, Types', [RuntimeNext]_runtimeVars
  PROVE  Announced' /\ Finished'
  <1> USE DEF IInv
  <1>1. status.index \in Nat /\ evidence \in SUBSET Nat
    BY DEF Types, Payload
  <1>2. ASSUME NEW c \in Ids,
               (\E mode \in Modes : BeginStart(c, mode)) \/ BeginPause(c) \/ BeginResume(c)
                 \/ BeginStop(c)
        PROVE  Announced' /\ Finished'
    <2>1. Stand /\ UNCHANGED <<status, evidence>>
      BY <1>2, DispatchStands, BeginIs
    <2>2. UNCHANGED workerStarted \/ status.status \in {"ready", "ended"}
      BY <1>2 DEF BeginStart, BeginPause, BeginResume, BeginStop
    <2> QED
      BY <2>1, <2>2 DEF Stand, Same, Announced, Finished
  <1>3. CASE Commit
    <2>1. held.op \in Actions /\ UNCHANGED <<worker, workerStarted, evidence>> /\ status' = Admitted
      BY <1>3 DEF Commit
    <2>2. CASE held.op = "start" /\ status.status = "ended"
      <3>1. status'.index = status.index + 1 /\ status'.status = "running"
        BY <2>1, <2>2, AdmittedIs
      <3>2. \A i \in Nat : i < status.index + 1 => i < status.index \/ i = status.index
        BY <1>1
      <3> QED
        BY <1>1, <2>1, <2>2, <3>1, <3>2 DEF Announced, Finished
    <2>3. CASE held.op = "start" /\ status.status # "ended"
      <3>1. status'.status = "running" /\ status'.index = status.index /\ evidence = {}
        BY <2>1, <2>3, AdmittedIs DEF Announced, HeldFound
      <3> QED
        BY <2>1, <3>1 DEF Announced, Finished
    <2>4. CASE held.op # "start"
      <3>1. /\ status'.index = status.index
            /\ status.status \in {"running", "paused"} /\ status'.status \in {"running", "paused"}
        BY <2>1, <2>4, AdmittedIs DEF HeldFound, Actions
      <3> QED
        BY <2>1, <3>1 DEF Announced, Finished
    <2> QED
      BY <2>2, <2>3, <2>4
  <1>4. ASSUME NEW w \in Workers, Run(w)
        PROVE  Announced' /\ Finished'
    BY <1>4 DEF Run, Types, Announced, Finished
  <1>5. ASSUME NEW w \in Workers, PublishEnded(w)
        PROVE  Announced' /\ Finished'
    <2>1. Alive(w) /\ worker[w].pc \in Early
      BY <1>5 DEF PublishEnded, Alive, Early
    <2>2. worker[w].match = status.index /\ status.status # "ready"
      BY <2>1, EarlyIsPresent DEF OneEach
    <2>3. WorkerTo(w, "announcing")
      BY <1>5, WorkerMoves
    <2>4. /\ evidence' = evidence \cup {status.index}
          /\ UNCHANGED <<status, workerStarted, held>>
      BY <1>5, <2>2 DEF PublishEnded, owner
    <2>5. \A v \in Workers : worker'[v].pc \in Early => worker'[v].match \notin evidence'
      BY <2>1, <2>2, <2>3, <2>4 DEF OneEach, Announced, WorkerTo, Same, Alive, Early
    <2>6. status.status \in {"running", "paused"} => workerStarted
      BY <2>1, <2>2 DEF OneEach, HeldFound
    <2> QED
      BY <1>1, <2>2, <2>4, <2>5, <2>6 DEF Announced, Finished
  <1>6. ASSUME NEW w \in Workers, WorkerStep(w) \/ WorkerRaises(w), ~PublishEnded(w)
        PROVE  Announced' /\ Finished'
    <2>1. PICK pc \in WorkerStates : WorkerTo(w, pc) /\ (pc \in Early => worker[w].pc \in Early)
      BY <1>6, WorkerMoves DEF WorkerStep, WorkerStates, Early, Block, Pass, Halt, AtCheckpoint,
         TickContinues
    <2>2. \A v \in Workers : worker'[v].pc \in Early =>
            worker[v].pc \in Early /\ worker'[v].match = worker[v].match
      BY <2>1 DEF WorkerTo, Same
    <2>3. /\ UNCHANGED <<evidence, workerStarted>>
          /\ status'.index = status.index
          /\ \/ status'.status = status.status \/ status'.status = "failed"
             \/ status'.status = "ended" /\ status.index \in evidence
      <3>1. CASE MarkCommits(w)
        BY <3>1, MarkedIs DEF MarkCommits
      <3>2. CASE FailCommits(w)
        BY <3>2, FailedIs DEF FailCommits
      <3>3. CASE ~MarkCommits(w) /\ ~FailCommits(w)
        BY <1>6, <3>3 DEF WorkerStep, Block, Pass, Halt, TickContinues, MarkStopsGate,
           MarkDeclined, WorkerReturns, WorkerRaises, FailStopsGate, owner
      <3> QED
        BY <3>1, <3>2, <3>3
    <2> QED
      BY <2>2, <2>3, AnnouncedStays
  <1>7. ASSUME UNCHANGED <<worker, status, workerStarted, evidence>>
        PROVE  Announced' /\ Finished'
    BY <1>7, AnnouncedStays
  <1> QED
    BY <1>2, <1>3, <1>4, <1>5, <1>6, <1>7, StillSteps DEF RuntimeNext, Dispatch, Aside
-----------------------------------------------------------------------------
(* Pauses and their boundaries.                                              *)

\* The gate and the blocked workers stand: so does the recorded boundary.
LEMMA BoundaryStays ==
  ASSUME IInv, UNCHANGED <<epoch, pauseEpochs, blockedEpoch, blockedTick, open, stopped>>,
         status'.index = status.index,
         \A w \in Workers : worker[w].pc = "blocked" => Same(w)
  PROVE  BoundaryHeld'
  BY DEF IInv, BoundaryHeld, Same

LEMMA BoundaryStep ==
  ASSUME IInv, Types', [RuntimeNext]_runtimeVars
  PROVE  BoundaryHeld'
  <1> USE DEF IInv
  <1>1. epoch \in Nat /\ blockedEpoch \in Nat /\ \A c \in Ids : pauseEpochs[c] \in Nat
    BY DEF Types
  <1>2. ASSUME NEW c \in Ids, NEW mode \in Modes, BeginStart(c, mode)
        PROVE  BoundaryHeld'
    BY <1>2 DEF BeginStart, GateStart, BoundaryHeld
  <1>3. ASSUME NEW c \in Ids, BeginPause(c)
        PROVE  BoundaryHeld'
    BY <1>1, <1>3 DEF BeginPause, GatePause, BoundaryHeld, Types
  <1>4. ASSUME NEW c \in Ids, BeginResume(c)
        PROVE  BoundaryHeld'
    BY <1>4 DEF BeginResume, GateResume, BoundaryHeld
  <1>5. ASSUME NEW c \in Ids, BeginStop(c)
        PROVE  BoundaryHeld'
    BY <1>5 DEF BeginStop, GateStop, BoundaryHeld
  <1>6. CASE Commit
    <2>1. /\ held.op \in Actions /\ status' = Admitted /\ UNCHANGED worker
          /\ UNCHANGED <<epoch, pauseEpochs, blockedEpoch, blockedTick, open, stopped>>
      BY <1>6 DEF Commit, gate
    <2>2. CASE held.op = "start"
      BY <2>1, <2>2 DEF HeldGate, BoundaryHeld
    <2>3. CASE held.op # "start"
      BY <2>1, <2>3, AdmittedIs, BoundaryStays DEF Same
    <2> QED
      BY <2>2, <2>3
  <1>7. ASSUME NEW w \in Workers, Run(w)
        PROVE  BoundaryHeld'
    BY <1>7, BoundaryStays DEF Run, gate, Same, Types
  <1>8. ASSUME NEW w \in Workers, Block(w)
        PROVE  BoundaryHeld'
    <2>1. /\ blockedEpoch' = epoch /\ blockedTick' = worker[w].tick + 1
          /\ UNCHANGED <<epoch, pauseEpochs, open, stopped, status>>
      BY <1>8 DEF Block, owner
    <2>2. worker[w].match = status.index
      BY <1>8, EarlyIsPresent DEF Block, AtCheckpoint, Early
    <2>3. worker'[w].pc = "blocked" /\ WorkerTo(w, "blocked") /\ worker'[w].tick = worker[w].tick
      BY <1>8, WorkerMoves DEF WorkerTo
    <2>4. worker[w].tick \in Nat
      BY DEF Types, Worker
    <2> QED
      BY <1>1, <2>1, <2>2, <2>3, <2>4 DEF BoundaryHeld, WorkerTo
  <1>9. ASSUME NEW w \in Workers, Pass(w) \/ Halt(w)
        PROVE  BoundaryHeld'
    BY <1>9 DEF Pass, Halt, owner, gate, BoundaryHeld
  <1>10. ASSUME NEW w \in Workers, MarkStopsGate(w) \/ FailStopsGate(w)
         PROVE  BoundaryHeld'
    BY <1>10 DEF MarkStopsGate, FailStopsGate, GateStop, owner, BoundaryHeld
  <1>11. ASSUME NEW w \in Workers, worker[w].pc # "blocked", NEW pc \in WorkerStates, WorkerTo(w, pc),
                UNCHANGED <<pauseEpochs, gate>>, status'.index = status.index
         PROVE  BoundaryHeld'
    BY <1>11, BoundaryStays DEF WorkerTo, gate
  <1>12. ASSUME NEW w \in Workers, WorkerStep(w) \/ WorkerRaises(w)
         PROVE  BoundaryHeld'
    <2>1. PICK pc \in WorkerStates : WorkerTo(w, pc)
      BY <1>12, WorkerMoves DEF WorkerStep, WorkerStates
    <2>2. CASE MarkCommits(w)
      BY <2>1, <2>2, <1>11, MarkedIs DEF MarkCommits
    <2>3. CASE FailCommits(w)
      BY <2>1, <2>3, <1>11, FailedIs DEF FailCommits
    <2>4. CASE TickContinues(w) \/ PublishEnded(w) \/ MarkDeclined(w) \/ WorkerReturns(w)
                 \/ WorkerRaises(w)
      BY <2>1, <2>4, <1>11 DEF TickContinues, PublishEnded, MarkDeclined, WorkerReturns,
         WorkerRaises, owner
    <2> QED
      BY <1>12, <1>8, <1>9, <1>10, <2>2, <2>3, <2>4 DEF WorkerStep
  <1>13. ASSUME Aside, UNCHANGED <<worker, evidence, blockedEpoch, blockedTick>>
         PROVE  BoundaryHeld'
    BY <1>13, BoundaryStays DEF Aside, Same
  <1> QED
    BY <1>2, <1>3, <1>4, <1>5, <1>6, <1>7, <1>12, <1>13, StillSteps DEF RuntimeNext, Dispatch

\* Whoever was told a boundary of a pause in force is told the same by the next
\* worker to record one: it is the same worker.
LEMMA ToldStep ==
  ASSUME IInv, Types', [RuntimeNext]_runtimeVars
  PROVE  Told'
  <1> USE DEF IInv
  <1>0. held.op = "free" => held = Free /\ held.id = None
    BY DEF HeldFound, Idle, Free
  <1>1. ASSUME NEW c \in Ids, NEW mode \in Modes, BeginStart(c, mode)
        PROVE  Told'
    <2>1. WaitersStand /\ Idle
      BY <1>1, DispatchStands, BeginIs
    <2> QED
      BY <1>1, <2>1, RuntimeAssumption
         DEF BeginStart, Begin, GateStart, Told, WaitersStand, Idle, Free
  <1>2. ASSUME NEW c \in Ids, BeginPause(c)
        PROVE  Told'
    <2>1. WaitersStand /\ Idle /\ receipts[c] = None
      BY <1>2, DispatchStands, BeginIs
    <2>2. /\ pauseEpochs' = [pauseEpochs EXCEPT ![c] = epoch + 1] /\ epoch' = epoch + 1
          /\ UNCHANGED <<status, receipts, blockedEpoch, blockedTick>> /\ held'.id = c
          /\ status.status = "running"
      BY <1>2 DEF BeginPause, Begin, GatePause
    <2>3. waiter[c].pc = "none"
      BY <2>1, RuntimeAssumption DEF Told, Idle, Free
    <2>4. epoch \in Nat /\ \A d \in Ids : pauseEpochs[d] \in Nat /\ pauseEpochs[d] <= epoch
      BY DEF Types, BoundaryHeld
    <2>5. /\ pauseEpochs'[c] = epoch + 1
          /\ \A d \in Ids \ {c} : pauseEpochs'[d] = pauseEpochs[d]
      BY <2>2 DEF Types
    <2>6. \A d \in Ids : pauseEpochs[d] # 0 => receipts[d] # None
      BY <2>1, RuntimeAssumption DEF Told, Idle, Free
    <2>7. \A d \in Ids \ {c} : pauseEpochs'[d] # epoch'
      BY <2>2, <2>4, <2>5
    <2> QED
      BY <2>1, <2>2, <2>3, <2>4, <2>5, <2>6, <2>7 DEF Told, WaitersStand
  <1>3. ASSUME NEW c \in Ids, BeginResume(c)
        PROVE  Told'
    <2>1. WaitersStand /\ Idle
      BY <1>3, DispatchStands, BeginIs
    <2> QED
      BY <1>3, <2>1, RuntimeAssumption
         DEF BeginResume, Begin, GateResume, Told, WaitersStand, Idle, Free
  <1>4. ASSUME NEW c \in Ids, BeginStop(c)
        PROVE  Told'
    <2>1. WaitersStand /\ Idle
      BY <1>4, DispatchStands, BeginIs
    <2> QED
      BY <1>4, <2>1, RuntimeAssumption
         DEF BeginStop, Begin, GateStop, Told, WaitersStand, Idle, Free
  <1>5. CASE Commit
    <2>1. /\ held.op \in Actions /\ held.id \in Ids /\ status' = Admitted
          /\ UNCHANGED <<pauseEpochs, gate, waiter>>
          /\ held' = Free
      BY <1>5 DEF Commit, HeldFresh
    <2>2. \A c \in Ids : receipts[c] # None \/ held.id = c => receipts'[c] # None
      <3>1. Admitted \in Payload /\ status.revision \in Nat
        BY <2>1, AdmittedIs DEF Types, Payload
      <3>2. [action |-> held.op, expected |-> status.revision, reply |-> Admitted] # None
        BY <2>1, <3>1, NoneAssumption DEF Receipt
      <3> QED
        BY <1>5, <3>2 DEF Commit, Types
    <2>3. CASE held.op \in {"start", "resume"}
      <3>1. status'.status = "running"
        BY <2>1, <2>3, AdmittedIs
      <3> QED
        BY <2>1, <2>2, <3>1, UnchangedWaiters DEF Told, gate
    <2>4. CASE held.op = "pause"
      <3>1. status'.status = "paused" /\ status'.last = held.id
        BY <2>1, <2>4, AdmittedIs
      <3> QED
        BY <2>1, <2>2, <2>4, <3>1 DEF Told, gate, HeldFound, HeldGate
    <2>5. CASE held.op = "stop"
      <3>1. status'.status = status.status
        BY <2>1, <2>5, AdmittedIs
      <3> QED
        BY <2>1, <2>2, <2>5, <3>1 DEF Told, gate, HeldGate
    <2> QED
      BY <2>1, <2>3, <2>4, <2>5 DEF Actions
  <1>6. ASSUME NEW c \in Ids, WaiterStep(c)
        PROVE  Told'
    <2>1. UNCHANGED <<owner, gate>> /\ pauseEpochs[c] # 0
      BY <1>6 DEF WaiterStep, WaitForBoundary, BoundaryReached, BoundaryRefused, AtBoundary,
         Settle, Told
    <2>2. \A d \in Ids \ {c} : waiter'[d] = waiter[d]
      BY <1>6 DEF WaiterStep, WaitForBoundary, BoundaryReached, BoundaryRefused, Settle, Types
    <2>3. waiter'[c].pc = "released" =>
            blockedEpoch >= pauseEpochs[c] /\ waiter'[c].tick = blockedTick - 1
      BY <1>6 DEF WaiterStep, WaitForBoundary, BoundaryReached, BoundaryRefused, Settle, Types
    <2>4. waiter'[c].pc = "released" => blockedTick \in Nat \ {0}
      BY <2>1, <2>3 DEF BoundaryHeld, Types
    <2>5. waiter'[c].pc = "released" => blockedTick = waiter'[c].tick + 1
      BY <2>3, <2>4
    <2> QED
      BY <2>1, <2>2, <2>3, <2>5 DEF Told, owner, gate
  <1>7. ASSUME NEW w \in Workers, Block(w)
        PROVE  Told'
    <2>1. /\ blockedEpoch' = epoch /\ blockedTick' = worker[w].tick + 1
          /\ ~open /\ ~stopped
          /\ UNCHANGED <<owner, epoch, open, stopped>> /\ WaitersStand
      BY <1>7, WorkerMoves DEF Block
    <2>2. worker[w].match = status.index /\ Alive(w)
      BY <1>7, EarlyIsPresent DEF Block, AtCheckpoint, Early, Alive
    <2>3. blockedEpoch = epoch => blockedTick' = blockedTick
      BY <2>1, <2>2 DEF BoundaryHeld, OneEach, Alive
    <2>4. /\ blockedEpoch <= epoch /\ epoch \in Nat /\ blockedEpoch \in Nat
          /\ \A c \in Ids : pauseEpochs[c] <= epoch /\ pauseEpochs[c] \in Nat
      BY DEF BoundaryHeld, Types
    <2>5. \A c \in Ids : waiter[c].pc = "released" =>
            /\ epoch >= pauseEpochs[c]
            /\ pauseEpochs[c] = epoch => blockedTick' = waiter[c].tick + 1
      BY <2>1, <2>3, <2>4 DEF Told
    <2> QED
      BY <2>1, <2>5 DEF Told, WaitersStand, owner
  <1>8. ASSUME NEW w \in Workers, MarkCommits(w)
        PROVE  Told'
    <2>1. WaitersStand /\ status'.status = "ended" /\ Idle /\ UNCHANGED <<receipts, pauseEpochs, gate>>
      BY <1>8, MarkedIs, WorkerMoves DEF MarkCommits
    <2>2. \A c \in Ids : held.id # c
      BY <2>1, RuntimeAssumption DEF Idle, Free
    <2> QED
      BY <2>1, <2>2 DEF Told, WaitersStand, gate
  <1>9. ASSUME NEW w \in Workers, MarkStopsGate(w)
        PROVE  Told'
    <2>1. /\ WaitersStand /\ stopped' /\ ~open' /\ held.op = "mark" /\ status.status = "ended"
          /\ UNCHANGED <<status, receipts, pauseEpochs, epoch, blockedEpoch, blockedTick>>
      BY <1>9, WorkerMoves DEF MarkStopsGate, GateStop, Marking, HeldFound
    <2>2. \A c \in Ids : held.id # c
      BY <2>1, RuntimeAssumption DEF HeldFresh, Actions
    <2> QED
      BY <2>1, <2>2 DEF Told, WaitersStand
  <1>10. ASSUME NEW w \in Workers, FailStopsGate(w)
         PROVE  Told'
    <2>1. /\ WaitersStand /\ stopped' /\ ~open'
          /\ UNCHANGED <<owner, epoch, blockedEpoch, blockedTick>>
      BY <1>10, WorkerMoves DEF FailStopsGate, GateStop
    <2> QED
      BY <2>1 DEF Told, WaitersStand, owner
  <1>11. ASSUME NEW w \in Workers, FailCommits(w)
         PROVE  Told'
    <2>1. /\ WaitersStand /\ UNCHANGED <<receipts, pauseEpochs, held, gate>>
          /\ status' = status \/ status'.status = "failed"
      BY <1>11, FailedIs, WorkerMoves DEF FailCommits
    <2> QED
      BY <2>1 DEF Told, WaitersStand, gate
  <1>12. ASSUME WaitersStand, Aside, UNCHANGED <<blockedEpoch, blockedTick>>
         PROVE  Told'
    BY <1>12 DEF Told, WaitersStand, Aside
  <1>13. ASSUME NEW w \in Workers, Run(w)
         PROVE  Told'
    BY <1>13 DEF Run, Told, gate
  <1>14. ASSUME NEW w \in Workers,
                \/ Pass(w) \/ Halt(w) \/ TickContinues(w) \/ PublishEnded(w)
                \/ MarkDeclined(w) \/ WorkerReturns(w) \/ WorkerRaises(w)
         PROVE  Told'
    <2>1. WaitersStand
      BY <1>14, WorkerMoves
    <2>2. Aside
      BY <1>14, AsideSteps
    <2>3. UNCHANGED <<blockedEpoch, blockedTick>>
      BY <1>14 DEF Pass, Halt, TickContinues, PublishEnded, MarkDeclined, WorkerReturns,
         WorkerRaises, gate
    <2> QED
      BY <2>1, <2>2, <2>3, <1>12
  <1>15. ASSUME (\E c \in Ids : Redeliver(c)) \/ UNCHANGED runtimeVars
         PROVE  Told'
    <2>1. UNCHANGED waiter
      BY <1>15 DEF Redeliver, runtimeVars
    <2> QED
      BY <1>15, <2>1, <1>12, StillSteps, UnchangedWaiters
  <1> QED
    BY <1>1, <1>2, <1>3, <1>4, <1>5, <1>6, <1>7, <1>8, <1>9, <1>10, <1>11, <1>13, <1>14, <1>15
       DEF RuntimeNext, Dispatch, WorkerStep
-----------------------------------------------------------------------------
(* The first match and its end.                                              *)

\* The pcs of a worker that has published MATCH_ENDED and gone on, or raised.
Late == {"marking", "ended", "raised", "failing"}

\* A worker of the first match goes on: it is the only one alive.
LEMMA Alone ==
  ASSUME IInv, status.index = 0, NEW v \in Workers, NEW w \in Workers, Alive(v), Alive(w)
  PROVE  v = w
  <1>1. worker[v].match \in Nat /\ worker[w].match \in Nat
    BY DEF IInv, Types, Worker
  <1> QED
    BY <1>1 DEF IInv, OneEach

LEMMA FirstStep ==
  ASSUME IInv, Types', [RuntimeNext]_runtimeVars
  PROVE  FirstEnds' /\ FailedHasNoTerminal'
  <1> USE DEF IInv
  <1>1. status.index \in Nat
    BY DEF Types, Payload
  <1>2. ASSUME NEW c \in Ids,
               (\E mode \in Modes : BeginStart(c, mode)) \/ BeginPause(c) \/ BeginResume(c)
                 \/ BeginStop(c)
        PROVE  FirstEnds' /\ FailedHasNoTerminal'
    <2>1. Stand /\ UNCHANGED <<status, evidence>>
      BY <1>2, DispatchStands, BeginIs
    <2> QED
      BY <2>1 DEF Stand, Same, FirstEnds, FailedHasNoTerminal, Alive
  <1>3. CASE Commit
    <2>1. held.op \in Actions /\ UNCHANGED <<worker, evidence>> /\ status' = Admitted
      BY <1>3 DEF Commit
    <2>2. CASE held.op = "start" /\ status.status = "ended"
      <3>1. status'.index # 0
        BY <1>1, <2>1, <2>2, AdmittedIs
      <3> QED
        BY <3>1 DEF FirstEnds, FailedHasNoTerminal
    <2>3. CASE held.op = "start" /\ status.status # "ended"
      <3>1. status'.status = "running" /\ \A w \in Workers : ~Alive(w)
        BY <2>1, <2>3, AdmittedIs DEF OneEach, HeldFound
      <3> QED
        BY <2>1, <3>1 DEF FirstEnds, FailedHasNoTerminal, Alive
    <2>4. CASE held.op # "start"
      <3>1. /\ status'.index = status.index
            /\ status.status \in {"running", "paused"} /\ status'.status \in {"running", "paused"}
        BY <2>1, <2>4, AdmittedIs DEF HeldFound, Actions
      <3> QED
        BY <2>1, <3>1 DEF FirstEnds, FailedHasNoTerminal
    <2> QED
      BY <2>2, <2>3, <2>4
  <1>4. ASSUME NEW w \in Workers, Run(w)
        PROVE  FirstEnds' /\ FailedHasNoTerminal'
    BY <1>4 DEF Run, Types, FirstEnds, FailedHasNoTerminal
  <1>5. ASSUME NEW w \in Workers, WorkerStep(w) \/ WorkerRaises(w)
        PROVE  FirstEnds' /\ FailedHasNoTerminal'
    <2>1. Alive(w)
      BY <1>5 DEF WorkerStep, Block, Pass, Halt, AtCheckpoint, TickContinues, PublishEnded,
         MarkCommits, MarkStopsGate, MarkDeclined, WorkerReturns, WorkerRaises, FailStopsGate,
         FailCommits, Alive
    <2>2. PICK pc \in WorkerStates : WorkerTo(w, pc)
      BY <1>5, WorkerMoves DEF WorkerStep, WorkerStates
    <2>3. status'.index = status.index
      BY <1>5, MarkedIs, FailedIs DEF WorkerStep, Block, Pass, Halt, TickContinues, PublishEnded,
         MarkStopsGate, MarkDeclined, WorkerReturns, WorkerRaises, FailStopsGate, owner
    <2> SUFFICES ASSUME status.index = 0
                 PROVE  FirstEnds' /\ FailedHasNoTerminal'
      BY <2>3 DEF FirstEnds, FailedHasNoTerminal
    <2>4. status.status \notin {"ready", "failed"}
      BY <2>1 DEF OneEach, FirstEnds
    <2>5. \A v \in Workers \ {w} : ~Alive(v) /\ worker'[v].pc = worker[v].pc
      BY <2>1, <2>2, Alone DEF WorkerTo, Same
    <2>6. (worker[w].pc \in Late /\ 0 \in evidence) => status.status = "ended"
      BY DEF FirstEnds, Late
    <2>7. ASSUME /\ worker'[w].pc \in Late /\ 0 \in evidence' => status'.status = "ended"
                 /\ status'.status = "failed" => worker'[w].pc = "done" /\ 0 \notin evidence'
          PROVE  FirstEnds' /\ FailedHasNoTerminal'
      <3>1. \A v \in Workers \ {w} : worker'[v].pc \in {"new", "done"}
        BY <2>5 DEF Alive
      <3> QED
        BY <2>3, <2>7, <3>1 DEF FirstEnds, FailedHasNoTerminal, Alive, Late
    <2>8. CASE Block(w) \/ Pass(w) \/ Halt(w) \/ TickContinues(w) \/ PublishEnded(w)
                 \/ WorkerReturns(w)
      <3>1. worker'[w].pc \notin Late /\ UNCHANGED status
        BY <2>8, WorkerMoves DEF WorkerTo, Late, Block, Pass, Halt, TickContinues, PublishEnded,
           WorkerReturns, owner
      <3> QED
        BY <2>4, <2>7, <3>1
    <2>9. CASE MarkCommits(w)
      BY <2>7, <2>9, MarkedIs
    <2>10. CASE MarkStopsGate(w) \/ FailStopsGate(w)
      <3>1. worker[w].pc \in Late /\ UNCHANGED <<status, evidence>>
        BY <2>10 DEF MarkStopsGate, FailStopsGate, owner, Late
      <3> QED
        BY <2>4, <2>6, <2>7, <3>1
    <2>11. CASE MarkDeclined(w)
      <3>1. status.status = "ended" \/ 0 \notin evidence
        BY <2>4, <2>11 DEF MarkDeclined, Types, Payload, Statuses
      <3> QED
        BY <2>4, <2>7, <2>11, <3>1 DEF MarkDeclined, owner
    <2>12. CASE WorkerRaises(w)
      <3>1. 0 \in evidence => status.status = "ended"
        <4>1. CASE worker[w].pc \in Early
          BY <4>1, EarlyIsPresent
        <4>2. CASE worker[w].pc = "ended"
          BY <2>6, <4>2 DEF Late
        <4> QED
          BY <2>12, <4>1, <4>2 DEF WorkerRaises, Early
      <3> QED
        BY <2>4, <2>7, <2>12, <3>1 DEF WorkerRaises, owner
    <2>13. CASE FailCommits(w)
      <3>1. worker[w].pc = "failing" /\ UNCHANGED evidence /\ worker'[w].pc = "done"
        BY <2>13, WorkerMoves DEF FailCommits, WorkerTo
      <3>2. status'.status = "failed" => 0 \notin evidence
        BY <2>4, <2>6, <2>13, <3>1, FailedIs DEF Late
      <3> QED
        BY <2>7, <3>1, <3>2 DEF Late
    <2> QED
      BY <1>5, <2>8, <2>9, <2>10, <2>11, <2>12, <2>13 DEF WorkerStep
  <1>6. ASSUME UNCHANGED <<worker, status, evidence>>
        PROVE  FirstEnds' /\ FailedHasNoTerminal'
    BY <1>6 DEF FirstEnds, FailedHasNoTerminal, Alive
  <1> QED
    BY <1>2, <1>3, <1>4, <1>5, <1>6, StillSteps DEF RuntimeNext, Dispatch, Aside
-----------------------------------------------------------------------------
(* The theorems.                                                             *)

LEMMA IInvStep == IInv /\ [RuntimeNext]_runtimeVars => IInv'
  <1> SUFFICES ASSUME IInv, [RuntimeNext]_runtimeVars PROVE IInv'
    OBVIOUS
  <1>1. Types'
    BY TypesStep
  <1>2. HeldFresh' /\ HeldFound' /\ HeldGate' /\ Marking'
    BY HeldStep, MarkingStep
  <1>3. Settled' /\ RevisionCAS'
    BY <1>1, SettledStep
  <1>4. OneEach' /\ Announced' /\ Finished'
    BY <1>1, OneEachStep, AnnouncedStep
  <1>5. BoundaryHeld' /\ Told' /\ FirstEnds' /\ FailedHasNoTerminal'
    BY <1>1, BoundaryStep, ToldStep, FirstStep
  <1> QED
    BY <1>1, <1>2, <1>3, <1>4, <1>5 DEF IInv

\* The lifecycle owner, its gate and its workers stay within the inductive
\* invariant, type correctness included (match/runtime.py).
THEOREM RuntimeInvariance == RuntimeSpec => []IInv
  BY InitIInv, IInvStep, PTL DEF RuntimeSpec

\* dispatch() admits no two commands at the same revision, and however often a
\* command id is delivered its client is sent one status.
THEOREM CommandsSettleOnce == RuntimeSpec => []SettledOnce
  <1>1. IInv => SettledOnce
    <2> SUFFICES ASSUME IInv PROVE SettledOnce
      OBVIOUS
    <2>1. OneAnswer
      BY DEF IInv, Settled, OneAnswer
    <2> QED
      BY <2>1 DEF IInv, SettledOnce
  <1> QED
    BY <1>1, RuntimeInvariance, PTL

\* PAUSED means that no checkpoint admits a tick, a boundary reported for the
\* pause in force is where the match's worker is held, no two workers drive one
\* match or tick at once, and FAILED that the first match published no end:
\* whatever the interleaving of command threads, workers and waiters.
THEOREM StatusAlwaysTrue == RuntimeSpec => []StatusIsTrue
  <1>1. IInv => StatusIsTrue
    <2> SUFFICES ASSUME IInv PROVE StatusIsTrue
      OBVIOUS
    <2> USE DEF IInv
    <2>1. PausedGateClosed
      BY DEF PausedGateClosed, Told, Idle, Free
    <2>2. BoundaryIsTrue
      <3> SUFFICES ASSUME NEW c \in Ids, waiter[c].pc = "released", Idle,
                          status.status = "paused", status.last = c, ~stopped
                   PROVE  \E w \in Workers : /\ worker[w].match = status.index
                                             /\ worker[w].tick = waiter[c].tick
                                             /\ worker[w].pc = "blocked"
        BY DEF BoundaryIsTrue
      <3>1. /\ ~open /\ pauseEpochs[c] = epoch /\ blockedEpoch >= epoch
            /\ blockedTick = waiter[c].tick + 1
        BY DEF Told, Idle, Free
      <3>2. blockedEpoch = epoch
        <4>1. blockedEpoch \in Nat /\ epoch \in Nat
          BY DEF Types
        <4>2. blockedEpoch <= epoch
          BY DEF BoundaryHeld
        <4> QED
          BY <3>1, <4>1, <4>2
      <3>3. PICK w \in Workers : /\ worker[w].pc = "blocked"
                                 /\ worker[w].match = status.index
                                 /\ worker[w].tick + 1 = blockedTick
        BY <3>1, <3>2 DEF BoundaryHeld
      <3>4. worker[w].tick \in Nat /\ waiter[c].tick \in Nat
        BY DEF Types, Worker
      <3> QED
        BY <3>1, <3>3, <3>4
    <2>3. OneDriver
      <3>1. ASSUME NEW v \in Workers, NEW w \in Workers, worker[v].pc = "ticking",
                   worker[w].pc = "ticking"
            PROVE  v = w
        <4>1. worker[v].match = status.index /\ worker[w].match = status.index
          BY <3>1, EarlyIsPresent DEF Early
        <4> QED
          BY <3>1, <4>1 DEF OneEach, Alive
      <3> QED
        BY <3>1 DEF OneDriver, OneEach
    <2> QED
      BY <2>1, <2>2, <2>3 DEF StatusIsTrue
  <1> QED
    BY <1>1, RuntimeInvariance, PTL
=============================================================================
