---------------------------- MODULE CanonicalLog ----------------------------
(***************************************************************************)
(* What the event ledger promises its readers, whatever the bus, the fold  *)
(* and the staging facade do to keep the promise: events are numbered in   *)
(* the order they are published, an event is either still open, or a row   *)
(* of the log, or withdrawn, and the log only ever grows, by its oldest    *)
(* open event.  A withdrawal takes an event and every younger open one.    *)
(***************************************************************************)
EXTENDS Naturals, Sequences

VARIABLES
  published,   \* number of events published so far
  open,        \* events published and not yet settled
  log,         \* the durable rows, in insertion order
  withdrawn    \* events that will never become rows

logVars == <<published, open, log, withdrawn>>

LogInit ==
  /\ published = 0
  /\ open = {}
  /\ log = <<>>
  /\ withdrawn = {}

Open ==
  /\ published' = published + 1
  /\ open' = open \cup {published + 1}
  /\ UNCHANGED <<log, withdrawn>>

\* The oldest open event becomes a row.
Write(e) ==
  /\ e \in open
  /\ \A f \in open : e <= f
  /\ log' = Append(log, e)
  /\ open' = open \ {e}
  /\ UNCHANGED <<published, withdrawn>>

\* An event is refused: it and whatever was published after it is withdrawn.
Withdraw(e) ==
  /\ e \in open
  /\ LET gone == {f \in open : e <= f}
     IN  /\ open' = open \ gone
         /\ withdrawn' = withdrawn \cup gone
  /\ UNCHANGED <<published, log>>

LogNext ==
  \/ Open
  \/ \E e \in open : Write(e) \/ Withdraw(e)

LogSpec == LogInit /\ [][LogNext]_logVars
=============================================================================
