-------------------------- MODULE TerminalEvidence --------------------------
(***************************************************************************)
(* MatchRuntime's ENDED against the ledger it is meant to follow: the      *)
(* browser's MATCH_ENDED subscriber (cli/play.py, _on_event) is the last   *)
(* of the bus's subscribers, and asks the admission-scoped ledger for      *)
(* evidence while MATCH_ENDED is still being dispatched.                   *)
(***************************************************************************)
EXTENDS EventAdmission

VARIABLES
  terminal,   \* the MATCH_ENDED event, 0 before it is published
  ended       \* has the runtime committed ENDED?

evidenceVars == <<vars, terminal, ended>>

EvidenceInit == Init /\ terminal = 0 /\ ended = FALSE

\* publish(MATCH_ENDED), by the runner or, nested, by the fold, which derives it
\* from the runner's events: it derives nothing from an LLM completion's.
PublishTerminal ==
  /\ terminal = 0
  /\ \/ ~Busy /\ ~halted /\ Stamp(FALSE, 0) /\ caught' = FALSE
     \/ Busy /\ ~caught /\ Top.pos = Fold /\ Stamp(FALSE, Top.ev) /\ UNCHANGED caught
  /\ terminal' = Len(events) + 1
  /\ UNCHANGED ended

\* terminal_evidence: does the facade's merged read hold a MATCH_ENDED?
Evidence == terminal \in StagedEvents \cup DurableEvents

\* The last subscriber receives MATCH_ENDED and marks the runtime.
MarkEnded ==
  /\ At(Last)
  /\ Top.ev = terminal
  /\ HandlerReturns
  /\ ended' = (ended \/ Evidence)
  /\ UNCHANGED terminal

Other ==
  /\ ~(At(Last) /\ Top.ev = terminal)
  /\ Next
  /\ UNCHANGED <<terminal, ended>>

EvidenceNext == PublishTerminal \/ MarkEnded \/ Other

EvidenceSpec == EvidenceInit /\ [][EvidenceNext]_evidenceVars
-----------------------------------------------------------------------------
\* While no error has ended the runner, an ENDED runtime has its MATCH_ENDED
\* among the durable rows whenever no publish() is in progress, whatever inserts
\* have failed under its pilots before.
EndedIsDurableAtRest ==
  ended /\ ~Busy /\ ~halted => terminal \in DurableEvents
=============================================================================
