--------------------------- MODULE MCLlmDecision ---------------------------
(* A match of two seats, over one HTTP provider and one delegation         *)
(* provider: every pairing of paths, policies and providers is an initial  *)
(* state.  The HTTP budget is smaller than what two decisions may need, a  *)
(* post is retried once, and two repairs are allowed.                      *)
EXTENDS LlmDecision, TLC

CONSTANTS s1, s2, api, onex
TwoSeats == <<s1, s2>>
Clients == api :> "http" @@ onex :> "cli"
Posts == api :> 2 @@ onex :> 1
=============================================================================
