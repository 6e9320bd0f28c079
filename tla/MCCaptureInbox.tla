--------------------------- MODULE MCCaptureInbox ---------------------------
(* Two recordings that begin under one session identifier.                 *)
EXTENDS CaptureInbox

MCBundle == {"first", "second"}
MCSession == {"session"}
MCSessionOf == [b \in MCBundle |-> "session"]
=============================================================================
