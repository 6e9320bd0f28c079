--------------------------- MODULE MCRollbackPair ---------------------------
(* Model values and bounds for the two timelines of one match. *)
EXTENDS RollbackPair
=============================================================================
