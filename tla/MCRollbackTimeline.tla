------------------------- MODULE MCRollbackTimeline -------------------------
(* Model values and bounds for one rollback timeline. *)
EXTENDS RollbackTimeline

\* InitialRemotePad is one of the pads, so no symmetry of pads is used.
=============================================================================
