-------------------------- MODULE MCReferenceCapture --------------------------
EXTENDS ReferenceCapture

MCBundle == {"one"}
MCSession == {"S1"}
MCSessionOf == [b \in MCBundle |-> "S1"]
=============================================================================
