--------------------------- MODULE MCHealthProbe ---------------------------
(***************************************************************************)
(* Instances of HealthProbe for TLC.                                        *)
(***************************************************************************)
EXTENDS HealthProbe

Heights == {0, 3, 4, 8}
=============================================================================
