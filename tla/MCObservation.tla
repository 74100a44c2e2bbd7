--------------------------- MODULE MCObservation ---------------------------
(* Observation with values for TLC. *)
EXTENDS Observation

MCSetups == {<<"onoff", "online">>, <<"track", "offline">>}
=============================================================================
