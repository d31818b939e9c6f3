----------------------- MODULE MCTelemetryPreferences -----------------------
(* Instances of TelemetryPreferences for TLC. *)
EXTENDS TelemetryPreferences
=============================================================================
