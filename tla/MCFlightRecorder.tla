-------------------------- MODULE MCFlightRecorder --------------------------
(* An instance of the flight recorder, without symmetry: the run checks a   *)
(* liveness property beside the safety properties.                          *)
EXTENDS FlightRecorder

CONSTANTS h1, h2, r1, r2, r3
=============================================================================
