------------------------------- MODULE MCEngine -------------------------------
(* Instances of Engine small enough for TLC.                               *)
EXTENDS Engine

CONSTANTS halt, flatten

MCHalts == {halt}
MCFlattens == {flatten}
MCNone == {}

=============================================================================
