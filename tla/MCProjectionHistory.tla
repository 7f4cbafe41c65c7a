------------------------- MODULE MCProjectionHistory -------------------------
(* Instances of ProjectionHistory for TLC. *)
EXTENDS ProjectionHistory

AnyClientDay == -1..1
=============================================================================
