-------------------------- MODULE MCInterestAccrual --------------------------
(* Instances of InterestAccrual for TLC. *)
EXTENDS InterestAccrual

CONSTANTS a1, a2, e1

AnyClientDay == -1..1
=============================================================================
