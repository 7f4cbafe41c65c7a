-------------------------- MODULE MCMaterialization --------------------------
(* Instances of Materialization for TLC. *)
EXTENDS Materialization, TLC

CONSTANTS p1, p2, rent, save, pay, alice, bob

OneUser == [t \in Templates |-> alice]
TwoUsers == [t \in Templates |-> IF t = pay THEN bob ELSE alice]
KindOf == [t \in Templates |-> CASE t = rent -> "expense"
                                 [] t = save -> "transfer"
                                 [] t = pay  -> "income"]
DayOne == {{1}}

Symmetry == Permutations(Replicas)
=============================================================================
