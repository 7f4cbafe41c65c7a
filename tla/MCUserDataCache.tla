--------------------------- MODULE MCUserDataCache ---------------------------
(* Instances of UserDataCache for TLC. *)
EXTENDS UserDataCache

=============================================================================
