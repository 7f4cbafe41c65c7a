---------------------------- MODULE MCRequestPath ----------------------------
(* An instance of RequestPath for TLC. *)
EXTENDS RequestPath, TLC

CONSTANTS r1, r2, u1, u2, old, new, job

(* The new key is published next to the old one before it replaces it. *)
Rotation == <<{old}, {old, new}, {new}>>

Symmetry == Permutations(Requests) \cup Permutations(Users)

(* The key check and the queries share no state but the requests, so their   *)
(* steps are explored apart: either nobody has got past the token check, or  *)
(* the keys do not change and tokens are in order.                          *)
NobodyPast ==
    /\ \A r \in Requests : path[r] = NoPath \/ check[r].pc # "none"
    /\ \A u \in Users : rows[u] = "none"
    /\ passwords = {} /\ known_users = {}
    /\ \A c \in Conns : settings[c] = Unset /\ sent[c] = <<>> /\ owner[c] = Free

KeysSettled ==
    /\ upstream = 1
    /\ (keys = upstream /\ age = 0) \/ keys = NoKeys
    /\ \A r \in Requests :
        /\ check[r].pc \in {"none", "first", "accepted"}
        /\ check[r].pc = "first" => check[r].kid = old /\ check[r].sound

Apart == NobodyPast \/ KeysSettled
=============================================================================
