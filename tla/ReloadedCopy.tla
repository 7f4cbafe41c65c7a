----------------------------- MODULE ReloadedCopy -----------------------------
(***************************************************************************)
(* What a replica promises of a value it keeps a copy of in memory (the     *)
(* rates of src/src/services/exchange_rates.rs, the signing keys of         *)
(* src/src/auth/jwt.rs), whatever the steps of a reload are: one request at  *)
(* a time reloads, only that one replaces the copy, never by an older value *)
(* and never by one that is not kept elsewhere.                             *)
(*                                                                         *)
(* Values are told apart by their age: the later ones are greater.          *)
(***************************************************************************)
EXTENDS Integers

CONSTANTS
    Requests,
    NoOne,     \* nobody reloads
    Nothing    \* the copy after a restart

VARIABLES
    kept,      \* the value where it is kept
    copy,      \* the copy in memory
    holder     \* who reloads

Init ==
    /\ kept \in Int /\ copy \in Int /\ copy <= kept
    /\ holder = NoOne

Renew ==
    /\ kept' \in Int /\ kept' >= kept
    /\ UNCHANGED <<copy, holder>>

Begin(r) ==
    /\ holder = NoOne
    /\ holder' = r
    /\ UNCHANGED <<kept, copy>>

Publish(r) ==
    /\ holder = r
    /\ holder' = NoOne
    /\ copy' \in Int /\ copy <= copy' /\ copy' <= kept
    /\ UNCHANGED kept

GiveUp(r) ==
    /\ holder = r
    /\ holder' = NoOne
    /\ UNCHANGED <<kept, copy>>

Forget ==
    /\ copy' = Nothing
    /\ holder' = NoOne
    /\ UNCHANGED kept

Next ==
    \/ Renew \/ Forget
    \/ \E r \in Requests : Begin(r) \/ Publish(r) \/ GiveUp(r)

Spec == Init /\ [][Next]_<<kept, copy, holder>>
=============================================================================
