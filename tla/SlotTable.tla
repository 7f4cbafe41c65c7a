------------------------------ MODULE SlotTable ------------------------------
(***************************************************************************)
(* What a table promises whose unique index covers deleted rows as well     *)
(* (the charged expenses, income and transfers of a template, the reminders  *)
(* of a subscription): a slot is filled at most once, whoever tries it again *)
(* and whenever, and what was put there stays, except that it may be closed  *)
(* (deleted, dismissed), for good.                                          *)
(*                                                                         *)
(* An entry is [slot, what, closed].                                        *)
(***************************************************************************)
VARIABLE entries

Init == entries = {}

Fill ==
    \E e \in entries' :
        /\ ~e.closed
        /\ \A f \in entries : f.slot # e.slot
        /\ entries' = entries \cup {e}

Close ==
    \E e \in entries :
        /\ ~e.closed
        /\ entries' = (entries \ {e}) \cup {[slot |-> e.slot, what |-> e.what, closed |-> TRUE]}

Spec == Init /\ [][Fill \/ Close]_entries
=============================================================================
