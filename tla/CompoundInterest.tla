-------------------------- MODULE CompoundInterest --------------------------
(***************************************************************************)
(* What the interest of an account promises: it compounds day by day.  The   *)
(* days are taken in order, each once and none left out; a day earns the     *)
(* account's rate on what it holds, in whole minor units, at the end of the  *)
(* day before; and nothing else adds to what was earned or takes from it.    *)
(*                                                                         *)
(* The book of an account is [open, initial, rate, upto, worth]: upto is the *)
(* last day that has earned, worth what all days have, in 1/Micros of a      *)
(* minor unit.                                                              *)
(***************************************************************************)
EXTENDS Integers

CONSTANTS Accounts, Micros

VARIABLE book

Holds(b) == b.initial + b.worth \div Micros
Earnings(b) == IF Holds(b) > 0 THEN Holds(b) * b.rate ELSE 0

Init == \A a \in Accounts : book[a].worth = 0

(* The next day of an account earns. *)
Earn(a) ==
    /\ book[a].open /\ book[a].rate > 0
    /\ book' = [book EXCEPT ![a].upto = @ + 1, ![a].worth = @ + Earnings(book[a])]

(* An account is opened, edited or closed.  Interest turned on may start on  *)
(* a later day, on none that has earned; what was earned stays.             *)
Agree(a) ==
    /\ book' = [book EXCEPT ![a] = book'[a]]
    /\ book'[a].worth = book[a].worth
    /\ book'[a].upto # book[a].upto =>
          book[a].rate = 0 /\ book'[a].rate > 0 /\ book'[a].upto > book[a].upto

Next == \E a \in Accounts : Earn(a) \/ Agree(a)

Spec == Init /\ [][Next]_book
=============================================================================
