----------------------------- MODULE MCReminders -----------------------------
(* An instance of Reminders for TLC: a calendar of two months, schedules     *)
(* whose reminders fall on different days, one of which ends.               *)
EXTENDS Reminders

TwoMonths == <<0, 31, 59>>
Starts == [k \in 0..2 |-> TwoMonths[k + 1]]

Weekly(anchor, last) == [anchor |-> anchor, frequency |-> "weekly", last |-> last]
Weeks == {Weekly(6, NoDate), Weekly(7, 7)}
=============================================================================
