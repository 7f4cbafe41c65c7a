--------------------------- MODULE MCProjections ---------------------------
EXTENDS Reports, TLC

CONSTANTS a1, a2

(* The first days of the months from January 2027 to December 2034; 2028 and    *)
(* 2032 are leap years.                                                            *)
Calendar == [k \in 0..96 |->
    365 * (k \div 12) + <<0, 31, 59, 90, 120, 151, 181, 212, 243, 273, 304, 334>>[(k % 12) + 1]
        + (IF k > 13 THEN 1 ELSE 0) + (IF k > 61 THEN 1 ELSE 0)]
Day(month, day) == Calendar[month] + day - 1

Every(frequency, anchor) == [anchor |-> anchor, frequency |-> frequency, last |-> NoDate]
Until(last, schedule) == [schedule EXCEPT !.last = last]

Template(schedule, from, to) ==
    [schedule |-> schedule, account |-> from, to |-> to, saved |-> schedule.anchor, live |-> TRUE]
Setup(income, expense, transfer, to) ==
    [template |-> [income |-> Template(income, a1, NoAccount),
                   expense |-> Template(expense, NoAccount, NoAccount),
                   transfer |-> Template(transfer, a1, to)],
     start |-> NoDate, end |-> NoDate, planned |-> NoDate, excluded |-> {}, rows |-> {}]
With(setup, fields) == fields @@ setup
Pinned(setup, a) == [setup EXCEPT !.template["expense"].account = a]

TheAmounts == [income |-> 40, expense |-> 7, transfer |-> 5, planned |-> 11, budget |-> 3,
               earning |-> 2, spending |-> 1]
TheOpening == (a1 :> 20 @@ a2 :> 5)
Near == {-3, 0, 2}
Ranges == {<<9, 0>>, <<40, 5>>, <<130, 0>>}

Setups == {
    \* Month ends around a leap day; a start within a period; a pinned account.
    With(Pinned(Setup(Every("monthly", Day(12, 31)), Every("monthly", Day(13, 29)),
                      Every("monthly", Day(12, 30)), a2), a2),
         [today |-> Day(13, 28), start |-> Day(13, 10), end |-> Day(15, 15),
          planned |-> Day(13, 29), budget |-> <<Day(13, 20), Day(14, 1)>>,
          days |-> 2, edits |-> 1]),
    \* A period just closed, a payday in it to catch up on, an ended budget, a
    \* one-time expense overdue, transfers into an excluded account.
    With(Setup(Every("monthly", Day(12, 31)), Until(Day(14, 29), Every("monthly", Day(12, 29))),
               Every("monthly", Day(12, 27)), a2),
         [today |-> Day(14, 2), start |-> Day(13, 1), end |-> Day(15, 15),
          planned |-> Day(13, 20), budget |-> <<Day(13, 20), Day(13, 27)>>, excluded |-> {a2},
          rows |-> {NewRow("spending", Day(13, 28), Day(13, 28), a1, NoAccount),
                    NewRow("budget", Day(13, 26), Day(13, 26), a1, NoAccount),
                    NewRow("transfer", Day(13, 27), Day(13, 27), a1, a2)},
          days |-> 1, edits |-> 1]),
    \* The same, with all but one occurrence charged, for two requests.
    With(Setup(Every("monthly", Day(12, 31)), Every("monthly", Day(14, 5)),
               Every("monthly", Day(12, 2)), a2),
         [today |-> Day(14, 2), start |-> Day(13, 1), end |-> Day(14, 15),
          planned |-> Day(14, 3), budget |-> <<Day(13, 20), Day(13, 29)>>, excluded |-> {a2},
          rows |-> {NewRow("income", Day(13, 29), Day(13, 29), a1, NoAccount),
                    NewRow("budget", Day(14, 1), Day(14, 1), a1, NoAccount)},
          days |-> 0, edits |-> 2]),
    \* A start within the period just closed, money coming from an excluded
    \* account.
    With(Setup(Every("biweekly", Day(13, 1)), Until(Day(14, 3), Every("weekly", Day(13, 4))),
               Every("monthly", Day(13, 16)), a2),
         [today |-> Day(13, 17), start |-> Day(13, 10), end |-> Day(14, 20),
          planned |-> Day(13, 19), budget |-> <<Day(13, 12), Day(13, 20)>>, excluded |-> {a1},
          rows |-> {NewRow("expense", Day(13, 11), Day(13, 11), a2, NoAccount),
                    NewRow("spending", Day(13, 9), Day(13, 9), a2, NoAccount)},
          days |-> 1, edits |-> 1]),
    \* No start, pay dates before the first payday, years from a leap day.
    With(Setup(Every("weekly", Day(25, 20)), Every("yearly", Day(13, 29)),
               Every("biweekly", Day(25, 1)), a2),
         [today |-> Day(25, 27), end |-> Day(26, 30), planned |-> Day(25, 20),
          budget |-> <<Day(25, 26), Day(26, 2)>>, days |-> 2, edits |-> 1]),
    \* Yearly periods, no end, every account excluded.
    With(Setup(Every("yearly", Day(13, 29)), Every("monthly", Day(24, 31)),
               Every("monthly", Day(24, 30)), a2),
         [today |-> Day(25, 27), start |-> Day(24, 5), budget |-> <<Day(25, 26), Day(25, 28)>>,
          excluded |-> {a1, a2}, days |-> 1, edits |-> 1])
    }
=============================================================================
