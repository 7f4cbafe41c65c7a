------------------------------ MODULE Reminders ------------------------------
(***************************************************************************)
(* The cancellation reminders of a user's subscriptions                     *)
(* (src/src/services/subscription_reminders.rs and the repository of the    *)
(* same name): recorded by the last but one step of the daily job for the    *)
(* day the pass began on, listed and dismissed by requests, while the       *)
(* subscriptions themselves are edited (src/src/repos/recurring_expenses.rs).*)
(*                                                                         *)
(* Passes begin whenever the scheduler or a restart begins one, and reach    *)
(* this step or not (see Materialization for the steps before it).          *)
(***************************************************************************)
EXTENDS PayPeriods, FiniteSets

CONSTANTS
    Recurring,     \* recurring expenses
    Schedules,     \* the schedules they are given
    LastDay,       \* bound: the last day of the clock
    MaxSaves,      \* bound: requests that save a template
    MaxAborts      \* bound: passes cut short by an error or a crash

ASSUME RemindersAssumption ==
    /\ Schedules \subseteq ScheduleType
    /\ LastDay \in Nat /\ MaxSaves \in Nat /\ MaxAborts \in Nat

(* The calendar reaches past the last charge there is a reminder of. *)
ASSUME CalendarReaches == \A s \in Schedules : Reaches(s, LastDay + 5)

VARIABLES
    now,         \* the server's day
    recurring,   \* recurring[t]: see NoTemplate
    reminder,    \* rows of subscription_reminders
    pass,        \* the reminders step of a pass
    aborts

reminderVars == <<now, recurring, reminder, pass, aborts>>

-----------------------------------------------------------------------------
NoSchedule == CHOOSE s \in Schedules : TRUE
NoTemplate == [status |-> "absent", subscription |-> FALSE, enabled |-> FALSE,
               schedule |-> NoSchedule, saves |-> 0]
IdlePass == [pc |-> "idle", today |-> 0, todo |-> {}, snap |-> [t \in Recurring |-> NoTemplate]]

(* FIVE_DAY_KIND and TWO_DAY_KIND: how many days before the charge. *)
ReminderKinds == {5, 2}

RemindersInit ==
    /\ now = 0
    /\ recurring = [t \in Recurring |-> NoTemplate]
    /\ reminder = {}
    /\ pass = IdlePass
    /\ aborts = 0

-----------------------------------------------------------------------------
(* run_daily_expenses takes its day first; the steps before this one may     *)
(* take it past midnight.                                                   *)
BeginPass ==
    /\ pass.pc = "idle"
    /\ pass' = [IdlePass EXCEPT !.pc = "load", !.today = now]
    /\ UNCHANGED <<now, recurring, reminder, aborts>>

Candidate(row) == row.status = "live" /\ row.subscription /\ row.enabled

(* generate_subscription_reminders_for_date: the templates are loaded once. *)
LoadCandidates ==
    /\ pass.pc = "load"
    /\ pass' = [pass EXCEPT !.pc = "record", !.snap = recurring,
                            !.todo = {t \in Recurring : Candidate(recurring[t])}]
    /\ UNCHANGED <<now, recurring, reminder, aborts>>

(* Mutant: charges past the last payment date are announced. *)
DueForEver(s, date) ==
    LET charge == NextOccurrence(s, date) IN
    {[charge |-> charge, kind |-> k] : k \in {k \in ReminderKinds : charge - k = date}}

(* What is due on a date: the next charge is that many days away, and it     *)
(* happens.                                                                 *)
Due(s, date) ==
    LET charge == NextOccurrence(s, date) IN
    {[charge |-> charge, kind |-> k] : k \in
        {k \in ReminderKinds : charge - k = date /\ ~(s.last # NoDate /\ charge > s.last)}}

(* Mutant: the insert overwrites the row that is there. *)
UpsertOverwrites(rows, t, due, of) ==
    {r \in rows : ~(r.tpl = t /\ r.charge = due.charge /\ r.kind = due.kind)}
        \cup {[tpl |-> t, charge |-> due.charge, kind |-> due.kind,
               dismissed |-> FALSE, of |-> of]}

(* on_conflict_do_nothing on (recurring_expense_id, charge_date, kind).      *)
Upsert(rows, t, due, of) ==
    IF \E r \in rows : r.tpl = t /\ r.charge = due.charge /\ r.kind = due.kind
    THEN rows
    ELSE rows \cup {[tpl |-> t, charge |-> due.charge, kind |-> due.kind,
                     dismissed |-> FALSE, of |-> of]}

(* Mutant: what is due on the day it is now. *)
RecordForNow(t) ==
    LET row == pass.snap[t] IN
    /\ pass.pc = "record" /\ t \in pass.todo
    /\ reminder' = LET due == Due(row.schedule, now)
                   IN  IF due = {} THEN reminder
                       ELSE Upsert(reminder, t, CHOOSE d \in due : TRUE, row.saves)
    /\ pass' = [pass EXCEPT !.todo = @ \ {t}]
    /\ UNCHANGED <<now, recurring, aborts>>

(* A charge has one reminder a day: the kinds differ. *)
Record(t) ==
    LET row == pass.snap[t] IN
    /\ pass.pc = "record" /\ t \in pass.todo
    /\ reminder' = LET due == Due(row.schedule, pass.today)
                   IN  IF due = {} THEN reminder
                       ELSE Upsert(reminder, t, CHOOSE d \in due : TRUE, row.saves)
    /\ pass' = [pass EXCEPT !.todo = @ \ {t}]
    /\ UNCHANGED <<now, recurring, aborts>>

EndStep ==
    /\ pass.pc = "record" /\ pass.todo = {}
    /\ pass' = IdlePass
    /\ UNCHANGED <<now, recurring, reminder, aborts>>

(* An error is logged and ends the step for the user; a crash ends it too.   *)
Abort ==
    /\ aborts < MaxAborts /\ pass.pc # "idle"
    /\ pass' = IdlePass
    /\ aborts' = aborts + 1
    /\ UNCHANGED <<now, recurring, reminder>>

-----------------------------------------------------------------------------
Save(t, row) ==
    /\ recurring[t].saves < MaxSaves
    /\ recurring' = [recurring EXCEPT ![t] = [row EXCEPT !.saves = recurring[t].saves + 1]]
    /\ UNCHANGED <<now, reminder, pass, aborts>>

CreateRecurring(t, s, subscription) ==
    /\ recurring[t].status = "absent"
    /\ Save(t, [NoTemplate EXCEPT !.status = "live", !.subscription = subscription,
                                  !.schedule = s])

(* The flag is left alone. *)
UpdateRecurring(t, s, subscription) ==
    /\ recurring[t].status = "live"
    /\ Save(t, [recurring[t] EXCEPT !.subscription = subscription, !.schedule = s])

SetCancelReminder(t, enabled) ==
    /\ recurring[t].status = "live"
    /\ Save(t, [recurring[t] EXCEPT !.enabled = enabled])

DeleteRecurring(t) ==
    /\ recurring[t].status = "live"
    /\ Save(t, [recurring[t] EXCEPT !.status = "deleted", !.enabled = FALSE])

Dismiss(r) ==
    /\ ~r.dismissed
    /\ reminder' = (reminder \ {r}) \cup {[r EXCEPT !.dismissed = TRUE]}
    /\ UNCHANGED <<now, recurring, pass, aborts>>

NextDay ==
    /\ now < LastDay
    /\ now' = now + 1
    /\ UNCHANGED <<recurring, reminder, pass, aborts>>

-----------------------------------------------------------------------------
RemindersNext ==
    \/ BeginPass \/ LoadCandidates \/ EndStep \/ Abort \/ NextDay
    \/ \E t \in Recurring :
        \/ Record(t) \/ DeleteRecurring(t)
        \/ \E enabled \in BOOLEAN : SetCancelReminder(t, enabled)
        \/ \E s \in Schedules, subscription \in BOOLEAN :
                CreateRecurring(t, s, subscription) \/ UpdateRecurring(t, s, subscription)
    \/ \E r \in reminder : Dismiss(r)

RemindersSpec == RemindersInit /\ [][RemindersNext]_reminderVars

-----------------------------------------------------------------------------
(* list_active, for a client's day. *)
Listed(today) ==
    {r \in reminder : ~r.dismissed /\ recurring[r.tpl].status = "live" /\ r.charge >= today}

(* When the step is completed for a day, every charge 5 or 2 days after that *)
(* day of a flagged subscription has its reminder, unless the subscription   *)
(* was saved while the step ran: whatever passes were cut short, repeated,  *)
(* or ran past midnight. A day without a completed step is not made up for: *)
(* no later pass looks back.                                                *)
RemindedInTime ==
    [][pass.pc = "record" /\ pass'.pc = "idle" /\ aborts' = aborts =>
        \A t \in Recurring, k \in ReminderKinds :
            LET s == recurring[t].schedule
                charge == pass.today + k
            IN  Candidate(recurring[t]) /\ pass.snap[t] = recurring[t] /\ OccursOn(s, charge)
                    => \E r \in reminder : r.tpl = t /\ r.charge = charge /\ r.kind = k]_reminderVars

(* A reminder that is listed announces a charge that will happen, of a       *)
(* subscription that is flagged, unless the subscription was saved after it  *)
(* was loaded for it.                                                       *)
ListedAreTrue ==
    \A r \in Listed(now) :
        r.of = recurring[r.tpl].saves
            => Candidate(recurring[r.tpl]) /\ OccursOn(recurring[r.tpl].schedule, r.charge)

(* "Permanently dismisses a reminder" (routes/subscription_reminders.rs:27), *)
(* "re-running for the same day creates nothing new": the table of reminders *)
(* is a table of slots, so that no pass, not even one that repeats a day or  *)
(* runs with templates loaded long ago, brings a dismissed reminder back.   *)
Slots == INSTANCE SlotTable WITH
    entries <- {[slot |-> <<r.tpl, r.charge, r.kind>>, what |-> r.of,
                 closed |-> r.dismissed] : r \in reminder}
RemindersFillSlots == Slots!Spec
=============================================================================
