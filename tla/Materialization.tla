--------------------------- MODULE Materialization ---------------------------
(***************************************************************************)
(* How recurring transfers, recurring expenses and scheduled income become *)
(* rows: the scheduler every replica runs (src/src/jobs/daily_expenses.rs),*)
(* the advisory lock that keeps their passes apart, and the three charge   *)
(* steps of a pass (src/src/services/charge_due_*.rs), together with the   *)
(* handlers that edit templates, delete rows and pay an expense early      *)
(* while a pass is under way.                                              *)
(*                                                                         *)
(* An occurrence is a template and a due day; a row records the occurrence *)
(* it stands for, the day it is dated and whether it is live or a          *)
(* soft-deleted tombstone.  A template's schedule is the set of days it    *)
(* occurs on (pay_periods::occurs_on, the last payment date included).     *)
(* Amounts, account picks and tags are left out; interest, reminders, the  *)
(* revision bump and the history refresh of a pass touch other state and   *)
(* belong to InterestAccrual and UserDataCache.                            *)
(***************************************************************************)
EXTENDS Integers, FiniteSets

CONSTANTS
    Replicas,    \* processes with enable_internal_cron
    Users,
    Templates,   \* recurring expenses, recurring transfers and pay schedules
    Owner,       \* Owner[t]: the user whose template t is
    Kind,        \* Kind[t]: the charge step that materializes t
    Schedules,   \* the schedules an edit may give a template: sets of days
    CatchUpDays, \* CATCH_UP_DAYS
    LastDay,     \* bound: the last day of the clock
    MaxEdits,    \* bound: template edits
    MaxFaults,   \* bound: crashes, failed steps, lost lock sessions
    Faults,
    ShortPasses  \* a scheduler wakes on time and its pass ends before the clock moves on

Kinds == <<"transfer", "expense", "income">>
AllFaults == {"crash", "step_failure", "lost_session"}
KindNames == {"transfer", "expense", "income"}
Days == 0..LastDay

ASSUME MaterializationAssumption ==
    /\ "free" \notin Replicas
    /\ Owner \in [Templates -> Users]
    /\ Kind \in [Templates -> KindNames]
    /\ Schedules \subseteq SUBSET Int
    /\ CatchUpDays \in Nat /\ LastDay \in Nat
    /\ MaxEdits \in Nat /\ MaxFaults \in Nat
    /\ Faults \subseteq AllFaults
    /\ ShortPasses \in BOOLEAN

VARIABLES
    now,       \* half days: each day has the hours before and after the job's hour
    template,  \* template[t]: [status, saved, days, paused]
    rows,      \* [tpl, due, on, live]
    lock,      \* the replica whose session holds the advisory lock, or Free
    pass,      \* pass[p]: the scheduler of replica p and its pass
    payer,     \* one early payment: [pc, tpl, due, on]
    edits, faults

vars == <<now, template, rows, lock, pass, payer, edits, faults>>

-----------------------------------------------------------------------------
Free == "free"
Today == now \div 2
AfterHour == now % 2 = 1

NoTemplate == [status |-> "absent", saved |-> 0, days |-> {}, paused |-> FALSE]
NoSnapshot == [t \in Templates |-> NoTemplate]
NoUser == "nobody"

(* A scheduler outside a pass: asleep until next. *)
Asleep(next) ==
    [pc |-> "sleep", next |-> next, today |-> 0, todo |-> {}, user |-> NoUser,
     step |-> 1, date |-> 0, left |-> {}, snap |-> NoSnapshot, failed |-> {}]
Starting == [Asleep(0) EXCEPT !.pc = "lock"]
Down == [Asleep(0) EXCEPT !.pc = "down"]
IdlePayer == [pc |-> "idle", tpl |-> "none", due |-> 0, on |-> 0]

Running(p) == pass[p].pc \notin {"sleep", "lock", "down"}

(* duration_until_next_run *)
NextRun == IF AfterHour THEN now + 2 ELSE now + 1

(* The unique index of each table: one row per occurrence, tombstones too;   *)
(* an expense's due day is its scheduled date when it was paid early.       *)
OccupiedIn(rs, t, d) == \E r \in rs : r.tpl = t /\ r.due = d
Occupied(t, d) == OccupiedIn(rows, t, d)

Init ==
    /\ now = 0
    /\ template \in [Templates ->
          {NoTemplate} \cup [status : {"active"}, saved : {0}, days : Schedules, paused : {FALSE}]]
    /\ rows = {}
    /\ lock = Free
    /\ pass = [p \in Replicas |-> Starting]
    /\ payer = IdlePayer
    /\ edits = 0 /\ faults = 0

-----------------------------------------------------------------------------
(* The scheduler. *)

Set(p, state) == pass' = [pass EXCEPT ![p] = state]

Wake(p) ==
    /\ pass[p].pc = "sleep"
    /\ now >= pass[p].next
    /\ Set(p, Starting)
    /\ UNCHANGED <<now, template, rows, lock, payer, edits, faults>>

(* pg_try_advisory_lock: without it the scheduler sleeps until the next hour. *)
TryLock(p) ==
    /\ pass[p].pc = "lock"
    /\ \/ /\ lock = Free
          /\ lock' = p
          /\ Set(p, [Starting EXCEPT !.pc = "user", !.today = Today, !.todo = Users])
       \/ /\ lock # Free
          /\ Set(p, Asleep(NextRun))
          /\ UNCHANGED lock
    /\ UNCHANGED <<now, template, rows, payer, edits, faults>>

(* No connection, or the query fails: the same wait. *)
FailLock(p) ==
    /\ "step_failure" \in Faults
    /\ faults < MaxFaults
    /\ pass[p].pc = "lock"
    /\ Set(p, Asleep(NextRun))
    /\ faults' = faults + 1
    /\ UNCHANGED <<now, template, rows, lock, payer, edits>>

KeepLock(p) ==
    /\ pass[p].pc = "release"
    /\ Set(p, Asleep(NextRun))
    /\ UNCHANGED <<now, template, rows, lock, payer, edits, faults>>
ReleaseLock(p) ==
    /\ pass[p].pc = "release"
    /\ lock' = IF lock = p THEN Free ELSE lock
    /\ Set(p, Asleep(NextRun))
    /\ UNCHANGED <<now, template, rows, payer, edits, faults>>

-----------------------------------------------------------------------------
(* A pass: for every user the three charge steps, each of them day by day    *)
(* from the oldest catch-up day.                                            *)

NextUser(p) ==
    LET s == pass[p] IN
    /\ s.pc = "user"
    /\ \/ \E u \in s.todo :
             Set(p, [s EXCEPT !.pc = "load", !.user = u, !.todo = @ \ {u}, !.step = 1])
       \/ s.todo = {} /\ Set(p, [s EXCEPT !.pc = "release"])
    /\ UNCHANGED <<now, template, rows, lock, payer, edits, faults>>

OfStep(s, t) == Owner[t] = s.user /\ Kind[t] = Kinds[s.step]

(* Templates and accounts are loaded once for all the days of the step. *)
LoadTemplates(p) ==
    LET s == pass[p] IN
    /\ s.pc = "load"
    /\ Set(p, [s EXCEPT !.pc = "date", !.date = s.today - CatchUpDays,
                        !.snap = [t \in Templates |-> IF OfStep(s, t) THEN template[t]
                                                      ELSE s.snap[t]]])
    /\ UNCHANGED <<now, template, rows, lock, payer, edits, faults>>

(* What a template as loaded calls for on day d: nothing before the day it   *)
(* was last saved, nothing while one of a transfer's accounts is archived.  *)
DueOn(tpl, d) ==
    tpl.status = "active" /\ d \in tpl.days /\ d >= tpl.saved /\ ~tpl.paused

(* Mutant: a template saved meanwhile is charged for days before that. *)
DueSetBackdated(s) ==
    {t \in Templates : /\ OfStep(s, t)
                       /\ s.snap[t].status = "active" /\ ~s.snap[t].paused
                       /\ s.date \in s.snap[t].days
                       /\ Kind[t] # "transfer" => ~Occupied(t, s.date)}

(* Expenses and income read what is materialized already at the start of a   *)
(* day; transfers leave it to the insert.                                   *)
DueSet(s) ==
    {t \in Templates : /\ OfStep(s, t)
                       /\ DueOn(s.snap[t], s.date)
                       /\ Kind[t] # "transfer" => ~Occupied(t, s.date)}

AfterStep(s) ==
    IF s.step < 3 THEN [s EXCEPT !.pc = "load", !.step = @ + 1, !.left = {}]
                  ELSE [s EXCEPT !.pc = "user", !.left = {}]

OpenDayUntil(p, last) ==
    LET s == pass[p] IN
    /\ s.pc = "date"
    /\ IF s.date > last THEN Set(p, AfterStep(s))
       ELSE Set(p, [s EXCEPT !.pc = "charge", !.left = DueSet(s)])
    /\ UNCHANGED <<now, template, rows, lock, payer, edits, faults>>
OpenDayBeforeToday(p) == OpenDayUntil(p, pass[p].today - 1)
OpenDay(p) == OpenDayUntil(p, pass[p].today)

(* One insert.  A row that already holds the occurrence turns it into a      *)
(* no-op: ON CONFLICT DO NOTHING, or the ignored unique violation.          *)
InsertRow(t, d, on) ==
    rows' = rows \cup {[tpl |-> t, due |-> d, on |-> on, live |-> TRUE]}
Materialize(t, d) ==
    IF Occupied(t, d) THEN UNCHANGED rows ELSE InsertRow(t, d, d)

Charge(p) ==
    LET s == pass[p] IN
    /\ s.pc = "charge"
    /\ \/ \E t \in s.left : /\ Materialize(t, s.date)
                            /\ Set(p, [s EXCEPT !.left = @ \ {t}])
       \/ /\ s.left = {}
          /\ Set(p, [s EXCEPT !.pc = "date", !.date = @ + 1])
          /\ UNCHANGED rows
    /\ UNCHANGED <<now, template, lock, payer, edits, faults>>

(* An error ends the step of this user only; the pass itself ends when the   *)
(* list of users cannot be read.                                            *)
FailStep(p) ==
    LET s == pass[p] IN
    /\ "step_failure" \in Faults
    /\ faults < MaxFaults
    /\ \/ /\ s.pc \in {"load", "date", "charge"}
          /\ Set(p, AfterStep([s EXCEPT !.failed = @ \cup {<<s.user, Kinds[s.step]>>}]))
       \/ /\ s.pc = "user" /\ s.user = NoUser
          /\ Set(p, [s EXCEPT !.pc = "release", !.todo = {}, !.failed = Users \X KindNames])
    /\ faults' = faults + 1
    /\ UNCHANGED <<now, template, rows, lock, payer, edits>>

Schedule(p) ==
    \/ Wake(p) \/ TryLock(p) \/ ReleaseLock(p)
    \/ NextUser(p) \/ LoadTemplates(p) \/ OpenDay(p) \/ Charge(p)

-----------------------------------------------------------------------------
(* The handlers. *)

(* create and update set updated_at to now; so does set_cancel_reminder,     *)
(* which keeps the schedule.                                                *)
SaveTemplate(t, days) ==
    /\ edits < MaxEdits
    /\ template[t].status # "deleted"
    /\ template' = [template EXCEPT ![t] = [@ EXCEPT !.status = "active", !.saved = Today,
                                                     !.days = days]]
    /\ edits' = edits + 1
    /\ UNCHANGED <<now, rows, lock, pass, payer, faults>>

DeleteTemplate(t) ==
    /\ edits < MaxEdits
    /\ template[t].status = "active"
    /\ template' = [template EXCEPT ![t] = [@ EXCEPT !.status = "deleted", !.saved = Today]]
    /\ edits' = edits + 1
    /\ UNCHANGED <<now, rows, lock, pass, payer, faults>>

(* delete_account archives one of the accounts of a recurring transfer. *)
ArchiveAccount(t) ==
    /\ edits < MaxEdits
    /\ Kind[t] = "transfer" /\ template[t].status = "active" /\ ~template[t].paused
    /\ template' = [template EXCEPT ![t] = [@ EXCEPT !.paused = TRUE]]
    /\ edits' = edits + 1
    /\ UNCHANGED <<now, rows, lock, pass, payer, faults>>

(* Scheduled income and transfers are soft-deleted; charged recurring        *)
(* expenses cannot be deleted (is_system_generated).                        *)
DeleteRow(r) ==
    /\ r.live
    /\ Kind[r.tpl] # "expense"
    /\ rows' = (rows \ {r}) \cup {[r EXCEPT !.live = FALSE]}
    /\ UNCHANGED <<now, template, lock, pass, payer, edits, faults>>

(* early_pay_expense: the checks, on the client's own calendar day, which    *)
(* may be a day off the server's, and which stands for any paid_date the     *)
(* handler accepts ...                                                      *)
StartEarlyPay(t, due, clientToday) ==
    /\ payer.pc = "idle"
    /\ Kind[t] = "expense"
    /\ clientToday \in (Today - 1)..(Today + 1)
    /\ template[t].status = "active" /\ due \in template[t].days
    /\ due > clientToday
    /\ ~Occupied(t, due)
    /\ payer' = [pc |-> "insert", tpl |-> t, due |-> due, on |-> clientToday]
    /\ UNCHANGED <<now, template, rows, lock, pass, edits, faults>>

(* ... and the insert, which the unique index may refuse. *)
PayUnchecked ==
    /\ payer.pc = "insert"
    /\ InsertRow(payer.tpl, payer.due, payer.on)
    /\ payer' = IdlePayer
    /\ UNCHANGED <<now, template, lock, pass, edits, faults>>
FinishEarlyPay ==
    /\ payer.pc = "insert"
    /\ IF Occupied(payer.tpl, payer.due)
       THEN UNCHANGED rows
       ELSE InsertRow(payer.tpl, payer.due, payer.on)
    /\ payer' = IdlePayer
    /\ UNCHANGED <<now, template, lock, pass, edits, faults>>

Handle ==
    \/ \E t \in Templates : \/ \E days \in Schedules : SaveTemplate(t, days)
                            \/ DeleteTemplate(t) \/ ArchiveAccount(t)
                            \/ \E due \in Days, c \in (-1)..(LastDay + 1) : StartEarlyPay(t, due, c)
    \/ \E r \in rows : DeleteRow(r)
    \/ FinishEarlyPay

-----------------------------------------------------------------------------
(* The environment. *)

Tick ==
    /\ now < 2 * LastDay + 1
    /\ ShortPasses => \A p \in Replicas :
                          pass[p].pc = "down" \/ (pass[p].pc = "sleep" /\ now < pass[p].next)
    /\ now' = now + 1
    /\ UNCHANGED <<template, rows, lock, pass, payer, edits, faults>>

(* The replica dies; Postgres frees the lock with its session. *)
Crash(p) ==
    /\ "crash" \in Faults
    /\ faults < MaxFaults
    /\ pass[p].pc # "down"
    /\ Set(p, Down)
    /\ lock' = IF lock = p THEN Free ELSE lock
    /\ faults' = faults + 1
    /\ UNCHANGED <<now, template, rows, payer, edits>>

(* A scheduler runs a pass as soon as it starts. *)
Restart(p) ==
    /\ pass[p].pc = "down"
    /\ Set(p, Starting)
    /\ UNCHANGED <<now, template, rows, lock, payer, edits, faults>>

(* The connection that holds the lock breaks; the pass uses others and goes  *)
(* on.                                                                      *)
LoseSession(p) ==
    /\ "lost_session" \in Faults
    /\ faults < MaxFaults
    /\ lock = p
    /\ lock' = Free
    /\ faults' = faults + 1
    /\ UNCHANGED <<now, template, rows, pass, payer, edits>>

(* The bound of the clock: every scheduler sleeps past it. *)
EndOfClock ==
    /\ now = 2 * LastDay + 1
    /\ \A p \in Replicas : pass[p].pc = "sleep"
    /\ UNCHANGED vars

Environment ==
    \/ Tick \/ EndOfClock
    \/ \E p \in Replicas : FailLock(p) \/ FailStep(p) \/ Crash(p) \/ Restart(p) \/ LoseSession(p)

Next == (\E p \in Replicas : Schedule(p)) \/ Handle \/ Environment

Spec == Init /\ [][Next]_vars

(* Schedulers run, the clock moves on, a dead replica is restarted. *)
FairSpec ==
    /\ Spec
    /\ WF_vars(Tick)
    /\ \A p \in Replicas : WF_vars(Schedule(p)) /\ WF_vars(Restart(p))

-----------------------------------------------------------------------------
TemplateState == [status : {"absent", "active", "deleted"}, saved : Int,
                  days : SUBSET Int, paused : BOOLEAN]
RowState == [tpl : Templates, due : Int, on : Int, live : BOOLEAN]
PassState == [pc : {"sleep", "lock", "down", "user", "load", "date", "charge", "release"},
              next : Nat, today : Int, todo : SUBSET Users, user : Users \cup {NoUser},
              step : 1..3, date : Int, left : SUBSET Templates,
              snap : [Templates -> TemplateState],
              failed : SUBSET ((Users \cup {NoUser}) \X KindNames)]
PayerState == [pc : {"idle", "insert"}, tpl : Templates \cup {"none"}, due : Int, on : Int]

(* Every variable has its type. *)
TypeOK ==
    /\ now \in Nat
    /\ template \in [Templates -> TemplateState]
    /\ rows \subseteq RowState
    /\ lock \in Replicas \cup {Free}
    /\ pass \in [Replicas -> PassState]
    /\ payer \in PayerState
    /\ payer.pc = "insert" => payer.tpl \in Templates
    /\ edits \in Nat /\ faults \in Nat

(* An occurrence is recorded at most once, as a charge, an early payment or  *)
(* a tombstone: nothing is duplicated or resurrected (daily_expenses.rs:     *)
(* 25-28), even when the lock's session is lost and two passes overlap.     *)
OneRowPerOccurrence ==
    \A r, s \in rows : r.tpl = s.tpl /\ r.due = s.due => r = s

(* The same, of every step: the rows are a table of slots, one for each      *)
(* occurrence, that charges, early payments and deletions fill and close.   *)
Slots == INSTANCE SlotTable WITH
    entries <- {[slot |-> <<r.tpl, r.due>>, what |-> r.on, closed |-> ~r.live] : r \in rows}
RowsFillSlots == Slots!Spec

(* The advisory lock keeps passes of different replicas apart as long as the *)
(* session that holds it lives.                                             *)
OnePassAtATime ==
    \A p, q \in Replicas : Running(p) /\ Running(q) => p = q

(* What makes it inductive: only the holder of the lock runs a pass. *)
HolderRuns == \A p \in Replicas : Running(p) => lock = p

(* What a pass in state s, with the rows rs committed, has settled of the    *)
(* template t as it loaded it.                                              *)
Window(s) == (s.today - CatchUpDays)..s.today
Settled(rs, s, t, d) ==
    DueOn(s.snap[t], d) =>
        OccupiedIn(rs, t, d) \/ <<Owner[t], Kind[t]>> \in s.failed
AllSettled(rs, s, t) == \A d \in Window(s) : Settled(rs, s, t, d)

(* When a pass is over, every occurrence of its days that the templates it   *)
(* loaded called for is recorded, whichever day was missed before and       *)
(* whatever failed for other users or in other steps.                       *)
PassCatchesUp ==
    \A p \in Replicas :
        pass[p].pc = "release" => \A t \in Templates : AllSettled(rows, pass[p], t)

(* A charge is of an occurrence its template calls for, so that an edit, a   *)
(* deletion or an archived account takes effect from its own day on, unless  *)
(* the step under way had loaded the template before; an early payment is    *)
(* of what was due when it was asked for.                                   *)
ChargesFollowTemplates ==
    [][\A r \in rows' : r.live /\ ~OccupiedIn(rows, r.tpl, r.due) =>
        \/ DueOn(template[r.tpl], r.due)
        \/ payer.pc = "insert" /\ payer.tpl = r.tpl /\ payer.due = r.due
        \/ \E p \in Replicas :
              pass[p].pc = "charge" /\ pass[p].snap[r.tpl] # template[r.tpl]]_vars

(* What makes it inductive: the users that are done, the steps that are done *)
(* for the user at hand, the days that are done in the step at hand and the  *)
(* templates that are done on the day at hand are settled.                  *)
InStep(s) == s.pc \in {"load", "date", "charge"}
EarlierStep(s, t) == \E k \in 1..3 : k < s.step /\ Kind[t] = Kinds[k]
AtRelease(rs, s) == s.pc = "release" => \A t \in Templates : AllSettled(rs, s, t)
AtUser(rs, s) ==
    s.pc = "user" => \A t \in Templates : Owner[t] \notin s.todo => AllSettled(rs, s, t)
OtherUsers(rs, s) ==
    InStep(s) => \A t \in Templates :
                    Owner[t] \notin s.todo /\ Owner[t] # s.user => AllSettled(rs, s, t)
EarlierSteps(rs, s) ==
    InStep(s) => \A t \in Templates :
                    Owner[t] = s.user /\ EarlierStep(s, t) => AllSettled(rs, s, t)
EarlierDays(rs, s) ==
    s.pc \in {"date", "charge"} =>
        \A t \in Templates, d \in Window(s) :
            OfStep(s, t) /\ d < s.date => Settled(rs, s, t, d)
ThisDay(rs, s) ==
    s.pc = "charge" =>
        \A t \in Templates : OfStep(s, t) /\ t \notin s.left => Settled(rs, s, t, s.date)
Progress(rs, s) ==
    /\ AtRelease(rs, s) /\ AtUser(rs, s)
    /\ OtherUsers(rs, s) /\ EarlierSteps(rs, s)
    /\ EarlierDays(rs, s) /\ ThisDay(rs, s)
PassesProgress == \A p \in Replicas : Progress(rows, pass[p])

(* An occurrence that falls due is recorded in the end unless its template   *)
(* is edited, deleted or paused first: a pass that a crash cut short is made *)
(* up for by the next one, of whichever replica gets the lock.              *)
EveryOccurrenceRecorded ==
    \A t \in Templates, d \in 0..(LastDay - CatchUpDays) :
        (DueOn(template[t], d) /\ d = Today)
            ~> (Occupied(t, d) \/ ~DueOn(template[t], d))
=============================================================================
