--------------------------- MODULE ScheduleProofs ---------------------------
(***************************************************************************)
(* What holds of the modules built on schedules: of Reminders for any        *)
(* subscriptions, schedules and calendar, whatever passes are cut short or   *)
(* repeated; and of PayPeriods, that the dates a schedule means are those    *)
(* its loops list and that the periods of a range follow each other.         *)
(***************************************************************************)
EXTENDS Reminders, FiniteSetTheorems, SequenceTheorems, TLAPS

-----------------------------------------------------------------------------
ScheduleSet == Schedules \cup {NoSchedule}
Charges == {NextOccurrence(s, date) : s \in ScheduleSet, date \in Nat}
TemplateState == [status : {"absent", "live", "deleted"}, subscription : BOOLEAN,
                  enabled : BOOLEAN, schedule : ScheduleSet, saves : Nat]
PassState == [pc : {"idle", "load", "record"}, today : Nat, todo : SUBSET Recurring,
              snap : [Recurring -> TemplateState]]
RowState == [tpl : Recurring, charge : Charges, kind : ReminderKinds, dismissed : BOOLEAN, of : Nat]

RemindersTyped ==
    /\ now \in Nat
    /\ recurring \in [Recurring -> TemplateState]
    /\ pass \in PassState
    /\ reminder \subseteq RowState

(* The unique index of subscription_reminders. *)
OneRowPerReminder ==
    \A r, s \in reminder : r.tpl = s.tpl /\ r.charge = s.charge /\ r.kind = s.kind => r = s

RemindersInv == RemindersTyped /\ OneRowPerReminder

-----------------------------------------------------------------------------
LEMMA NoTemplateTyped == NoTemplate \in TemplateState
BY DEF NoTemplate, TemplateState, ScheduleSet

LEMMA IdleTyped ==
    /\ IdlePass \in PassState
    /\ \A n \in Nat : [IdlePass EXCEPT !.pc = "load", !.today = n] \in PassState
<1>1. IdlePass \in PassState
  BY NoTemplateTyped DEF IdlePass, PassState
<1> QED
  BY <1>1 DEF PassState

LEMMA LoadTyped ==
    ASSUME NEW p \in PassState, NEW snap \in [Recurring -> TemplateState], NEW todo \in SUBSET Recurring
    PROVE  [p EXCEPT !.pc = "record", !.snap = snap, !.todo = todo] \in PassState
BY DEF PassState

LEMMA TodoTyped ==
    ASSUME NEW p \in PassState, NEW t
    PROVE  [p EXCEPT !.todo = @ \ {t}] \in PassState
BY DEF PassState

LEMMA SavedTyped ==
    ASSUME NEW row \in TemplateState, NEW n \in Nat
    PROVE  [row EXCEPT !.saves = n] \in TemplateState
BY DEF TemplateState

LEMMA DefinitionTyped ==
    ASSUME NEW row \in TemplateState, NEW sub \in BOOLEAN, NEW s \in ScheduleSet
    PROVE  /\ [row EXCEPT !.status = "live", !.subscription = sub, !.schedule = s] \in TemplateState
           /\ [row EXCEPT !.subscription = sub, !.schedule = s] \in TemplateState
BY DEF TemplateState

LEMMA FlagTyped ==
    ASSUME NEW row \in TemplateState, NEW on \in BOOLEAN
    PROVE  /\ [row EXCEPT !.enabled = on] \in TemplateState
           /\ [row EXCEPT !.status = "deleted", !.enabled = on] \in TemplateState
BY DEF TemplateState

(* A step that leaves the reminders as they are.                            *)
LEMMA SameReminders ==
    ASSUME RemindersInv, reminder' = reminder, now' \in Nat, pass' \in PassState,
           recurring' \in [Recurring -> TemplateState]
    PROVE  RemindersInv'
BY DEF RemindersInv, RemindersTyped, OneRowPerReminder

LEMMA SaveKeeps ==
    ASSUME RemindersInv, NEW t \in Recurring, NEW row \in TemplateState, Save(t, row)
    PROVE  RemindersInv'
<1>1. recurring \in [Recurring -> TemplateState] /\ now \in Nat /\ pass \in PassState
  BY DEF RemindersInv, RemindersTyped
<1>2. recurring[t].saves + 1 \in Nat
  BY <1>1 DEF TemplateState
<1> DEFINE n == recurring[t].saves + 1
           new == [row EXCEPT !.saves = n]
<1>3. new \in TemplateState
  <2> HIDE DEF n
  <2> QED
    BY <1>2, SavedTyped DEF n
<1>4. recurring' = [recurring EXCEPT ![t] = new] /\ UNCHANGED <<now, reminder, pass>>
  BY DEF Save
<1> HIDE DEF new
<1> QED
  BY <1>1, <1>3, <1>4, SameReminders

-----------------------------------------------------------------------------
(* What a step of the pass, or a dismissal, does to the reminders.           *)
Free(tpl, charge, kind) == ~\E r \in reminder : r.tpl = tpl /\ r.charge = charge /\ r.kind = kind
Adds(tpl, charge, kind, of) ==
    /\ Free(tpl, charge, kind)
    /\ reminder' = reminder \cup {[tpl |-> tpl, charge |-> charge, kind |-> kind,
                                   dismissed |-> FALSE, of |-> of]}

LEMMA RecordAdds ==
    ASSUME RemindersTyped, NEW t \in Recurring, Record(t)
    PROVE  \/ reminder' = reminder
           \/ \E charge \in Charges, kind \in ReminderKinds, of \in Nat : Adds(t, charge, kind, of)
<1> DEFINE row == pass.snap[t]
           charge == NextOccurrence(row.schedule, pass.today)
           due == Due(row.schedule, pass.today)
           d == CHOOSE e \in due : TRUE
<1>1. row.schedule \in ScheduleSet /\ row.saves \in Nat /\ pass.today \in Nat
  BY DEF RemindersTyped, PassState, TemplateState
<1>2. charge \in Charges
  BY <1>1 DEF Charges
<1>3. CASE due = {}
  BY <1>3 DEF Record
<1>4. CASE due # {}
  <2>1. d \in due
    BY <1>4
  <2>2. reminder' = Upsert(reminder, t, d, row.saves)
    BY <1>4 DEF Record
  <2>3. PICK k \in ReminderKinds : d = [charge |-> charge, kind |-> k]
    <3>1. \A e \in due : \E k \in ReminderKinds : e = [charge |-> charge, kind |-> k]
      BY DEF Due
    <3> HIDE DEF due, charge, d
    <3> QED
      BY <2>1, <3>1
  <2>4. d.charge = charge /\ d.kind = k
    <3> HIDE DEF d, charge
    <3> QED
      BY <2>3
  <2> HIDE DEF row, charge, due, d
  <2>5. CASE \E r \in reminder : r.tpl = t /\ r.charge = d.charge /\ r.kind = d.kind
    BY <2>2, <2>5 DEF Upsert
  <2>6. CASE ~\E r \in reminder : r.tpl = t /\ r.charge = d.charge /\ r.kind = d.kind
    <3>1. Adds(t, charge, k, row.saves)
      BY <2>2, <2>4, <2>6 DEF Upsert, Adds, Free
    <3> QED
      BY <1>1, <1>2, <3>1
  <2> QED
    BY <2>5, <2>6
<1> QED
  BY <1>3, <1>4

LEMMA AddsKeeps ==
    ASSUME RemindersInv, NEW t \in Recurring, NEW charge \in Charges, NEW kind \in ReminderKinds, NEW of \in Nat,
           Adds(t, charge, kind, of)
    PROVE  reminder' \subseteq RowState /\ OneRowPerReminder'
<1> DEFINE n == [tpl |-> t, charge |-> charge, kind |-> kind, dismissed |-> FALSE, of |-> of]
<1>1. n \in RowState /\ n.tpl = t /\ n.charge = charge /\ n.kind = kind
  BY DEF RowState
<1>2. reminder' = reminder \cup {n} /\ Free(t, charge, kind)
  BY DEF Adds
<1> HIDE DEF n
<1> QED
  BY <1>1, <1>2 DEF RemindersInv, RemindersTyped, OneRowPerReminder, Free

LEMMA DismissedFields ==
    ASSUME NEW r \in RowState, NEW b \in BOOLEAN
    PROVE  /\ [r EXCEPT !.dismissed = b] \in RowState /\ [r EXCEPT !.dismissed = b].tpl = r.tpl
           /\ [r EXCEPT !.dismissed = b].charge = r.charge /\ [r EXCEPT !.dismissed = b].kind = r.kind
           /\ [r EXCEPT !.dismissed = b].of = r.of
           /\ [r EXCEPT !.dismissed = b].dismissed = b
BY DEF RowState

LEMMA DismissKeeps ==
    ASSUME RemindersInv, NEW r \in reminder, Dismiss(r)
    PROVE  reminder' \subseteq RowState /\ OneRowPerReminder'
<1> DEFINE n == [r EXCEPT !.dismissed = TRUE]
<1>0. r \in RowState
  BY DEF RemindersInv, RemindersTyped
<1>1. n \in RowState /\ n.tpl = r.tpl /\ n.charge = r.charge /\ n.kind = r.kind
  BY <1>0, DismissedFields
<1>2. reminder' = (reminder \ {r}) \cup {n}
  BY DEF Dismiss
<1> HIDE DEF n
<1> QED
  BY <1>1, <1>2 DEF RemindersInv, RemindersTyped, OneRowPerReminder

(* What a step does to the reminders.                                       *)
RemindersChange ==
    \/ UNCHANGED reminder
    \/ \E t \in Recurring, charge \in Charges, kind \in ReminderKinds, of \in Nat : Adds(t, charge, kind, of)
    \/ \E r \in reminder : Dismiss(r)

LEMMA StepChangesReminders ==
    ASSUME RemindersTyped, [RemindersNext]_reminderVars PROVE RemindersChange
<1>1. ASSUME NEW t \in Recurring, Record(t) PROVE RemindersChange
  BY <1>1, RecordAdds DEF RemindersChange
<1>2. ASSUME NEW r \in reminder, Dismiss(r) PROVE RemindersChange
  BY <1>2 DEF RemindersChange
<1>3. ASSUME NEW t \in Recurring,
             \/ DeleteRecurring(t) \/ \E enabled \in BOOLEAN : SetCancelReminder(t, enabled)
             \/ \E s \in Schedules, subscription \in BOOLEAN :
                    CreateRecurring(t, s, subscription) \/ UpdateRecurring(t, s, subscription)
      PROVE  RemindersChange
  BY <1>3 DEF RemindersChange, DeleteRecurring, SetCancelReminder, CreateRecurring, UpdateRecurring, Save
<1>4. CASE BeginPass \/ LoadCandidates \/ EndStep \/ Abort \/ NextDay \/ UNCHANGED reminderVars
  BY <1>4 DEF RemindersChange, BeginPass, LoadCandidates, EndStep, Abort, NextDay, reminderVars
<1> QED
  BY <1>1, <1>2, <1>3, <1>4 DEF RemindersNext

LEMMA StepKeepsRemindersInv == ASSUME RemindersInv, [RemindersNext]_reminderVars PROVE RemindersInv'
<1>0. /\ now \in Nat /\ pass \in PassState /\ recurring \in [Recurring -> TemplateState]
      /\ reminder \subseteq RowState
  BY DEF RemindersInv, RemindersTyped
<1>1. ASSUME NEW t \in Recurring, Record(t) PROVE RemindersInv'
  <2>1. reminder' \subseteq RowState /\ OneRowPerReminder'
    BY <1>1, RecordAdds, AddsKeeps DEF RemindersInv, RemindersTyped, OneRowPerReminder
  <2>2. pass' \in PassState /\ UNCHANGED <<now, recurring>>
    <3>1. pass' = [pass EXCEPT !.todo = @ \ {t}] /\ UNCHANGED <<now, recurring>>
      BY <1>1 DEF Record
    <3> QED
      BY <1>0, <3>1, TodoTyped
  <2> QED
    BY <1>0, <2>1, <2>2 DEF RemindersInv, RemindersTyped
<1>2. ASSUME NEW r \in reminder, Dismiss(r) PROVE RemindersInv'
  <2>1. reminder' \subseteq RowState /\ OneRowPerReminder'
    BY <1>2, DismissKeeps
  <2> QED
    BY <1>0, <1>2, <2>1 DEF RemindersInv, RemindersTyped, Dismiss
<1>3. ASSUME NEW t \in Recurring, DeleteRecurring(t) PROVE RemindersInv'
  <2> DEFINE old == recurring[t]
             off == FALSE
             row == [old EXCEPT !.status = "deleted", !.enabled = off]
  <2>1. row \in TemplateState
    <3>1. old \in TemplateState /\ off \in BOOLEAN
      BY <1>0
    <3> HIDE DEF old, off
    <3> QED
      BY <3>1, FlagTyped
  <2>2. Save(t, row)
    BY <1>3 DEF DeleteRecurring
  <2> HIDE DEF row
  <2> QED
    BY <2>1, <2>2, SaveKeeps
<1>4. ASSUME NEW t \in Recurring, NEW enabled \in BOOLEAN, SetCancelReminder(t, enabled)
      PROVE  RemindersInv'
  <2> DEFINE old == recurring[t]
             row == [old EXCEPT !.enabled = enabled]
  <2>1. row \in TemplateState
    <3>1. old \in TemplateState
      BY <1>0
    <3> HIDE DEF old
    <3> QED
      BY <3>1, FlagTyped
  <2>2. Save(t, row)
    BY <1>4 DEF SetCancelReminder
  <2> HIDE DEF row
  <2> QED
    BY <2>1, <2>2, SaveKeeps
<1>5. ASSUME NEW t \in Recurring, NEW s \in Schedules, NEW subscription \in BOOLEAN,
             CreateRecurring(t, s, subscription)
      PROVE  RemindersInv'
  <2> DEFINE row == [NoTemplate EXCEPT !.status = "live", !.subscription = subscription,
                                       !.schedule = s]
  <2>1. row \in TemplateState
    <3>1. s \in ScheduleSet
      BY DEF ScheduleSet
    <3> QED
      BY <3>1, NoTemplateTyped, DefinitionTyped
  <2>2. Save(t, row)
    BY <1>5 DEF CreateRecurring
  <2> HIDE DEF row
  <2> QED
    BY <2>1, <2>2, SaveKeeps
<1>6. ASSUME NEW t \in Recurring, NEW s \in Schedules, NEW subscription \in BOOLEAN,
             UpdateRecurring(t, s, subscription)
      PROVE  RemindersInv'
  <2> DEFINE old == recurring[t]
             row == [old EXCEPT !.subscription = subscription, !.schedule = s]
  <2>1. row \in TemplateState
    <3>1. s \in ScheduleSet /\ old \in TemplateState
      BY <1>0 DEF ScheduleSet
    <3> HIDE DEF old
    <3> QED
      BY <3>1, DefinitionTyped
  <2>2. Save(t, row)
    BY <1>6 DEF UpdateRecurring
  <2> HIDE DEF row
  <2> QED
    BY <2>1, <2>2, SaveKeeps
<1>7. CASE BeginPass
  BY <1>0, <1>7, IdleTyped, SameReminders DEF BeginPass
<1>8. CASE LoadCandidates
  <2> DEFINE todo == {t \in Recurring : Candidate(recurring[t])}
  <2>1. /\ pass' = [pass EXCEPT !.pc = "record", !.snap = recurring, !.todo = todo]
        /\ todo \in SUBSET Recurring /\ UNCHANGED <<now, recurring, reminder>>
    BY <1>8 DEF LoadCandidates
  <2> HIDE DEF todo
  <2>2. pass' \in PassState
    BY <1>0, <2>1, LoadTyped
  <2> QED
    BY <1>0, <2>1, <2>2, SameReminders
<1>9. CASE EndStep \/ Abort
  BY <1>0, <1>9, IdleTyped, SameReminders DEF EndStep, Abort
<1>10. CASE NextDay
  BY <1>0, <1>10, SameReminders DEF NextDay
<1>11. CASE UNCHANGED reminderVars
  BY <1>0, <1>11, SameReminders DEF reminderVars
<1> QED
  BY <1>1, <1>2, <1>3, <1>4, <1>5, <1>6, <1>7, <1>8, <1>9, <1>10, <1>11 DEF RemindersNext

(* The states are typed, and the unique index on the template, the charge    *)
(* date and the kind holds: on_conflict_do_nothing never adds a second row,  *)
(* and dismiss changes a row in place.                                      *)
THEOREM RemindersInvariant == RemindersSpec => []RemindersInv
<1>1. RemindersInit => RemindersInv
  <2> SUFFICES ASSUME RemindersInit PROVE RemindersInv
    OBVIOUS
  <2>1. recurring \in [Recurring -> TemplateState]
    BY NoTemplateTyped DEF RemindersInit
  <2>2. pass \in PassState
    BY IdleTyped DEF RemindersInit
  <2>3. now \in Nat /\ reminder = {}
    BY DEF RemindersInit
  <2> QED
    BY <2>1, <2>2, <2>3 DEF RemindersInv, RemindersTyped, OneRowPerReminder
<1>2. RemindersInv /\ [RemindersNext]_reminderVars => RemindersInv'
  BY StepKeepsRemindersInv
<1> QED
  BY <1>1, <1>2, PTL DEF RemindersSpec

-----------------------------------------------------------------------------
(* The reminders as a table of slots. *)

Entry(r) == [slot |-> <<r.tpl, r.charge, r.kind>>, what |-> r.of, closed |-> r.dismissed]
Entries(rs) == {Entry(r) : r \in rs}

LEMMA AddsFills ==
    ASSUME NEW t, NEW charge, NEW kind, NEW of, Adds(t, charge, kind, of)
    PROVE  Slots!Fill
<1> DEFINE n == [tpl |-> t, charge |-> charge, kind |-> kind, dismissed |-> FALSE, of |-> of]
           e == Entry(n)
<1>1. e.slot = <<t, charge, kind>> /\ ~e.closed
  BY DEF Entry
<1>2. reminder' = reminder \cup {n}
  BY DEF Adds
<1> HIDE DEF n
<1>3. Entries(reminder') = Entries(reminder) \cup {e} /\ e \in Entries(reminder')
  BY <1>2 DEF Entries
<1>4. \A f \in Entries(reminder) : f.slot # e.slot
  BY <1>1 DEF Entries, Entry, Adds, Free
<1> HIDE DEF e
<1> QED
  BY <1>1, <1>3, <1>4 DEF Slots!Fill, Entries, Entry

LEMMA DismissCloses ==
    ASSUME RemindersInv, NEW r \in reminder, Dismiss(r)
    PROVE  Slots!Close
<1> DEFINE n == [r EXCEPT !.dismissed = TRUE]
           e == Entry(r)
           f == Entry(n)
<1>0. r \in RowState
  BY DEF RemindersInv, RemindersTyped
<1>1. r.dismissed = FALSE
  BY <1>0 DEF Dismiss, RowState
<1>2. n.tpl = r.tpl /\ n.charge = r.charge /\ n.kind = r.kind /\ n.of = r.of /\ n.dismissed = TRUE
  BY <1>0, DismissedFields
<1>3. /\ e = [slot |-> <<r.tpl, r.charge, r.kind>>, what |-> r.of, closed |-> FALSE]
      /\ f = [slot |-> <<r.tpl, r.charge, r.kind>>, what |-> r.of, closed |-> TRUE]
  <2> HIDE DEF n
  <2> QED
    BY <1>1, <1>2 DEF Entry
<1>4. f = [slot |-> e.slot, what |-> e.what, closed |-> TRUE] /\ e.closed = FALSE
  BY <1>3
<1>5. \A s \in reminder \ {r} : Entry(s) # e
  BY DEF Entry, RemindersInv, OneRowPerReminder
<1>6. reminder' = (reminder \ {r}) \cup {n}
  BY DEF Dismiss
<1> HIDE DEF n
<1>7. Entries(reminder \ {r}) = Entries(reminder) \ {e}
  <2> HIDE DEF f
  <2> QED
    BY <1>5 DEF Entries
<1>8. Entries(reminder') = Entries(reminder \ {r}) \cup {f} /\ e \in Entries(reminder)
  BY <1>6 DEF Entries
<1>9. Entries(reminder') = (Entries(reminder) \ {e}) \cup {f} /\ e \in Entries(reminder)
  <2> HIDE DEF e, f
  <2> QED
    BY <1>7, <1>8
<1> HIDE DEF e, f
<1>10. \E x \in Entries(reminder) :
          /\ ~x.closed
          /\ Entries(reminder') = (Entries(reminder) \ {x})
                                    \cup {[slot |-> x.slot, what |-> x.what, closed |-> TRUE]}
  BY <1>4, <1>9
<1> QED
  BY <1>10 DEF Slots!Close, Entries, Entry

(* No pass brings a dismissed reminder back or records one twice: the upsert *)
(* and dismiss of repos/subscription_reminders.rs only fill free slots and   *)
(* close open ones, whatever days and templates the passes work from.       *)
THEOREM RemindersImplementSlots == RemindersSpec => RemindersFillSlots
<1>1. RemindersInit => Slots!Init
  BY DEF RemindersInit, Slots!Init
<1>2. RemindersInv /\ [RemindersNext]_reminderVars
        => [Slots!Fill \/ Slots!Close]_{[slot |-> <<r.tpl, r.charge, r.kind>>, what |-> r.of,
                                         closed |-> r.dismissed] : r \in reminder}
  <2> SUFFICES ASSUME RemindersInv, RemindersChange
               PROVE  [Slots!Fill \/ Slots!Close]_{[slot |-> <<r.tpl, r.charge, r.kind>>, what |-> r.of,
                                                    closed |-> r.dismissed] : r \in reminder}
    BY StepChangesReminders DEF RemindersInv
  <2>1. CASE UNCHANGED reminder
    BY <2>1
  <2>2. ASSUME NEW t \in Recurring, NEW charge \in Charges, NEW kind \in ReminderKinds, NEW of \in Nat,
               Adds(t, charge, kind, of)
        PROVE  Slots!Fill
    BY <2>2, AddsFills
  <2>3. ASSUME NEW r \in reminder, Dismiss(r) PROVE Slots!Close
    BY <2>3, DismissCloses
  <2> QED
    BY <2>1, <2>2, <2>3 DEF RemindersChange
<1> QED
  BY <1>1, <1>2, RemindersInvariant, PTL DEF RemindersSpec, RemindersFillSlots, Slots!Spec

-----------------------------------------------------------------------------
(* What is listed and what is recorded: facts about the calendar first. *)

(* Any numbers have a least: of the intervals up to them, the smallest.      *)
LEMMA Least ==
    ASSUME NEW T \in SUBSET Nat, T # {}
    PROVE  \E m \in T : \A n \in T : m <= n
<1> DEFINE R == StrictSubsetOrdering(Nat)
           F == FiniteSubsetsOf(Nat)
           U == {0..n : n \in T}
<1>1. U \subseteq F /\ U # {}
  <2>1. \A n \in T : 0..n \in F
    BY FS_Interval DEF FiniteSubsetsOf
  <2> QED
    BY <2>1
<1>2. PICK u \in U : \A v \in U : ~(<<v, u>> \in R)
  <2>1. IsWellFoundedOn(R, F)
    BY FS_StrictSubsetOrderingWellFounded
  <2> HIDE DEF R, F, U
  <2> QED
    BY <1>1, <2>1, WFMin
<1>3. PICK m \in T : u = 0..m
  BY <1>2
<1>4. ASSUME NEW n \in T, n < m PROVE FALSE
  <2>1. 0..n \in U /\ 0..n \subseteq 0..m /\ m \notin 0..n /\ m \in 0..m
    BY <1>4
  <2>2. 0..n # 0..m
    BY <2>1
  <2>3. <<0..n, 0..m>> \in R
    BY <2>1, <2>2 DEF StrictSubsetOrdering
  <2> QED
    BY <1>2, <1>3, <2>1, <2>3
<1>5. \A n \in T : m <= n
  BY <1>4
<1> QED
  BY <1>5

-----------------------------------------------------------------------------
(* The calendar. *)

(* Months follow each other.                                                *)
LEMMA MonthsFollow ==
    \A j \in Months : \A i \in 0..j : MonthStart[i] + 28 * (j - i) <= MonthStart[j]
<1> DEFINE Bad == {j \in Months : \E i \in 0..j : ~(MonthStart[i] + 28 * (j - i) <= MonthStart[j])}
<1>0. LastMonth \in Nat /\ Months = 0..LastMonth /\ \A k \in Months : MonthStart[k] \in Nat
  BY CalendarAssumption DEF Months
<1>1. SUFFICES ASSUME Bad # {} PROVE FALSE
  OBVIOUS
<1>2. PICK j \in Bad : \A k \in Bad : j <= k
  <2>1. Bad \in SUBSET Nat
    BY <1>0
  <2> HIDE DEF Bad
  <2> QED
    BY <1>1, <2>1, Least
<1>3. PICK i \in 0..j : ~(MonthStart[i] + 28 * (j - i) <= MonthStart[j])
  OBVIOUS
<1>4. i # j
  BY <1>0, <1>3
<1>5. j - 1 \in Months /\ j - 1 \notin Bad /\ i \in 0..(j - 1) /\ j \in Nat
  BY <1>0, <1>2, <1>3, <1>4
<1>6. MonthStart[i] + 28 * (j - 1 - i) <= MonthStart[j - 1]
  BY <1>5
<1>7. MonthStart[j] - MonthStart[j - 1] \in 28..31
  <2>1. j - 1 \in 0..(LastMonth - 1) /\ j - 1 + 1 = j
    BY <1>0, <1>5
  <2> QED
    BY <2>1, CalendarAssumption
<1>8. MonthStart[i] \in Nat /\ MonthStart[j] \in Nat /\ MonthStart[j - 1] \in Nat
  BY <1>0, <1>5
<1> HIDE DEF Bad
<1> QED
  BY <1>3, <1>5, <1>6, <1>7, <1>8

(* The months a date can be in.                                             *)
MonthIndex == 0..(LastMonth - 1)

LEMMA MonthFacts ==
    /\ LastMonth \in Nat /\ LastMonth > 0
    /\ \A k \in MonthIndex : /\ k \in Nat /\ MonthStart[k] \in Nat /\ MonthStart[k + 1] \in Nat
                             /\ MonthStart[k + 1] - MonthStart[k] \in 28..31
                             /\ DaysInMonth(k) \in 28..31 /\ DaysInMonth(k) = MonthStart[k + 1] - MonthStart[k]
                             /\ MonthStart[0] <= MonthStart[k] /\ MonthStart[k + 1] <= MonthStart[LastMonth]
    /\ \A k, l \in MonthIndex : k < l => MonthStart[k + 1] <= MonthStart[l]
<1>0. LastMonth \in Nat /\ LastMonth > 0 /\ Months = 0..LastMonth
  BY CalendarAssumption DEF Months
<1>1. ASSUME NEW k \in MonthIndex
      PROVE  /\ k \in Nat /\ MonthStart[k] \in Nat /\ MonthStart[k + 1] \in Nat
             /\ MonthStart[k + 1] - MonthStart[k] \in 28..31
             /\ MonthStart[0] <= MonthStart[k] /\ MonthStart[k + 1] <= MonthStart[LastMonth]
  <2>1. k \in Months /\ k + 1 \in Months /\ 0 \in 0..k /\ k + 1 \in 0..LastMonth /\ LastMonth \in Months
    BY <1>0 DEF MonthIndex
  <2>2. MonthStart[0] + 28 * (k - 0) <= MonthStart[k]
    BY <2>1, MonthsFollow
  <2>3. MonthStart[k + 1] + 28 * (LastMonth - (k + 1)) <= MonthStart[LastMonth]
    BY <2>1, MonthsFollow
  <2>4. MonthStart[k] \in Nat /\ MonthStart[k + 1] \in Nat /\ MonthStart[0] \in Nat /\ MonthStart[LastMonth] \in Nat
    BY <1>0, <2>1, CalendarAssumption
  <2>5. MonthStart[k + 1] - MonthStart[k] \in 28..31
    BY CalendarAssumption DEF MonthIndex
  <2> QED
    BY <1>0, <2>1, <2>2, <2>3, <2>4, <2>5
<1>2. ASSUME NEW k \in MonthIndex, NEW l \in MonthIndex, k < l PROVE MonthStart[k + 1] <= MonthStart[l]
  <2>1. l \in Months /\ k + 1 \in 0..l /\ l - (k + 1) \in Nat
    BY <1>0, <1>2 DEF MonthIndex
  <2>2. MonthStart[k + 1] + 28 * (l - (k + 1)) <= MonthStart[l]
    BY <2>1, MonthsFollow
  <2> QED
    BY <1>1, <2>1, <2>2
<1> QED
  BY <1>0, <1>1, <1>2 DEF DaysInMonth

LEMMA DateFacts ==
    /\ MonthStart[0] \in Nat /\ MonthStart[LastMonth] \in Nat /\ Dates \subseteq Nat
    /\ \A date \in Int : date \in Dates <=> MonthStart[0] <= date /\ date < MonthStart[LastMonth]
BY CalendarAssumption DEF Dates, Months

(* Every date is in one month.                                              *)
LEMMA MonthOfIs ==
    ASSUME NEW date \in Dates
    PROVE  /\ MonthOf[date] \in MonthIndex
           /\ MonthStart[MonthOf[date]] <= date /\ date < MonthStart[MonthOf[date] + 1]
<1> DEFINE T == {k \in MonthIndex : date < MonthStart[k + 1]}
<1>0. date \in Nat /\ MonthStart[0] <= date /\ date < MonthStart[LastMonth]
  BY DateFacts
<1>1. T \in SUBSET Nat /\ T # {}
  <2>1. LastMonth - 1 \in MonthIndex /\ LastMonth - 1 + 1 = LastMonth
    BY MonthFacts DEF MonthIndex
  <2>2. LastMonth - 1 \in T
    BY <1>0, <2>1
  <2> QED
    BY <2>2, MonthFacts
<1>2. PICK m \in T : \A n \in T : m <= n
  <2> HIDE DEF T
  <2> QED
    BY <1>1, Least
<1>3. MonthStart[m] <= date
  <2>1. CASE m = 0
    BY <1>0, <2>1
  <2>2. CASE m # 0
    <3>1. m - 1 \in MonthIndex /\ m - 1 + 1 = m /\ m \in Nat
      BY <2>2, MonthFacts DEF MonthIndex
    <3>2. m - 1 \notin T
      BY <1>2, <3>1
    <3> QED
      BY <1>0, <3>1, <3>2, MonthFacts
  <2> QED
    BY <2>1, <2>2
<1>4. \E k \in 0..(LastMonth - 1) : MonthStart[k] <= date /\ date < MonthStart[k + 1]
  BY <1>3 DEF MonthIndex
<1>5. MonthOf[date] = CHOOSE k \in 0..(LastMonth - 1) : MonthStart[k] <= date /\ date < MonthStart[k + 1]
  BY DEF MonthOf
<1> QED
  BY <1>4, <1>5 DEF MonthIndex

(* The month a date is in is the only one.                                  *)
LEMMA MonthOfUnique ==
    ASSUME NEW date \in Dates, NEW k \in MonthIndex, MonthStart[k] <= date, date < MonthStart[k + 1]
    PROVE  MonthOf[date] = k
<1> DEFINE m == MonthOf[date]
<1>1. m \in MonthIndex /\ MonthStart[m] <= date /\ date < MonthStart[m + 1]
  BY MonthOfIs
<1> HIDE DEF m
<1>2. m \in Nat /\ k \in Nat /\ MonthStart[m] \in Nat /\ MonthStart[k] \in Nat
      /\ MonthStart[m + 1] \in Nat /\ MonthStart[k + 1] \in Nat /\ date \in Nat
  BY <1>1, MonthFacts, DateFacts
<1>3. ~(m < k)
  <2>1. m < k => MonthStart[m + 1] <= MonthStart[k]
    BY <1>1, MonthFacts
  <2> QED
    BY <1>1, <1>2, <2>1
<1>4. ~(k < m)
  <2>1. k < m => MonthStart[k + 1] <= MonthStart[m]
    BY <1>1, MonthFacts
  <2> QED
    BY <1>1, <1>2, <2>1
<1>5. m = k
  BY <1>2, <1>3, <1>4
<1> QED
  BY <1>5 DEF m

LEMMA MonthBefore ==
    ASSUME NEW d \in Dates, NEW e \in Dates, d <= e
    PROVE  MonthOf[d] <= MonthOf[e]
<1>1. /\ MonthOf[d] \in MonthIndex /\ MonthStart[MonthOf[d]] <= d
      /\ MonthOf[e] \in MonthIndex /\ e < MonthStart[MonthOf[e] + 1]
  BY MonthOfIs
<1>2. MonthOf[e] < MonthOf[d] => MonthStart[MonthOf[e] + 1] <= MonthStart[MonthOf[d]]
  BY <1>1, MonthFacts
<1> QED
  BY <1>1, <1>2, MonthFacts, DateFacts

(* A day of a month, clamped to its last, is a date of that month.           *)
LEMMA ClampedIs ==
    ASSUME NEW k \in MonthIndex, NEW day \in 1..31
    PROVE  /\ ClampedDate(k, day) \in Dates /\ MonthOf[ClampedDate(k, day)] = k
           /\ MonthStart[k] <= ClampedDate(k, day) /\ ClampedDate(k, day) < MonthStart[k + 1]
           /\ day <= 28 => ClampedDate(k, day) = MonthStart[k] + day - 1
           /\ day > 5 => ClampedDate(k, day) > MonthStart[k] + 4
<1> DEFINE c == ClampedDate(k, day)
<1>1. /\ c \in Int /\ MonthStart[k] <= c /\ c < MonthStart[k + 1]
      /\ day <= 28 => c = MonthStart[k] + day - 1
      /\ day > 5 => c > MonthStart[k] + 4
  BY MonthFacts DEF ClampedDate, LeastOf
<1>2. c \in Dates
  <2> HIDE DEF c
  <2> QED
    BY <1>1, MonthFacts, DateFacts
<1> HIDE DEF c
<1>3. MonthOf[c] = k
  BY <1>1, <1>2, MonthOfUnique
<1> QED
  BY <1>1, <1>2, <1>3 DEF c

LEMMA DayOfIs ==
    ASSUME NEW date \in Dates
    PROVE  /\ DayOf(date) \in 1..31 /\ date = MonthStart[MonthOf[date]] + DayOf(date) - 1
           /\ ClampedDate(MonthOf[date], DayOf(date)) = date
<1> DEFINE k == MonthOf[date]
<1>1. k \in MonthIndex /\ MonthStart[k] <= date /\ date < MonthStart[k + 1]
  BY MonthOfIs
<1>2. DayOf(date) = date - MonthStart[k] + 1
  BY DEF DayOf
<1> HIDE DEF k
<1>3. date \in Nat /\ MonthStart[k] \in Nat /\ MonthStart[k + 1] - MonthStart[k] \in 28..31 /\ MonthStart[k + 1] \in Nat
  BY <1>1, MonthFacts, DateFacts
<1>4. DayOf(date) \in 1..31 /\ date = MonthStart[k] + DayOf(date) - 1
  BY <1>1, <1>2, <1>3
<1>5. ClampedDate(k, DayOf(date)) = date
  BY <1>1, <1>2, <1>3 DEF ClampedDate, LeastOf, DaysInMonth
<1> QED
  BY <1>4, <1>5 DEF k

-----------------------------------------------------------------------------
(* The grid of pay dates of a schedule. *)

PayMonths(s) == {k \in MonthIndex : s.frequency = "yearly" => k % 12 = MonthOf[s.anchor] % 12}
Grid(s) == IF IsInterval(s) THEN {d \in Int : (d - s.anchor) % IntervalDays(s) = 0}
                            ELSE {PayDateIn(s, k) : k \in PayMonths(s)}

LEMMA ScheduleFacts ==
    ASSUME NEW s \in ScheduleType
    PROVE  /\ s.anchor \in Dates /\ s.anchor \in Nat /\ DayOf(s.anchor) \in 1..31
           /\ s.last \in Dates \cup {NoDate} /\ s.last \in Int
           /\ s.frequency \in Frequencies
           /\ IsInterval(s) => IntervalDays(s) \in {7, 14}
           /\ ~IsInterval(s) => s.frequency \in {"monthly", "yearly"}
<1>1. s.anchor \in Dates /\ s.last \in Dates \cup {NoDate} /\ s.frequency \in Frequencies
  BY DEF ScheduleType
<1>2. IsInterval(s) => IntervalDays(s) \in {7, 14}
  BY DEF IntervalDays
<1>3. ~IsInterval(s) => s.frequency \in {"monthly", "yearly"}
  BY <1>1 DEF IsInterval, Frequencies
<1>4. DayOf(s.anchor) \in 1..31
  BY <1>1, DayOfIs
<1>5. s.anchor \in Nat /\ s.last \in Int
  <2>1. \A d \in Dates : d \in Nat /\ d \in Int
    BY DateFacts
  <2>2. NoDate \in Int
    BY DEF NoDate
  <2>3. s.last \in Dates \/ s.last = NoDate
    BY <1>1
  <2> QED
    BY <1>1, <2>1, <2>2, <2>3
<1> QED
  BY <1>1, <1>2, <1>3, <1>4, <1>5

(* The pay month a date belongs to, and the one after it.                    *)
LEMMA PayMonthIs ==
    ASSUME NEW s \in ScheduleType, ~IsInterval(s), NEW date \in Dates
    PROVE  /\ PayMonth(s, date) \in Nat /\ MonthsApart(s) \in {1, 12}
           /\ PayMonth(s, date) < LastMonth => PayMonth(s, date) \in PayMonths(s)
           /\ PayMonth(s, date) + MonthsApart(s) < LastMonth
                => PayMonth(s, date) + MonthsApart(s) \in PayMonths(s)
           /\ PayMonth(s, date) + MonthsApart(s) > MonthOf[date]
           /\ MonthOf[date] \in PayMonths(s) => PayMonth(s, date) = MonthOf[date]
           /\ \A k \in PayMonths(s) : /\ k < PayMonth(s, date) => k < MonthOf[date]
                                      /\ k > PayMonth(s, date) => k >= PayMonth(s, date) + MonthsApart(s)
<1> DEFINE m == MonthOf[date]
           a == MonthOf[s.anchor]
           p == PayMonth(s, date)
<1>1. m \in MonthIndex /\ a \in MonthIndex /\ m \in Nat /\ a \in Nat /\ LastMonth \in Nat
  BY MonthOfIs, ScheduleFacts, MonthFacts
<1>2. CASE s.frequency = "yearly"
  <2>1. p = 12 * (m \div 12) + (a % 12) /\ MonthsApart(s) = 12
    BY <1>2 DEF PayMonth, MonthsApart
  <2>2. PayMonths(s) = {k \in MonthIndex : k % 12 = a % 12}
    BY <1>2 DEF PayMonths
  <2> HIDE DEF m, a, p
  <2>3. p \in Nat /\ p % 12 = a % 12 /\ (p + 12) % 12 = a % 12 /\ p + 12 > m
    BY <1>1, <2>1
  <2>4. m % 12 = a % 12 => p = m
    BY <1>1, <2>1
  <2>5. ASSUME NEW k \in Nat, k % 12 = a % 12
        PROVE  (k < p => k < m) /\ (k > p => k >= p + 12)
    BY <1>1, <2>1, <2>5
  <2>6. \A k \in PayMonths(s) : k \in Nat /\ k % 12 = a % 12
    BY <2>2, MonthFacts
  <2>7. /\ p < LastMonth => p \in PayMonths(s)
        /\ p + 12 < LastMonth => p + 12 \in PayMonths(s)
        /\ m \in PayMonths(s) => p = m
    BY <1>1, <2>2, <2>3, <2>4, <2>6 DEF MonthIndex
  <2> QED
    BY <2>1, <2>3, <2>5, <2>6, <2>7 DEF m, p
<1>3. CASE s.frequency = "monthly"
  <2>1. p = m /\ MonthsApart(s) = 1 /\ PayMonths(s) = MonthIndex
    BY <1>3 DEF PayMonth, MonthsApart, PayMonths
  <2> QED
    BY <1>1, <2>1 DEF MonthIndex
<1> QED
  BY <1>2, <1>3, ScheduleFacts

LEMMA PayDateInIs ==
    ASSUME NEW s \in ScheduleType, NEW k \in PayMonths(s)
    PROVE  /\ k \in MonthIndex /\ k \in Nat
           /\ PayDateIn(s, k) \in Dates /\ PayDateIn(s, k) \in Nat /\ MonthOf[PayDateIn(s, k)] = k
           /\ MonthStart[k] <= PayDateIn(s, k) /\ PayDateIn(s, k) < MonthStart[k + 1]
BY ScheduleFacts, ClampedIs, MonthFacts, DateFacts DEF PayMonths, PayDateIn

(* Two pay dates are more than the five days of a reminder apart.            *)
LEMMA PayDatesApart ==
    ASSUME NEW s \in ScheduleType, NEW k \in PayMonths(s), NEW l \in PayMonths(s), k < l
    PROVE  PayDateIn(s, l) - PayDateIn(s, k) > 5
<1> DEFINE day == DayOf(s.anchor)
           c == PayDateIn(s, k)
           d == PayDateIn(s, l)
<1>1. c \in Nat /\ c < MonthStart[k + 1] /\ d \in Nat /\ k \in MonthIndex /\ l \in MonthIndex
  BY PayDateInIs
<1>2. MonthStart[k + 1] <= MonthStart[l]
  BY <1>1, MonthFacts
<1>3. day \in 1..31
  BY ScheduleFacts
<1>4. /\ c = MonthStart[k] + LeastOf(day, DaysInMonth(k)) - 1
      /\ d = MonthStart[l] + LeastOf(day, DaysInMonth(l)) - 1
  BY DEF PayDateIn, ClampedDate
<1> HIDE DEF c, d, day
<1>5. /\ MonthStart[k] \in Nat /\ MonthStart[l] \in Nat /\ DaysInMonth(k) \in 28..31 /\ DaysInMonth(l) \in 28..31
      /\ MonthStart[k + 1] \in Nat /\ MonthStart[k + 1] - MonthStart[k] \in 28..31
  BY <1>1, MonthFacts
<1>6. d - c > 5
  BY <1>1, <1>2, <1>3, <1>4, <1>5 DEF LeastOf
<1> QED
  BY <1>6 DEF c, d

LEMMA GridApart ==
    ASSUME NEW s \in ScheduleType, NEW c \in Grid(s), NEW d \in Grid(s), c < d
    PROVE  c \in Int /\ d \in Int /\ d - c > 5
<1>1. CASE IsInterval(s)
  <2>1. /\ c \in Int /\ d \in Int /\ (c - s.anchor) % IntervalDays(s) = 0
        /\ (d - s.anchor) % IntervalDays(s) = 0
    BY <1>1 DEF Grid
  <2>2. s.anchor \in Nat /\ IntervalDays(s) \in {7, 14}
    BY <1>1, ScheduleFacts
  <2> QED
    BY <2>1, <2>2
<1>2. CASE ~IsInterval(s)
  <2>1. PICK k \in PayMonths(s) : c = PayDateIn(s, k)
    BY <1>2 DEF Grid
  <2>2. PICK l \in PayMonths(s) : d = PayDateIn(s, l)
    BY <1>2 DEF Grid
  <2>3. k \in Nat /\ l \in Nat /\ c \in Int /\ d \in Int
    BY <2>1, <2>2, PayDateInIs
  <2>4. ~(l < k)
    <3>1. l < k => c - d > 5
      BY <2>1, <2>2, PayDatesApart
    <3> QED
      BY <2>3, <3>1
  <2>5. k # l
    BY <2>1, <2>2, <2>3
  <2> QED
    BY <2>1, <2>2, <2>3, <2>4, <2>5, PayDatesApart
<1> QED
  BY <1>1, <1>2

(* The first pay date from a day on.                                        *)
LEMMA NextIsFirst ==
    ASSUME NEW s \in ScheduleType, NEW reach \in Int, Reaches(s, reach),
           NEW from \in Dates, from = s.anchor \/ from <= reach
    PROVE  /\ NextPayDate(s, from) \in Grid(s) /\ NextPayDate(s, from) \in Dates
           /\ NextPayDate(s, from) \in Nat /\ NextPayDate(s, from) >= from
           /\ \A c \in Grid(s) : c >= from => c >= NextPayDate(s, from)
<1> DEFINE n == NextPayDate(s, from)
<1>0. from \in Nat /\ s.anchor \in Dates /\ s.anchor \in Nat
  BY ScheduleFacts, DateFacts
<1>1. CASE IsInterval(s)
  <2> DEFINE i == IntervalDays(s)
             r == (from - s.anchor) % i
  <2>1. n = IF r = 0 THEN from ELSE from + i - r
    BY <1>1 DEF NextPayDate, NextIntervalPayDate
  <2>2. i \in {7, 14} /\ reach + i < MonthStart[LastMonth]
    BY <1>1, ScheduleFacts DEF Reaches
  <2>3. Grid(s) = {d \in Int : (d - s.anchor) % i = 0}
    BY <1>1 DEF Grid
  <2> HIDE DEF n
  <2>4. n \in Nat /\ n >= from /\ (n - s.anchor) % i = 0 /\ n <= from + i
    BY <1>0, <2>1, <2>2
  <2>5. from = s.anchor => n = from
    BY <1>0, <2>1, <2>2
  <2>6. ASSUME NEW c \in Int, (c - s.anchor) % i = 0, c >= from PROVE c >= n
    BY <1>0, <2>1, <2>2, <2>6
  <2>7. n \in Dates
    BY <1>0, <2>2, <2>4, <2>5, DateFacts
  <2> QED
    BY <2>3, <2>4, <2>6, <2>7 DEF n
<1>2. CASE ~IsInterval(s)
  <2> DEFINE p == PayMonth(s, from)
             q == p + MonthsApart(s)
  <2>1. /\ p \in Nat /\ MonthsApart(s) \in {1, 12}
        /\ p < LastMonth => p \in PayMonths(s)
        /\ q < LastMonth => q \in PayMonths(s)
        /\ q > MonthOf[from]
        /\ MonthOf[from] \in PayMonths(s) => p = MonthOf[from]
        /\ \A k \in PayMonths(s) : (k < p => k < MonthOf[from]) /\ (k > p => k >= q)
    BY <1>2, PayMonthIs
  <2>2. n = IF PayDateIn(s, p) >= from THEN PayDateIn(s, p) ELSE PayDateIn(s, q)
    BY <1>2 DEF NextPayDate, NextMonthlyPayDate
  <2>3. Grid(s) = {PayDateIn(s, k) : k \in PayMonths(s)}
    BY <1>2 DEF Grid
  <2>4. from <= reach => q < LastMonth
    BY <1>2 DEF Reaches
  <2>5. from = s.anchor => p \in PayMonths(s) /\ PayDateIn(s, p) = from
    <3> SUFFICES ASSUME from = s.anchor PROVE p \in PayMonths(s) /\ PayDateIn(s, p) = from
      OBVIOUS
    <3>1. MonthOf[from] \in PayMonths(s)
      BY <1>0, MonthOfIs DEF PayMonths
    <3>2. p = MonthOf[from] /\ PayDateIn(s, p) = ClampedDate(MonthOf[from], DayOf(from))
      BY <2>1, <3>1 DEF PayDateIn
    <3> QED
      BY <3>1, <3>2, DayOfIs
  <2>0. q = p + MonthsApart(s)
    OBVIOUS
  <2> HIDE DEF n, p, q
  <2>6. p \in PayMonths(s)
    <3>1. q < LastMonth => p < LastMonth
      BY <2>0, <2>1, MonthFacts
    <3> QED
      BY <2>1, <2>4, <2>5, <3>1
  <2>7. PayDateIn(s, p) < from => q \in PayMonths(s) /\ PayDateIn(s, q) >= from
    <3> SUFFICES ASSUME PayDateIn(s, p) < from PROVE q \in PayMonths(s) /\ PayDateIn(s, q) >= from
      OBVIOUS
    <3>1. q \in PayMonths(s)
      BY <1>0, <2>1, <2>4, <2>5
    <3>2. MonthStart[q] <= PayDateIn(s, q) /\ q \in MonthIndex /\ PayDateIn(s, q) \in Nat
      BY <3>1, PayDateInIs
    <3>3. MonthOf[from] \in MonthIndex /\ from < MonthStart[MonthOf[from] + 1]
      BY MonthOfIs
    <3>4. MonthStart[MonthOf[from] + 1] <= MonthStart[q]
      BY <2>1, <3>2, <3>3, MonthFacts
    <3>5. MonthStart[q] \in Nat /\ MonthStart[MonthOf[from] + 1] \in Nat
      BY <3>2, <3>3, MonthFacts
    <3> QED
      BY <1>0, <3>1, <3>2, <3>3, <3>4, <3>5
  <2>8. PayDateIn(s, p) \in Nat
    BY <2>6, PayDateInIs
  <2>9. \E k \in PayMonths(s) : n = PayDateIn(s, k) /\ PayDateIn(s, k) >= from
    BY <1>0, <2>2, <2>6, <2>7, <2>8
  <2>10. n \in Grid(s) /\ n \in Dates /\ n \in Nat /\ n >= from
    BY <2>3, <2>9, PayDateInIs
  <2>11. ASSUME NEW k \in PayMonths(s), PayDateIn(s, k) >= from PROVE PayDateIn(s, k) >= n
    <3>1. k \in Nat /\ PayDateIn(s, k) \in Nat /\ PayDateIn(s, k) < MonthStart[k + 1] /\ k \in MonthIndex
      BY PayDateInIs
    <3>2. ~(k < p)
      <4>1. k < p => k < MonthOf[from]
        BY <2>1
      <4>2. k < MonthOf[from] => MonthStart[k + 1] <= MonthStart[MonthOf[from]]
        BY <3>1, MonthOfIs, MonthFacts
      <4>3. MonthStart[MonthOf[from]] <= from /\ MonthStart[MonthOf[from]] \in Nat /\ MonthStart[k + 1] \in Nat
        BY <3>1, MonthOfIs, MonthFacts
      <4> QED
        BY <1>0, <2>11, <3>1, <4>1, <4>2, <4>3
    <3>3. CASE k = p
      BY <2>2, <2>11, <3>3, <3>1
    <3>4. CASE k > p
      <4>1. k >= q
        BY <2>1, <3>4
      <4>2. n = PayDateIn(s, p) \/ (n = PayDateIn(s, q) /\ q \in PayMonths(s))
        BY <1>0, <2>2, <2>7, <2>8
      <4>3. PayDateIn(s, k) - PayDateIn(s, p) > 5
        BY <2>6, <3>4, PayDatesApart
      <4>4. q \in PayMonths(s) /\ k # q => PayDateIn(s, k) - PayDateIn(s, q) > 5
        <5>1. k # q => q < k
          BY <2>0, <2>1, <3>1, <4>1
        <5> QED
          BY <5>1, PayDatesApart
      <4>5. q \in PayMonths(s) => PayDateIn(s, q) \in Nat
        BY PayDateInIs
      <4> QED
        BY <2>8, <3>1, <4>2, <4>3, <4>4, <4>5
    <3> QED
      BY <2>1, <3>1, <3>2, <3>3, <3>4
  <2> QED
    BY <2>3, <2>10, <2>11 DEF n
<1> QED
  BY <1>1, <1>2

(* The first occurrence from a day on: the first of the grid from the anchor. *)
LEMMA NextOccurrenceIs ==
    ASSUME NEW s \in ScheduleType, NEW reach \in Int, Reaches(s, reach),
           NEW day \in Int, day <= reach
    PROVE  /\ NextOccurrence(s, day) \in Grid(s) /\ NextOccurrence(s, day) \in Dates
           /\ NextOccurrence(s, day) \in Nat
           /\ NextOccurrence(s, day) >= day /\ NextOccurrence(s, day) >= s.anchor
           /\ \A c \in Grid(s) : c >= day /\ c >= s.anchor => c >= NextOccurrence(s, day)
<1> DEFINE from == GreatestOf(day, s.anchor)
<1>1. s.anchor \in Dates /\ s.anchor \in Nat /\ reach < MonthStart[LastMonth]
  BY ScheduleFacts DEF Reaches
<1>2. /\ from \in Int /\ from >= day /\ from >= s.anchor
      /\ from = s.anchor \/ from = day
      /\ \A c \in Int : c >= from <=> (c >= day /\ c >= s.anchor)
  BY <1>1 DEF GreatestOf
<1>3. NextOccurrence(s, day) = NextPayDate(s, from)
  BY DEF NextOccurrence
<1> HIDE DEF from
<1>4. from \in Dates
  BY <1>1, <1>2, DateFacts
<1>5. /\ NextPayDate(s, from) \in Grid(s) /\ NextPayDate(s, from) \in Dates
      /\ NextPayDate(s, from) \in Nat /\ NextPayDate(s, from) >= from
      /\ \A c \in Grid(s) : c >= from => c >= NextPayDate(s, from)
  BY <1>2, <1>4, NextIsFirst
<1>6. Grid(s) \subseteq Int
  BY PayDateInIs DEF Grid
<1> QED
  BY <1>1, <1>2, <1>3, <1>5, <1>6

(* A day is the next occurrence seen from some days before it exactly when   *)
(* it is the next one seen from itself.                                     *)
LEMMA SeenFromBefore ==
    ASSUME NEW s \in ScheduleType, NEW reach \in Int, Reaches(s, reach),
           NEW day \in Int, NEW k \in 0..5, day + k <= reach
    PROVE  NextOccurrence(s, day) = day + k <=> NextOccurrence(s, day + k) = day + k
<1> DEFINE n == NextOccurrence(s, day)
           c == day + k
           m == NextOccurrence(s, c)
<1>0. s.anchor \in Nat
  BY ScheduleFacts
<1>1. c \in Int /\ c <= reach /\ c >= day /\ day <= reach /\ c - day <= 5
  BY <1>0
<1>2. /\ n \in Grid(s) /\ n \in Nat /\ n >= day /\ n >= s.anchor
      /\ \A e \in Grid(s) : e >= day /\ e >= s.anchor => e >= n
  BY <1>1, NextOccurrenceIs
<1>3. /\ m \in Grid(s) /\ m \in Nat /\ m >= c /\ m >= s.anchor
      /\ \A e \in Grid(s) : e >= c /\ e >= s.anchor => e >= m
  BY <1>1, NextOccurrenceIs
<1> HIDE DEF n, m, c
<1>4. n = c => m = c
  BY <1>1, <1>2, <1>3
<1>5. m = c => n = c
  <2> SUFFICES ASSUME m = c PROVE n = c
    OBVIOUS
  <2>1. n <= c
    BY <1>1, <1>2, <1>3
  <2>2. n < c => c - n > 5
    BY <1>2, <1>3, GridApart
  <2> QED
    BY <1>1, <1>2, <2>1, <2>2
<1> QED
  BY <1>4, <1>5 DEF n, m, c

-----------------------------------------------------------------------------
(* The loop that lists the pay dates of a range. *)

(* The calendar reaches past every date it comes by: there is a function     *)
(* that does what the loop does.                                            *)
LEMMA LoopExists ==
    ASSUME NEW s \in ScheduleType, NEW reach \in Int, Reaches(s, reach),
           NEW until \in Int, until <= reach
    PROVE  \E f : f = [date \in Dates |-> IF date > until THEN {} ELSE {date} \cup f[AdvancePayDate(s, date)]]
<1>0. s.anchor \in Nat /\ Dates \subseteq Nat
  BY ScheduleFacts, DateFacts
<1>1. CASE IsInterval(s)
  <2> DEFINE i == IntervalDays(s)
             g(date) == {d \in date..until : (d - date) % i = 0}
             f == [date \in Dates |-> g(date)]
  <2>1. i \in {7, 14} /\ reach + i < MonthStart[LastMonth]
    BY <1>1, ScheduleFacts DEF Reaches
  <2>2. ASSUME NEW date \in Dates
        PROVE  f[date] = IF date > until THEN {} ELSE {date} \cup f[AdvancePayDate(s, date)]
    <3>0. date \in Nat /\ f[date] = g(date) /\ MonthStart[0] <= date
      BY <1>0, <2>2, DateFacts
    <3>1. CASE date > until
      <4>1. date..until = {}
        BY <3>0, <3>1
      <4> QED
        BY <3>0, <3>1, <4>1
    <3>2. CASE date <= until
      <4> DEFINE next == date + i
      <4>1. AdvancePayDate(s, date) = next
        BY <1>1 DEF AdvancePayDate
      <4>2. next \in Dates
        BY <1>0, <2>1, <3>0, <3>2, DateFacts
      <4>3. f[next] = g(next)
        BY <4>2
      <4>4. \A d \in Int : d \in date..until /\ (d - date) % i = 0
                             <=> (d = date \/ (d \in (date + i)..until /\ (d - (date + i)) % i = 0))
        BY <2>1, <3>0, <3>2
      <4>5. g(date) = {date} \cup g(next)
        <5>1. g(date) \subseteq Int /\ g(next) \subseteq Int /\ date \in Int
          BY <3>0
        <5>2. \A d \in Int : d \in g(date) <=> d \in {date} \cup g(next)
          BY <4>4
        <5> HIDE DEF g, next
        <5> QED
          BY <5>1, <5>2
      <4> HIDE DEF f, g, next
      <4> QED
        BY <3>0, <3>2, <4>1, <4>3, <4>5
    <3> QED
      BY <3>0, <3>1, <3>2
  <2>3. f = [date \in Dates |-> f[date]]
    OBVIOUS
  <2> HIDE DEF f
  <2>4. f = [date \in Dates |-> IF date > until THEN {} ELSE {date} \cup f[AdvancePayDate(s, date)]]
    BY <2>2, <2>3
  <2> QED
    BY <2>4
<1>2. CASE ~IsInterval(s)
  <2> DEFINE Later(p) == {d \in Dates : d <= until /\ \E k \in PayMonths(s) : k > p /\ d = PayDateIn(s, k)}
             g(date) == IF date > until THEN {} ELSE {date} \cup Later(PayMonth(s, date))
             f == [date \in Dates |-> g(date)]
  <2>2. ASSUME NEW date \in Dates
        PROVE  f[date] = IF date > until THEN {} ELSE {date} \cup f[AdvancePayDate(s, date)]
    <3>0. date \in Nat /\ f[date] = g(date)
      BY <1>0, <2>2
    <3>1. CASE date > until
      BY <3>0, <3>1
    <3>2. CASE date <= until
      <4> DEFINE p == PayMonth(s, date)
                 q == p + MonthsApart(s)
                 next == PayDateIn(s, q)
      <4>1. AdvancePayDate(s, date) = next
        BY <1>2 DEF AdvancePayDate
      <4>2. q < LastMonth
        BY <1>0, <1>2, <3>0, <3>2 DEF Reaches
      <4>3. /\ p \in Nat /\ q \in PayMonths(s) /\ p < q
            /\ \A k \in PayMonths(s) : k > p => k >= q
        BY <1>2, <4>2, PayMonthIs
      <4> HIDE DEF p, q
      <4>4. /\ next \in Dates /\ next \in Nat /\ MonthOf[next] = q /\ q \in Nat
        BY <4>3, PayDateInIs
      <4>5. PayMonth(s, next) = q
        BY <1>2, <4>3, <4>4, PayMonthIs
      <4>6. f[next] = IF next > until THEN {} ELSE {next} \cup Later(q)
        BY <4>4, <4>5
      <4>7. \A k \in PayMonths(s) : k > q => PayDateIn(s, k) > next /\ PayDateIn(s, k) \in Nat /\ k \in Nat
        <5>1. ASSUME NEW k \in PayMonths(s), k > q
              PROVE  PayDateIn(s, k) > next /\ PayDateIn(s, k) \in Nat /\ k \in Nat
          <6>1. k \in Nat /\ PayDateIn(s, k) \in Nat
            BY PayDateInIs
          <6>2. PayDateIn(s, k) - next > 5
            BY <4>3, <4>4, <5>1, <6>1, PayDatesApart
          <6> QED
            BY <4>4, <6>1, <6>2
        <5> QED
          BY <5>1
      <4>8. Later(p) = f[next]
        <5>1. CASE next > until
          <6>1. \A k \in PayMonths(s) : k > p => PayDateIn(s, k) > until
            BY <4>3, <4>4, <4>7, <5>1, PayDateInIs
          <6>2. ASSUME NEW d \in Dates, d <= until, NEW k \in PayMonths(s), k > p, d = PayDateIn(s, k)
                PROVE  FALSE
            <7>1. d > until /\ d \in Nat
              BY <1>0, <6>1, <6>2
            <7> QED
              BY <6>2, <7>1
          <6>3. Later(p) = {}
            BY <6>2
          <6> HIDE DEF f, Later, next
          <6> QED
            BY <4>4, <4>6, <5>1, <6>3
        <5>2. CASE next <= until
          <6>1. \A d \in Dates : d \in Later(p) <=> d = next \/ d \in Later(q)
            <7>1. \A k \in PayMonths(s) : k > p <=> k = q \/ k > q
              BY <4>3, <4>4, PayDateInIs
            <7> QED
              BY <4>3, <4>4, <5>2, <7>1
          <6>2. Later(p) \subseteq Dates /\ Later(q) \subseteq Dates /\ next \in Dates
            BY <4>4
          <6> HIDE DEF f, Later, next
          <6>3. Later(p) = {next} \cup Later(q)
            BY <6>1, <6>2
          <6> QED
            BY <4>4, <4>6, <5>2, <6>3
        <5> QED
          BY <4>4, <5>1, <5>2
      <4>9. f[date] = {date} \cup Later(p)
        BY <3>0, <3>2 DEF p
      <4> HIDE DEF f, Later, next
      <4> QED
        BY <3>0, <3>2, <4>1, <4>8, <4>9
    <3> QED
      BY <3>0, <3>1, <3>2
  <2>3. f = [date \in Dates |-> f[date]]
    OBVIOUS
  <2> HIDE DEF f
  <2>4. f = [date \in Dates |-> IF date > until THEN {} ELSE {date} \cup f[AdvancePayDate(s, date)]]
    BY <2>2, <2>3
  <2> QED
    BY <2>4
<1> QED
  BY <1>1, <1>2

(* occurs_on: the day is the next occurrence seen from itself, and the        *)
(* schedule has not ended.                                                  *)
LEMMA OccursOnIs ==
    ASSUME NEW s \in ScheduleType, NEW reach \in Int, Reaches(s, reach),
           NEW day \in Int, day <= reach
    PROVE  OccursOn(s, day) <=> NextOccurrence(s, day) = day /\ ~(s.last # NoDate /\ day > s.last)
<1> DEFINE until == EffectiveEnd(s, day)
           from[date \in Dates] ==
              IF date > until THEN {} ELSE {date} \cup from[AdvancePayDate(s, date)]
           n == NextOccurrence(s, day)
<1>1. OccursOn(s, day) <=> (IF day > until THEN {} ELSE from[n]) # {}
  BY DEF OccursOn, PayDatesInRange
<1>2. s.last \in Int
  BY ScheduleFacts
<1>3. /\ until \in Int /\ until <= day
      /\ day > until <=> s.last # NoDate /\ day > s.last
  BY <1>2 DEF EffectiveEnd, LeastOf
<1>4. n \in Dates /\ n \in Nat /\ n >= day
  BY NextOccurrenceIs
<1>5. from = [date \in Dates |-> IF date > until THEN {} ELSE {date} \cup from[AdvancePayDate(s, date)]]
  <2> HIDE DEF until
  <2>1. until <= reach
    BY <1>2, <1>3
  <2>2. \E f : f = [date \in Dates |-> IF date > until THEN {} ELSE {date} \cup f[AdvancePayDate(s, date)]]
    BY <1>3, <2>1, LoopExists
  <2> QED
    BY <2>2
<1> HIDE DEF from, until, n
<1>6. from[n] = IF n > until THEN {} ELSE {n} \cup from[AdvancePayDate(s, n)]
  BY <1>4, <1>5
<1>7. from[n] # {} <=> n <= until
  BY <1>3, <1>4, <1>6
<1>8. CASE day > until
  BY <1>1, <1>3, <1>8 DEF n
<1>9. CASE ~(day > until)
  <2>1. n <= until <=> n = day
    BY <1>3, <1>4, <1>9
  <2> QED
    BY <1>1, <1>3, <1>7, <1>9, <2>1 DEF n
<1> QED
  BY <1>8, <1>9

(* The grid, said of each date alone.                                       *)
LEMMA OnGridIs ==
    ASSUME NEW s \in ScheduleType, NEW d \in Dates
    PROVE  OnGrid(s, d) <=> d \in Grid(s)
<1>0. d \in Nat
  BY DateFacts
<1>1. CASE IsInterval(s)
  BY <1>0, <1>1 DEF OnGrid, Grid
<1>2. CASE ~IsInterval(s)
  <2> DEFINE k == MonthOf[d]
             day == DayOf(s.anchor)
  <2>1. k \in MonthIndex /\ d = MonthStart[k] + DayOf(d) - 1 /\ DayOf(d) \in 1..31
    BY MonthOfIs, DayOfIs
  <2>2. MonthStart[k] \in Nat /\ DaysInMonth(k) \in 28..31
    BY <2>1, MonthFacts
  <2>3. PayDateIn(s, k) = MonthStart[k] + LeastOf(day, DaysInMonth(k)) - 1
    BY DEF PayDateIn, ClampedDate
  <2>4. day \in 1..31
    BY ScheduleFacts
  <2>5. LeastOf(day, DaysInMonth(k)) \in Int
    BY <2>2, <2>4 DEF LeastOf
  <2> DEFINE clamped == LeastOf(day, DaysInMonth(k))
             of == DayOf(d)
  <2>6. of = clamped <=> PayDateIn(s, k) = d
    <3> HIDE DEF clamped, of, k
    <3> QED
      BY <1>0, <2>1, <2>2, <2>3, <2>5 DEF clamped, of
  <2>7. OnGrid(s, d) <=> of = clamped /\ k \in PayMonths(s)
    BY <1>2, <2>1 DEF OnGrid, PayMonths
  <2>8. d \in Grid(s) <=> \E l \in PayMonths(s) : d = PayDateIn(s, l)
    BY <1>2 DEF Grid
  <2>9. \A l \in PayMonths(s) : d = PayDateIn(s, l) => l = k
    BY PayDateInIs
  <2> HIDE DEF clamped, of, k
  <2> QED
    BY <2>6, <2>7, <2>8, <2>9
<1> QED
  BY <1>1, <1>2

(* The loop goes from a pay date to the next.                                *)
LEMMA AdvanceIs ==
    ASSUME NEW s \in ScheduleType, NEW reach \in Int, Reaches(s, reach),
           NEW date \in Dates, date \in Grid(s), date <= reach
    PROVE  /\ AdvancePayDate(s, date) \in Dates /\ AdvancePayDate(s, date) \in Grid(s)
           /\ AdvancePayDate(s, date) \in Nat /\ AdvancePayDate(s, date) > date
           /\ \A c \in Grid(s) : c > date => c >= AdvancePayDate(s, date)
<1> DEFINE a == AdvancePayDate(s, date)
<1>0. date \in Nat /\ s.anchor \in Nat
  BY DateFacts, ScheduleFacts
<1>1. CASE IsInterval(s)
  <2> DEFINE i == IntervalDays(s)
  <2>1. a = date + i
    BY <1>1 DEF AdvancePayDate
  <2>2. i \in {7, 14} /\ reach + i < MonthStart[LastMonth]
    BY <1>1, ScheduleFacts DEF Reaches
  <2>3. Grid(s) = {d \in Int : (d - s.anchor) % i = 0}
    BY <1>1 DEF Grid
  <2> HIDE DEF a
  <2>4. a \in Int /\ a \in Nat /\ a > date /\ (a - s.anchor) % i = 0
    BY <1>0, <2>1, <2>2, <2>3
  <2>5. \A c \in Int : (c - s.anchor) % i = 0 /\ c > date => c >= a
    BY <1>0, <2>1, <2>2, <2>3
  <2>6. a \in Dates
    BY <1>0, <2>1, <2>2, <2>4, DateFacts
  <2> QED
    BY <2>3, <2>4, <2>5, <2>6 DEF a
<1>2. CASE ~IsInterval(s)
  <2>1. PICK k \in PayMonths(s) : date = PayDateIn(s, k)
    BY <1>2 DEF Grid
  <2>2. MonthOf[date] = k /\ k \in Nat
    BY <2>1, PayDateInIs
  <2> DEFINE q == k + MonthsApart(s)
  <2>3. PayMonth(s, date) = k
    BY <1>2, <2>2, PayMonthIs
  <2>4. q < LastMonth
    BY <1>2, <2>3 DEF Reaches
  <2>5. /\ q \in PayMonths(s) /\ q > k /\ MonthsApart(s) \in {1, 12}
        /\ \A l \in PayMonths(s) : l > k => l >= q
    BY <1>2, <2>2, <2>3, <2>4, PayMonthIs
  <2>6. a = PayDateIn(s, q)
    BY <1>2, <2>3 DEF AdvancePayDate
  <2> HIDE DEF a, q
  <2>7. a \in Dates /\ a \in Nat /\ a \in Grid(s)
    BY <1>2, <2>5, <2>6, PayDateInIs DEF Grid
  <2>8. a > date
    <3>1. a - date > 5
      BY <2>1, <2>5, <2>6, PayDatesApart
    <3> QED
      BY <1>0, <2>7, <3>1
  <2>9. ASSUME NEW c \in Grid(s), c > date PROVE c >= a
    <3>1. PICK l \in PayMonths(s) : c = PayDateIn(s, l)
      BY <1>2 DEF Grid
    <3>2. l \in Nat /\ c \in Nat
      BY <3>1, PayDateInIs
    <3>3. l > k
      <4>1. l < k => date - c > 5
        BY <2>1, <3>1, PayDatesApart
      <4> QED
        BY <1>0, <2>1, <2>2, <2>9, <3>1, <3>2, <4>1
    <3>4. q < l => c - a > 5
      BY <2>5, <2>6, <3>1, PayDatesApart
    <3>5. q \in Nat /\ (q < l \/ q = l)
      BY <2>2, <2>5, <3>2, <3>3, PayDateInIs
    <3> QED
      BY <2>6, <2>7, <3>1, <3>2, <3>4, <3>5
  <2> QED
    BY <2>7, <2>8, <2>9 DEF a
<1> QED
  BY <1>1, <1>2

(* Started on a pay date, the loop lists the pay dates up to its end.        *)
LEMMA LoopLists ==
    ASSUME NEW s \in ScheduleType, NEW until \in Int, Reaches(s, until), NEW f,
           f = [date \in Dates |-> IF date > until THEN {} ELSE {date} \cup f[AdvancePayDate(s, date)]]
    PROVE  \A date \in Dates : date \in Grid(s) => f[date] = {d \in date..until : d \in Grid(s)}
<1> DEFINE Wrong(date) == date \in Grid(s) /\ f[date] # {d \in date..until : d \in Grid(s)}
           Left(date) == IF date > until THEN 0 ELSE until - date + 1
           T == {n \in Nat : \E date \in Dates : Wrong(date) /\ n = Left(date)}
<1>0. \A date \in Dates : date \in Nat /\ date \in Int
  BY DateFacts
<1>1. \A date \in Dates : Left(date) \in Nat
  BY <1>0
<1>2. SUFFICES ASSUME T # {} PROVE FALSE
  BY <1>1
<1>3. PICK m \in T : \A n \in T : m <= n
  <2>1. T \in SUBSET Nat
    OBVIOUS
  <2> HIDE DEF T
  <2> QED
    BY <1>2, <2>1, Least
<1>4. PICK date \in Dates : Wrong(date) /\ m = Left(date)
  BY <1>3
<1>5. f[date] = IF date > until THEN {} ELSE {date} \cup f[AdvancePayDate(s, date)]
  OBVIOUS
<1>6. date <= until
  <2>1. date > until => date..until = {}
    BY <1>0
  <2> QED
    BY <1>0, <1>4, <1>5, <2>1
<1> DEFINE a == AdvancePayDate(s, date)
<1>7. a \in Dates /\ a \in Grid(s) /\ a \in Nat /\ a > date /\ \A c \in Grid(s) : c > date => c >= a
  BY <1>4, <1>6, AdvanceIs
<1> HIDE DEF a
<1>8. ~Wrong(a)
  <2>1. Left(a) < m /\ Left(a) \in Nat /\ m \in Nat
    BY <1>0, <1>1, <1>4, <1>6, <1>7
  <2>2. Left(a) \notin T
    <3> HIDE DEF T, Left
    <3> QED
      BY <1>3, <2>1
  <2> QED
    BY <1>7, <2>1, <2>2
<1>9. f[date] = {date} \cup {d \in a..until : d \in Grid(s)}
  BY <1>0, <1>5, <1>6, <1>7, <1>8 DEF a
<1>10. ASSUME NEW d \in Int, d \in Grid(s) PROVE d \in date..until <=> d = date \/ d \in a..until
  BY <1>0, <1>6, <1>7, <1>10
<1>11. {date} \cup {d \in a..until : d \in Grid(s)} = {d \in date..until : d \in Grid(s)}
  BY <1>0, <1>4, <1>10
<1> QED
  BY <1>4, <1>9, <1>11

(* A calendar that reaches a day reaches the days before.                     *)
LEMMA ReachesLess ==
    ASSUME NEW s \in ScheduleType, NEW reach \in Int, Reaches(s, reach),
           NEW day \in Int, day <= reach
    PROVE  Reaches(s, day)
<1>1. day < MonthStart[LastMonth]
  BY DateFacts DEF Reaches
<1>2. IsInterval(s) => day + IntervalDays(s) < MonthStart[LastMonth]
  BY ScheduleFacts, DateFacts DEF Reaches
<1>3. ~IsInterval(s) => \A date \in Dates : date <= day => PayMonth(s, date) + MonthsApart(s) < LastMonth
  BY DateFacts DEF Reaches
<1> QED
  BY <1>1, <1>2, <1>3 DEF Reaches

(* get_pay_dates_in_range lists the dates of the schedule, and all of them:  *)
(* every so many days, or the anchor's day of the month, or the month's last  *)
(* if it is shorter, none drifting after a short month or a leap year; from   *)
(* the anchor on and up to the last payment date.                           *)
THEOREM PayDatesAreOccurrences ==
    ASSUME NEW s \in ScheduleType, NEW start \in Int, NEW end \in Int, Reaches(s, end)
    PROVE  PayDatesInRange(s, start, end) = {d \in start..end : Occurs(s, d)}
<1> DEFINE until == EffectiveEnd(s, end)
           from[date \in Dates] ==
              IF date > until THEN {} ELSE {date} \cup from[AdvancePayDate(s, date)]
           n == NextOccurrence(s, start)
<1>1. PayDatesInRange(s, start, end) = IF start > until THEN {} ELSE from[n]
  BY DEF PayDatesInRange
<1>2. s.last \in Int /\ s.anchor \in Dates /\ s.anchor \in Nat
  BY ScheduleFacts
<1>3. /\ until \in Int /\ until <= end
      /\ \A d \in Int : d <= until <=> (d <= end /\ (s.last = NoDate \/ d <= s.last))
  BY <1>2 DEF EffectiveEnd, LeastOf
<1>4. \E f : f = [date \in Dates |-> IF date > until THEN {} ELSE {date} \cup f[AdvancePayDate(s, date)]]
  <2> HIDE DEF until
  <2> QED
    BY <1>3, LoopExists
<1>5. from = [date \in Dates |-> IF date > until THEN {} ELSE {date} \cup from[AdvancePayDate(s, date)]]
  <2> HIDE DEF until
  <2> QED
    BY <1>4
<1> HIDE DEF from, until, n
<1>6. Reaches(s, until)
  BY <1>3, ReachesLess
<1>7. \A d \in start..end : Occurs(s, d) <=> d \in Grid(s) /\ d >= s.anchor /\ d <= until
  <2>1. ASSUME NEW d \in start..end
        PROVE  Occurs(s, d) <=> d \in Grid(s) /\ d >= s.anchor /\ d <= until
    <3>1. d \in Int /\ d <= end
      OBVIOUS
    <3>2. Reaches(s, end) => end < MonthStart[LastMonth]
      BY DEF Reaches
    <3>3. d >= s.anchor => d \in Dates
      BY <1>2, <3>1, <3>2, DateFacts
    <3>4. d <= until <=> (s.last = NoDate \/ d <= s.last)
      BY <1>3, <3>1
    <3>5. d >= s.anchor => (OnGrid(s, d) <=> d \in Grid(s))
      BY <3>3, OnGridIs
    <3> QED
      BY <3>4, <3>5 DEF Occurs
  <2> QED
    BY <2>1
<1>8. CASE start > until
  <2>1. \A d \in start..end : ~(d <= until)
    BY <1>3, <1>8
  <2> QED
    BY <1>1, <1>7, <1>8, <2>1
<1>9. CASE ~(start > until)
  <2>1. start <= end
    BY <1>3, <1>9
  <2>2. /\ n \in Grid(s) /\ n \in Dates /\ n \in Nat /\ n >= start /\ n >= s.anchor
        /\ \A c \in Grid(s) : c >= start /\ c >= s.anchor => c >= n
    BY <2>1, NextOccurrenceIs DEF n
  <2>3. from[n] = {d \in n..until : d \in Grid(s)}
    BY <1>3, <1>5, <1>6, <2>2, LoopLists
  <2>4. \A d \in Int : (d \in n..until /\ d \in Grid(s))
                          <=> (d \in start..end /\ d \in Grid(s) /\ d >= s.anchor /\ d <= until)
    BY <1>2, <1>3, <2>2
  <2>5. {d \in n..until : d \in Grid(s)} = {d \in start..end : d \in Grid(s) /\ d >= s.anchor /\ d <= until}
    BY <1>3, <2>2, <2>4
  <2> QED
    BY <1>1, <1>7, <1>9, <2>3, <2>5
<1> QED
  BY <1>8, <1>9

(* occurs_on says the same of one day.                                      *)
THEOREM OccursOnAgrees ==
    ASSUME NEW s \in ScheduleType, NEW day \in Int, Reaches(s, day)
    PROVE  OccursOn(s, day) <=> Occurs(s, day)
<1>1. PayDatesInRange(s, day, day) = {d \in day..day : Occurs(s, d)}
  BY PayDatesAreOccurrences
<1>2. day..day = {day}
  OBVIOUS
<1> QED
  BY <1>1, <1>2 DEF OccursOn

-----------------------------------------------------------------------------
(* Periods. *)

(* Months are 31 days at most.                                               *)
LEMMA MonthsNear ==
    \A j \in Months : \A i \in 0..j : MonthStart[j] <= MonthStart[i] + 31 * (j - i)
<1> DEFINE Bad == {j \in Months : \E i \in 0..j : ~(MonthStart[j] <= MonthStart[i] + 31 * (j - i))}
<1>0. LastMonth \in Nat /\ Months = 0..LastMonth /\ \A k \in Months : MonthStart[k] \in Nat
  BY CalendarAssumption DEF Months
<1>1. SUFFICES ASSUME Bad # {} PROVE FALSE
  OBVIOUS
<1>2. PICK j \in Bad : \A k \in Bad : j <= k
  <2>1. Bad \in SUBSET Nat
    BY <1>0
  <2> HIDE DEF Bad
  <2> QED
    BY <1>1, <2>1, Least
<1>3. PICK i \in 0..j : ~(MonthStart[j] <= MonthStart[i] + 31 * (j - i))
  OBVIOUS
<1>4. i # j
  BY <1>0, <1>3
<1>5. j - 1 \in Months /\ j - 1 \notin Bad /\ i \in 0..(j - 1) /\ j \in Nat
  BY <1>0, <1>2, <1>3, <1>4
<1>6. MonthStart[j - 1] <= MonthStart[i] + 31 * (j - 1 - i)
  BY <1>5
<1>7. MonthStart[j] - MonthStart[j - 1] \in 28..31
  <2>1. j - 1 \in 0..(LastMonth - 1) /\ j - 1 + 1 = j
    BY <1>0, <1>5
  <2> QED
    BY <2>1, CalendarAssumption
<1>8. MonthStart[i] \in Nat /\ MonthStart[j] \in Nat /\ MonthStart[j - 1] \in Nat
  BY <1>0, <1>5
<1> HIDE DEF Bad
<1> QED
  BY <1>3, <1>5, <1>6, <1>7, <1>8

(* The pay date before a date is less than two years before it.              *)
LEMMA PreviousNear ==
    ASSUME NEW s \in ScheduleType, NEW horizon \in Dates, NEW date \in Dates, date >= horizon + 744
    PROVE  PreviousPayDate(s, date) >= horizon /\ PreviousPayDate(s, date) \in Int
<1>0. date \in Nat /\ horizon \in Nat /\ MonthStart[0] \in Nat /\ MonthStart[0] <= horizon
  BY DateFacts
<1>1. CASE IsInterval(s)
  <2>1. PreviousPayDate(s, date) = date - IntervalDays(s) /\ IntervalDays(s) \in {7, 14}
    BY <1>1, ScheduleFacts DEF PreviousPayDate
  <2> QED
    BY <1>0, <2>1
<1>2. CASE ~IsInterval(s)
  <2> DEFINE m == MonthOf[date]
             a == MonthOf[s.anchor]
             p == PayMonth(s, date)
             q == p - MonthsApart(s)
  <2>1. /\ m \in MonthIndex /\ a \in MonthIndex /\ m \in Nat /\ a \in Nat
        /\ date < MonthStart[m + 1] /\ MonthStart[m + 1] \in Nat
    BY MonthOfIs, ScheduleFacts, MonthFacts
  <2>2. q \in Int /\ q <= m /\ m - q <= 23
    <3>1. CASE s.frequency = "yearly"
      <4>1. p = 12 * (m \div 12) + (a % 12) /\ MonthsApart(s) = 12
        BY <3>1 DEF PayMonth, MonthsApart
      <4> HIDE DEF m, a, p
      <4> QED
        BY <2>1, <4>1
    <3>2. CASE s.frequency # "yearly"
      <4>1. p = m /\ MonthsApart(s) = 1
        BY <3>2 DEF PayMonth, MonthsApart
      <4> QED
        BY <2>1, <4>1
    <3> QED
      BY <3>1, <3>2
  <2>3. PreviousPayDate(s, date) = ClampedDate(q, DayOf(s.anchor))
    BY <1>2 DEF PreviousPayDate, PayDateIn
  <2> HIDE DEF m, a, p, q
  <2>4. m + 1 \in Months /\ 0 \in 0..(m + 1) /\ MonthStart[m + 1] <= MonthStart[0] + 31 * (m + 1 - 0)
    BY <2>1, MonthFacts, MonthsNear DEF MonthIndex, Months
  <2>5. m >= 24
    BY <1>0, <2>1, <2>4
  <2>6. q \in MonthIndex /\ q \in 0..(m + 1)
    BY <2>1, <2>2, <2>5, MonthFacts DEF MonthIndex
  <2>7. MonthStart[m + 1] <= MonthStart[q] + 31 * ((m + 1) - q)
    <3> DEFINE l == m + 1
    <3>1. l \in Months /\ q \in 0..l
      BY <2>4, <2>6
    <3> HIDE DEF l
    <3>2. \A i \in 0..l : MonthStart[l] <= MonthStart[i] + 31 * (l - i)
      BY <3>1, MonthsNear
    <3>3. MonthStart[l] <= MonthStart[q] + 31 * (l - q)
      BY <3>1, <3>2
    <3> QED
      BY <3>3 DEF l
  <2>8. MonthStart[q] <= ClampedDate(q, DayOf(s.anchor)) /\ MonthStart[q] \in Nat
        /\ ClampedDate(q, DayOf(s.anchor)) \in Int
    <3> DEFINE day == DayOf(s.anchor)
    <3>1. day \in 1..31
      BY ScheduleFacts
    <3> HIDE DEF day
    <3>2. MonthStart[q] <= ClampedDate(q, day) /\ ClampedDate(q, day) \in Dates
      BY <2>6, <3>1, ClampedIs
    <3>3. \A d \in Dates : d \in Int
      BY DateFacts
    <3>4. \A k \in MonthIndex : MonthStart[k] \in Nat
      BY MonthFacts
    <3> QED
      BY <2>6, <3>2, <3>3, <3>4 DEF day
  <2> DEFINE b == PreviousPayDate(s, date)
             x == MonthStart[q]
             y == MonthStart[m + 1]
  <2>9. x <= b /\ x \in Nat /\ b \in Int /\ y <= x + 31 * ((m + 1) - q) /\ date < y /\ y \in Nat
    BY <2>1, <2>3, <2>7, <2>8
  <2> HIDE DEF b, x, y
  <2>10. b >= horizon
    BY <1>0, <2>1, <2>2, <2>9
  <2> QED
    BY <2>9, <2>10 DEF b
<1> QED
  BY <1>1, <1>2

(* The pay date before another.                                             *)
LEMMA PreviousIs ==
    ASSUME NEW s \in ScheduleType, NEW p \in Dates, p \in Grid(s), ReachesBack(s, p)
    PROVE  /\ PreviousPayDate(s, p) \in Int /\ p - PreviousPayDate(s, p) > 5
           /\ PreviousPayDate(s, p) \in Grid(s)
           /\ \A c \in Grid(s) : c < p => c <= PreviousPayDate(s, p)
           /\ ~IsInterval(s) => PreviousPayDate(s, p) \in Dates
<1> DEFINE b == PreviousPayDate(s, p)
<1>0. p \in Nat /\ s.anchor \in Nat
  BY DateFacts, ScheduleFacts
<1>1. CASE IsInterval(s)
  <2> DEFINE i == IntervalDays(s)
  <2>1. b = p - i /\ i \in {7, 14}
    BY <1>1, ScheduleFacts DEF PreviousPayDate
  <2>2. Grid(s) = {d \in Int : (d - s.anchor) % i = 0}
    BY <1>1 DEF Grid
  <2> HIDE DEF b
  <2>3. \A c \in Int : (c - s.anchor) % i = 0 /\ c < p => c <= b
    BY <1>0, <2>1, <2>2
  <2>4. b \in Grid(s) /\ b \in Int /\ p - b > 5
    BY <1>0, <2>1, <2>2
  <2> QED
    BY <1>1, <2>2, <2>3, <2>4 DEF b
<1>2. CASE ~IsInterval(s)
  <2>1. PICK k \in PayMonths(s) : p = PayDateIn(s, k)
    BY <1>2 DEF Grid
  <2>2. MonthOf[p] = k /\ k \in Nat /\ k \in MonthIndex
    BY <2>1, PayDateInIs
  <2>3. PayMonth(s, p) = k /\ MonthsApart(s) \in {1, 12}
    BY <1>2, <2>2, PayMonthIs
  <2> DEFINE j == k - MonthsApart(s)
  <2>4. b = PayDateIn(s, j)
    BY <1>2, <2>3 DEF PreviousPayDate
  <2>5. j \in Nat /\ j < k /\ j \in MonthIndex
    BY <1>2, <2>2, <2>3, MonthFacts DEF ReachesBack, MonthIndex
  <2>6. /\ j \in PayMonths(s)
        /\ \A l \in PayMonths(s) : l < k => l <= j
    <3>1. CASE s.frequency = "yearly"
      <4> DEFINE a == MonthOf[s.anchor]
      <4>1. PayMonths(s) = {l \in MonthIndex : l % 12 = a % 12} /\ MonthsApart(s) = 12
        BY <3>1 DEF PayMonths, MonthsApart
      <4>2. a \in Nat
        BY MonthOfIs, ScheduleFacts, MonthFacts
      <4> HIDE DEF a
      <4>3. \A l \in Nat : l % 12 = a % 12 /\ l < k => l <= j
        BY <2>2, <4>1, <4>2
      <4>4. j % 12 = a % 12
        BY <2>2, <2>5, <4>1, <4>2
      <4> HIDE DEF j
      <4> QED
        BY <2>5, <4>1, <4>3, <4>4, MonthFacts
    <3>2. CASE s.frequency # "yearly"
      <4>1. PayMonths(s) = MonthIndex /\ MonthsApart(s) = 1
        BY <3>2 DEF PayMonths, MonthsApart
      <4> QED
        BY <2>2, <2>5, <4>1, MonthFacts
    <3> QED
      BY <3>1, <3>2
  <2> HIDE DEF j, b
  <2>7. b \in Dates /\ b \in Nat
    BY <2>4, <2>6, PayDateInIs
  <2>8. p - b > 5 /\ b \in Grid(s)
    BY <1>2, <2>1, <2>4, <2>5, <2>6, PayDatesApart DEF Grid
  <2>9. ASSUME NEW c \in Grid(s), c < p PROVE c <= b
    <3>1. PICK l \in PayMonths(s) : c = PayDateIn(s, l)
      BY <1>2 DEF Grid
    <3>2. l \in Nat /\ c \in Nat
      BY <3>1, PayDateInIs
    <3>3. l < k
      <4>1. k < l => c - p > 5
        BY <2>1, <3>1, PayDatesApart
      <4> QED
        BY <1>0, <2>1, <2>2, <2>9, <3>1, <3>2, <4>1
    <3>4. l < j => b - c > 5
      BY <2>4, <2>6, <3>1, PayDatesApart
    <3>5. l < j \/ l = j
      BY <2>5, <2>6, <3>2, <3>3
    <3> QED
      BY <2>4, <2>7, <3>1, <3>2, <3>4, <3>5
  <2> QED
    BY <2>7, <2>8, <2>9 DEF b
<1> QED
  BY <1>1, <1>2

(* A period holds its pay date and no other.                                 *)
LEMMA PeriodHolds ==
    ASSUME NEW s \in ScheduleType, NEW p \in Dates, p \in Grid(s), ReachesBack(s, p)
    PROVE  LET period == PeriodForPayDate(s, p) IN
           /\ period.pay = p /\ period.end = p /\ period.start \in Int /\ p - period.start >= 5
           /\ {d \in period.start..period.end : OnGrid(s, d)} = {p}
<1> DEFINE b == PreviousPayDate(s, p)
<1>0. p \in Nat
  BY DateFacts
<1>1. /\ b \in Int /\ p - b > 5
      /\ \A c \in Grid(s) : c < p => c <= b
      /\ ~IsInterval(s) => b \in Dates
  BY PreviousIs
<1>2. PeriodForPayDate(s, p) = [pay |-> p, start |-> b + 1, end |-> p]
  BY DEF PeriodForPayDate
<1> HIDE DEF b
<1>3. ASSUME NEW d \in (b + 1)..p PROVE OnGrid(s, d) <=> d \in Grid(s)
  <2>1. CASE IsInterval(s)
    BY <1>0, <1>1, <2>1 DEF OnGrid, Grid
  <2>2. CASE ~IsInterval(s)
    <3>1. d \in Dates
      BY <1>0, <1>1, <2>2, DateFacts
    <3> QED
      BY <3>1, OnGridIs
  <2> QED
    BY <2>1, <2>2
<1>4. \A d \in (b + 1)..p : OnGrid(s, d) <=> d = p
  BY <1>0, <1>1, <1>3
<1>5. p \in (b + 1)..p
  BY <1>0, <1>1
<1>6. {d \in (b + 1)..p : OnGrid(s, d)} = {p}
  BY <1>4, <1>5
<1> QED
  BY <1>0, <1>1, <1>2, <1>6

(* After a period comes the one that starts the day after it.                *)
LEMMA PeriodAfter ==
    ASSUME NEW s \in ScheduleType, NEW reach \in Int, Reaches(s, reach),
           NEW p \in Dates, p \in Grid(s), ReachesBack(s, p), p + 1 <= reach
    PROVE  LET next == NextPayDate(s, p + 1) IN
           /\ next \in Dates /\ next \in Grid(s) /\ next > p /\ next \in Nat /\ ReachesBack(s, next)
           /\ PeriodForPayDate(s, next).start = p + 1
<1> DEFINE n == NextPayDate(s, p + 1)
           b == PreviousPayDate(s, n)
<1>0. p \in Nat /\ p + 1 \in Dates
  BY DateFacts DEF Reaches
<1>1. /\ n \in Grid(s) /\ n \in Dates /\ n \in Nat /\ n >= p + 1
      /\ \A c \in Grid(s) : c >= p + 1 => c >= n
  BY <1>0, NextIsFirst
<1>2. ReachesBack(s, n)
  <2>1. MonthOf[p] <= MonthOf[n]
    BY <1>0, <1>1, MonthBefore
  <2>2. MonthOf[p] \in Nat /\ MonthOf[n] \in Nat
    BY <1>1, MonthOfIs, MonthFacts
  <2>3. MonthsApart(s) \in Nat
    BY DEF MonthsApart
  <2> QED
    BY <2>1, <2>2, <2>3 DEF ReachesBack
<1>3. b \in Int /\ n - b > 5 /\ p <= b /\ b \in Grid(s)
  BY <1>0, <1>1, <1>2, PreviousIs
<1> HIDE DEF n
<1>5. b = p
  <2>1. b >= p + 1 => b >= n
    BY <1>1, <1>3
  <2> HIDE DEF b
  <2> QED
    BY <1>0, <1>1, <1>3, <2>1
<1>6. PeriodForPayDate(s, n).start = p + 1
  BY <1>5 DEF PeriodForPayDate
<1> QED
  BY <1>0, <1>1, <1>2, <1>6 DEF n

-----------------------------------------------------------------------------
(* The loop that lists the periods.  One turn of it, when the turns that are   *)
(* left list "rest" from each pay date.                                     *)
PeriodsTurn(s, earliest, horizon, n, rest) == [date \in Dates |->
    LET period == PeriodForPayDate(s, date)
        next == NextPayDate(s, date + 1) IN
    IF n = 0 \/ period.start > horizon THEN <<>>
    ELSE (IF period.end >= earliest THEN <<period>> ELSE <<>>)
         \o (IF next <= date THEN <<>> ELSE rest[next])]

Turns(s, earliest, horizon, most, f) ==
    f = [n \in 0..most |-> PeriodsTurn(s, earliest, horizon, n, f[n - 1])]

(* There is a function that does what the loop does.                         *)
LEMMA TurnsExist ==
    ASSUME NEW s, NEW earliest, NEW horizon, NEW most \in Nat
    PROVE  \E f : Turns(s, earliest, horizon, most, f)
<1> DEFINE Turn(n, rest) == PeriodsTurn(s, earliest, horizon, n, rest)
           Made(m, f) == f = [n \in 0..m |-> Turn(n, f[n - 1])]
           Bad == {m \in Nat : m <= most /\ ~ \E f : Made(m, f)}
<1>1. SUFFICES ASSUME Bad # {} PROVE FALSE
  <2>1. (\E f : Made(most, f)) => \E f : Turns(s, earliest, horizon, most, f)
    BY DEF Turns
  <2>2. Bad = {} => \E f : Made(most, f)
    <3> HIDE DEF Made
    <3> QED
      OBVIOUS
  <2> QED
    BY <2>1, <2>2
<1>2. PICK m \in Bad : \A k \in Bad : m <= k
  <2>1. Bad \in SUBSET Nat
    OBVIOUS
  <2> HIDE DEF Bad
  <2> QED
    BY <1>1, <2>1, Least
<1>3. \A x, y : Turn(0, x) = Turn(0, y)
  BY DEF PeriodsTurn
<1> HIDE DEF Turn
<1>4. m \in Nat /\ ~ \E f : Made(m, f)
  OBVIOUS
<1>5. CASE m = 0
  <2> DEFINE f == [n \in 0..0 |-> Turn(0, 0)]
  <2>1. \A n \in 0..0 : Turn(n, f[n - 1]) = Turn(0, 0)
    <3>1. \A n \in 0..0 : n = 0
      OBVIOUS
    <3> HIDE DEF f
    <3> QED
      BY <1>3, <3>1
  <2>2. Made(0, f)
    BY <2>1
  <2> QED
    BY <1>4, <1>5, <2>2
<1>6. CASE m # 0
  <2>1. m - 1 \in Nat /\ m - 1 <= most /\ m - 1 \notin Bad
    BY <1>2, <1>4, <1>6
  <2>2. PICK g : Made(m - 1, g)
    BY <2>1
  <2> DEFINE f == [n \in 0..m |-> IF n = m THEN Turn(m, g[m - 1]) ELSE g[n]]
  <2>3. ASSUME NEW n \in 0..m PROVE f[n] = Turn(n, f[n - 1])
    <3>1. CASE n = m
      <4>1. m - 1 \in 0..m /\ m - 1 # m /\ f[m - 1] = g[m - 1]
        BY <1>4, <1>6
      <4> QED
        BY <3>1, <4>1
    <3>2. CASE n # m
      <4>1. n \in 0..(m - 1) /\ f[n] = g[n]
        BY <1>4, <3>2
      <4>2. g[n] = Turn(n, g[n - 1])
        BY <2>2, <4>1
      <4>3. CASE n = 0
        BY <1>3, <4>1, <4>2, <4>3
      <4>4. CASE n # 0
        <5>1. n - 1 \in 0..m /\ n - 1 # m /\ f[n - 1] = g[n - 1]
          BY <1>4, <3>2, <4>4
        <5> QED
          BY <4>1, <4>2, <5>1
      <4> QED
        BY <4>3, <4>4
    <3> QED
      BY <3>1, <3>2
  <2>4. f = [n \in 0..m |-> f[n]]
    OBVIOUS
  <2> HIDE DEF f
  <2>5. Made(m, f)
    BY <2>3, <2>4
  <2> QED
    BY <1>4, <2>5
<1> QED
  BY <1>5, <1>6

(* A period of the grid, and one that overlaps a range.                      *)
PayPeriod(s, p) ==
    /\ p.pay \in Dates /\ p.pay \in Grid(s) /\ ReachesBack(s, p.pay)
    /\ p = PeriodForPayDate(s, p.pay)
Overlaps(s, earliest, horizon, p) ==
    /\ PayPeriod(s, p)
    /\ p.end >= earliest /\ p.start <= horizon

(* What the loop lists from a pay date, in n turns.                           *)
Tiled(s, earliest, horizon, n, date, ps) ==
    LET first == PeriodForPayDate(s, date) IN
    /\ ps \in Seq([pay : Int, start : Int, end : Int])
    /\ Tile(s, ps)
    /\ \A i \in DOMAIN ps : Overlaps(s, earliest, horizon, ps[i])
    /\ first.start > horizon => ps = <<>>
    /\ ps # <<>> => /\ ps[1].end >= earliest
                    /\ date >= earliest => ps[1] = first
                    /\ first.start <= earliest => ps[1].start <= earliest
    /\ horizon >= earliest /\ first.start <= horizon /\ 6 * n > horizon - first.start
          => ps # <<>> /\ InPeriod(ps[Len(ps)], horizon)

LEMMA ConsElements ==
    ASSUME NEW P, NEW p \in P, NEW ps \in Seq(P), NEW Q, p \in Q, \A j \in DOMAIN ps : ps[j] \in Q,
           NEW i \in DOMAIN (<<p>> \o ps)
    PROVE  (<<p>> \o ps)[i] \in Q
<1> DEFINE qs == <<p>> \o ps
<1>1. /\ qs \in Seq(P) /\ Len(qs) = 1 + Len(ps) /\ Len(ps) \in Nat /\ qs[1] = p
      /\ \A n \in Nat : n > 1 /\ n <= 1 + Len(ps) => qs[n] = ps[n - 1]
  OBVIOUS
<1>2. DOMAIN qs = 1..Len(qs) /\ DOMAIN ps = 1..Len(ps)
  OBVIOUS
<1>3. i \in DOMAIN qs
  OBVIOUS
<1> HIDE DEF qs
<1>4. ASSUME i # 1 PROVE i - 1 \in DOMAIN ps /\ qs[i] = ps[i - 1]
  BY <1>1, <1>2, <1>3, <1>4
<1>5. qs[i] \in Q
  BY <1>1, <1>4
<1> QED
  BY <1>5 DEF qs

(* A period in front of the periods after it.                                *)
LEMMA TileCons ==
    ASSUME NEW s, NEW p \in [pay : Int, start : Int, end : Int],
           NEW ps \in Seq([pay : Int, start : Int, end : Int]), Tile(s, ps),
           {d \in p.start..p.end : OnGrid(s, d)} = {p.pay},
           ps # <<>> => ps[1].start = p.end + 1
    PROVE  /\ <<p>> \o ps \in Seq([pay : Int, start : Int, end : Int])
           /\ Tile(s, <<p>> \o ps)
           /\ <<p>> \o ps # <<>> /\ (<<p>> \o ps)[1] = p
           /\ (<<p>> \o ps)[Len(<<p>> \o ps)] = IF ps = <<>> THEN p ELSE ps[Len(ps)]
<1> DEFINE P == [pay : Int, start : Int, end : Int]
           qs == <<p>> \o ps
<1>1. /\ qs \in Seq(P) /\ Len(qs) = 1 + Len(ps) /\ Len(ps) \in Nat /\ qs[1] = p
      /\ \A n \in Nat : n > 1 /\ n <= 1 + Len(ps) => qs[n] = ps[n - 1]
  OBVIOUS
<1>2. DOMAIN qs = 1..Len(qs) /\ DOMAIN ps = 1..Len(ps) /\ (ps = <<>> <=> Len(ps) = 0)
  OBVIOUS
<1> HIDE DEF qs, P
<1>3. ASSUME NEW n \in DOMAIN qs
      PROVE  /\ {d \in qs[n].start..qs[n].end : OnGrid(s, d)} = {qs[n].pay}
             /\ n > 1 => qs[n].start = qs[n - 1].end + 1
  <2>1. CASE n = 1
    BY <1>1, <2>1
  <2>2. CASE n = 2
    <3>1. 1 \in DOMAIN ps /\ ps # <<>> /\ qs[2] = ps[1]
      BY <1>1, <1>2, <2>2
    <3>2. {d \in ps[1].start..ps[1].end : OnGrid(s, d)} = {ps[1].pay}
      BY <3>1 DEF Tile
    <3> QED
      BY <1>1, <2>2, <3>1, <3>2
  <2>3. CASE n > 2
    <3> DEFINE m == n - 1
    <3> DEFINE k == Len(ps)
    <3>0. n \in Nat /\ n <= 1 + k /\ Len(qs) = 1 + k /\ k \in Nat
      BY <1>1, <1>2
    <3> HIDE DEF k
    <3>a. m \in Nat /\ m <= k /\ m > 1 /\ n > 1
      BY <2>3, <3>0
    <3>1. m <= 1 + k /\ m \in 1..k
      BY <3>0, <3>a
    <3>2. qs[n] = ps[m] /\ qs[m] = ps[m - 1]
      BY <1>1, <3>0, <3>1, <3>a DEF k
    <3>3. m \in DOMAIN ps
      BY <1>2, <3>1 DEF k
    <3> HIDE DEF m
    <3>4. /\ {d \in ps[m].start..ps[m].end : OnGrid(s, d)} = {ps[m].pay}
          /\ ps[m].start = ps[m - 1].end + 1
      BY <3>3, <3>a DEF Tile
    <3> QED
      BY <3>2, <3>4 DEF m
  <2>4. n = 1 \/ n = 2 \/ n > 2
    BY <1>1, <1>2
  <2> QED
    BY <2>1, <2>2, <2>3, <2>4
<1>4. Tile(s, qs)
  BY <1>3 DEF Tile
<1>5. qs # <<>> /\ qs[Len(qs)] = IF ps = <<>> THEN p ELSE ps[Len(ps)]
  BY <1>1, <1>2
<1> QED
  BY <1>1, <1>4, <1>5 DEF qs, P

(* One turn: the period of the pay date, then what the turns left list.       *)
LEMMA TurnTiles ==
    ASSUME NEW s \in ScheduleType, NEW earliest \in Int, NEW horizon \in Dates,
           Reaches(s, horizon + 744), NEW n \in Nat, n # 0, NEW rest,
           \A date \in Dates : date \in Grid(s) /\ ReachesBack(s, date)
                               => Tiled(s, earliest, horizon, n - 1, date, rest[date]),
           NEW date \in Dates, date \in Grid(s), ReachesBack(s, date)
    PROVE  Tiled(s, earliest, horizon, n, date, PeriodsTurn(s, earliest, horizon, n, rest)[date])
<1> DEFINE P == [pay : Int, start : Int, end : Int]
           first == PeriodForPayDate(s, date)
           next == NextPayDate(s, date + 1)
           ps == PeriodsTurn(s, earliest, horizon, n, rest)[date]
<1>0. date \in Nat /\ horizon \in Nat
  BY DateFacts
<1>1. /\ first.pay = date /\ first.end = date /\ first.start \in Int /\ date - first.start >= 5
      /\ {d \in first.start..first.end : OnGrid(s, d)} = {first.pay}
      /\ first \in P
  <2>1. /\ first.pay = date /\ first.end = date /\ first.start \in Int /\ date - first.start >= 5
        /\ {d \in first.start..first.end : OnGrid(s, d)} = {date}
    BY PeriodHolds
  <2>2. first = [pay |-> first.pay, start |-> first.start, end |-> first.end]
    BY DEF PeriodForPayDate
  <2> QED
    BY <1>0, <2>1, <2>2
<1>2. ps = IF first.start > horizon THEN <<>>
           ELSE (IF first.end >= earliest THEN <<first>> ELSE <<>>)
                \o (IF next <= date THEN <<>> ELSE rest[next])
  BY DEF PeriodsTurn
<1>3. CASE first.start > horizon
  <2>1. ps = <<>> /\ <<>> \in Seq(P)
    BY <1>2, <1>3
  <2>2. Tile(s, <<>>)
    BY DEF Tile
  <2> HIDE DEF ps, first, P
  <2>3. ~(first.start <= horizon) /\ DOMAIN ps = {}
    BY <1>0, <1>1, <1>3, <2>1
  <2> QED
    BY <2>1, <2>2, <2>3 DEF Tiled, first, P, ps
<1>4. CASE ~(first.start > horizon)
  <2>1. date < horizon + 744
    <3>1. first.start = PreviousPayDate(s, date) + 1
      BY DEF PeriodForPayDate
    <3>2. date >= horizon + 744 => PreviousPayDate(s, date) >= horizon /\ PreviousPayDate(s, date) \in Int
      BY PreviousNear
    <3> HIDE DEF first
    <3> QED
      BY <1>0, <1>1, <1>4, <3>1, <3>2
  <2>2. /\ next \in Dates /\ next \in Grid(s) /\ next > date /\ next \in Nat /\ ReachesBack(s, next)
        /\ PeriodForPayDate(s, next).start = date + 1
    BY <1>0, <2>1, PeriodAfter
  <2> DEFINE after == rest[next]
             from == PeriodForPayDate(s, next)
  <2>3. Tiled(s, earliest, horizon, n - 1, next, after)
    BY <2>2
  <2>4. ps = (IF date >= earliest THEN <<first>> ELSE <<>>) \o after
    <3>1. ~(next <= date) /\ (first.end >= earliest <=> date >= earliest)
      BY <1>0, <1>1, <2>2
    <3> HIDE DEF ps, first, next
    <3> QED
      BY <1>2, <1>4, <3>1
  <2>9. Overlaps(s, earliest, horizon, first) \/ ~(date >= earliest)
    <3>1. PeriodForPayDate(s, first.pay) = first
      BY <1>1
    <3>2. first.start <= horizon
      BY <1>0, <1>1, <1>4
    <3> HIDE DEF first
    <3> QED
      BY <1>1, <3>1, <3>2 DEF Overlaps, PayPeriod
  <2>5. /\ after \in Seq(P) /\ Tile(s, after)
        /\ \A i \in DOMAIN after : Overlaps(s, earliest, horizon, after[i])
        /\ from.start = date + 1
        /\ from.start > horizon => after = <<>>
        /\ after # <<>> => /\ after[1].end >= earliest
                           /\ next >= earliest => after[1] = from
                           /\ from.start <= earliest => after[1].start <= earliest
        /\ horizon >= earliest /\ from.start <= horizon /\ 6 * (n - 1) > horizon - from.start
              => after # <<>> /\ InPeriod(after[Len(after)], horizon)
    BY <2>2, <2>3 DEF Tiled
  <2> HIDE DEF ps, first, after, from, next, P
  <2>6. date + 1 <= horizon /\ 6 * n > horizon - first.start => 6 * (n - 1) > horizon - from.start
    BY <1>0, <1>1, <2>5
  <2>7. CASE date >= earliest
    <3>1. ps = <<first>> \o after
      BY <2>4, <2>7
    <3>2. after # <<>> => after[1].start = first.end + 1
      BY <1>0, <1>1, <2>2, <2>5, <2>7
    <3>3. /\ ps \in Seq(P) /\ Tile(s, ps) /\ ps # <<>> /\ ps[1] = first
          /\ ps[Len(ps)] = IF after = <<>> THEN first ELSE after[Len(after)]
      <4>1. /\ first \in [pay : Int, start : Int, end : Int]
            /\ {d \in first.start..first.end : OnGrid(s, d)} = {first.pay}
        BY <1>1 DEF P
      <4>2. after \in Seq([pay : Int, start : Int, end : Int]) /\ Tile(s, after)
        BY <2>5 DEF P
      <4> DEFINE whole == <<first>> \o after
      <4>3. Len(whole) = 1 + Len(after) /\ Len(after) \in Nat
            /\ \A j \in 1..1 + Len(after) : whole[j] = IF j = 1 THEN first ELSE after[j - 1]
        BY <4>2
      <4>4. whole \in Seq([pay : Int, start : Int, end : Int]) /\ Tile(s, whole)
        BY <3>2, <4>1, <4>2, TileCons
      <4> HIDE DEF whole
      <4>5. whole # <<>> /\ whole[1] = first
        BY <4>3
      <4>6. whole[Len(whole)] = IF after = <<>> THEN first ELSE after[Len(after)]
        BY <4>2, <4>3
      <4> QED
        BY <3>1, <4>4, <4>5, <4>6 DEF P, whole
    <3>5. \A i \in DOMAIN ps : Overlaps(s, earliest, horizon, ps[i])
      <4> DEFINE Q == {q \in P : Overlaps(s, earliest, horizon, q)}
      <4>1. after \in Seq(P) /\ \A j \in DOMAIN after : after[j] \in P
        BY <2>5
      <4>2. first \in P /\ first \in Q /\ \A j \in DOMAIN after : after[j] \in Q
        BY <1>1, <2>5, <2>7, <2>9, <4>1
      <4> HIDE DEF Q
      <4>3. \A i \in DOMAIN ps : ps[i] \in Q
        BY <3>1, <4>1, <4>2, ConsElements
      <4> QED
        BY <4>3 DEF Q
    <3>4. ASSUME horizon >= earliest, first.start <= horizon, 6 * n > horizon - first.start
          PROVE  InPeriod(ps[Len(ps)], horizon)
      <4>1. CASE horizon <= date
        <5>1. after = <<>>
          BY <1>0, <2>5, <4>1
        <5> QED
          BY <1>1, <3>3, <3>4, <4>1, <5>1 DEF InPeriod
      <4>2. CASE ~(horizon <= date)
        <5>1. date + 1 <= horizon /\ from.start <= horizon
          BY <1>0, <2>5, <4>2
        <5>2. after # <<>> /\ InPeriod(after[Len(after)], horizon)
          BY <2>5, <2>6, <3>4, <5>1
        <5> QED
          BY <3>3, <5>2
      <4> QED
        BY <4>1, <4>2
    <3> QED
      BY <1>1, <1>4, <2>7, <3>3, <3>4, <3>5 DEF Tiled, P, first, ps
  <2>8. CASE ~(date >= earliest)
    <3>1. ps = after
      BY <2>4, <2>5, <2>8
    <3>2. from.start <= earliest
      BY <1>0, <2>5, <2>8
    <3>3. ASSUME horizon >= earliest, first.start <= horizon, 6 * n > horizon - first.start
          PROVE  ps # <<>> /\ InPeriod(ps[Len(ps)], horizon)
      <4>1. date + 1 <= horizon /\ from.start <= horizon
        BY <1>0, <2>5, <2>8, <3>3
      <4> QED
        BY <2>5, <2>6, <3>1, <3>3, <4>1
    <3> QED
      BY <1>4, <2>5, <2>8, <3>1, <3>2, <3>3 DEF Tiled, P, first, ps
  <2> QED
    BY <2>7, <2>8
<1> QED
  BY <1>3, <1>4

(* All of the turns.                                                        *)
LEMMA TurnsTile ==
    ASSUME NEW s \in ScheduleType, NEW earliest \in Int, NEW horizon \in Dates,
           Reaches(s, horizon + 744), NEW most \in Nat, NEW f, Turns(s, earliest, horizon, most, f)
    PROVE  \A n \in 0..most : \A date \in Dates :
               date \in Grid(s) /\ ReachesBack(s, date)
               => Tiled(s, earliest, horizon, n, date, f[n][date])
<1> DEFINE Good(n) == \A date \in Dates : date \in Grid(s) /\ ReachesBack(s, date)
                                         => Tiled(s, earliest, horizon, n, date, f[n][date])
           Bad == {n \in Nat : n <= most /\ ~Good(n)}
<1>1. SUFFICES ASSUME Bad # {} PROVE FALSE
  <2> SUFFICES \A n \in 0..most : Good(n)
    OBVIOUS
  <2> HIDE DEF Good
  <2> QED
    OBVIOUS
<1>2. PICK n \in Bad : \A k \in Bad : n <= k
  <2>1. Bad \in SUBSET Nat
    OBVIOUS
  <2> HIDE DEF Bad
  <2> QED
    BY <1>1, <2>1, Least
<1>3. n \in Nat /\ n <= most /\ n \in 0..most /\ ~Good(n)
  OBVIOUS
<1>4. f[n] = PeriodsTurn(s, earliest, horizon, n, f[n - 1])
  BY <1>3 DEF Turns
<1>5. CASE n = 0
  <2>1. ASSUME NEW date \in Dates, date \in Grid(s), ReachesBack(s, date)
        PROVE  Tiled(s, earliest, horizon, n, date, f[n][date])
    <3> DEFINE first == PeriodForPayDate(s, date)
    <3>1. f[n][date] = <<>>
      BY <1>4, <1>5 DEF PeriodsTurn
    <3>2. /\ <<>> \in Seq([pay : Int, start : Int, end : Int]) /\ Tile(s, <<>>)
          /\ DOMAIN <<>> = {}
      BY DEF Tile
    <3>3. first.start \in Int /\ horizon \in Nat
      BY <2>1, PeriodHolds, DateFacts
    <3> HIDE DEF first
    <3>4. ~(first.start <= horizon /\ 6 * n > horizon - first.start)
      BY <1>5, <3>3
    <3> QED
      BY <3>1, <3>2, <3>4 DEF Tiled, first
  <2> QED
    BY <1>3, <2>1
<1>6. CASE n # 0
  <2>1. n - 1 \in Nat /\ n - 1 <= most /\ n - 1 \notin Bad
    BY <1>2, <1>3, <1>6
  <2>2. Good(n - 1)
    BY <2>1
  <2>3. ASSUME NEW date \in Dates, date \in Grid(s), ReachesBack(s, date)
        PROVE  Tiled(s, earliest, horizon, n, date, f[n][date])
    BY <1>3, <1>4, <1>6, <2>2, <2>3, TurnTiles
  <2> QED
    BY <1>3, <2>3
<1> QED
  BY <1>5, <1>6

(* The function the loop is, in the turns it is given.                        *)
LEMMA PeriodsFromTile ==
    ASSUME NEW s \in ScheduleType, NEW earliest \in Int, NEW horizon \in Dates,
           Reaches(s, horizon + 744), NEW most \in Nat,
           NEW date \in Dates, date \in Grid(s), ReachesBack(s, date)
    PROVE  Tiled(s, earliest, horizon, most, date, PeriodsFrom(s, date, earliest, horizon, most))
<1> DEFINE turns[n \in 0..most] == PeriodsTurn(s, earliest, horizon, n, turns[n - 1])
<1>1. \E f : Turns(s, earliest, horizon, most, f)
  BY TurnsExist
<1>2. Turns(s, earliest, horizon, most, turns)
  BY <1>1 DEF Turns
<1>3. PeriodsFrom(s, date, earliest, horizon, most) = turns[most][date]
  BY DEF PeriodsFrom, PeriodsTurn
<1> HIDE DEF turns
<1>4. most \in 0..most
  OBVIOUS
<1>5. Tiled(s, earliest, horizon, most, date, turns[most][date])
  BY <1>2, <1>4, TurnsTile
<1> QED
  BY <1>3, <1>5

(* The first period of the list holds the day it was looked up by.             *)
LEMMA PeriodContains ==
    ASSUME NEW s \in ScheduleType, NEW reach \in Int, Reaches(s, reach),
           NEW from \in Dates, from <= reach, ReachesBack(s, from)
    PROVE  LET next == NextPayDate(s, from) IN
           /\ next \in Dates /\ next \in Grid(s) /\ ReachesBack(s, next)
           /\ InPeriod(PeriodForPayDate(s, next), from)
           /\ PeriodForPayDate(s, next).start \in Int
<1> DEFINE n == NextPayDate(s, from)
           b == PreviousPayDate(s, n)
<1>0. from \in Nat
  BY DateFacts
<1>1. /\ n \in Grid(s) /\ n \in Dates /\ n \in Nat /\ n >= from
      /\ \A c \in Grid(s) : c >= from => c >= n
  BY <1>0, NextIsFirst
<1>2. ReachesBack(s, n)
  <2>1. MonthOf[from] <= MonthOf[n]
    BY <1>0, <1>1, MonthBefore
  <2>2. MonthOf[from] \in Nat /\ MonthOf[n] \in Nat
    BY <1>1, MonthOfIs, MonthFacts
  <2>3. MonthsApart(s) \in Nat
    BY DEF MonthsApart
  <2> QED
    BY <2>1, <2>2, <2>3 DEF ReachesBack
<1>3. b \in Int /\ n - b > 5 /\ b \in Grid(s)
  BY <1>1, <1>2, PreviousIs
<1>4. b >= from => b >= n
  BY <1>1, <1>3
<1>5. PeriodForPayDate(s, n) = [pay |-> n, start |-> b + 1, end |-> n]
  BY DEF PeriodForPayDate
<1> HIDE DEF n, b
<1>6. b + 1 <= from /\ from <= n
  BY <1>0, <1>1, <1>3, <1>4
<1> QED
  BY <1>1, <1>2, <1>3, <1>5, <1>6 DEF InPeriod, n

(* What either list of periods holds, looked up by a day.                      *)
LEMMA PeriodsListed ==
    ASSUME NEW s \in ScheduleType, NEW from \in Dates, NEW earliest \in Dates, from <= earliest,
           NEW horizon \in Dates, NEW most \in Nat,
           NEW reach \in Int, Reaches(s, reach), horizon + 744 <= reach,
           from <= reach, ReachesBack(s, from)
    PROVE  LET ps == PeriodsFrom(s, NextPayDate(s, from), earliest, horizon, most)
               first == PeriodContaining(s, from) IN
           /\ ps \in Seq([pay : Int, start : Int, end : Int])
           /\ Tile(s, ps)
           /\ \A i \in DOMAIN ps : Overlaps(s, earliest, horizon, ps[i])
           /\ ps # <<>> => InPeriod(ps[1], earliest)
           /\ horizon >= earliest /\ 6 * most > horizon - first.start
                 => ps # <<>> /\ InPeriod(ps[Len(ps)], horizon)
<1> DEFINE P == [pay : Int, start : Int, end : Int]
           next == NextPayDate(s, from)
           first == PeriodForPayDate(s, next)
           ps == PeriodsFrom(s, next, earliest, horizon, most)
<1>0. from \in Nat /\ earliest \in Nat /\ earliest \in Int /\ horizon \in Nat
  BY DateFacts
<1>1. /\ next \in Dates /\ next \in Grid(s) /\ ReachesBack(s, next)
      /\ InPeriod(first, from) /\ first.start \in Int
  BY PeriodContains
<1>2. Reaches(s, horizon + 744)
  BY <1>0, ReachesLess
<1> HIDE DEF next
<1>3. Tiled(s, earliest, horizon, most, next, ps)
  BY <1>0, <1>1, <1>2, PeriodsFromTile
<1>4. first.start <= from
  BY <1>1 DEF InPeriod
<1> HIDE DEF ps, first
<1>5. /\ ps \in Seq(P)
      /\ Tile(s, ps)
      /\ \A i \in DOMAIN ps : Overlaps(s, earliest, horizon, ps[i])
      /\ ps # <<>> => /\ ps[1].end >= earliest
                      /\ first.start <= earliest => ps[1].start <= earliest
      /\ horizon >= earliest /\ first.start <= horizon /\ 6 * most > horizon - first.start
            => ps # <<>> /\ InPeriod(ps[Len(ps)], horizon)
  BY <1>3 DEF Tiled, first
<1>6. first.start <= earliest /\ (horizon >= earliest => first.start <= horizon)
  BY <1>0, <1>1, <1>4
<1>7. ps # <<>> => InPeriod(ps[1], earliest)
  <2>1. \A q \in P : q.end \in Int
    OBVIOUS
  <2> HIDE DEF P
  <2>2. ps # <<>> => ps[1] \in P
    BY <1>5
  <2>3. ps # <<>> => ps[1].end \in Int
    BY <2>1, <2>2
  <2> QED
    BY <1>0, <1>5, <1>6, <2>3 DEF InPeriod
<1>8. PeriodContaining(s, from) = first
  BY DEF PeriodContaining, first, next
<1> QED
  BY <1>5, <1>6, <1>7, <1>8 DEF ps, next

(* get_projection_periods: the periods of a projection follow each other       *)
(* without gap or overlap, each ends on its pay date and holds no other; the    *)
(* first holds the day the projection starts, and the last its end, unless       *)
(* MAX_PROJECTION_PERIODS are too few (six days each would not reach).  Bound:    *)
(* the calendar reaches two years past the end, and a pay date back.             *)
THEOREM ProjectionPeriodsTile ==
    ASSUME NEW s \in ScheduleType, NEW day \in Dates, NEW start \in Dates \cup {NoDate},
           NEW end \in Dates \cup {NoDate}, NEW horizon \in Dates,
           horizon = IF end = NoDate THEN AddMonths(day, 12) ELSE end,
           NEW earliest \in Dates, earliest = IF start = NoDate THEN day ELSE start,
           NEW reach \in Int, Reaches(s, reach), horizon + 744 <= reach,
           LeastOf(earliest, day) <= reach, ReachesBack(s, LeastOf(earliest, day))
    PROVE  LET ps == ProjectionPeriods(s, day, start, end)
               first == PeriodContaining(s, LeastOf(earliest, day)) IN
           /\ ps \in Seq([pay : Int, start : Int, end : Int])
           /\ Tile(s, ps)
           /\ \A i \in DOMAIN ps : Overlaps(s, earliest, horizon, ps[i])
           /\ ps # <<>> => InPeriod(ps[1], earliest)
           /\ horizon >= earliest /\ 6 * MaxPeriods > horizon - first.start
                 => ps # <<>> /\ InPeriod(ps[Len(ps)], horizon)
<1> DEFINE from == LeastOf(earliest, day)
<1>1. from \in Dates /\ from <= earliest
  <2>1. earliest \in Nat /\ day \in Nat
    BY DateFacts
  <2> QED
    BY <2>1 DEF LeastOf
<1>2. ProjectionPeriods(s, day, start, end)
        = PeriodsFrom(s, NextPayDate(s, from), earliest, horizon, MaxPeriods)
  BY DEF ProjectionPeriods
<1> DEFINE ps == PeriodsFrom(s, NextPayDate(s, from), earliest, horizon, MaxPeriods)
           first == PeriodContaining(s, from)
<1>3. from <= reach /\ ReachesBack(s, from) /\ MaxPeriods \in Nat
  BY BoundsAssumption
<1> HIDE DEF from
<1>4. /\ ps \in Seq([pay : Int, start : Int, end : Int])
      /\ Tile(s, ps)
      /\ \A i \in DOMAIN ps : Overlaps(s, earliest, horizon, ps[i])
      /\ ps # <<>> => InPeriod(ps[1], earliest)
      /\ horizon >= earliest /\ 6 * MaxPeriods > horizon - first.start
            => ps # <<>> /\ InPeriod(ps[Len(ps)], horizon)
  BY <1>1, <1>3, PeriodsListed
<1> HIDE DEF ps
<1>5. ProjectionPeriods(s, day, start, end) = ps
  BY <1>2 DEF ps
<1> QED
  BY <1>4, <1>5 DEF from

(* get_pay_periods_overlapping_range: the same of the periods that overlap a     *)
(* range, which begin with the one that holds its first day and go on to its     *)
(* last, unless 400 are too few.                                                *)
THEOREM OverlappingPeriodsTile ==
    ASSUME NEW s \in ScheduleType, NEW from \in Dates, NEW to \in Dates, from <= to,
           NEW reach \in Int, Reaches(s, reach), to + 744 <= reach, ReachesBack(s, from)
    PROVE  LET ps == PayPeriodsOverlapping(s, from, to)
               first == PeriodContaining(s, from) IN
           /\ ps \in Seq([pay : Int, start : Int, end : Int])
           /\ Tile(s, ps)
           /\ \A i \in DOMAIN ps : Overlaps(s, from, to, ps[i])
           /\ ps # <<>> => InPeriod(ps[1], from)
           /\ 6 * MaxOverlapping > to - first.start => ps # <<>> /\ InPeriod(ps[Len(ps)], to)
<1>1. from <= from /\ from <= reach /\ to >= from /\ ~(from > to)
  BY DateFacts
<1>2. PayPeriodsOverlapping(s, from, to)
        = PeriodsFrom(s, NextPayDate(s, from), from, to, MaxOverlapping)
  BY <1>1 DEF PayPeriodsOverlapping
<1> QED
  BY <1>1, <1>2, BoundsAssumption, PeriodsListed

(* What is due on a day: the charges five and two days after it that happen. *)
LEMMA DueIs ==
    ASSUME NEW s \in Schedules, NEW day \in 0..LastDay
    PROVE  /\ Due(s, day) = {[charge |-> day + k, kind |-> k] : k \in {k \in ReminderKinds : OccursOn(s, day + k)}}
           /\ \A d, e \in Due(s, day) : d = e
<1> DEFINE n == NextOccurrence(s, day)
<1>0. s \in ScheduleType /\ Reaches(s, LastDay + 5)
  BY RemindersAssumption, CalendarReaches
<1>1. ReminderKinds = {5, 2} /\ LastDay \in Nat /\ day \in Nat /\ LastDay + 5 \in Int
  BY RemindersAssumption DEF ReminderKinds
<1>2. n \in Nat
  BY <1>1, <1>0, NextOccurrenceIs
<1>3. Due(s, day) = {[charge |-> n, kind |-> k] : k \in {k \in ReminderKinds : n - k = day /\ ~(s.last # NoDate /\ n > s.last)}}
  BY DEF Due
<1>4. ASSUME NEW k \in ReminderKinds
      PROVE  n - k = day /\ ~(s.last # NoDate /\ n > s.last) <=> n = day + k /\ OccursOn(s, day + k)
  <2>1. k \in 0..5 /\ day + k \in Int /\ day + k <= LastDay + 5
    BY <1>1
  <2>2. n = day + k <=> NextOccurrence(s, day + k) = day + k
    BY <1>1, <2>1, <1>0, SeenFromBefore
  <2>3. OccursOn(s, day + k) <=> NextOccurrence(s, day + k) = day + k /\ ~(s.last # NoDate /\ day + k > s.last)
    BY <1>0, <1>1, <2>1, OccursOnIs
  <2>4. n - k = day <=> n = day + k
    BY <1>1, <1>2
  <2> HIDE DEF n
  <2> QED
    BY <2>2, <2>3, <2>4
<1>5. ASSUME NEW k \in ReminderKinds, OccursOn(s, day + k) PROVE n = day + k
  <2>1. k \in 0..5 /\ day + k \in Int /\ day + k <= LastDay + 5
    BY <1>1
  <2> QED
    BY <1>1, <1>5, <2>1, <1>0, SeenFromBefore, OccursOnIs
<1> HIDE DEF n
<1>6. Due(s, day) = {[charge |-> day + k, kind |-> k] : k \in {k \in ReminderKinds : OccursOn(s, day + k)}}
  <2>1. {k \in ReminderKinds : n - k = day /\ ~(s.last # NoDate /\ n > s.last)} = {k \in ReminderKinds : OccursOn(s, day + k)}
    BY <1>4, <1>5
  <2> QED
    BY <1>3, <1>5, <2>1
<1>7. \A k, l \in ReminderKinds : n - k = day /\ n - l = day => k = l
  BY <1>1, <1>2
<1> QED
  BY <1>3, <1>6, <1>7

-----------------------------------------------------------------------------
(* The passes: what a step loaded, what it has recorded, and the rows. *)

Reminded(rs, t, s, day) ==
    \A k \in ReminderKinds : OccursOn(s, day + k)
        => \E r \in rs : r.tpl = t /\ r.charge = day + k /\ r.kind = k

HasSchedule(row) == row.status = "live" => row.schedule \in Schedules

(* What a step loaded is older than the templates or the same, and what it   *)
(* has gone through is recorded.                                            *)
StepFollows ==
    pass.pc = "record" =>
        \A t \in Recurring :
            LET row == pass.snap[t] IN
            /\ HasSchedule(row)
            /\ row.saves <= recurring[t].saves
            /\ row.saves = recurring[t].saves => row = recurring[t]
            /\ t \in pass.todo => Candidate(row)
            /\ t \notin pass.todo /\ Candidate(row) => Reminded(reminder, t, row.schedule, pass.today)

RowsTrue ==
    \A r \in reminder :
        LET row == recurring[r.tpl] IN
        /\ r.of <= row.saves
        /\ r.of = row.saves => Candidate(row) /\ OccursOn(row.schedule, r.charge)

ClockBounds == now <= LastDay /\ pass.today <= now /\ aborts \in Nat

ListingInv ==
    /\ RemindersInv /\ ClockBounds
    /\ \A t \in Recurring : HasSchedule(recurring[t])
    /\ StepFollows /\ RowsTrue

LEMMA ListingFacts ==
    ASSUME ListingInv
    PROVE  /\ now \in Nat /\ now <= LastDay /\ LastDay \in Nat /\ pass.today \in Nat /\ pass.today <= now
           /\ pass.today \in 0..LastDay /\ aborts \in Nat
           /\ recurring \in [Recurring -> TemplateState] /\ pass \in PassState /\ reminder \subseteq RowState
           /\ \A t \in Recurring : recurring[t].saves \in Nat /\ pass.snap[t] \in TemplateState
                                   /\ pass.snap[t].saves \in Nat
<1>1. /\ now \in Nat /\ recurring \in [Recurring -> TemplateState] /\ pass \in PassState /\ reminder \subseteq RowState
      /\ now <= LastDay /\ pass.today <= now /\ aborts \in Nat /\ LastDay \in Nat
  BY RemindersAssumption DEF ListingInv, RemindersInv, RemindersTyped, ClockBounds
<1>2. pass.today \in Nat /\ pass.snap \in [Recurring -> TemplateState]
  BY <1>1 DEF PassState
<1>3. \A row \in TemplateState : row.saves \in Nat
  BY DEF TemplateState
<1> QED
  BY <1>1, <1>2, <1>3

(* A step that is not a save and loads nothing, and whose rows were there    *)
(* before with the same charge, or are true.                                *)
Kept(t, charge, kind, rs) == \E r \in rs : r.tpl = t /\ r.charge = charge /\ r.kind = kind
TrueRow(r) ==
    LET row == recurring[r.tpl] IN
    /\ r.of <= row.saves
    /\ r.of = row.saves => Candidate(row) /\ OccursOn(row.schedule, r.charge)

LEMMA RowsStayTrue ==
    ASSUME RowsTrue, UNCHANGED recurring,
           \A q \in reminder' : \/ \E r \in reminder : q.tpl = r.tpl /\ q.charge = r.charge /\ q.of = r.of
                                \/ TrueRow(q)
    PROVE  RowsTrue'
<1>1. \A q \in reminder' : TrueRow(q)
  BY DEF RowsTrue, TrueRow
<1> QED
  BY <1>1 DEF RowsTrue, TrueRow

LEMMA StaysReminded ==
    ASSUME NEW t, NEW s, NEW day, Reminded(reminder, t, s, day),
           \A r \in reminder : Kept(r.tpl, r.charge, r.kind, reminder')
    PROVE  Reminded(reminder', t, s, day)
BY DEF Reminded, Kept

(* What a step leaves to go through, and what it records.                    *)
LEMMA RecordEffect ==
    ASSUME ListingInv, NEW t \in Recurring, Record(t)
    PROVE  /\ reminder \subseteq reminder'
           /\ \A q \in reminder' \ reminder : TrueRow(q)
           /\ Reminded(reminder', t, pass.snap[t].schedule, pass.today)
<1> DEFINE row == pass.snap[t]
           s == row.schedule
           day == pass.today
           due == Due(s, day)
           d == CHOOSE e \in due : TRUE
<1>1. /\ Candidate(row) /\ HasSchedule(row) /\ row.saves <= recurring[t].saves
      /\ row.saves = recurring[t].saves => row = recurring[t]
  BY DEF Record, ListingInv, StepFollows
<1>2. s \in Schedules /\ day \in 0..LastDay
  BY <1>1, ListingFacts DEF HasSchedule, Candidate
<1> HIDE DEF s, day
<1>3. /\ due = {[charge |-> day + k, kind |-> k] : k \in {k \in ReminderKinds : OccursOn(s, day + k)}}
      /\ \A e, f \in due : e = f
  BY <1>2, DueIs
<1>4. reminder' = IF due = {} THEN reminder ELSE Upsert(reminder, t, d, row.saves)
  BY DEF Record, s, day
<1> HIDE DEF due, row, d
<1>5. CASE due = {}
  <2>1. \A k \in ReminderKinds : ~OccursOn(s, day + k)
    BY <1>3, <1>5
  <2> QED
    BY <1>4, <1>5, <2>1 DEF Reminded, s, day, row
<1>6. CASE due # {}
  <2>1. d \in due
    BY <1>6 DEF d
  <2>2. PICK k \in ReminderKinds : d = [charge |-> day + k, kind |-> k] /\ OccursOn(s, day + k)
    BY <1>3, <2>1
  <2>3. ASSUME NEW l \in ReminderKinds, OccursOn(s, day + l) PROVE l = k
    <3>1. [charge |-> day + l, kind |-> l] \in due
      BY <1>3, <2>3
    <3>2. [charge |-> day + l, kind |-> l] = [charge |-> day + k, kind |-> k]
      BY <1>3, <2>1, <2>2, <3>1
    <3>3. [charge |-> day + l, kind |-> l].kind = [charge |-> day + k, kind |-> k].kind
      BY <3>2
    <3> QED
      BY <3>3
  <2>4. d.charge = day + k /\ d.kind = k
    BY <2>2
  <2> HIDE DEF s, day
  <2>5. reminder' = Upsert(reminder, t, d, row.saves)
    BY <1>4, <1>6
  <2> DEFINE n == [tpl |-> t, charge |-> d.charge, kind |-> d.kind, dismissed |-> FALSE, of |-> row.saves]
  <2>6. CASE \E r \in reminder : r.tpl = t /\ r.charge = d.charge /\ r.kind = d.kind
    <3>1. reminder' = reminder
      BY <2>5, <2>6 DEF Upsert
    <3>2. \A l \in ReminderKinds : OccursOn(s, day + l)
                             => \E r \in reminder' : r.tpl = t /\ r.charge = day + l /\ r.kind = l
      BY <2>3, <2>4, <2>6, <3>1
    <3> QED
      BY <3>1, <3>2 DEF Reminded, s, day, row
  <2>7. CASE ~\E r \in reminder : r.tpl = t /\ r.charge = d.charge /\ r.kind = d.kind
    <3>1. reminder' = reminder \cup {n}
      BY <2>5, <2>7 DEF Upsert
    <3>2. n.tpl = t /\ n.charge = day + k /\ n.kind = k /\ n.of = row.saves
      BY <2>4
    <3> HIDE DEF n
    <3>3. \A l \in ReminderKinds : OccursOn(s, day + l)
                             => \E r \in reminder' : r.tpl = t /\ r.charge = day + l /\ r.kind = l
      BY <2>3, <3>1, <3>2
    <3>4. TrueRow(n)
      <4>1. row.saves = recurring[t].saves => Candidate(recurring[t]) /\ OccursOn(recurring[t].schedule, n.charge)
        BY <1>1, <2>2, <3>2 DEF s
      <4> QED
        BY <1>1, <3>2, <4>1 DEF TrueRow
    <3> QED
      BY <3>1, <3>3, <3>4 DEF Reminded, s, day, row
  <2> QED
    BY <2>6, <2>7
<1> QED
  BY <1>5, <1>6

LEMMA RecordKeepsListing ==
    ASSUME ListingInv, NEW t \in Recurring, Record(t)
    PROVE  (ClockBounds /\ (\A u \in Recurring : HasSchedule(recurring[u])) /\ StepFollows /\ RowsTrue)'
<1>1. /\ reminder \subseteq reminder'
      /\ \A q \in reminder' \ reminder : TrueRow(q)
      /\ Reminded(reminder', t, pass.snap[t].schedule, pass.today)
  BY RecordEffect
<1>2. UNCHANGED <<now, recurring, aborts>> /\ pass' = [pass EXCEPT !.todo = @ \ {t}] /\ pass.pc = "record"
  BY DEF Record
<1>3. /\ pass'.pc = pass.pc /\ pass'.today = pass.today /\ pass'.snap = pass.snap
      /\ pass'.todo = pass.todo \ {t}
  BY <1>2, ListingFacts DEF PassState
<1>4. RowsTrue'
  <2>1. \A q \in reminder' : \/ \E r \in reminder : q.tpl = r.tpl /\ q.charge = r.charge /\ q.of = r.of
                             \/ TrueRow(q)
    BY <1>1
  <2> QED
    BY <1>2, <2>1, RowsStayTrue DEF ListingInv
<1>5. \A r \in reminder : Kept(r.tpl, r.charge, r.kind, reminder')
  BY <1>1 DEF Kept
<1>6. StepFollows'
  <2>1. ASSUME NEW u \in Recurring
        PROVE  LET row == pass.snap[u] IN
               /\ HasSchedule(row)
               /\ row.saves <= recurring[u].saves
               /\ row.saves = recurring[u].saves => row = recurring[u]
               /\ u \in pass.todo => Candidate(row)
               /\ u \notin pass.todo /\ Candidate(row) => Reminded(reminder, u, row.schedule, pass.today)
    BY <1>2 DEF ListingInv, StepFollows
  <2>2. ASSUME NEW u \in Recurring, u \notin pass.todo, Candidate(pass.snap[u])
        PROVE  Reminded(reminder', u, pass.snap[u].schedule, pass.today)
    <3>1. Reminded(reminder, u, pass.snap[u].schedule, pass.today)
      BY <2>1, <2>2
    <3>2. \A k \in ReminderKinds : OccursOn(pass.snap[u].schedule, pass.today + k)
            => \E r \in reminder' : r.tpl = u /\ r.charge = pass.today + k /\ r.kind = k
      BY <1>1, <3>1 DEF Reminded
    <3> QED
      BY <1>3, <3>2 DEF Reminded
  <2>3. ASSUME NEW u \in Recurring
        PROVE  (LET row == pass.snap[u] IN
               /\ HasSchedule(row)
               /\ row.saves <= recurring[u].saves
               /\ row.saves = recurring[u].saves => row = recurring[u]
               /\ u \in pass.todo => Candidate(row)
               /\ u \notin pass.todo /\ Candidate(row) => Reminded(reminder, u, row.schedule, pass.today))'
    <3>1. u = t => Reminded(reminder', u, pass.snap[u].schedule, pass.today)
      BY <1>1
    <3> QED
      BY <1>2, <1>3, <2>1, <2>2, <3>1 DEF HasSchedule, Candidate
  <2> QED
    BY <2>3 DEF StepFollows
<1>7. ClockBounds'
  BY <1>2, <1>3 DEF ListingInv, ClockBounds
<1>8. (\A u \in Recurring : HasSchedule(recurring[u]))'
  BY <1>2 DEF ListingInv, HasSchedule
<1> QED
  BY <1>4, <1>6, <1>7, <1>8

LEMMA SaveKeepsListing ==
    ASSUME ListingInv, NEW t \in Recurring, NEW row \in TemplateState, HasSchedule(row), Save(t, row)
    PROVE  (ClockBounds /\ (\A u \in Recurring : HasSchedule(recurring[u])) /\ StepFollows /\ RowsTrue)'
<1> DEFINE n == recurring[t].saves + 1
           new == [row EXCEPT !.saves = n]
<1>1. /\ recurring' = [recurring EXCEPT ![t] = new] /\ UNCHANGED <<now, reminder, pass, aborts>>
  BY DEF Save
<1>2. new.saves = n /\ new.status = row.status /\ new.schedule = row.schedule
  <2> HIDE DEF n
  <2> QED
    BY DEF TemplateState
<1>3. HasSchedule(new)
  BY <1>2 DEF HasSchedule
<1>4. recurring[t].saves \in Nat /\ n = recurring[t].saves + 1
  BY ListingFacts
<1> HIDE DEF new, n
<1>5. /\ recurring'[t] = new
      /\ \A u \in Recurring : u # t => recurring'[u] = recurring[u]
  BY <1>1, ListingFacts
<1>6. (\A u \in Recurring : HasSchedule(recurring[u]))'
  BY <1>3, <1>5 DEF ListingInv, HasSchedule
<1>7. RowsTrue'
  <2>1. ASSUME NEW r \in reminder
        PROVE  LET now_row == recurring'[r.tpl] IN
               /\ r.of <= now_row.saves
               /\ r.of = now_row.saves => Candidate(now_row) /\ OccursOn(now_row.schedule, r.charge)
    <3>1. /\ r.tpl \in Recurring /\ r.of \in Nat
          /\ r.of <= recurring[r.tpl].saves
          /\ r.of = recurring[r.tpl].saves
               => Candidate(recurring[r.tpl]) /\ OccursOn(recurring[r.tpl].schedule, r.charge)
      BY ListingFacts DEF ListingInv, RowsTrue, RowState
    <3>2. CASE r.tpl = t
      <4>1. r.of < new.saves /\ recurring'[r.tpl] = new
        BY <1>2, <1>4, <1>5, <3>1, <3>2
      <4>2. new.saves \in Nat
        BY <1>2, <1>4
      <4> QED
        BY <3>1, <4>1, <4>2
    <3>3. CASE r.tpl # t
      BY <1>5, <3>1, <3>3
    <3> QED
      BY <3>2, <3>3
  <2> QED
    BY <1>1, <2>1 DEF RowsTrue, Candidate
<1>8. StepFollows'
  <2> SUFFICES ASSUME pass.pc = "record", NEW u \in Recurring
               PROVE  LET old == pass.snap[u] IN
                      /\ HasSchedule(old)
                      /\ old.saves <= recurring'[u].saves
                      /\ old.saves = recurring'[u].saves => old = recurring'[u]
                      /\ u \in pass.todo => Candidate(old)
                      /\ u \notin pass.todo /\ Candidate(old)
                           => Reminded(reminder, u, old.schedule, pass.today)
    BY <1>1 DEF StepFollows, HasSchedule, Candidate, Reminded
  <2>1. LET old == pass.snap[u] IN
        /\ HasSchedule(old)
        /\ old.saves <= recurring[u].saves
        /\ old.saves = recurring[u].saves => old = recurring[u]
        /\ u \in pass.todo => Candidate(old)
        /\ u \notin pass.todo /\ Candidate(old)
             => Reminded(reminder, u, old.schedule, pass.today)
    BY DEF ListingInv, StepFollows
  <2>2. CASE u # t
    BY <1>5, <2>1, <2>2
  <2>3. CASE u = t
    <3>1. pass.snap[u].saves < recurring'[u].saves /\ pass.snap[u].saves \in Nat /\ recurring'[u].saves \in Nat
      BY <1>2, <1>4, <1>5, <2>1, <2>3, ListingFacts
    <3> QED
      BY <2>1, <3>1
  <2> QED
    BY <2>2, <2>3
<1>9. ClockBounds'
  BY <1>1 DEF ListingInv, ClockBounds
<1> QED
  BY <1>6, <1>7, <1>8, <1>9

LEMMA DismissKeepsListing ==
    ASSUME ListingInv, NEW r \in reminder, Dismiss(r)
    PROVE  (ClockBounds /\ (\A u \in Recurring : HasSchedule(recurring[u])) /\ StepFollows /\ RowsTrue)'
<1> DEFINE n == [r EXCEPT !.dismissed = TRUE]
<1>1. n.tpl = r.tpl /\ n.charge = r.charge /\ n.kind = r.kind /\ n.of = r.of
  BY ListingFacts, DismissedFields
<1>2. reminder' = (reminder \ {r}) \cup {n} /\ UNCHANGED <<now, recurring, pass, aborts>>
  BY DEF Dismiss
<1> HIDE DEF n
<1>3. RowsTrue'
  <2>1. \A q \in reminder' : \E o \in reminder : q.tpl = o.tpl /\ q.charge = o.charge /\ q.of = o.of
    BY <1>1, <1>2
  <2> QED
    BY <1>2, <2>1, RowsStayTrue DEF ListingInv
<1>4. \A q \in reminder : Kept(q.tpl, q.charge, q.kind, reminder')
  BY <1>1, <1>2 DEF Kept
<1>5. StepFollows'
  <2>1. \A u \in Recurring : Reminded(reminder, u, pass.snap[u].schedule, pass.today)
                               => Reminded(reminder', u, pass.snap[u].schedule, pass.today)
    BY <1>4, StaysReminded
  <2> QED
    BY <1>2, <2>1 DEF ListingInv, StepFollows, HasSchedule, Candidate
<1> QED
  BY <1>2, <1>3, <1>5 DEF ListingInv, ClockBounds, HasSchedule

LEMMA LoadKeepsListing ==
    ASSUME ListingInv, LoadCandidates
    PROVE  (ClockBounds /\ (\A u \in Recurring : HasSchedule(recurring[u])) /\ StepFollows /\ RowsTrue)'
<1> DEFINE todo == {t \in Recurring : Candidate(recurring[t])}
<1>1. /\ pass' = [pass EXCEPT !.pc = "record", !.snap = recurring, !.todo = todo]
      /\ UNCHANGED <<now, recurring, reminder, aborts>>
  BY DEF LoadCandidates
<1> HIDE DEF todo
<1>2. pass'.snap = recurring /\ pass'.todo = todo /\ pass'.today = pass.today
  BY <1>1, ListingFacts DEF PassState
<1>3. \A t \in Recurring : t \in todo <=> Candidate(recurring[t])
  BY DEF todo
<1>4. StepFollows'
  BY <1>1, <1>2, <1>3, ListingFacts DEF ListingInv, StepFollows, HasSchedule, Candidate
<1>5. RowsTrue'
  BY <1>1, RowsStayTrue DEF ListingInv
<1> QED
  BY <1>1, <1>2, <1>4, <1>5 DEF ListingInv, ClockBounds, HasSchedule

(* No step of a pass is underway, or the clock moves.                        *)
LEMMA RestKeepsListing ==
    ASSUME ListingInv, BeginPass \/ EndStep \/ Abort \/ NextDay \/ UNCHANGED reminderVars
    PROVE  (ClockBounds /\ (\A u \in Recurring : HasSchedule(recurring[u])) /\ StepFollows /\ RowsTrue)'
<1>1. UNCHANGED <<recurring, reminder>>
  BY DEF BeginPass, EndStep, Abort, NextDay, reminderVars
<1>2. RowsTrue' /\ (\A u \in Recurring : HasSchedule(recurring[u]))'
  <2>1. \A q \in reminder' : \E o \in reminder : q.tpl = o.tpl /\ q.charge = o.charge /\ q.of = o.of
    BY <1>1
  <2> QED
    BY <1>1, <2>1, RowsStayTrue DEF ListingInv, HasSchedule
<1>3. CASE BeginPass
  <2>1. pass'.pc = "load" /\ pass'.today = now /\ UNCHANGED <<now, aborts>>
    BY <1>3 DEF BeginPass, IdlePass
  <2> QED
    BY <1>2, <2>1, ListingFacts DEF StepFollows, ClockBounds
<1>4. CASE EndStep \/ Abort
  <2>1. pass'.pc = "idle" /\ pass'.today = 0 /\ now' = now /\ aborts' \in Nat
    BY <1>4, ListingFacts DEF EndStep, Abort, IdlePass
  <2> QED
    BY <1>2, <2>1, ListingFacts DEF StepFollows, ClockBounds
<1>5. CASE NextDay \/ UNCHANGED reminderVars
  <2>1. UNCHANGED <<recurring, reminder, pass, aborts>> /\ now' \in {now, now + 1} /\ now' <= LastDay
    BY <1>5, ListingFacts DEF NextDay, reminderVars
  <2>2. StepFollows'
    BY <2>1 DEF ListingInv, StepFollows, HasSchedule, Candidate, Reminded
  <2> QED
    BY <1>2, <2>1, <2>2, ListingFacts DEF ClockBounds
<1> QED
  BY <1>3, <1>4, <1>5

LEMMA StepKeepsListing == ASSUME ListingInv, [RemindersNext]_reminderVars PROVE ListingInv'
<1> DEFINE Rest == ClockBounds /\ (\A u \in Recurring : HasSchedule(recurring[u])) /\ StepFollows /\ RowsTrue
<1>1. RemindersInv'
  BY StepKeepsRemindersInv DEF ListingInv
<1>2. ASSUME NEW t \in Recurring, Record(t) PROVE Rest'
  BY <1>2, RecordKeepsListing
<1>3. ASSUME NEW r \in reminder, Dismiss(r) PROVE Rest'
  BY <1>3, DismissKeepsListing
<1>4. ASSUME NEW t \in Recurring, NEW row \in TemplateState, HasSchedule(row), Save(t, row) PROVE Rest'
  BY <1>4, SaveKeepsListing
<1> HIDE DEF Rest
<1>5. ASSUME NEW t \in Recurring PROVE recurring[t] \in TemplateState /\ HasSchedule(recurring[t])
  BY ListingFacts DEF ListingInv
<1>6. ASSUME NEW t \in Recurring, DeleteRecurring(t) PROVE Rest'
  <2> DEFINE old == recurring[t]
             off == FALSE
             row == [old EXCEPT !.status = "deleted", !.enabled = off]
  <2>1. old \in TemplateState /\ off \in BOOLEAN
    BY <1>5
  <2>2. Save(t, row)
    BY <1>6 DEF DeleteRecurring
  <2> HIDE DEF old, off
  <2>3. row \in TemplateState /\ row.status = "deleted"
    BY <2>1, FlagTyped DEF TemplateState
  <2> HIDE DEF row
  <2> QED
    BY <1>4, <2>2, <2>3 DEF HasSchedule
<1>7. ASSUME NEW t \in Recurring, NEW enabled \in BOOLEAN, SetCancelReminder(t, enabled) PROVE Rest'
  <2> DEFINE old == recurring[t]
             row == [old EXCEPT !.enabled = enabled]
  <2>1. old \in TemplateState /\ HasSchedule(old)
    BY <1>5
  <2>2. Save(t, row)
    BY <1>7 DEF SetCancelReminder
  <2> HIDE DEF old
  <2>3. row \in TemplateState /\ row.status = old.status /\ row.schedule = old.schedule
    BY <2>1, FlagTyped DEF TemplateState
  <2> HIDE DEF row
  <2> QED
    BY <1>4, <2>1, <2>2, <2>3 DEF HasSchedule
<1>8. ASSUME NEW t \in Recurring, NEW s \in Schedules, NEW subscription \in BOOLEAN,
             CreateRecurring(t, s, subscription)
      PROVE  Rest'
  <2> DEFINE row == [NoTemplate EXCEPT !.status = "live", !.subscription = subscription,
                                       !.schedule = s]
  <2>1. row \in TemplateState
    BY NoTemplateTyped, DefinitionTyped DEF ScheduleSet
  <2>2. row.schedule = s
    BY DEF NoTemplate
  <2>3. Save(t, row)
    BY <1>8 DEF CreateRecurring
  <2> HIDE DEF row
  <2> QED
    BY <1>4, <2>1, <2>2, <2>3 DEF HasSchedule
<1>9. ASSUME NEW t \in Recurring, NEW s \in Schedules, NEW subscription \in BOOLEAN,
             UpdateRecurring(t, s, subscription)
      PROVE  Rest'
  <2> DEFINE old == recurring[t]
             row == [old EXCEPT !.subscription = subscription, !.schedule = s]
  <2>1. old \in TemplateState /\ s \in ScheduleSet
    BY <1>5 DEF ScheduleSet
  <2>2. Save(t, row)
    BY <1>9 DEF UpdateRecurring
  <2> HIDE DEF old
  <2>3. row \in TemplateState /\ row.schedule = s
    BY <2>1, DefinitionTyped DEF TemplateState
  <2> HIDE DEF row
  <2> QED
    BY <1>4, <2>2, <2>3 DEF HasSchedule
<1>10. ASSUME LoadCandidates PROVE Rest'
  BY <1>10, LoadKeepsListing DEF Rest
<1>11. ASSUME BeginPass \/ EndStep \/ Abort \/ NextDay \/ UNCHANGED reminderVars PROVE Rest'
  BY <1>11, RestKeepsListing DEF Rest
<1>12. Rest'
  BY <1>2, <1>3, <1>6, <1>7, <1>8, <1>9, <1>10, <1>11 DEF RemindersNext
<1> QED
  BY <1>1, <1>12 DEF ListingInv, Rest

(* What a step of the pass loaded is an older state of the templates or the  *)
(* same, whatever is saved while it runs; what it has gone through is        *)
(* recorded; and a row that was recorded for the template as it is now       *)
(* announces one of its charges.                                            *)
THEOREM ListingInvariant == RemindersSpec => []ListingInv
<1>1. RemindersInit => ListingInv
  <2> SUFFICES ASSUME RemindersInit PROVE ListingInv
    OBVIOUS
  <2>1. RemindersInv
    <3>1. recurring \in [Recurring -> TemplateState]
      BY NoTemplateTyped DEF RemindersInit
    <3>2. pass \in PassState
      BY IdleTyped DEF RemindersInit
    <3>3. now \in Nat /\ reminder = {}
      BY DEF RemindersInit
    <3> QED
      BY <3>1, <3>2, <3>3 DEF RemindersInv, RemindersTyped, OneRowPerReminder
  <2>2. ClockBounds
    BY RemindersAssumption DEF RemindersInit, ClockBounds, IdlePass
  <2>3. StepFollows /\ RowsTrue
    BY DEF RemindersInit, StepFollows, RowsTrue, IdlePass
  <2>4. \A t \in Recurring : HasSchedule(recurring[t])
    BY DEF RemindersInit, HasSchedule, NoTemplate
  <2> QED
    BY <2>1, <2>2, <2>3, <2>4 DEF ListingInv
<1>2. ListingInv /\ [RemindersNext]_reminderVars => ListingInv'
  BY StepKeepsListing
<1> QED
  BY <1>1, <1>2, PTL DEF RemindersSpec

(* A reminder that is listed announces a charge of its subscription, for any *)
(* calendar and schedules: what generate_subscription_reminders_for_date     *)
(* records for the templates it loaded is what occurs_on says of them, and   *)
(* an edit that races the step is told by the count of saves.               *)
THEOREM ListedTrue == RemindersSpec => []ListedAreTrue
<1>1. ListingInv => ListedAreTrue
  BY DEF ListingInv, RowsTrue, ListedAreTrue, Listed
<1> QED
  BY <1>1, ListingInvariant, PTL

(* A completed step has recorded every charge five or two days after its     *)
(* day: the next occurrence seen from the day is the one that is so near,    *)
(* month ends and yearly schedules included.                                *)
THEOREM RemindedWhenCompleted == RemindersSpec => RemindedInTime
<1> DEFINE Told ==
        pass.pc = "record" /\ pass'.pc = "idle" /\ aborts' = aborts =>
            \A t \in Recurring, k \in ReminderKinds :
                LET s == recurring[t].schedule
                    charge == pass.today + k
                IN  Candidate(recurring[t]) /\ pass.snap[t] = recurring[t] /\ OccursOn(s, charge)
                        => \E r \in reminder : r.tpl = t /\ r.charge = charge /\ r.kind = k
<1>1. ListingInv /\ [RemindersNext]_reminderVars => Told
  <2> SUFFICES ASSUME ListingInv, [RemindersNext]_reminderVars, pass.pc = "record", pass'.pc = "idle", aborts' = aborts
               PROVE  Told
    BY DEF Told
  <2>1. ASSUME NEW t \in Recurring, Record(t) PROVE FALSE
    <3>1. pass' = [pass EXCEPT !.todo = @ \ {t}]
      BY <2>1 DEF Record
    <3> QED
      BY <3>1, ListingFacts DEF PassState
  <2>2. ASSUME UNCHANGED pass PROVE FALSE
    BY <2>2
  <2>3. ASSUME NEW t \in Recurring, NEW row, Save(t, row) PROVE FALSE
    BY <2>2, <2>3 DEF Save
  <2>4. ASSUME NEW r \in reminder, Dismiss(r) PROVE FALSE
    BY <2>2, <2>4 DEF Dismiss
  <2>5. ~NextDay /\ ~UNCHANGED reminderVars /\ ~BeginPass /\ ~LoadCandidates
    BY <2>2 DEF NextDay, reminderVars, BeginPass, LoadCandidates
  <2>6. ~Abort
    BY ListingFacts DEF Abort
  <2>7. ASSUME NEW t \in Recurring,
               \/ DeleteRecurring(t) \/ \E enabled \in BOOLEAN : SetCancelReminder(t, enabled)
               \/ \E s \in Schedules, subscription \in BOOLEAN :
                      CreateRecurring(t, s, subscription) \/ UpdateRecurring(t, s, subscription)
        PROVE  FALSE
    BY <2>3, <2>7 DEF DeleteRecurring, SetCancelReminder, CreateRecurring, UpdateRecurring
  <2>8. EndStep
    BY <2>1, <2>4, <2>5, <2>6, <2>7 DEF RemindersNext
  <2>9. pass.todo = {}
    BY <2>8 DEF EndStep
  <2> QED
    BY <2>9 DEF Told, ListingInv, StepFollows, Reminded
<1>2. [RemindersNext]_reminderVars /\ ListingInv => [Told]_reminderVars
  BY <1>1
<1> HIDE DEF Told
<1>3. RemindersSpec => [][Told]_reminderVars
  BY <1>2, ListingInvariant, PTL DEF RemindersSpec
<1> QED
  BY <1>3 DEF RemindedInTime, Told
==============================================================================
