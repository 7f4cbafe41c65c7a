------------------------ MODULE MaterializationProofs ------------------------
(***************************************************************************)
(* What holds of Materialization for any replicas, users, templates,       *)
(* schedules and catch-up days, whatever crashes, fails or is edited.       *)
(* TypeCorrect comes first; the three safety theorems rest on it.           *)
(***************************************************************************)
EXTENDS Materialization, TLAPS

USE MaterializationAssumption DEF Kinds, KindNames

-----------------------------------------------------------------------------
LEMMA KindsAreDistinct ==
    /\ \A k \in 1..3 : Kinds[k] \in KindNames
    /\ \A i, j \in 1..3 : Kinds[i] = Kinds[j] => i = j
    /\ \A n \in KindNames : \E k \in 1..3 : n = Kinds[k]
<1>1. Kinds[1] = "transfer" /\ Kinds[2] = "expense" /\ Kinds[3] = "income"
  OBVIOUS
<1>2. 1..3 = {1, 2, 3}
  OBVIOUS
<1> QED
  BY <1>1, <1>2

LEMMA EmptyTemplate == NoTemplate \in TemplateState /\ NoSnapshot \in [Templates -> TemplateState]
  BY DEF NoTemplate, NoSnapshot, TemplateState

LEMMA AsleepType == \A n \in Nat : Asleep(n) \in PassState
<1> SUFFICES ASSUME NEW n \in Nat PROVE Asleep(n) \in PassState
  OBVIOUS
<1>1. NoSnapshot \in [Templates -> TemplateState]
  BY EmptyTemplate
<1> HIDE DEF NoSnapshot
<1> QED
  BY <1>1 DEF Asleep, PassState, NoUser

(* Changing some fields of a pass within their types keeps it a pass. *)
LEMMA PassFields ==
    ASSUME NEW s \in PassState
    PROVE  /\ s.pc \in {"sleep", "lock", "down", "user", "load", "date", "charge", "release"}
           /\ s.next \in Nat /\ s.today \in Int /\ s.todo \subseteq Users
           /\ s.user \in Users \cup {NoUser} /\ s.step \in 1..3 /\ s.date \in Int
           /\ s.left \subseteq Templates /\ s.snap \in [Templates -> TemplateState]
           /\ s.failed \subseteq (Users \cup {NoUser}) \X KindNames
  BY DEF PassState

LEMMA StartingType ==
    /\ Starting \in PassState /\ Starting.pc = "lock" /\ Starting.snap = NoSnapshot
    /\ Down \in PassState /\ Down.pc = "down"
<1>1. Asleep(0) \in PassState
  BY AsleepType
<1> QED
  BY <1>1 DEF Starting, Down, PassState, Asleep

LEMMA StartedType ==
    ASSUME NEW d \in Int
    PROVE  LET n == [Starting EXCEPT !.pc = "user", !.today = d, !.todo = Users]
           IN  n \in PassState /\ n.pc = "user" /\ n.todo = Users
  BY StartingType DEF PassState, Starting, Asleep

(* The updates the actions make. *)
LEMMA DateUpdate ==
    ASSUME NEW s \in PassState, NEW d \in Int
    PROVE  [s EXCEPT !.pc = "date", !.date = d] \in PassState
  BY DEF PassState

LEMMA LoadUpdate ==
    ASSUME NEW s \in PassState, NEW d \in Int, NEW snap \in [Templates -> TemplateState]
    PROVE  [s EXCEPT !.pc = "date", !.date = d, !.snap = snap] \in PassState
  BY DEF PassState

LEMMA StepUpdate ==
    ASSUME NEW s \in PassState, NEW k \in 1..3
    PROVE  [s EXCEPT !.pc = "load", !.step = k, !.left = {}] \in PassState
  BY DEF PassState

LEMMA LeftUpdate ==
    ASSUME NEW s \in PassState, NEW ts \in SUBSET Templates
    PROVE  /\ [s EXCEPT !.pc = "charge", !.left = ts] \in PassState
           /\ [s EXCEPT !.left = ts] \in PassState
           /\ [s EXCEPT !.pc = "user", !.left = ts] \in PassState
<1>1. [s EXCEPT !.pc = "charge", !.left = ts] \in PassState
  BY DEF PassState
<1>2. [s EXCEPT !.left = ts] \in PassState
  BY DEF PassState
<1>3. [s EXCEPT !.pc = "user", !.left = ts] \in PassState
  BY DEF PassState
<1> QED
  BY <1>1, <1>2, <1>3

LEMMA UserUpdate ==
    ASSUME NEW s \in PassState, NEW u \in Users, NEW todo \in SUBSET Users, NEW k \in 1..3
    PROVE  [s EXCEPT !.pc = "load", !.user = u, !.todo = todo, !.step = k] \in PassState
  BY DEF PassState

LEMMA TemplateUpdates ==
    ASSUME NEW r \in TemplateState, NEW d \in Int, NEW days \in SUBSET Int
    PROVE  /\ [r EXCEPT !.status = "active", !.saved = d, !.days = days] \in TemplateState
           /\ [r EXCEPT !.status = "deleted", !.saved = d] \in TemplateState
           /\ [r EXCEPT !.paused = TRUE] \in TemplateState
<1>1. [r EXCEPT !.status = "active", !.saved = d, !.days = days] \in TemplateState
  BY DEF TemplateState
<1>2. [r EXCEPT !.status = "deleted", !.saved = d] \in TemplateState
  BY DEF TemplateState
<1>3. [r EXCEPT !.paused = TRUE] \in TemplateState
  BY DEF TemplateState
<1> QED
  BY <1>1, <1>2, <1>3

LEMMA AfterStepType ==
    ASSUME NEW s \in PassState
    PROVE  AfterStep(s) \in PassState
<1>1. CASE s.step < 3
  <2> DEFINE k == s.step + 1
  <2>1. k \in 1..3
    BY <1>1, PassFields
  <2>2. AfterStep(s) = [s EXCEPT !.pc = "load", !.step = k, !.left = {}]
    BY <1>1 DEF AfterStep
  <2>3. [s EXCEPT !.pc = "load", !.step = k, !.left = {}] \in PassState
    <3> HIDE DEF k
    <3> QED
      BY <2>1, StepUpdate
  <2> QED
    BY <2>2, <2>3
<1>2. CASE ~(s.step < 3)
  BY <1>2, LeftUpdate DEF AfterStep
<1> QED
  BY <1>1, <1>2

LEMMA RowType ==
    ASSUME NEW t \in Templates, NEW d \in Int, NEW on \in Int,
           rows \subseteq RowState, InsertRow(t, d, on)
    PROVE  rows' \subseteq RowState
<1>1. [tpl |-> t, due |-> d, on |-> on, live |-> TRUE] \in RowState
  BY DEF RowState
<1> QED
  BY <1>1 DEF InsertRow

-----------------------------------------------------------------------------
LEMMA InitTyped == Init => TypeOK
<1> SUFFICES ASSUME Init PROVE TypeOK
  OBVIOUS
<1>1. template \in [Templates -> TemplateState]
  <2>1. ASSUME NEW r \in [status : {"active"}, saved : {0}, days : Schedules, paused : {FALSE}]
        PROVE  r \in TemplateState
    <3>1. PICK days \in Schedules :
             r = [status |-> "active", saved |-> 0, days |-> days, paused |-> FALSE]
      OBVIOUS
    <3> QED
      BY <3>1 DEF TemplateState
  <2> QED
    BY <2>1, EmptyTemplate DEF Init
<1>2. pass \in [Replicas -> PassState]
  BY StartingType DEF Init
<1> QED
  BY <1>1, <1>2 DEF Init, TypeOK, IdlePayer, PayerState

(* A step that only moves a scheduler keeps the types if it moves it to a    *)
(* state of a pass.                                                         *)
LEMMA SetType ==
    ASSUME NEW p \in Replicas, NEW n \in PassState, pass \in [Replicas -> PassState], Set(p, n)
    PROVE  pass' \in [Replicas -> PassState] /\ pass'[p] = n
           /\ \A q \in Replicas \ {p} : pass'[q] = pass[q]
  BY DEF Set

LEMMA PassStepTyped ==
    ASSUME TypeOK, NEW p \in Replicas, Schedule(p)
    PROVE  TypeOK'
<1> DEFINE s == pass[p]
<1>0. s \in PassState /\ pass \in [Replicas -> PassState] /\ now \in Nat
  BY DEF TypeOK
<1> USE DEF Free
<1>1. CASE Wake(p)
  BY <1>0, <1>1, StartingType, SetType DEF Wake, TypeOK, Starting
<1>2. CASE TryLock(p)
  <2>1. Today \in Int /\ NextRun \in Nat
    BY <1>0 DEF Today, NextRun, AfterHour
  <2>2. Asleep(NextRun) \in PassState
    BY <2>1, AsleepType
  <2>3. [Starting EXCEPT !.pc = "user", !.today = Today, !.todo = Users] \in PassState
    BY <2>1, StartedType
  <2>4. pass' \in [Replicas -> PassState]
    BY <1>0, <1>2, <2>2, <2>3, SetType DEF TryLock
  <2>5. lock' \in Replicas \cup {Free}
    BY <1>2 DEF TryLock, TypeOK
  <2> QED
    BY <1>2, <2>4, <2>5 DEF TryLock, TypeOK
<1>3. CASE ReleaseLock(p)
  <2>1. NextRun \in Nat
    BY <1>0 DEF NextRun, AfterHour
  <2>2. Asleep(NextRun) \in PassState
    BY <2>1, AsleepType
  <2>3. pass' \in [Replicas -> PassState]
    BY <1>0, <1>3, <2>2, SetType DEF ReleaseLock
  <2>4. lock' \in Replicas \cup {Free}
    BY <1>3 DEF ReleaseLock, TypeOK
  <2> QED
    BY <1>3, <2>3, <2>4 DEF ReleaseLock, TypeOK
<1>4. CASE NextUser(p)
  <2>1. PICK n \in PassState : Set(p, n)
    <3>1. \A u \in s.todo :
             [s EXCEPT !.pc = "load", !.user = u, !.todo = @ \ {u}, !.step = 1] \in PassState
      <4>1. 1 \in 1..3
        OBVIOUS
      <4> QED
        BY <1>0, <4>1, PassFields, UserUpdate
    <3>2. [s EXCEPT !.pc = "release"] \in PassState
      BY <1>0 DEF PassState
    <3> QED
      BY <1>4, <3>1, <3>2 DEF NextUser
  <2> QED
    BY <1>0, <1>4, <2>1, SetType DEF NextUser, TypeOK
<1>5. CASE LoadTemplates(p)
  <2> DEFINE snap == [t \in Templates |-> IF OfStep(s, t) THEN template[t] ELSE s.snap[t]]
             date == s.today - CatchUpDays
             n == [s EXCEPT !.pc = "date", !.date = date, !.snap = snap]
  <2>1. snap \in [Templates -> TemplateState]
    BY <1>0, PassFields DEF TypeOK
  <2>2. date \in Int
    BY <1>0, PassFields
  <2>4. n \in PassState
    <3> HIDE DEF snap, date
    <3> QED
      BY <1>0, <2>1, <2>2, LoadUpdate
  <2>3. Set(p, n)
    BY <1>5 DEF LoadTemplates
  <2> QED
    BY <1>0, <1>5, <2>4, <2>3, SetType DEF LoadTemplates, TypeOK
<1>6. CASE OpenDay(p)
  <2>1. DueSet(s) \subseteq Templates
    BY DEF DueSet
  <2>2. [s EXCEPT !.pc = "charge", !.left = DueSet(s)] \in PassState
    BY <1>0, <2>1, LeftUpdate
  <2>3. AfterStep(s) \in PassState
    BY <1>0, AfterStepType
  <2>4. PICK n \in PassState : Set(p, n)
    BY <1>6, <2>2, <2>3 DEF OpenDay, OpenDayUntil
  <2> QED
    BY <1>0, <1>6, <2>4, SetType DEF OpenDay, OpenDayUntil, TypeOK
<1>7. CASE Charge(p)
  <2>1. PICK n \in PassState : Set(p, n)
    <3>1. \A t \in s.left : [s EXCEPT !.left = @ \ {t}] \in PassState
      BY <1>0, PassFields, LeftUpdate
    <3>2. [s EXCEPT !.pc = "date", !.date = @ + 1] \in PassState
      <4> DEFINE date == s.date + 1
      <4>1. date \in Int
        BY <1>0, PassFields
      <4>2. [s EXCEPT !.pc = "date", !.date = @ + 1] = [s EXCEPT !.pc = "date", !.date = date]
        OBVIOUS
      <4> HIDE DEF date
      <4> QED
        BY <1>0, <4>1, <4>2, DateUpdate
    <3> QED
      BY <1>7, <3>1, <3>2 DEF Charge
  <2>2. rows' \subseteq RowState
    <3>1. s.date \in Int /\ s.left \subseteq Templates
      BY <1>0, PassFields
    <3> QED
      BY <1>7, <3>1, RowType DEF Charge, Materialize, TypeOK
  <2> QED
    BY <1>0, <1>7, <2>1, <2>2, SetType DEF Charge, TypeOK
<1> QED
  BY <1>1, <1>2, <1>3, <1>4, <1>5, <1>6, <1>7 DEF Schedule

LEMMA HandleTyped ==
    ASSUME TypeOK, Handle
    PROVE  TypeOK'
<1>0. Today \in Int /\ template \in [Templates -> TemplateState]
  BY DEF TypeOK, Today
<1>1. ASSUME NEW t \in Templates, NEW n \in TemplateState,
             template' = [template EXCEPT ![t] = n]
      PROVE  template' \in [Templates -> TemplateState]
  BY <1>0, <1>1
<1>2. CASE \E t \in Templates, days \in Schedules : SaveTemplate(t, days)
  <2>1. template' \in [Templates -> TemplateState]
    BY <1>0, <1>1, <1>2, TemplateUpdates DEF SaveTemplate
  <2> QED
    BY <1>2, <2>1 DEF SaveTemplate, TypeOK
<1>3. CASE \E t \in Templates : DeleteTemplate(t) \/ ArchiveAccount(t)
  <2>1. template' \in [Templates -> TemplateState]
    BY <1>0, <1>1, <1>3, TemplateUpdates DEF DeleteTemplate, ArchiveAccount
  <2> QED
    BY <1>3, <2>1 DEF DeleteTemplate, ArchiveAccount, TypeOK
<1>4. CASE \E t \in Templates, due \in Days, c \in (-1)..(LastDay + 1) : StartEarlyPay(t, due, c)
  BY <1>0, <1>4 DEF StartEarlyPay, TypeOK, PayerState, Days
<1>5. CASE \E r \in rows : DeleteRow(r)
  <2>1. rows' \subseteq RowState
    BY <1>5 DEF DeleteRow, TypeOK, RowState
  <2> QED
    BY <1>5, <2>1 DEF DeleteRow, TypeOK
<1>6. CASE FinishEarlyPay
  <2>1. payer.tpl \in Templates /\ payer.due \in Int /\ payer.on \in Int
    BY <1>6 DEF FinishEarlyPay, TypeOK, PayerState
  <2>2. rows' \subseteq RowState
    BY <1>6, <2>1, RowType DEF FinishEarlyPay, TypeOK
  <2>3. IdlePayer \in PayerState /\ IdlePayer.pc = "idle"
    BY DEF IdlePayer, PayerState
  <2> QED
    BY <1>6, <2>2, <2>3 DEF FinishEarlyPay, TypeOK
<1> QED
  BY <1>1, <1>2, <1>3, <1>4, <1>5, <1>6 DEF Handle

LEMMA EnvironmentTyped ==
    ASSUME TypeOK, Environment
    PROVE  TypeOK'
<1>0. pass \in [Replicas -> PassState]
  BY DEF TypeOK
<1>1. CASE Tick
  BY <1>1 DEF Tick, TypeOK
<1>2. CASE EndOfClock
  BY <1>2 DEF EndOfClock, TypeOK, vars
<1>3. ASSUME NEW p \in Replicas, FailStep(p)
      PROVE  TypeOK'
  <2> DEFINE s == pass[p]
             failed == s.failed \cup {<<s.user, Kinds[s.step]>>}
             n == [s EXCEPT !.failed = failed]
             m == [s EXCEPT !.pc = "release", !.todo = {}, !.failed = Users \X KindNames]
  <2>1. s \in PassState
    BY <1>0
  <2>2. failed \subseteq (Users \cup {NoUser}) \X KindNames
    <3>1. Kinds[s.step] \in KindNames
      BY <2>1, PassFields, KindsAreDistinct
    <3> HIDE DEF s
    <3> QED
      BY <2>1, <3>1, PassFields
  <2> HIDE DEF failed
  <2>3. n \in PassState
    BY <2>1, <2>2 DEF PassState
  <2>4. AfterStep(n) \in PassState
    BY <2>3, AfterStepType
  <2>5. m \in PassState
    BY <2>1 DEF PassState
  <2>6. Set(p, AfterStep(n)) \/ Set(p, m)
    BY <1>3 DEF FailStep, failed
  <2>7. pass' \in [Replicas -> PassState]
    BY <1>0, <2>4, <2>5, <2>6, SetType
  <2> QED
    BY <1>3, <2>7 DEF FailStep, TypeOK
<1>4. ASSUME NEW p \in Replicas, FailLock(p) \/ Crash(p) \/ Restart(p)
      PROVE  TypeOK'
  <2>0. Asleep(NextRun) \in PassState
    BY AsleepType DEF TypeOK, NextRun
  <2>1. pass' \in [Replicas -> PassState]
    BY <1>0, <1>4, <2>0, StartingType, SetType DEF FailLock, Crash, Restart
  <2> QED
    BY <1>4, <2>1 DEF FailLock, Crash, Restart, TypeOK
<1>5. ASSUME NEW p \in Replicas, LoseSession(p)
      PROVE  TypeOK'
  BY <1>5 DEF LoseSession, TypeOK
<1> QED
  BY <1>1, <1>2, <1>3, <1>4, <1>5 DEF Environment

(* The rows, templates, passes and the clock keep their types forever.  *)
THEOREM TypeCorrect == Spec => []TypeOK
<1>1. Init => TypeOK
  BY InitTyped
<1>2. TypeOK /\ [Next]_vars => TypeOK'
  <2> SUFFICES ASSUME TypeOK, [Next]_vars PROVE TypeOK'
    OBVIOUS
  <2>1. CASE UNCHANGED vars
    BY <2>1 DEF vars, TypeOK
  <2>2. CASE Next
    BY <2>2, PassStepTyped, HandleTyped, EnvironmentTyped DEF Next
  <2> QED
    BY <2>1, <2>2
<1> QED
  BY <1>1, <1>2, PTL DEF Spec

-----------------------------------------------------------------------------
(* One row per occurrence. *)

LEMMA InsertKeepsOne ==
    ASSUME OneRowPerOccurrence, NEW t, NEW d, NEW on, ~Occupied(t, d), InsertRow(t, d, on)
    PROVE  OneRowPerOccurrence'
<1> DEFINE n == [tpl |-> t, due |-> d, on |-> on, live |-> TRUE]
<1>1. n.tpl = t /\ n.due = d
  OBVIOUS
<1>2. rows' = rows \cup {n}
  BY DEF InsertRow
<1> HIDE DEF n
<1> QED
  BY <1>1, <1>2 DEF OneRowPerOccurrence, Occupied, OccupiedIn

LEMMA DeleteKeepsOne ==
    ASSUME OneRowPerOccurrence, rows \subseteq RowState, NEW r \in rows, DeleteRow(r)
    PROVE  OneRowPerOccurrence'
<1> DEFINE n == [r EXCEPT !.live = FALSE]
<1>1. n.tpl = r.tpl /\ n.due = r.due
  BY DEF RowState
<1>2. rows' = (rows \ {r}) \cup {n}
  BY DEF DeleteRow
<1> HIDE DEF n
<1> QED
  BY <1>1, <1>2 DEF OneRowPerOccurrence

(* The unique index decides between the job and an early payment, and between *)
(* two passes when the session of the lock is lost.                         *)
THEOREM OneRow == Spec => []OneRowPerOccurrence
<1>1. Init => OneRowPerOccurrence
  BY DEF Init, OneRowPerOccurrence
<1>2. TypeOK /\ OneRowPerOccurrence /\ [Next]_vars => OneRowPerOccurrence'
  <2> SUFFICES ASSUME TypeOK, OneRowPerOccurrence, [Next]_vars PROVE OneRowPerOccurrence'
    OBVIOUS
  <2>1. ASSUME UNCHANGED rows PROVE OneRowPerOccurrence'
    BY <2>1 DEF OneRowPerOccurrence
  <2>2. ASSUME NEW p \in Replicas, Charge(p) PROVE OneRowPerOccurrence'
    BY <2>1, <2>2, InsertKeepsOne DEF Charge, Materialize
  <2>3. ASSUME NEW r \in rows, DeleteRow(r) PROVE OneRowPerOccurrence'
    BY <2>3, DeleteKeepsOne DEF TypeOK
  <2>4. CASE FinishEarlyPay
    BY <2>1, <2>4, InsertKeepsOne DEF FinishEarlyPay
  <2>5. CASE \E p \in Replicas : Schedule(p)
    BY <2>1, <2>2, <2>5
       DEF Schedule, Wake, TryLock, ReleaseLock, NextUser, LoadTemplates, OpenDay, OpenDayUntil
  <2>6. CASE Handle
    BY <2>1, <2>3, <2>4, <2>6
       DEF Handle, SaveTemplate, DeleteTemplate, ArchiveAccount, StartEarlyPay
  <2>7. CASE Environment
    BY <2>1, <2>7 DEF Environment, Tick, EndOfClock, FailLock, FailStep, Crash, Restart,
        LoseSession, vars
  <2>8. CASE UNCHANGED vars
    BY <2>1, <2>8 DEF vars
  <2> QED
    BY <2>5, <2>6, <2>7, <2>8 DEF Next
<1> QED
  BY <1>1, <1>2, TypeCorrect, PTL DEF Spec

-----------------------------------------------------------------------------
(* One pass at a time. *)

(* A step of a replica that leaves the lock alone, and does not begin to run,*)
(* disturbs nobody.                                                         *)
LEMMA StillHolder ==
    ASSUME HolderRuns, NEW p \in Replicas, NEW n, Set(p, n), pass \in [Replicas -> PassState],
           UNCHANGED lock, n.pc \in {"sleep", "lock", "down"} \/ Running(p)
    PROVE  HolderRuns'
  BY DEF HolderRuns, Running, Set

LEMMA AfterStepRuns ==
    ASSUME NEW s \in PassState
    PROVE  AfterStep(s).pc \in {"load", "user"}
  BY DEF AfterStep, PassState

LEMMA AsleepPc == \A n : Asleep(n).pc = "sleep"
  BY DEF Asleep

LEMMA ScheduleKeepsHolder ==
    ASSUME TypeOK, HolderRuns, NEW p \in Replicas, Schedule(p)
    PROVE  HolderRuns'
<1>0. pass \in [Replicas -> PassState]
  BY DEF TypeOK
<1>1. CASE Wake(p)
  BY <1>0, <1>1, StartingType, StillHolder DEF Wake
<1>2. CASE TryLock(p)
  <2>1. CASE lock = Free
    <3>1. \A q \in Replicas : ~Running(q)
      BY <2>1 DEF HolderRuns, Free, MaterializationAssumption
    <3> QED
      BY <1>0, <1>2, <2>1, <3>1 DEF TryLock, HolderRuns, Running, Set
  <2>2. CASE lock # Free
    BY <1>0, <1>2, <2>2, AsleepPc, StillHolder DEF TryLock
  <2> QED
    BY <2>1, <2>2
<1>3. CASE ReleaseLock(p)
  <2>1. \A q \in Replicas \ {p} : ~Running(q)
    BY <1>3 DEF HolderRuns, ReleaseLock, Running
  <2> QED
    BY <1>0, <1>3, <2>1, AsleepPc DEF ReleaseLock, HolderRuns, Running, Set
<1>4. CASE NextUser(p) \/ LoadTemplates(p) \/ OpenDay(p) \/ Charge(p)
  <2>1. Running(p) /\ UNCHANGED lock
    BY <1>4 DEF NextUser, LoadTemplates, OpenDay, OpenDayUntil, Charge, Running
  <2>2. PICK n : Set(p, n)
    BY <1>4 DEF NextUser, LoadTemplates, OpenDay, OpenDayUntil, Charge
  <2> QED
    BY <1>0, <2>1, <2>2, StillHolder
<1> QED
  BY <1>1, <1>2, <1>3, <1>4 DEF Schedule

(* As long as the session that holds it lives, the advisory lock lets one    *)
(* replica at a time run a pass.                                            *)
THEOREM LockExclusion ==
    ASSUME "lost_session" \notin Faults
    PROVE  Spec => [](HolderRuns /\ OnePassAtATime)
<1>1. Init => HolderRuns
  BY StartingType DEF Init, HolderRuns, Running
<1>2. TypeOK /\ HolderRuns /\ [Next]_vars => HolderRuns'
  <2> SUFFICES ASSUME TypeOK, HolderRuns, [Next]_vars PROVE HolderRuns'
    OBVIOUS
  <2>0. pass \in [Replicas -> PassState]
    BY DEF TypeOK
  <2>1. ASSUME UNCHANGED <<lock, pass>> PROVE HolderRuns'
    BY <2>1 DEF HolderRuns, Running
  <2>2. ASSUME NEW p \in Replicas, FailStep(p) PROVE HolderRuns'
    <3>1. Running(p) /\ UNCHANGED lock
      BY <2>2 DEF FailStep, Running
    <3>2. PICK n : Set(p, n)
      BY <2>2 DEF FailStep
    <3> QED
      BY <2>0, <3>1, <3>2, StillHolder
  <2>3. ASSUME NEW p \in Replicas, Crash(p) PROVE HolderRuns'
    BY <2>0, <2>3, StartingType DEF Crash, HolderRuns, Running, Set
  <2>4. ASSUME NEW p \in Replicas, Restart(p) PROVE HolderRuns'
    BY <2>0, <2>4, StartingType, StillHolder DEF Restart
  <2>4a. ASSUME NEW p \in Replicas, FailLock(p) PROVE HolderRuns'
    BY <2>0, <2>4a, AsleepPc, StillHolder DEF FailLock
  <2>5. CASE Environment
    BY <2>1, <2>2, <2>3, <2>4, <2>4a, <2>5 DEF Environment, Tick, EndOfClock, LoseSession, vars
  <2>6. CASE Handle
    BY <2>1, <2>6
       DEF Handle, SaveTemplate, DeleteTemplate, ArchiveAccount, DeleteRow, StartEarlyPay,
           FinishEarlyPay
  <2>7. CASE UNCHANGED vars
    BY <2>1, <2>7 DEF vars
  <2> QED
    BY <2>5, <2>6, <2>7, ScheduleKeepsHolder DEF Next
<1>3. HolderRuns => OnePassAtATime
  BY DEF HolderRuns, OnePassAtATime
<1> QED
  BY <1>1, <1>2, <1>3, TypeCorrect, PTL DEF Spec

-----------------------------------------------------------------------------
(* A pass catches up. *)

LEMMA ProgressMonotone ==
    ASSUME NEW rs, NEW rt, NEW s, Progress(rs, s),
           \A t, d : OccupiedIn(rs, t, d) => OccupiedIn(rt, t, d)
    PROVE  Progress(rt, s)
<1>1. \A t, d : Settled(rs, s, t, d) => Settled(rt, s, t, d)
  BY DEF Settled
<1>2. \A t : AllSettled(rs, s, t) => AllSettled(rt, s, t)
  BY <1>1 DEF AllSettled
<1> QED
  BY <1>1, <1>2
     DEF Progress, AtRelease, AtUser, OtherUsers, EarlierSteps, EarlierDays, ThisDay

(* An occurrence once recorded stays so: the handlers only tombstone rows. *)
LEMMA RowsOnlyGrow ==
    ASSUME TypeOK, [Next]_vars
    PROVE  \A t, d : OccupiedIn(rows, t, d) => OccupiedIn(rows', t, d)
<1>1. ASSUME rows \subseteq rows'
      PROVE  \A t, d : OccupiedIn(rows, t, d) => OccupiedIn(rows', t, d)
  BY <1>1 DEF OccupiedIn
<1>2. ASSUME NEW r \in rows, DeleteRow(r)
      PROVE  \A t, d : OccupiedIn(rows, t, d) => OccupiedIn(rows', t, d)
  <2> DEFINE n == [r EXCEPT !.live = FALSE]
  <2>1. n.tpl = r.tpl /\ n.due = r.due
    BY DEF TypeOK, RowState
  <2>2. rows' = (rows \ {r}) \cup {n}
    BY <1>2 DEF DeleteRow
  <2> HIDE DEF n
  <2> QED
    BY <2>1, <2>2 DEF OccupiedIn
<1>3. CASE \E p \in Replicas : Schedule(p)
  BY <1>1, <1>3
     DEF Schedule, Wake, TryLock, ReleaseLock, NextUser, LoadTemplates, OpenDay, OpenDayUntil,
         Charge, Materialize, InsertRow
<1>4. CASE Handle
  BY <1>1, <1>2, <1>4
     DEF Handle, SaveTemplate, DeleteTemplate, ArchiveAccount, StartEarlyPay, FinishEarlyPay,
         InsertRow
<1>5. CASE Environment
  BY <1>1, <1>5 DEF Environment, Tick, EndOfClock, FailLock, FailStep, Crash, Restart,
        LoseSession, vars
<1>6. CASE UNCHANGED vars
  BY <1>1, <1>6 DEF vars
<1> QED
  BY <1>3, <1>4, <1>5, <1>6 DEF Next

(* What is settled depends on the day, the templates as loaded and the       *)
(* failures of a pass alone.                                                *)
LEMMA SameSettled ==
    ASSUME NEW rs, NEW s, NEW n,
           n.today = s.today, n.snap = s.snap, s.failed \subseteq n.failed
    PROVE  /\ \A t, d : Settled(rs, s, t, d) => Settled(rs, n, t, d)
           /\ \A t : AllSettled(rs, s, t) => AllSettled(rs, n, t)
<1>1. \A t, d : Settled(rs, s, t, d) => Settled(rs, n, t, d)
  BY DEF Settled
<1> QED
  BY <1>1 DEF AllSettled, Window

(* A step whose templates are all settled may end. *)
LEMMA StepEnds ==
    ASSUME NEW rs, NEW s \in PassState, InStep(s), Progress(rs, s),
           \A t \in Templates : OfStep(s, t) => AllSettled(rs, s, t)
    PROVE  Progress(rs, AfterStep(s))
<1> DEFINE n == AfterStep(s)
<1>1. /\ n.today = s.today /\ n.snap = s.snap /\ n.failed = s.failed
      /\ n.user = s.user /\ n.todo = s.todo
  BY DEF AfterStep, PassState
<1>2. \A t : AllSettled(rs, s, t) => AllSettled(rs, n, t)
  BY <1>1, SameSettled
<1>3. \A t \in Templates :
         /\ Owner[t] \notin s.todo /\ Owner[t] # s.user => AllSettled(rs, s, t)
         /\ Owner[t] = s.user /\ EarlierStep(s, t) => AllSettled(rs, s, t)
  BY DEF Progress, OtherUsers, EarlierSteps
<1>4. s.step \in 1..3
  BY PassFields
<1>5. CASE s.step < 3
  <2>1. n.pc = "load" /\ n.step = s.step + 1
    BY <1>5 DEF AfterStep, PassState
  <2>2. \A t \in Templates :
           Owner[t] = s.user /\ EarlierStep(n, t) => EarlierStep(s, t) \/ OfStep(s, t)
    BY <1>4, <2>1 DEF EarlierStep, OfStep
  <2> HIDE DEF n
  <2>3. AtRelease(rs, n) /\ AtUser(rs, n) /\ EarlierDays(rs, n) /\ ThisDay(rs, n)
    BY <2>1 DEF AtRelease, AtUser, EarlierDays, ThisDay
  <2>4. OtherUsers(rs, n)
    BY <1>1, <1>2, <1>3 DEF OtherUsers
  <2>5. EarlierSteps(rs, n)
    BY <1>1, <1>2, <1>3, <2>2 DEF EarlierSteps
  <2> QED
    BY <2>3, <2>4, <2>5 DEF Progress, n
<1>6. CASE ~(s.step < 3)
  <2>1. n.pc = "user"
    BY <1>6 DEF AfterStep, PassState
  <2>2. \A t \in Templates : Owner[t] = s.user => EarlierStep(s, t) \/ OfStep(s, t)
    <3>1. s.step = 3
      BY <1>4, <1>6
    <3>2. \A t \in Templates : \E k \in 1..3 : Kind[t] = Kinds[k]
      BY KindsAreDistinct DEF MaterializationAssumption
    <3> QED
      BY <3>1, <3>2 DEF EarlierStep, OfStep
  <2> HIDE DEF n
  <2>3. /\ AtRelease(rs, n) /\ OtherUsers(rs, n) /\ EarlierSteps(rs, n)
        /\ EarlierDays(rs, n) /\ ThisDay(rs, n)
    BY <2>1 DEF AtRelease, OtherUsers, EarlierSteps, EarlierDays, ThisDay, InStep
  <2>4. AtUser(rs, n)
    BY <1>1, <1>2, <1>3, <2>2 DEF AtUser
  <2> QED
    BY <2>3, <2>4 DEF Progress, n
<1> QED
  BY <1>5, <1>6

LEMMA NextUserProgress ==
    ASSUME TypeOK, NEW p \in Replicas, Progress(rows, pass[p]), NextUser(p)
    PROVE  Progress(rows, pass'[p])
<1> DEFINE s == pass[p]  n == pass'[p]
<1>0. s \in PassState /\ pass \in [Replicas -> PassState]
  BY DEF TypeOK
<1>1. \A t \in Templates : Owner[t] \notin s.todo => AllSettled(rows, s, t)
  BY DEF Progress, AtUser, NextUser
<1>2. ASSUME NEW u \in s.todo,
             Set(p, [s EXCEPT !.pc = "load", !.user = u, !.todo = @ \ {u}, !.step = 1])
      PROVE  Progress(rows, n)
  <2>1. /\ n.pc = "load" /\ n.user = u /\ n.todo = s.todo \ {u} /\ n.step = 1
        /\ n.today = s.today /\ n.snap = s.snap /\ n.failed = s.failed
    BY <1>0, <1>2 DEF Set, PassState
  <2>2. \A t : AllSettled(rows, s, t) => AllSettled(rows, n, t)
    BY <2>1, SameSettled
  <2>3. \A t : ~EarlierStep(n, t)
    BY <2>1 DEF EarlierStep
  <2> HIDE DEF s, n
  <2>4. AtRelease(rows, n) /\ AtUser(rows, n) /\ EarlierDays(rows, n) /\ ThisDay(rows, n)
    BY <2>1 DEF AtRelease, AtUser, EarlierDays, ThisDay
  <2>5. OtherUsers(rows, n) /\ EarlierSteps(rows, n)
    BY <1>1, <2>1, <2>2, <2>3 DEF OtherUsers, EarlierSteps
  <2> QED
    BY <2>4, <2>5 DEF Progress
<1>3. CASE s.todo = {} /\ Set(p, [s EXCEPT !.pc = "release"])
  <2>1. /\ n.pc = "release"
        /\ n.today = s.today /\ n.snap = s.snap /\ n.failed = s.failed
    BY <1>0, <1>3 DEF Set, PassState
  <2>2. \A t : AllSettled(rows, s, t) => AllSettled(rows, n, t)
    BY <2>1, SameSettled
  <2> HIDE DEF n
  <2>3. /\ AtUser(rows, n) /\ OtherUsers(rows, n) /\ EarlierSteps(rows, n)
        /\ EarlierDays(rows, n) /\ ThisDay(rows, n)
    BY <2>1 DEF AtUser, OtherUsers, EarlierSteps, EarlierDays, ThisDay, InStep
  <2>4. AtRelease(rows, n)
    BY <1>1, <1>3, <2>2 DEF AtRelease
  <2> QED
    BY <2>3, <2>4 DEF Progress, n
<1> QED
  BY <1>2, <1>3 DEF NextUser

LEMMA LoadProgress ==
    ASSUME TypeOK, NEW p \in Replicas, Progress(rows, pass[p]), LoadTemplates(p)
    PROVE  Progress(rows, pass'[p])
<1> DEFINE s == pass[p]  n == pass'[p]
<1>0. s \in PassState /\ pass \in [Replicas -> PassState]
  BY DEF TypeOK
<1>1. /\ n.pc = "date" /\ n.date = s.today - CatchUpDays /\ n.today = s.today
      /\ n.user = s.user /\ n.todo = s.todo /\ n.step = s.step /\ n.failed = s.failed
      /\ \A t \in Templates : ~OfStep(s, t) => n.snap[t] = s.snap[t]
  BY <1>0 DEF LoadTemplates, Set, PassState
<1>2. \A t \in Templates : ~OfStep(s, t) /\ AllSettled(rows, s, t) => AllSettled(rows, n, t)
  BY <1>1 DEF AllSettled, Settled, Window
<1>3. \A t \in Templates : EarlierStep(s, t) => ~OfStep(s, t)
  <2>1. s.step \in 1..3
    BY <1>0, PassFields
  <2> QED
    BY <2>1, KindsAreDistinct DEF EarlierStep, OfStep
<1>4. \A t \in Templates :
         /\ Owner[t] \notin s.todo /\ Owner[t] # s.user => AllSettled(rows, s, t)
         /\ Owner[t] = s.user /\ EarlierStep(s, t) => AllSettled(rows, s, t)
  BY DEF Progress, OtherUsers, EarlierSteps, InStep, LoadTemplates
<1>5. \A t \in Templates : EarlierStep(n, t) => EarlierStep(s, t)
  BY <1>1 DEF EarlierStep
<1>6. \A t : Owner[t] # s.user => ~OfStep(s, t)
  BY DEF OfStep
<1>7. \A d \in Window(n) : ~(d < n.date)
  <2>1. s.today \in Int
    BY <1>0, PassFields
  <2> QED
    BY <1>1, <2>1 DEF Window, MaterializationAssumption
<1> HIDE DEF s, n
<1>8. AtRelease(rows, n) /\ AtUser(rows, n) /\ ThisDay(rows, n)
  BY <1>1 DEF AtRelease, AtUser, ThisDay
<1>9. OtherUsers(rows, n)
  BY <1>1, <1>2, <1>4, <1>6 DEF OtherUsers
<1>10. EarlierSteps(rows, n)
  BY <1>1, <1>2, <1>3, <1>4, <1>5 DEF EarlierSteps
<1>11. EarlierDays(rows, n)
  BY <1>7 DEF EarlierDays
<1> QED
  BY <1>8, <1>9, <1>10, <1>11 DEF Progress, n

LEMMA OpenDayProgress ==
    ASSUME TypeOK, NEW p \in Replicas, Progress(rows, pass[p]), OpenDay(p)
    PROVE  Progress(rows, pass'[p])
<1> DEFINE s == pass[p]  n == pass'[p]
<1>0. s \in PassState /\ pass \in [Replicas -> PassState] /\ s.pc = "date"
  BY DEF TypeOK, OpenDay, OpenDayUntil
<1>1. CASE s.date > s.today
  <2>1. n = AfterStep(s)
    BY <1>0, <1>1 DEF OpenDay, OpenDayUntil, Set
  <2>2. \A d \in Window(s) : d < s.date
    <3>1. s.today \in Int /\ s.date \in Int
      BY <1>0, PassFields
    <3> QED
      BY <1>1, <3>1 DEF Window, MaterializationAssumption
  <2>3. \A t \in Templates : OfStep(s, t) => AllSettled(rows, s, t)
    BY <1>0, <2>2 DEF Progress, EarlierDays, AllSettled
  <2> QED
    BY <1>0, <2>1, <2>3, StepEnds DEF InStep
<1>2. CASE ~(s.date > s.today)
  <2>1. /\ n.pc = "charge" /\ n.left = DueSet(s) /\ n.date = s.date /\ n.today = s.today
        /\ n.user = s.user /\ n.todo = s.todo /\ n.step = s.step
        /\ n.snap = s.snap /\ n.failed = s.failed
    <3> DEFINE left == DueSet(s)
    <3>1. n = [s EXCEPT !.pc = "charge", !.left = left]
      BY <1>0, <1>2 DEF OpenDay, OpenDayUntil, Set
    <3> HIDE DEF left, n
    <3>2. /\ n.pc = "charge" /\ n.left = left /\ n.date = s.date /\ n.today = s.today
          /\ n.user = s.user /\ n.todo = s.todo /\ n.step = s.step
          /\ n.snap = s.snap /\ n.failed = s.failed
      BY <1>0, <3>1 DEF PassState
    <3> QED
      BY <3>2 DEF left
  <2>2. /\ \A t, d : Settled(rows, s, t, d) => Settled(rows, n, t, d)
        /\ \A t : AllSettled(rows, s, t) => AllSettled(rows, n, t)
    BY <2>1, SameSettled
  <2>3. /\ Window(n) = Window(s)
        /\ \A t : OfStep(n, t) <=> OfStep(s, t)
        /\ \A t : EarlierStep(n, t) <=> EarlierStep(s, t)
    BY <2>1 DEF Window, OfStep, EarlierStep
  <2>4. \A t \in Templates : OfStep(s, t) /\ t \notin n.left => Settled(rows, n, t, n.date)
    BY <2>1 DEF DueSet, Settled, Occupied
  <2>5. OtherUsers(rows, s) /\ EarlierSteps(rows, s) /\ EarlierDays(rows, s)
    BY DEF Progress
  <2> HIDE DEF n, s
  <2>6. AtRelease(rows, n) /\ AtUser(rows, n)
    BY <2>1 DEF AtRelease, AtUser
  <2>7. OtherUsers(rows, n) /\ EarlierSteps(rows, n)
    BY <1>0, <2>1, <2>2, <2>3, <2>5 DEF OtherUsers, EarlierSteps, InStep
  <2>8. EarlierDays(rows, n)
    BY <1>0, <2>1, <2>2, <2>3, <2>5 DEF EarlierDays
  <2>9. ThisDay(rows, n)
    BY <2>3, <2>4 DEF ThisDay
  <2> QED
    BY <2>6, <2>7, <2>8, <2>9 DEF Progress, n
<1> QED
  BY <1>1, <1>2

LEMMA ChargeProgress ==
    ASSUME TypeOK, NEW p \in Replicas, Progress(rows', pass[p]), Charge(p)
    PROVE  Progress(rows', pass'[p])
<1> DEFINE s == pass[p]  n == pass'[p]
<1>0. s \in PassState /\ pass \in [Replicas -> PassState] /\ s.pc = "charge"
  BY DEF TypeOK, Charge
<1>1. ASSUME NEW t \in s.left, Materialize(t, s.date), Set(p, [s EXCEPT !.left = @ \ {t}])
      PROVE  Progress(rows', n)
  <2>1. /\ n.pc = "charge" /\ n.left = s.left \ {t} /\ n.date = s.date /\ n.today = s.today
        /\ n.user = s.user /\ n.todo = s.todo /\ n.step = s.step
        /\ n.snap = s.snap /\ n.failed = s.failed
    BY <1>0, <1>1 DEF Set, PassState
  <2>2. /\ \A x, d : Settled(rows', s, x, d) => Settled(rows', n, x, d)
        /\ \A x : AllSettled(rows', s, x) => AllSettled(rows', n, x)
    BY <2>1, SameSettled
  <2>3. /\ Window(n) = Window(s)
        /\ \A x : OfStep(n, x) <=> OfStep(s, x)
        /\ \A x : EarlierStep(n, x) <=> EarlierStep(s, x)
    BY <2>1 DEF Window, OfStep, EarlierStep
  <2>4. OccupiedIn(rows', t, s.date)
    <3>1. [tpl |-> t, due |-> s.date, on |-> s.date, live |-> TRUE].tpl = t
          /\ [tpl |-> t, due |-> s.date, on |-> s.date, live |-> TRUE].due = s.date
      OBVIOUS
    <3>2. CASE Occupied(t, s.date)
      BY <1>1, <3>2 DEF Materialize, Occupied
    <3>3. CASE ~Occupied(t, s.date)
      BY <1>1, <3>1, <3>3 DEF Materialize, InsertRow, OccupiedIn
    <3> QED
      BY <3>2, <3>3
  <2>5. Settled(rows', n, t, n.date)
    BY <2>1, <2>4 DEF Settled
  <2>6. /\ OtherUsers(rows', s) /\ EarlierSteps(rows', s)
        /\ EarlierDays(rows', s) /\ ThisDay(rows', s)
    BY DEF Progress
  <2> HIDE DEF n, s
  <2>7. AtRelease(rows', n) /\ AtUser(rows', n)
    BY <2>1 DEF AtRelease, AtUser
  <2>8. OtherUsers(rows', n) /\ EarlierSteps(rows', n)
    BY <1>0, <2>1, <2>2, <2>3, <2>6 DEF OtherUsers, EarlierSteps, InStep
  <2>9. EarlierDays(rows', n)
    BY <1>0, <2>1, <2>2, <2>3, <2>6 DEF EarlierDays
  <2>10. ThisDay(rows', n)
    BY <1>0, <2>1, <2>2, <2>3, <2>5, <2>6 DEF ThisDay
  <2> QED
    BY <2>7, <2>8, <2>9, <2>10 DEF Progress
<1>2. CASE s.left = {} /\ Set(p, [s EXCEPT !.pc = "date", !.date = @ + 1])
  <2>1. /\ n.pc = "date" /\ n.date = s.date + 1 /\ n.today = s.today
        /\ n.user = s.user /\ n.todo = s.todo /\ n.step = s.step
        /\ n.snap = s.snap /\ n.failed = s.failed
    BY <1>0, <1>2 DEF Set, PassState
  <2>2. /\ \A x, d : Settled(rows', s, x, d) => Settled(rows', n, x, d)
        /\ \A x : AllSettled(rows', s, x) => AllSettled(rows', n, x)
    BY <2>1, SameSettled
  <2>3. /\ Window(n) = Window(s)
        /\ \A x : OfStep(n, x) <=> OfStep(s, x)
        /\ \A x : EarlierStep(n, x) <=> EarlierStep(s, x)
    BY <2>1 DEF Window, OfStep, EarlierStep
  <2>4. \A d \in Window(s) : d < n.date => d < s.date \/ d = s.date
    <3>1. s.today \in Int /\ s.date \in Int
      BY <1>0, PassFields
    <3> QED
      BY <2>1, <3>1 DEF Window, MaterializationAssumption
  <2>5. /\ OtherUsers(rows', s) /\ EarlierSteps(rows', s)
        /\ EarlierDays(rows', s) /\ ThisDay(rows', s)
    BY DEF Progress
  <2>6. s.left = {}
    BY <1>2
  <2> HIDE DEF n, s
  <2>7. AtRelease(rows', n) /\ AtUser(rows', n) /\ ThisDay(rows', n)
    BY <2>1 DEF AtRelease, AtUser, ThisDay
  <2>8. OtherUsers(rows', n) /\ EarlierSteps(rows', n)
    BY <1>0, <2>1, <2>2, <2>3, <2>5 DEF OtherUsers, EarlierSteps, InStep
  <2>9. EarlierDays(rows', n)
    BY <1>0, <2>2, <2>3, <2>4, <2>5, <2>6 DEF EarlierDays, ThisDay
  <2> QED
    BY <2>7, <2>8, <2>9 DEF Progress, n
<1> QED
  BY <1>1, <1>2 DEF Charge

LEMMA FailProgress ==
    ASSUME TypeOK, NEW p \in Replicas, Progress(rows, pass[p]), FailStep(p)
    PROVE  Progress(rows, pass'[p])
<1> DEFINE s == pass[p]  n == pass'[p]
<1>0. s \in PassState /\ pass \in [Replicas -> PassState]
  BY DEF TypeOK
<1>1. CASE /\ s.pc \in {"load", "date", "charge"}
           /\ Set(p, AfterStep([s EXCEPT !.failed = @ \cup {<<s.user, Kinds[s.step]>>}]))
  <2> DEFINE f == s.failed \cup {<<s.user, Kinds[s.step]>>}
             m == [s EXCEPT !.failed = f]
  <2>1. f \subseteq (Users \cup {NoUser}) \X KindNames
    <3>1. Kinds[s.step] \in KindNames
      BY <1>0, PassFields, KindsAreDistinct
    <3> HIDE DEF s
    <3> QED
      BY <1>0, <3>1, PassFields
  <2>2. /\ m.pc = s.pc /\ m.left = s.left /\ m.date = s.date /\ m.today = s.today
        /\ m.user = s.user /\ m.todo = s.todo /\ m.step = s.step
        /\ m.snap = s.snap /\ m.failed = f /\ m \in PassState
    <3> HIDE DEF f
    <3> QED
      BY <1>0, <2>1 DEF PassState
  <2>3. n = AfterStep(m)
    BY <1>0, <1>1 DEF Set
  <2>4. /\ \A x, d : Settled(rows, s, x, d) => Settled(rows, m, x, d)
        /\ \A x : AllSettled(rows, s, x) => AllSettled(rows, m, x)
    BY <2>2, SameSettled
  <2>5. /\ Window(m) = Window(s)
        /\ \A x : OfStep(m, x) <=> OfStep(s, x)
        /\ \A x : EarlierStep(m, x) <=> EarlierStep(s, x)
    BY <2>2 DEF Window, OfStep, EarlierStep
  <2>6. \A x \in Templates : OfStep(m, x) => AllSettled(rows, m, x)
    BY <2>2 DEF OfStep, AllSettled, Settled
  <2>7. Progress(rows, m) /\ InStep(m)
    <3>1. Progress(rows, s) /\ InStep(s)
      BY <1>1 DEF InStep
    <3> HIDE DEF m, s
    <3>2. AtRelease(rows, m) /\ AtUser(rows, m) /\ InStep(m)
      BY <2>2, <3>1 DEF AtRelease, AtUser, InStep
    <3>3. OtherUsers(rows, m) /\ EarlierSteps(rows, m)
      BY <2>2, <2>4, <2>5, <3>1 DEF Progress, OtherUsers, EarlierSteps
    <3>4. EarlierDays(rows, m)
      BY <2>2, <2>4, <2>5, <3>1 DEF Progress, EarlierDays
    <3>5. ThisDay(rows, m)
      BY <2>2, <2>4, <2>5, <3>1 DEF Progress, ThisDay
    <3> QED
      BY <3>2, <3>3, <3>4, <3>5 DEF Progress
  <2> HIDE DEF m
  <2> QED
    BY <2>2, <2>3, <2>6, <2>7, StepEnds
<1>2. CASE Set(p, [s EXCEPT !.pc = "release", !.todo = {}, !.failed = Users \X KindNames])
  <2>1. n.pc = "release" /\ n.failed = Users \X KindNames
    BY <1>0, <1>2 DEF Set, PassState
  <2>2. \A t \in Templates : <<Owner[t], Kind[t]>> \in n.failed
    BY <2>1 DEF MaterializationAssumption
  <2> HIDE DEF n
  <2>3. AtRelease(rows, n)
    BY <2>2 DEF AtRelease, AllSettled, Settled
  <2> QED
    BY <2>1, <2>3
       DEF n, Progress, AtUser, OtherUsers, EarlierSteps, EarlierDays, ThisDay, InStep
<1> QED
  BY <1>1, <1>2 DEF FailStep

(* A pass records every occurrence of its days that its templates call for,  *)
(* whatever crashed before and whatever failed for others.                  *)
THEOREM CatchesUp == Spec => []PassCatchesUp
<1>1. Init => PassesProgress
  BY StartingType
     DEF Init, PassesProgress, Progress, AtRelease, AtUser, OtherUsers, EarlierSteps,
         EarlierDays, ThisDay, InStep
<1>2. TypeOK /\ PassesProgress /\ [Next]_vars => PassesProgress'
  <2> SUFFICES ASSUME TypeOK, PassesProgress, [Next]_vars, NEW q \in Replicas
               PROVE  Progress(rows', pass'[q])
    BY DEF PassesProgress
  <2>0. pass \in [Replicas -> PassState] /\ Progress(rows, pass[q])
    BY DEF TypeOK, PassesProgress
  <2>1. \A t, d : OccupiedIn(rows, t, d) => OccupiedIn(rows', t, d)
    BY RowsOnlyGrow
  <2>2. Progress(rows', pass[q])
    BY <2>0, <2>1, ProgressMonotone
  <2>3. ASSUME pass'[q] = pass[q] PROVE Progress(rows', pass'[q])
    BY <2>2, <2>3
  <2>4. ASSUME pass'[q].pc \in {"sleep", "lock", "down"} PROVE Progress(rows', pass'[q])
    BY <2>4
       DEF Progress, AtRelease, AtUser, OtherUsers, EarlierSteps, EarlierDays, ThisDay, InStep
  <2>5. ASSUME NEW p \in Replicas, NEW n, Set(p, n), p # q PROVE Progress(rows', pass'[q])
    BY <2>0, <2>3, <2>5 DEF Set
  <2>6. CASE Wake(q) \/ FailLock(q) \/ ReleaseLock(q) \/ Crash(q) \/ Restart(q)
    BY <2>0, <2>4, <2>6, StartingType, AsleepPc
       DEF Wake, FailLock, ReleaseLock, Crash, Restart, Set
  <2>7. CASE TryLock(q)
    <3>1. CASE lock = Free
      <4> DEFINE n == [Starting EXCEPT !.pc = "user", !.today = Today, !.todo = Users]
      <4>1. n.pc = "user" /\ n.todo = Users
        BY StartingType DEF PassState
      <4>2. pass'[q] = n
        BY <2>0, <2>7, <3>1 DEF TryLock, Set
      <4> HIDE DEF n
      <4> QED
        BY <4>1, <4>2
           DEF Progress, AtRelease, AtUser, OtherUsers, EarlierSteps, EarlierDays, ThisDay,
               InStep, MaterializationAssumption
    <3>2. CASE lock # Free
      BY <2>0, <2>4, <2>7, <3>2, AsleepPc DEF TryLock, Set
    <3> QED
      BY <3>1, <3>2
  <2>8. CASE NextUser(q)
    BY <2>0, <2>1, <2>8, NextUserProgress, ProgressMonotone
  <2>9. CASE LoadTemplates(q)
    BY <2>0, <2>1, <2>9, LoadProgress, ProgressMonotone
  <2>10. CASE OpenDay(q)
    BY <2>0, <2>1, <2>10, OpenDayProgress, ProgressMonotone
  <2>11. CASE Charge(q)
    BY <2>2, <2>11, ChargeProgress
  <2>12. CASE FailStep(q)
    BY <2>0, <2>1, <2>12, FailProgress, ProgressMonotone
  <2>13. ASSUME NEW p \in Replicas, p # q,
                Schedule(p) \/ FailLock(p) \/ FailStep(p) \/ Crash(p) \/ Restart(p)
         PROVE  Progress(rows', pass'[q])
    <3>1. \E n : Set(p, n)
      BY <2>13 DEF Schedule, Wake, TryLock, ReleaseLock, NextUser, LoadTemplates, OpenDay,
                  OpenDayUntil, Charge, FailLock, FailStep, Crash, Restart
    <3> QED
      BY <2>5, <2>13, <3>1
  <2>14. CASE UNCHANGED pass
    BY <2>3, <2>14
  <2>15. CASE Handle
    BY <2>14, <2>15
       DEF Handle, SaveTemplate, DeleteTemplate, ArchiveAccount, DeleteRow, StartEarlyPay,
           FinishEarlyPay
  <2>16. CASE Environment
    BY <2>6, <2>12, <2>13, <2>14, <2>16 DEF Environment, Tick, EndOfClock, LoseSession, vars
  <2>17. CASE \E p \in Replicas : Schedule(p)
    BY <2>6, <2>7, <2>8, <2>9, <2>10, <2>11, <2>13, <2>17 DEF Schedule
  <2>18. CASE UNCHANGED vars
    BY <2>14, <2>18 DEF vars
  <2> QED
    BY <2>15, <2>16, <2>17, <2>18 DEF Next
<1>3. PassesProgress => PassCatchesUp
  BY DEF PassesProgress, PassCatchesUp, Progress, AtRelease
<1> QED
  BY <1>1, <1>2, <1>3, TypeCorrect, PTL DEF Spec

-----------------------------------------------------------------------------
(* The rows as a table of slots. *)

Entry(r) == [slot |-> <<r.tpl, r.due>>, what |-> r.on, closed |-> ~r.live]
Entries(rs) == {Entry(r) : r \in rs}

LEMMA InsertFills ==
    ASSUME NEW t, NEW d, NEW on, ~Occupied(t, d), InsertRow(t, d, on)
    PROVE  Slots!Fill
<1> DEFINE n == [tpl |-> t, due |-> d, on |-> on, live |-> TRUE]
           e == Entry(n)
<1>1. e.slot = <<t, d>> /\ ~e.closed
  BY DEF Entry
<1>2. rows' = rows \cup {n}
  BY DEF InsertRow
<1> HIDE DEF n
<1>3. Entries(rows') = Entries(rows) \cup {e} /\ e \in Entries(rows')
  BY <1>2 DEF Entries
<1>4. \A f \in Entries(rows) : f.slot # e.slot
  BY <1>1 DEF Entries, Entry, Occupied, OccupiedIn
<1> HIDE DEF e
<1> QED
  BY <1>1, <1>3, <1>4 DEF Slots!Fill, Entries, Entry

LEMMA DeleteCloses ==
    ASSUME OneRowPerOccurrence, rows \subseteq RowState, NEW r \in rows, DeleteRow(r)
    PROVE  Slots!Close
<1> DEFINE n == [r EXCEPT !.live = FALSE]
           e == Entry(r)
           f == Entry(n)
<1>0. r \in RowState
  OBVIOUS
<1>1. r.live = TRUE
  BY <1>0 DEF DeleteRow, RowState
<1>2. n.tpl = r.tpl /\ n.due = r.due /\ n.on = r.on /\ n.live = FALSE
  BY <1>0 DEF RowState
<1>3. /\ e = [slot |-> <<r.tpl, r.due>>, what |-> r.on, closed |-> FALSE]
      /\ f = [slot |-> <<r.tpl, r.due>>, what |-> r.on, closed |-> TRUE]
  <2> HIDE DEF n
  <2> QED
    BY <1>1, <1>2 DEF Entry
<1>4. f = [slot |-> e.slot, what |-> e.what, closed |-> TRUE] /\ e.closed = FALSE
  BY <1>3
<1>5. \A s \in rows \ {r} : Entry(s) # e
  BY DEF Entry, OneRowPerOccurrence
<1>6. rows' = (rows \ {r}) \cup {n}
  BY DEF DeleteRow
<1> HIDE DEF n
<1>7. Entries(rows \ {r}) = Entries(rows) \ {e}
  <2> HIDE DEF f
  <2> QED
    BY <1>5 DEF Entries
<1>8. Entries(rows') = Entries(rows \ {r}) \cup {f} /\ e \in Entries(rows)
  BY <1>6 DEF Entries
<1>9. Entries(rows') = (Entries(rows) \ {e}) \cup {f} /\ e \in Entries(rows)
  <2> HIDE DEF e, f
  <2> QED
    BY <1>7, <1>8
<1> HIDE DEF e, f
<1>10. \E x \in Entries(rows) :
          /\ ~x.closed
          /\ Entries(rows') = (Entries(rows) \ {x})
                                \cup {[slot |-> x.slot, what |-> x.what, closed |-> TRUE]}
  BY <1>4, <1>9
<1> QED
  BY <1>10 DEF Slots!Close, Entries, Entry

(* What a step does to the rows. *)
RowsChange ==
    \/ UNCHANGED rows
    \/ \E t, d, on : ~Occupied(t, d) /\ InsertRow(t, d, on)
    \/ \E r \in rows : DeleteRow(r)

LEMMA StepChangesRows == ASSUME [Next]_vars PROVE RowsChange
<1>1. ASSUME NEW p \in Replicas, Charge(p) PROVE RowsChange
  BY <1>1 DEF Charge, Materialize, RowsChange
<1>2. CASE FinishEarlyPay
  BY <1>2 DEF FinishEarlyPay, RowsChange
<1>3. ASSUME NEW r \in rows, DeleteRow(r) PROVE RowsChange
  BY <1>3 DEF RowsChange
<1>4. ASSUME UNCHANGED rows PROVE RowsChange
  BY <1>4 DEF RowsChange
<1>5. CASE \E p \in Replicas : Schedule(p)
  BY <1>1, <1>4, <1>5
     DEF Schedule, Wake, TryLock, ReleaseLock, NextUser, LoadTemplates, OpenDay, OpenDayUntil
<1>6. CASE Handle
  BY <1>2, <1>3, <1>4, <1>6
     DEF Handle, SaveTemplate, DeleteTemplate, ArchiveAccount, StartEarlyPay
<1>7. CASE Environment
  BY <1>4, <1>7 DEF Environment, Tick, EndOfClock, FailLock, FailStep, Crash, Restart,
      LoseSession, vars
<1>8. CASE UNCHANGED vars
  BY <1>4, <1>8 DEF vars
<1> QED
  BY <1>5, <1>6, <1>7, <1>8 DEF Next

(* A slot is filled once and closed for good, whatever overlaps.            *)
THEOREM RowsImplementSlots == Spec => RowsFillSlots
<1>1. Init => Slots!Init
  BY DEF Init, Slots!Init
<1>2. TypeOK /\ OneRowPerOccurrence /\ [Next]_vars
        => [Slots!Fill \/ Slots!Close]_{[slot |-> <<r.tpl, r.due>>, what |-> r.on,
                                         closed |-> ~r.live] : r \in rows}
  <2> SUFFICES ASSUME TypeOK, OneRowPerOccurrence, RowsChange
               PROVE  [Slots!Fill \/ Slots!Close]_{[slot |-> <<r.tpl, r.due>>, what |-> r.on,
                                         closed |-> ~r.live] : r \in rows}
    BY StepChangesRows
  <2>1. CASE UNCHANGED rows
    BY <2>1
  <2>2. ASSUME NEW t, NEW d, NEW on, ~Occupied(t, d), InsertRow(t, d, on)
        PROVE  Slots!Fill
    BY <2>2, InsertFills
  <2>3. ASSUME NEW r \in rows, DeleteRow(r)
        PROVE  Slots!Close
    BY <2>3, DeleteCloses DEF TypeOK
  <2> QED
    BY <2>1, <2>2, <2>3 DEF RowsChange
<1> QED
  BY <1>1, <1>2, TypeCorrect, OneRow, PTL DEF Spec, RowsFillSlots, Slots!Spec

-----------------------------------------------------------------------------
(* Charges are of what the templates call for. *)

(* What a step is about to charge, the templates as it loaded them call for. *)
LeftIsDue ==
    \A p \in Replicas :
        pass[p].pc = "charge" =>
            \A t \in pass[p].left : DueOn(pass[p].snap[t], pass[p].date)

LEMMA LeftStaysDue == ASSUME TypeOK, LeftIsDue, [Next]_vars PROVE LeftIsDue'
<1> SUFFICES ASSUME NEW q \in Replicas, pass'[q].pc = "charge"
             PROVE  \A t \in pass'[q].left : DueOn(pass'[q].snap[t], pass'[q].date)
  BY DEF LeftIsDue
<1>0. pass \in [Replicas -> PassState]
  BY DEF TypeOK
<1> DEFINE s == pass[q]  n == pass'[q]
<1>1. ASSUME n = s PROVE \A t \in n.left : DueOn(n.snap[t], n.date)
  BY <1>1 DEF LeftIsDue
<1>2. ASSUME NEW p \in Replicas, NEW x, Set(p, x), p # q
      PROVE  n = s
  BY <1>0, <1>2 DEF Set
<1>3. ASSUME NEW x, Set(q, x) PROVE n = x
  BY <1>0, <1>3 DEF Set
<1>4. s \in PassState
  BY <1>0
<1>5. CASE OpenDay(q)
  <2>1. ~(s.date > s.today) /\ n = [s EXCEPT !.pc = "charge", !.left = DueSet(s)]
    <3>1. CASE s.date > s.today
      <4>1. n = AfterStep(s)
        BY <1>3, <1>5, <3>1 DEF OpenDay, OpenDayUntil
      <4>2. n.pc # "charge"
        BY <1>4, <4>1 DEF AfterStep, PassState
      <4> QED
        BY <4>2
    <3>2. CASE ~(s.date > s.today)
      BY <1>3, <1>5, <3>2 DEF OpenDay, OpenDayUntil
    <3> QED
      BY <3>1, <3>2
  <2>2. n.left = DueSet(s) /\ n.snap = s.snap /\ n.date = s.date
    BY <1>4, <2>1 DEF PassState
  <2> QED
    BY <2>2 DEF DueSet
<1>6. CASE Charge(q)
  <2>1. PICK x : Set(q, x) /\ (\/ \E t \in s.left : x = [s EXCEPT !.left = @ \ {t}]
                               \/ x = [s EXCEPT !.pc = "date", !.date = @ + 1])
    BY <1>6 DEF Charge
  <2>2. n = x
    BY <1>3, <2>1
  <2>3. ~(x = [s EXCEPT !.pc = "date", !.date = @ + 1])
    BY <1>4, <2>2 DEF PassState
  <2>4. PICK t \in s.left : x = [s EXCEPT !.left = @ \ {t}]
    BY <2>1, <2>3
  <2>5. n.left \subseteq s.left /\ n.snap = s.snap /\ n.date = s.date /\ n.pc = s.pc
    BY <1>4, <2>2, <2>4 DEF PassState
  <2> QED
    BY <2>5 DEF LeftIsDue
<1>7. ASSUME \/ Wake(q) \/ TryLock(q) \/ ReleaseLock(q) \/ NextUser(q) \/ LoadTemplates(q)
             \/ FailLock(q) \/ FailStep(q) \/ Crash(q) \/ Restart(q)
      PROVE  FALSE
  <2>1. CASE Wake(q) \/ Restart(q) \/ Crash(q)
    BY <1>3, <2>1, StartingType, AsleepPc DEF Wake, Restart, Crash, Starting, Down, PassState, Asleep
  <2>2. CASE ReleaseLock(q) \/ FailLock(q)
    BY <1>3, <2>2, AsleepPc DEF ReleaseLock, FailLock
  <2>3. CASE TryLock(q)
    <3>1. CASE Set(q, Asleep(NextRun))
      BY <1>3, <3>1, AsleepPc
    <3>2. CASE Set(q, [Starting EXCEPT !.pc = "user", !.today = Today, !.todo = Users])
      <4>1. n = [Starting EXCEPT !.pc = "user", !.today = Today, !.todo = Users]
        BY <1>3, <3>2
      <4>2. n.pc = "user"
        BY <4>1, StartingType DEF PassState
      <4> QED
        BY <4>2
    <3> QED
      BY <2>3, <3>1, <3>2 DEF TryLock
  <2>4. CASE NextUser(q)
    <3>1. ASSUME NEW u \in s.todo,
                 Set(q, [s EXCEPT !.pc = "load", !.user = u, !.todo = @ \ {u}, !.step = 1])
          PROVE  n.pc = "load"
      BY <1>0, <3>1 DEF Set, PassState
    <3>2. ASSUME Set(q, [s EXCEPT !.pc = "release"]) PROVE n.pc = "release"
      BY <1>0, <3>2 DEF Set, PassState
    <3> QED
      BY <2>4, <3>1, <3>2 DEF NextUser
  <2>5. CASE LoadTemplates(q)
    <3>1. n.pc = "date"
      BY <1>0, <2>5 DEF LoadTemplates, Set, PassState
    <3> QED
      BY <3>1
  <2>6. CASE FailStep(q)
    <3>2. CASE /\ s.pc \in {"load", "date", "charge"}
               /\ Set(q, AfterStep([s EXCEPT !.failed = @ \cup {<<s.user, Kinds[s.step]>>}]))
      <4> DEFINE y == [s EXCEPT !.failed = @ \cup {<<s.user, Kinds[s.step]>>}]
      <4>1. n = AfterStep(y)
        BY <1>3, <3>2
      <4>2. AfterStep(y).pc \in {"load", "user"}
        BY <1>4 DEF AfterStep, PassState
      <4> QED
        BY <4>1, <4>2
    <3>3. CASE Set(q, [s EXCEPT !.pc = "release", !.todo = {}, !.failed = Users \X KindNames])
      <4>1. n = [s EXCEPT !.pc = "release", !.todo = {}, !.failed = Users \X KindNames]
        BY <1>3, <3>3
      <4>2. n.pc = "release"
        BY <1>4, <4>1 DEF PassState
      <4> QED
        BY <4>2
    <3> QED
      BY <2>6, <3>2, <3>3 DEF FailStep
  <2> QED
    BY <1>7, <2>1, <2>2, <2>3, <2>4, <2>5, <2>6
<1>8. ASSUME NEW p \in Replicas, p # q,
             Schedule(p) \/ FailLock(p) \/ FailStep(p) \/ Crash(p) \/ Restart(p)
      PROVE  n = s
  BY <1>2, <1>8
     DEF Schedule, Wake, TryLock, ReleaseLock, NextUser, LoadTemplates, OpenDay, OpenDayUntil,
         Charge, FailLock, FailStep, Crash, Restart
<1>9. ASSUME UNCHANGED pass PROVE n = s
  BY <1>9
<1>10. CASE \E p \in Replicas : Schedule(p)
  BY <1>1, <1>5, <1>6, <1>7, <1>8, <1>10 DEF Schedule
<1>11. CASE Handle
  BY <1>1, <1>9, <1>11 DEF Handle, SaveTemplate, DeleteTemplate, ArchiveAccount, DeleteRow,
     StartEarlyPay, FinishEarlyPay
<1>12. CASE Environment
  BY <1>1, <1>7, <1>8, <1>9, <1>12 DEF Environment, Tick, EndOfClock, LoseSession, vars
<1>13. CASE UNCHANGED vars
  BY <1>1, <1>9, <1>13 DEF vars
<1> QED
  BY <1>10, <1>11, <1>12, <1>13 DEF Next

(* An edit, a deletion or an archived account takes effect on the next step  *)
(* that loads the template, and on no earlier day than its own.             *)
THEOREM ChargesFollow == Spec => ChargesFollowTemplates
<1>1. Init => LeftIsDue
  BY StartingType DEF Init, LeftIsDue
<1>2. TypeOK /\ LeftIsDue /\ [Next]_vars => LeftIsDue'
  BY LeftStaysDue
<1>3. TypeOK /\ LeftIsDue /\ [Next]_vars
        => [\A r \in rows' : r.live /\ ~OccupiedIn(rows, r.tpl, r.due) =>
              \/ DueOn(template[r.tpl], r.due)
              \/ payer.pc = "insert" /\ payer.tpl = r.tpl /\ payer.due = r.due
              \/ \E p \in Replicas :
                    pass[p].pc = "charge" /\ pass[p].snap[r.tpl] # template[r.tpl]]_vars
  <2> SUFFICES ASSUME TypeOK, LeftIsDue, Next, NEW r \in rows', r.live,
                      ~OccupiedIn(rows, r.tpl, r.due)
               PROVE  \/ DueOn(template[r.tpl], r.due)
                      \/ payer.pc = "insert" /\ payer.tpl = r.tpl /\ payer.due = r.due
                      \/ \E p \in Replicas :
                            pass[p].pc = "charge" /\ pass[p].snap[r.tpl] # template[r.tpl]
    OBVIOUS
  <2>0. r \notin rows
    BY DEF OccupiedIn
  <2>1. ASSUME NEW p \in Replicas, Charge(p)
        PROVE  \/ DueOn(template[r.tpl], r.due)
               \/ pass[p].pc = "charge" /\ pass[p].snap[r.tpl] # template[r.tpl]
    <3>1. PICK t \in pass[p].left : Materialize(t, pass[p].date)
      BY <2>0, <2>1 DEF Charge
    <3>2. r = [tpl |-> t, due |-> pass[p].date, on |-> pass[p].date, live |-> TRUE]
      BY <2>0, <3>1 DEF Materialize, InsertRow
    <3>3. r.tpl = t /\ r.due = pass[p].date
      BY <3>2
    <3> QED
      BY <2>1, <3>3 DEF Charge, LeftIsDue
  <2>2. CASE FinishEarlyPay
    <3>1. payer.pc = "insert"
          /\ r = [tpl |-> payer.tpl, due |-> payer.due, on |-> payer.on, live |-> TRUE]
      BY <2>0, <2>2 DEF FinishEarlyPay, InsertRow
    <3> QED
      BY <3>1
  <2>3. ASSUME NEW x \in rows, DeleteRow(x) PROVE FALSE
    <3>1. r = [x EXCEPT !.live = FALSE] /\ x \in RowState
      BY <2>0, <2>3 DEF DeleteRow, TypeOK
    <3> QED
      BY <3>1 DEF RowState
  <2>4. ASSUME UNCHANGED rows PROVE FALSE
    BY <2>0, <2>4
  <2>5. CASE \E p \in Replicas : Schedule(p)
    BY <2>1, <2>4, <2>5
       DEF Schedule, Wake, TryLock, ReleaseLock, NextUser, LoadTemplates, OpenDay, OpenDayUntil
  <2>6. CASE Handle
    BY <2>2, <2>3, <2>4, <2>6
       DEF Handle, SaveTemplate, DeleteTemplate, ArchiveAccount, StartEarlyPay
  <2>7. CASE Environment
    BY <2>4, <2>7 DEF Environment, Tick, EndOfClock, FailLock, FailStep, Crash, Restart,
        LoseSession, vars
  <2> QED
    BY <2>5, <2>6, <2>7 DEF Next
<1> QED
  BY <1>1, <1>2, <1>3, TypeCorrect, PTL DEF Spec, ChargesFollowTemplates
=============================================================================
