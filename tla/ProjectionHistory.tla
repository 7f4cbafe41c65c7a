-------------------------- MODULE ProjectionHistory --------------------------
(***************************************************************************)
(* The frozen pay periods of one user's primary schedule and sync_history   *)
(* (src/src/services/projection_history.rs), the one place that writes      *)
(* them, as called by finish_write after a change and by the daily job.     *)
(*                                                                         *)
(* Period p covers the days up to its pay date p * PeriodDays; the first    *)
(* begins at the projection start date.  The kernel that computes a period  *)
(* is abstracted to the sum of the amounts dated in it; exchange rates are  *)
(* left out, a display currency is the tag a frozen row carries.  Which     *)
(* caches serve the result is UserDataCache's matter.                       *)
(***************************************************************************)
EXTENDS Integers, FiniteSets, FiniteSetsExt

CONSTANTS
    Handlers,     \* concurrent write requests
    Periods,      \* number of pay periods
    PeriodDays,   \* days in a period
    CatchUpDays,  \* CATCH_UP_DAYS
    Changes,      \* kinds of change: "row", "opening", "currency"
    ClientOffsets,\* how far a client's day may be from the server's
    LastDay,      \* bound: the last day of the clock
    MaxChanges,   \* bound: committed changes
    MaxFaults,    \* bound: failed syncs and charge steps, passes cut short
    Faults        \* which of AllFaults happen

AllChanges == {"row", "opening", "currency"}
AllFaults == {"timeout", "sync_failure", "clear_failure", "job_sync_failure",
              "step_failure", "crash"}

ASSUME HistoryAssumption ==
    /\ Periods \in Nat /\ PeriodDays \in Nat \ {0} /\ CatchUpDays \in Nat
    /\ Changes \subseteq AllChanges /\ Faults \subseteq AllFaults
    /\ ClientOffsets \subseteq -1..1
    /\ LastDay \in Nat /\ MaxChanges \in Nat /\ MaxFaults \in Nat

VARIABLES
    now,      \* UTC's day
    net,      \* net[p]: income less expenses dated in period p
    opening,  \* initial_free_money
    currency, \* settings.display_currency
    history,  \* the frozen rows: [period, net, cumulative, currency]
    proc,     \* the processes that sync
    changes, faults,
    missed,   \* history: the first day whose re-freeze has been missed, or NoDay
    overlapped\* history: whether two processes have ever been at work at once

vars == <<now, net, opening, currency, history, proc, changes, faults, missed, overlapped>>
data == <<net, opening, currency>>
counts == <<changes, faults, missed, overlapped>>

-----------------------------------------------------------------------------
Job == "job"
Procs == Handlers \cup {Job}
Period == 1..Periods
PayDate(p) == p * PeriodDays
PeriodOf(d) == (d + PeriodDays - 1) \div PeriodDays

NoDay == PayDate(Periods) + 1   \* after every pay date

NoInputs == [net |-> [p \in Period |-> 0], opening |-> 0, currency |-> 1]
IdleProc == [pc |-> "idle", sync |-> "append", date |-> NoDay, step |-> FALSE, created |-> FALSE,
             inputs |-> NoInputs, base |-> 0, rows |-> {}, raced |-> {}]

Busy == \E p \in Procs : proc[p].pc # "idle"
Goto(p, state) == proc' = [proc EXCEPT ![p] = state]

NoteOverlap == overlapped' = (overlapped \/ Busy)

(* The first day whose frozen rows a process has made wrong and not replaced *)
(* yet; it is missed, if the process goes no further, by the periods that    *)
(* are frozen from that day on.                                             *)
Owes(s) == IF s.sync = "append" /\ ~s.step /\ ~s.created THEN NoDay ELSE s.date
Frozen == {r.period : r \in history}
Miss(s) ==
    missed' = IF Owes(s) < missed /\ \E p \in Frozen : Owes(s) <= PayDate(p)
              THEN Owes(s) ELSE missed

Init ==
    /\ now = 1
    /\ net = [p \in Period |-> 0]
    /\ opening = 0 /\ currency = 1
    /\ history = {}
    /\ proc = [p \in Procs |-> IdleProc]
    /\ changes = 0 /\ faults = 0
    /\ missed = NoDay /\ overlapped = FALSE

-----------------------------------------------------------------------------
(* A handler's transaction, and what its finish_write asks for: a row dated  *)
(* d From(d), an opening balance or a currency Rebuild.  A currency makes no  *)
(* row wrong, only unusable.                                                *)

Commit(kind, d) ==
    /\ changes < MaxChanges
    /\ changes' = changes + 1
    /\ \/ /\ kind = "row"
          /\ net' = [net EXCEPT ![PeriodOf(d)] = @ + 1]
          /\ UNCHANGED <<opening, currency>>
       \/ kind = "opening" /\ opening' = opening + 1 /\ UNCHANGED <<net, currency>>
       \/ kind = "currency" /\ currency' = 3 - currency /\ UNCHANGED <<net, opening>>

Change(h, kind, d) ==
    /\ proc[h].pc = "idle"
    /\ NoteOverlap
    /\ Commit(kind, d)
    /\ Goto(h, IF kind = "row" THEN [IdleProc EXCEPT !.pc = "check", !.sync = "from", !.date = d]
                               ELSE [IdleProc EXCEPT !.pc = "inputs", !.sync = "rebuild",
                                                     !.date = IF kind = "opening" THEN 0 ELSE NoDay])
    /\ UNCHANGED <<now, history, faults, missed>>

(* refresh_history_for_date: only a date in a frozen period matters. *)
CheckFrozen(h) ==
    LET s == proc[h] IN
    /\ s.pc = "check"
    /\ Goto(h, IF \E p \in Frozen : s.date <= PayDate(p) THEN [s EXCEPT !.pc = "inputs"]
                                                        ELSE IdleProc)
    /\ UNCHANGED <<now, data, history, counts>>

-----------------------------------------------------------------------------
(* sync_history *)

LoadInputs(p) ==
    LET s == proc[p] IN
    /\ s.pc = "inputs"
    /\ Goto(p, [s EXCEPT !.pc = "list",
                         !.inputs = [net |-> net, opening |-> opening, currency |-> currency]])
    /\ UNCHANGED <<now, data, history, counts>>

IsHistoryUsable(cur) == \A r \in history : r.currency = cur

(* The leading rows that stay as they are. *)
KeptThrough(s) ==
    IF ~IsHistoryUsable(s.inputs.currency) \/ s.sync = "rebuild" THEN {}
    ELSE {r \in history : s.sync = "append" \/ PayDate(r.period) <= s.date}
Kept(s) ==
    IF ~IsHistoryUsable(s.inputs.currency) THEN {}
    ELSE CASE s.sync = "rebuild" -> {}
           [] s.sync = "append"  -> history
           [] s.sync = "from"    -> {r \in history : PayDate(r.period) < s.date}

(* build_rows_after: the periods after the base, seeded from its cumulative. *)
RowsFromOpening(inputs, base, closed) ==
    LET NetOf(p) == inputs.net[p]
    IN  {[period |-> p, net |-> inputs.net[p],
          cumulative |-> inputs.opening + MapThenSumSet(NetOf, (Cardinality(base) + 1)..p),
          currency |-> inputs.currency] : p \in {q \in closed : q > Cardinality(base)}}
RowsAfter(inputs, base, closed) ==
    LET first == IF base = {} THEN 1 ELSE 1 + Max({r.period : r \in base})
        seed == IF base = {} THEN inputs.opening
                ELSE (CHOOSE r \in base : r.period = first - 1).cumulative
        NetOf(p) == inputs.net[p]
    IN  {[period |-> p, net |-> inputs.net[p],
          cumulative |-> seed + MapThenSumSet(NetOf, first..p),
          currency |-> inputs.currency] : p \in {q \in closed : q >= first}}

(* freeze_cutoff *)
ClosedAt(cutoff) == {p \in Period : PayDate(p) < cutoff}
ClosedToday == ClosedAt(now)
Closed == ClosedAt(now - 1)

ListHistory(p) ==
    LET s == proc[p] IN
    /\ s.pc = "list"
    /\ Goto(p, [s EXCEPT !.pc = "delete",
                         !.base = IF Kept(s) = {} THEN 0
                                  ELSE Max({r.period : r \in Kept(s)}),
                         !.rows = RowsAfter(s.inputs, Kept(s), Closed)])
    /\ UNCHANGED <<now, data, history, counts>>

(* The transaction's DELETE sees the rows committed when it starts ... *)
DeleteAfter(p) ==
    LET s == proc[p] IN
    /\ s.pc = "delete"
    /\ Goto(p, [s EXCEPT !.pc = "commit", !.raced = {}])
    /\ UNCHANGED <<now, data, history, counts>>

(* ... so a row another sync has inserted since then survives it, and the    *)
(* insert skips the period it holds (ON CONFLICT DO NOTHING).               *)
Survivors(s) == {r \in history : r.period <= s.base \/ r.period \in s.raced}
Inserted(s) == {r \in s.rows : \A o \in Survivors(s) : o.period # r.period}

CommitRows(p) ==
    LET s == proc[p]
        new == {r.period : r \in Inserted(s)} IN
    /\ s.pc = "commit"
    /\ history' = Survivors(s) \cup Inserted(s)
    /\ missed' = IF PayDate(s.base) < missed THEN NoDay ELSE missed
    /\ proc' = [q \in Procs |->
                  IF q = p THEN IdleProc
                  ELSE IF proc[q].pc = "commit" THEN [proc[q] EXCEPT !.raced = @ \cup new]
                  ELSE proc[q]]
    /\ UNCHANGED <<now, data, changes, faults, overlapped>>

(* A failed sync: finish_write drops every frozen row, which may fail too. *)
ClearHistory(h) ==
    /\ proc[h].pc = "clear"
    /\ history' = {}
    /\ missed' = NoDay
    /\ Goto(h, IdleProc)
    /\ UNCHANGED <<now, data, changes, faults, overlapped>>
ClearFails(h) ==
    /\ "clear_failure" \in Faults
    /\ proc[h].pc = "clear"
    /\ Miss(proc[h])
    /\ Goto(h, IdleProc)
    /\ UNCHANGED <<now, data, history, changes, faults, overlapped>>

(* A handler goes on to clear, the job moves on. *)
Syncing == {"check", "inputs", "list", "delete", "commit"}
SyncFails(p) ==
    /\ (IF p = Job THEN "job_sync_failure" ELSE "sync_failure") \in Faults
    /\ faults < MaxFaults
    /\ proc[p].pc \in Syncing
    /\ IF p = Job THEN Goto(p, IdleProc) /\ Miss(proc[p])
       ELSE Goto(p, [proc[p] EXCEPT !.pc = "clear"]) /\ UNCHANGED missed
    /\ faults' = faults + 1
    /\ UNCHANGED <<now, data, history, changes, overlapped>>

(* The request's timeout drops finish_write wherever it is. *)
Timeout(h) ==
    /\ "timeout" \in Faults
    /\ proc[h].pc # "idle"
    /\ Miss(proc[h])
    /\ Goto(h, IdleProc)
    /\ UNCHANGED <<now, data, history, changes, faults, overlapped>>

Sync(p) ==
    \/ LoadInputs(p) \/ ListHistory(p) \/ DeleteAfter(p) \/ CommitRows(p)

-----------------------------------------------------------------------------
(* The job's pass over this user. *)

StartPass ==
    /\ proc[Job].pc = "idle"
    /\ NoteOverlap
    /\ Goto(Job, [IdleProc EXCEPT !.pc = "charge", !.date = now - CatchUpDays])
    /\ UNCHANGED <<now, data, history, changes, faults, missed>>

(* A charge step commits a row for one of the catch-up days. *)
JobCharges(d) ==
    LET s == proc[Job] IN
    /\ s.pc = "charge"
    /\ s.date <= d /\ d <= s.date + CatchUpDays
    /\ Commit("row", d)
    /\ Goto(Job, [s EXCEPT !.step = TRUE])
    /\ UNCHANGED <<now, history, faults, missed, overlapped>>

(* The step reports its rows at its end.  One that fails after a row counts   *)
(* as 0, and the pass goes on with the next.                                *)
StepEnds ==
    /\ proc[Job].pc = "charge" /\ proc[Job].step
    /\ Goto(Job, [proc[Job] EXCEPT !.step = FALSE, !.created = TRUE])
    /\ UNCHANGED <<now, data, history, counts>>
StepFails ==
    /\ "step_failure" \in Faults
    /\ faults < MaxFaults
    /\ proc[Job].pc = "charge" /\ proc[Job].step
    /\ Miss(proc[Job])
    /\ Goto(Job, [proc[Job] EXCEPT !.step = FALSE])
    /\ faults' = faults + 1
    /\ UNCHANGED <<now, data, history, changes, overlapped>>

JobSyncsIfCreated ==
    LET s == proc[Job] IN
    /\ s.pc = "charge" /\ ~s.step
    /\ Goto(Job, IF s.created THEN [s EXCEPT !.pc = "inputs", !.sync = "from"] ELSE IdleProc)
    /\ UNCHANGED <<now, data, history, counts>>
JobSyncs ==
    LET s == proc[Job] IN
    /\ s.pc = "charge" /\ ~s.step
    /\ Goto(Job, [s EXCEPT !.pc = "inputs", !.sync = IF s.created THEN "from" ELSE "append"])
    /\ UNCHANGED <<now, data, history, counts>>

(* The replica dies: what the pass has committed stays. *)
PassDies ==
    /\ "crash" \in Faults
    /\ faults < MaxFaults
    /\ proc[Job].pc # "idle"
    /\ Miss(proc[Job])
    /\ Goto(Job, IdleProc)
    /\ faults' = faults + 1
    /\ UNCHANGED <<now, data, history, changes, overlapped>>

Tick ==
    /\ now < LastDay
    /\ now' = now + 1
    /\ UNCHANGED <<data, history, proc, counts>>

Dated == {d \in 1..now : PeriodOf(d) \in Period}

Next ==
    \/ \E h \in Handlers :
          \/ \E kind \in Changes, d \in Dated : Change(h, kind, d)
          \/ CheckFrozen(h) \/ ClearHistory(h) \/ ClearFails(h) \/ Timeout(h)
    \/ \E p \in Procs : Sync(p) \/ SyncFails(p)
    \/ StartPass \/ StepEnds \/ StepFails \/ JobSyncs \/ PassDies \/ \E d \in Dated : JobCharges(d)
    \/ Tick

Spec == Init /\ [][Next]_vars

(* Handlers finish what they began, passes are run and time goes on. *)
FairSpec ==
    /\ Spec
    /\ \A h \in Handlers : WF_vars(CheckFrozen(h) \/ ClearHistory(h) \/ Sync(h))
    /\ WF_vars(StartPass) /\ WF_vars(StepEnds \/ JobSyncs) /\ WF_vars(Sync(Job)) /\ WF_vars(Tick)

-----------------------------------------------------------------------------
(* projection_history.rs:163: the periods served are continuous: a period has *)
(* one row, which carries on the cumulative of the one before it, and none is *)
(* missing before the last one, from which the live periods go on.  Only      *)
(* syncs that overlap leave gaps: dropped and failed ones do not.            *)
Continuous ==
    /\ \A r, s \in history : r.period = s.period => r = s
    /\ ~overlapped =>
          \A r \in history :
              r.period > 1 => \E b \in history : /\ b.period = r.period - 1
                                                 /\ r.cumulative = b.cumulative + r.net

(* Freezing changes nothing but speed: as long as no two processes overlap,  *)
(* the frozen rows that reads use, with none at work, say what a full live   *)
(* computation says.  Those of the periods from missed on may not: a dropped *)
(* handler, a failed clear, a pass that died, failed to re-freeze, or was    *)
(* told 0 by a step that failed after it had committed rows, all leave rows  *)
(* wrong, and appending keeps them; but no others, and only until the next    *)
(* re-freeze that reaches back as far.                                      *)
FrozenEqualsLive ==
    ~overlapped /\ ~Busy /\ IsHistoryUsable(currency) =>
        {r \in history : PayDate(r.period) < missed}
            \subseteq RowsAfter([net |-> net, opening |-> opening, currency |-> currency],
                               {}, Period)

(* projection_history.rs:48: a client whose date lags UTC's never sees the   *)
(* period it still treats as current as a frozen one, however syncs overlap. *)
OnlyClosedPeriodsFrozen ==
    \A r \in history, offset \in ClientOffsets : PayDate(r.period) < now + offset

(* Every period that is over is frozen in the end, whatever was cleared,     *)
(* dropped or failed before: passes append what is missing.  Overlapping     *)
(* syncs may leave a hole that no pass fills.                               *)
EveryPeriodFrozen ==
    <>[](overlapped \/ ClosedAt(LastDay - 1) \subseteq Frozen)
=============================================================================
