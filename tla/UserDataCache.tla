---------------------------- MODULE UserDataCache ----------------------------
(***************************************************************************)
(* One user's rows in Postgres and the in-process caches every replica     *)
(* keeps of them (src/src/cache), together with the three kinds of process *)
(* that touch them:                                                        *)
(*   readers   a GET handler that goes through UserDataLoader;             *)
(*   writers   a mutating handler: the committed transaction, then         *)
(*             finish_write (src/src/routes/helpers.rs);                   *)
(*   job       the pass of the daily job over this user                    *)
(*             (src/src/jobs/daily_expenses.rs).                           *)
(* Caches of different users share nothing (every key starts with the user *)
(* id), so one user is enough.                                             *)
(*                                                                         *)
(* Data is abstracted to versions: the n-th committed change of the user's *)
(* rows makes version n, and a value read from the database is the number  *)
(* of the changes it reflects.  One pay period has closed; its frozen row  *)
(* in projection_history is the version of the data it aggregates.         *)
(***************************************************************************)
EXTENDS Integers, FiniteSets

CONSTANTS
    Replicas,        \* API processes, each with its own UserDataCache
    ReadReplicas,    \* those that reads are routed to
    JobReplicas,     \* those with enable_internal_cron, which may run the job
    Readers,         \* concurrent read requests
    Writers,         \* concurrent write requests
    Views,           \* the resources the readers ask for
    Histories,       \* the history refreshes the writes ask for
    ChargeSteps,     \* materialization steps of one pass of the job
    PeriodInWindow,  \* the closed period's pay date is one of the job's catch-up days
    Faults,          \* what the environment does to the processes
    MaxWrites        \* bound: committed changes of the user's rows

AllViews == {"list", "view", "projections", "money"}
AllHistories == {"none", "from", "rebuild"}
AllFaults == {"timeout", "crash", "step_failure", "sync_failure", "clear_failure"}

ASSUME CacheAssumption ==
    /\ ReadReplicas \subseteq Replicas
    /\ JobReplicas \subseteq Replicas
    /\ Views \subseteq AllViews
    /\ Histories \subseteq AllHistories
    /\ Faults \subseteq AllFaults
    /\ ChargeSteps \in Nat
    /\ MaxWrites \in Nat
    /\ PeriodInWindow \in BOOLEAN

VARIABLES
    writes,     \* committed changes of the user's rows
    lastPast,   \* the latest of them dated inside the closed period (0: none)
    revision,   \* user_settings.cache_revision
    published,  \* published[r]: what was committed when revision r committed
    frozen,     \* version the period's frozen row aggregates, or Unfrozen
    settings,   \* cached settings rows: [at, rev]
    entries,    \* revision-keyed cache entries: [at, view, rev, data, past]
    reader, writer, job,
    aborted     \* a step of the job left rows behind without publishing them

vars == <<writes, lastPast, revision, published, frozen, settings, entries,
          reader, writer, job, aborted>>
db == <<writes, lastPast, revision, published>>
caches == <<settings, entries>>
procs == <<reader, writer, job>>

-----------------------------------------------------------------------------
Unfrozen == -1
Versions == 0..MaxWrites
Sites == Replicas \cup {"none"}

Idle == "idle"
IdleReader == [pc |-> Idle, at |-> "none", view |-> "list",
               rev |-> 0, data |-> 0, past |-> 0]
IdleWriter == [pc |-> Idle, at |-> "none", past |-> FALSE,
               rev |-> 0, data |-> 0, raced |-> FALSE]
IdleJob    == [pc |-> Idle, at |-> "none", step |-> 0, created |-> 0, total |-> 0,
               keep |-> FALSE, data |-> 0, raced |-> FALSE]

ReaderPc == {Idle, "settings", "storeSettings", "lookup", "nested", "rows",
             "storeList", "history", "store"}
WriterPc == {Idle, "settings", "loadSettings", "storeSettings", "check", "inputs",
             "delete", "commit", "clear", "invalidate"}
JobPc    == {Idle, "charge", "invalidate", "inputs", "list", "delete", "commit"}

ReaderState == [pc : ReaderPc, at : Sites, view : AllViews,
                rev : Nat, data : Nat, past : Nat]
WriterState == [pc : WriterPc, at : Sites, past : BOOLEAN,
                rev : Nat, data : Nat, raced : BOOLEAN]
JobState    == [pc : JobPc, at : Sites, step : Nat, created : Nat, total : Nat,
                keep : BOOLEAN, data : Nat, raced : BOOLEAN]

Init ==
    /\ writes = 0 /\ lastPast = 0 /\ revision = 0
    /\ published = [r \in 0..0 |-> [data |-> 0, past |-> 0]]
    /\ frozen \in {Unfrozen, 0}
    /\ settings = {} /\ entries = {}
    /\ reader = [i \in Readers |-> IdleReader]
    /\ writer = [w \in Writers |-> IdleWriter]
    /\ job = IdleJob
    /\ aborted = FALSE

-----------------------------------------------------------------------------
(* The caches.  A row with the same key is replaced, as moka's insert does. *)

CachedSettings(p) == {s \in settings : s.at = p}
CachedEntry(p, v, r) == {e \in entries : e.at = p /\ e.view = v /\ e.rev = r}

PutSettings(p, r) ==
    settings' = (settings \ CachedSettings(p)) \cup {[at |-> p, rev |-> r]}

WithEntry(es, p, v, r, d, h) ==
    {e \in es : ~(e.at = p /\ e.view = v /\ e.rev = r)}
      \cup {[at |-> p, view |-> v, rev |-> r, data |-> d, past |-> h]}

(* UserDataCache::invalidate: the settings row only. *)
EvictSettings(p) == settings' = settings \ CachedSettings(p)

(* bump_cache_revision: revision r+1 commits with everything committed so far. *)
Publish(data, past) ==
    /\ revision' = revision + 1
    /\ published' = [r \in 0..(revision + 1) |->
                        IF r <= revision THEN published[r]
                                         ELSE [data |-> data, past |-> past]]

-----------------------------------------------------------------------------
(* Readers. *)

Step(i, changes) == reader' = [reader EXCEPT ![i] = changes]

(* user_settings: a hit yields the revision with no database round trip. *)
StartRead(i, p, v) ==
    /\ reader[i].pc = Idle
    /\ \/ \E s \in CachedSettings(p) :
             Step(i, [IdleReader EXCEPT !.pc = "lookup", !.at = p, !.view = v,
                                        !.rev = s.rev])
       \/ /\ CachedSettings(p) = {}
          /\ Step(i, [IdleReader EXCEPT !.pc = "settings", !.at = p, !.view = v])
    /\ UNCHANGED <<db, frozen, caches, writer, job, aborted>>

LoadSettings(i) ==
    /\ reader[i].pc = "settings"
    /\ Step(i, [reader[i] EXCEPT !.pc = "storeSettings", !.rev = revision])
    /\ UNCHANGED <<db, frozen, caches, writer, job, aborted>>

(* The row loaded above goes in whatever happened in between. *)
StoreSettings(i) ==
    /\ reader[i].pc = "storeSettings"
    /\ PutSettings(reader[i].at, reader[i].rev)
    /\ Step(i, [reader[i] EXCEPT !.pc = "lookup"])
    /\ UNCHANGED <<db, frozen, entries, writer, job, aborted>>

(* A forced money_context skips the lookup. *)
Lookup(i) ==
    LET r == reader[i]
        hit == CachedEntry(r.at, r.view, r.rev) # {} IN
    /\ r.pc = "lookup"
    /\ \/ hit /\ Step(i, IdleReader)
       \/ ~hit /\ Step(i, [r EXCEPT !.pc = IF r.view = "view" THEN "nested" ELSE "rows"])
       \/ r.view = "money" /\ Step(i, [r EXCEPT !.pc = "rows"])
    /\ UNCHANGED <<db, frozen, caches, writer, job, aborted>>

(* A derived view (expense period, upcoming payable) is built from the list *)
(* caches of the same revision, which it fills when they miss.              *)
LookupList(i) ==
    LET r == reader[i] IN
    /\ r.pc = "nested"
    /\ \/ \E e \in CachedEntry(r.at, "list", r.rev) :
             Step(i, [r EXCEPT !.pc = "store", !.data = e.data, !.past = e.data])
       \/ /\ CachedEntry(r.at, "list", r.rev) = {}
          /\ Step(i, [r EXCEPT !.pc = "rows"])
    /\ UNCHANGED <<db, frozen, caches, writer, job, aborted>>

(* The statements of one load run one after the other; the version of the   *)
(* first of them is the oldest thing the value holds.  money_context holds   *)
(* the display currency of the settings row already in hand.                *)
LoadRows(i) ==
    LET r == reader[i]
        version == IF r.view = "money" THEN published[r.rev].data ELSE writes IN
    /\ r.pc = "rows"
    /\ Step(i, [r EXCEPT !.data = version, !.past = version,
                         !.pc = CASE r.view = "projections" -> "history"
                                  [] r.view = "view"        -> "storeList"
                                  [] OTHER                  -> "store"])
    /\ UNCHANGED <<db, frozen, caches, writer, job, aborted>>

(* Frozen rows replace the live computation of the closed period. *)
LoadHistory(i) ==
    LET r == reader[i] IN
    /\ r.pc = "history"
    /\ Step(i, [r EXCEPT !.pc = "store",
                         !.past = IF frozen = Unfrozen THEN r.data ELSE frozen])
    /\ UNCHANGED <<db, frozen, caches, writer, job, aborted>>

StoreList(i) ==
    LET r == reader[i] IN
    /\ r.pc = "storeList"
    /\ entries' = WithEntry(entries, r.at, "list", r.rev, r.data, r.data)
    /\ Step(i, [r EXCEPT !.pc = "store"])
    /\ UNCHANGED <<db, frozen, settings, writer, job, aborted>>

(* A projection also warms the list caches with the inputs it loaded. *)
StoreUnder(i, rev) ==
    LET r == reader[i]
        warmed == IF r.view = "projections"
                  THEN WithEntry(entries, r.at, "list", rev, r.data, r.data)
                  ELSE entries IN
    /\ r.pc = "store"
    /\ entries' = WithEntry(warmed, r.at, r.view, rev, r.data, r.past)
    /\ Step(i, IdleReader)
    /\ UNCHANGED <<db, frozen, settings, writer, job, aborted>>
StoreUnderLatest(i) == StoreUnder(i, revision)
Store(i) == StoreUnder(i, reader[i].rev)

Read(i) ==
    \/ LoadSettings(i) \/ StoreSettings(i)
    \/ Lookup(i) \/ LookupList(i)
    \/ LoadRows(i) \/ LoadHistory(i)
    \/ StoreList(i) \/ Store(i)

-----------------------------------------------------------------------------
(* Writers: a repo transaction, then finish_write. *)

WStep(w, changes) == writer' = [writer EXCEPT ![w] = changes]

(* The transaction: data and bump_cache_revision commit together.  A write  *)
(* asks for no history refresh, for one from its date, or for a rebuild      *)
(* (schedule, start date, currency, opening balance), which always concerns  *)
(* the closed period.                                                       *)
CommitWrite(w, p, history, past) ==
    /\ writer[w].pc = Idle
    /\ writes < MaxWrites
    /\ history = "none" => ~past
    /\ history = "rebuild" => past
    /\ writes' = writes + 1
    /\ lastPast' = IF past THEN writes + 1 ELSE lastPast
    /\ Publish(writes', lastPast')
    /\ WStep(w, [IdleWriter EXCEPT !.at = p, !.past = past,
                     !.pc = CASE history = "none"    -> "invalidate"
                              [] history = "from"    -> "settings"
                              [] history = "rebuild" -> "inputs"])
    /\ aborted' = FALSE
    /\ UNCHANGED <<frozen, caches, reader, job>>

(* From(date) takes the primary schedule id from the cached settings. *)
WriterSettings(w) ==
    LET h == writer[w] IN
    /\ \/ /\ h.pc = "settings"
          /\ WStep(w, [h EXCEPT !.pc = IF CachedSettings(h.at) # {}
                                       THEN "check" ELSE "loadSettings"])
          /\ UNCHANGED settings
       \/ /\ h.pc = "loadSettings"
          /\ WStep(w, [h EXCEPT !.pc = "storeSettings", !.rev = revision])
          /\ UNCHANGED settings
       \/ /\ h.pc = "storeSettings"
          /\ PutSettings(h.at, h.rev)
          /\ WStep(w, [h EXCEPT !.pc = "check", !.rev = 0])
    /\ UNCHANGED <<db, frozen, entries, reader, job, aborted>>

(* refresh_history_for_date: nothing to do unless the date is in a period   *)
(* that is already frozen.                                                  *)
CheckFrozen(w) ==
    /\ writer[w].pc = "check"
    /\ WStep(w, [writer[w] EXCEPT !.pc = IF frozen # Unfrozen /\ writer[w].past
                                         THEN "inputs" ELSE "invalidate"])
    /\ UNCHANGED <<db, frozen, caches, reader, job, aborted>>

(* sync_history: the inputs, then one transaction that deletes the frozen   *)
(* rows and inserts the recomputed ones ON CONFLICT DO NOTHING.             *)
SyncInputs(w) ==
    /\ writer[w].pc = "inputs"
    /\ WStep(w, [writer[w] EXCEPT !.pc = "delete", !.data = writes])
    /\ UNCHANGED <<db, frozen, caches, reader, job, aborted>>

SyncDelete(w) ==
    /\ writer[w].pc = "delete"
    /\ WStep(w, [writer[w] EXCEPT !.pc = "commit", !.raced = FALSE])
    /\ UNCHANGED <<db, frozen, caches, reader, job, aborted>>

(* The row another sync committed since our DELETE took its snapshot is not *)
(* deleted, and our insert then conflicts with it.                          *)
RowAfterSync(proc) == IF proc.raced /\ frozen # Unfrozen THEN frozen ELSE proc.data

SyncCommit(w) ==
    /\ writer[w].pc = "commit"
    /\ frozen' = RowAfterSync(writer[w])
    /\ writer' = [x \in Writers |->
                     IF x = w THEN [IdleWriter EXCEPT !.pc = "invalidate", !.at = writer[w].at]
                     ELSE IF writer[x].pc = "commit"
                          THEN [writer[x] EXCEPT !.raced = TRUE] ELSE writer[x]]
    /\ job' = IF job.pc = "commit" THEN [job EXCEPT !.raced = TRUE] ELSE job
    /\ UNCHANGED <<db, caches, reader, aborted>>

(* A failed re-freeze drops the frozen rows; dropping them may fail too. *)
ClearHistory(w) ==
    /\ writer[w].pc = "clear"
    /\ \/ frozen' = Unfrozen
       \/ "clear_failure" \in Faults /\ UNCHANGED frozen
    /\ WStep(w, [writer[w] EXCEPT !.pc = "invalidate"])
    /\ UNCHANGED <<db, caches, reader, job, aborted>>

Invalidate(w) ==
    /\ writer[w].pc = "invalidate"
    /\ EvictSettings(writer[w].at)
    /\ WStep(w, IdleWriter)
    /\ UNCHANGED <<db, frozen, entries, reader, job, aborted>>

FinishWrite(w) ==
    \/ WriterSettings(w) \/ CheckFrozen(w)
    \/ SyncInputs(w) \/ SyncDelete(w) \/ SyncCommit(w)
    \/ ClearHistory(w) \/ Invalidate(w)

-----------------------------------------------------------------------------
(* The daily job's pass over this user.  The advisory lock keeps passes of  *)
(* different replicas apart.                                                *)

StartJob(p) ==
    /\ job.pc = Idle
    /\ job' = [IdleJob EXCEPT !.pc = "charge", !.at = p, !.step = 1]
    /\ UNCHANGED <<db, frozen, caches, reader, writer, aborted>>

(* One materialized row: committed by itself, without a revision bump. *)
JobInsert(past) ==
    /\ job.pc = "charge"
    /\ job.step <= ChargeSteps
    /\ writes < MaxWrites
    /\ past => PeriodInWindow
    /\ writes' = writes + 1
    /\ lastPast' = IF past THEN writes + 1 ELSE lastPast
    /\ job' = [job EXCEPT !.created = @ + 1]
    /\ UNCHANGED <<revision, published, frozen, caches, reader, writer, aborted>>

NextStep == [job EXCEPT !.step = @ + 1, !.created = 0, !.total = @ + job.created]

(* The end of a charge step: one bump when it created anything. *)
EndStepUnpublished ==
    /\ job.pc = "charge"
    /\ job.step <= ChargeSteps
    /\ job' = NextStep
    /\ UNCHANGED <<db, aborted, frozen, caches, reader, writer>>
EndStep ==
    /\ job.pc = "charge"
    /\ job.step <= ChargeSteps
    /\ IF job.created > 0
       THEN Publish(writes, lastPast) /\ aborted' = FALSE
       ELSE UNCHANGED <<revision, published, aborted>>
    /\ job' = NextStep
    /\ UNCHANGED <<writes, lastPast, frozen, caches, reader, writer>>

(* An error returns before the bump and counts as nothing created. *)
FailStep ==
    /\ "step_failure" \in Faults
    /\ job.pc = "charge"
    /\ job.step <= ChargeSteps
    /\ aborted' = (aborted \/ job.created > 0)
    /\ job' = [job EXCEPT !.step = @ + 1, !.created = 0]
    /\ UNCHANGED <<db, frozen, caches, reader, writer>>

JobInvalidate ==
    /\ job.pc = "charge"
    /\ job.step > ChargeSteps
    /\ job' = [job EXCEPT !.pc = "inputs"]
    /\ IF job.total > 0 THEN EvictSettings(job.at) ELSE UNCHANGED settings
    /\ UNCHANGED <<db, frozen, entries, reader, writer, aborted>>

JobInputs ==
    /\ job.pc = "inputs"
    /\ job' = [job EXCEPT !.pc = "list", !.data = writes]
    /\ UNCHANGED <<db, frozen, caches, reader, writer, aborted>>

(* Append keeps a frozen row; From(today - CATCH_UP_DAYS) keeps one whose   *)
(* pay date is before that day.                                             *)
JobList ==
    /\ job.pc = "list"
    /\ job' = [job EXCEPT !.pc = "delete",
                          !.keep = frozen # Unfrozen
                                   /\ (job.total = 0 \/ ~PeriodInWindow)]
    /\ UNCHANGED <<db, frozen, caches, reader, writer, aborted>>

JobDelete ==
    /\ job.pc = "delete"
    /\ job' = [job EXCEPT !.pc = "commit", !.raced = FALSE]
    /\ UNCHANGED <<db, frozen, caches, reader, writer, aborted>>

JobCommit ==
    /\ job.pc = "commit"
    /\ frozen' = IF job.keep THEN frozen ELSE RowAfterSync(job)
    /\ writer' = [x \in Writers |->
                     IF writer[x].pc = "commit" /\ ~job.keep
                     THEN [writer[x] EXCEPT !.raced = TRUE] ELSE writer[x]]
    /\ job' = IdleJob
    /\ UNCHANGED <<db, caches, reader, aborted>>

RunJob ==
    \/ \E past \in BOOLEAN : JobInsert(past)
    \/ EndStep \/ FailStep
    \/ JobInvalidate \/ JobInputs \/ JobList \/ JobDelete \/ JobCommit

-----------------------------------------------------------------------------
(* The environment: time to live, request timeouts, failures, restarts. *)

(* SETTINGS_TTL *)
KeepSettings(p) == FALSE /\ UNCHANGED vars
ExpireSettings(p) ==
    /\ CachedSettings(p) # {}
    /\ EvictSettings(p)
    /\ UNCHANGED <<db, frozen, entries, procs, aborted>>

(* ENTRY_TTL, counted from the insertion: being read does not prolong it. *)
KeepEntry(p, v, r) == FALSE /\ UNCHANGED vars
ExpireEntry(p, v, r) ==
    /\ CachedEntry(p, v, r) # {}
    /\ entries' = entries \ CachedEntry(p, v, r)
    /\ UNCHANGED <<db, frozen, settings, procs, aborted>>

(* The timeout layer drops a handler that ran past its deadline at any of   *)
(* its await points, also after the write has committed.                    *)
TimeoutWrite(w) ==
    /\ "timeout" \in Faults
    /\ writer[w].pc # Idle
    /\ WStep(w, IdleWriter)
    /\ UNCHANGED <<db, frozen, caches, reader, job, aborted>>

TimeoutRead(i) ==
    /\ "timeout" \in Faults
    /\ reader[i].pc # Idle
    /\ Step(i, IdleReader)
    /\ UNCHANGED <<db, frozen, caches, writer, job, aborted>>

SyncFails ==
    /\ "sync_failure" \in Faults
    /\ \/ /\ job.pc \in {"inputs", "list", "delete", "commit"}
          /\ job' = IdleJob
          /\ UNCHANGED writer
       \/ /\ UNCHANGED job
          /\ \E w \in Writers :
                /\ writer[w].pc \in {"settings", "check", "inputs", "delete", "commit"}
                /\ WStep(w, [writer[w] EXCEPT !.pc = "clear"])
    /\ UNCHANGED <<db, frozen, caches, reader, aborted>>

(* A replica dies: its caches and everything it was running are gone. *)
CrashReplica(p) ==
    /\ "crash" \in Faults
    /\ settings' = {s \in settings : s.at # p}
    /\ entries' = {e \in entries : e.at # p}
    /\ reader' = [i \in Readers |-> IF reader[i].at = p THEN IdleReader ELSE reader[i]]
    /\ writer' = [w \in Writers |-> IF writer[w].at = p THEN IdleWriter ELSE writer[w]]
    /\ job' = IF job.at = p THEN IdleJob ELSE job
    /\ aborted' = (aborted \/ (job.at = p /\ job.created > 0))
    /\ UNCHANGED <<db, frozen>>

Environment ==
    \/ \E p \in Replicas : ExpireSettings(p) \/ CrashReplica(p)
    \/ \E e \in entries : ExpireEntry(e.at, e.view, e.rev)
    \/ \E w \in Writers : TimeoutWrite(w)
    \/ \E i \in Readers : TimeoutRead(i)
    \/ SyncFails

Next ==
    \/ \E i \in Readers : Read(i) \/ \E p \in ReadReplicas, v \in Views : StartRead(i, p, v)
    \/ \E w \in Writers :
          \/ FinishWrite(w)
          \/ \E p \in Replicas, h \in Histories, past \in BOOLEAN :
                CommitWrite(w, p, h, past)
    \/ RunJob \/ \E p \in JobReplicas : StartJob(p)
    \/ Environment

Spec == Init /\ [][Next]_vars

(* Handlers and the job's pass run to their end, and a cached row's time to  *)
(* live runs out.  Nothing obliges a client to send a request.              *)
Fairness ==
    /\ \A i \in Readers : WF_vars(Read(i))
    /\ \A w \in Writers : WF_vars(FinishWrite(w))
    /\ WF_vars(RunJob)
    /\ \A p \in Replicas :
          /\ WF_vars(ExpireSettings(p))
          /\ \A v \in AllViews, r \in Versions : WF_vars(ExpireEntry(p, v, r))

FairSpec == Spec /\ Fairness

-----------------------------------------------------------------------------
(* Every variable has its type. *)
TypeOK ==
    /\ writes \in Nat /\ lastPast \in Nat /\ revision \in Nat
    /\ published \in [0..revision -> [data : Nat, past : Nat]]
    /\ frozen \in Nat \cup {Unfrozen}
    /\ settings \subseteq [at : Replicas, rev : Nat]
    /\ entries \subseteq [at : Replicas, view : AllViews, rev : Nat, data : Nat, past : Nat]
    /\ reader \in [Readers -> ReaderState]
    /\ writer \in [Writers -> WriterState]
    /\ job \in JobState
    /\ aborted \in BOOLEAN

(* A value cached under revision r reflects every change that revision r    *)
(* published, however old the settings row was that supplied r and whatever *)
(* was written, expired, cancelled or restarted while the value was loaded: *)
(* cache/loader.rs reads the revision first and the rows after it.          *)
EntriesCoverTheirRevision ==
    \A e \in entries : e.data >= published[e.rev].data

(* Rows no revision has published yet exist only while a charge step that   *)
(* will bump is under way, or after one was cut short: the bump at the end  *)
(* of each charge step covers everything the step committed.                *)
RowsArePublished ==
    published[revision].data < writes => job.created > 0 \/ aborted

NoHandlerRunning ==
    (\A w \in Writers : writer[w].pc = Idle) /\ job.pc = Idle

(* What makes the two inductive.  Revisions in hand or in a cache are        *)
(* revisions the database has committed, and no revision publishes more     *)
(* than there is.                                                           *)
KnownRevisions ==
    /\ \A s \in settings : s.rev <= revision
    /\ \A e \in entries : e.rev <= revision
    /\ \A i \in Readers : reader[i].rev <= revision
    /\ \A w \in Writers : writer[w].rev <= revision
    /\ \A r \in 0..revision : published[r].data <= writes

(* Rows a reader has loaded already cover the revision it will store them   *)
(* under.                                                                   *)
ReadersCoverTheirRevision ==
    \A i \in Readers :
        reader[i].pc \in {"storeList", "history", "store"}
            => reader[i].data >= published[reader[i].rev].data

(* Rows are counted only inside a charge step; a running process has a site. *)
CreatedInChargeStep ==
    job.created > 0 => job.pc = "charge" /\ job.step <= ChargeSteps

RunningHasSite ==
    /\ \A i \in Readers : reader[i].pc # Idle => reader[i].at \in Replicas
    /\ \A w \in Writers : writer[w].pc # Idle => writer[w].at \in Replicas

CacheInv ==
    /\ TypeOK
    /\ KnownRevisions
    /\ ReadersCoverTheirRevision
    /\ EntriesCoverTheirRevision
    /\ CreatedInChargeStep
    /\ RowsArePublished
    /\ RunningHasSite

(* helpers.rs:124: a projection read racing the write cannot leave stale    *)
(* frozen rows cached under the new revision once finish_write is over.     *)
NoStaleProjectionUnderNewRevision ==
    NoHandlerRunning =>
        \A e \in entries : (e.view = "projections" /\ e.rev = revision)
                               => e.past >= published[e.rev].past

(* Self-healing (user_data_cache.rs:26): when changes cease, every replica  *)
(* ends up with the current revision, even if it missed the eviction, and a  *)
(* projection cached from frozen rows that a write was about to re-freeze    *)
(* lives no longer than its time to live: in the end every projection under  *)
(* the current revision shows all changes of the closed period.             *)
ReadsConverge ==
    <>[](/\ \A s \in settings : s.rev = revision
         /\ \A e \in entries : (e.view = "projections" /\ e.rev = revision)
                                   => e.past >= lastPast)

(* The rows of a charge step that failed stay unpublished                    *)
(* (charge_due_expenses.rs returns before its bump), so under the current    *)
(* revision a list that lacks them is served, and so is a view built later   *)
(* from that list.  Both end with their time to live, which starts at their  *)
(* insertion: when changes cease, what is served is what is there.          *)
UnpublishedRowsAppear ==
    <>[](\A e \in entries : (e.view # "money" /\ e.rev = revision)
                                 => e.data = writes)
=============================================================================
