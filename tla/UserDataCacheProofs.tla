------------------------- MODULE UserDataCacheProofs -------------------------
(* Proofs about UserDataCache, for every number of replicas, readers,       *)
(* writers, writes and charge steps, and for every choice of faults.        *)
EXTENDS UserDataCache, TLAPS

LEMMA InitCacheInv == Init => CacheInv
<1> SUFFICES ASSUME Init PROVE CacheInv
  OBVIOUS
<1> USE DEF Init
<1>1. IdleReader \in ReaderState /\ IdleWriter \in WriterState /\ IdleJob \in JobState
  BY DEF IdleReader, IdleWriter, IdleJob, ReaderState, WriterState, JobState,
         ReaderPc, WriterPc, JobPc, Sites, AllViews, Idle
<1>2. TypeOK
  <2>1. writes \in Nat /\ lastPast \in Nat /\ revision \in Nat
    OBVIOUS
  <2>2. published \in [0..revision -> [data : Nat, past : Nat]]
    OBVIOUS
  <2>3. frozen \in Nat \cup {Unfrozen}
    OBVIOUS
  <2>4. /\ settings \subseteq [at : Replicas, rev : Nat]
        /\ entries \subseteq [at : Replicas, view : AllViews, rev : Nat,
                              data : Nat, past : Nat]
    OBVIOUS
  <2>5. /\ reader \in [Readers -> ReaderState]
        /\ writer \in [Writers -> WriterState]
        /\ job \in JobState
        /\ aborted \in BOOLEAN
    BY <1>1
  <2> QED
    BY <2>1, <2>2, <2>3, <2>4, <2>5 DEF TypeOK
<1>3. KnownRevisions
  BY DEF KnownRevisions, IdleReader, IdleWriter
<1>4. ReadersCoverTheirRevision /\ EntriesCoverTheirRevision
  BY DEF ReadersCoverTheirRevision, EntriesCoverTheirRevision, IdleReader, Idle
<1>5. CreatedInChargeStep /\ RowsArePublished
  BY DEF CreatedInChargeStep, RowsArePublished, IdleJob
<1>6. RunningHasSite
  BY DEF RunningHasSite, IdleReader, IdleWriter
<1> QED
  BY <1>2, <1>3, <1>4, <1>5, <1>6 DEF CacheInv

-----------------------------------------------------------------------------
(* What a step must establish about the parts it changes while the database *)
(* stands still.                                                            *)
SettingsOK(S) ==
    S \subseteq [at : Replicas, rev : Nat] /\ \A s \in S : s.rev <= revision
EntriesOK(E) ==
    /\ E \subseteq [at : Replicas, view : AllViews, rev : Nat, data : Nat, past : Nat]
    /\ \A e \in E : e.rev <= revision /\ e.data >= published[e.rev].data
ReaderOK(r) ==
    /\ r \in ReaderState
    /\ r.rev <= revision
    /\ r.pc \in {"storeList", "history", "store"} => r.data >= published[r.rev].data
    /\ r.pc # Idle => r.at \in Replicas
WriterOK(h) ==
    h \in WriterState /\ h.rev <= revision /\ (h.pc # Idle => h.at \in Replicas)
JobOK(j) ==
    j \in JobState /\ (j.created > 0 => j.pc = "charge" /\ j.step <= ChargeSteps)

(* The invariant, read part by part. *)
Parts ==
    /\ writes \in Nat /\ lastPast \in Nat /\ revision \in Nat
    /\ published \in [0..revision -> [data : Nat, past : Nat]]
    /\ \A r \in 0..revision : published[r].data <= writes
    /\ frozen \in Nat \cup {Unfrozen}
    /\ SettingsOK(settings)
    /\ EntriesOK(entries)
    /\ reader \in [Readers -> ReaderState]
    /\ \A i \in Readers : ReaderOK(reader[i])
    /\ writer \in [Writers -> WriterState]
    /\ \A w \in Writers : WriterOK(writer[w])
    /\ JobOK(job)
    /\ aborted \in BOOLEAN
    /\ RowsArePublished

LEMMA InvParts == CacheInv <=> Parts
BY DEF CacheInv, TypeOK, KnownRevisions, ReadersCoverTheirRevision,
       EntriesCoverTheirRevision, CreatedInChargeStep, RunningHasSite,
       SettingsOK, EntriesOK, ReaderOK, WriterOK, JobOK, Parts

(* A step that leaves the database alone keeps the invariant when each part *)
(* it changes is in order.                                                  *)
LEMMA SameDatabase ==
    ASSUME CacheInv, UNCHANGED db,
           frozen' \in Nat \cup {Unfrozen},
           SettingsOK(settings'), EntriesOK(entries'),
           reader' \in [Readers -> ReaderState], \A i \in Readers : ReaderOK(reader'[i]),
           writer' \in [Writers -> WriterState], \A w \in Writers : WriterOK(writer'[w]),
           JobOK(job'), aborted' \in BOOLEAN, RowsArePublished'
    PROVE  CacheInv'
<1>1. UNCHANGED <<writes, lastPast, revision, published>>
  BY DEF db
<1>2. SettingsOK(settings)'
  BY <1>1 DEF SettingsOK
<1>3. EntriesOK(entries)'
  BY <1>1 DEF EntriesOK
<1>4. \A i \in Readers : ReaderOK(reader[i])'
  BY <1>1 DEF ReaderOK
<1>5. \A w \in Writers : WriterOK(writer[w])'
  BY <1>1 DEF WriterOK
<1>6. JobOK(job)'
  BY DEF JobOK
<1>7. /\ writes' \in Nat /\ lastPast' \in Nat /\ revision' \in Nat
      /\ published' \in [0..revision' -> [data : Nat, past : Nat]]
      /\ \A r \in 0..revision' : published'[r].data <= writes'
  BY <1>1, InvParts DEF Parts
<1>8. Parts'
  BY <1>2, <1>3, <1>4, <1>5, <1>6, <1>7 DEF Parts
<1> QED
  BY <1>8, InvParts, PTL

(* A step of one reader. *)
LEMMA ReaderStep ==
    ASSUME CacheInv, NEW i \in Readers, NEW r, ReaderOK(r), Step(i, r),
           SettingsOK(settings'), EntriesOK(entries'),
           UNCHANGED <<db, frozen, writer, job, aborted>>
    PROVE  CacheInv'
<1>1. /\ reader' \in [Readers -> ReaderState]
      /\ \A j \in Readers : ReaderOK(reader'[j])
  BY InvParts DEF Parts, Step, ReaderOK
<1>2. RowsArePublished'
  BY InvParts DEF Parts, RowsArePublished, db
<1> QED
  BY <1>1, <1>2, SameDatabase, InvParts DEF Parts, db

(* A step of one write handler after its transaction. *)
LEMMA WriterStep ==
    ASSUME CacheInv, NEW w \in Writers, NEW h, WriterOK(h), WStep(w, h),
           SettingsOK(settings'), frozen' \in Nat \cup {Unfrozen},
           UNCHANGED <<db, entries, reader, job, aborted>>
    PROVE  CacheInv'
<1>1. /\ writer' \in [Writers -> WriterState]
      /\ \A x \in Writers : WriterOK(writer'[x])
  BY InvParts DEF Parts, WStep, WriterOK
<1>2. RowsArePublished'
  BY InvParts DEF Parts, RowsArePublished, db
<1> QED
  BY <1>1, <1>2, SameDatabase, InvParts DEF Parts, db

(* A step of the job that neither commits a row nor publishes. *)
LEMMA JobStep ==
    ASSUME CacheInv, JobOK(job'), aborted' \in BOOLEAN,
           job.created > 0 \/ aborted => job'.created > 0 \/ aborted',
           SettingsOK(settings'), frozen' \in Nat \cup {Unfrozen},
           writer' \in [Writers -> WriterState], \A w \in Writers : WriterOK(writer'[w]),
           UNCHANGED <<db, entries, reader>>
    PROVE  CacheInv'
<1>1. RowsArePublished'
  BY InvParts DEF Parts, RowsArePublished, db
<1> QED
  BY <1>1, SameDatabase, InvParts DEF Parts

-----------------------------------------------------------------------------
(* A cache insert keeps the caches in order when the inserted row is. *)
LEMMA InsertSettings ==
    ASSUME CacheInv, NEW p \in Replicas, NEW r \in Nat, r <= revision, PutSettings(p, r)
    PROVE  SettingsOK(settings')
BY InvParts DEF Parts, SettingsOK, PutSettings, CachedSettings

LEMMA InsertEntry ==
    ASSUME NEW es, EntriesOK(es), NEW p \in Replicas, NEW v \in AllViews,
           NEW r \in Nat, r <= revision, NEW d \in Nat, NEW h \in Nat,
           d >= published[r].data
    PROVE  EntriesOK(WithEntry(es, p, v, r, d, h))
BY DEF EntriesOK, WithEntry

LEMMA EvictKeeps ==
    ASSUME CacheInv, NEW p, EvictSettings(p)
    PROVE  SettingsOK(settings')
BY InvParts DEF Parts, SettingsOK, EvictSettings, CachedSettings

(* The readers.  The revision is fixed before the rows are read, so what is *)
(* loaded covers it; the rest of a read carries both along.                 *)
LEMMA ReadKeepsInv ==
    ASSUME CacheInv, NEW i \in Readers, Read(i)
    PROVE  CacheInv'
<1> DEFINE r == reader[i]
<1> USE DEF ReaderOK, ReaderState, ReaderPc, Idle
<1>1. Parts /\ ReaderOK(r) /\ SettingsOK(settings) /\ EntriesOK(entries)
  BY InvParts DEF Parts
<1>2. IdleReader \in ReaderState /\ ReaderOK(IdleReader)
  BY <1>1 DEF IdleReader, Sites, AllViews, Parts
<1>3. CASE LoadSettings(i)
  <2> DEFINE n == [r EXCEPT !.pc = "storeSettings", !.rev = revision]
  <2>1. revision \in Nat /\ r.pc = "settings"
    BY <1>1, <1>3 DEF LoadSettings, Parts
  <2>2. n \in ReaderState /\ n.pc = "storeSettings" /\ n.rev = revision /\ n.at = r.at
    BY <1>1, <2>1
  <2>3. r.at \in Replicas
    BY <1>1, <2>1
  <2>4. ReaderOK(n)
    <3> HIDE DEF n
    <3> QED
      BY <2>1, <2>2, <2>3
  <2> QED
    BY <1>1, <1>3, <2>4, ReaderStep DEF LoadSettings, caches
<1>4. CASE StoreSettings(i)
  BY <1>1, <1>4, ReaderStep, InsertSettings DEF StoreSettings
<1>5. CASE Lookup(i)
  BY <1>1, <1>2, <1>5, ReaderStep DEF Lookup, caches
<1>6. CASE LookupList(i)
  <2>1. CASE CachedEntry(r.at, "list", r.rev) = {}
    BY <1>1, <1>6, <2>1, ReaderStep DEF LookupList, caches
  <2>2. ASSUME NEW e \in CachedEntry(r.at, "list", r.rev),
               Step(i, [r EXCEPT !.pc = "store", !.data = e.data, !.past = e.data])
        PROVE  CacheInv'
    <3>1. e \in entries /\ e.rev = r.rev /\ e.data \in Nat /\ e.data >= published[r.rev].data
      BY <1>1 DEF CachedEntry, EntriesOK
    <3>2. ReaderOK([r EXCEPT !.pc = "store", !.data = e.data, !.past = e.data])
      BY <1>1, <3>1, <1>6 DEF LookupList
    <3> QED
      BY <1>1, <1>6, <2>2, <3>2, ReaderStep DEF LookupList, caches
  <2> QED
    BY <1>6, <2>1, <2>2 DEF LookupList
<1>7. CASE LoadRows(i)
  <2> DEFINE version == IF r.view = "money" THEN published[r.rev].data ELSE writes
             pc == CASE r.view = "projections" -> "history"
                     [] r.view = "view"        -> "storeList"
                     [] OTHER                  -> "store"
  <2>1. r.rev \in 0..revision /\ published[r.rev].data \in Nat
    BY <1>1 DEF Parts
  <2>2. version \in Nat /\ version >= published[r.rev].data
    BY <1>1, <2>1 DEF Parts
  <2>3. pc \in {"history", "storeList", "store"}
    OBVIOUS
  <2>4. ReaderOK([r EXCEPT !.data = version, !.past = version, !.pc = pc])
    <3> HIDE DEF version, pc
    <3> QED
      BY <1>1, <1>7, <2>2, <2>3 DEF LoadRows
  <2> QED
    BY <1>1, <1>7, <2>4, ReaderStep DEF LoadRows, caches
<1>8. CASE LoadHistory(i)
  BY <1>1, <1>8, ReaderStep DEF LoadHistory, caches, Parts
<1>9. CASE StoreList(i)
  BY <1>1, <1>9, ReaderStep, InsertEntry DEF StoreList, AllViews
<1>10. CASE Store(i)
  <2> DEFINE warmed == IF r.view = "projections"
                       THEN WithEntry(entries, r.at, "list", r.rev, r.data, r.data)
                       ELSE entries
  <2>1. /\ r.pc = "store" /\ Step(i, IdleReader)
        /\ entries' = WithEntry(warmed, r.at, r.view, r.rev, r.data, r.past)
        /\ UNCHANGED <<db, frozen, settings, writer, job, aborted>>
    BY <1>10 DEF Store, StoreUnder
  <2>2. EntriesOK(warmed)
    BY <1>1, <2>1, InsertEntry DEF AllViews
  <2>3. EntriesOK(entries')
    BY <1>1, <2>1, <2>2, InsertEntry
  <2> QED
    BY <1>1, <1>2, <2>1, <2>3, ReaderStep
<1> QED
  BY <1>3, <1>4, <1>5, <1>6, <1>7, <1>8, <1>9, <1>10 DEF Read

LEMMA StartReadKeepsInv ==
    ASSUME CacheInv, NEW i \in Readers, NEW p \in Replicas, NEW v \in Views, StartRead(i, p, v)
    PROVE  CacheInv'
<1> DEFINE begun(rev) ==
             [IdleReader EXCEPT !.pc = "lookup", !.at = p, !.view = v, !.rev = rev]
<1>1. Parts /\ SettingsOK(settings) /\ EntriesOK(entries) /\ v \in AllViews
  BY InvParts, CacheAssumption DEF Parts
<1>2. ASSUME NEW rev \in Nat, rev <= revision, Step(i, begun(rev))
      PROVE  CacheInv'
  <2>1. ReaderOK(begun(rev))
    BY <1>1, <1>2 DEF ReaderOK, ReaderState, ReaderPc, IdleReader, Idle, Sites
  <2> QED
    BY <1>1, <1>2, <2>1, ReaderStep DEF StartRead, caches
<1>3. CASE CachedSettings(p) = {}
  <2> DEFINE asking == [IdleReader EXCEPT !.pc = "settings", !.at = p, !.view = v]
  <2>1. revision \in Nat
    BY <1>1 DEF Parts
  <2>2. /\ asking \in ReaderState /\ asking.pc = "settings"
        /\ asking.rev = 0 /\ asking.at = p
    BY <1>1 DEF ReaderState, ReaderPc, IdleReader, Sites
  <2>3. ReaderOK(asking)
    <3> HIDE DEF asking
    <3> QED
      BY <2>1, <2>2 DEF ReaderOK
  <2> QED
    BY <1>1, <1>3, <2>3, ReaderStep DEF StartRead, caches
<1>4. ASSUME NEW s \in CachedSettings(p), Step(i, begun(s.rev))
      PROVE  CacheInv'
  <2>1. s.rev \in Nat /\ s.rev <= revision
    BY <1>1 DEF CachedSettings, SettingsOK
  <2> QED
    BY <1>2, <1>4, <2>1
<1> QED
  BY <1>3, <1>4 DEF StartRead

-----------------------------------------------------------------------------
(* The write handlers.  Publish is the only place where a revision is made, *)
(* and it covers every row committed so far.                                *)
LEMMA PublishAll ==
    ASSUME CacheInv, NEW data \in Nat, NEW past \in Nat, data >= writes, data = writes',
           Publish(data, past)
    PROVE  /\ revision' = revision + 1
           /\ published' \in [0..revision' -> [data : Nat, past : Nat]]
           /\ \A r \in 0..revision : published'[r] = published[r]
           /\ \A r \in 0..revision' : published'[r].data <= writes'
           /\ published'[revision'].data = writes'
<1>1. Parts
  BY InvParts
<1>2. /\ revision \in Nat /\ revision' = revision + 1
      /\ published' = [r \in 0..(revision + 1) |->
                          IF r <= revision THEN published[r]
                                           ELSE [data |-> data, past |-> past]]
  BY <1>1 DEF Publish, Parts
<1>3. \A r \in 0..revision : published'[r] = published[r]
  BY <1>2
<1>4. published'[revision + 1] = [data |-> data, past |-> past]
  BY <1>2
<1>5. \A r \in 0..revision' : r \in 0..revision \/ r = revision + 1
  BY <1>2
<1>6. \A r \in 0..revision' : /\ published'[r] \in [data : Nat, past : Nat]
                              /\ published'[r].data <= writes'
  <2>1. \A r \in 0..revision : /\ published'[r] \in [data : Nat, past : Nat]
                               /\ published'[r].data <= writes'
    BY <1>1, <1>3 DEF Parts
  <2>2. /\ published'[revision + 1] \in [data : Nat, past : Nat]
        /\ published'[revision + 1].data <= writes'
    BY <1>1, <1>4 DEF Parts
  <2> QED
    BY <1>5, <2>1, <2>2
<1>7. published' \in [0..revision' -> [data : Nat, past : Nat]]
  BY <1>2, <1>6
<1> QED
  BY <1>2, <1>3, <1>4, <1>6, <1>7

(* Rows added to the database, and a revision that publishes them, leave    *)
(* everything that is in hand or in a cache in order.                       *)
LEMMA DatabaseGrows ==
    ASSUME CacheInv, writes' \in Nat, lastPast' \in Nat, writes' >= writes,
           revision' \in Nat, revision' >= revision,
           published' \in [0..revision' -> [data : Nat, past : Nat]],
           \A r \in 0..revision : published'[r] = published[r],
           \A r \in 0..revision' : published'[r].data <= writes',
           writer' \in [Writers -> WriterState],
           \A w \in Writers : WriterOK(writer'[w]),
           JobOK(job'), aborted' \in BOOLEAN, RowsArePublished',
           UNCHANGED <<frozen, caches, reader>>
    PROVE  CacheInv'
<1>1. Parts
  BY InvParts
<1>2. SettingsOK(settings)'
  BY <1>1 DEF Parts, SettingsOK, caches
<1>3. EntriesOK(entries)'
  <2>1. \A e \in entries : /\ e.rev \in 0..revision
                           /\ e.data >= published[e.rev].data /\ e.rev <= revision'
    BY <1>1 DEF Parts, EntriesOK
  <2> QED
    BY <1>1, <2>1 DEF Parts, EntriesOK, caches
<1>4. reader' \in [Readers -> ReaderState] /\ \A i \in Readers : ReaderOK(reader[i])'
  <2>1. \A i \in Readers : reader[i].rev \in 0..revision
    BY <1>1 DEF Parts, ReaderOK, ReaderState
  <2> QED
    BY <1>1, <2>1 DEF Parts, ReaderOK
<1>5. \A w \in Writers : WriterOK(writer[w])'
  BY <1>1 DEF WriterOK, WriterState, Parts
<1>6. JobOK(job)'
  BY DEF JobOK
<1>7. frozen' \in Nat \cup {Unfrozen}
  BY <1>1 DEF Parts
<1>8. Parts'
  BY <1>2, <1>3, <1>4, <1>5, <1>6, <1>7 DEF Parts
<1> QED
  BY <1>8, InvParts, PTL

LEMMA CommitKeepsInv ==
    ASSUME CacheInv, NEW w \in Writers, NEW p \in Replicas, NEW h \in Histories,
           NEW past \in BOOLEAN, CommitWrite(w, p, h, past)
    PROVE  CacheInv'
<1> DEFINE pc == CASE h = "none"    -> "invalidate"
                   [] h = "from"    -> "settings"
                   [] h = "rebuild" -> "inputs"
           begun == [IdleWriter EXCEPT !.at = p, !.past = past, !.pc = pc]
<1>1. Parts
  BY InvParts
<1>2. writes' = writes + 1 /\ writes' \in Nat /\ lastPast' \in Nat
  BY <1>1 DEF CommitWrite, Parts
<1>3. /\ revision' = revision + 1
      /\ published' \in [0..revision' -> [data : Nat, past : Nat]]
      /\ \A r \in 0..revision : published'[r] = published[r]
      /\ \A r \in 0..revision' : published'[r].data <= writes'
      /\ published'[revision'].data = writes'
  BY <1>1, <1>2, PublishAll DEF CommitWrite, Parts
<1>4. WriterOK(begun)
  <2>1. pc \in {"invalidate", "settings", "inputs"}
    BY CacheAssumption DEF AllHistories
  <2>2. begun \in WriterState /\ begun.rev = 0 /\ begun.at = p
    <3> HIDE DEF pc
    <3> QED
      BY <2>1 DEF WriterState, WriterPc, IdleWriter, Sites
  <2>3. revision \in Nat
    BY <1>1 DEF Parts
  <2> HIDE DEF begun
  <2> QED
    BY <2>2, <2>3 DEF WriterOK
<1>5. writer' \in [Writers -> WriterState] /\ \A x \in Writers : WriterOK(writer'[x])
  BY <1>1, <1>4 DEF CommitWrite, WStep, Parts, WriterOK
<1>6. RowsArePublished'
  BY <1>2, <1>3 DEF RowsArePublished
<1>7. JobOK(job') /\ aborted' \in BOOLEAN /\ UNCHANGED <<frozen, caches, reader>>
  BY <1>1 DEF CommitWrite, Parts
<1> QED
  BY <1>1, <1>2, <1>3, <1>5, <1>6, <1>7, DatabaseGrows DEF Parts

LEMMA FinishWriteKeepsInv ==
    ASSUME CacheInv, NEW w \in Writers, FinishWrite(w)
    PROVE  CacheInv'
<1> DEFINE h == writer[w]
<1> USE DEF WriterOK, WriterState, WriterPc, Idle
<1>1. /\ WriterOK(h) /\ SettingsOK(settings) /\ EntriesOK(entries)
      /\ writer \in [Writers -> WriterState] /\ \A x \in Writers : WriterOK(writer[x])
      /\ revision \in Nat /\ writes \in Nat /\ frozen \in Nat \cup {Unfrozen}
  BY InvParts DEF Parts
<1>2. IdleWriter \in WriterState /\ WriterOK(IdleWriter)
  BY <1>1 DEF IdleWriter, Sites
<1>3. CASE WriterSettings(w)
  <2>1. CASE h.pc = "settings" /\ UNCHANGED settings
    <3> DEFINE pc == IF CachedSettings(h.at) # {} THEN "check" ELSE "loadSettings"
    <3>1. WriterOK([h EXCEPT !.pc = pc])
      BY <1>1, <2>1
    <3>2. WStep(w, [h EXCEPT !.pc = pc])
      BY <1>3, <2>1 DEF WriterSettings
    <3> QED
      BY <1>1, <1>3, <2>1, <3>1, <3>2, WriterStep DEF WriterSettings
  <2>2. CASE h.pc = "loadSettings"
    <3> DEFINE n == [h EXCEPT !.pc = "storeSettings", !.rev = revision]
    <3>1. n \in WriterState /\ n.rev = revision /\ n.at = h.at /\ h.at \in Replicas
      BY <1>1, <2>2
    <3>2. WriterOK(n)
      <4> HIDE DEF n
      <4> QED
        BY <1>1, <3>1
    <3> QED
      BY <1>1, <1>3, <2>2, <3>2, WriterStep DEF WriterSettings
  <2>3. CASE h.pc = "storeSettings"
    <3> DEFINE n == [h EXCEPT !.pc = "check", !.rev = 0]
    <3>1. n \in WriterState /\ n.rev = 0 /\ n.at = h.at /\ h.at \in Replicas
      BY <1>1, <2>3
    <3>2. WriterOK(n)
      <4> HIDE DEF n
      <4> QED
        BY <1>1, <3>1
    <3>3. SettingsOK(settings')
      BY <1>1, <1>3, <2>3, <3>1, InsertSettings DEF WriterSettings
    <3> QED
      BY <1>1, <1>3, <2>3, <3>2, <3>3, WriterStep DEF WriterSettings
  <2> QED
    BY <1>3, <2>1, <2>2, <2>3 DEF WriterSettings
<1>4. CASE CheckFrozen(w)
  <2> DEFINE pc == IF frozen # Unfrozen /\ h.past THEN "inputs" ELSE "invalidate"
  <2>1. WriterOK([h EXCEPT !.pc = pc])
    BY <1>1, <1>4 DEF CheckFrozen
  <2> QED
    BY <1>1, <1>4, <2>1, WriterStep DEF CheckFrozen, caches
<1>5. CASE SyncInputs(w)
  BY <1>1, <1>5, WriterStep DEF SyncInputs, caches
<1>6. CASE SyncDelete(w)
  BY <1>1, <1>6, WriterStep DEF SyncDelete, caches
<1>7. CASE SyncCommit(w)
  <2>1. frozen' \in Nat \cup {Unfrozen}
    BY <1>1, <1>7 DEF SyncCommit, RowAfterSync
  <2> DEFINE n == [IdleWriter EXCEPT !.pc = "invalidate", !.at = h.at]
  <2>2. WriterOK(n)
    <3>1. n \in WriterState /\ n.rev = 0 /\ n.at = h.at /\ h.at \in Replicas
      BY <1>1, <1>7 DEF SyncCommit, IdleWriter, Sites
    <3> HIDE DEF n
    <3> QED
      BY <1>1, <3>1
  <2>3. \A x \in Writers : WriterOK([writer[x] EXCEPT !.raced = TRUE])
    BY <1>1
  <2>4. writer' \in [Writers -> WriterState] /\ \A x \in Writers : WriterOK(writer'[x])
    <3>1. writer' = [x \in Writers |-> writer'[x]]
      BY <1>7 DEF SyncCommit
    <3>2. \A x \in Writers : WriterOK(writer'[x])
      BY <1>1, <1>7, <2>2, <2>3 DEF SyncCommit
    <3> QED
      BY <3>1, <3>2
  <2>5. JobOK(job')
    BY <1>7, InvParts DEF SyncCommit, Parts, JobOK, JobState
  <2>6. RowsArePublished'
    BY <1>7, InvParts DEF SyncCommit, Parts, RowsArePublished, db, JobOK, JobState
  <2> QED
    BY <1>1, <1>7, <2>1, <2>4, <2>5, <2>6, SameDatabase, InvParts DEF SyncCommit, Parts, caches
<1>8. CASE ClearHistory(w)
  BY <1>1, <1>8, WriterStep DEF ClearHistory, caches
<1>9. CASE Invalidate(w)
  BY <1>1, <1>2, <1>9, WriterStep, EvictKeeps DEF Invalidate
<1> QED
  BY <1>3, <1>4, <1>5, <1>6, <1>7, <1>8, <1>9 DEF FinishWrite

-----------------------------------------------------------------------------
(* The job.  Rows are committed one by one; the bump at the end of the step *)
(* publishes them all.                                                      *)
LEMMA JobKeepsInv ==
    ASSUME CacheInv, RunJob
    PROVE  CacheInv'
<1> USE DEF JobOK, JobState, JobPc
<1>1. /\ Parts /\ SettingsOK(settings) /\ JobOK(job)
      /\ writer \in [Writers -> WriterState] /\ \A w \in Writers : WriterOK(writer[w])
      /\ revision \in Nat /\ writes \in Nat /\ lastPast \in Nat
      /\ frozen \in Nat \cup {Unfrozen} /\ aborted \in BOOLEAN
      /\ published \in [0..revision -> [data : Nat, past : Nat]]
      /\ \A r \in 0..revision : published[r].data <= writes
  BY InvParts DEF Parts
<1>2. IdleJob \in JobState /\ JobOK(IdleJob)
  BY DEF IdleJob, Sites, Idle
<1>3. ASSUME NEW past \in BOOLEAN, JobInsert(past) PROVE CacheInv'
  <2>1. /\ writes' = writes + 1 /\ writes' \in Nat /\ lastPast' \in Nat
        /\ UNCHANGED <<revision, published, writer, aborted, frozen, caches, reader>>
    BY <1>1, <1>3 DEF JobInsert
  <2>2. JobOK(job') /\ job'.created > 0
    BY <1>1, <1>3 DEF JobInsert
  <2>3. RowsArePublished'
    BY <2>2 DEF RowsArePublished
  <2>4. \A r \in 0..revision' : published'[r].data <= writes'
    <3>1. \A r \in 0..revision : published[r].data \in Nat
      BY <1>1
    <3> QED
      BY <1>1, <2>1, <3>1
  <2> QED
    BY <1>1, <2>1, <2>2, <2>3, <2>4, DatabaseGrows
<1>4. CASE EndStep
  <2>1. NextStep \in JobState /\ NextStep.created = 0
    <3>1. job.step + 1 \in Nat /\ job.total + job.created \in Nat /\ 0 \in Nat
      BY <1>1
    <3> QED
      BY <1>1, <3>1 DEF NextStep
  <2>2. JobOK(job')
    BY <1>4, <2>1 DEF EndStep
  <2>3. CASE job.created > 0
    <3>1. /\ writes' = writes /\ lastPast' = lastPast /\ aborted' = FALSE
          /\ Publish(writes, lastPast) /\ UNCHANGED <<frozen, caches, reader, writer>>
      BY <1>4, <2>3 DEF EndStep
    <3>2. /\ revision' = revision + 1
          /\ published' \in [0..revision' -> [data : Nat, past : Nat]]
          /\ \A r \in 0..revision : published'[r] = published[r]
          /\ \A r \in 0..revision' : published'[r].data <= writes'
          /\ published'[revision'].data = writes'
      BY <1>1, <3>1, PublishAll
    <3>3. RowsArePublished'
      BY <1>1, <3>1, <3>2 DEF RowsArePublished
    <3>4. /\ writes' \in Nat /\ lastPast' \in Nat /\ writes' >= writes
          /\ revision' \in Nat /\ revision' >= revision
          /\ writer' \in [Writers -> WriterState]
          /\ \A w \in Writers : WriterOK(writer'[w])
          /\ aborted' \in BOOLEAN
      <4>1. writes' >= writes /\ revision' >= revision /\ revision' \in Nat
        BY <1>1, <3>1, <3>2
      <4>2. writer' = writer
        BY <3>1
      <4> QED
        BY <1>1, <3>1, <4>1, <4>2
    <3> QED
      BY <2>2, <3>1, <3>2, <3>3, <3>4, DatabaseGrows
  <2>4. CASE job.created = 0
    <3>1. UNCHANGED <<db, aborted, frozen, caches, reader, writer>>
      BY <1>4, <2>4 DEF EndStep, db
    <3> QED
      BY <1>1, <2>2, <2>4, <3>1, JobStep DEF caches
  <2> QED
    BY <1>1, <2>3, <2>4
<1>5. CASE FailStep
  <2> DEFINE n == [job EXCEPT !.step = @ + 1, !.created = 0]
  <2>1. n \in JobState /\ n.created = 0
    <3>1. job.step + 1 \in Nat /\ 0 \in Nat
      BY <1>1
    <3> QED
      BY <1>1, <3>1
  <2>2. JobOK(job')
    <3> HIDE DEF n
    <3>1. job' = n
      BY <1>5 DEF FailStep, n
    <3> QED
      BY <2>1, <3>1
  <2>3. /\ aborted' = (aborted \/ job.created > 0)
        /\ UNCHANGED <<db, frozen, settings, entries, reader, writer>>
    BY <1>5 DEF FailStep, caches
  <2> QED
    BY <1>1, <2>2, <2>3, JobStep
<1>6. CASE JobInvalidate
  <2>1. SettingsOK(settings')
    BY <1>1, <1>6, EvictKeeps DEF JobInvalidate
  <2>2. JobOK(job') /\ ~(job.created > 0)
    <3>1. job.created = 0 \/ job.created > 0
      BY <1>1
    <3>2. job.step \in Nat /\ ~(job.step <= ChargeSteps)
      BY <1>1, <1>6, CacheAssumption DEF JobInvalidate
    <3>3. ~(job.created > 0)
      BY <1>1, <3>2
    <3>4. job' = [job EXCEPT !.pc = "inputs"]
      BY <1>6 DEF JobInvalidate
    <3> QED
      BY <1>1, <3>3, <3>4
  <2>3. UNCHANGED <<db, frozen, entries, reader, writer, aborted>>
    BY <1>6 DEF JobInvalidate
  <2> QED
    BY <1>1, <2>1, <2>2, <2>3, JobStep
<1>7. CASE JobInputs
  BY <1>1, <1>7, JobStep DEF JobInputs, caches
<1>8. CASE JobList
  <2> DEFINE keep == frozen # Unfrozen /\ (job.total = 0 \/ ~PeriodInWindow)
  <2>1. keep \in BOOLEAN
    OBVIOUS
  <2>2. JobOK([job EXCEPT !.pc = "delete", !.keep = keep])
    <3> HIDE DEF keep
    <3> QED
      BY <1>1, <1>8, <2>1 DEF JobList
  <2> QED
    BY <1>1, <1>8, <2>2, JobStep DEF JobList, caches
<1>9. CASE JobDelete
  BY <1>1, <1>9, JobStep DEF JobDelete, caches
<1>10. CASE JobCommit
  <2>1. frozen' \in Nat \cup {Unfrozen}
    BY <1>1, <1>10 DEF JobCommit, RowAfterSync
  <2>2. \A x \in Writers : WriterOK([writer[x] EXCEPT !.raced = TRUE])
    BY <1>1 DEF WriterOK, WriterState
  <2>3. \A x \in Writers : WriterOK(writer'[x])
    BY <1>1, <1>10, <2>2 DEF JobCommit
  <2>4. writer' = [x \in Writers |-> writer'[x]]
    BY <1>10 DEF JobCommit
  <2>5. writer' \in [Writers -> WriterState]
    BY <2>3, <2>4 DEF WriterOK
  <2>6. job.created > 0 \/ aborted => aborted'
    BY <1>1, <1>10 DEF JobCommit
  <2> QED
    BY <1>1, <1>2, <1>10, <2>1, <2>3, <2>5, <2>6, JobStep DEF JobCommit, caches
<1> QED
  BY <1>3, <1>4, <1>5, <1>6, <1>7, <1>8, <1>9, <1>10 DEF RunJob

LEMMA StartJobKeepsInv ==
    ASSUME CacheInv, NEW p \in Replicas, StartJob(p)
    PROVE  CacheInv'
<1>1. Parts
  BY InvParts
<1>2. JobOK(job')
  <2> DEFINE n == [IdleJob EXCEPT !.pc = "charge", !.at = p, !.step = 1]
  <2>1. n \in JobState /\ n.created = 0
    BY DEF JobState, JobPc, IdleJob, Sites
  <2>2. job' = n
    BY DEF StartJob
  <2> HIDE DEF n
  <2> QED
    BY <2>1, <2>2 DEF JobOK
<1>3. job.created > 0 => job.pc = "charge"
  BY <1>1 DEF Parts, JobOK
<1> QED
  BY <1>1, <1>2, <1>3, JobStep DEF StartJob, Parts, caches, Idle

-----------------------------------------------------------------------------
(* The environment only forgets: rows, requests, a pass of the job. *)
LEMMA ExpiryKeepsInv ==
    ASSUME CacheInv,
           \/ \E p \in Replicas : ExpireSettings(p)
           \/ \E e \in entries : ExpireEntry(e.at, e.view, e.rev)
    PROVE  CacheInv'
<1>1. Parts
  BY InvParts
<1>2. SettingsOK(settings') /\ EntriesOK(entries')
  BY <1>1 DEF Parts, SettingsOK, EntriesOK, ExpireSettings, EvictSettings, ExpireEntry
<1>3. UNCHANGED <<db, frozen, procs, aborted>>
  BY DEF ExpireSettings, ExpireEntry
<1>4. RowsArePublished'
  BY <1>1, <1>3 DEF Parts, RowsArePublished, db, procs
<1> QED
  BY <1>1, <1>2, <1>3, <1>4, SameDatabase DEF Parts, procs

LEMMA TimeoutWriteKeepsInv ==
    ASSUME CacheInv, NEW w \in Writers, TimeoutWrite(w)
    PROVE  CacheInv'
<1>1. Parts
  BY InvParts
<1>2. WriterOK(IdleWriter)
  BY <1>1 DEF Parts, WriterOK, WriterState, WriterPc, IdleWriter, Sites, Idle
<1> QED
  BY <1>1, <1>2, WriterStep DEF TimeoutWrite, Parts, caches

LEMMA TimeoutReadKeepsInv ==
    ASSUME CacheInv, NEW i \in Readers, TimeoutRead(i)
    PROVE  CacheInv'
<1>1. Parts
  BY InvParts
<1>2. ReaderOK(IdleReader)
  BY <1>1 DEF Parts, ReaderOK, ReaderState, ReaderPc, IdleReader, Sites, AllViews, Idle
<1> QED
  BY <1>1, <1>2, ReaderStep DEF TimeoutRead, Parts, caches

LEMMA SyncFailsKeepsInv ==
    ASSUME CacheInv, SyncFails
    PROVE  CacheInv'
<1>1. Parts
  BY InvParts
<1>2. CASE job.pc \in {"inputs", "list", "delete", "commit"} /\ job' = IdleJob /\ UNCHANGED writer
  <2>1. JobOK(job')
    BY <1>2 DEF JobOK, JobState, JobPc, IdleJob, Sites, Idle
  <2>2. ~(job.created > 0)
    BY <1>1, <1>2 DEF Parts, JobOK
  <2>3. UNCHANGED <<db, frozen, caches, reader, aborted>>
    BY DEF SyncFails
  <2> QED
    BY <1>1, <1>2, <2>1, <2>2, <2>3, JobStep DEF Parts, caches
<1>3. ASSUME NEW w \in Writers, UNCHANGED job,
             writer[w].pc \in {"settings", "check", "inputs", "delete", "commit"},
             WStep(w, [writer[w] EXCEPT !.pc = "clear"])
      PROVE  CacheInv'
  <2>1. WriterOK([writer[w] EXCEPT !.pc = "clear"])
    BY <1>1, <1>3 DEF Parts, WriterOK, WriterState, WriterPc, Idle
  <2> QED
    BY <1>1, <1>3, <2>1, WriterStep DEF SyncFails, Parts, caches
<1> QED
  BY <1>2, <1>3 DEF SyncFails

LEMMA CrashKeepsInv ==
    ASSUME CacheInv, NEW p \in Replicas, CrashReplica(p)
    PROVE  CacheInv'
<1>1. Parts
  BY InvParts
<1>2. SettingsOK(settings') /\ EntriesOK(entries')
  BY <1>1 DEF Parts, SettingsOK, EntriesOK, CrashReplica
<1>3. reader' \in [Readers -> ReaderState] /\ \A i \in Readers : ReaderOK(reader'[i])
  <2>1. ReaderOK(IdleReader)
    BY <1>1 DEF Parts, ReaderOK, ReaderState, ReaderPc, IdleReader, Sites, AllViews, Idle
  <2>2. \A i \in Readers : ReaderOK(reader'[i])
    BY <1>1, <2>1 DEF Parts, CrashReplica
  <2> QED
    BY <2>2 DEF CrashReplica, ReaderOK
<1>4. writer' \in [Writers -> WriterState] /\ \A w \in Writers : WriterOK(writer'[w])
  <2>1. WriterOK(IdleWriter)
    BY <1>1 DEF Parts, WriterOK, WriterState, WriterPc, IdleWriter, Sites, Idle
  <2>2. \A w \in Writers : WriterOK(writer'[w])
    BY <1>1, <2>1 DEF Parts, CrashReplica
  <2> QED
    BY <2>2 DEF CrashReplica, WriterOK
<1>5. JobOK(job')
  <2>1. JobOK(IdleJob)
    BY DEF JobOK, JobState, JobPc, IdleJob, Sites, Idle
  <2> QED
    BY <1>1, <2>1 DEF Parts, CrashReplica
<1>6. UNCHANGED <<db, frozen>> /\ aborted' \in BOOLEAN
  BY <1>1 DEF CrashReplica, Parts
<1>7. job.created > 0 \/ aborted => job'.created > 0 \/ aborted'
  BY DEF CrashReplica
<1>8. RowsArePublished'
  BY <1>1, <1>6, <1>7 DEF Parts, RowsArePublished, db
<1> QED
  BY <1>1, <1>2, <1>3, <1>4, <1>5, <1>6, <1>8, SameDatabase DEF Parts

-----------------------------------------------------------------------------
LEMMA NextKeepsInv ==
    ASSUME CacheInv, [Next]_vars
    PROVE  CacheInv'
<1>1. CASE \E i \in Readers : Read(i) \/ \E p \in ReadReplicas, v \in Views : StartRead(i, p, v)
  BY <1>1, ReadKeepsInv, StartReadKeepsInv, CacheAssumption
<1>2. CASE \E w \in Writers :
              \/ FinishWrite(w)
              \/ \E p \in Replicas, h \in Histories, past \in BOOLEAN : CommitWrite(w, p, h, past)
  BY <1>2, FinishWriteKeepsInv, CommitKeepsInv
<1>3. CASE RunJob \/ \E p \in JobReplicas : StartJob(p)
  BY <1>3, JobKeepsInv, StartJobKeepsInv, CacheAssumption
<1>4. CASE Environment
  BY <1>4, ExpiryKeepsInv, TimeoutWriteKeepsInv, TimeoutReadKeepsInv, SyncFailsKeepsInv,
     CrashKeepsInv DEF Environment
<1>5. CASE UNCHANGED vars
  BY <1>5, InvParts, SameDatabase
     DEF vars, Parts, db, RowsArePublished
<1> QED
  BY <1>1, <1>2, <1>3, <1>4, <1>5 DEF Next

(* The inductive invariant holds in every behaviour, whatever interleaving, *)
(* expiry, timeout, failure or crash it contains.                           *)
THEOREM CacheInvariant == Spec => []CacheInv
<1>1. CacheInv /\ [Next]_vars => CacheInv'
  BY NextKeepsInv
<1> QED
  BY <1>1, InitCacheInv, PTL DEF Spec

(* Every variable keeps its type: the bookkeeping of readers, writers, job   *)
(* and caches never leaves its domain (UserDataCache.tla's state).           *)
THEOREM TypeCorrect == Spec => []TypeOK
<1>1. CacheInv => TypeOK
  BY DEF CacheInv
<1> QED
  BY <1>1, CacheInvariant, PTL

(* No cached value is older than the revision in its key: loader.rs reads    *)
(* the revision before the rows, and finish_write never has to find and      *)
(* evict the entries of a revision it has superseded.                        *)
THEOREM EntriesCover == Spec => []EntriesCoverTheirRevision
<1>1. CacheInv => EntriesCoverTheirRevision
  BY DEF CacheInv
<1> QED
  BY <1>1, CacheInvariant, PTL

(* Rows the daily job commits without a revision are published by the end of *)
(* their charge step, unless the step was cut short by an error or a crash.  *)
THEOREM RowsPublished == Spec => []RowsArePublished
<1>1. CacheInv => RowsArePublished
  BY DEF CacheInv
<1> QED
  BY <1>1, CacheInvariant, PTL
=============================================================================
