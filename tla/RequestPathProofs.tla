-------------------------- MODULE RequestPathProofs --------------------------
(***************************************************************************)
(* RequestPath composes SigningKeys and ConnectionContext: it implements     *)
(* both, so that what is proved of them holds of it, and on that rests what  *)
(* a request is let through for.  First what holds of SigningKeys for any    *)
(* requests, keys, order of publication, refresh interval and faults; then   *)
(* what holds of ConnectionContext for any pool, clients, users and          *)
(* statements on their way; then the composition.  Last what holds of the    *)
(* exchange rates that requests share, for any callers, pool and time to live. *)
(***************************************************************************)
EXTENDS RequestPath, ExchangeRates, TLAPS

-----------------------------------------------------------------------------
CheckState ==
    [pc : {"none"} \cup Checking \cup Verdicts, kid : Kids \cup {CHOOSE k \in Kids : TRUE},
     sound : BOOLEAN, got : Int, since : Int]

KeysTyped ==
    /\ upstream \in Versions
    /\ keys \in Int /\ 0 <= keys /\ keys <= upstream
    /\ fetching \in Requests \cup {NobodyFetches, Startup}
    /\ check \in [Requests -> CheckState]

(* One request refreshes at a time, and it is the one that holds the lock;   *)
(* a process that starts has no keys and no requests.                       *)
OneRefresher == \A r \in Requests : check[r].pc \in Refreshing <=> fetching = r
StartsEmpty == fetching = Startup => keys = NoKeys

(* The keys in memory never go back behind those a request has found.       *)
KeysSinceArrival ==
    \A r \in Requests : check[r].pc # "none" => 1 <= check[r].since /\ check[r].since <= keys
FetchedIsNewer ==
    \A r \in Requests : check[r].pc = "store" => keys <= check[r].got /\ check[r].got <= upstream

(* A token in order is looked up again only when a set published since it    *)
(* arrived lacks its key.                                                   *)
Lacked(c, until) == \E v \in c.since..until : ~Has(v, c.kid)
AgainOnlyIfLacked ==
    \A r \in Requests :
        check[r].pc \in {"second", "lock", "last", "fetch", "store", "refused"} /\ check[r].sound
            => Lacked(check[r], upstream)

KeysInv ==
    /\ KeysTyped /\ OneRefresher /\ StartsEmpty /\ KeysSinceArrival /\ FetchedIsNewer
    /\ AgainOnlyIfLacked

-----------------------------------------------------------------------------
LEMMA NoCheckTyped == NoCheck \in CheckState /\ NoCheck.pc = "none"
BY DEF NoCheck, CheckState

LEMMA TurnFields ==
    ASSUME NEW c \in CheckState, NEW pc \in {"none"} \cup Checking \cup Verdicts
    PROVE  /\ [c EXCEPT !.pc = pc] \in CheckState
           /\ [c EXCEPT !.pc = pc].pc = pc
           /\ [c EXCEPT !.pc = pc].kid = c.kid /\ [c EXCEPT !.pc = pc].sound = c.sound
           /\ [c EXCEPT !.pc = pc].since = c.since /\ [c EXCEPT !.pc = pc].got = c.got
BY DEF CheckState, Checking, Verdicts, Refreshing

LEMMA FetchedFields ==
    ASSUME NEW c \in CheckState, NEW g \in Int
    PROVE  /\ [c EXCEPT !.pc = "store", !.got = g] \in CheckState
           /\ [c EXCEPT !.pc = "store", !.got = g].pc = "store"
           /\ [c EXCEPT !.pc = "store", !.got = g].kid = c.kid
           /\ [c EXCEPT !.pc = "store", !.got = g].sound = c.sound
           /\ [c EXCEPT !.pc = "store", !.got = g].since = c.since
           /\ [c EXCEPT !.pc = "store", !.got = g].got = g
BY DEF CheckState, Checking, Verdicts, Refreshing

LEMMA KeysInitially == KeysInit => KeysInv
<1> SUFFICES ASSUME KeysInit PROVE KeysInv
  OBVIOUS
<1>1. \A r \in Requests : check[r] = NoCheck
  BY DEF KeysInit
<1>2. KeysTyped
  BY NoCheckTyped DEF KeysInit, KeysTyped, Versions
<1>3. fetching = NobodyFetches /\ NobodyFetches # Startup /\ NobodyFetches \notin Requests
  BY KeysAssumption DEF KeysInit, NobodyFetches, Startup
<1>4. OneRefresher /\ StartsEmpty
  BY <1>1, <1>3, NoCheckTyped DEF OneRefresher, StartsEmpty, Refreshing
<1>5. KeysSinceArrival /\ FetchedIsNewer /\ AgainOnlyIfLacked
  BY <1>1, NoCheckTyped DEF KeysSinceArrival, FetchedIsNewer, AgainOnlyIfLacked
<1> QED
  BY <1>2, <1>4, <1>5 DEF KeysInv

(* A step of one request that takes it to the stage pc and leaves the keys    *)
(* as they are.                                                             *)
LEMMA TurnKeepsInv ==
    ASSUME KeysInv, NEW r \in Requests, NEW c \in CheckState,
           check' = [check EXCEPT ![r] = c],
           UNCHANGED <<upstream, keys>>,
           c.pc \in Refreshing <=> fetching' = r,
           \A q \in Requests \ {r} : fetching' = q <=> fetching = q,
           fetching' \in Requests \cup {NobodyFetches, Startup},
           fetching' = Startup => fetching = Startup,
           c.pc # "none" => 1 <= c.since /\ c.since <= keys,
           c.pc = "store" => keys <= c.got /\ c.got <= upstream,
           c.pc \in {"second", "lock", "last", "fetch", "store", "refused"} /\ c.sound
               => Lacked(c, upstream)
    PROVE  KeysInv'
<1>0. check \in [Requests -> CheckState]
  BY DEF KeysInv, KeysTyped
<1>1. /\ check' \in [Requests -> CheckState] /\ check'[r] = c
      /\ \A q \in Requests \ {r} : check'[q] = check[q]
  BY <1>0
<1>2. KeysTyped'
  BY <1>1 DEF KeysInv, KeysTyped
<1>3. OneRefresher'
  BY <1>1 DEF KeysInv, OneRefresher
<1>4. StartsEmpty'
  BY DEF KeysInv, StartsEmpty
<1>5. KeysSinceArrival' /\ FetchedIsNewer'
  BY <1>1 DEF KeysInv, KeysSinceArrival, FetchedIsNewer
<1>6. AgainOnlyIfLacked'
  BY <1>1 DEF KeysInv, AgainOnlyIfLacked
<1> QED
  BY <1>2, <1>3, <1>4, <1>5, <1>6 DEF KeysInv

LEMMA LookKeepsInv == ASSUME KeysInv, NEW r \in Requests, Look(r) PROVE KeysInv'
<1> DEFINE c == check[r]
<1>0. c \in CheckState /\ check \in [Requests -> CheckState]
  BY DEF KeysInv, KeysTyped
<1>1. PICK pc \in {"accepted", "refused", "second", "lock"} :
         /\ check' = [check EXCEPT ![r] = [c EXCEPT !.pc = pc]]
         /\ UNCHANGED <<upstream, keys, fetching>>
         /\ c.pc \notin Refreshing /\ c.pc # "none"
         /\ pc \in {"refused", "second", "lock"} /\ c.sound => Lacked(c, upstream)
  <2>1. ASSUME c.pc = "first", ~Has(keys, c.kid) PROVE Lacked(c, upstream)
    <3>1. c.since <= keys /\ keys <= upstream /\ keys \in Int
      BY <2>1 DEF KeysInv, KeysTyped, KeysSinceArrival
    <3>2. c.since \in Int /\ upstream \in Int
      BY <1>0 DEF CheckState, KeysInv, KeysTyped, Versions
    <3>3. keys \in c.since..upstream
      BY <3>1, <3>2
    <3> QED
      BY <2>1, <3>3 DEF Lacked
  <2>2. c.pc \in {"second", "last"} /\ c.sound => Lacked(c, upstream)
    BY DEF KeysInv, AgainOnlyIfLacked
  <2>3. CASE FirstLook(r)
    <3>1. CASE Has(keys, c.kid) /\ c.sound
      BY <2>3, <3>1 DEF FirstLook, Turn, Refreshing
    <3>2. CASE ~(Has(keys, c.kid) /\ c.sound)
      BY <2>1, <2>3, <3>2 DEF FirstLook, Turn, Refreshing
    <3> QED
      BY <3>1, <3>2
  <2>4. CASE SecondLook(r)
    BY <2>2, <2>4 DEF SecondLook, Turn, Refreshing
  <2>5. CASE LastLook(r)
    <3>1. CASE Has(keys, c.kid) /\ c.sound
      BY <2>5, <3>1 DEF LastLook, Turn, Refreshing
    <3>2. CASE ~(Has(keys, c.kid) /\ c.sound)
      BY <2>2, <2>5, <3>2 DEF LastLook, Turn, Refreshing
    <3> QED
      BY <3>1, <3>2
  <2> QED
    BY <2>3, <2>4, <2>5 DEF Look
<1> DEFINE d == [c EXCEPT !.pc = pc]
<1>2. /\ d \in CheckState /\ d.pc = pc /\ d.kid = c.kid /\ d.sound = c.sound
      /\ d.since = c.since
  <2>1. pc \in {"none"} \cup Checking \cup Verdicts
    BY DEF Checking, Verdicts
  <2> HIDE DEF c
  <2> QED
    BY <1>0, <2>1, TurnFields
<1>3. check' = [check EXCEPT ![r] = d]
  BY <1>1
<1>4. 1 <= c.since /\ c.since <= keys
  BY <1>1 DEF KeysInv, KeysSinceArrival
<1>5. fetching # r /\ fetching \in Requests \cup {NobodyFetches, Startup}
  BY <1>1 DEF KeysInv, OneRefresher, KeysTyped
<1> HIDE DEF d, c
<1>6. pc \in {"second", "refused", "lock"} /\ d.sound => Lacked(d, upstream)
  BY <1>1, <1>2 DEF Lacked
<1>7. d.pc \notin Refreshing /\ d.pc # "store" /\ 1 <= d.since /\ d.since <= keys
  BY <1>1, <1>2, <1>4 DEF Refreshing
<1>8. d.pc \in {"second", "lock", "last", "fetch", "store", "refused"} /\ d.sound
        => Lacked(d, upstream)
  BY <1>2, <1>6
<1>9. fetching' = fetching /\ UNCHANGED <<upstream, keys>>
  BY <1>1
<1> QED
  BY <1>2, <1>3, <1>5, <1>7, <1>8, <1>9, TurnKeepsInv

LEMMA LockKeepsInv == ASSUME KeysInv, NEW r \in Requests, Lock(r) PROVE KeysInv'
<1> DEFINE c == check[r]
           at(pc) == [c EXCEPT !.pc = pc]
<1>0. c \in CheckState /\ c.pc = "lock" /\ fetching = NobodyFetches /\ UNCHANGED <<upstream, keys>>
  BY DEF KeysInv, KeysTyped, Lock
<1>1. 1 <= c.since /\ c.since <= keys /\ (c.sound => Lacked(c, upstream))
  BY <1>0 DEF KeysInv, KeysSinceArrival, AgainOnlyIfLacked
<1>2. \A q \in Requests : q # NobodyFetches /\ q # Startup
  BY KeysAssumption
<1>3. ASSUME NEW pc \in {"last", "fetch"}
      PROVE  /\ at(pc) \in CheckState /\ at(pc).pc = pc /\ at(pc).kid = c.kid
             /\ at(pc).sound = c.sound /\ at(pc).since = c.since
  <2>1. pc \in {"none"} \cup Checking \cup Verdicts
    BY DEF Checking, Refreshing
  <2> HIDE DEF c
  <2> QED
    BY <1>0, <2>1, TurnFields
<1>4. CASE age < Interval
  <2> DEFINE d == at("last")
  <2>1. check' = [check EXCEPT ![r] = d] /\ fetching' = fetching
    BY <1>4 DEF Lock, Turn
  <2>2. d \in CheckState /\ d.pc = "last" /\ d.kid = c.kid /\ d.sound = c.sound /\ d.since = c.since
    BY <1>3
  <2> HIDE DEF c, d
  <2>3. d.sound => Lacked(d, upstream)
    BY <1>1, <2>2 DEF Lacked
  <2>4. d.pc \notin Refreshing
    BY <2>2 DEF Refreshing
  <2> QED
    BY <1>0, <1>1, <1>2, <2>1, <2>2, <2>3, <2>4, TurnKeepsInv
<1>5. CASE ~(age < Interval)
  <2> DEFINE d == at("fetch")
  <2>1. check' = [check EXCEPT ![r] = d] /\ fetching' = r
    BY <1>5 DEF Lock, Turn
  <2>2. d \in CheckState /\ d.pc = "fetch" /\ d.kid = c.kid /\ d.sound = c.sound /\ d.since = c.since
    BY <1>3
  <2> HIDE DEF c, d
  <2>3. d.sound => Lacked(d, upstream)
    BY <1>1, <2>2 DEF Lacked
  <2>4. d.pc \in Refreshing
    BY <2>2 DEF Refreshing
  <2> QED
    BY <1>0, <1>1, <1>2, <2>1, <2>2, <2>3, <2>4, TurnKeepsInv
<1> QED
  BY <1>4, <1>5

LEMMA FetchKeepsInv == ASSUME KeysInv, NEW r \in Requests, FetchKeys(r) PROVE KeysInv'
<1> DEFINE c == check[r]
           d == [c EXCEPT !.pc = "store", !.got = upstream]
<1>0. /\ c \in CheckState /\ c.pc = "fetch" /\ UNCHANGED <<upstream, keys, fetching>>
      /\ upstream \in Int /\ keys <= upstream
  <2>1. c \in CheckState /\ upstream \in Int /\ keys <= upstream
    BY DEF KeysInv, KeysTyped, Versions
  <2>2. c.pc = "fetch" /\ UNCHANGED <<upstream, keys, fetching>>
    BY DEF FetchKeys
  <2> QED
    BY <2>1, <2>2
<1>d. check' = [check EXCEPT ![r] = d]
  BY DEF FetchKeys
<1>1. /\ 1 <= c.since /\ c.since <= keys /\ (c.sound => Lacked(c, upstream))
      /\ fetching = r
  BY <1>0 DEF KeysInv, KeysSinceArrival, AgainOnlyIfLacked, OneRefresher, Refreshing
<1>2. /\ d \in CheckState /\ d.pc = "store" /\ d.kid = c.kid /\ d.sound = c.sound
      /\ d.since = c.since /\ d.got = upstream
  <2> HIDE DEF c
  <2> QED
    BY <1>0, FetchedFields
<1> HIDE DEF c, d
<1>3. d.sound => Lacked(d, upstream)
  BY <1>1, <1>2 DEF Lacked
<1>4. d.pc \in Refreshing /\ fetching' = r /\ r \notin {NobodyFetches, Startup}
  BY <1>0, <1>1, <1>2, KeysAssumption DEF Refreshing
<1>5. 1 <= d.since /\ d.since <= keys /\ keys <= d.got /\ d.got <= upstream
  BY <1>0, <1>1, <1>2
<1>6. \A q \in Requests \ {r} : fetching' = q <=> fetching = q
  BY <1>0
<1> QED
  BY <1>0, <1>d, <1>2, <1>3, <1>4, <1>5, <1>6, TurnKeepsInv

(* A request that ends without keys gives the lock back.                    *)
LEMMA EndKeepsInv ==
    ASSUME KeysInv, NEW r \in Requests,
           FetchKeysFails(r) \/ LeaveCheck(r) \/ AbandonCheck(r)
    PROVE  KeysInv'
<1> DEFINE c == check[r]
<1>0. c \in CheckState /\ UNCHANGED <<upstream, keys>> /\ fetching \in Requests \cup {NobodyFetches, Startup}
  BY DEF KeysInv, KeysTyped, FetchKeysFails, LeaveCheck, AbandonCheck
<1>1. \A q \in Requests : q # NobodyFetches /\ q # Startup
  BY KeysAssumption
<1>2. NobodyFetches # Startup
  BY DEF NobodyFetches, Startup
<1>3. fetching' = IF fetching = r THEN NobodyFetches ELSE fetching
  <2>1. CASE LeaveCheck(r)
    <3>1. fetching # r
      BY <2>1 DEF LeaveCheck, KeysInv, OneRefresher, Verdicts, Refreshing
    <3> QED
      BY <2>1, <3>1 DEF LeaveCheck
  <2> QED
    BY <2>1 DEF FetchKeysFails, AbandonCheck, GiveLock
<1>4. /\ fetching' # r /\ (fetching' = Startup => fetching = Startup)
      /\ \A q \in Requests \ {r} : fetching' = q <=> fetching = q
      /\ fetching' \in Requests \cup {NobodyFetches, Startup}
  <2>1. CASE fetching = r
    BY <1>1, <1>2, <1>3, <2>1
  <2>2. CASE fetching # r
    BY <1>0, <1>3, <2>2
  <2> QED
    BY <2>1, <2>2
<1>5. CASE FetchKeysFails(r)
  <2> DEFINE d == [c EXCEPT !.pc = "refused"]
  <2>1. check' = [check EXCEPT ![r] = d] /\ c.pc = "fetch"
    BY <1>5 DEF FetchKeysFails, Turn
  <2>2. 1 <= c.since /\ c.since <= keys /\ (c.sound => Lacked(c, upstream))
    BY <2>1 DEF KeysInv, KeysSinceArrival, AgainOnlyIfLacked
  <2>3. /\ d \in CheckState /\ d.pc = "refused" /\ d.kid = c.kid /\ d.sound = c.sound
        /\ d.since = c.since
    <3>1. "refused" \in {"none"} \cup Checking \cup Verdicts
      BY DEF Verdicts
    <3> HIDE DEF c
    <3> QED
      BY <1>0, <3>1, TurnFields
  <2> HIDE DEF c, d
  <2>4. d.sound => Lacked(d, upstream)
    BY <2>2, <2>3 DEF Lacked
  <2>5. d.pc \notin Refreshing
    BY <2>3 DEF Refreshing
  <2> QED
    BY <1>0, <1>4, <2>1, <2>2, <2>3, <2>4, <2>5, TurnKeepsInv
<1>6. CASE LeaveCheck(r) \/ AbandonCheck(r)
  <2> DEFINE d == NoCheck
  <2>1. check' = [check EXCEPT ![r] = d]
    BY <1>6 DEF LeaveCheck, AbandonCheck
  <2>2. d \in CheckState /\ d.pc = "none"
    BY NoCheckTyped
  <2> HIDE DEF d
  <2>3. d.pc \notin Refreshing
    BY <2>2 DEF Refreshing
  <2> QED
    BY <1>0, <1>4, <2>1, <2>2, <2>3, TurnKeepsInv
<1> QED
  BY <1>5, <1>6

LEMMA StoreKeepsInv == ASSUME KeysInv, NEW r \in Requests, StoreKeys(r) PROVE KeysInv'
<1> DEFINE c == check[r]
           d == [c EXCEPT !.pc = "last"]
<1>0. c \in CheckState /\ check \in [Requests -> CheckState] /\ upstream \in Versions
  BY DEF KeysInv, KeysTyped
<1>1. c.pc = "store" /\ keys' = c.got /\ upstream' = upstream /\ fetching = r
  BY DEF StoreKeys, KeysInv, OneRefresher, Refreshing
<1>2. fetching' = NobodyFetches
  BY <1>1 DEF StoreKeys, GiveLock
<1>3. NobodyFetches \notin Requests /\ NobodyFetches # Startup
  BY KeysAssumption DEF NobodyFetches, Startup
<1>4. /\ check' \in [Requests -> CheckState]
      /\ \A q \in Requests : q # r => check'[q] = check[q]
      /\ check'[r].pc = "last" /\ check'[r].kid = c.kid /\ check'[r].sound = c.sound
      /\ check'[r].since = c.since
  <2>1. /\ d \in CheckState /\ d.pc = "last" /\ d.kid = c.kid /\ d.sound = c.sound
        /\ d.since = c.since
    <3>1. "last" \in {"none"} \cup Checking \cup Verdicts
      BY DEF Checking
    <3> HIDE DEF c
    <3> QED
      BY <1>0, <3>1, TurnFields
  <2>2. check' = [check EXCEPT ![r] = d]
    BY DEF StoreKeys, Turn
  <2> HIDE DEF c, d
  <2> QED
    BY <1>0, <2>1, <2>2
<1>5. keys \in Int /\ 0 <= keys /\ c.got \in Int /\ keys <= c.got /\ c.got <= upstream
  BY <1>0, <1>1 DEF KeysInv, KeysTyped, FetchedIsNewer, CheckState
<1>6. \A q \in Requests : q # r => check[q].pc \notin Refreshing
  BY <1>1 DEF KeysInv, OneRefresher
<1>7. KeysTyped'
  BY <1>0, <1>1, <1>2, <1>4, <1>5 DEF KeysTyped
<1>8. OneRefresher' /\ StartsEmpty'
  BY <1>2, <1>3, <1>4, <1>6 DEF OneRefresher, StartsEmpty, Refreshing
<1>9. KeysSinceArrival'
  <2> SUFFICES ASSUME NEW q \in Requests, check'[q].pc # "none"
               PROVE  1 <= check'[q].since /\ check'[q].since <= keys'
    BY DEF KeysSinceArrival
  <2>1. check[q].pc # "none" /\ check'[q].since = check[q].since
    BY <1>1, <1>4
  <2>2. check[q].since \in Int /\ 1 <= check[q].since /\ check[q].since <= keys
    BY <1>0, <2>1 DEF CheckState, KeysInv, KeysSinceArrival
  <2> QED
    BY <1>1, <1>5, <2>1, <2>2
<1>10. FetchedIsNewer'
  BY <1>4, <1>6 DEF FetchedIsNewer, Refreshing
<1>11. AgainOnlyIfLacked'
  <2> SUFFICES ASSUME NEW q \in Requests, check'[q].sound,
                      check'[q].pc \in {"second", "lock", "last", "fetch", "store", "refused"}
               PROVE  \E v \in check'[q].since..upstream : ~Has(v, check'[q].kid)
    BY <1>1 DEF AgainOnlyIfLacked, Lacked, Has
  <2>1. /\ check[q].pc \in {"second", "lock", "last", "fetch", "store", "refused"}
        /\ check[q].sound /\ check'[q].since = check[q].since /\ check'[q].kid = check[q].kid
    BY <1>1, <1>4
  <2> QED
    BY <2>1 DEF KeysInv, AgainOnlyIfLacked, Lacked
<1> QED
  BY <1>7, <1>8, <1>9, <1>10, <1>11 DEF KeysInv

LEMMA PresentKeepsInv ==
    ASSUME KeysInv, NEW r \in Requests, NEW kid \in Kids, NEW sound \in BOOLEAN,
           Present(r, kid, sound)
    PROVE  KeysInv'
<1> DEFINE d == [pc |-> "first", kid |-> kid, sound |-> sound, got |-> keys, since |-> keys]
<1>0. /\ keys \in Int /\ 1 <= keys
      /\ check' = [check EXCEPT ![r] = d] /\ UNCHANGED <<upstream, keys, fetching>>
  BY DEF Present, KeysInv, KeysTyped, NoKeys
<1>1. fetching # r /\ fetching \in Requests \cup {NobodyFetches, Startup}
  BY DEF Present, KeysInv, KeysTyped, OneRefresher, Refreshing
<1>2. d \in CheckState /\ d.pc = "first" /\ d.since = keys
  BY <1>0 DEF CheckState, Checking
<1> HIDE DEF d
<1>3. d.pc \notin Refreshing
  BY <1>2 DEF Refreshing
<1>4. d.pc # "none" => 1 <= d.since /\ d.since <= keys
  BY <1>0, <1>2
<1> QED
  BY <1>0, <1>1, <1>2, <1>3, <1>4, TurnKeepsInv

(* The steps of the process and of the upstream.                            *)
LEMMA WorldKeepsInv ==
    ASSUME KeysInv, RestartKeys \/ InitLock \/ InitStore \/ TickKeys \/ Rotate PROVE KeysInv'
<1>0. check \in [Requests -> CheckState] /\ upstream \in Versions /\ keys \in Int /\ keys <= upstream
  BY DEF KeysInv, KeysTyped
<1>n. Versions \subseteq Nat \ {0} /\ upstream \in Int /\ 1 <= upstream
  BY <1>0, KeysAssumption DEF Versions
<1>f. /\ NobodyFetches \notin Requests /\ Startup \notin Requests
      /\ NobodyFetches # Startup
  BY KeysAssumption DEF NobodyFetches, Startup
<1>1. CASE RestartKeys
  <2>1. /\ \A r \in Requests : check'[r] = NoCheck /\ check'[r].pc = "none"
        /\ check' \in [Requests -> CheckState]
    BY <1>1, NoCheckTyped DEF RestartKeys
  <2>2. KeysTyped'
    BY <1>0, <1>n, <1>1, <2>1 DEF RestartKeys, KeysTyped, NoKeys
  <2>3. OneRefresher' /\ StartsEmpty'
    BY <1>1, <1>f, <2>1 DEF RestartKeys, OneRefresher, StartsEmpty, Refreshing
  <2>4. KeysSinceArrival' /\ FetchedIsNewer' /\ AgainOnlyIfLacked'
    BY <2>1 DEF KeysSinceArrival, FetchedIsNewer, AgainOnlyIfLacked
  <2> QED
    BY <2>2, <2>3, <2>4 DEF KeysInv
<1>2. CASE InitLock
  <2>1. KeysTyped' /\ KeysSinceArrival' /\ FetchedIsNewer' /\ AgainOnlyIfLacked'
    BY <1>2 DEF InitLock, KeysInv, KeysTyped, KeysSinceArrival, FetchedIsNewer, AgainOnlyIfLacked,
                Lacked, Has
  <2>2. OneRefresher' /\ StartsEmpty'
    BY <1>2, <1>f DEF InitLock, KeysInv, OneRefresher, StartsEmpty
  <2> QED
    BY <2>1, <2>2 DEF KeysInv
<1>3. CASE InitStore
  <2>0. keys = NoKeys /\ keys' = upstream /\ UNCHANGED <<upstream, check>>
        /\ fetching' = NobodyFetches /\ fetching = Startup
    BY <1>3 DEF InitStore, KeysInv, StartsEmpty
  <2>1. \A r \in Requests : check[r].pc = "none"
    BY <1>0, <2>0 DEF KeysInv, KeysSinceArrival, CheckState, NoKeys
  <2>2. KeysTyped'
    BY <1>0, <1>n, <2>0 DEF KeysTyped
  <2>3. OneRefresher' /\ StartsEmpty'
    BY <1>f, <2>0, <2>1 DEF OneRefresher, StartsEmpty, Refreshing
  <2>4. KeysSinceArrival' /\ FetchedIsNewer' /\ AgainOnlyIfLacked'
    BY <2>0, <2>1 DEF KeysSinceArrival, FetchedIsNewer, AgainOnlyIfLacked
  <2> QED
    BY <2>2, <2>3, <2>4 DEF KeysInv
<1>4. CASE TickKeys
  BY <1>4 DEF TickKeys, KeysInv, KeysTyped, OneRefresher, StartsEmpty, KeysSinceArrival,
              FetchedIsNewer, AgainOnlyIfLacked, Lacked, Has
<1>5. CASE Rotate
  <2>0. upstream' = upstream + 1 /\ UNCHANGED <<keys, fetching, check>> /\ upstream' \in Versions
    BY <1>5, <1>n, KeysAssumption DEF Rotate, Versions
  <2>1. KeysTyped' /\ OneRefresher' /\ StartsEmpty' /\ KeysSinceArrival'
    BY <1>0, <1>n, <2>0 DEF KeysInv, KeysTyped, OneRefresher, StartsEmpty, KeysSinceArrival
  <2>2. FetchedIsNewer'
    BY <1>0, <1>n, <2>0 DEF KeysInv, FetchedIsNewer, CheckState
  <2>3. AgainOnlyIfLacked'
    <3> SUFFICES ASSUME NEW r \in Requests, check[r].sound,
                        check[r].pc \in {"second", "lock", "last", "fetch", "store", "refused"}
                 PROVE  \E v \in check[r].since..upstream' : ~Has(v, check[r].kid)
      BY <2>0 DEF AgainOnlyIfLacked, Lacked, Has
    <3>1. PICK v \in check[r].since..upstream : ~Has(v, check[r].kid)
      BY DEF KeysInv, AgainOnlyIfLacked, Lacked
    <3>2. check[r].since \in Int
      BY <1>0 DEF CheckState
    <3>3. v \in check[r].since..upstream'
      BY <1>n, <2>0, <3>2
    <3> QED
      BY <3>1, <3>3
  <2> QED
    BY <2>1, <2>2, <2>3 DEF KeysInv
<1> QED
  BY <1>1, <1>2, <1>3, <1>4, <1>5

(* The invariant of validate and refresh_keys: what a validation has seen is *)
(* covered by the sets published since it began.                            *)
THEOREM KeysInvariant == KeysSpec => []KeysInv
<1>1. KeysInv /\ [KeysNext]_keyVars => KeysInv'
  <2> SUFFICES ASSUME KeysInv, [KeysNext]_keyVars PROVE KeysInv'
    OBVIOUS
  <2>1. ASSUME NEW r \in Requests, NEW kid \in Kids, NEW sound \in BOOLEAN, Present(r, kid, sound)
        PROVE  KeysInv'
    BY <2>1, PresentKeepsInv
  <2>2. ASSUME NEW r \in Requests,
               \/ Look(r) \/ Lock(r) \/ FetchKeys(r) \/ FetchKeysFails(r) \/ StoreKeys(r)
               \/ LeaveCheck(r) \/ AbandonCheck(r)
        PROVE  KeysInv'
    BY <2>2, LookKeepsInv, LockKeepsInv, FetchKeepsInv, StoreKeepsInv, EndKeepsInv
  <2>3. CASE RestartKeys \/ InitLock \/ InitStore \/ TickKeys \/ Rotate
    BY <2>3, WorldKeepsInv
  <2>4. CASE UNCHANGED keyVars
    BY <2>4 DEF keyVars, KeysInv, KeysTyped, OneRefresher, StartsEmpty, KeysSinceArrival,
                FetchedIsNewer, AgainOnlyIfLacked, Lacked, Has
  <2> QED
    BY <2>1, <2>2, <2>3, <2>4 DEF KeysNext
<1> QED
  BY <1>1, KeysInitially, PTL DEF KeysSpec

(* A token in order whose key is in the set in memory when it arrives, and   *)
(* in every set published since, is not refused, whatever the other requests *)
(* do to the keys meanwhile.                                                *)
THEOREM StableKeys == KeysSpec => []StableKeysAccepted
<1>1. KeysInv => StableKeysAccepted
  BY DEF KeysInv, AgainOnlyIfLacked, StableKeysAccepted, Lacked
<1> QED
  BY <1>1, KeysInvariant, PTL

(* What a step of a request does to the copy.                               *)
LEMMA RequestStepsImplement ==
    ASSUME KeysInv, NEW r \in Requests,
           \/ Look(r) \/ Lock(r) \/ FetchKeys(r) \/ FetchKeysFails(r) \/ StoreKeys(r)
           \/ LeaveCheck(r) \/ AbandonCheck(r)
    PROVE  [Copy!Next]_<<upstream, keys, fetching>>
<1>1. CASE Look(r) \/ FetchKeys(r) \/ LeaveCheck(r)
  BY <1>1 DEF Look, FirstLook, SecondLook, LastLook, FetchKeys, LeaveCheck
<1>2. CASE Lock(r)
  <2>1. Copy!Begin(r) \/ UNCHANGED <<upstream, keys, fetching>>
    BY <1>2 DEF Lock, Copy!Begin
  <2> QED
    BY <2>1 DEF Copy!Next
<1>3. CASE FetchKeysFails(r) \/ AbandonCheck(r)
  <2>1. Copy!GiveUp(r) \/ UNCHANGED <<upstream, keys, fetching>>
    BY <1>3 DEF FetchKeysFails, AbandonCheck, GiveLock, Copy!GiveUp
  <2> QED
    BY <2>1 DEF Copy!Next
<1>4. CASE StoreKeys(r)
  <2>1. check[r].pc = "store" /\ fetching = r /\ keys' = check[r].got
        /\ fetching' = NobodyFetches /\ upstream' = upstream
    BY <1>4 DEF StoreKeys, GiveLock, KeysInv, OneRefresher, Refreshing
  <2>2. check[r].got \in Int /\ keys <= check[r].got /\ check[r].got <= upstream
    BY <2>1 DEF KeysInv, KeysTyped, FetchedIsNewer, CheckState
  <2>3. Copy!Publish(r)
    BY <2>1, <2>2 DEF Copy!Publish
  <2> QED
    BY <2>3 DEF Copy!Next
<1> QED
  BY <1>1, <1>2, <1>3, <1>4

(* The refresh of the keys implements the reload of a copy.                 *)
THEOREM KeysImplementCopy == KeysSpec => KeysImplementReloadedCopy
<1>1. KeysInit => Copy!Init
  BY KeysAssumption DEF KeysInit, Versions, Copy!Init
<1>2. KeysInv /\ [KeysNext]_keyVars => [Copy!Next]_<<upstream, keys, fetching>>
  <2> SUFFICES ASSUME KeysInv, [KeysNext]_keyVars PROVE [Copy!Next]_<<upstream, keys, fetching>>
    OBVIOUS
  <2>0. upstream \in Int /\ keys \in Int /\ keys <= upstream
    BY DEF KeysInv, KeysTyped, Versions
  <2>1. ASSUME NEW r \in Requests, NEW kid \in Kids, NEW sound \in BOOLEAN, Present(r, kid, sound)
        PROVE  [Copy!Next]_<<upstream, keys, fetching>>
    BY <2>1 DEF Present
  <2>2. ASSUME NEW r \in Requests,
               \/ Look(r) \/ Lock(r) \/ FetchKeys(r) \/ FetchKeysFails(r) \/ StoreKeys(r)
               \/ LeaveCheck(r) \/ AbandonCheck(r)
        PROVE  [Copy!Next]_<<upstream, keys, fetching>>
    BY <2>2, RequestStepsImplement
  <2>3. CASE RestartKeys
    <3>1. Copy!Forget
      BY <2>3 DEF RestartKeys, Copy!Forget
    <3> QED
      BY <3>1 DEF Copy!Next
  <2>4. CASE InitLock
    <3>1. Copy!Begin(Startup)
      BY <2>4 DEF InitLock, Copy!Begin
    <3> QED
      BY <3>1 DEF Copy!Next
  <2>5. CASE InitStore
    <3>1. Copy!Publish(Startup)
      BY <2>0, <2>5 DEF InitStore, Copy!Publish
    <3> QED
      BY <3>1 DEF Copy!Next
  <2>6. CASE TickKeys \/ UNCHANGED keyVars
    BY <2>6 DEF TickKeys, keyVars
  <2>7. CASE Rotate
    <3>1. Copy!Renew
      BY <2>0, <2>7 DEF Rotate, Copy!Renew
    <3> QED
      BY <3>1 DEF Copy!Next
  <2> QED
    BY <2>1, <2>2, <2>3, <2>4, <2>5, <2>6, <2>7 DEF KeysNext
<1> QED
  BY <1>1, <1>2, KeysInvariant, PTL DEF KeysSpec, KeysImplementReloadedCopy, Copy!Spec

-----------------------------------------------------------------------------
Stages == {"out", "set", "ready", "asked", "served"}
Settings == [user : Users \cup {NoUser}, admin : BOOLEAN]
Statements == [kind : {"set", "query"}, as : Identities, work : Works, of : Users \cup {NoUser}]
SessionState == [pc : Stages, conn : Conns \cup {CHOOSE c \in Conns : TRUE}, as : Identities,
                 work : Works, of : Users \cup {NoUser}]

PoolTyped ==
    /\ settings \in [Conns -> Settings]
    /\ sent \in [Conns -> Seq(Statements)]
    /\ owner \in [Conns -> Clients \cup {Free}]
    /\ session \in [Clients -> SessionState]

(* A connection that is checked out and its client know of each other.       *)
SessionHasConn ==
    \A p \in Clients :
        session[p].pc # "out" => session[p].conn \in Conns /\ owner[session[p].conn] = p
ConnHasSession ==
    \A c \in Conns :
        owner[c] # Free => session[owner[c]].pc # "out" /\ session[owner[c]].conn = c

Last1(q) == q[Len(q)]

(* A client that waits for an answer has sent the last statement there is;   *)
(* one that has it has the connection to itself, with its own settings.     *)
WaitsForLast ==
    \A p \in Clients :
        LET q == sent[session[p].conn] IN
        /\ session[p].pc = "set" => q # <<>> /\ Last1(q) = SetStatement(session[p].as)
        /\ session[p].pc = "asked" => q # <<>> /\ Last1(q) = QueryOf(p)
AloneWhenServed ==
    \A p \in Clients :
        session[p].pc \in {"ready", "served"} =>
            /\ sent[session[p].conn] = <<>>
            /\ settings[session[p].conn] = SettingsOf(session[p].as)

(* Only the next statement of a connection can be a query, and the settings  *)
(* are those of the client that sent it.                                    *)
QueriesAreNext ==
    \A c \in Conns, i \in Nat :
        i \in 1..Len(sent[c]) /\ sent[c][i].kind = "query"
            => i = 1 /\ settings[c] = SettingsOf(sent[c][i].as)

PoolInv ==
    /\ PoolTyped /\ SessionHasConn /\ ConnHasSession
    /\ WaitsForLast /\ AloneWhenServed /\ QueriesAreNext

-----------------------------------------------------------------------------
LEMMA BothFields ==
    ASSUME NEW U, NEW B, NEW old \in [user : U, admin : B], NEW u \in U, NEW b \in B, NEW e,
           e = [old EXCEPT !.user = u, !.admin = b] \/ e = [old EXCEPT !.admin = b, !.user = u]
    PROVE  e \in [user : U, admin : B] /\ e.user = u /\ e.admin = b
<1>1. CASE e = [old EXCEPT !.user = u, !.admin = b]
  BY <1>1
<1>2. CASE e = [old EXCEPT !.admin = b, !.user = u]
  BY <1>2
<1> QED
  BY <1>1, <1>2

LEMMA SameFields ==
    ASSUME NEW U, NEW B, NEW e \in [user : U, admin : B], NEW f \in [user : U, admin : B],
           e.user = f.user, e.admin = f.admin
    PROVE  e = f
OBVIOUS

LEMMA BothSet ==
    ASSUME NEW old \in Settings, NEW u \in Users \cup {NoUser}, NEW b \in BOOLEAN
    PROVE  /\ [old EXCEPT !.user = u, !.admin = b] = [user |-> u, admin |-> b]
           /\ [old EXCEPT !.admin = b, !.user = u] = [user |-> u, admin |-> b]
<1> DEFINE U == Users \cup {NoUser}
           B == BOOLEAN
<1>0. old \in [user : U, admin : B] /\ u \in U /\ b \in B
  BY DEF Settings
<1> HIDE DEF U, B
<1> DEFINE e1 == [old EXCEPT !.user = u, !.admin = b]
           e2 == [old EXCEPT !.admin = b, !.user = u]
           f == [user |-> u, admin |-> b]
<1>1. f \in [user : U, admin : B] /\ f.user = u /\ f.admin = b
  BY <1>0
<1>2. e1 \in [user : U, admin : B] /\ e1.user = u /\ e1.admin = b
  <2>1. e1 = [old EXCEPT !.user = u, !.admin = b]
    OBVIOUS
  <2> HIDE DEF e1
  <2> QED
    BY <1>0, <2>1, BothFields
<1>3. e2 \in [user : U, admin : B] /\ e2.user = u /\ e2.admin = b
  <2>1. e2 = [old EXCEPT !.admin = b, !.user = u]
    OBVIOUS
  <2> HIDE DEF e2
  <2> QED
    BY <1>0, <2>1, BothFields
<1>4. e1 = f /\ e2 = f
  <2> HIDE DEF e1, e2, f
  <2> QED
    BY <1>1, <1>2, <1>3, SameFields
<1> QED
  BY <1>4

LEMMA AppliedIs ==
    ASSUME NEW old \in Settings, NEW as \in Identities
    PROVE  Applied(old, as) = SettingsOf(as) /\ SettingsOf(as) \in Settings
<1>0. /\ NoUser \in Users \cup {NoUser} /\ TRUE \in BOOLEAN /\ FALSE \in BOOLEAN
  BY DEF Settings
<1>1. CASE as \in Users
  <2>0. as \in Users \cup {NoUser}
    BY <1>1
  <2>1. as # "admin"
    BY <1>1, PoolAssumption
  <2>2. SettingsOf(as) = [user |-> as, admin |-> FALSE]
    BY <1>1, <2>1 DEF SettingsOf
  <2>3. Applied(old, as) = [old EXCEPT !.user = as, !.admin = FALSE]
    BY <1>1, PoolAssumption DEF Applied
  <2>4. [old EXCEPT !.user = as, !.admin = FALSE] = [user |-> as, admin |-> FALSE]
    BY <1>0, <2>0, BothSet, Zenon
  <2> QED
    BY <1>1, <2>2, <2>3, <2>4 DEF Settings
<1>2. CASE as = "admin"
  <2>1. as \notin Users
    BY <1>2, PoolAssumption
  <2>2. SettingsOf(as) = [user |-> NoUser, admin |-> TRUE]
    BY <1>2, <2>1 DEF SettingsOf
  <2>3. Applied(old, as) = [old EXCEPT !.admin = TRUE, !.user = NoUser]
    BY <1>2, <2>1 DEF Applied
  <2>4. [old EXCEPT !.admin = TRUE, !.user = NoUser] = [user |-> NoUser, admin |-> TRUE]
    BY <1>0, BothSet, Zenon
  <2> QED
    BY <2>2, <2>3, <2>4 DEF Settings
<1>3. CASE as = "neutral"
  <2>1. as \notin Users /\ as # "admin"
    BY <1>3, PoolAssumption
  <2>2. SettingsOf(as) = [user |-> NoUser, admin |-> FALSE]
    BY <2>1 DEF SettingsOf
  <2>3. Applied(old, as) = [old EXCEPT !.user = NoUser, !.admin = FALSE]
    BY <1>3, <2>1 DEF Applied
  <2>4. [old EXCEPT !.user = NoUser, !.admin = FALSE] = [user |-> NoUser, admin |-> FALSE]
    BY <1>0, BothSet, Zenon
  <2> QED
    BY <2>2, <2>3, <2>4 DEF Settings
<1> QED
  BY <1>1, <1>2, <1>3 DEF Identities

LEMMA NoSessionTyped == NoSession \in SessionState /\ NoSession.pc = "out"
BY DEF NoSession, SessionState, Stages, Identities, Works

LEMMA UnsetTyped == Unset \in Settings
BY DEF Unset, Settings

LEMMA StatementTyped ==
    ASSUME NEW as \in Identities, NEW work \in Works, NEW of \in Users \cup {NoUser}
    PROVE  /\ SetStatement(as) \in Statements /\ SetStatement(as).kind = "set"
           /\ [kind |-> "query", as |-> as, work |-> work, of |-> of] \in Statements
BY DEF SetStatement, Statements, Works

LEMMA Empty == ASSUME NEW c \in Conns, sent = [d \in Conns |-> <<>>] PROVE Len(sent[c]) = 0
OBVIOUS

(* Nobody has a connection and nothing is on its way.                       *)
LEMMA FreshPool ==
    ASSUME settings = [c \in Conns |-> Unset], sent = [c \in Conns |-> <<>>],
           owner = [c \in Conns |-> Free], session = [p \in Clients |-> NoSession]
    PROVE  PoolInv
<1>1. PoolTyped
  BY NoSessionTyped, UnsetTyped DEF PoolTyped
<1>2. \A p \in Clients : session[p].pc = "out"
  BY NoSessionTyped
<1>3. SessionHasConn /\ WaitsForLast /\ AloneWhenServed
  BY <1>2 DEF SessionHasConn, WaitsForLast, AloneWhenServed
<1>4. ConnHasSession /\ QueriesAreNext
  BY Empty DEF ConnHasSession, QueriesAreNext
<1> QED
  BY <1>1, <1>3, <1>4 DEF PoolInv

LEMMA RestartedPool == ASSUME RestartPool PROVE PoolInv'
<1>0. \A c \in Conns : Len(sent'[c]) = 0
  BY DEF RestartPool
<1>1. PoolTyped'
  BY NoSessionTyped, UnsetTyped DEF RestartPool, PoolTyped
<1>2. \A p \in Clients : session'[p].pc = "out"
  BY NoSessionTyped DEF RestartPool
<1>3. SessionHasConn' /\ WaitsForLast' /\ AloneWhenServed'
  BY <1>2 DEF SessionHasConn, WaitsForLast, AloneWhenServed
<1>4. ConnHasSession' /\ QueriesAreNext'
  BY <1>0 DEF RestartPool, ConnHasSession, QueriesAreNext
<1> QED
  BY <1>1, <1>3, <1>4 DEF PoolInv

LEMMA Appended ==
    ASSUME NEW q \in Seq(Statements), NEW s \in Statements
    PROVE  /\ Append(q, s) \in Seq(Statements) /\ Append(q, s) # <<>>
           /\ Len(Append(q, s)) = Len(q) + 1 /\ Last1(Append(q, s)) = s
           /\ \A i \in 1..Len(q) : Append(q, s)[i] = q[i]
           /\ Len(q) \in Nat /\ (q = <<>> <=> Len(q) = 0)
BY DEF Last1

LEMMA EmptyIs == ASSUME NEW q \in Seq(Statements) PROVE q = <<>> <=> Len(q) = 0
OBVIOUS

LEMMA Popped ==
    ASSUME NEW q \in Seq(Statements), q # <<>>
    PROVE  /\ Tail(q) \in Seq(Statements) /\ Len(Tail(q)) = Len(q) - 1 /\ Len(q) \in Nat \ {0}
           /\ \A i \in 1..Len(q) - 1 : Tail(q)[i] = q[i + 1]
           /\ Head(q) = q[1] /\ Head(q) \in Statements
           /\ Len(q) = 1 => Tail(q) = <<>> /\ Last1(q) = Head(q)
           /\ Len(q) # 1 => Tail(q) # <<>> /\ Last1(Tail(q)) = Last1(q)
<1>1. /\ Tail(q) \in Seq(Statements) /\ Len(Tail(q)) = Len(q) - 1 /\ Len(q) \in Nat \ {0}
      /\ \A i \in 1..Len(q) - 1 : Tail(q)[i] = q[i + 1]
  OBVIOUS
<1>2. Head(q) = q[1] /\ Head(q) \in Statements
  OBVIOUS
<1>3. ASSUME Len(q) = 1 PROVE Tail(q) = <<>> /\ Last1(q) = Head(q)
  <2>1. Len(Tail(q)) = 0
    BY <1>1, <1>3
  <2>2. Tail(q) = <<>>
    BY <1>1, <2>1, EmptyIs
  <2>3. Last1(q) = Head(q)
    BY <1>2, <1>3 DEF Last1
  <2> QED
    BY <2>2, <2>3
<1>4. ASSUME Len(q) # 1 PROVE Tail(q) # <<>> /\ Last1(Tail(q)) = Last1(q)
  <2>1. Len(Tail(q)) \in 1..Len(q) - 1 /\ Len(Tail(q)) + 1 = Len(q)
    BY <1>1, <1>4
  <2>2. Tail(q) # <<>>
    <3> DEFINE rest == Tail(q)
    <3>1. rest \in Seq(Statements) /\ Len(rest) # 0
      BY <1>1, <2>1
    <3> HIDE DEF rest
    <3>2. rest # <<>>
      BY <3>1, EmptyIs
    <3> QED
      BY <3>2 DEF rest
  <2>3. Tail(q)[Len(Tail(q))] = q[Len(Tail(q)) + 1]
    BY <1>1, <2>1
  <2>4. Tail(q)[Len(Tail(q))] = q[Len(q)]
    BY <2>1, <2>3
  <2> QED
    BY <2>2, <2>4 DEF Last1
<1> QED
  BY <1>1, <1>2, <1>3, <1>4

LEMMA CheckoutKeepsInv ==
    ASSUME PoolInv, NEW p \in Clients, NEW c \in Conns, NEW as \in Identities,
           NEW work \in Works, NEW of \in Users \cup {NoUser}, Checkout(p, c, as, work, of)
    PROVE  PoolInv'
<1> DEFINE d == [pc |-> "set", conn |-> c, as |-> as, work |-> work, of |-> of]
           q == Append(sent[c], SetStatement(as))
<1>0. PoolTyped /\ Free \notin Clients
  BY PoolAssumption DEF PoolInv
<1>1. /\ session[p].pc = "out" /\ owner[c] = Free /\ settings' = settings
      /\ owner' = [owner EXCEPT ![c] = p]
      /\ session' = [session EXCEPT ![p] = d]
      /\ sent' = [sent EXCEPT ![c] = q]
  BY DEF Checkout
<1>2. d \in SessionState /\ d.pc = "set" /\ d.conn = c /\ d.as = as
  BY DEF SessionState, Stages
<1>3. /\ q \in Seq(Statements) /\ q # <<>> /\ Last1(q) = SetStatement(as)
      /\ Len(q) = Len(sent[c]) + 1 /\ (\A i \in 1..Len(sent[c]) : q[i] = sent[c][i])
      /\ Len(sent[c]) \in Nat
  BY <1>0, Appended, StatementTyped DEF PoolTyped
<1> HIDE DEF d, q
<1>4. /\ session'[p] = d /\ (\A r \in Clients : r # p => session'[r] = session[r])
      /\ sent'[c] = q /\ (\A e \in Conns : e # c => sent'[e] = sent[e])
      /\ owner'[c] = p /\ (\A e \in Conns : e # c => owner'[e] = owner[e])
  BY <1>0, <1>1 DEF PoolTyped
<1>5. \A r \in Clients : r # p /\ session[r].pc # "out" => session[r].conn # c
  BY <1>0, <1>1 DEF PoolInv, SessionHasConn
<1>6. PoolTyped'
  BY <1>0, <1>1, <1>2, <1>3 DEF PoolTyped
<1>7. SessionHasConn' /\ ConnHasSession'
  <2>1. SessionHasConn'
    BY <1>2, <1>4, <1>5 DEF PoolInv, SessionHasConn
  <2>2. ConnHasSession'
    <3> SUFFICES ASSUME NEW e \in Conns, owner'[e] # Free
                 PROVE  session'[owner'[e]].pc # "out" /\ session'[owner'[e]].conn = e
      BY DEF ConnHasSession
    <3>1. CASE e = c
      BY <1>2, <1>4, <3>1
    <3>2. CASE e # c
      <4>1. /\ owner'[e] = owner[e] /\ owner[e] \in Clients
            /\ session[owner[e]].pc # "out" /\ session[owner[e]].conn = e
        BY <1>0, <1>4, <3>2 DEF PoolInv, PoolTyped, ConnHasSession
      <4>2. owner[e] # p
        BY <1>1, <4>1
      <4> QED
        BY <1>4, <4>1, <4>2
    <3> QED
      BY <3>1, <3>2
  <2> QED
    BY <2>1, <2>2
<1>8. WaitsForLast'
  <2> SUFFICES ASSUME NEW r \in Clients, session'[r].pc \in {"set", "asked"}
               PROVE  /\ sent'[session'[r].conn] # <<>>
                      /\ session'[r].pc = "set" =>
                            Last1(sent'[session'[r].conn]) = SetStatement(session'[r].as)
                      /\ session'[r].pc = "asked" => Last1(sent'[session'[r].conn]) = QueryOf(r)'
    BY DEF WaitsForLast
  <2>1. CASE r = p
    BY <1>2, <1>3, <1>4, <2>1
  <2>2. CASE r # p
    <3>1. session'[r] = session[r] /\ session[r].conn # c /\ session[r].conn \in Conns
      BY <1>4, <1>5, <2>2 DEF PoolInv, SessionHasConn
    <3>2. sent'[session[r].conn] = sent[session[r].conn]
      BY <1>4, <3>1
    <3>3. QueryOf(r)' = QueryOf(r)
      BY <3>1 DEF QueryOf
    <3> QED
      BY <3>1, <3>2, <3>3 DEF PoolInv, WaitsForLast
  <2> QED
    BY <2>1, <2>2
<1>9. AloneWhenServed'
  BY <1>1, <1>2, <1>4, <1>5 DEF PoolInv, AloneWhenServed, SessionHasConn
<1>10. QueriesAreNext'
  <2> SUFFICES ASSUME NEW e \in Conns, NEW i \in Nat, i \in 1..Len(sent'[e]),
                      sent'[e][i].kind = "query"
               PROVE  i = 1 /\ settings[e] = SettingsOf(sent'[e][i].as)
    BY <1>1 DEF QueriesAreNext, SettingsOf
  <2>1. CASE e # c
    BY <1>4, <2>1 DEF PoolInv, QueriesAreNext
  <2>2. CASE e = c /\ i \in 1..Len(sent[c])
    BY <1>3, <1>4, <2>2 DEF PoolInv, QueriesAreNext
  <2>3. CASE e = c /\ i = Len(sent[c]) + 1
    BY <1>3, <1>4, <2>3, StatementTyped DEF Last1
  <2> QED
    BY <1>3, <1>4, <2>1, <2>2, <2>3
<1> QED
  BY <1>6, <1>7, <1>8, <1>9, <1>10 DEF PoolInv

LEMMA QueryKeepsInv == ASSUME PoolInv, NEW p \in Clients, Query(p) PROVE PoolInv'
<1> DEFINE s == session[p]
           c == s.conn
           d == [s EXCEPT !.pc = "asked"]
           q == Append(sent[c], QueryOf(p))
<1>0. PoolTyped /\ s \in SessionState /\ session \in [Clients -> SessionState]
  BY DEF PoolInv, PoolTyped
<1>1. /\ s.pc \in {"ready", "served"} /\ s.pc # "out" /\ settings' = settings /\ owner' = owner
      /\ session' = [session EXCEPT ![p] = d] /\ sent' = [sent EXCEPT ![c] = q]
  BY DEF Query
<1>2. d \in SessionState /\ d.pc = "asked" /\ d.conn = c /\ d.as = s.as /\ d.work = s.work /\ d.of = s.of
  <2> HIDE DEF s
  <2> QED
    BY <1>0 DEF SessionState, Stages
<1>3. c \in Conns /\ owner[c] = p /\ sent[c] = <<>> /\ settings[c] = SettingsOf(s.as)
  BY <1>1 DEF PoolInv, SessionHasConn, AloneWhenServed
<1>4. QueryOf(p) \in Statements /\ QueryOf(p).kind = "query" /\ QueryOf(p).as = s.as
  BY <1>0, StatementTyped DEF QueryOf, SessionState
<1>5. /\ q \in Seq(Statements) /\ q # <<>> /\ Last1(q) = QueryOf(p) /\ Len(q) = 1
      /\ q[1] = QueryOf(p)
  <2>1. sent[c] \in Seq(Statements)
    BY <1>0, <1>3 DEF PoolTyped
  <2> HIDE DEF c
  <2> QED
    BY <1>3, <1>4, <2>1, Appended DEF Last1
<1> HIDE DEF s, c, d, q
<1>6. /\ session'[p] = d /\ (\A r \in Clients : r # p => session'[r] = session[r])
      /\ sent'[c] = q /\ (\A e \in Conns : e # c => sent'[e] = sent[e])
  BY <1>0, <1>1, <1>3 DEF PoolTyped
<1>7. QueryOf(p)' = QueryOf(p)
  BY <1>2, <1>6 DEF QueryOf, s
<1>8. \A r \in Clients : r # p /\ session[r].pc # "out" => session[r].conn # c
  BY <1>3 DEF PoolInv, SessionHasConn
<1>9. PoolTyped'
  BY <1>0, <1>1, <1>2, <1>5 DEF PoolTyped
<1>10. SessionHasConn'
  BY <1>1, <1>2, <1>3, <1>6 DEF PoolInv, SessionHasConn
<1>11. ConnHasSession'
  <2> SUFFICES ASSUME NEW e \in Conns, owner[e] # Free
               PROVE  session'[owner[e]].pc # "out" /\ session'[owner[e]].conn = e
    BY <1>1 DEF ConnHasSession
  <2>1. /\ session[owner[e]].pc # "out" /\ session[owner[e]].conn = e /\ owner[e] \in Clients
    BY <1>0 DEF PoolInv, PoolTyped, ConnHasSession
  <2> QED
    BY <1>2, <1>6, <2>1 DEF s, c
<1>12. WaitsForLast'
  <2> SUFFICES ASSUME NEW r \in Clients, session'[r].pc \in {"set", "asked"}
               PROVE  /\ sent'[session'[r].conn] # <<>>
                      /\ session'[r].pc = "set" =>
                            Last1(sent'[session'[r].conn]) = SetStatement(session'[r].as)
                      /\ session'[r].pc = "asked" => Last1(sent'[session'[r].conn]) = QueryOf(r)'
    BY DEF WaitsForLast
  <2>1. CASE r = p
    BY <1>2, <1>5, <1>6, <1>7, <2>1
  <2>2. CASE r # p
    <3>1. session'[r] = session[r] /\ session[r].conn # c /\ session[r].conn \in Conns
      BY <1>6, <1>8, <2>2 DEF PoolInv, SessionHasConn
    <3>2. sent'[session[r].conn] = sent[session[r].conn]
      BY <1>6, <3>1
    <3>3. QueryOf(r)' = QueryOf(r)
      BY <3>1 DEF QueryOf
    <3> QED
      BY <3>1, <3>2, <3>3 DEF PoolInv, WaitsForLast
  <2> QED
    BY <2>1, <2>2
<1>13. AloneWhenServed'
  BY <1>1, <1>2, <1>6, <1>8 DEF PoolInv, AloneWhenServed, SessionHasConn
<1>14. QueriesAreNext'
  <2> SUFFICES ASSUME NEW e \in Conns, NEW i \in Nat, i \in 1..Len(sent'[e]),
                      sent'[e][i].kind = "query"
               PROVE  i = 1 /\ settings[e] = SettingsOf(sent'[e][i].as)
    BY <1>1 DEF QueriesAreNext, SettingsOf
  <2>1. CASE e # c
    BY <1>6, <2>1 DEF PoolInv, QueriesAreNext
  <2>2. CASE e = c
    BY <1>3, <1>4, <1>5, <1>6, <2>2
  <2> QED
    BY <2>1, <2>2
<1> QED
  BY <1>9, <1>10, <1>11, <1>12, <1>13, <1>14 DEF PoolInv

(* The client that has checked a connection out gives it back.               *)
LEMMA GiveBackKeepsInv ==
    ASSUME PoolInv, NEW p \in Clients, session[p].pc # "out", GiveBack(p),
           UNCHANGED <<settings, sent>>
    PROVE  PoolInv'
<1> DEFINE c == session[p].conn
<1>0. PoolTyped /\ Free \notin Clients
  BY PoolAssumption DEF PoolInv
<1>1. c \in Conns /\ owner[c] = p
  BY DEF PoolInv, SessionHasConn
<1> HIDE DEF c
<1>2. /\ session'[p] = NoSession /\ (\A r \in Clients : r # p => session'[r] = session[r])
      /\ owner'[c] = Free /\ (\A e \in Conns : e # c => owner'[e] = owner[e])
  BY <1>0, <1>1 DEF PoolTyped, GiveBack, c
<1>3. PoolTyped'
  BY <1>0, NoSessionTyped DEF PoolTyped, GiveBack
<1>4. \A r \in Clients : session'[r].pc # "out" => r # p /\ session'[r] = session[r]
  BY <1>2, NoSessionTyped
<1>5. SessionHasConn'
  BY <1>1, <1>2, <1>4 DEF PoolInv, SessionHasConn
<1>6. ConnHasSession'
  <2> SUFFICES ASSUME NEW e \in Conns, owner'[e] # Free
               PROVE  session'[owner'[e]].pc # "out" /\ session'[owner'[e]].conn = e
    BY DEF ConnHasSession
  <2>1. e # c /\ owner'[e] = owner[e]
    BY <1>2
  <2>2. /\ session[owner[e]].pc # "out" /\ session[owner[e]].conn = e /\ owner[e] \in Clients
    BY <1>0, <2>1 DEF PoolInv, PoolTyped, ConnHasSession
  <2>3. owner[e] # p
    BY <2>1, <2>2 DEF c
  <2> QED
    BY <1>2, <2>1, <2>2, <2>3
<1>7. WaitsForLast'
  <2> SUFFICES ASSUME NEW r \in Clients, session'[r].pc \in {"set", "asked"}
               PROVE  /\ sent[session'[r].conn] # <<>>
                      /\ session'[r].pc = "set" =>
                            Last1(sent[session'[r].conn]) = SetStatement(session'[r].as)
                      /\ session'[r].pc = "asked" => Last1(sent[session'[r].conn]) = QueryOf(r)'
    BY DEF WaitsForLast
  <2>1. session'[r] = session[r]
    BY <1>4
  <2>2. QueryOf(r)' = QueryOf(r)
    BY <2>1 DEF QueryOf
  <2> QED
    BY <2>1, <2>2 DEF PoolInv, WaitsForLast
<1>8. AloneWhenServed'
  BY <1>4 DEF PoolInv, AloneWhenServed
<1>9. QueriesAreNext'
  BY DEF PoolInv, QueriesAreNext
<1> QED
  BY <1>3, <1>5, <1>6, <1>7, <1>8, <1>9 DEF PoolInv

(* No query follows another statement.                                      *)
LEMMA PopKeepsQueries ==
    ASSUME PoolInv, NEW c \in Conns, sent[c] # <<>>, sent' = [sent EXCEPT ![c] = Tail(@)],
           \A e \in Conns : e # c => settings'[e] = settings[e]
    PROVE  QueriesAreNext'
<1>0. sent \in [Conns -> Seq(Statements)] /\ sent[c] \in Seq(Statements)
  BY DEF PoolInv, PoolTyped
<1>1. sent'[c] = Tail(sent[c]) /\ \A e \in Conns : e # c => sent'[e] = sent[e]
  BY <1>0
<1> SUFFICES ASSUME NEW e \in Conns, NEW i \in Nat, i \in 1..Len(sent'[e]),
                    sent'[e][i].kind = "query"
             PROVE  i = 1 /\ settings'[e] = SettingsOf(sent'[e][i].as)
  BY DEF QueriesAreNext, SettingsOf
<1>2. CASE e # c
  BY <1>1, <1>2 DEF PoolInv, QueriesAreNext
<1>3. CASE e = c
  <2>1. Len(sent'[c]) = Len(sent[c]) - 1 /\ Len(sent[c]) \in Nat
        /\ \A j \in 1..Len(sent[c]) - 1 : sent'[c][j] = sent[c][j + 1]
    BY <1>0, <1>1, Popped
  <2>2. i + 1 \in 1..Len(sent[c]) /\ i + 1 \in Nat /\ sent'[c][i] = sent[c][i + 1] /\ i + 1 # 1
    BY <1>3, <2>1
  <2> QED
    BY <1>3, <2>2 DEF PoolInv, QueriesAreNext
<1> QED
  BY <1>2, <1>3

LEMMA ServedFields ==
    ASSUME NEW s \in SessionState, NEW pc \in Stages
    PROVE  /\ [s EXCEPT !.pc = pc] \in SessionState /\ [s EXCEPT !.pc = pc].pc = pc
           /\ [s EXCEPT !.pc = pc].conn = s.conn /\ [s EXCEPT !.pc = pc].as = s.as
           /\ [s EXCEPT !.pc = pc].work = s.work /\ [s EXCEPT !.pc = pc].of = s.of
BY DEF SessionState

LEMMA ServeKeepsInv == ASSUME PoolInv, NEW c \in Conns, Serve(c) PROVE PoolInv'
<1> DEFINE q == sent[c]
           s == Head(q)
           after(p) == IF session[p].pc = "set" THEN "ready" ELSE "served"
           next(p) == [session[p] EXCEPT !.pc = after(p)]
<1>0. PoolTyped /\ q \in Seq(Statements) /\ q # <<>> /\ settings[c] \in Settings
  BY DEF PoolInv, PoolTyped, Serve
<1>1. /\ settings' = IF s.kind = "set" THEN [settings EXCEPT ![c] = Applied(@, s.as)] ELSE settings
      /\ sent' = [sent EXCEPT ![c] = Tail(@)] /\ owner' = owner
      /\ \A p \in Clients : session'[p] = IF Waits(p, c) THEN next(p) ELSE session[p]
      /\ DOMAIN session' = Clients /\ session' = [p \in Clients |-> session'[p]]
  BY DEF Serve
<1>2. /\ Tail(q) \in Seq(Statements) /\ s = q[1] /\ s \in Statements /\ Len(q) \in Nat \ {0}
      /\ Len(q) = 1 => Tail(q) = <<>> /\ Last1(q) = s
      /\ Len(q) # 1 => Tail(q) # <<>> /\ Last1(Tail(q)) = Last1(q)
  <2> HIDE DEF q
  <2> QED
    BY <1>0, Popped
<1>3. s.as \in Identities /\ s.kind \in {"set", "query"}
  <2> HIDE DEF s
  <2> QED
    BY <1>2 DEF Statements
<1>4. settings' \in [Conns -> Settings] /\ settings'[c] = SettingsOf(s.as)
      /\ \A e \in Conns : e # c => settings'[e] = settings[e]
  <2>1. CASE s.kind = "set"
    <3>1. settings' = [settings EXCEPT ![c] = SettingsOf(s.as)] /\ SettingsOf(s.as) \in Settings
      BY <1>0, <1>1, <1>3, <2>1, AppliedIs
    <3> QED
      BY <1>0, <3>1 DEF PoolTyped
  <2>2. CASE s.kind = "query"
    <3>1. settings[c] = SettingsOf(s.as)
      BY <1>2, <2>2 DEF PoolInv, QueriesAreNext
    <3> QED
      BY <1>0, <1>1, <2>2, <3>1 DEF PoolTyped
  <2> QED
    BY <1>3, <2>1, <2>2
<1>5. sent' \in [Conns -> Seq(Statements)] /\ sent'[c] = Tail(q)
      /\ \A e \in Conns : e # c => sent'[e] = sent[e]
  BY <1>0, <1>1, <1>2 DEF PoolTyped
<1>6. ASSUME NEW p \in Clients
      PROVE  /\ session'[p] \in SessionState
             /\ session'[p].conn = session[p].conn /\ session'[p].as = session[p].as
             /\ session'[p].work = session[p].work /\ session'[p].of = session[p].of
             /\ Waits(p, c) => session'[p].pc = after(p)
             /\ ~Waits(p, c) => session'[p].pc = session[p].pc
  <2>1. session[p] \in SessionState /\ after(p) \in Stages
    BY <1>0 DEF PoolTyped, Stages
  <2>2. CASE Waits(p, c)
    <3>1. session'[p] = next(p)
      BY <1>1, <2>2
    <3> HIDE DEF after
    <3> QED
      BY <2>1, <2>2, <3>1, ServedFields
  <2>3. CASE ~Waits(p, c)
    BY <1>1, <2>1, <2>3
  <2> QED
    BY <2>2, <2>3
<1>7. \A p \in Clients : session'[p].pc = "out" <=> session[p].pc = "out"
  BY <1>6 DEF Waits
<1>8. \A p \in Clients : Waits(p, c) => session[p].conn = c
  <2> SUFFICES ASSUME NEW p \in Clients, Waits(p, c) PROVE session[p].conn = c
    OBVIOUS
  <2>1. owner[c] = p /\ owner[c] # Free
    BY PoolAssumption DEF Waits
  <2> QED
    BY <2>1 DEF PoolInv, ConnHasSession
<1> HIDE DEF s, q, after, next
<1>9. PoolTyped'
  BY <1>0, <1>1, <1>4, <1>5, <1>6 DEF PoolTyped
<1>10. SessionHasConn'
  BY <1>1, <1>6, <1>7 DEF PoolInv, SessionHasConn
<1>11. ConnHasSession'
  <2> SUFFICES ASSUME NEW e \in Conns, owner[e] # Free
               PROVE  session'[owner[e]].pc # "out" /\ session'[owner[e]].conn = e
    BY <1>1 DEF ConnHasSession
  <2>1. /\ session[owner[e]].pc # "out" /\ session[owner[e]].conn = e /\ owner[e] \in Clients
    BY <1>0 DEF PoolInv, PoolTyped, ConnHasSession
  <2> QED
    BY <1>6, <1>7, <2>1
<1>12. WaitsForLast'
  <2> SUFFICES ASSUME NEW r \in Clients, session'[r].pc \in {"set", "asked"}
               PROVE  /\ sent'[session'[r].conn] # <<>>
                      /\ session'[r].pc = "set" =>
                            Last1(sent'[session'[r].conn]) = SetStatement(session'[r].as)
                      /\ session'[r].pc = "asked" => Last1(sent'[session'[r].conn]) = QueryOf(r)'
    BY DEF WaitsForLast
  <2>1. ~Waits(r, c) /\ session'[r].pc = session[r].pc
    BY <1>6 DEF after
  <2>2. QueryOf(r)' = QueryOf(r)
    BY <1>6 DEF QueryOf
  <2>3. session[r].conn \in Conns /\ owner[session[r].conn] = r
    BY <2>1 DEF PoolInv, SessionHasConn
  <2>4. /\ sent[session[r].conn] # <<>>
        /\ session[r].pc = "set" => Last1(sent[session[r].conn]) = SetStatement(session[r].as)
        /\ session[r].pc = "asked" => Last1(sent[session[r].conn]) = QueryOf(r)
    BY <2>1 DEF PoolInv, WaitsForLast
  <2>5. CASE session[r].conn = c
    <3>1. Len(q) # 1
      BY <2>1, <2>3, <2>5 DEF Waits, q
    <3>2. Tail(q) # <<>> /\ Last1(Tail(q)) = Last1(q)
      BY <1>2, <3>1
    <3> QED
      BY <1>5, <1>6, <2>1, <2>2, <2>4, <2>5, <3>2 DEF q
  <2>6. CASE session[r].conn # c
    BY <1>5, <1>6, <2>1, <2>2, <2>3, <2>4, <2>6
  <2> QED
    BY <2>5, <2>6
<1>13. AloneWhenServed'
  <2> SUFFICES ASSUME NEW r \in Clients, session'[r].pc \in {"ready", "served"}
               PROVE  /\ sent'[session'[r].conn] = <<>>
                      /\ settings'[session'[r].conn] = SettingsOf(session'[r].as)
    BY DEF AloneWhenServed, SettingsOf
  <2>1. CASE Waits(r, c)
    <3>1. session[r].conn = c /\ Len(q) = 1 /\ session[r].pc \in {"set", "asked"}
      BY <1>8, <2>1 DEF Waits, q
    <3>2. Tail(q) = <<>> /\ Last1(q) = s
      BY <1>2, <3>1
    <3>3. s = SetStatement(session[r].as) \/ s = QueryOf(r)
      BY <3>1, <3>2 DEF PoolInv, WaitsForLast, q
    <3>4. s.as = session[r].as
      BY <3>3 DEF SetStatement, QueryOf
    <3> QED
      BY <1>4, <1>5, <1>6, <3>1, <3>2, <3>4
  <2>2. CASE ~Waits(r, c)
    <3>1. /\ session[r].pc \in {"ready", "served"} /\ session[r].conn \in Conns
          /\ sent[session[r].conn] = <<>> /\ settings[session[r].conn] = SettingsOf(session[r].as)
      BY <1>6, <2>2 DEF PoolInv, AloneWhenServed, SessionHasConn
    <3>2. session[r].conn # c
      BY <1>0, <3>1 DEF q
    <3> QED
      BY <1>4, <1>5, <1>6, <3>1, <3>2
  <2> QED
    BY <2>1, <2>2
<1>14. QueriesAreNext'
  BY <1>0, <1>1, <1>4, PopKeepsQueries DEF q
<1> QED
  BY <1>9, <1>10, <1>11, <1>12, <1>13, <1>14 DEF PoolInv

(* A failed statement nobody waits for is taken from the connection.        *)
LEMMA LostKeepsInv ==
    ASSUME PoolInv, NEW c \in Conns, sent[c] # <<>>, sent' = [sent EXCEPT ![c] = Tail(@)],
           UNCHANGED <<settings, session, owner>>, \A p \in Clients : ~Waits(p, c)
    PROVE  PoolInv'
<1> DEFINE q == sent[c]
<1>0. PoolTyped /\ q \in Seq(Statements) /\ q # <<>>
  BY DEF PoolInv, PoolTyped
<1>1. /\ Tail(q) \in Seq(Statements)
      /\ Len(q) # 1 => Tail(q) # <<>> /\ Last1(Tail(q)) = Last1(q)
  <2> HIDE DEF q
  <2> QED
    BY <1>0, Popped
<1>2. sent'[c] = Tail(q) /\ \A e \in Conns : e # c => sent'[e] = sent[e]
  BY <1>0 DEF PoolTyped
<1>3. PoolTyped' /\ SessionHasConn' /\ ConnHasSession'
  <2>1. PoolTyped'
    BY <1>0, <1>1 DEF PoolTyped
  <2>2. SessionHasConn' /\ ConnHasSession'
    BY DEF PoolInv, SessionHasConn, ConnHasSession
  <2> QED
    BY <2>1, <2>2
<1> HIDE DEF q
<1>4. WaitsForLast'
  <2> SUFFICES ASSUME NEW r \in Clients, session[r].pc \in {"set", "asked"}
               PROVE  /\ sent'[session[r].conn] # <<>>
                      /\ Last1(sent'[session[r].conn]) = Last1(sent[session[r].conn])
    BY DEF PoolInv, WaitsForLast, QueryOf, SetStatement
  <2>1. session[r].conn \in Conns /\ owner[session[r].conn] = r
    BY DEF PoolInv, SessionHasConn
  <2>2. sent[session[r].conn] # <<>>
    BY DEF PoolInv, WaitsForLast
  <2>3. CASE session[r].conn = c
    <3>1. Len(q) # 1
      BY <2>1, <2>3 DEF Waits, q
    <3> QED
      BY <1>1, <1>2, <2>3, <3>1 DEF q
  <2>4. CASE session[r].conn # c
    BY <1>2, <2>1, <2>2, <2>4
  <2> QED
    BY <2>3, <2>4
<1>5. AloneWhenServed'
  <2> SUFFICES ASSUME NEW r \in Clients, session[r].pc \in {"ready", "served"}
               PROVE  /\ sent'[session[r].conn] = <<>>
                      /\ settings[session[r].conn] = SettingsOf(session[r].as)
    BY DEF AloneWhenServed, SettingsOf
  <2>1. /\ session[r].conn \in Conns /\ sent[session[r].conn] = <<>>
        /\ settings[session[r].conn] = SettingsOf(session[r].as)
    BY DEF PoolInv, SessionHasConn, AloneWhenServed
  <2>2. session[r].conn # c
    BY <1>0, <2>1 DEF q
  <2> QED
    BY <1>2, <2>1, <2>2
<1>6. QueriesAreNext'
  BY PopKeepsQueries
<1> QED
  BY <1>3, <1>4, <1>5, <1>6 DEF PoolInv

LEMMA ServeFailsKeepsInv == ASSUME PoolInv, NEW c \in Conns, ServeFails(c) PROVE PoolInv'
<1>0. /\ PoolTyped /\ sent[c] # <<>> /\ settings' = settings
      /\ sent' = [sent EXCEPT ![c] = Tail(@)] /\ Free \notin Clients
  BY PoolAssumption DEF PoolInv, ServeFails
<1>1. CASE \A p \in Clients : ~Waits(p, c)
  <2>1. UNCHANGED <<session, owner>>
    BY <1>1 DEF ServeFails
  <2> QED
    BY <1>0, <1>1, <2>1, LostKeepsInv
<1>2. CASE \E p \in Clients : Waits(p, c)
  <2>1. PICK p \in Clients : Waits(p, c)
    BY <1>2
  <2>2. owner[c] = p /\ session[p].pc # "out" /\ session[p].conn = c /\ Len(sent[c]) = 1
    BY <1>0, <2>1 DEF Waits, PoolInv, ConnHasSession
  <2>3. /\ session' = [session EXCEPT ![p] = NoSession] /\ owner' = [owner EXCEPT ![c] = Free]
    BY <1>2, <2>2 DEF ServeFails, GiveBack
  <2>4. sent[c] \in Seq(Statements) /\ Tail(sent[c]) \in Seq(Statements)
    <3>1. sent[c] \in Seq(Statements)
      BY <1>0 DEF PoolTyped
    <3> QED
      BY <1>0, <3>1, Popped
  <2>5. /\ session'[p] = NoSession /\ (\A r \in Clients : r # p => session'[r] = session[r])
        /\ owner'[c] = Free /\ (\A e \in Conns : e # c => owner'[e] = owner[e])
        /\ \A e \in Conns : e # c => sent'[e] = sent[e]
    BY <1>0, <2>3 DEF PoolTyped
  <2>6. PoolTyped'
    BY <1>0, <2>3, <2>4, NoSessionTyped DEF PoolTyped
  <2>7. \A r \in Clients : session'[r].pc # "out" =>
          /\ r # p /\ session'[r] = session[r] /\ session[r].conn \in Conns
          /\ owner[session[r].conn] = r /\ session[r].conn # c
    BY <2>2, <2>5, NoSessionTyped DEF PoolInv, SessionHasConn
  <2>8. SessionHasConn'
    BY <2>5, <2>7 DEF SessionHasConn
  <2>9. ConnHasSession'
    <3> SUFFICES ASSUME NEW e \in Conns, owner'[e] # Free
                 PROVE  session'[owner'[e]].pc # "out" /\ session'[owner'[e]].conn = e
      BY DEF ConnHasSession
    <3>1. e # c /\ owner'[e] = owner[e]
      BY <2>5
    <3>2. /\ session[owner[e]].pc # "out" /\ session[owner[e]].conn = e /\ owner[e] \in Clients
      BY <1>0, <3>1 DEF PoolInv, PoolTyped, ConnHasSession
    <3> QED
      BY <2>2, <2>5, <3>1, <3>2
  <2>10. WaitsForLast'
    <3> SUFFICES ASSUME NEW r \in Clients, session'[r].pc \in {"set", "asked"}
                 PROVE  /\ sent'[session'[r].conn] # <<>>
                        /\ session'[r].pc = "set" =>
                              Last1(sent'[session'[r].conn]) = SetStatement(session'[r].as)
                        /\ session'[r].pc = "asked" => Last1(sent'[session'[r].conn]) = QueryOf(r)'
      BY DEF WaitsForLast
    <3>1. session'[r] = session[r] /\ sent'[session[r].conn] = sent[session[r].conn]
      BY <2>5, <2>7
    <3>2. QueryOf(r)' = QueryOf(r)
      BY <3>1 DEF QueryOf
    <3> QED
      BY <3>1, <3>2 DEF PoolInv, WaitsForLast
  <2>11. AloneWhenServed'
    BY <1>0, <2>5, <2>7 DEF PoolInv, AloneWhenServed
  <2>12. QueriesAreNext'
    BY <1>0, PopKeepsQueries
  <2> QED
    BY <2>6, <2>8, <2>9, <2>10, <2>11, <2>12 DEF PoolInv
<1> QED
  BY <1>1, <1>2

LEMMA RecycleKeepsInv == ASSUME PoolInv, NEW c \in Conns, Recycle(c) PROVE PoolInv'
<1>0. PoolTyped /\ Free \notin Clients /\ owner[c] = Free /\ UNCHANGED <<owner, session>>
  BY PoolAssumption DEF PoolInv, Recycle
<1>1. /\ settings' = [settings EXCEPT ![c] = Unset] /\ sent' = [sent EXCEPT ![c] = <<>>]
      /\ sent'[c] = <<>>
      /\ \A e \in Conns : e # c => sent'[e] = sent[e] /\ settings'[e] = settings[e]
  BY <1>0 DEF Recycle, PoolTyped
<1>2. \A r \in Clients : session[r].pc # "out" =>
        session[r].conn \in Conns /\ session[r].conn # c
  BY <1>0 DEF PoolInv, SessionHasConn
<1>3. PoolTyped' /\ SessionHasConn' /\ ConnHasSession'
  <2>1. PoolTyped'
    BY <1>0, <1>1, UnsetTyped DEF PoolTyped
  <2>2. SessionHasConn' /\ ConnHasSession'
    BY <1>0 DEF PoolInv, SessionHasConn, ConnHasSession
  <2> QED
    BY <2>1, <2>2
<1>4. WaitsForLast' /\ AloneWhenServed'
  BY <1>0, <1>1, <1>2 DEF PoolInv, WaitsForLast, AloneWhenServed, QueryOf
<1>5. QueriesAreNext'
  BY <1>1 DEF PoolInv, QueriesAreNext
<1> QED
  BY <1>3, <1>4, <1>5 DEF PoolInv

LEMMA PoolInitially == PoolInit => PoolInv
BY FreshPool DEF PoolInit

LEMMA PoolKeepsInv == PoolInv /\ [PoolNext]_poolVars => PoolInv'
<1> SUFFICES ASSUME PoolInv, [PoolNext]_poolVars PROVE PoolInv'
  OBVIOUS
<1>1. ASSUME NEW p \in Clients, NEW c \in Conns, NEW as \in Identities,
             NEW work \in Works, NEW of \in Users \cup {NoUser}, Checkout(p, c, as, work, of)
      PROVE  PoolInv'
  BY <1>1, CheckoutKeepsInv
<1>2. ASSUME NEW p \in Clients, Query(p) PROVE PoolInv'
  BY <1>2, QueryKeepsInv
<1>3. ASSUME NEW p \in Clients, Done(p) \/ Drop(p) PROVE PoolInv'
  BY <1>3, GiveBackKeepsInv DEF Done, Drop
<1>4. ASSUME NEW c \in Conns, Serve(c) \/ ServeFails(c) \/ Recycle(c) PROVE PoolInv'
  BY <1>4, ServeKeepsInv, ServeFailsKeepsInv, RecycleKeepsInv
<1>5. CASE RestartPool
  BY <1>5, RestartedPool
<1>6. CASE UNCHANGED poolVars
  BY <1>6 DEF poolVars, PoolInv, PoolTyped, SessionHasConn, ConnHasSession, WaitsForLast,
              AloneWhenServed, QueriesAreNext, QueryOf
<1> QED
  BY <1>1, <1>2, <1>3, <1>4, <1>5, <1>6 DEF PoolNext

(* The invariant of the pool: what a pooled connection executes next is known *)
(* of every statement still on its way to it.                               *)
THEOREM PoolInvariant == PoolSpec => []PoolInv
BY PoolInitially, PoolKeepsInv, PTL DEF PoolSpec

(* A query is executed with the settings of the identity that sent it.      *)
THEOREM QueriesRunAsSender == PoolSpec => []QueriesRunAsTheirSender
<1>1. PoolInv => QueriesRunAsTheirSender
  <2> SUFFICES ASSUME PoolInv, NEW c \in Conns, sent[c] # <<>>, Head(sent[c]).kind = "query"
               PROVE  settings[c] = SettingsOf(Head(sent[c]).as)
    BY DEF QueriesRunAsTheirSender
  <2>1. sent[c] \in Seq(Statements)
    BY DEF PoolInv, PoolTyped
  <2>2. Head(sent[c]) = sent[c][1] /\ Len(sent[c]) \in Nat \ {0} /\ 1 \in 1..Len(sent[c])
    BY <2>1, Popped
  <2> QED
    BY <2>2 DEF PoolInv, QueriesAreNext
<1> QED
  BY <1>1, PoolInvariant, PTL

-----------------------------------------------------------------------------
RowStates == {"none", "new", "onboarded"}
Asking == {"insert", "look", "password", "stamp", "handler"}
PathStages == {"token", "next"} \cup Asking
PathState == [pc : PathStages, user : Users \cup {NoUser}, kind : Kinds,
              answer : {"none", "new", "onboarded", "password"}]

PathTyped == path \in [Requests -> PathState] /\ rows \in [Users -> RowStates]

(* Who a request at w asks as, and what for. *)
Identity(w) == IF w.pc = "password" THEN "neutral" ELSE w.user
Work(w) == IF w.pc = "handler" THEN "other" ELSE w.pc

(* What a request at w has found out, whose token check is at chk and whose  *)
(* checkout is ses, holds of the table of users tab.                        *)
RequestHas(w, chk, ses, tab) ==
    /\ chk # "none" => w.pc = "token"
    /\ w.pc # "token" \/ chk # "none" => w.user \in Users
    /\ ses.pc # "out" =>
            w.pc \in Asking /\ ses.as = Identity(w) /\ ses.work = Work(w) /\ ses.of = w.user
    /\ w.pc \in {"next", "look", "password", "stamp"} => tab[w.user] # "none"
    /\ w.pc = "handler" => tab[w.user] = "onboarded"
    /\ w.pc = "look" /\ w.answer = "onboarded" => tab[w.user] = "onboarded"
    /\ w.pc = "insert" /\ ses.pc = "served" => tab[w.user] # "none"
    /\ w.pc = "stamp" /\ ses.pc = "served" => tab[w.user] = "onboarded"

RequestsHave == \A r \in Requests : RequestHas(path[r], check[r].pc, session[r], rows)

KnownRows ==
    \A u \in Users : /\ u \in known_users => rows[u] # "none"
                     /\ u \in onboarded_users => rows[u] = "onboarded"

PathInv == PathTyped /\ RequestsHave /\ KnownRows

-----------------------------------------------------------------------------
(* Every step of the path is one of the keys, or leaves them.               *)
LEMMA KeysStep == ASSUME PathNext PROVE [KeysNext]_keyVars
<1>1. ASSUME NEW r \in Requests, NEW u \in Users, NEW kind \in Kinds, NEW kid \in Kids,
             NEW sound \in BOOLEAN, Arrive(r, u, kind, kid, sound)
      PROVE  KeysNext
  BY <1>1 DEF Arrive, KeysNext
<1>2. ASSUME NEW r \in Requests, StepOf(r) \/ CheckoutFor(r) \/ DropRequest(r)
      PROVE  [KeysNext]_keyVars
  <2>1. CASE CheckToken(r) \/ Refuse(r) \/ Admit(r) \/ DropRequest(r)
    <3>1. \/ Look(r) \/ Lock(r) \/ FetchKeys(r) \/ FetchKeysFails(r) \/ StoreKeys(r)
          \/ LeaveCheck(r) \/ AbandonCheck(r) \/ UNCHANGED keyVars
      BY <2>1 DEF CheckToken, Refuse, Admit, DropRequest
    <3> QED
      BY <3>1 DEF KeysNext
  <2>2. CASE Decide(r) \/ Ask(r) \/ Proceed(r) \/ CheckoutFor(r)
    BY <2>2 DEF Decide, Ask, Proceed, CheckoutFor
  <2> QED
    BY <1>2, <2>1, <2>2 DEF StepOf
<1>3. CASE CheckoutJob \/ Ask(Job) \/ DoneJob
  BY <1>3 DEF CheckoutJob, Ask, DoneJob
<1>4. ASSUME NEW c \in Conns, ServePath(c) \/ ServeFailsPath(c) \/ RecyclePath(c)
      PROVE  [KeysNext]_keyVars
  BY <1>4 DEF ServePath, ServeFailsPath, RecyclePath
<1>5. ASSUME NEW u \in Users, SetPassword(u) PROVE [KeysNext]_keyVars
  BY <1>5 DEF SetPassword
<1>6. CASE RestartPath \/ KeysElsewhere
  BY <1>6 DEF RestartPath, KeysElsewhere, KeysNext
<1> QED
  BY <1>1, <1>2, <1>3, <1>4, <1>5, <1>6 DEF PathNext

(* The token check of RequestPath is SigningKeys.                           *)
THEOREM PathChecksTokens == PathSpec => KeysSpec
<1>1. PathInit => KeysInit
  BY DEF PathInit
<1>2. [PathNext]_pathVars => [KeysNext]_keyVars
  <2>1. ASSUME UNCHANGED pathVars PROVE UNCHANGED keyVars
    BY <2>1 DEF pathVars
  <2> QED
    BY <2>1, KeysStep
<1> QED
  BY <1>1, <1>2, PTL DEF PathSpec, KeysSpec

LEMMA PathKeysInv == PathSpec => []KeysInv
BY PathChecksTokens, KeysInvariant, PTL

-----------------------------------------------------------------------------
LEMMA NoPathTyped == NoPath \in PathState /\ NoPath.pc = "token" /\ NoPath.answer = "none"
BY DEF NoPath, PathState, PathStages, Kinds

LEMMA ArriveFields ==
    ASSUME NEW u \in Users, NEW kind \in Kinds
    PROVE  /\ [NoPath EXCEPT !.user = u, !.kind = kind] \in PathState
           /\ [NoPath EXCEPT !.user = u, !.kind = kind].pc = "token"
           /\ [NoPath EXCEPT !.user = u, !.kind = kind].user = u
           /\ [NoPath EXCEPT !.user = u, !.kind = kind].answer = "none"
BY NoPathTyped DEF PathState

LEMMA ContinueFields ==
    ASSUME NEW w \in PathState, NEW pc \in PathStages
    PROVE  /\ [w EXCEPT !.pc = pc, !.answer = "none"] \in PathState
           /\ [w EXCEPT !.pc = pc, !.answer = "none"].pc = pc
           /\ [w EXCEPT !.pc = pc, !.answer = "none"].user = w.user
           /\ [w EXCEPT !.pc = pc, !.answer = "none"].answer = "none"
BY DEF PathState

LEMMA AnswerFields ==
    ASSUME NEW w \in PathState, NEW a \in {"none", "new", "onboarded", "password"}
    PROVE  /\ [w EXCEPT !.answer = a] \in PathState
           /\ [w EXCEPT !.answer = a].pc = w.pc /\ [w EXCEPT !.answer = a].user = w.user
           /\ [w EXCEPT !.answer = a].answer = a
BY DEF PathState

ChecksOn(r) == check'[r].pc # "none" => check[r].pc # "none"

LEMMA LeaveFields ==
    ASSUME KeysInv, NEW r \in Requests, LeaveCheck(r) \/ AbandonCheck(r)
    PROVE  check'[r].pc = "none" /\ \A q \in Requests : ChecksOn(q)
<1>1. check \in [Requests -> CheckState]
  BY DEF KeysInv, KeysTyped
<1> QED
  BY <1>1, NoCheckTyped DEF LeaveCheck, AbandonCheck, ChecksOn

LEMMA CheckTokenFields ==
    ASSUME KeysInv, NEW r \in Requests,
           Look(r) \/ Lock(r) \/ FetchKeys(r) \/ FetchKeysFails(r) \/ StoreKeys(r)
    PROVE  check[r].pc # "none" /\ \A q \in Requests : ChecksOn(q)
<1>1. check \in [Requests -> CheckState]
  BY DEF KeysInv, KeysTyped
<1>2. check[r].pc # "none"
  BY DEF Look, FirstLook, SecondLook, LastLook, Lock, FetchKeys, FetchKeysFails, StoreKeys
<1>3. \A q \in Requests : q # r => check'[q] = check[q]
  BY <1>1 DEF Look, FirstLook, SecondLook, LastLook, Lock, FetchKeys, FetchKeysFails, StoreKeys, Turn
<1> QED
  BY <1>2, <1>3 DEF ChecksOn

(* The table of users only gains.                                           *)
RowsGrow ==
    /\ rows' \in [Users -> RowStates]
    /\ \A u \in Users : /\ rows[u] # "none" => rows'[u] # "none"
                        /\ rows[u] = "onboarded" => rows'[u] = "onboarded"

LEMMA StillHas ==
    ASSUME PathInv, NEW r \in Requests, RowsGrow, ChecksOn(r), path'[r] = path[r],
           session'[r] = session[r]
    PROVE  RequestHas(path'[r], check'[r].pc, session'[r], rows')
<1>1. RequestHas(path[r], check[r].pc, session[r], rows) /\ path[r] \in PathState
  BY DEF PathInv, RequestsHave, PathTyped
<1>2. check'[r].pc # "none" => check[r].pc # "none"
  BY DEF ChecksOn
<1> DEFINE w == path[r]
<1>3. CASE w.pc = "token"
  BY <1>1, <1>2, <1>3 DEF RequestHas, Asking
<1>4. CASE w.pc # "token"
  <2>1. w.user \in Users
    BY <1>1, <1>4 DEF RequestHas
  <2>2. /\ rows[w.user] # "none" => rows'[w.user] # "none"
        /\ rows[w.user] = "onboarded" => rows'[w.user] = "onboarded"
    BY <2>1 DEF RowsGrow
  <2> QED
    BY <1>1, <1>2, <2>1, <2>2 DEF RequestHas
<1> QED
  BY <1>3, <1>4

(* A step that changes the path and the checkout of one request at most.     *)
LEMMA MoveKeepsInv ==
    ASSUME PathInv, NEW r \in Requests, NEW w \in PathState, path' = [path EXCEPT ![r] = w],
           RowsGrow, KnownRows', \A q \in Requests : q # r => ChecksOn(q) /\ session'[q] = session[q],
           RequestHas(w, check'[r].pc, session'[r], rows')
    PROVE  PathInv'
<1>1. /\ path' \in [Requests -> PathState] /\ path'[r] = w
      /\ \A q \in Requests : q # r => path'[q] = path[q]
  BY DEF PathInv, PathTyped
<1>2. \A q \in Requests : RequestHas(path'[q], check'[q].pc, session'[q], rows')
  BY <1>1, StillHas
<1> QED
  BY <1>1, <1>2 DEF PathInv, PathTyped, RequestsHave, RowsGrow

LEMMA StillKeepsInv ==
    ASSUME PathInv, path' = path, RowsGrow, KnownRows',
           \A q \in Requests : ChecksOn(q) /\ session'[q] = session[q]
    PROVE  PathInv'
<1>1. \A q \in Requests : RequestHas(path'[q], check'[q].pc, session'[q], rows')
  BY StillHas
<1> QED
  BY <1>1 DEF PathInv, PathTyped, RequestsHave, RowsGrow

LEMMA SameRows == ASSUME PathInv, rows' = rows PROVE RowsGrow
BY DEF PathInv, PathTyped, RowsGrow

LEMMA KnownStill ==
    ASSUME PathInv, RowsGrow, UNCHANGED <<known_users, onboarded_users>> PROVE KnownRows'
<1> SUFFICES ASSUME NEW u \in Users
             PROVE  /\ u \in known_users => rows'[u] # "none"
                    /\ u \in onboarded_users => rows'[u] = "onboarded"
  BY DEF KnownRows
<1> QED
  BY DEF PathInv, KnownRows, RowsGrow

LEMMA EndOfPathKeepsInv ==
    ASSUME PathInv, NEW r \in Requests, End(r), UNCHANGED <<rows, known_users, onboarded_users>>,
           check'[r].pc = "none", session'[r].pc = "out",
           \A q \in Requests : q # r => ChecksOn(q) /\ session'[q] = session[q]
    PROVE  PathInv'
<1>1. path' = [path EXCEPT ![r] = NoPath] /\ RowsGrow /\ KnownRows'
  BY SameRows, KnownStill DEF End
<1>2. RequestHas(NoPath, check'[r].pc, session'[r], rows')
  BY NoPathTyped DEF RequestHas, Asking
<1> QED
  BY <1>1, <1>2, NoPathTyped, MoveKeepsInv

(* A request goes on to the stage pc.                                       *)
LEMMA ContinueKeepsInv ==
    ASSUME PathInv, NEW r \in Requests, NEW pc \in PathStages, Continue(r, pc), rows' = rows,
           KnownRows', path[r].user \in Users, check'[r].pc = "none", session'[r].pc = "out",
           \A q \in Requests : q # r => ChecksOn(q) /\ session'[q] = session[q],
           pc \in {"next", "look", "password", "stamp"} => rows[path[r].user] # "none",
           pc = "handler" => rows[path[r].user] = "onboarded"
    PROVE  PathInv'
<1> DEFINE w == [path[r] EXCEPT !.pc = pc, !.answer = "none"]
<1>1. path' = [path EXCEPT ![r] = w] /\ path[r] \in PathState
  BY DEF Continue, PathInv, PathTyped
<1>2. w \in PathState /\ w.user = path[r].user /\ w.pc = pc /\ w.answer = "none"
  BY <1>1, ContinueFields
<1> HIDE DEF w
<1>3. RequestHas(w, check'[r].pc, session'[r], rows')
  BY <1>2 DEF RequestHas
<1> QED
  BY <1>1, <1>2, <1>3, SameRows, MoveKeepsInv

LEMMA RowsTyped ==
    ASSUME PathTyped, NEW c \in Conns, NEW s
    PROVE  /\ RowsAfter(c, s) \in [Users -> RowStates]
           /\ \A u \in Users :
                 /\ rows[u] # "none" => RowsAfter(c, s)[u] # "none"
                 /\ rows[u] = "onboarded" => RowsAfter(c, s)[u] = "onboarded"
BY DEF PathTyped, RowsAfter, RowStates

LEMMA AnswerTyped ==
    ASSUME PathTyped, NEW c \in Conns, NEW s, s.of \in Users \/ s.work # "look"
    PROVE  Answer(c, s) \in {"none", "new", "onboarded", "password"}
BY DEF PathTyped, Answer, RowStates

LEMMA RequestsAreClients ==
    Job \in Clients /\ \A r \in Requests : r \in Clients /\ r # Job
BY PathAssumption

(* What RequestHas says of a request, for each stage.                       *)
LEMMA HasNow ==
    ASSUME PathInv, NEW r \in Requests
    PROVE  /\ path[r] \in PathState /\ RequestHas(path[r], check[r].pc, session[r], rows)
           /\ check[r].pc # "none" => path[r].pc = "token" /\ session[r].pc = "out"
                                      /\ path[r].user \in Users
           /\ path[r].pc # "token" => check[r].pc = "none" /\ path[r].user \in Users
           /\ session[r].pc # "out" => path[r].pc \in Asking /\ check[r].pc = "none"
                                      /\ path[r].user \in Users
<1>1. path[r] \in PathState /\ RequestHas(path[r], check[r].pc, session[r], rows)
  BY DEF PathInv, PathTyped, RequestsHave
<1> QED
  BY <1>1 DEF RequestHas, Asking

-----------------------------------------------------------------------------
(* The steps of the token check.                                            *)
LEMMA ArriveKeeps ==
    ASSUME PathInv, KeysInv, NEW r \in Requests, NEW u \in Users, NEW kind \in Kinds, NEW kid \in Kids,
           NEW sound \in BOOLEAN, Arrive(r, u, kind, kid, sound)
    PROVE  PathInv'
<1> DEFINE w == [NoPath EXCEPT !.user = u, !.kind = kind]
<1>1. /\ path' = [path EXCEPT ![r] = w] /\ path[r].pc = "token" /\ Present(r, kid, sound)
      /\ UNCHANGED <<session, rows, known_users, onboarded_users>>
  BY DEF Arrive, poolVars
<1>2. w \in PathState /\ w.pc = "token" /\ w.user = u /\ w.answer = "none"
  BY ArriveFields
<1>3. \A q \in Requests : q # r => ChecksOn(q) /\ session'[q] = session[q]
  BY <1>1 DEF Present, ChecksOn, KeysInv, KeysTyped
<1>4. session'[r].pc = "out"
  BY <1>1, HasNow DEF Asking
<1>5. RowsGrow /\ KnownRows'
  BY <1>1, SameRows, KnownStill
<1> HIDE DEF w
<1>6. RequestHas(w, check'[r].pc, session'[r], rows')
  BY <1>2, <1>4 DEF RequestHas
<1> QED
  BY <1>1, <1>2, <1>3, <1>5, <1>6, MoveKeepsInv

LEMMA CheckTokenKeeps ==
    ASSUME PathInv, KeysInv, NEW r \in Requests, CheckToken(r) PROVE PathInv'
<1>1. UNCHANGED <<session, rows, path, known_users, onboarded_users>>
  BY DEF CheckToken, poolVars, pathOnly
<1>2. \A q \in Requests : ChecksOn(q) /\ session'[q] = session[q]
  BY <1>1, CheckTokenFields DEF CheckToken
<1> QED
  BY <1>1, <1>2, SameRows, KnownStill, StillKeepsInv

LEMMA RefuseKeeps == ASSUME PathInv, KeysInv, NEW r \in Requests, Refuse(r) PROVE PathInv'
<1>1. UNCHANGED <<session, rows, known_users, onboarded_users>> /\ End(r) /\ LeaveCheck(r)
      /\ check[r].pc # "none"
  BY DEF Refuse, poolVars
<1>2. session'[r].pc = "out"
  BY <1>1, HasNow
<1>3. check'[r].pc = "none" /\ \A q \in Requests : ChecksOn(q)
  BY <1>1, LeaveFields
<1> QED
  BY <1>1, <1>2, <1>3, EndOfPathKeepsInv

LEMMA AdmitKeeps == ASSUME PathInv, KeysInv, NEW r \in Requests, Admit(r) PROVE PathInv'
<1> DEFINE pc == IF path[r].user \in known_users THEN "next" ELSE "insert"
<1>1. /\ UNCHANGED <<session, rows, known_users, onboarded_users>> /\ LeaveCheck(r)
      /\ check[r].pc # "none" /\ Continue(r, pc)
  BY DEF Admit, poolVars
<1>2. session'[r].pc = "out" /\ path[r].user \in Users
  BY <1>1, HasNow
<1>3. check'[r].pc = "none" /\ \A q \in Requests : ChecksOn(q) /\ session'[q] = session[q]
  BY <1>1, LeaveFields
<1>4. KnownRows'
  BY <1>1, SameRows, KnownStill
<1>5. pc \in PathStages /\ pc # "handler"
  BY DEF PathStages, Asking
<1>6. pc \in {"next", "look", "password", "stamp"} => rows[path[r].user] # "none"
  BY <1>2 DEF PathInv, KnownRows
<1> HIDE DEF pc
<1> QED
  BY <1>1, <1>2, <1>3, <1>4, <1>5, <1>6, ContinueKeepsInv

LEMMA DecideKeeps == ASSUME PathInv, NEW r \in Requests, Decide(r) PROVE PathInv'
<1> DEFINE pc == CASE path[r].kind = "onboarding" -> "password"
                   [] path[r].user \in onboarded_users -> "handler"
                   [] OTHER -> "look"
<1>1. /\ UNCHANGED <<check, session, rows, known_users, onboarded_users>>
      /\ path[r].pc = "next" /\ Continue(r, pc)
  BY DEF Decide, poolVars, keyVars
<1>2. /\ path[r].user \in Users /\ check[r].pc = "none" /\ rows[path[r].user] # "none"
      /\ session[r].pc = "out"
  BY <1>1, HasNow DEF RequestHas, Asking
<1>3. \A q \in Requests : ChecksOn(q) /\ session'[q] = session[q]
  BY <1>1 DEF ChecksOn
<1>4. KnownRows'
  BY <1>1, SameRows, KnownStill
<1>5. pc \in {"password", "handler", "look"}
  OBVIOUS
<1>6. pc = "handler" => path[r].user \in onboarded_users
  BY Zenon
<1>7. pc = "handler" => rows[path[r].user] = "onboarded"
  BY <1>2, <1>6 DEF PathInv, KnownRows
<1> HIDE DEF pc
<1>8. pc \in PathStages
  BY <1>5 DEF PathStages, Asking
<1> QED
  BY <1>1, <1>2, <1>3, <1>4, <1>7, <1>8, ContinueKeepsInv

-----------------------------------------------------------------------------
(* The steps of the queries.                                                *)
LEMMA SessionMoves ==
    ASSUME PathInv, NEW r \in Requests,
           \A q \in Requests : q # r => session'[q] = session[q],
           UNCHANGED <<check, path, rows, known_users, onboarded_users>>,
           RequestHas(path[r], check[r].pc, session'[r], rows)
    PROVE  PathInv'
<1>1. path[r] \in PathState /\ path' = [path EXCEPT ![r] = path[r]]
  BY DEF PathInv, PathTyped
<1>2. \A q \in Requests : q # r => ChecksOn(q) /\ session'[q] = session[q]
  BY DEF ChecksOn
<1>3. RowsGrow /\ KnownRows'
  BY SameRows, KnownStill
<1>4. RequestHas(path[r], check'[r].pc, session'[r], rows')
  OBVIOUS
<1> HIDE DEF RequestHas
<1> DEFINE w == path[r]
<1>5. w \in PathState /\ path' = [path EXCEPT ![r] = w] /\ RequestHas(w, check'[r].pc, session'[r], rows')
  BY <1>1, <1>4
<1> HIDE DEF w
<1> QED
  BY <1>2, <1>3, <1>5, MoveKeepsInv

LEMMA OthersOnly ==
    ASSUME PathInv, UNCHANGED <<check, path, rows, known_users, onboarded_users>>,
           \A q \in Requests : session'[q] = session[q]
    PROVE  PathInv'
<1>1. \A q \in Requests : ChecksOn(q) /\ session'[q] = session[q]
  BY DEF ChecksOn
<1> QED
  BY <1>1, SameRows, KnownStill, StillKeepsInv

LEMMA CheckoutKeeps ==
    ASSUME PathInv, PoolInv, CheckoutJob \/ \E r \in Requests : CheckoutFor(r)
    PROVE  PathInv'
<1>0. session \in [Clients -> SessionState]
  BY DEF PoolInv, PoolTyped
<1>1. CASE CheckoutJob
  <2>1. \A q \in Requests : session'[q] = session[q]
    BY <1>0, <1>1, RequestsAreClients DEF CheckoutJob, Checkout
  <2> QED
    BY <1>1, <2>1, OthersOnly DEF CheckoutJob, keyVars, pathOnly
<1>2. ASSUME NEW r \in Requests, CheckoutFor(r) PROVE PathInv'
  <2>1. /\ path[r].pc \in Asking /\ UNCHANGED <<check, path, rows, known_users, onboarded_users>>
    BY <1>2 DEF CheckoutFor, keyVars, pathOnly, Asking
  <2>2. PICK c \in Conns : Checkout(r, c, IdentityOf(r), WorkOf(r), path[r].user)
    BY <1>2 DEF CheckoutFor
  <2>3. /\ session'[r] = [pc |-> "set", conn |-> c, as |-> IdentityOf(r), work |-> WorkOf(r),
                           of |-> path[r].user]
        /\ \A q \in Requests : q # r => session'[q] = session[q]
    BY <1>0, <2>2, RequestsAreClients DEF Checkout
  <2>4. IdentityOf(r) = Identity(path[r]) /\ WorkOf(r) = Work(path[r])
    BY DEF IdentityOf, WorkOf, Identity, Work
  <2>5. RequestHas(path[r], check[r].pc, session'[r], rows)
    BY <2>1, <2>3, <2>4, HasNow DEF RequestHas
  <2> QED
    BY <2>1, <2>3, <2>5, SessionMoves
<1> QED
  BY <1>1, <1>2

LEMMA AskKeeps ==
    ASSUME PathInv, PoolInv, NEW p \in Clients, Ask(p) PROVE PathInv'
<1> DEFINE d == [session[p] EXCEPT !.pc = "asked"]
<1>0. session \in [Clients -> SessionState] /\ session[p] \in SessionState
  BY DEF PoolInv, PoolTyped
<1>1. /\ session' = [session EXCEPT ![p] = d] /\ session[p].pc # "out"
      /\ UNCHANGED <<check, path, rows, known_users, onboarded_users>>
  BY DEF Ask, Query, keyVars, pathOnly
<1>2. /\ d.pc = "asked" /\ d.as = session[p].as /\ d.work = session[p].work
      /\ d.of = session[p].of
  BY <1>0, ServedFields DEF Stages
<1> HIDE DEF d
<1>3. session'[p] = d /\ \A q \in Requests : q # p => session'[q] = session[q]
  BY <1>0, <1>1, RequestsAreClients
<1>4. CASE p \in Requests
  <2>1. RequestHas(path[p], check[p].pc, session'[p], rows)
    BY <1>1, <1>2, <1>3, <1>4, HasNow DEF RequestHas
  <2> QED
    BY <1>1, <1>3, <1>4, <2>1, SessionMoves
<1>5. CASE p \notin Requests
  BY <1>1, <1>3, <1>5, OthersOnly
<1> QED
  BY <1>4, <1>5

LEMMA GiveBackFields ==
    ASSUME PoolInv, NEW p \in Clients, GiveBack(p)
    PROVE  session'[p].pc = "out" /\ \A q \in Requests : q # p => session'[q] = session[q]
<1>0. session \in [Clients -> SessionState]
  BY DEF PoolInv, PoolTyped
<1> QED
  BY <1>0, NoSessionTyped, RequestsAreClients DEF GiveBack

LEMMA DoneJobKeeps == ASSUME PathInv, PoolInv, DoneJob PROVE PathInv'
<1>1. GiveBack(Job) /\ UNCHANGED <<check, path, rows, known_users, onboarded_users>>
  BY DEF DoneJob, Done, keyVars, pathOnly
<1>2. \A q \in Requests : session'[q] = session[q]
  BY <1>1, GiveBackFields, RequestsAreClients
<1> QED
  BY <1>1, <1>2, OthersOnly

LEMMA DropRequestKeeps ==
    ASSUME PathInv, KeysInv, PoolInv, NEW r \in Requests, DropRequest(r) PROVE PathInv'
<1>1. End(r) /\ UNCHANGED <<rows, known_users, onboarded_users>>
  BY DEF DropRequest
<1>2. session'[r].pc = "out" /\ \A q \in Requests : q # r => session'[q] = session[q]
  <2>1. CASE session[r].pc = "out"
    BY <2>1 DEF DropRequest, poolVars
  <2>2. CASE session[r].pc # "out"
    <3>1. GiveBack(r)
      BY <2>2 DEF DropRequest, Drop
    <3> QED
      BY <3>1, GiveBackFields, RequestsAreClients
  <2> QED
    BY <2>1, <2>2
<1>3. check'[r].pc = "none" /\ \A q \in Requests : ChecksOn(q)
  <2>1. CASE check[r].pc = "none"
    BY <2>1 DEF DropRequest, keyVars, ChecksOn
  <2>2. CASE check[r].pc # "none"
    BY <2>2, LeaveFields DEF DropRequest
  <2> QED
    BY <2>1, <2>2
<1> QED
  BY <1>1, <1>2, <1>3, EndOfPathKeepsInv

(* What has been found of a user is remembered when the answer is there.     *)
LEMMA ProceedKeeps ==
    ASSUME PathInv, PoolInv, NEW r \in Requests, Proceed(r) PROVE PathInv'
<1> DEFINE u == path[r].user
           a == path[r].answer
<1>1. /\ session[r].pc = "served" /\ GiveBack(r) /\ UNCHANGED <<check, rows>>
  BY DEF Proceed, Answered, Done, keyVars
<1>2. session'[r].pc = "out" /\ \A q \in Requests : q # r => session'[q] = session[q]
  BY <1>1, GiveBackFields, RequestsAreClients
<1>3. /\ RequestHas(path[r], check[r].pc, session[r], rows)
      /\ u \in Users /\ check'[r].pc = "none" /\ \A q \in Requests : ChecksOn(q)
  BY <1>1, HasNow DEF ChecksOn
<1>4. ASSUME NEW pc \in PathStages, Continue(r, pc), KnownRows',
             pc \in {"next", "look", "password", "stamp"} => rows[u] # "none",
             pc = "handler" => rows[u] = "onboarded"
      PROVE  PathInv'
  BY <1>1, <1>2, <1>3, <1>4, ContinueKeepsInv
<1>5. ASSUME UNCHANGED <<known_users, onboarded_users>> PROVE KnownRows'
  BY <1>1, <1>5, SameRows, KnownStill
<1>6. ASSUME rows[u] # "none", known_users' = known_users \cup {u}, onboarded_users' = onboarded_users
      PROVE  KnownRows'
  BY <1>1, <1>6 DEF PathInv, KnownRows
<1>7. ASSUME rows[u] = "onboarded", onboarded_users' = onboarded_users \cup {u},
             known_users' = known_users
      PROVE  KnownRows'
  BY <1>1, <1>7 DEF PathInv, KnownRows
<1>s. {"next", "handler", "password", "stamp"} \subseteq PathStages
  BY DEF PathStages, Asking
<1>8. CASE path[r].pc = "insert"
  <2>1. rows[u] # "none"
    BY <1>1, <1>3, <1>8 DEF RequestHas
  <2>2. known_users' = known_users \cup {u} /\ Continue(r, "next") /\ onboarded_users' = onboarded_users
    BY <1>8 DEF Proceed
  <2> QED
    BY <1>4, <1>6, <1>s, <2>1, <2>2
<1>9. CASE path[r].pc = "look" /\ a = "onboarded"
  <2>1. rows[u] = "onboarded"
    BY <1>3, <1>9 DEF RequestHas
  <2>2. onboarded_users' = onboarded_users \cup {u} /\ Continue(r, "handler") /\ known_users' = known_users
    BY <1>9 DEF Proceed
  <2> QED
    BY <1>4, <1>7, <1>s, <2>1, <2>2
<1>10. CASE path[r].pc = "look" /\ a = "new"
  <2>1. rows[u] # "none"
    BY <1>3, <1>10 DEF RequestHas
  <2>2. Continue(r, "password") /\ UNCHANGED <<known_users, onboarded_users>>
    BY <1>10 DEF Proceed
  <2> QED
    BY <1>4, <1>5, <1>s, <2>1, <2>2
<1>11. CASE path[r].pc = "password" /\ a = "password"
  <2>1. rows[u] # "none"
    BY <1>3, <1>11 DEF RequestHas
  <2>2. Continue(r, "stamp") /\ UNCHANGED <<known_users, onboarded_users>>
    BY <1>11 DEF Proceed
  <2> QED
    BY <1>4, <1>5, <1>s, <2>1, <2>2
<1>12. CASE path[r].pc = "stamp" /\ path[r].kind = "protected"
  <2>1. rows[u] = "onboarded"
    BY <1>1, <1>3, <1>12 DEF RequestHas
  <2>2. onboarded_users' = onboarded_users \cup {u} /\ Continue(r, "handler") /\ known_users' = known_users
    BY <1>12 DEF Proceed
  <2> QED
    BY <1>4, <1>7, <1>s, <2>1, <2>2
<1>13. CASE /\ path[r].pc # "insert"
            /\ ~(path[r].pc = "look" /\ a = "onboarded") /\ ~(path[r].pc = "look" /\ a = "new")
            /\ ~(path[r].pc = "password" /\ a = "password")
            /\ ~(path[r].pc = "stamp" /\ path[r].kind = "protected")
  <2>1. End(r) /\ UNCHANGED <<known_users, onboarded_users>>
    BY <1>13 DEF Proceed
  <2> QED
    BY <1>1, <1>2, <1>3, <2>1, EndOfPathKeepsInv
<1> QED
  BY <1>8, <1>9, <1>10, <1>11, <1>12, <1>13

(* The answer of a query is true when it is given, and the table only gains. *)
LEMMA QueryServed ==
    ASSUME PathTyped, RowsGrow, NEW c \in Conns, NEW s, NEW w \in PathState, w.user \in Users,
           w.pc \in Asking, s.kind = "query", s.work = Work(w), s.of = w.user,
           settings[c] = SettingsOf(Identity(w)), rows' = RowsAfter(c, s)
    PROVE  /\ Answer(c, s) \in {"none", "new", "onboarded", "password"}
           /\ w.pc = "look" /\ Answer(c, s) = "onboarded" => rows'[w.user] = "onboarded"
           /\ w.pc = "insert" => rows'[w.user] # "none"
           /\ w.pc = "stamp" /\ rows[w.user] # "none" => rows'[w.user] = "onboarded"
<1>0. rows \in [Users -> RowStates] /\ s.of \in Users
  BY DEF PathTyped
<1>1. Answer(c, s) \in {"none", "new", "onboarded", "password"}
  BY <1>0, AnswerTyped
<1>2. ASSUME w.pc \in {"insert", "look", "stamp"}
      PROVE  s.work = w.pc /\ Visible(c, s.of)
  <2>1. s.work = w.pc /\ Identity(w) = w.user
    BY <1>2 DEF Work, Identity
  <2>2. settings[c].user = w.user
    BY <2>1 DEF SettingsOf
  <2> QED
    BY <2>1, <2>2 DEF Visible
<1>3. ASSUME w.pc = "look", Answer(c, s) = "onboarded" PROVE rows'[w.user] = "onboarded"
  <2>1. Answer(c, s) = rows[w.user]
    BY <1>2, <1>3 DEF Answer
  <2> QED
    BY <1>3, <2>1 DEF RowsGrow
<1>4. ASSUME w.pc = "insert" PROVE rows'[w.user] # "none"
  <2>1. CASE rows[w.user] = "none"
    <3>1. rows' = [rows EXCEPT ![w.user] = "new"]
      BY <1>2, <1>4, <2>1 DEF RowsAfter
    <3> QED
      BY <1>0, <3>1
  <2>2. CASE rows[w.user] # "none"
    BY <2>2 DEF RowsGrow
  <2> QED
    BY <2>1, <2>2
<1>5. ASSUME w.pc = "stamp", rows[w.user] # "none" PROVE rows'[w.user] = "onboarded"
  <2>1. rows' = [rows EXCEPT ![w.user] = "onboarded"]
    BY <1>2, <1>5 DEF RowsAfter
  <2> QED
    BY <1>0, <2>1
<1> QED
  BY <1>1, <1>3, <1>4, <1>5

LEMMA ServePathKeeps ==
    ASSUME PathInv, PoolInv, NEW c \in Conns, ServePath(c) PROVE PathInv'
<1> DEFINE s == Head(sent[c])
           r == owner[c]
           w == path[r]
           d == [w EXCEPT !.answer = Answer(c, s)]
<1>0. /\ PathTyped /\ session \in [Clients -> SessionState] /\ sent[c] # <<>>
      /\ sent[c] \in Seq(Statements)
  BY DEF PathInv, PoolInv, PoolTyped, ServePath, Serve
<1>1. /\ rows' = RowsAfter(c, s) /\ UNCHANGED <<check, known_users, onboarded_users>>
      /\ path' = IF r \in Requests /\ s.kind = "query" /\ Waits(r, c)
                 THEN [path EXCEPT ![r] = d] ELSE path
  BY DEF ServePath, keyVars
<1>2. RowsGrow
  BY <1>0, <1>1, RowsTyped DEF RowsGrow
<1>3. KnownRows'
  BY <1>1, <1>2, KnownStill
<1>4. ASSUME NEW q \in Requests, ~Waits(q, c) PROVE session'[q] = session[q]
  BY <1>4, RequestsAreClients DEF ServePath, Serve
<1>5. \A q \in Requests : q # r => ChecksOn(q) /\ session'[q] = session[q]
  BY <1>1, <1>4 DEF Waits, ChecksOn
<1>6. CASE r \notin Requests \/ ~Waits(r, c)
  <2>1. path' = path /\ \A q \in Requests : ChecksOn(q) /\ session'[q] = session[q]
    BY <1>1, <1>4, <1>6 DEF Waits, ChecksOn
  <2> QED
    BY <1>2, <1>3, <2>1, StillKeepsInv
<1>7. CASE r \in Requests /\ Waits(r, c)
  <2>0. r \in Clients /\ r # Free /\ session[r].conn = c
    BY <1>7, RequestsAreClients, PoolAssumption DEF PoolInv, ConnHasSession
  <2>1. /\ session'[r] = [session[r] EXCEPT !.pc = IF session[r].pc = "set" THEN "ready" ELSE "served"]
        /\ session[r].pc \in {"set", "asked"} /\ Len(sent[c]) = 1
    BY <1>7, <2>0 DEF ServePath, Serve, Waits
  <2>2. /\ session'[r].pc = IF session[r].pc = "set" THEN "ready" ELSE "served"
        /\ session'[r].as = session[r].as /\ session'[r].work = session[r].work
        /\ session'[r].of = session[r].of
    <3>1. session[r] \in SessionState
      BY <1>0, <2>0
    <3>2. CASE session[r].pc = "set"
      <4>1. session'[r] = [session[r] EXCEPT !.pc = "ready"]
        BY <2>1, <3>2
      <4> QED
        BY <3>1, <3>2, <4>1, ServedFields DEF Stages
    <3>3. CASE session[r].pc # "set"
      <4>1. session'[r] = [session[r] EXCEPT !.pc = "served"]
        BY <2>1, <3>3
      <4> QED
        BY <3>1, <3>3, <4>1, ServedFields DEF Stages
    <3> QED
      BY <3>2, <3>3
  <2>3. /\ w \in PathState /\ RequestHas(w, check[r].pc, session[r], rows)
        /\ w.pc \in Asking /\ w.user \in Users /\ check[r].pc = "none"
    BY <1>7, <2>1, HasNow
  <2>4. s = Last1(sent[c]) /\ s = sent[c][1] /\ 1 \in 1..Len(sent[c])
    BY <1>0, <2>1, Popped
  <2>5. CASE session[r].pc = "set"
    <3>1. s.kind = "set"
      <4>1. s = SetStatement(session[r].as)
        BY <2>0, <2>4, <2>5 DEF PoolInv, WaitsForLast
      <4> QED
        BY <4>1 DEF SetStatement
    <3>2. path' = [path EXCEPT ![r] = w]
      BY <1>0, <1>1, <1>7, <3>1 DEF PathTyped
    <3>3. RequestHas(w, check'[r].pc, session'[r], rows')
      <4>1. /\ rows[w.user] # "none" => rows'[w.user] # "none"
            /\ rows[w.user] = "onboarded" => rows'[w.user] = "onboarded"
        BY <1>2, <2>3 DEF RowsGrow
      <4> QED
        BY <1>1, <2>2, <2>3, <2>5, <4>1 DEF RequestHas
    <3> HIDE DEF r, w
    <3> QED
      BY <1>2, <1>3, <1>5, <1>7, <2>3, <3>2, <3>3, MoveKeepsInv
  <2>6. CASE session[r].pc = "asked"
    <3>1. s = QueryOf(r)
      BY <2>0, <2>4, <2>6 DEF PoolInv, WaitsForLast
    <3>2. /\ s.kind = "query" /\ s.as = session[r].as /\ s.work = session[r].work
          /\ s.of = session[r].of
      BY <3>1 DEF QueryOf
    <3>3. s.work = Work(w) /\ s.of = w.user /\ s.as = Identity(w)
      BY <2>3, <2>6, <3>2 DEF RequestHas
    <3>4. settings[c] = SettingsOf(Identity(w))
      BY <2>4, <3>2, <3>3 DEF PoolInv, QueriesAreNext
    <3> HIDE DEF s, w
    <3>5. /\ Answer(c, s) \in {"none", "new", "onboarded", "password"}
          /\ w.pc = "look" /\ Answer(c, s) = "onboarded" => rows'[w.user] = "onboarded"
          /\ w.pc = "insert" => rows'[w.user] # "none"
          /\ w.pc = "stamp" /\ rows[w.user] # "none" => rows'[w.user] = "onboarded"
      BY <1>0, <1>1, <1>2, <2>3, <3>2, <3>3, <3>4, QueryServed
    <3>6. /\ d \in PathState /\ d.pc = w.pc /\ d.user = w.user /\ d.answer = Answer(c, s)
      BY <2>3, <3>5, AnswerFields
    <3>7. path' = [path EXCEPT ![r] = d]
      BY <1>1, <1>7, <3>2
    <3> HIDE DEF d, r
    <3>8. RequestHas(d, check'[r].pc, session'[r], rows')
      <4>1. /\ rows[w.user] # "none" => rows'[w.user] # "none"
            /\ rows[w.user] = "onboarded" => rows'[w.user] = "onboarded"
        BY <1>2, <2>3 DEF RowsGrow
      <4>2. Identity(d) = Identity(w) /\ Work(d) = Work(w)
        BY <3>6 DEF Identity, Work
      <4>3. check'[r].pc = "none" /\ session'[r].pc = "served"
        BY <1>1, <2>2, <2>3, <2>6
      <4>4. session'[r].as = Identity(d) /\ session'[r].work = Work(d) /\ session'[r].of = d.user
        BY <2>2, <3>2, <3>3, <3>6, <4>2
      <4>5. w.pc \in {"next", "look", "password", "stamp"} => rows[w.user] # "none"
        BY <2>3 DEF RequestHas
      <4>6. w.pc = "handler" => rows[w.user] = "onboarded"
        BY <2>3 DEF RequestHas
      <4> QED
        BY <2>3, <3>5, <3>6, <4>1, <4>3, <4>4, <4>5, <4>6 DEF RequestHas
    <3> QED
      BY <1>2, <1>3, <1>5, <1>7, <3>6, <3>7, <3>8, MoveKeepsInv
  <2> QED
    BY <2>1, <2>5, <2>6
<1> QED
  BY <1>6, <1>7

LEMMA ServeFailsKeeps ==
    ASSUME PathInv, PoolInv, NEW c \in Conns, ServeFailsPath(c) PROVE PathInv'
<1> DEFINE r == owner[c]
<1>0. session \in [Clients -> SessionState]
  BY DEF PoolInv, PoolTyped
<1>1. /\ UNCHANGED <<check, rows, known_users, onboarded_users>>
      /\ path' = [q \in Requests |-> IF Waits(q, c) THEN NoPath ELSE path[q]]
  BY DEF ServeFailsPath, keyVars
<1>2. path \in [Requests -> PathState]
  BY DEF PathInv, PathTyped
<1>3. CASE \E p \in Clients : Waits(p, c)
  <2>1. PICK p \in Clients : Waits(p, c)
    BY <1>3
  <2>2. r = p /\ session[p].conn = c /\ session[p].pc # "out" /\ p # Free
    BY <2>1, PoolAssumption DEF Waits, PoolInv, ConnHasSession
  <2>3. GiveBack(p)
    BY <1>3, <2>2 DEF ServeFailsPath, ServeFails
  <2>4. session'[p].pc = "out" /\ \A q \in Requests : q # p => session'[q] = session[q]
    BY <2>3, GiveBackFields
  <2>5. \A q \in Requests : q # p => ~Waits(q, c)
    BY <2>2 DEF Waits
  <2>6. CASE p \in Requests
    <3>1. End(p)
      BY <1>1, <1>2, <2>1, <2>5, <2>6 DEF End
    <3>2. check'[p].pc = "none" /\ \A q \in Requests : q # p => ChecksOn(q) /\ session'[q] = session[q]
      BY <1>1, <2>2, <2>4, <2>6, HasNow DEF ChecksOn
    <3> QED
      BY <1>1, <2>4, <2>6, <3>1, <3>2, EndOfPathKeepsInv
  <2>7. CASE p \notin Requests
    <3>1. path' = path /\ \A q \in Requests : session'[q] = session[q]
      BY <1>1, <1>2, <2>4, <2>5, <2>7
    <3> QED
      BY <1>1, <3>1, OthersOnly
  <2> QED
    BY <2>6, <2>7
<1>4. CASE \A p \in Clients : ~Waits(p, c)
  <2>1. session' = session /\ path' = path
    BY <1>1, <1>2, <1>4, RequestsAreClients DEF ServeFailsPath, ServeFails
  <2> QED
    BY <1>1, <2>1, OthersOnly
<1> QED
  BY <1>3, <1>4

LEMMA FreshPath ==
    ASSUME PathTyped', path' = [r \in Requests |-> NoPath], check' = [r \in Requests |-> NoCheck],
           session' = [p \in Clients |-> NoSession], known_users' = {}, onboarded_users' = {}
    PROVE  PathInv'
<1>1. \A r \in Requests : RequestHas(path'[r], check'[r].pc, session'[r], rows')
  <2> SUFFICES ASSUME NEW r \in Requests
               PROVE  RequestHas(path'[r], check'[r].pc, session'[r], rows')
    OBVIOUS
  <2>1. path'[r] = NoPath /\ check'[r] = NoCheck /\ session'[r] = NoSession
    BY RequestsAreClients
  <2>2. NoPath.pc = "token" /\ NoCheck.pc = "none" /\ NoSession.pc = "out"
    BY NoPathTyped, NoCheckTyped, NoSessionTyped
  <2> QED
    BY <2>1, <2>2 DEF RequestHas, Asking
<1> QED
  BY <1>1 DEF PathInv, RequestsHave, KnownRows

LEMMA RestartKeeps == ASSUME PathInv, RestartPath PROVE PathInv'
<1>1. PathTyped'
  BY NoPathTyped DEF RestartPath, PathInv, PathTyped
<1> QED
  BY <1>1, FreshPath DEF RestartPath, RestartKeys, RestartPool

LEMMA PathInitially == PathInit => PathInv
<1> SUFFICES ASSUME PathInit PROVE PathInv
  OBVIOUS
<1>1. PathTyped
  BY NoPathTyped DEF PathInit, PathTyped, RowStates
<1>2. \A r \in Requests : RequestHas(path[r], check[r].pc, session[r], rows)
  <2> SUFFICES ASSUME NEW r \in Requests
               PROVE  RequestHas(path[r], check[r].pc, session[r], rows)
    OBVIOUS
  <2>1. path[r] = NoPath /\ check[r] = NoCheck /\ session[r] = NoSession
    BY RequestsAreClients DEF PathInit, KeysInit, PoolInit
  <2>2. NoPath.pc = "token" /\ NoCheck.pc = "none" /\ NoSession.pc = "out"
    BY NoPathTyped, NoCheckTyped, NoSessionTyped
  <2> QED
    BY <2>1, <2>2 DEF RequestHas, Asking
<1> QED
  BY <1>1, <1>2 DEF PathInit, PathInv, RequestsHave, KnownRows

LEMMA PathKeepsInv ==
    ASSUME PathInv, KeysInv, PoolInv, [PathNext]_pathVars PROVE PathInv'
<1>1. ASSUME NEW r \in Requests, NEW u \in Users, NEW kind \in Kinds, NEW kid \in Kids,
             NEW sound \in BOOLEAN, Arrive(r, u, kind, kid, sound)
      PROVE  PathInv'
  BY <1>1, ArriveKeeps
<1>2. ASSUME NEW r \in Requests, StepOf(r) PROVE PathInv'
  BY <1>2, RequestsAreClients, CheckTokenKeeps, RefuseKeeps, AdmitKeeps, DecideKeeps, AskKeeps,
     ProceedKeeps DEF StepOf
<1>3. ASSUME NEW r \in Requests, CheckoutFor(r) \/ DropRequest(r) PROVE PathInv'
  BY <1>3, CheckoutKeeps, DropRequestKeeps
<1>4. CASE CheckoutJob \/ Ask(Job) \/ DoneJob
  BY <1>4, RequestsAreClients, CheckoutKeeps, AskKeeps, DoneJobKeeps
<1>5. ASSUME NEW c \in Conns, ServePath(c) \/ ServeFailsPath(c) PROVE PathInv'
  BY <1>5, ServePathKeeps, ServeFailsKeeps
<1>6. ASSUME \/ \E c \in Conns : RecyclePath(c)
             \/ \E u \in Users : SetPassword(u)
             \/ KeysElsewhere \/ UNCHANGED pathVars
      PROVE  PathInv'
  <2>1. UNCHANGED <<check, path, rows, known_users, onboarded_users, session>>
    BY <1>6 DEF RecyclePath, Recycle, SetPassword, KeysElsewhere, InitLock, InitStore, TickKeys,
                Rotate, pathVars, keyVars, poolVars, pathOnly
  <2> QED
    BY <2>1, OthersOnly
<1>7. CASE RestartPath
  BY <1>7, RestartKeeps
<1> QED
  BY <1>1, <1>2, <1>3, <1>4, <1>5, <1>6, <1>7 DEF PathNext

-----------------------------------------------------------------------------
(* Every step of the path is one of the pool, or leaves it.                 *)
LEMMA PoolStep == ASSUME PathInv, PathNext PROVE [PoolNext]_poolVars
<1>1. ASSUME NEW r \in Requests, CheckoutFor(r) PROVE PoolNext
  <2>1. PICK c \in Conns : Checkout(r, c, IdentityOf(r), WorkOf(r), path[r].user)
    BY <1>1 DEF CheckoutFor
  <2>2. path[r].pc \in Asking /\ path[r].user \in Users
    BY <1>1, HasNow DEF CheckoutFor, Asking
  <2>3. IdentityOf(r) \in Identities /\ WorkOf(r) \in Works /\ path[r].user \in Users \cup {NoUser}
    BY <2>2 DEF IdentityOf, WorkOf, Identities, Works, Asking
  <2> QED
    BY <2>1, <2>3, RequestsAreClients DEF PoolNext
<1>2. CASE CheckoutJob
  <2>1. PICK c \in Conns : Checkout(Job, c, "admin", "other", NoSession.of)
    BY <1>2 DEF CheckoutJob
  <2>2. "admin" \in Identities /\ "other" \in Works /\ NoSession.of \in Users \cup {NoUser}
    BY DEF Identities, Works, NoSession
  <2> QED
    BY <2>1, <2>2, RequestsAreClients DEF PoolNext
<1>3. ASSUME NEW p \in Clients, Ask(p) PROVE PoolNext
  BY <1>3 DEF Ask, PoolNext
<1>4. ASSUME NEW r \in Requests, Proceed(r) PROVE PoolNext
  BY <1>4, RequestsAreClients DEF Proceed, Answered, PoolNext
<1>5. CASE DoneJob
  BY <1>5, RequestsAreClients DEF DoneJob, PoolNext
<1>6. ASSUME NEW r \in Requests, DropRequest(r) PROVE [PoolNext]_poolVars
  <2>1. Drop(r) \/ UNCHANGED poolVars
    BY <1>6 DEF DropRequest
  <2> QED
    BY <2>1, RequestsAreClients DEF PoolNext
<1>7. ASSUME NEW c \in Conns, ServePath(c) \/ ServeFailsPath(c) \/ RecyclePath(c) PROVE PoolNext
  BY <1>7 DEF ServePath, ServeFailsPath, RecyclePath, PoolNext
<1>8. CASE RestartPath
  BY <1>8 DEF RestartPath, PoolNext
<1>9. ASSUME \/ KeysElsewhere \/ \E u \in Users : SetPassword(u)
             \/ \E r \in Requests : CheckToken(r) \/ Refuse(r) \/ Admit(r) \/ Decide(r)
             \/ \E r \in Requests, u \in Users, kind \in Kinds, kid \in Kids, sound \in BOOLEAN :
                    Arrive(r, u, kind, kid, sound)
      PROVE  UNCHANGED poolVars
  BY <1>9 DEF KeysElsewhere, SetPassword, CheckToken, Refuse, Admit, Decide, Arrive
<1> QED
  BY <1>1, <1>2, <1>3, <1>4, <1>5, <1>6, <1>7, <1>8, <1>9, RequestsAreClients DEF PathNext, StepOf

(* What is known of the keys, the connections and the users' rows holds      *)
(* together all along the way from the middleware to the handler.           *)
THEOREM PathInvariant == PathSpec => [](PathInv /\ KeysInv /\ PoolInv)
<1> DEFINE All == PathInv /\ KeysInv /\ PoolInv
<1>1. PathInit => All
  BY PathInitially, KeysInitially, PoolInitially DEF PathInit
<1>2. All /\ KeysInv' /\ [PathNext]_pathVars => All'
  <2> SUFFICES ASSUME All, KeysInv', [PathNext]_pathVars PROVE All'
    OBVIOUS
  <2>1. PathInv'
    BY PathKeepsInv
  <2>2. [PoolNext]_poolVars
    <3>1. ASSUME UNCHANGED pathVars PROVE UNCHANGED poolVars
      BY <3>1 DEF pathVars
    <3> QED
      BY <3>1, PoolStep
  <2>3. PoolInv'
    BY <2>2, PoolKeepsInv
  <2> QED
    BY <2>1, <2>3
<1> QED
  BY <1>1, <1>2, PathKeysInv, PTL DEF PathSpec

(* The connections of RequestPath are those of ConnectionContext.           *)
THEOREM PathSharesPool == PathSpec => PoolSpec
<1>1. PathInit => PoolInit
  BY DEF PathInit
<1>2. PathInv /\ [PathNext]_pathVars => [PoolNext]_poolVars
  <2>1. ASSUME UNCHANGED pathVars PROVE UNCHANGED poolVars
    BY <2>1 DEF pathVars
  <2> QED
    BY <2>1, PoolStep
<1> QED
  BY <1>1, <1>2, PathInvariant, PTL DEF PathSpec, PoolSpec

(* A handler runs only for a user whose row is there and onboarded.         *)
THEOREM OnboardedOnly == PathSpec => []HandlersForOnboarded
<1>1. PathInv => HandlersForOnboarded
  BY DEF PathInv, RequestsHave, RequestHas, HandlersForOnboarded
<1> QED
  BY <1>1, PathInvariant, PTL

(* What holds of the keys and of the pool holds on the way of a request.     *)
THEOREM RequestsAreSafe ==
    PathSpec => []StableKeysAccepted /\ []QueriesRunAsTheirSender
BY PathChecksTokens, PathSharesPool, StableKeys, QueriesRunAsSender, PTL

-----------------------------------------------------------------------------
(* The rates a request waits for: one reload at a time, what memory holds    *)
(* against the table, and what a step may do to it.                          *)

(* TypeOK without the count of connections, which nothing below needs. *)
Types ==
    /\ now \in Times /\ memory \in Rates /\ saved \in Rates
    /\ lock \in Callers \cup {NoOne}
    /\ req \in [Callers -> [pc : CallerStages, kind : AllKinds, rates : Rates]]

(* What a request carries: before the upstream answers, the snapshot it read, *)
(* which memory cannot be ahead of; after, rates that are older than nothing. *)
Carries ==
    \A r \in Callers :
        /\ req[r].pc \in {"fetch", "publish"} => req[r].rates <= saved
        /\ req[r].pc \in {"fetch", "checkoutSave", "save", "publish"}
               => memory <= req[r].rates

(* Nothing is newer than the clock. *)
NotAhead ==
    memory <= now /\ saved <= now /\ \A r \in Callers : req[r].rates <= now

RatesInv ==
    /\ Types /\ OneReloadAtATime /\ ReloadsOnlyStaleRates /\ MemoryIsSaved
    /\ Carries /\ NotAhead

-----------------------------------------------------------------------------
LEMMA InitInv == Init => RatesInv
<1> SUFFICES ASSUME Init PROVE RatesInv
  OBVIOUS
<1>1. Types
  BY RatesAssumption DEF Init, Types, Idle, Times, Rates, NoRates, CallerStages, AllKinds
<1>2. \A r \in Callers : req[r].pc = "idle"
  BY DEF Init, Idle
<1>3. OneReloadAtATime /\ ReloadsOnlyStaleRates /\ Carries
  BY <1>2, RatesAssumption DEF Init, OneReloadAtATime, ReloadsOnlyStaleRates, Carries, Reloading
<1>4. MemoryIsSaved /\ NotAhead
  BY DEF Init, MemoryIsSaved, NotAhead, NoRates, Idle
<1> QED
  BY <1>1, <1>3, <1>4 DEF RatesInv

LEMMA StepTypes ==
    ASSUME Types, [Next]_vars
    PROVE  Types'
<1> USE RatesAssumption DEF Move, Types, Times, Rates, NoRates, CallerStages, Reloading, AllKinds, Idle
<1>1. ASSUME NEW r \in Callers, NEW kind \in CallerKinds, Start(r, kind) PROVE Types'
  BY <1>1 DEF Start
<1>2. ASSUME NEW r \in Callers, OwnConnection(r) PROVE Types'
  BY <1>2 DEF OwnConnection, Goto
<1>3. ASSUME NEW r \in Callers, Peek(r) PROVE Types'
  BY <1>3 DEF Peek, Goto, AnswerWith
<1>4. ASSUME NEW r \in Callers, Acquire(r) PROVE Types'
  BY <1>4 DEF Acquire, Goto, AnswerWith
<1>5. ASSUME NEW r \in Callers, CheckoutSecond(r) PROVE Types'
  BY <1>5 DEF CheckoutSecond, Goto
<1>6. ASSUME NEW r \in Callers, CheckoutTimeout(r) PROVE Types'
  BY <1>6 DEF CheckoutTimeout, Leave, Unlock
<1>7. ASSUME NEW r \in Callers, ReadSnapshot(r) PROVE Types'
  <2>1. CASE Fresh(saved) /\ ~Forced(r)
    BY <1>7, <2>1 DEF ReadSnapshot, AnswerWith, Unlock
  <2>2. CASE ~(Fresh(saved) /\ ~Forced(r))
    BY <1>7, <2>2 DEF ReadSnapshot
  <2> QED
    BY <2>1, <2>2
<1>8. ASSUME NEW r \in Callers, FetchSucceeds(r) PROVE Types'
  BY <1>8 DEF FetchSucceeds
<1>9. ASSUME NEW r \in Callers, FetchFails(r) PROVE Types'
  <2>1. req[r].rates \in Rates
    OBVIOUS
  <2>2. CASE req[r].rates = NoRates
    BY <1>9, <2>2 DEF FetchFails, Leave, Unlock
  <2>3. CASE req[r].rates # NoRates
    BY <1>9, <2>1, <2>3 DEF FetchFails, AnswerWith, Unlock
  <2> QED
    BY <2>2, <2>3
<1>10. ASSUME NEW r \in Callers, SaveSnapshot(r) PROVE Types'
  BY <1>10 DEF SaveSnapshot, Goto, Later
<1>11. ASSUME NEW r \in Callers, Publish(r) PROVE Types'
  BY <1>11 DEF Publish, AnswerWith, Unlock
<1>12. ASSUME NEW r \in Callers, Finish(r) PROVE Types'
  BY <1>12 DEF Finish, Leave
<1>13. ASSUME NEW r \in Callers, Abandon(r) PROVE Types'
  BY <1>13 DEF Abandon, Leave, Unlock
<1>14. CASE Restart
  BY <1>14 DEF Restart
<1>15. CASE ReplicaSaves
  BY <1>15 DEF ReplicaSaves
<1>16. CASE Tick
  BY <1>16 DEF Tick
<1>17. CASE UNCHANGED vars
  BY <1>17 DEF vars
<1> QED
  BY <1>1, <1>2, <1>3, <1>4, <1>5, <1>6, <1>7, <1>8, <1>9, <1>10, <1>11, <1>12, <1>13,
     <1>14, <1>15, <1>16, <1>17 DEF Next, Step

-----------------------------------------------------------------------------
(* What the actions of a request do to the invariant.  The holder of the     *)
(* lock is the one request that reloads, so nobody else's step moves memory. *)
LEMMA RequestKeepsInv ==
    ASSUME RatesInv, Types', NEW r \in Callers,
           Step(r) \/ Acquire(r) \/ Abandon(r) \/ (\E kind \in CallerKinds : Start(r, kind))
    PROVE  RatesInv'
<1> USE RatesAssumption DEF RatesInv, OneReloadAtATime, ReloadsOnlyStaleRates, MemoryIsSaved,
        Carries, NotAhead, Types, Times, Rates, NoRates, Reloading, Forced, Fresh, IsStale
<1>1. CASE OwnConnection(r)
  BY <1>1 DEF OwnConnection, Goto, Move
<1>2. CASE Peek(r)
  <2>1. CASE MemoryServes(r)
    BY <1>2, <2>1 DEF Peek, Goto, AnswerWith, Move
  <2>2. CASE ~(MemoryServes(r))
    BY <1>2, <2>2 DEF Peek, Goto, AnswerWith, Move
  <2> QED
    BY <2>1, <2>2
<1>3. CASE Acquire(r)
  <2>1. CASE MemoryServes(r)
    BY <1>3, <2>1 DEF Acquire, MemoryServes, Goto, AnswerWith, Move
  <2>2. CASE ~(MemoryServes(r))
    BY <1>3, <2>2 DEF Acquire, MemoryServes, Goto, AnswerWith, Move
  <2> QED
    BY <2>1, <2>2
<1>4. CASE CheckoutSecond(r)
  BY <1>4 DEF CheckoutSecond, Goto, Move
<1>5. CASE CheckoutTimeout(r)
  BY <1>5 DEF CheckoutTimeout, Leave, Idle, Unlock
<1>6. CASE ReadSnapshot(r)
  <2>1. CASE Fresh(saved) /\ ~Forced(r)
    BY <1>6, <2>1 DEF ReadSnapshot, AnswerWith, Move, Unlock
  <2>2. CASE ~(Fresh(saved) /\ ~Forced(r))
    <3>1. OneReloadAtATime'
      BY <1>6, <2>2 DEF ReadSnapshot, AnswerWith, Move, Unlock
    <3>2. ReloadsOnlyStaleRates'
      <4> SUFFICES ASSUME NEW x \in Callers, req'[x].pc \in Reloading, ~Forced(x)'
                   PROVE  ~Fresh(memory)'
        OBVIOUS
      <4>1. req[x].pc \in Reloading /\ ~Forced(x)
        BY <1>6, <2>2 DEF ReadSnapshot, Move
      <4>2. UNCHANGED <<now, memory>>
        BY <1>6, <2>2 DEF ReadSnapshot
      <4> QED
        BY <4>1, <4>2
    <3>3. MemoryIsSaved'
      BY <1>6, <2>2 DEF ReadSnapshot, AnswerWith, Move, Unlock
    <3>4. Carries'
      BY <1>6, <2>2 DEF ReadSnapshot, AnswerWith, Move, Unlock
    <3>5. NotAhead'
      BY <1>6, <2>2 DEF ReadSnapshot, AnswerWith, Move, Unlock
    <3> QED
      BY <3>1, <3>2, <3>3, <3>4, <3>5
  <2> QED
    BY <2>1, <2>2
<1>7. CASE FetchSucceeds(r)
  BY <1>7 DEF FetchSucceeds, Move
<1>8. CASE FetchFails(r)
  <2>1. CASE req[r].rates = NoRates
    BY <1>8, <2>1 DEF FetchFails, Leave, Idle, AnswerWith, Move, Unlock
  <2>2. CASE ~(req[r].rates = NoRates)
    <3>1. OneReloadAtATime'
      BY <1>8, <2>2 DEF FetchFails, Leave, Idle, AnswerWith, Move, Unlock
    <3>2. ReloadsOnlyStaleRates'
      BY <1>8, <2>2 DEF FetchFails, Leave, Idle, AnswerWith, Move, Unlock
    <3>3. MemoryIsSaved'
      BY <1>8, <2>2 DEF FetchFails, Leave, Idle, AnswerWith, Move, Unlock
    <3>4. Carries'
      BY <1>8, <2>2 DEF FetchFails, Leave, Idle, AnswerWith, Move, Unlock
    <3>5. NotAhead'
      BY <1>8, <2>2 DEF FetchFails, Leave, Idle, AnswerWith, Move, Unlock
    <3> QED
      BY <3>1, <3>2, <3>3, <3>4, <3>5
  <2> QED
    BY <2>1, <2>2
<1>9. CASE SaveSnapshot(r)
  <2>1. CASE saved > req[r].rates
    BY <1>9, <2>1 DEF SaveSnapshot, Goto, Move, Later
  <2>2. CASE ~(saved > req[r].rates)
    BY <1>9, <2>2 DEF SaveSnapshot, Goto, Move, Later
  <2> QED
    BY <2>1, <2>2
<1>10. CASE Publish(r)
  BY <1>10 DEF Publish, AnswerWith, Move, Unlock
<1>11. CASE Finish(r)
  BY <1>11 DEF Finish, Leave, Idle
<1>12. CASE Abandon(r)
  BY <1>12 DEF Abandon, Leave, Idle, Unlock
<1>13. ASSUME NEW kind \in CallerKinds, Start(r, kind) PROVE RatesInv'
  BY <1>13 DEF Start
<1> QED
  BY <1>1, <1>2, <1>3, <1>4, <1>5, <1>6, <1>7, <1>8, <1>9, <1>10, <1>11, <1>12, <1>13 DEF Step

LEMMA InvInductive == RatesInv /\ [Next]_vars => RatesInv'
<1> SUFFICES ASSUME RatesInv, [Next]_vars PROVE RatesInv'
  OBVIOUS
<1>1. Types'
  BY StepTypes DEF RatesInv
<1>2. ASSUME NEW r \in Callers,
             Step(r) \/ Acquire(r) \/ Abandon(r) \/ (\E kind \in CallerKinds : Start(r, kind))
      PROVE  RatesInv'
  BY <1>1, <1>2, RequestKeepsInv
<1> USE RatesAssumption DEF RatesInv, OneReloadAtATime, ReloadsOnlyStaleRates, MemoryIsSaved,
        Carries, NotAhead, Types, Times, Rates, NoRates, Forced, Fresh, IsStale
<1>3. CASE Restart
  BY <1>1, <1>3 DEF Restart, Idle, Reloading
<1>4. CASE ReplicaSaves
  BY <1>1, <1>4 DEF ReplicaSaves
<1>5. CASE Tick
  BY <1>1, <1>5 DEF Tick
<1>6. CASE UNCHANGED vars
  BY <1>1, <1>6 DEF vars
<1> QED
  BY <1>2, <1>3, <1>4, <1>5, <1>6 DEF Next

LEMMA RatesInvariant == Spec => []RatesInv
  BY InitInv, InvInductive, PTL DEF Spec

(* Exactly the holder of REFRESH_LOCK reloads, however requests time out,    *)
(* fail or are dropped while they wait or hold it.                          *)
THEOREM OneReload == Spec => []OneReloadAtATime
<1>1. RatesInv => OneReloadAtATime
  BY DEF RatesInv
<1> QED
  BY <1>1, RatesInvariant, PTL

(* Nobody who was not forced reloads while the rates in memory are fresh.   *)
THEOREM OnlyStaleRates == Spec => []ReloadsOnlyStaleRates
<1>1. RatesInv => ReloadsOnlyStaleRates
  BY DEF RatesInv
<1> QED
  BY <1>1, RatesInvariant, PTL

(* What is served from memory has been saved before.                        *)
THEOREM MemorySaved == Spec => []MemoryIsSaved
<1>1. RatesInv => MemoryIsSaved
  BY DEF RatesInv
<1> QED
  BY <1>1, RatesInvariant, PTL

-----------------------------------------------------------------------------
LEMMA RequestKeepsMemory ==
    ASSUME RatesInv, NEW r \in Callers, Step(r) \/ Acquire(r) \/ Abandon(r)
    PROVE  memory' >= memory
<1> USE DEF RatesInv, Types, Times, Rates, NoRates, Carries, MemoryIsSaved
<1>1. CASE ReadSnapshot(r)
  BY <1>1, RatesAssumption DEF ReadSnapshot
<1>2. CASE FetchFails(r)
  BY <1>2, RatesAssumption DEF FetchFails
<1>3. CASE Publish(r)
  BY <1>3, RatesAssumption DEF Publish
<1>4. CASE UNCHANGED memory
  BY <1>4, RatesAssumption
<1> QED
  BY <1>1, <1>2, <1>3, <1>4 DEF Step, OwnConnection, Peek, CheckoutSecond, CheckoutTimeout,
     FetchSucceeds, SaveSnapshot, Finish, Acquire, Abandon

(* Short of a restart, what is in memory is replaced only by rates at least  *)
(* as new: by a fresh answer, by the table's, or by a stale snapshot after a *)
(* failed call.                                                             *)
THEOREM NeverGoesBack == Spec => MemoryNeverGoesBack
<1>1. RatesInv /\ [Next]_vars
        => [\/ memory' >= memory
            \/ memory' = NoRates /\ \A r \in Callers : req'[r] = Idle]_vars
  <2> SUFFICES ASSUME RatesInv, Next
               PROVE  \/ memory' >= memory
                      \/ memory' = NoRates /\ \A r \in Callers : req'[r] = Idle
    OBVIOUS
  <2>1. CASE Restart
    BY <2>1 DEF Restart
  <2>2. ASSUME NEW r \in Callers, Step(r) \/ Acquire(r) \/ Abandon(r)
        PROVE  memory' >= memory
    BY <2>2, RequestKeepsMemory
  <2>3. CASE UNCHANGED memory
    BY <2>3, RatesAssumption DEF RatesInv, Types, Times, Rates, NoRates
  <2> QED
    BY <2>1, <2>2, <2>3 DEF Next, Start, ReplicaSaves, Tick
<1> QED
  BY <1>1, RatesInvariant, PTL DEF Spec, MemoryNeverGoesBack

(* A request that takes rates from memory or from the table takes fresh ones. *)
THEOREM StaleOnlyOnFailure == Spec => StaleOnlyIfUpstreamFails
<1>1. RatesInv /\ [Next]_vars
        => [\A r \in Callers :
              req[r].pc \in {"peek", "lock", "read"} /\ req'[r].pc = "rest"
                  => Fresh(req'[r].rates)]_vars
  <2> SUFFICES ASSUME RatesInv, Next, NEW r \in Callers,
                      req[r].pc \in {"peek", "lock", "read"}, req'[r].pc = "rest"
               PROVE  Fresh(req'[r].rates)
    OBVIOUS
  <2> USE DEF RatesInv, Types
  <2>1. ASSUME NEW x \in Callers, Step(x) \/ Acquire(x) \/ Abandon(x) PROVE Fresh(req'[r].rates)
    BY <2>1 DEF Step, OwnConnection, Peek, CheckoutSecond, CheckoutTimeout, ReadSnapshot,
       FetchSucceeds, FetchFails, SaveSnapshot, Publish, Finish, Acquire, Abandon,
       Goto, AnswerWith, Move, Leave, Idle, MemoryServes
  <2>2. ASSUME NEW x \in Callers, NEW kind \in CallerKinds, Start(x, kind) PROVE Fresh(req'[r].rates)
    BY <2>2 DEF Start
  <2>3. CASE Restart \/ ReplicaSaves \/ Tick
    BY <2>3 DEF Restart, ReplicaSaves, Tick, Idle
  <2> QED
    BY <2>1, <2>2, <2>3 DEF Next
<1> QED
  BY <1>1, RatesInvariant, PTL DEF Spec, StaleOnlyIfUpstreamFails

-----------------------------------------------------------------------------
(* Every step of a request is a step of the abstract reload or changes       *)
(* neither memory, nor the table, nor the lock.                             *)
LEMMA RequestImplements ==
    ASSUME RatesInv, NEW r \in Callers, Step(r) \/ Acquire(r) \/ Abandon(r)
    PROVE  RatesCopy!Next \/ UNCHANGED <<saved, memory, lock>>
<1> USE DEF RatesInv, Types, Times, Rates, NoRates, Carries, MemoryIsSaved, OneReloadAtATime
<1>1. CASE Acquire(r)
  BY <1>1 DEF Acquire, RatesCopy!Next, RatesCopy!Begin
<1>2. CASE ReadSnapshot(r)
  <2>1. lock = r
    BY <1>2 DEF ReadSnapshot, Reloading
  <2>2. CASE Fresh(saved) /\ ~Forced(r)
    <3>1. RatesCopy!Publish(r)
      BY <1>2, <2>1, <2>2, RatesAssumption DEF ReadSnapshot, Unlock, RatesCopy!Publish
    <3> QED
      BY <3>1 DEF RatesCopy!Next
  <2>3. CASE ~(Fresh(saved) /\ ~Forced(r))
    BY <1>2, <2>3 DEF ReadSnapshot
  <2> QED
    BY <2>2, <2>3
<1>3. CASE FetchFails(r)
  <2>1. lock = r
    BY <1>3 DEF FetchFails, Reloading
  <2>2. CASE req[r].rates = NoRates
    <3>1. RatesCopy!GiveUp(r)
      BY <1>3, <2>1, <2>2 DEF FetchFails, Unlock, RatesCopy!GiveUp
    <3> QED
      BY <3>1 DEF RatesCopy!Next
  <2>3. CASE req[r].rates # NoRates
    <3>1. RatesCopy!Publish(r)
      BY <1>3, <2>1, <2>3, RatesAssumption DEF FetchFails, Unlock, RatesCopy!Publish
    <3> QED
      BY <3>1 DEF RatesCopy!Next
  <2> QED
    BY <2>2, <2>3
<1>4. CASE SaveSnapshot(r)
  <2>1. RatesCopy!Renew
    BY <1>4, RatesAssumption DEF SaveSnapshot, Later, RatesCopy!Renew
  <2> QED
    BY <2>1 DEF RatesCopy!Next
<1>5. CASE Publish(r)
  <2>1. lock = r
    BY <1>5 DEF Publish, Reloading
  <2>2. RatesCopy!Publish(r)
    BY <1>5, <2>1, RatesAssumption DEF Publish, Unlock, RatesCopy!Publish
  <2> QED
    BY <2>2 DEF RatesCopy!Next
<1>6. CASE CheckoutTimeout(r) \/ Abandon(r)
  <2>1. CASE lock = r
    <3>1. RatesCopy!GiveUp(r)
      BY <1>6, <2>1 DEF CheckoutTimeout, Abandon, Unlock, RatesCopy!GiveUp
    <3> QED
      BY <3>1 DEF RatesCopy!Next
  <2>2. CASE lock # r
    BY <1>6, <2>2 DEF CheckoutTimeout, Abandon, Unlock
  <2> QED
    BY <2>1, <2>2
<1>7. CASE UNCHANGED <<saved, memory, lock>>
  BY <1>7
<1> QED
  BY <1>1, <1>2, <1>3, <1>4, <1>5, <1>6, <1>7 DEF Step, OwnConnection, Peek, CheckoutSecond,
     FetchSucceeds, Finish

(* The refresh of the rates implements the reload of a copy, for any number  *)
(* of requests, any pool, any time to live and any faults.                  *)
THEOREM RatesImplementCopy == Spec => ImplementsReloadedCopy
<1>1. Init => RatesCopy!Init
  BY RatesAssumption DEF Init, RatesCopy!Init, NoRates
<1>2. RatesInv /\ [Next]_vars => [RatesCopy!Next]_<<saved, memory, lock>>
  <2> SUFFICES ASSUME RatesInv, Next PROVE [RatesCopy!Next]_<<saved, memory, lock>>
    BY DEF vars
  <2>1. ASSUME NEW r \in Callers, Step(r) \/ Acquire(r) \/ Abandon(r)
        PROVE  [RatesCopy!Next]_<<saved, memory, lock>>
    BY <2>1, RequestImplements
  <2>2. CASE Restart
    <3>1. RatesCopy!Forget
      BY <2>2 DEF Restart, RatesCopy!Forget
    <3> QED
      BY <3>1 DEF RatesCopy!Next
  <2>3. CASE ReplicaSaves
    <3>1. RatesCopy!Renew
      BY <2>3 DEF ReplicaSaves, RatesCopy!Renew, RatesInv, NotAhead, Types, Times, Rates
    <3> QED
      BY <3>1 DEF RatesCopy!Next
  <2>4. CASE UNCHANGED <<saved, memory, lock>>
    BY <2>4
  <2> QED
    BY <2>1, <2>2, <2>3, <2>4 DEF Next, Start, Tick
<1> QED
  BY <1>1, <1>2, RatesInvariant, PTL DEF Spec, ImplementsReloadedCopy, RatesCopy!Spec
=============================================================================
