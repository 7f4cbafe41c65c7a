----------------------------- MODULE SigningKeys -----------------------------
(***************************************************************************)
(* The signing keys a replica checks bearer tokens with                     *)
(* (src/src/auth/jwt.rs): a copy in memory of the set Supabase publishes,   *)
(* fetched again when a token names a key the copy lacks, by one request at  *)
(* a time and at most once per interval. A process that starts fetches the   *)
(* keys before it serves its first request.                                 *)
(*                                                                         *)
(* The sets published are numbered in the order they are published in.      *)
(***************************************************************************)
EXTENDS Integers, Sequences

CONSTANTS
    Requests,
    Kids,         \* names of keys
    KeySets,      \* the sets published, one after the other
    Interval,     \* JWKS_REFRESH_INTERVAL, in ticks
    KeyFaults     \* which of AllKeyFaults happen

AllKeyFaults == {"upstream", "abandon", "restart"}
NobodyFetches == "no request"
Startup == "init"      \* the process itself, while it starts
NoKeys == 0
Versions == 1..Len(KeySets)

ASSUME KeysAssumption ==
    /\ KeySets \in Seq(SUBSET Kids) /\ Len(KeySets) > 0
    /\ Interval \in Nat \ {0}
    /\ KeyFaults \subseteq AllKeyFaults
    /\ {NobodyFetches, Startup} \cap Requests = {}

VARIABLES
    upstream,   \* the set that is published
    keys,       \* the set in memory, or NoKeys
    age,        \* ticks since last_refresh, counted up to Interval
    fetching,   \* who holds the lock of last_refresh
    check       \* what each request checks: see NoCheck

keyVars == <<upstream, keys, age, fetching, check>>

-----------------------------------------------------------------------------
(* "first": the key is looked up; "second": it is looked up again because    *)
(* the check failed; "lock": the request waits for the refresh lock;        *)
(* "fetch", "store": it refreshes the keys; "last": it looks a last time.    *)
Refreshing == {"fetch", "store"}
Checking == {"first", "second", "lock", "last"} \cup Refreshing
Verdicts == {"accepted", "refused"}

(* kid and sound are the token's: sound tells whether all but the key is in  *)
(* order. got is the set fetched, since the one in memory on arrival.       *)
NoCheck == [pc |-> "none", kid |-> CHOOSE k \in Kids : TRUE, sound |-> FALSE,
            got |-> 1, since |-> 1]

Has(v, kid) == v # NoKeys /\ kid \in KeySets[v]
Turn(r, pc) == check' = [check EXCEPT ![r].pc = pc]
GiveLock(r) == fetching' = IF fetching = r THEN NobodyFetches ELSE fetching

KeysInit ==
    /\ upstream \in Versions
    /\ keys = upstream /\ age = 0
    /\ fetching = NobodyFetches
    /\ check = [r \in Requests |-> NoCheck]

-----------------------------------------------------------------------------
Present(r, kid, sound) ==
    /\ check[r].pc = "none" /\ keys # NoKeys
    /\ check' = [check EXCEPT ![r] = [pc |-> "first", kid |-> kid, sound |-> sound,
                                      got |-> keys, since |-> keys]]
    /\ UNCHANGED <<upstream, keys, age, fetching>>

FirstLook(r) ==
    /\ check[r].pc = "first"
    /\ Turn(r, IF Has(keys, check[r].kid) /\ check[r].sound THEN "accepted" ELSE "second")
    /\ UNCHANGED <<upstream, keys, age, fetching>>

(* The second lookup decides between the two ways the first can have failed: *)
(* a key that is there now was not at fault, and the token is refused.      *)
SecondLook(r) ==
    /\ check[r].pc = "second"
    /\ Turn(r, IF Has(keys, check[r].kid) THEN "refused" ELSE "lock")
    /\ UNCHANGED <<upstream, keys, age, fetching>>

(* refresh, once it has the lock: a fetch counts from when it starts, even   *)
(* when it fails.                                                           *)
Lock(r) ==
    /\ check[r].pc = "lock" /\ fetching = NobodyFetches
    /\ IF age < Interval
       THEN Turn(r, "last") /\ UNCHANGED <<age, fetching>>
       ELSE Turn(r, "fetch") /\ age' = 0 /\ fetching' = r
    /\ UNCHANGED <<upstream, keys>>

(* Mutant: the lock is given back when the upstream has answered. *)
FetchKeysUnlocked(r) ==
    /\ check[r].pc = "fetch"
    /\ check' = [check EXCEPT ![r].pc = "store", ![r].got = upstream]
    /\ fetching' = NobodyFetches
    /\ UNCHANGED <<upstream, keys, age>>

FetchKeys(r) ==
    /\ check[r].pc = "fetch"
    /\ check' = [check EXCEPT ![r].pc = "store", ![r].got = upstream]
    /\ UNCHANGED <<upstream, keys, age, fetching>>

(* Mutant: a failed refresh empties the map. *)
FetchKeysFailsClears(r) ==
    /\ "upstream" \in KeyFaults /\ check[r].pc = "fetch"
    /\ keys' = NoKeys
    /\ Turn(r, "refused") /\ GiveLock(r)
    /\ UNCHANGED <<upstream, age>>

(* An error refuses the token and leaves the keys in memory as they are. *)
FetchKeysFails(r) ==
    /\ "upstream" \in KeyFaults /\ check[r].pc = "fetch"
    /\ Turn(r, "refused") /\ GiveLock(r)
    /\ UNCHANGED <<upstream, keys, age>>

(* The whole map is replaced, and the lock given back. *)
StoreKeys(r) ==
    /\ check[r].pc = "store"
    /\ keys' = check[r].got
    /\ Turn(r, "last") /\ GiveLock(r)
    /\ UNCHANGED <<upstream, age>>

LastLook(r) ==
    /\ check[r].pc = "last"
    /\ Turn(r, IF Has(keys, check[r].kid) /\ check[r].sound THEN "accepted" ELSE "refused")
    /\ UNCHANGED <<upstream, keys, age, fetching>>

LeaveCheck(r) ==
    /\ check[r].pc \in Verdicts
    /\ check' = [check EXCEPT ![r] = NoCheck]
    /\ UNCHANGED <<upstream, keys, age, fetching>>

(* The timeout of the request drops its future, and the lock with it. *)
AbandonCheck(r) ==
    /\ "abandon" \in KeyFaults /\ check[r].pc \in Checking
    /\ check' = [check EXCEPT ![r] = NoCheck] /\ GiveLock(r)
    /\ UNCHANGED <<upstream, keys, age>>

RestartKeys ==
    /\ "restart" \in KeyFaults
    /\ keys' = NoKeys /\ age' = Interval
    /\ fetching' = NobodyFetches
    /\ check' = [r \in Requests |-> NoCheck]
    /\ UNCHANGED upstream

(* init: a process whose first fetch fails ends, which is another restart.   *)
InitLock ==
    /\ keys = NoKeys /\ fetching = NobodyFetches
    /\ fetching' = Startup /\ age' = 0
    /\ UNCHANGED <<upstream, keys, check>>

InitStore ==
    /\ fetching = Startup
    /\ keys' = upstream /\ fetching' = NobodyFetches
    /\ UNCHANGED <<upstream, age, check>>

TickKeys ==
    /\ age < Interval
    /\ age' = age + 1
    /\ UNCHANGED <<upstream, keys, fetching, check>>

Rotate ==
    /\ upstream < Len(KeySets)
    /\ upstream' = upstream + 1
    /\ UNCHANGED <<keys, age, fetching, check>>

-----------------------------------------------------------------------------
Look(r) == FirstLook(r) \/ SecondLook(r) \/ LastLook(r)

KeysNext ==
    \/ \E r \in Requests :
        \/ \E kid \in Kids, sound \in BOOLEAN : Present(r, kid, sound)
        \/ Look(r) \/ Lock(r) \/ FetchKeys(r) \/ FetchKeysFails(r) \/ StoreKeys(r)
        \/ LeaveCheck(r) \/ AbandonCheck(r)
    \/ RestartKeys \/ InitLock \/ InitStore \/ TickKeys \/ Rotate

KeysSpec == KeysInit /\ [][KeysNext]_keyVars

-----------------------------------------------------------------------------
(* A token in order whose key is in the set in memory when it arrives, and   *)
(* in every set published since, is never refused: not while the keys are    *)
(* being replaced, not after a failed or an abandoned refresh.              *)
StableKeysAccepted ==
    \A r \in Requests :
        check[r].pc = "refused" /\ check[r].sound
            => \E v \in check[r].since..upstream : ~Has(v, check[r].kid)

(* The refresh of the keys implements the reload of a copy: one request at a *)
(* time, and never back to a set that was published before the one in       *)
(* memory.                                                                  *)
Copy == INSTANCE ReloadedCopy WITH kept <- upstream, copy <- keys, holder <- fetching,
                                   Requests <- Requests \cup {Startup},
                                   Nothing <- NoKeys, NoOne <- NobodyFetches
KeysImplementReloadedCopy == Copy!Spec
=============================================================================
