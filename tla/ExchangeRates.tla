---------------------------- MODULE ExchangeRates ----------------------------
(***************************************************************************)
(* The exchange rates of one replica (src/src/services/exchange_rates.rs,   *)
(* fx_memory.rs): rates kept in memory, snapshots in a table all replicas   *)
(* share, an upstream that may fail, a refresh lock, and the connection     *)
(* pool that reads and saves of snapshots check out from.                   *)
(*                                                                         *)
(* Rates are told apart by the time they were fetched at.                  *)
(***************************************************************************)
EXTENDS Integers, FiniteSets

CONSTANTS
    Callers,      \* handlers and job steps that ask for rates
    CallerKinds,  \* which of AllKinds they are
    PoolSize,     \* db_pool_max_size
    TTL,          \* RATES_TTL_MS, in ticks
    LastTick,     \* bound: the last tick of the clock
    Faults        \* which of AllFaults happen

(* "plain" holds no connection when it asks, "holding" does (a projection's  *)
(* inputs), "forced" asks for rates newer than those in memory.             *)
AllKinds == {"plain", "holding", "forced"}
AllFaults == {"upstream", "abandon", "restart", "replica"}
NoRates == -1
NoOne == "no request"

ASSUME RatesAssumption ==
    /\ CallerKinds \subseteq AllKinds /\ Faults \subseteq AllFaults
    /\ PoolSize \in Nat \ {0} /\ TTL \in Nat \ {0} /\ LastTick \in Nat
    /\ NoOne \notin Callers

VARIABLES
    now,      \* the clock
    memory,   \* FX_MEMORY: rates or NoRates
    saved,    \* the latest snapshot of the table
    lock,     \* who holds REFRESH_LOCK
    req       \* the requests: what each does next, its kind and its rates

vars == <<now, memory, saved, lock, req>>

-----------------------------------------------------------------------------
Times == 0..LastTick
Rates == Times \cup {NoRates}
IsStale(rates) == now - rates > TTL
Fresh(rates) == rates # NoRates /\ ~IsStale(rates)
Later(a, b) == IF a > b THEN a ELSE b

Idle == [pc |-> "idle", kind |-> "plain", rates |-> NoRates]

(* The order of a request: "own" checks out a connection, "peek" looks at    *)
(* memory, "lock" waits for REFRESH_LOCK, "checkoutRead" and "read" get the  *)
(* latest snapshot, "fetch" calls the upstream, "checkoutSave", "save" and   *)
(* "publish" store its answer, "rest" goes on with the rates.               *)
Reloading == {"checkoutRead", "read", "fetch", "checkoutSave", "save", "publish"}
CallerStages == {"idle", "own", "peek", "lock", "rest"} \cup Reloading

Forced(r) == req[r].kind = "forced"
HoldsOwn(r) == req[r].kind = "holding" /\ req[r].pc \notin {"idle", "own"}
HoldsSecond(r) == req[r].pc \in {"read", "save"}
FreeConnections == PoolSize - Cardinality({r \in Callers : HoldsOwn(r)})
                            - Cardinality({r \in Callers : HoldsSecond(r)})

Move(r, pc, rates) ==
    req' = [req EXCEPT ![r] = [pc |-> pc, kind |-> req[r].kind, rates |-> rates]]
Goto(r, pc) == Move(r, pc, req[r].rates)
AnswerWith(r, rates) == Move(r, "rest", rates)
Leave(r) == req' = [req EXCEPT ![r] = Idle]
Unlock(r) == lock' = IF lock = r THEN NoOne ELSE lock

Init ==
    /\ now = 0 /\ memory = NoRates /\ lock = NoOne
    /\ saved \in {NoRates, 0}
    /\ req = [r \in Callers |-> Idle]

-----------------------------------------------------------------------------
Start(r, kind) ==
    /\ req[r].pc = "idle"
    /\ req' = [req EXCEPT ![r] =
                [pc |-> IF kind = "holding" THEN "own" ELSE "peek",
                 kind |-> kind, rates |-> NoRates]]
    /\ UNCHANGED <<now, memory, saved, lock>>

(* pool.get() of load_projection_inputs, before it asks for rates. *)
OwnConnection(r) ==
    /\ req[r].pc = "own" /\ FreeConnections > 0
    /\ Goto(r, "peek")
    /\ UNCHANGED <<now, memory, saved, lock>>

(* get_memory_rates: forced requests never take what is in memory. *)
MemoryServes(r) == ~Forced(r) /\ Fresh(memory)

Peek(r) ==
    /\ req[r].pc = "peek"
    /\ IF MemoryServes(r) THEN AnswerWith(r, memory) ELSE Goto(r, "lock")
    /\ UNCHANGED <<now, memory, saved, lock>>

(* Mutant: memory is not looked at again once the lock is held. *)
AcquireUnchecked(r) ==
    /\ req[r].pc = "lock" /\ lock = NoOne
    /\ Goto(r, "checkoutRead") /\ lock' = r
    /\ UNCHANGED <<now, memory, saved>>

Acquire(r) ==
    /\ req[r].pc = "lock" /\ lock = NoOne
    /\ IF MemoryServes(r)
       THEN AnswerWith(r, memory) /\ UNCHANGED lock
       ELSE Goto(r, "checkoutRead") /\ lock' = r
    /\ UNCHANGED <<now, memory, saved>>

CheckoutSecond(r) ==
    /\ FreeConnections > 0
    /\ \/ req[r].pc = "checkoutRead" /\ Goto(r, "read")
       \/ req[r].pc = "checkoutSave" /\ Goto(r, "save")
    /\ UNCHANGED <<now, memory, saved, lock>>

(* Mutant: a pool that lets its users wait. *)
CheckoutTimeoutNever(r) ==
    /\ FALSE
    /\ Leave(r) /\ Unlock(r)
    /\ UNCHANGED <<now, memory, saved>>

(* The connection timeout of the pool; the error drops the lock's guard and  *)
(* the request's own connection.                                            *)
CheckoutTimeout(r) ==
    /\ req[r].pc \in {"own", "checkoutRead", "checkoutSave"}
    /\ Leave(r) /\ Unlock(r)
    /\ UNCHANGED <<now, memory, saved>>

ReadSnapshot(r) ==
    /\ req[r].pc = "read"
    /\ IF Fresh(saved) /\ ~Forced(r)
       THEN memory' = saved /\ AnswerWith(r, saved) /\ Unlock(r)
       ELSE /\ Move(r, "fetch", saved)
            /\ UNCHANGED <<memory, lock>>
    /\ UNCHANGED <<now, saved>>

(* Mutant: the lock is given back when the upstream has answered. *)
FetchSucceedsUnlocked(r) ==
    /\ req[r].pc = "fetch"
    /\ Move(r, "checkoutSave", now)
    /\ lock' = NoOne
    /\ UNCHANGED <<now, memory, saved>>

FetchSucceeds(r) ==
    /\ req[r].pc = "fetch"
    /\ Move(r, "checkoutSave", now)
    /\ UNCHANGED <<now, memory, saved, lock>>

(* The snapshot read before the call is the answer, however old it is; with  *)
(* none the error is.                                                       *)
FetchFails(r) ==
    /\ "upstream" \in Faults /\ req[r].pc = "fetch"
    /\ IF req[r].rates = NoRates
       THEN Leave(r) /\ UNCHANGED memory
       ELSE AnswerWith(r, req[r].rates) /\ memory' = req[r].rates
    /\ Unlock(r)
    /\ UNCHANGED <<now, saved>>

SaveSnapshot(r) ==
    /\ req[r].pc = "save"
    /\ saved' = Later(saved, req[r].rates)
    /\ Goto(r, "publish")
    /\ UNCHANGED <<now, memory, lock>>

(* set_memory_rates of the rates just saved. *)
Publish(r) ==
    /\ req[r].pc = "publish"
    /\ memory' = req[r].rates
    /\ AnswerWith(r, req[r].rates) /\ Unlock(r)
    /\ UNCHANGED <<now, saved>>

Finish(r) ==
    /\ req[r].pc = "rest"
    /\ Leave(r)
    /\ UNCHANGED <<now, memory, saved, lock>>

(* A request timeout drops the future, a failing query returns its error: at *)
(* any await, with the lock and every connection given back.                *)
Abandon(r) ==
    /\ "abandon" \in Faults /\ req[r].pc # "idle"
    /\ Leave(r) /\ Unlock(r)
    /\ UNCHANGED <<now, memory, saved>>

Restart ==
    /\ "restart" \in Faults
    /\ memory' = NoRates /\ lock' = NoOne
    /\ req' = [r \in Callers |-> Idle]
    /\ UNCHANGED <<now, saved>>

(* Another replica has fetched rates and saves them. *)
ReplicaSaves ==
    /\ "replica" \in Faults
    /\ saved' = now
    /\ UNCHANGED <<now, memory, lock, req>>

Tick ==
    /\ now < LastTick
    /\ now' = now + 1
    /\ UNCHANGED <<memory, saved, lock, req>>

-----------------------------------------------------------------------------
Step(r) ==
    \/ OwnConnection(r) \/ Peek(r) \/ CheckoutSecond(r) \/ CheckoutTimeout(r)
    \/ ReadSnapshot(r) \/ FetchSucceeds(r) \/ FetchFails(r)
    \/ SaveSnapshot(r) \/ Publish(r) \/ Finish(r)

Next ==
    \/ \E r \in Callers : Step(r) \/ Acquire(r) \/ Abandon(r)
    \/ \E r \in Callers, kind \in CallerKinds : Start(r, kind)
    \/ Restart \/ ReplicaSaves \/ Tick

(* A handler that can step does, the upstream client and the pool's timer   *)
(* included; tokio's mutex is first come, first served.                     *)
Fairness == \A r \in Callers : WF_vars(Step(r)) /\ SF_vars(Acquire(r))

Spec == Init /\ [][Next]_vars

FairSpec == Spec /\ Fairness

-----------------------------------------------------------------------------
(* The variables keep to their types, only a request that reloads holds the  *)
(* lock, and no more connections are out than the pool has.                 *)
TypeOK ==
    /\ now \in Times /\ memory \in Rates /\ saved \in Rates
    /\ lock \in Callers \cup {NoOne}
    /\ req \in [Callers -> [pc : CallerStages, kind : AllKinds, rates : Rates]]
    /\ FreeConnections \in 0..PoolSize

(* "concurrent requests wait for one reload" (exchange_rates.rs:78): one     *)
(* request at a time reloads, and it is the one that holds the lock.        *)
OneReloadAtATime ==
    \A r \in Callers : req[r].pc \in Reloading <=> lock = r

(* A request that was not forced reloads only while the rates in memory are  *)
(* stale: nobody repeats the reload another request has just finished.      *)
ReloadsOnlyStaleRates ==
    \A r \in Callers : req[r].pc \in Reloading /\ ~Forced(r) => ~Fresh(memory)

(* Rates that this replica serves from memory are in the table as well, so   *)
(* that a restart or another replica does not fall back to older ones.      *)
MemoryIsSaved == memory <= saved

(* The refresh of the rates implements the reload of a copy: however its     *)
(* eight steps interleave with those of other requests, with timeouts,       *)
(* failures and restarts, memory is replaced only by the holder of the lock, *)
(* in the step that gives the lock back, by rates that are in the table and  *)
(* at least as new as those replaced.                                       *)
RatesCopy == INSTANCE ReloadedCopy WITH kept <- saved, copy <- memory, holder <- lock,
                                        Requests <- Callers, Nothing <- NoRates
ImplementsReloadedCopy == RatesCopy!Spec

(* Short of a restart the rates in memory are never replaced by older ones,  *)
(* whichever of a fresh answer, a stale snapshot after a failed call, and    *)
(* another replica's snapshot comes when.                                   *)
MemoryNeverGoesBack ==
    [][\/ memory' >= memory
       \/ memory' = NoRates /\ \A r \in Callers : req'[r] = Idle]_vars

(* Stale rates are an answer only of the request whose own call to the       *)
(* upstream failed, never of one that found them in memory or in the table. *)
StaleOnlyIfUpstreamFails ==
    [][\A r \in Callers :
        req[r].pc \in {"peek", "lock", "read"} /\ req'[r].pc = "rest"
            => Fresh(req'[r].rates)]_vars

(* Every request ends: the ones that keep a connection while they wait for   *)
(* the lock cannot block its holder, who waits for a connection, for ever.  *)
EveryRequestAnswered ==
    \A r \in Callers : req[r].pc # "idle" ~> req[r].pc = "idle"
=============================================================================
