-------------------------- MODULE ConnectionContext --------------------------
(***************************************************************************)
(* The identity that row-level security sees on the pooled database         *)
(* connections (src/src/repos/connection.rs, the pool of src/src/state.rs).  *)
(* A connection keeps the settings of its last user when it goes back to    *)
(* the pool; every checkout sends one statement that sets them, before the  *)
(* queries of the checkout. A client that is dropped at an await (a request  *)
(* timeout) gives its connection back while a statement of its own may      *)
(* still be on its way: the server executes what was sent in its order.     *)
(***************************************************************************)
EXTENDS Integers, Sequences, FiniteSets

CONSTANTS
    Conns,        \* the connections of the pool
    Clients,      \* request handlers and jobs
    Users,
    MaxSent,      \* bound: the statements on their way on one connection
    PoolFaults    \* which of AllPoolFaults happen

AllPoolFaults == {"drop", "error", "recycle"}
Free == "no client"
NoUser == "no user"

(* The checkouts of connection.rs: for a user, for administration, neutral.  *)
Identities == Users \cup {"admin", "neutral"}

(* What a query does to a user; "other" stands for all the model leaves out. *)
Works == {"insert", "look", "password", "stamp", "other"}

ASSUME PoolAssumption ==
    /\ MaxSent \in Nat \ {0}
    /\ PoolFaults \subseteq AllPoolFaults
    /\ Free \notin Clients /\ NoUser \notin Users
    /\ {"admin", "neutral"} \cap Users = {}

VARIABLES
    settings,   \* of each connection: app.user_id and app.is_admin
    sent,       \* of each connection: the statements on their way, in order
    owner,      \* of each connection: who has checked it out
    session     \* of each client: its connection and how far it is

poolVars == <<settings, sent, owner, session>>

-----------------------------------------------------------------------------
Unset == [user |-> NoUser, admin |-> FALSE]
NoSession == [pc |-> "out", conn |-> CHOOSE c \in Conns : TRUE, as |-> "neutral",
              work |-> "other", of |-> NoUser]

(* The settings an identity is to be seen with. *)
SettingsOf(as) ==
    [user |-> IF as \in Users THEN as ELSE NoUser, admin |-> as = "admin"]

(* Mutant: the statement that sets the user leaves the admin flag alone. *)
AppliedKeepsAdmin(old, as) ==
    CASE as \in Users -> [old EXCEPT !.user = as]
      [] as = "admin" -> [old EXCEPT !.admin = TRUE, !.user = NoUser]
      [] as = "neutral" -> [old EXCEPT !.user = NoUser, !.admin = FALSE]

(* What the one statement of each checkout makes of the settings: it sets    *)
(* one of the two and resets the other, the neutral one resets both.        *)
Applied(old, as) ==
    CASE as \in Users -> [old EXCEPT !.user = as, !.admin = FALSE]
      [] as = "admin" -> [old EXCEPT !.admin = TRUE, !.user = NoUser]
      [] as = "neutral" -> [old EXCEPT !.user = NoUser, !.admin = FALSE]

SetStatement(as) == [kind |-> "set", as |-> as, work |-> "other", of |-> NoUser]
QueryOf(p) == [kind |-> "query", as |-> session[p].as,
               work |-> session[p].work, of |-> session[p].of]

PoolInit ==
    /\ settings = [c \in Conns |-> Unset]
    /\ sent = [c \in Conns |-> <<>>]
    /\ owner = [c \in Conns |-> Free]
    /\ session = [p \in Clients |-> NoSession]

-----------------------------------------------------------------------------
(* pool.get() and the statement that sets the context. *)
Checkout(p, c, as, work, of) ==
    /\ session[p].pc = "out" /\ owner[c] = Free /\ Len(sent[c]) < MaxSent
    /\ owner' = [owner EXCEPT ![c] = p]
    /\ session' = [session EXCEPT ![p] =
            [pc |-> "set", conn |-> c, as |-> as, work |-> work, of |-> of]]
    /\ sent' = [sent EXCEPT ![c] = Append(@, SetStatement(as))]
    /\ UNCHANGED settings

Query(p) ==
    /\ session[p].pc \in {"ready", "served"}
    /\ Len(sent[session[p].conn]) < MaxSent
    /\ session' = [session EXCEPT ![p].pc = "asked"]
    /\ sent' = [sent EXCEPT ![session[p].conn] = Append(@, QueryOf(p))]
    /\ UNCHANGED <<settings, owner>>

(* The client that waits for the statement the server is at: the last one    *)
(* sent, by the owner.                                                      *)
Waits(p, c) ==
    /\ owner[c] = p /\ Len(sent[c]) = 1
    /\ session[p].pc \in {"set", "asked"}

(* The server executes the next statement and answers it. *)
Serve(c) ==
    /\ sent[c] # <<>>
    /\ LET s == Head(sent[c]) IN
        /\ settings' = IF s.kind = "set"
                       THEN [settings EXCEPT ![c] = Applied(@, s.as)]
                       ELSE settings
        /\ session' = [p \in Clients |->
                IF Waits(p, c)
                THEN [session[p] EXCEPT !.pc = IF @ = "set" THEN "ready" ELSE "served"]
                ELSE session[p]]
    /\ sent' = [sent EXCEPT ![c] = Tail(@)]
    /\ UNCHANGED owner

(* A client gives back the connection it has checked out. *)
GiveBack(p) ==
    /\ session' = [session EXCEPT ![p] = NoSession]
    /\ owner' = [owner EXCEPT ![session[p].conn] = Free]

(* The next statement fails and changes nothing; an error ends the checkout. *)
ServeFails(c) ==
    /\ "error" \in PoolFaults /\ sent[c] # <<>>
    /\ sent' = [sent EXCEPT ![c] = Tail(@)]
    /\ IF \E p \in Clients : Waits(p, c)
       THEN GiveBack(owner[c])
       ELSE UNCHANGED <<session, owner>>
    /\ UNCHANGED settings

Done(p) ==
    /\ session[p].pc = "served"
    /\ GiveBack(p)
    /\ UNCHANGED <<settings, sent>>

(* The client is dropped at an await, what it has sent is not taken back. *)
Drop(p) ==
    /\ "drop" \in PoolFaults /\ session[p].pc # "out"
    /\ GiveBack(p)
    /\ UNCHANGED <<settings, sent>>

(* A connection that broke, or has idled or lived too long, is replaced. *)
Recycle(c) ==
    /\ "recycle" \in PoolFaults /\ owner[c] = Free
    /\ settings' = [settings EXCEPT ![c] = Unset]
    /\ sent' = [sent EXCEPT ![c] = <<>>]
    /\ UNCHANGED <<owner, session>>

(* The process ends: what was sent and not yet executed is lost with it, and *)
(* the next process opens connections of its own.                           *)
RestartPool ==
    /\ settings' = [c \in Conns |-> Unset] /\ sent' = [c \in Conns |-> <<>>]
    /\ owner' = [c \in Conns |-> Free] /\ session' = [p \in Clients |-> NoSession]

-----------------------------------------------------------------------------
PoolNext ==
    \/ \E p \in Clients :
        \/ \E c \in Conns, as \in Identities, work \in Works, of \in Users \cup {NoUser} :
                Checkout(p, c, as, work, of)
        \/ Query(p) \/ Done(p) \/ Drop(p)
    \/ \E c \in Conns : Serve(c) \/ ServeFails(c) \/ Recycle(c)
    \/ RestartPool

PoolSpec == PoolInit /\ [][PoolNext]_poolVars

-----------------------------------------------------------------------------
(* "the default fast recycling is both correct and cheap" (state.rs:42): a   *)
(* query is executed with the settings of the identity that sent it, and    *)
(* with those only, whoever had the connection before it, and even when the  *)
(* one who sent it has been dropped and the connection is someone else's.   *)
QueriesRunAsTheirSender ==
    \A c \in Conns :
        sent[c] # <<>> /\ Head(sent[c]).kind = "query"
            => settings[c] = SettingsOf(Head(sent[c]).as)
=============================================================================
