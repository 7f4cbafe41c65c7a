----------------------------- MODULE RequestPath -----------------------------
(***************************************************************************)
(* The way of a request to its handler (src/src/auth/middleware.rs, the     *)
(* queries of src/src/repos/users.rs): its token is checked (SigningKeys),   *)
(* its user's row is made sure of and found onboarded, by queries that each  *)
(* check out a connection of their own (ConnectionContext), and what was     *)
(* found is remembered per process, so that later requests skip the query.   *)
(* A job that lists the users shares the connections.                       *)
(***************************************************************************)
EXTENDS SigningKeys, ConnectionContext

CONSTANT Job    \* the job: one more client of the pool

ASSUME PathAssumption ==
    Job \notin Requests /\ Clients = Requests \cup {Job}

VARIABLES
    rows,              \* of each user: the row in the table of users
    passwords,         \* users with a password, at Supabase
    known_users,       \* users whose row is known to exist
    onboarded_users,   \* users known to be onboarded
    path               \* of each request: see NoPath

pathOnly == <<rows, passwords, known_users, onboarded_users, path>>
pathVars == <<keyVars, poolVars, pathOnly>>

-----------------------------------------------------------------------------
(* "token": its token is checked; each stage of Works is a query; "next"     *)
(* decides what comes after the row is known; "handler": the handler runs.  *)
(* "protected" requests need an onboarded user, "onboarding" ones complete   *)
(* the onboarding. answer is the one of the last query.                     *)
NoPath == [pc |-> "token", user |-> NoUser, kind |-> "protected",
           answer |-> "none"]
Kinds == {"protected", "onboarding"}

PathInit ==
    /\ KeysInit /\ PoolInit
    /\ rows = [u \in Users |-> "none"]
    /\ passwords = {}
    /\ known_users = {} /\ onboarded_users = {}
    /\ path = [r \in Requests |-> NoPath]

Continue(r, pc) == path' = [path EXCEPT ![r].pc = pc, ![r].answer = "none"]
End(r) == path' = [path EXCEPT ![r] = NoPath]

-----------------------------------------------------------------------------
(* The steps of the token check, those that end it left to Admit and Refuse. *)
Arrive(r, user, kind, kid, sound) ==
    /\ path[r].pc = "token"
    /\ Present(r, kid, sound)
    /\ path' = [path EXCEPT ![r] = [NoPath EXCEPT !.user = user, !.kind = kind]]
    /\ UNCHANGED <<poolVars, rows, passwords, known_users, onboarded_users>>

CheckToken(r) ==
    /\ Look(r) \/ Lock(r) \/ FetchKeys(r) \/ FetchKeysFails(r) \/ StoreKeys(r)
    /\ UNCHANGED <<poolVars, pathOnly>>

Refuse(r) ==
    /\ check[r].pc = "refused"
    /\ LeaveCheck(r) /\ End(r)
    /\ UNCHANGED <<poolVars, rows, passwords, known_users, onboarded_users>>

(* authenticate, once the token is accepted. *)
Admit(r) ==
    /\ check[r].pc = "accepted"
    /\ LeaveCheck(r)
    /\ Continue(r, IF path[r].user \in known_users THEN "next" ELSE "insert")
    /\ UNCHANGED <<poolVars, rows, passwords, known_users, onboarded_users>>

(* require_auth asks whether the user is onboarded unless that is known;     *)
(* complete_onboarding whether there is a password.                         *)
Decide(r) ==
    /\ path[r].pc = "next"
    /\ Continue(r, CASE path[r].kind = "onboarding" -> "password"
                     [] path[r].user \in onboarded_users -> "handler"
                     [] OTHER -> "look")
    /\ UNCHANGED <<keyVars, poolVars, rows, passwords, known_users, onboarded_users>>

(* Each query of users.rs has a checkout of its own; the handler's queries   *)
(* are the user's too. app_user_has_password is asked neutrally.            *)
IdentityOf(r) == IF path[r].pc = "password" THEN "neutral" ELSE path[r].user
WorkOf(r) == IF path[r].pc = "handler" THEN "other" ELSE path[r].pc

CheckoutFor(r) ==
    /\ path[r].pc \in {"insert", "look", "password", "stamp", "handler"}
    /\ \E c \in Conns : Checkout(r, c, IdentityOf(r), WorkOf(r), path[r].user)
    /\ UNCHANGED <<keyVars, pathOnly>>

CheckoutJob ==
    /\ keys # NoKeys
    /\ \E c \in Conns : Checkout(Job, c, "admin", "other", NoSession.of)
    /\ UNCHANGED <<keyVars, pathOnly>>

(* A request's checkout has one query, a handler's and the job's may have    *)
(* more.                                                                    *)
Ask(p) ==
    /\ session[p].pc = "ready" \/ session[p].work = "other"
    /\ Query(p)
    /\ UNCHANGED <<keyVars, pathOnly>>

(* The policies of the tables: a row is there for its user and for jobs. *)
Visible(c, u) == settings[c].user = u \/ settings[c].admin

(* Mutant: the insert overwrites the row that is there. *)
RowsAfterOverwrite(c, s) ==
    CASE s.kind = "query" /\ s.work = "insert" /\ Visible(c, s.of)
            -> [rows EXCEPT ![s.of] = "new"]
      [] s.kind = "query" /\ s.work = "stamp" /\ Visible(c, s.of) /\ rows[s.of] # "none"
            -> [rows EXCEPT ![s.of] = "onboarded"]
      [] OTHER -> rows

(* insert .. on_conflict do_nothing; the update that stamps the row. *)
RowsAfter(c, s) ==
    CASE s.kind = "query" /\ s.work = "insert" /\ Visible(c, s.of) /\ rows[s.of] = "none"
            -> [rows EXCEPT ![s.of] = "new"]
      [] s.kind = "query" /\ s.work = "stamp" /\ Visible(c, s.of) /\ rows[s.of] # "none"
            -> [rows EXCEPT ![s.of] = "onboarded"]
      [] OTHER -> rows

Answer(c, s) ==
    CASE s.work = "look" /\ Visible(c, s.of) -> rows[s.of]
      [] s.work = "password" /\ s.of \in passwords -> "password"
      [] OTHER -> "none"

ServePath(c) ==
    /\ Serve(c)
    /\ LET s == Head(sent[c])
           r == owner[c]
       IN  /\ rows' = RowsAfter(c, s)
           /\ path' = IF r \in Requests /\ s.kind = "query" /\ Waits(r, c)
                      THEN [path EXCEPT ![r].answer = Answer(c, s)]
                      ELSE path
    /\ UNCHANGED <<keyVars, passwords, known_users, onboarded_users>>

(* An error ends the request, or the pass of the job. *)
ServeFailsPath(c) ==
    /\ ServeFails(c)
    /\ path' = [r \in Requests |-> IF Waits(r, c) THEN NoPath ELSE path[r]]
    /\ UNCHANGED <<keyVars, rows, passwords, known_users, onboarded_users>>

(* The answer is there and the connection given back. *)
Answered(r) ==
    /\ r \in Requests /\ session[r].pc = "served"
    /\ Done(r)

Proceed(r) ==
    /\ Answered(r)
    /\ LET u == path[r].user
           a == path[r].answer
       IN  CASE path[r].pc = "insert" ->
                    /\ known_users' = known_users \cup {u}
                    /\ Continue(r, "next")
                    /\ UNCHANGED onboarded_users
             [] path[r].pc = "look" /\ a = "onboarded" ->
                    /\ onboarded_users' = onboarded_users \cup {u}
                    /\ Continue(r, "handler")
                    /\ UNCHANGED known_users
             [] path[r].pc = "look" /\ a = "new" ->
                    Continue(r, "password") /\ UNCHANGED <<known_users, onboarded_users>>
             [] path[r].pc = "password" /\ a = "password" ->
                    Continue(r, "stamp") /\ UNCHANGED <<known_users, onboarded_users>>
             [] path[r].pc = "stamp" /\ path[r].kind = "protected" ->
                    /\ onboarded_users' = onboarded_users \cup {u}
                    /\ Continue(r, "handler")
                    /\ UNCHANGED known_users
             [] OTHER -> End(r) /\ UNCHANGED <<known_users, onboarded_users>>
    /\ UNCHANGED <<keyVars, rows, passwords>>

DoneJob ==
    /\ Done(Job)
    /\ UNCHANGED <<keyVars, pathOnly>>

(* The timeout of a request drops its future, wherever it is. *)
DropRequest(r) ==
    /\ IF session[r].pc = "out" THEN UNCHANGED poolVars ELSE Drop(r)
    /\ IF check[r].pc = "none" THEN UNCHANGED keyVars ELSE AbandonCheck(r)
    /\ check[r].pc # "none" \/ path[r].pc # "token"
    /\ End(r)
    /\ UNCHANGED <<rows, passwords, known_users, onboarded_users>>

RecyclePath(c) == Recycle(c) /\ UNCHANGED <<keyVars, pathOnly>>

(* What was found of the users is lost with the process. *)
RestartPath ==
    /\ RestartKeys /\ RestartPool
    /\ known_users' = {} /\ onboarded_users' = {}
    /\ path' = [r \in Requests |-> NoPath]
    /\ UNCHANGED <<rows, passwords>>

(* The user accepts the invite, at Supabase. *)
SetPassword(u) ==
    /\ u \notin passwords
    /\ passwords' = passwords \cup {u}
    /\ UNCHANGED <<keyVars, poolVars, rows, known_users, onboarded_users, path>>

KeysElsewhere ==
    /\ InitLock \/ InitStore \/ TickKeys \/ Rotate
    /\ UNCHANGED <<poolVars, pathOnly>>

-----------------------------------------------------------------------------
StepOf(r) == CheckToken(r) \/ Refuse(r) \/ Admit(r) \/ Decide(r) \/ Ask(r) \/ Proceed(r)

PathNext ==
    \/ \E r \in Requests :
        \/ \E u \in Users, kind \in Kinds, kid \in Kids, sound \in BOOLEAN :
                Arrive(r, u, kind, kid, sound)
        \/ StepOf(r) \/ CheckoutFor(r) \/ DropRequest(r)
    \/ CheckoutJob \/ Ask(Job) \/ DoneJob
    \/ \E c \in Conns : ServePath(c) \/ ServeFailsPath(c) \/ RecyclePath(c)
    \/ \E u \in Users : SetPassword(u)
    \/ RestartPath \/ KeysElsewhere

PathSpec == PathInit /\ [][PathNext]_pathVars

-----------------------------------------------------------------------------
(* "Onboarding never reverts, so once seen it is never re-checked"           *)
(* (state.rs:30): a handler runs only for a user whose row is there and      *)
(* onboarded, although the queries that say so are skipped once they have    *)
(* been made, those of other requests and dropped ones are still on their   *)
(* way, and the row is inserted again after a restart.                      *)
HandlersForOnboarded ==
    \A r \in Requests : path[r].pc = "handler" => rows[path[r].user] = "onboarded"
=============================================================================
