--------------------------- MODULE InterestAccrual ---------------------------
(***************************************************************************)
(* A user's accounts and the daily interest credited to them: the          *)
(* handlers of src/src/routes/accounts.rs, which read an account and write  *)
(* it back in separate transactions, and the interest step of the daily     *)
(* job (src/src/services/accrue_interest.rs), which walks the days after    *)
(* each account's cursor.                                                   *)
(*                                                                         *)
(* Money is kept in whole minor units, interest accrues in 1/Micros of one: *)
(* a rate is what a minor unit earns in a day.  Other income, expenses and  *)
(* transfers are left out of the balance (an edit of the initial amount     *)
(* moves it as they would); so are names, currencies and the history        *)
(* rebuild after an edit (see UserDataCache).  Passes of different replicas *)
(* do not overlap (see Materialization).                                    *)
(***************************************************************************)
EXTENDS Integers, FiniteSets, FiniteSetsExt

CONSTANTS
    Accounts,
    Editors,       \* concurrent account requests
    Rates,         \* daily interest of one minor unit, in micros
    Amounts,       \* initial amounts
    Micros,        \* MICROS
    CatchUpDays,   \* CATCH_UP_DAYS
    ClientOffsets, \* how far a client's day may be from the server's
    LastDay,       \* bound: the last day of the clock
    MaxEdits,      \* bound: account requests
    MaxFaults      \* bound: passes cut short by an error or a crash

ASSUME InterestAssumption ==
    /\ IsFiniteSet(Accounts)
    /\ Rates \subseteq Nat \ {0} /\ Amounts \subseteq Int
    /\ Micros \in Nat \ {0}
    /\ ClientOffsets \subseteq -1..1
    /\ CatchUpDays \in Nat /\ LastDay \in Nat /\ MaxEdits \in Nat /\ MaxFaults \in Nat

VARIABLES
    now,      \* the server's day
    account,  \* account[a]: [status, initial, rate, cursor, carry]
    credits,  \* income rows with source 'interest': [acct, date, amount]
    pass,     \* the interest step of the job
    editor,   \* editor[e]: an account request between its statements
    edits, faults,
    (* History of what the accounts were meant to earn: *)
    since,    \* since[a]: the day from which interest was last turned on
    times,    \* times[a][d]: how often day d accrued since then
    earned,   \* earned[a]: micros accrued in all
    upsets    \* what disturbed the accrual

vars == <<now, account, credits, pass, editor, edits, faults, since, times,
          earned, upsets>>
history == <<since, times, earned>>
counts == <<edits, faults, upsets>>

-----------------------------------------------------------------------------
Day == 0..(LastDay + 1)
NoCursor == -2
Keep == -1  \* a request that leaves the rate alone

NoAccount == [status |-> "absent", initial |-> 0, rate |-> 0, cursor |-> NoCursor, carry |-> 0]
IdlePass == [pc |-> "idle", today |-> 0, todo |-> {}, acct |-> "none", initial |-> 0,
             rate |-> 0, cursor |-> NoCursor, carry |-> 0, date |-> 0, amount |-> 0,
             snap |-> [a \in Accounts |-> NoAccount]]
IdleEditor == [pc |-> "idle", acct |-> "none", initial |-> 0, rate |-> 0,
               cursor |-> NoCursor, on |-> FALSE]

Active == {a \in Accounts : account[a].status = "active"}
Earning == {a \in Active : account[a].rate > 0}
Never == [d \in Day |-> 0]

(* A request may overlap a pass, midnight or another request; passes may be  *)
(* further apart than the catch-up days reach; an update may move a cursor   *)
(* back behind days that have accrued, even behind the day from which another *)
(* update has turned interest on meanwhile.                                  *)
AllUpsets == {"overlap", "late", "rewound", "revived"}
Editing == \E e \in Editors : editor[e].pc # "idle"
Note(what, happens) == IF happens THEN {what} ELSE {}

Init ==
    /\ now = 0
    /\ account \in [Accounts -> {NoAccount} \cup
          [status : {"active"}, initial : Amounts, rate : Rates, cursor : {0}, carry : {0}]]
    /\ credits = {}
    /\ pass = IdlePass
    /\ editor = [e \in Editors |-> IdleEditor]
    /\ edits = 0 /\ faults = 0
    /\ since = [a \in Accounts |-> 0]
    /\ times = [a \in Accounts |-> Never]
    /\ earned = [a \in Accounts |-> 0]
    /\ upsets = {}

-----------------------------------------------------------------------------
(* The interest step of a pass. *)

Amount(c) == c.amount
(* compute_balances: the initial amount and the credits up to and with day d. *)
Balance(a, initial, d) ==
    initial + MapThenSumSet(Amount, {c \in credits : c.acct = a /\ c.date <= d})

(* split_interest: what the balance of the day before accrues, and the carry. *)
DayInterest(balance, rate) == (IF balance > 0 THEN balance ELSE 0) * rate
SplitLosesCarry(balance, rate, carry) ==
    [amount |-> DayInterest(balance, rate) \div Micros,
     carry  |-> DayInterest(balance, rate) % Micros]
Split(balance, rate, carry) ==
    LET accrued == DayInterest(balance, rate) + carry
    IN  [amount |-> accrued \div Micros, carry |-> accrued % Micros]

(* The pass takes its days first, its accounts when interest's turn comes. *)
StartPass ==
    /\ pass.pc = "idle"
    /\ pass' = [IdlePass EXCEPT !.pc = "load", !.today = now]
    /\ upsets' = upsets \cup Note("overlap", Editing)
    /\ UNCHANGED <<now, account, credits, editor, edits, faults, history>>

LoadAccounts ==
    /\ pass.pc = "load"
    /\ pass' = [pass EXCEPT !.pc = "account", !.todo = Earning, !.snap = account]
    /\ UNCHANGED <<now, account, credits, editor, counts, history>>

NextAccount ==
    /\ pass.pc = "account"
    /\ \/ \E a \in pass.todo :
             LET row == pass.snap[a]
             IN  pass' = [pass EXCEPT !.pc = "day", !.todo = @ \ {a}, !.acct = a,
                                      !.initial = row.initial, !.rate = row.rate,
                                      !.cursor = row.cursor, !.carry = row.carry]
       \/ pass.todo = {} /\ pass' = IdlePass
    /\ UNCHANGED <<now, account, credits, editor, counts, history>>

(* The first of the pass's days after the cursor. *)
NextDateFromCursor(s) ==
    IF s.cursor < s.today - CatchUpDays THEN s.today - CatchUpDays ELSE s.cursor
NextDate(s) ==
    IF s.cursor < s.today - CatchUpDays THEN s.today - CatchUpDays ELSE s.cursor + 1

(* A day pays on the closing balance of the day before. *)
ReadBalanceUntil(last) ==
    LET date == NextDate(pass)
        split == Split(Balance(pass.acct, pass.initial, date - 1), pass.rate, pass.carry) IN
    /\ pass.pc = "day"
    /\ pass' = IF date > last THEN [pass EXCEPT !.pc = "account"]
               ELSE [pass EXCEPT !.pc = "commit", !.date = date, !.amount = split.amount,
                                 !.carry = split.carry]
    /\ UNCHANGED <<now, account, credits, editor, counts, history>>
ReadBalanceUntilYesterday == ReadBalanceUntil(pass.today - 1)
ReadBalance == ReadBalanceUntil(pass.today)

(* One transaction: the cursor and the carry if the cursor has not moved     *)
(* meanwhile, and the credit unless the day has one.                        *)
Accrue(a, date) ==
    /\ account' = [account EXCEPT ![a].cursor = date, ![a].carry = pass.carry]
    /\ credits' = IF pass.amount > 0 /\ ~\E c \in credits : c.acct = a /\ c.date = date
                  THEN credits \cup {[acct |-> a, date |-> date, amount |-> pass.amount]}
                  ELSE credits
    /\ pass' = [pass EXCEPT !.pc = "day", !.cursor = date]
    /\ times' = [times EXCEPT ![a][date] = @ + 1]
    /\ earned' = [earned EXCEPT
                    ![a] = @ + DayInterest(Balance(a, pass.initial, date - 1), pass.rate)]
    /\ UNCHANGED <<now, editor, counts, since>>

CommitUnguarded == pass.pc = "commit" /\ Accrue(pass.acct, pass.date)
CommitDay ==
    /\ pass.pc = "commit"
    /\ \/ /\ account[pass.acct].cursor = pass.cursor
          /\ Accrue(pass.acct, pass.date)
       \/ /\ account[pass.acct].cursor # pass.cursor
          /\ pass' = [pass EXCEPT !.pc = "account"]
          /\ UNCHANGED <<now, account, credits, editor, counts, history>>

RunPass == LoadAccounts \/ NextAccount \/ ReadBalance \/ CommitDay

-----------------------------------------------------------------------------
(* The account requests. *)

Edit(e, state) == editor' = [editor EXCEPT ![e] = state]

MayEdit(e) ==
    /\ editor[e].pc = "idle"
    /\ edits < MaxEdits
    /\ edits' = edits + 1
    /\ upsets' = upsets \cup Note("overlap", Editing \/ pass.pc # "idle")

(* Interest turned on earns from the day after as_of: nothing is backfilled. *)
TurnOn(a, asOf) ==
    /\ since' = [since EXCEPT ![a] = asOf]
    /\ times' = [times EXCEPT ![a] = Never]

(* resolve_interest *)
ResolveInterest(row, rate, asOf) ==
    LET wanted == IF rate = Keep THEN row.rate ELSE rate
        turnsOn == wanted > 0 /\ row.rate = 0
    IN  [rate |-> wanted, cursor |-> IF turnsOn THEN asOf ELSE row.cursor, on |-> turnsOn]

CreateAccount(e, a, initial, rate, asOf) ==
    LET interest == ResolveInterest(NoAccount, rate, asOf) IN
    /\ MayEdit(e)
    /\ account[a].status = "absent"
    /\ rate # Keep
    /\ account' = [account EXCEPT ![a] =
                     [status |-> "active", initial |-> initial, rate |-> interest.rate,
                      cursor |-> interest.cursor, carry |-> 0]]
    /\ IF interest.on THEN TurnOn(a, asOf) ELSE UNCHANGED <<since, times>>
    /\ UNCHANGED <<now, credits, pass, editor, faults, earned>>

(* update_account: the row as found decides what is written ... *)
StartUpdate(e, a, initial, rate, asOf) ==
    LET interest == ResolveInterest(account[a], rate, asOf) IN
    /\ MayEdit(e)
    /\ account[a].status # "absent"
    /\ Edit(e, [pc |-> "update", acct |-> a, initial |-> initial, rate |-> interest.rate,
                cursor |-> interest.cursor, on |-> interest.on])
    /\ UNCHANGED <<now, account, credits, pass, faults, history>>

(* ... whatever the row has become since; the carry is left alone. *)
FinishUpdate(e) ==
    LET r == editor[e] IN
    /\ r.pc = "update"
    /\ account' = [account EXCEPT ![r.acct] =
                     [@ EXCEPT !.initial = r.initial, !.rate = r.rate, !.cursor = r.cursor]]
    /\ IF r.on THEN TurnOn(r.acct, r.cursor) ELSE UNCHANGED <<since, times>>
    /\ Edit(e, IdleEditor)
    /\ upsets' = upsets \cup Note("rewound", r.cursor < account[r.acct].cursor)
                  \cup Note("revived", ~r.on /\ r.cursor \in (NoCursor + 1)..(since[r.acct] - 1))
    /\ UNCHANGED <<now, credits, pass, edits, faults, earned>>

(* delete_account counts the active accounts ... *)
StartArchive(e, a) ==
    /\ MayEdit(e)
    /\ Cardinality(Active) > 1
    /\ Edit(e, [IdleEditor EXCEPT !.pc = "archive", !.acct = a])
    /\ UNCHANGED <<now, account, credits, pass, faults, history>>

(* ... and archives the one it was asked for, if that is still active. *)
FinishArchive(e) ==
    LET r == editor[e] IN
    /\ r.pc = "archive"
    /\ account' = IF r.acct \in Active
                  THEN [account EXCEPT ![r.acct].status = "archived"] ELSE account
    /\ Edit(e, IdleEditor)
    /\ UNCHANGED <<now, credits, pass, counts, history>>

AnswerRequest(e) ==
    \/ \E a \in Accounts :
          \/ StartArchive(e, a)
          \/ \E initial \in Amounts, rate \in Rates \cup {0, Keep}, offset \in ClientOffsets :
                \/ CreateAccount(e, a, initial, rate, now + offset)
                \/ StartUpdate(e, a, initial, rate, now + offset)
    \/ FinishUpdate(e) \/ FinishArchive(e)

-----------------------------------------------------------------------------
(* The environment. *)

Tick ==
    /\ now < LastDay
    /\ now' = now + 1
    /\ upsets' = upsets \cup Note("overlap", Editing)
                  \cup Note("late", \E a \in Earning : account[a].cursor < now - CatchUpDays)
    /\ UNCHANGED <<account, credits, pass, editor, edits, faults, history>>

(* A database error ends the step for the whole user; so does a crash. *)
Abort ==
    /\ faults < MaxFaults
    /\ pass.pc # "idle"
    /\ pass' = IdlePass
    /\ faults' = faults + 1
    /\ UNCHANGED <<now, account, credits, editor, edits, history, upsets>>

Next ==
    \/ StartPass \/ RunPass
    \/ \E e \in Editors : AnswerRequest(e)
    \/ Tick \/ Abort

Spec == Init /\ [][Next]_vars

(* The scheduler starts a pass again and again and a pass runs to its end;   *)
(* time passes.                                                             *)
FairSpec == Spec /\ WF_vars(StartPass) /\ WF_vars(RunPass) /\ WF_vars(Tick)

-----------------------------------------------------------------------------
AccountState == [status : {"absent", "active", "archived"}, initial : Int,
                 rate : Nat, cursor : Int, carry : 0..(Micros - 1)]
PassState == [pc : {"idle", "load", "account", "day", "commit"}, today : Nat,
              todo : SUBSET Accounts, acct : Accounts \cup {"none"}, initial : Int,
              rate : Nat, cursor : Int, carry : 0..(Micros - 1), date : Int,
              amount : Nat, snap : [Accounts -> AccountState]]
EditorState == [pc : {"idle", "update", "archive"}, acct : Accounts \cup {"none"},
                initial : Int, rate : Nat, cursor : Int, on : BOOLEAN]

(* Every variable has its type; a carry is a fraction of a minor unit (the   *)
(* column's CHECK).                                                         *)
TypeOK ==
    /\ now \in Nat
    /\ account \in [Accounts -> AccountState]
    /\ credits \subseteq [acct : Accounts, date : Int, amount : Nat \ {0}]
    /\ pass \in PassState
    /\ editor \in [Editors -> EditorState]
    /\ edits \in Nat /\ faults \in Nat
    /\ since \in [Accounts -> Int]
    /\ times \in [Accounts -> [Day -> Nat]]
    /\ earned \in [Accounts -> Nat]
    /\ upsets \subseteq AllUpsets

(* accrue_interest.rs:44: every day since interest was turned on, up to the  *)
(* cursor, has accrued exactly once, and no earlier day has, across passes   *)
(* that errors, crashes or midnight cut short, edits that switch interest    *)
(* off and on, and clients whose day is not the server's; as long as no      *)
(* request overlapped a pass and the catch-up days reached back far enough.  *)
ExactlyOnce ==
    upsets \subseteq {"rewound"} =>
        \A a \in Accounts, d \in Day :
            account[a].status # "absent" /\ account[a].rate > 0 =>
                times[a][d] = IF since[a] < d /\ d <= account[a].cursor THEN 1 ELSE 0

(* Nothing is lost or made up by crediting whole units only: the credits and *)
(* the carry add up to what the days have accrued, whatever was missed or    *)
(* overlapped, unless an update has moved the cursor back: a day that        *)
(* accrues again finds its credit there.                                    *)
InterestConserved ==
    "rewound" \notin upsets =>
        \A a \in Accounts :
            MapThenSumSet(Amount, {c \in credits : c.acct = a}) * Micros + account[a].carry
                = earned[a]

(* routes/accounts.rs:44: turning interest on credits no past day, even when *)
(* the pass under way started before interest was turned off and on again;  *)
(* unless an update that read the row before that writes its cursor back.   *)
NothingBackfilled ==
    "revived" \notin upsets => \A a \in Accounts, d \in Day : d <= since[a] => times[a][d] = 0

(* The accounts as books of compound interest: what a cursor, a carry and    *)
(* credited whole units amount to.                                          *)
Worth(a) == MapThenSumSet(Amount, {c \in credits : c.acct = a}) * Micros + account[a].carry
Book == [a \in Accounts |->
           [open |-> account[a].status = "active", initial |-> account[a].initial,
            rate |-> account[a].rate, upto |-> account[a].cursor, worth |-> Worth(a)]]
Books == INSTANCE CompoundInterest WITH book <- Book

(* accrue_interest.rs:46: as long as nothing is upset, the passes with their  *)
(* days cut short, carries and guarded commits, and the requests between them *)
(* compound the interest day by day and do nothing else.                    *)
CompoundsDaily == [][upsets' = {} => [Books!Next]_Book]_vars

(* Whatever was aborted, overlapped or edited meanwhile, interest catches up *)
(* with the clock once requests and faults cease.                           *)
InterestCatchesUp ==
    <>[](\A a \in Earning : account[a].cursor >= LastDay)
=============================================================================
