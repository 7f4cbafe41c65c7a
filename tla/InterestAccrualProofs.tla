------------------------ MODULE InterestAccrualProofs ------------------------
(***************************************************************************)
(* Theorems about InterestAccrual, for any number of accounts, editors,     *)
(* rates, days and faults: the types, NothingBackfilled, ExactlyOnce,       *)
(* InterestConserved, and the implementation of CompoundInterest.           *)
(*                                                                         *)
(* They follow from one inductive invariant, InterestInv, whose parts say   *)
(* what a pass has read of the accounts and how far that can have become    *)
(* stale.                                                                   *)
(***************************************************************************)
EXTENDS InterestAccrual, FiniteSetTheorems, TLAPS

-----------------------------------------------------------------------------
(* Sums of amounts.  MapThenSumSet is a fold that takes the elements of a   *)
(* set in the order CHOOSE gives them: it exists for every finite set, and  *)
(* any element may be taken first.                                          *)

Any(S) == CHOOSE c \in S : TRUE
Folds(f, S) ==
    f = [s \in SUBSET S |-> IF s = {} THEN 0 ELSE Amount(Any(s)) + f[s \ {Any(s)}]]
Total(S) == MapThenSumSet(Amount, S)

(* Every set of finite sets has one without a proper subset in it. *)
LEMMA Smallest ==
    ASSUME NEW S, NEW T \in SUBSET FiniteSubsetsOf(S), T # {}
    PROVE  \E s \in T : \A t \in T : ~(t \subseteq s /\ t # s)
<1> DEFINE R == StrictSubsetOrdering(S)
           F == FiniteSubsetsOf(S)
<1>1. IsWellFoundedOn(R, F)
  BY FS_StrictSubsetOrderingWellFounded
<1>2. \A s, t \in F : t \subseteq s /\ t # s => <<t, s>> \in R
  BY DEF StrictSubsetOrdering, FiniteSubsetsOf
<1> HIDE DEF R, F
<1>3. PICK s \in T : \A t \in T : ~(<<t, s>> \in R)
  <2>1. T \in SUBSET F
    BY DEF F
  <2> QED
    BY <1>1, <2>1, WFMin
<1>4. \A t \in T : t \in F
  BY DEF F
<1> QED
  BY <1>2, <1>3, <1>4

LEMMA SubsetsFinite ==
    ASSUME NEW S, IsFiniteSet(S), NEW s \in SUBSET S
    PROVE  /\ IsFiniteSet(s) /\ s \in FiniteSubsetsOf(S)
           /\ s # {} => /\ Any(s) \in s /\ s \ {Any(s)} \in SUBSET S
                        /\ s \ {Any(s)} \subseteq s /\ s \ {Any(s)} # s
<1>1. IsFiniteSet(s)
  BY FS_Subset
<1>2. s # {} => Any(s) \in s
  BY DEF Any
<1> QED
  BY <1>1, <1>2 DEF FiniteSubsetsOf

LEMMA FoldUnique ==
    ASSUME NEW S, IsFiniteSet(S), NEW T, NEW f, Folds(f, S), NEW g, Folds(g, T),
           NEW u \in SUBSET S, u \subseteq T
    PROVE  f[u] = g[u]
<1> DEFINE Bad == {s \in SUBSET S : s \subseteq T /\ f[s] # g[s]}
<1> SUFFICES ASSUME Bad # {} PROVE FALSE
  OBVIOUS
<1>1. Bad \in SUBSET FiniteSubsetsOf(S)
  BY SubsetsFinite
<1>2. PICK s \in Bad : \A t \in Bad : ~(t \subseteq s /\ t # s)
  <2> HIDE DEF Bad
  <2> QED
    BY <1>1, Smallest
<1>3. f[s] = IF s = {} THEN 0 ELSE Amount(Any(s)) + f[s \ {Any(s)}]
  BY <1>2 DEF Folds
<1>4. g[s] = IF s = {} THEN 0 ELSE Amount(Any(s)) + g[s \ {Any(s)}]
  BY <1>2 DEF Folds
<1>5. ASSUME s # {} PROVE f[s \ {Any(s)}] = g[s \ {Any(s)}]
  <2>1. s \ {Any(s)} \in SUBSET S /\ s \ {Any(s)} \subseteq s /\ s \ {Any(s)} # s
    BY <1>2, <1>5, SubsetsFinite
  <2>2. s \ {Any(s)} \notin Bad
    BY <1>2, <2>1
  <2> QED
    BY <1>2, <2>1, <2>2
<1> QED
  BY <1>2, <1>3, <1>4, <1>5

LEMMA FoldExists ==
    ASSUME NEW S, IsFiniteSet(S)
    PROVE  \E f : Folds(f, S)
<1> DEFINE Bad == {s \in SUBSET S : ~\E f : Folds(f, s)}
<1> SUFFICES ASSUME Bad # {} PROVE FALSE
  OBVIOUS
<1>1. Bad \in SUBSET FiniteSubsetsOf(S)
  BY SubsetsFinite
<1>2. PICK s \in Bad : \A t \in Bad : ~(t \subseteq s /\ t # s)
  <2> HIDE DEF Bad
  <2> QED
    BY <1>1, Smallest
<1> DEFINE Fold(t) == CHOOSE f : Folds(f, t)
           G(t) == Fold(t)[t]
           h == [t \in SUBSET s |-> IF t = {} THEN 0 ELSE Amount(Any(t)) + G(t \ {Any(t)})]
<1>3. \A t \in SUBSET s : t # s => Folds(Fold(t), t)
  <2> TAKE t \in SUBSET s
  <2> HAVE t # s
  <2>1. \E f : Folds(f, t)
    BY <1>2
  <2> QED
    BY <2>1
<1>4. \A t \in SUBSET s : IsFiniteSet(t)
  BY <1>2, SubsetsFinite
<1>5. ASSUME NEW u \in SUBSET s, u # s
      PROVE  G(u) = h[u]
  <2>1. Folds(Fold(u), u)
    BY <1>3, <1>5
  <2>2. G(u) = IF u = {} THEN 0 ELSE Amount(Any(u)) + Fold(u)[u \ {Any(u)}]
    <3> HIDE DEF Fold
    <3> QED
      BY <2>1 DEF Folds
  <2>3. ASSUME u # {} PROVE Fold(u)[u \ {Any(u)}] = G(u \ {Any(u)})
    <3>1. u \ {Any(u)} \in SUBSET u /\ u \ {Any(u)} \in SUBSET s /\ u \ {Any(u)} # s
      BY <1>4, <2>3, SubsetsFinite
    <3>2. Folds(Fold(u \ {Any(u)}), u \ {Any(u)})
      BY <1>3, <3>1
    <3> HIDE DEF Fold
    <3> QED
      BY <1>4, <2>1, <3>1, <3>2, FoldUnique
  <2> HIDE DEF G
  <2> QED
    BY <2>2, <2>3
<1>6. ASSUME NEW t \in SUBSET s, t # {}
      PROVE  G(t \ {Any(t)}) = h[t \ {Any(t)}]
  <2>1. t \ {Any(t)} \in SUBSET s /\ t \ {Any(t)} # s
    BY <1>4, <1>6, SubsetsFinite
  <2> HIDE DEF G, h
  <2> QED
    BY <1>5, <2>1
<1>7. h = [t \in SUBSET s |-> IF t = {} THEN 0 ELSE Amount(Any(t)) + h[t \ {Any(t)}]]
  <2>1. \A t \in SUBSET s : (IF t = {} THEN 0 ELSE Amount(Any(t)) + G(t \ {Any(t)}))
                          = (IF t = {} THEN 0 ELSE Amount(Any(t)) + h[t \ {Any(t)}])
    <3> HIDE DEF G, h
    <3> QED
      BY <1>6
  <2> DEFINE H == h
  <2>2. H = [t \in SUBSET s |-> IF t = {} THEN 0 ELSE Amount(Any(t)) + G(t \ {Any(t)})]
    OBVIOUS
  <2>3. \A t \in SUBSET s : (IF t = {} THEN 0 ELSE Amount(Any(t)) + G(t \ {Any(t)}))
                          = (IF t = {} THEN 0 ELSE Amount(Any(t)) + H[t \ {Any(t)}])
    BY <2>1
  <2> HIDE DEF G, H
  <2>4. H = [t \in SUBSET s |-> IF t = {} THEN 0 ELSE Amount(Any(t)) + H[t \ {Any(t)}]]
    BY <2>2, <2>3
  <2> QED
    BY <2>4 DEF H
<1>8. Folds(h, s)
  <2> HIDE DEF h
  <2> QED
    BY <1>7 DEF Folds
<1> QED
  BY <1>2, <1>8

LEMMA TotalStep ==
    ASSUME NEW S, IsFiniteSet(S)
    PROVE  Total(S) = IF S = {} THEN 0 ELSE Amount(Any(S)) + Total(S \ {Any(S)})
<1> DEFINE Fold(T) == CHOOSE f : Folds(f, T)
<1>1. \A T : Total(T) = Fold(T)[T]
  BY DEF Total, MapThenSumSet, MapThenFoldSet, Folds, Any
<1>2. ASSUME NEW T, IsFiniteSet(T) PROVE Folds(Fold(T), T)
  BY <1>2, FoldExists
<1> HIDE DEF Fold
<1>3. Fold(S)[S] = IF S = {} THEN 0 ELSE Amount(Any(S)) + Fold(S)[S \ {Any(S)}]
  BY <1>2 DEF Folds
<1>4. ASSUME S # {} PROVE Fold(S)[S \ {Any(S)}] = Fold(S \ {Any(S)})[S \ {Any(S)}]
  <2>1. IsFiniteSet(S \ {Any(S)})
    BY FS_Subset
  <2> QED
    BY <1>2, <2>1, FoldUnique
<1> QED
  BY <1>1, <1>3, <1>4

LEMMA TotalInt ==
    ASSUME NEW S, IsFiniteSet(S), \A c \in S : Amount(c) \in Int
    PROVE  Total(S) \in Int
<1> DEFINE Bad == {s \in SUBSET S : Total(s) \notin Int}
<1> SUFFICES ASSUME Bad # {} PROVE FALSE
  OBVIOUS
<1>1. Bad \in SUBSET FiniteSubsetsOf(S)
  BY SubsetsFinite
<1>2. PICK s \in Bad : \A t \in Bad : ~(t \subseteq s /\ t # s)
  <2> HIDE DEF Bad
  <2> QED
    BY <1>1, Smallest
<1>3. s # {} => Any(s) \in S /\ s \ {Any(s)} \notin Bad /\ s \ {Any(s)} \in SUBSET S
  BY <1>2, SubsetsFinite
<1>4. Total(s) = IF s = {} THEN 0 ELSE Amount(Any(s)) + Total(s \ {Any(s)})
  BY <1>2, SubsetsFinite, TotalStep
<1> QED
  BY <1>2, <1>3, <1>4

LEMMA TotalTake ==
    ASSUME NEW S, IsFiniteSet(S), \A c \in S : Amount(c) \in Int, NEW c \in S
    PROVE  Total(S) = Amount(c) + Total(S \ {c})
<1> DEFINE Bad == {s \in SUBSET S : \E x \in s : Total(s) # Amount(x) + Total(s \ {x})}
<1> SUFFICES ASSUME Bad # {} PROVE FALSE
  OBVIOUS
<1>1. Bad \in SUBSET FiniteSubsetsOf(S)
  BY SubsetsFinite
<1>2. PICK s \in Bad : \A t \in Bad : ~(t \subseteq s /\ t # s)
  <2> HIDE DEF Bad
  <2> QED
    BY <1>1, Smallest
<1>3. PICK x \in s : Total(s) # Amount(x) + Total(s \ {x})
  BY <1>2
<1> DEFINE y == Any(s)
<1>4. y \in s /\ s \ {y} \notin Bad /\ s \ {x} \notin Bad
  <2>1. y \in s
    BY <1>3 DEF Any
  <2> HIDE DEF Bad, y
  <2> QED
    BY <1>2, <1>3, <2>1
<1>5. Total(s) = Amount(y) + Total(s \ {y})
  BY <1>2, <1>3, SubsetsFinite, TotalStep
<1> HIDE DEF y
<1>6. x # y
  BY <1>3, <1>5
<1>7. Total(s \ {y}) = Amount(x) + Total((s \ {y}) \ {x})
  BY <1>2, <1>4, <1>6
<1>8. Total(s \ {x}) = Amount(y) + Total((s \ {x}) \ {y})
  BY <1>2, <1>3, <1>4, <1>6
<1>9. (s \ {y}) \ {x} = (s \ {x}) \ {y}
  OBVIOUS
<1>10. Amount(x) \in Int /\ Amount(y) \in Int /\ Total((s \ {x}) \ {y}) \in Int
  <2>1. (s \ {x}) \ {y} \in SUBSET S /\ x \in S /\ y \in S
    BY <1>2, <1>4
  <2> QED
    BY <2>1, SubsetsFinite, TotalInt
<1> QED
  BY <1>3, <1>5, <1>7, <1>8, <1>9, <1>10

-----------------------------------------------------------------------------
(* The inductive invariant. *)

AtDay == pass.pc \in {"day", "commit"}

(* An account that earns has a cursor. *)
Cursored(row) == row.cursor >= NoCursor /\ (row.rate > 0 => row.cursor > NoCursor)

(* What accounts, the pass and the requests hold beyond their types. *)
AccountsHold ==
    \A a \in Accounts : /\ Cursored(account[a])
                        /\ account[a].status = "absent" => account[a] = NoAccount
PassHolds ==
    /\ pass.today <= now
    /\ \A a \in Accounts : Cursored(pass.snap[a])
    /\ \A a \in pass.todo : pass.snap[a].rate > 0
    /\ AtDay => pass.acct \in Accounts /\ pass.cursor > NoCursor
    /\ pass.pc = "commit" => pass.date = NextDate(pass) /\ pass.date <= pass.today
RequestHolds(r) ==
    r.pc # "idle" => /\ r.acct \in Accounts
                     /\ r.pc = "update" => account[r.acct].status # "absent" /\ Cursored(r)
RowsHold ==
    /\ TypeOK
    /\ IsFiniteSet(credits) /\ now <= LastDay
    /\ AccountsHold /\ PassHolds
    /\ \A e \in Editors : RequestHolds(editor[e])

(* The cursor of an account is never before the day interest was turned on. *)
CursorsReach ==
    \A a \in Accounts : account[a].cursor # NoCursor => since[a] <= account[a].cursor
BackfillInv == "revived" \notin upsets => CursorsReach /\ NothingBackfilled

(* Cursors only go forward, so what a pass has read of one that has not     *)
(* moved is current, and the days after a cursor have no credit.            *)
Follows(row, a) ==
    /\ row.cursor <= account[a].cursor
    /\ row.cursor = account[a].cursor => row.carry = account[a].carry
CreditsReach == \A c \in credits : c.date <= account[c.acct].cursor
PassFollows ==
    /\ \A a \in pass.todo : Follows(pass.snap[a], a)
    /\ pass.pc = "day" => Follows(pass, pass.acct)
    /\ pass.pc = "commit" =>
          /\ pass.cursor <= account[pass.acct].cursor
          /\ pass.cursor = account[pass.acct].cursor =>
                pass.amount * Micros + pass.carry
                    = DayInterest(Balance(pass.acct, pass.initial, pass.date - 1), pass.rate)
                        + account[pass.acct].carry
ConservedInv == "rewound" \notin upsets => CreditsReach /\ PassFollows /\ InterestConserved

(* Without an overlap one thing happens at a time, on rows as it found them; *)
(* without a late pass the catch-up days reach every cursor.                *)
Undisturbed == upsets \subseteq {"rewound"}
OneAtATime ==
    /\ pass.pc # "idle" => ~Editing
    /\ \A e, f \in Editors : editor[e].pc # "idle" /\ editor[f].pc # "idle" => e = f
    /\ \A e \in Editors : editor[e].pc = "update" =>
          IF editor[e].on
          THEN /\ editor[e].cursor >= now - 1
               /\ account[editor[e].acct].rate = 0 /\ editor[e].rate > 0
          ELSE /\ editor[e].cursor = account[editor[e].acct].cursor
               /\ editor[e].rate > 0 => account[editor[e].acct].rate > 0
InTime ==
    /\ \A a \in Earning : account[a].cursor >= now - 1 - CatchUpDays
    /\ pass.pc # "idle" => pass.todo \subseteq Earning
    /\ AtDay => pass.acct \in Earning
OnceInv == Undisturbed => OneAtATime /\ InTime /\ ExactlyOnce

InterestInv == RowsHold /\ BackfillInv /\ ConservedInv /\ OnceInv

-----------------------------------------------------------------------------
(* The operators of a day. *)

LEMMA WholeAndCarry ==
    ASSUME NEW x \in Nat
    PROVE  /\ x \div Micros \in Nat /\ x % Micros \in 0..(Micros - 1)
           /\ (x \div Micros) * Micros + (x % Micros) = x
<1> Micros \in Nat \ {0}
  BY InterestAssumption
<1>1. x % Micros \in 0..(Micros - 1)
  OBVIOUS
<1>2. x \div Micros \in Nat
  OBVIOUS
<1>3. (x \div Micros) * Micros + (x % Micros) = x
  OBVIOUS
<1> QED
  BY <1>1, <1>2, <1>3

LEMMA DayInterestNat ==
    ASSUME NEW balance \in Int, NEW rate \in Nat
    PROVE  DayInterest(balance, rate) \in Nat
BY DEF DayInterest

LEMMA SplitConserves ==
    ASSUME NEW balance \in Int, NEW rate \in Nat, NEW carry \in 0..(Micros - 1),
           NEW split, split = Split(balance, rate, carry)
    PROVE  /\ split.amount \in Nat /\ split.carry \in 0..(Micros - 1)
           /\ split.amount * Micros + split.carry = DayInterest(balance, rate) + carry
<1> DEFINE accrued == DayInterest(balance, rate) + carry
<1>1. accrued \in Nat
  <2>1. carry \in Nat
    BY InterestAssumption
  <2>2. DayInterest(balance, rate) \in Nat
    BY DayInterestNat
  <2> QED
    BY <2>1, <2>2
<1>2. split.amount = accrued \div Micros /\ split.carry = accrued % Micros
  BY DEF Split
<1> HIDE DEF accrued
<1>3. /\ accrued \div Micros \in Nat /\ accrued % Micros \in 0..(Micros - 1)
      /\ (accrued \div Micros) * Micros + (accrued % Micros) = accrued
  BY <1>1, WholeAndCarry
<1>4. accrued = DayInterest(balance, rate) + carry
  BY DEF accrued
<1> QED
  BY <1>2, <1>3, <1>4

LEMMA CreditsTotal ==
    ASSUME RowsHold, NEW C \in SUBSET credits
    PROVE  /\ IsFiniteSet(C) /\ \A c \in C : Amount(c) \in Int
           /\ Total(C) \in Int
<1>1. IsFiniteSet(C) /\ \A c \in C : Amount(c) \in Int
  BY FS_Subset DEF RowsHold, TypeOK, Amount
<1> QED
  BY <1>1, TotalInt

LEMMA BalanceInt ==
    ASSUME RowsHold, NEW a, NEW initial \in Int, NEW d
    PROVE  Balance(a, initial, d) \in Int
<1> DEFINE C == {c \in credits : c.acct = a /\ c.date <= d}
<1>1. Total(C) \in Int
  BY CreditsTotal
<1>2. Balance(a, initial, d) = initial + Total(C)
  BY DEF Balance, Total
<1> HIDE DEF C
<1> QED
  BY <1>1, <1>2

LEMMA NextDateAfter ==
    ASSUME NEW s, s.cursor \in Int, s.cursor > NoCursor, s.today \in Nat
    PROVE  /\ NextDate(s) \in Nat /\ NextDate(s) > s.cursor
           /\ s.cursor >= s.today - 1 - CatchUpDays => NextDate(s) = s.cursor + 1
BY InterestAssumption DEF NextDate, NoCursor

-----------------------------------------------------------------------------
(* Rows and types. *)

LEMMA Blank ==
    /\ NoAccount \in AccountState /\ Cursored(NoAccount)
    /\ IdlePass \in PassState /\ IdlePass.pc = "idle" /\ IdlePass.todo = {}
    /\ IdlePass.snap \in [Accounts -> {NoAccount}] /\ IdlePass.today = 0
    /\ IdleEditor \in EditorState /\ IdleEditor.pc = "idle"
BY InterestAssumption DEF NoAccount, IdlePass, IdleEditor, AccountState, PassState,
                          EditorState, Cursored, NoCursor

LEMMA InitRows == Init => RowsHold
<1> SUFFICES ASSUME Init PROVE RowsHold
  OBVIOUS
<1> DEFINE Fresh == [status : {"active"}, initial : Amounts, rate : Rates, cursor : {0},
                     carry : {0}]
<1>1. ASSUME NEW row \in Fresh
      PROVE  row \in AccountState /\ Cursored(row) /\ row.status # "absent"
  <2>1. /\ row.status = "active" /\ row.initial \in Int /\ row.rate \in Nat /\ row.cursor = 0
        /\ row.carry = 0
    BY InterestAssumption
  <2>2. 0 \in 0..(Micros - 1)
    BY InterestAssumption
  <2>3. row = [status |-> row.status, initial |-> row.initial, rate |-> row.rate,
               cursor |-> row.cursor, carry |-> row.carry]
    OBVIOUS
  <2> HIDE DEF Fresh
  <2> QED
    BY <2>1, <2>2, <2>3 DEF AccountState, Cursored, NoCursor
<1>2. account \in [Accounts -> {NoAccount} \cup Fresh]
  BY DEF Init
<1> HIDE DEF Fresh
<1>3. account \in [Accounts -> AccountState] /\ AccountsHold
  BY <1>1, <1>2, Blank DEF AccountsHold
<1>4. pass \in PassState /\ PassHolds
  BY Blank DEF Init, PassHolds, AtDay
<1>5. \A e \in Editors : editor[e] \in EditorState /\ RequestHolds(editor[e])
  BY Blank DEF Init, RequestHolds
<1>6. /\ editor \in [Editors -> EditorState]
      /\ since \in [Accounts -> Int] /\ times \in [Accounts -> [Day -> Nat]]
      /\ earned \in [Accounts -> Nat]
  BY <1>5 DEF Init, Never
<1>7. credits = {} /\ IsFiniteSet(credits) /\ now = 0 /\ edits = 0 /\ faults = 0 /\ upsets = {}
  BY FS_EmptySet DEF Init
<1> QED
  BY <1>3, <1>4, <1>5, <1>6, <1>7, InterestAssumption DEF RowsHold, TypeOK

LEMMA PassMoves ==
    ASSUME RowsHold, UNCHANGED <<now, account, credits, editor, edits, history>>,
           faults' \in Nat, upsets' \subseteq AllUpsets, pass' \in PassState, PassHolds'
    PROVE  RowsHold'
<1>1. UNCHANGED <<since, times, earned>>
  BY DEF history
<1>2. AccountsHold'
  BY DEF RowsHold, AccountsHold
<1>3. \A e \in Editors : RequestHolds(editor[e])'
  BY DEF RowsHold, RequestHolds
<1> QED
  BY <1>1, <1>2, <1>3 DEF RowsHold, TypeOK

LEMMA PassStepRows ==
    ASSUME RowsHold, StartPass \/ LoadAccounts \/ NextAccount \/ ReadBalance \/ Abort
    PROVE  RowsHold'
<1> USE DEF RowsHold, TypeOK
<1>1. CASE StartPass
  <2>1. /\ pass' \in PassState /\ pass'.pc = "load" /\ pass'.today = now /\ pass'.todo = {}
        /\ pass'.snap = IdlePass.snap
    BY <1>1, Blank DEF StartPass, PassState
  <2>2. PassHolds'
    BY <1>1, <2>1, Blank DEF StartPass, PassHolds, AtDay
  <2>3. upsets' \subseteq AllUpsets
    BY <1>1 DEF StartPass, Note, AllUpsets
  <2> QED
    BY <1>1, <2>1, <2>2, <2>3, PassMoves DEF StartPass
<1>2. CASE LoadAccounts
  <2> DEFINE loaded == Earning
  <2>1. loaded \in SUBSET Accounts /\ \A a \in loaded : account[a].rate > 0
    BY DEF Earning, Active
  <2>2. pass' = [pass EXCEPT !.pc = "account", !.todo = loaded, !.snap = account]
    BY <1>2 DEF LoadAccounts
  <2> HIDE DEF loaded
  <2>3. /\ pass' \in PassState /\ pass'.pc = "account" /\ pass'.today = pass.today
        /\ pass'.todo = loaded /\ pass'.snap = account
    BY <2>1, <2>2 DEF PassState
  <2>4. PassHolds'
    BY <1>2, <2>1, <2>3 DEF LoadAccounts, PassHolds, AtDay, AccountsHold
  <2> QED
    BY <1>2, <2>3, <2>4, PassMoves DEF LoadAccounts, counts
<1>3. CASE NextAccount
  <2>1. ASSUME NEW a \in pass.todo, NEW row, row = pass.snap[a],
               pass' = [pass EXCEPT !.pc = "day", !.todo = @ \ {a}, !.acct = a,
                                    !.initial = row.initial, !.rate = row.rate,
                                    !.cursor = row.cursor, !.carry = row.carry]
        PROVE  pass' \in PassState /\ PassHolds'
    <3>1. a \in Accounts /\ row \in AccountState /\ row.cursor > NoCursor
      BY <2>1 DEF PassState, PassHolds, Cursored
    <3>2. /\ pass' \in PassState /\ pass'.pc = "day" /\ pass'.today = pass.today
          /\ pass'.todo = pass.todo \ {a} /\ pass'.snap = pass.snap /\ pass'.acct = a
          /\ pass'.cursor = row.cursor
      BY <2>1, <3>1 DEF PassState, AccountState
    <3>3. pass'.today <= now' /\ AtDay' /\ pass'.cursor > NoCursor /\ pass'.pc # "commit"
      BY <1>3, <3>1, <3>2 DEF NextAccount, PassHolds, AtDay
    <3>4. \A b \in pass'.todo : pass'.snap[b].rate > 0
      BY <3>2 DEF PassHolds
    <3>5. \A b \in Accounts : Cursored(pass.snap[b])
      BY DEF PassHolds
    <3>6. \A b \in Accounts : Cursored(pass'.snap[b])
      BY <3>2, <3>5
    <3> QED
      BY <3>1, <3>2, <3>3, <3>4, <3>6 DEF PassHolds
  <2>2. ASSUME pass' = IdlePass
        PROVE  pass' \in PassState /\ PassHolds'
    <3>1. now' = now
      BY <1>3 DEF NextAccount
    <3> QED
      BY <2>2, <3>1, Blank DEF PassHolds, AtDay
  <2>3. pass' \in PassState /\ PassHolds'
    BY <1>3, <2>1, <2>2 DEF NextAccount
  <2> QED
    BY <1>3, <2>3, PassMoves DEF NextAccount, counts
<1>4. CASE ReadBalance
  <2> DEFINE date == NextDate(pass)
             split == Split(Balance(pass.acct, pass.initial, date - 1), pass.rate, pass.carry)
             amount == split.amount
             carry == split.carry
  <2>1. pass.pc = "day" /\ UNCHANGED <<now, account, credits, editor, counts, history>>
    BY <1>4 DEF ReadBalance, ReadBalanceUntil
  <2>2. /\ pass' = IF date > pass.today THEN [pass EXCEPT !.pc = "account"]
                   ELSE [pass EXCEPT !.pc = "commit", !.date = date, !.amount = amount, !.carry = carry]
    BY <1>4 DEF ReadBalance, ReadBalanceUntil
  <2>3. pass.cursor > NoCursor /\ date \in Nat
    BY <2>1, NextDateAfter DEF PassHolds, AtDay, PassState
  <2>4. amount \in Nat /\ carry \in 0..(Micros - 1)
    BY BalanceInt, SplitConserves DEF PassState
  <2>5. NextDate(pass) = date
    OBVIOUS
  <2> HIDE DEF date, split, amount, carry
  <2>6. CASE date > pass.today
    <3>1. pass' \in PassState /\ pass'.pc = "account" /\ pass'.today = pass.today
          /\ pass'.todo = pass.todo /\ pass'.snap = pass.snap
      BY <2>2, <2>6 DEF PassState
    <3>2. PassHolds'
      BY <2>1, <3>1 DEF PassHolds, AtDay
    <3> QED
      BY <2>1, <3>1, <3>2, PassMoves DEF counts
  <2>7. CASE ~(date > pass.today)
    <3>0. pass' = [pass EXCEPT !.pc = "commit", !.date = date, !.amount = amount, !.carry = carry]
      BY <2>2, <2>7
    <3>1. /\ pass' \in PassState /\ pass'.pc = "commit" /\ pass'.today = pass.today
          /\ pass'.todo = pass.todo /\ pass'.snap = pass.snap /\ pass'.acct = pass.acct
          /\ pass'.cursor = pass.cursor /\ pass'.date = date
      <4>1. pass \in PassState /\ date \in Int
        BY <2>3
      <4>2. pass' \in PassState
        BY <2>4, <3>0, <4>1 DEF PassState
      <4>3. /\ pass'.pc = "commit" /\ pass'.today = pass.today
            /\ pass'.todo = pass.todo /\ pass'.snap = pass.snap /\ pass'.acct = pass.acct
            /\ pass'.cursor = pass.cursor /\ pass'.date = date
        BY <3>0, <4>1 DEF PassState
      <4> QED
        BY <4>2, <4>3
    <3>2. NextDate(pass') = date
      BY <2>5, <3>1, Zenon DEF NextDate
    <3>3. date <= pass.today
      BY <2>3, <2>7 DEF PassState
    <3>4. PassHolds'
      BY <2>1, <2>7, <3>1, <3>2, <3>3 DEF PassHolds, AtDay
    <3> QED
      BY <2>1, <3>1, <3>4, PassMoves DEF counts
  <2> QED
    BY <2>6, <2>7
<1>5. CASE Abort
  <2>1. pass' \in PassState /\ PassHolds'
    BY <1>5, Blank DEF Abort, PassHolds, AtDay
  <2> QED
    BY <1>5, <2>1, PassMoves DEF Abort
<1> QED
  BY <1>1, <1>2, <1>3, <1>4, <1>5

LEMMA CommitTyped ==
    ASSUME RowsHold, pass.pc = "commit"
    PROVE  /\ pass.acct \in Accounts /\ pass.date \in Day /\ pass.date \in Nat
           /\ pass.cursor \in Int /\ NoCursor < pass.cursor /\ pass.cursor < pass.date
           /\ pass.carry \in 0..(Micros - 1) /\ pass.amount \in Nat
           /\ DayInterest(Balance(pass.acct, pass.initial, pass.date - 1), pass.rate) \in Nat
<1>1. pass \in PassState /\ PassHolds /\ now \in Nat /\ now <= LastDay
  BY DEF RowsHold, TypeOK
<1>2. /\ pass.acct \in Accounts /\ NoCursor < pass.cursor /\ pass.date = NextDate(pass)
      /\ pass.date <= pass.today /\ pass.today <= now
  BY <1>1 DEF PassHolds, AtDay
<1>3. /\ pass.cursor \in Int /\ pass.today \in Nat /\ pass.carry \in 0..(Micros - 1)
      /\ pass.amount \in Nat /\ pass.initial \in Int /\ pass.rate \in Nat
  BY <1>1 DEF PassState
<1>4. pass.date \in Nat /\ pass.cursor < pass.date
  BY <1>2, <1>3, NextDateAfter
<1>5. pass.date \in Day
  BY <1>1, <1>2, <1>3, <1>4, InterestAssumption DEF Day
<1>6. DayInterest(Balance(pass.acct, pass.initial, pass.date - 1), pass.rate) \in Nat
  BY <1>3, BalanceInt, DayInterestNat
<1> QED
  BY <1>2, <1>3, <1>4, <1>5, <1>6

(* What a commit that finds the cursor where it was read writes. *)
Paid == [acct |-> pass.acct, date |-> pass.date, amount |-> pass.amount]
Committed ==
    /\ pass.pc = "commit" /\ account[pass.acct].cursor = pass.cursor
    /\ Accrue(pass.acct, pass.date)
LEMMA CommitWrites ==
    ASSUME RowsHold, Committed
    PROVE  /\ account' \in [Accounts -> AccountState]
           /\ account'[pass.acct].cursor = pass.date /\ account'[pass.acct].carry = pass.carry
           /\ account[pass.acct].status # "absent"
           /\ \A a \in Accounts : /\ account'[a].status = account[a].status
                                  /\ account'[a].rate = account[a].rate
                                  /\ account'[a].initial = account[a].initial
           /\ \A a \in Accounts \ {pass.acct} : account'[a] = account[a]
<1> DEFINE a == pass.acct
           row == account[a]
           date == pass.date
           carry == pass.carry
           new == [row EXCEPT !.cursor = date, !.carry = carry]
<1>1. /\ a \in Accounts /\ date \in Int /\ carry \in 0..(Micros - 1)
      /\ NoCursor < pass.cursor /\ pass.cursor \in Int /\ row.cursor = pass.cursor
      /\ account \in [Accounts -> AccountState] /\ row \in AccountState
  BY CommitTyped DEF Committed, RowsHold, TypeOK
<1>2. account' = [account EXCEPT ![a] = new]
  BY DEF Committed, Accrue
<1>3. row.status # "absent"
  <2>1. row.status = "absent" => row = NoAccount
    BY <1>1 DEF RowsHold, AccountsHold
  <2>2. NoAccount.cursor = NoCursor
    BY DEF NoAccount
  <2> HIDE DEF row
  <2> QED
    BY <1>1, <2>1, <2>2 DEF NoCursor
<1> HIDE DEF row, date, carry
<1>4. new \in AccountState /\ new.cursor = date /\ new.carry = carry
      /\ new.status = row.status /\ new.rate = row.rate /\ new.initial = row.initial
  BY <1>1 DEF AccountState
<1> HIDE DEF new, a
<1>5. account' \in [Accounts -> AccountState] /\ account'[a] = new
      /\ \A b \in Accounts \ {a} : account'[b] = account[b]
  BY <1>1, <1>2, <1>4
<1>6. \A b \in Accounts : /\ account'[b].status = account[b].status
                          /\ account'[b].rate = account[b].rate
                          /\ account'[b].initial = account[b].initial
  BY <1>4, <1>5 DEF row
<1> QED
  BY <1>3, <1>4, <1>5, <1>6 DEF a, date, carry, row

LEMMA CommitRows ==
    ASSUME RowsHold, CommitDay
    PROVE  RowsHold'
<1>1. CASE Committed
  <2> DEFINE paid == Paid
             interest == DayInterest(Balance(pass.acct, pass.initial, pass.date - 1), pass.rate)
             a == pass.acct
             date == pass.date
  <2>1. /\ a \in Accounts /\ date \in Day /\ date \in Nat /\ pass.cursor < date
        /\ NoCursor < pass.cursor /\ pass.cursor \in Int /\ interest \in Nat
    BY <1>1, CommitTyped DEF Committed
  <2>2. TypeOK /\ pass \in PassState /\ PassHolds
    BY DEF RowsHold, TypeOK
  <2>3. /\ credits' \in {credits, credits \cup {paid}}
        /\ pass.amount = 0 => credits' = credits
    BY <1>1, <2>2 DEF Committed, Accrue, Paid, PassState
  <2>4. /\ IsFiniteSet(credits')
        /\ credits' \subseteq [acct : Accounts, date : Int, amount : Nat \ {0}]
    <3>1. pass.amount # 0 => paid \in [acct : Accounts, date : Int, amount : Nat \ {0}]
      BY <2>1, <2>2 DEF PassState, Paid
    <3>2. IsFiniteSet(credits) /\ credits \subseteq [acct : Accounts, date : Int, amount : Nat \ {0}]
      BY DEF RowsHold, TypeOK
    <3>3. IsFiniteSet(credits \cup {paid})
      BY <3>2, FS_AddElement
    <3> HIDE DEF paid
    <3> QED
      BY <2>3, <3>1, <3>2, <3>3
  <2>5. pass' = [pass EXCEPT !.pc = "day", !.cursor = date]
    BY <1>1 DEF Committed, Accrue
  <2>6. times' = [times EXCEPT ![a] = [times[a] EXCEPT ![date] = @ + 1]]
    BY <1>1, <2>1, <2>2 DEF Committed, Accrue, TypeOK
  <2>7. earned' = [earned EXCEPT ![a] = @ + interest]
    BY <1>1 DEF Committed, Accrue
  <2>8. UNCHANGED <<now, editor, counts, since>>
    BY <1>1 DEF Committed, Accrue
  <2>9. date \in Int /\ a = pass.acct
    BY <2>1
  <2> HIDE DEF a, date, interest
  <2>10. times' \in [Accounts -> [Day -> Nat]]
    <3>1. [times[a] EXCEPT ![date] = @ + 1] \in [Day -> Nat]
      BY <2>1, <2>2 DEF TypeOK
    <3> QED
      BY <2>1, <2>2, <2>6, <3>1 DEF TypeOK
  <2>11. earned' \in [Accounts -> Nat]
    BY <2>1, <2>2, <2>7 DEF TypeOK
  <2>12. /\ pass' \in PassState /\ pass'.pc = "day" /\ pass'.today = pass.today
         /\ pass'.todo = pass.todo /\ pass'.snap = pass.snap /\ pass'.acct = a
         /\ pass'.cursor = date
    BY <2>2, <2>5, <2>9 DEF PassState
  <2>13. PassHolds'
    <3>1. /\ pass.today <= now /\ \A b \in Accounts : Cursored(pass.snap[b])
          /\ \A b \in pass.todo : pass.snap[b].rate > 0
      BY <2>2 DEF PassHolds
    <3>2. NoCursor < date
      BY <2>1 DEF NoCursor
    <3>3. /\ pass'.today <= now' /\ \A b \in Accounts : Cursored(pass'.snap[b])
          /\ \A b \in pass'.todo : pass'.snap[b].rate > 0
      BY <2>8, <2>12, <3>1
    <3> QED
      BY <2>1, <2>12, <3>2, <3>3 DEF PassHolds
  <2>14. AccountsHold'
    <3>1. ASSUME NEW b \in Accounts, b # a
          PROVE  account'[b] = account[b]
      BY <1>1, <2>9, <3>1, CommitWrites
    <3>2. account'[a].cursor = date /\ account'[a].status # "absent"
      BY <1>1, <2>1, <2>9, CommitWrites DEF date
    <3>3. \A b \in Accounts : b # a => Cursored(account[b])
                                       /\ (account[b].status = "absent" => account[b] = NoAccount)
      BY DEF RowsHold, AccountsHold
    <3>4. Cursored(account'[a])
      BY <2>1, <3>2 DEF Cursored, NoCursor
    <3>5. ASSUME NEW b \in Accounts
          PROVE  /\ Cursored(account'[b])
                 /\ account'[b].status = "absent" => account'[b] = NoAccount
      BY <3>1, <3>2, <3>3, <3>4
    <3> QED
      BY <3>5 DEF AccountsHold
  <2>15. \A e \in Editors : RequestHolds(editor[e])'
    BY <1>1, <2>8, CommitWrites DEF RowsHold, RequestHolds
  <2>16. account' \in [Accounts -> AccountState]
    BY <1>1, CommitWrites
  <2>17. TypeOK'
    BY <2>2, <2>4, <2>8, <2>10, <2>11, <2>12, <2>16 DEF TypeOK, counts
  <2> QED
    BY <2>4, <2>8, <2>13, <2>14, <2>15, <2>17 DEF RowsHold
<1>2. CASE ~Committed
  <2>1. /\ pass' = [pass EXCEPT !.pc = "account"]
        /\ UNCHANGED <<now, account, credits, editor, counts, history>>
    BY <1>2 DEF CommitDay, Committed
  <2>2. pass \in PassState /\ PassHolds /\ TypeOK
    BY DEF RowsHold, TypeOK
  <2>3. pass' \in PassState /\ pass'.pc = "account" /\ pass'.today = pass.today
        /\ pass'.todo = pass.todo /\ pass'.snap = pass.snap
    BY <2>1, <2>2 DEF PassState
  <2>4. PassHolds'
    BY <2>1, <2>2, <2>3 DEF PassHolds, AtDay
  <2> QED
    BY <2>1, <2>2, <2>3, <2>4, PassMoves DEF counts, TypeOK
<1> QED
  BY <1>1, <1>2

LEMMA Resolved ==
    ASSUME NEW row \in AccountState, Cursored(row), NEW rate \in Nat \cup {Keep},
           NEW asOf \in Int, asOf > NoCursor,
           NEW interest, interest = ResolveInterest(row, rate, asOf)
    PROVE  /\ interest.rate \in Nat /\ interest.cursor \in Int /\ interest.on \in BOOLEAN
           /\ Cursored(interest)
           /\ interest.on => interest.cursor = asOf /\ row.rate = 0 /\ interest.rate > 0
           /\ ~interest.on => /\ interest.cursor = row.cursor
                              /\ interest.rate > 0 => row.rate > 0
<1> DEFINE wanted == IF rate = Keep THEN row.rate ELSE rate
           turnsOn == wanted > 0 /\ row.rate = 0
           cursor == IF turnsOn THEN asOf ELSE row.cursor
<1>1. row.rate \in Nat /\ row.cursor \in Int /\ wanted \in Nat /\ turnsOn \in BOOLEAN
  BY DEF AccountState, Keep
<1>2. interest = [rate |-> wanted, cursor |-> cursor, on |-> turnsOn]
  BY DEF ResolveInterest
<1>3. /\ cursor \in Int /\ cursor >= NoCursor /\ (wanted > 0 => cursor > NoCursor)
      /\ turnsOn => cursor = asOf /\ row.rate = 0 /\ wanted > 0
      /\ ~turnsOn => cursor = row.cursor /\ (wanted > 0 => row.rate > 0)
  BY <1>1 DEF Cursored, NoCursor
<1> HIDE DEF wanted, turnsOn, cursor
<1>4. interest.rate = wanted /\ interest.cursor = cursor /\ interest.on = turnsOn
  BY <1>2
<1> QED
  BY <1>1, <1>3, <1>4 DEF Cursored

LEMMA ClientDay ==
    ASSUME RowsHold, NEW offset \in ClientOffsets
    PROVE  now + offset \in Int /\ now + offset > NoCursor /\ now + offset >= now - 1
BY InterestAssumption DEF RowsHold, TypeOK, NoCursor

LEMMA RequestMoves ==
    ASSUME RowsHold, UNCHANGED <<now, credits, pass, faults, earned>>, edits' \in Nat,
           upsets' \subseteq AllUpsets,
           account' \in [Accounts -> AccountState], AccountsHold',
           editor' \in [Editors -> EditorState], \A e \in Editors : RequestHolds(editor[e])',
           since' \in [Accounts -> Int], times' \in [Accounts -> [Day -> Nat]]
    PROVE  RowsHold'
<1>1. PassHolds'
  BY DEF RowsHold, PassHolds, AtDay, NextDate
<1>2. TypeOK'
  BY DEF RowsHold, TypeOK
<1> QED
  BY <1>1, <1>2 DEF RowsHold

LEMMA Begins ==
    ASSUME RowsHold, NEW e \in Editors, MayEdit(e)
    PROVE  edits' \in Nat /\ upsets' \subseteq AllUpsets /\ editor[e].pc = "idle"
BY DEF RowsHold, TypeOK, MayEdit, Note, AllUpsets

LEMMA TurnsOn ==
    ASSUME RowsHold, NEW a \in Accounts, NEW asOf \in Int,
           TurnOn(a, asOf) \/ UNCHANGED <<since, times>>
    PROVE  since' \in [Accounts -> Int] /\ times' \in [Accounts -> [Day -> Nat]]
<1>1. Never \in [Day -> Nat]
  BY DEF Never
<1>2. since \in [Accounts -> Int] /\ times \in [Accounts -> [Day -> Nat]]
  BY DEF RowsHold, TypeOK
<1> HIDE DEF Never
<1> QED
  BY <1>1, <1>2 DEF TurnOn

(* A request that starts leaves the accounts alone. *)
LEMMA StartRows ==
    ASSUME RowsHold, NEW e \in Editors, MayEdit(e), NEW r \in EditorState, Edit(e, r),
           RequestHolds(r), UNCHANGED <<now, account, credits, pass, faults, history>>
    PROVE  RowsHold'
<1>1. editor' \in [Editors -> EditorState] /\ editor'[e] = r
      /\ \A f \in Editors \ {e} : editor'[f] = editor[f]
  BY DEF RowsHold, TypeOK, Edit
<1>2. \A f \in Editors : RequestHolds(editor[f])'
  <2>1. \A f \in Editors : RequestHolds(editor[f])
    BY DEF RowsHold
  <2> QED
    BY <1>1, <2>1 DEF RequestHolds
<1>3. AccountsHold'
  BY DEF RowsHold, AccountsHold
<1> QED
  BY <1>1, <1>2, <1>3, Begins, RequestMoves DEF RowsHold, TypeOK, history

LEMMA StartUpdateRows ==
    ASSUME RowsHold, NEW e \in Editors, NEW a \in Accounts, NEW initial \in Amounts,
           NEW rate \in Rates \cup {0, Keep}, NEW offset \in ClientOffsets,
           StartUpdate(e, a, initial, rate, now + offset)
    PROVE  RowsHold'
<1> DEFINE interest == ResolveInterest(account[a], rate, now + offset)
           ir == interest.rate
           ic == interest.cursor
           io == interest.on
           r == [pc |-> "update", acct |-> a, initial |-> initial, rate |-> ir,
                 cursor |-> ic, on |-> io]
<1>1. account[a] \in AccountState /\ Cursored(account[a]) /\ rate \in Nat \cup {Keep}
      /\ initial \in Int
  BY InterestAssumption DEF RowsHold, TypeOK, AccountsHold
<1>2. /\ ir \in Nat /\ ic \in Int /\ io \in BOOLEAN
      /\ Cursored(interest)
  <2>1. now + offset \in Int /\ now + offset > NoCursor
    BY ClientDay
  <2> DEFINE asOf == now + offset
  <2>2. asOf \in Int /\ asOf > NoCursor
    BY <2>1
  <2>3. interest = ResolveInterest(account[a], rate, asOf)
    OBVIOUS
  <2> HIDE DEF interest, asOf
  <2> QED
    BY <1>1, <2>2, <2>3, Resolved
<1>3. /\ MayEdit(e) /\ account[a].status # "absent" /\ Edit(e, r)
      /\ UNCHANGED <<now, account, credits, pass, faults, history>>
  BY DEF StartUpdate
<1>4. Cursored([cursor |-> ic, rate |-> ir])
  BY <1>2 DEF Cursored
<1> HIDE DEF interest, ir, ic, io
<1>5. r \in EditorState /\ r.acct = a /\ r.pc = "update" /\ r.cursor = ic /\ r.rate = ir
  BY <1>1, <1>2 DEF EditorState
<1>6. RequestHolds(r)
  BY <1>3, <1>4, <1>5 DEF RequestHolds, Cursored
<1> HIDE DEF r
<1> QED
  BY <1>3, <1>5, <1>6, StartRows

LEMMA StartArchiveRows ==
    ASSUME RowsHold, NEW e \in Editors, NEW a \in Accounts, StartArchive(e, a)
    PROVE  RowsHold'
<1> DEFINE r == [IdleEditor EXCEPT !.pc = "archive", !.acct = a]
<1>1. r \in EditorState /\ r.pc = "archive" /\ r.acct = a
  BY Blank DEF EditorState
<1>2. MayEdit(e) /\ Edit(e, r) /\ UNCHANGED <<now, account, credits, pass, faults, history>>
  BY DEF StartArchive
<1>3. RequestHolds(r)
  BY <1>1 DEF RequestHolds
<1> HIDE DEF r
<1> QED
  BY <1>1, <1>2, <1>3, StartRows

(* A request that writes a row has answered or is a single transaction. *)
LEMMA WriteRows ==
    ASSUME RowsHold, UNCHANGED <<now, credits, pass, faults, earned>>, edits' \in Nat,
           upsets' \subseteq AllUpsets,
           NEW a \in Accounts, NEW row \in AccountState, Cursored(row), row.status # "absent",
           account' = [account EXCEPT ![a] = row],
           NEW e \in Editors, editor' = editor \/ Edit(e, IdleEditor),
           since' \in [Accounts -> Int], times' \in [Accounts -> [Day -> Nat]]
    PROVE  RowsHold'
<1>1. account' \in [Accounts -> AccountState] /\ account'[a] = row
      /\ \A b \in Accounts \ {a} : account'[b] = account[b]
  BY DEF RowsHold, TypeOK
<1>2. AccountsHold'
  BY <1>1 DEF RowsHold, AccountsHold
<1>3. \A f \in Editors : editor'[f] = editor[f] \/ editor'[f] = IdleEditor
  BY DEF RowsHold, TypeOK, Edit
<1>4. editor' \in [Editors -> EditorState]
  BY Blank DEF RowsHold, TypeOK, Edit
<1>5. ASSUME NEW f \in Editors
      PROVE  RequestHolds(editor[f])'
  <2>1. CASE editor'[f] = editor[f]
    <3>1. RequestHolds(editor[f])
      BY DEF RowsHold
    <3> QED
      BY <1>1, <2>1, <3>1 DEF RequestHolds
  <2>2. CASE editor'[f] = IdleEditor
    BY <2>2, Blank DEF RequestHolds
  <2> QED
    BY <1>3, <2>1, <2>2
<1> QED
  BY <1>1, <1>2, <1>4, <1>5, RequestMoves

LEMMA CreateRows ==
    ASSUME RowsHold, NEW e \in Editors, NEW a \in Accounts, NEW initial \in Amounts,
           NEW rate \in Rates \cup {0, Keep}, NEW offset \in ClientOffsets,
           CreateAccount(e, a, initial, rate, now + offset)
    PROVE  RowsHold'
<1> DEFINE asOf == now + offset
           interest == ResolveInterest(NoAccount, rate, asOf)
           ir == interest.rate
           ic == interest.cursor
           row == [status |-> "active", initial |-> initial, rate |-> ir, cursor |-> ic,
                   carry |-> 0]
<1>1. asOf \in Int /\ asOf > NoCursor
  BY ClientDay
<1>2. ir \in Nat /\ ic \in Int /\ Cursored(interest)
  <2>1. rate \in Nat \cup {Keep}
    BY InterestAssumption
  <2> HIDE DEF asOf, interest
  <2>2. interest = ResolveInterest(NoAccount, rate, asOf)
    BY DEF interest
  <2> QED
    BY <1>1, <2>1, <2>2, Blank, Resolved
<1>3. /\ MayEdit(e) /\ account' = [account EXCEPT ![a] = row]
      /\ TurnOn(a, asOf) \/ UNCHANGED <<since, times>>
      /\ UNCHANGED <<now, credits, pass, editor, faults, earned>>
  BY DEF CreateAccount
<1>4. Cursored([cursor |-> ic, rate |-> ir])
  BY <1>2 DEF Cursored
<1> HIDE DEF asOf, interest, ir, ic
<1>5. row \in AccountState /\ row.status = "active" /\ row.cursor = ic /\ row.rate = ir
  BY <1>2, InterestAssumption DEF AccountState
<1>6. Cursored(row)
  BY <1>4, <1>5 DEF Cursored
<1> HIDE DEF row
<1>7. since' \in [Accounts -> Int] /\ times' \in [Accounts -> [Day -> Nat]]
  BY <1>1, <1>3, TurnsOn
<1>8. edits' \in Nat /\ upsets' \subseteq AllUpsets
  BY <1>3, Begins
<1> QED
  BY <1>3, <1>5, <1>6, <1>7, <1>8, WriteRows

(* The row an update writes. *)
UpdatedRow(e) == [account[editor[e].acct] EXCEPT !.initial = editor[e].initial,
                                                 !.rate = editor[e].rate,
                                                 !.cursor = editor[e].cursor]
LEMMA Updated ==
    ASSUME RowsHold, NEW e \in Editors, editor[e].pc = "update"
    PROVE  LET a == editor[e].acct
               row == UpdatedRow(e)
           IN  /\ a \in Accounts /\ row \in AccountState /\ Cursored(row)
               /\ row.status # "absent"
               /\ row.status = account[a].status /\ row.carry = account[a].carry
               /\ row.rate = editor[e].rate /\ row.cursor = editor[e].cursor
               /\ editor[e].cursor \in Int /\ editor[e].rate \in Nat
<1> DEFINE a == editor[e].acct
           row == UpdatedRow(e)
<1>1. /\ a \in Accounts /\ account[a].status # "absent" /\ Cursored(editor[e])
      /\ account[a] \in AccountState
  <2>1. RequestHolds(editor[e]) /\ account \in [Accounts -> AccountState]
    BY DEF RowsHold, TypeOK
  <2> QED
    BY <2>1 DEF RequestHolds
<1>2. editor[e].cursor \in Int /\ editor[e].rate \in Nat /\ editor[e].initial \in Int
  <2>1. editor[e] \in EditorState
    BY DEF RowsHold, TypeOK
  <2> QED
    BY <2>1 DEF EditorState
<1> DEFINE ei == editor[e].initial
           er == editor[e].rate
           ec == editor[e].cursor
           old == account[a]
<1>3. row = [old EXCEPT !.initial = ei, !.rate = er, !.cursor = ec]
  BY DEF UpdatedRow
<1>4. ei \in Int /\ er \in Nat /\ ec \in Int /\ old \in AccountState /\ old.status # "absent"
  BY <1>1, <1>2
<1>5. ec >= NoCursor /\ (er > 0 => ec > NoCursor)
  BY <1>1 DEF Cursored
<1> HIDE DEF ei, er, ec, old, a, row
<1>6. /\ row \in AccountState /\ row.status = old.status /\ row.carry = old.carry
      /\ row.rate = er /\ row.cursor = ec
  BY <1>3, <1>4 DEF AccountState
<1>7. Cursored(row) /\ row.status # "absent"
  BY <1>4, <1>5, <1>6 DEF Cursored
<1> QED
  BY <1>1, <1>2, <1>6, <1>7 DEF er, ec, old, a, row

LEMMA FinishUpdateRows ==
    ASSUME RowsHold, NEW e \in Editors, FinishUpdate(e)
    PROVE  RowsHold'
<1> DEFINE a == editor[e].acct
           row == UpdatedRow(e)
<1>1. editor[e].pc = "update"
  BY DEF FinishUpdate
<1>2. /\ a \in Accounts /\ row \in AccountState /\ Cursored(row) /\ row.status # "absent"
      /\ editor[e].cursor \in Int
  BY <1>1, Updated
<1>3. /\ account' = [account EXCEPT ![a] = row]
      /\ TurnOn(a, editor[e].cursor) \/ UNCHANGED <<since, times>>
      /\ Edit(e, IdleEditor)
      /\ UNCHANGED <<now, credits, pass, edits, faults, earned>>
  BY DEF FinishUpdate, UpdatedRow
<1>4. edits' \in Nat /\ upsets' \subseteq AllUpsets
  BY DEF FinishUpdate, RowsHold, TypeOK, Note, AllUpsets
<1> HIDE DEF a, row
<1>5. since' \in [Accounts -> Int] /\ times' \in [Accounts -> [Day -> Nat]]
  BY <1>2, <1>3, TurnsOn
<1> QED
  BY <1>2, <1>3, <1>4, <1>5, WriteRows

LEMMA FinishArchiveRows ==
    ASSUME RowsHold, NEW e \in Editors, FinishArchive(e)
    PROVE  RowsHold'
<1> DEFINE a == editor[e].acct
           old == account[a]
           row == [old EXCEPT !.status = "archived"]
<1>1. Edit(e, IdleEditor) /\ UNCHANGED <<now, credits, pass, counts, history>>
  BY DEF FinishArchive
<1>2. UNCHANGED <<now, credits, pass, faults, earned, edits, upsets, since, times>>
  BY <1>1 DEF counts, history
<1>3. /\ edits' \in Nat /\ upsets' \subseteq AllUpsets
      /\ since' \in [Accounts -> Int] /\ times' \in [Accounts -> [Day -> Nat]]
  BY <1>2 DEF RowsHold, TypeOK
<1>4. CASE a \in Active
  <2>1. a \in Accounts /\ old \in AccountState /\ Cursored(old)
    BY <1>4 DEF Active, RowsHold, TypeOK, AccountsHold
  <2>2. account' = [account EXCEPT ![a] = row]
    BY <1>4 DEF FinishArchive
  <2> HIDE DEF a, old
  <2>3. row \in AccountState /\ row.status = "archived" /\ row.cursor = old.cursor
        /\ row.rate = old.rate
    BY <2>1 DEF AccountState
  <2>4. Cursored(row)
    BY <2>1, <2>3 DEF Cursored
  <2> HIDE DEF row
  <2> QED
    BY <1>1, <1>2, <1>3, <2>1, <2>2, <2>3, <2>4, WriteRows
<1>5. CASE a \notin Active
  <2>1. account' = account
    BY <1>5 DEF FinishArchive
  <2>2. editor' \in [Editors -> EditorState]
        /\ \A f \in Editors : editor'[f] = editor[f] \/ editor'[f] = IdleEditor
    BY <1>1, Blank DEF RowsHold, TypeOK, Edit
  <2>3. \A f \in Editors : RequestHolds(editor[f])'
    BY <2>1, <2>2, Blank DEF RowsHold, RequestHolds
  <2>4. AccountsHold'
    BY <2>1 DEF RowsHold, AccountsHold
  <2> QED
    BY <1>2, <1>3, <2>1, <2>2, <2>3, <2>4, RequestMoves DEF RowsHold, TypeOK
<1> QED
  BY <1>4, <1>5

LEMMA TickRows ==
    ASSUME RowsHold, Tick
    PROVE  RowsHold'
<1>1. /\ now' = now + 1 /\ now' <= LastDay /\ now' \in Nat
      /\ UNCHANGED <<account, credits, pass, editor, edits, faults, history>>
  BY InterestAssumption DEF Tick, RowsHold, TypeOK
<1>2. upsets' \subseteq AllUpsets
  BY DEF Tick, RowsHold, TypeOK, Note, AllUpsets
<1>3. PassHolds'
  <2>1. PassHolds /\ pass.today \in Nat /\ now \in Nat
    BY DEF RowsHold, TypeOK, PassState
  <2>2. pass'.today <= now'
    BY <1>1, <2>1 DEF PassHolds
  <2> QED
    BY <1>1, <2>1, <2>2 DEF PassHolds, AtDay, NextDate
<1>4. AccountsHold' /\ \A e \in Editors : RequestHolds(editor[e])'
  BY <1>1 DEF RowsHold, AccountsHold, RequestHolds
<1>5. TypeOK'
  BY <1>1, <1>2 DEF RowsHold, TypeOK, history
<1> QED
  BY <1>1, <1>3, <1>4, <1>5 DEF RowsHold

LEMMA StutterRows ==
    ASSUME RowsHold, UNCHANGED vars
    PROVE  RowsHold'
<1>1. UNCHANGED <<now, account, credits, pass, editor, edits, faults, upsets, history>>
  BY DEF vars, history
<1> QED
  BY <1>1, PassMoves DEF RowsHold, TypeOK, PassHolds, AtDay, NextDate

LEMMA RowsKeep == RowsHold /\ [Next]_vars => RowsHold'
BY PassStepRows, CommitRows, CreateRows, StartUpdateRows, FinishUpdateRows, StartArchiveRows,
   FinishArchiveRows, TickRows, StutterRows DEF Next, RunPass, AnswerRequest

-----------------------------------------------------------------------------
(* Which steps write: the others leave the accounts, the credits and what    *)
(* they have earned alone.                                                  *)

Created(e, a) ==
    \E initial \in Amounts, rate \in Rates \cup {0, Keep}, offset \in ClientOffsets :
        CreateAccount(e, a, initial, rate, now + offset)
Quiet == UNCHANGED <<account, credits, since, times, earned>>

LEMMA Steps ==
    ASSUME [Next]_vars
    PROVE  \/ Quiet
           \/ Committed
           \/ \E e \in Editors : \/ \E a \in Accounts : Created(e, a)
                                 \/ FinishUpdate(e)
                                 \/ FinishArchive(e)
<1>1. CASE StartPass \/ LoadAccounts \/ NextAccount \/ ReadBalance \/ Tick \/ Abort
  BY <1>1 DEF Quiet, StartPass, LoadAccounts, NextAccount, ReadBalance, ReadBalanceUntil, Tick,
              Abort, history
<1>2. CASE CommitDay
  BY <1>2 DEF Quiet, CommitDay, Committed, history
<1>3. ASSUME NEW e \in Editors, AnswerRequest(e)
      PROVE  \/ Quiet
             \/ (\E a \in Accounts : Created(e, a)) \/ FinishUpdate(e) \/ FinishArchive(e)
  BY <1>3 DEF AnswerRequest, Created, Quiet, StartUpdate, StartArchive, history
<1>4. CASE UNCHANGED vars
  BY <1>4 DEF Quiet, vars
<1> QED
  BY <1>1, <1>2, <1>3, <1>4 DEF Next, RunPass

LEMMA UpsetsStay == RowsHold /\ [Next]_vars => upsets \subseteq upsets'
<1> SUFFICES ASSUME RowsHold, [Next]_vars PROVE upsets \subseteq upsets'
  OBVIOUS
<1>1. CASE RunPass
  BY <1>1 DEF RunPass, LoadAccounts, NextAccount, ReadBalance, ReadBalanceUntil, CommitDay,
              Accrue, counts
<1>2. CASE StartPass \/ Tick \/ Abort
  BY <1>2 DEF StartPass, Tick, Abort
<1>3. ASSUME NEW e \in Editors, AnswerRequest(e)
      PROVE  upsets \subseteq upsets'
  BY <1>3 DEF AnswerRequest, CreateAccount, StartUpdate, FinishUpdate, StartArchive,
              FinishArchive, MayEdit, counts
<1> QED
  BY <1>1, <1>2, <1>3 DEF Next, vars

LEMMA TurnedOn ==
    ASSUME RowsHold, NEW a \in Accounts, NEW asOf, TurnOn(a, asOf)
    PROVE  /\ since'[a] = asOf /\ times'[a] = Never
           /\ \A b \in Accounts \ {a} : since'[b] = since[b] /\ times'[b] = times[b]
BY DEF TurnOn, RowsHold, TypeOK

(* What a creation writes: a row that had none, with a cursor where interest *)
(* is turned on.                                                            *)
LEMMA CreateWrites ==
    ASSUME RowsHold, NEW e \in Editors, NEW a \in Accounts, Created(e, a)
    PROVE  /\ account[a] = NoAccount /\ account'[a].carry = 0
           /\ \A b \in Accounts \ {a} : account'[b] = account[b]
           /\ UNCHANGED <<now, credits, pass, editor, earned>> /\ MayEdit(e)
           /\ \/ /\ account'[a].rate > 0 /\ account'[a].cursor >= now - 1
                 /\ account'[a].cursor > NoCursor /\ account'[a].cursor \in Int
                 /\ TurnOn(a, account'[a].cursor)
              \/ account'[a].rate = 0 /\ account'[a].cursor = NoCursor
                 /\ UNCHANGED <<since, times>>
<1>1. PICK initial \in Amounts, rate \in Rates \cup {0, Keep}, offset \in ClientOffsets :
           CreateAccount(e, a, initial, rate, now + offset)
  BY DEF Created
<1> DEFINE asOf == now + offset
           interest == ResolveInterest(NoAccount, rate, asOf)
           ir == interest.rate
           ic == interest.cursor
           io == interest.on
           row == [status |-> "active", initial |-> initial, rate |-> ir, cursor |-> ic,
                   carry |-> 0]
<1>2. asOf \in Int /\ asOf > NoCursor /\ asOf >= now - 1
  BY ClientDay
<1>3. /\ account[a].status = "absent" /\ rate # Keep
      /\ MayEdit(e) /\ account' = [account EXCEPT ![a] = row]
      /\ IF io THEN TurnOn(a, asOf) ELSE UNCHANGED <<since, times>>
      /\ UNCHANGED <<now, credits, pass, editor, faults, earned>>
  BY <1>1 DEF CreateAccount
<1>4. rate \in Nat /\ NoAccount.rate = 0 /\ NoAccount.cursor = NoCursor
  BY <1>3, InterestAssumption DEF NoAccount
<1>5. /\ io => ir > 0 /\ ic = asOf
      /\ ~io => ir = 0 /\ ic = NoCursor
  <2> DEFINE on == rate > 0
  <2>1. interest = [rate |-> rate, cursor |-> IF rate > 0 THEN asOf ELSE NoCursor,
                    on |-> on]
    BY <1>3, <1>4 DEF ResolveInterest
  <2> HIDE DEF on
  <2>2. ir = rate /\ ic = (IF rate > 0 THEN asOf ELSE NoCursor) /\ io = on
    BY <2>1
  <2> HIDE DEF asOf, interest, ir, ic, io
  <2>3. on <=> rate > 0
    BY DEF on
  <2> QED
    BY <1>4, <2>2, <2>3
<1> HIDE DEF asOf, interest, ir, ic, io
<1>6. account'[a] = row /\ \A b \in Accounts \ {a} : account'[b] = account[b]
  BY <1>3 DEF RowsHold, TypeOK
<1>7. account[a] = NoAccount
  BY <1>3 DEF RowsHold, AccountsHold
<1>8. CASE io
  BY <1>2, <1>3, <1>5, <1>6, <1>7, <1>8
<1>9. CASE ~io
  BY <1>3, <1>5, <1>6, <1>7, <1>9
<1> QED
  BY <1>8, <1>9

(* What an update writes: the row it found, whatever it is now. *)
LEMMA UpdateWrites ==
    ASSUME RowsHold, NEW e \in Editors, FinishUpdate(e)
    PROVE  LET a == editor[e].acct IN
           /\ a \in Accounts /\ editor[e].pc = "update" /\ editor[e].cursor \in Int
           /\ account'[a].cursor = editor[e].cursor /\ account'[a].rate = editor[e].rate
           /\ account'[a].carry = account[a].carry /\ account'[a].status = account[a].status
           /\ \A b \in Accounts \ {a} : account'[b] = account[b]
           /\ account' \in [Accounts -> AccountState]
           /\ IF editor[e].on THEN TurnOn(a, editor[e].cursor) ELSE UNCHANGED <<since, times>>
           /\ UNCHANGED <<now, credits, pass, earned>> /\ Edit(e, IdleEditor)
<1> DEFINE a == editor[e].acct
           row == UpdatedRow(e)
<1>1. editor[e].pc = "update"
  BY DEF FinishUpdate
<1>2. /\ a \in Accounts /\ row \in AccountState /\ row.status = account[a].status
      /\ row.carry = account[a].carry /\ row.rate = editor[e].rate
      /\ row.cursor = editor[e].cursor /\ editor[e].cursor \in Int
  BY <1>1, Updated
<1>3. /\ account' = [account EXCEPT ![a] = row]
      /\ IF editor[e].on THEN TurnOn(a, editor[e].cursor) ELSE UNCHANGED <<since, times>>
      /\ UNCHANGED <<now, credits, pass, earned>> /\ Edit(e, IdleEditor)
  BY DEF FinishUpdate, UpdatedRow
<1> HIDE DEF a, row
<1>4. /\ account' \in [Accounts -> AccountState] /\ account'[a] = row
      /\ \A b \in Accounts \ {a} : account'[b] = account[b]
  BY <1>2, <1>3 DEF RowsHold, TypeOK
<1> QED
  BY <1>1, <1>2, <1>3, <1>4 DEF a

(* An archive changes a status at most. *)
LEMMA ArchiveWrites ==
    ASSUME RowsHold, NEW e \in Editors, FinishArchive(e)
    PROVE  /\ \A a \in Accounts :
                 /\ account'[a].cursor = account[a].cursor /\ account'[a].rate = account[a].rate
                 /\ account'[a].carry = account[a].carry
                 /\ account'[a].status # account[a].status =>
                       account[a].status = "active" /\ account'[a].status = "archived"
           /\ UNCHANGED <<now, credits, pass, upsets, since, times, earned>>
           /\ Edit(e, IdleEditor) /\ editor[e].pc = "archive"
<1> DEFINE a == editor[e].acct
           old == account[a]
           row == [old EXCEPT !.status = "archived"]
<1>1. /\ UNCHANGED <<now, credits, pass, upsets, since, times, earned>>
      /\ Edit(e, IdleEditor) /\ editor[e].pc = "archive"
  BY DEF FinishArchive, counts, history
<1>2. CASE a \in Active
  <2>1. a \in Accounts /\ old \in AccountState /\ old.status = "active"
    BY <1>2 DEF Active, RowsHold, TypeOK
  <2>2. account' = [account EXCEPT ![a] = row]
    BY <1>2 DEF FinishArchive
  <2>3. old = account[a]
    OBVIOUS
  <2> HIDE DEF a, old
  <2>4. row.status = "archived" /\ row.cursor = old.cursor /\ row.rate = old.rate
        /\ row.carry = old.carry
    BY <2>1 DEF AccountState
  <2> HIDE DEF row
  <2>5. account'[a] = row /\ \A b \in Accounts \ {a} : account'[b] = account[b]
    BY <2>1, <2>2 DEF RowsHold, TypeOK
  <2> QED
    BY <1>1, <2>1, <2>3, <2>4, <2>5
<1>3. CASE a \notin Active
  BY <1>1, <1>3 DEF FinishArchive
<1> QED
  BY <1>2, <1>3

-----------------------------------------------------------------------------
(* Nothing is backfilled. *)

LEMMA BackfillKeeps == RowsHold /\ BackfillInv /\ [Next]_vars => BackfillInv'
<1> SUFFICES ASSUME RowsHold, BackfillInv, [Next]_vars, "revived" \notin upsets'
             PROVE  CursorsReach' /\ NothingBackfilled'
  BY DEF BackfillInv
<1> DEFINE Sound(a) ==
             /\ account[a].cursor # NoCursor => since[a] <= account[a].cursor
             /\ \A d \in Day : d <= since[a] => times[a][d] = 0
<1>1. \A a \in Accounts : Sound(a)
  <2>1. "revived" \notin upsets
    BY UpsetsStay
  <2> QED
    BY <2>1 DEF BackfillInv, CursorsReach, NothingBackfilled
<1>2. /\ account \in [Accounts -> AccountState] /\ since \in [Accounts -> Int]
      /\ times \in [Accounts -> [Day -> Nat]]
  BY DEF RowsHold, TypeOK
<1>3. CASE Quiet
  BY <1>1, <1>3 DEF Quiet, CursorsReach, NothingBackfilled
<1>4. CASE Committed
  <2> DEFINE a == pass.acct
             date == pass.date
  <2>1. /\ a \in Accounts /\ date \in Day /\ date \in Nat /\ NoCursor < pass.cursor
        /\ pass.cursor < date /\ pass.cursor \in Int /\ account[a].cursor = pass.cursor
    BY <1>4, CommitTyped DEF Committed
  <2>2. account'[a].cursor = date /\ \A b \in Accounts \ {a} : account'[b] = account[b]
    BY <1>4, CommitWrites
  <2>3. since' = since /\ times' = [times EXCEPT ![a] = [times[a] EXCEPT ![date] = @ + 1]]
    BY <1>2, <1>4, <2>1 DEF Committed, Accrue
  <2>4. since[a] <= pass.cursor /\ since[a] \in Int
    BY <1>1, <1>2, <2>1 DEF NoCursor
  <2> HIDE DEF a, date
  <2>5. \A d \in Day : d <= since[a] => d # date /\ times'[a][d] = times[a][d]
    <3> TAKE d \in Day
    <3> HAVE d <= since[a]
    <3>1. d \in Int
      BY InterestAssumption DEF Day
    <3>2. d # date
      BY <2>1, <2>4, <3>1
    <3> QED
      BY <1>2, <2>1, <2>3, <3>2
  <2>6. \A b \in Accounts \ {a} : times'[b] = times[b]
    BY <1>2, <2>3
  <2>7. since'[a] <= account'[a].cursor
    BY <2>1, <2>2, <2>3, <2>4
  <2> QED
    BY <1>1, <2>2, <2>3, <2>5, <2>6, <2>7 DEF CursorsReach, NothingBackfilled
<1>5. ASSUME NEW a \in Accounts, \A b \in Accounts \ {a} : account'[b] = account[b],
             account'[a].cursor \in Int,
             \/ TurnOn(a, account'[a].cursor)
             \/ /\ UNCHANGED <<since, times>>
                /\ account'[a].cursor # NoCursor => since[a] <= account'[a].cursor
      PROVE  CursorsReach' /\ NothingBackfilled'
  <2>1. CASE TurnOn(a, account'[a].cursor)
    <3>1. /\ since'[a] = account'[a].cursor /\ times'[a] = Never
          /\ \A b \in Accounts \ {a} : since'[b] = since[b] /\ times'[b] = times[b]
      BY <2>1, TurnedOn
    <3>2. \A d \in Day : Never[d] = 0
      BY DEF Never
    <3> QED
      BY <1>1, <1>5, <3>1, <3>2 DEF CursorsReach, NothingBackfilled
  <2>2. CASE UNCHANGED <<since, times>>
             /\ (account'[a].cursor # NoCursor => since[a] <= account'[a].cursor)
    BY <1>1, <1>5, <2>2 DEF CursorsReach, NothingBackfilled
  <2> QED
    BY <1>5, <2>1, <2>2
<1>6. ASSUME NEW e \in Editors, NEW a \in Accounts, Created(e, a)
      PROVE  CursorsReach' /\ NothingBackfilled'
  BY <1>5, <1>6, CreateWrites DEF NoCursor
<1>7. ASSUME NEW e \in Editors, FinishUpdate(e)
      PROVE  CursorsReach' /\ NothingBackfilled'
  <2> DEFINE a == editor[e].acct
  <2>1. /\ a \in Accounts /\ editor[e].cursor \in Int /\ account'[a].cursor = editor[e].cursor
        /\ \A b \in Accounts \ {a} : account'[b] = account[b]
        /\ IF editor[e].on THEN TurnOn(a, editor[e].cursor) ELSE UNCHANGED <<since, times>>
    BY <1>7, UpdateWrites
  <2>2. ~editor[e].on => editor[e].cursor \notin (NoCursor + 1)..(since[a] - 1)
    BY <1>7 DEF FinishUpdate, Note
  <2>3. editor[e].cursor >= NoCursor
    <3>1. RequestHolds(editor[e]) /\ editor[e].pc = "update"
      BY <1>7 DEF RowsHold, FinishUpdate
    <3> QED
      BY <3>1 DEF RequestHolds, Cursored
  <2>4. since[a] \in Int
    BY <1>2, <2>1
  <2> HIDE DEF a
  <2>5. ~editor[e].on => editor[e].cursor = NoCursor \/ since[a] <= editor[e].cursor
    BY <2>1, <2>2, <2>3, <2>4 DEF NoCursor
  <2> QED
    BY <1>5, <2>1, <2>5
<1>8. ASSUME NEW e \in Editors, FinishArchive(e)
      PROVE  CursorsReach' /\ NothingBackfilled'
  BY <1>1, <1>8, ArchiveWrites DEF CursorsReach, NothingBackfilled
<1> QED
  BY <1>3, <1>4, <1>6, <1>7, <1>8, Steps

-----------------------------------------------------------------------------
(* Interest is conserved. *)

CreditsOf(a) == {c \in credits : c.acct = a}
Conserved(a) == Total(CreditsOf(a)) * Micros + account[a].carry = earned[a]

LEMMA ConservedEach == InterestConserved <=> ("rewound" \notin upsets => \A a \in Accounts : Conserved(a))
BY DEF InterestConserved, Conserved, CreditsOf, Total

LEMMA PassTyped ==
    ASSUME RowsHold
    PROVE  /\ pass \in PassState /\ pass.cursor \in Int /\ pass.todo \subseteq Accounts
           /\ \A a \in Accounts : pass.snap[a] \in AccountState /\ pass.snap[a].cursor \in Int
           /\ \A a \in Accounts : account[a] \in AccountState /\ account[a].cursor \in Int
           /\ pass.carry \in 0..(Micros - 1)
           /\ AtDay => pass.acct \in Accounts
BY DEF RowsHold, TypeOK, PassState, AccountState, PassHolds

(* Only a commit changes the credits: what a pass has read of a balance     *)
(* stands.                                                                  *)
LEMMA RequestConserves ==
    ASSUME RowsHold, CreditsReach, PassFollows, \A a \in Accounts : Conserved(a),
           UNCHANGED <<credits, pass, earned>>,
           \A a \in Accounts : /\ account[a].cursor <= account'[a].cursor
                               /\ account'[a].cursor \in Int
                               /\ account'[a].carry = account[a].carry
    PROVE  CreditsReach' /\ PassFollows' /\ \A a \in Accounts : Conserved(a)'
<1>1. CreditsReach'
  <2>1. \A c \in credits : c.acct \in Accounts /\ c.date \in Int
    BY DEF RowsHold, TypeOK
  <2> QED
    BY <2>1, PassTyped DEF CreditsReach
<1>2. \A a \in Accounts : Conserved(a)'
  BY DEF Conserved, CreditsOf
<1>3. ASSUME NEW a \in pass.todo, Follows(pass.snap[a], a)
      PROVE  Follows(pass.snap[a], a)'
  <2>1. a \in Accounts /\ pass'.snap[a] = pass.snap[a]
    BY PassTyped
  <2> QED
    BY <1>3, <2>1, PassTyped DEF Follows
<1>4. pass.pc = "day" => Follows(pass, pass.acct)'
  BY PassTyped DEF PassFollows, Follows, AtDay
<1>5. ASSUME pass.pc = "commit"
      PROVE  /\ pass.cursor <= account'[pass.acct].cursor
             /\ pass.cursor = account'[pass.acct].cursor =>
                   pass.amount * Micros + pass.carry
                     = DayInterest(Balance(pass.acct, pass.initial, pass.date - 1), pass.rate)
                         + account'[pass.acct].carry
  <2>1. pass.acct \in Accounts
    BY <1>5, PassTyped DEF AtDay
  <2>2. /\ pass.cursor <= account[pass.acct].cursor
        /\ pass.cursor = account[pass.acct].cursor =>
              pass.amount * Micros + pass.carry
                = DayInterest(Balance(pass.acct, pass.initial, pass.date - 1), pass.rate)
                    + account[pass.acct].carry
    BY <1>5 DEF PassFollows
  <2> QED
    BY <2>1, <2>2, PassTyped
<1>6. Balance(pass.acct, pass.initial, pass.date - 1)' = Balance(pass.acct, pass.initial, pass.date - 1)
  BY DEF Balance
<1>7. PassFollows'
  BY <1>3, <1>4, <1>5, <1>6 DEF PassFollows
<1> QED
  BY <1>1, <1>2, <1>7

LEMMA ReadConserves ==
    ASSUME RowsHold, PassFollows, ReadBalance
    PROVE  PassFollows'
<1> DEFINE date == NextDate(pass)
           a == pass.acct
           balance == Balance(a, pass.initial, date - 1)
           split == Split(balance, pass.rate, pass.carry)
           amount == split.amount
           carry == split.carry
<1>1. pass.pc = "day" /\ UNCHANGED <<now, account, credits, editor, counts, history>>
  BY DEF ReadBalance, ReadBalanceUntil
<1>2. pass' = IF date > pass.today THEN [pass EXCEPT !.pc = "account"]
              ELSE [pass EXCEPT !.pc = "commit", !.date = date, !.amount = amount, !.carry = carry]
  BY DEF ReadBalance, ReadBalanceUntil
<1>3. balance \in Int /\ pass.initial \in Int /\ pass.rate \in Nat /\ pass.carry \in 0..(Micros - 1)
  BY BalanceInt, PassTyped DEF PassState
<1>4. amount * Micros + carry = DayInterest(balance, pass.rate) + pass.carry
  <2> HIDE DEF balance
  <2> QED
    BY <1>3, SplitConserves
<1>5. Follows(pass, a)
  BY <1>1 DEF PassFollows
<1>6. \A x, y, z : Balance(x, y, z)' = Balance(x, y, z)
  BY <1>1 DEF Balance
<1>7. balance = Balance(a, pass.initial, date - 1)
  OBVIOUS
<1>8. pass \in PassState
  BY PassTyped
<1> HIDE DEF date, balance, split, amount, carry
<1>9. /\ \A b \in pass.todo : Follows(pass.snap[b], b)
      /\ \A row, b : Follows(row, b)' <=> Follows(row, b)
  BY <1>1 DEF PassFollows, Follows
<1>10. CASE date > pass.today
  <2>1. pass'.pc = "account" /\ pass'.todo = pass.todo /\ pass'.snap = pass.snap
    BY <1>2, <1>8, <1>10 DEF PassState
  <2> QED
    BY <1>9, <2>1 DEF PassFollows
<1>11. CASE ~(date > pass.today)
  <2>1. pass' = [pass EXCEPT !.pc = "commit", !.date = date, !.amount = amount, !.carry = carry]
    BY <1>2, <1>11
  <2>2. /\ pass'.pc = "commit" /\ pass'.todo = pass.todo /\ pass'.snap = pass.snap
        /\ pass'.acct = a /\ pass'.cursor = pass.cursor /\ pass'.initial = pass.initial
        /\ pass'.rate = pass.rate /\ pass'.date = date /\ pass'.amount = amount
        /\ pass'.carry = carry
    BY <1>8, <2>1 DEF PassState
  <2>3. Balance(pass.acct, pass.initial, pass.date - 1)' = balance
    BY <1>6, <1>7, <2>2
  <2>4. /\ pass.cursor <= account[a].cursor
        /\ pass.cursor = account[a].cursor => pass.carry = account[a].carry
    BY <1>5 DEF Follows
  <2>5. /\ (pass.cursor <= account[pass.acct].cursor)'
        /\ (pass.cursor = account[pass.acct].cursor =>
                pass.amount * Micros + pass.carry
                    = DayInterest(Balance(pass.acct, pass.initial, pass.date - 1), pass.rate)
                        + account[pass.acct].carry)'
    BY <1>1, <1>4, <2>2, <2>3, <2>4
  <2> QED
    BY <1>9, <2>2, <2>5 DEF PassFollows
<1> QED
  BY <1>10, <1>11

LEMMA Units ==
    ASSUME NEW total \in Int, NEW amount \in Nat, NEW carry \in Int, NEW next \in Int,
           NEW interest \in Int, NEW before \in Int, NEW micros \in Nat,
           total * micros + carry = before, amount * micros + next = interest + carry
    PROVE  (total + amount) * micros + next = before + interest
<1>1. (total + amount) * micros = total * micros + amount * micros
  OBVIOUS
<1> DEFINE x == total * micros
           y == amount * micros
<1>2. x \in Int /\ y \in Int
  OBVIOUS
<1>3. x + carry = before /\ y + next = interest + carry /\ (total + amount) * micros = x + y
  BY <1>1
<1> HIDE DEF x, y
<1>4. (x + y) + next = before + interest
  BY <1>2, <1>3
<1> QED
  BY <1>3, <1>4

LEMMA CommitConserves ==
    ASSUME RowsHold, CreditsReach, PassFollows, \A a \in Accounts : Conserved(a), Committed
    PROVE  CreditsReach' /\ PassFollows' /\ \A a \in Accounts : Conserved(a)'
<1>0. PICK a \in Accounts, date \in Nat, amount \in Nat :
           a = pass.acct /\ date = pass.date /\ amount = pass.amount
  BY CommitTyped DEF Committed
<1> DEFINE interest == DayInterest(Balance(pass.acct, pass.initial, pass.date - 1), pass.rate)
           C == CreditsOf(a)
<1>1. /\ pass.cursor < date /\ pass.cursor \in Int /\ interest \in Nat
      /\ pass.carry \in 0..(Micros - 1) /\ account[a].cursor = pass.cursor
  BY <1>0, CommitTyped DEF Committed
<1>2. /\ account'[a].cursor = date /\ account'[a].carry = pass.carry
      /\ \A b \in Accounts \ {a} : account'[b] = account[b]
  BY <1>0, CommitWrites
<1>3. \A c \in credits : c.acct = a => c.date < date
  <2>1. \A c \in credits : c.date \in Int /\ c.date <= account[c.acct].cursor
    BY DEF CreditsReach, RowsHold, TypeOK
  <2> QED
    BY <1>1, <2>1
<1>4. Paid \notin credits /\ Paid.acct = a /\ Paid.date = date /\ Amount(Paid) = amount
  BY <1>0, <1>1, <1>3 DEF Paid, Amount
<1>5. credits' = IF amount > 0 THEN credits \cup {Paid} ELSE credits
  <2>1. ~\E c \in credits : c.acct = a /\ c.date = date
    BY <1>1, <1>3
  <2> QED
    BY <1>0, <2>1 DEF Committed, Accrue, Paid
<1>6. pass' = [pass EXCEPT !.pc = "day", !.cursor = date]
  BY <1>0 DEF Committed, Accrue
<1>7. earned' = [earned EXCEPT ![a] = @ + interest] /\ earned \in [Accounts -> Nat]
  BY <1>0 DEF Committed, Accrue, RowsHold, TypeOK
<1>8. amount * Micros + pass.carry = interest + account[a].carry
  BY <1>0, <1>1 DEF PassFollows, Committed
<1>9. /\ account[a].carry \in Int /\ pass.carry \in Int /\ Micros \in Nat
      /\ Conserved(a)
  BY <1>1, PassTyped, InterestAssumption DEF AccountState
<1>10. Total(C) \in Int
  BY CreditsTotal DEF CreditsOf
<1>11. Total(CreditsOf(a))' = Total(C) + amount
  <2>1. CASE amount > 0
    <3>1. CreditsOf(a)' = C \cup {Paid}
      BY <1>4, <1>5, <2>1 DEF CreditsOf
    <3>2. Paid \notin C /\ (C \cup {Paid}) \ {Paid} = C
      BY <1>4 DEF CreditsOf
    <3>3. IsFiniteSet(C) /\ \A c \in C : Amount(c) \in Int
      BY CreditsTotal DEF CreditsOf
    <3>4. IsFiniteSet(C \cup {Paid})
      BY <3>3, FS_AddElement
    <3>5. \A c \in C \cup {Paid} : Amount(c) \in Int
      BY <1>1, <1>4, <3>3
    <3> HIDE DEF C
    <3>6. Total(C \cup {Paid}) = Amount(Paid) + Total((C \cup {Paid}) \ {Paid})
      BY <3>4, <3>5, TotalTake
    <3>7. Total(CreditsOf(a))' = Total(C \cup {Paid})
      BY <3>1 DEF Total
    <3>8. Total(C \cup {Paid}) = amount + Total(C)
      BY <1>4, <3>2, <3>6, Zenon
    <3> QED
      BY <1>10, <3>7, <3>8
  <2>2. CASE ~(amount > 0)
    <3>1. amount = 0 /\ CreditsOf(a)' = C
      BY <1>5, <2>2 DEF CreditsOf
    <3> HIDE DEF C
    <3>2. Total(CreditsOf(a))' = Total(C)
      BY <3>1 DEF Total
    <3> QED
      BY <1>10, <3>1, <3>2
  <2> QED
    BY <2>1, <2>2
<1>12. Conserved(a)'
  <2>1. Total(C) * Micros + account[a].carry = earned[a] /\ earned[a] \in Int
    BY <1>7, <1>9 DEF Conserved
  <2>2. earned'[a] = earned[a] + interest
    BY <1>7
  <2> HIDE DEF C, interest
  <2>3. interest \in Int
    BY <1>1
  <2>4. (Total(C) + amount) * Micros + pass.carry = earned[a] + interest
    BY <1>8, <1>9, <1>10, <2>1, <2>3, Units
  <2> QED
    BY <1>2, <1>11, <2>2, <2>4 DEF Conserved
<1>13. \A b \in Accounts : Conserved(b)'
  <2>1. ASSUME NEW b \in Accounts, b # a
        PROVE  Conserved(b)'
    <3>1. CreditsOf(b)' = CreditsOf(b)
      BY <1>4, <1>5, <2>1 DEF CreditsOf
    <3>2. Total(CreditsOf(b))' = Total(CreditsOf(b))
      BY <3>1 DEF Total
    <3>3. earned'[b] = earned[b] /\ account'[b] = account[b]
      BY <1>2, <1>7, <2>1
    <3> QED
      BY <3>2, <3>3 DEF Conserved
  <2> QED
    BY <1>12, <2>1
<1>14. CreditsReach'
  <2>1. \A c \in credits : c.date \in Int /\ c.acct \in Accounts /\ c.date <= account[c.acct].cursor
    BY DEF CreditsReach, RowsHold, TypeOK
  <2>2. \A c \in credits : c.date <= account'[c.acct].cursor
    BY <1>1, <1>2, <2>1
  <2> QED
    BY <1>2, <1>4, <1>5, <2>2 DEF CreditsReach
<1>15. /\ pass'.pc = "day" /\ pass'.todo = pass.todo /\ pass'.snap = pass.snap
       /\ pass'.acct = a /\ pass'.cursor = date /\ pass'.carry = pass.carry
  BY <1>0, <1>6, PassTyped DEF PassState
<1>16. Follows(pass, pass.acct)'
  BY <1>2, <1>15 DEF Follows
<1>17. ASSUME NEW b \in pass.todo
       PROVE  /\ pass.snap[b].cursor <= account'[b].cursor
              /\ pass.snap[b].cursor = account'[b].cursor => pass.snap[b].carry = account'[b].carry
  <2>1. Follows(pass.snap[b], b) /\ b \in Accounts /\ pass.snap[b].cursor \in Int
    BY PassTyped DEF PassFollows
  <2>2. CASE b = a
    BY <1>1, <1>2, <2>1, <2>2 DEF Follows
  <2>3. CASE b # a
    BY <1>2, <2>1, <2>3 DEF Follows
  <2> QED
    BY <2>2, <2>3
<1>18. PassFollows'
  BY <1>15, <1>16, <1>17 DEF PassFollows, Follows
<1> QED
  BY <1>13, <1>14, <1>18

(* The other steps of a pass read accounts as they are. *)
Reads == \/ StartPass \/ LoadAccounts \/ NextAccount \/ Abort
         \/ CommitDay /\ ~Committed
         \/ UNCHANGED pass
LEMMA PassConserves ==
    ASSUME RowsHold, PassFollows, account' = account, credits' = credits, Reads
    PROVE  PassFollows'
<1>1. \A row, b : Follows(row, b)' <=> Follows(row, b)
  BY DEF Follows
<1>2. pass \in PassState
  BY PassTyped
<1>3. CASE StartPass
  <2>1. pass'.pc = "load" /\ pass'.todo = {}
    BY <1>3, Blank DEF StartPass, PassState
  <2> QED
    BY <2>1 DEF PassFollows
<1>4. CASE LoadAccounts
  <2> DEFINE loaded == Earning
  <2>1. loaded \subseteq Accounts
    BY DEF Earning, Active
  <2>2. pass' = [pass EXCEPT !.pc = "account", !.todo = loaded, !.snap = account]
    BY <1>4 DEF LoadAccounts
  <2> HIDE DEF loaded
  <2>3. pass'.pc = "account" /\ pass'.todo = loaded /\ pass'.snap = account
    BY <1>2, <2>2 DEF PassState
  <2>4. \A a \in loaded : Follows(account[a], a)
    BY <2>1, PassTyped DEF Follows
  <2> QED
    BY <1>1, <2>3, <2>4 DEF PassFollows
<1>5. CASE NextAccount
  <2>1. ASSUME NEW a \in pass.todo, NEW row, row = pass.snap[a],
               pass' = [pass EXCEPT !.pc = "day", !.todo = @ \ {a}, !.acct = a,
                                    !.initial = row.initial, !.rate = row.rate,
                                    !.cursor = row.cursor, !.carry = row.carry]
        PROVE  PassFollows'
    <3>1. /\ pass'.pc = "day" /\ pass'.todo = pass.todo \ {a} /\ pass'.snap = pass.snap
          /\ pass'.acct = a /\ pass'.cursor = row.cursor /\ pass'.carry = row.carry
      BY <1>2, <2>1 DEF PassState
    <3>2. \A b \in pass.todo : Follows(pass.snap[b], b)
      BY DEF PassFollows
    <3>3. Follows(row, a)
      BY <2>1, <3>2
    <3>4. Follows(pass, pass.acct)'
      BY <3>1, <3>3 DEF Follows
    <3> QED
      BY <1>1, <3>1, <3>2, <3>4 DEF PassFollows
  <2>2. CASE pass' = IdlePass
    BY <2>2, Blank DEF PassFollows
  <2> QED
    BY <1>5, <2>1, <2>2 DEF NextAccount
<1>6. CASE Abort
  BY <1>6, Blank DEF Abort, PassFollows
<1>7. CASE CommitDay /\ ~Committed
  <2>1. pass' = [pass EXCEPT !.pc = "account"]
    BY <1>7 DEF CommitDay, Committed
  <2>2. pass'.pc = "account" /\ pass'.todo = pass.todo /\ pass'.snap = pass.snap
    BY <1>2, <2>1 DEF PassState
  <2> QED
    BY <1>1, <2>2 DEF PassFollows
<1>8. CASE UNCHANGED pass
  <2>1. \A x, y, z : Balance(x, y, z)' = Balance(x, y, z)
    BY DEF Balance
  <2>2. Balance(pass.acct, pass.initial, pass.date - 1)'
          = Balance(pass.acct, pass.initial, pass.date - 1)
    BY <1>8, <2>1
  <2> QED
    BY <1>1, <1>8, <2>2 DEF PassFollows, Follows
<1> QED
  BY <1>3, <1>4, <1>5, <1>6, <1>7, <1>8 DEF Reads

LEMMA ConservedKeeps == RowsHold /\ ConservedInv /\ [Next]_vars => ConservedInv'
<1> SUFFICES ASSUME RowsHold, ConservedInv, [Next]_vars, "rewound" \notin upsets'
             PROVE  CreditsReach' /\ PassFollows' /\ \A a \in Accounts : Conserved(a)'
  <2>1. (\A a \in Accounts : Conserved(a)') => InterestConserved'
    BY DEF InterestConserved, Conserved, CreditsOf, Total
  <2> QED
    BY <2>1 DEF ConservedInv
<1>1. CreditsReach /\ PassFollows /\ \A a \in Accounts : Conserved(a)
  <2>1. "rewound" \notin upsets
    BY UpsetsStay
  <2> QED
    BY <2>1, ConservedEach DEF ConservedInv
<1>2. CASE Quiet
  <2>1. CreditsReach' /\ \A a \in Accounts : Conserved(a)'
    BY <1>1, <1>2 DEF Quiet, CreditsReach, Conserved, CreditsOf
  <2>2. CASE ReadBalance
    BY <1>1, <2>1, <2>2, ReadConserves
  <2>3. CASE Committed
    BY <1>1, <2>3, CommitConserves
  <2>4. CASE ~ReadBalance /\ ~Committed
    <3>1. Reads
      <4>1. ASSUME NEW e \in Editors, AnswerRequest(e)
            PROVE  UNCHANGED pass
        BY <4>1 DEF AnswerRequest, CreateAccount, StartUpdate, FinishUpdate, StartArchive,
                    FinishArchive
      <4>2. Tick \/ UNCHANGED vars => UNCHANGED pass
        BY DEF Tick, vars
      <4> QED
        BY <2>4, <4>1, <4>2 DEF Reads, Next, RunPass
    <3>2. account' = account /\ credits' = credits
      BY <1>2 DEF Quiet
    <3>3. PassFollows'
      BY <1>1, <3>1, <3>2, PassConserves
    <3> QED
      BY <2>1, <3>3
  <2> QED
    BY <2>2, <2>3, <2>4
<1>3. CASE Committed
  BY <1>1, <1>3, CommitConserves
<1>4. ASSUME NEW e \in Editors, NEW a \in Accounts, Created(e, a)
      PROVE  CreditsReach' /\ PassFollows' /\ \A b \in Accounts : Conserved(b)'
  <2>1. /\ account[a].cursor = NoCursor /\ account[a].carry = 0 /\ account'[a].carry = 0
        /\ account'[a].cursor \in Int /\ NoCursor <= account'[a].cursor
        /\ \A b \in Accounts \ {a} : account'[b] = account[b]
        /\ UNCHANGED <<credits, pass, earned>>
    BY <1>4, CreateWrites DEF NoAccount, NoCursor
  <2> QED
    BY <1>1, <2>1, PassTyped, RequestConserves
<1>5. ASSUME NEW e \in Editors, FinishUpdate(e)
      PROVE  CreditsReach' /\ PassFollows' /\ \A b \in Accounts : Conserved(b)'
  <2> DEFINE a == editor[e].acct
  <2>1. /\ a \in Accounts /\ editor[e].cursor \in Int /\ account'[a].cursor = editor[e].cursor
        /\ account'[a].carry = account[a].carry
        /\ \A b \in Accounts \ {a} : account'[b] = account[b]
        /\ UNCHANGED <<credits, pass, earned>>
    BY <1>5, UpdateWrites
  <2>2. ~(editor[e].cursor < account[a].cursor)
    BY <1>5 DEF FinishUpdate, Note
  <2> HIDE DEF a
  <2>3. \A b \in Accounts : /\ account[b].cursor <= account'[b].cursor
                            /\ account'[b].cursor \in Int
                            /\ account'[b].carry = account[b].carry
    BY <2>1, <2>2, PassTyped
  <2> QED
    BY <1>1, <2>1, <2>3, RequestConserves
<1>6. ASSUME NEW e \in Editors, FinishArchive(e)
      PROVE  CreditsReach' /\ PassFollows' /\ \A b \in Accounts : Conserved(b)'
  <2>1. \A b \in Accounts : /\ account[b].cursor <= account'[b].cursor
                            /\ account'[b].cursor \in Int
                            /\ account'[b].carry = account[b].carry
    BY <1>6, ArchiveWrites, PassTyped
  <2>2. UNCHANGED <<credits, pass, earned>>
    BY <1>6, ArchiveWrites
  <2> QED
    BY <1>1, <2>1, <2>2, RequestConserves
<1> QED
  BY <1>2, <1>3, <1>4, <1>5, <1>6, Steps

-----------------------------------------------------------------------------
(* Every day accrues exactly once. *)

Once(a) ==
    account[a].status # "absent" /\ account[a].rate > 0 =>
        \A d \in Day : times[a][d] = IF since[a] < d /\ d <= account[a].cursor THEN 1 ELSE 0

LEMMA OnceEach ==
    /\ ExactlyOnce <=> (Undisturbed => \A a \in Accounts : Once(a))
    /\ ExactlyOnce' <=> (Undisturbed' => \A a \in Accounts : Once(a)')
<1>1. ExactlyOnce <=> (Undisturbed => \A a \in Accounts : Once(a))
  BY DEF ExactlyOnce, Once, Undisturbed
<1>2. ExactlyOnce' <=> (Undisturbed' => \A a \in Accounts : Once(a)')
  BY DEF ExactlyOnce, Once, Undisturbed
<1> QED
  BY <1>1, <1>2

(* What an undisturbed step starts from. *)
LEMMA StillUndisturbed ==
    ASSUME RowsHold, BackfillInv, OnceInv, [Next]_vars, Undisturbed'
    PROVE  /\ OneAtATime /\ InTime /\ CursorsReach /\ \A a \in Accounts : Once(a)
           /\ \A what \in {"overlap", "late", "revived"} : what \notin upsets'
<1>1. Undisturbed /\ "revived" \notin upsets
  BY UpsetsStay DEF Undisturbed
<1>2. OneAtATime /\ InTime /\ CursorsReach /\ \A a \in Accounts : Once(a)
  BY <1>1, OnceEach DEF OnceInv, BackfillInv
<1> QED
  BY <1>2 DEF Undisturbed

LEMMA PassOnce ==
    ASSUME RowsHold, OneAtATime, InTime, \A a \in Accounts : Once(a), "overlap" \notin upsets',
           StartPass \/ LoadAccounts \/ NextAccount \/ ReadBalance \/ Abort
             \/ (CommitDay /\ ~Committed)
    PROVE  OneAtATime' /\ InTime' /\ \A a \in Accounts : Once(a)'
<1>1. UNCHANGED <<now, account, editor, since, times>> /\ Earning' = Earning /\ Editing' = Editing
  <2>1. UNCHANGED <<now, account, editor, since, times>>
    BY DEF StartPass, LoadAccounts, NextAccount, ReadBalance, ReadBalanceUntil, Abort,
           CommitDay, Committed, history
  <2> QED
    BY <2>1 DEF Earning, Active, Editing
<1>2. \A a \in Accounts : Once(a)'
  BY <1>1 DEF Once
<1>3. pass \in PassState
  BY PassTyped
<1>4. /\ pass'.pc # "idle" => ~Editing /\ pass'.todo \subseteq Earning
      /\ pass'.pc \in {"day", "commit"} => pass'.acct \in Earning
  <2>1. CASE StartPass
    <3>1. pass'.pc = "load" /\ pass'.todo = {}
      BY <2>1, Blank DEF StartPass, PassState
    <3>2. ~Editing
      BY <2>1 DEF StartPass, Note
    <3> QED
      BY <3>1, <3>2
  <2>2. CASE LoadAccounts
    <3> DEFINE loaded == Earning
    <3>1. pass.pc = "load" /\ pass' = [pass EXCEPT !.pc = "account", !.todo = loaded, !.snap = account]
      BY <2>2 DEF LoadAccounts
    <3> HIDE DEF loaded
    <3>2. pass'.pc = "account" /\ pass'.todo = loaded
      BY <1>3, <3>1 DEF PassState
    <3> QED
      BY <3>1, <3>2 DEF OneAtATime, loaded
  <2>3. CASE NextAccount
    <3>1. pass.pc = "account" /\ ~Editing /\ pass.todo \subseteq Earning
      BY <2>3 DEF NextAccount, OneAtATime, InTime
    <3>2. ASSUME NEW a \in pass.todo, NEW row, row = pass.snap[a],
                 pass' = [pass EXCEPT !.pc = "day", !.todo = @ \ {a}, !.acct = a,
                                      !.initial = row.initial, !.rate = row.rate,
                                      !.cursor = row.cursor, !.carry = row.carry]
          PROVE  pass'.pc = "day" /\ pass'.todo = pass.todo \ {a} /\ pass'.acct = a
      BY <1>3, <3>2 DEF PassState
    <3>3. \/ \E a \in pass.todo :
                pass'.pc = "day" /\ pass'.todo = pass.todo \ {a} /\ pass'.acct = a
          \/ pass' = IdlePass
      BY <2>3, <3>2 DEF NextAccount
    <3> QED
      BY <3>1, <3>3, Blank
  <2>4. CASE ReadBalance
    <3>1. pass.pc = "day" /\ ~Editing /\ pass.todo \subseteq Earning /\ pass.acct \in Earning
      BY <2>4 DEF ReadBalance, ReadBalanceUntil, OneAtATime, InTime, AtDay
    <3>2. \E date, amount, carry :
             \/ pass' = [pass EXCEPT !.pc = "account"]
             \/ pass' = [pass EXCEPT !.pc = "commit", !.date = date, !.amount = amount,
                                     !.carry = carry]
      BY <2>4 DEF ReadBalance, ReadBalanceUntil
    <3>3. pass'.todo = pass.todo /\ pass'.acct = pass.acct
      BY <1>3, <3>2 DEF PassState
    <3> QED
      BY <3>1, <3>3
  <2>5. CASE Abort
    BY <2>5, Blank DEF Abort
  <2>6. CASE CommitDay /\ ~Committed
    <3>1. pass.pc = "commit" /\ pass' = [pass EXCEPT !.pc = "account"]
      BY <2>6 DEF CommitDay, Committed
    <3>2. pass'.pc = "account" /\ pass'.todo = pass.todo
      BY <1>3, <3>1 DEF PassState
    <3> QED
      BY <3>1, <3>2 DEF OneAtATime, InTime
  <2> QED
    BY <2>1, <2>2, <2>3, <2>4, <2>5, <2>6
<1>5. OneAtATime'
  BY <1>1, <1>4 DEF OneAtATime
<1>6. InTime'
  BY <1>1, <1>4 DEF InTime, AtDay
<1> QED
  BY <1>2, <1>5, <1>6

LEMMA CommitOnce ==
    ASSUME RowsHold, OneAtATime, InTime, CursorsReach, \A a \in Accounts : Once(a), Committed
    PROVE  OneAtATime' /\ InTime' /\ \A a \in Accounts : Once(a)'
<1>0. PICK a \in Accounts, date \in Nat : a = pass.acct /\ date = pass.date
  BY CommitTyped DEF Committed
<1>1. /\ date \in Day /\ pass.cursor \in Int /\ NoCursor < pass.cursor /\ pass.cursor < date
      /\ account[a].cursor = pass.cursor
  BY <1>0, CommitTyped DEF Committed
<1>2. /\ account'[a].cursor = date
      /\ \A b \in Accounts : account'[b].status = account[b].status /\ account'[b].rate = account[b].rate
      /\ \A b \in Accounts \ {a} : account'[b] = account[b]
  BY <1>0, CommitWrites
<1>3. UNCHANGED <<now, editor, since>> /\ pass' = [pass EXCEPT !.pc = "day", !.cursor = date]
  BY <1>0 DEF Committed, Accrue
<1>4. pass'.pc = "day" /\ pass'.acct = a /\ pass'.todo = pass.todo
  BY <1>0, <1>3, PassTyped DEF PassState
<1>5. /\ ~Editing /\ pass.todo \subseteq Earning /\ a \in Earning
      /\ account[a].cursor >= now - 1 - CatchUpDays
  BY <1>0 DEF Committed, OneAtATime, InTime, AtDay
<1>6. Earning' = Earning /\ Editing' = Editing
  BY <1>2, <1>3 DEF Earning, Active, Editing
<1>7. date = pass.cursor + 1
  <2>1. pass.date = NextDate(pass) /\ pass.today <= now /\ pass.today \in Nat /\ now \in Nat
    BY DEF RowsHold, TypeOK, PassState, PassHolds, Committed
  <2>2. pass.cursor >= pass.today - 1 - CatchUpDays
    BY <1>1, <1>5, <2>1, InterestAssumption
  <2> QED
    BY <1>0, <1>1, <2>1, <2>2, NextDateAfter
<1>8. times' = [times EXCEPT ![a] = [times[a] EXCEPT ![date] = @ + 1]]
      /\ times \in [Accounts -> [Day -> Nat]] /\ since \in [Accounts -> Int]
  BY <1>0, <1>1 DEF Committed, Accrue, RowsHold, TypeOK
<1>9. Once(a)'
  <2>1. \A d \in Day : times[a][d] = IF since[a] < d /\ d <= pass.cursor THEN 1 ELSE 0
    BY <1>1, <1>5 DEF Once, Earning, Active
  <2>2. since[a] <= pass.cursor /\ since[a] \in Int
    BY <1>1, <1>8 DEF CursorsReach, NoCursor
  <2>3. ASSUME NEW d \in Day
        PROVE  times'[a][d] = IF since[a] < d /\ d <= date THEN 1 ELSE 0
    <3>1. d \in Int
      BY InterestAssumption DEF Day
    <3>2. CASE d = date
      <4>1. times'[a][d] = times[a][d] + 1
        BY <1>1, <1>8, <3>2
      <4>2. times[a][d] = 0
        BY <1>1, <2>1, <3>2
      <4> QED
        BY <1>1, <2>2, <3>2, <4>1, <4>2
    <3>3. CASE d # date
      <4>1. times'[a][d] = times[a][d]
        BY <1>8, <3>3
      <4>2. d <= date <=> d <= pass.cursor
        BY <1>1, <1>7, <3>1, <3>3
      <4> QED
        BY <2>1, <4>1, <4>2
    <3> QED
      BY <3>2, <3>3
  <2> QED
    BY <1>2, <1>3, <2>3 DEF Once
<1>10. ASSUME NEW b \in Accounts, b # a
       PROVE  Once(b)'
  <2>1. times'[b] = times[b] /\ account'[b] = account[b] /\ since'[b] = since[b]
    BY <1>2, <1>3, <1>8, <1>10
  <2> QED
    BY <2>1 DEF Once
<1>11. OneAtATime'
  BY <1>3, <1>5, <1>6 DEF OneAtATime, Editing
<1>12. InTime'
  <2>1. \A b \in Earning : account'[b].cursor >= now - 1 - CatchUpDays
    <3>1. date >= now - 1 - CatchUpDays
      BY <1>1, <1>5, InterestAssumption DEF RowsHold, TypeOK
    <3> QED
      BY <1>2, <3>1 DEF InTime, Earning, Active
  <2> QED
    BY <1>3, <1>4, <1>5, <1>6, <2>1 DEF InTime, AtDay
<1> QED
  BY <1>9, <1>10, <1>11, <1>12

LEMMA TickOnce ==
    ASSUME RowsHold, OneAtATime, InTime, \A a \in Accounts : Once(a),
           "overlap" \notin upsets', "late" \notin upsets', Tick
    PROVE  OneAtATime' /\ InTime' /\ \A a \in Accounts : Once(a)'
<1>1. /\ now' = now + 1 /\ ~Editing /\ \A a \in Earning : ~(account[a].cursor < now - CatchUpDays)
      /\ UNCHANGED <<account, pass, editor, since, times>>
  BY DEF Tick, Note, history
<1>2. Earning' = Earning /\ Editing' = Editing
  BY <1>1 DEF Earning, Active, Editing
<1>3. OneAtATime'
  BY <1>1, <1>2 DEF OneAtATime, Editing
<1>4. \A a \in Earning : account[a].cursor >= (now + 1) - 1 - CatchUpDays
  <2>1. \A a \in Earning : account[a].cursor \in Int
    BY PassTyped DEF Earning, Active
  <2>2. now \in Int /\ CatchUpDays \in Int
    BY InterestAssumption DEF RowsHold, TypeOK
  <2> QED
    BY <1>1, <2>1, <2>2
<1>5. InTime'
  BY <1>1, <1>2, <1>4 DEF InTime, AtDay
<1> QED
  BY <1>1, <1>3, <1>5 DEF Once

(* A request that starts undisturbed is alone, on the row it finds. *)
LEMMA StartOnce ==
    ASSUME RowsHold, OneAtATime, InTime, \A a \in Accounts : Once(a), "overlap" \notin upsets',
           NEW e \in Editors, MayEdit(e), NEW r \in EditorState, Edit(e, r),
           UNCHANGED <<now, account, pass, since, times>>,
           r.pc = "update" =>
              IF r.on THEN r.cursor >= now - 1 /\ account[r.acct].rate = 0 /\ r.rate > 0
              ELSE r.cursor = account[r.acct].cursor /\ (r.rate > 0 => account[r.acct].rate > 0)
    PROVE  OneAtATime' /\ InTime' /\ \A a \in Accounts : Once(a)'
<1>1. ~Editing /\ pass.pc = "idle"
  BY DEF MayEdit, Note
<1>2. editor'[e] = r /\ \A f \in Editors \ {e} : editor'[f] = editor[f] /\ editor'[f].pc = "idle"
  BY <1>1 DEF Edit, Editing, RowsHold, TypeOK
<1>3. OneAtATime'
  BY <1>1, <1>2 DEF OneAtATime
<1>4. Earning' = Earning
  BY DEF Earning, Active
<1>5. InTime'
  BY <1>1, <1>4 DEF InTime, AtDay
<1> QED
  BY <1>3, <1>5 DEF Once

LEMMA StartUpdateOnce ==
    ASSUME RowsHold, OneAtATime, InTime, \A a \in Accounts : Once(a), "overlap" \notin upsets',
           NEW e \in Editors, NEW a \in Accounts, NEW initial \in Amounts,
           NEW rate \in Rates \cup {0, Keep}, NEW offset \in ClientOffsets,
           StartUpdate(e, a, initial, rate, now + offset)
    PROVE  OneAtATime' /\ InTime' /\ \A b \in Accounts : Once(b)'
<1> DEFINE asOf == now + offset
           interest == ResolveInterest(account[a], rate, asOf)
           ir == interest.rate
           ic == interest.cursor
           io == interest.on
           r == [pc |-> "update", acct |-> a, initial |-> initial, rate |-> ir,
                 cursor |-> ic, on |-> io]
<1>1. /\ account[a] \in AccountState /\ Cursored(account[a]) /\ rate \in Nat \cup {Keep}
      /\ initial \in Int
  BY InterestAssumption DEF RowsHold, TypeOK, AccountsHold
<1>2. asOf \in Int /\ asOf > NoCursor /\ asOf >= now - 1
  BY ClientDay
<1>3. /\ ir \in Nat /\ ic \in Int /\ io \in BOOLEAN
      /\ io => ic = asOf /\ account[a].rate = 0 /\ ir > 0
      /\ ~io => ic = account[a].cursor /\ (ir > 0 => account[a].rate > 0)
  <2>1. interest = ResolveInterest(account[a], rate, asOf)
    OBVIOUS
  <2> HIDE DEF interest, asOf
  <2> QED
    BY <1>1, <1>2, <2>1, Resolved
<1>4. /\ MayEdit(e) /\ Edit(e, r) /\ UNCHANGED <<now, account, pass, since, times>>
  BY DEF StartUpdate, history
<1> HIDE DEF asOf, interest, ir, ic, io
<1>5. /\ r \in EditorState /\ r.acct = a /\ r.cursor = ic /\ r.rate = ir
      /\ r.on = io
  BY <1>1, <1>3 DEF EditorState
<1> HIDE DEF r
<1>6. IF r.on THEN r.cursor >= now - 1 /\ account[r.acct].rate = 0 /\ r.rate > 0
      ELSE r.cursor = account[r.acct].cursor /\ (r.rate > 0 => account[r.acct].rate > 0)
  BY <1>2, <1>3, <1>5
<1> QED
  BY <1>4, <1>5, <1>6, StartOnce

LEMMA StartArchiveOnce ==
    ASSUME RowsHold, OneAtATime, InTime, \A a \in Accounts : Once(a), "overlap" \notin upsets',
           NEW e \in Editors, NEW a \in Accounts, StartArchive(e, a)
    PROVE  OneAtATime' /\ InTime' /\ \A b \in Accounts : Once(b)'
<1> DEFINE r == [IdleEditor EXCEPT !.pc = "archive", !.acct = a]
<1>1. r \in EditorState /\ r.pc = "archive"
  BY Blank DEF EditorState
<1>2. MayEdit(e) /\ Edit(e, r) /\ UNCHANGED <<now, account, pass, since, times>>
  BY DEF StartArchive, history
<1> HIDE DEF r
<1> QED
  BY <1>1, <1>2, StartOnce

(* A row written with interest turned on has accrued nothing yet. *)
LEMMA TurnedOnOnce ==
    ASSUME RowsHold, NEW a \in Accounts, account'[a].cursor \in Int,
           TurnOn(a, account'[a].cursor)
    PROVE  Once(a)'
<1>1. since'[a] = account'[a].cursor /\ times'[a] = Never
  BY TurnedOn
<1>2. \A d \in Day : Never[d] = 0 /\ d \in Int
  BY InterestAssumption DEF Never, Day
<1>3. \A d \in Day : ~(since'[a] < d /\ d <= account'[a].cursor)
  BY <1>1, <1>2
<1> QED
  BY <1>1, <1>2, <1>3 DEF Once

LEMMA CreateOnce ==
    ASSUME RowsHold, OneAtATime, InTime, \A a \in Accounts : Once(a), "overlap" \notin upsets',
           NEW e \in Editors, NEW a \in Accounts, Created(e, a)
    PROVE  OneAtATime' /\ InTime' /\ \A b \in Accounts : Once(b)'
<1>1. /\ account[a] = NoAccount /\ MayEdit(e) /\ UNCHANGED <<now, pass, editor>>
      /\ \A b \in Accounts \ {a} : account'[b] = account[b]
      /\ \/ /\ account'[a].rate > 0 /\ account'[a].cursor >= now - 1
            /\ account'[a].cursor \in Int /\ TurnOn(a, account'[a].cursor)
         \/ account'[a].rate = 0 /\ UNCHANGED <<since, times>>
  BY CreateWrites
<1>2. ~Editing /\ pass.pc = "idle"
  BY <1>1 DEF MayEdit, Note
<1>3. OneAtATime'
  BY <1>1, <1>2 DEF OneAtATime, Editing
<1>4. \A b \in Accounts \ {a} : since'[b] = since[b] /\ times'[b] = times[b]
  BY <1>1, TurnedOn
<1>5. Once(a)'
  <2>1. CASE account'[a].rate = 0
    BY <2>1 DEF Once
  <2>2. CASE account'[a].cursor \in Int /\ TurnOn(a, account'[a].cursor)
    BY <2>2, TurnedOnOnce
  <2> QED
    BY <1>1, <2>1, <2>2
<1>6. \A b \in Accounts \ {a} : Once(b)'
  BY <1>1, <1>4 DEF Once
<1>7. \A b \in Earning' : account'[b].cursor >= now - 1 - CatchUpDays
  <2>1. now \in Int /\ CatchUpDays \in Nat
    BY InterestAssumption DEF RowsHold, TypeOK
  <2>2. account'[a].rate > 0 => account'[a].cursor >= now - 1 - CatchUpDays
    BY <1>1, <2>1
  <2>3. ASSUME NEW b \in Earning', b # a
        PROVE  b \in Earning /\ account'[b] = account[b]
    BY <1>1, <2>3 DEF Earning, Active
  <2> QED
    BY <2>2, <2>3 DEF InTime, Earning
<1>8. InTime'
  BY <1>1, <1>2, <1>7 DEF InTime, AtDay
<1> QED
  BY <1>3, <1>5, <1>6, <1>8

(* A request that ends undisturbed leaves none. *)
LEMMA LastEnds ==
    ASSUME RowsHold, OneAtATime, NEW e \in Editors, editor[e].pc # "idle", Edit(e, IdleEditor),
           UNCHANGED pass
    PROVE  pass.pc = "idle" /\ ~Editing' /\ OneAtATime'
<1>1. pass.pc = "idle"
  BY DEF OneAtATime, Editing
<1>2. \A f \in Editors : editor'[f].pc = "idle"
  <2>1. editor' = [editor EXCEPT ![e] = IdleEditor] /\ editor \in [Editors -> EditorState]
    BY DEF Edit, RowsHold, TypeOK
  <2>2. \A f \in Editors \ {e} : editor[f].pc = "idle"
    BY DEF OneAtATime
  <2> QED
    BY <2>1, <2>2, Blank
<1> QED
  BY <1>1, <1>2 DEF OneAtATime, Editing

LEMMA FinishUpdateOnce ==
    ASSUME RowsHold, OneAtATime, InTime, \A a \in Accounts : Once(a),
           NEW e \in Editors, FinishUpdate(e)
    PROVE  OneAtATime' /\ InTime' /\ \A b \in Accounts : Once(b)'
<1>0. PICK a \in Accounts : a = editor[e].acct
  BY UpdateWrites
<1>1. /\ editor[e].pc = "update" /\ editor[e].cursor \in Int
      /\ account'[a].cursor = editor[e].cursor /\ account'[a].rate = editor[e].rate
      /\ account'[a].status = account[a].status
      /\ \A b \in Accounts \ {a} : account'[b] = account[b]
      /\ IF editor[e].on THEN TurnOn(a, editor[e].cursor) ELSE UNCHANGED <<since, times>>
      /\ UNCHANGED <<now, pass>> /\ Edit(e, IdleEditor)
  BY <1>0, UpdateWrites
<1>2. IF editor[e].on THEN editor[e].cursor >= now - 1
      ELSE /\ editor[e].cursor = account[a].cursor
           /\ editor[e].rate > 0 => account[a].rate > 0
  BY <1>0, <1>1 DEF OneAtATime
<1>3. pass.pc = "idle" /\ ~Editing' /\ OneAtATime'
  BY <1>1, LastEnds
<1>4. \A b \in Accounts \ {a} : since'[b] = since[b] /\ times'[b] = times[b]
  BY <1>1, TurnedOn
<1>5. Once(a)'
  <2>1. CASE editor[e].on
    BY <1>1, <2>1, TurnedOnOnce
  <2>2. CASE ~editor[e].on
    <3>1. UNCHANGED <<since, times>> /\ account'[a].cursor = account[a].cursor
          /\ (account'[a].rate > 0 => account[a].rate > 0)
      BY <1>1, <1>2, <2>2
    <3> QED
      BY <1>1, <3>1 DEF Once
  <2> QED
    BY <2>1, <2>2
<1>6. \A b \in Accounts \ {a} : Once(b)'
  BY <1>1, <1>4 DEF Once
<1>7. \A b \in Earning' : account'[b].cursor >= now - 1 - CatchUpDays
  <2>1. now \in Int /\ CatchUpDays \in Nat
    BY InterestAssumption DEF RowsHold, TypeOK
  <2>2. ASSUME a \in Earning' PROVE account'[a].cursor >= now - 1 - CatchUpDays
    <3>1. CASE editor[e].on
      BY <1>1, <1>2, <2>1, <3>1
    <3>2. CASE ~editor[e].on
      <4>1. a \in Earning
        BY <1>1, <1>2, <2>2, <3>2 DEF Earning, Active
      <4> QED
        BY <1>1, <1>2, <3>2, <4>1 DEF InTime
    <3> QED
      BY <3>1, <3>2
  <2>3. ASSUME NEW b \in Earning', b # a
        PROVE  b \in Earning /\ account'[b] = account[b]
    BY <1>1, <2>3 DEF Earning, Active
  <2> QED
    BY <2>2, <2>3 DEF InTime
<1>8. InTime'
  BY <1>1, <1>3, <1>7 DEF InTime, AtDay
<1> QED
  BY <1>3, <1>5, <1>6, <1>8

LEMMA FinishArchiveOnce ==
    ASSUME RowsHold, OneAtATime, InTime, \A a \in Accounts : Once(a),
           NEW e \in Editors, FinishArchive(e)
    PROVE  OneAtATime' /\ InTime' /\ \A b \in Accounts : Once(b)'
<1>1. /\ \A a \in Accounts :
            /\ account'[a].cursor = account[a].cursor /\ account'[a].rate = account[a].rate
            /\ account'[a].status # account[a].status =>
                  account[a].status = "active" /\ account'[a].status = "archived"
      /\ UNCHANGED <<now, pass, since, times>> /\ Edit(e, IdleEditor)
      /\ editor[e].pc # "idle"
  BY ArchiveWrites
<1>2. pass.pc = "idle" /\ OneAtATime'
  BY <1>1, LastEnds
<1>3. \A a \in Accounts : Once(a)'
  BY <1>1 DEF Once
<1>4. Earning' \subseteq Earning
  BY <1>1 DEF Earning, Active
<1>5. \A a \in Earning : a \in Accounts
  BY DEF Earning, Active
<1>6. InTime'
  BY <1>1, <1>2, <1>4, <1>5 DEF InTime, AtDay
<1> QED
  BY <1>2, <1>3, <1>6

LEMMA StutterOnce ==
    ASSUME OneAtATime, InTime, \A a \in Accounts : Once(a), UNCHANGED vars
    PROVE  OneAtATime' /\ InTime' /\ \A a \in Accounts : Once(a)'
BY DEF vars, OneAtATime, Editing, InTime, Earning, Active, AtDay, Once

LEMMA OnceKeeps == RowsHold /\ BackfillInv /\ OnceInv /\ [Next]_vars => OnceInv'
<1> SUFFICES ASSUME RowsHold, BackfillInv, OnceInv, [Next]_vars, Undisturbed'
             PROVE  OneAtATime' /\ InTime' /\ \A a \in Accounts : Once(a)'
  BY OnceEach DEF OnceInv
<1>1. /\ OneAtATime /\ InTime /\ CursorsReach /\ \A a \in Accounts : Once(a)
      /\ "overlap" \notin upsets' /\ "late" \notin upsets'
  BY StillUndisturbed
<1>2. CASE StartPass \/ LoadAccounts \/ NextAccount \/ ReadBalance \/ Abort
             \/ (CommitDay /\ ~Committed)
  BY <1>1, <1>2, PassOnce
<1>3. CASE Committed
  BY <1>1, <1>3, CommitOnce
<1>4. CASE Tick
  BY <1>1, <1>4, TickOnce
<1>5. ASSUME NEW e \in Editors, AnswerRequest(e)
      PROVE  OneAtATime' /\ InTime' /\ \A a \in Accounts : Once(a)'
  <2>1. CASE FinishUpdate(e)
    BY <1>1, <2>1, FinishUpdateOnce
  <2>2. CASE FinishArchive(e)
    BY <1>1, <2>2, FinishArchiveOnce
  <2>3. ASSUME NEW a \in Accounts, StartArchive(e, a)
        PROVE  OneAtATime' /\ InTime' /\ \A b \in Accounts : Once(b)'
    BY <1>1, <2>3, StartArchiveOnce
  <2>4. ASSUME NEW a \in Accounts, NEW initial \in Amounts, NEW rate \in Rates \cup {0, Keep},
               NEW offset \in ClientOffsets, CreateAccount(e, a, initial, rate, now + offset)
        PROVE  OneAtATime' /\ InTime' /\ \A b \in Accounts : Once(b)'
    BY <1>1, <2>4, CreateOnce DEF Created
  <2>5. ASSUME NEW a \in Accounts, NEW initial \in Amounts, NEW rate \in Rates \cup {0, Keep},
               NEW offset \in ClientOffsets, StartUpdate(e, a, initial, rate, now + offset)
        PROVE  OneAtATime' /\ InTime' /\ \A b \in Accounts : Once(b)'
    BY <1>1, <2>5, StartUpdateOnce
  <2> QED
    BY <1>5, <2>1, <2>2, <2>3, <2>4, <2>5 DEF AnswerRequest
<1>6. CASE UNCHANGED vars
  BY <1>1, <1>6, StutterOnce
<1> QED
  BY <1>2, <1>3, <1>4, <1>5, <1>6 DEF Next, RunPass

-----------------------------------------------------------------------------
(* The theorems. *)

LEMMA InitInv == Init => InterestInv
<1> SUFFICES ASSUME Init PROVE InterestInv
  OBVIOUS
<1>1. RowsHold
  BY InitRows
<1>2. ASSUME NEW a \in Accounts
      PROVE  /\ account[a].cursor \in {0, NoCursor} /\ account[a].carry = 0
             /\ account[a].rate > 0 => account[a].cursor = 0
  BY <1>2 DEF Init, NoAccount
<1>3. /\ credits = {} /\ pass = IdlePass /\ now = 0 /\ \A e \in Editors : editor[e] = IdleEditor
      /\ \A a \in Accounts : since[a] = 0 /\ times[a] = Never /\ earned[a] = 0
  BY DEF Init
<1>4. ~Editing
  BY <1>3, Blank DEF Editing
<1>5. BackfillInv
  BY <1>2, <1>3 DEF BackfillInv, CursorsReach, NothingBackfilled, Never, NoCursor
<1>6. ConservedInv
  <2>1. \A a \in Accounts : Total(CreditsOf(a)) = 0
    <3>1. \A a \in Accounts : CreditsOf(a) = {}
      BY <1>3 DEF CreditsOf
    <3>2. Total({}) = 0
      BY FS_EmptySet, TotalStep
    <3> QED
      BY <3>1, <3>2
  <2>2. \A a \in Accounts : Conserved(a)
    BY <1>2, <1>3, <2>1, InterestAssumption DEF Conserved
  <2>3. CreditsReach /\ PassFollows
    BY <1>3, Blank DEF CreditsReach, PassFollows
  <2> QED
    BY <2>2, <2>3, ConservedEach DEF ConservedInv
<1>7. OnceInv
  <2>1. OneAtATime
    BY <1>3, <1>4, Blank DEF OneAtATime
  <2>2. InTime
    <3>1. \A a \in Earning : account[a].cursor = 0
      BY <1>2 DEF Earning, Active
    <3> QED
      BY <1>3, <3>1, Blank, InterestAssumption DEF InTime, AtDay
  <2>3. ASSUME NEW a \in Accounts PROVE Once(a)
    <3>1. \A d \in Day : d \in Int /\ Never[d] = 0
      BY InterestAssumption DEF Day, Never
    <3> QED
      BY <1>2, <1>3, <3>1 DEF Once
  <2> QED
    BY <2>1, <2>2, <2>3, OnceEach DEF OnceInv
<1> QED
  BY <1>1, <1>5, <1>6, <1>7 DEF InterestInv

(* The inductive invariant: what a pass of accrue_interest.rs:46 has read of  *)
(* the accounts is what they are, or their cursors tell it apart.           *)
THEOREM InterestInvariant == Spec => []InterestInv
<1>1. InterestInv /\ [Next]_vars => InterestInv'
  BY RowsKeep, BackfillKeeps, ConservedKeeps, OnceKeeps DEF InterestInv
<1> QED
  BY InitInv, <1>1, PTL DEF Spec

(* Every variable keeps its type; a carry stays below a minor unit, as the   *)
(* column's CHECK of the migration demands.                                 *)
THEOREM InterestTypes == Spec => []TypeOK
<1>1. InterestInv => TypeOK
  BY DEF InterestInv, RowsHold
<1> QED
  BY <1>1, InterestInvariant, PTL

(* routes/accounts.rs:44: turning interest on credits no past day, unless an  *)
(* update writes back the cursor of a row it read before.                   *)
THEOREM NoBackfill == Spec => []NothingBackfilled
<1>1. InterestInv => NothingBackfilled
  BY DEF InterestInv, BackfillInv, NothingBackfilled
<1> QED
  BY <1>1, InterestInvariant, PTL

(* accrue_interest.rs:44: a re-run never credits a day twice nor skips one,   *)
(* whatever was aborted, as long as requests and passes do not overlap and  *)
(* passes are no further apart than the catch-up days.                      *)
THEOREM AccruedOnce == Spec => []ExactlyOnce
<1>1. InterestInv => ExactlyOnce
  BY DEF InterestInv, OnceInv, ExactlyOnce, Undisturbed
<1> QED
  BY <1>1, InterestInvariant, PTL

(* accrue_interest.rs:32: the credits and the carry of an account add up to   *)
(* what its days have accrued, for any number of overlapping requests that  *)
(* have not moved a cursor back.                                            *)
THEOREM Conservation == Spec => []InterestConserved
<1>1. InterestInv => InterestConserved
  BY DEF InterestInv, ConservedInv, InterestConserved
<1> QED
  BY <1>1, InterestInvariant, PTL

-----------------------------------------------------------------------------
(* Interest compounds daily. *)

(* What a pass has read of an account's terms is what they are. *)
TermsKept ==
    /\ pass.pc # "idle" =>
          \A a \in pass.todo : /\ pass.snap[a].initial = account[a].initial
                               /\ pass.snap[a].rate = account[a].rate
    /\ AtDay => /\ pass.initial = account[pass.acct].initial
                /\ pass.rate = account[pass.acct].rate
TermsInv == Undisturbed => TermsKept

LEMMA ReadsKeepTerms ==
    ASSUME RowsHold, TermsKept, account' = account,
           StartPass \/ LoadAccounts \/ NextAccount \/ ReadBalance \/ Abort
             \/ (CommitDay /\ ~Committed)
    PROVE  TermsKept'
<1>1. pass \in PassState
  BY PassTyped
<1>2. CASE StartPass \/ Abort
  <2>1. pass'.todo = {} /\ pass'.pc \in {"idle", "load"}
    BY <1>2, Blank DEF StartPass, Abort, PassState
  <2> QED
    BY <2>1 DEF TermsKept, AtDay
<1>3. CASE LoadAccounts
  <2> DEFINE loaded == Earning
  <2>1. pass' = [pass EXCEPT !.pc = "account", !.todo = loaded, !.snap = account]
    BY <1>3 DEF LoadAccounts
  <2> HIDE DEF loaded
  <2>2. pass'.pc = "account" /\ pass'.snap = account
    BY <1>1, <2>1 DEF PassState
  <2> QED
    BY <2>2 DEF TermsKept, AtDay
<1>4. CASE NextAccount
  <2>1. ASSUME NEW a \in pass.todo, NEW row, row = pass.snap[a],
               pass' = [pass EXCEPT !.pc = "day", !.todo = @ \ {a}, !.acct = a,
                                    !.initial = row.initial, !.rate = row.rate,
                                    !.cursor = row.cursor, !.carry = row.carry]
        PROVE  TermsKept'
    <3>1. /\ pass'.pc = "day" /\ pass'.todo = pass.todo \ {a} /\ pass'.snap = pass.snap
          /\ pass'.acct = a /\ pass'.initial = row.initial /\ pass'.rate = row.rate
      BY <1>1, <2>1 DEF PassState
    <3>2. \A b \in pass.todo : /\ pass.snap[b].initial = account[b].initial
                               /\ pass.snap[b].rate = account[b].rate
      BY <1>4 DEF NextAccount, TermsKept
    <3> QED
      BY <2>1, <3>1, <3>2 DEF TermsKept, AtDay
  <2>2. CASE pass' = IdlePass
    BY <2>2, Blank DEF TermsKept, AtDay
  <2> QED
    BY <1>4, <2>1, <2>2 DEF NextAccount
<1>5. CASE ReadBalance
  <2> DEFINE date == NextDate(pass)
             split == Split(Balance(pass.acct, pass.initial, date - 1), pass.rate, pass.carry)
             amount == split.amount
             carry == split.carry
  <2>1. /\ pass.pc = "day"
        /\ pass' = IF date > pass.today THEN [pass EXCEPT !.pc = "account"]
                   ELSE [pass EXCEPT !.pc = "commit", !.date = date, !.amount = amount,
                                     !.carry = carry]
    BY <1>5 DEF ReadBalance, ReadBalanceUntil
  <2> HIDE DEF date, split, amount, carry
  <2>2. /\ pass'.pc \in {"account", "commit"} /\ pass'.todo = pass.todo
        /\ pass'.snap = pass.snap /\ pass'.acct = pass.acct /\ pass'.initial = pass.initial
        /\ pass'.rate = pass.rate
    BY <1>1, <2>1 DEF PassState
  <2> QED
    BY <2>1, <2>2 DEF TermsKept, AtDay
<1>6. CASE CommitDay /\ ~Committed
  <2>1. pass.pc = "commit" /\ pass' = [pass EXCEPT !.pc = "account"]
    BY <1>6 DEF CommitDay, Committed
  <2>2. pass'.pc = "account" /\ pass'.todo = pass.todo /\ pass'.snap = pass.snap
    BY <1>1, <2>1 DEF PassState
  <2> QED
    BY <2>1, <2>2 DEF TermsKept, AtDay
<1> QED
  BY <1>2, <1>3, <1>4, <1>5, <1>6

LEMMA CommitKeepsTerms ==
    ASSUME RowsHold, TermsKept, Committed
    PROVE  TermsKept'
<1>1. /\ pass.pc = "commit" /\ pass' = [pass EXCEPT !.pc = "day", !.cursor = pass.date]
      /\ pass \in PassState
  BY PassTyped DEF Committed, Accrue
<1>2. /\ pass'.pc = "day" /\ pass'.todo = pass.todo /\ pass'.snap = pass.snap
      /\ pass'.acct = pass.acct /\ pass'.initial = pass.initial /\ pass'.rate = pass.rate
  BY <1>1 DEF PassState
<1>3. \A a \in Accounts : account'[a].rate = account[a].rate /\ account'[a].initial = account[a].initial
  BY CommitWrites
<1>4. pass.acct \in Accounts /\ pass.todo \subseteq Accounts
  BY <1>1, PassTyped DEF AtDay
<1> QED
  BY <1>1, <1>2, <1>3, <1>4 DEF TermsKept, AtDay

LEMMA TermsKeep ==
    RowsHold /\ BackfillInv /\ OnceInv /\ TermsInv /\ [Next]_vars => TermsInv'
<1> SUFFICES ASSUME RowsHold, BackfillInv, OnceInv, TermsInv, [Next]_vars, Undisturbed'
             PROVE  TermsKept'
  BY DEF TermsInv
<1>1. OneAtATime /\ "overlap" \notin upsets'
  BY StillUndisturbed
<1>2. TermsKept
  BY UpsetsStay DEF TermsInv, Undisturbed
<1>3. CASE pass' = pass /\ account' = account
  BY <1>2, <1>3 DEF TermsKept, AtDay
<1>4. CASE pass' = pass /\ pass.pc = "idle"
  BY <1>4 DEF TermsKept, AtDay
<1>5. CASE Committed
  BY <1>2, <1>5, CommitKeepsTerms
<1>6. CASE StartPass \/ LoadAccounts \/ NextAccount \/ ReadBalance \/ Abort
             \/ (CommitDay /\ ~Committed)
  <2>1. account' = account
    BY <1>6 DEF StartPass, LoadAccounts, NextAccount, ReadBalance, ReadBalanceUntil, Abort,
                CommitDay, Committed
  <2> QED
    BY <1>2, <1>6, <2>1, ReadsKeepTerms
<1>7. CASE Tick \/ UNCHANGED vars
  BY <1>3, <1>7 DEF Tick, vars
<1>8. ASSUME NEW e \in Editors, AnswerRequest(e)
      PROVE  TermsKept'
  <2>1. CASE FinishUpdate(e)
    BY <1>1, <1>4, <2>1, UpdateWrites, LastEnds
  <2>2. CASE FinishArchive(e)
    BY <1>1, <1>4, <2>2, ArchiveWrites, LastEnds
  <2>3. ASSUME NEW a \in Accounts, StartArchive(e, a)
        PROVE  TermsKept'
    BY <1>3, <2>3 DEF StartArchive
  <2>4. ASSUME NEW a \in Accounts, Created(e, a)
        PROVE  TermsKept'
    <3>1. MayEdit(e) /\ pass' = pass
      BY <2>4, CreateWrites
    <3>2. pass.pc = "idle"
      BY <1>1, <3>1 DEF MayEdit, Note
    <3> QED
      BY <1>4, <3>1, <3>2
  <2>5. ASSUME NEW a \in Accounts, NEW initial \in Amounts, NEW rate \in Rates \cup {0, Keep},
               NEW offset \in ClientOffsets, StartUpdate(e, a, initial, rate, now + offset)
        PROVE  TermsKept'
    BY <1>3, <2>5 DEF StartUpdate
  <2> QED
    BY <1>8, <2>1, <2>2, <2>3, <2>4, <2>5 DEF AnswerRequest, Created
<1> QED
  BY <1>5, <1>6, <1>7, <1>8 DEF Next, RunPass

(* An account's whole credits and its carry are what division makes of its   *)
(* worth.                                                                   *)
LEMMA WholeUnits ==
    ASSUME NEW total \in Int, NEW carry \in 0..(Micros - 1), total * Micros + carry \in Nat
    PROVE  (total * Micros + carry) \div Micros = total
<1> DEFINE x == total * Micros + carry
           q == x \div Micros
           r == x % Micros
<1>1. Micros \in Nat \ {0}
  BY InterestAssumption
<1>2. q \in Nat /\ r \in 0..(Micros - 1) /\ q * Micros + r = x
  <2> HIDE DEF x
  <2> QED
    BY WholeAndCarry DEF x
<1> HIDE DEF q, r
<1>3. q * Micros + r = total * Micros + carry
  BY <1>2 DEF x
<1>4. (q - total) * Micros = carry - r
  <2>1. (q - total) * Micros = q * Micros - total * Micros
    BY <1>1, <1>2
  <2> DEFINE y == q * Micros
             z == total * Micros
  <2>2. y \in Int /\ z \in Int
    BY <1>1, <1>2
  <2>3. y + r = z + carry /\ (q - total) * Micros = y - z
    BY <1>3, <2>1
  <2> HIDE DEF y, z
  <2> QED
    BY <1>1, <1>2, <2>2, <2>3
<1>5. carry - r < Micros /\ carry - r > -Micros
  BY <1>1, <1>2
<1> DEFINE n == q - total
<1>6. n \in Int /\ n * Micros < Micros /\ n * Micros > -Micros
  BY <1>2, <1>4, <1>5
<1> HIDE DEF n
<1>7. ~(n >= 1)
  <2>1. n >= 1 => n * Micros >= Micros
    BY <1>1, <1>6
  <2> QED
    BY <1>1, <1>6, <2>1
<1>8. ~(n <= -1)
  <2>1. n <= -1 => n * Micros <= -Micros
    BY <1>1, <1>6
  <2> QED
    BY <1>1, <1>6, <2>1
<1>9. n = 0
  BY <1>6, <1>7, <1>8
<1> QED
  BY <1>2, <1>9 DEF n, q, x

LEMMA WorthEarned ==
    ASSUME InterestInv, upsets = {}, NEW a \in Accounts
    PROVE  /\ Worth(a) = earned[a] /\ Worth(a) \in Nat
           /\ Worth(a) \div Micros = Total(CreditsOf(a)) /\ Total(CreditsOf(a)) \in Int
<1>1. RowsHold /\ Conserved(a)
  BY ConservedEach DEF InterestInv, ConservedInv
<1>2. Worth(a) = Total(CreditsOf(a)) * Micros + account[a].carry
  BY DEF Worth, Total, CreditsOf
<1>3. earned[a] \in Nat /\ account[a].carry \in 0..(Micros - 1)
  BY <1>1 DEF RowsHold, TypeOK, AccountState
<1>4. Total(CreditsOf(a)) \in Int
  BY <1>1, CreditsTotal DEF CreditsOf
<1> QED
  BY <1>1, <1>2, <1>3, <1>4, WholeUnits DEF Conserved

AllEarned == \A a \in Accounts : Worth(a) = earned[a]
LEMMA AllWorthEarned == InterestInv /\ upsets = {} => AllEarned
BY WorthEarned DEF AllEarned

(* How a day is entered in a book. *)
Entered(b, E) == [b EXCEPT !.upto = @ + 1, !.worth = @ + E]
LEMMA DayEntered ==
    ASSUME NEW open, NEW initial, NEW rate, NEW upto, NEW worth, NEW E, NEW old,
           old = [open |-> open, initial |-> initial, rate |-> rate, upto |-> upto,
                  worth |-> worth]
    PROVE  Entered(old, E)
             = [open |-> open, initial |-> initial, rate |-> rate, upto |-> upto + 1,
                worth |-> worth + E]
<1> DEFINE mid == [old EXCEPT !.upto = @ + 1]
<1>1. mid = [open |-> open, initial |-> initial, rate |-> rate, upto |-> upto + 1,
             worth |-> worth]
  OBVIOUS
<1>2. Entered(old, E) = [mid EXCEPT !.worth = old.worth + E] /\ old.worth = worth
  BY DEF Entered
<1> HIDE DEF mid
<1>3. [mid EXCEPT !.worth = worth + E]
        = [open |-> open, initial |-> initial, rate |-> rate, upto |-> upto + 1,
           worth |-> worth + E]
  BY <1>1
<1> QED
  BY <1>2, <1>3

(* A day that is committed is the next one, and earns on all credits so far. *)
LEMMA CommitEarns ==
    ASSUME InterestInv, InterestInv', TermsInv, upsets = {}, upsets' = {}, Committed
    PROVE  \E a \in Accounts : Books!Earn(a)
<1>1. RowsHold /\ CreditsReach /\ InTime /\ TermsKept
  BY DEF InterestInv, ConservedInv, OnceInv, TermsInv, Undisturbed
<1>2. PICK a \in Accounts, date \in Nat : a = pass.acct /\ date = pass.date
  BY <1>1, CommitTyped DEF Committed
<1>3. /\ account[a].cursor = pass.cursor /\ pass.cursor \in Int /\ NoCursor < pass.cursor
      /\ pass.cursor < date
  BY <1>1, <1>2, CommitTyped DEF Committed
<1>4. a \in Earning
  BY <1>1, <1>2 DEF Committed, InTime, AtDay
<1>5. date = account[a].cursor + 1
  <2>1. pass.date = NextDate(pass) /\ pass.today <= now /\ pass.today \in Nat /\ now \in Nat
    BY <1>1 DEF RowsHold, TypeOK, PassState, PassHolds, Committed
  <2>2. account[a].cursor >= now - 1 - CatchUpDays
    BY <1>1, <1>4 DEF InTime
  <2>3. pass.cursor >= pass.today - 1 - CatchUpDays
    BY <1>3, <2>1, <2>2, InterestAssumption
  <2> QED
    BY <1>2, <1>3, <2>1, <2>3, NextDateAfter
<1>6. /\ account'[a].cursor = date
      /\ \A b \in Accounts : /\ account'[b].status = account[b].status
                             /\ account'[b].rate = account[b].rate
                             /\ account'[b].initial = account[b].initial
      /\ \A b \in Accounts \ {a} : account'[b] = account[b]
  BY <1>1, <1>2, CommitWrites
<1> DEFINE balance == Balance(a, pass.initial, date - 1)
           interest == DayInterest(balance, pass.rate)
<1>7. earned' = [earned EXCEPT ![a] = @ + interest] /\ earned \in [Accounts -> Nat]
  BY <1>1, <1>2 DEF Committed, Accrue, RowsHold, TypeOK
<1>8. balance = Books!Holds(Book[a])
  <2>1. \A c \in credits : c.acct = a => c.date <= date - 1
    <3>1. \A c \in credits : c.date \in Int /\ c.date <= account[c.acct].cursor
      BY <1>1 DEF CreditsReach, RowsHold, TypeOK
    <3> QED
      BY <1>3, <1>5, <3>1
  <2>2. {c \in credits : c.acct = a /\ c.date <= date - 1} = CreditsOf(a)
    BY <2>1 DEF CreditsOf
  <2>3. balance = pass.initial + Total(CreditsOf(a))
    BY <2>2 DEF Balance, Total
  <2>4. pass.initial = account[a].initial
    BY <1>1, <1>2 DEF TermsKept, Committed, AtDay
  <2>5. Book[a].initial = account[a].initial /\ Book[a].worth = Worth(a)
    BY DEF Book
  <2> HIDE DEF balance
  <2> QED
    BY <2>3, <2>4, <2>5, WorthEarned DEF Books!Holds
<1>9. interest = Books!Earnings(Book[a]) /\ interest \in Nat
  <2>1. pass.rate = account[a].rate /\ Book[a].rate = account[a].rate /\ pass.rate \in Nat
    BY <1>1, <1>2, PassTyped DEF TermsKept, Committed, AtDay, Book, PassState
  <2>2. balance \in Int
    BY <1>1, BalanceInt, PassTyped DEF PassState
  <2> HIDE DEF balance
  <2> QED
    BY <1>8, <2>1, <2>2 DEF DayInterest, Books!Earnings
<1> HIDE DEF balance, interest
<1>10. Worth(a)' = Worth(a) + interest /\ \A b \in Accounts \ {a} : Worth(b)' = Worth(b)
  <2>1. \A b \in Accounts : Worth(b) = earned[b] /\ Worth(b) \in Nat
    BY WorthEarned
  <2>2. \A b \in Accounts : Worth(b)' = earned'[b]
    <3>1. (InterestInv /\ upsets = {})'
      OBVIOUS
    <3>2. AllEarned'
      BY <3>1, AllWorthEarned, PTL
    <3> QED
      BY <3>2 DEF AllEarned
  <2> QED
    BY <1>7, <2>1, <2>2
<1>11. Book' = [Book EXCEPT ![a].upto = @ + 1, ![a].worth = @ + Books!Earnings(Book[a])]
  <2> DEFINE E == Books!Earnings(Book[a])
             old == Book[a]
             new == Entered(old, E)
  <2>1. old = [open |-> account[a].status = "active", initial |-> account[a].initial,
               rate |-> account[a].rate, upto |-> account[a].cursor, worth |-> Worth(a)]
    BY DEF Book
  <2>2. Book'[a] = [open |-> account'[a].status = "active", initial |-> account'[a].initial,
                    rate |-> account'[a].rate, upto |-> account'[a].cursor,
                    worth |-> Worth(a)']
    BY DEF Book
  <2>3. interest = E
    BY <1>9
  <2> HIDE DEF E
  <2>4. Book'[a] = new
    <3> DEFINE open == account[a].status = "active"
               initial == account[a].initial
               rate == account[a].rate
               upto == account[a].cursor
               worth == Worth(a)
    <3>0. old = [open |-> open, initial |-> initial, rate |-> rate, upto |-> upto,
                 worth |-> worth]
      BY <2>1
    <3>1. new = [open |-> account[a].status = "active", initial |-> account[a].initial,
                 rate |-> account[a].rate, upto |-> account[a].cursor + 1,
                 worth |-> Worth(a) + E]
      <4> HIDE DEF old, open, initial, rate, upto, worth
      <4>1. new = [open |-> open, initial |-> initial, rate |-> rate, upto |-> upto + 1,
                   worth |-> worth + E]
        BY <3>0, DayEntered
      <4> QED
        BY <4>1 DEF open, initial, rate, upto, worth
    <3> HIDE DEF old, new
    <3> QED
      BY <1>5, <1>6, <1>10, <2>2, <2>3, <3>1
  <2>5. \A b \in Accounts \ {a} : Book'[b] = Book[b]
    BY <1>6, <1>10 DEF Book
  <2>6. /\ Book = [b \in Accounts |-> Book[b]] /\ Book' = [b \in Accounts |-> Book'[b]]
    BY DEF Book
  <2> HIDE DEF new
  <2>7. Book' = [Book EXCEPT ![a] = new]
    BY <2>4, <2>5, <2>6
  <2> QED
    BY <2>7 DEF new, E, Entered
<1>12. Book[a].open /\ Book[a].rate > 0
  BY <1>4 DEF Book, Earning, Active
<1> QED
  BY <1>11, <1>12 DEF Books!Earn

LEMMA AgreesOn ==
    ASSUME RowsHold, NEW a \in Accounts, credits' = credits,
           account'[a].carry = account[a].carry,
           \A b \in Accounts \ {a} : account'[b] = account[b],
           \/ account'[a].cursor = account[a].cursor
           \/ account[a].rate = 0 /\ account'[a].rate > 0 /\ account'[a].cursor > account[a].cursor
    PROVE  Books!Agree(a)
<1>1. \A b \in Accounts : account'[b].carry = account[b].carry
  OBVIOUS
<1>2. \A b \in Accounts : Worth(b)' = Worth(b)
  BY <1>1 DEF Worth
<1>3. \A b \in Accounts \ {a} : Book'[b] = Book[b]
  BY <1>2 DEF Book
<1>4. Book = [b \in Accounts |-> Book[b]] /\ Book' = [b \in Accounts |-> Book'[b]]
  BY DEF Book
<1>5. /\ Book[a].upto = account[a].cursor /\ Book'[a].upto = account'[a].cursor
      /\ Book[a].rate = account[a].rate /\ Book'[a].rate = account'[a].rate
      /\ Book[a].worth = Worth(a) /\ Book'[a].worth = Worth(a)'
  BY DEF Book
<1>6. Book' = [Book EXCEPT ![a] = Book'[a]]
  BY <1>3, <1>4
<1> QED
  BY <1>2, <1>5, <1>6 DEF Books!Agree

LEMMA StepsCompound ==
    ASSUME InterestInv, InterestInv', TermsInv, [Next]_vars, upsets' = {}
    PROVE  [Books!Next]_Book
<1>1. RowsHold /\ OneAtATime /\ upsets = {}
  <2>1. RowsHold /\ upsets = {}
    BY UpsetsStay DEF InterestInv
  <2> QED
    BY <2>1 DEF InterestInv, OnceInv, Undisturbed
<1>2. CASE Quiet
  BY <1>2 DEF Quiet, Book, Worth
<1>3. CASE Committed
  BY <1>1, <1>3, CommitEarns DEF Books!Next
<1>4. ASSUME NEW e \in Editors, NEW a \in Accounts, Created(e, a)
      PROVE  Books!Agree(a)
  <2>1. account[a].cursor = NoCursor /\ account[a].rate = 0 /\ account[a].carry = 0
    BY <1>1, <1>4, CreateWrites DEF NoAccount
  <2>2. /\ credits' = credits /\ account'[a].carry = 0
        /\ \A b \in Accounts \ {a} : account'[b] = account[b]
        /\ \/ account'[a].rate > 0 /\ account'[a].cursor > NoCursor
           \/ account'[a].cursor = NoCursor
    BY <1>1, <1>4, CreateWrites
  <2> QED
    BY <1>1, <2>1, <2>2, AgreesOn
<1>5. ASSUME NEW e \in Editors, FinishUpdate(e)
      PROVE  \E a \in Accounts : Books!Agree(a)
  <2> DEFINE a == editor[e].acct
  <2>1. /\ a \in Accounts /\ editor[e].pc = "update" /\ editor[e].cursor \in Int
        /\ account'[a].cursor = editor[e].cursor /\ account'[a].rate = editor[e].rate
        /\ account'[a].carry = account[a].carry /\ credits' = credits
        /\ \A b \in Accounts \ {a} : account'[b] = account[b]
    BY <1>1, <1>5, UpdateWrites
  <2>2. ~(editor[e].cursor < account[a].cursor)
    BY <1>5 DEF FinishUpdate, Note
  <2>3. ~editor[e].on => editor[e].cursor = account[a].cursor
    BY <1>1, <2>1 DEF OneAtATime
  <2>4. editor[e].on => account[a].rate = 0 /\ editor[e].rate > 0
    BY <1>1, <2>1 DEF OneAtATime
  <2> HIDE DEF a
  <2>5. account[a].cursor \in Int
    BY <1>1, <2>1, PassTyped
  <2>6. Books!Agree(a)
    BY <1>1, <2>1, <2>2, <2>3, <2>4, <2>5, AgreesOn
  <2> QED
    BY <2>1, <2>6
<1>6. ASSUME NEW e \in Editors, FinishArchive(e)
      PROVE  \E a \in Accounts : Books!Agree(a)
  <2>1. PICK a \in Accounts : a = editor[e].acct
    <3>1. RequestHolds(editor[e])
      BY <1>1 DEF RowsHold
    <3> QED
      BY <1>6, <3>1 DEF FinishArchive, RequestHolds
  <2>2. /\ credits' = credits /\ account'[a].carry = account[a].carry
        /\ account'[a].cursor = account[a].cursor
    BY <1>1, <1>6, ArchiveWrites
  <2>3. \A b \in Accounts \ {a} : account'[b] = account[b]
    BY <1>1, <1>6, <2>1 DEF FinishArchive, RowsHold, TypeOK
  <2>4. Books!Agree(a)
    BY <1>1, <2>2, <2>3, AgreesOn
  <2> QED
    BY <2>4
<1> QED
  BY <1>1, <1>2, <1>3, <1>4, <1>5, <1>6, Steps DEF Books!Next
(* accrue_interest.rs:46: without an upset, the interest of every account     *)
(* compounds day by day.  The pass may be cut short after any day, credits  *)
(* whole units only, and reads and commits in separate steps; requests turn *)
(* interest on and off and close accounts between passes.                   *)
THEOREM InterestCompounds == Spec => CompoundsDaily
<1>1. InterestInv /\ TermsInv /\ [Next]_vars => TermsInv'
  BY TermsKeep DEF InterestInv
<1>2. Init => TermsInv
  BY Blank DEF Init, TermsInv, TermsKept, AtDay
<1>3. InterestInv /\ InterestInv' /\ TermsInv /\ [Next]_vars
        => [upsets' = {} => [Books!Next]_Book]_vars
  BY StepsCompound
<1> QED
  BY InterestInvariant, <1>1, <1>2, <1>3, PTL DEF Spec, CompoundsDaily

(* A behaviour that nothing upsets implements the abstract specification:     *)
(* accounts start with nothing earned and every step is one of its books.   *)
THEOREM ImplementsCompoundInterest == Spec /\ [](upsets = {}) => Books!Spec
<1>1. Init => Books!Init
  <2> SUFFICES ASSUME Init PROVE Books!Init
    OBVIOUS
  <2>1. InterestInv /\ upsets = {} /\ \A a \in Accounts : earned[a] = 0
    BY InitInv DEF Init
  <2>2. \A a \in Accounts : Book[a].worth = 0
    BY <2>1, AllWorthEarned DEF AllEarned, Book
  <2> QED
    BY <2>2 DEF Books!Init
<1>2. [upsets' = {} => [Books!Next]_Book]_vars /\ (upsets = {})' => [Books!Next]_Book
  BY DEF vars, Book, Worth
<1> QED
  BY InterestCompounds, <1>1, <1>2, PTL DEF Spec, CompoundsDaily, Books!Spec

==============================================================================
