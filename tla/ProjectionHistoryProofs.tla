----------------------- MODULE ProjectionHistoryProofs -----------------------
(***************************************************************************)
(* Theorems about ProjectionHistory, for any number of handlers, periods,   *)
(* days, changes and faults of any kind: OnlyClosedPeriodsFrozen, Continuous *)
(* and FrozenEqualsLive.                                                    *)
(*                                                                         *)
(* Each follows from a part of HistoryInv.  The first needs the types and   *)
(* that time goes on; the second, that without an overlap one process at    *)
(* most is at work, so that what its sync read of the history is still      *)
(* there when it commits; the third, from which day on the process at work   *)
(* owes a re-freeze, and from which day on one has been missed.             *)
(***************************************************************************)
EXTENDS ProjectionHistory, FiniteSetTheorems, TLAPS

-----------------------------------------------------------------------------
(* The inductive invariant. *)

Row == [period : Period, net : Int, cumulative : Int, currency : Int]
Inputs == [net : [Period -> Int], opening : Int, currency : Int]
ProcState ==
    [pc : {"idle", "check", "charge", "inputs", "list", "delete", "commit", "clear"},
     sync : {"append", "from", "rebuild"}, date : Int, step : BOOLEAN, created : BOOLEAN,
     inputs : Inputs, base : Nat, rows : SUBSET Row, raced : SUBSET Int]

HistoryTyped ==
    /\ now \in Nat
    /\ net \in [Period -> Int] /\ opening \in Int /\ currency \in Int
    /\ history \subseteq Row
    /\ proc \in [Procs -> ProcState]
    /\ missed \in Int /\ overlapped \in BOOLEAN

(* Every frozen row, and every row about to be, is of a period that has     *)
(* closed, and periods have one row.                                        *)
OneRowEach(rows) == \A r, s \in rows : r.period = s.period => r = s
Past(rows) == \A r \in rows : PayDate(r.period) < now - 1
Writing(p) == proc[p].pc \in {"delete", "commit"}
RowsPast ==
    /\ OneRowEach(history) /\ Past(history)
    /\ \A p \in Procs : Writing(p) => OneRowEach(proc[p].rows) /\ Past(proc[p].rows)

(* Without an overlap one process works, and what it is about to write goes *)
(* on from what it leaves.                                                  *)
Chain(rows) ==
    \A r \in rows : r.period > 1 =>
        \E b \in rows : b.period = r.period - 1 /\ r.cumulative = b.cumulative + r.net
UpTo(base) == {r \in history : r.period <= base}
OneBusy == \A p, q \in Procs : proc[p].pc # "idle" /\ proc[q].pc # "idle" => p = q
ChainInv ==
    ~overlapped =>
        /\ OneBusy
        /\ Chain(history)
        /\ \A p \in Procs : proc[p].pc = "commit" => proc[p].raced = {}
        /\ \A p \in Procs : Writing(p) =>
              /\ \A r \in proc[p].rows : r.period > proc[p].base
              /\ Chain(UpTo(proc[p].base) \cup proc[p].rows)

(* A row that no process has still to replace, and that has not been missed, *)
(* is what a live computation says, and so is every row that a sync is about *)
(* to leave there or write.                                                 *)
Sum(n, S) == LET NetOf(p) == n[p] IN MapThenSumSet(NetOf, S)
Agrees(r) == r.net = net[r.period] /\ r.cumulative = opening + Sum(net, 1..r.period)
Held(r) == PayDate(r.period) < missed /\ \A p \in Procs : PayDate(r.period) < Owes(proc[p])
HeldAgree == \A r \in history : Held(r) => Agrees(r)
Live == [net |-> net, opening |-> opening, currency |-> currency]
LeftAgree(s) ==
    \A r \in UpTo(s.base) \cup s.rows :
        PayDate(s.base) < missed \/ PayDate(r.period) < missed => Agrees(r)
AgreesAt(s) ==
    /\ s.pc = "idle" => Owes(s) = NoDay
    /\ s.pc = "charge" => s.sync = "append"
    /\ s.pc \in {"check", "inputs", "list"} /\ s.sync = "append" => Owes(s) = NoDay
    /\ s.pc = "list" => s.inputs = Live
    /\ s.pc \in {"delete", "commit"} => LeftAgree(s)
AgreeInv == ~overlapped => HeldAgree /\ \A p \in Procs : AgreesAt(proc[p])

HistoryInv == HistoryTyped /\ RowsPast /\ ChainInv /\ AgreeInv

-----------------------------------------------------------------------------
(* Sums over periods.  MapThenSumSet is a fold that takes the elements of a  *)
(* set in the order CHOOSE gives them: it exists for every finite set, and  *)
(* any element may be taken first.                                          *)

Any(S) == CHOOSE c \in S : TRUE
Folds(n, f, S) ==
    f = [s \in SUBSET S |-> IF s = {} THEN 0 ELSE n[Any(s)] + f[s \ {Any(s)}]]

(* Every set of finite sets has one without a proper subset in it. *)
LEMMA Smallest ==
    ASSUME NEW S, NEW T \in SUBSET FiniteSubsetsOf(S), T # {}
    PROVE  \E s \in T : \A t \in T : ~(t \subseteq s /\ t # s)
<1> DEFINE R == StrictSubsetOrdering(S)
           F == FiniteSubsetsOf(S)
<1>1. IsWellFoundedOn(R, F)
  BY FS_StrictSubsetOrderingWellFounded
<1>2. \A s, t \in F : t \subseteq s /\ t # s => <<t, s>> \in R
  BY DEF StrictSubsetOrdering, FiniteSubsetsOf
<1> HIDE DEF R, F
<1>3. PICK s \in T : \A t \in T : ~(<<t, s>> \in R)
  <2>1. T \in SUBSET F
    BY DEF F
  <2> QED
    BY <1>1, <2>1, WFMin
<1>4. \A t \in T : t \in F
  BY DEF F
<1> QED
  BY <1>2, <1>3, <1>4

LEMMA SubsetsFinite ==
    ASSUME NEW S, IsFiniteSet(S), NEW s \in SUBSET S
    PROVE  /\ IsFiniteSet(s) /\ s \in FiniteSubsetsOf(S)
           /\ s # {} => /\ Any(s) \in s /\ s \ {Any(s)} \in SUBSET S
                        /\ s \ {Any(s)} \subseteq s /\ s \ {Any(s)} # s
<1>1. IsFiniteSet(s)
  BY FS_Subset
<1>2. s # {} => Any(s) \in s
  BY DEF Any
<1> QED
  BY <1>1, <1>2 DEF FiniteSubsetsOf

LEMMA FoldUnique ==
    ASSUME NEW n, NEW S, IsFiniteSet(S), NEW T, NEW f, Folds(n, f, S), NEW g, Folds(n, g, T),
           NEW u \in SUBSET S, u \subseteq T
    PROVE  f[u] = g[u]
<1> DEFINE Bad == {s \in SUBSET S : s \subseteq T /\ f[s] # g[s]}
<1> SUFFICES ASSUME Bad # {} PROVE FALSE
  OBVIOUS
<1>1. Bad \in SUBSET FiniteSubsetsOf(S)
  BY SubsetsFinite
<1>2. PICK s \in Bad : \A t \in Bad : ~(t \subseteq s /\ t # s)
  <2> HIDE DEF Bad
  <2> QED
    BY <1>1, Smallest
<1>3. f[s] = IF s = {} THEN 0 ELSE n[Any(s)] + f[s \ {Any(s)}]
  BY <1>2 DEF Folds
<1>4. g[s] = IF s = {} THEN 0 ELSE n[Any(s)] + g[s \ {Any(s)}]
  BY <1>2 DEF Folds
<1>5. ASSUME s # {} PROVE f[s \ {Any(s)}] = g[s \ {Any(s)}]
  <2>1. s \ {Any(s)} \in SUBSET S /\ s \ {Any(s)} \subseteq s /\ s \ {Any(s)} # s
    BY <1>2, <1>5, SubsetsFinite
  <2>2. s \ {Any(s)} \notin Bad
    BY <1>2, <2>1
  <2> QED
    BY <1>2, <2>1, <2>2
<1> QED
  BY <1>2, <1>3, <1>4, <1>5

LEMMA FoldExists ==
    ASSUME NEW n, NEW S, IsFiniteSet(S)
    PROVE  \E f : Folds(n, f, S)
<1> DEFINE Bad == {s \in SUBSET S : ~\E f : Folds(n, f, s)}
<1> SUFFICES ASSUME Bad # {} PROVE FALSE
  OBVIOUS
<1>1. Bad \in SUBSET FiniteSubsetsOf(S)
  BY SubsetsFinite
<1>2. PICK s \in Bad : \A t \in Bad : ~(t \subseteq s /\ t # s)
  <2> HIDE DEF Bad
  <2> QED
    BY <1>1, Smallest
<1> DEFINE Fold(t) == CHOOSE f : Folds(n, f, t)
           G(t) == Fold(t)[t]
           h == [t \in SUBSET s |-> IF t = {} THEN 0 ELSE n[Any(t)] + G(t \ {Any(t)})]
<1>3. \A t \in SUBSET s : t # s => Folds(n, Fold(t), t)
  <2> TAKE t \in SUBSET s
  <2> HAVE t # s
  <2>1. \E f : Folds(n, f, t)
    BY <1>2
  <2> QED
    BY <2>1
<1>4. \A t \in SUBSET s : IsFiniteSet(t)
  BY <1>2, SubsetsFinite
<1>5. ASSUME NEW u \in SUBSET s, u # s
      PROVE  G(u) = h[u]
  <2>1. Folds(n, Fold(u), u)
    BY <1>3, <1>5
  <2>2. G(u) = IF u = {} THEN 0 ELSE n[Any(u)] + Fold(u)[u \ {Any(u)}]
    <3> HIDE DEF Fold
    <3> QED
      BY <2>1 DEF Folds
  <2>3. ASSUME u # {} PROVE Fold(u)[u \ {Any(u)}] = G(u \ {Any(u)})
    <3>1. u \ {Any(u)} \in SUBSET u /\ u \ {Any(u)} \in SUBSET s /\ u \ {Any(u)} # s
      BY <1>4, <2>3, SubsetsFinite
    <3>2. Folds(n, Fold(u \ {Any(u)}), u \ {Any(u)})
      BY <1>3, <3>1
    <3> DEFINE w == u \ {Any(u)}
    <3>3. IsFiniteSet(u) /\ w \in SUBSET u /\ w \subseteq w
      BY <1>4, <3>1
    <3> HIDE DEF Fold, w
    <3>4. ASSUME NEW f, f = Fold(u), NEW g, g = Fold(w), Folds(n, g, w) PROVE f[w] = g[w]
      BY <2>1, <3>3, <3>4, FoldUnique
    <3>5. Folds(n, Fold(w), w)
      BY <3>2 DEF w
    <3> QED
      BY <3>4, <3>5 DEF w, G
  <2> HIDE DEF G
  <2> QED
    BY <2>2, <2>3
<1>6. ASSUME NEW t \in SUBSET s, t # {}
      PROVE  G(t \ {Any(t)}) = h[t \ {Any(t)}]
  <2>1. t \ {Any(t)} \in SUBSET s /\ t \ {Any(t)} # s
    BY <1>4, <1>6, SubsetsFinite
  <2> HIDE DEF G, h
  <2> QED
    BY <1>5, <2>1
<1>7. h = [t \in SUBSET s |-> IF t = {} THEN 0 ELSE n[Any(t)] + h[t \ {Any(t)}]]
  <2>1. \A t \in SUBSET s : (IF t = {} THEN 0 ELSE n[Any(t)] + G(t \ {Any(t)}))
                          = (IF t = {} THEN 0 ELSE n[Any(t)] + h[t \ {Any(t)}])
    <3> HIDE DEF G, h
    <3> QED
      BY <1>6
  <2> DEFINE H == h
  <2>2. H = [t \in SUBSET s |-> IF t = {} THEN 0 ELSE n[Any(t)] + G(t \ {Any(t)})]
    OBVIOUS
  <2>3. \A t \in SUBSET s : (IF t = {} THEN 0 ELSE n[Any(t)] + G(t \ {Any(t)}))
                          = (IF t = {} THEN 0 ELSE n[Any(t)] + H[t \ {Any(t)}])
    BY <2>1
  <2> HIDE DEF G, H
  <2>4. H = [t \in SUBSET s |-> IF t = {} THEN 0 ELSE n[Any(t)] + H[t \ {Any(t)}]]
    BY <2>2, <2>3
  <2> QED
    BY <2>4 DEF H
<1>8. Folds(n, h, s)
  <2> HIDE DEF h
  <2> QED
    BY <1>7 DEF Folds
<1> QED
  BY <1>2, <1>8

LEMMA SumStep ==
    ASSUME NEW n, NEW S, IsFiniteSet(S)
    PROVE  Sum(n, S) = IF S = {} THEN 0 ELSE n[Any(S)] + Sum(n, S \ {Any(S)})
<1> DEFINE Fold(T) == CHOOSE f : Folds(n, f, T)
<1>1. \A T : Sum(n, T) = Fold(T)[T]
  BY DEF Sum, MapThenSumSet, MapThenFoldSet, Folds, Any
<1>2. ASSUME NEW T, IsFiniteSet(T) PROVE Folds(n, Fold(T), T)
  BY <1>2, FoldExists
<1> HIDE DEF Fold
<1>3. Fold(S)[S] = IF S = {} THEN 0 ELSE n[Any(S)] + Fold(S)[S \ {Any(S)}]
  BY <1>2 DEF Folds
<1>4. ASSUME S # {} PROVE Fold(S)[S \ {Any(S)}] = Fold(S \ {Any(S)})[S \ {Any(S)}]
  <2>1. IsFiniteSet(S \ {Any(S)})
    BY FS_Subset
  <2> QED
    BY <1>2, <2>1, FoldUnique
<1> QED
  BY <1>1, <1>3, <1>4

LEMMA SumInt ==
    ASSUME NEW n, NEW S, IsFiniteSet(S), \A c \in S : n[c] \in Int
    PROVE  Sum(n, S) \in Int
<1> DEFINE Bad == {s \in SUBSET S : Sum(n, s) \notin Int}
<1> SUFFICES ASSUME Bad # {} PROVE FALSE
  OBVIOUS
<1>1. Bad \in SUBSET FiniteSubsetsOf(S)
  BY SubsetsFinite
<1>2. PICK s \in Bad : \A t \in Bad : ~(t \subseteq s /\ t # s)
  <2> HIDE DEF Bad
  <2> QED
    BY <1>1, Smallest
<1>3. s # {} => Any(s) \in S /\ s \ {Any(s)} \notin Bad /\ s \ {Any(s)} \in SUBSET S
  BY <1>2, SubsetsFinite
<1>4. Sum(n, s) = IF s = {} THEN 0 ELSE n[Any(s)] + Sum(n, s \ {Any(s)})
  BY <1>2, SubsetsFinite, SumStep
<1> QED
  BY <1>2, <1>3, <1>4

LEMMA SumTake ==
    ASSUME NEW n, NEW S, IsFiniteSet(S), \A c \in S : n[c] \in Int, NEW c \in S
    PROVE  Sum(n, S) = n[c] + Sum(n, S \ {c})
<1> DEFINE Bad == {s \in SUBSET S : \E x \in s : Sum(n, s) # n[x] + Sum(n, s \ {x})}
<1> SUFFICES ASSUME Bad # {} PROVE FALSE
  OBVIOUS
<1>1. Bad \in SUBSET FiniteSubsetsOf(S)
  BY SubsetsFinite
<1>2. PICK s \in Bad : \A t \in Bad : ~(t \subseteq s /\ t # s)
  <2> HIDE DEF Bad
  <2> QED
    BY <1>1, Smallest
<1>3. PICK x \in s : Sum(n, s) # n[x] + Sum(n, s \ {x})
  BY <1>2
<1> DEFINE y == Any(s)
<1>4. y \in s /\ s \ {y} \notin Bad /\ s \ {x} \notin Bad
  <2>1. y \in s
    BY <1>3 DEF Any
  <2> HIDE DEF Bad, y
  <2> QED
    BY <1>2, <1>3, <2>1
<1>5. Sum(n, s) = n[y] + Sum(n, s \ {y})
  BY <1>2, <1>3, SubsetsFinite, SumStep
<1> HIDE DEF y
<1>6. x # y
  BY <1>3, <1>5
<1>7. Sum(n, s \ {y}) = n[x] + Sum(n, (s \ {y}) \ {x})
  BY <1>2, <1>4, <1>6
<1>8. Sum(n, s \ {x}) = n[y] + Sum(n, (s \ {x}) \ {y})
  BY <1>2, <1>3, <1>4, <1>6
<1>9. (s \ {y}) \ {x} = (s \ {x}) \ {y}
  OBVIOUS
<1>10. n[x] \in Int /\ n[y] \in Int /\ Sum(n, (s \ {x}) \ {y}) \in Int
  <2>1. (s \ {x}) \ {y} \in SUBSET S /\ x \in S /\ y \in S
    BY <1>2, <1>4
  <2> QED
    BY <2>1, SubsetsFinite, SumInt
<1>11. Sum(n, s) = n[y] + (n[x] + Sum(n, (s \ {x}) \ {y}))
  BY <1>5, <1>7, <1>9
<1>12. ASSUME NEW a \in Int, NEW b \in Int, NEW t \in Int PROVE b + (a + t) = a + (b + t)
  OBVIOUS
<1>13. Sum(n, s) = n[x] + (n[y] + Sum(n, (s \ {x}) \ {y}))
  BY <1>10, <1>11, <1>12, Zenon
<1> QED
  BY <1>3, <1>8, <1>13

-----------------------------------------------------------------------------
(* Periods. *)

(* Any numbers have a least: of the intervals up to them, the smallest. *)
LEMMA Least ==
    ASSUME NEW T \in SUBSET Nat, T # {}
    PROVE  \E m \in T : \A k \in T : m <= k
<1> DEFINE U == {0..t : t \in T}
<1>1. U \in SUBSET FiniteSubsetsOf(Nat) /\ U # {}
  <2>1. \A t \in T : 0..t \in FiniteSubsetsOf(Nat)
    BY FS_Interval DEF FiniteSubsetsOf
  <2> QED
    BY <2>1
<1> HIDE DEF U
<1>2. PICK u \in U : \A v \in U : ~(v \subseteq u /\ v # u)
  BY <1>1, Smallest
<1> USE DEF U
<1>3. PICK m \in T : u = 0..m
  OBVIOUS
<1>4. \A k \in T : k < m => 0..k \subseteq 0..m /\ 0..k # 0..m
  OBVIOUS
<1>5. \A k \in T : ~(k < m)
  BY <1>2, <1>3, <1>4
<1> QED
  BY <1>5

LEMMA LastPeriod ==
    ASSUME NEW S \in SUBSET Period, S # {}
    PROVE  Max(S) \in S /\ \A p \in S : p <= Max(S)
<1> DEFINE T == {Periods - p : p \in S}
<1>1. T \in SUBSET Nat /\ T # {}
  <2>1. \A p \in S : p \in Int /\ p <= Periods
    BY HistoryAssumption DEF Period
  <2>2. \A p \in S : Periods - p \in Nat
    BY <2>1, HistoryAssumption
  <2> QED
    BY <2>2
<1> HIDE DEF T
<1>2. PICK m \in T : \A k \in T : m <= k
  BY <1>1, Least
<1>3. PICK x \in S : m = Periods - x
  BY <1>2 DEF T
<1>4. ASSUME NEW y \in S PROVE x >= y
  <2>1. Periods - y \in T
    BY DEF T
  <2>2. Periods - x <= Periods - y
    BY <1>2, <1>3, <2>1
  <2> QED
    BY <2>2, HistoryAssumption DEF Period
<1>5. Max(S) \in S /\ \A y \in S : Max(S) >= y
  BY <1>4 DEF Max
<1> QED
  BY <1>5, HistoryAssumption DEF Period

LEMMA SumRange ==
    ASSUME NEW n \in [Period -> Int], NEW a \in Nat \ {0}, NEW p \in Nat, p <= Periods
    PROVE  /\ Sum(n, a..p) \in Int
           /\ a <= p => Sum(n, a..p) = Sum(n, a..(p - 1)) + n[p]
           /\ p < a => Sum(n, a..p) = 0
<1>1. IsFiniteSet(a..p)
  BY FS_Interval
<1>2. \A c \in a..p : n[c] \in Int
  BY HistoryAssumption DEF Period
<1>3. Sum(n, a..p) \in Int
  BY <1>1, <1>2, SumInt
<1>4. ASSUME a <= p PROVE Sum(n, a..p) = Sum(n, a..(p - 1)) + n[p]
  <2>1. p \in a..p /\ (a..p) \ {p} = a..(p - 1)
    BY <1>4
  <2>2. Sum(n, a..p) = n[p] + Sum(n, (a..p) \ {p})
    BY <1>1, <1>2, <2>1, SumTake
  <2>3. IsFiniteSet(a..(p - 1)) /\ \A c \in a..(p - 1) : n[c] \in Int
    BY <1>2, FS_Interval
  <2>4. Sum(n, a..(p - 1)) \in Int /\ n[p] \in Int
    BY <1>2, <2>1, <2>3, SumInt
  <2>5. Sum(n, a..p) = n[p] + Sum(n, a..(p - 1))
    BY <2>1, <2>2
  <2> QED
    BY <2>4, <2>5
<1>5. ASSUME p < a PROVE Sum(n, a..p) = 0
  <2>1. a..p = {}
    BY <1>5
  <2> QED
    BY <1>1, <2>1, SumStep
<1> QED
  BY <1>3, <1>4, <1>5

-----------------------------------------------------------------------------
(* The rows that build_rows_after computes. *)

First(base) == IF base = {} THEN 1 ELSE 1 + Max({r.period : r \in base})
Seed(inputs, base) ==
    IF base = {} THEN inputs.opening
    ELSE (CHOOSE r \in base : r.period = First(base) - 1).cumulative
RowFor(inputs, base, p) ==
    [period |-> p, net |-> inputs.net[p],
     cumulative |-> Seed(inputs, base) + Sum(inputs.net, First(base)..p),
     currency |-> inputs.currency]

LEMMA RowsAfterIs ==
    ASSUME NEW inputs, NEW base, NEW closed
    PROVE  RowsAfter(inputs, base, closed)
             = {RowFor(inputs, base, p) : p \in {q \in closed : q >= First(base)}}
BY Zenon DEF RowsAfter, RowFor, First, Seed, Sum

(* They begin after the last of the rows they go on from. *)
LEMMA BaseEnds ==
    ASSUME NEW base \in SUBSET Row
    PROVE  /\ First(base) \in Nat \ {0} /\ First(base) <= Periods + 1
           /\ \A r \in base : r.period < First(base)
           /\ base # {} => /\ \E r \in base : r.period = First(base) - 1
                           /\ Max({r.period : r \in base}) = First(base) - 1
<1> DEFINE S == {r.period : r \in base}
<1>1. CASE base = {}
  BY <1>1, HistoryAssumption DEF First
<1>2. CASE base # {}
  <2>1. S \in SUBSET Period /\ S # {}
    BY <1>2 DEF Row
  <2>2. /\ First(base) = 1 + Max(S)
        /\ \A r \in base : r.period \in S
        /\ \A p \in S : \E r \in base : r.period = p
    BY <1>2 DEF First
  <2> HIDE DEF S
  <2>3. Max(S) \in S /\ \A p \in S : p <= Max(S)
    BY <2>1, LastPeriod
  <2>4. Period \subseteq Nat \ {0} /\ \A p \in Period : p <= Periods
    BY HistoryAssumption DEF Period
  <2>5. PICK m \in Nat \ {0} : m = Max(S) /\ m \in S /\ m <= Periods
    BY <2>1, <2>3, <2>4
  <2>6. First(base) = 1 + m /\ First(base) - 1 = m
    BY <2>2, <2>5
  <2>7. /\ First(base) \in Nat \ {0} /\ First(base) <= Periods + 1
        /\ Max(S) = First(base) - 1
    BY <2>5, <2>6, HistoryAssumption
  <2>8. \E r \in base : r.period = First(base) - 1
    BY <2>2, <2>5, <2>6
  <2>9. ASSUME NEW r \in base PROVE r.period < First(base)
    <3>1. r.period \in Nat /\ r.period <= m
      BY <2>1, <2>2, <2>3, <2>4, <2>5
    <3> QED
      BY <3>1, <2>6, <2>5
  <2> QED
    BY <1>2, <2>7, <2>8, <2>9 DEF S
<1> QED
  BY <1>1, <1>2

LEMMA SeedIs ==
    ASSUME NEW inputs \in Inputs, NEW base \in SUBSET Row
    PROVE  /\ Seed(inputs, base) \in Int
           /\ base # {} => \E r \in base : /\ r.period = First(base) - 1
                                           /\ Seed(inputs, base) = r.cumulative
<1>1. CASE base = {}
  BY <1>1 DEF Seed, Inputs
<1>2. CASE base # {}
  <2> DEFINE c == CHOOSE r \in base : r.period = First(base) - 1
  <2>1. c \in base /\ c.period = First(base) - 1
    BY <1>2, BaseEnds
  <2>2. Seed(inputs, base) = c.cumulative
    BY <1>2 DEF Seed
  <2> HIDE DEF c
  <2> QED
    BY <2>1, <2>2 DEF Row
<1> QED
  BY <1>1, <1>2

LEMMA RowForTyped ==
    ASSUME NEW inputs \in Inputs, NEW base \in SUBSET Row, NEW p \in Period
    PROVE  RowFor(inputs, base, p) \in Row
<1>1. First(base) \in Nat \ {0} /\ Seed(inputs, base) \in Int
  BY BaseEnds, SeedIs
<1>2. inputs.net \in [Period -> Int] /\ inputs.currency \in Int
  BY DEF Inputs
<1>3. p \in Nat /\ p <= Periods
  BY HistoryAssumption DEF Period
<1>4. Sum(inputs.net, First(base)..p) \in Int
  BY <1>1, <1>2, <1>3, SumRange
<1> QED
  BY <1>1, <1>2, <1>4 DEF RowFor, Row

LEMMA RowsAfterTyped ==
    ASSUME NEW inputs \in Inputs, NEW base \in SUBSET Row, NEW closed \in SUBSET Period
    PROVE  /\ RowsAfter(inputs, base, closed) \in SUBSET Row
           /\ OneRowEach(RowsAfter(inputs, base, closed))
           /\ \A r \in RowsAfter(inputs, base, closed) :
                 r.period \in closed /\ r.period >= First(base)
<1>1. \A p : RowFor(inputs, base, p).period = p
  BY DEF RowFor
<1>2. \A p \in Period : RowFor(inputs, base, p) \in Row
  BY RowForTyped
<1>3. RowsAfter(inputs, base, closed)
        = {RowFor(inputs, base, p) : p \in {q \in closed : q >= First(base)}}
  BY RowsAfterIs
<1> DEFINE R == RowsAfter(inputs, base, closed)
<1> HIDE DEF R
<1>4. ASSUME NEW r \in R
      PROVE  r \in Row /\ r.period \in closed /\ r.period >= First(base)
                      /\ r = RowFor(inputs, base, r.period)
  <2>1. PICK p \in closed : p >= First(base) /\ r = RowFor(inputs, base, p)
    BY <1>3, <1>4, Zenon DEF R
  <2> QED
    BY <1>1, <1>2, <2>1
<1> QED
  BY <1>4 DEF OneRowEach, R

-----------------------------------------------------------------------------
(* What each step does to its process; types are kept. *)

LEMMA Idle ==
    /\ IdleProc \in ProcState /\ NoDay \in Int
    /\ IdleProc.pc = "idle" /\ IdleProc.sync = "append"
    /\ ~IdleProc.step /\ ~IdleProc.created /\ Owes(IdleProc) = NoDay
<1>1. NoInputs \in Inputs
  BY DEF NoInputs, Inputs
<1>2. NoDay \in Int
  BY HistoryAssumption DEF NoDay, PayDate
<1>3. IdleProc \in ProcState
  BY <1>1, <1>2 DEF IdleProc, ProcState
<1>4. /\ IdleProc.pc = "idle" /\ IdleProc.sync = "append"
      /\ ~IdleProc.step /\ ~IdleProc.created
  BY DEF IdleProc
<1> QED
  BY <1>2, <1>3, <1>4, Zenon DEF Owes

(* What a process owes is its date or nothing. *)
LEMMA OwesDate ==
    ASSUME NEW s \in ProcState
    PROVE  /\ s.date \in Int /\ Owes(s) \in Int
           /\ Owes(s) = s.date \/ Owes(s) = NoDay
<1>1. s.date \in Int /\ NoDay \in Int
  BY Idle DEF ProcState
<1>2. Owes(s) = s.date \/ Owes(s) = NoDay
  BY Zenon DEF Owes
<1> QED
  BY <1>1, <1>2

LEMMA SameOwes ==
    ASSUME NEW s, NEW o, s.sync = o.sync, s.date = o.date, s.step = o.step, s.created = o.created
    PROVE  Owes(s) = Owes(o)
BY Zenon DEF Owes

LEMMA MissTyped ==
    ASSUME HistoryTyped, NEW p \in Procs, Miss(proc[p])
    PROVE  missed' \in Int
<1>1. Owes(proc[p]) \in Int
  BY OwesDate DEF HistoryTyped
<1>2. missed' = Owes(proc[p]) \/ missed' = missed
  BY Zenon DEF Miss
<1> QED
  BY <1>1, <1>2 DEF HistoryTyped

LEMMA KeptRows ==
    ASSUME HistoryTyped, NEW s \in ProcState
    PROVE  Kept(s) \in SUBSET Row /\ Kept(s) \subseteq history
<1>1. s.sync \in {"append", "from", "rebuild"}
  BY DEF ProcState
<1>2. \/ Kept(s) = {} \/ Kept(s) = history
      \/ Kept(s) = {r \in history : PayDate(r.period) < s.date}
  BY <1>1 DEF Kept
<1> QED
  BY <1>2 DEF HistoryTyped

Moves(p, s) ==
    /\ HistoryTyped'
    /\ proc'[p] = s /\ s \in ProcState
    /\ \A q \in Procs : q # p => proc'[q] = proc[q]

LEMMA MovesBy ==
    ASSUME HistoryTyped, NEW p \in Procs, NEW s \in ProcState, Goto(p, s),
           now' \in Nat, net' \in [Period -> Int], opening' \in Int, currency' \in Int,
           history' \in SUBSET Row, missed' \in Int, overlapped' \in BOOLEAN
    PROVE  Moves(p, s)
BY DEF HistoryTyped, Goto, Moves

LEMMA CommitTyped ==
    ASSUME HistoryTyped, NEW kind, NEW d, Commit(kind, d)
    PROVE  net' \in [Period -> Int] /\ opening' \in Int /\ currency' \in Int
BY DEF HistoryTyped, Commit

LEMMA ChangeMoves ==
    ASSUME HistoryTyped, NEW h \in Handlers, NEW kind, NEW d \in Dated, Change(h, kind, d)
    PROVE  \E s : /\ Moves(h, s)
                  /\ kind = "row" => s.pc = "check" /\ s.sync = "from" /\ s.date = d
                  /\ kind # "row" => s.pc = "inputs" /\ s.sync = "rebuild"
                  /\ kind = "opening" => s.date = 0
<1> DEFINE e == IF kind = "opening" THEN 0 ELSE NoDay
           a == [IdleProc EXCEPT !.pc = "check", !.sync = "from", !.date = d]
           b == [IdleProc EXCEPT !.pc = "inputs", !.sync = "rebuild", !.date = e]
           s == IF kind = "row" THEN a ELSE b
<1>1. Goto(h, s)
  BY DEF Change
<1>2. d \in Int /\ e \in Int /\ (kind = "opening" => e = 0)
  BY Idle DEF Dated
<1> HIDE DEF e
<1>3. a \in ProcState /\ a.pc = "check" /\ a.sync = "from" /\ a.date = d
  BY <1>2, Idle DEF ProcState
<1>4. b \in ProcState /\ b.pc = "inputs" /\ b.sync = "rebuild" /\ b.date = e
  BY <1>2, Idle DEF ProcState
<1> HIDE DEF a, b
<1>5. s \in ProcState
  BY <1>3, <1>4
<1>6. /\ kind = "row" => s.pc = "check" /\ s.sync = "from" /\ s.date = d
      /\ kind # "row" => s.pc = "inputs" /\ s.sync = "rebuild" /\ s.date = e
  BY <1>3, <1>4
<1> HIDE DEF s
<1>7. overlapped' \in BOOLEAN
  BY DEF Change, NoteOverlap, Busy, HistoryTyped
<1>8. Moves(h, s)
  BY <1>1, <1>5, <1>7, MovesBy, CommitTyped DEF Change, HistoryTyped, Procs
<1>9. kind = "opening" => s.date = 0
  BY <1>2, <1>6
<1> QED
  BY <1>6, <1>8, <1>9

LEMMA CheckMoves ==
    ASSUME HistoryTyped, NEW h \in Handlers, CheckFrozen(h)
    PROVE  \E s : /\ Moves(h, s)
                  /\ \/ /\ s = IdleProc
                        /\ \A r \in history : ~(proc[h].date <= PayDate(r.period))
                     \/ s.pc = "inputs" /\ s.sync = proc[h].sync /\ Owes(s) = Owes(proc[h])
<1> DEFINE o == proc[h]
           n == [o EXCEPT !.pc = "inputs"]
           any == \E p \in Frozen : o.date <= PayDate(p)
           s == IF any THEN n ELSE IdleProc
<1>1. o \in ProcState
  BY DEF HistoryTyped, Procs
<1>2. Goto(h, s)
  BY DEF CheckFrozen
<1>3. ~any => \A r \in history : ~(o.date <= PayDate(r.period))
  BY DEF Frozen
<1> HIDE DEF any, o
<1>4. /\ n \in ProcState /\ n.pc = "inputs" /\ n.sync = o.sync /\ n.date = o.date
      /\ n.step = o.step /\ n.created = o.created
  BY <1>1 DEF ProcState
<1> HIDE DEF n
<1>5. s \in ProcState
  BY <1>4, Idle
<1>6. \/ s = IdleProc /\ ~any
      \/ s.pc = "inputs" /\ s.sync = o.sync /\ Owes(s) = Owes(o)
  BY <1>4, SameOwes
<1> HIDE DEF s
<1>7. Moves(h, s)
  BY <1>2, <1>5, MovesBy DEF CheckFrozen, HistoryTyped, Procs, data, counts
<1> QED
  BY <1>3, <1>6, <1>7 DEF o

LEMMA LoadMoves ==
    ASSUME HistoryTyped, NEW p \in Procs, LoadInputs(p)
    PROVE  \E s : /\ Moves(p, s)
                  /\ s.pc = "list" /\ s.sync = proc[p].sync /\ Owes(s) = Owes(proc[p])
                  /\ s.inputs = Live
<1> DEFINE o == proc[p]
           i == Live
           s == [o EXCEPT !.pc = "list", !.inputs = i]
<1>1. o \in ProcState /\ i \in Inputs
  BY DEF HistoryTyped, Inputs, Live
<1>2. Goto(p, s)
  BY DEF LoadInputs, Live
<1> HIDE DEF o, i
<1>3. /\ s \in ProcState /\ s.pc = "list" /\ s.sync = o.sync /\ s.date = o.date
      /\ s.step = o.step /\ s.created = o.created /\ s.inputs = i
  BY <1>1 DEF ProcState
<1> HIDE DEF s
<1>4. Moves(p, s)
  BY <1>2, <1>3, MovesBy DEF LoadInputs, HistoryTyped, data, counts
<1> QED
  BY <1>3, <1>4, SameOwes DEF o, i

LEMMA ListMoves ==
    ASSUME HistoryTyped, NEW p \in Procs, ListHistory(p)
    PROVE  \E s : /\ Moves(p, s)
                  /\ s.pc = "delete" /\ s.raced = proc[p].raced /\ Owes(s) = Owes(proc[p])
                  /\ s.base = First(Kept(proc[p])) - 1
                  /\ s.rows = RowsAfter(proc[p].inputs, Kept(proc[p]), Closed)
<1> DEFINE o == proc[p]
           b == IF Kept(o) = {} THEN 0 ELSE Max({r.period : r \in Kept(o)})
           w == RowsAfter(o.inputs, Kept(o), Closed)
           s == [o EXCEPT !.pc = "delete", !.base = b, !.rows = w]
<1>1. o \in ProcState
  BY DEF HistoryTyped
<1>2. o.inputs \in Inputs
  BY <1>1 DEF ProcState
<1>3. Kept(o) \in SUBSET Row /\ Closed \in SUBSET Period
  BY <1>1, KeptRows DEF Closed, ClosedAt
<1>4. b \in Nat /\ b = First(Kept(o)) - 1
  <2>1. Kept(o) = {} => First(Kept(o)) = 1
    BY DEF First
  <2> QED
    BY <1>3, <2>1, BaseEnds
<1>5. w \in SUBSET Row
  BY <1>2, <1>3, RowsAfterTyped
<1>6. Goto(p, s)
  BY DEF ListHistory
<1> HIDE DEF o, b, w
<1>7. /\ s \in ProcState /\ s.pc = "delete" /\ s.raced = o.raced /\ s.base = b /\ s.rows = w
      /\ s.sync = o.sync /\ s.date = o.date /\ s.step = o.step /\ s.created = o.created
  BY <1>1, <1>4, <1>5 DEF ProcState
<1> HIDE DEF s
<1>8. Moves(p, s)
  BY <1>6, <1>7, MovesBy DEF ListHistory, HistoryTyped, data, counts
<1> QED
  BY <1>4, <1>7, <1>8, SameOwes DEF o, w

LEMMA DeleteMoves ==
    ASSUME HistoryTyped, NEW p \in Procs, DeleteAfter(p)
    PROVE  \E s : /\ Moves(p, s)
                  /\ s.pc = "commit" /\ s.base = proc[p].base /\ s.rows = proc[p].rows
                  /\ s.raced = {} /\ Owes(s) = Owes(proc[p])
<1> DEFINE o == proc[p]
           s == [o EXCEPT !.pc = "commit", !.raced = {}]
<1>1. o \in ProcState
  BY DEF HistoryTyped
<1>2. Goto(p, s)
  BY DEF DeleteAfter
<1> HIDE DEF o
<1>3. /\ s \in ProcState /\ s.pc = "commit" /\ s.base = o.base /\ s.rows = o.rows
      /\ s.sync = o.sync /\ s.date = o.date /\ s.step = o.step /\ s.created = o.created
      /\ s.raced = {}
  BY <1>1 DEF ProcState
<1> HIDE DEF s
<1>4. Moves(p, s)
  BY <1>2, <1>3, MovesBy DEF DeleteAfter, HistoryTyped, data, counts
<1> QED
  BY <1>3, <1>4, SameOwes DEF o

(* A commit moves the others too: rows have got past their deletes. *)
LEMMA CommitMoves ==
    ASSUME HistoryTyped, NEW p \in Procs, CommitRows(p)
    PROVE  /\ HistoryTyped'
           /\ proc'[p] = IdleProc
           /\ \A q \in Procs : q # p =>
                 /\ proc'[q].pc = proc[q].pc /\ proc'[q].sync = proc[q].sync
                 /\ proc'[q].date = proc[q].date /\ proc'[q].base = proc[q].base
                 /\ proc'[q].rows = proc[q].rows
                 /\ proc[q].pc = "idle" => proc'[q] = proc[q]
<1> DEFINE new == {r.period : r \in Inserted(proc[p])}
           raced(q) == [proc[q] EXCEPT !.raced = @ \cup new]
           s(q) == IF q = p THEN IdleProc ELSE IF proc[q].pc = "commit" THEN raced(q) ELSE proc[q]
<1>1. proc' = [q \in Procs |-> s(q)]
  BY DEF CommitRows
<1>2. \A q \in Procs : proc[q] \in ProcState
  BY DEF HistoryTyped
<1>3. proc[p].rows \in SUBSET Row
  BY <1>2 DEF ProcState
<1>4. Survivors(proc[p]) \in SUBSET Row /\ Inserted(proc[p]) \in SUBSET Row
  BY <1>3 DEF Survivors, Inserted, HistoryTyped
<1>5. new \in SUBSET Int
  BY <1>4, HistoryAssumption DEF Row, Period
<1> HIDE DEF new
<1>6. ASSUME NEW q \in Procs
      PROVE  /\ raced(q) \in ProcState
             /\ raced(q).pc = proc[q].pc /\ raced(q).sync = proc[q].sync
             /\ raced(q).date = proc[q].date /\ raced(q).base = proc[q].base
             /\ raced(q).rows = proc[q].rows
  <2> DEFINE o == proc[q]
  <2>1. o \in ProcState
    BY <1>2
  <2> HIDE DEF o
  <2>2. [o EXCEPT !.raced = @ \cup new] \in ProcState
    BY <1>5, <2>1 DEF ProcState
  <2>3. LET t == [o EXCEPT !.raced = @ \cup new]
        IN  /\ t.pc = o.pc /\ t.sync = o.sync /\ t.date = o.date /\ t.base = o.base
            /\ t.rows = o.rows
    BY <2>1 DEF ProcState
  <2> QED
    BY <2>2, <2>3 DEF o
<1> HIDE DEF raced
<1>7. \A q \in Procs : s(q) \in ProcState
  BY <1>2, <1>6, Idle
<1>8. proc' \in [Procs -> ProcState]
  <2> HIDE DEF s
  <2> QED
    BY <1>1, <1>7
<1>9. missed' \in Int
  BY Idle, Zenon DEF CommitRows, HistoryTyped
<1>10. HistoryTyped'
  BY <1>4, <1>8, <1>9 DEF CommitRows, HistoryTyped, data
<1> QED
  BY <1>1, <1>6, <1>10

LEMMA ClearMoves ==
    ASSUME HistoryTyped, NEW h \in Handlers, ClearHistory(h)
    PROVE  Moves(h, IdleProc)
BY Idle, MovesBy DEF ClearHistory, HistoryTyped, Procs, data

LEMMA ClearFailsMoves ==
    ASSUME HistoryTyped, NEW h \in Handlers, ClearFails(h)
    PROVE  Moves(h, IdleProc)
<1>1. missed' \in Int
  BY MissTyped DEF ClearFails, Procs
<1> QED
  BY <1>1, Idle, MovesBy DEF ClearFails, HistoryTyped, Procs, data

LEMMA FailMoves ==
    ASSUME HistoryTyped, NEW p \in Procs, SyncFails(p)
    PROVE  \/ Moves(p, IdleProc) /\ Miss(proc[p])
           \/ /\ missed' = missed
              /\ \E s : Moves(p, s) /\ s.pc = "clear" /\ Owes(s) = Owes(proc[p])
<1>1. CASE p = Job
  <2>1. Goto(p, IdleProc) /\ Miss(proc[p])
    BY <1>1 DEF SyncFails
  <2>2. missed' \in Int
    BY <2>1, MissTyped
  <2>3. Moves(p, IdleProc)
    BY <2>1, <2>2, Idle, MovesBy DEF SyncFails, HistoryTyped, data
  <2> QED
    BY <2>1, <2>3
<1>2. CASE p # Job
  <2> DEFINE o == proc[p]
             s == [o EXCEPT !.pc = "clear"]
  <2>1. Goto(p, s) /\ missed' = missed
    BY <1>2 DEF SyncFails
  <2>2. o \in ProcState
    BY DEF HistoryTyped
  <2> HIDE DEF o
  <2>3. /\ s \in ProcState /\ s.pc = "clear"
        /\ s.sync = o.sync /\ s.date = o.date /\ s.step = o.step /\ s.created = o.created
    BY <2>2 DEF ProcState
  <2> HIDE DEF s
  <2>4. Moves(p, s)
    BY <2>1, <2>3, MovesBy DEF SyncFails, HistoryTyped, data
  <2> QED
    BY <2>1, <2>3, <2>4, SameOwes DEF o
<1> QED
  BY <1>1, <1>2

LEMMA TimeoutMoves ==
    ASSUME HistoryTyped, NEW h \in Handlers, Timeout(h)
    PROVE  Moves(h, IdleProc)
<1>1. missed' \in Int
  BY MissTyped DEF Timeout, Procs
<1> QED
  BY <1>1, Idle, MovesBy DEF Timeout, HistoryTyped, Procs, data

LEMMA PassMoves ==
    ASSUME HistoryTyped, StartPass
    PROVE  \E s : Moves(Job, s) /\ s.pc = "charge" /\ s.sync = "append" /\ Owes(s) = NoDay
<1> DEFINE d == now - CatchUpDays
           i == IdleProc
           s == [i EXCEPT !.pc = "charge", !.date = d]
<1>1. d \in Int /\ i \in ProcState /\ i.sync = "append" /\ ~i.step /\ ~i.created
  BY Idle, HistoryAssumption DEF HistoryTyped
<1>2. Goto(Job, s)
  BY DEF StartPass
<1> HIDE DEF d, i
<1>3. s \in ProcState /\ s.pc = "charge" /\ s.sync = "append" /\ ~s.step /\ ~s.created
  BY <1>1 DEF ProcState
<1> HIDE DEF s
<1>4. overlapped' \in BOOLEAN
  BY DEF StartPass, NoteOverlap, Busy, HistoryTyped
<1>5. Moves(Job, s)
  BY <1>2, <1>3, <1>4, MovesBy DEF StartPass, HistoryTyped, Procs, data
<1>6. Owes(s) = NoDay
  BY <1>3, Zenon DEF Owes
<1> QED
  BY <1>3, <1>5, <1>6

LEMMA ChargeMoves ==
    ASSUME HistoryTyped, NEW d \in Dated, JobCharges(d)
    PROVE  \E s : /\ Moves(Job, s) /\ s.pc = "charge" /\ s.sync = proc[Job].sync
                  /\ Owes(s) = proc[Job].date
<1> DEFINE o == proc[Job]
           s == [o EXCEPT !.step = TRUE]
<1>1. o \in ProcState /\ o.pc = "charge"
  BY DEF HistoryTyped, Procs, JobCharges
<1>2. Goto(Job, s)
  BY DEF JobCharges
<1> HIDE DEF o
<1>3. s \in ProcState /\ s.pc = "charge" /\ s.sync = o.sync /\ s.date = o.date /\ s.step
  BY <1>1 DEF ProcState
<1> HIDE DEF s
<1>4. Moves(Job, s)
  BY <1>2, <1>3, MovesBy, CommitTyped DEF JobCharges, HistoryTyped, Procs
<1>5. Owes(s) = o.date
  BY <1>3, Zenon DEF Owes
<1> QED
  BY <1>3, <1>4, <1>5 DEF o

LEMMA StepEndsMoves ==
    ASSUME HistoryTyped, StepEnds
    PROVE  \E s : /\ Moves(Job, s) /\ s.pc = "charge" /\ s.sync = proc[Job].sync
                  /\ Owes(s) = Owes(proc[Job])
<1> DEFINE o == proc[Job]
           s == [o EXCEPT !.step = FALSE, !.created = TRUE]
<1>1. o \in ProcState /\ o.pc = "charge" /\ o.step
  BY DEF HistoryTyped, Procs, StepEnds
<1>2. Goto(Job, s)
  BY DEF StepEnds
<1> HIDE DEF o
<1>3. s \in ProcState /\ s.pc = "charge" /\ s.sync = o.sync /\ s.date = o.date /\ s.created
  BY <1>1 DEF ProcState
<1> HIDE DEF s
<1>4. Moves(Job, s)
  BY <1>2, <1>3, MovesBy DEF StepEnds, HistoryTyped, Procs, data, counts
<1>5. Owes(s) = s.date /\ Owes(o) = o.date
  BY <1>1, <1>3, Zenon DEF Owes
<1> QED
  BY <1>3, <1>4, <1>5 DEF o

LEMMA StepFailsMoves ==
    ASSUME HistoryTyped, StepFails
    PROVE  \E s : Moves(Job, s) /\ s.pc = "charge" /\ s.sync = proc[Job].sync
<1> DEFINE o == proc[Job]
           s == [o EXCEPT !.step = FALSE]
<1>1. o \in ProcState /\ o.pc = "charge"
  BY DEF HistoryTyped, Procs, StepFails
<1>2. Goto(Job, s)
  BY DEF StepFails
<1> HIDE DEF o
<1>3. s \in ProcState /\ s.pc = "charge" /\ s.sync = o.sync
  BY <1>1 DEF ProcState
<1> HIDE DEF s
<1>4. missed' \in Int
  BY MissTyped DEF StepFails, Procs
<1>5. Moves(Job, s)
  BY <1>2, <1>3, <1>4, MovesBy DEF StepFails, HistoryTyped, Procs, data
<1> QED
  BY <1>3, <1>5 DEF o

LEMMA JobMoves ==
    ASSUME HistoryTyped, JobSyncs
    PROVE  \E s : /\ Moves(Job, s) /\ s.pc = "inputs"
                  /\ proc[Job].sync = "append" => Owes(s) = Owes(proc[Job])
                  /\ s.sync = "append" => Owes(s) = NoDay
<1> DEFINE o == proc[Job]
           k == IF o.created THEN "from" ELSE "append"
           s == [o EXCEPT !.pc = "inputs", !.sync = k]
<1>1. o \in ProcState /\ ~o.step
  BY DEF HistoryTyped, Procs, JobSyncs
<1>2. Goto(Job, s)
  BY DEF JobSyncs
<1>3. k \in {"from", "append"} /\ (o.created => k = "from") /\ (~o.created => k = "append")
  OBVIOUS
<1> HIDE DEF o, k
<1>4. /\ s \in ProcState /\ s.pc = "inputs" /\ s.sync = k
      /\ s.date = o.date /\ s.step = o.step /\ s.created = o.created
  BY <1>1, <1>3 DEF ProcState
<1> HIDE DEF s
<1>5. Moves(Job, s)
  BY <1>2, <1>4, MovesBy DEF JobSyncs, HistoryTyped, Procs, data, counts
<1>6. CASE o.created
  <2>1. Owes(s) = s.date /\ Owes(o) = o.date
    BY <1>4, <1>6, Zenon DEF Owes
  <2> QED
    BY <1>3, <1>4, <1>5, <1>6, <2>1 DEF o
<1>7. CASE ~o.created
  <2>1. o.sync = "append" => Owes(o) = NoDay
    BY <1>1, <1>7, Zenon DEF Owes
  <2>2. Owes(s) = NoDay
    BY <1>1, <1>3, <1>4, <1>7, Zenon DEF Owes
  <2> QED
    BY <1>3, <1>4, <1>5, <1>7, <2>1, <2>2 DEF o
<1> QED
  BY <1>6, <1>7

LEMMA DieMoves ==
    ASSUME HistoryTyped, PassDies
    PROVE  Moves(Job, IdleProc)
<1>1. missed' \in Int
  BY MissTyped DEF PassDies, Procs
<1> QED
  BY <1>1, Idle, MovesBy DEF PassDies, HistoryTyped, Procs, data

LEMMA TickMoves ==
    ASSUME HistoryTyped, Tick \/ UNCHANGED vars
    PROVE  HistoryTyped'
BY DEF HistoryTyped, Tick, vars, data, counts

LEMMA TypesKept ==
    ASSUME HistoryTyped, [Next]_vars
    PROVE  HistoryTyped'
<1>1. CASE \E h \in Handlers, kind \in Changes, d \in Dated : Change(h, kind, d)
  BY <1>1, ChangeMoves DEF Moves
<1>2. CASE \E h \in Handlers : CheckFrozen(h) \/ ClearHistory(h) \/ ClearFails(h) \/ Timeout(h)
  BY <1>2, CheckMoves, ClearMoves, ClearFailsMoves, TimeoutMoves DEF Moves
<1>3. CASE \E p \in Procs : Sync(p)
  BY <1>3, LoadMoves, ListMoves, DeleteMoves, CommitMoves DEF Moves, Sync
<1>4. CASE \E p \in Procs : SyncFails(p)
  BY <1>4, FailMoves DEF Moves
<1>5. CASE StartPass \/ JobSyncs \/ \E d \in Dated : JobCharges(d)
  BY <1>5, PassMoves, JobMoves, ChargeMoves DEF Moves
<1>6. CASE StepEnds \/ StepFails \/ PassDies
  BY <1>6, StepEndsMoves, StepFailsMoves, DieMoves DEF Moves
<1>7. CASE Tick \/ UNCHANGED vars
  BY <1>7, TickMoves
<1> QED
  BY <1>1, <1>2, <1>3, <1>4, <1>5, <1>6, <1>7 DEF Next

-----------------------------------------------------------------------------
(* Only periods that have closed are frozen, each once. *)

LEMMA PayDates ==
    ASSUME NEW p \in Int
    PROVE  PayDate(p) \in Int /\ \A q \in Int : p < q => PayDate(p) + PeriodDays <= PayDate(q)
<1>1. PeriodDays \in Nat \ {0}
  BY HistoryAssumption
<1>2. PayDate(p) \in Int
  BY <1>1 DEF PayDate
<1>3. ASSUME NEW q \in Int, p < q PROVE PayDate(p) + PeriodDays <= PayDate(q)
  <2>1. (p + 1) * PeriodDays <= q * PeriodDays
    BY <1>1, <1>3
  <2>2. (p + 1) * PeriodDays = p * PeriodDays + PeriodDays
    BY <1>1
  <2> QED
    BY <2>1, <2>2 DEF PayDate
<1> QED
  BY <1>2, <1>3

LEMMA PayDatesUpTo ==
    ASSUME NEW p \in Int, NEW q \in Int, p <= q
    PROVE  PayDate(p) \in Int /\ PayDate(q) \in Int /\ PayDate(p) <= PayDate(q)
<1>1. PayDate(p) \in Int /\ PayDate(q) \in Int /\ PeriodDays \in Nat
  BY PayDates, HistoryAssumption
<1>2. p < q => PayDate(p) + PeriodDays <= PayDate(q)
  BY PayDates
<1>3. p = q => PayDate(p) = PayDate(q)
  OBVIOUS
<1> QED
  BY <1>1, <1>2, <1>3

LEMMA RowDates ==
    ASSUME HistoryTyped, NEW rows \in SUBSET Row, Past(rows), now' \in Int, now <= now',
           NEW r \in rows
    PROVE  PayDate(r.period) < now' - 1
<1>1. PayDate(r.period) \in Int
  BY PayDates, HistoryAssumption DEF Row, Period
<1> QED
  BY <1>1 DEF Past, HistoryTyped

LEMMA PastMoves ==
    ASSUME HistoryTyped, RowsPast, NEW p \in Procs, NEW s, Moves(p, s),
           now' = now, history' = history \/ history' = {},
           s.pc \in {"delete", "commit"} => OneRowEach(s.rows) /\ Past(s.rows)
    PROVE  RowsPast'
<1>1. OneRowEach(history)' /\ Past(history)'
  BY DEF RowsPast, OneRowEach, Past
<1>2. ASSUME NEW q \in Procs, Writing(q)'
      PROVE  OneRowEach(proc[q].rows)' /\ Past(proc[q].rows)'
  <2>1. CASE q = p
    <3>1. proc'[q] = s
      BY <2>1 DEF Moves
    <3>2. s.pc \in {"delete", "commit"}
      BY <1>2, <3>1 DEF Writing
    <3> QED
      BY <3>1, <3>2 DEF OneRowEach, Past
  <2>2. CASE q # p
    <3>1. proc'[q] = proc[q]
      BY <2>2 DEF Moves
    <3>2. Writing(q)
      BY <1>2, <3>1 DEF Writing
    <3> QED
      BY <3>1, <3>2 DEF RowsPast, OneRowEach, Past
  <2> QED
    BY <2>1, <2>2
<1> QED
  BY <1>1, <1>2 DEF RowsPast

LEMMA PastCommit ==
    ASSUME HistoryTyped, RowsPast, NEW p \in Procs, CommitRows(p)
    PROVE  RowsPast'
<1> DEFINE o == proc[p]
<1>1. OneRowEach(o.rows) /\ Past(o.rows) /\ OneRowEach(history) /\ Past(history)
  BY DEF RowsPast, Writing, CommitRows
<1>2. history' = Survivors(o) \cup Inserted(o) /\ now' = now
  BY DEF CommitRows
<1>3. /\ Survivors(o) \subseteq history /\ Inserted(o) \subseteq o.rows
      /\ \A a \in Inserted(o), b \in Survivors(o) : b.period # a.period
  BY DEF Survivors, Inserted
<1>4. OneRowEach(history)' /\ Past(history)'
  <2> HIDE DEF o
  <2>1. \A r \in history' : PayDate(r.period) < now - 1
    BY <1>1, <1>2, <1>3 DEF Past
  <2>2. \A r, s \in history' : r.period = s.period => r = s
    BY <1>1, <1>2, <1>3 DEF OneRowEach
  <2> QED
    BY <1>2, <2>1, <2>2 DEF OneRowEach, Past
<1>5. ASSUME NEW q \in Procs, Writing(q)'
      PROVE  OneRowEach(proc[q].rows)' /\ Past(proc[q].rows)'
  <2>1. q # p
    BY <1>5, CommitMoves, Idle DEF Writing
  <2>2. proc'[q].pc = proc[q].pc /\ proc'[q].rows = proc[q].rows
    BY <2>1, CommitMoves
  <2>3. Writing(q)
    BY <1>5, <2>2 DEF Writing
  <2> QED
    BY <1>2, <2>2, <2>3 DEF RowsPast, OneRowEach, Past
<1> QED
  BY <1>4, <1>5 DEF RowsPast

LEMMA PastList ==
    ASSUME HistoryTyped, NEW p \in Procs
    PROVE  LET rows == RowsAfter(proc[p].inputs, Kept(proc[p]), Closed)
           IN  OneRowEach(rows) /\ Past(rows)
<1> DEFINE o == proc[p]
           w == RowsAfter(o.inputs, Kept(o), Closed)
<1>1. o \in ProcState /\ o.inputs \in Inputs
  BY DEF HistoryTyped, ProcState
<1>2. Kept(o) \in SUBSET Row /\ Closed \in SUBSET Period
  BY <1>1, KeptRows DEF Closed, ClosedAt
<1>3. OneRowEach(w) /\ \A r \in w : r.period \in Closed
  BY <1>1, <1>2, RowsAfterTyped
<1> HIDE DEF w
<1>4. \A r \in w : PayDate(r.period) < now - 1
  BY <1>3 DEF Closed, ClosedAt
<1> QED
  BY <1>3, <1>4 DEF Past, w

LEMMA RowsPastKept ==
    ASSUME HistoryTyped, RowsPast, [Next]_vars
    PROVE  RowsPast'
<1> USE DEF data
<1>1. CASE \E h \in Handlers, kind \in Changes, d \in Dated : Change(h, kind, d)
  <2>1. PICK h \in Handlers, kind \in Changes, d \in Dated : Change(h, kind, d)
    BY <1>1
  <2>2. PICK s : Moves(h, s) /\ s.pc \in {"check", "inputs"}
    BY <2>1, ChangeMoves
  <2> QED
    BY <2>1, <2>2, PastMoves DEF Change, Procs
<1>2. CASE \E h \in Handlers : CheckFrozen(h)
  <2>1. PICK h \in Handlers : CheckFrozen(h)
    BY <1>2
  <2>2. PICK s : Moves(h, s) /\ s.pc \in {"idle", "inputs"}
    BY <2>1, CheckMoves, Idle
  <2> QED
    BY <2>1, <2>2, PastMoves DEF CheckFrozen, Procs
<1>3. CASE \E h \in Handlers : ClearHistory(h) \/ ClearFails(h) \/ Timeout(h)
  <2>1. PICK h \in Handlers : ClearHistory(h) \/ ClearFails(h) \/ Timeout(h)
    BY <1>3
  <2>2. Moves(h, IdleProc)
    BY <2>1, ClearMoves, ClearFailsMoves, TimeoutMoves
  <2> QED
    BY <2>1, <2>2, Idle, PastMoves DEF ClearHistory, ClearFails, Timeout, Procs
<1>4. CASE \E p \in Procs : LoadInputs(p)
  <2>1. PICK p \in Procs : LoadInputs(p)
    BY <1>4
  <2>2. PICK s : Moves(p, s) /\ s.pc = "list"
    BY <2>1, LoadMoves
  <2> QED
    BY <2>1, <2>2, PastMoves DEF LoadInputs
<1>5. CASE \E p \in Procs : ListHistory(p)
  <2>1. PICK p \in Procs : ListHistory(p)
    BY <1>5
  <2>2. PICK s : Moves(p, s) /\ s.rows = RowsAfter(proc[p].inputs, Kept(proc[p]), Closed)
    BY <2>1, ListMoves
  <2>3. OneRowEach(s.rows) /\ Past(s.rows)
    BY <2>2, PastList
  <2> QED
    BY <2>1, <2>2, <2>3, PastMoves DEF ListHistory
<1>6. CASE \E p \in Procs : DeleteAfter(p)
  <2>1. PICK p \in Procs : DeleteAfter(p)
    BY <1>6
  <2>2. PICK s : Moves(p, s) /\ s.rows = proc[p].rows
    BY <2>1, DeleteMoves
  <2>3. OneRowEach(s.rows) /\ Past(s.rows)
    BY <2>1, <2>2 DEF RowsPast, Writing, DeleteAfter
  <2> QED
    BY <2>1, <2>2, <2>3, PastMoves DEF DeleteAfter
<1>7. CASE \E p \in Procs : CommitRows(p)
  BY <1>7, PastCommit
<1>8. CASE \E p \in Procs : SyncFails(p)
  <2>1. PICK p \in Procs : SyncFails(p)
    BY <1>8
  <2>2. PICK s : Moves(p, s) /\ s.pc \in {"clear", "idle"}
    BY <2>1, FailMoves, Idle
  <2> QED
    BY <2>1, <2>2, PastMoves DEF SyncFails
<1>9. CASE StartPass \/ StepEnds \/ StepFails \/ JobSyncs \/ PassDies \/ \E d \in Dated : JobCharges(d)
  <2>1. PICK s : Moves(Job, s) /\ s.pc \in {"charge", "inputs", "idle"}
    BY <1>9, PassMoves, StepEndsMoves, StepFailsMoves, JobMoves, DieMoves, ChargeMoves, Idle
  <2> QED
    BY <1>9, <2>1, PastMoves
    DEF StartPass, StepEnds, StepFails, JobSyncs, PassDies, JobCharges, Procs
<1>10. CASE Tick
  <2>1. now' \in Int /\ now <= now' /\ history' = history /\ proc' = proc
    BY <1>10 DEF Tick, HistoryTyped
  <2>2. \A r \in history : PayDate(r.period) < now' - 1
    BY <2>1, RowDates DEF RowsPast, HistoryTyped
  <2>3. \A p \in Procs : Writing(p) => \A r \in proc[p].rows : PayDate(r.period) < now' - 1
    <3>1. \A p \in Procs : proc[p].rows \in SUBSET Row
      BY DEF HistoryTyped, ProcState
    <3> QED
      BY <2>1, <3>1, RowDates DEF RowsPast
  <2> QED
    BY <2>1, <2>2, <2>3 DEF RowsPast, OneRowEach, Past, Writing
<1>11. CASE UNCHANGED vars
  BY <1>11 DEF vars, RowsPast, OneRowEach, Past, Writing
<1> QED
  BY <1>1, <1>2, <1>3, <1>4, <1>5, <1>6, <1>7, <1>8, <1>9, <1>10, <1>11 DEF Next, Sync

-----------------------------------------------------------------------------
(* The history goes on without gaps. *)

(* What a sync keeps are the rows up to its base. *)
LEMMA KeptUpTo ==
    ASSUME HistoryTyped, NEW s \in ProcState
    PROVE  Kept(s) = UpTo(First(Kept(s)) - 1)
<1> DEFINE k == Kept(s)
           b == First(k) - 1
<1>1. k \in SUBSET Row /\ k \subseteq history
  BY KeptRows
<1>2. s.sync \in {"append", "from", "rebuild"} /\ s.date \in Int
  BY DEF ProcState
<1>3. \/ k = {} \/ k = history
      \/ k = {r \in history : PayDate(r.period) < s.date}
  BY <1>2 DEF Kept
<1>4. b \in Int /\ \A r \in k : r.period <= b
  <2>1. \A r \in k : r.period \in Int
    BY <1>1, HistoryAssumption DEF Row, Period
  <2> HIDE DEF k
  <2>2. First(k) \in Nat \ {0} /\ \A r \in k : r.period < First(k)
    BY <1>1, BaseEnds
  <2> QED
    BY <2>1, <2>2
<1>5. ASSUME NEW r \in history, r.period <= b
      PROVE  r \in k
  <2>1. r.period \in Int /\ r.period >= 1
    BY HistoryAssumption DEF HistoryTyped, Row, Period
  <2>2. CASE k = {}
    BY <1>5, <2>1, <2>2 DEF First
  <2>3. CASE k = {a \in history : PayDate(a.period) < s.date} /\ k # {}
    <3>1. PICK a \in k : a.period = b
      BY <1>1, <2>3, BaseEnds
    <3>2. PayDate(a.period) < s.date
      BY <2>3
    <3>3. /\ PayDate(r.period) \in Int /\ PayDate(a.period) \in Int
          /\ PayDate(r.period) <= PayDate(a.period)
      BY <1>4, <1>5, <2>1, <3>1, PayDatesUpTo
    <3>4. PayDate(r.period) < s.date
      BY <1>2, <3>2, <3>3
    <3> QED
      BY <2>3, <3>4
  <2> QED
    BY <1>3, <2>2, <2>3
<1> HIDE DEF k, b
<1>6. k = {r \in history : r.period <= b}
  BY <1>1, <1>4, <1>5
<1> QED
  BY <1>6 DEF UpTo, k, b

LEMMA ChainList ==
    ASSUME HistoryTyped, Chain(history), NEW p \in Procs
    PROVE  LET k    == Kept(proc[p])
               base == First(k) - 1
               rows == RowsAfter(proc[p].inputs, k, Closed)
           IN  /\ \A r \in rows : r.period > base
               /\ Chain(UpTo(base) \cup rows)
<1> DEFINE o == proc[p]
           i == o.inputs
           k == Kept(o)
           f == First(k)
           w == RowsAfter(i, k, Closed)
<1>1. o \in ProcState /\ i \in Inputs /\ i.net \in [Period -> Int]
  BY DEF HistoryTyped, ProcState, Inputs
<1>2. k \in SUBSET Row /\ Closed \in SUBSET Period
  BY <1>1, KeptRows DEF Closed, ClosedAt
<1>3. k = UpTo(f - 1)
  BY <1>1, KeptUpTo
<1>4. /\ f \in Nat \ {0} /\ f <= Periods + 1
      /\ Seed(i, k) \in Int
      /\ k # {} => \E b \in k : b.period = f - 1 /\ Seed(i, k) = b.cumulative
      /\ k = {} => f = 1
  BY <1>1, <1>2, BaseEnds, SeedIs DEF First
<1>5. /\ w = {RowFor(i, k, q) : q \in {c \in Closed : c >= f}}
      /\ \A r \in w : r.period \in Closed /\ r.period >= f
  BY <1>1, <1>2, RowsAfterIs, RowsAfterTyped
<1>6. ASSUME NEW q \in Closed, q - 1 >= f
      PROVE  q - 1 \in Closed
  <2>0. q \in Period /\ PayDate(q) < now - 1
    BY DEF Closed, ClosedAt
  <2>1. q \in Int /\ q - 1 \in Int /\ q - 1 \in Period
    <3> HIDE DEF f
    <3> QED
      BY <1>4, <1>6, <2>0, HistoryAssumption DEF Period
  <2>2. /\ PayDate(q - 1) \in Int /\ PayDate(q) \in Int
        /\ PayDate(q - 1) <= PayDate(q)
    BY <2>1, PayDatesUpTo
  <2>3. PayDate(q - 1) < now - 1
    BY <2>0, <2>2 DEF HistoryTyped
  <2> QED
    BY <2>1, <2>3 DEF Closed, ClosedAt
<1>7. ASSUME NEW q \in Closed, q >= f
      PROVE  Sum(i.net, f..q) = Sum(i.net, f..(q - 1)) + i.net[q]
             /\ Sum(i.net, f..(q - 1)) \in Int /\ i.net[q] \in Int
             /\ (q = f => Sum(i.net, f..(q - 1)) = 0)
  <2>1. q \in Period /\ q \in Nat /\ q - 1 \in Nat /\ q <= Periods /\ q - 1 <= Periods
    BY <1>2, HistoryAssumption DEF Period
  <2> DEFINE n == i.net
  <2>2. n \in [Period -> Int] /\ n[q] \in Int
    BY <1>1, <2>1
  <2> HIDE DEF n, f
  <2>3. Sum(n, f..q) = Sum(n, f..(q - 1)) + n[q]
    BY <1>4, <1>7, <2>1, <2>2, SumRange
  <2>4. Sum(n, f..(q - 1)) \in Int /\ (q - 1 < f => Sum(n, f..(q - 1)) = 0)
    BY <1>4, <2>1, <2>2, SumRange
  <2> QED
    BY <1>4, <2>1, <2>2, <2>3, <2>4 DEF n
<1> HIDE DEF i, k, f, w
<1>8. ASSUME NEW r \in w, r.period > 1
      PROVE  \E b \in k \cup w : b.period = r.period - 1 /\ r.cumulative = b.cumulative + r.net
  <2>1. PICK q \in Closed : q >= f /\ r = RowFor(i, k, q)
    BY <1>5
  <2>2. /\ r.period = q /\ r.net = i.net[q]
        /\ r.cumulative = Seed(i, k) + Sum(i.net, f..q)
    BY <2>1 DEF RowFor, f
  <2>3. q \in Int
    BY <1>2, HistoryAssumption DEF Period
  <2>4. CASE q = f
    <3>0. k # {}
      BY <1>4, <1>8, <2>2, <2>3, <2>4
    <3>1. PICK b \in k : b.period = f - 1 /\ Seed(i, k) = b.cumulative
      BY <1>4, <3>0
    <3>2. /\ Sum(i.net, f..q) = Sum(i.net, f..(q - 1)) + i.net[q]
          /\ i.net[q] \in Int /\ Sum(i.net, f..(q - 1)) = 0
      BY <1>7, <2>1, <2>4
    <3>3. Sum(i.net, f..q) = i.net[q]
      BY <3>2
    <3>4. r.cumulative = b.cumulative + r.net
      BY <2>2, <3>1, <3>3
    <3> QED
      BY <2>2, <2>4, <3>1, <3>4
  <2>5. CASE q # f
    <3>1. q - 1 >= f
      BY <1>4, <2>1, <2>3, <2>5
    <3>2. q - 1 \in Closed
      BY <1>6, <3>1
    <3> DEFINE b == RowFor(i, k, q - 1)
    <3>3. b \in w
      BY <1>5, <3>1, <3>2
    <3>4. b.period = q - 1 /\ b.cumulative = Seed(i, k) + Sum(i.net, f..(q - 1))
      BY DEF RowFor, f
    <3> HIDE DEF b
    <3>5. r.cumulative = b.cumulative + r.net
      BY <1>4, <1>7, <2>1, <2>2, <3>4
    <3> QED
      BY <2>2, <3>3, <3>4, <3>5
  <2> QED
    BY <2>4, <2>5
<1>9. ASSUME NEW r \in k, r.period > 1
      PROVE  \E b \in k : b.period = r.period - 1 /\ r.cumulative = b.cumulative + r.net
  <2>1. r \in history /\ r.period <= f - 1
    BY <1>3 DEF UpTo
  <2>2. PICK b \in history : b.period = r.period - 1 /\ r.cumulative = b.cumulative + r.net
    BY <1>9, <2>1 DEF Chain
  <2>3. r.period \in Int
    BY <2>1, HistoryAssumption DEF HistoryTyped, Row, Period
  <2>4. b.period <= f - 1
    BY <1>4, <2>1, <2>2, <2>3
  <2>5. b \in k
    BY <1>3, <2>2, <2>4 DEF UpTo
  <2> QED
    BY <2>2, <2>5
<1>10. ASSUME NEW r \in w PROVE r.period > f - 1
  <2>1. r.period \in Closed /\ r.period >= f
    BY <1>5
  <2>2. \A q \in Closed : q \in Int
    BY <1>2, HistoryAssumption DEF Period
  <2> QED
    BY <1>4, <2>1, <2>2
<1>11. Chain(k \cup w)
  BY <1>8, <1>9 DEF Chain
<1>12. Chain(UpTo(f - 1) \cup w)
  BY <1>3, <1>11
<1> QED
  BY <1>10, <1>12 DEF i, k, f, w

LEMMA ChainMoves ==
    ASSUME ChainInv, NEW p \in Procs, NEW s, Moves(p, s), ~overlapped' => ~overlapped,
           ~overlapped' => \A q \in Procs : q # p => proc[q].pc = "idle",
           history' = history \/ history' = {},
           ~overlapped' =>
              /\ s.pc = "commit" => s.raced = {}
              /\ s.pc \in {"delete", "commit"} =>
                    /\ history' = history
                    /\ \A r \in s.rows : r.period > s.base
                    /\ Chain(UpTo(s.base) \cup s.rows)
    PROVE  ChainInv'
<1> SUFFICES ASSUME ~overlapped'
    PROVE  /\ OneBusy'
           /\ Chain(history)'
           /\ \A q \in Procs : (proc[q].pc = "commit" => proc[q].raced = {})'
           /\ \A q \in Procs : Writing(q)' =>
                 /\ \A r \in proc'[q].rows : r.period > proc'[q].base
                 /\ Chain(UpTo(proc[q].base) \cup proc[q].rows)'
  BY DEF ChainInv
<1>1. Chain(history)
  BY DEF ChainInv
<1>2. \A q \in Procs : q # p => proc'[q].pc = "idle"
  BY DEF Moves
<1>3. OneBusy'
  BY <1>2 DEF OneBusy
<1>4. Chain(history)'
  BY <1>1 DEF Chain
<1>5. proc'[p] = s
  BY DEF Moves
<1>6. \A q \in Procs : (proc[q].pc = "commit" => proc[q].raced = {})'
  BY <1>2, <1>5
<1>7. ASSUME NEW q \in Procs, Writing(q)'
      PROVE  /\ \A r \in proc'[q].rows : r.period > proc'[q].base
             /\ Chain(UpTo(proc[q].base) \cup proc[q].rows)'
  <2>1. q = p /\ s.pc \in {"delete", "commit"}
    BY <1>2, <1>5, <1>7 DEF Writing
  <2> QED
    BY <1>5, <2>1 DEF Chain, UpTo
<1> QED
  BY <1>3, <1>4, <1>6, <1>7

LEMMA CommitWrites ==
    ASSUME HistoryTyped, ChainInv, ~overlapped, NEW p \in Procs, CommitRows(p)
    PROVE  /\ \A q \in Procs : proc'[q].pc = "idle"
           /\ \A q \in Procs : q # p => proc[q].pc = "idle" /\ proc'[q] = proc[q]
           /\ proc'[p] = IdleProc
           /\ history' = UpTo(proc[p].base) \cup proc[p].rows
<1> DEFINE o == proc[p]
<1>1. \A q \in Procs : q # p => proc[q].pc = "idle"
  BY DEF ChainInv, OneBusy, CommitRows
<1>2. /\ \A q \in Procs : proc'[q].pc = "idle"
      /\ \A q \in Procs : q # p => proc[q].pc = "idle" /\ proc'[q] = proc[q]
      /\ proc'[p] = IdleProc
  BY <1>1, CommitMoves, Idle
<1>3. o.raced = {} /\ \A r \in o.rows : r.period > o.base
  BY DEF ChainInv, Writing, CommitRows
<1>4. history' = Survivors(o) \cup Inserted(o)
  BY DEF CommitRows
<1>5. o.base \in Int /\ \A r \in o.rows : r.period \in Int
  BY HistoryAssumption DEF HistoryTyped, ProcState, Row, Period
<1> HIDE DEF o
<1>6. Survivors(o) = UpTo(o.base)
  BY <1>3 DEF Survivors, UpTo
<1>7. Inserted(o) = o.rows
  <2>1. \A r \in o.rows, b \in UpTo(o.base) : b.period # r.period
    BY <1>3, <1>5 DEF UpTo
  <2> QED
    BY <1>6, <2>1 DEF Inserted
<1> QED
  BY <1>2, <1>4, <1>6, <1>7 DEF o

LEMMA ChainCommit ==
    ASSUME HistoryTyped, ChainInv, NEW p \in Procs, CommitRows(p)
    PROVE  ChainInv'
<1> SUFFICES ASSUME ~overlapped
    PROVE  /\ \A q \in Procs : proc'[q].pc = "idle"
           /\ Chain(history)'
  BY DEF ChainInv, OneBusy, Writing, CommitRows
<1>1. Chain(UpTo(proc[p].base) \cup proc[p].rows)
  BY DEF ChainInv, Writing, CommitRows
<1>2. /\ \A q \in Procs : proc'[q].pc = "idle"
      /\ history' = UpTo(proc[p].base) \cup proc[p].rows
  BY CommitWrites
<1> QED
  BY <1>1, <1>2 DEF Chain

LEMMA ChainKept ==
    ASSUME HistoryTyped, ChainInv, [Next]_vars
    PROVE  ChainInv'
<1> USE DEF data, counts
<1>1. ASSUME NEW p \in Procs, proc[p].pc # "idle", ~overlapped
      PROVE  \A q \in Procs : q # p => proc[q].pc = "idle"
  BY <1>1 DEF ChainInv, OneBusy
<1>2. NoteOverlap => (~overlapped' => ~overlapped /\ \A q \in Procs : proc[q].pc = "idle")
  BY DEF NoteOverlap, Busy
<1>3. CASE \E h \in Handlers, kind \in Changes, d \in Dated : Change(h, kind, d)
  <2>1. PICK h \in Handlers, kind \in Changes, d \in Dated : Change(h, kind, d)
    BY <1>3
  <2>2. PICK s : Moves(h, s) /\ s.pc \in {"check", "inputs"}
    BY <2>1, ChangeMoves
  <2> QED
    BY <1>2, <2>1, <2>2, ChainMoves DEF Change, Procs
<1>4. CASE \E h \in Handlers : CheckFrozen(h)
  <2>1. PICK h \in Handlers : CheckFrozen(h)
    BY <1>4
  <2>2. PICK s : Moves(h, s) /\ s.pc \in {"idle", "inputs"}
    BY <2>1, CheckMoves, Idle
  <2> QED
    BY <1>1, <2>1, <2>2, ChainMoves DEF CheckFrozen, Procs
<1>5. CASE \E h \in Handlers : ClearHistory(h) \/ ClearFails(h) \/ Timeout(h)
  <2>1. PICK h \in Handlers : ClearHistory(h) \/ ClearFails(h) \/ Timeout(h)
    BY <1>5
  <2>2. Moves(h, IdleProc)
    BY <2>1, ClearMoves, ClearFailsMoves, TimeoutMoves
  <2>3. proc[h].pc # "idle" /\ (history' = history \/ history' = {}) /\ overlapped' = overlapped
    BY <2>1 DEF ClearHistory, ClearFails, Timeout
  <2> QED
    BY <1>1, <2>2, <2>3, Idle, ChainMoves DEF Procs
<1>6. CASE \E p \in Procs : LoadInputs(p)
  <2>1. PICK p \in Procs : LoadInputs(p)
    BY <1>6
  <2>2. PICK s : Moves(p, s) /\ s.pc = "list"
    BY <2>1, LoadMoves
  <2> QED
    BY <1>1, <2>1, <2>2, ChainMoves DEF LoadInputs
<1>7. CASE \E p \in Procs : ListHistory(p)
  <2>1. PICK p \in Procs : ListHistory(p)
    BY <1>7
  <2>2. PICK s : /\ Moves(p, s) /\ s.pc = "delete"
                 /\ s.base = First(Kept(proc[p])) - 1
                 /\ s.rows = RowsAfter(proc[p].inputs, Kept(proc[p]), Closed)
    BY <2>1, ListMoves
  <2>3. ~overlapped =>
          (\A r \in s.rows : r.period > s.base) /\ Chain(UpTo(s.base) \cup s.rows)
    BY <2>2, ChainList DEF ChainInv
  <2>4. proc[p].pc # "idle" /\ history' = history /\ overlapped' = overlapped
    BY <2>1 DEF ListHistory
  <2> QED
    BY <1>1, <2>2, <2>3, <2>4, ChainMoves
<1>8. CASE \E p \in Procs : DeleteAfter(p)
  <2>1. PICK p \in Procs : DeleteAfter(p)
    BY <1>8
  <2>2. PICK s : /\ Moves(p, s) /\ s.raced = {}
                 /\ s.base = proc[p].base /\ s.rows = proc[p].rows
    BY <2>1, DeleteMoves
  <2>3. ~overlapped =>
          (\A r \in s.rows : r.period > s.base) /\ Chain(UpTo(s.base) \cup s.rows)
    BY <2>1, <2>2 DEF ChainInv, Writing, DeleteAfter
  <2>4. proc[p].pc # "idle" /\ history' = history /\ overlapped' = overlapped
    BY <2>1 DEF DeleteAfter
  <2> QED
    BY <1>1, <2>2, <2>3, <2>4, ChainMoves
<1>9. CASE \E p \in Procs : CommitRows(p)
  BY <1>9, ChainCommit
<1>10. CASE \E p \in Procs : SyncFails(p)
  <2>1. PICK p \in Procs : SyncFails(p)
    BY <1>10
  <2>2. PICK s : Moves(p, s) /\ s.pc \in {"clear", "idle"}
    BY <2>1, FailMoves, Idle
  <2>3. proc[p].pc # "idle" /\ history' = history /\ overlapped' = overlapped
    BY <2>1 DEF SyncFails, Syncing
  <2> QED
    BY <1>1, <2>2, <2>3, ChainMoves
<1>11. CASE StartPass \/ StepEnds \/ StepFails \/ JobSyncs \/ PassDies \/ \E d \in Dated : JobCharges(d)
  <2>1. PICK s : Moves(Job, s) /\ s.pc \in {"charge", "inputs", "idle"}
    BY <1>11, PassMoves, StepEndsMoves, StepFailsMoves, JobMoves, DieMoves, ChargeMoves, Idle
  <2>2. /\ history' = history
        /\ ~overlapped' => ~overlapped /\ \A q \in Procs : q # Job => proc[q].pc = "idle"
    BY <1>1, <1>2, <1>11
    DEF StartPass, StepEnds, StepFails, JobSyncs, PassDies, JobCharges, Procs
  <2> QED
    BY <2>1, <2>2, ChainMoves DEF Procs
<1>12. CASE Tick \/ UNCHANGED vars
  <2>1. history' = history /\ proc' = proc /\ overlapped' = overlapped
    BY <1>12 DEF Tick, vars
  <2> QED
    BY <2>1 DEF ChainInv, OneBusy, Chain, Writing, UpTo
<1> QED
  BY <1>3, <1>4, <1>5, <1>6, <1>7, <1>8, <1>9, <1>10, <1>11, <1>12 DEF Next, Sync

-----------------------------------------------------------------------------
(* The frozen rows are what a live computation says. *)

LEMMA SumSame ==
    ASSUME NEW n, NEW m, NEW S, IsFiniteSet(S), \A c \in S : n[c] = m[c]
    PROVE  Sum(n, S) = Sum(m, S)
<1> DEFINE Bad == {s \in SUBSET S : Sum(n, s) # Sum(m, s)}
<1> SUFFICES ASSUME Bad # {} PROVE FALSE
  OBVIOUS
<1>1. Bad \in SUBSET FiniteSubsetsOf(S)
  BY SubsetsFinite
<1>2. PICK s \in Bad : \A t \in Bad : ~(t \subseteq s /\ t # s)
  <2> HIDE DEF Bad
  <2> QED
    BY <1>1, Smallest
<1>3. s # {} => Any(s) \in S /\ s \ {Any(s)} \notin Bad /\ s \ {Any(s)} \in SUBSET S
  BY <1>2, SubsetsFinite
<1>4. /\ Sum(n, s) = IF s = {} THEN 0 ELSE n[Any(s)] + Sum(n, s \ {Any(s)})
      /\ Sum(m, s) = IF s = {} THEN 0 ELSE m[Any(s)] + Sum(m, s \ {Any(s)})
  BY <1>2, SubsetsFinite, SumStep
<1>5. s # {} => n[Any(s)] = m[Any(s)] /\ Sum(n, s \ {Any(s)}) = Sum(m, s \ {Any(s)})
  BY <1>3
<1>6. Sum(n, s) = Sum(m, s)
  BY <1>4, <1>5, Zenon
<1> QED
  BY <1>2, <1>6

(* The first periods and the next ones. *)
LEMMA SumSplit ==
    ASSUME NEW n \in [Period -> Int], NEW a \in Nat \ {0}, NEW p \in Nat, a - 1 <= p, p <= Periods
    PROVE  Sum(n, 1..p) = Sum(n, 1..(a - 1)) + Sum(n, a..p)
<1> DEFINE Holds(q) == Sum(n, 1..q) = Sum(n, 1..(a - 1)) + Sum(n, a..q)
           T == {q \in (a - 1)..p : ~Holds(q)}
<1> SUFFICES ASSUME T # {} PROVE FALSE
  OBVIOUS
<1>1. T \in SUBSET Nat
  OBVIOUS
<1>2. PICK q \in T : \A k \in T : q <= k
  <2> HIDE DEF T
  <2> QED
    BY <1>1, Least
<1>3. q \in Nat /\ a - 1 <= q /\ q <= p /\ q <= Periods /\ ~Holds(q)
  <2> HIDE DEF Holds
  <2>1. q \in Int /\ a - 1 <= q /\ q <= p /\ ~Holds(q)
    BY <1>2
  <2> QED
    BY <2>1, HistoryAssumption
<1>4. PICK b \in Nat : b = a - 1 /\ b <= Periods
  BY HistoryAssumption
<1>5. Sum(n, 1..b) \in Int /\ Sum(n, 1..q) \in Int /\ Sum(n, a..q) \in Int
  BY <1>3, <1>4, SumRange
<1>6. CASE q = b
  <2>1. Sum(n, a..q) = 0
    BY <1>3, <1>4, <1>6, SumRange
  <2>2. Sum(n, 1..b) + 0 = Sum(n, 1..b)
    BY <1>5
  <2> QED
    BY <1>3, <1>4, <1>6, <2>1, <2>2, Zenon
<1>7. CASE q # b
  <2>1. /\ a <= q /\ 1 <= q /\ q - 1 \in Nat /\ q - 1 <= Periods
        /\ q - 1 \in (a - 1)..p /\ ~(q <= q - 1)
    <3> HIDE DEF Holds
    <3> QED
      BY <1>3, <1>4, <1>7, HistoryAssumption
  <2>2. q - 1 \notin T
    BY <1>2, <2>1, Zenon
  <2>3. Holds(q - 1)
    BY <2>1, <2>2, Zenon
  <2>4. ASSUME NEW e \in Nat \ {0}, e <= q
        PROVE  Sum(n, e..q) = Sum(n, e..(q - 1)) + n[q]
    BY <1>3, <2>1, <2>4, SumRange
  <2>5. /\ Sum(n, 1..q) = Sum(n, 1..(q - 1)) + n[q]
        /\ Sum(n, a..q) = Sum(n, a..(q - 1)) + n[q]
    BY <2>1, <2>4
  <2>6. Sum(n, a..(q - 1)) \in Int /\ n[q] \in Int
    <3>1. q \in Period
      BY <1>3, <2>1 DEF Period
    <3> QED
      BY <2>1, <3>1, SumRange
  <2>7. Sum(n, 1..(q - 1)) = Sum(n, 1..b) + Sum(n, a..(q - 1))
    BY <1>4, <2>3, Zenon
  <2>8. ASSUME NEW x \in Int, NEW y \in Int, NEW z \in Int PROVE (x + y) + z = x + (y + z)
    OBVIOUS
  <2>9. Sum(n, 1..q) = Sum(n, 1..b) + Sum(n, a..q)
    <3>1. Sum(n, 1..q) = (Sum(n, 1..b) + Sum(n, a..(q - 1))) + n[q]
      BY <2>5, <2>7, Zenon
    <3>2. Sum(n, 1..q) = Sum(n, 1..b) + (Sum(n, a..(q - 1)) + n[q])
      BY <1>5, <2>6, <2>8, <3>1, Zenon
    <3> QED
      BY <2>5, <3>2, Zenon
  <2> QED
    BY <1>3, <1>4, <2>9, Zenon
<1> QED
  BY <1>6, <1>7

(* What is dated d falls in a period that no pay date before d ends. *)
LEMMA PeriodOfDate ==
    ASSUME NEW d \in Nat, NEW p \in Int, PayDate(p) < d
    PROVE  p < PeriodOf(d)
<1> DEFINE x == d + PeriodDays - 1
           q == x \div PeriodDays
<1>1. PeriodDays \in Nat \ {0} /\ x \in Nat
  BY HistoryAssumption
<1>2. q \in Int /\ x < q * PeriodDays + PeriodDays
  <2> DEFINE m == PeriodDays
  <2> HIDE DEF x, m
  <2>1. m \in Nat \ {0} /\ x \in Nat
    BY <1>1 DEF m
  <2>2. x \div m \in Int
    BY <2>1
  <2>3. (x \div m) * m + (x % m) = x
    BY <2>1
  <2>4. x % m < m /\ x % m \in Int
    BY <2>1
  <2>5. (x \div m) * m \in Int
    BY <2>1, <2>2
  <2> QED
    BY <2>1, <2>2, <2>3, <2>4, <2>5 DEF m
<1>3. p * PeriodDays + PeriodDays <= x
  <2>1. p * PeriodDays \in Int /\ p * PeriodDays < d
    BY <1>1 DEF PayDate
  <2> QED
    BY <1>1, <2>1
<1> HIDE DEF x, q
<1>4. ASSUME q <= p PROVE FALSE
  <2>1. q * PeriodDays <= p * PeriodDays
    BY <1>1, <1>2, <1>4
  <2>2. q * PeriodDays \in Int /\ p * PeriodDays \in Int
    BY <1>1, <1>2
  <2> QED
    BY <1>1, <1>2, <1>3, <2>1, <2>2
<1> QED
  BY <1>2, <1>4 DEF PeriodOf, q, x

(* A row dated d changes no period that ends before. *)
LEMMA RowLeaves ==
    ASSUME HistoryTyped, NEW d \in Dated, Commit("row", d), NEW r \in history,
           PayDate(r.period) < d, Agrees(r)
    PROVE  Agrees(r)'
<1>1. r.period \in Nat \ {0} /\ d \in Nat
  BY HistoryAssumption DEF HistoryTyped, Row, Period, Dated
<1>2. r.period < PeriodOf(d) /\ PeriodOf(d) \in Int
  BY <1>1, PeriodOfDate, HistoryAssumption DEF Dated, Period
<1>3. net' = [net EXCEPT ![PeriodOf(d)] = @ + 1] /\ opening' = opening /\ currency' = currency
  BY DEF Commit
<1>4. ASSUME NEW c \in 1..r.period PROVE net'[c] = net[c]
  <2>1. c \in Period /\ c # PeriodOf(d)
    BY <1>1, <1>2, HistoryAssumption DEF HistoryTyped, Row, Period
  <2> QED
    BY <1>3, <2>1 DEF HistoryTyped
<1>5. Sum(net', 1..r.period) = Sum(net, 1..r.period)
  <2>1. IsFiniteSet(1..r.period)
    BY <1>1, FS_Interval
  <2> QED
    BY <1>4, <2>1, SumSame
<1>6. net'[r.period] = net[r.period]
  BY <1>1, <1>4
<1> QED
  BY <1>3, <1>5, <1>6, Zenon DEF Agrees

(* A pay date is from the first day on and before NoDay. *)
LEMMA RowDays ==
    ASSUME NEW r \in Row
    PROVE  PayDate(r.period) \in Int /\ 0 <= PayDate(r.period) /\ PayDate(r.period) < NoDay
<1>1. r.period \in Int /\ 0 <= r.period /\ r.period <= Periods /\ Periods \in Int
  BY HistoryAssumption DEF Row, Period
<1>2. /\ PayDate(r.period) \in Int /\ PayDate(0) \in Int /\ PayDate(Periods) \in Int
      /\ PayDate(0) <= PayDate(r.period) /\ PayDate(r.period) <= PayDate(Periods)
  BY <1>1, PayDatesUpTo
<1>3. PayDate(0) = 0
  BY HistoryAssumption DEF PayDate
<1> QED
  BY <1>2, <1>3 DEF NoDay

(* What is missed is no longer held, and nothing else: Miss takes in what a   *)
(* process owes, if any row is of such a day.                               *)
LEMMA MissHolds ==
    ASSUME HistoryTyped, NEW p \in Procs, Miss(proc[p]), NEW r \in history,
           PayDate(r.period) < missed'
    PROVE  PayDate(r.period) < missed /\ PayDate(r.period) < Owes(proc[p])
<1> DEFINE o == Owes(proc[p])
           d == PayDate(r.period)
<1>1. d \in Int /\ o \in Int /\ missed \in Int
  BY RowDays, OwesDate DEF HistoryTyped
<1>2. missed' = IF o < missed /\ \E q \in Frozen : o <= PayDate(q) THEN o ELSE missed
  BY DEF Miss
<1>3. (\A q \in Frozen : ~(o <= PayDate(q))) => ~(o <= d)
  BY DEF Frozen
<1> HIDE DEF o, d
<1>4. d < missed'
  BY DEF d
<1>5. CASE o < missed /\ \E q \in Frozen : o <= PayDate(q)
  <2>1. missed' = o
    BY <1>2, <1>5
  <2>2. d < o /\ d < missed
    BY <1>1, <1>4, <1>5, <2>1
  <2> QED
    BY <2>2 DEF o, d
<1>6. CASE ~(o < missed /\ \E q \in Frozen : o <= PayDate(q))
  <2>1. missed' = missed
    BY <1>2, <1>6
  <2>2. ~(o < missed) \/ ~(o <= d)
    BY <1>3, <1>6
  <2>3. d < o /\ d < missed
    BY <1>1, <1>4, <2>1, <2>2
  <2> QED
    BY <2>3 DEF o, d
<1> QED
  BY <1>5, <1>6

(* With at most one process at work, what it owes decides what is held. *)
LEMMA HeldBut ==
    ASSUME HistoryTyped, AgreeInv, ~overlapped, NEW p \in Procs,
           \A q \in Procs : q # p => proc[q].pc = "idle",
           NEW r \in history, PayDate(r.period) < missed, PayDate(r.period) < Owes(proc[p])
    PROVE  Agrees(r)
<1>1. PayDate(r.period) < NoDay
  BY RowDays DEF HistoryTyped
<1>2. \A q \in Procs : q # p => Owes(proc[q]) = NoDay
  BY DEF AgreeInv, AgreesAt
<1>3. \A q \in Procs : PayDate(r.period) < Owes(proc[q])
  BY <1>1, <1>2
<1>4. Held(r)
  BY <1>3 DEF Held
<1> QED
  BY <1>4 DEF AgreeInv, HeldAgree

LEMMA HeldIdle ==
    ASSUME HistoryTyped, AgreeInv, ~overlapped, ~Busy, NEW r \in history,
           PayDate(r.period) < missed
    PROVE  Agrees(r)
<1>1. \A q \in Procs : proc[q].pc = "idle"
  BY DEF Busy
<1>2. \A q \in Procs : Owes(proc[q]) = NoDay
  BY <1>1 DEF AgreeInv, AgreesAt
<1>3. PayDate(r.period) < NoDay /\ Job \in Procs
  BY RowDays DEF HistoryTyped, Procs
<1> QED
  BY <1>1, <1>2, <1>3, HeldBut

LEMMA AgreeMoves ==
    ASSUME AgreeInv, NEW p \in Procs, NEW s, Moves(p, s), ~overlapped' => ~overlapped,
           ~overlapped' => /\ \A q \in Procs : q # p => proc[q].pc = "idle"
                           /\ AgreesAt(s)'
                           /\ \A r \in history' :
                                 PayDate(r.period) < missed' /\ PayDate(r.period) < Owes(s)
                                     => Agrees(r)'
    PROVE  AgreeInv'
<1> SUFFICES ASSUME ~overlapped'
    PROVE  HeldAgree' /\ \A q \in Procs : AgreesAt(proc[q])'
  BY Zenon DEF AgreeInv
<1>1. proc'[p] = s /\ \A q \in Procs : q # p => proc'[q] = proc[q] /\ proc[q].pc = "idle"
  BY DEF Moves
<1>2. HeldAgree'
  <2> SUFFICES ASSUME NEW r \in history', Held(r)' PROVE Agrees(r)'
    BY DEF HeldAgree
  <2>1. PayDate(r.period) < missed' /\ PayDate(r.period) < Owes(proc'[p])
    BY DEF Held
  <2> QED
    BY <1>1, <2>1
<1>3. AgreesAt(proc[p])'
  BY <1>1 DEF AgreesAt, LeftAgree, UpTo, Live
<1>4. ASSUME NEW q \in Procs, q # p PROVE AgreesAt(proc[q])'
  <2>1. proc'[q].pc = "idle" /\ proc'[q] = proc[q]
    BY <1>1, <1>4
  <2>2. Owes(proc[q]) = NoDay
    BY <1>1, <1>4 DEF AgreeInv, AgreesAt
  <2> QED
    BY <2>1, <2>2 DEF AgreesAt
<1> QED
  BY <1>2, <1>3, <1>4

LEMMA AgreeChange ==
    ASSUME HistoryTyped, AgreeInv, NEW h \in Handlers, NEW kind \in Changes, NEW d \in Dated,
           Change(h, kind, d)
    PROVE  AgreeInv'
<1>1. PICK s : /\ Moves(h, s)
               /\ kind = "row" => s.pc = "check" /\ s.sync = "from" /\ s.date = d
               /\ kind # "row" => s.pc = "inputs" /\ s.sync = "rebuild"
               /\ kind = "opening" => s.date = 0
  BY ChangeMoves
<1>2. /\ ~overlapped' => ~overlapped /\ ~Busy
      /\ history' = history /\ missed' = missed /\ Commit(kind, d)
  BY DEF Change, NoteOverlap
<1>3. AgreesAt(s)'
  BY <1>1 DEF AgreesAt
<1>4. ASSUME ~overlapped', NEW r \in history,
             PayDate(r.period) < missed, PayDate(r.period) < Owes(s)
      PROVE  Agrees(r)'
  <2>1. Agrees(r)
    BY <1>2, <1>4, HeldIdle
  <2>2. s.sync # "append" => Owes(s) = s.date
    BY Zenon DEF Owes
  <2>3. CASE kind = "row"
    BY <1>1, <1>2, <1>4, <2>1, <2>2, <2>3, RowLeaves
  <2>4. CASE kind = "opening"
    <3>1. Owes(s) = 0
      BY <1>1, <2>2, <2>4
    <3>2. PayDate(r.period) \in Int /\ 0 <= PayDate(r.period)
      BY RowDays DEF HistoryTyped
    <3> QED
      BY <1>4, <3>1, <3>2
  <2>5. CASE kind = "currency"
    BY <1>2, <2>1, <2>5 DEF Commit, Agrees
  <2> QED
    BY <1>2, <2>3, <2>4, <2>5 DEF Commit
<1>5. ~overlapped' => \A q \in Procs : q # h => proc[q].pc = "idle"
  BY <1>2 DEF Busy
<1> QED
  BY <1>1, <1>2, <1>3, <1>4, <1>5, AgreeMoves DEF Procs

(* A step that leaves the data alone and holds no more than before. *)
Quietly == UNCHANGED <<net, opening, currency, history, overlapped>>
HoldsNoMore(p, s) ==
    \A r \in history :
        PayDate(r.period) < missed' /\ PayDate(r.period) < Owes(s)
            => PayDate(r.period) < missed /\ PayDate(r.period) < Owes(proc[p])

LEMMA AgreeQuietly ==
    ASSUME HistoryTyped, ChainInv, AgreeInv, NEW p \in Procs, proc[p].pc # "idle", Quietly,
           NEW s, Moves(p, s), ~overlapped => AgreesAt(s) /\ HoldsNoMore(p, s),
           missed' = missed \/ s.pc \notin {"delete", "commit"}
    PROVE  AgreeInv'
<1>1. ~overlapped' => ~overlapped /\ \A q \in Procs : q # p => proc[q].pc = "idle"
  BY DEF ChainInv, OneBusy, Quietly
<1>2. \A r : Agrees(r)' <=> Agrees(r)
  BY DEF Quietly, Agrees
<1>3. ASSUME ~overlapped, NEW r \in history',
             PayDate(r.period) < missed', PayDate(r.period) < Owes(s)
      PROVE  Agrees(r)'
  <2>1. r \in history
    BY DEF Quietly
  <2>2. PayDate(r.period) < missed /\ PayDate(r.period) < Owes(proc[p])
    BY <1>3, <2>1 DEF HoldsNoMore
  <2>3. \A q \in Procs : q # p => proc[q].pc = "idle"
    BY <1>3 DEF ChainInv, OneBusy
  <2> QED
    BY <1>2, <1>3, <2>1, <2>2, <2>3, HeldBut
<1>4. Live' = Live /\ UpTo(s.base)' = UpTo(s.base)
  BY DEF Quietly, Live, UpTo
<1>5. missed' = missed /\ LeftAgree(s) => LeftAgree(s)'
  BY <1>2, <1>4 DEF LeftAgree
<1>6. ~overlapped => AgreesAt(s)'
  BY <1>4, <1>5 DEF AgreesAt
<1> QED
  BY <1>1, <1>3, <1>6, AgreeMoves

(* A sync that does not reach the missed days leaves and writes what agrees. *)
LEMMA AgreeList ==
    ASSUME HistoryTyped, ChainInv, AgreeInv, ~overlapped, NEW p \in Procs, ListHistory(p),
           NEW s, s.base = First(Kept(proc[p])) - 1,
           s.rows = RowsAfter(proc[p].inputs, Kept(proc[p]), Closed)
    PROVE  LeftAgree(s)
<1> DEFINE o == proc[p]
           i == o.inputs
           k == Kept(o)
           f == First(k)
           w == RowsAfter(i, k, Closed)
<1>1. o \in ProcState /\ i \in Inputs /\ k \in SUBSET Row /\ Closed \in SUBSET Period
  BY KeptRows DEF HistoryTyped, ProcState, Closed, ClosedAt
<1>2. /\ i = Live
      /\ o.sync = "append" => Owes(o) = NoDay
      /\ \A q \in Procs : q # p => proc[q].pc = "idle"
  BY DEF AgreeInv, AgreesAt, ListHistory, ChainInv, OneBusy
<1>3. i.net = net /\ i.opening = opening
  BY <1>2 DEF Live
<1>4. ASSUME NEW r \in k, PayDate(r.period) < missed PROVE Agrees(r)
  <2>1. r \in history
    BY KeptRows, <1>1
  <2>2. PayDate(r.period) < Owes(o)
    <3>1. o.sync \in {"append", "from", "rebuild"}
      BY <1>1 DEF ProcState
    <3>2. CASE o.sync = "append"
      BY <1>2, <2>1, <3>2, RowDays DEF HistoryTyped
    <3>3. CASE o.sync = "from"
      <4>1. Owes(o) = o.date
        BY <3>3, Zenon DEF Owes
      <4>2. PayDate(r.period) < o.date
        BY <3>3 DEF Kept
      <4> QED
        BY <4>1, <4>2
    <3>4. CASE o.sync = "rebuild"
      BY <3>4 DEF Kept
    <3> QED
      BY <3>1, <3>2, <3>3, <3>4
  <2> QED
    BY <1>2, <1>4, <2>1, <2>2, HeldBut
<1>5. k = UpTo(f - 1)
  BY <1>1, KeptUpTo
<1>6. /\ f \in Nat \ {0} /\ f <= Periods + 1 /\ (k = {} => f = 1)
      /\ Seed(i, k) \in Int
      /\ k = {} => Seed(i, k) = i.opening
      /\ k # {} => \E b \in k : b.period = f - 1 /\ Seed(i, k) = b.cumulative
      /\ \A r \in k : r.period < f
  <2>1. k = {} => f = 1 /\ Seed(i, k) = i.opening
    BY DEF First, Seed
  <2> QED
    BY <1>1, <2>1, BaseEnds, SeedIs
<1>7. /\ w = {RowFor(i, k, q) : q \in {c \in Closed : c >= f}}
      /\ \A r \in w : r \in Row /\ r.period >= f
  BY <1>1, RowsAfterIs, RowsAfterTyped
<1>8. s.base = f - 1 /\ s.rows = w /\ missed \in Int
  BY DEF HistoryTyped
<1> HIDE DEF i, k, f, w
<1>9. ASSUME PayDate(f - 1) < missed PROVE Seed(i, k) = opening + Sum(net, 1..(f - 1))
  <2>1. CASE k = {}
    <3>1. Sum(net, 1..(f - 1)) = 0
      <4>1. 1..(f - 1) = {} /\ IsFiniteSet(1..(f - 1))
        BY <1>6, <2>1, FS_EmptySet
      <4> QED
        BY <4>1, SumStep
    <3> QED
      BY <1>3, <1>6, <2>1, <3>1 DEF HistoryTyped
  <2>2. CASE k # {}
    <3>1. PICK b \in k : b.period = f - 1 /\ Seed(i, k) = b.cumulative
      BY <1>6, <2>2
    <3>2. Agrees(b)
      BY <1>4, <1>9, <3>1
    <3> QED
      BY <3>1, <3>2 DEF Agrees
  <2> QED
    BY <2>1, <2>2
<1>10. ASSUME NEW r \in w, PayDate(f - 1) < missed PROVE Agrees(r)
  <2>1. PICK q \in Closed : q >= f /\ r = RowFor(i, k, q)
    BY <1>7
  <2>2. /\ r.period = q /\ r.net = net[q]
        /\ r.cumulative = Seed(i, k) + Sum(net, f..q)
    BY <1>3, <2>1 DEF RowFor, f
  <2>3. q \in Nat /\ q <= Periods /\ f - 1 \in Nat /\ f - 1 <= q /\ f - 1 <= Periods
    <3>1. q \in 1..Periods /\ Periods \in Nat
      BY <1>1, <2>1, HistoryAssumption DEF Period
    <3> QED
      BY <1>6, <2>1, <3>1
  <2>4. Sum(net, 1..q) = Sum(net, 1..(f - 1)) + Sum(net, f..q)
    BY <1>6, <2>3, SumSplit DEF HistoryTyped
  <2>5. Sum(net, 1..(f - 1)) \in Int /\ Sum(net, f..q) \in Int /\ opening \in Int
    BY <1>6, <2>3, SumRange DEF HistoryTyped
  <2>6. r.cumulative = opening + Sum(net, 1..q)
    BY <1>9, <1>10, <2>2, <2>4, <2>5
  <2> QED
    BY <2>2, <2>6 DEF Agrees
<1>11. ASSUME NEW r \in k, PayDate(f - 1) < missed PROVE PayDate(r.period) < missed
  <2>1. r.period \in Int /\ r.period <= f - 1 /\ f - 1 \in Int
    <3>1. r.period \in Int /\ r.period < f
      BY <1>1, <1>6, HistoryAssumption DEF Row, Period, k
    <3> QED
      BY <1>6, <3>1
  <2> QED
    BY <1>8, <1>11, <2>1, PayDatesUpTo
<1>12. ASSUME NEW r \in w, PayDate(r.period) < missed PROVE PayDate(f - 1) < missed
  <2>1. r.period \in Int /\ f - 1 <= r.period /\ f - 1 \in Int
    <3>1. r.period \in Int /\ r.period >= f
      BY <1>7, HistoryAssumption DEF Row, Period
    <3> QED
      BY <1>6, <3>1
  <2> QED
    BY <1>8, <1>12, <2>1, PayDatesUpTo
<1>13. ASSUME NEW r \in k \cup w, PayDate(f - 1) < missed \/ PayDate(r.period) < missed
       PROVE  Agrees(r)
  BY <1>4, <1>10, <1>11, <1>12, <1>13
<1> QED
  BY <1>5, <1>8, <1>13 DEF LeftAgree

LEMMA AgreeKept ==
    ASSUME HistoryTyped, ChainInv, AgreeInv, [Next]_vars
    PROVE  AgreeInv'
<1> USE DEF data, counts
<1>0. AgreesAt(IdleProc) /\ AgreesAt(IdleProc)'
  BY Idle DEF AgreesAt
<1>1. CASE \E h \in Handlers, kind \in Changes, d \in Dated : Change(h, kind, d)
  BY <1>1, AgreeChange
<1>2. CASE \E h \in Handlers : CheckFrozen(h)
  <2>1. PICK h \in Handlers : CheckFrozen(h)
    BY <1>2
  <2>2. proc[h].pc = "check" /\ Quietly /\ missed' = missed /\ h \in Procs
    BY <2>1 DEF CheckFrozen, Quietly, Procs
  <2>3. PICK s : /\ Moves(h, s)
                 /\ \/ /\ s = IdleProc
                       /\ \A r \in history : ~(proc[h].date <= PayDate(r.period))
                    \/ s.pc = "inputs" /\ s.sync = proc[h].sync /\ Owes(s) = Owes(proc[h])
    BY <2>1, CheckMoves
  <2>4. CASE s = IdleProc /\ \A r \in history : ~(proc[h].date <= PayDate(r.period))
    <3>1. ASSUME NEW r \in history PROVE PayDate(r.period) < Owes(proc[h])
      <4>1. PayDate(r.period) \in Int /\ PayDate(r.period) < NoDay
        BY RowDays DEF HistoryTyped
      <4>2. proc[h].date \in Int /\ (Owes(proc[h]) = proc[h].date \/ Owes(proc[h]) = NoDay)
        BY <2>2, OwesDate DEF HistoryTyped
      <4>3. PayDate(r.period) < proc[h].date
        BY <2>4, <4>1, <4>2
      <4> QED
        BY <4>1, <4>2, <4>3
    <3>2. HoldsNoMore(h, s)
      BY <2>2, <3>1 DEF HoldsNoMore
    <3>3. AgreesAt(s)
      BY <1>0, <2>4
    <3> QED
      BY <2>2, <2>3, <3>2, <3>3, AgreeQuietly
  <2>5. CASE s.pc = "inputs" /\ s.sync = proc[h].sync /\ Owes(s) = Owes(proc[h])
    <3>1. ~overlapped => AgreesAt(s)
      BY <2>2, <2>5 DEF AgreeInv, AgreesAt
    <3>2. HoldsNoMore(h, s)
      BY <2>2, <2>5 DEF HoldsNoMore
    <3> QED
      BY <2>2, <2>3, <3>1, <3>2, AgreeQuietly
  <2> QED
    BY <2>3, <2>4, <2>5
<1>3. CASE \E h \in Handlers : ClearHistory(h)
  <2>1. PICK h \in Handlers : ClearHistory(h)
    BY <1>3
  <2>2. Moves(h, IdleProc)
    BY <2>1, ClearMoves
  <2>3. history' = {} /\ overlapped' = overlapped
    BY <2>1 DEF ClearHistory
  <2>4. ~overlapped => \A q \in Procs : q # h => proc[q].pc = "idle"
    BY <2>1 DEF ChainInv, OneBusy, ClearHistory, Procs
  <2> QED
    BY <1>0, <2>2, <2>3, <2>4, AgreeMoves DEF Procs
<1>4. CASE \E h \in Handlers : ClearFails(h) \/ Timeout(h)
  <2>1. PICK h \in Handlers : ClearFails(h) \/ Timeout(h)
    BY <1>4
  <2>2. proc[h].pc # "idle" /\ Quietly /\ Miss(proc[h]) /\ h \in Procs
    BY <2>1 DEF ClearFails, Timeout, Quietly, Procs
  <2>3. Moves(h, IdleProc)
    BY <2>1, ClearFailsMoves, TimeoutMoves
  <2>4. HoldsNoMore(h, IdleProc)
    BY <2>2, MissHolds DEF HoldsNoMore
  <2> QED
    BY <1>0, <2>2, <2>3, <2>4, Idle, AgreeQuietly
<1>5. CASE \E p \in Procs : LoadInputs(p)
  <2>1. PICK p \in Procs : LoadInputs(p)
    BY <1>5
  <2>2. proc[p].pc = "inputs" /\ Quietly /\ missed' = missed
    BY <2>1 DEF LoadInputs, Quietly
  <2>3. PICK s : /\ Moves(p, s)
                 /\ s.pc = "list" /\ s.sync = proc[p].sync /\ Owes(s) = Owes(proc[p])
                 /\ s.inputs = Live
    BY <2>1, LoadMoves
  <2>4. ~overlapped => AgreesAt(s)
    BY <2>2, <2>3 DEF AgreeInv, AgreesAt
  <2>5. HoldsNoMore(p, s)
    BY <2>2, <2>3 DEF HoldsNoMore
  <2> QED
    BY <2>2, <2>3, <2>4, <2>5, AgreeQuietly
<1>6. CASE \E p \in Procs : ListHistory(p)
  <2>1. PICK p \in Procs : ListHistory(p)
    BY <1>6
  <2>2. proc[p].pc = "list" /\ Quietly /\ missed' = missed
    BY <2>1 DEF ListHistory, Quietly
  <2>3. PICK s : /\ Moves(p, s) /\ s.pc = "delete" /\ Owes(s) = Owes(proc[p])
                 /\ s.base = First(Kept(proc[p])) - 1
                 /\ s.rows = RowsAfter(proc[p].inputs, Kept(proc[p]), Closed)
    BY <2>1, ListMoves
  <2>4. ~overlapped => LeftAgree(s)
    BY <2>1, <2>3, AgreeList
  <2>5. ~overlapped => AgreesAt(s)
    BY <2>3, <2>4 DEF AgreesAt
  <2>6. HoldsNoMore(p, s)
    BY <2>2, <2>3 DEF HoldsNoMore
  <2> QED
    BY <2>2, <2>3, <2>5, <2>6, AgreeQuietly
<1>7. CASE \E p \in Procs : DeleteAfter(p)
  <2>1. PICK p \in Procs : DeleteAfter(p)
    BY <1>7
  <2>2. proc[p].pc = "delete" /\ Quietly /\ missed' = missed
    BY <2>1 DEF DeleteAfter, Quietly
  <2>3. PICK s : /\ Moves(p, s) /\ s.pc = "commit" /\ Owes(s) = Owes(proc[p])
                 /\ s.base = proc[p].base /\ s.rows = proc[p].rows
    BY <2>1, DeleteMoves
  <2>4. ~overlapped => AgreesAt(s)
    BY <2>2, <2>3 DEF AgreeInv, AgreesAt, LeftAgree
  <2>5. HoldsNoMore(p, s)
    BY <2>2, <2>3 DEF HoldsNoMore
  <2> QED
    BY <2>2, <2>3, <2>4, <2>5, AgreeQuietly
<1>8. CASE \E p \in Procs : CommitRows(p)
  <2>1. PICK p \in Procs : CommitRows(p)
    BY <1>8
  <2>2. /\ UNCHANGED <<net, opening, overlapped>>
        /\ missed' = IF PayDate(proc[p].base) < missed THEN NoDay ELSE missed
    BY <2>1 DEF CommitRows
  <2> SUFFICES ASSUME ~overlapped PROVE AgreeInv'
    BY <2>2 DEF AgreeInv
  <2>3. /\ \A q \in Procs : q # p => proc[q].pc = "idle" /\ proc'[q] = proc[q]
        /\ proc'[p] = IdleProc
        /\ history' = UpTo(proc[p].base) \cup proc[p].rows
    BY <2>1, CommitWrites
  <2>4. LeftAgree(proc[p])
    BY <2>1 DEF AgreeInv, AgreesAt, CommitRows
  <2>5. ASSUME NEW r \in history', PayDate(r.period) < missed' PROVE Agrees(r)'
    <3>1. PayDate(proc[p].base) < missed \/ PayDate(r.period) < missed
      BY <2>2, <2>5
    <3>2. Agrees(r)
      BY <2>3, <2>4, <3>1 DEF LeftAgree
    <3> QED
      BY <2>2, <3>2 DEF Agrees
  <2>6. Moves(p, IdleProc)
    BY <2>1, <2>3, Idle, CommitMoves DEF Moves
  <2> QED
    BY <1>0, <2>2, <2>3, <2>5, <2>6, AgreeMoves
<1>9. CASE \E p \in Procs : SyncFails(p)
  <2>1. PICK p \in Procs : SyncFails(p)
    BY <1>9
  <2>2. proc[p].pc # "idle" /\ Quietly
    BY <2>1 DEF SyncFails, Syncing, Quietly
  <2>3. CASE Moves(p, IdleProc) /\ Miss(proc[p])
    <3>1. HoldsNoMore(p, IdleProc)
      BY <2>3, MissHolds DEF HoldsNoMore
    <3> QED
      BY <1>0, <2>2, <2>3, <3>1, Idle, AgreeQuietly
  <2>4. ASSUME missed' = missed,
               NEW s, Moves(p, s), s.pc = "clear", Owes(s) = Owes(proc[p])
        PROVE  AgreeInv'
    <3>1. AgreesAt(s) /\ HoldsNoMore(p, s)
      BY <2>4 DEF AgreesAt, HoldsNoMore
    <3> QED
      BY <2>2, <2>4, <3>1, AgreeQuietly
  <2> QED
    BY <2>1, <2>3, <2>4, FailMoves
<1>10. CASE StartPass
  <2>1. PICK s : Moves(Job, s) /\ s.pc = "charge" /\ s.sync = "append" /\ Owes(s) = NoDay
    BY <1>10, PassMoves
  <2>2. /\ UNCHANGED <<net, opening, history, missed>>
        /\ ~overlapped' => ~overlapped /\ ~Busy
    BY <1>10 DEF StartPass, NoteOverlap
  <2>3. AgreesAt(s)'
    BY <2>1 DEF AgreesAt
  <2>4. ASSUME ~overlapped', NEW r \in history', PayDate(r.period) < missed' PROVE Agrees(r)'
    <3>1. Agrees(r)
      BY <2>2, <2>4, HeldIdle
    <3> QED
      BY <2>2, <3>1 DEF Agrees
  <2>5. ~overlapped' => \A q \in Procs : q # Job => proc[q].pc = "idle"
    BY <2>2 DEF Busy
  <2> QED
    BY <2>1, <2>2, <2>3, <2>4, <2>5, AgreeMoves DEF Procs
<1>11. CASE \E d \in Dated : JobCharges(d)
  <2>1. PICK d \in Dated : JobCharges(d)
    BY <1>11
  <2>2. PICK s : /\ Moves(Job, s) /\ s.pc = "charge" /\ s.sync = proc[Job].sync
                 /\ Owes(s) = proc[Job].date
    BY <2>1, ChargeMoves
  <2>3. /\ proc[Job].pc = "charge" /\ proc[Job].date <= d /\ Commit("row", d)
        /\ UNCHANGED <<history, missed, overlapped>> /\ Job \in Procs
    BY <2>1 DEF JobCharges, Procs
  <2>4. ~overlapped => AgreesAt(s)'
    BY <2>2, <2>3 DEF AgreeInv, AgreesAt
  <2>5. ~overlapped => \A q \in Procs : q # Job => proc[q].pc = "idle"
    BY <2>3 DEF ChainInv, OneBusy
  <2>6. ASSUME ~overlapped, NEW r \in history,
               PayDate(r.period) < missed, PayDate(r.period) < Owes(s)
        PROVE  Agrees(r)'
    <3>1. /\ PayDate(r.period) \in Int /\ PayDate(r.period) < NoDay
          /\ proc[Job].date \in Int /\ d \in Int
          /\ Owes(proc[Job]) = proc[Job].date \/ Owes(proc[Job]) = NoDay
      BY <2>3, RowDays, OwesDate DEF HistoryTyped, Dated
    <3>2. PayDate(r.period) < Owes(proc[Job]) /\ PayDate(r.period) < d
      BY <2>2, <2>3, <2>6, <3>1
    <3>3. Agrees(r)
      BY <2>3, <2>5, <2>6, <3>2, HeldBut
    <3> QED
      BY <2>3, <3>2, <3>3, RowLeaves
  <2> QED
    BY <2>2, <2>3, <2>4, <2>5, <2>6, AgreeMoves
<1>12. CASE StepEnds
  <2>1. PICK s : /\ Moves(Job, s) /\ s.pc = "charge" /\ s.sync = proc[Job].sync
                 /\ Owes(s) = Owes(proc[Job])
    BY <1>12, StepEndsMoves
  <2>2. proc[Job].pc = "charge" /\ Quietly /\ missed' = missed /\ Job \in Procs
    BY <1>12 DEF StepEnds, Quietly, Procs
  <2>3. ~overlapped => AgreesAt(s) /\ HoldsNoMore(Job, s)
    BY <2>1, <2>2 DEF AgreeInv, AgreesAt, HoldsNoMore
  <2> QED
    BY <2>1, <2>2, <2>3, AgreeQuietly
<1>13. CASE StepFails
  <2>1. PICK s : Moves(Job, s) /\ s.pc = "charge" /\ s.sync = proc[Job].sync
    BY <1>13, StepFailsMoves
  <2>2. proc[Job].pc = "charge" /\ Quietly /\ Miss(proc[Job]) /\ Job \in Procs
    BY <1>13 DEF StepFails, Quietly, Procs
  <2>3. ~overlapped => AgreesAt(s)
    BY <2>1, <2>2 DEF AgreeInv, AgreesAt
  <2>4. HoldsNoMore(Job, s)
    BY <2>2, MissHolds DEF HoldsNoMore
  <2> QED
    BY <2>1, <2>2, <2>3, <2>4, AgreeQuietly
<1>14. CASE JobSyncs
  <2>1. PICK s : /\ Moves(Job, s) /\ s.pc = "inputs"
                 /\ proc[Job].sync = "append" => Owes(s) = Owes(proc[Job])
                 /\ s.sync = "append" => Owes(s) = NoDay
    BY <1>14, JobMoves
  <2>2. proc[Job].pc = "charge" /\ Quietly /\ missed' = missed /\ Job \in Procs
    BY <1>14 DEF JobSyncs, Quietly, Procs
  <2>3. ~overlapped => Owes(s) = Owes(proc[Job])
    BY <2>1, <2>2 DEF AgreeInv, AgreesAt
  <2>4. ~overlapped => AgreesAt(s) /\ HoldsNoMore(Job, s)
    BY <2>1, <2>2, <2>3 DEF AgreesAt, HoldsNoMore
  <2> QED
    BY <2>1, <2>2, <2>4, AgreeQuietly
<1>15. CASE PassDies
  <2>1. proc[Job].pc # "idle" /\ Quietly /\ Miss(proc[Job]) /\ Job \in Procs
    BY <1>15 DEF PassDies, Quietly, Procs
  <2>2. HoldsNoMore(Job, IdleProc)
    BY <2>1, MissHolds DEF HoldsNoMore
  <2> QED
    BY <1>0, <1>15, <2>1, <2>2, Idle, DieMoves, AgreeQuietly
<1>16. CASE Tick \/ UNCHANGED vars
  <2>1. UNCHANGED <<net, opening, currency, history, proc, missed, overlapped>>
    BY <1>16 DEF Tick, vars
  <2>2. \A r : Agrees(r)' <=> Agrees(r)
    BY <2>1 DEF Agrees
  <2>3. \A r : Held(r)' <=> Held(r)
    BY <2>1 DEF Held
  <2>4. HeldAgree' <=> HeldAgree
    BY <2>1, <2>2, <2>3 DEF HeldAgree
  <2>5. ASSUME NEW p \in Procs, AgreesAt(proc[p]) PROVE AgreesAt(proc[p])'
    <3>1. LeftAgree(proc[p]) => LeftAgree(proc[p])'
      BY <2>1, <2>2 DEF LeftAgree, UpTo
    <3> QED
      BY <2>1, <2>5, <3>1 DEF AgreesAt, Live
  <2> QED
    BY <2>1, <2>4, <2>5 DEF AgreeInv
<1>17. CASE \E h \in Handlers : \/ \E kind \in Changes, d \in Dated : Change(h, kind, d)
                               \/ CheckFrozen(h) \/ ClearHistory(h) \/ ClearFails(h) \/ Timeout(h)
  BY <1>1, <1>2, <1>3, <1>4, <1>17
<1>18. CASE \E p \in Procs : Sync(p) \/ SyncFails(p)
  BY <1>5, <1>6, <1>7, <1>8, <1>9, <1>18 DEF Sync
<1>19. CASE StartPass \/ StepEnds \/ StepFails \/ JobSyncs \/ PassDies \/ \E d \in Dated : JobCharges(d)
  BY <1>10, <1>11, <1>12, <1>13, <1>14, <1>15, <1>19
<1> QED
  BY <1>16, <1>17, <1>18, <1>19, Zenon DEF Next

-----------------------------------------------------------------------------
(* The theorems. *)

LEMMA HistoryBegins == Init => HistoryInv
<1> SUFFICES ASSUME Init PROVE HistoryInv
  OBVIOUS
<1> USE DEF Init
<1>1. \A p \in Procs : proc[p] = IdleProc /\ proc[p].pc = "idle"
  BY Idle
<1>2. HistoryTyped
  <2>1. overlapped \in BOOLEAN /\ missed \in Int
    BY Idle, Zenon
  <2>2. proc \in [Procs -> ProcState]
    BY Idle
  <2>3. now \in Nat /\ net \in [Period -> Int] /\ opening \in Int /\ currency \in Int
        /\ history \subseteq Row
    OBVIOUS
  <2> QED
    BY <2>1, <2>2, <2>3, Zenon DEF HistoryTyped
<1>3. RowsPast
  BY <1>1 DEF RowsPast, OneRowEach, Past, Writing
<1>4. ChainInv
  BY <1>1 DEF ChainInv, OneBusy, Chain, Writing
<1>5. AgreeInv
  BY <1>1, Idle DEF AgreeInv, AgreesAt, HeldAgree
<1> QED
  BY <1>2, <1>3, <1>4, <1>5 DEF HistoryInv

(* The invariant of sync_history: types, closed periods only, no gap without *)
(* an overlap, and rows that say what a live computation says up to the day  *)
(* from which a re-freeze is owed or has been missed.                        *)
THEOREM HistoryInvariant == Spec => []HistoryInv
<1>1. HistoryInv /\ [Next]_vars => HistoryInv'
  BY TypesKept, RowsPastKept, ChainKept, AgreeKept DEF HistoryInv
<1> QED
  BY <1>1, HistoryBegins, PTL DEF Spec

(* freeze_cutoff: no row is of a period that a client may still be in.       *)
THEOREM ClosedOnly == Spec => []OnlyClosedPeriodsFrozen
<1>1. HistoryInv => OnlyClosedPeriodsFrozen
  <2> SUFFICES ASSUME HistoryInv, NEW r \in history, NEW offset \in ClientOffsets
      PROVE  PayDate(r.period) < now + offset
    BY DEF OnlyClosedPeriodsFrozen
  <2>1. PayDate(r.period) < now - 1
    BY DEF HistoryInv, RowsPast, Past
  <2>2. PayDate(r.period) \in Int /\ now \in Int
    BY PayDates, HistoryAssumption DEF HistoryInv, HistoryTyped, Row, Period
  <2>3. offset \in Int /\ -1 <= offset
    BY HistoryAssumption
  <2> QED
    BY <2>1, <2>2, <2>3
<1> QED
  BY <1>1, HistoryInvariant, PTL

(* build_rows_after: the frozen periods have no gap, each carrying on the     *)
(* cumulative of the one before it, unless syncs have overlapped.            *)
THEOREM NoGaps == Spec => []Continuous
<1>1. HistoryInv => Continuous
  BY DEF HistoryInv, RowsPast, OneRowEach, ChainInv, Chain, Continuous
<1> QED
  BY <1>1, HistoryInvariant, PTL

(* sync_history and its callers: what is frozen is what the live computation *)
(* would say, up to the first day whose re-freeze has been missed: whatever   *)
(* timed out, failed or died left the rows before that day alone, and a      *)
(* re-freeze that reaches it makes up for all of them.                       *)
THEOREM FrozenIsLive == Spec => []FrozenEqualsLive
<1>1. HistoryInv => FrozenEqualsLive
  <2> DEFINE i == [net |-> net, opening |-> opening, currency |-> currency]
  <2> SUFFICES ASSUME HistoryInv, ~overlapped, ~Busy, IsHistoryUsable(currency),
                      NEW r \in history, PayDate(r.period) < missed
      PROVE  r \in RowsAfter(i, {}, Period)
    BY DEF FrozenEqualsLive
  <2>1. Agrees(r) /\ r.currency = currency
    BY HeldIdle DEF HistoryInv, IsHistoryUsable
  <2>2. r \in Row /\ i \in Inputs /\ r.period \in Period /\ r.period >= 1
    BY HistoryAssumption DEF HistoryInv, HistoryTyped, Row, Inputs, Period
  <2>3. First({}) = 1 /\ Seed(i, {}) = opening
    BY DEF First, Seed
  <2>4. i.net = net /\ i.currency = currency
    OBVIOUS
  <2> HIDE DEF i
  <2>5. RowFor(i, {}, r.period) = [period |-> r.period, net |-> net[r.period],
                                   cumulative |-> opening + Sum(net, 1..r.period),
                                   currency |-> currency]
    BY <2>3, <2>4, Zenon DEF RowFor
  <2>6. r = [period |-> r.period, net |-> r.net, cumulative |-> r.cumulative,
             currency |-> r.currency]
    BY <2>2 DEF Row
  <2>7. r = RowFor(i, {}, r.period)
    BY <2>1, <2>5, <2>6, Zenon DEF Agrees
  <2>8. RowsAfter(i, {}, Period) = {RowFor(i, {}, q) : q \in {c \in Period : c >= First({})}}
    BY RowsAfterIs
  <2> QED
    BY <2>2, <2>3, <2>7, <2>8
<1> QED
  BY <1>1, HistoryInvariant, PTL

==============================================================================
