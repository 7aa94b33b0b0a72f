----------------------------- MODULE PoolProofs -----------------------------
(***************************************************************************)
(* Proofs about AccountPool: how credentials from anywhere are matched     *)
(* with the accounts there are, for any number of accounts, batches of any *)
(* length and whatever they hold. A batch is worked through by a recursive *)
(* function; what holds along one is shown by induction over its           *)
(* positions, done with the least element of a set of numbers, for         *)
(* theorems that take an operator cannot be cited.                         *)
(***************************************************************************)
EXTENDS AccountPool, Lists, FiniteSetTheorems, WellFoundedInduction, TLAPS

-----------------------------------------------------------------------------
\* A set of numbers that is not empty has a least one.
LEMMA LeastOf ==
  ASSUME NEW T \in SUBSET Nat, T # {}
  PROVE  \E m \in T : \A k \in T : m <= k
<1> DEFINE Below == {p \in Nat \X Nat : p[1] < p[2]}
<1>1. IsWellFoundedOn(OpToRel(<, Nat), Nat)
  BY NatLessThanWellFounded
<1>2. OpToRel(<, Nat) = Below
  BY DEF OpToRel
<1>3. IsWellFoundedOn(Below, Nat)
  BY <1>1, <1>2
<1>4. \E x \in T : \A y \in T : ~ (<<y, x>> \in Below)
  <2> HIDE DEF Below
  <2> QED BY <1>3, WFMin
<1>5. ASSUME NEW x \in Nat, NEW y \in Nat, ~(<<y, x>> \in Below)
      PROVE  x <= y
  <2>1. <<y, x>> \in Nat \X Nat /\ <<y, x>>[1] = y /\ <<y, x>>[2] = x
    OBVIOUS
  <2>2. ~(y < x)
    BY <1>5, <2>1
  <2> QED BY <2>2
<1> HIDE DEF Below
<1> QED BY <1>4, <1>5

\* Induction, for a set of numbers.
LEMMA AllNumbers ==
  ASSUME NEW T \in SUBSET Nat, 0 \in T, \A n \in T : n + 1 \in T
  PROVE  T = Nat
<1> SUFFICES ASSUME Nat \ T # {} PROVE FALSE
  OBVIOUS
<1>1. PICK m \in Nat \ T : \A k \in Nat \ T : m <= k
  <2> DEFINE U == Nat \ T
  <2>1. U \in SUBSET Nat /\ U # {}
    OBVIOUS
  <2> HIDE DEF U
  <2>2. \E m \in U : \A k \in U : m <= k
    BY <2>1, LeastOf
  <2> QED BY <2>2 DEF U
<1>2. m # 0 /\ m - 1 \in Nat /\ m - 1 \notin Nat \ T
  BY <1>1
<1>3. m - 1 \in T /\ (m - 1) + 1 = m
  BY <1>2
<1> QED BY <1>1, <1>3

\* Induction, for the numbers up to n.
LEMMA AllUpTo ==
  ASSUME NEW n \in Nat, NEW S, NEW w, w[0] \in S,
         \A i \in 1 .. n : w[i - 1] \in S => w[i] \in S
  PROVE  \A i \in 0 .. n : w[i] \in S
<1> DEFINE T == {i \in Nat : i <= n => w[i] \in S}
<1>1. 0 \in T /\ T \in SUBSET Nat
  OBVIOUS
<1>2. ASSUME NEW i \in T PROVE i + 1 \in T
  <2>1. CASE i + 1 <= n
    <3>1. i + 1 \in 1 .. n /\ (i + 1) - 1 = i /\ i <= n
      BY <2>1
    <3> QED BY <3>1
  <2> QED BY <2>1
<1>3. T = Nat
  <2> HIDE DEF T
  <2> QED BY <1>1, <1>2, AllNumbers
<1> QED BY <1>3

\* w takes x through n steps.
Leads(w, n, S, x, f) ==
  /\ w \in [0 .. n -> S] /\ w[0] = x
  /\ \A i \in 1 .. n : w[i] = f[i][w[i - 1]]

\* There is a function that does.
LEMMA StepsExist ==
  ASSUME NEW n \in Nat, NEW S, NEW x \in S, NEW f \in [1 .. n -> [S -> S]]
  PROVE  \E w : Leads(w, n, S, x, f)
<1> DEFINE Sofar(m, w) == w[0] = x /\ \A i \in 1 .. m : w[i] = f[i][w[i - 1]]
           T == {m \in Nat : m <= n => \E w \in [0 .. m -> S] : Sofar(m, w)}
<1>1. 0 \in T
  <2> DEFINE w == [i \in 0 .. 0 |-> x]
  <2>1. w \in [0 .. 0 -> S] /\ Sofar(0, w)
    OBVIOUS
  <2> HIDE DEF w, Sofar
  <2> QED BY <2>1
<1>2. ASSUME NEW m \in T PROVE m + 1 \in T
  <2> SUFFICES ASSUME m + 1 <= n PROVE \E w \in [0 .. m + 1 -> S] : Sofar(m + 1, w)
    <3> HIDE DEF Sofar
    <3> QED OBVIOUS
  <2>1. m \in Nat /\ m <= n /\ m + 1 \in 1 .. n
    OBVIOUS
  <2>2. PICK v \in [0 .. m -> S] : Sofar(m, v)
    <3> HIDE DEF Sofar
    <3> QED BY <2>1
  <2> DEFINE w == [i \in 0 .. m + 1 |-> IF i = m + 1 THEN f[m + 1][v[m]] ELSE v[i]]
  <2>3. f[m + 1][v[m]] \in S
    <3>1. v[m] \in S /\ f[m + 1] \in [S -> S]
      BY <2>1
    <3> QED BY <3>1
  <2>4. w \in [0 .. m + 1 -> S]
    BY <2>1, <2>3
  <2>5. w[0] = x
    BY <2>1, <2>2
  <2>6. ASSUME NEW i \in 1 .. m + 1 PROVE w[i] = f[i][w[i - 1]]
    <3>1. CASE i = m + 1
      <4>1. i - 1 = m /\ w[i - 1] = v[m] /\ w[i] = f[m + 1][v[m]]
        BY <3>1, <2>1
      <4> QED BY <4>1, <3>1
    <3>2. CASE i # m + 1
      <4>1. i \in 1 .. m /\ w[i] = v[i] /\ w[i - 1] = v[i - 1]
        BY <3>2, <2>1
      <4> QED BY <4>1, <2>2
    <3> QED BY <3>1, <3>2
  <2>7. Sofar(m + 1, w)
    BY <2>5, <2>6
  <2> HIDE DEF w, Sofar
  <2> QED BY <2>4, <2>7
<1>3. T \in SUBSET Nat
  OBVIOUS
<1>4. T = Nat
  <2> HIDE DEF T
  <2> QED BY <1>1, <1>2, <1>3, AllNumbers
<1>5. \E w \in [0 .. n -> S] : Sofar(n, w)
  <2> HIDE DEF Sofar
  <2> QED BY <1>4
<1> QED BY <1>5 DEF Leads
\* Induction, for what the numbers up to n have in common.
LEMMA NumbersUpTo ==
  ASSUME NEW n \in Nat, NEW T, 0 \in T, \A i \in 1 .. n : i - 1 \in T => i \in T
  PROVE  \A i \in 0 .. n : i \in T
<1> DEFINE U == {i \in Nat : i <= n => i \in T}
<1>1. 0 \in U /\ U \in SUBSET Nat
  OBVIOUS
<1>2. ASSUME NEW i \in U PROVE i + 1 \in U
  <2>1. CASE i + 1 <= n
    <3>1. i + 1 \in 1 .. n /\ (i + 1) - 1 = i /\ i <= n
      BY <2>1
    <3> QED BY <3>1
  <2> QED BY <2>1
<1>3. U = Nat
  <2> HIDE DEF U
  <2> QED BY <1>1, <1>2, AllNumbers
<1> QED BY <1>3

-----------------------------------------------------------------------------
(***************************************************************************)
(* The elements of a list that are among some (Those).                     *)
(***************************************************************************)

\* The way through a list that collects them.
ThoseRun(w, list, some) ==
  /\ w[0] = <<>>
  /\ \A i \in 1 .. Len(list) :
       w[i] = IF list[i] \in some THEN Append(w[i - 1], list[i]) ELSE w[i - 1]
  /\ Those(list, some) = w[Len(list)]

\* There is one.
LEMMA ThoseRuns ==
  ASSUME NEW R, NEW list \in Seq(R), NEW some
  PROVE  \E w : ThoseRun(w, list, some)
<1> DEFINE S == Seq(R)
           Add(v, i) == IF list[i] \in some THEN Append(v, list[i]) ELSE v
           f == [i \in 1 .. Len(list) |-> [v \in S |-> Add(v, i)]]
           Runs(w) == w = [i \in 0 .. Len(list) |-> IF i = 0 THEN <<>> ELSE Add(w[i - 1], i)]
<1>1. Len(list) \in Nat /\ \A i \in 1 .. Len(list) : list[i] \in R
  OBVIOUS
<1>2. <<>> \in S
  OBVIOUS
<1>3. \A i \in 1 .. Len(list), v \in S : Add(v, i) \in S
  BY <1>1
<1> HIDE DEF S, Add
<1>4. f \in [1 .. Len(list) -> [S -> S]]
  BY <1>3
<1>5. \E w : Runs(w)
  <2> HIDE DEF f, Runs
  <2>1. PICK w \in [0 .. Len(list) -> S] :
          w[0] = <<>> /\ \A i \in 1 .. Len(list) : w[i] = f[i][w[i - 1]]
    <3>1. \E w : Leads(w, Len(list), S, <<>>, f)
      BY <1>1, <1>2, <1>4, StepsExist
    <3> QED BY <3>1 DEF Leads
  <2>2. ASSUME NEW i \in 1 .. Len(list)
        PROVE  w[i] = Add(w[i - 1], i)
    <3>1. i - 1 \in 0 .. Len(list)
      BY <1>1
    <3>2. w[i - 1] \in S
      BY <3>1
    <3> QED BY <2>1, <3>2 DEF f
  <2>3. Runs(w)
    BY <1>1, <2>1, <2>2 DEF Runs
  <2> QED BY <2>3
<1> DEFINE w == CHOOSE g : Runs(g)
<1>6. Runs(w)
  <2> HIDE DEF Runs
  <2> QED BY <1>5
<1>7. Those(list, some) = w[Len(list)]
  BY DEF Those, Add
<1> HIDE DEF w
<1>8. w[0] = <<>> /\ \A i \in 1 .. Len(list) : w[i] = Add(w[i - 1], i)
  BY <1>1, <1>6
<1> QED BY <1>7, <1>8 DEF ThoseRun, Add

\* Where each of them stood: q collects elements of the first n of a list.
Origin(q, list, some, n, at) ==
  /\ at \in [1 .. Len(q) -> 1 .. n]
  /\ \A k \in 1 .. Len(q) : list[at[k]] = q[k] /\ q[k] \in some
  /\ \A j, k \in 1 .. Len(q) : j < k => at[j] < at[k]

Picked(q, list, some, n) == \E at : Origin(q, list, some, n, at)

\* Those that are among some stand in the list in the same order, and there is
\* no more of them than of all.
LEMMA ThoseAreThere ==
  ASSUME NEW R, NEW list \in Seq(R), NEW some
  PROVE  /\ Those(list, some) \in Seq(R)
         /\ Len(Those(list, some)) <= Len(list)
         /\ Picked(Those(list, some), list, some, Len(list))
<1>1. PICK w : ThoseRun(w, list, some)
  BY ThoseRuns
<1> DEFINE n == Len(list)
           T == {i \in 0 .. n : w[i] \in Seq(R) /\ Len(w[i]) <= i
                                /\ Picked(w[i], list, some, i)}
<1>2. n \in Nat /\ \A i \in 1 .. n : list[i] \in R
  OBVIOUS
<1>3. 0 \in T
  <2>1. w[0] = <<>>
    BY <1>1 DEF ThoseRun
  <2> DEFINE z == [k \in 1 .. 0 |-> 0]
  <2>2. z \in [1 .. 0 -> 1 .. 0] /\ 1 .. 0 = {} /\ Len(<<>>) = 0
    OBVIOUS
  <2> HIDE DEF z
  <2>3. Origin(<<>>, list, some, 0, z)
    BY <2>2 DEF Origin
  <2>4. \E at : Origin(<<>>, list, some, 0, at)
    BY <2>3
  <2>5. Picked(<<>>, list, some, 0)
    BY <2>4 DEF Picked
  <2>6. <<>> \in Seq(R) /\ Len(<<>>) <= 0 /\ 0 \in 0 .. n
    BY <1>2
  <2>7. w[0] \in Seq(R) /\ Len(w[0]) <= 0 /\ Picked(w[0], list, some, 0)
    BY <2>1, <2>5, <2>6
  <2> QED BY <2>6, <2>7
<1>4. ASSUME NEW i \in 1 .. n, i - 1 \in T PROVE i \in T
  <2>1. i \in 0 .. n /\ i - 1 \in Nat /\ i \in Nat
    BY <1>2
  <2>2. w[i] = IF list[i] \in some THEN Append(w[i - 1], list[i]) ELSE w[i - 1]
    BY <1>1 DEF ThoseRun
  <2> DEFINE q == w[i - 1]
  <2>3. q \in Seq(R) /\ Len(q) <= i - 1 /\ Len(q) \in Nat
    BY <1>4
  <2>4. PICK at : Origin(q, list, some, i - 1, at)
    BY <1>4 DEF Picked
  <2> HIDE DEF q
  <2>5. CASE list[i] \in some
    <3> DEFINE p == Append(q, list[i])
               to == [k \in 1 .. Len(q) + 1 |-> IF k = Len(q) + 1 THEN i ELSE at[k]]
    <3>1. p \in Seq(R) /\ Len(p) = Len(q) + 1 /\ Len(p) <= i
      BY <1>2, <2>1, <2>3
    <3>2. \A k \in 1 .. Len(q) : at[k] \in 1 .. i - 1 /\ p[k] = q[k] /\ to[k] = at[k]
                                 /\ k # Len(q) + 1
      BY <2>3, <2>4 DEF Origin
    <3>3. p[Len(q) + 1] = list[i] /\ to[Len(q) + 1] = i /\ Len(q) + 1 \in 1 .. Len(q) + 1
      BY <1>2, <2>3
    <3> HIDE DEF p
    <3>4. to \in [1 .. Len(p) -> 1 .. i]
      <4>1. ASSUME NEW k \in 1 .. Len(q) PROVE at[k] \in 1 .. i
        <5>1. at[k] \in 1 .. i - 1
          BY <3>2
        <5> QED BY <5>1, <2>1
      <4>2. i \in 1 .. i
        BY <2>1
      <4>3. \A k \in 1 .. Len(q) + 1 : k = Len(q) + 1 \/ k \in 1 .. Len(q)
        BY <2>3
      <4>4. \A k \in 1 .. Len(q) + 1 : (IF k = Len(q) + 1 THEN i ELSE at[k]) \in 1 .. i
        BY <4>1, <4>2, <4>3
      <4> QED BY <3>1, <4>4
    <3> HIDE DEF to
    <3>5. ASSUME NEW k \in 1 .. Len(p) PROVE list[to[k]] = p[k] /\ p[k] \in some
      <4>1. CASE k = Len(q) + 1
        BY <4>1, <3>3, <2>5
      <4>2. CASE k # Len(q) + 1
        <5>1. k \in 1 .. Len(q)
          BY <4>2, <3>1, <2>3
        <5> QED BY <5>1, <3>2, <2>4 DEF Origin
      <4> QED BY <4>1, <4>2
    <3>6. ASSUME NEW j \in 1 .. Len(p), NEW k \in 1 .. Len(p), j < k PROVE to[j] < to[k]
      <4>1. j \in 1 .. Len(q)
        BY <3>1, <3>6, <2>3
      <4>2. CASE k = Len(q) + 1
        BY <4>1, <4>2, <3>2, <3>3, <2>1
      <4>3. CASE k # Len(q) + 1
        <5>1. k \in 1 .. Len(q)
          BY <4>3, <3>1, <2>3
        <5> QED BY <5>1, <4>1, <3>6, <3>2, <2>4 DEF Origin
      <4> QED BY <4>2, <4>3
    <3>7. Origin(p, list, some, i, to)
      BY <3>4, <3>5, <3>6 DEF Origin
    <3>8. w[i] = p
      BY <2>2, <2>5 DEF p, q
    <3> QED BY <3>1, <3>7, <3>8, <2>1 DEF Picked
  <2>6. CASE list[i] \notin some
    <3>1. w[i] = q
      BY <2>2, <2>6 DEF q
    <3>2. Origin(q, list, some, i, at)
      <4>1. 1 .. i - 1 \subseteq 1 .. i
        BY <2>1
      <4> QED BY <4>1, <2>4 DEF Origin
    <3>3. Len(q) <= i
      BY <2>1, <2>3
    <3> QED BY <3>1, <3>2, <3>3, <2>1, <2>3 DEF Picked
  <2> QED BY <2>5, <2>6
<1>5. n \in T
  <2> HIDE DEF T
  <2>1. \A i \in 0 .. n : i \in T
    BY <1>2, <1>3, <1>4, NumbersUpTo
  <2> QED BY <2>1, <1>2
<1> QED BY <1>1, <1>5 DEF ThoseRun

-----------------------------------------------------------------------------
(***************************************************************************)
(* The sum of the numbers in a list (Total).                               *)
(***************************************************************************)

\* The sums of its first numbers.
TotalRun(w, ns) ==
  /\ w[0] = 0
  /\ \A i \in 0 .. Len(ns) : w[i] \in Nat
  /\ \A i \in 1 .. Len(ns) : w[i] = w[i - 1] + ns[i]
  /\ Total(ns) = w[Len(ns)]

\* There are such sums.
LEMMA TotalRuns ==
  ASSUME NEW ns \in Seq(Nat)
  PROVE  \E w : TotalRun(w, ns)
<1> DEFINE Add(v, i) == v + ns[i]
           f == [i \in 1 .. Len(ns) |-> [v \in Nat |-> Add(v, i)]]
           Runs(w) == w = [i \in 0 .. Len(ns) |-> IF i = 0 THEN 0 ELSE Add(w[i - 1], i)]
<1>1. Len(ns) \in Nat /\ \A i \in 1 .. Len(ns) : ns[i] \in Nat
  OBVIOUS
<1>2. \A i \in 1 .. Len(ns), v \in Nat : Add(v, i) \in Nat
  BY <1>1
<1> HIDE DEF Add
<1>3. f \in [1 .. Len(ns) -> [Nat -> Nat]]
  BY <1>2
<1>4. \E w : Runs(w)
  <2> HIDE DEF f, Runs
  <2>1. PICK w \in [0 .. Len(ns) -> Nat] :
          w[0] = 0 /\ \A i \in 1 .. Len(ns) : w[i] = f[i][w[i - 1]]
    <3>1. \E w : Leads(w, Len(ns), Nat, 0, f)
      BY <1>1, <1>3, StepsExist
    <3> QED BY <3>1 DEF Leads
  <2>2. ASSUME NEW i \in 1 .. Len(ns) PROVE w[i] = Add(w[i - 1], i)
    <3>1. i - 1 \in 0 .. Len(ns)
      BY <1>1
    <3>2. w[i - 1] \in Nat
      BY <3>1
    <3> QED BY <2>1, <3>2 DEF f
  <2>3. Runs(w)
    BY <1>1, <2>1, <2>2 DEF Runs
  <2> QED BY <2>3
<1> DEFINE w == CHOOSE g : Runs(g)
<1>5. Runs(w)
  <2> HIDE DEF Runs
  <2> QED BY <1>4
<1>6. Total(ns) = w[Len(ns)]
  BY DEF Total, Add
<1> HIDE DEF w
<1>7. w[0] = 0 /\ \A i \in 1 .. Len(ns) : w[i] = Add(w[i - 1], i)
  BY <1>1, <1>5
<1>8. \A i \in 0 .. Len(ns) : w[i] \in Nat
  <2>1. ASSUME NEW i \in 1 .. Len(ns), w[i - 1] \in Nat PROVE w[i] \in Nat
    <3>1. w[i] = Add(w[i - 1], i)
      BY <1>7
    <3> QED BY <1>2, <2>1, <3>1
  <2>2. w[0] \in Nat
    BY <1>7
  <2> QED BY <1>1, <2>1, <2>2, AllUpTo
<1> QED BY <1>6, <1>7, <1>8 DEF TotalRun, Add

\* The sum of nothing is zero.
LEMMA TotalOfNone == Total(<<>>) = 0
<1>1. <<>> \in Seq(Nat) /\ Len(<<>>) = 0
  OBVIOUS
<1>2. PICK w : TotalRun(w, <<>>)
  BY <1>1, TotalRuns
<1> QED BY <1>1, <1>2 DEF TotalRun

\* One more number is added.
LEMMA TotalGrows ==
  ASSUME NEW ns \in Seq(Nat), NEW n \in Nat
  PROVE  Total(ns) \in Nat /\ Total(Append(ns, n)) = Total(ns) + n
<1> DEFINE ms == Append(ns, n)
<1>1. /\ ms \in Seq(Nat) /\ Len(ms) = Len(ns) + 1 /\ Len(ns) \in Nat
      /\ \A i \in 1 .. Len(ns) : ms[i] = ns[i]
      /\ ms[Len(ns) + 1] = n
  OBVIOUS
<1> HIDE DEF ms
<1>2. PICK w : TotalRun(w, ns)
  BY TotalRuns
<1>3. PICK v : TotalRun(v, ms)
  BY <1>1, TotalRuns
<1> DEFINE T == {i \in 0 .. Len(ns) : v[i] = w[i]}
<1>4. 0 \in T
  BY <1>1, <1>2, <1>3 DEF TotalRun
<1>5. ASSUME NEW i \in 1 .. Len(ns), i - 1 \in T PROVE i \in T
  <2>1. i \in 0 .. Len(ns) /\ i \in 1 .. Len(ms)
    BY <1>1
  <2>2. w[i] = w[i - 1] + ns[i] /\ v[i] = v[i - 1] + ms[i] /\ ms[i] = ns[i]
    BY <1>1, <1>2, <1>3, <2>1 DEF TotalRun
  <2> QED BY <1>5, <2>1, <2>2
<1>6. Len(ns) \in T
  <2> HIDE DEF T
  <2>1. \A i \in 0 .. Len(ns) : i \in T
    BY <1>1, <1>4, <1>5, NumbersUpTo
  <2> QED BY <2>1, <1>1
<1>7. Total(ns) = w[Len(ns)] /\ w[Len(ns)] \in Nat
  BY <1>1, <1>2 DEF TotalRun
<1>8. Total(ms) = v[Len(ns)] + n
  <2>1. Len(ms) \in 1 .. Len(ms) /\ Len(ms) - 1 = Len(ns)
    BY <1>1
  <2>2. Total(ms) = v[Len(ms)] /\ v[Len(ms)] = v[Len(ms) - 1] + ms[Len(ms)]
    BY <1>3, <2>1 DEF TotalRun
  <2> QED BY <1>1, <2>1, <2>2
<1> QED BY <1>6, <1>7, <1>8 DEF ms

\* What g says of each element of a list.
Amounts(list, g) == [i \in DOMAIN list |-> g[list[i]]]

\* It grows with the list.
LEMMA AmountsGrow ==
  ASSUME NEW R, NEW list \in Seq(R), NEW e \in R, NEW g \in [R -> Nat]
  PROVE  /\ Amounts(list, g) \in Seq(Nat)
         /\ Amounts(Append(list, e), g) = Append(Amounts(list, g), g[e])
         /\ Total(Amounts(Append(list, e), g)) = Total(Amounts(list, g)) + g[e]
<1> DEFINE l == Append(list, e)
           a == Amounts(list, g)
           b == Amounts(l, g)
           c == Append(a, g[e])
<1>1. /\ l \in Seq(R) /\ Len(l) = Len(list) + 1 /\ Len(list) \in Nat
      /\ \A i \in 1 .. Len(list) : l[i] = list[i] /\ list[i] \in R
      /\ l[Len(list) + 1] = e
      /\ DOMAIN l = 1 .. Len(list) + 1 /\ DOMAIN list = 1 .. Len(list)
  OBVIOUS
<1> HIDE DEF l
<1>2. /\ a \in [1 .. Len(list) -> Nat] /\ DOMAIN a = 1 .. Len(list)
      /\ \A i \in 1 .. Len(list) : a[i] = g[list[i]]
  BY <1>1 DEF Amounts
<1>3. /\ DOMAIN b = 1 .. Len(list) + 1 /\ b = [i \in 1 .. Len(list) + 1 |-> b[i]]
      /\ \A i \in 1 .. Len(list) + 1 : b[i] = g[l[i]]
  BY <1>1 DEF Amounts
<1> HIDE DEF a, b
<1>4. a \in Seq(Nat) /\ Len(a) = Len(list)
  BY <1>1, <1>2
<1>5. g[e] \in Nat
  OBVIOUS
<1>6. /\ c \in Seq(Nat) /\ c = [i \in 1 .. Len(list) + 1 |-> c[i]]
      /\ \A i \in 1 .. Len(list) : c[i] = a[i]
      /\ c[Len(list) + 1] = g[e]
  BY <1>1, <1>4, <1>5
<1>7. \A i \in 1 .. Len(list) + 1 : b[i] = c[i]
  <2> HIDE DEF c
  <2>1. ASSUME NEW i \in 1 .. Len(list) + 1 PROVE b[i] = c[i]
    <3>1. CASE i = Len(list) + 1
      BY <3>1, <1>1, <1>3, <1>6
    <3>2. CASE i # Len(list) + 1
      <4>1. i \in 1 .. Len(list)
        <5>1. Len(list) \in Nat
          OBVIOUS
        <5> QED BY <3>2, <5>1
      <4>2. b[i] = g[l[i]]
        BY <1>3
      <4>3. l[i] = list[i] /\ a[i] = g[list[i]] /\ c[i] = a[i]
        BY <4>1, <1>1, <1>2, <1>6
      <4> QED BY <4>2, <4>3
    <3> QED BY <3>1, <3>2
  <2> QED BY <2>1
<1>8. b = c
  <2> HIDE DEF c
  <2> QED BY <1>3, <1>6, <1>7
<1>9. Total(c) = Total(a) + g[e]
  BY <1>4, <1>5, TotalGrows
<1> QED BY <1>4, <1>8, <1>9 DEF a, b, l

\* What is left out of a list is not missed in a sum to which it adds nothing.
LEMMA NothingIsMissed ==
  ASSUME NEW R, NEW list \in Seq(R), NEW g \in [R -> Nat], NEW some,
         \A i \in 1 .. Len(list) : list[i] \notin some => g[list[i]] = 0
  PROVE  Total(Amounts(Those(list, some), g)) = Total(Amounts(list, g))
<1> DEFINE ns == Amounts(list, g)
           n == Len(list)
<1>1. /\ n \in Nat /\ DOMAIN list = 1 .. n
      /\ \A i \in 1 .. n : list[i] \in R
  OBVIOUS
<1>2. ns \in Seq(Nat) /\ Len(ns) = n /\ \A i \in 1 .. n : ns[i] = g[list[i]]
  <2>1. ns = [i \in 1 .. n |-> g[list[i]]] /\ \A i \in 1 .. n : g[list[i]] \in Nat
    BY <1>1 DEF Amounts
  <2> HIDE DEF n, ns
  <2>2. ns \in [1 .. n -> Nat]
    BY <2>1
  <2> QED BY <1>1, <2>1, <2>2
<1>3. PICK w : ThoseRun(w, list, some)
  BY ThoseRuns
<1>4. PICK u : TotalRun(u, ns)
  BY <1>2, TotalRuns
<1> HIDE DEF ns
<1> DEFINE T == {i \in 0 .. n : w[i] \in Seq(R) /\ Total(Amounts(w[i], g)) = u[i]}
<1>5. 0 \in T
  <2>1. w[0] = <<>> /\ u[0] = 0 /\ <<>> \in Seq(R)
    BY <1>3, <1>4 DEF ThoseRun, TotalRun
  <2>2. Amounts(<<>>, g) = <<>>
    BY DEF Amounts
  <2>3. w[0] \in Seq(R) /\ Total(Amounts(w[0], g)) = u[0]
    BY <2>1, <2>2, TotalOfNone
  <2> QED BY <1>1, <2>3
<1>6. ASSUME NEW i \in 1 .. n, i - 1 \in T PROVE i \in T
  <2>1. i \in 0 .. n /\ i - 1 \in 0 .. n
    BY <1>1
  <2>2. w[i] = IF list[i] \in some THEN Append(w[i - 1], list[i]) ELSE w[i - 1]
    BY <1>3 DEF ThoseRun
  <2>3. u[i] = u[i - 1] + ns[i] /\ ns[i] = g[list[i]] /\ u[i - 1] \in Nat
    BY <1>2, <1>4, <2>1 DEF TotalRun
  <2> DEFINE q == w[i - 1]
             e == list[i]
  <2>4. q \in Seq(R) /\ Total(Amounts(q, g)) = u[i - 1] /\ e \in R
    BY <1>1, <1>6
  <2> HIDE DEF q, e
  <2>5. Append(q, e) \in Seq(R) /\ Total(Amounts(Append(q, e), g)) = u[i - 1] + g[e]
    BY <2>4, AmountsGrow
  <2>6. CASE e \in some
    <3>1. w[i] = Append(q, e)
      BY <2>2, <2>6 DEF q, e
    <3>2. w[i] \in Seq(R) /\ Total(Amounts(w[i], g)) = u[i]
      BY <3>1, <2>3, <2>5 DEF e
    <3> QED BY <3>2, <2>1
  <2>7. CASE e \notin some
    <3>1. w[i] = q
      BY <2>2, <2>7 DEF q, e
    <3>2. g[e] = 0
      BY <2>7 DEF e
    <3>3. u[i] = u[i - 1]
      BY <2>3, <3>2 DEF e
    <3>4. w[i] \in Seq(R) /\ Total(Amounts(w[i], g)) = u[i]
      BY <3>1, <3>3, <2>4
    <3> QED BY <3>4, <2>1
  <2> QED BY <2>6, <2>7
<1>7. n \in T
  <2> HIDE DEF T, n
  <2>1. \A i \in 0 .. n : i \in T
    BY <1>1, <1>5, <1>6, NumbersUpTo
  <2> QED BY <2>1, <1>1
<1>8. Total(Amounts(w[n], g)) = u[n] /\ Those(list, some) = w[n]
  BY <1>3, <1>7 DEF ThoseRun
<1>9. Total(ns) = u[n]
  BY <1>2, <1>4 DEF TotalRun
<1> QED BY <1>8, <1>9 DEF ns

-----------------------------------------------------------------------------
(***************************************************************************)
(* An official account is in the pool once. The inductive invariant says   *)
(* so of the pool, of the backup and of what a restore session would put   *)
(* in the pool's place, and with it that ids of the store are not given    *)
(* twice, on which the matching of entries rests.                          *)
(***************************************************************************)
\* An account, however many were ever made; what comes in is one or a candidate.
AnyAccount == [id : Nat \ {0}, official : Official \cup {Unknown}, token : Token,
               login : Login \cup {Unknown}, own : BOOLEAN]
Incoming == {c \in Candidate \cup AnyAccount :
               c.official \in Official \cup {Unknown} /\ c.token \in Token
                 /\ c.login \in Login \cup {Unknown}}

\* Accounts of which no two share an official id or an id of the store.
SoundPool(as, n) ==
  /\ as \subseteq AnyAccount
  /\ \A a \in as : a.id <= n
  /\ \A a, b \in as : (a.official = b.official /\ a.official # Unknown) => a = b
  /\ \A a, b \in as : a.id = b.id => a = b

\* A sound pool on its way through an import that began at n.
Pools(n) == {w \in [ok : BOOLEAN, as : SUBSET AnyAccount, n : Nat] :
               SoundPool(w.as, w.n) /\ n <= w.n}

\* Candidates and accounts come in.
LEMMA WhatComesIn ==
  Candidate \subseteq Incoming /\ AnyAccount \subseteq Incoming
BY DEF Candidate, AnyAccount, Incoming

\* What is found is in the pool; an official id that is in it is found.
LEMMA FoundFacts ==
  ASSUME NEW as, NEW c
  PROVE  /\ Found(as, c) \subseteq as
         /\ Found(as, c) # {} => Match(as, c) \in Found(as, c)
         /\ \A a \in as : c.official # Unknown /\ a.official = c.official =>
              a \in Found(as, c) /\ \A b \in Found(as, c) : b.official = c.official
<1>1. Found(as, c) # {} => Match(as, c) \in Found(as, c)
  BY DEF Match
<1>2. Found(as, c) \subseteq as
  BY DEF Found, ByOfficial, ByLogin, ByIdentity
<1>3. ASSUME NEW a \in as, c.official # Unknown, a.official = c.official
      PROVE  a \in Found(as, c) /\ \A b \in Found(as, c) : b.official = c.official
  <2>1. a \in ByOfficial(as, c)
    BY <1>3 DEF ByOfficial
  <2>2. Found(as, c) = ByOfficial(as, c)
    BY <2>1 DEF Found
  <2> QED BY <2>1, <2>2 DEF ByOfficial
<1> QED BY <1>1, <1>2, <1>3

\* A rotated account is the account of its id, under the official id that came.
LEMMA RotatedFacts ==
  ASSUME NEW a \in AnyAccount, NEW c \in Incoming
  PROVE  /\ Rotated(a, c) \in AnyAccount /\ Rotated(a, c).id = a.id
         /\ Rotated(a, c).official = c.official /\ Rotated(a, c).own = a.own
BY DEF Rotated, AnyAccount, Incoming

\* Refreshing one account keeps a pool sound.
LEMMA RefreshedIsSound ==
  ASSUME NEW n \in Nat, NEW as, SoundPool(as, n), NEW c \in Incoming, Found(as, c) # {}
  PROVE  SoundPool(Refreshed(as, c), n)
<1> DEFINE a == Match(as, c)
           r == Rotated(a, c)
<1>1. a \in as /\ a \in Found(as, c) /\ a \in AnyAccount /\ a.id <= n
  BY FoundFacts DEF SoundPool
<1>2. r \in AnyAccount /\ r.id = a.id /\ r.official = c.official
  BY <1>1, RotatedFacts
<1>3. Refreshed(as, c) = (as \ {a}) \cup {r}
  BY DEF Refreshed
<1>4. ASSUME NEW b \in as, c.official # Unknown, b.official = c.official PROVE b = a
  <2>1. a.official = c.official
    BY <1>1, <1>4, FoundFacts
  <2> QED BY <1>1, <1>4, <2>1 DEF SoundPool
<1> HIDE DEF a, r
<1>5. ASSUME NEW b \in as, b # a
      PROVE  b.id # r.id /\ ~(b.official = r.official /\ r.official # Unknown)
  <2>1. b.id # a.id
    BY <1>1, <1>5 DEF SoundPool
  <2> QED BY <1>2, <1>4, <1>5, <2>1
<1> DEFINE new == (as \ {a}) \cup {r}
<1>6. new \subseteq AnyAccount /\ \A b \in new : b.id <= n
  BY <1>1, <1>2 DEF SoundPool
<1>7. \A b \in new : b = r \/ (b \in as /\ b # a)
  OBVIOUS
<1> HIDE DEF new
<1>8. ASSUME NEW b \in new, NEW d \in new,
             b.id = d.id \/ (b.official = d.official /\ b.official # Unknown)
      PROVE  b = d
  <2>1. CASE b \in as /\ d \in as
    BY <1>8, <2>1 DEF SoundPool
  <2>2. CASE b = r
    BY <1>5, <1>7, <1>8, <2>2
  <2>3. CASE d = r
    BY <1>5, <1>7, <1>8, <2>3
  <2> QED BY <1>7, <2>1, <2>2, <2>3
<1>9. SoundPool(new, n)
  BY <1>6, <1>8 DEF SoundPool
<1> QED BY <1>3, <1>9 DEF new

\* So does a new one, with the next id, when nothing is found.
LEMMA GrownIsSound ==
  ASSUME NEW n \in Nat, NEW as, SoundPool(as, n), NEW c, Found(as, c) = {},
         NEW new \in AnyAccount, new.id = n + 1, new.official = c.official
  PROVE  SoundPool(as \cup {new}, n + 1)
<1>1. ASSUME NEW a \in as PROVE a \in AnyAccount /\ a.id \in Nat /\ a.id <= n
  <2>1. a \in AnyAccount /\ a.id <= n
    BY DEF SoundPool
  <2> QED BY <2>1 DEF AnyAccount
<1>2. ASSUME NEW a \in as
      PROVE  a.id # new.id /\ ~(a.official = new.official /\ new.official # Unknown)
  <2>1. a.id \in Nat /\ a.id <= n
    BY <1>1
  <2>2. a.id # n + 1
    BY <2>1
  <2>3. ~(a.official = c.official /\ c.official # Unknown)
    BY FoundFacts
  <2> QED BY <2>2, <2>3
<1> DEFINE grown == as \cup {new}
<1>3. ASSUME NEW a \in grown PROVE a \in AnyAccount /\ a.id <= n + 1
  <2>1. CASE a \in as
    <3>1. a \in AnyAccount /\ a.id \in Nat /\ a.id <= n
      BY <1>1, <2>1
    <3> QED BY <3>1
  <2>2. CASE a = new
    BY <2>2
  <2> QED BY <2>1, <2>2
<1>4. ASSUME NEW a \in grown, NEW b \in grown,
             a.id = b.id \/ (a.official = b.official /\ a.official # Unknown)
      PROVE  a = b
  <2>1. CASE a \in as /\ b \in as
    BY <1>4, <2>1 DEF SoundPool
  <2>2. CASE a = new \/ b = new
    BY <1>2, <1>4, <2>2
  <2> QED BY <2>1, <2>2
<1> HIDE DEF grown
<1>5. SoundPool(grown, n + 1)
  BY <1>3, <1>4 DEF SoundPool
<1> QED BY <1>5 DEF grown

\* One candidate, or one account of a backup, taken into a sound pool leaves it sound
\* (import_parsed, apply_restore).
LEMMA TakenIsSound ==
  ASSUME NEW n \in Nat, NEW w \in Pools(n), NEW c \in Incoming
  PROVE  /\ c \in Candidate => Take(w, c) \in Pools(n)
         /\ c \in AnyAccount => AddBack(w, c) \in Pools(n)
<1>1. /\ w \in [ok : BOOLEAN, as : SUBSET AnyAccount, n : Nat]
      /\ SoundPool(w.as, w.n) /\ w.n \in Nat /\ n <= w.n
  BY DEF Pools
<1>2. [w EXCEPT !.ok = FALSE] \in Pools(n)
  BY <1>1 DEF Pools
<1>3. ASSUME Found(w.as, c) # {}
      PROVE  [w EXCEPT !.as = Refreshed(w.as, c)] \in Pools(n)
  <2> DEFINE as == Refreshed(w.as, c)
             v == [w EXCEPT !.as = as]
  <2>1. SoundPool(as, w.n)
    BY <1>1, <1>3, RefreshedIsSound
  <2>2. as \in SUBSET AnyAccount
    BY <2>1 DEF SoundPool
  <2> HIDE DEF as
  <2>3. v \in [ok : BOOLEAN, as : SUBSET AnyAccount, n : Nat] /\ v.as = as /\ v.n = w.n
    BY <1>1, <2>2
  <2> HIDE DEF v
  <2>4. v \in Pools(n)
    BY <1>1, <2>1, <2>3 DEF Pools
  <2> QED BY <2>4 DEF v, as
<1>4. ASSUME NEW new \in AnyAccount, new.id = w.n + 1, new.official = c.official,
             Found(w.as, c) = {}
      PROVE  [ok |-> TRUE, n |-> w.n + 1, as |-> w.as \cup {new}] \in Pools(n)
  <2> DEFINE as == w.as \cup {new}
             v == [ok |-> TRUE, n |-> w.n + 1, as |-> as]
  <2>1. SoundPool(as, w.n + 1)
    BY <1>1, <1>4, GrownIsSound
  <2>2. as \in SUBSET AnyAccount
    BY <2>1 DEF SoundPool
  <2> HIDE DEF as
  <2>3. v.as = as /\ v.n = w.n + 1
    OBVIOUS
  <2>4. v \in [ok : BOOLEAN, as : SUBSET AnyAccount, n : Nat]
    <3>1. w.n + 1 \in Nat
      BY <1>1
    <3> QED BY <2>2, <3>1
  <2> HIDE DEF v
  <2>5. n <= v.n
    BY <1>1, <2>3
  <2>6. v \in Pools(n)
    BY <2>1, <2>3, <2>4, <2>5 DEF Pools
  <2> QED BY <2>6 DEF v, as
<1>5. c \in Candidate => Take(w, c) \in Pools(n)
  <2>1. ASSUME c \in Candidate
        PROVE  /\ New(w.n + 1, c) \in AnyAccount /\ New(w.n + 1, c).id = w.n + 1
               /\ New(w.n + 1, c).official = c.official
    BY <1>1, <2>1 DEF New, AnyAccount, Candidate
  <2> QED BY <1>2, <1>3, <1>4, <2>1 DEF Take
<1>6. c \in AnyAccount => AddBack(w, c) \in Pools(n)
  <2>1. ASSUME c \in AnyAccount
        PROVE  /\ [c EXCEPT !.id = w.n + 1] \in AnyAccount
               /\ [c EXCEPT !.id = w.n + 1].id = w.n + 1
               /\ [c EXCEPT !.id = w.n + 1].official = c.official
    BY <1>1, <2>1 DEF AnyAccount
  <2> QED BY <1>2, <1>3, <1>4, <2>1 DEF AddBack
<1> QED BY <1>5, <1>6

\* The pools of an import.
ImportRun(w, n, as, batch) ==
  /\ w[0] = [ok |-> TRUE, as |-> as, n |-> n]
  /\ \A i \in 0 .. Len(batch) : w[i] \in Pools(n)
  /\ \A i \in 1 .. Len(batch) : w[i] = Take(w[i - 1], batch[i])
  /\ Imported(as, n, batch) = w[Len(batch)]

\* Every pool on the way of an import is sound.
LEMMA ImportRuns ==
  ASSUME NEW n \in Nat, NEW as, SoundPool(as, n), NEW batch \in Seq(Candidate)
  PROVE  \E w : ImportRun(w, n, as, batch)
<1> DEFINE S == Pools(n)
           x == [ok |-> TRUE, as |-> as, n |-> n]
           f == [i \in 1 .. Len(batch) |-> [v \in S |-> Take(v, batch[i])]]
           Runs(w) == w = [i \in 0 .. Len(batch) |->
                             IF i = 0 THEN x ELSE Take(w[i - 1], batch[i])]
<1>1. Len(batch) \in Nat /\ \A i \in 1 .. Len(batch) : batch[i] \in Candidate
  OBVIOUS
<1>2. x \in S
  <2>1. as \in SUBSET AnyAccount
    BY DEF SoundPool
  <2>2. x \in [ok : BOOLEAN, as : SUBSET AnyAccount, n : Nat] /\ x.as = as /\ x.n = n
    BY <2>1
  <2>3. n <= x.n
    BY <2>2
  <2> HIDE DEF x
  <2> QED BY <2>2, <2>3 DEF Pools
<1>3. \A i \in 1 .. Len(batch), v \in S : Take(v, batch[i]) \in S
  BY <1>1, TakenIsSound, WhatComesIn
<1> HIDE DEF S, x
<1>4. f \in [1 .. Len(batch) -> [S -> S]]
  BY <1>3
<1>5. \E w : Runs(w)
  <2> HIDE DEF f, Runs
  <2>1. PICK w \in [0 .. Len(batch) -> S] :
          w[0] = x /\ \A i \in 1 .. Len(batch) : w[i] = f[i][w[i - 1]]
    <3>1. \E w : Leads(w, Len(batch), S, x, f)
      BY <1>1, <1>2, <1>4, StepsExist
    <3> QED BY <3>1 DEF Leads
  <2>2. ASSUME NEW i \in 1 .. Len(batch) PROVE w[i] = Take(w[i - 1], batch[i])
    <3>1. i - 1 \in 0 .. Len(batch)
      BY <1>1
    <3>2. w[i - 1] \in S
      BY <3>1
    <3> QED BY <2>1, <3>2 DEF f
  <2>3. Runs(w)
    BY <1>1, <2>1, <2>2 DEF Runs
  <2> QED BY <2>3
<1> DEFINE w == CHOOSE g : Runs(g)
<1>6. Runs(w)
  <2> HIDE DEF Runs
  <2> QED BY <1>5
<1>7. Imported(as, n, batch) = w[Len(batch)]
  BY DEF Imported, x
<1> HIDE DEF w
<1>8. w[0] = x /\ \A i \in 1 .. Len(batch) : w[i] = Take(w[i - 1], batch[i])
  BY <1>1, <1>6
<1>9. \A i \in 0 .. Len(batch) : w[i] \in S
  BY <1>1, <1>2, <1>3, <1>8, AllUpTo
<1> QED BY <1>7, <1>8, <1>9 DEF S, x, ImportRun

\* The pools of a merge.
MergeRun(w, n, as, batch) ==
  /\ w[0] = [ok |-> TRUE, as |-> as, n |-> n]
  /\ \A i \in 0 .. Len(batch) : w[i] \in Pools(n)
  /\ \A i \in 1 .. Len(batch) : w[i] = AddBack(w[i - 1], batch[i])
  /\ Merged(as, n, batch) = w[Len(batch)]

\* Every pool on the way of a merge is sound.
LEMMA MergeRuns ==
  ASSUME NEW n \in Nat, NEW as, SoundPool(as, n), NEW batch \in Seq(AnyAccount)
  PROVE  \E w : MergeRun(w, n, as, batch)
<1> DEFINE S == Pools(n)
           x == [ok |-> TRUE, as |-> as, n |-> n]
           f == [i \in 1 .. Len(batch) |-> [v \in S |-> AddBack(v, batch[i])]]
           Runs(w) == w = [i \in 0 .. Len(batch) |->
                             IF i = 0 THEN x ELSE AddBack(w[i - 1], batch[i])]
<1>1. Len(batch) \in Nat /\ \A i \in 1 .. Len(batch) : batch[i] \in AnyAccount
  OBVIOUS
<1>2. x \in S
  <2>1. as \in SUBSET AnyAccount
    BY DEF SoundPool
  <2>2. x \in [ok : BOOLEAN, as : SUBSET AnyAccount, n : Nat] /\ x.as = as /\ x.n = n
    BY <2>1
  <2>3. n <= x.n
    BY <2>2
  <2> HIDE DEF x
  <2> QED BY <2>2, <2>3 DEF Pools
<1>3. \A i \in 1 .. Len(batch), v \in S : AddBack(v, batch[i]) \in S
  BY <1>1, TakenIsSound, WhatComesIn
<1> HIDE DEF S, x
<1>4. f \in [1 .. Len(batch) -> [S -> S]]
  BY <1>3
<1>5. \E w : Runs(w)
  <2> HIDE DEF f, Runs
  <2>1. PICK w \in [0 .. Len(batch) -> S] :
          w[0] = x /\ \A i \in 1 .. Len(batch) : w[i] = f[i][w[i - 1]]
    <3>1. \E w : Leads(w, Len(batch), S, x, f)
      BY <1>1, <1>2, <1>4, StepsExist
    <3> QED BY <3>1 DEF Leads
  <2>2. ASSUME NEW i \in 1 .. Len(batch) PROVE w[i] = AddBack(w[i - 1], batch[i])
    <3>1. i - 1 \in 0 .. Len(batch)
      BY <1>1
    <3>2. w[i - 1] \in S
      BY <3>1
    <3> QED BY <2>1, <3>2 DEF f
  <2>3. Runs(w)
    BY <1>1, <2>1, <2>2 DEF Runs
  <2> QED BY <2>3
<1> DEFINE w == CHOOSE g : Runs(g)
<1>6. Runs(w)
  <2> HIDE DEF Runs
  <2> QED BY <1>5
<1>7. Merged(as, n, batch) = w[Len(batch)]
  BY DEF Merged, x
<1> HIDE DEF w
<1>8. w[0] = x /\ \A i \in 1 .. Len(batch) : w[i] = AddBack(w[i - 1], batch[i])
  BY <1>1, <1>6
<1>9. \A i \in 0 .. Len(batch) : w[i] \in S
  BY <1>1, <1>2, <1>3, <1>8, AllUpTo
<1> QED BY <1>7, <1>8, <1>9 DEF S, x, MergeRun

\* The pools of a local refresh.
FreshenRun(w, n, as, batch) ==
  /\ w[0] = as
  /\ \A i \in 0 .. Len(batch) : w[i] \in {v \in SUBSET AnyAccount : SoundPool(v, n)}
  /\ \A i \in 1 .. Len(batch) : w[i] = Freshen(w[i - 1], batch[i])
  /\ Freshened(as, batch) = w[Len(batch)]

\* Every pool on the way of a local refresh is sound.
LEMMA FreshenRuns ==
  ASSUME NEW n \in Nat, NEW as, SoundPool(as, n), NEW batch \in Seq(Candidate)
  PROVE  \E w : FreshenRun(w, n, as, batch)
<1> DEFINE S == {v \in SUBSET AnyAccount : SoundPool(v, n)}
           x == as
           f == [i \in 1 .. Len(batch) |-> [v \in S |-> Freshen(v, batch[i])]]
           Runs(w) == w = [i \in 0 .. Len(batch) |->
                             IF i = 0 THEN x ELSE Freshen(w[i - 1], batch[i])]
<1>1. Len(batch) \in Nat /\ \A i \in 1 .. Len(batch) : batch[i] \in Candidate
  OBVIOUS
<1>2. x \in S
  BY DEF SoundPool
<1>3. \A i \in 1 .. Len(batch), v \in S : Freshen(v, batch[i]) \in S
  <2> SUFFICES ASSUME NEW i \in 1 .. Len(batch), NEW v \in S
               PROVE  Freshen(v, batch[i]) \in S
    OBVIOUS
  <2>1. batch[i] \in Incoming
    BY <1>1, WhatComesIn
  <2>2. Found(v, batch[i]) # {} => SoundPool(Refreshed(v, batch[i]), n)
    BY <2>1, RefreshedIsSound
  <2>3. Found(v, batch[i]) # {} => Refreshed(v, batch[i]) \in SUBSET AnyAccount
    BY <2>2 DEF SoundPool
  <2> QED BY <2>2, <2>3 DEF Freshen
<1> HIDE DEF S, x
<1>4. f \in [1 .. Len(batch) -> [S -> S]]
  BY <1>3
<1>5. \E w : Runs(w)
  <2> HIDE DEF f, Runs
  <2>1. PICK w \in [0 .. Len(batch) -> S] :
          w[0] = x /\ \A i \in 1 .. Len(batch) : w[i] = f[i][w[i - 1]]
    <3>1. \E w : Leads(w, Len(batch), S, x, f)
      BY <1>1, <1>2, <1>4, StepsExist
    <3> QED BY <3>1 DEF Leads
  <2>2. ASSUME NEW i \in 1 .. Len(batch) PROVE w[i] = Freshen(w[i - 1], batch[i])
    <3>1. i - 1 \in 0 .. Len(batch)
      BY <1>1
    <3>2. w[i - 1] \in S
      BY <3>1
    <3> QED BY <2>1, <3>2 DEF f
  <2>3. Runs(w)
    BY <1>1, <2>1, <2>2 DEF Runs
  <2> QED BY <2>3
<1> DEFINE w == CHOOSE g : Runs(g)
<1>6. Runs(w)
  <2> HIDE DEF Runs
  <2> QED BY <1>5
<1>7. Freshened(as, batch) = w[Len(batch)]
  BY DEF Freshened, x
<1> HIDE DEF w
<1>8. w[0] = x /\ \A i \in 1 .. Len(batch) : w[i] = Freshen(w[i - 1], batch[i])
  BY <1>1, <1>6
<1>9. \A i \in 0 .. Len(batch) : w[i] \in S
  BY <1>1, <1>2, <1>3, <1>8, AllUpTo
<1> QED BY <1>7, <1>8, <1>9 DEF S, x, FreshenRun

\* The accounts of a set can be listed by their ids, lowest first, as a backup does.
Rises(s) == \A i, j \in DOMAIN s : i < j => s[i].id < s[j].id
CanBeListed(as) == IsFiniteSet(as) /\ \E s \in [1 .. Cardinality(as) -> as] : Rises(s)

\* A part of a sound pool is sound, also when more ids were drawn.
LEMMA PartIsSound ==
  ASSUME NEW n \in Nat, NEW m \in Nat, n <= m, NEW as, SoundPool(as, n),
         NEW part \in SUBSET as
  PROVE  SoundPool(part, m)
<1>1. ASSUME NEW a \in part PROVE a \in AnyAccount /\ a.id <= m
  <2>1. a \in as /\ a \in AnyAccount /\ a.id <= n
    BY DEF SoundPool
  <2>2. a.id \in Nat
    BY <2>1 DEF AnyAccount
  <2> QED BY <2>1, <2>2
<1>2. \A a, b \in part :
        /\ (a.official = b.official /\ a.official # Unknown) => a = b
        /\ a.id = b.id => a = b
  BY DEF SoundPool
<1> QED BY <1>1, <1>2 DEF SoundPool

\* An account with an id above all others goes to the end of the list.
LEMMA ListedOneMore ==
  ASSUME NEW m \in Nat, NEW rest, NEW a \in AnyAccount, SoundPool(rest, m), a.id = m + 1,
         CanBeListed(rest)
  PROVE  CanBeListed(rest \cup {a})
<1> DEFINE as == rest \cup {a}
           k == Cardinality(rest)
<1>1. ASSUME NEW b \in rest PROVE b.id \in Nat /\ b.id < a.id
  <2>1. b \in AnyAccount /\ b.id <= m
    BY DEF SoundPool
  <2>2. b.id \in Nat
    BY <2>1 DEF AnyAccount
  <2> QED BY <2>1, <2>2
<1>2. a \notin rest
  BY <1>1 DEF AnyAccount
<1>3. IsFiniteSet(rest) /\ k \in Nat
  BY FS_CardinalityType DEF CanBeListed
<1>4. IsFiniteSet(as) /\ Cardinality(as) = k + 1
  BY <1>2, <1>3, FS_AddElement
<1>5. PICK s \in [1 .. k -> rest] : Rises(s)
  BY DEF CanBeListed
<1> HIDE DEF k
<1> DEFINE t == [i \in 1 .. k + 1 |-> IF i = k + 1 THEN a ELSE s[i]]
<1>6. t \in [1 .. k + 1 -> as]
  <2>1. ASSUME NEW i \in 1 .. k + 1, i # k + 1 PROVE s[i] \in rest
    <3>1. i \in 1 .. k
      BY <1>3, <2>1
    <3> QED BY <3>1
  <2> QED BY <2>1
<1>7. ASSUME NEW i \in 1 .. k + 1, NEW j \in 1 .. k + 1, i < j
      PROVE  t[i].id < t[j].id
  <2>1. i \in 1 .. k /\ i # k + 1 /\ t[i] = s[i] /\ s[i] \in rest
    BY <1>3, <1>7
  <2>2. CASE j = k + 1
    <3>1. t[j] = a
      BY <2>2
    <3> QED BY <1>1, <2>1, <3>1
  <2>3. CASE j # k + 1
    <3>1. j \in 1 .. k /\ t[j] = s[j]
      BY <1>3, <2>3
    <3> QED BY <1>5, <1>7, <2>1, <3>1 DEF Rises
  <2> QED BY <2>2, <2>3
<1>8. Rises(t)
  BY <1>7 DEF Rises
<1> HIDE DEF t, as
<1>9. CanBeListed(as)
  BY <1>4, <1>6, <1>8 DEF CanBeListed
<1> QED BY <1>9 DEF as

\* Every sound pool is finite and can be listed.
LEMMA AllCanBeListed ==
  ASSUME NEW n \in Nat, NEW as, SoundPool(as, n)
  PROVE  CanBeListed(as)
<1> DEFINE T == {m \in Nat : \A p \in SUBSET AnyAccount : SoundPool(p, m) => CanBeListed(p)}
<1>1. 0 \in T
  <2> SUFFICES ASSUME NEW p \in SUBSET AnyAccount, SoundPool(p, 0)
               PROVE  CanBeListed(p)
    OBVIOUS
  <2>1. p = {}
    <3> SUFFICES ASSUME NEW a \in p PROVE FALSE
      OBVIOUS
    <3>1. a.id \in Nat \ {0} /\ a.id <= 0
      BY DEF SoundPool, AnyAccount
    <3> QED BY <3>1
  <2>2. IsFiniteSet(p) /\ Cardinality(p) = 0
    BY <2>1, FS_EmptySet
  <2> DEFINE s == [i \in 1 .. 0 |-> i]
  <2>3. s \in [1 .. 0 -> p] /\ Rises(s)
    BY DEF Rises
  <2> HIDE DEF s
  <2> QED BY <2>2, <2>3 DEF CanBeListed
<1>2. ASSUME NEW m \in T PROVE m + 1 \in T
  <2> SUFFICES ASSUME NEW p \in SUBSET AnyAccount, SoundPool(p, m + 1)
               PROVE  CanBeListed(p)
    OBVIOUS
  <2>1. m \in Nat /\ \A q \in SUBSET AnyAccount : SoundPool(q, m) => CanBeListed(q)
    OBVIOUS
  <2>2. ASSUME NEW b \in p PROVE b \in AnyAccount /\ b.id \in Nat /\ b.id <= m + 1
    BY DEF SoundPool, AnyAccount
  <2>3. ASSUME NEW q \in SUBSET p, \A b \in q : b.id # m + 1
        PROVE  SoundPool(q, m)
    <3>1. \A b \in q : b \in AnyAccount /\ b.id <= m
      BY <2>1, <2>2, <2>3
    <3> QED BY <3>1 DEF SoundPool
  <2>4. CASE \E a \in p : a.id = m + 1
    <3>1. PICK a \in p : a.id = m + 1
      BY <2>4
    <3> DEFINE rest == p \ {a}
    <3>2. \A b \in rest : b.id # m + 1
      BY <3>1 DEF SoundPool
    <3>3. SoundPool(rest, m)
      BY <2>3, <3>2
    <3>4. CanBeListed(rest)
      BY <2>1, <3>3
    <3>5. p = rest \cup {a} /\ a \in AnyAccount
      OBVIOUS
    <3> HIDE DEF rest
    <3> QED BY <2>1, <3>1, <3>3, <3>4, <3>5, ListedOneMore
  <2>5. CASE \A a \in p : a.id # m + 1
    BY <2>1, <2>3, <2>5
  <2> QED BY <2>4, <2>5
<1>3. T \in SUBSET Nat
  OBVIOUS
<1>4. T = Nat
  <2> HIDE DEF T
  <2> QED BY <1>1, <1>2, <1>3, AllNumbers
<1>5. as \in SUBSET AnyAccount
  BY DEF SoundPool
<1> QED BY <1>4, <1>5

\* A function on 1 .. k is a sequence.
LEMMA CountedIsSeq ==
  ASSUME NEW S, NEW k \in Nat, NEW s \in [1 .. k -> S]
  PROVE  s \in Seq(S)
OBVIOUS

\* What the backup lists is in it.
LEMMA ListedIsInIt ==
  ASSUME NEW n \in Nat, NEW as, SoundPool(as, n)
  PROVE  Listed(as) \in Seq(as)
<1>1. IsFiniteSet(as) /\ \E s \in [1 .. Cardinality(as) -> as] : Rises(s)
  BY AllCanBeListed DEF CanBeListed
<1>2. Listed(as) \in [1 .. Cardinality(as) -> as]
  BY <1>1 DEF Listed, Rises
<1>3. Cardinality(as) \in Nat
  BY <1>1, FS_CardinalityType
<1> QED BY <1>2, <1>3, CountedIsSeq

\* So an import, a merge and a local refresh keep a pool sound.
LEMMA RunsAreSound ==
  ASSUME NEW n \in Nat, NEW as, SoundPool(as, n)
  PROVE  /\ \A batch \in Seq(Candidate) : /\ Imported(as, n, batch) \in Pools(n)
                                          /\ SoundPool(Freshened(as, batch), n)
         /\ \A batch \in Seq(AnyAccount) : Merged(as, n, batch) \in Pools(n)
<1>1. ASSUME NEW batch \in Seq(Candidate)
      PROVE  Imported(as, n, batch) \in Pools(n) /\ SoundPool(Freshened(as, batch), n)
  <2>1. Len(batch) \in 0 .. Len(batch)
    OBVIOUS
  <2>2. Imported(as, n, batch) \in Pools(n)
    <3>1. PICK w : ImportRun(w, n, as, batch)
      BY ImportRuns
    <3> QED BY <2>1, <3>1 DEF ImportRun
  <2>3. SoundPool(Freshened(as, batch), n)
    <3>1. PICK w : FreshenRun(w, n, as, batch)
      BY FreshenRuns
    <3> QED BY <2>1, <3>1 DEF FreshenRun
  <2> QED BY <2>2, <2>3
<1>2. ASSUME NEW batch \in Seq(AnyAccount) PROVE Merged(as, n, batch) \in Pools(n)
  <2>1. Len(batch) \in 0 .. Len(batch)
    OBVIOUS
  <2>2. PICK w : MergeRun(w, n, as, batch)
    BY MergeRuns
  <2> QED BY <2>1, <2>2 DEF MergeRun
<1> QED BY <1>1, <1>2

\* What the sessions hold is in order.
SoundPreview(p, n) ==
  /\ DOMAIN p = {"kind", "batch", "mode", "items", "fresh"}
  /\ p.kind = "import" => p.batch \in Seq(Candidate)
  /\ p.kind = "restore" =>
       /\ p.batch \in Seq(AnyAccount)
       /\ SoundPool({p.batch[i] : i \in DOMAIN p.batch}, n)

\* The inductive invariant: the pool and the backup are sound, and so is the backup a
\* restore session holds.
PoolInv ==
  /\ ids \in Nat
  /\ SoundPool(accounts, ids) /\ SoundPool(exported, ids) /\ SoundPreview(preview, ids)

\* A session that ages, or sees more ids drawn, still holds the same.
LEMMA SamePreview ==
  ASSUME NEW n \in Nat, NEW m \in Nat, n <= m, NEW p, SoundPreview(p, n), NEW b
  PROVE  SoundPreview(p, m) /\ SoundPreview([p EXCEPT !.fresh = b], n)
<1>1. SoundPreview(p, m)
  BY PartIsSound DEF SoundPreview
<1> DEFINE q == [p EXCEPT !.fresh = b]
<1>2. DOMAIN q = DOMAIN p /\ q.kind = p.kind /\ q.batch = p.batch
  BY DEF SoundPreview
<1> HIDE DEF q
<1>3. SoundPreview(q, n)
  BY <1>2 DEF SoundPreview
<1> QED BY <1>1, <1>3 DEF q

\* Something was imported or merged, or nothing was.
LEMMA SavedIsSound ==
  ASSUME PoolInv, NEW w \in Pools(ids), Saves(w)
  PROVE  ids' \in Nat /\ ids <= ids' /\ SoundPool(accounts', ids')
<1>1. w.n \in Nat /\ ids <= w.n /\ SoundPool(w.as, w.n)
  BY DEF Pools
<1> QED BY <1>1 DEF Saves, PoolInv

\* The owner changes an entry.
LEMMA UpdatedIsSound ==
  ASSUME NEW n \in Nat, NEW as, SoundPool(as, n), NEW id
  PROVE  SoundPool({IF a.id = id THEN [a EXCEPT !.own = TRUE] ELSE a : a \in as}, n)
<1> DEFINE g(a) == IF a.id = id THEN [a EXCEPT !.own = TRUE] ELSE a
           now == {g(a) : a \in as}
<1>1. ASSUME NEW a \in as
      PROVE  /\ a.id <= n /\ g(a) \in AnyAccount /\ g(a).id = a.id
             /\ g(a).official = a.official
  <2>1. a \in AnyAccount /\ a.id <= n
    BY DEF SoundPool
  <2> QED BY <2>1 DEF AnyAccount
<1> HIDE DEF g
<1>2. now \subseteq AnyAccount /\ \A b \in now : b.id <= n
  BY <1>1
<1>3. ASSUME NEW b \in now, NEW d \in now,
             b.id = d.id \/ (b.official = d.official /\ b.official # Unknown)
      PROVE  b = d
  <2>1. PICK a \in as, e \in as : b = g(a) /\ d = g(e)
    OBVIOUS
  <2>2. a.id = e.id \/ (a.official = e.official /\ a.official # Unknown)
    BY <1>1, <1>3, <2>1
  <2>3. a = e
    BY <2>2 DEF SoundPool
  <2> QED BY <2>1, <2>3
<1> HIDE DEF now
<1>4. SoundPool(now, n)
  BY <1>2, <1>3 DEF SoundPool
<1> QED BY <1>4 DEF now, g

\* The invariant holds of a new store.
LEMMA PoolStart == PoolInit => PoolInv
<1> SUFFICES ASSUME PoolInit PROVE PoolInv
  OBVIOUS
<1>1. ids = 0 /\ accounts = {} /\ exported = {} /\ preview = NoSession
  BY DEF PoolInit
<1>2. SoundPool({}, 0)
  BY DEF SoundPool
<1>3. SoundPreview(NoSession, 0)
  BY DEF SoundPreview, NoSession
<1> QED BY <1>1, <1>2, <1>3 DEF PoolInv

\* Every step of the store keeps the invariant.
LEMMA PoolStep == PoolInv /\ [PoolNext]_poolVars => PoolInv'
<1> SUFFICES ASSUME PoolInv, [PoolNext]_poolVars PROVE PoolInv'
  OBVIOUS
<1>1. /\ ids \in Nat /\ SoundPool(accounts, ids) /\ SoundPool(exported, ids)
      /\ SoundPreview(preview, ids) /\ ids <= ids
  BY DEF PoolInv
<1>2. SoundPreview(NoSession, ids)
  BY DEF SoundPreview, NoSession
<1>3. Aged => \A n \in Nat : SoundPreview(preview, n) => SoundPreview(preview', n)
  BY SamePreview DEF Aged
<1>4. ASSUME NEW b \in Batch, PreviewImport(b) PROVE PoolInv'
  <2>1. b \in Seq(Candidate)
    BY BatchAssumption
  <2>2. SoundPreview(preview', ids)
    BY <1>4, <2>1 DEF PreviewImport, SoundPreview, NoSession
  <2> QED BY <1>1, <1>4, <2>2 DEF PreviewImport, PoolInv
<1>5. ASSUME NEW b \in Batch, RefreshLocal(b) PROVE PoolInv'
  <2>1. SoundPool(Freshened(accounts, b), ids)
    BY <1>1, BatchAssumption, RunsAreSound
  <2>2. /\ accounts' = Freshened(accounts, b) /\ Aged /\ ids' = ids
        /\ exported' = exported
    BY <1>5 DEF RefreshLocal
  <2>3. SoundPreview(preview', ids)
    BY <1>1, <1>3, <2>2
  <2> QED BY <1>1, <2>1, <2>2, <2>3 DEF PoolInv
<1>6. ASSUME NEW w \in Pools(ids), Saves(w), preview' = NoSession, exported' = exported
      PROVE  PoolInv'
  <2>1. ids' \in Nat /\ ids <= ids' /\ SoundPool(accounts', ids')
    BY <1>6, SavedIsSound
  <2>2. SoundPool(exported', ids')
    BY <1>1, <1>6, <2>1, PartIsSound
  <2>3. SoundPreview(preview', ids')
    BY <1>6 DEF SoundPreview, NoSession
  <2> QED BY <2>1, <2>2, <2>3 DEF PoolInv
<1>7. CASE CommitImport
  <2>1. Imported(accounts, ids, preview.batch) \in Pools(ids)
    BY <1>1, <1>7, RunsAreSound DEF CommitImport, SoundPreview
  <2> QED BY <1>6, <1>7, <2>1 DEF CommitImport
<1>8. CASE CommitMerge
  <2>1. Merged(accounts, ids, preview.batch) \in Pools(ids)
    BY <1>1, <1>8, RunsAreSound DEF CommitMerge, SoundPreview
  <2> QED BY <1>6, <1>8, <2>1 DEF CommitMerge
<1>9. CASE DropSession
  BY <1>1, <1>2, <1>9 DEF DropSession, PoolInv
<1>10. ASSUME NEW id \in 1 .. MaxIds, Update(id) PROVE PoolInv'
  <2>1. SoundPool(accounts', ids)
    BY <1>1, <1>10, UpdatedIsSound DEF Update
  <2>2. Aged /\ ids' = ids /\ exported' = exported
    BY <1>10 DEF Update
  <2>3. SoundPreview(preview', ids)
    BY <1>1, <1>3, <2>2
  <2> QED BY <1>1, <2>1, <2>2, <2>3 DEF PoolInv
<1>11. ASSUME NEW id \in 1 .. MaxIds, Delete(id) PROVE PoolInv'
  <2>1. accounts' \in SUBSET accounts /\ Aged /\ ids' = ids /\ exported' = exported
    BY <1>11 DEF Delete
  <2>2. SoundPool(accounts', ids)
    BY <1>1, <2>1, PartIsSound
  <2>3. SoundPreview(preview', ids)
    BY <1>1, <1>3, <2>1
  <2> QED BY <1>1, <2>1, <2>2, <2>3 DEF PoolInv
<1>12. CASE Backup
  BY <1>1, <1>12 DEF Backup, PoolInv
<1>13. ASSUME NEW mode, PreviewRestore(mode) PROVE PoolInv'
  <2> DEFINE batch == Listed(exported)
  <2>1. batch \in Seq(exported) /\ exported \subseteq AnyAccount
    BY <1>1, ListedIsInIt DEF SoundPool
  <2> HIDE DEF batch
  <2>2. batch \in Seq(AnyAccount) /\ {batch[i] : i \in DOMAIN batch} \in SUBSET exported
    BY <2>1
  <2>3. SoundPool({batch[i] : i \in DOMAIN batch}, ids)
    BY <1>1, <2>2, PartIsSound
  <2>4. /\ DOMAIN preview' = {"kind", "batch", "mode", "items", "fresh"}
        /\ preview'.kind = "restore" /\ preview'.batch = batch
    BY <1>13 DEF PreviewRestore, batch
  <2>5. SoundPreview(preview', ids)
    BY <2>2, <2>3, <2>4 DEF SoundPreview
  <2> QED BY <1>1, <1>13, <2>5 DEF PreviewRestore, PoolInv
<1>14. CASE CommitReplace
  <2>1. SoundPool({preview.batch[i] : i \in DOMAIN preview.batch}, ids)
    BY <1>1, <1>14 DEF CommitReplace, SoundPreview
  <2>2. SoundPool(accounts', ids)
    BY <1>1, <1>14, <2>1 DEF CommitReplace
  <2> QED BY <1>1, <1>2, <1>14, <2>2 DEF CommitReplace, PoolInv
<1>15. CASE UNCHANGED poolVars
  BY <1>1, <1>15 DEF poolVars, PoolInv
<1> QED
  BY <1>4, <1>5, <1>7, <1>8, <1>9, <1>10, <1>11, <1>12, <1>13, <1>14, <1>15, Zenon DEF PoolNext

\* However credentials come in and whatever is restored, an official account is in
\* the pool once: routing never counts one account as two (matching_account_index,
\* apply_restore).
THEOREM OfficialStaysOnce == PoolSpec => []OfficialOnce
<1>1. PoolInv => OfficialOnce
  BY DEF PoolInv, SoundPool, OfficialOnce
<1> QED BY <1>1, PoolStart, PoolStep, PTL DEF PoolSpec

-----------------------------------------------------------------------------
(***************************************************************************)
(* What comes in goes to the entry it belongs to. An entry may get another *)
(* official account's credential only through one that does not name its   *)
(* account: that one is matched by its login or its token, leaves the      *)
(* entry without an official id, and the next may put any there.           *)
(***************************************************************************)

\* The entries go on, what their owner chose stays, and if whatever comes in is
\* named, so does the official account each belongs to.
GoesOn(a, b, named) ==
  /\ b.id = a.id /\ (a.own => b.own)
  /\ (named /\ a.official # Unknown) => b.official = a.official
Onward(as, bs, named) == \A a \in as : \E b \in bs : GoesOn(a, b, named)

\* Every credential names its official account.
Named(batch) == \A i \in 1 .. Len(batch) : batch[i].official # Unknown

\* Entries that only get company go on; and going on twice is going on.
LEMMA OnwardFacts ==
  ASSUME NEW named
  PROVE  /\ \A as, bs : as \subseteq bs => Onward(as, bs, named)
         /\ \A as, bs, cs : Onward(as, bs, named) /\ Onward(bs, cs, named)
                              => Onward(as, cs, named)
<1>1. \A a : GoesOn(a, a, named)
  BY DEF GoesOn
<1>2. ASSUME NEW as, NEW bs, as \subseteq bs PROVE Onward(as, bs, named)
  BY <1>1, <1>2 DEF Onward
<1>3. \A a, b, c : GoesOn(a, b, named) /\ GoesOn(b, c, named) => GoesOn(a, c, named)
  BY DEF GoesOn
<1>4. ASSUME NEW as, NEW bs, NEW cs, Onward(as, bs, named), Onward(bs, cs, named)
      PROVE  Onward(as, cs, named)
  BY <1>3, <1>4 DEF Onward
<1> QED BY <1>2, <1>4

\* A credential that is taken goes to the account it belongs to.
LEMMA RefreshedGoesOn ==
  ASSUME NEW as \in SUBSET AnyAccount, NEW c \in Incoming, NEW named,
         named => c.official # Unknown, Found(as, c) # {}, ~Conflicts(as, c)
  PROVE  Onward(as, Refreshed(as, c), named)
<1> DEFINE a == Match(as, c)
           r == Rotated(a, c)
<1>1. a \in Found(as, c) /\ a \in as /\ a \in AnyAccount
  <2>1. Found(as, c) \subseteq as /\ Match(as, c) \in Found(as, c)
    BY FoundFacts
  <2> QED BY <2>1
<1>2. r.id = a.id /\ r.official = c.official /\ r.own = a.own
  BY <1>1, RotatedFacts
<1>3. Refreshed(as, c) = (as \ {a}) \cup {r}
  BY DEF Refreshed
<1> HIDE DEF a, r
<1>4. ASSUME c.official # Unknown, a.official # Unknown PROVE a.official = c.official
  <2>1. CASE ByOfficial(as, c) # {}
    BY <1>1, <2>1 DEF Found, ByOfficial
  <2>2. CASE ByOfficial(as, c) = {} /\ ByLogin(as, c) # {}
    <3>1. a.login = c.login /\ c.login # Unknown
      BY <1>1, <2>2 DEF Found, ByLogin
    <3>2. ~Switched(a, c)
      BY <1>1, <2>2, <3>1 DEF Conflicts
    <3> QED BY <1>4, <3>2 DEF Switched
  <2>3. CASE ByOfficial(as, c) = {} /\ ByLogin(as, c) = {}
    BY <1>1, <1>4, <2>3 DEF Found, ByIdentity, SameIdentity
  <2> QED BY <2>1, <2>2, <2>3
<1>5. GoesOn(a, r, named)
  BY <1>2, <1>4 DEF GoesOn
<1>6. ASSUME NEW b \in as PROVE \E d \in (as \ {a}) \cup {r} : GoesOn(b, d, named)
  <2>1. CASE b = a
    BY <1>5, <2>1
  <2>2. CASE b # a
    <3>1. GoesOn(b, b, named)
      BY DEF GoesOn
    <3> QED BY <2>2, <3>1
  <2> QED BY <2>1, <2>2
<1> QED BY <1>3, <1>6 DEF Onward

\* Whatever one credential, or one account of a backup, does to a pool, the entries go
\* on.
LEMMA TakenGoesOn ==
  ASSUME NEW n \in Nat, NEW w \in Pools(n), NEW c \in Incoming, NEW named,
         named => c.official # Unknown
  PROVE  /\ Onward(w.as, Take(w, c).as, named)
         /\ Onward(w.as, AddBack(w, c).as, named)
         /\ \A as \in SUBSET AnyAccount : Onward(as, Freshen(as, c), named)
<1>1. w.as \in SUBSET AnyAccount /\ w \in [ok : BOOLEAN, as : SUBSET AnyAccount, n : Nat]
  BY DEF Pools
<1>2. \A as, bs : as \subseteq bs => Onward(as, bs, named)
  BY OnwardFacts
<1>3. Found(w.as, c) # {} /\ ~Conflicts(w.as, c) => Onward(w.as, Refreshed(w.as, c), named)
  BY <1>1, RefreshedGoesOn
<1>4. /\ [w EXCEPT !.ok = FALSE].as = w.as
      /\ \A as : [w EXCEPT !.as = as].as = as
  BY <1>1
<1>5. Onward(w.as, Take(w, c).as, named)
  <2>1. CASE ~w.ok \/ Conflicts(w.as, c)
    BY <1>2, <1>4, <2>1 DEF Take
  <2>2. CASE ~(~w.ok \/ Conflicts(w.as, c)) /\ Found(w.as, c) # {}
    BY <1>3, <1>4, <2>2 DEF Take
  <2>3. CASE ~(~w.ok \/ Conflicts(w.as, c)) /\ Found(w.as, c) = {}
    BY <1>2, <1>4, <2>3 DEF Take
  <2> QED BY <2>1, <2>2, <2>3
<1>6. Onward(w.as, AddBack(w, c).as, named)
  <2>1. CASE ~w.ok \/ Conflicts(w.as, c)
    BY <1>2, <1>4, <2>1 DEF AddBack
  <2>2. CASE ~(~w.ok \/ Conflicts(w.as, c)) /\ Found(w.as, c) # {}
    BY <1>3, <1>4, <2>2 DEF AddBack
  <2>3. CASE ~(~w.ok \/ Conflicts(w.as, c)) /\ Found(w.as, c) = {}
    BY <1>2, <1>4, <2>3 DEF AddBack
  <2> QED BY <2>1, <2>2, <2>3
<1>7. ASSUME NEW as \in SUBSET AnyAccount PROVE Onward(as, Freshen(as, c), named)
  <2>1. Found(as, c) # {} /\ ~Conflicts(as, c) => Onward(as, Refreshed(as, c), named)
    BY RefreshedGoesOn
  <2> QED BY <1>2, <2>1 DEF Freshen
<1> QED BY <1>5, <1>6, <1>7

\* So they do through a whole import, local refresh or merge.
LEMMA RunsGoOn ==
  ASSUME NEW n \in Nat, NEW as, SoundPool(as, n)
  PROVE  /\ \A batch \in Seq(Candidate) :
              /\ Onward(as, Imported(as, n, batch).as, Named(batch))
              /\ Onward(as, Freshened(as, batch), Named(batch))
         /\ \A batch \in Seq(AnyAccount) :
              Onward(as, Merged(as, n, batch).as, Named(batch))
<1>1. ASSUME NEW S \in {Candidate, AnyAccount}, NEW batch \in Seq(S)
      PROVE  /\ Len(batch) \in Nat /\ Len(batch) \in 0 .. Len(batch)
             /\ \A i \in 1 .. Len(batch) :
                  /\ i - 1 \in 0 .. Len(batch) /\ i \in 0 .. Len(batch)
                  /\ batch[i] \in Incoming /\ (Named(batch) => batch[i].official # Unknown)
  <2>1. S \subseteq Incoming
    BY WhatComesIn
  <2> QED BY <2>1 DEF Named
<1>2. SoundPool(as, n) /\ as \in SUBSET AnyAccount
  BY DEF SoundPool
<1>3. ASSUME NEW batch \in Seq(Candidate)
      PROVE  Onward(as, Imported(as, n, batch).as, Named(batch))
  <2> DEFINE named == Named(batch)
             S == {v \in Pools(n) : Onward(as, v.as, named)}
  <2>1. PICK w : ImportRun(w, n, as, batch)
    BY ImportRuns
  <2>2. /\ w[0] = [ok |-> TRUE, as |-> as, n |-> n]
        /\ \A i \in 0 .. Len(batch) : w[i] \in Pools(n)
        /\ \A i \in 1 .. Len(batch) : w[i] = Take(w[i - 1], batch[i])
        /\ Imported(as, n, batch) = w[Len(batch)]
    BY <2>1 DEF ImportRun
  <2>3. w[0] \in S
    <3>1. w[0] \in Pools(n) /\ w[0].as = as
      BY <1>1, <2>2
    <3> QED BY <3>1, OnwardFacts
  <2>4. ASSUME NEW i \in 1 .. Len(batch), w[i - 1] \in S PROVE w[i] \in S
    <3>1. Onward(w[i - 1].as, w[i].as, named)
      BY <1>1, <2>2, <2>4, TakenGoesOn
    <3>2. Onward(as, w[i].as, named)
      BY <2>4, <3>1, OnwardFacts
    <3> QED BY <1>1, <2>2, <3>2
  <2> HIDE DEF S, named
  <2>5. \A i \in 0 .. Len(batch) : w[i] \in S
    BY <1>1, <2>3, <2>4, AllUpTo
  <2> QED BY <1>1, <2>2, <2>5 DEF S, named
<1>4. ASSUME NEW batch \in Seq(AnyAccount)
      PROVE  Onward(as, Merged(as, n, batch).as, Named(batch))
  <2> DEFINE named == Named(batch)
             S == {v \in Pools(n) : Onward(as, v.as, named)}
  <2>1. PICK w : MergeRun(w, n, as, batch)
    BY MergeRuns
  <2>2. /\ w[0] = [ok |-> TRUE, as |-> as, n |-> n]
        /\ \A i \in 0 .. Len(batch) : w[i] \in Pools(n)
        /\ \A i \in 1 .. Len(batch) : w[i] = AddBack(w[i - 1], batch[i])
        /\ Merged(as, n, batch) = w[Len(batch)]
    BY <2>1 DEF MergeRun
  <2>3. w[0] \in S
    <3>1. w[0] \in Pools(n) /\ w[0].as = as
      BY <1>1, <2>2
    <3> QED BY <3>1, OnwardFacts
  <2>4. ASSUME NEW i \in 1 .. Len(batch), w[i - 1] \in S PROVE w[i] \in S
    <3>1. Onward(w[i - 1].as, w[i].as, named)
      BY <1>1, <2>2, <2>4, TakenGoesOn
    <3>2. Onward(as, w[i].as, named)
      BY <2>4, <3>1, OnwardFacts
    <3> QED BY <1>1, <2>2, <3>2
  <2> HIDE DEF S, named
  <2>5. \A i \in 0 .. Len(batch) : w[i] \in S
    BY <1>1, <2>3, <2>4, AllUpTo
  <2> QED BY <1>1, <2>2, <2>5 DEF S, named
<1>5. ASSUME NEW batch \in Seq(Candidate)
      PROVE  Onward(as, Freshened(as, batch), Named(batch))
  <2> DEFINE named == Named(batch)
             S == {v \in SUBSET AnyAccount : Onward(as, v, named)}
  <2>1. PICK w : FreshenRun(w, n, as, batch)
    BY FreshenRuns
  <2>2. /\ w[0] = as
        /\ \A i \in 0 .. Len(batch) : w[i] \in SUBSET AnyAccount
        /\ \A i \in 1 .. Len(batch) : w[i] = Freshen(w[i - 1], batch[i])
        /\ Freshened(as, batch) = w[Len(batch)]
    BY <2>1 DEF FreshenRun
  <2>3. w[0] \in S
    BY <1>2, <2>2, OnwardFacts
  <2>4. ASSUME NEW i \in 1 .. Len(batch), w[i - 1] \in S PROVE w[i] \in S
    <3>1. [ok |-> TRUE, as |-> as, n |-> n] \in Pools(n)
      <4> DEFINE v == [ok |-> TRUE, as |-> as, n |-> n]
      <4>1. v \in [ok : BOOLEAN, as : SUBSET AnyAccount, n : Nat] /\ v.as = as /\ v.n = n
        BY <1>2
      <4>2. n <= v.n
        BY <4>1
      <4> HIDE DEF v
      <4>3. v \in Pools(n)
        BY <1>2, <4>1, <4>2 DEF Pools
      <4> QED BY <4>3 DEF v
    <3>2. Onward(w[i - 1], w[i], named)
      BY <1>1, <2>2, <2>4, <3>1, TakenGoesOn
    <3>3. Onward(as, w[i], named)
      BY <2>4, <3>2, OnwardFacts
    <3> QED BY <1>1, <2>2, <3>3
  <2> HIDE DEF S, named
  <2>5. \A i \in 0 .. Len(batch) : w[i] \in S
    BY <1>1, <2>3, <2>4, AllUpTo
  <2> QED BY <1>1, <2>2, <2>5 DEF S, named
<1> QED BY <1>3, <1>4, <1>5

\* Entries that go on are not switched, unless what comes in is not named.
LEMMA NotSwitched ==
  ASSUME NEW n, NEW as, NEW bs, SoundPool(bs, n), NEW named, Onward(as, bs, named),
         NEW a \in as, NEW b \in bs, a.id = b.id
  PROVE  (a.own => b.own) /\ (named => ~Switched(a, b))
<1>1. PICK d \in bs : GoesOn(a, d, named)
  BY DEF Onward
<1>2. d = b
  BY <1>1 DEF GoesOn, SoundPool
<1> QED BY <1>1, <1>2 DEF GoesOn, Switched

\* What each step of the store does to the entries it keeps.
LEMMA EntriesGoOn ==
  ASSUME PoolInv, PoolInv', [PoolNext]_poolVars, ~CommitReplace,
         NEW a \in accounts, NEW b \in accounts', a.id = b.id
  PROVE  (a.own => b.own) /\ (Switched(a, b) => NamelessComes)
<1>1. /\ ids \in Nat /\ SoundPool(accounts, ids) /\ SoundPool(accounts', ids')
      /\ SoundPreview(preview, ids)
  BY DEF PoolInv
<1>2. \A batch : (\E i \in DOMAIN batch : batch[i].official = Unknown) \/ Named(batch)
                  \/ DOMAIN batch # 1 .. Len(batch)
  BY DEF Named
<1>3. CASE accounts' \subseteq accounts
  <2>1. a = b
    BY <1>1, <1>3 DEF SoundPool
  <2> QED BY <2>1 DEF Switched
<1>4. ASSUME NEW batch, NEW w, w.as = accounts' \/ accounts' = accounts,
             Onward(accounts, w.as, Named(batch))
      PROVE  (a.own => b.own) /\ (Named(batch) => ~Switched(a, b))
  <2>1. CASE w.as = accounts'
    BY <1>1, <1>4, <2>1, NotSwitched
  <2>2. CASE accounts' = accounts
    <3>1. a = b
      BY <1>1, <2>2 DEF SoundPool
    <3> QED BY <3>1 DEF Switched
  <2> QED BY <1>4, <2>1, <2>2
<1>5. CASE CommitImport
  <2> DEFINE batch == preview.batch
             w == Imported(accounts, ids, batch)
  <2>1. batch \in Seq(Candidate) /\ DOMAIN batch = 1 .. Len(batch)
    BY <1>1, <1>5 DEF CommitImport, SoundPreview
  <2>2. Onward(accounts, w.as, Named(batch))
    BY <1>1, <2>1, RunsGoOn
  <2>3. w.as = accounts' \/ accounts' = accounts
    BY <1>5 DEF CommitImport, Saves
  <2>4. (a.own => b.own) /\ (Named(batch) => ~Switched(a, b))
    BY <1>4, <2>2, <2>3
  <2> QED BY <1>2, <1>5, <2>1, <2>4 DEF NamelessComes
<1>6. CASE CommitMerge
  <2> DEFINE batch == preview.batch
             w == Merged(accounts, ids, batch)
  <2>1. batch \in Seq(AnyAccount) /\ DOMAIN batch = 1 .. Len(batch)
    BY <1>1, <1>6 DEF CommitMerge, SoundPreview
  <2>2. Onward(accounts, w.as, Named(batch))
    BY <1>1, <2>1, RunsGoOn
  <2>3. w.as = accounts' \/ accounts' = accounts
    BY <1>6 DEF CommitMerge, Saves
  <2>4. (a.own => b.own) /\ (Named(batch) => ~Switched(a, b))
    BY <1>4, <2>2, <2>3
  <2> QED BY <1>2, <1>6, <2>1, <2>4 DEF NamelessComes
<1>7. ASSUME NEW batch \in Batch, RefreshLocal(batch)
      PROVE  (a.own => b.own) /\ (Switched(a, b) => NamelessComes)
  <2>1. batch \in Seq(Candidate) /\ DOMAIN batch = 1 .. Len(batch)
    BY BatchAssumption
  <2>2. Onward(accounts, accounts', Named(batch))
    BY <1>1, <1>7, <2>1, RunsGoOn DEF RefreshLocal
  <2>3. (a.own => b.own) /\ (Named(batch) => ~Switched(a, b))
    BY <1>1, <2>2, NotSwitched
  <2> QED BY <1>2, <1>7, <2>1, <2>3 DEF NamelessComes
<1>8. ASSUME NEW id, Update(id) PROVE (a.own => b.own) /\ ~Switched(a, b)
  <2>1. PICK e \in accounts : b = IF e.id = id THEN [e EXCEPT !.own = TRUE] ELSE e
    BY <1>8 DEF Update
  <2>2. e \in AnyAccount
    BY <1>1 DEF SoundPool
  <2>3. b.id = e.id /\ b.official = e.official /\ (e.own => b.own)
    BY <2>1, <2>2 DEF AnyAccount
  <2>4. a = e
    BY <1>1, <2>3 DEF SoundPool
  <2> QED BY <2>3, <2>4 DEF Switched
<1>9. ASSUME \/ \E batch \in Batch : PreviewImport(batch)
             \/ DropSession \/ Backup
             \/ \E id \in 1 .. MaxIds : Delete(id)
             \/ \E mode \in {"merge", "replace"} : PreviewRestore(mode)
             \/ UNCHANGED poolVars
      PROVE  accounts' \subseteq accounts
  BY <1>9 DEF PreviewImport, DropSession, Backup, Delete, PreviewRestore, poolVars
<1> QED
  BY <1>3, <1>5, <1>6, <1>7, <1>8, <1>9, Zenon DEF PoolNext

-----------------------------------------------------------------------------
(***************************************************************************)
(* An import does what its preview showed. The preview works on a copy of  *)
(* the pool and draws ids of its own, so the two pools are not equal on    *)
(* the way: they look alike, one account for one, in all that matching     *)
(* looks at.                                                               *)
(***************************************************************************)

\* The verdicts of a preview.
Verdict == {"new", "update", "conflict"}

\* A pool as a preview imagines it: its new ids are not those of the store.
Looks == [as : SUBSET AnyAccount, n : Nat, items : Seq(Verdict)]

\* One candidate more leaves it such a pool.
LEMMA LookedUp ==
  ASSUME NEW w \in Looks, NEW c \in Candidate
  PROVE  Look(w, c) \in Looks
<1>1. w.as \in SUBSET AnyAccount /\ w.n \in Nat /\ w.items \in Seq(Verdict)
  BY DEF Looks
<1>2. Found(w.as, c) # {} => Refreshed(w.as, c) \in SUBSET AnyAccount
  <2> SUFFICES ASSUME Found(w.as, c) # {} PROVE Refreshed(w.as, c) \in SUBSET AnyAccount
    OBVIOUS
  <2>1. Match(w.as, c) \in AnyAccount
    BY <1>1, FoundFacts
  <2>2. Rotated(Match(w.as, c), c) \in AnyAccount
    BY <2>1, RotatedFacts, WhatComesIn
  <2> QED BY <1>1, <2>2 DEF Refreshed
<1>3. w.as \cup {New(w.n + 1, c)} \in SUBSET AnyAccount /\ w.n + 1 \in Nat
  <2>1. w.n + 1 \in Nat \ {0}
    BY <1>1
  <2>2. New(w.n + 1, c) \in AnyAccount
    BY <2>1 DEF New, AnyAccount, Candidate
  <2> QED BY <1>1, <2>1, <2>2
<1>4. \A v \in Verdict : Append(w.items, v) \in Seq(Verdict)
  BY <1>1
<1> QED BY <1>1, <1>2, <1>3, <1>4 DEF Look, Looks, Verdict

\* The pools of a preview.
PreviewRun(w, n, as, batch) ==
  /\ w[0] = [as |-> as, n |-> 0, items |-> <<>>]
  /\ \A i \in 0 .. Len(batch) : w[i] \in Looks
  /\ \A i \in 1 .. Len(batch) : w[i] = Look(w[i - 1], batch[i])
  /\ Previewed(as, batch) = w[Len(batch)].items

\* Every pool on the way of a preview is one.
LEMMA PreviewRuns ==
  ASSUME NEW n \in Nat, NEW as, SoundPool(as, n), NEW batch \in Seq(Candidate)
  PROVE  \E w : PreviewRun(w, n, as, batch)
<1> DEFINE S == Looks
           x == [as |-> as, n |-> 0, items |-> <<>>]
           f == [i \in 1 .. Len(batch) |-> [v \in S |-> Look(v, batch[i])]]
           Runs(w) == w = [i \in 0 .. Len(batch) |->
                             IF i = 0 THEN x ELSE Look(w[i - 1], batch[i])]
<1>1. Len(batch) \in Nat /\ \A i \in 1 .. Len(batch) : batch[i] \in Candidate
  OBVIOUS
<1>2. x \in S
  <2>1. as \in SUBSET AnyAccount
    BY DEF SoundPool
  <2>2. <<>> \in Seq(Verdict)
    OBVIOUS
  <2> QED BY <2>1, <2>2 DEF Looks
<1>3. \A i \in 1 .. Len(batch), v \in S : Look(v, batch[i]) \in S
  BY <1>1, LookedUp
<1> HIDE DEF S, x
<1>4. f \in [1 .. Len(batch) -> [S -> S]]
  BY <1>3
<1>5. \E w : Runs(w)
  <2> HIDE DEF f, Runs
  <2>1. PICK w \in [0 .. Len(batch) -> S] :
          w[0] = x /\ \A i \in 1 .. Len(batch) : w[i] = f[i][w[i - 1]]
    <3>1. \E w : Leads(w, Len(batch), S, x, f)
      BY <1>1, <1>2, <1>4, StepsExist
    <3> QED BY <3>1 DEF Leads
  <2>2. ASSUME NEW i \in 1 .. Len(batch) PROVE w[i] = Look(w[i - 1], batch[i])
    <3>1. i - 1 \in 0 .. Len(batch)
      BY <1>1
    <3>2. w[i - 1] \in S
      BY <3>1
    <3> QED BY <2>1, <3>2 DEF f
  <2>3. Runs(w)
    BY <1>1, <2>1, <2>2 DEF Runs
  <2> QED BY <2>3
<1> DEFINE w == CHOOSE g : Runs(g)
<1>6. Runs(w)
  <2> HIDE DEF Runs
  <2> QED BY <1>5
<1>7. Previewed(as, batch) = w[Len(batch)].items
  BY DEF Previewed, x
<1> HIDE DEF w
<1>8. w[0] = x /\ \A i \in 1 .. Len(batch) : w[i] = Look(w[i - 1], batch[i])
  BY <1>1, <1>6
<1>9. \A i \in 0 .. Len(batch) : w[i] \in S
  BY <1>1, <1>2, <1>3, <1>8, AllUpTo
<1> QED BY <1>7, <1>8, <1>9 DEF S, x, PreviewRun

\* What matching looks at; two pools that look alike, whatever their ids are.
SameFace(a, b) == a.official = b.official /\ a.token = b.token /\ a.login = b.login
Mirror(g, p, q) ==
  /\ g \in [p -> q] /\ \A a, b \in p : g[a] = g[b] => a = b
  /\ \A b \in q : \E a \in p : b = g[a]
  /\ \A a \in p : SameFace(a, g[a])
Mirrored(p, q) ==
  /\ IsFiniteSet(p) /\ IsFiniteSet(q) /\ Cardinality(p) = Cardinality(q)
  /\ \E g : Mirror(g, p, q)

\* Two pools that look alike still do with one more account of one face in each.
LEMMA MirrorPlus ==
  ASSUME NEW p, NEW q, Mirrored(p, q), NEW a, NEW b, a \notin p, b \notin q, SameFace(a, b)
  PROVE  Mirrored(p \cup {a}, q \cup {b}) /\ Cardinality(p \cup {a}) = Cardinality(p) + 1
<1>1. PICK g : Mirror(g, p, q)
  BY DEF Mirrored
<1> DEFINE h == [x \in p \cup {a} |-> IF x = a THEN b ELSE g[x]]
<1>2. g \in [p -> q]
  BY <1>1 DEF Mirror
<1>3. h \in [p \cup {a} -> q \cup {b}]
  BY <1>2
<1>4. h[a] = b /\ \A x \in p : h[x] = g[x] /\ h[x] \in q /\ h[x] # b
  BY <1>2
<1> HIDE DEF h
<1>5. \A x, y \in p \cup {a} : h[x] = h[y] => x = y
  BY <1>1, <1>4 DEF Mirror
<1>6. ASSUME NEW y \in q \cup {b} PROVE \E x \in p \cup {a} : y = h[x]
  <2>1. CASE y = b
    BY <1>4, <2>1
  <2>2. CASE y \in q
    <3>1. PICK x \in p : y = g[x]
      BY <1>1, <2>2 DEF Mirror
    <3> QED BY <1>4, <3>1
  <2> QED BY <2>1, <2>2
<1>7. \A x \in p \cup {a} : SameFace(x, h[x])
  BY <1>1, <1>4 DEF Mirror
<1>8. Mirror(h, p \cup {a}, q \cup {b})
  BY <1>3, <1>5, <1>6, <1>7 DEF Mirror
<1>9. /\ IsFiniteSet(p \cup {a}) /\ IsFiniteSet(q \cup {b})
      /\ Cardinality(p \cup {a}) = Cardinality(p) + 1
      /\ Cardinality(q \cup {b}) = Cardinality(q) + 1
  BY FS_AddElement DEF Mirrored
<1>10. Cardinality(p) = Cardinality(q)
  BY DEF Mirrored
<1> QED BY <1>8, <1>9, <1>10 DEF Mirrored

\* So they do without an account and its likeness.
LEMMA MirrorMinus ==
  ASSUME NEW p, NEW q, Mirrored(p, q), NEW g, Mirror(g, p, q), NEW a \in p
  PROVE  Mirrored(p \ {a}, q \ {g[a]}) /\ Cardinality(p \ {a}) = Cardinality(p) - 1
<1> DEFINE h == [x \in p \ {a} |-> g[x]]
<1>1. g \in [p -> q] /\ g[a] \in q
  BY DEF Mirror
<1>2. \A x \in p \ {a} : g[x] \in q \ {g[a]}
  BY <1>1 DEF Mirror
<1>3. h \in [p \ {a} -> q \ {g[a]}] /\ \A x \in p \ {a} : h[x] = g[x]
  BY <1>2
<1> HIDE DEF h
<1>4. \A y \in q \ {g[a]} : \E x \in p \ {a} : y = h[x]
  BY <1>3 DEF Mirror
<1>5. Mirror(h, p \ {a}, q \ {g[a]})
  BY <1>3, <1>4 DEF Mirror
<1>6. /\ IsFiniteSet(p \ {a}) /\ IsFiniteSet(q \ {g[a]})
      /\ Cardinality(p \ {a}) = Cardinality(p) - 1
      /\ Cardinality(q \ {g[a]}) = Cardinality(q) - 1
  BY <1>1, FS_RemoveElement DEF Mirrored
<1>7. Cardinality(p) = Cardinality(q)
  BY DEF Mirrored
<1> QED BY <1>5, <1>6, <1>7 DEF Mirrored

\* An entry with the face of what comes in is found.
LEMMA FaceIsFound ==
  ASSUME NEW as, NEW a \in as, NEW c, a.official = c.official, a.token = c.token,
         c.login # Unknown => a.login = c.login
  PROVE  a \in Found(as, c)
<1>1. CASE c.official # Unknown
  BY <1>1 DEF Found, ByOfficial
<1>2. CASE c.official = Unknown /\ c.login # Unknown
  BY <1>2 DEF Found, ByOfficial, ByLogin
<1>3. CASE c.official = Unknown /\ c.login = Unknown
  BY <1>3 DEF Found, ByOfficial, ByLogin, ByIdentity, SameIdentity
<1> QED BY <1>1, <1>2, <1>3

\* A set has more than one element when two of them differ.
LEMMA MoreThanOne ==
  ASSUME NEW S, IsFiniteSet(S)
  PROVE  Cardinality(S) > 1 <=> \E x, y \in S : x # y
<1>1. ASSUME NEW x \in S, NEW y \in S, x # y PROVE Cardinality(S) > 1
  <2>1. /\ IsFiniteSet(S \ {x}) /\ Cardinality(S \ {x}) = Cardinality(S) - 1
    BY FS_RemoveElement
  <2>2. Cardinality((S \ {x}) \ {y}) = Cardinality(S \ {x}) - 1
        /\ IsFiniteSet((S \ {x}) \ {y})
    BY <1>1, <2>1, FS_RemoveElement
  <2>3. Cardinality((S \ {x}) \ {y}) \in Nat /\ Cardinality(S) \in Nat
        /\ Cardinality(S \ {x}) \in Nat
    BY <2>1, <2>2, FS_CardinalityType
  <2> QED BY <2>1, <2>2, <2>3
<1>2. ASSUME ~\E x, y \in S : x # y PROVE ~(Cardinality(S) > 1)
  <2>1. CASE S = {}
    BY <2>1, FS_EmptySet
  <2>2. ASSUME NEW x \in S PROVE ~(Cardinality(S) > 1)
    <3>1. S \ {x} = {}
      BY <1>2
    <3>2. Cardinality(S \ {x}) = 0 /\ Cardinality(S \ {x}) = Cardinality(S) - 1
      BY <3>1, FS_EmptySet, FS_RemoveElement
    <3>3. Cardinality(S) \in Nat
      BY FS_CardinalityType
    <3> QED BY <3>2, <3>3
  <2> QED BY <2>1, <2>2
<1> QED BY <1>1, <1>2

\* Two pools that look alike find alike.
LEMMA FoundAlike ==
  ASSUME NEW p, NEW q, NEW g, Mirror(g, p, q), NEW c
  PROVE  /\ \A a \in p : a \in Found(p, c) <=> g[a] \in Found(q, c)
         /\ Found(p, c) = {} <=> Found(q, c) = {}
         /\ ByOfficial(p, c) = {} <=> ByOfficial(q, c) = {}
<1>1. /\ \A a \in p : g[a] \in q /\ SameFace(a, g[a])
      /\ \A b \in q : \E a \in p : b = g[a]
  BY DEF Mirror
<1>2. \A a \in p : /\ a \in ByOfficial(p, c) <=> g[a] \in ByOfficial(q, c)
                   /\ a \in ByLogin(p, c) <=> g[a] \in ByLogin(q, c)
                   /\ a \in ByIdentity(p, c) <=> g[a] \in ByIdentity(q, c)
  BY <1>1 DEF SameFace, ByOfficial, ByLogin, ByIdentity, SameIdentity
<1>3. /\ ByOfficial(p, c) \subseteq p /\ ByOfficial(q, c) \subseteq q
      /\ ByLogin(p, c) \subseteq p /\ ByLogin(q, c) \subseteq q
      /\ Found(p, c) \subseteq p /\ Found(q, c) \subseteq q
  BY FoundFacts DEF ByOfficial, ByLogin
<1>4. ASSUME NEW P \in SUBSET p, NEW Q \in SUBSET q, \A a \in p : a \in P <=> g[a] \in Q
      PROVE  P = {} <=> Q = {}
  <2>1. ASSUME NEW a \in P PROVE \E b \in Q : TRUE
    BY <1>4, <2>1
  <2>2. ASSUME NEW b \in Q PROVE \E a \in P : TRUE
    <3>1. PICK a \in p : b = g[a]
      BY <1>1, <2>2
    <3> QED BY <1>4, <2>2, <3>1
  <2> QED BY <2>1, <2>2
<1>5. /\ ByOfficial(p, c) = {} <=> ByOfficial(q, c) = {}
      /\ ByLogin(p, c) = {} <=> ByLogin(q, c) = {}
  BY <1>2, <1>3, <1>4
<1>6. \A a \in p : a \in Found(p, c) <=> g[a] \in Found(q, c)
  BY <1>2, <1>5 DEF Found
<1>7. Found(p, c) = {} <=> Found(q, c) = {}
  BY <1>3, <1>4, <1>6
<1> QED BY <1>5, <1>6, <1>7

\* Where one would refuse, so does the other.
LEMMA ConflictsAlike ==
  ASSUME NEW p, NEW q, Mirrored(p, q), NEW c
  PROVE  Conflicts(p, c) <=> Conflicts(q, c)
<1>1. PICK g : Mirror(g, p, q)
  BY DEF Mirrored
<1>2. Found(p, c) \subseteq p /\ Found(q, c) \subseteq q
  BY FoundFacts
<1>3. IsFiniteSet(Found(p, c)) /\ IsFiniteSet(Found(q, c))
  BY <1>2, FS_Subset DEF Mirrored
<1>4. \A a \in p : a \in Found(p, c) <=> g[a] \in Found(q, c)
  BY <1>1, FoundAlike
<1>5. /\ \A a \in p : g[a] \in q /\ SameFace(a, g[a])
      /\ \A b \in q : \E a \in p : b = g[a]
      /\ \A a, b \in p : g[a] = g[b] => a = b
  BY <1>1 DEF Mirror
<1>6. \A b \in Found(q, c) : \E a \in Found(p, c) : b = g[a]
  BY <1>2, <1>4, <1>5
<1>7. (\E x, y \in Found(p, c) : x # y) <=> (\E x, y \in Found(q, c) : x # y)
  <2>1. ASSUME NEW x \in Found(p, c), NEW y \in Found(p, c), x # y
        PROVE  \E u, v \in Found(q, c) : u # v
    <3>1. g[x] \in Found(q, c) /\ g[y] \in Found(q, c) /\ g[x] # g[y]
      BY <1>2, <1>4, <1>5, <2>1
    <3> QED BY <3>1
  <2>2. ASSUME NEW x \in Found(q, c), NEW y \in Found(q, c), x # y
        PROVE  \E u, v \in Found(p, c) : u # v
    <3>1. PICK u \in Found(p, c) : x = g[u]
      BY <1>6
    <3>2. PICK v \in Found(p, c) : y = g[v]
      BY <1>6
    <3> QED BY <2>2, <3>1, <3>2
  <2> QED BY <2>1, <2>2
<1>8. Cardinality(Found(p, c)) > 1 <=> Cardinality(Found(q, c)) > 1
  BY <1>3, <1>7, MoreThanOne
<1> DEFINE Slot(as, a) == ByOfficial(as, c) = {} /\ a.login = c.login
                            /\ c.login # Unknown /\ Switched(a, c)
<1>9. \A a \in p : Slot(p, a) <=> Slot(q, g[a])
  BY <1>1, <1>5, FoundAlike DEF SameFace, Switched
<1>10. (\E a \in Found(p, c) : Slot(p, a)) <=> (\E a \in Found(q, c) : Slot(q, a))
  <2> HIDE DEF Slot
  <2>1. ASSUME NEW a \in Found(p, c), Slot(p, a) PROVE \E b \in Found(q, c) : Slot(q, b)
    BY <1>2, <1>4, <1>9, <2>1
  <2>2. ASSUME NEW b \in Found(q, c), Slot(q, b) PROVE \E a \in Found(p, c) : Slot(p, a)
    <3>1. PICK a \in Found(p, c) : b = g[a]
      BY <1>6
    <3> QED BY <1>2, <1>9, <2>2, <3>1
  <2> QED BY <2>1, <2>2
<1> QED BY <1>8, <1>10 DEF Conflicts

\* A credential that refreshes an account of one refreshes its likeness in the other;
\* no account is lost or doubled.
LEMMA RefreshedAlike ==
  ASSUME NEW p, NEW q, Mirrored(p, q), NEW c, ~Conflicts(p, c), Found(p, c) # {}
  PROVE  /\ Mirrored(Refreshed(p, c), Refreshed(q, c))
         /\ Cardinality(Refreshed(p, c)) = Cardinality(p)
<1>1. PICK g : Mirror(g, p, q)
  BY DEF Mirrored
<1> DEFINE a == Match(p, c)
           b == Match(q, c)
           r == Rotated(a, c)
           s == Rotated(b, c)
<1>2. Found(p, c) \subseteq p /\ Found(q, c) \subseteq q
  BY FoundFacts
<1>3. IsFiniteSet(Found(p, c)) /\ IsFiniteSet(Found(q, c)) /\ Cardinality(p) \in Nat
      /\ IsFiniteSet(p)
  BY <1>2, FS_Subset, FS_CardinalityType DEF Mirrored
<1>4. Found(q, c) # {}
  BY <1>1, FoundAlike
<1>5. a \in Found(p, c) /\ b \in Found(q, c)
  BY <1>4, FoundFacts
<1>6. ~Conflicts(q, c)
  BY ConflictsAlike
<1>7. \A x \in Found(p, c) : x = a
  <2>1. ~(Cardinality(Found(p, c)) > 1)
    BY DEF Conflicts
  <2> QED BY <1>3, <1>5, <2>1, MoreThanOne
<1>8. \A x \in Found(q, c) : x = b
  <2>1. ~(Cardinality(Found(q, c)) > 1)
    BY <1>6 DEF Conflicts
  <2> QED BY <1>3, <1>5, <2>1, MoreThanOne
<1> HIDE DEF a, b
<1>9. g[a] = b /\ SameFace(a, b) /\ a \in p
  <2>1. a \in p /\ g[a] \in Found(q, c)
    BY <1>1, <1>2, <1>5, FoundAlike
  <2> QED BY <1>1, <1>8, <2>1 DEF Mirror
<1>10. /\ SameFace(r, s) /\ r.official = c.official /\ r.token = c.token
       /\ s.official = c.official /\ s.token = c.token
       /\ c.login # Unknown => r.login = c.login /\ s.login = c.login
  BY <1>9 DEF Rotated, SameFace
<1> HIDE DEF r, s
<1>11. r \notin p \ {a}
  BY <1>7, <1>10, FaceIsFound
<1>12. s \notin q \ {b}
  BY <1>8, <1>10, FaceIsFound
<1>13. Mirrored(p \ {a}, q \ {b}) /\ Cardinality(p \ {a}) = Cardinality(p) - 1
  BY <1>1, <1>9, MirrorMinus
<1>14. /\ Mirrored((p \ {a}) \cup {r}, (q \ {b}) \cup {s})
       /\ Cardinality((p \ {a}) \cup {r}) = Cardinality(p \ {a}) + 1
  BY <1>10, <1>11, <1>12, <1>13, MirrorPlus
<1>15. Refreshed(p, c) = (p \ {a}) \cup {r} /\ Refreshed(q, c) = (q \ {b}) \cup {s}
  BY DEF Refreshed, a, b, r, s
<1> QED BY <1>3, <1>13, <1>14, <1>15

\* A credential that finds nothing makes an account of one face in both.
LEMMA GrownAlike ==
  ASSUME NEW p, NEW q, Mirrored(p, q), NEW c, Found(p, c) = {}, NEW n, NEW m
  PROVE  /\ Mirrored(p \cup {New(n, c)}, q \cup {New(m, c)})
         /\ Cardinality(p \cup {New(n, c)}) = Cardinality(p) + 1
<1>1. PICK g : Mirror(g, p, q)
  BY DEF Mirrored
<1>2. Found(q, c) = {}
  BY <1>1, FoundAlike
<1>3. \A k : /\ New(k, c).official = c.official /\ New(k, c).token = c.token
             /\ New(k, c).login = c.login
  BY DEF New
<1>4. New(n, c) \notin p /\ New(m, c) \notin q
  BY <1>2, <1>3, FaceIsFound
<1>5. SameFace(New(n, c), New(m, c))
  BY <1>3 DEF SameFace
<1> QED BY <1>4, <1>5, MirrorPlus

\* The candidates with this verdict.
Of(items, v) == {i \in DOMAIN items : items[i] = v}

\* One verdict more counts for its own kind only.
LEMMA OneMoreVerdict ==
  ASSUME NEW items \in Seq(Verdict), NEW v \in Verdict, NEW u
  PROVE  /\ IsFiniteSet(Of(items, u)) /\ Cardinality(Of(items, u)) \in Nat
         /\ v # u => Of(Append(items, v), u) = Of(items, u)
         /\ v = u => /\ Of(Append(items, v), u) # {}
                     /\ Cardinality(Of(Append(items, v), u)) = Cardinality(Of(items, u)) + 1
<1> DEFINE more == Append(items, v)
           n == Len(items)
<1>1. n \in Nat /\ DOMAIN items = 1 .. n /\ DOMAIN more = 1 .. n + 1
      /\ more[n + 1] = v /\ \A i \in 1 .. n : more[i] = items[i]
  OBVIOUS
<1>2. IsFiniteSet(1 .. n)
  BY <1>1, FS_Interval
<1>3. IsFiniteSet(Of(items, u)) /\ Cardinality(Of(items, u)) \in Nat
  BY <1>1, <1>2, FS_Subset, FS_CardinalityType DEF Of
<1> HIDE DEF more, n
<1>4. 1 .. n + 1 = (1 .. n) \cup {n + 1} /\ n + 1 \notin 1 .. n
  BY <1>1
<1>5. v # u => Of(more, u) = Of(items, u)
  BY <1>1, <1>4 DEF Of
<1>6. ASSUME v = u PROVE Of(more, u) = Of(items, u) \cup {n + 1} /\ n + 1 \notin Of(items, u)
  BY <1>1, <1>4, <1>6 DEF Of
<1>7. v = u => /\ Of(more, u) # {}
               /\ Cardinality(Of(more, u)) = Cardinality(Of(items, u)) + 1
  BY <1>3, <1>6, FS_AddElement
<1> QED BY <1>3, <1>5, <1>7 DEF more

\* A preview, v, and an import, w, of a pool of k accounts are at the same point.
Agree(v, w, k) ==
  IF Of(v.items, "conflict") # {} THEN ~w.ok
  ELSE /\ w.ok /\ Mirrored(v.as, w.as)
       /\ Cardinality(w.as) = k + Cardinality(Of(v.items, "new"))

\* One candidate on, they still are.
LEMMA LookAgrees ==
  ASSUME NEW k \in Nat, NEW n \in Nat, NEW v \in Looks, NEW w \in Pools(n), NEW c,
         Agree(v, w, k)
  PROVE  Agree(Look(v, c), Take(w, c), k)
<1>1. /\ v.as \in SUBSET AnyAccount /\ v.items \in Seq(Verdict)
      /\ w \in [ok : BOOLEAN, as : SUBSET AnyAccount, n : Nat]
  BY DEF Looks, Pools
<1> DEFINE after == Look(v, c)
           taken == Take(w, c)
           verdict == IF Conflicts(v.as, c) THEN "conflict"
                      ELSE IF Found(v.as, c) # {} THEN "update"
                      ELSE IF Cardinality(v.as) < MaxAccounts THEN "new" ELSE "conflict"
<1>2. /\ verdict \in Verdict /\ after.items = Append(v.items, verdict)
      /\ after.as = CASE verdict = "update" -> Refreshed(v.as, c)
                      [] verdict = "new"    -> v.as \cup {New(v.n + 1, c)}
                      [] OTHER              -> v.as
  BY DEF Look, Verdict
<1> HIDE DEF after, verdict
<1>3. CASE Of(v.items, "conflict") # {}
  <2>1. ~w.ok
    BY <1>3 DEF Agree
  <2>2. ~taken.ok
    BY <1>1, <2>1 DEF Take
  <2>3. Of(after.items, "conflict") # {}
    BY <1>1, <1>2, <1>3, OneMoreVerdict
  <2> QED BY <2>2, <2>3 DEF Agree, after, taken
<1>4. CASE Of(v.items, "conflict") = {}
  <2>1. w.ok /\ Mirrored(v.as, w.as) /\ Cardinality(w.as) = k + Cardinality(Of(v.items, "new"))
    BY <1>4 DEF Agree
  <2>2. /\ Conflicts(v.as, c) <=> Conflicts(w.as, c)
        /\ Found(v.as, c) = {} <=> Found(w.as, c) = {}
    <3>1. PICK g : Mirror(g, v.as, w.as)
      BY <2>1 DEF Mirrored
    <3> QED BY <2>1, <3>1, ConflictsAlike, FoundAlike
  <2>3. /\ Cardinality(v.as) = Cardinality(w.as) /\ Cardinality(w.as) \in Nat
        /\ Cardinality(Of(v.items, "new")) \in Nat
    BY <1>1, <2>1, FS_CardinalityType, OneMoreVerdict DEF Mirrored, Verdict
  <2>4. CASE verdict = "conflict"
    <3>1. Conflicts(w.as, c) \/ (~Conflicts(w.as, c) /\ Found(w.as, c) = {}
                                   /\ Cardinality(w.as) >= MaxAccounts)
      BY <2>2, <2>3, <2>4, PoolAssumption DEF verdict
    <3>2. taken = [w EXCEPT !.ok = FALSE]
      BY <2>1, <3>1 DEF Take
    <3>3. ~taken.ok
      BY <1>1, <3>2
    <3>4. Of(after.items, "conflict") # {}
      BY <1>1, <1>2, <2>4, OneMoreVerdict
    <3> QED BY <3>3, <3>4 DEF Agree, after, taken
  <2>5. CASE verdict = "update"
    <3>1. ~Conflicts(v.as, c) /\ Found(v.as, c) # {}
      BY <2>5 DEF verdict
    <3>2. taken = [w EXCEPT !.as = Refreshed(w.as, c)]
      BY <2>1, <2>2, <3>1 DEF Take
    <3>3. taken.ok /\ taken.as = Refreshed(w.as, c) /\ after.as = Refreshed(v.as, c)
      BY <1>1, <1>2, <2>1, <2>5, <3>2
    <3>4. /\ Mirrored(Refreshed(v.as, c), Refreshed(w.as, c))
          /\ Cardinality(Refreshed(v.as, c)) = Cardinality(v.as)
      BY <2>1, <3>1, RefreshedAlike
    <3>5. Cardinality(Refreshed(w.as, c)) = Cardinality(w.as)
      BY <2>3, <3>4 DEF Mirrored
    <3>6. /\ Of(after.items, "conflict") = {}
          /\ Of(after.items, "new") = Of(v.items, "new")
      BY <1>1, <1>2, <1>4, <2>5, OneMoreVerdict
    <3>7. Agree(after, taken, k)
      BY <2>1, <3>3, <3>4, <3>5, <3>6 DEF Agree
    <3> QED BY <3>7 DEF after
  <2>6. CASE verdict = "new"
    <3>1. ~Conflicts(v.as, c) /\ Found(v.as, c) = {} /\ Cardinality(v.as) < MaxAccounts
      BY <2>6 DEF verdict
    <3>2. ~(Cardinality(w.as) >= MaxAccounts)
      BY <2>3, <3>1, PoolAssumption
    <3>3. taken = [ok |-> TRUE, n |-> w.n + 1, as |-> w.as \cup {New(w.n + 1, c)}]
      BY <2>1, <2>2, <3>1, <3>2 DEF Take
    <3>4. /\ taken.ok /\ taken.as = w.as \cup {New(w.n + 1, c)}
          /\ after.as = v.as \cup {New(v.n + 1, c)}
      BY <1>2, <2>6, <3>3
    <3>5. /\ Mirrored(after.as, taken.as) /\ Cardinality(after.as) = Cardinality(v.as) + 1
      BY <2>1, <3>1, <3>4, GrownAlike
    <3>6. Cardinality(taken.as) = Cardinality(w.as) + 1
      BY <2>3, <3>5 DEF Mirrored
    <3>7. /\ Of(after.items, "conflict") = {}
          /\ Cardinality(Of(after.items, "new")) = Cardinality(Of(v.items, "new")) + 1
      <4>1. after.items = Append(v.items, "new") /\ "new" \in Verdict
        BY <1>2, <2>6
      <4>2. Of(Append(v.items, "new"), "conflict") = Of(v.items, "conflict")
        BY <1>1, <4>1, OneMoreVerdict
      <4>3. Cardinality(Of(Append(v.items, "new"), "new")) = Cardinality(Of(v.items, "new")) + 1
        BY <1>1, <4>1, OneMoreVerdict
      <4> QED BY <1>4, <4>1, <4>2, <4>3
    <3>8. Cardinality(taken.as) = k + Cardinality(Of(after.items, "new"))
      BY <2>1, <2>3, <3>6, <3>7
    <3>9. Agree(after, taken, k)
      BY <3>4, <3>5, <3>7, <3>8 DEF Agree
    <3> QED BY <3>9 DEF after
  <2> QED BY <1>2, <2>4, <2>5, <2>6 DEF Verdict
<1> QED BY <1>3, <1>4

\* What an import does is what its preview said: it fails if there was a conflict, and
\* otherwise adds as many accounts as were new.
LEMMA ImportAsPreviewed ==
  ASSUME NEW n \in Nat, NEW as, SoundPool(as, n), NEW batch \in Seq(Candidate)
  PROVE  LET items == Previewed(as, batch)
             w     == Imported(as, n, batch)
         IN  /\ items \in Seq(Verdict)
             /\ Of(items, "conflict") # {} => ~w.ok
             /\ Of(items, "conflict") = {} =>
                  w.ok /\ Cardinality(w.as) = Cardinality(as) + Cardinality(Of(items, "new"))
<1>1. PICK v : PreviewRun(v, n, as, batch)
  BY PreviewRuns
<1>2. PICK w : ImportRun(w, n, as, batch)
  BY ImportRuns
<1>3. /\ v[0] = [as |-> as, n |-> 0, items |-> <<>>]
      /\ \A i \in 0 .. Len(batch) : v[i] \in Looks
      /\ \A i \in 1 .. Len(batch) : v[i] = Look(v[i - 1], batch[i])
      /\ Previewed(as, batch) = v[Len(batch)].items
  BY <1>1 DEF PreviewRun
<1>4. /\ w[0] = [ok |-> TRUE, as |-> as, n |-> n]
      /\ \A i \in 0 .. Len(batch) : w[i] \in Pools(n)
      /\ \A i \in 1 .. Len(batch) : w[i] = Take(w[i - 1], batch[i])
      /\ Imported(as, n, batch) = w[Len(batch)]
  BY <1>2 DEF ImportRun
<1>5. IsFiniteSet(as) /\ Cardinality(as) \in Nat
  BY AllCanBeListed, FS_CardinalityType DEF CanBeListed
<1>6. Len(batch) \in Nat /\ Len(batch) \in 0 .. Len(batch)
      /\ \A i \in 1 .. Len(batch) : i - 1 \in 0 .. Len(batch)
  OBVIOUS
<1> DEFINE k == Cardinality(as)
           One == {1}
           z == [i \in 0 .. Len(batch) |-> IF Agree(v[i], w[i], k) THEN 1 ELSE 0]
<1>7. Agree(v[0], w[0], k)
  <2>1. /\ v[0].as = as /\ v[0].items = <<>> /\ w[0].as = as /\ w[0].ok
    BY <1>3, <1>4
  <2>2. Of(<<>>, "conflict") = {} /\ Of(<<>>, "new") = {}
    BY DEF Of
  <2> DEFINE g == [a \in as |-> a]
  <2>3. Mirror(g, as, as)
    BY DEF Mirror, SameFace
  <2> HIDE DEF g
  <2>4. Mirrored(as, as)
    BY <1>5, <2>3 DEF Mirrored
  <2>5. k \in Nat /\ Cardinality({}) = 0
    BY <1>5, FS_EmptySet
  <2> HIDE DEF k
  <2>6. k = k + 0
    BY <2>5
  <2>7. Cardinality(w[0].as) = k + Cardinality(Of(v[0].items, "new"))
    <3>1. Cardinality(w[0].as) = k /\ Of(v[0].items, "new") = {}
      BY <2>1, <2>2 DEF k
    <3> QED BY <2>5, <2>6, <3>1
  <2> QED BY <2>1, <2>2, <2>4, <2>7 DEF Agree
<1> HIDE DEF k
<1>8. ASSUME NEW i \in 1 .. Len(batch), Agree(v[i - 1], w[i - 1], k)
      PROVE  Agree(v[i], w[i], k)
  BY <1>3, <1>4, <1>5, <1>6, <1>8, LookAgrees DEF k
<1>9. \A i \in 0 .. Len(batch) : z[i] \in One <=> Agree(v[i], w[i], k)
  OBVIOUS
<1> HIDE DEF z, One
<1>10. z[Len(batch)] \in One
  <2>1. 0 \in 0 .. Len(batch) /\ \A i \in 1 .. Len(batch) : i \in 0 .. Len(batch)
    BY <1>6
  <2>2. z[0] \in One
    BY <1>7, <1>9, <2>1
  <2>3. ASSUME NEW i \in 1 .. Len(batch), z[i - 1] \in One PROVE z[i] \in One
    BY <1>6, <1>8, <1>9, <2>1, <2>3
  <2>4. \A i \in 0 .. Len(batch) : z[i] \in One
    BY <1>6, <2>2, <2>3, AllUpTo
  <2> QED BY <1>6, <2>4
<1>11. Agree(v[Len(batch)], w[Len(batch)], k)
  BY <1>6, <1>9, <1>10
<1>12. v[Len(batch)].items \in Seq(Verdict)
  BY <1>3, <1>6 DEF Looks, Verdict
<1> QED BY <1>3, <1>4, <1>11, <1>12 DEF Agree, k

\* The preview of an import that is up to date shows what its batch would do.
PreviewKept ==
  preview.kind = "import" /\ preview.fresh => preview.items = Previewed(accounts, preview.batch)

\* PreviewKept stays: whatever changes the pool makes the preview out of date.
LEMMA PreviewKeptStays ==
  /\ PoolInit => PreviewKept
  /\ PoolInv /\ PreviewKept /\ [PoolNext]_poolVars => PreviewKept'
<1>1. PoolInit => PreviewKept
  BY DEF PoolInit, PreviewKept, NoSession
<1> SUFFICES ASSUME PoolInv, PreviewKept, [PoolNext]_poolVars PROVE PreviewKept'
  BY <1>1
<1>2. DOMAIN preview = {"kind", "batch", "mode", "items", "fresh"}
  BY DEF PoolInv, SoundPreview
<1>3. preview' = NoSession => PreviewKept'
  BY DEF PreviewKept, NoSession
<1>4. ASSUME Aged PROVE PreviewKept'
  <2>1. /\ preview'.kind = preview.kind /\ preview'.batch = preview.batch
        /\ preview'.items = preview.items
        /\ preview'.fresh <=> preview.fresh /\ accounts' = accounts
    BY <1>2, <1>4 DEF Aged
  <2> QED BY <2>1 DEF PreviewKept
<1>5. ASSUME NEW b, PreviewImport(b) PROVE PreviewKept'
  <2>1. /\ preview'.batch = b /\ preview'.items = Previewed(accounts, b)
        /\ accounts' = accounts
    BY <1>5 DEF PreviewImport, NoSession
  <2> QED BY <2>1 DEF PreviewKept
<1>6. ASSUME NEW mode, PreviewRestore(mode) PROVE PreviewKept'
  <2>1. preview'.kind = "restore"
    BY <1>6 DEF PreviewRestore
  <2> QED BY <2>1 DEF PreviewKept
<1>7. CASE Backup \/ UNCHANGED poolVars
  BY <1>7 DEF Backup, poolVars, PreviewKept
<1>8. ASSUME CommitImport \/ DropSession \/ CommitMerge \/ CommitReplace
      PROVE  preview' = NoSession
  BY <1>8 DEF CommitImport, DropSession, CommitMerge, CommitReplace
<1>9. ASSUME \/ \E b \in Batch : RefreshLocal(b)
             \/ \E id \in 1 .. MaxIds : Update(id) \/ Delete(id)
      PROVE  Aged
  BY <1>9 DEF RefreshLocal, Update, Delete
<1> QED BY <1>3, <1>4, <1>5, <1>6, <1>7, <1>8, <1>9, Zenon DEF PoolNext

\* An import that is committed while its preview is up to date adds what was shown.
LEMMA AddsAsShown ==
  ASSUME PoolInv, PreviewKept, CommitImport, preview.fresh
  PROVE  IF Shown("conflict") > 0 THEN accounts' = accounts
         ELSE Cardinality(accounts') = Cardinality(accounts) + Shown("new")
<1> DEFINE batch == preview.batch
           items == Previewed(accounts, batch)
           w == Imported(accounts, ids, batch)
<1>1. /\ ids \in Nat /\ SoundPool(accounts, ids) /\ batch \in Seq(Candidate)
      /\ preview.items = items
  BY DEF PoolInv, SoundPreview, CommitImport, PreviewKept
<1>2. /\ items \in Seq(Verdict)
      /\ Of(items, "conflict") # {} => ~w.ok
      /\ Of(items, "conflict") = {} =>
           w.ok /\ Cardinality(w.as) = Cardinality(accounts) + Cardinality(Of(items, "new"))
  BY <1>1, ImportAsPreviewed
<1>3. IF w.ok THEN accounts' = w.as ELSE accounts' = accounts
  BY DEF CommitImport, Saves
<1> HIDE DEF w, items
<1>4. \A v : Shown(v) = Cardinality(Of(items, v))
  BY <1>1 DEF Shown, Of
<1>5. Shown("conflict") > 0 <=> Of(items, "conflict") # {}
  <2>1. IsFiniteSet(Of(items, "conflict")) /\ Cardinality(Of(items, "conflict")) \in Nat
    BY <1>2, OneMoreVerdict DEF Verdict
  <2>2. Cardinality(Of(items, "conflict")) = 0 <=> Of(items, "conflict") = {}
    BY <2>1, FS_EmptySet
  <2> QED BY <1>4, <2>1, <2>2
<1> QED BY <1>2, <1>3, <1>4, <1>5

\* Rotating a credential keeps the account it belongs to and what its owner chose,
\* whatever is imported, refreshed or merged, unless a credential that does not name its
\* account comes in; and an import does what an up to date preview showed.
THEOREM ImportsStayFaithful == PoolSpec => ImportsAreFaithful
<1> DEFINE Faithful ==
      /\ ~CommitReplace =>
            \A a \in accounts, b \in accounts' :
                a.id = b.id => /\ a.own => b.own
                               /\ Switched(a, b) => NamelessComes
      /\ CommitImport /\ preview.fresh =>
            IF Shown("conflict") > 0 THEN accounts' = accounts
            ELSE Cardinality(accounts') = Cardinality(accounts) + Shown("new")
<1>1. PoolInv /\ PoolInv' /\ PreviewKept /\ [PoolNext]_poolVars => [Faithful]_poolVars
  <2> SUFFICES ASSUME PoolInv, PoolInv', PreviewKept, [PoolNext]_poolVars PROVE Faithful
    OBVIOUS
  <2>1. ASSUME ~CommitReplace, NEW a \in accounts, NEW b \in accounts', a.id = b.id
        PROVE  (a.own => b.own) /\ (Switched(a, b) => NamelessComes)
    BY <2>1, EntriesGoOn
  <2>2. ASSUME CommitImport, preview.fresh
        PROVE  IF Shown("conflict") > 0 THEN accounts' = accounts
               ELSE Cardinality(accounts') = Cardinality(accounts) + Shown("new")
    BY <2>2, AddsAsShown
  <2> QED BY <2>1, <2>2
<1> QED
  BY <1>1, PoolStart, PoolStep, PreviewKeptStays, PTL DEF PoolSpec, ImportsAreFaithful

\* The pool and the backups keep below MAX_ACCOUNTS.
NotTooMany(as) == IsFiniteSet(as) /\ Cardinality(as) <= MaxAccounts
PoolTyped ==
  /\ ids <= MaxIds
  /\ NotTooMany(accounts) /\ NotTooMany(exported)
  /\ preview.kind \in {"none", "import", "restore"}
  /\ preview.kind = "restore" => NotTooMany({preview.batch[i] : i \in DOMAIN preview.batch})

\* What is at most another number is within its limit.
LEMMA Transits == ASSUME NEW a \in Nat, NEW b \in Nat, NEW m \in Nat, a <= b, b <= m PROVE a <= m
  OBVIOUS

\* One more than what is below the limit is within it.
LEMMA OneMore ==
  ASSUME NEW a \in Nat, NEW m \in Nat, ~(a >= m) PROVE \A b : b = a \/ b = a + 1 => b <= m
  OBVIOUS
\* And one less than what is within it is below it.
LEMMA OneLess ==
  ASSUME NEW a \in Nat, NEW b \in Nat, NEW m \in Nat, a = b - 1, b <= m PROVE ~(a >= m)
  OBVIOUS

\* The number of accounts and its limit are numbers.
LEMMA AreNumbers ==
  ASSUME NEW as, NotTooMany(as) PROVE Cardinality(as) \in Nat /\ MaxAccounts \in Nat /\ Cardinality(as) <= MaxAccounts
<1>1. Cardinality(as) \in Nat
  <2>1. IsFiniteSet(as)
    BY DEF NotTooMany
  <2> QED BY <2>1, FS_CardinalityType
<1>2. MaxAccounts \in Nat
  BY PoolAssumption
<1> QED BY <1>1, <1>2 DEF NotTooMany

\* A part of what fits does too.
LEMMA PartFits ==
  ASSUME NEW as, NotTooMany(as), NEW less \in SUBSET as PROVE NotTooMany(less)
<1>0. Cardinality(as) \in Nat /\ MaxAccounts \in Nat /\ Cardinality(as) <= MaxAccounts
  BY AreNumbers
<1>1. IsFiniteSet(less) /\ Cardinality(less) <= Cardinality(as)
  BY FS_Subset DEF NotTooMany
<1>2. Cardinality(less) \in Nat
  BY <1>1, FS_CardinalityType
<1>3. Cardinality(less) <= MaxAccounts
  BY <1>1, <1>2, <1>0, Transits
<1> QED BY <1>1, <1>3 DEF NotTooMany

\* So does the pool with one account marked as the host's own.
LEMMA UpdatedFits ==
  ASSUME NEW as, NotTooMany(as), NEW id
  PROVE  NotTooMany({IF a.id = id THEN [a EXCEPT !.own = TRUE] ELSE a : a \in as})
<1>0. Cardinality(as) \in Nat /\ MaxAccounts \in Nat /\ Cardinality(as) <= MaxAccounts
  BY AreNumbers
<1> DEFINE g(a) == IF a.id = id THEN [a EXCEPT !.own = TRUE] ELSE a
           now == {g(a) : a \in as}
           f == [a \in as |-> g(a)]
<1> HIDE DEF g
<1>1. f \in [as -> now] /\ \A b \in now : \E a \in as : f[a] = b
  OBVIOUS
<1> HIDE DEF f, now
<1>2. f \in Surjection(as, now)
  BY <1>1 DEF Surjection
<1>3. IsFiniteSet(now) /\ Cardinality(now) <= Cardinality(as)
  BY <1>2, FS_Surjection DEF NotTooMany
<1>4. Cardinality(now) \in Nat
  BY <1>3, FS_CardinalityType
<1>5. Cardinality(now) <= MaxAccounts
  BY <1>3, <1>4, <1>0, Transits
<1>6. NotTooMany(now)
  BY <1>3, <1>5 DEF NotTooMany
<1> QED BY <1>6 DEF now, g

\* A refreshed pool has as many accounts as before or fewer.
LEMMA RefreshedFits ==
  ASSUME NEW as, NotTooMany(as), NEW c, Found(as, c) # {}
  PROVE  NotTooMany(Refreshed(as, c))
<1>0. Cardinality(as) \in Nat /\ MaxAccounts \in Nat /\ Cardinality(as) <= MaxAccounts
  BY AreNumbers
<1> DEFINE a == Match(as, c)
           r == Rotated(a, c)
           less == as \ {a}
<1>1. a \in as
  BY FoundFacts
<1> HIDE DEF a, r
<1>2. IsFiniteSet(less) /\ Cardinality(less) = Cardinality(as) - 1
  BY <1>1, FS_RemoveElement DEF NotTooMany
<1> HIDE DEF less
<1>3. IsFiniteSet(less \cup {r}) /\ (Cardinality(less \cup {r}) = Cardinality(less) \/ Cardinality(less \cup {r}) = Cardinality(less) + 1)
  BY <1>2, FS_AddElement
<1>4. Cardinality(less) \in Nat
  BY <1>2, FS_CardinalityType
<1>5. ~(Cardinality(less) >= MaxAccounts)
  BY <1>0, <1>2, <1>4, OneLess
<1>6. Cardinality(less \cup {r}) <= MaxAccounts
  BY <1>0, <1>3, <1>4, <1>5, OneMore
<1>7. NotTooMany(less \cup {r})
  BY <1>3, <1>6 DEF NotTooMany
<1> QED BY <1>7 DEF Refreshed, less, a, r

\* One more is taken only where there is room.
LEMMA GrownFits ==
  ASSUME NEW as, NotTooMany(as), ~(Cardinality(as) >= MaxAccounts), NEW new
  PROVE  NotTooMany(as \cup {new})
<1>0. Cardinality(as) \in Nat /\ MaxAccounts \in Nat /\ Cardinality(as) <= MaxAccounts
  BY AreNumbers
<1>1. IsFiniteSet(as \cup {new}) /\ (Cardinality(as \cup {new}) = Cardinality(as) \/ Cardinality(as \cup {new}) = Cardinality(as) + 1)
  BY FS_AddElement DEF NotTooMany
<1>2. Cardinality(as \cup {new}) <= MaxAccounts
  BY <1>0, <1>1, OneMore
<1> QED BY <1>1, <1>2 DEF NotTooMany

\* What is taken in keeps below the limit, or fails.
LEMMA TakenFits ==
  ASSUME NEW n \in Nat, NEW w \in Pools(n), NotTooMany(w.as), NEW c
  PROVE  NotTooMany(Take(w, c).as) /\ NotTooMany(AddBack(w, c).as)
<1>1. w \in [ok : BOOLEAN, as : SUBSET AnyAccount, n : Nat]
  BY DEF Pools
<1>2. [w EXCEPT !.ok = FALSE].as = w.as
  BY <1>1
<1>3. [w EXCEPT !.as = Refreshed(w.as, c)].as = Refreshed(w.as, c)
  BY <1>1
<1>4. Found(w.as, c) # {} => NotTooMany(Refreshed(w.as, c))
  BY RefreshedFits
<1>5. \A new : ~(Cardinality(w.as) >= MaxAccounts) => NotTooMany(w.as \cup {new})
  BY GrownFits
<1>6. \A new : [ok |-> TRUE, n |-> w.n + 1, as |-> w.as \cup {new}].as = w.as \cup {new}
  OBVIOUS
<1>7. NotTooMany(Take(w, c).as)
  BY <1>2, <1>3, <1>4, <1>5, <1>6 DEF Take
<1>8. NotTooMany(AddBack(w, c).as)
  BY <1>2, <1>3, <1>4, <1>5, <1>6 DEF AddBack
<1> QED BY <1>7, <1>8

\* So an import, a merge and a local refresh keep below the limit.
LEMMA RunsFit ==
  ASSUME NEW n \in Nat, NEW as, SoundPool(as, n), NotTooMany(as)
  PROVE  /\ \A batch \in Seq(Candidate) : NotTooMany(Imported(as, n, batch).as) /\ NotTooMany(Freshened(as, batch))
         /\ \A batch \in Seq(AnyAccount) : NotTooMany(Merged(as, n, batch).as)
<1>1. ASSUME NEW batch \in Seq(Candidate) PROVE NotTooMany(Imported(as, n, batch).as)
  <2> DEFINE S == {v \in Pools(n) : NotTooMany(v.as)}
             k == Len(batch)
  <2>1. PICK w : ImportRun(w, n, as, batch)
    BY ImportRuns
  <2>2. /\ w[0] = [ok |-> TRUE, as |-> as, n |-> n] /\ (\A i \in 0 .. k : w[i] \in Pools(n))
        /\ (\A i \in 1 .. k : w[i] = Take(w[i - 1], batch[i])) /\ Imported(as, n, batch) = w[k] /\ k \in Nat
    BY <2>1 DEF ImportRun
  <2> HIDE DEF k
  <2>3. w[0] \in S
    <3>1. k \in Nat
      BY <2>2
    <3>2. 0 \in 0 .. k
      BY <3>1
    <3>3. w[0] \in Pools(n) /\ w[0].as = as
      BY <2>2, <3>2
    <3> QED BY <3>3
  <2>4. ASSUME NEW i \in 1 .. k, w[i - 1] \in S PROVE w[i] \in S
    <3>1. i \in 0 .. k
      BY <2>2
    <3> QED BY <2>2, <2>4, <3>1, TakenFits
  <2> HIDE DEF S
  <2>5. \A i \in 0 .. k : w[i] \in S
    BY <2>2, <2>3, <2>4, AllUpTo
  <2>6. w[k] \in S
    BY <2>2, <2>5
  <2> QED BY <2>2, <2>6 DEF S
<1>2. ASSUME NEW batch \in Seq(AnyAccount) PROVE NotTooMany(Merged(as, n, batch).as)
  <2> DEFINE S == {v \in Pools(n) : NotTooMany(v.as)}
             k == Len(batch)
  <2>1. PICK w : MergeRun(w, n, as, batch)
    BY MergeRuns
  <2>2. /\ w[0] = [ok |-> TRUE, as |-> as, n |-> n] /\ (\A i \in 0 .. k : w[i] \in Pools(n))
        /\ (\A i \in 1 .. k : w[i] = AddBack(w[i - 1], batch[i])) /\ Merged(as, n, batch) = w[k] /\ k \in Nat
    BY <2>1 DEF MergeRun
  <2> HIDE DEF k
  <2>3. w[0] \in S
    <3>1. k \in Nat
      BY <2>2
    <3>2. 0 \in 0 .. k
      BY <3>1
    <3>3. w[0] \in Pools(n) /\ w[0].as = as
      BY <2>2, <3>2
    <3> QED BY <3>3
  <2>4. ASSUME NEW i \in 1 .. k, w[i - 1] \in S PROVE w[i] \in S
    <3>1. i \in 0 .. k
      BY <2>2
    <3> QED BY <2>2, <2>4, <3>1, TakenFits
  <2> HIDE DEF S
  <2>5. \A i \in 0 .. k : w[i] \in S
    BY <2>2, <2>3, <2>4, AllUpTo
  <2>6. w[k] \in S
    BY <2>2, <2>5
  <2> QED BY <2>2, <2>6 DEF S
<1>3. ASSUME NEW batch \in Seq(Candidate) PROVE NotTooMany(Freshened(as, batch))
  <2> DEFINE S == {v \in SUBSET AnyAccount : NotTooMany(v)}
             k == Len(batch)
  <2>1. PICK w : FreshenRun(w, n, as, batch)
    BY FreshenRuns
  <2>2. /\ w[0] = as /\ (\A i \in 0 .. k : w[i] \in SUBSET AnyAccount)
        /\ (\A i \in 1 .. k : w[i] = Freshen(w[i - 1], batch[i])) /\ Freshened(as, batch) = w[k] /\ k \in Nat
    BY <2>1 DEF FreshenRun
  <2> HIDE DEF k
  <2>3. w[0] \in S
    <3>1. k \in Nat
      BY <2>2
    <3>2. 0 \in 0 .. k
      BY <3>1
    <3> QED BY <2>2, <3>2
  <2>4. ASSUME NEW i \in 1 .. k, w[i - 1] \in S PROVE w[i] \in S
    <3>1. i \in 0 .. k
      BY <2>2
    <3>2. NotTooMany(Freshen(w[i - 1], batch[i]))
      BY <2>4, RefreshedFits DEF Freshen
    <3> QED BY <2>2, <3>1, <3>2
  <2> HIDE DEF S
  <2>5. \A i \in 0 .. k : w[i] \in S
    BY <2>2, <2>3, <2>4, AllUpTo
  <2>6. w[k] \in S
    BY <2>2, <2>5
  <2> QED BY <2>2, <2>6 DEF S
<1> QED BY <1>1, <1>2, <1>3

\* Every step of the store keeps below the limits.
LEMMA PoolTypedStep == PoolInv /\ PoolTyped /\ [PoolNext]_poolVars => PoolTyped'
<1> SUFFICES ASSUME PoolInv, PoolTyped, [PoolNext]_poolVars PROVE PoolTyped'
  OBVIOUS
<1>1. /\ ids \in Nat /\ SoundPool(accounts, ids) /\ SoundPool(exported, ids)
      /\ SoundPreview(preview, ids) /\ ids <= MaxIds
      /\ NotTooMany(accounts) /\ NotTooMany(exported)
  BY DEF PoolInv, PoolTyped
<1> DEFINE KindOK(p) == p.kind \in {"none", "import", "restore"}
                        /\ (p.kind = "restore" => NotTooMany({p.batch[i] : i \in DOMAIN p.batch}))
<1>2. KindOK(preview) /\ KindOK(NoSession)
  BY DEF PoolTyped, NoSession
<1>3. ASSUME UNCHANGED <<ids, exported>>, NotTooMany(accounts'), KindOK(preview') PROVE PoolTyped'
  BY <1>1, <1>3 DEF PoolTyped
<1>4. ASSUME Aged PROVE KindOK(preview')
  <2>1. DOMAIN preview = {"kind", "batch", "mode", "items", "fresh"}
    BY <1>1 DEF SoundPreview
  <2>2. preview'.kind = preview.kind /\ preview'.batch = preview.batch
    BY <1>4, <2>1 DEF Aged
  <2> QED BY <1>2, <2>2
<1> HIDE DEF KindOK
<1>5. ASSUME NEW b \in Batch, PreviewImport(b) PROVE PoolTyped'
  <2>1. preview'.kind = "import"
    BY <1>5 DEF PreviewImport, NoSession
  <2> QED BY <1>1, <1>3, <1>5, <2>1 DEF PreviewImport, KindOK
<1>6. ASSUME NEW b \in Batch, RefreshLocal(b) PROVE PoolTyped'
  <2>1. b \in Seq(Candidate)
    BY BatchAssumption
  <2>2. NotTooMany(Freshened(accounts, b))
    BY <1>1, <2>1, RunsFit
  <2> QED BY <1>3, <1>4, <1>6, <2>2 DEF RefreshLocal
<1>7. ASSUME NEW w, Saves(w), NotTooMany(w.as), preview' = NoSession, exported' = exported PROVE PoolTyped'
  <2>1. NotTooMany(accounts') /\ ids' <= MaxIds
    BY <1>1, <1>7 DEF Saves
  <2> QED BY <1>1, <1>2, <1>7, <2>1 DEF PoolTyped, KindOK
<1>8. CASE CommitImport
  <2>1. preview.batch \in Seq(Candidate)
    BY <1>1, <1>8 DEF CommitImport, SoundPreview
  <2> QED BY <1>1, <1>7, <1>8, <2>1, RunsFit DEF CommitImport
<1>9. CASE CommitMerge
  <2>1. preview.batch \in Seq(AnyAccount)
    BY <1>1, <1>9 DEF CommitMerge, SoundPreview
  <2> QED BY <1>1, <1>7, <1>9, <2>1, RunsFit DEF CommitMerge
<1>10. CASE DropSession
  BY <1>1, <1>2, <1>3, <1>10 DEF DropSession
<1>11. ASSUME NEW id \in 1 .. MaxIds, Update(id) PROVE PoolTyped'
  BY <1>1, <1>3, <1>4, <1>11, UpdatedFits DEF Update
<1>12. ASSUME NEW id \in 1 .. MaxIds, Delete(id) PROVE PoolTyped'
  <2>1. accounts' \in SUBSET accounts
    BY <1>12 DEF Delete
  <2> QED BY <1>1, <1>3, <1>4, <1>12, <2>1, PartFits DEF Delete
<1>13. CASE Backup
  BY <1>1, <1>2, <1>13 DEF Backup, PoolTyped, KindOK
<1>14. ASSUME NEW mode, PreviewRestore(mode) PROVE PoolTyped'
  <2> DEFINE batch == Listed(exported)
  <2>1. batch \in Seq(exported)
    BY <1>1, ListedIsInIt
  <2>2. preview'.kind = "restore" /\ preview'.batch = batch
    BY <1>14 DEF PreviewRestore
  <2> HIDE DEF batch
  <2>3. {batch[i] : i \in DOMAIN batch} \in SUBSET exported
    BY <2>1
  <2>4. NotTooMany({batch[i] : i \in DOMAIN batch})
    BY <1>1, <2>3, PartFits
  <2>5. KindOK(preview')
    BY <2>2, <2>4 DEF KindOK
  <2> QED BY <1>1, <1>3, <1>14, <2>5 DEF PreviewRestore
<1>15. CASE CommitReplace
  <2> DEFINE back == {preview.batch[i] : i \in DOMAIN preview.batch}
  <2>1. NotTooMany(back)
    BY <1>2, <1>15 DEF CommitReplace, KindOK
  <2>2. accounts' = accounts \/ accounts' = back
    BY <1>15 DEF CommitReplace
  <2> HIDE DEF back
  <2>3. NotTooMany(accounts')
    BY <1>1, <2>1, <2>2
  <2> QED BY <1>2, <1>3, <1>15, <2>3 DEF CommitReplace
<1>16. CASE UNCHANGED poolVars
  BY <1>1, <1>2, <1>3, <1>16 DEF poolVars
<1> QED
  BY <1>5, <1>6, <1>8, <1>9, <1>10, <1>11, <1>12, <1>13, <1>14, <1>15, <1>16, Zenon DEF PoolNext

\* The pool, the backup and the sessions are typed, and the pool never outgrows
\* MAX_ACCOUNTS, whatever is imported, restored or refreshed, for any batches and
\* limits (account_pool.rs, import_parsed and apply_restore).
LEMMA PoolStaysTyped == PoolSpec => []PoolTypeOK
<1>1. PoolInit => PoolTyped
  <2> SUFFICES ASSUME PoolInit PROVE PoolTyped
    OBVIOUS
  <2>1. ids = 0 /\ accounts = {} /\ exported = {} /\ preview = NoSession
    BY DEF PoolInit
  <2>2. MaxIds \in Nat /\ MaxAccounts \in Nat /\ IsFiniteSet({}) /\ Cardinality({}) = 0
    BY PoolAssumption, FS_EmptySet
  <2>3. NotTooMany({})
    BY <2>2 DEF NotTooMany
  <2> QED BY <2>1, <2>2, <2>3 DEF PoolTyped, NoSession
<1>2. PoolInv /\ PoolTyped => PoolTypeOK
  <2> SUFFICES ASSUME PoolInv, PoolTyped PROVE PoolTypeOK
    OBVIOUS
  <2>1. ids \in Nat /\ ids <= MaxIds /\ MaxIds \in Nat
    BY PoolAssumption DEF PoolInv, PoolTyped
  <2>2. ASSUME NEW as, SoundPool(as, ids) PROVE as \subseteq Account
    <3> SUFFICES ASSUME NEW a \in as PROVE a \in Account
      OBVIOUS
    <3>1. a \in AnyAccount /\ a.id <= ids
      BY <2>2 DEF SoundPool
    <3> QED BY <2>1, <3>1 DEF AnyAccount, Account
  <2> QED BY <2>1, <2>2 DEF PoolInv, PoolTyped, PoolTypeOK, NotTooMany
<1> QED BY <1>1, <1>2, PoolStart, PoolStep, PoolTypedStep, PTL DEF PoolSpec
=============================================================================
