--------------------------- MODULE Algorithms_proofs ---------------------------
(***************************************************************************)
(* Proofs about the dates of the calendar, the chunks of a section and the *)
(* vectors of a list of texts: for every input, and from there for the     *)
(* inputs the run tries.                                                   *)
(***************************************************************************)
EXTENDS MCAlgorithms, FiniteSetTheorems, SequenceTheorems, WellFoundedInduction,
        TLAPS

(* Induction and recursion, over sets and functions.                       *)

(* A nonempty set of naturals has a least element.                         *)
LEMMA LeastNumber ==
    ASSUME NEW T, T \subseteq Nat, T # {}
    PROVE  \E n \in T : \A k \in T : n <= k
<1> DEFINE R == OpToRel(<, Nat)
<1>1. IsWellFoundedOn(R, Nat)
  BY NatLessThanWellFounded
<1>2. \A x, y \in Nat : x < y => <<x, y>> \in R
  BY DEF OpToRel
<1> HIDE DEF R
<1>3. \E x \in T : \A y \in T : ~ (<<y, x>> \in R)
  BY <1>1, WFMin
<1>4. PICK x \in T : \A y \in T : ~ (<<y, x>> \in R)
  BY <1>3
<1>5. \A y \in T : x <= y
  <2> TAKE y \in T
  <2>1. x \in Nat /\ y \in Nat
    OBVIOUS
  <2>2. ~ (y < x)
    BY <1>2, <1>4, <2>1
  <2> QED
    BY <2>1, <2>2
<1> QED
  BY <1>5

(* Induction over the naturals, for the members of a set: a set holding 0  *)
(* and the successors of its members holds every natural.                  *)
LEMMA SetInduction ==
    ASSUME NEW S, 0 \in S, \A n \in Nat : n \in S => n + 1 \in S
    PROVE  Nat \subseteq S
<1> SUFFICES ASSUME Nat \ S # {} PROVE FALSE
  OBVIOUS
<1> PICK n \in Nat \ S : \A k \in Nat \ S : n <= k
  BY LeastNumber
<1>1. n # 0 /\ n - 1 \in Nat /\ n - 1 < n
  OBVIOUS
<1> QED
  BY <1>1

(* Induction on a measure: what follows for x from all that measure less   *)
(* holds for all.                                                          *)
LEMMA MeasureInduction ==
    ASSUME NEW S, NEW m, \A x \in S : m[x] \in Nat, NEW P,
           \A x \in S : (\A y \in S : m[y] < m[x] => y \in P) => x \in P
    PROVE  S \subseteq P
<1> SUFFICES ASSUME S \ P # {} PROVE FALSE
  OBVIOUS
<1> DEFINE T == {m[x] : x \in S \ P}
<1>1. T \subseteq Nat /\ T # {}
  OBVIOUS
<1>2. PICK n \in T : \A k \in T : n <= k
  <2> HIDE DEF T
  <2> QED BY <1>1, LeastNumber
<1>3. PICK x \in S \ P : n = m[x]
  OBVIOUS
<1>4. \A y \in S : m[y] < m[x] => y \in P
  <2> TAKE y \in S
  <2> SUFFICES ASSUME m[y] < m[x], y \notin P PROVE FALSE
    OBVIOUS
  <2>1. m[y] \in T
    OBVIOUS
  <2>2. m[x] \in Nat /\ m[y] \in Nat
    OBVIOUS
  <2>3. m[x] <= m[y]
    <3> HIDE DEF T
    <3> QED BY <2>1, <1>2, <1>3
  <2> QED
    BY <2>2, <2>3
<1>5. x \in S /\ x \notin P
  BY <1>3
<1> QED
  BY <1>4, <1>5

(* G gives a value at x from a function, of which it looks only at the     *)
(* arguments that measure less than x.                                     *)
RecursionOn(S, T, m, G) ==
    /\ m \in [S -> Nat]
    /\ G \in [S \X [S -> T] -> T]
    /\ \A x \in S : \A f, g \in [S -> T] :
         (\A y \in S : m[y] < m[x] => f[y] = g[y]) => G[<<x, f>>] = G[<<x, g>>]

(* F is what the recursion computes.                                       *)
Solves(F, S, G) == \A x \in S : F[x] = G[<<x, F>>]

(* Recursion on a measure has a solution: the attempts that are right up   *)
(* to a measure agree with one another, and their common values are one.   *)
LEMMA MeasureRecursion ==
    ASSUME NEW S, NEW T, NEW m, NEW G, T # {}, RecursionOn(S, T, m, G)
    PROVE  \E F \in [S -> T] : Solves(F, S, G)
<1> USE DEF RecursionOn
<1> DEFINE Upto(n, f) == \A x \in S : m[x] < n => f[x] = G[<<x, f>>]
<1> DEFINE Known == {n \in Nat : \E f \in [S -> T] : Upto(n, f)}
<1>1. Nat \subseteq Known
  <2>1. 0 \in Known
    <3>1. PICK t \in T : TRUE
      OBVIOUS
    <3>2. [x \in S |-> t] \in [S -> T]
      OBVIOUS
    <3>3. Upto(0, [x \in S |-> t])
      OBVIOUS
    <3> QED
      BY <3>2, <3>3
  <2>2. ASSUME NEW n \in Nat, n \in Known
        PROVE  n + 1 \in Known
    <3>1. PICK f \in [S -> T] : Upto(n, f)
      BY <2>2
    <3> DEFINE h == [x \in S |-> G[<<x, f>>]]
    <3>2. h \in [S -> T]
      OBVIOUS
    <3>3. Upto(n + 1, h)
      <4> SUFFICES ASSUME NEW x \in S, m[x] < n + 1
                   PROVE  h[x] = G[<<x, h>>]
        OBVIOUS
      <4>1. \A y \in S : m[y] < m[x] => f[y] = h[y]
        <5> TAKE y \in S
        <5> HAVE m[y] < m[x]
        <5>1. m[y] \in Nat /\ m[x] \in Nat
          OBVIOUS
        <5>2. m[y] < n
          BY <5>1
        <5> QED
          BY <5>2, <3>1
      <4>2. G[<<x, f>>] = G[<<x, h>>]
        BY <4>1, <3>2
      <4> QED
        BY <4>2
    <3>4. n + 1 \in Nat
      OBVIOUS
    <3> HIDE DEF h, Upto
    <3> QED
      BY <3>2, <3>3, <3>4
  <2> HIDE DEF Known
  <2> QED
    BY <2>1, <2>2, SetInduction
<1>2. ASSUME NEW n \in Nat, NEW f \in [S -> T], NEW g \in [S -> T], Upto(n, f), Upto(n, g)
      PROVE  \A x \in S : m[x] < n => f[x] = g[x]
  <2> DEFINE Same == {x \in S : m[x] < n => f[x] = g[x]}
  <2>1. \A x \in S : (\A y \in S : m[y] < m[x] => y \in Same) => x \in Same
    <3> SUFFICES ASSUME NEW x \in S, \A y \in S : m[y] < m[x] => y \in Same, m[x] < n
                 PROVE  f[x] = g[x]
      OBVIOUS
    <3>1. \A y \in S : m[y] < m[x] => f[y] = g[y]
      <4> TAKE y \in S
      <4> HAVE m[y] < m[x]
      <4>1. m[y] \in Nat /\ m[x] \in Nat
        OBVIOUS
      <4>2. m[y] < n
        BY <4>1
      <4> QED
        BY <4>2
    <3>2. G[<<x, f>>] = G[<<x, g>>]
      BY <3>1
    <3>3. f[x] = G[<<x, f>>] /\ g[x] = G[<<x, g>>]
      BY <1>2
    <3> QED
      BY <3>2, <3>3
  <2>2. S \subseteq Same
    <3> HIDE DEF Same
    <3> QED BY <2>1, MeasureInduction
  <2> QED
    BY <2>2
<1> DEFINE app == [n \in Nat |-> CHOOSE f \in [S -> T] : Upto(n, f)]
<1>3. \A n \in Nat : app[n] \in [S -> T] /\ Upto(n, app[n])
  <2> TAKE n \in Nat
  <2>1. \E f \in [S -> T] : Upto(n, f)
    BY <1>1
  <2>2. app[n] = CHOOSE f \in [S -> T] : Upto(n, f)
    OBVIOUS
  <2> HIDE DEF Upto
  <2> QED
    BY <2>1, <2>2
<1> DEFINE F == [x \in S |-> app[m[x] + 1][x]]
<1>4. F \in [S -> T]
  <2> SUFFICES ASSUME NEW x \in S PROVE app[m[x] + 1][x] \in T
    OBVIOUS
  <2>1. m[x] + 1 \in Nat
    OBVIOUS
  <2> HIDE DEF app
  <2> QED
    BY <2>1, <1>3
<1>5. \A x \in S : F[x] = G[<<x, F>>]
  <2> TAKE x \in S
  <2> DEFINE n == m[x] + 1
  <2>0. n \in Nat /\ m[x] \in Nat /\ m[x] < n
    OBVIOUS
  <2>1. app[n] \in [S -> T] /\ Upto(n, app[n])
    BY <2>0, <1>3
  <2>2. \A y \in S : m[y] < m[x] => app[n][y] = F[y]
    <3> TAKE y \in S
    <3> HAVE m[y] < m[x]
    <3> DEFINE k == m[y] + 1
    <3>1. k \in Nat /\ m[y] \in Nat /\ k <= n /\ m[y] < k
      OBVIOUS
    <3>2. app[k] \in [S -> T] /\ Upto(k, app[k])
      BY <3>1, <1>3
    <3>3. Upto(k, app[n])
      <4> SUFFICES ASSUME NEW z \in S, m[z] < k PROVE m[z] < n
        BY <2>1
      <4>1. m[z] \in Nat
        OBVIOUS
      <4> HIDE DEF k, n
      <4> QED
        BY <4>1, <3>1, <2>0
    <3>4. app[n][y] = app[k][y]
      <4> HIDE DEF Upto, app, k, n
      <4> QED BY <3>1, <3>2, <3>3, <2>1, <1>2
    <3> QED
      BY <3>4
  <2>3. F[x] = app[n][x]
    OBVIOUS
  <2>4. app[n][x] = G[<<x, app[n]>>]
    <3> HIDE DEF app, n
    <3> QED BY <2>0, <2>1
  <2>5. G[<<x, app[n]>>] = G[<<x, F>>]
    <3> HIDE DEF app, n, F
    <3> QED BY <2>1, <2>2, <1>4
  <2> QED
    BY <2>3, <2>4, <2>5
<1> HIDE DEF F
<1> QED
  BY <1>4, <1>5 DEF Solves

(* A fold over the numbers up to n: a start and a step, within a set.      *)
FoldOn(n, T, b, step) ==
    n \in Nat /\ b \in T /\ \A i \in 1 .. n, v \in T : step[<<i, v>>] \in T

(* The values of the fold, one by one.                                     *)
Folds(F, n, T, b, step) ==
    /\ F \in [0 .. n -> T] /\ F[0] = b
    /\ \A i \in 1 .. n : i \in 0 .. n /\ i # 0 /\ F[i - 1] \in T /\ F[i] = step[<<i, F[i - 1]>>]
    /\ \A i \in 0 .. n : i # 0 => i \in 1 .. n

(* Every fold has its values.                                              *)
LEMMA FoldExists ==
    ASSUME NEW n, NEW T, NEW b, NEW step, FoldOn(n, T, b, step)
    PROVE  \E F : Folds(F, n, T, b, step)
<1> USE DEF FoldOn
<1> DEFINE S == 0 .. n
           m == [i \in S |-> i]
           G == [p \in S \X [S -> T] |-> IF p[1] = 0 THEN b ELSE step[<<p[1], p[2][p[1] - 1]>>]]
<1>0. \A i \in S : i \in Nat /\ (i # 0 => i - 1 \in S /\ i - 1 < i /\ i \in 1 .. n)
  OBVIOUS
<1>1. m \in [S -> Nat]
  BY <1>0
<1>2. \A i \in S, f \in [S -> T] :
        G[<<i, f>>] = IF i = 0 THEN b ELSE step[<<i, f[i - 1]>>]
  OBVIOUS
<1>3. \A i \in S, f \in [S -> T] : G[<<i, f>>] \in T
  <2> HIDE DEF G, S
  <2> QED BY <1>0, <1>2
<1>4. G \in [S \X [S -> T] -> T]
  <2>1. \A p \in S \X [S -> T] : p = <<p[1], p[2]>> /\ p[1] \in S /\ p[2] \in [S -> T]
    OBVIOUS
  <2>2. \A p \in S \X [S -> T] : G[p] \in T
    <3> HIDE DEF G, S
    <3> QED BY <1>3, <2>1
  <2>3. G = [p \in S \X [S -> T] |-> G[p]]
    OBVIOUS
  <2> HIDE DEF G, S
  <2> QED BY <2>2, <2>3
<1>5. \A i \in S : \A f, g \in [S -> T] :
        (\A j \in S : m[j] < m[i] => f[j] = g[j]) => G[<<i, f>>] = G[<<i, g>>]
  <2> TAKE i \in S
  <2> TAKE f, g \in [S -> T]
  <2> HAVE \A j \in S : m[j] < m[i] => f[j] = g[j]
  <2>1. i # 0 => f[i - 1] = g[i - 1]
    BY <1>0
  <2> HIDE DEF G, S, m
  <2> QED BY <2>1, <1>2, ZenonT(40)
<1>6. PICK F \in [S -> T] : \A i \in S : F[i] = G[<<i, F>>]
  <2> HIDE DEF G, S, m
  <2>1. T # {}
    OBVIOUS
  <2>2. RecursionOn(S, T, m, G)
    BY <1>1, <1>4, <1>5 DEF RecursionOn
  <2> QED BY <2>1, <2>2, MeasureRecursion DEF Solves
<1>7. \A i \in S : F[i] = IF i = 0 THEN b ELSE step[<<i, F[i - 1]>>]
  <2> HIDE DEF G, S
  <2> QED BY <1>2, <1>6
<1>8. ASSUME NEW i \in 1 .. n
      PROVE  i \in 0 .. n /\ i # 0 /\ F[i - 1] \in T /\ F[i] = step[<<i, F[i - 1]>>]
  <2>1. i \in 0 .. n /\ i # 0 /\ i - 1 \in 0 .. n
    OBVIOUS
  <2> QED
    BY <1>7, <2>1
<1>9. F[0] = b /\ \A i \in 0 .. n : i # 0 => i \in 1 .. n
  <2>1. 0 \in 0 .. n /\ \A i \in 0 .. n : i # 0 => i \in 1 .. n
    OBVIOUS
  <2> QED
    BY <1>7, <2>1
<1> HIDE DEF S, m, G
<1>10. F \in [0 .. n -> T]
  BY <1>6 DEF S
<1> QED
  BY <1>8, <1>9, <1>10 DEF Folds

(* Induction up to a bound, for the members of a set.                      *)
LEMMA UptoInduction ==
    ASSUME NEW n \in Nat, NEW P, 0 \in P, \A i \in 1 .. n : i - 1 \in P => i \in P
    PROVE  \A i \in 0 .. n : i \in P
<1> DEFINE Q == {i \in Nat : i <= n => i \in P}
<1>1. 0 \in Q
  OBVIOUS
<1>2. ASSUME NEW i \in Nat, i \in Q PROVE i + 1 \in Q
  <2> SUFFICES ASSUME i + 1 <= n PROVE i + 1 \in P
    OBVIOUS
  <2>1. i + 1 \in 1 .. n /\ (i + 1) - 1 = i /\ i <= n
    OBVIOUS
  <2>2. i \in P
    BY <1>2, <2>1
  <2> QED
    BY <2>1, <2>2
<1>3. Nat \subseteq Q
  <2> HIDE DEF Q
  <2> QED BY <1>1, <1>2, SetInduction
<1> QED
  BY <1>3

(* The values of a fold stay in a set that its steps stay in.              *)
LEMMA FoldTyped ==
    ASSUME NEW n \in Nat, NEW T, NEW B, B[0] \in T, \A i \in 1 .. n : B[i - 1] \in T => B[i] \in T
    PROVE  \A i \in 0 .. n : B[i] \in T
<1> DEFINE P == {i \in 0 .. n : B[i] \in T}
<1>1. 0 \in P
  OBVIOUS
<1>2. ASSUME NEW i \in 1 .. n, i - 1 \in P PROVE i \in P
  BY <1>2
<1>3. \A i \in 0 .. n : i \in P
  <2> HIDE DEF P
  <2> QED BY <1>1, <1>2, UptoInduction
<1> QED
  BY <1>3

(* The part of a list from a position to itself is its element there.      *)
LEMMA SubSeqOne ==
    ASSUME NEW S, NEW s, NEW j \in Int, s[j] \in S
    PROVE  SubSeq(s, j, j) \in Seq(S) /\ Len(SubSeq(s, j, j)) = 1 /\ SubSeq(s, j, j)[1] = s[j]
<1> DEFINE q == SubSeq(s, j, j)
<1>1. \A k \in j .. j : s[k] \in S
  OBVIOUS
<1>2. /\ q \in Seq(S)
      /\ Len(q) = IF j<=j THEN j-j+1 ELSE 0
      /\ \A i \in 1 .. j-j+1 : q[i] = s[j+i-1]
  BY <1>1, SubSeqProperties
<1> HIDE DEF q
<1>3. j <= j /\ j - j + 1 = 1 /\ 1 \in 1 .. j - j + 1 /\ j + 1 - 1 = j
  OBVIOUS
<1>4. q[1] = s[j + 1 - 1]
  BY <1>2, <1>3, Zenon
<1> QED
  BY <1>2, <1>3, <1>4 DEF q

(* What division by a positive number leaves.                              *)
LEMMA DivBounds ==
    ASSUME NEW a \in Nat, NEW b \in Nat \ {0}
    PROVE  a \div b \in Nat /\ (a \div b) * b <= a /\ a < (a \div b) * b + b
<1>1. a \div b \in Int /\ a % b \in 0 .. b - 1 /\ a = b * (a \div b) + (a % b)
  OBVIOUS
<1>2. a \div b \in Nat
  OBVIOUS
<1> QED
  BY <1>1, <1>2

(* Multiplication keeps an order.                                          *)
LEMMA TimesMono ==
    ASSUME NEW a \in Nat, NEW b \in Nat, NEW c \in Nat, a <= b
    PROVE  a * c \in Nat /\ b * c \in Nat /\ a * c <= b * c
OBVIOUS

(* A product with the number before, and after.                            *)
LEMMA TimesNext ==
    ASSUME NEW a \in Int, NEW c \in Int
    PROVE  (a - 1) * c = a * c - c /\ (a + 1) * c = a * c + c /\ 0 * c = 0 /\ a * c \in Int
OBVIOUS

(* The elements of two joined lists.                                       *)
LEMMA JoinAt ==
    ASSUME NEW S, NEW u \in Seq(S), NEW v \in Seq(S)
    PROVE  /\ u \o v \in Seq(S) /\ Len(u \o v) = Len(u) + Len(v)
           /\ Len(u) \in Nat /\ Len(v) \in Nat
           /\ \A i \in 1 .. Len(u) : (u \o v)[i] = u[i]
           /\ \A k \in 1 .. Len(v) : (u \o v)[Len(u) + k] = v[k]
OBVIOUS

(* The elements of two joined lists, where their lengths have names.       *)
LEMMA JoinLens ==
    ASSUME NEW S, NEW u, NEW v, u \in Seq(S), v \in Seq(S), NEW lo \in Nat, NEW n \in Nat,
           Len(u) = lo, Len(v) = n
    PROVE  /\ u \o v \in Seq(S) /\ Len(u \o v) = lo + n
           /\ \A i \in 1 .. lo : (u \o v)[i] = u[i]
           /\ \A k \in 1 .. n : (u \o v)[lo + k] = v[k]
OBVIOUS

-----------------------------------------------------------------------------
(* Dates.                                                                  *)

(* A day as a step of addDays can name it, outside its month; a day of its *)
(* month; the day count of the first of a month.                           *)
Days == [year : Int, month : 1 .. 12, day : Int]
IsDay(x) == x \in Days /\ x.day \in 1 .. daysInMonth(x.year, x.month)
First(y, m) == Ordinal(Date(y, m, 1))

(* How many days a month and the months before it have.                    *)
LEMMA MonthLengths ==
    ASSUME NEW y \in Int, NEW m \in 1 .. 12
    PROVE  /\ daysInMonth(y, m) \in 28 .. 31 /\ DaysBefore(y, m) \in 0 .. 335
           /\ DaysBefore(y, 1) = 0
           /\ m < 12 => DaysBefore(y, m + 1) = DaysBefore(y, m) + daysInMonth(y, m)
           /\ m = 12 => DaysBefore(y, m) + daysInMonth(y, m) = IF isLeapYear(y) THEN 366 ELSE 365
<1> USE DEF daysInMonth, DaysBefore
<1>a. isLeapYear(y) \in BOOLEAN
  BY DEF isLeapYear
<1>1. CASE m = 1
  BY <1>1, <1>a
<1>2. CASE m = 2
  BY <1>2, <1>a
<1>3. CASE m = 3
  BY <1>3, <1>a
<1>4. CASE m = 4
  BY <1>4, <1>a
<1>5. CASE m = 5
  BY <1>5, <1>a
<1>6. CASE m = 6
  BY <1>6, <1>a
<1>7. CASE m = 7
  BY <1>7, <1>a
<1>8. CASE m = 8
  BY <1>8, <1>a
<1>9. CASE m = 9
  BY <1>9, <1>a
<1>10. CASE m = 10
  BY <1>10, <1>a
<1>11. CASE m = 11
  BY <1>11, <1>a
<1>12. CASE m = 12
  BY <1>12, <1>a
<1>13. m \in {1, 2, 3, 4, 5, 6, 7, 8, 9, 10, 11, 12}
  OBVIOUS
<1> QED
  BY <1>1, <1>2, <1>3, <1>4, <1>5, <1>6, <1>7, <1>8, <1>9, <1>10, <1>11, <1>12, <1>13

(* These are numbers, and small.                                           *)
LEMMA MonthTypes ==
    ASSUME NEW y \in Int, NEW m \in 1 .. 12
    PROVE  /\ daysInMonth(y, m) \in 28 .. 31 /\ DaysBefore(y, m) \in 0 .. 335
           /\ daysInMonth(y, m) \in Int /\ DaysBefore(y, m) \in Int
<1>1. daysInMonth(y, m) \in 28 .. 31 /\ DaysBefore(y, m) \in 0 .. 335
  BY MonthLengths
<1> QED
  BY <1>1

(* A month starts where the one before it ends.                            *)
LEMMA NextMonthStart ==
    ASSUME NEW y \in Int, NEW m \in 1 .. 12, NEW k, k = m + 1, m < 12
    PROVE  DaysBefore(y, k) = DaysBefore(y, m) + daysInMonth(y, m)
BY MonthLengths

(* The twelve months are the year.                                         *)
LEMMA LastMonthEnd ==
    ASSUME NEW y \in Int
    PROVE  /\ DaysBefore(y, 1) = 0
           /\ DaysBefore(y, 12) + daysInMonth(y, 12) = IF isLeapYear(y) THEN 366 ELSE 365
<1>1. 12 \in 1 .. 12
  OBVIOUS
<1> QED
  BY <1>1, MonthLengths

(* The days before a year.                                                 *)
YearStart(y) == 365 * (y - 1) + ((y - 1) \div 4) - ((y - 1) \div 100) + ((y - 1) \div 400)

(* What the leap-year quotients gain in a year.                            *)
LEMMA Quotients ==
    ASSUME NEW y \in Int
    PROVE  /\ y \div 4 - (y - 1) \div 4 = IF y % 4 = 0 THEN 1 ELSE 0
           /\ y \div 100 - (y - 1) \div 100 = IF y % 100 = 0 THEN 1 ELSE 0
           /\ y \div 400 - (y - 1) \div 400 = IF y % 400 = 0 THEN 1 ELSE 0
           /\ y \div 4 \in Int /\ y \div 100 \in Int /\ y \div 400 \in Int
           /\ y % 400 = 0 => y % 100 = 0
           /\ y % 100 = 0 => y % 4 = 0
OBVIOUS

(* A year has 365 or 366 days.                                             *)
LEMMA YearLength ==
    ASSUME NEW y \in Int
    PROVE  /\ YearStart(y) \in Int
           /\ YearStart(y + 1) = YearStart(y) + (IF isLeapYear(y) THEN 366 ELSE 365)
<1>1. (y + 1) - 1 = y /\ y - 1 \in Int /\ y + 1 \in Int
  OBVIOUS
<1>2. /\ (y - 1) \div 4 \in Int /\ (y - 1) \div 100 \in Int /\ (y - 1) \div 400 \in Int
  BY <1>1, Quotients
<1>3. isLeapYear(y) <=> (y % 4 = 0 /\ y % 100 # 0) \/ y % 400 = 0
  BY DEF isLeapYear
<1> QED
  BY <1>1, <1>2, <1>3, Quotients DEF YearStart

(* The days before a year are a number.                                    *)
LEMMA YearType == ASSUME NEW y \in Int PROVE YearStart(y) \in Int
BY YearLength

(* The same, where the next year has a name.                               *)
LEMMA NextYearStart ==
    ASSUME NEW y \in Int, NEW z, z = y + 1
    PROVE  YearStart(z) = YearStart(y) + (IF isLeapYear(y) THEN 366 ELSE 365)
BY YearLength

(* The day count, as the days before the year, before the month, and of    *)
(* the month.                                                              *)
LEMMA OrdinalIs ==
    ASSUME NEW y \in Int, NEW m \in 1 .. 12, NEW d \in Int
    PROVE  /\ Ordinal(Date(y, m, d)) = YearStart(y) + DaysBefore(y, m) + d
           /\ Ordinal(Date(y, m, d)) \in Int
<1>1. YearStart(y) \in Int /\ DaysBefore(y, m) \in Int
  BY YearType, MonthTypes
<1>2. Ordinal(Date(y, m, d)) = YearStart(y) + DaysBefore(y, m) + d
  BY DEF Ordinal, Date, YearStart
<1> QED
  BY <1>1, <1>2

(* The months next to a month.                                             *)
LEMMA Neighbours ==
    ASSUME NEW y \in Int, NEW m \in 1 .. 12
    PROVE  /\ Next1(y, m) = IF m = 12 THEN [year |-> y + 1, month |-> 1]
                          ELSE [year |-> y, month |-> m + 1]
           /\ Previous1(y, m) = IF m = 1 THEN [year |-> y - 1, month |-> 12]
                              ELSE [year |-> y, month |-> m - 1]
<1>1. /\ (y * 12 + (m - 1) + 1) \div 12 = IF m = 12 THEN y + 1 ELSE y
      /\ ((y * 12 + (m - 1) + 1) % 12) + 1 = IF m = 12 THEN 1 ELSE m + 1
  OBVIOUS
<1>2. /\ (y * 12 + (m - 1) + (-1)) \div 12 = IF m = 1 THEN y - 1 ELSE y
      /\ ((y * 12 + (m - 1) + (-1)) % 12) + 1 = IF m = 1 THEN 12 ELSE m - 1
  OBVIOUS
<1> QED
  BY <1>1, <1>2 DEF Next1, Previous1, addMonths

(* A day of January as a day past the end of December.                     *)
LEMMA SameOrdinal ==
    ASSUME NEW y \in Int, NEW z \in Int, z = y + 1, NEW d \in Int
    PROVE  Ordinal(Date(z, 1, d)) = Ordinal(Date(y, 12, d)) + daysInMonth(y, 12)
<1>1. 1 \in 1 .. 12 /\ 12 \in 1 .. 12
  OBVIOUS
<1>2. /\ Ordinal(Date(z, 1, d)) = YearStart(z) + DaysBefore(z, 1) + d
      /\ Ordinal(Date(y, 12, d)) = YearStart(y) + DaysBefore(y, 12) + d
  BY <1>1, OrdinalIs
<1>3. /\ YearStart(z) = YearStart(y) + (IF isLeapYear(y) THEN 366 ELSE 365)
      /\ DaysBefore(z, 1) = 0
      /\ DaysBefore(y, 12) + daysInMonth(y, 12) = IF isLeapYear(y) THEN 366 ELSE 365
  BY NextYearStart, LastMonthEnd
<1>4. YearStart(y) \in Int /\ DaysBefore(y, 12) \in Int /\ daysInMonth(y, 12) \in Int
  BY <1>1, YearType, MonthTypes
<1> QED
  BY <1>2, <1>3, <1>4

(* A day of a month as a day past the end of the month before, in a year.  *)
LEMMA SameMonthOrdinal ==
    ASSUME NEW y \in Int, NEW m \in 1 .. 12, NEW k \in 1 .. 12, k = m + 1, NEW d \in Int
    PROVE  Ordinal(Date(y, k, d)) = Ordinal(Date(y, m, d)) + daysInMonth(y, m)
<1>2. /\ Ordinal(Date(y, k, d)) = YearStart(y) + DaysBefore(y, k) + d
      /\ Ordinal(Date(y, m, d)) = YearStart(y) + DaysBefore(y, m) + d
  BY OrdinalIs
<1>3. DaysBefore(y, k) = DaysBefore(y, m) + daysInMonth(y, m)
  <2>1. m < 12
    OBVIOUS
  <2> QED
    BY <2>1, NextMonthStart
<1>4. YearStart(y) \in Int /\ DaysBefore(y, m) \in Int /\ daysInMonth(y, m) \in Int
  BY YearType, MonthTypes
<1> QED
  BY <1>2, <1>3, <1>4

(* The same, over the end of a year or not.                                *)
LEMMA MonthAfterMonth ==
    ASSUME NEW y \in Int, NEW m \in 1 .. 12, NEW d \in Int, NEW n, n = Next1(y, m)
    PROVE  /\ n.year \in Int /\ n.month \in 1 .. 12
           /\ Ordinal(Date(n.year, n.month, d)) = Ordinal(Date(y, m, d)) + daysInMonth(y, m)
<1>1. n = IF m = 12 THEN [year |-> y + 1, month |-> 1] ELSE [year |-> y, month |-> m + 1]
  BY Neighbours
<1>2. CASE m = 12
  <2>1. n.year = y + 1 /\ n.month = 1 /\ y + 1 \in Int /\ 1 \in 1 .. 12 /\ 12 \in 1 .. 12
    BY <1>1, <1>2
  <2> QED
    BY <1>2, <2>1, SameOrdinal, LastMonthEnd
<1>3. CASE m # 12
  <2>1. n.year = y /\ n.month = m + 1 /\ m + 1 \in 1 .. 12 /\ m < 12
    BY <1>1, <1>3
  <2> QED
    BY <1>3, <2>1, SameMonthOrdinal
<1> QED
  BY <1>2, <1>3

(* A day of a month as one before the start of the next.                   *)
LEMMA MonthBeforeMonth ==
    ASSUME NEW y \in Int, NEW m \in 1 .. 12, NEW d \in Int, NEW p, p = Previous1(y, m)
    PROVE  /\ p.year \in Int /\ p.month \in 1 .. 12
           /\ Ordinal(Date(p.year, p.month, d)) + daysInMonth(p.year, p.month) = Ordinal(Date(y, m, d))
           /\ Ordinal(Date(p.year, p.month, d)) \in Int /\ daysInMonth(p.year, p.month) \in Int
<1>1. p = IF m = 1 THEN [year |-> y - 1, month |-> 12] ELSE [year |-> y, month |-> m - 1]
  BY Neighbours
<1>2. p.year \in Int /\ p.month \in 1 .. 12
  BY <1>1
<1>3. /\ m = 1 => p.year = y - 1 /\ p.month = 12
      /\ m # 1 => p.year = y /\ p.month = m - 1
  BY <1>1
<1>4. Ordinal(Date(y, m, d)) = Ordinal(Date(p.year, p.month, d)) + daysInMonth(p.year, p.month)
  <2>1. CASE m = 1
    <3>1. y - 1 \in Int /\ y = (y - 1) + 1
      OBVIOUS
    <3> QED
      BY <1>3, <2>1, <3>1, SameOrdinal
  <2>2. CASE m # 1
    <3>1. m - 1 \in 1 .. 12 /\ m = (m - 1) + 1
      BY <2>2
    <3> QED
      BY <1>3, <2>2, <3>1, SameMonthOrdinal
  <2> QED
    BY <2>1, <2>2
<1>5. Ordinal(Date(p.year, p.month, d)) \in Int /\ daysInMonth(p.year, p.month) \in Int
  BY <1>2, OrdinalIs, MonthTypes
<1> QED
  BY <1>2, <1>4, <1>5

(* A later year starts at least 365 days later for each year between.      *)
LEMMA LaterYears ==
    ASSUME NEW y \in Int, NEW z \in Int, y <= z
    PROVE  YearStart(z) >= YearStart(y) + 365 * (z - y)
<1> DEFINE a == y - 1
           b == z - 1
<1>1. /\ a \in Int /\ b \in Int /\ a <= b /\ z - y = b - a
  OBVIOUS
<1> HIDE DEF a, b
<1>2. b \div 4 - a \div 4 >= b \div 100 - a \div 100
  <2>1. b \div 4 - b \div 100 >= a \div 4 - a \div 100
    <3> DEFINE q == a \div 100
               r == b \div 100
    <3>1. q \in Int /\ r \in Int /\ q <= r /\ 100 * q <= a /\ a < 100 * q + 100
          /\ 100 * r <= b /\ b < 100 * r + 100
      BY <1>1
    <3> HIDE DEF q, r
    <3>2. /\ b \div 4 >= 25 * r /\ a \div 4 <= 25 * q + 24 /\ a \div 4 <= b \div 4
          /\ a \div 4 \in Int /\ b \div 4 \in Int
      BY <1>1, <3>1
    <3> QED
      BY <3>1, <3>2 DEF q, r
  <2>2. b \div 4 \in Int /\ b \div 100 \in Int /\ a \div 4 \in Int /\ a \div 100 \in Int
    BY <1>1
  <2> QED
    BY <2>1, <2>2
<1>3. b \div 400 >= a \div 400
  BY <1>1
<1>4. /\ b \div 4 \in Int /\ b \div 100 \in Int /\ a \div 4 \in Int /\ a \div 100 \in Int
      /\ b \div 400 \in Int /\ a \div 400 \in Int
  BY <1>1
<1>5. /\ YearStart(z) = 365 * b + (b \div 4) - (b \div 100) + (b \div 400)
      /\ YearStart(y) = 365 * a + (a \div 4) - (a \div 100) + (a \div 400)
  BY DEF YearStart, a, b
<1> QED
  BY <1>1, <1>2, <1>3, <1>4, <1>5

(* The day count of a day lies within its year.                            *)
LEMMA DayInYear ==
    ASSUME NEW x, IsDay(x)
    PROVE  /\ Ordinal(x) \in Int /\ x = Date(x.year, x.month, x.day)
           /\ Ordinal(x) = YearStart(x.year) + DaysBefore(x.year, x.month) + x.day
           /\ YearStart(x.year) < Ordinal(x) /\ Ordinal(x) <= YearStart(x.year + 1)
<1> DEFINE y == x.year
           m == x.month
           d == x.day
<1>1. /\ y \in Int /\ m \in 1 .. 12 /\ d \in 1 .. daysInMonth(y, m) /\ x = Date(y, m, d)
      /\ daysInMonth(y, m) \in 28 .. 31
  BY MonthTypes DEF IsDay, Days, Date
<1>a. d \in Int
  BY <1>1
<1> HIDE DEF y, m, d
<1>2. Ordinal(x) = YearStart(y) + DaysBefore(y, m) + d /\ Ordinal(x) \in Int
  BY <1>1, <1>a, OrdinalIs, Zenon
<1>3. DaysBefore(y, m) + daysInMonth(y, m) <= IF isLeapYear(y) THEN 366 ELSE 365
  <2>1. CASE m = 12
    BY <1>1, <2>1, LastMonthEnd, MonthTypes, SMTT(30)
  <2>2. CASE m < 12
    <3>1. m + 1 \in 1 .. 12
      BY <1>1, <2>2
    <3>2. DaysBefore(y, m + 1) \in 0 .. 335
      BY <1>1, <3>1, MonthTypes
    <3>3. DaysBefore(y, m + 1) = DaysBefore(y, m) + daysInMonth(y, m)
      BY <1>1, <2>2, NextMonthStart, Zenon
    <3> QED
      BY <3>2, <3>3
  <2> QED
    BY <1>1, <2>1, <2>2
<1>4. /\ YearStart(y) \in Int /\ YearStart(y + 1) = YearStart(y) + (IF isLeapYear(y) THEN 366 ELSE 365)
      /\ DaysBefore(y, m) \in 0 .. 335
  BY <1>1, NextYearStart, YearType, MonthTypes, ZenonT(40)
<1>5. YearStart(y) < Ordinal(x) /\ Ordinal(x) <= YearStart(y + 1)
  BY <1>1, <1>2, <1>3, <1>4
<1> QED
  BY <1>1, <1>2, <1>5 DEF y, m, d

(* A month ends before any later one starts.                               *)
LEMMA MonthsInOrder ==
    ASSUME NEW y \in Int, NEW m \in 1 .. 12, NEW k \in 1 .. 12, m < k
    PROVE  DaysBefore(y, m) + daysInMonth(y, m) <= DaysBefore(y, k)
<1> DEFINE P == {i \in Nat : i <= 11 - m =>
                   DaysBefore(y, m) + daysInMonth(y, m) <= DaysBefore(y, m + 1 + i)}
<1>1. 0 \in P
  <2>1. m < 12 /\ m + 1 + 0 = m + 1 /\ m + 1 \in 1 .. 12
    OBVIOUS
  <2>2. DaysBefore(y, m + 1) = DaysBefore(y, m) + daysInMonth(y, m)
    BY <2>1, NextMonthStart, Zenon
  <2>3. DaysBefore(y, m + 1) \in Int
    BY <2>1, MonthTypes
  <2> QED
    BY <2>1, <2>2, <2>3
<1>2. ASSUME NEW i \in Nat, i \in P PROVE i + 1 \in P
  <2> SUFFICES ASSUME i + 1 <= 11 - m
               PROVE  DaysBefore(y, m) + daysInMonth(y, m) <= DaysBefore(y, m + 1 + (i + 1))
    OBVIOUS
  <2> DEFINE j == m + 1 + i
  <2>1. j \in 1 .. 12 /\ j < 12 /\ m + 1 + (i + 1) = j + 1 /\ j + 1 \in 1 .. 12
    OBVIOUS
  <2>2. DaysBefore(y, m) + daysInMonth(y, m) <= DaysBefore(y, j)
    BY <1>2, i <= 11 - m
  <2> HIDE DEF j
  <2>3. /\ DaysBefore(y, j + 1) = DaysBefore(y, j) + daysInMonth(y, j)
        /\ DaysBefore(y, j) \in 0 .. 335 /\ daysInMonth(y, j) \in 28 .. 31
        /\ DaysBefore(y, m) \in 0 .. 335 /\ daysInMonth(y, m) \in 28 .. 31
    <3>1. DaysBefore(y, j + 1) = DaysBefore(y, j) + daysInMonth(y, j)
      BY <2>1, NextMonthStart, Zenon
    <3> QED
      BY <2>1, <3>1, MonthTypes
  <2>4. DaysBefore(y, m + 1 + (i + 1)) = DaysBefore(y, j + 1)
    BY <2>1, Zenon
  <2>5. /\ DaysBefore(y, j) \in Int /\ daysInMonth(y, j) \in Int /\ daysInMonth(y, j) >= 0
        /\ DaysBefore(y, m) \in Int /\ daysInMonth(y, m) \in Int
    BY <2>3
  <2>6. DaysBefore(y, m) + daysInMonth(y, m) <= DaysBefore(y, j + 1)
    BY <2>2, <2>3, <2>5
  <2> QED
    BY <2>4, <2>6, Zenon
<1> HIDE DEF P
<1>3. Nat \subseteq P
  BY <1>1, <1>2, SetInduction
<1>4. k - m - 1 \in P /\ k - m - 1 <= 11 - m /\ m + 1 + (k - m - 1) = k
  BY <1>3
<1> QED
  BY <1>4 DEF P

(* In a year two days of the same count are one.                           *)
LEMMA OneYearOneOrdinal ==
    ASSUME NEW y \in Int, NEW m \in 1 .. 12, NEW k \in 1 .. 12, NEW d \in Int, NEW e \in Int,
           d \in 1 .. daysInMonth(y, m), e \in 1 .. daysInMonth(y, k),
           Ordinal(Date(y, m, d)) = Ordinal(Date(y, k, e))
    PROVE  m = k /\ d = e
<1> DEFINE s == YearStart(y)
           a == DaysBefore(y, m)
           b == DaysBefore(y, k)
           la == daysInMonth(y, m)
           lb == daysInMonth(y, k)
<1>1. s \in Int /\ a \in Int /\ b \in Int /\ la \in Int /\ lb \in Int
  BY YearType, MonthTypes
<1>2. s + a + d = s + b + e
  <2>1. Ordinal(Date(y, m, d)) = s + a + d
    BY OrdinalIs
  <2>2. Ordinal(Date(y, k, e)) = s + b + e
    BY OrdinalIs
  <2> QED
    BY <2>1, <2>2, Zenon
<1>3. m < k => a + la <= b
  BY MonthsInOrder
<1>4. k < m => b + lb <= a
  BY MonthsInOrder
<1>5. 1 <= d /\ d <= la /\ 1 <= e /\ e <= lb
  BY <1>1
<1>6. m = k => a = b
  OBVIOUS
<1> HIDE DEF s, a, b, la, lb
<1> QED
  BY <1>1, <1>2, <1>3, <1>4, <1>5, <1>6

(* Two days of the same count are one.                                     *)
LEMMA OneDayOneOrdinal ==
    ASSUME NEW x, NEW z, IsDay(x), IsDay(z), Ordinal(x) = Ordinal(z)
    PROVE  x = z
<1>1. /\ x.year \in Int /\ x.month \in 1 .. 12 /\ x.day \in Int /\ z.year \in Int
      /\ z.month \in 1 .. 12 /\ z.day \in Int
      /\ x.day \in 1 .. daysInMonth(x.year, x.month) /\ z.day \in 1 .. daysInMonth(z.year, z.month)
      /\ x = Date(x.year, x.month, x.day) /\ z = Date(z.year, z.month, z.day)
  BY DayInYear DEF IsDay, Days
<1>2. /\ YearStart(x.year) \in Int /\ YearStart(x.year + 1) \in Int
      /\ YearStart(z.year) \in Int /\ YearStart(z.year + 1) \in Int
  BY <1>1, YearType
<1>3. /\ YearStart(x.year) < Ordinal(x) /\ Ordinal(x) <= YearStart(x.year + 1)
      /\ YearStart(z.year) < Ordinal(z) /\ Ordinal(z) <= YearStart(z.year + 1)
      /\ Ordinal(x) \in Int /\ Ordinal(z) \in Int
  BY DayInYear
<1>4. x.year = z.year
  <2>1. ~(x.year < z.year)
    <3> SUFFICES ASSUME x.year < z.year PROVE FALSE
      OBVIOUS
    <3>1. x.year + 1 \in Int /\ x.year + 1 <= z.year
      BY <1>1
    <3>2. YearStart(z.year) >= YearStart(x.year + 1) + 365 * (z.year - (x.year + 1))
      BY <1>1, <3>1, LaterYears
    <3> QED
      BY <1>1, <1>2, <1>3, <3>1, <3>2
  <2>2. ~(z.year < x.year)
    <3> SUFFICES ASSUME z.year < x.year PROVE FALSE
      OBVIOUS
    <3>1. z.year + 1 \in Int /\ z.year + 1 <= x.year
      BY <1>1
    <3>2. YearStart(x.year) >= YearStart(z.year + 1) + 365 * (x.year - (z.year + 1))
      BY <1>1, <3>1, LaterYears
    <3> QED
      BY <1>1, <1>2, <1>3, <3>1, <3>2
  <2> QED
    BY <1>1, <2>1, <2>2
<1>5. x.month = z.month /\ x.day = z.day
  <2> DEFINE y == x.year
             m == x.month
             k == z.month
             d == x.day
             e == z.day
  <2>1. /\ y \in Int /\ m \in 1 .. 12 /\ k \in 1 .. 12 /\ d \in Int /\ e \in Int
        /\ d \in 1 .. daysInMonth(y, m) /\ e \in 1 .. daysInMonth(y, k)
        /\ Ordinal(Date(y, m, d)) = Ordinal(Date(y, k, e))
    BY <1>1, <1>4
  <2> HIDE DEF y, m, k, d, e
  <2>2. m = k /\ d = e
    BY <2>1, OneYearOneOrdinal
  <2> QED
    BY <2>2 DEF m, k, d, e
<1> QED
  BY <1>1, <1>4, <1>5

(* addDays as a recursion on how far the day is from its month.            *)
Outside(x) == IF x.day < 1 THEN 1 - x.day
              ELSE IF x.day > daysInMonth(x.year, x.month) THEN x.day ELSE 0

(* The two moves of addDays: over the end of the month, and before its     *)
(* start.                                                                  *)
DayAfterMonth(x) ==
    LET n == Next1(x.year, x.month)
    IN Date(n.year, n.month, x.day - daysInMonth(x.year, x.month))
DayBeforeMonth(x) ==
    LET p == Previous1(x.year, x.month)
    IN Date(p.year, p.month, x.day + daysInMonth(p.year, p.month))

(* How far a day is from its month is a natural number.                    *)
LEMMA OutsideType == ASSUME NEW x \in Days PROVE Outside(x) \in Nat
<1>1. x.day \in Int /\ daysInMonth(x.year, x.month) \in Int
  BY MonthTypes DEF Days
<1> QED
  BY <1>1 DEF Outside

(* A move over the end of the month keeps the count and comes nearer.      *)
LEMMA StepBack ==
    ASSUME NEW x \in Days, x.day > daysInMonth(x.year, x.month), NEW z, z = DayAfterMonth(x)
    PROVE  z \in Days /\ Outside(z) < Outside(x) /\ Ordinal(z) = Ordinal(x)
<1> DEFINE y == x.year
           m == x.month
           d == x.day
           n == Next1(y, m)
           l == daysInMonth(y, m)
<1>1. /\ y \in Int /\ m \in 1 .. 12 /\ d \in Int /\ x = Date(y, m, d) /\ d > l
      /\ z = Date(n.year, n.month, d - l)
  BY DEF Days, DayAfterMonth, Date
<1>2. l \in 28 .. 31
  BY <1>1, MonthTypes
<1>x. Outside(x) = d
  BY <1>1, <1>2 DEF Outside
<1> HIDE DEF y, m, d, l
<1>3. d - l \in Int /\ d - l >= 1 /\ d - l < d
  BY <1>1, <1>2
<1>4. /\ n.year \in Int /\ n.month \in 1 .. 12
      /\ Ordinal(Date(n.year, n.month, d - l)) = Ordinal(Date(y, m, d - l)) + l
  BY <1>1, <1>3, MonthAfterMonth DEF l
<1> HIDE DEF n
<1>5. z \in Days /\ z.day = d - l
  BY <1>1, <1>3, <1>4 DEF Days, Date
<1>6. Outside(z) < d
  <2>1. daysInMonth(z.year, z.month) \in Int
    BY <1>5, MonthTypes DEF Days
  <2>2. ~(z.day < 1) /\ z.day \in Int /\ 0 < d /\ z.day < d
    BY <1>1, <1>2, <1>3, <1>5
  <2> QED
    BY <2>1, <2>2 DEF Outside
<1>7. /\ Ordinal(Date(y, m, d - l)) = YearStart(y) + DaysBefore(y, m) + (d - l)
      /\ Ordinal(Date(y, m, d)) = YearStart(y) + DaysBefore(y, m) + d
      /\ YearStart(y) \in Int /\ DaysBefore(y, m) \in Int
  BY <1>1, <1>3, OrdinalIs, YearType, MonthTypes, ZenonT(40)
<1>8. Ordinal(z) = Ordinal(x)
  BY <1>1, <1>2, <1>4, <1>7
<1> QED
  BY <1>5, <1>6, <1>8, <1>x

(* So does a move before its start.                                        *)
LEMMA StepForth ==
    ASSUME NEW x \in Days, x.day < 1, NEW z, z = DayBeforeMonth(x)
    PROVE  z \in Days /\ Outside(z) < Outside(x) /\ Ordinal(z) = Ordinal(x)
<1> DEFINE y == x.year
           m == x.month
           d == x.day
           p == Previous1(y, m)
           l == daysInMonth(p.year, p.month)
<1>1. /\ y \in Int /\ m \in 1 .. 12 /\ d \in Int /\ x = Date(y, m, d) /\ d < 1
      /\ z = Date(p.year, p.month, d + l)
  BY DEF Days, DayBeforeMonth, Date
<1>x. Outside(x) = 1 - d
  BY <1>1 DEF Outside
<1> HIDE DEF y, m, d
<1>2. p.year \in Int /\ p.month \in 1 .. 12
  BY <1>1, MonthBeforeMonth
<1>3. l \in 28 .. 31
  BY <1>2, MonthTypes
<1>4. d + l \in Int /\ d + l <= l /\ d < d + l
  BY <1>1, <1>3
<1>5. Ordinal(Date(y, m, d + l)) = Ordinal(Date(p.year, p.month, d + l)) + l
      /\ Ordinal(Date(p.year, p.month, d + l)) \in Int
  <2> DEFINE e == d + l
  <2>1. e \in Int /\ p = Previous1(y, m)
    BY <1>4
  <2>y. y \in Int /\ m \in 1 .. 12
    BY <1>1
  <2> HIDE DEF e, l, p
  <2>2. Ordinal(Date(p.year, p.month, e)) + daysInMonth(p.year, p.month) = Ordinal(Date(y, m, e))
        /\ Ordinal(Date(p.year, p.month, e)) \in Int
    BY <2>y, <2>1, MonthBeforeMonth
  <2> QED
    BY <2>2 DEF e, l
<1>6. z \in Days /\ z.day = d + l /\ daysInMonth(z.year, z.month) = l
  BY <1>1, <1>2, <1>4 DEF Days, Date
<1> HIDE DEF p, l
<1>7. Outside(z) < 1 - d
  BY <1>1, <1>3, <1>4, <1>6 DEF Outside
<1>8. /\ Ordinal(Date(y, m, d + l)) = YearStart(y) + DaysBefore(y, m) + (d + l)
      /\ Ordinal(Date(y, m, d)) = YearStart(y) + DaysBefore(y, m) + d
      /\ YearStart(y) \in Int /\ DaysBefore(y, m) \in Int
  BY <1>1, <1>4, OrdinalIs, YearType, MonthTypes, ZenonT(40)
<1>9. Ordinal(z) = Ordinal(x)
  BY <1>1, <1>3, <1>5, <1>8
<1> QED
  BY <1>6, <1>7, <1>9, <1>x

(* A step of any number of days ends on a day of its month, that many days *)
(* later.                                                                  *)
LEMMA AddDays ==
    ASSUME NEW x \in Days, NEW delta \in Int
    PROVE  IsDay(addDays(x, delta)) /\ Ordinal(addDays(x, delta)) = Ordinal(x) + delta
<1> DEFINE S == [year : Int, month : 1 .. 12, day : Int]
           Walk[w \in S] ==
             LET n == Next1(w.year, w.month)
                 p == Previous1(w.year, w.month)
             IN IF w.day > daysInMonth(w.year, w.month)
                THEN Walk[Date(n.year, n.month, w.day - daysInMonth(w.year, w.month))]
                ELSE IF w.day < 1
                THEN Walk[Date(p.year, p.month, w.day + daysInMonth(p.year, p.month))]
                ELSE w
           body(f) == [w \in S |->
             LET n == Next1(w.year, w.month)
                 p == Previous1(w.year, w.month)
             IN IF w.day > daysInMonth(w.year, w.month)
                THEN f[Date(n.year, n.month, w.day - daysInMonth(w.year, w.month))]
                ELSE IF w.day < 1
                THEN f[Date(p.year, p.month, w.day + daysInMonth(p.year, p.month))]
                ELSE w]
           m == [w \in S |-> Outside(w)]
           G == [q \in S \X [S -> S] |->
                   IF q[1].day > daysInMonth(q[1].year, q[1].month) THEN q[2][DayAfterMonth(q[1])]
                   ELSE IF q[1].day < 1 THEN q[2][DayBeforeMonth(q[1])] ELSE q[1]]
           start == [x EXCEPT !.day = @ + delta]
<1>1. addDays(x, delta) = Walk[start]
  BY DEF addDays
<1>2. start = Date(x.year, x.month, x.day + delta) /\ start \in S
  BY DEF Days, Date
<1>3. S = Days
  BY DEF Days
<1>4. \A w \in S : w.day < 1 => ~(w.day > daysInMonth(w.year, w.month))
  <2> TAKE w \in S
  <2>1. w.day \in Int /\ daysInMonth(w.year, w.month) \in 28 .. 31
    BY MonthTypes
  <2> QED
    BY <2>1
<1>5. PICK F \in [S -> S] : Solves(F, S, G)
  <2>1. S # {}
    BY <1>2
  <2>2. m \in [S -> Nat]
    BY <1>3, OutsideType
  <2>3. \A w \in S : /\ w.day > daysInMonth(w.year, w.month) =>
                          DayAfterMonth(w) \in S /\ m[DayAfterMonth(w)] < m[w]
                     /\ w.day < 1 => DayBeforeMonth(w) \in S /\ m[DayBeforeMonth(w)] < m[w]
    BY <1>3, StepBack, StepForth
  <2> HIDE DEF S
  <2>a. \A w \in S : \A f \in [S -> S] :
          G[<<w, f>>] = IF w.day > daysInMonth(w.year, w.month) THEN f[DayAfterMonth(w)]
                        ELSE IF w.day < 1 THEN f[DayBeforeMonth(w)] ELSE w
    <3> TAKE w \in S
    <3> TAKE f \in [S -> S]
    <3>1. <<w, f>> \in S \X [S -> S]
      OBVIOUS
    <3> QED
      BY <3>1
  <2>4. G \in [S \X [S -> S] -> S]
    <3>1. \A q \in S \X [S -> S] : G[q] \in S
      <4> TAKE q \in S \X [S -> S]
      <4> PICK w \in S, f \in [S -> S] : q = <<w, f>>
        OBVIOUS
      <4> HIDE DEF G, m
      <4>2. /\ w.day > daysInMonth(w.year, w.month) => DayAfterMonth(w) \in S
            /\ w.day < 1 => DayBeforeMonth(w) \in S
        BY <2>3
      <4>3. \A v \in S : f[v] \in S
        OBVIOUS
      <4> QED
        BY <2>a, <4>2, <4>3
    <3>2. G = [q \in S \X [S -> S] |-> G[q]]
      OBVIOUS
    <3> HIDE DEF G
    <3> QED
      BY <3>1, <3>2
  <2>5. \A w \in S : \A f, g \in [S -> S] :
          (\A v \in S : m[v] < m[w] => f[v] = g[v]) => G[<<w, f>>] = G[<<w, g>>]
    <3> TAKE w \in S
    <3> TAKE f, g \in [S -> S]
    <3> HAVE \A v \in S : m[v] < m[w] => f[v] = g[v]
    <3> HIDE DEF m, G
    <3>1. /\ w.day > daysInMonth(w.year, w.month) => f[DayAfterMonth(w)] = g[DayAfterMonth(w)]
          /\ w.day < 1 => f[DayBeforeMonth(w)] = g[DayBeforeMonth(w)]
      BY <2>3, Zenon
    <3>2. CASE w.day > daysInMonth(w.year, w.month)
      BY <2>a, <3>1, <3>2
    <3>3. CASE ~(w.day > daysInMonth(w.year, w.month))
      BY <2>a, <3>1, <3>3
    <3> QED
      BY <3>2, <3>3
  <2> HIDE DEF S, m, G
  <2>6. RecursionOn(S, S, m, G)
    BY <2>2, <2>4, <2>5 DEF RecursionOn
  <2> QED
    BY <2>1, <2>6, MeasureRecursion
<1>6. \A w \in S : F[w] = IF w.day > daysInMonth(w.year, w.month) THEN F[DayAfterMonth(w)]
                         ELSE IF w.day < 1 THEN F[DayBeforeMonth(w)] ELSE w
  <2> TAKE w \in S
  <2>1. <<w, F>> \in S \X [S -> S] /\ F[w] = G[<<w, F>>]
    BY <1>5 DEF Solves
  <2> HIDE DEF S
  <2> QED
    BY <2>1
<1>7. F = body(F)
  <2>1. \A w \in S : F[w] = body(F)[w]
    BY <1>6 DEF DayAfterMonth, DayBeforeMonth
  <2> HIDE DEF S
  <2> QED
    BY <2>1
<1>8. Walk = body(Walk)
  BY <1>7
<1>9. \A w \in S : Walk[w] = IF w.day > daysInMonth(w.year, w.month) THEN Walk[DayAfterMonth(w)]
                            ELSE IF w.day < 1 THEN Walk[DayBeforeMonth(w)] ELSE w
  <2> HIDE DEF Walk, S
  <2> QED
    BY <1>8 DEF DayAfterMonth, DayBeforeMonth
<1> HIDE DEF Walk
<1> DEFINE P == {w \in S : IsDay(Walk[w]) /\ Ordinal(Walk[w]) = Ordinal(w)}
<1>10. \A w \in S : m[w] \in Nat
  BY <1>3, OutsideType
<1>11. ASSUME NEW w \in S, \A v \in S : m[v] < m[w] => v \in P
       PROVE  w \in P
  <2>1. CASE w.day > daysInMonth(w.year, w.month)
    <3>1. /\ DayAfterMonth(w) \in S /\ m[DayAfterMonth(w)] < m[w]
          /\ Ordinal(DayAfterMonth(w)) = Ordinal(w)
      BY <1>3, <2>1, StepBack
    <3> HIDE DEF m, S
    <3> QED
      BY <1>9, <1>11, <2>1, <3>1
  <2>2. CASE w.day < 1
    <3>1. /\ DayBeforeMonth(w) \in S /\ m[DayBeforeMonth(w)] < m[w]
          /\ Ordinal(DayBeforeMonth(w)) = Ordinal(w)
      BY <1>3, <2>2, StepForth
    <3> HIDE DEF m, S
    <3> QED
      BY <1>4, <1>9, <1>11, <2>2, <3>1
  <2>3. CASE ~(w.day > daysInMonth(w.year, w.month)) /\ ~(w.day < 1)
    <3>1. Walk[w] = w
      BY <1>9, <2>3
    <3>2. IsDay(w)
      <4>1. w.day \in Int /\ daysInMonth(w.year, w.month) \in Int
        BY MonthTypes
      <4> QED
        BY <1>3, <2>3, <4>1 DEF IsDay
    <3> QED
      BY <3>1, <3>2
  <2> QED
    BY <2>1, <2>2, <2>3
<1> HIDE DEF P, m, S
<1>12. S \subseteq P
  BY <1>10, <1>11, MeasureInduction
<1>13. IsDay(Walk[start]) /\ Ordinal(Walk[start]) = Ordinal(start)
  BY <1>2, <1>12 DEF P
<1>14. Ordinal(start) = Ordinal(x) + delta
  <2> DEFINE y == x.year
             k == x.month
             d == x.day
  <2>1. y \in Int /\ k \in 1 .. 12 /\ d \in Int /\ d + delta \in Int /\ x = Date(y, k, d)
    BY DEF Days, Date
  <2>2. start = Date(y, k, d + delta)
    BY <1>2
  <2> HIDE DEF start, y, k, d
  <2> DEFINE e == d + delta
  <2>e. e \in Int /\ e = d + delta
    BY <2>1
  <2> HIDE DEF e
  <2>3. /\ Ordinal(Date(y, k, d)) = YearStart(y) + DaysBefore(y, k) + d
        /\ Ordinal(Date(y, k, e)) = YearStart(y) + DaysBefore(y, k) + e
        /\ YearStart(y) \in Int /\ DaysBefore(y, k) \in Int
    <3>1. YearStart(y) \in Int /\ DaysBefore(y, k) \in Int
      BY <2>1, YearType, MonthTypes
    <3> QED
      BY <2>1, <2>e, <3>1, OrdinalIs, Zenon
  <2> QED
    BY <2>1, <2>2, <2>3, <2>e
<1> QED
  BY <1>1, <1>13, <1>14

(* The day count within a month.                                           *)
LEMMA DayShift ==
    ASSUME NEW y \in Int, NEW m \in 1 .. 12, NEW d \in Int
    PROVE  First(y, m) \in Int /\ Ordinal(Date(y, m, d)) = First(y, m) + d - 1
<1> DEFINE s == YearStart(y)
           a == DaysBefore(y, m)
<1>1. s \in Int /\ a \in Int
  BY YearType, MonthTypes
<1>2. Ordinal(Date(y, m, d)) = s + a + d
  BY OrdinalIs
<1>3. First(y, m) = s + a + 1
  <2>1. 1 \in Int
    OBVIOUS
  <2>2. Ordinal(Date(y, m, 1)) = s + a + 1
    BY <2>1, OrdinalIs
  <2> QED
    BY <2>2 DEF First
<1> HIDE DEF s, a
<1> QED
  BY <1>1, <1>2, <1>3

(* The weekday is the day count modulo seven: day 0 is a Sunday.           *)
LEMMA WeekdayIs ==
    ASSUME NEW x, x.year \in Int, x.year > 99, Ordinal(x) \in Int
    PROVE  /\ weekdayOf(x) = Ordinal(x) % 7 /\ weekdayOf(x) \in 0 .. 6
           /\ (Ordinal(x) - weekdayOf(x)) % 7 = 0
<1>1. weekdayOf(x) = Ordinal(x) % 7
  <2>1. x.year \notin 0 .. 99
    OBVIOUS
  <2> QED
    BY <2>1 DEF weekdayOf, UTC
<1> DEFINE o == Ordinal(x)
<1>2. o \in Int
  OBVIOUS
<1> HIDE DEF o
<1>3. o % 7 \in 0 .. 6 /\ (o - (o % 7)) % 7 = 0
  BY <1>2
<1> QED
  BY <1>1, <1>3 DEF o

(* A run of n days that follow one another, the first of them given.       *)
Run(c, first, n) ==
    /\ first \in Int /\ n \in Nat /\ c \in Seq(Days) /\ Len(c) = n
    /\ \A i \in 1 .. n : IsDay(c[i]) /\ Ordinal(c[i]) = first + i - 1

(* The cells of a part of a month are days that follow one another.        *)
LEMMA CellsRun ==
    ASSUME NEW y \in Int, NEW m \in 1 .. 12, NEW from \in Int, NEW to \in Int,
           1 <= from, from <= to + 1, to <= daysInMonth(y, m)
    PROVE  Run(Cells(y, m, from, to), First(y, m) + from - 1, to - from + 1)
<1> DEFINE n == to - from + 1
           c == Cells(y, m, from, to)
           f == First(y, m)
<1>1. c = [i \in 1 .. n |-> Date(y, m, from + i - 1)] /\ n \in Nat
  BY DEF Cells
<1>2. \A i \in 1 .. n : Date(y, m, from + i - 1) \in Days
  BY DEF Date, Days
<1>3. c \in Seq(Days) /\ Len(c) = n /\ \A i \in 1 .. n : c[i] = Date(y, m, from + i - 1)
  <2> HIDE DEF c
  <2> QED
    BY <1>1, <1>2
<1>f. f \in Int
  <2>1. 1 \in Int
    OBVIOUS
  <2> QED
    BY <2>1, DayShift
<1>4. ASSUME NEW i \in 1 .. n PROVE IsDay(c[i]) /\ Ordinal(c[i]) = f + from - 1 + i - 1
  <2> DEFINE d == from + i - 1
  <2>1. d \in Int /\ c[i] = Date(y, m, d)
    BY <1>3
  <2>2. daysInMonth(y, m) \in Int /\ d \in 1 .. daysInMonth(y, m)
    <3>1. daysInMonth(y, m) \in Int
      BY MonthTypes
    <3> QED
      BY <3>1
  <2>3. f \in Int /\ Ordinal(Date(y, m, d)) = f + d - 1
    <3> HIDE DEF d
    <3> QED
      BY <2>1, DayShift
  <2>4. IsDay(Date(y, m, d))
    <3> HIDE DEF d
    <3> QED
      BY <2>1, <2>2 DEF IsDay, Days, Date
  <2> HIDE DEF c, f
  <2> QED
    BY <2>1, <2>3, <2>4
<1>5. f + from - 1 \in Int
  <2> HIDE DEF f
  <2> QED
    BY <1>f
<1> HIDE DEF n, c, f
<1>6. Run(c, f + from - 1, n)
  BY <1>1, <1>3, <1>4, <1>5 DEF Run
<1> QED
  BY <1>6 DEF n, c, f

(* Two runs of days, the one after the other, are one.                     *)
LEMMA JoinRuns ==
    ASSUME NEW u, NEW v, NEW first, NEW next, NEW k \in Nat, NEW j \in Nat,
           Run(u, first, k), Run(v, next, j), next = first + k
    PROVE  Run(u \o v, first, k + j)
<1> DEFINE w == u \o v
<1> USE DEF Run
<1>0. u \in Seq(Days) /\ v \in Seq(Days) /\ Len(u) = k /\ Len(v) = j
  OBVIOUS
<1>1. /\ w \in Seq(Days) /\ Len(w) = k + j
      /\ \A i \in 1 .. k : w[i] = u[i]
      /\ \A i \in 1 .. j : w[k + i] = v[i]
  <2> HIDE DEF Run
  <2> QED
    BY <1>0, JoinLens
<1> HIDE DEF w
<1>2. ASSUME NEW i \in 1 .. k + j PROVE IsDay(w[i]) /\ Ordinal(w[i]) = first + i - 1
  <2>1. CASE i \in 1 .. k
    BY <1>1, <2>1
  <2>2. CASE i \notin 1 .. k
    <3> DEFINE x == i - k
    <3>1. x \in 1 .. j /\ i = k + x
      BY <2>2
    <3> HIDE DEF x
    <3>2. IsDay(v[x]) /\ Ordinal(v[x]) = next + x - 1 /\ w[k + x] = v[x]
      BY <1>1, <3>1
    <3> QED
      BY <3>1, <3>2
  <2> QED
    BY <2>1, <2>2
<1>3. Run(w, first, k + j)
  BY <1>1, <1>2
<1> QED
  BY <1>3 DEF w

(* The grid of a month shows days that follow one another, in whole weeks  *)
(* from a Sunday, and the month is among them from the first week on.      *)
LEMMA GridIs ==
    ASSUME NEW y \in Int, y > 99, NEW m \in 1 .. 12,
           NEW lead, lead = weekdayOf(Date(y, m, 1))
    PROVE  /\ lead \in 0 .. 6 /\ (First(y, m) - lead) % 7 = 0
           /\ \E n \in lead + daysInMonth(y, m) .. lead + daysInMonth(y, m) + 6 :
                n % 7 = 0 /\ Run(monthGrid(y, m), First(y, m) - lead, n)
<1> DEFINE p == Previous1(y, m)
           n == Next1(y, m)
           l == daysInMonth(y, m)
           last == daysInMonth(p.year, p.month)
           f == First(y, m)
           a == Cells(p.year, p.month, last - lead + 1, last)
           b == Cells(y, m, 1, l)
           cells == a \o b
           rest == 7 - (Len(cells) % 7)
           c == Cells(n.year, n.month, 1, rest)
<1>1. monthGrid(y, m) = IF Len(cells) % 7 = 0 THEN cells ELSE cells \o c
  BY DEF monthGrid
<1>p. p = Previous1(y, m) /\ n = Next1(y, m) /\ 1 \in Int
  OBVIOUS
<1> HIDE DEF p, n
<1>2. /\ p.year \in Int /\ p.month \in 1 .. 12 /\ n.year \in Int /\ n.month \in 1 .. 12
      /\ l \in 28 .. 31 /\ last \in 28 .. 31 /\ daysInMonth(n.year, n.month) \in 28 .. 31
  <2>1. p.year \in Int /\ p.month \in 1 .. 12 /\ n.year \in Int /\ n.month \in 1 .. 12
    BY <1>p, MonthAfterMonth, MonthBeforeMonth
  <2> QED
    BY <2>1, MonthTypes
<1>3. /\ f \in Int /\ First(p.year, p.month) \in Int /\ First(n.year, n.month) \in Int
      /\ First(p.year, p.month) + last = f
      /\ First(n.year, n.month) = f + l
  <2>1. f \in Int /\ First(p.year, p.month) \in Int /\ First(n.year, n.month) \in Int
    BY <1>2, <1>p, DayShift
  <2>2. First(p.year, p.month) + last = f
    <3>1. Ordinal(Date(p.year, p.month, 1)) + last = Ordinal(Date(y, m, 1))
      BY <1>p, MonthBeforeMonth
    <3> QED
      BY <3>1 DEF First
  <2>3. First(n.year, n.month) = f + l
    <3>1. Ordinal(Date(n.year, n.month, 1)) = Ordinal(Date(y, m, 1)) + l
      BY <1>p, MonthAfterMonth
    <3> QED
      BY <3>1 DEF First
  <2> QED
    BY <2>1, <2>2, <2>3
<1>4. lead \in 0 .. 6 /\ (f - lead) % 7 = 0
  <2> DEFINE x == Date(y, m, 1)
  <2>1. x.year = y /\ Ordinal(x) = f
    BY DEF Date, First
  <2>2. lead = weekdayOf(x)
    OBVIOUS
  <2> HIDE DEF x, f
  <2> QED
    BY <1>3, <2>1, <2>2, WeekdayIs
<1>n. lead \in Nat /\ l \in Nat /\ f \in Int
  <2>1. lead \in Nat
    BY <1>4
  <2>2. l \in Nat
    <3> HIDE DEF l
    <3> QED
      BY <1>2
  <2>3. f \in Int
    <3> HIDE DEF f
    <3> QED
      BY <1>3
  <2> QED
    BY <2>1, <2>2, <2>3
<1>5. Run(a, f - lead, lead)
  <2> DEFINE from == last - lead + 1
  <2>1. /\ from \in Int /\ last \in Int /\ 1 <= from /\ from <= last + 1
        /\ last <= daysInMonth(p.year, p.month)
    <3>1. last = daysInMonth(p.year, p.month)
      OBVIOUS
    <3> HIDE DEF last
    <3> QED
      BY <1>2, <1>4, <3>1
  <2>a. a = Cells(p.year, p.month, from, last) /\ p.year \in Int /\ p.month \in 1 .. 12
    BY <1>2
  <2>b. from = last - lead + 1
    OBVIOUS
  <2> HIDE DEF last, from, a, f
  <2>2. Run(a, First(p.year, p.month) + from - 1, last - from + 1)
    BY <2>1, <2>a, CellsRun
  <2>3. First(p.year, p.month) + from - 1 = f - lead /\ last - from + 1 = lead
    <3> DEFINE g == First(p.year, p.month)
    <3>1. g \in Int /\ f \in Int /\ g + last = f /\ last \in Int /\ lead \in Int
      BY <1>2, <1>3, <1>4
    <3> HIDE DEF g
    <3>2. g + from - 1 = f - lead /\ last - from + 1 = lead
      BY <2>b, <3>1
    <3> QED
      BY <3>2 DEF g
  <2> QED
    BY <2>2, <2>3
<1>6. Run(b, f, l)
  <2>1. /\ l \in Int /\ 1 <= 1 /\ 1 <= l + 1 /\ l <= daysInMonth(y, m) /\ b = Cells(y, m, 1, l)
        /\ f = First(y, m)
    <3>1. l = daysInMonth(y, m) /\ b = Cells(y, m, 1, l)
      OBVIOUS
    <3> HIDE DEF l, b
    <3> QED
      BY <1>2, <3>1
  <2> HIDE DEF l, b, f
  <2>2. Run(b, First(y, m) + 1 - 1, l - 1 + 1)
    BY <1>p, <2>1, CellsRun
  <2>3. First(y, m) + 1 - 1 = f /\ l - 1 + 1 = l
    BY <1>2, <1>3, <2>1
  <2> QED
    BY <2>2, <2>3
<1>l. l = daysInMonth(y, m) /\ f = First(y, m)
  OBVIOUS
<1> HIDE DEF a, b, last, l, f
<1>7. Run(cells, f - lead, lead + l) /\ Len(cells) = lead + l /\ lead + l \in Nat
  <2>a. lead \in Nat /\ l \in Nat /\ f \in Int
    BY <1>n
  <2>1. f = (f - lead) + lead
    BY <2>a
  <2>2. Run(cells, f - lead, lead + l)
    BY <1>5, <1>6, <2>a, <2>1, JoinRuns
  <2>3. Len(cells) = lead + l
    BY <2>2 DEF Run
  <2> QED
    BY <2>a, <2>2, <2>3
<1> SUFFICES \E k \in lead + l .. lead + l + 6 :
               k % 7 = 0 /\ Run(monthGrid(y, m), f - lead, k)
  BY <1>4, <1>l
<1>8. CASE Len(cells) % 7 = 0
  <2>1. lead + l \in lead + l .. lead + l + 6
    BY <1>7
  <2> HIDE DEF cells
  <2> QED
    BY <1>1, <1>7, <1>8, <2>1
<1>9. CASE Len(cells) % 7 # 0
  <2> DEFINE w == lead + l
  <2>r. rest = 7 - (Len(cells) % 7)
    OBVIOUS
  <2> HIDE DEF cells, rest
  <2>2. /\ rest \in 1 .. 6 /\ (w + rest) % 7 = 0 /\ w + rest \in w .. w + 6
    <3>1. w \in Nat /\ Len(cells) = w
      BY <1>7
    <3> HIDE DEF w
    <3>2. w % 7 # 0 /\ rest = 7 - (w % 7)
      BY <1>9, <2>r, <3>1
    <3>3. w % 7 \in 0 .. 6 /\ (w + (7 - (w % 7))) % 7 = 0
      BY <3>1
    <3> QED
      BY <3>1, <3>2, <3>3
  <2>3. Run(c, f + l, rest)
    <3>1. /\ rest \in Int /\ 1 <= 1 /\ 1 <= rest + 1 /\ rest <= daysInMonth(n.year, n.month)
          /\ c = Cells(n.year, n.month, 1, rest)
      BY <1>2, <2>2
    <3> HIDE DEF c
    <3>2. Run(c, First(n.year, n.month) + 1 - 1, rest - 1 + 1)
      BY <1>2, <1>p, <3>1, CellsRun
    <3>3. First(n.year, n.month) + 1 - 1 = f + l /\ rest - 1 + 1 = rest
      BY <1>2, <1>3, <2>2
    <3> QED
      BY <3>2, <3>3
  <2>4. Run(cells \o c, f - lead, w + rest)
    <3>a. lead \in Nat /\ l \in Nat /\ f \in Int
      BY <1>n
    <3>1. f + l = (f - lead) + w /\ w \in Nat
      BY <3>a
    <3>r. rest \in Nat
      BY <2>2
    <3> HIDE DEF c
    <3> QED
      BY <1>7, <2>3, <3>1, <3>r, JoinRuns
  <2> HIDE DEF c
  <2> QED
    BY <1>1, <1>9, <2>2, <2>4
<1> QED
  BY <1>8, <1>9

(* The years whose views stay among the dates the api accepts. *)
CalendarYears == 100 .. 9998

(* What a day of its month is.                                             *)
LEMMA DayFacts ==
    ASSUME NEW x, IsDay(x)
    PROVE  /\ x \in Days /\ x.year \in Int /\ x.month \in 1 .. 12 /\ x.day \in Int
           /\ x.day \in 1 .. daysInMonth(x.year, x.month)
           /\ daysInMonth(x.year, x.month) \in 28 .. 31
           /\ Ordinal(x) \in Int
           /\ First(x.year, x.month) \in Int
           /\ Ordinal(x) = First(x.year, x.month) + x.day - 1
<1> DEFINE y == x.year
           m == x.month
           d == x.day
<1>1. /\ x \in Days /\ y \in Int /\ m \in 1 .. 12 /\ d \in Int
      /\ d \in 1 .. daysInMonth(y, m) /\ x = Date(y, m, d)
  BY DEF IsDay, Days, Date
<1>2. Ordinal(x) \in Int
  BY DayInYear
<1> HIDE DEF y, m, d
<1>3. daysInMonth(y, m) \in 28 .. 31
  BY <1>1, MonthTypes
<1>4. First(y, m) \in Int /\ Ordinal(Date(y, m, d)) = First(y, m) + d - 1
  BY <1>1, DayShift
<1> QED
  BY <1>1, <1>2, <1>3, <1>4 DEF y, m, d

(* The first of a month is a day of it.                                    *)
LEMMA FirstIsDay ==
    ASSUME NEW y \in Int, NEW m \in 1 .. 12
    PROVE  IsDay(Date(y, m, 1)) /\ Ordinal(Date(y, m, 1)) = First(y, m)
<1>1. daysInMonth(y, m) \in 28 .. 31
  BY MonthTypes
<1>2. 1 \in 1 .. daysInMonth(y, m)
  BY <1>1
<1> QED
  BY <1>2 DEF IsDay, Days, Date, First

(* A run of days has no gap, as the property says it.                      *)
LEMMA RunIsConsecutive ==
    ASSUME NEW c, NEW first, NEW n, Run(c, first, n)
    PROVE  Consecutive(c)
<1> SUFFICES ASSUME NEW i \in 1 .. Len(c) - 1 PROVE Ordinal(c[i + 1]) = Ordinal(c[i]) + 1
  BY DEF Consecutive
<1>1. Len(c) = n /\ n \in Nat /\ first \in Int
  BY DEF Run
<1>2. i \in 1 .. n /\ i + 1 \in 1 .. n
  BY <1>1
<1>3. Ordinal(c[i]) = first + i - 1 /\ Ordinal(c[i + 1]) = first + (i + 1) - 1
  BY <1>2 DEF Run
<1> QED
  BY <1>1, <1>3

(* A step inside the calendar's years stays among years of four digits.    *)
LEMMA YearsOfRange ==
    ASSUME NEW x, IsDay(x), x.year \in CalendarYears, NEW z, IsDay(z)
    PROVE  /\ Ordinal(z) >= Ordinal(x) - 7 => z.year >= 1
           /\ Ordinal(z) <= Ordinal(x) + 7 => z.year <= 9999
<1> DEFINE y == x.year
           v == z.year
<1>1. /\ y \in Int /\ v \in Int /\ y + 1 \in Int /\ v + 1 \in Int /\ 100 <= y /\ y <= 9998
      /\ Ordinal(x) \in Int /\ Ordinal(z) \in Int
      /\ YearStart(y) < Ordinal(x) /\ Ordinal(x) <= YearStart(y + 1)
      /\ YearStart(v) < Ordinal(z) /\ Ordinal(z) <= YearStart(v + 1)
  <2>1. /\ y \in Int /\ Ordinal(x) \in Int
        /\ YearStart(y) < Ordinal(x) /\ Ordinal(x) <= YearStart(y + 1)
    BY DayFacts, DayInYear
  <2>2. /\ v \in Int /\ Ordinal(z) \in Int
        /\ YearStart(v) < Ordinal(z) /\ Ordinal(z) <= YearStart(v + 1)
    BY DayFacts, DayInYear
  <2>3. y \in CalendarYears
    OBVIOUS
  <2> HIDE DEF y, v
  <2> QED
    BY <2>1, <2>2, <2>3, SMTT(30) DEF CalendarYears
<1> HIDE DEF y, v
<1>2. /\ YearStart(y) \in Int /\ YearStart(v) \in Int
      /\ YearStart(y + 1) \in Int /\ YearStart(v + 1) \in Int
  BY <1>1, YearType
<1>3. ASSUME v < 1 PROVE Ordinal(z) < Ordinal(x) - 7
  <2>1. v + 1 <= y /\ v + 1 <= 1
    BY <1>1, <1>3
  <2>2. YearStart(y) >= YearStart(v + 1) + 365 * (y - (v + 1))
    BY <1>1, <2>1, LaterYears
  <2>3. 365 * (y - (v + 1)) >= 365 * 99
    BY <1>1, <2>1
  <2> QED
    BY <1>1, <1>2, <2>2, <2>3
<1>4. ASSUME v > 9999 PROVE Ordinal(z) > Ordinal(x) + 7
  <2>1. y + 1 <= v /\ v - (y + 1) >= 1
    BY <1>1, <1>4
  <2>2. YearStart(v) >= YearStart(y + 1) + 365 * (v - (y + 1))
    BY <1>1, <2>1, LaterYears
  <2>3. 365 * (v - (y + 1)) >= 365
    BY <1>1, <2>1
  <2> QED
    BY <1>1, <1>2, <2>2, <2>3
<1> QED
  BY <1>1, <1>3, <1>4 DEF v

(* The week of a day starts on its Sunday and has seven days.              *)
LEMMA WeekIs ==
    ASSUME NEW x, IsDay(x), x.year > 99, NEW wd, wd = weekdayOf(x)
    PROVE  /\ wd \in 0 .. 6 /\ (Ordinal(x) - wd) % 7 = 0
           /\ IsDay(weekStart(x)) /\ Ordinal(weekStart(x)) = Ordinal(x) - wd
           /\ Run(weekGrid(x), Ordinal(x) - wd, 7)
           /\ weekRange(x).start = weekStart(x)
           /\ IsDay(weekRange(x).end) /\ Ordinal(weekRange(x).end) = Ordinal(x) - wd + 7
<1> DEFINE o == Ordinal(x)
           s == weekStart(x)
<1>1. o \in Int /\ x \in Days /\ x.year \in Int
  BY DayFacts
<1>2. wd \in 0 .. 6 /\ (o - wd) % 7 = 0
  BY <1>1, WeekdayIs
<1>3. IsDay(s) /\ Ordinal(s) = o - wd
  <2>1. -wd \in Int /\ s = addDays(x, -wd)
    BY <1>2 DEF weekStart
  <2>2. IsDay(addDays(x, -wd)) /\ Ordinal(addDays(x, -wd)) = Ordinal(x) + (-wd)
    BY <1>1, <2>1, AddDays
  <2> HIDE DEF s
  <2> QED
    BY <1>1, <1>2, <2>1, <2>2
<1>4. s \in Days /\ Ordinal(s) \in Int
  BY <1>3, DayFacts
<1>5. \A k \in Int : IsDay(addDays(s, k)) /\ Ordinal(addDays(s, k)) = Ordinal(s) + k
  BY <1>4, AddDays
<1>6. Run(weekGrid(x), o - wd, 7)
  <2> DEFINE g == [i \in 1 .. 7 |-> addDays(s, i - 1)]
  <2>1. weekGrid(x) = g
    BY DEF weekGrid
  <2> HIDE DEF s
  <2>2. \A i \in 1 .. 7 : g[i] = addDays(s, i - 1) /\ i - 1 \in Int /\ addDays(s, i - 1) \in Days
    BY <1>5 DEF IsDay
  <2>3. g \in Seq(Days) /\ Len(g) = 7
    BY <2>2
  <2>4. ASSUME NEW i \in 1 .. 7 PROVE IsDay(g[i]) /\ Ordinal(g[i]) = (o - wd) + i - 1
    <3>1. g[i] = addDays(s, i - 1) /\ i - 1 \in Int
      BY <2>2
    <3>2. IsDay(addDays(s, i - 1)) /\ Ordinal(addDays(s, i - 1)) = Ordinal(s) + (i - 1)
      BY <1>5, <3>1
    <3> HIDE DEF g, o
    <3> QED
      BY <1>1, <1>2, <1>3, <3>1, <3>2
  <2>5. o - wd \in Int /\ 7 \in Nat
    <3> HIDE DEF o
    <3> QED
      BY <1>1, <1>2
  <2> HIDE DEF g, o
  <2> QED
    BY <2>1, <2>3, <2>4, <2>5 DEF Run
<1>7. weekRange(x).start = s /\ weekRange(x).end = addDays(s, 7)
  BY DEF weekRange
<1> HIDE DEF o, s
<1>8. IsDay(addDays(s, 7)) /\ Ordinal(addDays(s, 7)) = o - wd + 7
  <2>1. 7 \in Int
    OBVIOUS
  <2>2. IsDay(addDays(s, 7)) /\ Ordinal(addDays(s, 7)) = Ordinal(s) + 7
    BY <1>5, <2>1
  <2> QED
    BY <1>1, <1>2, <1>3, <2>2
<1> QED
  BY <1>2, <1>3, <1>6, <1>7, <1>8 DEF o, s

(* The week's grid shows the days its range is queried for, no others.     *)
LEMMA WeekHoldsItsDays ==
    ASSUME NEW x, IsDay(x), x.year > 99
    PROVE  LET In(z) == /\ Ordinal(weekRange(x).start) <= Ordinal(z)
                        /\ Ordinal(z) < Ordinal(weekRange(x).end)
           IN {weekGrid(x)[i] : i \in 1 .. 7} = {z \in {addDays(x, k) : k \in -7 .. 7} : In(z)}
<1> DEFINE wd == weekdayOf(x)
           o == Ordinal(x)
           w == weekGrid(x)
           In(z) == Ordinal(weekRange(x).start) <= Ordinal(z) /\ Ordinal(z) < Ordinal(weekRange(x).end)
<1>1. /\ wd \in 0 .. 6 /\ o \in Int /\ x \in Days
      /\ Ordinal(weekRange(x).start) = o - wd /\ Ordinal(weekRange(x).end) = o - wd + 7
  BY WeekIs, DayFacts
<1>2. \A i \in 1 .. 7 : IsDay(w[i]) /\ Ordinal(w[i]) = (o - wd) + i - 1
  BY WeekIs DEF Run
<1>3. \A k \in Int : IsDay(addDays(x, k)) /\ Ordinal(addDays(x, k)) = o + k
  BY <1>1, AddDays
<1> HIDE DEF wd, o, w
<1>4. ASSUME NEW i \in 1 .. 7, NEW k \in Int, k = i - 1 - wd PROVE w[i] = addDays(x, k)
  <2>1. Ordinal(w[i]) = Ordinal(addDays(x, k))
    <3>1. Ordinal(w[i]) = (o - wd) + i - 1 /\ Ordinal(addDays(x, k)) = o + k
      BY <1>2, <1>3
    <3> QED
      BY <1>1, <1>4, <3>1
  <2> QED
    BY <1>2, <1>3, <2>1, OneDayOneOrdinal
<1>5. ASSUME NEW i \in 1 .. 7
      PROVE  w[i] \in {z \in {addDays(x, k) : k \in -7 .. 7} : In(z)}
  <2> DEFINE k == i - 1 - wd
  <2>1. k \in -7 .. 7 /\ k \in Int
    BY <1>1
  <2>2. w[i] = addDays(x, k)
    BY <1>4, <2>1
  <2>3. In(w[i])
    <3>1. Ordinal(w[i]) = (o - wd) + i - 1
      BY <1>2
    <3> QED
      BY <1>1, <3>1
  <2> HIDE DEF k
  <2> QED
    BY <2>1, <2>2, <2>3
<1>6. ASSUME NEW k \in -7 .. 7, In(addDays(x, k))
      PROVE  addDays(x, k) \in {w[i] : i \in 1 .. 7}
  <2> DEFINE i == k + wd + 1
  <2>1. Ordinal(addDays(x, k)) = o + k
    BY <1>3
  <2>2. i \in 1 .. 7 /\ k = i - 1 - wd
    BY <1>1, <1>6, <2>1
  <2> HIDE DEF i
  <2>3. w[i] = addDays(x, k)
    BY <1>4, <2>2
  <2> QED
    BY <2>2, <2>3
<1>7. {w[i] : i \in 1 .. 7} = {z \in {addDays(x, k) : k \in -7 .. 7} : In(z)}
  <2> HIDE DEF In
  <2> QED
    BY <1>5, <1>6
<1> QED
  BY <1>7 DEF w

(* A weekly run has as many rows as were counted before, and its last row  *)
(* is in its last week.                                                    *)
LEMMA WeeklyRun ==
    ASSUME NEW start \in Int, NEW until \in Int, start <= until
    PROVE  /\ Len(WeeklyDates(start, until)) = Occurrences(start, until)
           /\ WeeklyDates(start, until)[Len(WeeklyDates(start, until))] \in until - 6 .. until
<1> DEFINE From[d \in Int] == IF d > until THEN <<>> ELSE <<d>> \o From[d + 7]
           body(f) == [d \in Int |-> IF d > until THEN <<>> ELSE <<d>> \o f[d + 7]]
           S == Int
           T == Seq(Int)
           m == [d \in S |-> IF d > until THEN 0 ELSE until - d + 1]
           G == [q \in S \X [S -> T] |-> IF q[1] > until THEN <<>> ELSE <<q[1]>> \o q[2][q[1] + 7]]
<1>1. WeeklyDates(start, until) = From[start]
  BY DEF WeeklyDates
<1>a. \E F \in [S -> T] : Solves(F, S, G)
  <2>1. <<>> \in T /\ T # {}
    <3>1. <<>> \in Seq(Int)
      OBVIOUS
    <3> QED
      BY <3>1
  <2>2. m \in [S -> Nat]
    OBVIOUS
  <2>3. \A d \in S : d <= until => d + 7 \in S /\ m[d + 7] < m[d]
    OBVIOUS
  <2>a. \A d \in S : \A f \in [S -> T] :
          G[<<d, f>>] = IF d > until THEN <<>> ELSE <<d>> \o f[d + 7]
    <3> TAKE d \in S
    <3> TAKE f \in [S -> T]
    <3> HIDE DEF T
    <3>1. <<d, f>> \in S \X [S -> T]
      OBVIOUS
    <3> QED
      BY <3>1
  <2>4. G \in [S \X [S -> T] -> T]
    <3>1. \A q \in S \X [S -> T] : G[q] \in T
      <4> TAKE q \in S \X [S -> T]
      <4> PICK d \in S, f \in [S -> T] : q = <<d, f>>
        OBVIOUS
      <4>1. f[d + 7] \in T /\ <<d>> \in T
        OBVIOUS
      <4>2. <<d>> \o f[d + 7] \in T
        BY <4>1
      <4> HIDE DEF G, T
      <4> QED
        BY <2>1, <2>a, <4>2
    <3>2. G = [q \in S \X [S -> T] |-> G[q]]
      OBVIOUS
    <3> HIDE DEF G, T
    <3> QED
      BY <3>1, <3>2
  <2>5. \A d \in S : \A f, g \in [S -> T] :
          (\A v \in S : m[v] < m[d] => f[v] = g[v]) => G[<<d, f>>] = G[<<d, g>>]
    <3> TAKE d \in S
    <3> TAKE f, g \in [S -> T]
    <3> HAVE \A v \in S : m[v] < m[d] => f[v] = g[v]
    <3> HIDE DEF m, G, T
    <3>1. d <= until => f[d + 7] = g[d + 7]
      BY <2>3
    <3>2. CASE d > until
      BY <2>a, <3>2
    <3>3. CASE ~(d > until)
      <4>1. f[d + 7] = g[d + 7]
        BY <3>1, <3>3
      <4> QED
        BY <2>a, <3>3, <4>1
    <3> QED
      BY <3>2, <3>3
  <2> HIDE DEF S, T, m, G
  <2>6. RecursionOn(S, T, m, G)
    BY <2>2, <2>4, <2>5 DEF RecursionOn
  <2> QED
    BY <2>1, <2>6, MeasureRecursion
<1>2. PICK F \in [S -> T] : Solves(F, S, G)
  <2> HIDE DEF S, T, G
  <2> QED
    BY <1>a
<1>3. \A d \in Int : F[d] = IF d > until THEN <<>> ELSE <<d>> \o F[d + 7]
  <2> TAKE d \in Int
  <2> HIDE DEF T
  <2>1. <<d, F>> \in S \X [S -> T] /\ F[d] = G[<<d, F>>]
    BY <1>2 DEF Solves
  <2> QED
    BY <2>1
<1>4. F = body(F)
  <2>1. \A d \in Int : F[d] = body(F)[d]
    BY <1>3
  <2> HIDE DEF T
  <2> QED
    BY <2>1
<1>5. From = body(From)
  BY <1>4
<1>6. \A d \in Int : From[d] = IF d > until THEN <<>> ELSE <<d>> \o From[d + 7]
  <2> HIDE DEF From
  <2> QED
    BY <1>5
<1> HIDE DEF From
<1> DEFINE P == {d \in S : /\ From[d] \in Seq(Int)
                           /\ d <= until => /\ Len(From[d]) = (until - d) \div 7 + 1
                                            /\ Len(From[d]) >= 1
                                            /\ From[d][Len(From[d])] \in until - 6 .. until}
<1>7. \A d \in S : m[d] \in Nat
  OBVIOUS
<1>8. ASSUME NEW d \in S, \A v \in S : m[v] < m[d] => v \in P PROVE d \in P
  <2>1. CASE d > until
    <3>1. From[d] = <<>>
      BY <1>6, <2>1
    <3>2. From[d] \in Seq(Int) /\ ~(d <= until)
      BY <2>1, <3>1
    <3> QED
      BY <3>2
  <2>2. CASE d <= until
    <3> DEFINE t == From[d + 7]
               r == From[d]
    <3>1. d + 7 \in P
      <4>1. d + 7 \in S /\ m[d + 7] < m[d]
        BY <2>2
      <4> HIDE DEF m, P
      <4> QED
        BY <1>8, <4>1
    <3>2. r = <<d>> \o t
      <4>1. d \in Int /\ ~(d > until)
        BY <2>2
      <4> QED
        BY <1>6, <4>1, Zenon
    <3>3. /\ t \in Seq(Int)
          /\ d + 7 <= until => /\ Len(t) = (until - (d + 7)) \div 7 + 1 /\ Len(t) >= 1
                               /\ t[Len(t)] \in until - 6 .. until
          /\ d + 7 > until => t = <<>>
      BY <1>6, <3>1
    <3> HIDE DEF t, r
    <3>4. r \in Seq(Int) /\ Len(r) = 1 + Len(t) /\ r[1] = d /\ \A k \in 1 .. Len(t) : r[1 + k] = t[k]
      BY <3>2, <3>3
    <3>5. CASE d + 7 <= until
      <4>1. Len(t) \in Nat /\ Len(t) \in 1 .. Len(t)
        BY <3>3, <3>5
      <4>2. r[Len(r)] = t[Len(t)]
        BY <3>4, <4>1
      <4>3. (until - d) \div 7 = (until - (d + 7)) \div 7 + 1
        OBVIOUS
      <4>4. Len(r) = (until - d) \div 7 + 1 /\ Len(r) >= 1
        <5>1. Len(r) = 1 + ((until - (d + 7)) \div 7 + 1) /\ Len(r) = 1 + Len(t)
          BY <3>3, <3>4, <3>5
        <5> QED
          BY <4>1, <4>3, <5>1
      <4>5. r[Len(r)] \in until - 6 .. until
        BY <3>3, <3>5, <4>2
      <4> QED
        BY <3>4, <4>4, <4>5 DEF r
    <3>6. CASE d + 7 > until
      <4>1. Len(r) = 1 /\ r[Len(r)] = d
        BY <3>3, <3>4, <3>6
      <4>2. (until - d) \div 7 = 0 /\ d \in until - 6 .. until
        BY <2>2, <3>6
      <4>3. /\ Len(r) = (until - d) \div 7 + 1 /\ Len(r) >= 1
            /\ r[Len(r)] \in until - 6 .. until
        BY <4>1, <4>2
      <4> QED
        BY <3>4, <4>3 DEF r
    <3> QED
      BY <3>5, <3>6
  <2> QED
    BY <2>1, <2>2
<1> HIDE DEF P, m
<1>9. S \subseteq P
  <2> HIDE DEF S
  <2> QED
    BY <1>7, <1>8, MeasureInduction
<1>10. start \in P
  BY <1>9
<1> QED
  BY <1>1, <1>10 DEF P, Occurrences

(* A year's days, from its first.                                          *)
LEMMA YearIs ==
    ASSUME NEW y \in Int
    PROVE  /\ Ordinal(Date(y, 1, 1)) = YearStart(y) + 1
           /\ YearStart(y) \in Int /\ YearStart(y + 1) \in Int
           /\ YearStart(y + 1) - YearStart(y) \in {365, 366}
<1>1. 1 \in 1 .. 12 /\ 1 \in Int /\ y + 1 \in Int
  OBVIOUS
<1>2. Ordinal(Date(y, 1, 1)) = YearStart(y) + DaysBefore(y, 1) + 1
  BY <1>1, OrdinalIs
<1>3. DaysBefore(y, 1) = 0
  BY LastMonthEnd
<1>4. YearStart(y) \in Int /\ YearStart(y + 1) \in Int
  BY <1>1, YearType
<1>5. YearStart(y + 1) = YearStart(y) + (IF isLeapYear(y) THEN 366 ELSE 365)
  BY YearLength
<1> QED
  BY <1>2, <1>3, <1>4, <1>5

(* The ranges of the views of a calendar year are ranges the api takes.    *)
LEMMA RangesAreAccepted ==
    ASSUME NEW x, IsDay(x), x.year \in CalendarYears
    PROVE  \A r \in {weekRange(x), monthRange(x.year, x.month), yearRange(x.year)} : Accepted(r)
<1> DEFINE y == x.year
           m == x.month
<1>y. y \in Int /\ m \in 1 .. 12
  BY DayFacts
<1>0. y \in Int /\ m \in 1 .. 12 /\ y >= 100 /\ y <= 9998 /\ x.year > 99
  <2>1. y \in CalendarYears /\ x.year = y
    OBVIOUS
  <2> HIDE DEF y, m
  <2> QED
    BY <1>y, <2>1 DEF CalendarYears
<1>1. Accepted(weekRange(x))
  <2> DEFINE s == weekRange(x).start
             e == weekRange(x).end
             wd == weekdayOf(x)
             o == Ordinal(x)
  <2>1. /\ IsDay(s) /\ IsDay(e) /\ wd \in 0 .. 6 /\ o \in Int
        /\ Ordinal(s) = o - wd /\ Ordinal(e) = o - wd + 7
    BY <1>0, WeekIs, DayFacts, SMTT(30)
  <2> HIDE DEF s, e, wd, o
  <2>2. Ordinal(s) >= o - 7 /\ Ordinal(e) <= o + 7 /\ Ordinal(e) - Ordinal(s) = 7
    BY <2>1
  <2>3. s.year >= 1 /\ e.year <= 9999
    BY <2>1, <2>2, YearsOfRange DEF o
  <2>4. LET days == Ordinal(e) - Ordinal(s) IN days >= 0 /\ days <= RangeCap
    BY <2>2, RangeAssumption
  <2> QED
    BY <2>3, <2>4 DEF Accepted, s, e
<1>2. Accepted(monthRange(y, m))
  <2> DEFINE n == Next1(y, m)
             s == Date(y, m, 1)
             e == Date(n.year, n.month, 1)
  <2>1. monthRange(y, m).start = s /\ monthRange(y, m).end = e
    BY DEF monthRange
  <2>n. n = Next1(y, m) /\ 1 \in Int
    OBVIOUS
  <2>2. n.year \in Int /\ n.year <= y + 1
    <3> HIDE DEF y, m
    <3>1. Next1(y, m) = IF m = 12 THEN [year |-> y + 1, month |-> 1] ELSE [year |-> y, month |-> m + 1]
      BY <1>y, Neighbours
    <3>2. n = IF m = 12 THEN [year |-> y + 1, month |-> 1] ELSE [year |-> y, month |-> m + 1]
      BY <3>1
    <3> HIDE DEF n
    <3> QED
      BY <1>y, <3>2
  <2>3. s.year = y /\ e.year = n.year
    BY DEF Date
  <2> HIDE DEF n, y, m
  <2>4. Ordinal(e) = Ordinal(s) + daysInMonth(y, m)
    <3>1. Ordinal(Date(n.year, n.month, 1)) = Ordinal(Date(y, m, 1)) + daysInMonth(y, m)
      BY <1>y, <2>n, MonthAfterMonth, Zenon
    <3> QED
      BY <3>1
  <2> HIDE DEF s, e
  <2>5. Ordinal(s) \in Int /\ daysInMonth(y, m) \in 28 .. 31
    <3>1. Ordinal(Date(y, m, 1)) \in Int
      BY <1>y, <2>n, OrdinalIs, Zenon
    <3>2. daysInMonth(y, m) \in 28 .. 31
      BY <1>y, MonthTypes, Zenon
    <3> QED
      BY <3>1, <3>2 DEF s
  <2>6. LET days == Ordinal(e) - Ordinal(s) IN days >= 0 /\ days <= RangeCap
    <3>1. Ordinal(e) - Ordinal(s) \in 28 .. 31
      BY <2>4, <2>5
    <3> QED
      BY <3>1, RangeAssumption
  <2> QED
    BY <1>0, <2>1, <2>2, <2>3, <2>6 DEF Accepted
<1>3. Accepted(yearRange(y))
  <2> DEFINE s == Date(y, 1, 1)
             e == Date(y + 1, 1, 1)
  <2>1. yearRange(y).start = s /\ yearRange(y).end = e /\ s.year = y /\ e.year = y + 1
    BY DEF yearRange, Date
  <2> HIDE DEF y
  <2>2. /\ Ordinal(s) = YearStart(y) + 1 /\ Ordinal(e) = YearStart(y + 1) + 1
        /\ YearStart(y) \in Int /\ YearStart(y + 1) \in Int
        /\ YearStart(y + 1) - YearStart(y) \in {365, 366}
    <3>1. /\ Ordinal(Date(y, 1, 1)) = YearStart(y) + 1
          /\ YearStart(y) \in Int /\ YearStart(y + 1) \in Int
          /\ YearStart(y + 1) - YearStart(y) \in {365, 366}
      BY <1>y, YearIs, Zenon
    <3>2. Ordinal(Date(y + 1, 1, 1)) = YearStart(y + 1) + 1
      <4> DEFINE z == y + 1
      <4>1. z \in Int
        BY <1>y
      <4> HIDE DEF z
      <4>2. Ordinal(Date(z, 1, 1)) = YearStart(z) + 1
        BY <4>1, YearIs
      <4> QED
        BY <4>2 DEF z
    <3> QED
      BY <3>1, <3>2
  <2> HIDE DEF s, e
  <2>3. Ordinal(e) - Ordinal(s) \in {365, 366}
    BY <2>2
  <2>4. LET days == Ordinal(e) - Ordinal(s) IN days >= 0 /\ days <= RangeCap
    BY <2>3, RangeAssumption
  <2> QED
    BY <1>0, <2>1, <2>4 DEF Accepted
<1> QED
  BY <1>1, <1>2, <1>3

(* For every day of the years the calendar reaches and every step of days: *)
(* the step lands that many days later on a day that exists, the grids of  *)
(* the month, the week and the year show the days they stand for without a *)
(* gap and from a Sunday on, the week shows the days its range is queried  *)
(* for, a weekly series has the occurrences that were counted, and the api *)
(* accepts the range of every view.                                        *)
THEOREM EveryDateIsRight ==
    ASSUME NEW date, IsDay(date), date.year \in CalendarYears, NEW delta \in Int
    PROVE  DateIsRight(date, delta)
<1> DEFINE y == date.year
           m == date.month
           o == Ordinal(date)
           f == First(y, m)
           l == daysInMonth(y, m)
           grid == monthGrid(y, m)
           week == weekGrid(date)
           other == addDays(date, delta)
           run == Materialized(Ordinal(date), Ordinal(other))
           InRange(x, r) == Ordinal(r.start) <= Ordinal(x) /\ Ordinal(x) < Ordinal(r.end)
<1>1. /\ y \in Int /\ y > 99 /\ m \in 1 .. 12 /\ o \in Int /\ f \in Int /\ l \in 28 .. 31
      /\ date.day \in 1 .. l /\ o = f + date.day - 1 /\ date \in Days
  <2>1. /\ y \in Int /\ m \in 1 .. 12 /\ o \in Int /\ f \in Int /\ l \in 28 .. 31
        /\ date.day \in 1 .. l /\ o = f + date.day - 1 /\ date \in Days
    BY DayFacts
  <2>2. y > 99
    <3>1. y \in CalendarYears
      OBVIOUS
    <3> HIDE DEF y
    <3> QED
      BY <3>1, SMTT(30) DEF CalendarYears
  <2> QED
    BY <2>1, <2>2
<1>i. y \in Int /\ m \in 1 .. 12
  BY <1>1
<1>2. /\ IsDay(other) /\ Ordinal(other) = o + delta
      /\ other.day \in 1 .. daysInMonth(other.year, other.month)
  <2>1. IsDay(other) /\ Ordinal(other) = o + delta
    BY <1>1, AddDays
  <2> HIDE DEF other, o
  <2> QED
    BY <2>1, DayFacts
<1>3. /\ Consecutive(grid) /\ Len(grid) % 7 = 0 /\ Ordinal(grid[1]) % 7 = 0
      /\ \E i \in 1 .. 7 : grid[i] = Date(y, m, 1)
      /\ \E i \in Len(grid) - 6 .. Len(grid) : InRange(grid[i], monthRange(y, m))
  <2> DEFINE lead == weekdayOf(Date(y, m, 1))
  <2>l. lead = weekdayOf(Date(y, m, 1))
    OBVIOUS
  <2>d. date.year = y /\ date.month = m /\ f = First(y, m) /\ l = daysInMonth(y, m)
    OBVIOUS
  <2> HIDE DEF lead, y, m
  <2>1. lead \in 0 .. 6 /\ (f - lead) % 7 = 0
    BY <1>1, <2>l, GridIs
  <2>2. PICK n \in lead + l .. lead + l + 6 : n % 7 = 0 /\ Run(grid, f - lead, n)
    BY <1>1, <2>l, GridIs
  <2>3. Consecutive(grid)
    BY <2>2, RunIsConsecutive
  <2> HIDE DEF f, l, grid
  <2>4. /\ n \in Nat /\ lead + 1 \in 1 .. n /\ lead + l \in 1 .. n /\ 1 \in 1 .. n
        /\ lead + l \in n - 6 .. n
    BY <1>1, <2>1, <2>2
  <2>5. Len(grid) = n /\ \A i \in 1 .. n : IsDay(grid[i]) /\ Ordinal(grid[i]) = (f - lead) + i - 1
    BY <2>2 DEF Run
  <2>6. Ordinal(grid[1]) % 7 = 0
    <3>1. Ordinal(grid[1]) = (f - lead) + 1 - 1
      BY <2>4, <2>5
    <3>2. (f - lead) + 1 - 1 = f - lead
      BY <1>1, <2>1
    <3> QED
      BY <2>1, <3>1, <3>2
  <2>7. \E i \in 1 .. 7 : grid[i] = Date(y, m, 1)
    <3>1. IsDay(Date(y, m, 1)) /\ Ordinal(Date(y, m, 1)) = f
      BY <1>1, <2>d, FirstIsDay
    <3>2. IsDay(grid[lead + 1]) /\ Ordinal(grid[lead + 1]) = (f - lead) + (lead + 1) - 1
      BY <2>4, <2>5
    <3>3. (f - lead) + (lead + 1) - 1 = f /\ lead + 1 \in 1 .. 7
      BY <1>1, <2>1
    <3>4. grid[lead + 1] = Date(y, m, 1)
      BY <3>1, <3>2, <3>3, OneDayOneOrdinal
    <3> QED
      BY <3>3, <3>4
  <2>8. \E i \in Len(grid) - 6 .. Len(grid) : InRange(grid[i], monthRange(y, m))
    <3> DEFINE e == Next1(y, m)
    <3>1. /\ Ordinal(monthRange(y, m).start) = f
          /\ Ordinal(monthRange(y, m).end) = f + l
      <4>1. monthRange(y, m).start = Date(y, m, 1) /\ monthRange(y, m).end = Date(e.year, e.month, 1)
        BY DEF monthRange
      <4>2. e = Next1(y, m) /\ 1 \in Int
        OBVIOUS
      <4> HIDE DEF e
      <4>3. Ordinal(Date(e.year, e.month, 1)) = Ordinal(Date(y, m, 1)) + daysInMonth(y, m)
        BY <1>i, <4>2, MonthAfterMonth, Zenon
      <4>4. Ordinal(Date(y, m, 1)) = f
        BY <1>1, <2>d, FirstIsDay
      <4> QED
        BY <2>d, <4>1, <4>3, <4>4
    <3>2. Ordinal(grid[lead + l]) = (f - lead) + (lead + l) - 1
      BY <2>4, <2>5
    <3>3. f <= Ordinal(grid[lead + l]) /\ Ordinal(grid[lead + l]) < f + l
      <4>1. f \in Int /\ l \in Int /\ 1 <= l /\ lead \in Int
        BY <1>1, <2>1
      <4> QED
        BY <3>2, <4>1
    <3>4. InRange(grid[lead + l], monthRange(y, m))
      BY <3>1, <3>3
    <3> QED
      BY <2>4, <2>5, <3>4
  <2> QED
    BY <2>2, <2>3, <2>5, <2>6, <2>7, <2>8
<1>4. /\ Consecutive(week) /\ Ordinal(week[1]) % 7 = 0 /\ InRange(date, weekRange(date))
      /\ {week[i] : i \in 1 .. 7}
           = {x \in {addDays(date, k) : k \in -7 .. 7} : InRange(x, weekRange(date))}
  <2> DEFINE wd == weekdayOf(date)
  <2>1. /\ wd \in 0 .. 6 /\ (o - wd) % 7 = 0 /\ Run(week, o - wd, 7)
        /\ Ordinal(weekRange(date).start) = o - wd /\ Ordinal(weekRange(date).end) = o - wd + 7
    BY <1>1, WeekIs
  <2>2. Consecutive(week)
    BY <2>1, RunIsConsecutive
  <2> HIDE DEF wd, week
  <2>3. Ordinal(week[1]) % 7 = 0
    <3>1. 1 \in 1 .. 7
      OBVIOUS
    <3>2. Ordinal(week[1]) = (o - wd) + 1 - 1
      BY <2>1, <3>1 DEF Run
    <3>3. (o - wd) + 1 - 1 = o - wd
      BY <1>1, <2>1
    <3> QED
      BY <2>1, <3>2, <3>3
  <2>4. InRange(date, weekRange(date))
    <3>1. o - wd <= o /\ o < o - wd + 7
      <4>1. o \in Int /\ wd \in 0 .. 6
        BY <1>1, <2>1
      <4> HIDE DEF o
      <4> QED
        BY <4>1
    <3> QED
      BY <2>1, <3>1
  <2>5. {week[i] : i \in 1 .. 7}
           = {x \in {addDays(date, k) : k \in -7 .. 7} : InRange(x, weekRange(date))}
    BY <1>1, WeekHoldsItsDays DEF week
  <2> HIDE DEF InRange
  <2> QED
    BY <2>2, <2>3, <2>4, <2>5
<1>5. \A r \in {weekRange(date), monthRange(y, m), yearRange(y)} : Accepted(r)
  BY RangesAreAccepted
<1>6. \A d \in 1 .. 31 : LET slot == yearGrid(y)[m][d]
                         IN slot = Blocked \/ Ordinal(slot) = o - date.day + d
  <2> TAKE d \in 1 .. 31
  <2>1. yearGrid(y)[m][d] = IF d > l THEN Blocked ELSE Date(y, m, d)
    BY <1>1 DEF yearGrid
  <2> HIDE DEF y, m
  <2>2. d \in Int /\ Ordinal(Date(y, m, d)) = First(y, m) + d - 1
    <3>1. d \in Int
      OBVIOUS
    <3> QED
      BY <1>i, <3>1, DayShift, Zenon
  <2> HIDE DEF f, l, o
  <2>3. Ordinal(Date(y, m, d)) = o - date.day + d
    <3>1. date.day \in Int /\ f = First(y, m)
      BY <1>1 DEF f
    <3>2. Ordinal(Date(y, m, d)) = f + d - 1
      BY <2>2, <3>1
    <3> QED
      BY <1>1, <2>2, <3>1, <3>2
  <2> QED
    BY <2>1, <2>3
<1>7. run # <<>> => /\ Len(run) = Occurrences(Ordinal(date), Ordinal(other))
                    /\ run[Len(run)] \in Ordinal(other) - 6 .. Ordinal(other)
  <2> DEFINE u == Ordinal(other)
  <2>1. u \in Int
    BY <1>2, DayFacts
  <2>2. run = IF u < o \/ Occurrences(o, u) > RowCap THEN <<>> ELSE WeeklyDates(o, u)
    BY DEF Materialized
  <2>o. o = Ordinal(date)
    OBVIOUS
  <2> HIDE DEF u, o, run
  <2>3. ASSUME run # <<>> PROVE run = WeeklyDates(o, u) /\ o <= u
    <3>1. o \in Int
      BY <1>1
    <3>2. ~(u < o)
      BY <2>2, <2>3
    <3>3. o <= u
      BY <2>1, <3>1, <3>2
    <3> QED
      BY <2>2, <2>3, <3>3
  <2>4. ASSUME run # <<>> PROVE Len(run) = Occurrences(o, u) /\ run[Len(run)] \in u - 6 .. u
    <3>1. o \in Int /\ u \in Int /\ o <= u /\ run = WeeklyDates(o, u)
      BY <1>1, <2>1, <2>3, <2>4
    <3> QED
      BY <3>1, WeeklyRun, Zenon
  <2> QED
    BY <2>4, <2>o DEF u
<1>8. /\ other.day \in 1 .. daysInMonth(other.year, other.month)
      /\ Ordinal(other) = Ordinal(date) + delta
  BY <1>2
<1> QED
  BY <1>8, <1>3, <1>4, <1>5, <1>6, <1>7, ZenonT(60) DEF DateIsRight

(* The days the run tries are days of the calendar.                        *)
LEMMA EveryTriedDateIsRight ==
    ASSUME TryDate
    PROVE  DateIsRight(input'.date, input'.delta)
<1> PICK y \in InputYears, m \in 1 .. 12, d \in {1, 2, 28, 29, 30, 31}, delta \in Deltas :
       /\ d <= daysInMonth(y, m)
       /\ input' = [of |-> "date", date |-> Date(y, m, d), delta |-> delta]
  BY DEF TryDate
<1>1. y \in Int /\ y \in CalendarYears
  BY DEF InputYears, CalendarYears
<1>2. delta \in Int
  BY DEF Deltas
<1>3. daysInMonth(y, m) \in 28 .. 31
  BY <1>1, MonthTypes
<1>4. d \in 1 .. daysInMonth(y, m)
  BY <1>3
<1> DEFINE date == Date(y, m, d)
<1>5. IsDay(date) /\ date.year \in CalendarYears
  BY <1>1, <1>4 DEF IsDay, Days, Date
<1>6. input'.date = date /\ input'.delta = delta
  OBVIOUS
<1> HIDE DEF date
<1>7. DateIsRight(date, delta)
  BY <1>2, <1>5, EveryDateIsRight
<1> QED
  BY <1>6, <1>7

(* What the run shows of its dates follows from the theorem on all of      *)
(* them.                                                                   *)
THEOREM InputsDatesAreRight == Spec => []DatesAreRight
<1>1. Init => DatesAreRight
  BY DEF Init, DatesAreRight
<1>2. DatesAreRight /\ [input.of = "nothing" /\ Try]_input => DatesAreRight'
  <2> SUFFICES ASSUME DatesAreRight, [input.of = "nothing" /\ Try]_input PROVE DatesAreRight'
    OBVIOUS
  <2>1. CASE TryDate
    BY <2>1, EveryTriedDateIsRight DEF DatesAreRight
  <2>2. CASE TryCitations \/ TryFusion \/ TrySlices \/ TryScores \/ TryChunk \/ TryVectors
    <3>1. input'.of # "date"
      <4>1. CASE TryChunk
        BY <4>1 DEF TryChunk
      <4>2. CASE TryCitations
        BY <4>2 DEF TryCitations
      <4>3. CASE TryFusion
        BY <4>3 DEF TryFusion
      <4>4. CASE TrySlices
        BY <4>4 DEF TrySlices
      <4>5. CASE TryScores
        BY <4>5 DEF TryScores
      <4>6. CASE TryVectors
        BY <4>6 DEF TryVectors
      <4> QED
        BY <2>2, <4>1, <4>2, <4>3, <4>4, <4>5, <4>6
    <3> QED
      BY <3>1 DEF DatesAreRight
  <2>3. CASE UNCHANGED input
    BY <2>3 DEF DatesAreRight
  <2> QED
    BY <2>1, <2>2, <2>3 DEF Try
<1> QED
  BY <1>1, <1>2, PTL DEF Spec

-----------------------------------------------------------------------------
(* Chunks.                                                                 *)

(* Windows that follow one another from a to b without a gap or an         *)
(* overlap, none of them empty.                                            *)
Tiles(ws, a, b) ==
    /\ ws \in Seq(Int \X Int)
    /\ \A i \in 1 .. Len(ws) : ws[i][1] < ws[i][2]
    /\ \A i \in 1 .. Len(ws) - 1 : ws[i][2] = ws[i + 1][1]
    /\ IF ws = <<>> THEN a = b ELSE ws[1][1] = a /\ ws[Len(ws)][2] = b

(* Every window fits the embedder.                                         *)
AllFit(text, ws) == \A i \in 1 .. Len(ws) : Fits(text, ws[i])

(* Texts by the bytes of their characters.                                 *)
Text == Seq(1 .. 4)

(* One window tiles itself.                                                *)
LEMMA TilesOne ==
    ASSUME NEW a \in Int, NEW b \in Int, a < b
    PROVE  Tiles(<<<<a, b>>>>, a, b)
BY DEF Tiles

(* Windows up to b and windows from b on, joined.                          *)
LEMMA TilesJoin ==
    ASSUME NEW a, NEW b, NEW c, NEW u, NEW v, Tiles(u, a, b), Tiles(v, b, c)
    PROVE  Tiles(u \o v, a, c)
<1> DEFINE w == u \o v
<1>1. u \in Seq(Int \X Int) /\ v \in Seq(Int \X Int) /\ w \in Seq(Int \X Int)
  BY DEF Tiles
<1>2. Len(w) = Len(u) + Len(v) /\ Len(u) \in Nat /\ Len(v) \in Nat
  BY <1>1
<1>3. /\ \A i \in 1 .. Len(u) : w[i] = u[i]
      /\ \A i \in 1 .. Len(v) : w[Len(u) + i] = v[i]
  BY <1>1
<1>4. (u = <<>> <=> Len(u) = 0) /\ (v = <<>> <=> Len(v) = 0) /\ (w = <<>> <=> Len(w) = 0)
  BY <1>1
<1> HIDE DEF w
<1>5. \A i \in 1 .. Len(w) : i \notin 1 .. Len(u) => i - Len(u) \in 1 .. Len(v) /\ w[i] = v[i - Len(u)]
  <2> TAKE i \in 1 .. Len(w)
  <2> HAVE i \notin 1 .. Len(u)
  <2>1. i - Len(u) \in 1 .. Len(v) /\ Len(u) + (i - Len(u)) = i
    BY <1>2
  <2> QED
    BY <2>1, <1>3
<1>6. \A i \in 1 .. Len(w) : w[i][1] < w[i][2]
  BY <1>3, <1>5 DEF Tiles
<1>7. \A i \in 1 .. Len(w) - 1 : w[i][2] = w[i + 1][1]
  <2> TAKE i \in 1 .. Len(w) - 1
  <2>1. CASE i < Len(u)
    <3>1. i \in 1 .. Len(u) - 1 /\ i \in 1 .. Len(u) /\ i + 1 \in 1 .. Len(u)
      BY <2>1, <1>2
    <3> QED
      BY <3>1, <1>3 DEF Tiles
  <2>2. CASE i = Len(u)
    <3>1. i \in 1 .. Len(u) /\ 1 \in 1 .. Len(v) /\ Len(u) # 0 /\ Len(v) # 0
      BY <2>2, <1>2
    <3>2. w[i] = u[Len(u)] /\ w[i + 1] = v[1]
      BY <3>1, <2>2, <1>3
    <3> QED
      BY <3>1, <3>2, <1>4 DEF Tiles
  <2>3. CASE i > Len(u)
    <3>1. /\ i - Len(u) \in 1 .. Len(v) - 1 /\ i \in 1 .. Len(w) /\ i + 1 \in 1 .. Len(w)
          /\ i \notin 1 .. Len(u) /\ i + 1 \notin 1 .. Len(u)
          /\ i + 1 - Len(u) = (i - Len(u)) + 1
      BY <2>3, <1>2
    <3>2. w[i] = v[i - Len(u)] /\ w[i + 1] = v[(i - Len(u)) + 1]
      BY <3>1, <1>5
    <3>3. v[i - Len(u)][2] = v[(i - Len(u)) + 1][1]
      BY <3>1 DEF Tiles
    <3> QED
      BY <3>2, <3>3
  <2> QED
    BY <2>1, <2>2, <2>3, <1>2
<1>8. IF w = <<>> THEN a = c ELSE w[1][1] = a /\ w[Len(w)][2] = c
  <2>1. CASE u = <<>>
    <3>1. Len(u) = 0 /\ a = b
      BY <2>1, <1>4 DEF Tiles
    <3>2. v # <<>> => w[1] = v[1] /\ w[Len(w)] = v[Len(v)] /\ w # <<>>
      BY <3>1, <1>2, <1>3, <1>4
    <3>3. v = <<>> => w = <<>>
      BY <3>1, <1>2, <1>4
    <3> QED
      BY <3>1, <3>2, <3>3 DEF Tiles
  <2>2. CASE u # <<>>
    <3>1. Len(u) # 0 /\ w # <<>> /\ u[1][1] = a /\ u[Len(u)][2] = b
      BY <2>2, <1>4, <1>2 DEF Tiles
    <3>2. w[1] = u[1]
      BY <3>1, <1>2, <1>3
    <3>3. CASE v = <<>>
      <4>1. Len(w) = Len(u) /\ b = c /\ w[Len(w)] = u[Len(u)]
        BY <3>1, <3>3, <1>2, <1>3, <1>4 DEF Tiles
      <4> QED
        BY <4>1, <3>1, <3>2
    <3>4. CASE v # <<>>
      <4>1. w[Len(w)] = v[Len(v)] /\ v[Len(v)][2] = c
        BY <3>4, <1>2, <1>3, <1>4 DEF Tiles
      <4> QED
        BY <4>1, <3>1, <3>2
    <3> QED
      BY <3>3, <3>4
  <2> QED
    BY <2>1, <2>2
<1> QED
  BY <1>1, <1>6, <1>7, <1>8 DEF Tiles, w

(* Windows that fit, joined.                                               *)
LEMMA FitJoin ==
    ASSUME NEW text, NEW u \in Seq(Int \X Int), NEW v \in Seq(Int \X Int),
           AllFit(text, u), AllFit(text, v)
    PROVE  AllFit(text, u \o v)
<1> DEFINE w == u \o v
<1>1. Len(w) = Len(u) + Len(v) /\ Len(u) \in Nat /\ Len(v) \in Nat
  OBVIOUS
<1>2. /\ \A i \in 1 .. Len(u) : w[i] = u[i]
      /\ \A i \in 1 .. Len(v) : w[Len(u) + i] = v[i]
  OBVIOUS
<1> HIDE DEF w
<1>3. ASSUME NEW i \in 1 .. Len(w) PROVE Fits(text, w[i])
  <2>1. CASE i \in 1 .. Len(u)
    BY <2>1, <1>2 DEF AllFit
  <2>2. CASE i \notin 1 .. Len(u)
    <3>1. i - Len(u) \in 1 .. Len(v) /\ Len(u) + (i - Len(u)) = i
      BY <2>2, <1>1
    <3> QED
      BY <3>1, <1>2 DEF AllFit
  <2> QED
    BY <2>1, <2>2
<1> QED
  BY <1>3 DEF AllFit, w

(* The bytes of a text are the last value of their running sum.            *)
LEMMA BytesDef ==
    ASSUME NEW text \in Seq(Int)
    PROVE  \E B \in [0 .. Len(text) -> Int] :
             /\ B = [i \in 0 .. Len(text) |-> IF i = 0 THEN 0 ELSE B[i - 1] + text[i]]
             /\ Bytes(text) = B[Len(text)]
<1> DEFINE B[i \in 0 .. Len(text)] == IF i = 0 THEN 0 ELSE B[i - 1] + text[i]
<1>1. Bytes(text) = B[Len(text)]
  BY DEF Bytes
<1> DEFINE step == [p \in (1 .. Len(text)) \X Int |-> p[2] + text[p[1]]]
<1>2. \A i \in 1 .. Len(text), v \in Int : step[<<i, v>>] = v + text[i] /\ step[<<i, v>>] \in Int
  OBVIOUS
<1>3. \E F \in [0 .. Len(text) -> Int] :
             \A i \in 0 .. Len(text) : F[i] = IF i = 0 THEN 0 ELSE step[<<i, F[i - 1]>>]
  <2> HIDE DEF step
  <2>1. FoldOn(Len(text), Int, 0, step)
    BY <1>2 DEF FoldOn
  <2> QED BY <2>1, FoldExists DEF Folds
<1>4. PICK F \in [0 .. Len(text) -> Int] :
             \A i \in 0 .. Len(text) : F[i] = IF i = 0 THEN 0 ELSE step[<<i, F[i - 1]>>]
  <2> HIDE DEF step
  <2> QED BY <1>3
<1>5. F = [i \in 0 .. Len(text) |-> IF i = 0 THEN 0 ELSE F[i - 1] + text[i]]
  <2>1. \A i \in 0 .. Len(text) : i # 0 => i \in 1 .. Len(text) /\ F[i - 1] \in Int
    OBVIOUS
  <2> HIDE DEF step
  <2> QED BY <1>2, <1>4, <2>1
<1>6. B = [i \in 0 .. Len(text) |-> IF i = 0 THEN 0 ELSE B[i - 1] + text[i]]
  BY <1>5
<1> HIDE DEF B
<1>7. \A i \in 0 .. Len(text) : B[i] \in Int
  <2>0. Len(text) \in Nat
    OBVIOUS
  <2>1. B[0] \in Int
    BY <2>0, <1>6
  <2>2. ASSUME NEW i \in 1 .. Len(text), B[i - 1] \in Int PROVE B[i] \in Int
    <3>1. i \in 0 .. Len(text) /\ i # 0 /\ text[i] \in Int
      BY <2>0
    <3>2. B[i] = B[i - 1] + text[i]
      BY <3>1, <1>6
    <3> QED
      BY <3>1, <3>2, <2>2
  <2> QED
    BY <2>0, <2>1, <2>2, FoldTyped
<1>8. B \in [0 .. Len(text) -> Int]
  BY <1>6, <1>7
<1> QED
  BY <1>1, <1>6, <1>8 DEF B

(* A single character fits.                                                *)
LEMMA OneFits ==
    ASSUME NEW text \in Text, NEW i \in Nat, i < Len(text)
    PROVE  Fits(text, <<i, i + 1>>)
<1> DEFINE one == Window(text, <<i, i + 1>>)
<1>1. one = SubSeq(text, i + 1, i + 1)
  BY DEF Window
<1>2. Len(one) = 1 /\ one \in Seq(Int) /\ one[1] = text[i + 1]
  <2>1. text \in Seq(1 .. 4) /\ i + 1 \in 1 .. Len(text) /\ Len(text) \in Nat
    BY DEF Text
  <2>2. i + 1 \in Int /\ text[i + 1] \in Int
    BY <2>1
  <2> HIDE DEF one
  <2> DEFINE j == i + 1
  <2> HIDE DEF j
  <2>4. j \in Int /\ text[j] \in Int
    BY <2>2 DEF j
  <2>3. /\ SubSeq(text, i + 1, i + 1) \in Seq(Int) /\ Len(SubSeq(text, i + 1, i + 1)) = 1
        /\ SubSeq(text, i + 1, i + 1)[1] = text[i + 1]
    BY <2>4, SubSeqOne DEF j
  <2> QED
    BY <1>1, <2>3
<1>3. text[i + 1] \in 1 .. 4
  BY DEF Text
<1> HIDE DEF one
<1>4. Bytes(one) = one[1]
  <2>1. PICK B \in [0 .. Len(one) -> Int] :
             /\ B = [k \in 0 .. Len(one) |-> IF k = 0 THEN 0 ELSE B[k - 1] + one[k]]
             /\ Bytes(one) = B[Len(one)]
    BY <1>2, BytesDef
  <2>2. B[0] = 0 /\ B[1] = B[0] + one[1]
    BY <2>1, <1>2
  <2> QED
    BY <2>1, <2>2, <1>2, <1>3
<1>5. Tokens(one) <= 1
  BY <1>2, CapAssumption DEF Tokens
<1>6. Tokens(one) \in Int
  BY <1>2, CapAssumption DEF Tokens
<1> QED
  BY <1>2, <1>3, <1>4, <1>5, <1>6, CapAssumption DEF Fits, one

(* The bounds of the binary search for the end of a window, and its step.  *)
SearchState == [lo : Int, hi : Int, best : Int]
SearchStep(text, i, r, Search) ==
    LET mid == (r.lo + r.hi) \div 2
    IN IF r.lo > r.hi THEN r.best
       ELSE IF Fits(text, <<i, mid>>) THEN Search[[lo |-> mid + 1, hi |-> r.hi, best |-> mid]]
       ELSE Search[[r EXCEPT !.hi = mid - 1]]

(* The binary search has a value, as its interval shrinks.                 *)
LEMMA SearchDefined ==
    ASSUME NEW text, NEW i, NEW n
    PROVE  \E Search :
             /\ \A r \in SearchState : Search[r] = SearchStep(text, i, r, Search)
             /\ HardEnd(text, i, n) = Search[[lo |-> i + 1, hi |-> n, best |-> i + 1]]
<1> DEFINE Search[r \in [lo : Int, hi : Int, best : Int]] ==
             LET mid == (r.lo + r.hi) \div 2
             IN IF r.lo > r.hi THEN r.best
                ELSE IF Fits(text, <<i, mid>>)
                     THEN Search[[lo |-> mid + 1, hi |-> r.hi, best |-> mid]]
                     ELSE Search[[r EXCEPT !.hi = mid - 1]]
           m == [r \in SearchState |-> IF r.lo > r.hi THEN 0 ELSE r.hi - r.lo + 1]
           G == [p \in SearchState \X [SearchState -> Int] |-> SearchStep(text, i, p[1], p[2])]
<1>1. HardEnd(text, i, n) = Search[[lo |-> i + 1, hi |-> n, best |-> i + 1]]
  BY DEF HardEnd
<1>2. \A r \in SearchState, F \in [SearchState -> Int] : SearchStep(text, i, r, F) \in Int
  <2> TAKE r \in SearchState, F \in [SearchState -> Int]
  <2> DEFINE mid == (r.lo + r.hi) \div 2
             right == [lo |-> mid + 1, hi |-> r.hi, best |-> mid]
             left == [r EXCEPT !.hi = mid - 1]
  <2>1. r.lo \in Int /\ r.hi \in Int /\ r.best \in Int /\ mid \in Int
    BY DEF SearchState
  <2>2. left \in SearchState /\ right \in SearchState
    <3> HIDE DEF mid
    <3> QED BY <2>1 DEF SearchState
  <2>3. F[left] \in Int /\ F[right] \in Int
    <3> HIDE DEF left, right
    <3> QED BY <2>2
  <2> QED
    BY <2>1, <2>3 DEF SearchStep
<1>3. m \in [SearchState -> Nat]
  BY DEF SearchState
<1>4. \A r \in SearchState : \A f, g \in [SearchState -> Int] :
        (\A y \in SearchState : m[y] < m[r] => f[y] = g[y])
          => SearchStep(text, i, r, f) = SearchStep(text, i, r, g)
  <2> TAKE r \in SearchState
  <2> TAKE f, g \in [SearchState -> Int]
  <2> HAVE \A y \in SearchState : m[y] < m[r] => f[y] = g[y]
  <2> DEFINE mid == (r.lo + r.hi) \div 2
             right == [lo |-> mid + 1, hi |-> r.hi, best |-> mid]
             left == [r EXCEPT !.hi = mid - 1]
  <2>1. CASE r.lo > r.hi
    BY <2>1 DEF SearchStep
  <2>2. CASE ~(r.lo > r.hi)
    <3>1. r.lo \in Int /\ r.hi \in Int /\ mid \in Int /\ r.lo <= mid /\ mid <= r.hi
      BY <2>2 DEF SearchState
    <3>2. left \in SearchState /\ right \in SearchState
      <4> HIDE DEF mid
      <4> QED BY <3>1 DEF SearchState
    <3>3. left.lo = r.lo /\ left.hi = mid - 1 /\ right.lo = mid + 1 /\ right.hi = r.hi
      BY DEF SearchState
    <3>4. m[left] < m[r] /\ m[right] < m[r]
      <4> HIDE DEF mid, left, right
      <4> QED BY <2>2, <3>1, <3>2, <3>3
    <3>5. f[left] = g[left] /\ f[right] = g[right]
      <4> HIDE DEF m, left, right
      <4> QED BY <3>2, <3>4
    <3> QED
      BY <3>5 DEF SearchStep
  <2> QED
    BY <2>1, <2>2
<1>5. RecursionOn(SearchState, Int, m, G)
  <2> HIDE DEF m
  <2> QED BY <1>2, <1>3, <1>4 DEF RecursionOn
<1>6. PICK F \in [SearchState -> Int] : Solves(F, SearchState, G)
  <2> HIDE DEF m, G
  <2> QED BY <1>5, MeasureRecursion
<1>7. \A r \in SearchState : F[r] = SearchStep(text, i, r, F)
  BY <1>6 DEF Solves
<1>8. F = [r \in [lo : Int, hi : Int, best : Int] |->
             LET mid == (r.lo + r.hi) \div 2
             IN IF r.lo > r.hi THEN r.best
                ELSE IF Fits(text, <<i, mid>>)
                     THEN F[[lo |-> mid + 1, hi |-> r.hi, best |-> mid]]
                     ELSE F[[r EXCEPT !.hi = mid - 1]]]
  BY <1>7 DEF SearchStep, SearchState
<1>9. Search = [r \in [lo : Int, hi : Int, best : Int] |->
             LET mid == (r.lo + r.hi) \div 2
             IN IF r.lo > r.hi THEN r.best
                ELSE IF Fits(text, <<i, mid>>)
                     THEN Search[[lo |-> mid + 1, hi |-> r.hi, best |-> mid]]
                     ELSE Search[[r EXCEPT !.hi = mid - 1]]]
  BY <1>8
<1> HIDE DEF Search
<1>10. \A r \in SearchState : Search[r] = SearchStep(text, i, r, Search)
  BY <1>9 DEF SearchStep, SearchState
<1> QED
  BY <1>1, <1>10 DEF Search

(* The search ends past the window's start and within the text, at one     *)
(* character or at an end that fits.                                       *)
LEMMA HardEndFits ==
    ASSUME NEW text, NEW i \in Int, NEW n \in Int, i < n
    PROVE  /\ HardEnd(text, i, n) \in i + 1 .. n
           /\ HardEnd(text, i, n) = i + 1 \/ Fits(text, <<i, HardEnd(text, i, n)>>)
<1>1. PICK Search : /\ \A r \in SearchState : Search[r] = SearchStep(text, i, r, Search)
                    /\ HardEnd(text, i, n) = Search[[lo |-> i + 1, hi |-> n, best |-> i + 1]]
  BY SearchDefined
<1> DEFINE Good(e) == e \in i + 1 .. n /\ (e = i + 1 \/ Fits(text, <<i, e>>))
           S == {r \in SearchState : r.lo > i /\ r.hi <= n /\ Good(r.best)}
           m == [r \in S |-> IF r.lo > r.hi THEN 0 ELSE r.hi - r.lo + 1]
           P == {r \in S : Good(Search[r])}
<1>2. \A r \in S : m[r] \in Nat
  BY DEF SearchState
<1>3. ASSUME NEW r \in S, \A y \in S : m[y] < m[r] => y \in P
      PROVE  r \in P
  <2> DEFINE mid == (r.lo + r.hi) \div 2
             right == [lo |-> mid + 1, hi |-> r.hi, best |-> mid]
             left == [r EXCEPT !.hi = mid - 1]
  <2>0. /\ r \in SearchState /\ r.lo \in Int /\ r.hi \in Int /\ r.best \in Int /\ mid \in Int
        /\ r.lo > i /\ r.hi <= n /\ Good(r.best)
    BY DEF SearchState
  <2>1. Search[r] = SearchStep(text, i, r, Search)
    BY <1>1, <2>0
  <2>2. CASE r.lo > r.hi
    <3>1. Search[r] = r.best
      BY <2>1, <2>2 DEF SearchStep
    <3> QED
      BY <3>1, <2>0
  <2>3. CASE ~(r.lo > r.hi)
    <3>1. r.lo <= mid /\ mid <= r.hi
      BY <2>3, <2>0
    <3>2. left \in SearchState /\ right \in SearchState
      <4> HIDE DEF mid
      <4> QED BY <2>0 DEF SearchState
    <3>3. /\ left.lo = r.lo /\ left.hi = mid - 1 /\ left.best = r.best
          /\ right.lo = mid + 1 /\ right.hi = r.hi /\ right.best = mid
      BY <2>0 DEF SearchState
    <3>4. CASE Fits(text, <<i, mid>>)
      <4>1. Good(mid)
        <5> HIDE DEF mid
        <5> QED BY <3>4, <3>1, <2>0
      <4>2. right \in S
        <5> HIDE DEF mid, right, Good
        <5> QED BY <4>1, <3>1, <3>2, <3>3, <2>0
      <4>3. m[right] < m[r]
        <5> HIDE DEF mid, right, Good
        <5>1. m[right] = IF right.lo > right.hi THEN 0 ELSE right.hi - right.lo + 1
          <6> HIDE DEF S
          <6> QED BY <4>2
        <5>2. m[r] = r.hi - r.lo + 1
          <6> HIDE DEF S
          <6> QED BY <2>3
        <5> HIDE DEF m
        <5> QED BY <5>1, <5>2, <3>1, <3>3, <2>0, <2>3
      <4>4. Good(Search[right])
        <5> HIDE DEF mid, right, Good, m, S
        <5> QED BY <1>3, <4>2, <4>3
      <4>5. Search[r] = Search[right]
        BY <2>1, <2>3, <3>4 DEF SearchStep
      <4> HIDE DEF right, Good, m, S
      <4> QED
        BY <4>4, <4>5
    <3>5. CASE ~Fits(text, <<i, mid>>)
      <4>2. left \in S
        <5> HIDE DEF mid, left, Good
        <5> QED BY <3>1, <3>2, <3>3, <2>0
      <4>3. m[left] < m[r]
        <5> HIDE DEF mid, left, Good
        <5>1. m[left] = IF left.lo > left.hi THEN 0 ELSE left.hi - left.lo + 1
          <6> HIDE DEF S
          <6> QED BY <4>2
        <5>2. m[r] = r.hi - r.lo + 1
          <6> HIDE DEF S
          <6> QED BY <2>3
        <5> HIDE DEF m
        <5> QED BY <5>1, <5>2, <3>1, <3>3, <2>0, <2>3
      <4>4. Good(Search[left])
        <5> HIDE DEF mid, left, Good, m, S
        <5> QED BY <1>3, <4>2, <4>3
      <4>5. Search[r] = Search[left]
        BY <2>1, <2>3, <3>5 DEF SearchStep
      <4> HIDE DEF left, Good, m, S
      <4> QED
        BY <4>4, <4>5
    <3> QED
      BY <3>4, <3>5
  <2> QED
    BY <2>2, <2>3
<1>4. S \subseteq P
  <2> HIDE DEF S, m, P
  <2> QED BY <1>2, <1>3, MeasureInduction
<1>5. [lo |-> i + 1, hi |-> n, best |-> i + 1] \in S
  BY DEF SearchState
<1>6. Good(Search[[lo |-> i + 1, hi |-> n, best |-> i + 1]])
  <2> HIDE DEF S, Good
  <2> QED BY <1>4, <1>5
<1> QED
  BY <1>1, <1>6

(* Every end lies past its start.                                          *)
Forward(n, end) == \A i \in 0 .. n - 1 : end[i] \in i + 1 .. n

(* The windows from a position are one, then those from its end.           *)
LEMMA WindowsDefined ==
    ASSUME NEW n \in Nat, NEW end, Forward(n, end)
    PROVE  \A i \in 0 .. n :
             WindowsUpTo(n, end)[i] = IF i = n THEN <<>>
                                      ELSE <<<<i, end[i]>>>> \o WindowsUpTo(n, end)[end[i]]
<1> DEFINE From[i \in 0 .. n] == IF i = n THEN <<>> ELSE <<<<i, end[i]>>>> \o From[end[i]]
           S == 0 .. n
           T == Seq(Int \X Int)
           Body(i, F) == IF i = n THEN <<>> ELSE <<<<i, end[i]>>>> \o F[end[i]]
           m == [i \in S |-> n - i]
           G == [p \in S \X [S -> T] |-> Body(p[1], p[2])]
<1>1. WindowsUpTo(n, end) = From
  BY DEF WindowsUpTo
<1>2. \A i \in S : i # n => /\ end[i] \in S /\ end[i] \in Int /\ i < end[i]
                            /\ m[end[i]] < m[i]
  BY DEF Forward
<1>3. \A i \in S, F \in [S -> T] : Body(i, F) \in T
  <2> TAKE i \in S, F \in [S -> T]
  <2>1. CASE i # n
    <3>0. F[end[i]] \in T
      <4> HIDE DEF S, T, m
      <4> QED BY <1>2, <2>1
    <3>4. i \in Int
      OBVIOUS
    <3>1. i \in Int /\ end[i] \in Int
      <4> HIDE DEF S, m
      <4> QED BY <1>2, <2>1, <3>4
    <3>3. <<<<i, end[i]>>>> \in T
      <4> HIDE DEF S, m
      <4> QED BY <3>1
    <3>2. <<<<i, end[i]>>>> \o F[end[i]] \in T
      BY <3>0, <3>3
    <3> QED
      BY <3>2, <2>1
  <2> QED
    BY <2>1
<1>4. \A i \in S : \A f, g \in [S -> T] :
        (\A y \in S : m[y] < m[i] => f[y] = g[y]) => Body(i, f) = Body(i, g)
  <2> HIDE DEF S, T, m
  <2> QED BY <1>2
<1>5. RecursionOn(S, T, m, G)
  <2>1. m \in [S -> Nat]
    OBVIOUS
  <2> HIDE DEF m, T, Body, S
  <2> QED BY <1>3, <1>4, <2>1 DEF RecursionOn
<1>6. PICK F \in [S -> T] : Solves(F, S, G)
  <2>1. T # {}
    BY EmptySeq
  <2> HIDE DEF m, G, T, S
  <2> QED BY <1>5, <2>1, MeasureRecursion
<1>7. \A i \in S : F[i] = Body(i, F)
  <2> HIDE DEF Body, T, S
  <2> QED BY <1>6 DEF Solves
<1>8. F = [i \in 0 .. n |-> IF i = n THEN <<>> ELSE <<<<i, end[i]>>>> \o F[end[i]]]
  <2> HIDE DEF T
  <2> QED BY <1>7
<1>9. From = [i \in 0 .. n |-> IF i = n THEN <<>> ELSE <<<<i, end[i]>>>> \o From[end[i]]]
  BY <1>8
<1> HIDE DEF From
<1>10. \A i \in 0 .. n : From[i] = IF i = n THEN <<>> ELSE <<<<i, end[i]>>>> \o From[end[i]]
  BY <1>9
<1> QED
  BY <1>1, <1>10

(* They tile what is left of the text.                                     *)
LEMMA WindowsTile ==
    ASSUME NEW n \in Nat, NEW end, Forward(n, end), NEW a \in 0 .. n
    PROVE  Tiles(WindowsUpTo(n, end)[a], a, n)
<1> DEFINE From == WindowsUpTo(n, end)
           S == 0 .. n
           m == [i \in S |-> n - i]
           P == {i \in S : Tiles(From[i], i, n)}
<1>1. \A i \in S : From[i] = IF i = n THEN <<>> ELSE <<<<i, end[i]>>>> \o From[end[i]]
  BY WindowsDefined
<1> HIDE DEF From
<1>2. \A i \in S : m[i] \in Nat
  OBVIOUS
<1>3. ASSUME NEW i \in S, \A y \in S : m[y] < m[i] => y \in P
      PROVE  i \in P
  <2>1. CASE i = n
    <3>1. From[i] = <<>>
      <4> HIDE DEF From
      <4> QED BY <1>1, <2>1, Zenon
    <3>2. Tiles(<<>>, n, n)
      BY DEF Tiles
    <3> QED
      BY <3>1, <3>2, <2>1
  <2>2. CASE i # n
    <3>1. i \in Int /\ end[i] \in Int /\ i < end[i] /\ end[i] \in S /\ m[end[i]] < m[i]
      BY <2>2 DEF Forward
    <3>2. Tiles(From[end[i]], end[i], n)
      <4> HIDE DEF m, S
      <4> QED BY <3>1, <1>3
    <3>3. Tiles(<<<<i, end[i]>>>>, i, end[i])
      BY <3>1, TilesOne
    <3>4. Tiles(<<<<i, end[i]>>>> \o From[end[i]], i, n)
      BY <3>2, <3>3, TilesJoin
    <3> QED
      BY <3>4, <2>2, <1>1
  <2> QED
    BY <2>1, <2>2
<1>4. S \subseteq P
  <2> HIDE DEF S, m, P
  <2> QED BY <1>2, <1>3, MeasureInduction
<1> QED
  BY <1>4 DEF From

(* They fit when each end does.                                            *)
LEMMA WindowsFit ==
    ASSUME NEW text, NEW n \in Nat, NEW end, Forward(n, end), NEW a \in 0 .. n,
           \A i \in 0 .. n - 1 : Fits(text, <<i, end[i]>>)
    PROVE  AllFit(text, WindowsUpTo(n, end)[a])
<1> DEFINE From == WindowsUpTo(n, end)
           S == 0 .. n
           m == [i \in S |-> n - i]
           P == {i \in S : AllFit(text, From[i])}
<1>1. \A i \in S : From[i] = IF i = n THEN <<>> ELSE <<<<i, end[i]>>>> \o From[end[i]]
  BY WindowsDefined
<1>2. \A i \in S : m[i] \in Nat
  OBVIOUS
<1>3. ASSUME NEW i \in S, \A y \in S : m[y] < m[i] => y \in P
      PROVE  i \in P
  <2>1. CASE i = n
    <3> HIDE DEF From
    <3>1. From[i] = <<>>
      BY <1>1, <2>1, Zenon
    <3>2. AllFit(text, <<>>)
      BY DEF AllFit
    <3> QED
      BY <3>1, <3>2
  <2>2. CASE i # n
    <3>1. i \in Int /\ end[i] \in Int /\ end[i] \in S /\ m[end[i]] < m[i] /\ i \in 0 .. n - 1
      BY <2>2 DEF Forward
    <3>2. AllFit(text, From[end[i]])
      <4> HIDE DEF m, S, From
      <4> QED BY <3>1, <1>3
    <3>3. From[end[i]] \in Seq(Int \X Int)
      BY <3>1, WindowsTile DEF Tiles
    <3> HIDE DEF From
    <3>4. AllFit(text, <<<<i, end[i]>>>>) /\ <<<<i, end[i]>>>> \in Seq(Int \X Int)
      BY <3>1 DEF AllFit
    <3>5. AllFit(text, <<<<i, end[i]>>>> \o From[end[i]])
      BY <3>2, <3>3, <3>4, FitJoin
    <3> QED
      BY <3>5, <2>2, <1>1
  <2> QED
    BY <2>1, <2>2
<1>4. S \subseteq P
  <2> HIDE DEF S, m, P
  <2> QED BY <1>2, <1>3, MeasureInduction
<1> QED
  BY <1>4 DEF From

(* A sentence too long is cut into windows that tile it and fit.           *)
LEMMA HardWindowsTile ==
    ASSUME NEW text \in Text, NEW a \in Nat, NEW b \in Nat, a < b, b <= Len(text)
    PROVE  Tiles(HardWindows(text, <<a, b>>), a, b) /\ AllFit(text, HardWindows(text, <<a, b>>))
<1> DEFINE end == [i \in 0 .. b - 1 |-> HardEnd(text, i, b)]
<1>1. ASSUME NEW i \in 0 .. b - 1
      PROVE  end[i] \in i + 1 .. b /\ Fits(text, <<i, end[i]>>)
  <2>1. i \in Nat /\ i \in Int /\ b \in Int /\ i < b /\ end[i] = HardEnd(text, i, b)
    OBVIOUS
  <2> HIDE DEF end
  <2>2. end[i] \in i + 1 .. b /\ (end[i] = i + 1 \/ Fits(text, <<i, end[i]>>))
    BY <2>1, HardEndFits
  <2>3. i < Len(text)
    BY DEF Text
  <2> QED
    BY <2>1, <2>2, <2>3, OneFits
<1>2. HardWindows(text, <<a, b>>) = WindowsUpTo(b, end)[a]
  BY DEF HardWindows
<1> HIDE DEF end
<1>3. Forward(b, end)
  BY <1>1 DEF Forward
<1>4. a \in 0 .. b
  OBVIOUS
<1> QED
  BY <1>1, <1>2, <1>3, <1>4, WindowsTile, WindowsFit

(* The sentences tile the text.                                            *)
LEMMA SpansTile ==
    ASSUME NEW text \in Text, NEW starts \in SUBSET (0 .. Len(text))
    PROVE  Tiles(SentenceSpans(text, starts), 0, Len(text))
<1> DEFINE n == Len(text)
           end == [s \in 0 .. n - 1 |-> SentenceEnd(text, starts, s)]
<1>0. n \in Nat
  BY DEF Text
<1>1. ASSUME NEW s \in 0 .. n - 1
      PROVE  end[s] \in s + 1 .. n
  <2> DEFINE later == {e \in starts \cup {Len(text)} : e > s}
  <2>1. later \subseteq Nat /\ later # {} /\ \A e \in later : e \in s + 1 .. n
    <3>1. n \in later /\ s \in Nat
      BY <1>0
    <3>2. \A e \in later : e \in Nat /\ e > s /\ e <= n
      BY <1>0
    <3> HIDE DEF later, n
    <3> QED BY <1>0, <3>1, <3>2
  <2>2. end[s] = CHOOSE e \in later : \A k \in later : e <= k
    BY DEF SentenceEnd
  <2> HIDE DEF later, end
  <2>3. \E e \in later : \A k \in later : e <= k
    BY <2>1, LeastNumber
  <2> QED
    BY <2>1, <2>2, <2>3
<1>2. SentenceSpans(text, starts) = WindowsUpTo(n, end)[0]
  BY DEF SentenceSpans
<1>3. Forward(n, end) /\ 0 \in 0 .. n
  <2> HIDE DEF end, n
  <2> QED BY <1>0, <1>1 DEF Forward
<1> HIDE DEF n, end
<1>4. Tiles(WindowsUpTo(n, end)[0], 0, n)
  BY <1>0, <1>3, WindowsTile
<1> QED
  BY <1>2, <1>4 DEF n

(* Windows lie within what they tile.                                      *)
LEMMA TilesBound ==
    ASSUME NEW ws, NEW a \in Int, NEW b \in Int, Tiles(ws, a, b)
    PROVE  \A i \in 1 .. Len(ws) : ws[i] \in Int \X Int /\ a <= ws[i][1] /\ ws[i][2] <= b
<1>0. /\ ws \in Seq(Int \X Int) /\ Len(ws) \in Nat
      /\ \A i \in 1 .. Len(ws) : ws[i] \in Int \X Int /\ ws[i][1] \in Int /\ ws[i][2] \in Int
  BY DEF Tiles
<1>1. SUFFICES ASSUME ws # <<>>
               PROVE  \A i \in 1 .. Len(ws) : a <= ws[i][1] /\ ws[i][2] <= b
  BY <1>0
<1>2. Len(ws) \in Nat \ {0} /\ ws[1][1] = a /\ ws[Len(ws)][2] = b
  BY <1>0, <1>1 DEF Tiles
<1> DEFINE n == Len(ws)
           P == {i \in 0 .. n - 1 : a <= ws[i + 1][1]}
           Q == {i \in 0 .. n - 1 : ws[n - i][2] <= b}
<1> HIDE DEF n
<1>3. \A i \in 0 .. n - 1 : i \in P
  <2>1. n - 1 \in Nat /\ 0 \in P
    BY <1>2 DEF n
  <2>2. ASSUME NEW i \in 1 .. n - 1, i - 1 \in P PROVE i \in P
    <3>1. i \in 1 .. Len(ws) - 1 /\ i \in 1 .. Len(ws) /\ i + 1 \in 1 .. Len(ws) /\ (i - 1) + 1 = i
      BY <1>2 DEF n
    <3>2. a <= ws[i][1] /\ ws[i][1] < ws[i][2] /\ ws[i][2] = ws[i + 1][1]
      BY <2>2, <3>1 DEF Tiles
    <3> QED
      BY <3>1, <3>2, <1>0, SMTT(30)
  <2> HIDE DEF P
  <2> QED
    BY <2>1, <2>2, UptoInduction
<1>4. \A i \in 0 .. n - 1 : i \in Q
  <2>1. n - 1 \in Nat /\ 0 \in Q
    BY <1>2, <1>0 DEF n
  <2>2. ASSUME NEW i \in 1 .. n - 1, i - 1 \in Q PROVE i \in Q
    <3> DEFINE k == n - i
    <3>1. /\ k \in 1 .. Len(ws) - 1 /\ k \in 1 .. Len(ws) /\ k + 1 \in 1 .. Len(ws)
          /\ n - (i - 1) = k + 1
      BY <1>2 DEF n
    <3> HIDE DEF k
    <3>2. ws[k + 1][2] <= b /\ ws[k + 1][1] < ws[k + 1][2] /\ ws[k][2] = ws[k + 1][1]
      BY <2>2, <3>1 DEF Tiles
    <3>3. ws[k][2] <= b
      BY <3>1, <3>2, <1>0, SMTT(30)
    <3> QED
      BY <3>3 DEF k
  <2> HIDE DEF Q
  <2> QED
    BY <2>1, <2>2, UptoInduction
<1> QED
  <2> TAKE i \in 1 .. Len(ws)
  <2>1. i - 1 \in 0 .. n - 1 /\ n - i \in 0 .. n - 1 /\ (i - 1) + 1 = i /\ n - (n - i) = i
    BY <1>2 DEF n
  <2>2. i - 1 \in P /\ n - i \in Q
    <3> HIDE DEF P, Q
    <3> QED BY <2>1, <1>3, <1>4
  <2> QED
    BY <2>1, <2>2

(* The last window may end later.                                          *)
LEMMA TilesWiden ==
    ASSUME NEW ws, NEW a \in Int, NEW b \in Int, NEW c \in Int, Tiles(ws, a, b), ws # <<>>, b < c
    PROVE  Tiles([ws EXCEPT ![Len(ws)] = <<ws[Len(ws)][1], c>>], a, c)
<1> DEFINE n == Len(ws)
           new == <<ws[n][1], c>>
           w == [ws EXCEPT ![n] = new]
<1>0. /\ ws \in Seq(Int \X Int) /\ n \in Nat \ {0} /\ n \in 1 .. Len(ws)
      /\ \A i \in 1 .. Len(ws) : ws[i] \in Int \X Int /\ ws[i][1] \in Int /\ ws[i][2] \in Int
  BY DEF Tiles
<1>1. new \in Int \X Int /\ new[1] = ws[n][1] /\ new[2] = c
  <2> HIDE DEF n
  <2> QED BY <1>0
<1>2. ws[n][2] = b /\ ws[n][1] < b
  BY <1>0 DEF Tiles
<1> HIDE DEF new
<1>3. /\ w \in Seq(Int \X Int) /\ Len(w) = n
      /\ w[n] = new /\ \A i \in 1 .. n : i # n => w[i] = ws[i]
  <2>1. w \in Seq(Int \X Int) /\ Len(w) = Len(ws)
        /\ \A i \in 1 .. Len(ws) : w[i] = IF i = n THEN new ELSE ws[i]
    <3> HIDE DEF n
    <3> QED BY <1>0, <1>1, ExceptSeq, SMTT(30)
  <2> HIDE DEF w
  <2> QED BY <2>1, <1>0
<1> HIDE DEF w, n
<1>4. \A i \in 1 .. Len(w) : w[i][1] < w[i][2]
  <2> TAKE i \in 1 .. Len(w)
  <2>1. CASE i = n
    BY <2>1, <1>0, <1>1, <1>2, <1>3
  <2>2. CASE i # n
    BY <2>2, <1>3 DEF Tiles, n
  <2> QED
    BY <2>1, <2>2
<1>5. \A i \in 1 .. Len(w) - 1 : w[i][2] = w[i + 1][1]
  <2> TAKE i \in 1 .. Len(w) - 1
  <2>1. i \in 1 .. n /\ i # n /\ i + 1 \in 1 .. n /\ i \in 1 .. Len(ws) - 1
    <3>1. n = Len(ws)
      BY DEF n
    <3>2. i \in 1 .. n - 1
      BY <1>3
    <3> QED
      BY <1>0, <3>1, <3>2
  <2>2. w[i] = ws[i] /\ ws[i][2] = ws[i + 1][1]
    BY <2>1, <1>3 DEF Tiles
  <2>3. w[i + 1][1] = ws[i + 1][1]
    BY <2>1, <1>1, <1>3
  <2> QED
    BY <2>2, <2>3
<1>6. w # <<>> /\ w[Len(w)][2] = c
  BY <1>0, <1>1, <1>3
<1>7. w[1][1] = a
  <2>1. 1 \in 1 .. n /\ ws[1][1] = a
    BY <1>0 DEF Tiles
  <2> QED
    BY <2>1, <1>1, <1>3
<1> QED
  BY <1>3, <1>4, <1>5, <1>6, <1>7 DEF Tiles, w, n, new

(* The pieces, sentences or windows of one, tile the text and fit.         *)
LEMMA PiecesTile ==
    ASSUME NEW text \in Text, NEW starts \in SUBSET (0 .. Len(text))
    PROVE  Tiles(Pieces(text, starts), 0, Len(text)) /\ AllFit(text, Pieces(text, starts))
<1> DEFINE spans == SentenceSpans(text, starts)
           n == Len(spans)
           T == Seq(Int \X Int)
           Part(i) == IF Fits(text, spans[i]) THEN <<spans[i]>> ELSE HardWindows(text, spans[i])
           P[i \in 0 .. n] == IF i = 0 THEN <<>> ELSE P[i - 1] \o Part(i)
           step == [x \in (1 .. n) \X T |-> x[2] \o Part(x[1])]
           Done(i) == IF i = 0 THEN 0 ELSE spans[i][2]
<1>1. Pieces(text, starts) = P[n]
  BY DEF Pieces
<1>2. Tiles(spans, 0, Len(text)) /\ spans \in T /\ n \in Nat /\ Len(text) \in Nat
  <2>1. Tiles(spans, 0, Len(text))
    BY SpansTile
  <2> HIDE DEF spans
  <2> QED
    BY <2>1 DEF Tiles, Text
<1> HIDE DEF spans
<1>3. ASSUME NEW i \in 1 .. n
      PROVE  Tiles(Part(i), Done(i - 1), Done(i)) /\ AllFit(text, Part(i)) /\ Part(i) \in T
  <2>1. /\ spans[i] \in Int \X Int /\ spans[i][1] < spans[i][2]
        /\ 0 <= spans[i][1] /\ spans[i][2] <= Len(text)
    <3>1. 0 \in Int /\ Len(text) \in Int
      BY <1>2
    <3>2. spans[i] \in Int \X Int /\ 0 <= spans[i][1] /\ spans[i][2] <= Len(text)
      BY <1>2, <3>1, TilesBound
    <3> QED
      BY <1>2, <3>2 DEF Tiles
  <2>2. Done(i - 1) = spans[i][1] /\ Done(i) = spans[i][2]
    <3>1. CASE i = 1
      BY <3>1, <1>2 DEF Tiles
    <3>2. CASE i # 1
      <4>1. i - 1 \in 1 .. n - 1 /\ (i - 1) + 1 = i /\ i # 0 /\ i - 1 # 0
        BY <3>2, <1>2
      <4>2. spans[i - 1][2] = spans[i][1]
        BY <4>1, <1>2 DEF Tiles
      <4> QED
        BY <4>1, <4>2
    <3> QED
      BY <3>1, <3>2
  <2>3. spans[i] = <<spans[i][1], spans[i][2]>>
    BY <2>1
  <2>4. CASE Fits(text, spans[i])
    <3>1. Tiles(<<spans[i]>>, spans[i][1], spans[i][2])
      BY <2>1, <2>3, TilesOne
    <3>2. AllFit(text, <<spans[i]>>)
      BY <2>4 DEF AllFit
    <3>3. Part(i) = <<spans[i]>>
      BY <2>4
    <3> HIDE DEF Part, Done
    <3> QED
      BY <3>1, <3>2, <3>3, <2>2 DEF Tiles
  <2>5. CASE ~Fits(text, spans[i])
    <3> DEFINE a == spans[i][1]
               b == spans[i][2]
    <3>1. a \in Nat /\ b \in Nat /\ a < b /\ b <= Len(text)
      BY <2>1
    <3> HIDE DEF a, b
    <3>2. Tiles(HardWindows(text, <<a, b>>), a, b) /\ AllFit(text, HardWindows(text, <<a, b>>))
      BY <3>1, HardWindowsTile
    <3>3. Part(i) = HardWindows(text, <<a, b>>)
      BY <2>3, <2>5 DEF a, b
    <3> HIDE DEF Part, Done
    <3> QED
      BY <3>2, <3>3, <2>2 DEF Tiles, a, b
  <2> QED
    BY <2>4, <2>5
<1> HIDE DEF Part
<1>4. \A i \in 1 .. n, v \in T : step[<<i, v>>] = v \o Part(i) /\ step[<<i, v>>] \in T
  <2> TAKE i \in 1 .. n, v \in T
  <2>1. v \o Part(i) \in T
    BY <1>3
  <2> HIDE DEF T
  <2> QED
    BY <2>1
<1>5. PICK F : Folds(F, n, T, <<>>, step)
  <2> HIDE DEF T, step, Done
  <2>1. <<>> \in T
    BY DEF T
  <2>2. FoldOn(n, T, <<>>, step)
    BY <1>2, <1>4, <2>1 DEF FoldOn
  <2> QED
    BY <2>2, FoldExists
<1>6. F = [i \in 0 .. n |-> IF i = 0 THEN <<>> ELSE F[i - 1] \o Part(i)]
  <2> HIDE DEF T, step
  <2> QED
    BY <1>4, <1>5 DEF Folds
<1>7. P = [i \in 0 .. n |-> IF i = 0 THEN <<>> ELSE P[i - 1] \o Part(i)]
  <2> HIDE DEF T
  <2> QED BY <1>6
<1> HIDE DEF P
<1> DEFINE Good == {i \in 0 .. n : Tiles(P[i], 0, Done(i)) /\ AllFit(text, P[i])}
<1>8. \A i \in 0 .. n : i \in Good
  <2>1. 0 \in Good
    BY <1>2, <1>7 DEF Tiles, AllFit
  <2>2. ASSUME NEW i \in 1 .. n, i - 1 \in Good PROVE i \in Good
    <3>0. i \in 0 .. n /\ i # 0
      BY <1>2
    <3>1. P[i] = P[i - 1] \o Part(i)
      BY <3>0, <1>7, Zenon
    <3>2. Tiles(P[i - 1], 0, Done(i - 1)) /\ AllFit(text, P[i - 1])
      BY <2>2
    <3> HIDE DEF Done
    <3>3. Tiles(P[i], 0, Done(i))
      BY <1>3, <3>1, <3>2, TilesJoin
    <3>4. AllFit(text, P[i])
      <4>1. P[i - 1] \in T
        BY <3>2 DEF Tiles
      <4> QED
        BY <1>3, <3>1, <3>2, <4>1, FitJoin
    <3> QED
      BY <3>3, <3>4
  <2> HIDE DEF Good
  <2> QED
    BY <1>2, <2>1, <2>2, UptoInduction
<1>9. Tiles(P[n], 0, Done(n)) /\ AllFit(text, P[n])
  BY <1>2, <1>8
<1>10. Done(n) = Len(text)
  BY <1>2 DEF Tiles
<1> QED
  BY <1>1, <1>9, <1>10

(* Adding a piece gives a list of windows.                                 *)
LEMMA AddPieceTyped ==
    ASSUME NEW text, NEW runs \in Seq(Int \X Int), NEW piece \in Int \X Int
    PROVE  AddPiece(text, runs, piece) \in Seq(Int \X Int)
<1> DEFINE k == Len(runs)
           wider == <<runs[k][1], piece[2]>>
<1>1. CASE runs # <<>> /\ Fits(text, wider)
  <2>1. k \in 1 .. Len(runs) /\ wider \in Int \X Int
    BY <1>1
  <2> HIDE DEF wider, k
  <2>2. [runs EXCEPT ![k] = wider] \in Seq(Int \X Int)
    BY <2>1, ExceptSeq
  <2>3. AddPiece(text, runs, piece) = [runs EXCEPT ![k] = wider]
    BY <1>1 DEF AddPiece, k, wider
  <2> QED
    BY <2>2, <2>3
<1>2. CASE ~(runs # <<>> /\ Fits(text, wider))
  BY <1>2 DEF AddPiece
<1> QED
  BY <1>1, <1>2

(* A piece joins the last run, when both fit together, or starts another.  *)
LEMMA AddPieceTiles ==
    ASSUME NEW text, NEW runs, NEW a \in Int, NEW b \in Int, NEW c \in Int, b < c,
           Tiles(runs, a, b), AllFit(text, runs), Fits(text, <<b, c>>)
    PROVE  Tiles(AddPiece(text, runs, <<b, c>>), a, c) /\ AllFit(text, AddPiece(text, runs, <<b, c>>))
<1> DEFINE k == Len(runs)
           wider == <<runs[k][1], c>>
           new == AddPiece(text, runs, <<b, c>>)
<1>0. runs \in Seq(Int \X Int)
  BY DEF Tiles
<1>1. CASE runs # <<>> /\ Fits(text, wider)
  <2> DEFINE w == [runs EXCEPT ![k] = wider]
  <2>1. new = w
    BY <1>1 DEF AddPiece
  <2>2. Tiles(w, a, c)
    BY <1>1, TilesWiden
  <2>3. k \in 1 .. Len(runs) /\ wider \in Int \X Int
    BY <1>0, <1>1
  <2> HIDE DEF wider, k, new
  <2>4. /\ Len(w) = Len(runs)
        /\ \A j \in 1 .. Len(runs) : w[j] = IF j = k THEN wider ELSE runs[j]
    BY <1>0, <2>3, ExceptSeq, SMTT(30)
  <2> HIDE DEF w
  <2>5. AllFit(text, w)
    BY <2>4, <1>1 DEF AllFit
  <2> QED
    BY <2>1, <2>2, <2>5 DEF new
<1>2. CASE ~(runs # <<>> /\ Fits(text, wider))
  <2> DEFINE one == <<<<b, c>>>>
             w == runs \o one
  <2>1. new = Append(runs, <<b, c>>)
    BY <1>2 DEF AddPiece
  <2>2. Append(runs, <<b, c>>) = w
    BY <1>0, AppendIsConcat, SMTT(30)
  <2>3. Tiles(one, b, c)
    BY TilesOne
  <2>4. AllFit(text, one) /\ one \in Seq(Int \X Int)
    BY DEF AllFit
  <2> HIDE DEF one, new
  <2>5. Tiles(w, a, c) /\ AllFit(text, w)
    BY <1>0, <2>3, <2>4, TilesJoin, FitJoin
  <2> QED
    BY <2>1, <2>2, <2>5 DEF new
<1> QED
  BY <1>1, <1>2

(* Packing pieces into runs keeps the tiling, and every run fits.          *)
LEMMA PackTiles ==
    ASSUME NEW text, NEW pieces, NEW b \in Int, Tiles(pieces, 0, b), AllFit(text, pieces)
    PROVE  Tiles(Pack(text, pieces), 0, b) /\ AllFit(text, Pack(text, pieces))
<1> DEFINE n == Len(pieces)
           T == Seq(Int \X Int)
           P[i \in 0 .. n] == IF i = 0 THEN <<>> ELSE AddPiece(text, P[i - 1], pieces[i])
           step == [x \in (1 .. n) \X T |-> AddPiece(text, x[2], pieces[x[1]])]
           Done(i) == IF i = 0 THEN 0 ELSE pieces[i][2]
<1>1. Pack(text, pieces) = P[n]
  BY DEF Pack
<1>2. /\ pieces \in T /\ n \in Nat
      /\ \A i \in 1 .. n : pieces[i] \in Int \X Int /\ pieces[i] = <<pieces[i][1], pieces[i][2]>>
                           /\ pieces[i][1] \in Int /\ pieces[i][2] \in Int
  BY DEF Tiles
<1>4. \A i \in 1 .. n, v \in T :
        step[<<i, v>>] = AddPiece(text, v, pieces[i]) /\ step[<<i, v>>] \in T
  <2> TAKE i \in 1 .. n, v \in T
  <2>1. AddPiece(text, v, pieces[i]) \in T
    BY <1>2, AddPieceTyped
  <2> HIDE DEF T
  <2> QED
    BY <2>1
<1>5. PICK F : Folds(F, n, T, <<>>, step)
  <2> HIDE DEF T, step, Done
  <2>1. <<>> \in T
    BY DEF T
  <2>2. FoldOn(n, T, <<>>, step)
    BY <1>2, <1>4, <2>1 DEF FoldOn
  <2> QED
    BY <2>2, FoldExists
<1>6. F = [i \in 0 .. n |-> IF i = 0 THEN <<>> ELSE AddPiece(text, F[i - 1], pieces[i])]
  <2> HIDE DEF T, step
  <2> QED
    BY <1>4, <1>5 DEF Folds
<1>7. P = [i \in 0 .. n |-> IF i = 0 THEN <<>> ELSE AddPiece(text, P[i - 1], pieces[i])]
  <2> HIDE DEF T
  <2> QED BY <1>6
<1> HIDE DEF P
<1> DEFINE Good == {i \in 0 .. n : Tiles(P[i], 0, Done(i)) /\ AllFit(text, P[i])}
<1>8. \A i \in 0 .. n : i \in Good
  <2>1. 0 \in Good
    <3>1. P[0] = <<>> /\ 0 \in 0 .. n /\ Done(0) = 0
      BY <1>2, <1>7
    <3>2. Tiles(<<>>, 0, 0) /\ AllFit(text, <<>>)
      BY DEF Tiles, AllFit
    <3> QED
      BY <3>1, <3>2
  <2>2. ASSUME NEW i \in 1 .. n, i - 1 \in Good PROVE i \in Good
    <3>0. i \in 0 .. n /\ i # 0
      BY <1>2
    <3>1. P[i] = AddPiece(text, P[i - 1], pieces[i])
      BY <3>0, <1>7, Zenon
    <3>2. Tiles(P[i - 1], 0, Done(i - 1)) /\ AllFit(text, P[i - 1])
      BY <2>2
    <3>3. Done(i - 1) = pieces[i][1] /\ Done(i) = pieces[i][2]
      <4>1. CASE i = 1
        BY <4>1, <1>2 DEF Tiles
      <4>2. CASE i # 1
        <5>1. i - 1 \in 1 .. n - 1 /\ (i - 1) + 1 = i /\ i # 0 /\ i - 1 # 0 /\ i - 1 \in 1 .. n
          BY <4>2, <1>2
        <5>2. pieces[i - 1][2] = pieces[i][1]
          BY <5>1, <1>2 DEF Tiles
        <5> QED
          BY <5>1, <5>2, <1>2
      <4> QED
        BY <4>1, <4>2
    <3>4. pieces[i] = <<Done(i - 1), Done(i)>> /\ Done(i - 1) \in Int /\ Done(i) \in Int
      BY <1>2, <3>3
    <3>5. Done(i - 1) < Done(i) /\ Fits(text, <<Done(i - 1), Done(i)>>)
      BY <3>3, <3>4 DEF Tiles, AllFit
    <3> HIDE DEF Done
    <3>6. Tiles(P[i], 0, Done(i)) /\ AllFit(text, P[i])
      <4>1. 0 \in Int
        OBVIOUS
      <4> QED
        BY <3>1, <3>2, <3>4, <3>5, <4>1, AddPieceTiles
    <3> QED
      BY <3>0, <3>6
  <2> HIDE DEF Good
  <2> QED
    BY <1>2, <2>1, <2>2, UptoInduction
<1>9. Tiles(P[n], 0, Done(n)) /\ AllFit(text, P[n])
  BY <1>2, <1>8
<1>10. Done(n) = b
  BY <1>2 DEF Tiles
<1> QED
  BY <1>1, <1>9, <1>10

(* For every text and every choice of sentence starts: the windows a chunk *)
(* is capped to tile it, none is empty, each is within the bytes of a row, *)
(* and each fits the embedder when the chunk had to be cut.                *)
THEOREM EveryChunkIsTiled ==
    \A text \in Text : \A starts \in SUBSET (0 .. Len(text)) : ChunksTile(text, starts)
<1> SUFFICES ASSUME NEW text \in Text, NEW starts \in SUBSET (0 .. Len(text)), text # <<>>
             PROVE  LET windows == Capped(text, starts)
                    IN /\ windows[1][1] = 0 /\ windows[Len(windows)][2] = Len(text)
                       /\ \A i \in 1 .. Len(windows) - 1 : windows[i][2] = windows[i + 1][1]
                       /\ \A i \in 1 .. Len(windows) :
                            /\ windows[i][1] < windows[i][2]
                            /\ Bytes(Window(text, windows[i])) <= HardBytes
                            /\ Len(windows) > 1 => Fits(text, windows[i])
  BY DEF ChunksTile
<1> DEFINE windows == Capped(text, starts)
<1>1. Len(text) \in Nat \ {0} /\ text \in Seq(Int)
  BY DEF Text
<1>2. CASE Bytes(text) <= MaxBytes
  <2> DEFINE n == Len(text)
             whole == <<<<0, n>>>>
  <2>1. windows = whole
    BY <1>2 DEF Capped
  <2>2. Window(text, <<0, n>>) = text
    BY <1>1, SubSeqFull DEF Window
  <2>3. Bytes(text) \in Int /\ Bytes(text) <= HardBytes
    BY <1>1, <1>2, BytesDef, CapAssumption
  <2> HIDE DEF n, windows
  <2>4. n \in Nat \ {0}
    BY <1>1 DEF n
  <2>5. /\ Len(whole) = 1 /\ whole[1] = <<0, n>>
    OBVIOUS
  <2> HIDE DEF whole
  <2> QED
    BY <2>1, <2>2, <2>3, <2>4, <2>5 DEF n, windows
<1>3. CASE ~(Bytes(text) <= MaxBytes)
  <2>1. Tiles(windows, 0, Len(text)) /\ AllFit(text, windows)
    <3>1. Tiles(Pieces(text, starts), 0, Len(text)) /\ AllFit(text, Pieces(text, starts))
      BY PiecesTile
    <3> QED
      BY <1>1, <1>3, <3>1, PackTiles DEF Capped
  <2> HIDE DEF windows
  <2>2. windows # <<>>
    BY <2>1, <1>1 DEF Tiles
  <2> QED
    BY <2>1, <2>2 DEF Tiles, AllFit, Fits, windows
<1> QED
  BY <1>2, <1>3

-----------------------------------------------------------------------------
(* Vectors.                                                                *)

(* The token limits of a model: none, or rungs of which the last is the    *)
(* lowest.                                                                 *)
IsLadder(limits) ==
    /\ limits \in Seq(Nat) /\ limits # <<>>
    /\ limits = <<0>> \/ \A i \in 1 .. Len(limits) :
                           limits[i] # 0 /\ limits[Len(limits)] <= limits[i]

(* A vector is of the text, or of its beginning at no fewer tokens than    *)
(* the last rung.                                                          *)
VectorOf(text, row, last) ==
    /\ Len(row) <= Len(text) /\ row = SubSeq(text, 1, Len(row))
    /\ Len(row) < Len(text) => last # 0 /\ Len(row) >= last

(* The last rung.                                                          *)
LastOf(limits) == limits[Len(limits)]

(* A truncated text is a beginning of the text.                            *)
LEMMA TruncatedVector ==
    ASSUME NEW Token, NEW text \in Seq(Token), NEW limit \in Nat, NEW last \in Nat,
           last <= limit, limit # 0 => last # 0
    PROVE  /\ Truncated(text, limit) \in Seq(Token)
           /\ limit # 0 => Len(Truncated(text, limit)) <= limit
           /\ VectorOf(text, Truncated(text, limit), last)
<1>0. Len(text) \in Nat
  OBVIOUS
<1>1. CASE limit = 0 \/ Len(text) <= limit
  <2>1. Truncated(text, limit) = text
    BY <1>1 DEF Truncated
  <2>2. text = SubSeq(text, 1, Len(text))
    BY SubSeqFull
  <2> QED
    BY <1>0, <1>1, <2>1, <2>2 DEF VectorOf
<1>2. CASE ~(limit = 0 \/ Len(text) <= limit)
  <2> DEFINE cut == SubSeq(text, 1, limit)
  <2>1. Truncated(text, limit) = cut
    BY <1>2 DEF Truncated
  <2>2. cut \in Seq(Token) /\ Len(cut) = limit
    <3>1. \A i \in 1 .. limit : text[i] \in Token
      BY <1>0, <1>2
    <3>2. 1 \in Int /\ limit \in Int /\ 1 <= limit /\ limit - 1 + 1 = limit
      BY <1>2
    <3> QED
      BY <3>1, <3>2, SubSeqProperties
  <2>3. cut = SubSeq(text, 1, Len(cut))
    BY <2>2
  <2> HIDE DEF cut
  <2> QED
    BY <1>0, <1>2, <2>1, <2>2, <2>3 DEF VectorOf
<1> QED
  BY <1>1, <1>2

(* The rows of an answer in the order of their indices are the inputs,     *)
(* when none is missing.                                                   *)
LEMMA SortedResponse ==
    ASSUME NEW S, NEW inputs \in Seq(S), NEW provider
    PROVE  /\ Len(Response(inputs, provider)) = Len(inputs)
                => SortedRows(Response(inputs, provider)) = inputs
           /\ ~provider.short => Len(Response(inputs, provider)) = Len(inputs)
<1> DEFINE n == Len(inputs)
           row == [i \in 1 .. n |-> [index |-> i, vector |-> inputs[i]]]
           rows == [i \in 1 .. n |-> IF provider.reversed THEN row[n + 1 - i] ELSE row[i]]
           top == IF provider.short THEN n - 1 ELSE n
           data == Response(inputs, provider)
           R == {row[i] : i \in 1 .. n}
<1>0. n \in Nat
  OBVIOUS
<1>1. data = SubSeq(rows, 1, top)
  BY DEF Response
<1>2. rows \in Seq(R)
  <2>1. \A i \in 1 .. n : n + 1 - i \in 1 .. n
    OBVIOUS
  <2>2. \A i \in 1 .. n : rows[i] \in R
    <3> HIDE DEF row, n
    <3> QED BY <2>1
  <2>3. rows = [i \in 1 .. n |-> rows[i]]
    OBVIOUS
  <2> HIDE DEF rows, R, n
  <2> QED BY <1>0, <2>2, <2>3, IsASeq
<1>3. Len(rows) = n
  <2> HIDE DEF row
  <2> QED BY <1>0
<1>4. ~provider.short => Len(data) = n
  <2> HIDE DEF R, rows, n
  <2> QED BY <1>0, <1>1, <1>2, <1>3, SubSeqFull
<1>5. ASSUME Len(data) = n
      PROVE  SortedRows(data) = inputs
  <2>1. CASE n = 0
    <3>1. data \in Seq(R)
      <4>1. \A i \in 1 .. top : rows[i] \in R
        <5> HIDE DEF rows, R
        <5> QED BY <1>0, <2>1
      <4>2. top \in Int
        BY <1>0
      <4> HIDE DEF rows, R, top
      <4> QED BY <1>1, <4>1, <4>2, SubSeqProperties
    <3> HIDE DEF data, R
    <3>2. data = <<>> /\ inputs = <<>>
      BY <3>1, <1>5, <2>1
    <3>3. SortedRows(<<>>) = <<>>
      BY DEF SortedRows
    <3> QED
      BY <3>2, <3>3
  <2>2. CASE n # 0
    <3>1. top = n
      <4>1. CASE provider.short
        <5>1. \A i \in 1 .. top : rows[i] \in R
          <6>1. \A i \in 1 .. top : i \in 1 .. n
            BY <1>0
          <6> HIDE DEF rows, R, top, n
          <6> QED BY <1>2, <1>3, <6>1
        <5>2. top \in Int /\ top - 1 + 1 = n - 1
          BY <1>0, <4>1
        <5> HIDE DEF rows, R, top, n
        <5>3. Len(data) = IF 1 <= top THEN top - 1 + 1 ELSE 0
          BY <1>1, <5>1, <5>2, SubSeqProperties
        <5> QED
          BY <1>0, <1>5, <2>2, <5>2, <5>3
      <4> QED
        BY <4>1
    <3>2. data = rows
      <4> HIDE DEF R, rows, n
      <4> QED BY <1>1, <1>2, <1>3, <3>1, SubSeqFull
    <3>3. DOMAIN data = 1 .. n /\ DOMAIN inputs = 1 .. n
      BY <3>2
    <3>4. {data[j] : j \in DOMAIN data} = R
      <4>1. \A j \in 1 .. n : data[j] \in R
        BY <1>2, <1>3, <3>2
      <4>2. ASSUME NEW i \in 1 .. n PROVE \E j \in 1 .. n : data[j] = row[i]
        <5>1. n + 1 - i \in 1 .. n /\ n + 1 - (n + 1 - i) = i
          BY <1>0
        <5>2. CASE provider.reversed
          <6>1. data[n + 1 - i] = row[n + 1 - (n + 1 - i)]
            <7> HIDE DEF row, n
            <7> QED BY <3>2, <5>1, <5>2
          <6> QED
            BY <5>1, <6>1
        <5>3. CASE ~provider.reversed
          <6>1. data[i] = row[i]
            <7> HIDE DEF row, n
            <7> QED BY <3>2, <5>3
          <6> QED
            BY <6>1
        <5> QED
          BY <5>2, <5>3
      <4> HIDE DEF data, row, n
      <4> QED
        BY <3>3, <4>1, <4>2
    <3>5. \A k \in 1 .. n : (CHOOSE d \in R : d.index = k).vector = inputs[k]
      <4> TAKE k \in 1 .. n
      <4>1. row[k] \in R /\ row[k].index = k /\ row[k].vector = inputs[k]
        OBVIOUS
      <4>2. \A d \in R : d.index = k => d = row[k]
        OBVIOUS
      <4> HIDE DEF row, R, n
      <4> QED
        BY <4>1, <4>2
    <3>6. SortedRows(data) = [k \in 1 .. n |-> inputs[k]]
      <4> HIDE DEF data, row, n, R
      <4> QED BY <3>3, <3>4, <3>5 DEF SortedRows
    <3>7. inputs = [k \in 1 .. n |-> inputs[k]]
      OBVIOUS
    <3> HIDE DEF n, data
    <3> QED
      BY <3>6, <3>7
  <2> QED
    BY <2>1, <2>2
<1> QED
  BY <1>4, <1>5

(* A batch is answered with the rows of one rung, or it fails; it does not *)
(* fail when the provider answers and the last rung fits.                  *)
LEMMA OneBatch ==
    ASSUME NEW Token, NEW batch \in Seq(Seq(Token)), NEW limits, IsLadder(limits),
           NEW provider, NEW down, provider.extra \in Nat
    PROVE  LET result == EmbedOneBatch(batch, limits, provider, down)
           IN /\ result = Failed \/ \E i \in 1 .. Len(limits) :
                                      result = Given(Prepared(batch, limits[i]))
              /\ (/\ ~down /\ ~provider.short
                  /\ LastOf(limits) = 0 \/ LastOf(limits) + provider.extra <= TokenWindow)
                   => result.ok
<1> DEFINE taken == {i \in 1 .. Len(limits) :
                       limits[i] = 0 \/ ~TooLong(Prepared(batch, limits[i]), provider)}
           rung == CHOOSE i \in taken : \A k \in taken : i <= k
           inputs == Prepared(batch, limits[rung])
           data == Response(inputs, provider)
           result == EmbedOneBatch(batch, limits, provider, down)
<1>0. /\ limits \in Seq(Nat) /\ Len(limits) \in Nat \ {0}
      /\ \A i \in 1 .. Len(limits) : limits[i] \in Nat /\ LastOf(limits) <= limits[i]
      /\ LastOf(limits) \in Nat
  BY DEF IsLadder, LastOf
<1>1. result = IF down \/ taken = {} THEN Failed
               ELSE IF Len(data) # Len(batch) THEN Failed ELSE Given(SortedRows(data))
  BY DEF EmbedOneBatch
<1>2. taken # {} => rung \in 1 .. Len(limits)
  <2> SUFFICES ASSUME taken # {} PROVE rung \in 1 .. Len(limits)
    OBVIOUS
  <2>1. taken \subseteq Nat /\ taken \subseteq 1 .. Len(limits)
    BY <1>0
  <2> HIDE DEF taken
  <2>2. \E i \in taken : \A k \in taken : i <= k
    BY <2>1, LeastNumber
  <2>3. rung \in taken
    BY <2>2
  <2> QED
    BY <2>1, <2>3
<1>3. taken # {} => inputs \in Seq(Seq(Token)) /\ Len(inputs) = Len(batch)
  <2> HIDE DEF rung, taken
  <2> SUFFICES ASSUME taken # {} PROVE inputs \in Seq(Seq(Token)) /\ Len(inputs) = Len(batch)
    OBVIOUS
  <2>1. limits[rung] \in Nat
    BY <1>0, <1>2
  <2>2. \A k \in 1 .. Len(batch) : Truncated(batch[k], limits[rung]) \in Seq(Token)
    BY <2>1, TruncatedVector
  <2>3. inputs = [k \in 1 .. Len(batch) |-> Truncated(batch[k], limits[rung])]
    BY DEF Prepared
  <2> QED
    BY <2>2, <2>3, IsASeq
<1>4. taken # {} => /\ Len(data) = Len(batch) => SortedRows(data) = inputs
                    /\ ~provider.short => Len(data) = Len(batch)
  <2> HIDE DEF inputs, taken, rung
  <2> QED BY <1>3, SortedResponse
<1>5. result = Failed \/ \E i \in 1 .. Len(limits) : result = Given(Prepared(batch, limits[i]))
  <2> HIDE DEF data, taken, rung, result
  <2> QED BY <1>1, <1>2, <1>4
<1>6. ASSUME ~down, ~provider.short,
             LastOf(limits) = 0 \/ LastOf(limits) + provider.extra <= TokenWindow
      PROVE  result.ok
  <2>1. Len(limits) \in taken
    <3>1. CASE LastOf(limits) = 0
      BY <1>0, <3>1 DEF LastOf
    <3>2. CASE LastOf(limits) # 0
      <4> DEFINE last == LastOf(limits)
                 prepared == Prepared(batch, last)
      <4>1. \A k \in 1 .. Len(batch) : /\ Len(Truncated(batch[k], last)) <= last
                                       /\ Truncated(batch[k], last) \in Seq(Token)
        <5> HIDE DEF last
        <5>1. last \in Nat /\ last # 0 /\ last <= last
          BY <1>0, <3>2 DEF last
        <5> QED
          BY <5>1, TruncatedVector
      <4>2. prepared = [k \in 1 .. Len(batch) |-> Truncated(batch[k], last)]
        BY DEF Prepared
      <4>3. Len(prepared) = Len(batch)
        BY <4>2
      <4>4. last \in Nat /\ last + provider.extra <= TokenWindow /\ TokenWindow \in Nat
        BY <1>0, <1>6, <3>2, BatchAssumption
      <4> HIDE DEF last, prepared
      <4>5. \A k \in 1 .. Len(prepared) : Len(prepared[k]) + provider.extra <= TokenWindow
        <5> TAKE k \in 1 .. Len(prepared)
        <5>1. k \in 1 .. Len(batch) /\ prepared[k] = Truncated(batch[k], last)
          BY <4>2, <4>3
        <5>2. Len(prepared[k]) <= last /\ Len(prepared[k]) \in Nat
          BY <4>1, <5>1
        <5> QED
          BY <4>4, <5>2
      <4>6. ~TooLong(prepared, provider)
        <5>1. \A k \in 1 .. Len(prepared) : Len(prepared[k]) \in Nat
          BY <4>1, <4>2, <4>3
        <5> QED
          BY <4>4, <4>5, <5>1 DEF TooLong
      <4> QED
        BY <1>0, <4>6 DEF prepared, last, LastOf
    <3> QED
      BY <3>1, <3>2
  <2>2. taken # {}
    <3> HIDE DEF taken
    <3> QED BY <2>1
  <2> HIDE DEF taken, data, result
  <2>3. result = Given(SortedRows(data))
    BY <1>1, <1>4, <1>6, <2>2
  <2> QED
    BY <2>3 DEF Given
<1> QED
  BY <1>5, <1>6

(* The batches cover the texts.                                            *)
LEMMA Blocks ==
    ASSUME NEW n \in Nat
    PROVE  LET c == (n + BatchItems - 1) \div BatchItems
           IN /\ c \in Nat /\ n <= c * BatchItems /\ c * BatchItems \in Nat
              /\ \A b \in 1 .. c : /\ b * BatchItems \in Nat /\ (b - 1) * BatchItems \in Nat
                                  /\ b * BatchItems = (b - 1) * BatchItems + BatchItems
                                  /\ (b - 1) * BatchItems < n
<1> DEFINE c == (n + BatchItems - 1) \div BatchItems
<1>0. BatchItems \in Nat \ {0} /\ n + BatchItems - 1 \in Nat
  BY BatchAssumption
<1>1. /\ c \in Nat /\ c * BatchItems <= n + BatchItems - 1
      /\ n + BatchItems - 1 < c * BatchItems + BatchItems /\ c * BatchItems \in Nat
  BY <1>0, DivBounds
<1> HIDE DEF c
<1>2. n <= c * BatchItems
  <2>1. c * BatchItems \in Int
    BY <1>0, <1>1
  <2> QED
    BY <1>0, <1>1, <2>1
<1>3. ASSUME NEW b \in 1 .. c
      PROVE  /\ b * BatchItems \in Nat /\ (b - 1) * BatchItems \in Nat
             /\ b * BatchItems = (b - 1) * BatchItems + BatchItems
             /\ (b - 1) * BatchItems < n
  <2>1. b \in Nat /\ b - 1 \in Nat /\ b <= c /\ b \in Int
    BY <1>1
  <2>2. b * BatchItems <= c * BatchItems /\ b * BatchItems \in Nat
    BY <1>0, <1>1, <2>1, TimesMono
  <2>3. (b - 1) * BatchItems = b * BatchItems - BatchItems /\ (b - 1) * BatchItems \in Nat
    BY <1>0, <2>1, <2>2, TimesNext, TimesMono
  <2> QED
    BY <1>0, <1>1, <2>2, <2>3
<1> QED
  BY <1>1, <1>2, <1>3 DEF c

(* The texts of a batch.                                                   *)
LEMMA BatchOf ==
    ASSUME NEW S, NEW texts \in Seq(S), NEW b \in Nat,
           b * BatchItems \in Nat, (b - 1) * BatchItems \in Nat,
           b * BatchItems = (b - 1) * BatchItems + BatchItems, (b - 1) * BatchItems < Len(texts)
    PROVE  /\ Batch(texts, b) \in Seq(S)
           /\ Len(Batch(texts, b)) = Least(b * BatchItems, Len(texts)) - (b - 1) * BatchItems
           /\ \A i \in 1 .. Len(Batch(texts, b)) : Batch(texts, b)[i] = texts[(b - 1) * BatchItems + i]
<1> DEFINE lo == (b - 1) * BatchItems
           hi == Least(b * BatchItems, Len(texts))
           q == Batch(texts, b)
<1>1. lo \in Nat /\ hi \in Nat /\ lo < hi /\ hi <= Len(texts) /\ Len(texts) \in Nat
  BY BatchAssumption DEF Least
<1>2. q = SubSeq(texts, lo + 1, hi)
  BY DEF Batch
<1> HIDE DEF lo, hi, q
<1>3. lo + 1 \in Int /\ hi \in Int /\ \A i \in lo + 1 .. hi : texts[i] \in S
  BY <1>1
<1>4. /\ q \in Seq(S)
      /\ Len(q) = IF lo + 1 <= hi THEN hi - (lo + 1) + 1 ELSE 0
      /\ \A i \in 1 .. hi - (lo + 1) + 1 : q[i] = texts[(lo + 1) + i - 1]
  BY <1>2, <1>3, SubSeqProperties
<1>5. Len(q) = hi - lo /\ hi - (lo + 1) + 1 = Len(q)
  BY <1>1, <1>4
<1>6. \A i \in 1 .. Len(q) : (lo + 1) + i - 1 = lo + i
  BY <1>1, <1>5
<1>7. \A i \in 1 .. Len(q) : q[i] = texts[lo + i]
  BY <1>4, <1>5, <1>6
<1> QED
  BY <1>4, <1>5, <1>7 DEF lo, hi, q

(* The answers of a run of batches.                                        *)
RowAnswers(Token) == [ok : BOOLEAN, rows : Seq(Seq(Token))]

(* The rows of a rung are of their texts.                                  *)
LEMMA PreparedVectors ==
    ASSUME NEW Token, NEW batch \in Seq(Seq(Token)), NEW limits, IsLadder(limits),
           NEW i \in 1 .. Len(limits)
    PROVE  /\ Prepared(batch, limits[i]) \in Seq(Seq(Token))
           /\ Len(Prepared(batch, limits[i])) = Len(batch)
           /\ \A k \in 1 .. Len(batch) :
                VectorOf(batch[k], Prepared(batch, limits[i])[k], LastOf(limits))
<1> DEFINE limit == limits[i]
           last == LastOf(limits)
           prepared == Prepared(batch, limit)
<1>1. limit \in Nat /\ last \in Nat /\ last <= limit /\ (limit # 0 => last # 0)
  <2>1. limits \in Seq(Nat) /\ Len(limits) \in Nat \ {0} /\ Len(limits) \in 1 .. Len(limits)
    BY DEF IsLadder
  <2>2. CASE limits = <<0>>
    BY <2>2 DEF LastOf
  <2>3. CASE \A j \in 1 .. Len(limits) : limits[j] # 0 /\ limits[Len(limits)] <= limits[j]
    BY <2>1, <2>3 DEF LastOf
  <2> QED
    BY <2>2, <2>3 DEF IsLadder
<1>2. prepared = [k \in 1 .. Len(batch) |-> Truncated(batch[k], limit)]
  BY DEF Prepared
<1> HIDE DEF prepared, limit, last
<1>3. \A k \in 1 .. Len(batch) : /\ Truncated(batch[k], limit) \in Seq(Token)
                                 /\ VectorOf(batch[k], Truncated(batch[k], limit), last)
  BY <1>1, TruncatedVector
<1>4. prepared \in Seq(Seq(Token)) /\ Len(prepared) = Len(batch)
  BY <1>2, <1>3, IsASeq
<1> QED
  BY <1>2, <1>3, <1>4 DEF prepared, limit, last

(* An answer, and what is joined to it.                                    *)
LEMMA EmbedStepTyped ==
    ASSUME NEW Token, NEW batch \in Seq(Seq(Token)), NEW limits, IsLadder(limits),
           NEW provider, NEW down, provider.extra \in Nat, NEW done \in RowAnswers(Token)
    PROVE  LET next == EmbedOneBatch(batch, limits, provider, down)
           IN /\ next \in RowAnswers(Token)
              /\ (IF done.ok /\ next.ok THEN Given(done.rows \o next.rows) ELSE Failed)
                    \in RowAnswers(Token)
<1> DEFINE next == EmbedOneBatch(batch, limits, provider, down)
<1>1. next = Failed \/ \E i \in 1 .. Len(limits) : next = Given(Prepared(batch, limits[i]))
  BY OneBatch
<1> HIDE DEF next
<1>2. Failed \in RowAnswers(Token)
  BY EmptySeq DEF Failed, RowAnswers
<1>3. \A rows \in Seq(Seq(Token)) : Given(rows) \in RowAnswers(Token)
  BY DEF Given, RowAnswers
<1>4. next \in RowAnswers(Token)
  BY <1>1, <1>2, <1>3, PreparedVectors
<1>5. done.rows \in Seq(Seq(Token)) /\ next.rows \in Seq(Seq(Token))
  BY <1>4 DEF RowAnswers
<1>6. done.rows \o next.rows \in Seq(Seq(Token))
  BY <1>5
<1> QED
  BY <1>2, <1>3, <1>4, <1>6 DEF next

(* The rows of two answers, joined.                                        *)
LEMMA JoinRows ==
    ASSUME NEW S, NEW u \in Seq(S), NEW v \in Seq(S), NEW lo \in Nat, NEW hi \in Nat,
           Len(u) = lo, Len(v) = hi - lo
    PROVE  /\ Len(u \o v) = hi
           /\ \A i \in 1 .. lo : (u \o v)[i] = u[i]
           /\ \A k \in 1 .. hi - lo : (u \o v)[lo + k] = v[k]
OBVIOUS

(* For every list of texts, every ladder of limits and every provider: the *)
(* vectors that come back are as many as the texts, each of the text at    *)
(* its place or of a beginning no shorter than the last rung; and the call *)
(* succeeds when the provider answers and the last rung fits.              *)
THEOREM EveryVectorIsItsTexts ==
    ASSUME NEW Token, NEW texts \in Seq(Seq(Token)), NEW limits, IsLadder(limits),
           NEW provider, provider.extra \in Nat
    PROVE  VectorsAreTheTexts(texts, limits, provider)
<1> DEFINE n == Len(texts)
           c == (n + BatchItems - 1) \div BatchItems
           T == RowAnswers(Token)
           Next(b) == EmbedOneBatch(Batch(texts, b), limits, provider, b \in provider.down)
           Upto[b \in 0 .. c] ==
             IF b = 0 THEN Given(<<>>)
             ELSE LET next == EmbedOneBatch(Batch(texts, b), limits, provider, b \in provider.down)
                  IN IF Upto[b - 1].ok /\ next.ok THEN Given(Upto[b - 1].rows \o next.rows)
                     ELSE Failed
           Body(b, v) == IF v.ok /\ Next(b).ok THEN Given(v.rows \o Next(b).rows) ELSE Failed
           step == [x \in (1 .. c) \X T |-> Body(x[1], x[2])]
           Fine == /\ provider.down = {} /\ ~provider.short
                   /\ LastOf(limits) = 0 \/ LastOf(limits) + provider.extra <= TokenWindow
           Upper(b) == Least(b * BatchItems, n)
<1>1. EmbedTexts(texts, limits, provider) = Upto[c]
  BY DEF EmbedTexts
<1>2. /\ n \in Nat /\ c \in Nat /\ n <= c * BatchItems /\ c * BatchItems \in Nat
      /\ \A b \in 1 .. c : /\ b * BatchItems \in Nat /\ (b - 1) * BatchItems \in Nat
                          /\ b * BatchItems = (b - 1) * BatchItems + BatchItems
                          /\ (b - 1) * BatchItems < n
  <2>1. n \in Nat
    OBVIOUS
  <2> HIDE DEF n
  <2> QED BY <2>1, Blocks
<1> HIDE DEF c
<1>3. ASSUME NEW b \in 1 .. c
      PROVE  /\ Batch(texts, b) \in Seq(Seq(Token))
             /\ Len(Batch(texts, b)) = Upper(b) - (b - 1) * BatchItems
             /\ \A i \in 1 .. Len(Batch(texts, b)) :
                  Batch(texts, b)[i] = texts[(b - 1) * BatchItems + i]
  <2>1. b \in Nat
    BY <1>2
  <2> QED
    BY <1>2, <2>1, BatchOf
<1>4. ASSUME NEW b \in 1 .. c, NEW v \in T
      PROVE  Next(b) \in T /\ Body(b, v) \in T
  BY <1>3, EmbedStepTyped
<1> HIDE DEF Next
<1>5. \A b \in 1 .. c, v \in T : step[<<b, v>>] = Body(b, v) /\ step[<<b, v>>] \in T
  <2> HIDE DEF Body, T
  <2> QED BY <1>4
<1>6. Given(<<>>) \in T
  BY EmptySeq DEF Given, RowAnswers
<1>7. PICK F : Folds(F, c, T, Given(<<>>), step)
  <2> HIDE DEF T, step
  <2>1. FoldOn(c, T, Given(<<>>), step)
    BY <1>2, <1>5, <1>6 DEF FoldOn
  <2> QED
    BY <2>1, FoldExists
<1>8. F = [b \in 0 .. c |-> IF b = 0 THEN Given(<<>>) ELSE Body(b, F[b - 1])]
  <2> HIDE DEF T, step, Body
  <2> QED
    BY <1>5, <1>7 DEF Folds
<1>9. Upto = [b \in 0 .. c |-> IF b = 0 THEN Given(<<>>) ELSE Body(b, Upto[b - 1])]
  BY <1>8 DEF Next
<1> HIDE DEF Upto
<1> DEFINE Good == {b \in 0 .. c :
               /\ Upto[b] \in T
               /\ Upto[b].ok => /\ Len(Upto[b].rows) = Upper(b)
                               /\ \A i \in 1 .. Upper(b) :
                                     VectorOf(texts[i], Upto[b].rows[i], LastOf(limits))
               /\ Fine => Upto[b].ok}
<1>10. \A b \in 0 .. c : b \in Good
  <2>1. 0 \in Good
    <3>1. Upto[0] = Given(<<>>) /\ 0 \in 0 .. c
      BY <1>2, <1>9
    <3>2. Upper(0) = 0
      BY <1>2, BatchAssumption DEF Least
    <3> HIDE DEF Fine, Upper, T
    <3>3. Given(<<>>).ok /\ Given(<<>>).rows = <<>>
      BY DEF Given
    <3> QED
      BY <3>1, <3>2, <3>3, <1>6
  <2>2. ASSUME NEW b \in 1 .. c, b - 1 \in Good PROVE b \in Good
    <3> DEFINE done == Upto[b - 1]
               next == Next(b)
               batch == Batch(texts, b)
               lo == (b - 1) * BatchItems
               hi == Upper(b)
    <3>0. b \in 0 .. c /\ b # 0
      BY <1>2
    <3>1. Upto[b] = Body(b, done)
      <4> HIDE DEF Body
      <4> QED BY <3>0, <1>9, Zenon
    <3>2. done \in T /\ next \in T /\ Upto[b] \in T
      <4> HIDE DEF T, Body, next
      <4>1. done \in T
        BY <2>2
      <4> QED
        BY <1>4, <3>1, <4>1 DEF next
    <3>3. next = Failed \/ \E i \in 1 .. Len(limits) : next = Given(Prepared(batch, limits[i]))
      BY <1>3, OneBatch DEF Next
    <3>4. Fine => next.ok
      <4>1. Fine => ~(b \in provider.down)
        OBVIOUS
      <4> QED
        BY <1>3, <4>1, OneBatch DEF Next
    <3>5. next.ok => /\ next.rows \in Seq(Seq(Token)) /\ Len(next.rows) = Len(batch)
                     /\ \A k \in 1 .. Len(batch) : VectorOf(batch[k], next.rows[k], LastOf(limits))
      <4> SUFFICES ASSUME next.ok
                   PROVE  /\ next.rows \in Seq(Seq(Token)) /\ Len(next.rows) = Len(batch)
                          /\ \A k \in 1 .. Len(batch) :
                               VectorOf(batch[k], next.rows[k], LastOf(limits))
        OBVIOUS
      <4> HIDE DEF next, batch
      <4>1. next # Failed
        BY DEF Failed
      <4>2. PICK i \in 1 .. Len(limits) : next = Given(Prepared(batch, limits[i]))
        BY <3>3, <4>1
      <4>3. next.rows = Prepared(batch, limits[i])
        BY <4>2 DEF Given
      <4>4. batch \in Seq(Seq(Token))
        BY <1>3 DEF batch
      <4> QED
        BY <4>3, <4>4, PreparedVectors, SMTT(30)
    <3>6. CASE done.ok /\ next.ok
      <4> DEFINE rows == done.rows \o next.rows
      <4>1. Upto[b] = Given(rows)
        BY <3>1, <3>6
      <4>2. Upto[b].ok /\ Upto[b].rows = rows
        <5> HIDE DEF rows
        <5> QED BY <4>1 DEF Given
      <4>3. /\ Len(done.rows) = Upper(b - 1)
            /\ \A i \in 1 .. Upper(b - 1) : VectorOf(texts[i], done.rows[i], LastOf(limits))
        <5> HIDE DEF Fine, Upper, T
        <5> QED BY <2>2, <3>6
      <4>4. /\ Upper(b - 1) = lo /\ lo \in Nat /\ hi \in Nat /\ lo < hi
            /\ Len(batch) = hi - lo
        BY <1>2, <1>3, BatchAssumption DEF Least
      <4>5. done.rows \in Seq(Seq(Token)) /\ next.rows \in Seq(Seq(Token))
        BY <3>2 DEF RowAnswers
      <4> HIDE DEF done, next, batch, lo, hi, Upper, T, Fine, Body
      <4>6. /\ Len(rows) = hi
            /\ \A i \in 1 .. lo : rows[i] = done.rows[i]
            /\ \A k \in 1 .. hi - lo : rows[lo + k] = next.rows[k]
        <5> DEFINE u == done.rows
                   v == next.rows
        <5>1. u \in Seq(Seq(Token)) /\ v \in Seq(Seq(Token)) /\ Len(u) = lo /\ Len(v) = hi - lo
          BY <4>3, <4>4, <4>5, <3>5, <3>6
        <5> HIDE DEF u, v
        <5>2. /\ Len(u \o v) = hi
              /\ \A i \in 1 .. lo : (u \o v)[i] = u[i]
              /\ \A k \in 1 .. hi - lo : (u \o v)[lo + k] = v[k]
          BY <4>4, <5>1, JoinRows, SMTT(30)
        <5> QED
          BY <5>2 DEF u, v
      <4> HIDE DEF rows
      <4>7. \A i \in 1 .. hi : VectorOf(texts[i], rows[i], LastOf(limits))
        <5> TAKE i \in 1 .. hi
        <5>1. CASE i \in 1 .. lo
          BY <5>1, <4>3, <4>4, <4>6
        <5>2. CASE i \notin 1 .. lo
          <6> DEFINE k == i - lo
          <6>1. k \in 1 .. hi - lo /\ i = lo + k
            BY <5>2, <4>4
          <6> HIDE DEF k
          <6>2. batch[k] = texts[lo + k]
            BY <1>3, <4>4, <6>1 DEF batch, lo
          <6>3. VectorOf(batch[k], next.rows[k], LastOf(limits))
            BY <3>5, <3>6, <4>4, <6>1
          <6> QED
            BY <4>6, <6>1, <6>2, <6>3
        <5> QED
          BY <5>1, <5>2
      <4> QED
        BY <3>0, <3>2, <4>2, <4>6, <4>7 DEF hi
    <3>7. CASE ~(done.ok /\ next.ok)
      <4>1. Upto[b] = Failed /\ ~Failed.ok
        BY <3>1, <3>7 DEF Failed
      <4>2. ~Fine
        <5> HIDE DEF Fine, next, Upper, T
        <5> QED BY <2>2, <3>4, <3>7
      <4> HIDE DEF Fine, next, Upper, T
      <4> QED
        BY <3>0, <3>2, <4>1, <4>2
    <3> QED
      BY <3>6, <3>7
  <2> HIDE DEF Good
  <2> QED
    BY <1>2, <2>1, <2>2, UptoInduction
<1>11. Upper(c) = n
  BY <1>2 DEF Least
<1>12. /\ Upto[c].ok => /\ Len(Upto[c].rows) = n
                        /\ \A i \in 1 .. n : VectorOf(texts[i], Upto[c].rows[i], LastOf(limits))
       /\ Fine => Upto[c].ok
  <2>1. c \in Good
    <3> HIDE DEF Good
    <3> QED BY <1>2, <1>10
  <2> HIDE DEF Upper, Fine, T
  <2> QED BY <2>1, <1>11
<1>13. DOMAIN texts = 1 .. n
  OBVIOUS
<1> HIDE DEF n
<1> QED
  BY <1>1, <1>12, <1>13 DEF VectorsAreTheTexts, VectorOf, LastOf, n

(* The texts, ladders and providers the run tries are within the           *)
(* theorem's.                                                              *)
LEMMA EveryTriedVectorIsItsTexts ==
    ASSUME TryVectors
    PROVE  VectorsAreTheTexts(input'.texts, input'.limits, input'.provider)
<1> PICK n \in 0 .. 3 : \E length \in [1 .. n -> {0, 2, 4, 6}], limits \in {TokenLimits, <<0>>},
      extra \in 0 .. 4, reversed, short \in BOOLEAN, down \in SUBSET {2} :
        input' = [of |-> "vectors", texts |-> [i \in 1 .. n |-> [k \in 1 .. length[i] |-> i]],
                  limits |-> limits,
                  provider |-> [extra |-> IF limits = <<0>> THEN 0 ELSE extra, down |-> down,
                                reversed |-> reversed, short |-> short]]
  BY DEF TryVectors
<1> PICK length \in [1 .. n -> {0, 2, 4, 6}], limits \in {TokenLimits, <<0>>},
         extra \in 0 .. 4, reversed \in BOOLEAN, short \in BOOLEAN, down \in SUBSET {2} :
      input' = [of |-> "vectors", texts |-> [i \in 1 .. n |-> [k \in 1 .. length[i] |-> i]],
                limits |-> limits,
                provider |-> [extra |-> IF limits = <<0>> THEN 0 ELSE extra, down |-> down,
                              reversed |-> reversed, short |-> short]]
  OBVIOUS
<1> DEFINE texts == [i \in 1 .. n |-> [k \in 1 .. length[i] |-> i]]
           provider == [extra |-> IF limits = <<0>> THEN 0 ELSE extra, down |-> down,
                        reversed |-> reversed, short |-> short]
<1>1. input'.texts = texts /\ input'.limits = limits /\ input'.provider = provider
  OBVIOUS
<1>2. texts \in Seq(Seq(Nat))
  <2>1. \A i \in 1 .. n : i \in Nat /\ length[i] \in Nat
    OBVIOUS
  <2>2. \A i \in 1 .. n : [k \in 1 .. length[i] |-> i] \in Seq(Nat)
    BY <2>1
  <2> QED
    BY <2>2
<1>3. provider.extra \in Nat
  OBVIOUS
<1>4. IsLadder(limits)
  <2>1. CASE limits = <<0>>
    <3>1. <<0>> \in Seq(Nat) /\ <<0>> # <<>>
      OBVIOUS
    <3> QED
      BY <2>1, <3>1 DEF IsLadder
  <2>2. CASE limits = TokenLimits
    <3>1. /\ limits \in Seq(Nat) /\ limits # <<>> /\ Len(limits) \in 1 .. Len(limits)
          /\ \A i \in 1 .. Len(limits) : limits[i] # 0
      BY <2>2, LadderAssumption
    <3>2. \A i \in 1 .. Len(limits) : i <= Len(limits) => limits[Len(limits)] <= limits[i]
      BY <2>2, <3>1, LadderAssumption
    <3> QED
      BY <3>1, <3>2 DEF IsLadder
  <2> QED
    BY <2>1, <2>2
<1> HIDE DEF texts, provider
<1> QED
  BY <1>1, <1>2, <1>3, <1>4, EveryVectorIsItsTexts

(* The texts the run tries are within the theorem's.                       *)
LEMMA EveryTriedChunkIsTiled ==
    ASSUME TryChunk
    PROVE  ChunksTile(input'.text, input'.starts)
<1> PICK n \in 0 .. 6 : \E text \in [1 .. n -> {1, 3}], starts \in SUBSET (1 .. n - 1) :
      input' = [of |-> "chunk", text |-> text, starts |-> starts]
  BY DEF TryChunk
<1> PICK text \in [1 .. n -> {1, 3}], starts \in SUBSET (1 .. n - 1) :
      input' = [of |-> "chunk", text |-> text, starts |-> starts]
  OBVIOUS
<1>1. input'.text = text /\ input'.starts = starts
  OBVIOUS
<1>2. text \in Text /\ Len(text) = n
  BY DEF Text
<1>3. starts \in SUBSET (0 .. Len(text))
  BY <1>2
<1> QED
  BY <1>1, <1>2, <1>3, EveryChunkIsTiled

(* What the run shows of the chunks and the vectors it tries follows from  *)
(* the two theorems on all of them.                                        *)
THEOREM InputsChunksAreWhole == Spec => []ChunksAreWhole
<1>1. Init => ChunksAreWhole
  BY DEF Init, ChunksAreWhole
<1>2. ChunksAreWhole /\ [input.of = "nothing" /\ Try]_input => ChunksAreWhole'
  <2> SUFFICES ASSUME ChunksAreWhole, [input.of = "nothing" /\ Try]_input PROVE ChunksAreWhole'
    OBVIOUS
  <2>1. CASE TryChunk
    <3>1. input'.of = "chunk"
      BY <2>1 DEF TryChunk
    <3> QED
      BY <2>1, <3>1, EveryTriedChunkIsTiled DEF ChunksAreWhole
  <2>2. CASE TryVectors
    <3>1. input'.of = "vectors"
      BY <2>2 DEF TryVectors
    <3> QED
      BY <2>2, <3>1, EveryTriedVectorIsItsTexts DEF ChunksAreWhole
  <2>3. CASE TryDate \/ TryCitations \/ TryFusion \/ TrySlices \/ TryScores
    <3>1. input'.of # "chunk" /\ input'.of # "vectors"
      <4>1. CASE TryDate
        BY <4>1 DEF TryDate
      <4>2. CASE TryCitations
        BY <4>2 DEF TryCitations
      <4>3. CASE TryFusion
        BY <4>3 DEF TryFusion
      <4>4. CASE TrySlices
        BY <4>4 DEF TrySlices
      <4>5. CASE TryScores
        BY <4>5 DEF TryScores
      <4> QED
        BY <2>3, <4>1, <4>2, <4>3, <4>4, <4>5
    <3> QED
      BY <3>1 DEF ChunksAreWhole
  <2>4. CASE UNCHANGED input
    BY <2>4 DEF ChunksAreWhole
  <2> QED
    BY <2>1, <2>2, <2>3, <2>4 DEF Try
<1> QED
  BY <1>1, <1>2, PTL DEF Spec
===============================================================================
