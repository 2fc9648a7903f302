------------------------------ MODULE SumProofs ------------------------------
(***************************************************************************)
(* What the sums of module Sums are.  The provers cannot instantiate the   *)
(* induction theorems of the library, which take an operator; a set has a  *)
(* least element that is a natural number, and that gives induction for a  *)
(* set, which is all the equations of a recursive function need.           *)
(***************************************************************************)
EXTENDS Sums, SequenceTheorems, WellFoundedInduction, TLAPS

\* A set of numbers that is not empty has a least element.
LEMMA LeastExists ==
    ASSUME NEW T \in SUBSET Nat, T # {}
    PROVE  \E x \in T : \A y \in T : x <= y
<1> DEFINE less == {ss \in Nat \X Nat : ss[1] < ss[2]}
<1>1. IsWellFoundedOn(less, Nat)
  BY NatLessThanWellFounded DEF OpToRel
<1> HIDE DEF less
<1>2. PICK x \in T : \A y \in T : <<y, x>> \notin less
  BY <1>1, WFMin
<1>3. \A y \in T : ~(y < x)
  BY <1>2 DEF less
<1> QED BY <1>3

\* Induction, for a set.
LEMMA SetInduction ==
    ASSUME NEW G, 0 \in G, \A n \in Nat : n \in G => n + 1 \in G
    PROVE  \A n \in Nat : n \in G
<1> DEFINE T == Nat \ G
<1> SUFFICES ASSUME T # {} PROVE FALSE
  OBVIOUS
<1>1. PICK x \in T : \A y \in T : x <= y
  BY LeastExists
<1>2. x # 0 /\ x - 1 \in Nat /\ x - 1 \notin T
  BY <1>1
<1> QED BY <1>1, <1>2

\* The function that SumTo is defined by.
IsSum(f, n, s) == s = [k \in 0..n |-> IF k = 0 THEN 0 ELSE s[k - 1] + f[k]]

\* The partial sums exist: the next one continues those before it.
LEMMA SumExists ==
    ASSUME NEW n \in Nat, NEW f, \A k \in 1..n : f[k] \in Nat
    PROVE  \E s : IsSum(f, n, s)
<1> DEFINE Sums(m, s) == /\ s \in [0..m -> Nat] /\ s[0] = 0
                         /\ \A k \in 1..m : s[k] = s[k - 1] + f[k]
           G == {m \in Nat : m <= n => \E s : Sums(m, s)}
<1>1. 0 \in G
  <2>1. Sums(0, [k \in 0..0 |-> 0])
    OBVIOUS
  <2> QED BY <2>1
<1>2. ASSUME NEW m \in Nat, m \in G PROVE m + 1 \in G
  <2> SUFFICES ASSUME m + 1 <= n PROVE \E s : Sums(m + 1, s)
    OBVIOUS
  <2> HIDE DEF Sums
  <2>1. PICK s : Sums(m, s)
    BY <1>2
  <2> USE DEF Sums
  <2>2. f[m + 1] \in Nat /\ m \in 0..m /\ 0 \in 0..m
    OBVIOUS
  <2> DEFINE next == [k \in 0..(m + 1) |-> IF k <= m THEN s[k] ELSE s[m] + f[m + 1]]
  <2>3. next \in [0..(m + 1) -> Nat] /\ next[0] = 0
    BY <2>1, <2>2
  <2>4. ASSUME NEW k \in 1..(m + 1) PROVE next[k] = next[k - 1] + f[k]
    <3>1. CASE k <= m
      BY <2>1, <3>1
    <3>2. CASE k = m + 1
      BY <2>1, <3>2
    <3> QED BY <3>1, <3>2
  <2> HIDE DEF next
  <2> QED BY <2>3, <2>4
<1> HIDE DEF G, Sums
<1>3. n \in G
  BY <1>1, <1>2, SetInduction
<1>4. PICK s : Sums(n, s)
  BY <1>3 DEF G
<1>5. s \in [0..n -> Nat] /\ s[0] = 0
  BY <1>4 DEF Sums
<1>6. ASSUME NEW k \in 0..n PROVE s[k] = IF k = 0 THEN 0 ELSE s[k - 1] + f[k]
  <2>1. k # 0 => k \in 1..n
    OBVIOUS
  <2> QED BY <1>4, <2>1 DEF Sums
<1>7. s = [k \in 0..n |-> s[k]]
  BY <1>5
<1>8. s = [k \in 0..n |-> IF k = 0 THEN 0 ELSE s[k - 1] + f[k]]
  BY <1>6, <1>7, Zenon
<1> QED BY <1>8 DEF IsSum

\* What the elements of such a sum are.
LEMMA SumElements ==
    ASSUME NEW n \in Nat, NEW f, NEW s, IsSum(f, n, s)
    PROVE  s[0] = 0 /\ \A k \in 1..n : s[k] = s[k - 1] + f[k]
BY DEF IsSum

\* Two sums agree as far as what they add up does.
LEMMA SumsAgree ==
    ASSUME NEW n \in Nat, NEW m \in Nat, NEW f, NEW g, NEW s, NEW t,
           IsSum(f, m, s), IsSum(g, n, t), NEW j \in Nat, j <= m, j <= n,
           \A k \in 1..j : f[k] = g[k]
    PROVE  s[j] = t[j]
<1> DEFINE G == {k \in Nat : k <= j => s[k] = t[k]}
<1>1. 0 \in G
  BY SumElements
<1>2. ASSUME NEW k \in Nat, k \in G PROVE k + 1 \in G
  <2> SUFFICES ASSUME k + 1 <= j PROVE s[k + 1] = t[k + 1]
    OBVIOUS
  <2>1. s[k] = t[k] /\ f[k + 1] = g[k + 1]
    BY <1>2
  <2>2. s[k + 1] = s[k] + f[k + 1] /\ t[k + 1] = t[k] + g[k + 1]
    <3>1. k + 1 \in 1..m /\ k + 1 \in 1..n /\ (k + 1) - 1 = k
      OBVIOUS
    <3> QED BY <3>1, SumElements
  <2> QED BY <2>1, <2>2
<1> HIDE DEF G
<1>3. j \in G
  BY <1>1, <1>2, SetInduction
<1> QED BY <1>3 DEF G

\* SumTo is one of them.
LEMMA SumToIsSum ==
    ASSUME NEW n \in Nat, NEW f, \A k \in 1..n : f[k] \in Nat
    PROVE  \E s : IsSum(f, n, s) /\ SumTo(f, n) = s[n]
<1> DEFINE sum == CHOOSE s : IsSum(f, n, s)
<1>1. IsSum(f, n, sum)
  BY SumExists
<1>2. SumTo(f, n) = sum[n]
  BY DEF SumTo, IsSum
<1> QED BY <1>1, <1>2

\* The equations of SumTo, ...
LEMMA SumEquations ==
    ASSUME NEW n \in Nat, NEW f, \A k \in 1..(n + 1) : f[k] \in Nat
    PROVE  SumTo(f, 0) = 0 /\ SumTo(f, n + 1) = SumTo(f, n) + f[n + 1]
<1>1. SumTo(f, 0) = 0
  BY SumToIsSum, SumElements
<1>2. PICK s : IsSum(f, n, s) /\ SumTo(f, n) = s[n]
  BY SumToIsSum
<1>3. PICK t : IsSum(f, n + 1, t) /\ SumTo(f, n + 1) = t[n + 1]
  BY SumToIsSum
<1>4. s[n] = t[n]
  BY <1>2, <1>3, SumsAgree
<1>5. t[n + 1] = t[n] + f[n + 1]
  <2>1. n + 1 \in 1..(n + 1) /\ (n + 1) - 1 = n
    OBVIOUS
  <2> QED BY <1>3, <2>1, SumElements
<1> QED BY <1>1, <1>2, <1>3, <1>4, <1>5

\* ... of nothing is 0, ...
LEMMA SumZero == ASSUME NEW f PROVE SumTo(f, 0) = 0
<1>1. \A k \in 1..0 : f[k] \in Nat
  OBVIOUS
<1> QED BY <1>1, SumToIsSum, SumElements

\* ... which depends on nothing but the numbers that it adds up, ...
LEMMA SumSame ==
    ASSUME NEW n \in Nat, NEW f, NEW g,
           \A k \in 1..n : f[k] \in Nat /\ f[k] = g[k]
    PROVE  SumTo(f, n) = SumTo(g, n)
<1>1. PICK s : IsSum(f, n, s) /\ SumTo(f, n) = s[n]
  BY SumToIsSum
<1>2. PICK t : IsSum(g, n, t) /\ SumTo(g, n) = t[n]
  BY SumToIsSum
<1> QED BY <1>1, <1>2, SumsAgree

\* ... is a number, ...
LEMMA SumNat ==
    ASSUME NEW n \in Nat, NEW f, \A k \in 1..n : f[k] \in Nat
    PROVE  \A m \in 0..n : SumTo(f, m) \in Nat
<1> DEFINE G == {m \in Nat : m <= n => SumTo(f, m) \in Nat}
<1>1. 0 \in G
  BY SumToIsSum, SumElements
<1>2. ASSUME NEW m \in Nat, m \in G PROVE m + 1 \in G
  <2> SUFFICES ASSUME m + 1 <= n PROVE SumTo(f, m + 1) \in Nat
    OBVIOUS
  <2>1. SumTo(f, m + 1) = SumTo(f, m) + f[m + 1] /\ f[m + 1] \in Nat
    BY SumEquations
  <2> QED BY <1>2, <2>1
<1> HIDE DEF G
<1>3. \A m \in Nat : m \in G
  BY <1>1, <1>2, SetInduction
<1> QED BY <1>3 DEF G

\* ... and grows with every one of them.
LEMMA SumGrows ==
    ASSUME NEW n \in Nat, NEW f, \A k \in 1..n : f[k] \in Nat,
           NEW m \in 0..n, NEW j \in 0..m
    PROVE  SumTo(f, j) <= SumTo(f, m)
<1> DEFINE G == {d \in Nat : j + d <= n => SumTo(f, j) <= SumTo(f, j + d)}
<1>1. 0 \in G
  BY SumNat
<1>2. ASSUME NEW d \in Nat, d \in G PROVE d + 1 \in G
  <2> SUFFICES ASSUME j + (d + 1) <= n PROVE SumTo(f, j) <= SumTo(f, j + (d + 1))
    OBVIOUS
  <2> DEFINE i == j + d
  <2>1. i \in Nat /\ i + 1 <= n /\ j + (d + 1) = i + 1
    OBVIOUS
  <2>2. SumTo(f, j) <= SumTo(f, i)
    BY <1>2, <2>1
  <2> HIDE DEF i
  <2>3. SumTo(f, i + 1) = SumTo(f, i) + f[i + 1] /\ f[i + 1] \in Nat
    BY <2>1, SumEquations
  <2>4. SumTo(f, i) \in Nat /\ SumTo(f, j) \in Nat
    BY <2>1, SumNat
  <2> QED BY <2>1, <2>2, <2>3, <2>4
<1>3. m - j \in Nat /\ j + (m - j) = m
  OBVIOUS
<1>4. \A d \in Nat : d \in G
  <2> HIDE DEF G
  <2> QED BY <1>1, <1>2, SetInduction
<1> QED BY <1>3, <1>4

\* The first of the numbers may be taken first.
LEMMA SumHead ==
    ASSUME NEW n \in Nat, NEW f, NEW g, \A k \in 1..(n + 1) : f[k] \in Nat,
           \A k \in 1..n : g[k] = f[k + 1]
    PROVE  SumTo(f, n + 1) = f[1] + SumTo(g, n) /\ f[1] \in Nat /\ SumTo(g, n) \in Nat
<1> DEFINE G == {m \in Nat : m <= n => SumTo(f, m + 1) = f[1] + SumTo(g, m)}
<1>1. \A k \in 1..n : g[k] \in Nat /\ g[k] = f[k + 1]
  OBVIOUS
<1>2. f[1] \in Nat
  OBVIOUS
<1>3. 0 \in G
  <2>1. SumTo(f, 0) = 0 /\ SumTo(g, 0) = 0
    BY SumZero
  <2>2. SumTo(f, 0 + 1) = SumTo(f, 0) + f[0 + 1]
    <3>1. 0 \in Nat /\ \A k \in 1..(0 + 1) : f[k] \in Nat
      OBVIOUS
    <3> QED BY <3>1, SumEquations
  <2>3. SumTo(f, 0 + 1) = f[1] + SumTo(g, 0)
    BY <1>2, <2>1, <2>2
  <2> QED BY <2>3
<1>4. ASSUME NEW m \in Nat, m \in G PROVE m + 1 \in G
  <2> SUFFICES ASSUME m + 1 <= n PROVE SumTo(f, (m + 1) + 1) = f[1] + SumTo(g, m + 1)
    OBVIOUS
  <2> DEFINE i == m + 1
  <2>1. i \in Nat /\ i <= n /\ (\A k \in 1..(i + 1) : f[k] \in Nat) /\ (\A k \in 1..i : g[k] \in Nat)
        /\ g[i] = f[i + 1] /\ i \in 1..n
    BY <1>1
  <2>2. SumTo(f, i) = f[1] + SumTo(g, m)
    BY <1>4
  <2>3. SumTo(g, i) = SumTo(g, m) + g[i]
    BY <2>1, SumEquations
  <2> HIDE DEF i
  <2>4. SumTo(f, i + 1) = SumTo(f, i) + f[i + 1]
    BY <2>1, SumEquations
  <2>5. SumTo(g, m) \in Nat /\ g[i] \in Nat
    <3>1. m \in 0..n
      OBVIOUS
    <3> QED BY <1>1, <2>1, <3>1, SumNat
  <2>6. SumTo(f, i + 1) = f[1] + SumTo(g, i)
    BY <1>2, <2>1, <2>2, <2>3, <2>4, <2>5
  <2> QED BY <2>6 DEF i
<1> HIDE DEF G
<1>5. n \in G
  BY <1>3, <1>4, SetInduction
<1>6. SumTo(g, n) \in Nat
  <2>1. n \in 0..n
    OBVIOUS
  <2> QED BY <1>1, <2>1, SumNat
<1> QED BY <1>2, <1>5, <1>6 DEF G

(***************************************************************************)
(* The same for sequences                                                  *)
(***************************************************************************)

IsJoin(f, n, s) == s = [k \in 0..n |-> IF k = 0 THEN <<>> ELSE s[k - 1] \o f[k]]

LEMMA JoinExists ==
    ASSUME NEW n \in Nat, NEW S, NEW f, \A k \in 1..n : f[k] \in Seq(S)
    PROVE  \E s : IsJoin(f, n, s) /\ s \in [0..n -> Seq(S)]
<1> DEFINE Joins(m, s) == /\ s \in [0..m -> Seq(S)] /\ s[0] = <<>>
                          /\ \A k \in 1..m : s[k] = s[k - 1] \o f[k]
           G == {m \in Nat : m <= n => \E s : Joins(m, s)}
<1>1. 0 \in G
  <2> DEFINE none == <<>>
             s == [k \in 0..0 |-> none]
  <2>1. none \in Seq(S)
    OBVIOUS
  <2>2. s[0] = none /\ 1..0 = {}
    OBVIOUS
  <2> HIDE DEF none
  <2>3. s \in [0..0 -> Seq(S)]
    BY <2>1
  <2> HIDE DEF s
  <2>4. Joins(0, s)
    BY <2>2, <2>3 DEF none
  <2> QED BY <2>4
<1>2. ASSUME NEW m \in Nat, m \in G PROVE m + 1 \in G
  <2> SUFFICES ASSUME m + 1 <= n PROVE \E s : Joins(m + 1, s)
    <3> HIDE DEF Joins
    <3> QED OBVIOUS
  <2> HIDE DEF Joins
  <2>1. PICK s : Joins(m, s)
    BY <1>2
  <2> USE DEF Joins
  <2>2. f[m + 1] \in Seq(S) /\ m \in 0..m /\ 0 \in 0..m
    OBVIOUS
  <2> DEFINE last == s[m] \o f[m + 1]
             next == [k \in 0..(m + 1) |-> IF k <= m THEN s[k] ELSE last]
  <2>3. last \in Seq(S)
    BY <2>1, <2>2, ConcatProperties
  <2>4. last = s[m] \o f[m + 1]
    OBVIOUS
  <2> HIDE DEF last
  <2>5. next \in [0..(m + 1) -> Seq(S)] /\ next[0] = <<>>
    BY <2>1, <2>2, <2>3
  <2>6. ASSUME NEW k \in 1..(m + 1) PROVE next[k] = next[k - 1] \o f[k]
    <3>1. CASE k <= m
      <4>1. next[k] = s[k] /\ next[k - 1] = s[k - 1] /\ k \in 1..m
        BY <3>1
      <4> QED BY <2>1, <4>1
    <3>2. CASE k = m + 1
      <4>1. next[k] = last /\ next[k - 1] = s[m]
        BY <3>2
      <4> QED BY <2>4, <3>2, <4>1
    <3>3. k <= m \/ k = m + 1
      OBVIOUS
    <3> QED BY <3>1, <3>2, <3>3, Zenon
  <2> HIDE DEF next
  <2> QED BY <2>5, <2>6
<1> HIDE DEF G, Joins
<1>3. n \in G
  BY <1>1, <1>2, SetInduction
<1>4. PICK s : Joins(n, s)
  BY <1>3 DEF G
<1>5. s \in [0..n -> Seq(S)]
  BY <1>4 DEF Joins
<1>6. ASSUME NEW k \in 0..n PROVE s[k] = IF k = 0 THEN <<>> ELSE s[k - 1] \o f[k]
  <2>1. k # 0 => k \in 1..n
    OBVIOUS
  <2> QED BY <1>4, <2>1 DEF Joins
<1>7. s = [k \in 0..n |-> s[k]]
  BY <1>5
<1>8. s = [k \in 0..n |-> IF k = 0 THEN <<>> ELSE s[k - 1] \o f[k]]
  BY <1>6, <1>7, Zenon
<1> QED BY <1>5, <1>8 DEF IsJoin

\* What the elements of such a join are.
Joined(f, n, s) == /\ s[0] = <<>>
                   /\ \A k \in Nat : k + 1 <= n => s[k + 1] = s[k] \o f[k + 1]

LEMMA JoinElements ==
    ASSUME NEW n \in Nat, NEW f, NEW s, IsJoin(f, n, s)
    PROVE  Joined(f, n, s)
<1>1. 0 \in 0..n
  OBVIOUS
<1>2. ASSUME NEW k \in Nat, k + 1 <= n PROVE s[k + 1] = s[k] \o f[k + 1]
  <2> DEFINE i == k + 1
  <2>1. i \in 0..n /\ i # 0 /\ i - 1 = k
    BY <1>2
  <2> HIDE DEF i
  <2>2. s[i] = s[i - 1] \o f[i]
    BY <2>1, Zenon DEF IsJoin
  <2>3. s[i] = s[k] \o f[i]
    BY <2>1, <2>2, Zenon
  <2> QED BY <2>3 DEF i
<1>3. s[0] = <<>>
  BY <1>1, Zenon DEF IsJoin
<1> QED BY <1>2, <1>3 DEF Joined

\* Two joins agree as far as what they join does.
LEMMA JoinsAgree ==
    ASSUME NEW n \in Nat, NEW m \in Nat, NEW f, NEW g, NEW s, NEW t,
           Joined(f, m, s), Joined(g, n, t), NEW j \in Nat, j <= m, j <= n,
           \A k \in 1..j : f[k] = g[k]
    PROVE  s[j] = t[j]
<1> DEFINE G == {k \in Nat : k <= j => s[k] = t[k]}
<1>1. 0 \in G
  BY DEF Joined
<1>2. ASSUME NEW k \in Nat, k \in G PROVE k + 1 \in G
  <2> SUFFICES ASSUME k + 1 <= j PROVE s[k + 1] = t[k + 1]
    OBVIOUS
  <2>1. s[k] = t[k] /\ f[k + 1] = g[k + 1]
    BY <1>2
  <2>2. s[k + 1] = s[k] \o f[k + 1] /\ t[k + 1] = t[k] \o g[k + 1]
    <3>1. k + 1 <= m /\ k + 1 <= n
      OBVIOUS
    <3> QED BY <3>1 DEF Joined
  <2> QED BY <2>1, <2>2
<1> HIDE DEF G
<1>3. j \in G
  BY <1>1, <1>2, SetInduction
<1> QED BY <1>3 DEF G

\* JoinTo is one of them, and a sequence of the same elements.
LEMMA JoinToIsJoin ==
    ASSUME NEW n \in Nat, NEW S, NEW f, \A k \in 1..n : f[k] \in Seq(S)
    PROVE  /\ \E s : Joined(f, n, s) /\ JoinTo(f, n) = s[n]
           /\ JoinTo(f, n) \in Seq(S)
<1> DEFINE join == CHOOSE s : IsJoin(f, n, s)
<1>1. PICK t : IsJoin(f, n, t) /\ t \in [0..n -> Seq(S)]
  BY JoinExists
<1>2. IsJoin(f, n, join)
  BY <1>1, Zenon
<1>3. JoinTo(f, n) = join[n]
  BY DEF JoinTo, IsJoin
<1> HIDE DEF join
<1>4. Joined(f, n, join) /\ Joined(f, n, t)
  BY <1>1, <1>2, JoinElements
<1>5. join[n] = t[n]
  BY <1>4, JoinsAgree
<1>6. t[n] \in Seq(S)
  BY <1>1
<1> QED BY <1>3, <1>4, <1>5, <1>6

\* The equations of JoinTo, ...
LEMMA JoinEquations ==
    ASSUME NEW n \in Nat, NEW S, NEW f, \A k \in 1..(n + 1) : f[k] \in Seq(S)
    PROVE  JoinTo(f, n + 1) = JoinTo(f, n) \o f[n + 1]
<1>1. \A k \in 1..n : f[k] \in Seq(S)
  OBVIOUS
<1>2. PICK s : Joined(f, n, s) /\ JoinTo(f, n) = s[n]
  BY <1>1, JoinToIsJoin
<1>3. n + 1 \in Nat
  OBVIOUS
<1>4. PICK t : Joined(f, n + 1, t) /\ JoinTo(f, n + 1) = t[n + 1]
  BY <1>3, JoinToIsJoin
<1>5. s[n] = t[n]
  BY <1>2, <1>4, JoinsAgree
<1>6. t[n + 1] = t[n] \o f[n + 1]
  <2>1. n + 1 <= n + 1
    BY <1>3
  <2>2. \A k \in Nat : k + 1 <= n + 1 => t[k + 1] = t[k] \o f[k + 1]
    BY <1>4, Zenon DEF Joined
  <2> QED BY <2>1, <2>2, Zenon
<1> QED BY <1>2, <1>4, <1>5, <1>6

LEMMA JoinZero == ASSUME NEW f PROVE JoinTo(f, 0) = <<>>
<1>1. \A k \in 1..0 : f[k] \in Seq({})
  OBVIOUS
<1> QED BY <1>1, JoinToIsJoin DEF Joined

\* ... nor is one of empty sequences, ...
LEMMA JoinEmpty ==
    ASSUME NEW n \in Nat, NEW f, \A k \in 1..n : f[k] = <<>>
    PROVE  JoinTo(f, n) = <<>>
<1>1. <<>> \in Seq({})
  OBVIOUS
<1>2. \A k \in 1..n : f[k] \in Seq({})
  BY <1>1
<1>3. JoinTo(f, n) \in Seq({})
  BY <1>2, JoinToIsJoin
<1> QED BY <1>3

\* ... which depends on nothing but the sequences that it joins.
LEMMA JoinSame ==
    ASSUME NEW n \in Nat, NEW S, NEW f, NEW g,
           \A k \in 1..n : f[k] \in Seq(S) /\ f[k] = g[k]
    PROVE  JoinTo(f, n) = JoinTo(g, n)
<1>1. PICK s : Joined(f, n, s) /\ JoinTo(f, n) = s[n]
  BY JoinToIsJoin
<1>2. PICK t : Joined(g, n, t) /\ JoinTo(g, n) = t[n]
  BY JoinToIsJoin
<1> QED BY <1>1, <1>2, JoinsAgree

\* An element of what is joined is an element of one of the sequences, and its
\* place there follows from the lengths of those before it.
ElementsFrom(f, g, n, s) ==
    \A q \in 1..Len(s) : \E i \in 1..n : \E p \in 1..Len(f[i]) :
       q = SumTo(g, i - 1) + p /\ s[q] = f[i][p]

LEMMA JoinPlaces ==
    ASSUME NEW n \in Nat, NEW S, NEW f, NEW g,
           \A k \in 1..n : f[k] \in Seq(S) /\ g[k] = Len(f[k])
    PROVE  /\ Len(JoinTo(f, n)) = SumTo(g, n)
           /\ ElementsFrom(f, g, n, JoinTo(f, n))
<1> DEFINE Placed(m) == /\ Len(JoinTo(f, m)) = SumTo(g, m)
                        /\ ElementsFrom(f, g, m, JoinTo(f, m))
           G == {m \in Nat : m <= n => Placed(m)}
<1>1. \A k \in 1..n : f[k] \in Seq(S) /\ g[k] \in Nat /\ g[k] = Len(f[k])
  BY LenProperties
<1>2. 0 \in G
  <2>1. JoinTo(f, 0) = <<>> /\ SumTo(g, 0) = 0
    BY JoinZero, SumZero
  <2>2. Placed(0)
    BY <2>1 DEF ElementsFrom
  <2> QED BY <2>2
<1>3. ASSUME NEW m \in Nat, m \in G PROVE m + 1 \in G
  <2> SUFFICES ASSUME m + 1 <= n PROVE Placed(m + 1)
    <3> HIDE DEF Placed
    <3> QED OBVIOUS
  <2> DEFINE s == JoinTo(f, m)
             last == f[m + 1]
             sum == SumTo(g, m)
  <2>1. Len(s) = sum /\ ElementsFrom(f, g, m, s)
    BY <1>3
  <2>2. last \in Seq(S) /\ g[m + 1] = Len(last) /\ g[m + 1] \in Nat /\ m + 1 \in 1..n
    BY <1>1
  <2>3. s \in Seq(S)
    BY <1>1, JoinToIsJoin
  <2>4. JoinTo(f, m + 1) = s \o last
    BY <1>1, JoinEquations
  <2>5. SumTo(g, m + 1) = sum + Len(last)
    BY <1>1, <2>2, SumEquations
  <2> HIDE DEF s, sum, last
  <2>6. /\ Len(s) \in Nat /\ Len(last) \in Nat
        /\ Len(s \o last) = Len(s) + Len(last)
        /\ \A q \in 1..Len(s) : (s \o last)[q] = s[q]
        /\ \A p \in 1..Len(last) : (s \o last)[Len(s) + p] = last[p]
    BY <2>2, <2>3
  <2> DEFINE t == s \o last
  <2>7. ASSUME NEW q \in 1..Len(t)
        PROVE  \E i \in 1..(m + 1) : \E p \in 1..Len(f[i]) :
                  q = SumTo(g, i - 1) + p /\ t[q] = f[i][p]
    <3>1. CASE q <= Len(s)
      <4>1. PICK i \in 1..m : \E p \in 1..Len(f[i]) :
               q = SumTo(g, i - 1) + p /\ s[q] = f[i][p]
        BY <2>1, <2>6, <3>1 DEF ElementsFrom
      <4>2. t[q] = s[q] /\ i \in 1..(m + 1)
        BY <2>6, <3>1
      <4> QED BY <4>1, <4>2, Zenon
    <3>2. CASE ~(q <= Len(s))
      <4> DEFINE p == q - Len(s)
      <4>1. p \in 1..Len(last) /\ q = Len(s) + p
        BY <2>6, <3>2
      <4>2. t[q] = last[p]
        BY <2>6, <4>1
      <4>3. m + 1 \in 1..(m + 1) /\ (m + 1) - 1 = m
        OBVIOUS
      <4>4. q = SumTo(g, (m + 1) - 1) + p
        BY <2>1, <4>1, <4>3 DEF sum
      <4> HIDE DEF p
      <4> QED BY <4>1, <4>2, <4>3, <4>4, Zenon DEF last
    <3> QED BY <3>1, <3>2
  <2>8. ElementsFrom(f, g, m + 1, t)
    BY <2>7, Zenon DEF ElementsFrom
  <2>9. Len(t) = sum + Len(last)
    BY <2>1, <2>6
  <2> HIDE DEF t
  <2> QED BY <2>4, <2>5, <2>8, <2>9 DEF t
<1> HIDE DEF G
<1>4. n \in G
  BY <1>2, <1>3, SetInduction
<1> QED BY <1>4 DEF G

=============================================================================
