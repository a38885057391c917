------------------------------ MODULE NatLemmas ------------------------------
(***************************************************************************)
(* Facts about natural numbers that several proofs rest on: quotients and  *)
(* remainders by a number the provers do not know (the packing of          *)
(* descriptors, the counting of pages, numerals), induction, and that      *)
(* functions computed from their values at smaller numbers exist.          *)
(*                                                                         *)
(* Induction is stated for sets instead of predicates, because the provers *)
(* do not instantiate a theorem that has an operator as its parameter.     *)
(***************************************************************************)
EXTENDS Integers, WellFoundedInduction, TLAPS

----------------------------------------------------------------------------
(***************************************************************************)
(* Division.                                                               *)
(***************************************************************************)

\* Quotient and remainder.
LEMMA DivMod ==
  ASSUME NEW x \in Nat, NEW m \in Nat, m > 0
  PROVE  /\ x \div m \in Nat /\ x % m \in Nat /\ x % m < m
         /\ x = (x \div m) * m + (x % m)
<1> DEFINE q == x \div m
<1>1. q \in Nat /\ x = m * q + (x % m) /\ x % m \in 0 .. m - 1
  OBVIOUS
<1> HIDE DEF q
<1>2. m * q = q * m
  BY <1>1
<1> QED BY <1>1, <1>2 DEF q

\* They are the only ones.
LEMMA DivModUnique ==
  ASSUME NEW m \in Nat, m > 0, NEW q \in Nat, NEW r \in Nat, r < m, NEW x \in Nat, x = q * m + r
  PROVE  x \div m = q /\ x % m = r
<1>1. PICK p \in Nat, s \in Nat : p = x \div m /\ s = x % m /\ s < m /\ x = p * m + s
  BY DivMod
<1>2. p * m \in Nat /\ q * m \in Nat
  BY <1>1
<1>3. ~(p < q)
  <2> SUFFICES ASSUME p < q PROVE FALSE
    OBVIOUS
  <2>1. p * m + m <= q * m
    BY <1>1
  <2> QED BY <1>1, <1>2, <2>1
<1>4. ~(q < p)
  <2> SUFFICES ASSUME q < p PROVE FALSE
    OBVIOUS
  <2>1. q * m + m <= p * m
    BY <1>1
  <2> QED BY <1>1, <1>2, <2>1
<1>5. p = q
  BY <1>1, <1>3, <1>4
<1> QED BY <1>1, <1>2, <1>5

\* A number below m * n has a quotient below n.
LEMMA DivBelow ==
  ASSUME NEW m \in Nat, m > 0, NEW n \in Nat, NEW x \in Nat, x < n * m
  PROVE  x \div m < n
<1>1. PICK q \in Nat : q = x \div m /\ q * m <= x
  <2>1. /\ x \div m \in Nat /\ x % m \in Nat /\ x = (x \div m) * m + (x % m)
    BY DivMod
  <2>2. PICK q \in Nat : q = x \div m
    BY <2>1
  <2>3. x = q * m + (x % m) /\ q * m \in Nat
    BY <2>1, <2>2
  <2>4. q * m <= x
    BY <2>1, <2>3
  <2> QED BY <2>2, <2>4
<1>2. n <= q => n * m <= q * m
  BY <1>1
<1>3. n * m \in Nat /\ q * m \in Nat
  BY <1>1
<1> QED BY <1>1, <1>2, <1>3

\* Division does not turn the order round.
LEMMA DivMonotone ==
  ASSUME NEW m \in Nat, m > 0, NEW x \in Nat, NEW y \in Nat, x <= y
  PROVE  x \div m <= y \div m
<1>1. PICK q \in Nat, r \in Nat : q = x \div m /\ r < m /\ x = q * m + r
  BY DivMod
<1>2. PICK p \in Nat, s \in Nat : p = y \div m /\ s < m /\ y = p * m + s
  BY DivMod
<1>3. q * m \in Nat /\ p * m \in Nat
  BY <1>1, <1>2
<1>4. p < q => p * m + m <= q * m
  BY <1>1, <1>2
<1> QED BY <1>1, <1>2, <1>3, <1>4

\* Dividing twice.
LEMMA DivDiv ==
  ASSUME NEW m \in Nat, m > 0, NEW n \in Nat, n > 0, NEW x \in Nat
  PROVE  x \div (m * n) = (x \div m) \div n
<1>1. PICK q \in Nat, r \in Nat : q = x \div m /\ r < m /\ x = q * m + r
  BY DivMod
<1>2. PICK p \in Nat, s \in Nat : p = q \div n /\ s < n /\ q = p * n + s
  BY <1>1, DivMod
<1>3. PICK t \in Nat : t = s * m + r
  BY <1>1, <1>2
<1>4. PICK mn \in Nat : mn = m * n
  OBVIOUS
<1>5. mn > 0
  BY <1>4
<1>6. t < mn
  <2>1. s * m + m <= n * m
    BY <1>2
  <2>2. n * m = mn /\ s * m \in Nat
    BY <1>2, <1>4
  <2> QED BY <1>1, <1>3, <2>1, <2>2
<1>7. x = p * mn + t
  <2>1. q * m = p * n * m + s * m
    BY <1>2
  <2>2. p * n * m = p * mn
    BY <1>2, <1>4
  <2>3. q * m \in Nat /\ s * m \in Nat /\ p * mn \in Nat
    BY <1>1, <1>2, <1>4
  <2> QED BY <1>1, <1>3, <2>1, <2>2, <2>3
<1>8. x \div mn = p
  BY <1>5, <1>6, <1>7, DivModUnique
<1> QED BY <1>1, <1>2, <1>4, <1>8

\* The two parts of a number below m * n make the number up.
LEMMA TwoParts ==
  ASSUME NEW m \in Nat, m > 0, NEW n \in Nat, n > 0, NEW x \in Nat
  PROVE  /\ (x % m) + ((x \div m) % n) * m = x % (m * n)
         /\ x < n * m => (x \div m) % n = x \div m /\ (x % m) + ((x \div m) % n) * m = x
<1>1. PICK q \in Nat, r \in Nat : q = x \div m /\ r = x % m /\ r < m /\ x = q * m + r
  BY DivMod
<1>2. PICK p \in Nat, s \in Nat : p = q \div n /\ s = q % n /\ s < n /\ q = p * n + s
  BY <1>1, DivMod
<1>3. PICK t \in Nat : t = s * m + r
  BY <1>1, <1>2
<1>4. PICK mn \in Nat : mn = m * n
  OBVIOUS
<1>5. mn > 0
  BY <1>4
<1>6. t < mn
  <2>1. s * m + m <= n * m
    BY <1>2
  <2>2. n * m = mn /\ s * m \in Nat
    BY <1>2, <1>4
  <2> QED BY <1>1, <1>3, <2>1, <2>2
<1>7. x = p * mn + t
  <2>1. q * m = p * n * m + s * m
    BY <1>2
  <2>2. p * n * m = p * mn
    BY <1>2, <1>4
  <2>3. q * m \in Nat /\ s * m \in Nat /\ p * mn \in Nat
    BY <1>1, <1>2, <1>4
  <2> QED BY <1>1, <1>3, <2>1, <2>2, <2>3
<1>8. x % mn = t
  BY <1>5, <1>6, <1>7, DivModUnique
<1>9. r + s * m = t
  <2>1. s * m \in Nat
    BY <1>2
  <2> QED BY <1>1, <1>3, <2>1
<1>10. ASSUME x < n * m PROVE s = q /\ t = x
  <2>1. q < n
    BY <1>1, <1>10, DivBelow
  <2>2. PICK z \in Nat : z = 0
    OBVIOUS
  <2>3. q = z * n + q
    BY <1>1, <2>2
  <2>4. q % n = q
    BY <1>1, <2>1, <2>2, <2>3, DivModUnique
  <2> QED BY <1>1, <1>2, <1>3, <2>4
<1> QED BY <1>1, <1>2, <1>4, <1>8, <1>9, <1>10

----------------------------------------------------------------------------
(***************************************************************************)
(* Induction and recursion.                                                *)
(***************************************************************************)

\* Every nonempty set of natural numbers has a least element.
LEMMA LeastNatural ==
  ASSUME NEW S \in SUBSET Nat, S # {}
  PROVE  \E n \in S : \A m \in S : n <= m
<1> DEFINE R == {ss \in Nat \X Nat : ss[1] < ss[2]}
<1>1. OpToRel(<, Nat) = R
  BY Zenon DEF OpToRel
<1>2. IsWellFoundedOn(R, Nat)
  BY <1>1, NatLessThanWellFounded, Zenon
<1>3. \A x, y \in Nat : <<y, x>> \in R <=> y < x
  OBVIOUS
<1> HIDE DEF R
<1>4. PICK x \in S : \A y \in S : ~(<<y, x>> \in R)
  BY <1>2, WFMin
<1>5. \A y \in S : y \in Nat /\ x \in Nat /\ ~(y < x)
  BY <1>3, <1>4
<1> QED BY <1>4, <1>5

\* Induction, for a set instead of a predicate.
LEMMA NatSet ==
  ASSUME NEW S, 0 \in S, \A n \in Nat : n \in S => n + 1 \in S
  PROVE  \A n \in Nat : n \in S
<1> SUFFICES ASSUME NEW k \in Nat, k \notin S PROVE FALSE
  OBVIOUS
<1> DEFINE T == {n \in Nat : n \notin S}
<1>1. PICK n \in T : \A m \in T : n <= m
  BY LeastNatural
<1>2. n # 0 /\ n - 1 \in Nat /\ n - 1 \in S
  BY <1>1
<1> QED BY <1>1, <1>2

\* Every number of D but 0 is computed from a smaller one, d[m].
Descends(D, d) ==
  /\ D \subseteq Nat
  /\ \A m \in D : m # 0 => d[m] \in D /\ d[m] < m

\* f is computed on D in this way.
Obeys(f, D, d, z, F) == f = [m \in D |-> IF m = 0 THEN z ELSE F[<<m, f[d[m]]>>]]

\* Two such functions agree wherever both are defined.
LEMMA ObeysUnique ==
  ASSUME NEW D, NEW E, NEW d, NEW z, NEW F, Descends(D, d), Descends(E, d),
         NEW f, NEW g, Obeys(f, D, d, z, F), Obeys(g, E, d, z, F)
  PROVE  \A m \in D \cap E : f[m] = g[m]
<1> DEFINE T == {m \in D \cap E : f[m] # g[m]}
<1> SUFFICES ASSUME T # {} PROVE FALSE
  OBVIOUS
<1>1. PICK n \in T : \A m \in T : n <= m
  <2>1. T \in SUBSET Nat
    BY DEF Descends
  <2> QED BY <2>1, LeastNatural
<1>2. n \in D /\ n \in E /\ n \in Nat
  BY <1>1 DEF Descends
<1>3. /\ f[n] = IF n = 0 THEN z ELSE F[<<n, f[d[n]]>>]
      /\ g[n] = IF n = 0 THEN z ELSE F[<<n, g[d[n]]>>]
  BY <1>2, Zenon DEF Obeys
<1>4. n # 0
  BY <1>1, <1>3
<1>5. d[n] \in D \cap E /\ d[n] < n /\ d[n] \in Nat
  BY <1>2, <1>4 DEF Descends
<1>6. d[n] \notin T
  BY <1>1, <1>2, <1>5
<1>7. f[d[n]] = g[d[n]]
  BY <1>5, <1>6
<1> QED BY <1>1, <1>3, <1>7, <1>4

\* There is such a function.
LEMMA ObeysExists ==
  ASSUME NEW D, NEW d, NEW z, NEW F, Descends(D, d)
  PROVE  \E f : Obeys(f, D, d, z, F)
<1> DEFINE Upto(k) == {m \in D : m <= k}
           S == {k \in Nat : \E g : Obeys(g, Upto(k), d, z, F)}
<1>1. ASSUME NEW k \in Nat PROVE Descends(Upto(k), d)
  <2> SUFFICES ASSUME NEW m \in Upto(k), m # 0 PROVE d[m] \in Upto(k) /\ d[m] < m
    BY DEF Descends
  <2>1. m \in D /\ m \in Nat /\ m <= k
    BY DEF Descends
  <2>2. d[m] \in D /\ d[m] < m /\ d[m] \in Nat
    BY <2>1 DEF Descends
  <2> QED BY <2>1, <2>2
<1>2. 0 \in S
  <2> DEFINE g == [m \in Upto(0) |-> z]
  <2>1. \A m \in Upto(0) : m = 0
    BY DEF Descends
  <2>2. Obeys(g, Upto(0), d, z, F)
    BY <2>1 DEF Obeys
  <2> QED BY <2>2
<1>3. ASSUME NEW k \in Nat, k \in S PROVE k + 1 \in S
  <2>1. PICK g : Obeys(g, Upto(k), d, z, F)
    BY <1>3
  <2> DEFINE U == Upto(k + 1)
             val(m) == IF m <= k THEN g[m] ELSE F[<<m, g[d[m]]>>]
             h == [m \in U |-> val(m)]
  <2>2. ASSUME NEW m \in U PROVE h[m] = IF m = 0 THEN z ELSE F[<<m, h[d[m]]>>]
    <3>1. m \in D /\ m \in Nat /\ h[m] = val(m)
      BY DEF Descends
    <3>2. m # 0 => /\ d[m] \in D /\ d[m] \in Nat /\ d[m] <= k /\ d[m] \in U
                   /\ h[d[m]] = g[d[m]]
      <4> SUFFICES ASSUME m # 0 PROVE d[m] \in D /\ d[m] \in Nat /\ d[m] <= k /\ d[m] \in U
                                       /\ h[d[m]] = g[d[m]]
        OBVIOUS
      <4>1. d[m] \in D /\ d[m] < m /\ d[m] \in Nat /\ m <= k + 1
        BY <3>1 DEF Descends
      <4> QED BY <4>1, <3>1
    <3>3. CASE m <= k
      <4>1. m \in Upto(k)
        BY <3>1, <3>3
      <4>2. g[m] = IF m = 0 THEN z ELSE F[<<m, g[d[m]]>>]
        BY <4>1, <2>1, Zenon DEF Obeys
      <4> HIDE DEF h, U
      <4>3. h[m] = g[m]
        BY <3>1, <3>3
      <4> QED BY <3>2, <4>2, <4>3
    <3>4. CASE ~(m <= k)
      <4>1. m # 0
        BY <3>1, <3>4
      <4> HIDE DEF h, U
      <4> QED BY <3>1, <3>2, <3>4, <4>1
    <3> QED BY <3>3, <3>4
  <2>3. Obeys(h, U, d, z, F)
    <3>1. h = [m \in U |-> h[m]]
      OBVIOUS
    <3> HIDE DEF h, U
    <3> QED BY <2>2, <3>1, Zenon DEF Obeys
  <2> HIDE DEF h
  <2>4. \E g2 : Obeys(g2, Upto(k + 1), d, z, F)
    BY <2>3
  <2> QED BY <2>4
<1>4. \A k \in Nat : k \in S
  <2> HIDE DEF S
  <2> QED BY <1>2, <1>3, NatSet
<1> DEFINE Approx(k) == CHOOSE g : Obeys(g, Upto(k), d, z, F)
           f == [m \in D |-> Approx(m)[m]]
<1>5. ASSUME NEW k \in Nat PROVE Obeys(Approx(k), Upto(k), d, z, F)
  BY <1>4
<1>6. ASSUME NEW m \in D PROVE f[m] = IF m = 0 THEN z ELSE F[<<m, f[d[m]]>>]
  <2>1. m \in Nat /\ m \in Upto(m) /\ f[m] = Approx(m)[m]
    BY DEF Descends
  <2>2. Approx(m)[m] = IF m = 0 THEN z ELSE F[<<m, Approx(m)[d[m]]>>]
    <3>1. Obeys(Approx(m), Upto(m), d, z, F)
      BY <1>5, <2>1
    <3> HIDE DEF Approx, Upto
    <3> QED BY <2>1, <3>1, Zenon DEF Obeys
  <2>3. CASE m = 0
    BY <2>1, <2>2, <2>3, Zenon
  <2>4. CASE m # 0
    <3>1. d[m] \in D /\ d[m] \in Nat /\ d[m] \in Upto(m) /\ d[m] \in Upto(d[m])
      <4>1. d[m] \in D /\ d[m] < m /\ d[m] \in Nat
        BY <2>1, <2>4 DEF Descends
      <4> QED BY <2>1, <4>1
    <3>2. f[d[m]] = Approx(d[m])[d[m]]
      BY <3>1
    <3>3. Obeys(Approx(m), Upto(m), d, z, F) /\ Obeys(Approx(d[m]), Upto(d[m]), d, z, F)
      BY <1>5, <2>1, <3>1
    <3>5. Descends(Upto(m), d) /\ Descends(Upto(d[m]), d)
      BY <1>1, <2>1, <3>1
    <3> HIDE DEF Approx, Upto, f
    <3>4. Approx(d[m])[d[m]] = Approx(m)[d[m]]
      <4>1. \A n \in Upto(m) \cap Upto(d[m]) : Approx(m)[n] = Approx(d[m])[n]
        BY <3>3, <3>5, ObeysUnique
      <4> QED BY <3>1, <4>1
    <3> QED BY <2>1, <2>2, <2>4, <3>2, <3>4
  <2> QED BY <2>3, <2>4
<1>7. f = [m \in D |-> f[m]]
  OBVIOUS
<1> HIDE DEF f
<1>8. Obeys(f, D, d, z, F)
  BY <1>6, <1>7, Zenon DEF Obeys
<1> QED BY <1>8

\* Induction up to a bound.
LEMMA NatUpto ==
  ASSUME NEW n \in Nat, NEW S, 0 \in S, \A j \in 0 .. n - 1 : j \in S => j + 1 \in S
  PROVE  \A j \in 0 .. n : j \in S
<1> DEFINE T == {j \in Nat : j <= n => j \in S}
<1>1. 0 \in T /\ \A j \in Nat : j \in T => j + 1 \in T
  OBVIOUS
<1>2. \A j \in Nat : j \in T
  <2> HIDE DEF T
  <2> QED BY <1>1, NatSet
<1> QED BY <1>2

\* What a loop computes: u[j] is the state behind its j-th round.
Rounds(u, n, z, F) == u = [j \in 0 .. n |-> IF j = 0 THEN z ELSE F[<<j, u[j - 1]>>]]

\* A loop whose rounds stay in R.
LEMMA RoundsExist ==
  ASSUME NEW n \in Nat, NEW R, NEW z \in R, NEW F \in [(1 .. n) \X R -> R]
  PROVE  \E u \in [0 .. n -> R] : Rounds(u, n, z, F)
<1> DEFINE D == 0 .. n
           d == [m \in D |-> m - 1]
<1>1. Descends(D, d)
  BY DEF Descends
<1>2. PICK u : Obeys(u, D, d, z, F)
  BY <1>1, ObeysExists
<1>3. ASSUME NEW j \in D PROVE u[j] = IF j = 0 THEN z ELSE F[<<j, u[d[j]]>>]
  <2> HIDE DEF D, d
  <2> QED BY <1>2, Zenon DEF Obeys
<1>4. ASSUME NEW j \in D PROVE u[j] = IF j = 0 THEN z ELSE F[<<j, u[j - 1]>>]
  <2>1. d[j] = j - 1
    OBVIOUS
  <2> HIDE DEF D, d
  <2> QED BY <1>3, <2>1
<1>5. u = [j \in D |-> u[j]]
  <2> HIDE DEF D, d
  <2>1. DOMAIN u = D
    BY <1>2, Zenon DEF Obeys
  <2>2. u = [j \in DOMAIN u |-> u[j]]
    BY <1>2, Zenon DEF Obeys
  <2> QED BY <2>1, <2>2, Zenon
<1>6. Rounds(u, n, z, F)
  BY <1>4, <1>5, Zenon DEF Rounds
<1> DEFINE S == {j \in D : u[j] \in R}
<1>7. 0 \in S
  <2>1. 0 \in D
    OBVIOUS
  <2>2. u[0] = z
    BY <1>4, <2>1
  <2> QED BY <2>1, <2>2
<1>8. ASSUME NEW j \in 0 .. n - 1, j \in S PROVE j + 1 \in S
  <2>1. j + 1 \in D /\ j + 1 # 0 /\ j + 1 - 1 = j /\ j + 1 \in 1 .. n /\ u[j] \in R
    BY <1>8
  <2>2. u[j + 1] = F[<<j + 1, u[j]>>]
    BY <1>4, <2>1
  <2>3. <<j + 1, u[j]>> \in (1 .. n) \X R
    BY <2>1
  <2> QED BY <2>1, <2>2, <2>3
<1>9. \A j \in 0 .. n : j \in S
  <2> HIDE DEF S
  <2> QED BY <1>7, <1>8, NatUpto
<1>10. u \in [0 .. n -> R]
  BY <1>5, <1>9
<1> QED BY <1>6, <1>10

\* Values that a round never takes out of R are all in R.
LEMMA RoundsWithin ==
  ASSUME NEW n \in Nat, NEW R, NEW w, w[0] \in R, \A j \in 1 .. n : w[j - 1] \in R => w[j] \in R
  PROVE  \A j \in 0 .. n : w[j] \in R
<1> DEFINE S == {j \in 0 .. n : w[j] \in R}
<1>1. 0 \in S
  OBVIOUS
<1>2. ASSUME NEW j \in 0 .. n - 1, j \in S PROVE j + 1 \in S
  <2>1. j + 1 \in 1 .. n /\ (j + 1) - 1 = j /\ w[j] \in R
    BY <1>2
  <2>2. w[j + 1] \in R
    BY <2>1
  <2> QED BY <2>1, <2>2
<1>3. \A j \in 0 .. n : j \in S
  <2> HIDE DEF S
  <2> QED BY <1>1, <1>2, NatUpto
<1> QED BY <1>3

\* The same for the recursions of this module.
LEMMA ObeysWithin ==
  ASSUME NEW D, NEW d, Descends(D, d), NEW R, NEW w,
         \A m \in D : (m # 0 => w[d[m]] \in R) => w[m] \in R
  PROVE  \A m \in D : w[m] \in R
<1> DEFINE T == {m \in D : w[m] \notin R}
<1> SUFFICES ASSUME T # {} PROVE FALSE
  OBVIOUS
<1>1. PICK n \in T : \A m \in T : n <= m
  <2>1. T \in SUBSET Nat
    BY DEF Descends
  <2> QED BY <2>1, LeastNatural
<1>2. n \in D /\ n \in Nat
  BY <1>1 DEF Descends
<1>3. n # 0 => d[n] \in D /\ d[n] < n /\ d[n] \in Nat
  BY <1>2 DEF Descends
<1>4. n # 0 => w[d[n]] \in R
  BY <1>1, <1>2, <1>3
<1> QED BY <1>1, <1>2, <1>4

\* A recursion whose values stay in R.
LEMMA ObeysTyped ==
  ASSUME NEW D, NEW d, Descends(D, d), NEW R, NEW z \in R, NEW F \in [D \X R -> R]
  PROVE  \E f \in [D -> R] : Obeys(f, D, d, z, F)
<1>1. PICK f : Obeys(f, D, d, z, F)
  BY ObeysExists
<1>2. \A m \in D : f[m] = IF m = 0 THEN z ELSE F[<<m, f[d[m]]>>]
  BY <1>1, Zenon DEF Obeys
<1>3. f = [m \in D |-> f[m]]
  <2>1. DOMAIN f = D
    BY <1>1, Zenon DEF Obeys
  <2>2. f = [m \in DOMAIN f |-> f[m]]
    BY <1>1, Zenon DEF Obeys
  <2> QED BY <2>1, <2>2, Zenon
<1>4. \A m \in D : (m # 0 => f[d[m]] \in R) => f[m] \in R
  <2> SUFFICES ASSUME NEW m \in D, m # 0 => f[d[m]] \in R PROVE f[m] \in R
    OBVIOUS
  <2>1. CASE m = 0
    BY <1>2, <2>1
  <2>2. CASE m # 0
    <3>1. <<m, f[d[m]]>> \in D \X R
      BY <2>2
    <3> QED BY <1>2, <2>2, <3>1
  <2> QED BY <2>1, <2>2
<1>5. \A m \in D : f[m] \in R
  BY <1>4, ObeysWithin
<1> QED BY <1>1, <1>3, <1>5
=============================================================================
