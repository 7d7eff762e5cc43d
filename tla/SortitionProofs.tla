--------------------------- MODULE SortitionProofs ---------------------------
(* Theorems about Sortition, for any fraction of winning coins, any precision *)
(* of the hash and any wallets.                                               *)
EXTENDS Sortition, Recursions, FiniteSetTheorems

-----------------------------------------------------------------------------
(* Powers, factorials and sums *)

\* Pow is a function of its exponent, as the text of its definition has it.
IsPow(f, b) == f = [i \in Nat |-> IF i = 0 THEN 1 ELSE b * f[i - 1]]

\* The definition of a recursive function.
LEMMA PowChosen ==
  ASSUME NEW b, NEW n
  PROVE  Pow(b, n) = (CHOOSE f : IsPow(f, b))[n]
  BY DEF Pow, IsPow

\* There is such a function, so the definition says what it seems to say.
LEMMA PowIs ==
  ASSUME NEW b \in Nat
  PROVE  /\ Pow(b, 0) = 1
         /\ \A i \in Nat : Pow(b, i) \in Nat /\ Pow(b, i + 1) = b * Pow(b, i)
  <1> DEFINE h == [q \in Nat \X Nat |-> b * q[2]]
  <1>1. h \in StepFunction(Nat)
    BY DEF StepFunction
  <1>2. \A i \in Nat, r \in Nat : h[<<i, r>>] = b * r
    OBVIOUS
  <1> HIDE DEF h
  <1>3. PICK f : Follows(f, Nat, 1, h)
    BY <1>1, Recursion
  <1>4. \A i \in Nat : f[i + 1] = b * f[i]
    BY <1>2, <1>3 DEF Follows
  <1>5. IsPow(f, b)
    <2>1. \A i \in Nat : f[i] = IF i = 0 THEN 1 ELSE b * f[i - 1]
      <3> SUFFICES ASSUME NEW i \in Nat, i # 0 PROVE f[i] = b * f[i - 1]
        BY <1>3 DEF Follows
      <3>1. i - 1 \in Nat /\ (i - 1) + 1 = i
        OBVIOUS
      <3> QED BY <1>4, <3>1
    <2>2. f \in [Nat -> Nat]
      BY <1>3 DEF Follows
    <2> QED BY <2>1, <2>2 DEF IsPow
  <1> DEFINE g == CHOOSE g : IsPow(g, b)
  <1>6. IsPow(g, b)
    BY <1>5
  <1>7. \A i : Pow(b, i) = g[i]
    BY PowChosen
  <1> HIDE DEF g
  <1>8. g[0] = 1 /\ \A i \in Nat : g[i + 1] = b * g[i]
    <2>1. \A i \in Nat : g[i] = IF i = 0 THEN 1 ELSE b * g[i - 1]
      BY <1>6 DEF IsPow
    <2>2. \A i \in Nat : i + 1 \in Nat /\ i + 1 # 0 /\ (i + 1) - 1 = i
      OBVIOUS
    <2> QED BY <2>1, <2>2
  <1>9. \A i \in Nat : g[i] \in Nat
    <2> DEFINE T == {i \in Nat : g[i] \in Nat}
    <2>1. 0 \in T /\ \A i \in T : i + 1 \in T
      BY <1>8
    <2>2. T \in SUBSET Nat
      OBVIOUS
    <2> HIDE DEF T
    <2>3. T = Nat
      BY <2>1, <2>2, AllNumbers
    <2> QED BY <2>3 DEF T
  <1> QED BY <1>7, <1>8, <1>9

\* The same of the factorials.
LEMMA FactorialIs ==
  /\ factorial[0] = 1
  /\ \A n \in Nat : /\ factorial[n] \in Nat /\ factorial[n] > 0
                    /\ factorial[n + 1] = (n + 1) * factorial[n]
  <1> DEFINE h == [q \in Nat \X Nat |-> (q[1] + 1) * q[2]]
             Is(f) == f = [n \in Nat |-> IF n = 0 THEN 1 ELSE n * f[n - 1]]
  <1>1. h \in StepFunction(Nat)
    BY DEF StepFunction
  <1>2. \A i \in Nat, r \in Nat : h[<<i, r>>] = (i + 1) * r
    OBVIOUS
  <1> HIDE DEF h
  <1>3. PICK f : Follows(f, Nat, 1, h)
    BY <1>1, Recursion
  <1>4. \A i \in Nat : f[i + 1] = (i + 1) * f[i]
    BY <1>2, <1>3 DEF Follows
  <1>5. Is(f)
    <2>1. \A i \in Nat : f[i] = IF i = 0 THEN 1 ELSE i * f[i - 1]
      <3> SUFFICES ASSUME NEW i \in Nat, i # 0 PROVE f[i] = i * f[i - 1]
        BY <1>3 DEF Follows
      <3>1. i - 1 \in Nat /\ (i - 1) + 1 = i
        OBVIOUS
      <3> QED BY <1>4, <3>1
    <2>2. f \in [Nat -> Nat]
      BY <1>3 DEF Follows
    <2> QED BY <2>1, <2>2
  <1>6. Is(factorial)
    <2>1. factorial = CHOOSE g : Is(g)
      BY DEF factorial
    <2> HIDE DEF Is
    <2> QED BY <1>5, <2>1
  <1>7. factorial[0] = 1 /\ \A n \in Nat : factorial[n + 1] = (n + 1) * factorial[n]
    <2>1. \A n \in Nat : factorial[n] = IF n = 0 THEN 1 ELSE n * factorial[n - 1]
      BY <1>6
    <2>2. \A n \in Nat : n + 1 \in Nat /\ n + 1 # 0 /\ (n + 1) - 1 = n
      OBVIOUS
    <2> QED BY <2>1, <2>2
  <1> DEFINE T == {n \in Nat : factorial[n] \in Nat /\ factorial[n] > 0}
  <1>8. 0 \in T
    BY <1>7
  <1>9. ASSUME NEW n \in T PROVE n + 1 \in T
    <2>1. n + 1 \in Nat /\ n + 1 > 0 /\ factorial[n] \in Nat /\ factorial[n] > 0
      OBVIOUS
    <2>2. (n + 1) * factorial[n] \in Nat /\ (n + 1) * factorial[n] > 0
      BY <2>1
    <2> QED BY <1>7, <2>2
  <1>10. T = Nat
    <2>1. T \in SUBSET Nat
      OBVIOUS
    <2> HIDE DEF T
    <2> QED BY <1>8, <1>9, <2>1, AllNumbers
  <1>11. \A n \in Nat : factorial[n] \in Nat /\ factorial[n] > 0
    BY <1>10
  <1> HIDE DEF T
  <1> QED BY <1>7, <1>11

\* The loop of algorand_sum().
IsSum(f, n) ==
    f = [i \in Nat |-> IF i = 0 THEN binary_distribution(0, n)
                       ELSE f[i - 1] + (IF i <= n THEN binary_distribution(i, n) ELSE 0)]

\* Again the definition,
LEMMA SumChosen ==
  ASSUME NEW i, NEW n
  PROVE  algorand_sum(i, n) = (CHOOSE f : IsSum(f, n))[i]
  BY DEF algorand_sum, IsSum

\* and that there is such a function.
LEMMA SumIs ==
  ASSUME NEW n \in Nat, \A i \in 0 .. n : binary_distribution(i, n) \in Nat
  PROVE  /\ algorand_sum(0, n) = binary_distribution(0, n)
         /\ \A i \in Nat :
               /\ algorand_sum(i, n) \in Nat
               /\ algorand_sum(i + 1, n) =
                     algorand_sum(i, n)
                         + (IF i + 1 <= n THEN binary_distribution(i + 1, n) ELSE 0)
  <1> DEFINE b(i) == IF i <= n THEN binary_distribution(i, n) ELSE 0
             h == [q \in Nat \X Nat |-> q[2] + b(q[1] + 1)]
  <1>0. (\A i \in Nat : b(i) \in Nat) /\ b(0) = binary_distribution(0, n)
    OBVIOUS
  <1>00. \A f : IsSum(f, n) <=>
            f = [i \in Nat |-> IF i = 0 THEN binary_distribution(0, n) ELSE f[i - 1] + b(i)]
    BY DEF IsSum
  <1> HIDE DEF b
  <1>1. h \in StepFunction(Nat)
    BY <1>0 DEF StepFunction
  <1>2. \A i \in Nat, r \in Nat : h[<<i, r>>] = r + b(i + 1)
    OBVIOUS
  <1> HIDE DEF h
  <1>3. PICK f : Follows(f, Nat, b(0), h)
    BY <1>0, <1>1, Recursion
  <1>4. \A i \in Nat : f[i + 1] = f[i] + b(i + 1)
    BY <1>2, <1>3 DEF Follows
  <1>5. IsSum(f, n)
    <2>1. \A i \in Nat : f[i] = IF i = 0 THEN binary_distribution(0, n) ELSE f[i - 1] + b(i)
      <3> SUFFICES ASSUME NEW i \in Nat, i # 0 PROVE f[i] = f[i - 1] + b(i)
        BY <1>0, <1>3 DEF Follows
      <3>1. i - 1 \in Nat /\ (i - 1) + 1 = i
        OBVIOUS
      <3> QED BY <1>4, <3>1
    <2>2. f \in [Nat -> Nat]
      BY <1>3 DEF Follows
    <2> QED BY <1>00, <2>1, <2>2
  <1> DEFINE g == CHOOSE g : IsSum(g, n)
  <1>6. IsSum(g, n)
    BY <1>5
  <1>7. \A i : algorand_sum(i, n) = g[i]
    BY SumChosen
  <1> HIDE DEF g
  <1>8. g[0] = b(0) /\ \A i \in Nat : g[i + 1] = g[i] + b(i + 1)
    <2>1. \A i \in Nat : g[i] = IF i = 0 THEN binary_distribution(0, n) ELSE g[i - 1] + b(i)
      BY <1>00, <1>6
    <2>2. \A i \in Nat : i + 1 \in Nat /\ i + 1 # 0 /\ (i + 1) - 1 = i
      OBVIOUS
    <2> QED BY <1>0, <2>1, <2>2
  <1>9. \A i \in Nat : g[i] \in Nat
    <2> DEFINE T == {i \in Nat : g[i] \in Nat}
    <2>1. 0 \in T /\ \A i \in T : i + 1 \in T
      BY <1>0, <1>8
    <2>2. T \in SUBSET Nat
      OBVIOUS
    <2> HIDE DEF T
    <2>3. T = Nat
      BY <2>1, <2>2, AllNumbers
    <2> QED BY <2>3 DEF T
  <1> QED BY <1>0, <1>7, <1>8, <1>9 DEF b

-----------------------------------------------------------------------------
(* Binomial coefficients *)

\* What a quotient is when nothing remains.
LEMMA Divided ==
  ASSUME NEW a \in Nat, NEW b \in Nat, NEW c \in Nat, b > 0, a = c * b
  PROVE  a \div b = c
  OBVIOUS

\* The arithmetic of the next lemma but one.
LEMMA PascalSum ==
  ASSUME NEW a \in Nat, NEW b \in Nat, NEW c \in Nat, NEW d \in Nat,
         NEW k \in Nat, NEW m \in Nat, NEW x \in Nat,
         x = c * (a * (m * b)), x = d * ((k * a) * b)
  PROVE  (k + m) * x = (c + d) * ((k * a) * (m * b))
  <1>1. k * x = c * ((k * a) * (m * b))
    <2>1. k * (c * (a * (m * b))) = c * ((k * a) * (m * b))
      OBVIOUS
    <2> QED BY <2>1
  <1>2. m * x = d * ((k * a) * (m * b))
    <2>1. m * (d * ((k * a) * b)) = d * ((k * a) * (m * b))
      OBVIOUS
    <2> QED BY <2>1
  <1> DEFINE y == (k * a) * (m * b)
  <1>3. y \in Nat
    OBVIOUS
  <1>4. k * x = c * y /\ m * x = d * y
    BY <1>1, <1>2
  <1> HIDE DEF y
  <1>5. (k + m) * x = k * x + m * x /\ (c + d) * y = c * y + d * y
    BY <1>3
  <1> QED BY <1>4, <1>5 DEF y

\* What choose() divides by is not 0.
LEMMA ProductOfFactorials ==
  ASSUME NEW n \in Nat, NEW k \in 0 .. n
  PROVE  factorial[k] * factorial[n - k] \in Nat /\ factorial[k] * factorial[n - k] > 0
  <1> DEFINE a == factorial[k]
             b == factorial[n - k]
  <1>1. a \in Nat /\ a > 0 /\ b \in Nat /\ b > 0
    <2>1. k \in Nat /\ n - k \in Nat
      OBVIOUS
    <2> QED BY <2>1, FactorialIs
  <1> HIDE DEF a, b
  <1>2. a * b \in Nat /\ a * b > 0
    BY <1>1
  <1> QED BY <1>2 DEF a, b

\* Two coefficients of a row make one of the next, in terms of factorials.
LEMMA PascalFactorials ==
  ASSUME NEW n \in Nat, NEW k \in 1 .. n, NEW c \in Nat, NEW d \in Nat,
         factorial[n] = c * (factorial[k - 1] * factorial[n - (k - 1)]),
         factorial[n] = d * (factorial[k] * factorial[n - k])
  PROVE  factorial[n + 1] = (c + d) * (factorial[k] * factorial[(n + 1) - k])
  <1> DEFINE a == factorial[k - 1]
             b == factorial[n - k]
             m == (n - k) + 1
  <1>1. k - 1 \in Nat /\ n - k \in Nat /\ m \in Nat /\ k \in Nat
        /\ (k - 1) + 1 = k /\ n - (k - 1) = m /\ (n + 1) - k = m /\ n + 1 = k + m
    OBVIOUS
  <1>2. a \in Nat /\ b \in Nat /\ factorial[n] \in Nat
    BY <1>1, FactorialIs
  <1>3. factorial[k] = k * a
    <2>1. factorial[(k - 1) + 1] = ((k - 1) + 1) * factorial[k - 1]
      BY <1>1, FactorialIs
    <2> QED BY <1>1, <2>1
  <1>4. factorial[m] = m * b
    BY <1>1, FactorialIs
  <1>5. factorial[n + 1] = (n + 1) * factorial[n]
    BY FactorialIs
  <1>6. factorial[n] = c * (a * (m * b)) /\ factorial[n] = d * ((k * a) * b)
    BY <1>1, <1>3, <1>4
  <1>7. (n + 1) - k = m /\ n + 1 = k + m /\ m \in Nat /\ k \in Nat
    BY <1>1
  <1> HIDE DEF a, b, m
  <1>8. (k + m) * factorial[n] = (c + d) * ((k * a) * (m * b))
    BY <1>2, <1>6, <1>7, PascalSum
  <1> QED BY <1>3, <1>4, <1>5, <1>7, <1>8

\* The quotient of choose() is a whole number.
LEMMA ChooseIs ==
  ASSUME NEW n \in Nat, NEW k \in 0 .. n
  PROVE  /\ choose(n, k) \in Nat
         /\ factorial[n] = choose(n, k) * (factorial[k] * factorial[n - k])
  <1> DEFINE T == {i \in Nat : \A l \in 0 .. i : \E c \in Nat :
                      factorial[i] = c * (factorial[l] * factorial[i - l])}
  <1>1. ASSUME NEW i \in Nat, NEW l \in {0, i}
        PROVE  factorial[i] = 1 * (factorial[l] * factorial[i - l])
    <2>1. factorial[0] = 1 /\ factorial[i] \in Nat
      BY FactorialIs
    <2>2. CASE l = 0
      <3>1. i - l = i
        BY <2>2
      <3> QED BY <2>1, <2>2, <3>1
    <2>3. CASE l = i
      <3>1. i - l = 0
        BY <2>3
      <3> QED BY <2>1, <2>3, <3>1
    <2> QED BY <2>2, <2>3
  <1>2. 0 \in T
    BY <1>1
  <1>3. ASSUME NEW i \in T PROVE i + 1 \in T
    <2> SUFFICES ASSUME NEW l \in 0 .. i + 1
                 PROVE  \E c \in Nat :
                          factorial[i + 1] = c * (factorial[l] * factorial[(i + 1) - l])
      OBVIOUS
    <2>1. CASE l \in {0, i + 1}
      BY <1>1, <2>1
    <2>2. CASE l \notin {0, i + 1}
      <3>1. i \in Nat /\ l \in 1 .. i /\ l - 1 \in 0 .. i /\ l \in 0 .. i
        BY <2>2
      <3>2. PICK c \in Nat : factorial[i] = c * (factorial[l - 1] * factorial[i - (l - 1)])
        BY <3>1
      <3>3. PICK d \in Nat : factorial[i] = d * (factorial[l] * factorial[i - l])
        BY <3>1
      <3>4. factorial[i + 1] = (c + d) * (factorial[l] * factorial[(i + 1) - l])
        BY <3>1, <3>2, <3>3, PascalFactorials
      <3> QED BY <3>4
    <2> QED BY <2>1, <2>2
  <1>4. T = Nat
    <2>1. T \in SUBSET Nat
      OBVIOUS
    <2> HIDE DEF T
    <2> QED BY <1>2, <1>3, <2>1, AllNumbers
  <1>5. PICK c \in Nat : factorial[n] = c * (factorial[k] * factorial[n - k])
    BY <1>4
  <1> HIDE DEF T
  <1>6. choose(n, k) = c
    BY <1>5, ProductOfFactorials, FactorialIs, Divided DEF choose
  <1> QED BY <1>5, <1>6

\* The first and the last of a row are 1.
LEMMA ChooseEnds ==
  ASSUME NEW n \in Nat
  PROVE  choose(n, 0) = 1 /\ choose(n, n) = 1
  <1>1. factorial[0] = 1 /\ factorial[n] \in Nat /\ factorial[n] > 0
    BY FactorialIs
  <1>2. n - 0 = n /\ n - n = 0
    OBVIOUS
  <1>3. factorial[n] \div factorial[n] = 1
    BY <1>1, Divided
  <1>4. factorial[0] * factorial[n] = factorial[n] /\ factorial[n] * factorial[0] = factorial[n]
    BY <1>1
  <1> QED BY <1>2, <1>3, <1>4 DEF choose

\* Pascal's triangle.
LEMMA Pascal ==
  ASSUME NEW n \in Nat, NEW k \in 1 .. n
  PROVE  choose(n + 1, k) = choose(n, k - 1) + choose(n, k)
  <1> DEFINE c == choose(n, k - 1)
             d == choose(n, k)
  <1>1. k - 1 \in 0 .. n /\ k \in 0 .. n /\ k \in 0 .. n + 1 /\ n + 1 \in Nat
    OBVIOUS
  <1>2. /\ c \in Nat /\ d \in Nat
        /\ factorial[n] = c * (factorial[k - 1] * factorial[n - (k - 1)])
        /\ factorial[n] = d * (factorial[k] * factorial[n - k])
    BY <1>1, ChooseIs
  <1> HIDE DEF c, d
  <1>3. factorial[n + 1] = (c + d) * (factorial[k] * factorial[(n + 1) - k])
    BY <1>2, PascalFactorials
  <1>4. choose(n + 1, k) = c + d
    <2> DEFINE x == factorial[k] * factorial[(n + 1) - k]
    <2>1. x \in Nat /\ x > 0
      BY <1>1, ProductOfFactorials
    <2>2. factorial[n + 1] \in Nat /\ c + d \in Nat
      BY <1>1, <1>2, FactorialIs
    <2>3. factorial[n + 1] \div x = c + d
      <3>1. factorial[n + 1] = (c + d) * x
        BY <1>3
      <3> HIDE DEF x
      <3> QED BY <2>1, <2>2, <3>1, Divided
    <2> QED BY <2>3 DEF choose
  <1> QED BY <1>4 DEF c, d

-----------------------------------------------------------------------------
(* The distribution *)

\* How many of the Currency coins win and lose; the chances of exactly k wins
\* among n coins, and of no more than k.
Winning == Threshold
Losing == Currency - Threshold
Exactly(k, n) == binary_distribution(k, n)
UpTo(k, n) == algorand_sum(k, n)

\* What the constants are.
LEMMA CoinsType ==
  /\ Winning \in Nat /\ Winning > 0 /\ Losing \in Nat /\ Losing > 0
  /\ Currency \in Nat /\ Currency = Winning + Losing
  /\ HashRange \in Nat /\ HashRange > 0
  BY LotteryAssumption DEF Winning, Losing

\* The chances are numbers, in units of Currency^-n.
LEMMA DistributionIs ==
  ASSUME NEW n \in Nat, NEW k \in 0 .. n
  PROVE  /\ Exactly(k, n) = choose(n, k) * (Pow(Winning, k) * Pow(Losing, n - k))
         /\ Pow(Winning, k) \in Nat /\ Pow(Losing, n - k) \in Nat
         /\ Exactly(k, n) \in Nat
  <1>1. k \in Nat /\ n - k \in Nat /\ ~(k > n)
    OBVIOUS
  <1>2. Pow(Winning, k) \in Nat /\ Pow(Losing, n - k) \in Nat
    BY <1>1, CoinsType, PowIs
  <1>3. Exactly(k, n) = choose(n, k) * (Pow(Winning, k) * Pow(Losing, n - k))
    BY <1>1 DEF Exactly, binary_distribution, nCr, Winning, Losing
  <1>4. choose(n, k) \in Nat
    BY ChooseIs
  <1>5. choose(n, k) * (Pow(Winning, k) * Pow(Losing, n - k)) \in Nat
    BY <1>2, <1>4
  <1> QED BY <1>2, <1>3, <1>5

\* The sums of them.
LEMMA Sums ==
  ASSUME NEW n \in Nat
  PROVE  /\ UpTo(0, n) = Exactly(0, n)
         /\ \A k \in Nat :
               /\ UpTo(k, n) \in Nat
               /\ UpTo(k + 1, n) = UpTo(k, n) + (IF k + 1 <= n THEN Exactly(k + 1, n) ELSE 0)
  <1>1. \A k \in 0 .. n : binary_distribution(k, n) \in Nat
    BY DistributionIs DEF Exactly
  <1> QED BY <1>1, SumIs DEF UpTo, Exactly

\* The arithmetic of the next lemma.
LEMMA Factors ==
  ASSUME NEW c \in Nat, NEW d \in Nat, NEW x \in Nat, NEW y \in Nat,
         NEW t \in Nat, NEW q \in Nat
  PROVE  (c + d) * ((t * x) * (q * y)) = t * (c * (x * (q * y))) + q * (d * ((t * x) * y))
  OBVIOUS

\* One more coin: either it wins and one win less is wanted of the others, or
\* it does not.
LEMMA OneMoreCoin ==
  ASSUME NEW n \in Nat
  PROVE  /\ Exactly(0, n + 1) = Losing * Exactly(0, n)
         /\ \A k \in 1 .. n :
               Exactly(k, n + 1) = Winning * Exactly(k - 1, n) + Losing * Exactly(k, n)
  <1>0. n + 1 \in Nat /\ (n + 1) - 0 = n + 1 /\ n - 0 = n /\ 0 \in 0 .. n /\ 0 \in 0 .. n + 1
    OBVIOUS
  <1>1. Exactly(0, n + 1) = Losing * Exactly(0, n)
    <2>1. choose(n, 0) = 1 /\ choose(n + 1, 0) = 1
      BY <1>0, ChooseEnds
    <2>2. /\ Pow(Winning, 0) = 1
          /\ Pow(Losing, n + 1) = Losing * Pow(Losing, n) /\ Pow(Losing, n) \in Nat
      BY CoinsType, PowIs
    <2>3. /\ Exactly(0, n) = 1 * (1 * Pow(Losing, n))
          /\ Exactly(0, n + 1) = 1 * (1 * (Losing * Pow(Losing, n)))
      BY <1>0, <2>1, <2>2, DistributionIs
    <2>4. Losing * Pow(Losing, n) \in Nat
      BY <2>2, CoinsType
    <2> QED BY <2>2, <2>3, <2>4
  <1>2. ASSUME NEW k \in 1 .. n
        PROVE  Exactly(k, n + 1) = Winning * Exactly(k - 1, n) + Losing * Exactly(k, n)
    <2> DEFINE c == choose(n, k - 1)
               d == choose(n, k)
               x == Pow(Winning, k - 1)
               y == Pow(Losing, n - k)
    <2>1. /\ k \in Nat /\ k - 1 \in Nat /\ (k - 1) + 1 = k /\ n - k \in Nat
          /\ (n + 1) - k = (n - k) + 1 /\ n - (k - 1) = (n - k) + 1
          /\ k \in 0 .. n /\ k - 1 \in 0 .. n /\ k \in 0 .. n + 1
      OBVIOUS
    <2>2. c \in Nat /\ d \in Nat /\ x \in Nat /\ y \in Nat
      BY <2>1, ChooseIs, PowIs, CoinsType
    <2>3. Pow(Winning, k) = Winning * x
      <3>1. Pow(Winning, (k - 1) + 1) = Winning * Pow(Winning, k - 1)
        BY <2>1, PowIs, CoinsType
      <3> QED BY <2>1, <3>1
    <2>4. Pow(Losing, (n - k) + 1) = Losing * y
      BY <2>1, PowIs, CoinsType
    <2>5. choose(n + 1, k) = c + d
      BY Pascal
    <2>6. Exactly(k, n + 1) = (c + d) * ((Winning * x) * (Losing * y))
      BY <1>0, <2>1, <2>3, <2>4, <2>5, DistributionIs
    <2>7. Exactly(k - 1, n) = c * (x * (Losing * y))
      BY <2>1, <2>4, DistributionIs
    <2>8. Exactly(k, n) = d * ((Winning * x) * y)
      BY <2>1, <2>3, DistributionIs
    <2> HIDE DEF c, d, x, y
    <2> QED BY <2>2, <2>6, <2>7, <2>8, CoinsType, Factors
  <1> QED BY <1>1, <1>2

\* So the chance of no more than k wins is less by that of exactly k and one
\* more win.
LEMMA SumsOfOneMore ==
  ASSUME NEW n \in Nat, NEW k \in 0 .. n
  PROVE  UpTo(k, n + 1) + Winning * Exactly(k, n) = Currency * UpTo(k, n)
  <1> DEFINE A == {i \in Nat : i =< n =>
                      UpTo(i, n + 1) + Winning * Exactly(i, n) = Currency * UpTo(i, n)}
  <1>1. 0 \in A
    <2>1. UpTo(0, n + 1) = Losing * Exactly(0, n) /\ UpTo(0, n) = Exactly(0, n)
      BY Sums, OneMoreCoin
    <2>2. Exactly(0, n) \in Nat
      BY DistributionIs
    <2>3. Losing * Exactly(0, n) + Winning * Exactly(0, n) = (Winning + Losing) * Exactly(0, n)
      BY <2>2, CoinsType
    <2>4. Losing * Exactly(0, n) + Winning * Exactly(0, n) = Currency * Exactly(0, n)
      BY <2>3, CoinsType
    <2> QED BY <2>1, <2>4
  <1>2. ASSUME NEW i \in A PROVE i + 1 \in A
    <2> SUFFICES ASSUME i + 1 =< n
                 PROVE  UpTo(i + 1, n + 1) + Winning * Exactly(i + 1, n)
                            = Currency * UpTo(i + 1, n)
      OBVIOUS
    <2> DEFINE s == UpTo(i, n)
               r == UpTo(i, n + 1)
               x == Exactly(i, n)
               y == Exactly(i + 1, n)
    <2>1. i \in Nat /\ i + 1 \in 1 .. n /\ (i + 1) - 1 = i /\ i =< n /\ i \in 0 .. n
          /\ i + 1 \in 0 .. n /\ i + 1 =< n + 1
      OBVIOUS
    <2>2. r + Winning * x = Currency * s
      BY <2>1
    <2>3. s \in Nat /\ r \in Nat /\ x \in Nat /\ y \in Nat
      BY <2>1, Sums, DistributionIs
    <2>4. UpTo(i + 1, n) = s + y
      BY <2>1, Sums
    <2>5. Exactly(i + 1, n + 1) = Winning * x + Losing * y
      BY <2>1, OneMoreCoin
    <2>6. UpTo(i + 1, n + 1) = r + (Winning * x + Losing * y)
      BY <2>1, <2>5, Sums
    <2> HIDE DEF s, r, x, y
    <2>7. /\ Losing * y + Winning * y = Currency * y
          /\ Losing * y \in Nat /\ Winning * y \in Nat /\ Winning * x \in Nat
      <3>1. (Winning + Losing) * y = Losing * y + Winning * y
        BY <2>3, CoinsType
      <3> QED BY <2>3, <3>1, CoinsType
    <2>8. Currency * (s + y) = Currency * s + Currency * y
      BY <2>3, CoinsType
    <2> DEFINE p == Losing * y
               q == Winning * y
               o == Winning * x
               u == Currency * s
               v == Currency * y
    <2>9. u \in Nat /\ v \in Nat
      BY <2>3, CoinsType
    <2>10. r + o = u /\ p + q = v /\ p \in Nat /\ q \in Nat /\ o \in Nat
      BY <2>2, <2>7
    <2>11. UpTo(i + 1, n + 1) + Winning * y = (r + (o + p)) + q
      BY <2>6
    <2>12. Currency * UpTo(i + 1, n) = u + v
      BY <2>4, <2>8
    <2> HIDE DEF p, q, o, u, v
    <2>13. (r + (o + p)) + q = u + v
      BY <2>3, <2>9, <2>10
    <2>14. UpTo(i + 1, n + 1) + Winning * y = Currency * UpTo(i + 1, n)
      BY <2>11, <2>12, <2>13
    <2> QED BY <2>14 DEF y
  <1>3. A = Nat
    <2>1. A \in SUBSET Nat
      OBVIOUS
    <2> HIDE DEF A
    <2> QED BY <1>1, <1>2, <2>1, AllNumbers
  <1> QED BY <1>3

-----------------------------------------------------------------------------
(* Where the hash falls *)

\* A sum over one more term is no smaller.
LEMMA SumGrows ==
  ASSUME NEW n \in Nat, NEW k \in Nat
  PROVE  UpTo(k, n) =< UpTo(k + 1, n)
  <1>1. k + 1 \in Nat
    OBVIOUS
  <1>2. k + 1 <= n => Exactly(k + 1, n) \in Nat
    <2>1. k + 1 <= n => k + 1 \in 0 .. n
      BY <1>1
    <2> QED BY <2>1, DistributionIs
  <1>3. /\ UpTo(k, n) \in Nat
        /\ UpTo(k + 1, n) = UpTo(k, n) + (IF k + 1 <= n THEN Exactly(k + 1, n) ELSE 0)
    BY Sums
  <1> QED BY <1>2, <1>3

\* A longer sum is no smaller.
LEMMA SumsGrow ==
  ASSUME NEW n \in Nat, NEW k \in Nat, NEW l \in Nat, k =< l
  PROVE  UpTo(k, n) =< UpTo(l, n)
  <1> DEFINE A == {i \in Nat : UpTo(k, n) =< UpTo(k + i, n)}
  <1>1. 0 \in A
    <2>1. k + 0 = k
      OBVIOUS
    <2> QED BY <2>1, Sums
  <1>2. ASSUME NEW i \in A PROVE i + 1 \in A
    <2>1. k + i \in Nat /\ k + (i + 1) = (k + i) + 1 /\ i + 1 \in Nat
      OBVIOUS
    <2>2. UpTo(k + i, n) =< UpTo((k + i) + 1, n)
      BY <2>1, SumGrows
    <2>3. UpTo(k, n) \in Nat /\ UpTo(k + i, n) \in Nat /\ UpTo((k + i) + 1, n) \in Nat
      BY <2>1, Sums
    <2>4. UpTo(k, n) =< UpTo(k + i, n)
      OBVIOUS
    <2>5. UpTo(k, n) =< UpTo(k + (i + 1), n)
      BY <2>1, <2>2, <2>3, <2>4
    <2> QED BY <2>1, <2>5
  <1>3. A = Nat
    <2>1. A \in SUBSET Nat
      OBVIOUS
    <2> HIDE DEF A
    <2> QED BY <1>1, <1>2, <2>1, AllNumbers
  <1>4. l - k \in Nat /\ k + (l - k) = l
    OBVIOUS
  <1>5. l - k \in A
    BY <1>3, <1>4
  <1> QED BY <1>4, <1>5

\* Products of larger numbers.
LEMMA TimesGrows ==
  ASSUME NEW a \in Nat, NEW c \in Nat, NEW d \in Nat, c =< d
  PROVE  a * c =< a * d /\ a * c \in Nat /\ a * d \in Nat
  OBVIOUS

\* A hash below one sum is below longer ones.
LEMMA BelowLonger ==
  ASSUME upper \in Nat, NEW n \in Nat, NEW k \in Nat, NEW l \in Nat, k =< l, HashBelow(k, n)
  PROVE  HashBelow(l, n)
  <1> DEFINE x == upper * Pow(Currency, n)
             y == HashRange * UpTo(k, n)
             z == HashRange * UpTo(l, n)
  <1>1. x \in Nat
    <2>1. Pow(Currency, n) \in Nat
      BY CoinsType, PowIs
    <2> QED BY <2>1
  <1>2. y =< z /\ y \in Nat /\ z \in Nat
    BY CoinsType, SumsGrow, Sums, TimesGrows
  <1>3. x < y
    BY DEF HashBelow, UpTo
  <1> HIDE DEF x, y, z
  <1>4. x < z
    BY <1>1, <1>2, <1>3
  <1> QED BY <1>4 DEF HashBelow, UpTo, x, z

\* A hash that is not below the chance of no more than k wins is not below it
\* when there is one coin more.
LEMMA NotBelowOneMore ==
  ASSUME upper \in Nat, NEW n \in Nat, NEW k \in 0 .. n, ~HashBelow(k, n)
  PROVE  ~HashBelow(k, n + 1)
  <1> DEFINE p == Pow(Currency, n)
             s == UpTo(k, n)
             r == UpTo(k, n + 1)
             e == Winning * Exactly(k, n)
             W == Currency
             H == HashRange
             u == upper
  <1>1. k \in Nat /\ n + 1 \in Nat
    OBVIOUS
  <1>2. p \in Nat /\ s \in Nat /\ r \in Nat /\ e \in Nat /\ W \in Nat /\ H \in Nat /\ u \in Nat
    <2>1. p \in Nat /\ W \in Nat /\ H \in Nat
      BY CoinsType, PowIs
    <2>2. s \in Nat /\ r \in Nat
      BY <1>1, Sums
    <2>3. e \in Nat
      <3>1. Exactly(k, n) \in Nat
        BY DistributionIs
      <3> QED BY <3>1, CoinsType
    <2> QED BY <2>1, <2>2, <2>3
  <1>3. r + e = W * s
    BY SumsOfOneMore
  <1>4. Pow(Currency, n + 1) = W * p
    BY CoinsType, PowIs
  <1>5. ~(u * p < H * s)
    BY DEF HashBelow, UpTo
  <1>6. ~(u * (W * p) < H * r) => ~HashBelow(k, n + 1)
    BY <1>4 DEF HashBelow, UpTo
  <1> HIDE DEF p, s, r, e, W, H, u
  <1>7. r =< W * s
    <2>1. W * s \in Nat
      BY <1>2
    <2> QED BY <1>2, <1>3, <2>1
  <1>8. H * r =< H * (W * s)
    <2>1. W * s \in Nat
      BY <1>2
    <2> QED BY <1>2, <1>7, <2>1, TimesGrows
  <1>9. W * (H * s) =< W * (u * p)
    <2>1. u * p \in Nat /\ H * s \in Nat
      BY <1>2
    <2>2. H * s =< u * p
      BY <1>5, <2>1
    <2> QED BY <1>2, <2>1, <2>2, TimesGrows
  <1>10. W * (H * s) = H * (W * s) /\ W * (u * p) = u * (W * p)
    BY <1>2
  <1>11. H * r \in Nat /\ H * (W * s) \in Nat /\ u * (W * p) \in Nat
    BY <1>2
  <1>12. H * r =< u * (W * p)
    BY <1>8, <1>9, <1>10, <1>11
  <1>13. ~(u * (W * p) < H * r)
    BY <1>11, <1>12
  <1> QED BY <1>6, <1>13

\* Nor when there are many more.
LEMMA NotBelowMore ==
  ASSUME upper \in Nat, NEW n \in Nat, NEW m \in Nat, n =< m, NEW k \in 0 .. n, ~HashBelow(k, n)
  PROVE  ~HashBelow(k, m)
  <1> DEFINE A == {i \in Nat : ~HashBelow(k, n + i)}
  <1>1. 0 \in A
    <2>1. n + 0 = n
      OBVIOUS
    <2> QED BY <2>1
  <1>2. ASSUME NEW i \in A PROVE i + 1 \in A
    <2>1. n + i \in Nat /\ n + (i + 1) = (n + i) + 1 /\ k \in 0 .. n + i /\ i + 1 \in Nat
      OBVIOUS
    <2>2. ~HashBelow(k, (n + i) + 1)
      BY <2>1, NotBelowOneMore
    <2> QED BY <2>1, <2>2
  <1>3. A = Nat
    <2>1. A \in SUBSET Nat
      OBVIOUS
    <2> HIDE DEF A
    <2> QED BY <1>1, <1>2, <2>1, AllNumbers
  <1>4. m - n \in Nat /\ n + (m - n) = m
    OBVIOUS
  <1>5. m - n \in A
    BY <1>3, <1>4
  <1> QED BY <1>4, <1>5

\* What ends the loops: the hash is in the interval of k wins.
Found(k, n) == ~HashBelow(k, n) /\ HashBelow(k + 1, n)

\* The condition of the while loops, negated.
LEMMA LoopEnds == \A n : ~Outside(n) <=> Found(j, n)
  BY DEF Outside, Found

\* No more coins win than there are, and k is the number that the sums say.
LEMMA FoundIsQuantile ==
  ASSUME upper \in Nat, NEW n \in Nat, NEW k \in Nat, Found(k, n)
  PROVE  k < n /\ k = Wins(n) - 1
  <1>1. k < n
    <2> SUFFICES ASSUME ~(k < n) PROVE FALSE
      OBVIOUS
    <2>1. ~(k + 1 =< n)
      OBVIOUS
    <2>2. UpTo(k + 1, n) = UpTo(k, n)
      BY <2>1, Sums
    <2> QED BY <2>2 DEF Found, HashBelow, UpTo
  <1>2. {i \in 0 .. n - 1 : ~HashBelow(i, n)} = 0 .. k
    <2>1. ASSUME NEW i \in 0 .. n - 1, ~HashBelow(i, n) PROVE i \in 0 .. k
      <3>1. k + 1 \in Nat /\ i \in Nat /\ (i \in 0 .. k \/ k + 1 =< i)
        OBVIOUS
      <3> QED BY <2>1, <3>1, BelowLonger DEF Found
    <2>2. ASSUME NEW i \in 0 .. k PROVE i \in 0 .. n - 1 /\ ~HashBelow(i, n)
      <3>1. i \in Nat /\ i =< k
        OBVIOUS
      <3> QED BY <1>1, <3>1, BelowLonger DEF Found
    <2> QED BY <2>1, <2>2
  <1>3. Cardinality(0 .. k) = k + 1
    BY FS_Interval
  <1>4. Wins(n) = k + 1
    BY <1>2, <1>3 DEF Wins
  <1> QED BY <1>1, <1>4

-----------------------------------------------------------------------------
(* The theorems *)

\* Each loop has ended where the hash is; from there to the properties it is
\* arithmetic.
LotteryInv ==
    /\ TypeOK
    /\ at \in {"verify", "done"} => Found(drawn, w)
    /\ at = "done" => Found(j, known)

\* The invariant holds when the loops have not begun.
LEMMA InitLottery == Init => LotteryInv
  <1> SUFFICES ASSUME Init PROVE LotteryInv
    OBVIOUS
  <1>1. TypeOK
    BY DEF Init, TypeOK
  <1>2. at = "sortition"
    BY DEF Init
  <1> QED BY <1>1, <1>2 DEF LotteryInv

\* Found speaks of the hash alone.
LEMMA FoundStays ==
  ASSUME UNCHANGED upper
  PROVE  \A k, n : Found(k, n)' <=> Found(k, n)
  BY DEF Found, HashBelow

\* A turn of either loop, and the return of each, keep it.
LEMMA NextLottery == LotteryInv /\ [Next]_vars => LotteryInv'
  <1> SUFFICES ASSUME LotteryInv, [Next]_vars PROVE LotteryInv'
    OBVIOUS
  <1>1. CASE UNCHANGED vars
    BY <1>1 DEF vars, LotteryInv, TypeOK, Found, HashBelow
  <1>2. CASE SortitionTurn
    <2>1. /\ at = "sortition" /\ UNCHANGED <<upper, w, known, at, drawn>>
          /\ j' = IF j > w THEN j ELSE j + 1
      BY <1>2 DEF SortitionTurn, Turn
    <2>2. TypeOK'
      BY <2>1 DEF LotteryInv, TypeOK
    <2> QED BY <2>1, <2>2 DEF LotteryInv
  <1>3. CASE SortitionReturn
    <2>1. /\ at' = "verify" /\ drawn' = j /\ j' = 0 /\ UNCHANGED <<upper, w, known>>
          /\ ~Outside(w)
      BY <1>3 DEF SortitionReturn
    <2>2. TypeOK'
      BY <2>1 DEF LotteryInv, TypeOK
    <2>3. Found(drawn, w)'
      BY <2>1, LoopEnds DEF Found, HashBelow
    <2> QED BY <2>1, <2>2, <2>3 DEF LotteryInv
  <1>4. CASE VerifyTurn
    <2>1. /\ at = "verify" /\ UNCHANGED <<upper, w, known, at, drawn>>
          /\ j' = IF j > known THEN j ELSE j + 1
      BY <1>4 DEF VerifyTurn, Turn
    <2>2. TypeOK'
      BY <2>1 DEF LotteryInv, TypeOK
    <2>3. Found(drawn, w)'
      BY <2>1 DEF LotteryInv, Found, HashBelow
    <2> QED BY <2>1, <2>2, <2>3 DEF LotteryInv
  <1>5. CASE VerifyReturn
    <2>1. /\ at = "verify" /\ at' = "done" /\ UNCHANGED <<upper, w, known, j, drawn>>
          /\ ~Outside(known)
      BY <1>5 DEF VerifyReturn
    <2>2. TypeOK'
      BY <2>1 DEF LotteryInv, TypeOK
    <2>3. Found(drawn, w)' /\ Found(j, known)'
      BY <2>1, LoopEnds DEF LotteryInv, Found, HashBelow
    <2> QED BY <2>1, <2>2, <2>3 DEF LotteryInv
  <1>6. CASE Done
    BY <1>6 DEF Done, vars, LotteryInv, TypeOK, Found, HashBelow
  <1> QED BY <1>1, <1>2, <1>3, <1>4, <1>5, <1>6 DEF Next

\* So it holds in every state.
LEMMA LotteryAlways == Spec => []LotteryInv
  BY InitLottery, NextLottery, PTL DEF Spec

\* The counters of the loops stay numbers.
THEOREM LotteryTypes == Spec => []TypeOK
  <1>1. LotteryInv => TypeOK
    BY DEF LotteryInv
  <1> QED BY <1>1, LotteryAlways, PTL

\* What sortition() returns, and what verify() finds, is the quantile of the
\* hash, whatever the wallets, the threshold and the precision of the hash.
THEOREM LotteryDrawsTheQuantile == Spec => []DrawsTheQuantile
  <1>1. LotteryInv => DrawsTheQuantile
    <2> SUFFICES ASSUME LotteryInv PROVE DrawsTheQuantile
      OBVIOUS
    <2>1. upper \in Nat /\ w \in Nat /\ known \in Nat /\ j \in Nat /\ drawn \in Nat
      BY LotteryAssumption DEF LotteryInv, TypeOK
    <2>2. at \in {"verify", "done"} => drawn = Wins(w) - 1
      BY <2>1, FoundIsQuantile DEF LotteryInv
    <2>3. at = "done" => j = Wins(known) - 1
      BY <2>1, FoundIsQuantile DEF LotteryInv
    <2> QED BY <2>2, <2>3 DEF DrawsTheQuantile
  <1> QED BY <1>1, LotteryAlways, PTL

\* A verifier with the prover's wallet finds what was claimed, and one that
\* takes the prover for richer no less: with more coins the chance of few wins
\* only falls.
THEOREM VerifierAgrees == Spec => []VerifyAgrees
  <1>1. LotteryInv => VerifyAgrees
    <2> SUFFICES ASSUME LotteryInv, at = "done"
                 PROVE  (known = w => j = drawn) /\ (known > w => j >= drawn)
      BY DEF VerifyAgrees
    <2>1. upper \in Nat /\ w \in Nat /\ known \in Nat /\ j \in Nat /\ drawn \in Nat
      BY LotteryAssumption DEF LotteryInv, TypeOK
    <2>2. Found(drawn, w) /\ Found(j, known)
      BY DEF LotteryInv
    <2>3. known = w => j = drawn
      BY <2>1, <2>2, FoundIsQuantile
    <2>4. ASSUME known > w PROVE j >= drawn
      <3>1. drawn \in 0 .. w
        BY <2>1, <2>2, FoundIsQuantile
      <3>2. ~HashBelow(drawn, known)
        BY <2>1, <2>2, <2>4, <3>1, NotBelowMore DEF Found
      <3>3. ~(j + 1 =< drawn)
        BY <2>1, <2>2, <3>2, BelowLonger DEF Found
      <3> QED BY <2>1, <3>3
    <2> QED BY <2>3, <2>4
  <1> QED BY <1>1, LotteryAlways, PTL

=============================================================================
