----------------------------- MODULE WireProofs -----------------------------
(* Theorems about Wire, for any messages that fit their classes. *)
EXTENDS Wire, Recursions

-----------------------------------------------------------------------------
(* Sums and sequences *)

\* A function on 1 .. n is a sequence.
LEMMA FunctionIsSeq ==
  ASSUME NEW S, NEW n \in Nat, NEW s \in [1 .. n -> S]
  PROVE  s \in Seq(S) /\ Len(s) = n /\ DOMAIN s = 1 .. n
  OBVIOUS

\* Sums is the function that its text describes.
IsSums(f, s) == f = [i \in 0 .. Len(s) |-> IF i = 0 THEN 0 ELSE f[i - 1] + s[i]]

LEMMA SumsChosen == ASSUME NEW s PROVE Sums(s) = CHOOSE f : IsSums(f, s)
  BY DEF Sums, IsSums

LEMMA SumsAre ==
  ASSUME NEW n \in Nat, NEW s \in [1 .. n -> Nat]
  PROVE  /\ Len(s) = n
         /\ Sums(s) \in [0 .. n -> Nat]
         /\ Sums(s)[0] = 0
         /\ \A i \in 1 .. n : Sums(s)[i] = Sums(s)[i - 1] + s[i]
         /\ Total(s) = Sums(s)[n]
  <1>0. Len(s) = n
    BY FunctionIsSeq
  <1> DEFINE h == [q \in Nat \X Nat |-> q[2] + (IF q[1] + 1 \in 1 .. n THEN s[q[1] + 1] ELSE 0)]
  <1>1. h \in StepFunction(Nat)
    BY DEF StepFunction
  <1>2. \A i \in Nat, r \in Nat : i + 1 \in 1 .. n => h[<<i, r>>] = r + s[i + 1]
    OBVIOUS
  <1> HIDE DEF h
  <1>3. PICK f : Follows(f, Nat, 0, h)
    BY <1>1, Recursion
  <1> DEFINE g == [i \in 0 .. n |-> f[i]]
  <1>4. IsSums(g, s)
    <2>1. ASSUME NEW i \in 0 .. n, i # 0 PROVE g[i] = g[i - 1] + s[i]
      <3>1. i - 1 \in Nat /\ (i - 1) + 1 = i /\ i \in 1 .. n /\ i - 1 \in 0 .. n
        BY <2>1
      <3>2. f[i] = f[i - 1] + s[i]
        BY <1>2, <1>3, <3>1 DEF Follows
      <3> QED BY <3>1, <3>2
    <2>2. g[0] = 0
      BY <1>3 DEF Follows
    <2>3. \A i \in 0 .. n : g[i] = IF i = 0 THEN 0 ELSE g[i - 1] + s[i]
      BY <2>1, <2>2
    <2>4. g = [i \in 0 .. n |-> g[i]]
      OBVIOUS
    <2> HIDE DEF g
    <2> QED BY <1>0, <2>3, <2>4 DEF IsSums
  <1>5. IsSums(Sums(s), s)
    BY <1>4, SumsChosen
  <1> DEFINE u == Sums(s)
  <1>6. u = [i \in 0 .. n |-> IF i = 0 THEN 0 ELSE u[i - 1] + s[i]]
    BY <1>0, <1>5 DEF IsSums
  <1>7. Total(s) = u[n]
    BY <1>0 DEF Total
  <1> HIDE DEF u
  <1>8. u[0] = 0 /\ \A i \in 1 .. n : u[i] = u[i - 1] + s[i]
    <2>1. \A i \in 0 .. n : u[i] = IF i = 0 THEN 0 ELSE u[i - 1] + s[i]
      BY <1>6
    <2> QED BY <2>1
  <1>9. \A i \in 0 .. n : u[i] \in Nat
    <2> DEFINE T == {i \in Nat : i =< n => u[i] \in Nat}
    <2>1. 0 \in T
      BY <1>8
    <2>2. ASSUME NEW i \in T PROVE i + 1 \in T
      <3> SUFFICES ASSUME i + 1 =< n PROVE u[i + 1] \in Nat
        OBVIOUS
      <3>1. i + 1 \in 1 .. n /\ (i + 1) - 1 = i /\ u[i] \in Nat
        OBVIOUS
      <3> QED BY <1>8, <3>1
    <2>3. T \in SUBSET Nat
      OBVIOUS
    <2> HIDE DEF T
    <2>4. T = Nat
      BY <2>1, <2>2, <2>3, AllNumbers
    <2> QED BY <2>4 DEF T
  <1>10. u \in [0 .. n -> Nat]
    <2>1. u = [i \in 0 .. n |-> u[i]]
      BY <1>6
    <2> QED BY <1>9, <2>1
  <1> QED BY <1>0, <1>7, <1>8, <1>10 DEF u
\* A larger index has a larger sum.
LEMMA SumsGrow ==
  ASSUME NEW n \in Nat, NEW s \in [1 .. n -> Nat], NEW i \in 0 .. n
  PROVE  \A j \in i .. n : Sums(s)[i] =< Sums(s)[j]
  <1> DEFINE u == Sums(s)
             T == {j \in Nat : i + j =< n => u[i] =< u[i + j]}
  <1>1. /\ u \in [0 .. n -> Nat]
        /\ \A k \in 1 .. n : u[k] = u[k - 1] + s[k]
    BY SumsAre
  <1> HIDE DEF u
  <1>2. 0 \in T
    BY <1>1
  <1>3. ASSUME NEW j \in T PROVE j + 1 \in T
    <2> SUFFICES ASSUME i + (j + 1) =< n PROVE u[i] =< u[i + (j + 1)]
      OBVIOUS
    <2>1. /\ i + (j + 1) \in 1 .. n /\ (i + (j + 1)) - 1 = i + j
          /\ i + j \in 0 .. n /\ i + j =< n
      OBVIOUS
    <2>2. u[i] =< u[i + j] /\ u[i] \in Nat /\ u[i + j] \in Nat
      BY <1>1, <2>1
    <2>3. u[i + (j + 1)] = u[i + j] + s[i + (j + 1)] /\ s[i + (j + 1)] \in Nat
      BY <1>1, <2>1
    <2> QED BY <2>2, <2>3
  <1>4. T = Nat
    <2>1. T \in SUBSET Nat
      OBVIOUS
    <2> HIDE DEF T
    <2> QED BY <1>2, <1>3, <2>1, AllNumbers
  <1>5. \A j \in Nat : i + j =< n => u[i] =< u[i + j]
    BY <1>4
  <1>6. ASSUME NEW j \in i .. n PROVE u[i] =< u[j]
    <2>1. j - i \in Nat /\ i + (j - i) = j /\ j =< n
      OBVIOUS
    <2> QED BY <1>5, <2>1
  <1> QED BY <1>6 DEF u

\* The sums of a sequence without its first number.
IsTail(t, s, n) == t = [i \in 1 .. n - 1 |-> s[i + 1]]

LEMMA SumsOfTail ==
  ASSUME NEW n \in Nat \ {0}, NEW s \in [1 .. n -> Nat], NEW t, IsTail(t, s, n)
  PROVE  \A i \in 0 .. n - 1 : Sums(t)[i] = Sums(s)[i + 1] - s[1]
  <1> DEFINE u == Sums(s)
             v == Sums(t)
             T == {i \in Nat : i =< n - 1 => v[i] = u[i + 1] - s[1]}
  <1>0. n - 1 \in Nat /\ t \in [1 .. n - 1 -> Nat]
        /\ \A i \in 1 .. n - 1 : t[i] = s[i + 1]
    BY DEF IsTail
  <1>1. /\ u \in [0 .. n -> Nat] /\ u[0] = 0
        /\ \A i \in 1 .. n : u[i] = u[i - 1] + s[i]
    BY SumsAre
  <1>2. /\ v[0] = 0 /\ \A i \in 1 .. n - 1 : v[i] = v[i - 1] + t[i]
    BY <1>0, SumsAre
  <1> HIDE DEF u, v
  <1>3. 0 \in T
    <2>1. 1 \in 1 .. n /\ 1 - 1 = 0 /\ s[1] \in Nat
      OBVIOUS
    <2>2. u[1] = u[0] + s[1]
      BY <1>1, <2>1
    <2> QED BY <1>0, <1>1, <1>2, <2>1, <2>2
  <1>4. ASSUME NEW i \in T PROVE i + 1 \in T
    <2> SUFFICES ASSUME i + 1 =< n - 1 PROVE v[i + 1] = u[(i + 1) + 1] - s[1]
      OBVIOUS
    <2>1. /\ i + 1 \in 1 .. n - 1 /\ (i + 1) - 1 = i /\ i =< n - 1
          /\ (i + 1) + 1 \in 1 .. n /\ ((i + 1) + 1) - 1 = i + 1 /\ i + 1 \in 0 .. n
      OBVIOUS
    <2>2. v[i] = u[i + 1] - s[1]
      BY <2>1
    <2>3. v[i + 1] = v[i] + s[(i + 1) + 1]
      <3> DEFINE j == i + 1
      <3>1. j \in 1 .. n - 1 /\ j - 1 = i
        BY <2>1
      <3> HIDE DEF j
      <3>2. v[j] = v[j - 1] + s[j + 1]
        BY <1>0, <1>2, <3>1
      <3>3. v[j] = v[i] + s[j + 1]
        BY <3>1, <3>2
      <3> QED BY <3>3 DEF j
    <2>4. u[(i + 1) + 1] = u[i + 1] + s[(i + 1) + 1]
      BY <1>1, <2>1
    <2>5. u[i + 1] \in Nat /\ s[(i + 1) + 1] \in Nat /\ s[1] \in Nat
      <3>1. \A k \in 1 .. n : s[k] \in Nat
        OBVIOUS
      <3>2. 1 \in 1 .. n
        OBVIOUS
      <3>3. u[i + 1] \in Nat
        BY <1>1, <2>1
      <3>4. s[(i + 1) + 1] \in Nat
        BY <2>1, <3>1
      <3> QED BY <3>1, <3>2, <3>3, <3>4
    <2> DEFINE a == v[i]
               b == u[i + 1]
               c == s[1]
               d == s[(i + 1) + 1]
               e == u[(i + 1) + 1]
               r == v[i + 1]
    <2>6. a = b - c /\ r = a + d /\ e = b + d /\ b \in Nat /\ c \in Nat /\ d \in Nat
      BY <2>2, <2>3, <2>4, <2>5
    <2> HIDE DEF a, b, c, d, e, r
    <2>7. r = e - c
      BY <2>6
    <2> QED BY <2>7 DEF r, e, c
  <1>5. T = Nat
    <2>1. T \in SUBSET Nat
      OBVIOUS
    <2> HIDE DEF T
    <2> QED BY <1>3, <1>4, <2>1, AllNumbers
  <1>6. \A i \in Nat : i =< n - 1 => v[i] = u[i + 1] - s[1]
    BY <1>5
  <1> HIDE DEF T
  <1>7. \A i \in 0 .. n - 1 : v[i] = u[i + 1] - s[1]
    BY <1>6
  <1> QED BY <1>7 DEF u, v

AreNumbers(s, n) == n \in Nat \ {0} /\ s \in [1 .. n -> Nat]
TailSums(t, s, n) == \A i \in 0 .. n - 1 : Sums(t)[i] = Sums(s)[i + 1] - s[1]

LEMMA SumsOfRest ==
  ASSUME NEW n, NEW s, NEW t, AreNumbers(s, n), IsTail(t, s, n)
  PROVE  TailSums(t, s, n)
  BY SumsOfTail DEF AreNumbers, TailSums

\* Equal numbers add up to a product.
LEMMA SumsOfEqual ==
  ASSUME NEW n \in Nat, NEW w \in Nat
  PROVE  Total([i \in 1 .. n |-> w]) = w * n
  <1> DEFINE s == [i \in 1 .. n |-> w]
             u == Sums(s)
             T == {i \in Nat : i =< n => u[i] = w * i}
  <1>0. s \in [1 .. n -> Nat] /\ \A i \in 1 .. n : s[i] = w
    OBVIOUS
  <1> HIDE DEF s
  <1>1. /\ u[0] = 0 /\ Total(s) = u[n]
        /\ \A i \in 1 .. n : u[i] = u[i - 1] + w
    <2>1. /\ u[0] = 0 /\ Total(s) = u[n]
          /\ \A i \in 1 .. n : u[i] = u[i - 1] + s[i]
      BY <1>0, SumsAre
    <2> HIDE DEF u
    <2> QED BY <1>0, <2>1
  <1> HIDE DEF u
  <1>2. 0 \in T
    BY <1>1
  <1>3. ASSUME NEW i \in T PROVE i + 1 \in T
    <2> SUFFICES ASSUME i + 1 =< n PROVE u[i + 1] = w * (i + 1)
      OBVIOUS
    <2>1. i + 1 \in 1 .. n /\ (i + 1) - 1 = i /\ u[i] = w * i
      OBVIOUS
    <2>2. w * (i + 1) = w * i + w
      OBVIOUS
    <2> QED BY <1>1, <2>1, <2>2
  <1>4. T = Nat
    <2>1. T \in SUBSET Nat
      OBVIOUS
    <2> HIDE DEF T
    <2> QED BY <1>2, <1>3, <2>1, AllNumbers
  <1>5. \A i \in Nat : i =< n => u[i] = w * i
    BY <1>4
  <1> HIDE DEF T
  <1>6. Total(s) = w * n
    BY <1>1, <1>5
  <1> QED BY <1>6 DEF s

\* The bytes that Bytes and CharBytes make, and others.
Byte == Int \X Nat

\* The lengths of the sequences that are joined.
Lens(ss) == [i \in DOMAIN ss |-> Len(ss[i])]

IsJoined(f, ss) ==
    f = [i \in 1 .. Len(ss) |-> IF i = 1 THEN ss[i] ELSE f[i - 1] \o ss[i]]

LEMMA JoinedChosen ==
  ASSUME NEW ss
  PROVE  FlattenSeq(ss) = IF Len(ss) = 0 THEN ss
                          ELSE (CHOOSE f : IsJoined(f, ss))[Len(ss)]
  BY DEF FlattenSeq, IsJoined

\* There is such a function,
LEMMA JoinedExists ==
  ASSUME NEW n \in Nat, NEW ss \in [1 .. n -> Seq(Byte)]
  PROVE  \E f : IsJoined(f, ss)
  <1>0. Len(ss) = n
    BY FunctionIsSeq
  <1> DEFINE h == [q \in Nat \X Seq(Byte) |->
                      IF q[1] + 1 \in 1 .. n THEN q[2] \o ss[q[1] + 1] ELSE q[2]]
  <1>1. h \in StepFunction(Seq(Byte))
    <2>1. ASSUME NEW i \in Nat, NEW r \in Seq(Byte) PROVE h[<<i, r>>] \in Seq(Byte)
      <3>1. CASE i + 1 \in 1 .. n
        <4>1. ss[i + 1] \in Seq(Byte)
          BY <3>1
        <4> QED BY <3>1, <4>1
      <3>2. CASE i + 1 \notin 1 .. n
        BY <3>2
      <3> QED BY <3>1, <3>2
    <2>2. \A q \in Nat \X Seq(Byte) : h[q] \in Seq(Byte)
      <3> HIDE DEF h
      <3> SUFFICES ASSUME NEW q \in Nat \X Seq(Byte) PROVE h[q] \in Seq(Byte)
        OBVIOUS
      <3>1. q = <<q[1], q[2]>> /\ q[1] \in Nat /\ q[2] \in Seq(Byte)
        OBVIOUS
      <3>2. h[<<q[1], q[2]>>] \in Seq(Byte)
        BY <2>1, <3>1
      <3> QED BY <3>1, <3>2
    <2> QED BY <2>2 DEF StepFunction
  <1>2. \A i \in Nat, r \in Seq(Byte) : i + 1 \in 1 .. n => h[<<i, r>>] = r \o ss[i + 1]
    OBVIOUS
  <1> HIDE DEF h
  <1>3. <<>> \in Seq(Byte)
    OBVIOUS
  <1>4. PICK f : Follows(f, Seq(Byte), <<>>, h)
    BY <1>1, <1>3, Recursion
  <1>5. f \in [Nat -> Seq(Byte)] /\ f[0] = <<>>
    BY <1>4 DEF Follows
  <1>6. ASSUME NEW i \in 1 .. n PROVE f[i] = f[i - 1] \o ss[i]
    <2>1. i - 1 \in Nat /\ (i - 1) + 1 = i
      OBVIOUS
    <2>2. f[i - 1] \in Seq(Byte)
      BY <1>5, <2>1
    <2>3. f[(i - 1) + 1] = h[<<i - 1, f[i - 1]>>]
      BY <1>4, <2>1 DEF Follows
    <2>4. h[<<i - 1, f[i - 1]>>] = f[i - 1] \o ss[(i - 1) + 1]
      BY <1>2, <2>1, <2>2
    <2> QED BY <2>1, <2>3, <2>4
  <1> DEFINE g == [i \in 1 .. n |-> f[i]]
  <1>7. ASSUME NEW i \in 1 .. n PROVE g[i] = IF i = 1 THEN ss[i] ELSE g[i - 1] \o ss[i]
    <2>1. CASE i = 1
      <3>1. ss[1] \in Seq(Byte) /\ 1 - 1 = 0
        BY <2>1
      <3>2. <<>> \o ss[1] = ss[1]
        BY <3>1
      <3> QED BY <1>5, <1>6, <2>1, <3>1, <3>2
    <2>2. CASE i # 1
      <3>1. i - 1 \in 1 .. n
        BY <2>2
      <3> QED BY <1>6, <2>2, <3>1
    <2> QED BY <2>1, <2>2
  <1>8. g = [i \in 1 .. n |-> g[i]]
    OBVIOUS
  <1> HIDE DEF g
  <1>9. IsJoined(g, ss)
    BY <1>0, <1>7, <1>8 DEF IsJoined
  <1> QED BY <1>9

\* What is in two sequences that are joined.
LEMMA Concatenation ==
  ASSUME NEW s \in Seq(Byte), NEW t \in Seq(Byte)
  PROVE  /\ s \o t \in Seq(Byte) /\ Len(s \o t) = Len(s) + Len(t)
         /\ \A k \in 1 .. Len(s) : (s \o t)[k] = s[k]
         /\ \A k \in 1 .. Len(t) : (s \o t)[Len(s) + k] = t[k]
  OBVIOUS

\* and so every part is found behind the ones before it.
LEMMA JoinedAre ==
  ASSUME NEW n \in Nat, NEW ss \in [1 .. n -> Seq(Byte)]
  PROVE  /\ Lens(ss) \in [1 .. n -> Nat]
         /\ FlattenSeq(ss) \in Seq(Byte)
         /\ Len(FlattenSeq(ss)) = Sums(Lens(ss))[n]
         /\ \A i \in 1 .. n : \A k \in 1 .. Len(ss[i]) :
               FlattenSeq(ss)[Sums(Lens(ss))[i - 1] + k] = ss[i][k]
  <1>0. Len(ss) = n /\ DOMAIN ss = 1 .. n
    BY FunctionIsSeq
  <1>1. /\ Lens(ss) \in [1 .. n -> Nat]
        /\ \A i \in 1 .. n : Lens(ss)[i] = Len(ss[i]) /\ ss[i] \in Seq(Byte)
    BY DEF Lens
  <1> DEFINE u == Sums(Lens(ss))
  <1>2. /\ u \in [0 .. n -> Nat] /\ u[0] = 0
        /\ \A i \in 1 .. n : u[i] = u[i - 1] + Lens(ss)[i]
    BY <1>1, SumsAre
  <1>3. \A i \in 0 .. n : \A j \in i .. n : u[i] =< u[j]
    BY <1>1, SumsGrow
  <1> HIDE DEF u
  <1> DEFINE f == CHOOSE f : IsJoined(f, ss)
  <1>4. IsJoined(f, ss)
    BY JoinedExists
  <1>5. FlattenSeq(ss) = IF n = 0 THEN ss ELSE f[n]
    BY <1>0, JoinedChosen
  <1> HIDE DEF f
  <1>6. \A i \in 1 .. n : f[i] = IF i = 1 THEN ss[i] ELSE f[i - 1] \o ss[i]
    BY <1>0, <1>4 DEF IsJoined
  <1> DEFINE Good(i) ==
                /\ f[i] \in Seq(Byte) /\ Len(f[i]) = u[i]
                /\ \A j \in 1 .. i : \A k \in 1 .. Len(ss[j]) : f[i][u[j - 1] + k] = ss[j][k]
             T == {i \in Nat : i + 1 =< n => Good(i + 1)}
  <1>7. 0 \in T
    <2> SUFFICES ASSUME 1 =< n PROVE Good(1)
      OBVIOUS
    <2>1. f[1] = ss[1] /\ 1 \in 1 .. n
      BY <1>6
    <2>2. u[1] = Len(ss[1])
      <3>1. u[1] = u[1 - 1] + Lens(ss)[1] /\ 1 - 1 = 0 /\ Lens(ss)[1] = Len(ss[1])
        BY <1>1, <1>2, <2>1
      <3>2. Len(ss[1]) \in Nat
        BY <1>1, <2>1
      <3> QED BY <1>2, <3>1, <3>2
    <2>3. \A j \in 1 .. 1 : \A k \in 1 .. Len(ss[j]) : f[1][u[j - 1] + k] = ss[j][k]
      <3> SUFFICES ASSUME NEW k \in 1 .. Len(ss[1]) PROVE f[1][u[1 - 1] + k] = ss[1][k]
        OBVIOUS
      <3>1. u[1 - 1] + k = k
        BY <1>2
      <3> QED BY <2>1, <3>1
    <2> QED BY <1>1, <2>1, <2>2, <2>3
  <1>8. ASSUME NEW i \in T PROVE i + 1 \in T
    <2> SUFFICES ASSUME (i + 1) + 1 =< n PROVE Good((i + 1) + 1)
      OBVIOUS
    <2> DEFINE c == i + 1
               d == c + 1
    <2>1. /\ c \in 1 .. n /\ d \in 1 .. n /\ d # 1 /\ d - 1 = c
          /\ 1 .. d = (1 .. c) \cup {d}
      OBVIOUS
    <2>2. Good(c)
      BY <2>1
    <2> HIDE DEF c, d
    <2>3. f[d] = f[c] \o ss[d] /\ ss[d] \in Seq(Byte) /\ f[c] \in Seq(Byte)
      <3>1. f[d] = IF d = 1 THEN ss[d] ELSE f[d - 1] \o ss[d]
        BY <1>6, <2>1
      <3> QED BY <1>1, <2>1, <2>2, <3>1
    <2>4. /\ f[d] \in Seq(Byte) /\ Len(f[d]) = Len(f[c]) + Len(ss[d])
          /\ \A k \in 1 .. Len(f[c]) : f[d][k] = f[c][k]
          /\ \A k \in 1 .. Len(ss[d]) : f[d][Len(f[c]) + k] = ss[d][k]
      <3>1. f[c] \in Seq(Byte) /\ ss[d] \in Seq(Byte)
        BY <2>3
      <3> HIDE DEF Good, T
      <3> DEFINE p == f[c]
                 q == ss[d]
      <3>2. p \in Seq(Byte) /\ q \in Seq(Byte) /\ f[d] = p \o q
        BY <2>3, <3>1
      <3> HIDE DEF p, q
      <3>3. /\ f[d] \in Seq(Byte) /\ Len(f[d]) = Len(p) + Len(q)
            /\ \A k \in 1 .. Len(p) : f[d][k] = p[k]
            /\ \A k \in 1 .. Len(q) : f[d][Len(p) + k] = q[k]
        BY <3>2, Concatenation
      <3> QED BY <3>3 DEF p, q
    <2>5. Len(f[d]) = u[d]
      <3>1. u[d] = u[d - 1] + Lens(ss)[d] /\ Lens(ss)[d] = Len(ss[d])
        BY <1>1, <1>2, <2>1
      <3> QED BY <2>1, <2>2, <2>4, <3>1
    <2>6. ASSUME NEW j \in 1 .. c, NEW k \in 1 .. Len(ss[j])
          PROVE  f[d][u[j - 1] + k] = ss[j][k]
      <3>1. /\ j \in 1 .. n /\ j - 1 \in 0 .. n /\ j \in 0 .. n /\ c \in j .. n
            /\ Len(ss[j]) \in Nat /\ Lens(ss)[j] = Len(ss[j])
        BY <1>1, <2>1
      <3>2. u[j] = u[j - 1] + Len(ss[j])
        <4> HIDE DEF Good, T
        <4> QED BY <1>2, <3>1
      <3>3. u[j] =< u[c] /\ u[j - 1] \in Nat /\ u[c] \in Nat /\ u[j] \in Nat
        <4>1. c \in 0 .. n
          BY <2>1
        <4> HIDE DEF Good, T
        <4> QED BY <1>2, <1>3, <3>1, <4>1
      <3>5. u[j - 1] + k \in 1 .. Len(f[c])
        <4>1. Len(f[c]) = u[c]
          BY <2>2
        <4>2. Len(ss[j]) \in Nat /\ k \in Int /\ 1 =< k /\ k =< Len(ss[j])
          BY <3>1
        <4> HIDE DEF Good, T
        <4>3. u[j - 1] + k \in Int /\ 1 =< u[j - 1] + k /\ u[j - 1] + k =< u[c]
          <5> DEFINE a == u[j - 1]
                     b == u[j]
                     l == Len(ss[j])
                     e == u[c]
          <5>1. /\ b = a + l /\ b =< e /\ a \in Nat /\ b \in Nat /\ e \in Nat /\ l \in Nat
                /\ k \in Int /\ 1 =< k /\ k =< l
            BY <3>2, <3>3, <4>2
          <5> HIDE DEF a, b, l, e
          <5>2. a + k \in Int /\ 1 =< a + k /\ a + k =< e
            BY <5>1
          <5> QED BY <5>2 DEF a, e
        <4> QED BY <3>3, <4>1, <4>3
      <3>4. f[c][u[j - 1] + k] = ss[j][k]
        BY <2>2
      <3> QED BY <2>4, <3>5, <3>4
    <2>7. ASSUME NEW k \in 1 .. Len(ss[d]) PROVE f[d][u[d - 1] + k] = ss[d][k]
      BY <2>1, <2>2, <2>4
    <2>8. Good(d)
      BY <2>1, <2>4, <2>5, <2>6, <2>7
    <2> QED BY <2>8 DEF c, d
  <1>9. T = Nat
    <2>1. T \in SUBSET Nat
      OBVIOUS
    <2> HIDE DEF T
    <2> QED BY <1>7, <1>8, <2>1, AllNumbers
  <1>10. ASSUME n # 0 PROVE Good(n)
    <2>1. n - 1 \in Nat /\ (n - 1) + 1 = n
      BY <1>10
    <2> HIDE DEF Good
    <2>2. \A i \in Nat : i + 1 =< n => Good(i + 1)
      BY <1>9
    <2> HIDE DEF T
    <2>3. (n - 1) + 1 =< n => Good((n - 1) + 1)
      BY <2>1, <2>2
    <2> QED BY <2>1, <2>3
  <1>11. CASE n = 0
    BY <1>0, <1>1, <1>2, <1>5, <1>11 DEF u
  <1>12. CASE n # 0
    BY <1>1, <1>5, <1>10, <1>12 DEF u
  <1> QED BY <1>11, <1>12

-----------------------------------------------------------------------------
(* Bytes in a buffer *)

\* The buffer has these bytes at this place.
Holds(buf, at, bytes) ==
    \A k \in 1 .. Len(bytes) :
        at + k - 1 \in 1 .. Len(buf) /\ buf[at + k - 1] = bytes[k]

\* What is there is what a slice takes out.
LEMMA SliceIs ==
  ASSUME NEW bytes \in Seq(Byte), NEW buf, NEW at \in Int, Holds(buf, at, bytes),
         Len(buf) \in Nat
  PROVE  Slice(buf, at, Len(bytes)) = bytes
  <1>1. \A k \in 1 .. Len(bytes) : at + k - 1 =< Len(buf) /\ buf[at + k - 1] = bytes[k]
    BY DEF Holds
  <1>2. Slice(buf, at, Len(bytes)) = [k \in 1 .. Len(bytes) |-> bytes[k]]
    BY <1>1 DEF Slice
  <1> QED BY <1>2

\* Bytes are where they are in a sequence of their own.
LEMMA HoldsItself ==
  ASSUME NEW bytes \in Seq(Byte)
  PROVE  Holds(bytes, 1, bytes)
  BY DEF Holds

\* Two sequences one behind the other.
LEMMA HoldsBoth ==
  ASSUME NEW s \in Seq(Byte), NEW t \in Seq(Byte), NEW buf, NEW at \in Int,
         Holds(buf, at, s \o t)
  PROVE  Holds(buf, at, s) /\ Holds(buf, at + Len(s), t)
  <1>1. /\ Len(s \o t) = Len(s) + Len(t)
        /\ \A k \in 1 .. Len(s) : (s \o t)[k] = s[k]
        /\ \A k \in 1 .. Len(t) : (s \o t)[Len(s) + k] = t[k]
    OBVIOUS
  <1>2. Holds(buf, at, s)
    BY <1>1 DEF Holds
  <1>3. ASSUME NEW k \in 1 .. Len(t)
        PROVE  /\ (at + Len(s)) + k - 1 \in 1 .. Len(buf)
               /\ buf[(at + Len(s)) + k - 1] = t[k]
    <2>1. Len(s) + k \in 1 .. Len(s \o t) /\ (at + Len(s)) + k - 1 = at + (Len(s) + k) - 1
      BY <1>1
    <2>2. /\ at + (Len(s) + k) - 1 \in 1 .. Len(buf)
          /\ buf[at + (Len(s) + k) - 1] = (s \o t)[Len(s) + k]
      BY <2>1 DEF Holds
    <2> QED BY <1>1, <2>1, <2>2
  <1> QED BY <1>2, <1>3 DEF Holds

\* Any number of them.
LEMMA HoldsParts ==
  ASSUME NEW n \in Nat, NEW ss \in [1 .. n -> Seq(Byte)], NEW buf, NEW at \in Int,
         Holds(buf, at, FlattenSeq(ss)), NEW i \in 1 .. n
  PROVE  Holds(buf, at + Sums(Lens(ss))[i - 1], ss[i])
  <1>0. ss[i] \in Seq(Byte) /\ Lens(ss)[i] = Len(ss[i])
    <2>1. DOMAIN ss = 1 .. n
      OBVIOUS
    <2> QED BY <2>1 DEF Lens
  <1> DEFINE u == Sums(Lens(ss))
  <1>1. /\ Lens(ss) \in [1 .. n -> Nat]
        /\ Len(FlattenSeq(ss)) = u[n]
        /\ \A k \in 1 .. Len(ss[i]) : FlattenSeq(ss)[u[i - 1] + k] = ss[i][k]
    BY JoinedAre
  <1>3. u[i] = u[i - 1] + Lens(ss)[i] /\ u \in [0 .. n -> Nat]
    BY <1>1, SumsAre
  <1>4. i \in 0 .. n /\ n \in i .. n /\ i - 1 \in 0 .. n /\ n \in 0 .. n
    OBVIOUS
  <1>5. u[i] =< u[n]
    BY <1>1, <1>4, SumsGrow
  <1> HIDE DEF u
  <1>6. u[i - 1] \in Nat /\ u[i] \in Nat /\ u[n] \in Nat /\ Len(ss[i]) \in Nat
    BY <1>0, <1>3, <1>4
  <1>7. ASSUME NEW k \in 1 .. Len(ss[i])
        PROVE  /\ (at + u[i - 1]) + k - 1 \in 1 .. Len(buf)
               /\ buf[(at + u[i - 1]) + k - 1] = ss[i][k]
    <2>0. k \in Int /\ 1 =< k /\ k =< Len(ss[i])
      BY <1>6
    <2>1. /\ u[i - 1] + k \in 1 .. Len(FlattenSeq(ss))
          /\ (at + u[i - 1]) + k - 1 = at + (u[i - 1] + k) - 1
      <3> DEFINE a == u[i - 1]
                 b == u[i]
                 l == Len(ss[i])
                 e == u[n]
      <3>1. /\ b = a + l /\ b =< e /\ a \in Nat /\ b \in Nat /\ e \in Nat /\ l \in Nat
            /\ k \in Int /\ 1 =< k /\ k =< l /\ e = Len(FlattenSeq(ss))
        BY <1>0, <1>1, <1>3, <1>5, <1>6, <2>0
      <3> HIDE DEF a, b, l, e
      <3>2. a + k \in 1 .. e /\ (at + a) + k - 1 = at + (a + k) - 1
        BY <3>1
      <3> QED BY <3>1, <3>2 DEF a
    <2>2. /\ at + (u[i - 1] + k) - 1 \in 1 .. Len(buf)
          /\ buf[at + (u[i - 1] + k) - 1] = FlattenSeq(ss)[u[i - 1] + k]
      BY <2>1 DEF Holds
    <2> QED BY <1>1, <2>1, <2>2
  <1>8. Holds(buf, at + u[i - 1], ss[i])
    BY <1>7 DEF Holds
  <1> QED BY <1>8 DEF u

\* What is written of a number and of a string,
LEMMA BytesAre ==
  ASSUME NEW v \in Int, NEW w \in Nat
  PROVE  /\ Bytes(v, w) \in Seq(Byte) /\ Len(Bytes(v, w)) = w
         /\ w # 0 => Value(Bytes(v, w)) = v
  <1>1. Bytes(v, w) \in [1 .. w -> Byte]
    BY DEF Bytes, Byte
  <1>2. Bytes(v, w) \in Seq(Byte) /\ Len(Bytes(v, w)) = w
    BY <1>1, FunctionIsSeq
  <1>3. ASSUME w # 0 PROVE Value(Bytes(v, w)) = v
    <2>1. 1 \in 1 .. w
      BY <1>3
    <2>2. Bytes(v, w)[1] = <<v, 1>>
      BY <2>1 DEF Bytes
    <2>3. Bytes(v, w)[1][1] = v
      BY <2>2
    <2>4. Bytes(v, w) # <<>>
      BY <1>2, <1>3
    <2> QED BY <1>2, <2>3, <2>4 DEF Value
  <1> QED BY <1>2, <1>3

LEMMA CharBytesAre ==
  ASSUME NEW s \in Seq(Nat)
  PROVE  /\ CharBytes(s) \in Seq(Byte) /\ Len(CharBytes(s)) = Len(s)
         /\ \A k \in 1 .. Len(s) : CharBytes(s)[k] = <<s[k], 1>>
  <1>1. Len(s) \in Nat /\ DOMAIN s = 1 .. Len(s) /\ \A k \in 1 .. Len(s) : s[k] \in Nat
    OBVIOUS
  <1>2. CharBytes(s) \in [1 .. Len(s) -> Byte]
    BY <1>1 DEF CharBytes, Byte
  <1>3. CharBytes(s) \in Seq(Byte) /\ Len(CharBytes(s)) = Len(s)
    BY <1>1, <1>2, FunctionIsSeq
  <1> QED BY <1>1, <1>3 DEF CharBytes

\* is read back.
LEMMA NumberIsRead ==
  ASSUME NEW v \in Int, NEW w \in Nat \ {0}, NEW buf, NEW at \in Int,
         Len(buf) \in Nat, Holds(buf, at, Bytes(v, w))
  PROVE  Value(Slice(buf, at, w)) = v
  <1>1. /\ Bytes(v, w) \in Seq(Byte) /\ Len(Bytes(v, w)) = w
        /\ Value(Bytes(v, w)) = v
    BY BytesAre
  <1>2. Slice(buf, at, Len(Bytes(v, w))) = Bytes(v, w)
    BY <1>1, SliceIs
  <1> QED BY <1>1, <1>2

LEMMA StringIsRead ==
  ASSUME NEW s \in Seq(Nat), NEW buf, NEW at \in Int,
         Len(buf) \in Nat, Holds(buf, at, CharBytes(s))
  PROVE  ReadChars(buf, at, Len(s)) = s
  <1>1. ASSUME NEW k \in 1 .. Len(s)
        PROVE  Value(Slice(buf, at + k - 1, 1)) = s[k]
    <2>1. /\ k \in 1 .. Len(CharBytes(s)) /\ CharBytes(s)[k] = <<s[k], 1>>
          /\ s[k] \in Int /\ k \in Int
      BY CharBytesAre
    <2>2. at + k - 1 \in 1 .. Len(buf) /\ buf[at + k - 1] = <<s[k], 1>>
      BY <2>1 DEF Holds
    <2>3. Len(Bytes(s[k], 1)) = 1 /\ Bytes(s[k], 1)[1] = <<s[k], 1>>
      BY <2>1, BytesAre DEF Bytes
    <2> DEFINE p == at + k - 1
    <2>4. p \in Int /\ p \in 1 .. Len(buf) /\ buf[p] = <<s[k], 1>> /\ p + 1 - 1 = p
      BY <2>1, <2>2
    <2> HIDE DEF p
    <2>5. Holds(buf, p, Bytes(s[k], 1))
      <3>1. ASSUME NEW i \in 1 .. 1
            PROVE  p + i - 1 \in 1 .. Len(buf) /\ buf[p + i - 1] = Bytes(s[k], 1)[i]
        <4>1. i = 1
          OBVIOUS
        <4> QED BY <2>3, <2>4, <4>1
      <3> QED BY <2>3, <3>1 DEF Holds
    <2>6. Value(Slice(buf, p, 1)) = s[k]
      BY <2>1, <2>4, <2>5, NumberIsRead
    <2> QED BY <2>6 DEF p
  <1>2. ReadChars(buf, at, Len(s)) = [k \in 1 .. Len(s) |-> s[k]]
    BY <1>1 DEF ReadChars
  <1> QED BY <1>2

\* A string of the length of its place is not padded.
LEMMA PaddedIs ==
  ASSUME NEW s \in Seq(Nat) PROVE Padded(s, Len(s)) = s
  <1>1. Padded(s, Len(s)) = [k \in 1 .. Len(s) |-> s[k]]
    BY DEF Padded
  <1> QED BY <1>1

-----------------------------------------------------------------------------
(* Elements one behind the other *)

\* A cursor after bytes that could be read.
Got(at, msg) == [at |-> at, msg |-> msg, failed |-> FALSE]

\* The reader makes of each part, wherever it is, the item of its number.
ReadsItems(reader, buf, parts, items) ==
    \A k \in DOMAIN parts : \A p \in Int :
        Holds(buf, p, parts[k]) => reader[p] = Got(p + Len(parts[k]), items[k])

\* What GetElements goes through.
IsGot(f, reader, n, at) ==
    f = [k \in 0 .. n |->
            IF k = 0 THEN [at |-> at, list |-> <<>>, failed |-> FALSE]
            ELSE LET d == f[k - 1]
                     e == reader[d.at]
                 IN  IF d.failed THEN d
                     ELSE [at |-> e.at, list |-> Append(d.list, e.msg),
                           failed |-> e.failed]]

LEMMA GotChosen ==
  ASSUME NEW reader, NEW n \in Nat, NEW at
  PROVE  GetElements(reader, n, at) = (CHOOSE f : IsGot(f, reader, n, at))[n]
  BY DEF GetElements, IsGot

LEMMA AppendItem ==
  ASSUME NEW k \in Nat \ {0}, NEW x
  PROVE  Append([j \in 1 .. k - 1 |-> x[j]], x[k]) = [j \in 1 .. k |-> x[j]]
  <1> DEFINE S == {x[j] : j \in 1 .. k}
             a == [j \in 1 .. k - 1 |-> x[j]]
             b == [j \in 1 .. k |-> x[j]]
  <1>1. a \in [1 .. k - 1 -> S] /\ b \in [1 .. k -> S] /\ x[k] \in S /\ k - 1 \in Nat
    OBVIOUS
  <1>2. a \in Seq(S) /\ Len(a) = k - 1 /\ b \in Seq(S) /\ Len(b) = k
    BY <1>1, FunctionIsSeq
  <1>3. \A j \in 1 .. k : Append(a, x[k])[j] = b[j]
    BY <1>1, <1>2
  <1>4. Append(a, x[k]) \in Seq(S) /\ Len(Append(a, x[k])) = k
    BY <1>1, <1>2
  <1> QED BY <1>2, <1>3, <1>4

\* A list read to its end.
ListGot(at, n, items) ==
    [at |-> at, list |-> [k \in 1 .. n |-> items[k]], failed |-> FALSE]

\* Elements that lie one behind the other are read, and what follows is next.
LEMMA ElementsRead ==
  ASSUME NEW n \in Nat, NEW parts \in [1 .. n -> Seq(Byte)], NEW items, NEW reader,
         NEW buf, NEW at \in Int, Holds(buf, at, FlattenSeq(parts)),
         ReadsItems(reader, buf, parts, items)
  PROVE  GetElements(reader, n, at) = ListGot(at + Len(FlattenSeq(parts)), n, items)
  <1> DEFINE u == Sums(Lens(parts))
  <1>1. Lens(parts) \in [1 .. n -> Nat] /\ Len(FlattenSeq(parts)) = u[n]
    BY JoinedAre
  <1>2. /\ u \in [0 .. n -> Nat] /\ u[0] = 0
        /\ \A k \in 1 .. n : u[k] = u[k - 1] + Lens(parts)[k]
    BY <1>1, SumsAre
  <1>3. \A k \in 1 .. n : Lens(parts)[k] = Len(parts[k]) /\ Len(parts[k]) \in Nat
    <2>1. DOMAIN parts = 1 .. n /\ \A k \in 1 .. n : parts[k] \in Seq(Byte)
      OBVIOUS
    <2> QED BY <2>1 DEF Lens
  <1>4. \A k \in 1 .. n : Holds(buf, at + u[k - 1], parts[k])
    BY HoldsParts
  <1> HIDE DEF u
  <1> DEFINE state(k) == [at |-> at + u[k], list |-> [j \in 1 .. k |-> items[j]],
                          failed |-> FALSE]
             next(d, k) == LET e == reader[d.at]
                           IN  IF d.failed THEN d
                               ELSE [at |-> e.at, list |-> Append(d.list, e.msg),
                                     failed |-> e.failed]
             first == [at |-> at, list |-> <<>>, failed |-> FALSE]
  <1>5. ASSUME NEW k \in 1 .. n PROVE next(state(k - 1), k) = state(k)
    <2>1. k - 1 \in 0 .. n /\ k \in 0 .. n /\ k \in Nat \ {0}
      OBVIOUS
    <2>2. at + u[k - 1] \in Int /\ u[k - 1] \in Nat /\ Len(parts[k]) \in Nat
      BY <1>2, <1>3, <2>1
    <2>3. reader[at + u[k - 1]] = [at |-> (at + u[k - 1]) + Len(parts[k]),
                                   msg |-> items[k], failed |-> FALSE]
      <3>1. k \in DOMAIN parts /\ Holds(buf, at + u[k - 1], parts[k])
        BY <1>4
      <3> QED BY <2>2, <3>1 DEF ReadsItems, Got
    <2>4. (at + u[k - 1]) + Len(parts[k]) = at + u[k]
      <3>1. u[k] = u[k - 1] + Len(parts[k])
        BY <1>2, <1>3
      <3> QED BY <2>2, <3>1
    <2>5. Append([j \in 1 .. k - 1 |-> items[j]], items[k]) = [j \in 1 .. k |-> items[j]]
      BY <2>1, AppendItem
    <2> DEFINE d == state(k - 1)
    <2>6. /\ d.at = at + u[k - 1] /\ d.list = [j \in 1 .. k - 1 |-> items[j]]
          /\ d.failed = FALSE
      OBVIOUS
    <2> HIDE DEF d, state
    <2>7. /\ reader[d.at].at = at + u[k] /\ reader[d.at].msg = items[k]
          /\ reader[d.at].failed = FALSE
      BY <2>3, <2>4, <2>6
    <2>8. next(d, k) = [at |-> at + u[k], list |-> [j \in 1 .. k |-> items[j]],
                        failed |-> FALSE]
      BY <2>5, <2>6, <2>7
    <2> QED BY <2>8 DEF d, state
  <1>6. state(0) = first
    <2>1. [j \in 1 .. 0 |-> items[j]] = <<>> /\ at + u[0] = at
      BY <1>2
    <2> QED BY <2>1
  <1> HIDE DEF state, next, first
  <1> DEFINE g == [k \in 0 .. n |-> state(k)]
  <1>7. ASSUME NEW k \in 0 .. n
        PROVE  g[k] = IF k = 0 THEN first ELSE next(g[k - 1], k)
    <2>1. CASE k = 0
      BY <1>6, <2>1
    <2>2. CASE k # 0
      <3>1. k \in 1 .. n /\ k - 1 \in 0 .. n
        BY <2>2
      <3> QED BY <1>5, <2>2, <3>1
    <2> QED BY <2>1, <2>2
  <1>8. g = [k \in 0 .. n |-> g[k]]
    OBVIOUS
  <1>9. \A f : IsGot(f, reader, n, at) <=>
                  f = [k \in 0 .. n |-> IF k = 0 THEN first ELSE next(f[k - 1], k)]
    BY DEF IsGot, next, first
  <1>10. g = [k \in 0 .. n |-> IF k = 0 THEN first ELSE next(g[k - 1], k)]
    <2> HIDE DEF g
    <2> QED BY <1>7, <1>8
  <1> DEFINE f == CHOOSE f : IsGot(f, reader, n, at)
  <1>11. IsGot(f, reader, n, at)
    <2>1. IsGot(g, reader, n, at)
      BY <1>9, <1>10
    <2> HIDE DEF g
    <2> QED BY <2>1
  <1>12. GetElements(reader, n, at) = f[n]
    BY GotChosen
  <1> HIDE DEF f, g
  <1>13. \A k \in 0 .. n : f[k] = IF k = 0 THEN first ELSE next(f[k - 1], k)
    <2>1. f = [k \in 0 .. n |-> IF k = 0 THEN first ELSE next(f[k - 1], k)]
      BY <1>9, <1>11
    <2> QED BY <2>1
  <1> DEFINE T == {k \in Nat : k =< n => f[k] = state(k)}
  <1>14. 0 \in T
    BY <1>6, <1>13
  <1>15. ASSUME NEW k \in T PROVE k + 1 \in T
    <2> SUFFICES ASSUME k + 1 =< n PROVE f[k + 1] = state(k + 1)
      OBVIOUS
    <2>1. /\ k + 1 \in 1 .. n /\ k + 1 \in 0 .. n /\ k + 1 # 0 /\ (k + 1) - 1 = k
          /\ f[k] = state(k)
      OBVIOUS
    <2>2. next(state((k + 1) - 1), k + 1) = state(k + 1)
      BY <1>5, <2>1
    <2>3. f[k + 1] = next(f[(k + 1) - 1], k + 1)
      BY <1>13, <2>1
    <2> QED BY <2>1, <2>2, <2>3
  <1>16. T = Nat
    <2>1. T \in SUBSET Nat
      OBVIOUS
    <2> HIDE DEF T
    <2> QED BY <1>14, <1>15, <2>1, AllNumbers
  <1>17. f[n] = state(n)
    <2>1. \A k \in Nat : k =< n => f[k] = state(k)
      BY <1>16
    <2> QED BY <2>1
  <1>18. state(n) = ListGot(at + Len(FlattenSeq(parts)), n, items)
    BY <1>1 DEF state, ListGot
  <1> QED BY <1>12, <1>17, <1>18

-----------------------------------------------------------------------------
(* Steps one after the other *)

\* What Get goes through.
IsAfter(f, steps, readers, buf, c) ==
    f = [i \in 0 .. Len(steps) |->
            IF i = 0 THEN c
            ELSE LET d == f[i - 1]
                 IN  IF d.failed THEN d ELSE GetStep(steps[i], readers[i], buf, d)]

LEMMA AfterChosen ==
  ASSUME NEW steps, NEW readers, NEW buf, NEW c
  PROVE  Get(steps, readers, buf, c)
            = (CHOOSE f : IsAfter(f, steps, readers, buf, c))[Len(steps)]
  BY DEF Get, IsAfter

\* If each step reads its part and makes msgs[i] of msgs[i - 1], then all read all.
StepsRead(steps, readers, buf, parts, msgs) ==
    \A i \in DOMAIN parts : \A p \in Int :
        Holds(buf, p, parts[i]) =>
            GetStep(steps[i], readers[i], buf, Got(p, msgs[i - 1]))
                = Got(p + Len(parts[i]), msgs[i])

LEMMA StepsRun ==
  ASSUME NEW n \in Nat, NEW steps, Len(steps) = n, NEW readers, NEW msgs,
         NEW parts \in [1 .. n -> Seq(Byte)],
         NEW buf, NEW at \in Int, Holds(buf, at, FlattenSeq(parts)),
         StepsRead(steps, readers, buf, parts, msgs)
  PROVE  Get(steps, readers, buf, Got(at, msgs[0]))
            = Got(at + Len(FlattenSeq(parts)), msgs[n])
  <1> DEFINE u == Sums(Lens(parts))
  <1>1. Lens(parts) \in [1 .. n -> Nat] /\ Len(FlattenSeq(parts)) = u[n]
    BY JoinedAre
  <1>2. /\ u \in [0 .. n -> Nat] /\ u[0] = 0
        /\ \A k \in 1 .. n : u[k] = u[k - 1] + Lens(parts)[k]
    BY <1>1, SumsAre
  <1>3. \A k \in 1 .. n : Lens(parts)[k] = Len(parts[k]) /\ Len(parts[k]) \in Nat
    <2>1. DOMAIN parts = 1 .. n /\ \A k \in 1 .. n : parts[k] \in Seq(Byte)
      OBVIOUS
    <2> QED BY <2>1 DEF Lens
  <1>4. \A k \in 1 .. n : Holds(buf, at + u[k - 1], parts[k])
    BY HoldsParts
  <1> HIDE DEF u
  <1> DEFINE c == Got(at, msgs[0])
             state(k) == Got(at + u[k], msgs[k])
             next(d, k) == IF d.failed THEN d ELSE GetStep(steps[k], readers[k], buf, d)
  <1>5. ASSUME NEW k \in 1 .. n PROVE next(state(k - 1), k) = state(k)
    <2>1. k - 1 \in 0 .. n /\ k \in 0 .. n
      OBVIOUS
    <2>2. at + u[k - 1] \in Int /\ u[k - 1] \in Nat /\ Len(parts[k]) \in Nat
      BY <1>2, <1>3, <2>1
    <2>3. GetStep(steps[k], readers[k], buf, Got(at + u[k - 1], msgs[k - 1]))
            = Got((at + u[k - 1]) + Len(parts[k]), msgs[k])
      <3>1. k \in DOMAIN parts /\ Holds(buf, at + u[k - 1], parts[k])
        BY <1>4
      <3> QED BY <2>2, <3>1 DEF StepsRead
    <2>4. (at + u[k - 1]) + Len(parts[k]) = at + u[k]
      <3>1. u[k] = u[k - 1] + Len(parts[k])
        BY <1>2, <1>3
      <3> QED BY <2>2, <3>1
    <2>5. state(k - 1).failed = FALSE
      BY DEF Got
    <2> QED BY <2>3, <2>4, <2>5
  <1>6. state(0) = c
    BY <1>2
  <1> HIDE DEF state, next, c
  <1> DEFINE g == [k \in 0 .. n |-> state(k)]
  <1>7. ASSUME NEW k \in 0 .. n
        PROVE  g[k] = IF k = 0 THEN c ELSE next(g[k - 1], k)
    <2>1. CASE k = 0
      BY <1>6, <2>1
    <2>2. CASE k # 0
      <3>1. k \in 1 .. n /\ k - 1 \in 0 .. n
        BY <2>2
      <3> QED BY <1>5, <2>2, <3>1
    <2> QED BY <2>1, <2>2
  <1>8. g = [k \in 0 .. n |-> g[k]]
    OBVIOUS
  <1>9. \A f : IsAfter(f, steps, readers, buf, c) <=>
                  f = [k \in 0 .. n |-> IF k = 0 THEN c ELSE next(f[k - 1], k)]
    BY DEF IsAfter, next
  <1>10. g = [k \in 0 .. n |-> IF k = 0 THEN c ELSE next(g[k - 1], k)]
    <2> HIDE DEF g
    <2> QED BY <1>7, <1>8
  <1> DEFINE f == CHOOSE f : IsAfter(f, steps, readers, buf, c)
  <1>11. IsAfter(f, steps, readers, buf, c)
    <2>1. IsAfter(g, steps, readers, buf, c)
      BY <1>9, <1>10
    <2> HIDE DEF g
    <2> QED BY <2>1
  <1>12. Get(steps, readers, buf, c) = f[n]
    BY AfterChosen
  <1> HIDE DEF f, g
  <1>13. \A k \in 0 .. n : f[k] = IF k = 0 THEN c ELSE next(f[k - 1], k)
    <2>1. f = [k \in 0 .. n |-> IF k = 0 THEN c ELSE next(f[k - 1], k)]
      BY <1>9, <1>11
    <2> QED BY <2>1
  <1> DEFINE T == {k \in Nat : k =< n => f[k] = state(k)}
  <1>14. 0 \in T
    BY <1>6, <1>13
  <1>15. ASSUME NEW k \in T PROVE k + 1 \in T
    <2> SUFFICES ASSUME k + 1 =< n PROVE f[k + 1] = state(k + 1)
      OBVIOUS
    <2>1. /\ k + 1 \in 1 .. n /\ k + 1 \in 0 .. n /\ k + 1 # 0 /\ (k + 1) - 1 = k
          /\ f[k] = state(k)
      OBVIOUS
    <2>2. next(state((k + 1) - 1), k + 1) = state(k + 1)
      BY <1>5, <2>1
    <2>3. f[k + 1] = next(f[(k + 1) - 1], k + 1)
      BY <1>13, <2>1
    <2> QED BY <2>1, <2>2, <2>3
  <1>16. T = Nat
    <2>1. T \in SUBSET Nat
      OBVIOUS
    <2> HIDE DEF T
    <2> QED BY <1>14, <1>15, <2>1, AllNumbers
  <1>17. f[n] = state(n)
    <2>1. \A k \in Nat : k =< n => f[k] = state(k)
      BY <1>16
    <2> QED BY <2>1
  <1> QED BY <1>1, <1>12, <1>17 DEF state, c

-----------------------------------------------------------------------------
(* A step of writing and the step of reading that belongs to it *)

\* Steps that write a value of the message and nothing else.
Simple == {"value", "skip", "chars", "fixed"}

\* Both go over the same field with the same width; a string that is written by
\* its own length is read by the size that is sent with it.
Same(w, r) ==
    /\ w.field = r.field /\ w.count = r.count
    /\ r.op \in Simple \cup Compound
    /\ r.op \in {"value", "skip"} => r.count \in Nat \ {0}
    /\ r.op = "skip" => r.field = ""
    /\ \/ w.op = r.op /\ w.length = r.length
       \/ w.op = "text" /\ r.op = "chars"

\* What has been read, once the field of step r is read, too.
Taken(msg, r, x) == IF r.op = "skip" THEN msg ELSE With(msg, r.field, x[r.field])

\* Both go over the same elements.
LEMMA SameElements ==
  ASSUME NEW w, NEW r, Same(w, r), NEW x
  PROVE  /\ Repeats(w, x) = Repeats(r, x)
         /\ \A k : Item(w, x, k) = Item(r, x, k)
         /\ r.op \in Simple => Repeats(r, x) = 0
  <1>1. CASE w.op = "text" /\ r.op = "chars"
    BY <1>1 DEF Same, Repeats, Item, Count, Simple, Compound
  <1>2. CASE w.op = r.op /\ w.length = r.length
    BY <1>2 DEF Same, Repeats, Item, Count, Simple, Compound
  <1> QED BY <1>1, <1>2 DEF Same

\* What a step writes itself.
LEMMA PutSimpleIs ==
  ASSUME NEW w, NEW r, Same(w, r), NEW x, FieldFits(r, x)
  PROVE  /\ PutSimple(w, x) \in Seq(Byte)
         /\ r.op \in {"value", "skip"} => Len(PutSimple(w, x)) = r.count
         /\ r.op \in {"chars", "fixed"} =>
                /\ x[r.field] \in Seq(Nat)
                /\ Len(x[r.field]) = Count(r, x)
                /\ PutSimple(w, x) = CharBytes(x[r.field])
                /\ Len(PutSimple(w, x)) = Len(x[r.field])
         /\ r.op = "list" => Len(PutSimple(w, x)) = 8
         /\ r.op \in {"each", "message", "messages"} => PutSimple(w, x) = <<>>
  <1>1. CASE r.op = "value"
    <2>1. x[r.field] \in Int /\ r.count \in Nat
      BY <1>1 DEF FieldFits, Same
    <2>2. PutSimple(w, x) = Bytes(x[r.field], r.count)
      BY <1>1 DEF PutSimple, Same
    <2> QED BY <1>1, <2>1, <2>2, BytesAre
  <1>2. CASE r.op = "skip"
    <2>1. r.count \in Nat
      BY <1>2 DEF Same
    <2>2. PutSimple(w, x) = Bytes(0, r.count)
      BY <1>2 DEF PutSimple, Same
    <2> QED BY <1>2, <2>1, <2>2, BytesAre
  <1>3. CASE r.op \in {"chars", "fixed"}
    <2>1. x[r.field] \in Seq(Nat) /\ Len(x[r.field]) = Count(r, x)
      BY <1>3 DEF FieldFits
    <2>2. PutSimple(w, x) = CharBytes(x[r.field])
      <3>1. CASE w.op = "text"
        BY <3>1 DEF PutSimple, Same
      <3>2. CASE w.op # "text"
        <4>1. w.op = r.op /\ Count(w, x) = Count(r, x) /\ w.field = r.field
          BY <3>2 DEF Same, Count
        <4>2. PutSimple(w, x) = CharBytes(Padded(x[r.field], Len(x[r.field])))
          BY <1>3, <2>1, <4>1 DEF PutSimple
        <4> QED BY <2>1, <4>2, PaddedIs
      <3> QED BY <3>1, <3>2
    <2> QED BY <1>3, <2>1, <2>2, CharBytesAre
  <1>4. CASE r.op = "list"
    <2>1. Len(x[r.field]) \in Nat
      BY <1>4 DEF FieldFits, IsSequence
    <2>2. PutSimple(w, x) = Bytes(Len(x[r.field]), 8)
      BY <1>4 DEF PutSimple, Same
    <2>3. Bytes(Len(x[r.field]), 8) \in Seq(Byte) /\ Len(Bytes(Len(x[r.field]), 8)) = 8
      <3> DEFINE v == Len(x[r.field])
      <3>1. v \in Int /\ 8 \in Nat
        BY <2>1
      <3> HIDE DEF v
      <3>2. Bytes(v, 8) \in Seq(Byte) /\ Len(Bytes(v, 8)) = 8
        BY <3>1, BytesAre
      <3> QED BY <3>2 DEF v
    <2> QED BY <1>4, <2>2, <2>3
  <1>5. CASE r.op \in {"each", "message", "messages"}
    <2>1. PutSimple(w, x) = <<>>
      BY <1>5 DEF PutSimple, Same
    <2> QED BY <1>5, <2>1
  <1> QED BY <1>1, <1>2, <1>3, <1>4, <1>5 DEF Same, Simple, Compound

\* A field that is no compound is read as it is,
LEMMA SimpleRead ==
  ASSUME NEW w, NEW r, Same(w, r), r.op \in Simple, NEW x, FieldFits(r, x),
         NEW buf, Len(buf) \in Nat, NEW p \in Int, Holds(buf, p, PutSimple(w, x)),
         NEW msg, Count(r, msg) = Count(r, x)
  PROVE  GetSimple(r, buf, Got(p, msg))
            = Got(p + Len(PutSimple(w, x)), Taken(msg, r, x))
  <1>1. CASE r.op = "value"
    <2>1. x[r.field] \in Int /\ r.count \in Nat \ {0}
      BY <1>1 DEF FieldFits, Same
    <2>2. PutSimple(w, x) = Bytes(x[r.field], r.count)
      BY <1>1 DEF PutSimple, Same
    <2>3. Value(Slice(buf, p, r.count)) = x[r.field]
      BY <2>1, <2>2, NumberIsRead
    <2>4. Len(PutSimple(w, x)) = r.count
      BY <1>1, PutSimpleIs
    <2> QED BY <1>1, <2>3, <2>4 DEF GetSimple, Into, Got, Taken
  <1>2. CASE r.op = "skip"
    <2>1. Len(PutSimple(w, x)) = r.count
      BY <1>2, PutSimpleIs
    <2>2. GetSimple(r, buf, Got(p, msg)) = [Got(p, msg) EXCEPT !.at = @ + r.count]
      BY <1>2 DEF GetSimple
    <2> QED BY <1>2, <2>1, <2>2 DEF Got, Taken
  <1>3. CASE r.op \in {"chars", "fixed"}
    <2>1. /\ x[r.field] \in Seq(Nat) /\ Len(x[r.field]) = Count(r, x)
          /\ PutSimple(w, x) = CharBytes(x[r.field])
          /\ Len(PutSimple(w, x)) = Len(x[r.field])
      BY <1>3, PutSimpleIs
    <2>2. ReadChars(buf, p, Len(x[r.field])) = x[r.field]
      BY <2>1, StringIsRead
    <2> QED BY <1>3, <2>1, <2>2 DEF GetSimple, Into, Got, Taken
  <1> QED BY <1>1, <1>2, <1>3 DEF Simple

\* How many elements a step goes over.
LEMMA RepeatsAre ==
  ASSUME NEW r, NEW x, FieldFits(r, x), r.op \in Simple \cup Compound
  PROVE  /\ Repeats(r, x) \in Nat
         /\ r.op \in {"list", "each", "messages"} =>
               /\ Repeats(r, x) = Len(x[r.field])
               /\ x[r.field] = [k \in 1 .. Repeats(r, x) |-> Item(r, x, k)]
  <1>1. CASE r.op \in {"list", "each", "messages"}
    <2>1. IsSequence(x[r.field]) /\ Repeats(r, x) = Len(x[r.field])
      BY <1>1 DEF FieldFits, Repeats
    <2>2. \A k : Item(r, x, k) = x[r.field][k]
      BY <1>1 DEF Item
    <2> QED BY <2>1, <2>2 DEF IsSequence
  <1>2. CASE r.op \in Simple \cup {"message"}
    BY <1>2 DEF Repeats, Simple
  <1> QED BY <1>1, <1>2 DEF Compound

\* and one that is, if its elements are.
LEMMA CompoundRead ==
  ASSUME NEW w, NEW r, Same(w, r), r.op \in Compound, NEW x, FieldFits(r, x),
         NEW els \in [1 .. Repeats(r, x) -> Seq(Byte)], NEW reader,
         NEW buf, Len(buf) \in Nat, NEW p \in Int,
         Holds(buf, p, PutSimple(w, x)),
         Holds(buf, p + Len(PutSimple(w, x)), FlattenSeq(els)),
         NEW msg, Count(r, msg) = Count(r, x),
         ReadsItems(reader, buf, els, [k \in 1 .. Repeats(r, x) |-> Item(r, x, k)])
  PROVE  GetStep(r, reader, buf, Got(p, msg))
            = Got(p + Len(PutSimple(w, x)) + Len(FlattenSeq(els)), Taken(msg, r, x))
  <1> DEFINE n == Repeats(r, x)
             at == p + Len(PutSimple(w, x))
             items == [k \in 1 .. n |-> Item(r, x, k)]
             d == [at |-> at + Len(FlattenSeq(els)), list |-> items, failed |-> FALSE]
  <1>1. n \in Nat
    BY RepeatsAre DEF Same
  <1>2. PutSimple(w, x) \in Seq(Byte)
    BY PutSimpleIs
  <1>3. Expects(r, buf, Got(p, msg)) = n /\ Begin(r, Got(p, msg)) = at
    <2>1. CASE r.op = "list"
      <3>1. Len(x[r.field]) \in Int /\ n = Len(x[r.field])
        BY <2>1 DEF FieldFits, IsSequence, Repeats
      <3>2. PutSimple(w, x) = Bytes(Len(x[r.field]), 8)
        BY <2>1 DEF PutSimple, Same
      <3>3. Value(Slice(buf, p, 8)) = Len(x[r.field])
        BY <3>1, <3>2, NumberIsRead
      <3>4. Len(PutSimple(w, x)) = 8
        BY <2>1, PutSimpleIs
      <3> QED BY <2>1, <3>1, <3>3, <3>4 DEF Expects, Begin, Got
    <2>2. CASE r.op \in {"each", "message", "messages"}
      <3>1. Len(PutSimple(w, x)) = 0
        <4>1. PutSimple(w, x) = <<>>
          BY <2>2, PutSimpleIs
        <4> QED BY <4>1
      <3> QED BY <2>2, <3>1 DEF Expects, Begin, Got, Repeats
    <2> QED BY <2>1, <2>2 DEF Compound
  <1>4. GetElements(reader, n, at) = d
    <2>1. at \in Int
      BY <1>2
    <2>2. ReadsItems(reader, buf, els, items)
      BY DEF ReadsItems
    <2>3. GetElements(reader, n, at) = ListGot(at + Len(FlattenSeq(els)), n, items)
      <3>1. els \in [1 .. n -> Seq(Byte)] /\ Holds(buf, at, FlattenSeq(els))
        OBVIOUS
      <3>2. n \in Nat
        BY <1>1
      <3> HIDE DEF n, at, items
      <3> QED BY <2>1, <2>2, <3>1, <3>2, ElementsRead
    <2>4. [k \in 1 .. n |-> items[k]] = items
      OBVIOUS
    <2> QED BY <2>3, <2>4 DEF ListGot
  <1>5. GetStep(r, reader, buf, Got(p, msg)) = IntoAll(Got(p, msg), r, d)
    BY <1>3, <1>4 DEF GetStep
  <1>6. IntoAll(Got(p, msg), r, d) = Got(at + Len(FlattenSeq(els)), With(msg, r.field, x[r.field]))
    <2>1. (IF r.op = "message" /\ ~d.failed THEN d.list[1] ELSE d.list) = x[r.field]
      <3>1. CASE r.op = "message"
        <4>1. n = 1 /\ Item(r, x, 1) = x[r.field]
          BY <3>1 DEF Repeats, Item
        <4>2. d.failed = FALSE /\ d.list[1] = x[r.field]
          BY <4>1
        <4> QED BY <3>1, <4>2
      <3>2. CASE r.op \in {"list", "each", "messages"}
        <4>1. items = x[r.field]
          BY <3>2, RepeatsAre DEF Same
        <4>2. d.list = x[r.field]
          BY <4>1
        <4> QED BY <3>2, <4>2
      <3> QED BY <3>1, <3>2 DEF Compound
    <2>2. d.at = at + Len(FlattenSeq(els)) /\ d.failed = FALSE
      OBVIOUS
    <2> HIDE DEF d
    <2> QED BY <2>1, <2>2 DEF IntoAll, Into, Got
  <1>7. r.op # "skip"
    BY DEF Compound
  <1> QED BY <1>5, <1>6, <1>7 DEF Taken

-----------------------------------------------------------------------------
(* The steps of writing and those of reading *)

\* Every step of writing has its step of reading, and a size that a step of
\* reading goes by is the field of an earlier one.
Aligned(writes, reads) ==
    /\ Len(reads) \in Nat
    /\ DOMAIN reads = 1 .. Len(reads) /\ DOMAIN writes = 1 .. Len(reads)
    /\ \A i \in 1 .. Len(reads) :
          /\ Same(writes[i], reads[i])
          /\ reads[i].length # "" =>
                \E j \in 1 .. i - 1 :
                    reads[j].field = reads[i].length /\ reads[j].op # "skip"

\* Every field fits the step that goes over it.
AllFit(steps, x) == \A i \in DOMAIN steps : FieldFits(steps[i], x)

\* elements[i] are the bytes of the elements of step i.
AreElements(elements, steps, x) ==
    \A i \in DOMAIN steps : elements[i] \in [1 .. Repeats(steps[i], x) -> Seq(Byte)]

\* What the elements of a step are, and that the readers find them.
Items(step, x) == [k \in 1 .. Repeats(step, x) |-> Item(step, x, k)]
ElementsAreRead(readers, steps, buf, elements, x) ==
    \A i \in DOMAIN steps :
        steps[i].op \in Compound =>
            ReadsItems(readers[i], buf, elements[i], Items(steps[i], x))

\* What the steps write.
Parts(writes, elements, x) ==
    [i \in DOMAIN writes |-> PutSimple(writes[i], x) \o FlattenSeq(elements[i])]

\* The part of a step is its value and its elements,
LEMMA PartIs ==
  ASSUME NEW writes, NEW reads, Aligned(writes, reads), NEW x, AllFit(reads, x),
         NEW elements, AreElements(elements, reads, x), NEW i \in 1 .. Len(reads)
  PROVE  /\ FlattenSeq(elements[i]) \in Seq(Byte)
         /\ PutSimple(writes[i], x) \in Seq(Byte)
         /\ Parts(writes, elements, x)[i] \in Seq(Byte)
         /\ Len(Parts(writes, elements, x)[i])
               = Len(PutSimple(writes[i], x)) + Len(FlattenSeq(elements[i]))
         /\ Parts(writes, elements, x)[i]
               = PutSimple(writes[i], x) \o FlattenSeq(elements[i])
  <1>1. Same(writes[i], reads[i]) /\ FieldFits(reads[i], x)
    BY DEF Aligned, AllFit
  <1>2. elements[i] \in [1 .. Repeats(reads[i], x) -> Seq(Byte)]
    BY DEF Aligned, AreElements
  <1>3. Repeats(reads[i], x) \in Nat
    BY <1>1, RepeatsAre DEF Same
  <1>4. FlattenSeq(elements[i]) \in Seq(Byte)
    BY <1>2, <1>3, JoinedAre
  <1>5. PutSimple(writes[i], x) \in Seq(Byte)
    BY <1>1, PutSimpleIs
  <1>6. Parts(writes, elements, x)[i] = PutSimple(writes[i], x) \o FlattenSeq(elements[i])
    BY DEF Aligned, Parts
  <1> QED BY <1>4, <1>5, <1>6, Concatenation

\* and what the steps write is their parts one behind the other.
LEMMA PartsAre ==
  ASSUME NEW writes, NEW reads, Aligned(writes, reads), NEW x, AllFit(reads, x),
         NEW elements, AreElements(elements, reads, x)
  PROVE  /\ Parts(writes, elements, x) \in [1 .. Len(reads) -> Seq(Byte)]
         /\ Put(writes, elements, x) = FlattenSeq(Parts(writes, elements, x))
  <1>1. Parts(writes, elements, x)
           = [i \in 1 .. Len(reads) |-> Parts(writes, elements, x)[i]]
    BY DEF Aligned, Parts
  <1>2. \A i \in 1 .. Len(reads) : Parts(writes, elements, x)[i] \in Seq(Byte)
    BY PartIs
  <1>3. Put(writes, elements, x) = FlattenSeq(Parts(writes, elements, x))
    BY DEF Put, Parts
  <1> QED BY <1>1, <1>2, <1>3

\* Fields that have been read, over what was there before.
First(steps, n) == {steps[j].field : j \in {k \in 1 .. n : steps[k].op # "skip"}}
Over(msg, fields, x) ==
    [f \in DOMAIN msg \cup fields |-> IF f \in fields THEN x[f] ELSE msg[f]]

\* Reading one step more adds its field.
LEMMA TakeNext ==
  ASSUME NEW steps, NEW i \in Nat \ {0}, NEW msg, NEW x
  PROVE  Taken(Over(msg, First(steps, i - 1), x), steps[i], x)
            = Over(msg, First(steps, i), x)
  <1>1. CASE steps[i].op = "skip"
    <2>1. First(steps, i) = First(steps, i - 1)
      <3>1. {k \in 1 .. i : steps[k].op # "skip"} = {k \in 1 .. i - 1 : steps[k].op # "skip"}
        BY <1>1
      <3> QED BY <3>1 DEF First
    <2> QED BY <1>1, <2>1 DEF Taken
  <1>2. CASE steps[i].op # "skip"
    <2> DEFINE P == First(steps, i - 1)
               f == steps[i].field
    <2>1. First(steps, i) = P \cup {f}
      <3>1. {k \in 1 .. i : steps[k].op # "skip"}
               = {k \in 1 .. i - 1 : steps[k].op # "skip"} \cup {i}
        BY <1>2
      <3> QED BY <3>1 DEF First
    <2>2. Taken(Over(msg, P, x), steps[i], x) = With(Over(msg, P, x), f, x[f])
      BY <1>2 DEF Taken
    <2> HIDE DEF P, f
    <2>3. With(Over(msg, P, x), f, x[f]) = Over(msg, P \cup {f}, x)
      <3>1. DOMAIN Over(msg, P, x) = DOMAIN msg \cup P
        BY DEF Over
      <3>2. \A g \in DOMAIN msg \cup P :
               Over(msg, P, x)[g] = IF g \in P THEN x[g] ELSE msg[g]
        BY DEF Over
      <3>3. With(Over(msg, P, x), f, x[f])
               = [g \in (DOMAIN msg \cup P) \cup {f} |->
                    IF g = f THEN x[f] ELSE Over(msg, P, x)[g]]
        BY <3>1 DEF With
      <3>4. ASSUME NEW g \in DOMAIN msg \cup (P \cup {f})
            PROVE  (IF g = f THEN x[f] ELSE Over(msg, P, x)[g])
                      = IF g \in P \cup {f} THEN x[g] ELSE msg[g]
        BY <3>2
      <3>5. (DOMAIN msg \cup P) \cup {f} = DOMAIN msg \cup (P \cup {f})
        OBVIOUS
      <3>6. Over(msg, P \cup {f}, x)
               = [g \in DOMAIN msg \cup (P \cup {f}) |->
                    IF g \in P \cup {f} THEN x[g] ELSE msg[g]]
        BY DEF Over
      <3> QED BY <3>3, <3>4, <3>5, <3>6
    <2> QED BY <2>1, <2>2, <2>3 DEF P
  <1> QED BY <1>1, <1>2

\* A size has been read when a step goes by it.
LEMMA SizeIsRead ==
  ASSUME NEW writes, NEW reads, Aligned(writes, reads), NEW i \in 1 .. Len(reads),
         NEW msg, NEW x
  PROVE  Count(reads[i], Over(msg, First(reads, i - 1), x)) = Count(reads[i], x)
  <1>1. CASE reads[i].length = ""
    BY <1>1 DEF Count
  <1>2. CASE reads[i].length # ""
    <2>1. reads[i].length \in First(reads, i - 1)
      BY <1>2 DEF Aligned, First
    <2>2. Over(msg, First(reads, i - 1), x)[reads[i].length] = x[reads[i].length]
      BY <2>1 DEF Over
    <2> QED BY <1>2, <2>2 DEF Count
  <1> QED BY <1>1, <1>2

\* What has been written is read: the fields, and where they end.
LEMMA GetPut ==
  ASSUME NEW writes, NEW reads, Aligned(writes, reads), NEW x, AllFit(reads, x),
         NEW elements, AreElements(elements, reads, x), NEW readers,
         NEW buf, Len(buf) \in Nat, ElementsAreRead(readers, reads, buf, elements, x),
         NEW at \in Int, Holds(buf, at, Put(writes, elements, x)), NEW msg,
         IsRecord(msg, DOMAIN msg)
  PROVE  Get(reads, readers, buf, Got(at, msg))
            = Got(at + Len(Put(writes, elements, x)), Over(msg, Fields(reads), x))
  <1>0. ASSUME NEW i \in 1 .. Len(reads)
        PROVE  /\ FlattenSeq(elements[i]) \in Seq(Byte)
               /\ PutSimple(writes[i], x) \in Seq(Byte)
               /\ Len(Parts(writes, elements, x)[i])
                     = Len(PutSimple(writes[i], x)) + Len(FlattenSeq(elements[i]))
               /\ Parts(writes, elements, x)[i]
                     = PutSimple(writes[i], x) \o FlattenSeq(elements[i])
    BY PartIs
  <1> DEFINE n == Len(reads)
             parts == Parts(writes, elements, x)
             msgs == [i \in 0 .. n |-> Over(msg, First(reads, i), x)]
  <1>1. n \in Nat /\ DOMAIN reads = 1 .. n
    BY DEF Aligned
  <1>2. parts \in [1 .. n -> Seq(Byte)] /\ Put(writes, elements, x) = FlattenSeq(parts)
    BY PartsAre
  <1>3. ASSUME NEW i \in 1 .. n, NEW p \in Int, Holds(buf, p, parts[i])
        PROVE  GetStep(reads[i], readers[i], buf, Got(p, msgs[i - 1]))
                  = Got(p + Len(parts[i]), msgs[i])
    <2> DEFINE w == writes[i]
               r == reads[i]
               els == elements[i]
               old == msgs[i - 1]
    <2>1. /\ i \in DOMAIN reads /\ Same(w, r) /\ FieldFits(r, x)
          /\ els \in [1 .. Repeats(r, x) -> Seq(Byte)]
      BY <1>1 DEF Aligned, AllFit, AreElements
    <2>2. Repeats(r, x) \in Nat
      BY <2>1, RepeatsAre DEF Same
    <2>3. /\ PutSimple(w, x) \in Seq(Byte) /\ FlattenSeq(els) \in Seq(Byte)
          /\ Len(parts[i]) = Len(PutSimple(w, x)) + Len(FlattenSeq(els))
          /\ parts[i] = PutSimple(w, x) \o FlattenSeq(els)
      BY <1>0
    <2>4. Holds(buf, p, PutSimple(w, x) \o FlattenSeq(els))
      BY <1>3, <2>3
    <2>5. /\ Holds(buf, p, PutSimple(w, x))
          /\ Holds(buf, p + Len(PutSimple(w, x)), FlattenSeq(els))
      <3> HIDE DEF w, els, parts
      <3> QED BY <2>3, <2>4, HoldsBoth
    <2>6. old = Over(msg, First(reads, i - 1), x) /\ msgs[i] = Over(msg, First(reads, i), x)
      BY <1>1
    <2>7. Count(r, old) = Count(r, x)
      <3>1. Count(r, Over(msg, First(reads, i - 1), x)) = Count(r, x)
        BY SizeIsRead
      <3> QED BY <2>6, <3>1
    <2>8. Taken(old, r, x) = msgs[i]
      <3>1. i \in Nat \ {0}
        BY <1>1
      <3>2. Taken(Over(msg, First(reads, i - 1), x), reads[i], x) = Over(msg, First(reads, i), x)
        BY <3>1, TakeNext
      <3> QED BY <2>6, <3>2
    <2>9. CASE r.op \in Simple
      <3>1. Len(els) = 0
        <4>1. Repeats(r, x) = 0
          BY <2>1, <2>9, SameElements
        <4> QED BY <2>1, <4>1, FunctionIsSeq
      <3>2. Len(FlattenSeq(els)) = 0
        <4>1. FlattenSeq(els) = els
          BY <3>1, JoinedChosen
        <4> QED BY <3>1, <4>1
      <3>3. GetStep(r, readers[i], buf, Got(p, old)) = GetSimple(r, buf, Got(p, old))
        BY <2>9 DEF GetStep, Simple, Compound
      <3>4. GetSimple(r, buf, Got(p, old)) = Got(p + Len(PutSimple(w, x)), Taken(old, r, x))
        <4> HIDE DEF r, w, old
        <4> QED BY <2>1, <2>5, <2>7, <2>9, SimpleRead
      <3>5. p + Len(PutSimple(w, x)) = p + Len(parts[i])
        <4>1. Len(PutSimple(w, x)) \in Nat
          BY <2>3
        <4> QED BY <2>3, <3>2, <4>1
      <3> QED BY <2>8, <3>3, <3>4, <3>5
    <2>10. CASE r.op \in Compound
      <3>1. ReadsItems(readers[i], buf, els, Items(r, x))
        BY <2>1, <2>10 DEF ElementsAreRead
      <3>2. GetStep(r, readers[i], buf, Got(p, old))
               = Got(p + Len(PutSimple(w, x)) + Len(FlattenSeq(els)), Taken(old, r, x))
        <4>1. ReadsItems(readers[i], buf, els, [k \in 1 .. Repeats(r, x) |-> Item(r, x, k)])
          BY <3>1 DEF Items
        <4> HIDE DEF r, w, old, els
        <4> QED BY <2>1, <2>5, <2>7, <2>10, <4>1, CompoundRead
      <3>3. p + Len(PutSimple(w, x)) + Len(FlattenSeq(els)) = p + Len(parts[i])
        <4>1. Len(PutSimple(w, x)) \in Nat /\ Len(FlattenSeq(els)) \in Nat
          BY <2>3
        <4> HIDE DEF r, w, old, els, parts
        <4> QED BY <2>3, <4>1
      <3> QED BY <2>8, <3>2, <3>3
    <2> QED BY <2>1, <2>9, <2>10 DEF Same
  <1>4. StepsRead(reads, readers, buf, parts, msgs)
    <2>1. DOMAIN parts = 1 .. n
      BY <1>2
    <2> HIDE DEF parts, msgs, n
    <2> QED BY <1>3, <2>1 DEF StepsRead
  <1>5. msgs[0] = msg
    <2>1. First(reads, 0) = {}
      <3>1. {k \in 1 .. 0 : reads[k].op # "skip"} = {}
        OBVIOUS
      <3> QED BY <3>1 DEF First
    <2>2. Over(msg, {}, x) = [f \in DOMAIN msg |-> msg[f]]
      BY DEF Over
    <2> QED BY <1>1, <2>1, <2>2 DEF IsRecord
  <1>6. msgs[n] = Over(msg, Fields(reads), x)
    <2>1. First(reads, n) = Fields(reads)
      BY <1>1 DEF First, Fields
    <2> QED BY <1>1, <2>1
  <1> HIDE DEF parts, msgs, n
  <1>7. Get(reads, readers, buf, Got(at, msgs[0])) = Got(at + Len(FlattenSeq(parts)), msgs[n])
    <2>1. Holds(buf, at, FlattenSeq(parts)) /\ n = Len(reads)
      BY <1>2 DEF n
    <2> QED BY <1>1, <1>2, <1>4, <2>1, StepsRun
  <1> QED BY <1>2, <1>5, <1>6, <1>7

-----------------------------------------------------------------------------
(* The steps of a class *)

\* Steps without elements of their own, and steps of any kind.
Flat(writes, reads) ==
    /\ Aligned(writes, reads)
    /\ \A i \in 1 .. Len(reads) : writes[i].steps = <<>> /\ reads[i].steps = <<>>
\* Both have elements with steps of their own that go together, or neither has,
AgreeStep(w, r) ==
    \/ w.steps = <<>> /\ r.steps = <<>>
    \/ /\ w.steps # <<>> /\ r.steps # <<>> /\ r.op \in {"list", "each"}
       /\ Flat(w.steps, r.steps)
\* and that for all steps of a class.
Agree(writes, reads) ==
    /\ Aligned(writes, reads)
    /\ \A i \in 1 .. Len(reads) : AgreeStep(writes[i], reads[i])

\* A step of writing and its step of reading, after fields that are known.
Pair(w, r, known) ==
    Same(w, r) /\ AgreeStep(w, r) /\ (r.length # "" => r.length \in known)

\* So far the steps are pairs.
Names(reads, n) == {reads[j].field : j \in 1 .. n}
PairsTo(writes, reads, n) ==
    \A i \in 1 .. n : Pair(writes[i], reads[i], Names(reads, i - 1))

\* A list of pairs is built from nothing, one pair at a time.
LEMMA NoPairs ==
  ASSUME NEW writes, NEW reads
  PROVE  PairsTo(writes, reads, 0) /\ Names(reads, 0) = {}
  <1>1. 1 .. 0 = {}
    OBVIOUS
  <1> QED BY <1>1 DEF PairsTo, Names

\* The next pair,
LEMMA NextPair ==
  ASSUME NEW writes, NEW reads, NEW n \in Nat, PairsTo(writes, reads, n),
         Pair(writes[n + 1], reads[n + 1], Names(reads, n))
  PROVE  /\ PairsTo(writes, reads, n + 1)
         /\ Names(reads, n + 1) = Names(reads, n) \cup {reads[n + 1].field}
  <1>1. 1 .. n + 1 = (1 .. n) \cup {n + 1} /\ (n + 1) - 1 = n
    OBVIOUS
  <1>2. \A i \in 1 .. n : Pair(writes[i], reads[i], Names(reads, i - 1))
    BY DEF PairsTo
  <1>3. Pair(writes[n + 1], reads[n + 1], Names(reads, (n + 1) - 1))
    BY <1>1
  <1>4. PairsTo(writes, reads, n + 1)
    BY <1>1, <1>2, <1>3 DEF PairsTo
  <1>5. Names(reads, n + 1) = Names(reads, n) \cup {reads[n + 1].field}
    BY <1>1 DEF Names
  <1> QED BY <1>4, <1>5

\* Each fact by itself.
LEMMA NextPairs ==
  ASSUME NEW writes, NEW reads, NEW n \in Nat, NEW k, k = n + 1, PairsTo(writes, reads, n),
         Pair(writes[k], reads[k], Names(reads, n))
  PROVE  PairsTo(writes, reads, k)
  BY NextPair
\* and the field it makes known.
LEMMA NextNames ==
  ASSUME NEW reads, NEW n \in Nat, NEW k, k = n + 1
  PROVE  Names(reads, k) = Names(reads, n) \cup {reads[k].field}
  <1>1. 1 .. k = (1 .. n) \cup {k}
    OBVIOUS
  <1> QED BY <1>1 DEF Names

\* Steps that are all pairs agree.
LEMMA AgreeIf ==
  ASSUME NEW n \in Nat, NEW writes, NEW reads,
         Len(reads) = n, DOMAIN reads = 1 .. n, DOMAIN writes = 1 .. n,
         PairsTo(writes, reads, n)
  PROVE  Agree(writes, reads)
  <1>1. ASSUME NEW i \in 1 .. n
        PROVE  /\ Same(writes[i], reads[i]) /\ AgreeStep(writes[i], reads[i])
               /\ reads[i].length # "" => reads[i].length \in Names(reads, i - 1)
    BY DEF PairsTo, Pair
  <1>2. ASSUME NEW i \in 1 .. n, reads[i].length # ""
        PROVE  \E j \in 1 .. i - 1 : reads[j].field = reads[i].length /\ reads[j].op # "skip"
    <2>1. PICK j \in 1 .. i - 1 : reads[j].field = reads[i].length
      BY <1>1, <1>2 DEF Names
    <2>2. j \in 1 .. n
      OBVIOUS
    <2>3. Same(writes[j], reads[j])
      BY <1>1, <2>2
    <2> QED BY <1>2, <2>1, <2>3 DEF Same
  <1> QED BY <1>1, <1>2 DEF Agree, Aligned

\* So tuples of pairs agree.
Pairs1(a1, b1) ==
    /\ Pair(a1, b1, {})

\* Lists of one to eight pairs, the lengths that the classes have.
LEMMA Agree1 ==
  ASSUME NEW a1, NEW b1, Pairs1(a1, b1)
  PROVE  Agree(<<a1>>, <<b1>>)
  <1> DEFINE W == <<a1>>
             R == <<b1>>
  <1>1. Len(R) = 1 /\ DOMAIN R = 1 .. 1 /\ DOMAIN W = 1 .. 1
    OBVIOUS
  <1>2. /\ W[1] = a1
        /\ R[1] = b1
    OBVIOUS
  <1> HIDE DEF W, R
  <1>3. PairsTo(W, R, 0) /\ Names(R, 0) = {}
    BY NoPairs
  <1>4. PairsTo(W, R, 1) /\ Names(R, 1) = {b1.field}
    <2>1. Pair(W[1], R[1], Names(R, 0))
      <3>1. Pair(a1, b1, {})
        BY DEF Pairs1
      <3> QED BY <1>2, <1>3, <3>1
    <2>2. 1 = 0 + 1 /\ 0 \in Nat
      OBVIOUS
    <2>3. PairsTo(W, R, 1)
      BY <1>3, <2>1, <2>2, NextPairs
    <2>4. Names(R, 1) = Names(R, 0) \cup {R[1].field}
      BY <2>2, NextNames
    <2> QED BY <1>2, <1>3, <2>3, <2>4
  <1> QED BY <1>1, <1>4, AgreeIf DEF W, R

Pairs2(a1, a2, b1, b2) ==
    /\ Pair(a1, b1, {})
    /\ Pair(a2, b2, {b1.field})

LEMMA Agree2 ==
  ASSUME NEW a1, NEW a2, NEW b1, NEW b2, Pairs2(a1, a2, b1, b2)
  PROVE  Agree(<<a1, a2>>, <<b1, b2>>)
  <1> DEFINE W == <<a1, a2>>
             R == <<b1, b2>>
  <1>1. Len(R) = 2 /\ DOMAIN R = 1 .. 2 /\ DOMAIN W = 1 .. 2
    OBVIOUS
  <1>2. /\ W[1] = a1 /\ W[2] = a2
        /\ R[1] = b1 /\ R[2] = b2
    OBVIOUS
  <1> HIDE DEF W, R
  <1>3. PairsTo(W, R, 0) /\ Names(R, 0) = {}
    BY NoPairs
  <1>4. PairsTo(W, R, 1) /\ Names(R, 1) = {b1.field}
    <2>1. Pair(W[1], R[1], Names(R, 0))
      <3>1. Pair(a1, b1, {})
        BY DEF Pairs2
      <3> QED BY <1>2, <1>3, <3>1
    <2>2. 1 = 0 + 1 /\ 0 \in Nat
      OBVIOUS
    <2>3. PairsTo(W, R, 1)
      BY <1>3, <2>1, <2>2, NextPairs
    <2>4. Names(R, 1) = Names(R, 0) \cup {R[1].field}
      BY <2>2, NextNames
    <2> QED BY <1>2, <1>3, <2>3, <2>4
  <1>5. PairsTo(W, R, 2) /\ Names(R, 2) = {b1.field, b2.field}
    <2>1. Pair(W[2], R[2], Names(R, 1))
      <3>1. Pair(a2, b2, {b1.field})
        BY DEF Pairs2
      <3> QED BY <1>2, <1>4, <3>1
    <2>2. 2 = 1 + 1 /\ 1 \in Nat
      OBVIOUS
    <2>3. PairsTo(W, R, 2)
      BY <1>4, <2>1, <2>2, NextPairs
    <2>4. Names(R, 2) = Names(R, 1) \cup {R[2].field}
      BY <2>2, NextNames
    <2> QED BY <1>2, <1>4, <2>3, <2>4
  <1> QED BY <1>1, <1>5, AgreeIf DEF W, R

Pairs3(a1, a2, a3, b1, b2, b3) ==
    /\ Pair(a1, b1, {})
    /\ Pair(a2, b2, {b1.field})
    /\ Pair(a3, b3, {b1.field, b2.field})

LEMMA Agree3 ==
  ASSUME NEW a1, NEW a2, NEW a3, NEW b1, NEW b2, NEW b3,
         Pairs3(a1, a2, a3, b1, b2, b3)
  PROVE  Agree(<<a1, a2, a3>>, <<b1, b2, b3>>)
  <1> DEFINE W == <<a1, a2, a3>>
             R == <<b1, b2, b3>>
  <1>1. Len(R) = 3 /\ DOMAIN R = 1 .. 3 /\ DOMAIN W = 1 .. 3
    OBVIOUS
  <1>2. /\ W[1] = a1 /\ W[2] = a2 /\ W[3] = a3
        /\ R[1] = b1 /\ R[2] = b2 /\ R[3] = b3
    OBVIOUS
  <1> HIDE DEF W, R
  <1>3. PairsTo(W, R, 0) /\ Names(R, 0) = {}
    BY NoPairs
  <1>4. PairsTo(W, R, 1) /\ Names(R, 1) = {b1.field}
    <2>1. Pair(W[1], R[1], Names(R, 0))
      <3>1. Pair(a1, b1, {})
        BY DEF Pairs3
      <3> QED BY <1>2, <1>3, <3>1
    <2>2. 1 = 0 + 1 /\ 0 \in Nat
      OBVIOUS
    <2>3. PairsTo(W, R, 1)
      BY <1>3, <2>1, <2>2, NextPairs
    <2>4. Names(R, 1) = Names(R, 0) \cup {R[1].field}
      BY <2>2, NextNames
    <2> QED BY <1>2, <1>3, <2>3, <2>4
  <1>5. PairsTo(W, R, 2) /\ Names(R, 2) = {b1.field, b2.field}
    <2>1. Pair(W[2], R[2], Names(R, 1))
      <3>1. Pair(a2, b2, {b1.field})
        BY DEF Pairs3
      <3> QED BY <1>2, <1>4, <3>1
    <2>2. 2 = 1 + 1 /\ 1 \in Nat
      OBVIOUS
    <2>3. PairsTo(W, R, 2)
      BY <1>4, <2>1, <2>2, NextPairs
    <2>4. Names(R, 2) = Names(R, 1) \cup {R[2].field}
      BY <2>2, NextNames
    <2> QED BY <1>2, <1>4, <2>3, <2>4
  <1>6. PairsTo(W, R, 3) /\ Names(R, 3) = {b1.field, b2.field, b3.field}
    <2>1. Pair(W[3], R[3], Names(R, 2))
      <3>1. Pair(a3, b3, {b1.field, b2.field})
        BY DEF Pairs3
      <3> QED BY <1>2, <1>5, <3>1
    <2>2. 3 = 2 + 1 /\ 2 \in Nat
      OBVIOUS
    <2>3. PairsTo(W, R, 3)
      BY <1>5, <2>1, <2>2, NextPairs
    <2>4. Names(R, 3) = Names(R, 2) \cup {R[3].field}
      BY <2>2, NextNames
    <2> QED BY <1>2, <1>5, <2>3, <2>4
  <1> QED BY <1>1, <1>6, AgreeIf DEF W, R

Pairs4(a1, a2, a3, a4, b1, b2, b3, b4) ==
    /\ Pair(a1, b1, {})
    /\ Pair(a2, b2, {b1.field})
    /\ Pair(a3, b3, {b1.field, b2.field})
    /\ Pair(a4, b4, {b1.field, b2.field, b3.field})

LEMMA Agree4 ==
  ASSUME NEW a1, NEW a2, NEW a3, NEW a4, NEW b1, NEW b2, NEW b3, NEW b4,
         Pairs4(a1, a2, a3, a4, b1, b2, b3, b4)
  PROVE  Agree(<<a1, a2, a3, a4>>, <<b1, b2, b3, b4>>)
  <1> DEFINE W == <<a1, a2, a3, a4>>
             R == <<b1, b2, b3, b4>>
  <1>1. Len(R) = 4 /\ DOMAIN R = 1 .. 4 /\ DOMAIN W = 1 .. 4
    OBVIOUS
  <1>2. /\ W[1] = a1 /\ W[2] = a2 /\ W[3] = a3 /\ W[4] = a4
        /\ R[1] = b1 /\ R[2] = b2 /\ R[3] = b3 /\ R[4] = b4
    OBVIOUS
  <1> HIDE DEF W, R
  <1>3. PairsTo(W, R, 0) /\ Names(R, 0) = {}
    BY NoPairs
  <1>4. PairsTo(W, R, 1) /\ Names(R, 1) = {b1.field}
    <2>1. Pair(W[1], R[1], Names(R, 0))
      <3>1. Pair(a1, b1, {})
        BY DEF Pairs4
      <3> QED BY <1>2, <1>3, <3>1
    <2>2. 1 = 0 + 1 /\ 0 \in Nat
      OBVIOUS
    <2>3. PairsTo(W, R, 1)
      BY <1>3, <2>1, <2>2, NextPairs
    <2>4. Names(R, 1) = Names(R, 0) \cup {R[1].field}
      BY <2>2, NextNames
    <2> QED BY <1>2, <1>3, <2>3, <2>4
  <1>5. PairsTo(W, R, 2) /\ Names(R, 2) = {b1.field, b2.field}
    <2>1. Pair(W[2], R[2], Names(R, 1))
      <3>1. Pair(a2, b2, {b1.field})
        BY DEF Pairs4
      <3> QED BY <1>2, <1>4, <3>1
    <2>2. 2 = 1 + 1 /\ 1 \in Nat
      OBVIOUS
    <2>3. PairsTo(W, R, 2)
      BY <1>4, <2>1, <2>2, NextPairs
    <2>4. Names(R, 2) = Names(R, 1) \cup {R[2].field}
      BY <2>2, NextNames
    <2> QED BY <1>2, <1>4, <2>3, <2>4
  <1>6. PairsTo(W, R, 3) /\ Names(R, 3) = {b1.field, b2.field, b3.field}
    <2>1. Pair(W[3], R[3], Names(R, 2))
      <3>1. Pair(a3, b3, {b1.field, b2.field})
        BY DEF Pairs4
      <3> QED BY <1>2, <1>5, <3>1
    <2>2. 3 = 2 + 1 /\ 2 \in Nat
      OBVIOUS
    <2>3. PairsTo(W, R, 3)
      BY <1>5, <2>1, <2>2, NextPairs
    <2>4. Names(R, 3) = Names(R, 2) \cup {R[3].field}
      BY <2>2, NextNames
    <2> QED BY <1>2, <1>5, <2>3, <2>4
  <1>7. PairsTo(W, R, 4) /\ Names(R, 4) = {b1.field, b2.field, b3.field, b4.field}
    <2>1. Pair(W[4], R[4], Names(R, 3))
      <3>1. Pair(a4, b4, {b1.field, b2.field, b3.field})
        BY DEF Pairs4
      <3> QED BY <1>2, <1>6, <3>1
    <2>2. 4 = 3 + 1 /\ 3 \in Nat
      OBVIOUS
    <2>3. PairsTo(W, R, 4)
      BY <1>6, <2>1, <2>2, NextPairs
    <2>4. Names(R, 4) = Names(R, 3) \cup {R[4].field}
      BY <2>2, NextNames
    <2> QED BY <1>2, <1>6, <2>3, <2>4
  <1> QED BY <1>1, <1>7, AgreeIf DEF W, R

Pairs5(a1, a2, a3, a4, a5, b1, b2, b3, b4, b5) ==
    /\ Pair(a1, b1, {})
    /\ Pair(a2, b2, {b1.field})
    /\ Pair(a3, b3, {b1.field, b2.field})
    /\ Pair(a4, b4, {b1.field, b2.field, b3.field})
    /\ Pair(a5, b5, {b1.field, b2.field, b3.field, b4.field})

LEMMA Agree5 ==
  ASSUME NEW a1, NEW a2, NEW a3, NEW a4, NEW a5, NEW b1, NEW b2, NEW b3, NEW b4,
         NEW b5, Pairs5(a1, a2, a3, a4, a5, b1, b2, b3, b4, b5)
  PROVE  Agree(<<a1, a2, a3, a4, a5>>, <<b1, b2, b3, b4, b5>>)
  <1> DEFINE W == <<a1, a2, a3, a4, a5>>
             R == <<b1, b2, b3, b4, b5>>
  <1>1. Len(R) = 5 /\ DOMAIN R = 1 .. 5 /\ DOMAIN W = 1 .. 5
    OBVIOUS
  <1>2. /\ W[1] = a1 /\ W[2] = a2 /\ W[3] = a3 /\ W[4] = a4 /\ W[5] = a5
        /\ R[1] = b1 /\ R[2] = b2 /\ R[3] = b3 /\ R[4] = b4 /\ R[5] = b5
    OBVIOUS
  <1> HIDE DEF W, R
  <1>3. PairsTo(W, R, 0) /\ Names(R, 0) = {}
    BY NoPairs
  <1>4. PairsTo(W, R, 1) /\ Names(R, 1) = {b1.field}
    <2>1. Pair(W[1], R[1], Names(R, 0))
      <3>1. Pair(a1, b1, {})
        BY DEF Pairs5
      <3> QED BY <1>2, <1>3, <3>1
    <2>2. 1 = 0 + 1 /\ 0 \in Nat
      OBVIOUS
    <2>3. PairsTo(W, R, 1)
      BY <1>3, <2>1, <2>2, NextPairs
    <2>4. Names(R, 1) = Names(R, 0) \cup {R[1].field}
      BY <2>2, NextNames
    <2> QED BY <1>2, <1>3, <2>3, <2>4
  <1>5. PairsTo(W, R, 2) /\ Names(R, 2) = {b1.field, b2.field}
    <2>1. Pair(W[2], R[2], Names(R, 1))
      <3>1. Pair(a2, b2, {b1.field})
        BY DEF Pairs5
      <3> QED BY <1>2, <1>4, <3>1
    <2>2. 2 = 1 + 1 /\ 1 \in Nat
      OBVIOUS
    <2>3. PairsTo(W, R, 2)
      BY <1>4, <2>1, <2>2, NextPairs
    <2>4. Names(R, 2) = Names(R, 1) \cup {R[2].field}
      BY <2>2, NextNames
    <2> QED BY <1>2, <1>4, <2>3, <2>4
  <1>6. PairsTo(W, R, 3) /\ Names(R, 3) = {b1.field, b2.field, b3.field}
    <2>1. Pair(W[3], R[3], Names(R, 2))
      <3>1. Pair(a3, b3, {b1.field, b2.field})
        BY DEF Pairs5
      <3> QED BY <1>2, <1>5, <3>1
    <2>2. 3 = 2 + 1 /\ 2 \in Nat
      OBVIOUS
    <2>3. PairsTo(W, R, 3)
      BY <1>5, <2>1, <2>2, NextPairs
    <2>4. Names(R, 3) = Names(R, 2) \cup {R[3].field}
      BY <2>2, NextNames
    <2> QED BY <1>2, <1>5, <2>3, <2>4
  <1>7. PairsTo(W, R, 4) /\ Names(R, 4) = {b1.field, b2.field, b3.field, b4.field}
    <2>1. Pair(W[4], R[4], Names(R, 3))
      <3>1. Pair(a4, b4, {b1.field, b2.field, b3.field})
        BY DEF Pairs5
      <3> QED BY <1>2, <1>6, <3>1
    <2>2. 4 = 3 + 1 /\ 3 \in Nat
      OBVIOUS
    <2>3. PairsTo(W, R, 4)
      BY <1>6, <2>1, <2>2, NextPairs
    <2>4. Names(R, 4) = Names(R, 3) \cup {R[4].field}
      BY <2>2, NextNames
    <2> QED BY <1>2, <1>6, <2>3, <2>4
  <1>8. PairsTo(W, R, 5) /\ Names(R, 5) = {b1.field, b2.field, b3.field, b4.field, b5.field}
    <2>1. Pair(W[5], R[5], Names(R, 4))
      <3>1. Pair(a5, b5, {b1.field, b2.field, b3.field, b4.field})
        BY DEF Pairs5
      <3> QED BY <1>2, <1>7, <3>1
    <2>2. 5 = 4 + 1 /\ 4 \in Nat
      OBVIOUS
    <2>3. PairsTo(W, R, 5)
      BY <1>7, <2>1, <2>2, NextPairs
    <2>4. Names(R, 5) = Names(R, 4) \cup {R[5].field}
      BY <2>2, NextNames
    <2> QED BY <1>2, <1>7, <2>3, <2>4
  <1> QED BY <1>1, <1>8, AgreeIf DEF W, R

Pairs7(a1, a2, a3, a4, a5, a6, a7, b1, b2, b3, b4, b5, b6, b7) ==
    /\ Pair(a1, b1, {})
    /\ Pair(a2, b2, {b1.field})
    /\ Pair(a3, b3, {b1.field, b2.field})
    /\ Pair(a4, b4, {b1.field, b2.field, b3.field})
    /\ Pair(a5, b5, {b1.field, b2.field, b3.field, b4.field})
    /\ Pair(a6, b6, {b1.field, b2.field, b3.field, b4.field, b5.field})
    /\ Pair(a7, b7, {b1.field, b2.field, b3.field, b4.field, b5.field, b6.field})

LEMMA Agree7 ==
  ASSUME NEW a1, NEW a2, NEW a3, NEW a4, NEW a5, NEW a6, NEW a7, NEW b1, NEW b2,
         NEW b3, NEW b4, NEW b5, NEW b6, NEW b7,
         Pairs7(a1, a2, a3, a4, a5, a6, a7, b1, b2, b3, b4, b5, b6, b7)
  PROVE  Agree(<<a1, a2, a3, a4, a5, a6, a7>>, <<b1, b2, b3, b4, b5, b6, b7>>)
  <1> DEFINE W == <<a1, a2, a3, a4, a5, a6, a7>>
             R == <<b1, b2, b3, b4, b5, b6, b7>>
  <1>1. Len(R) = 7 /\ DOMAIN R = 1 .. 7 /\ DOMAIN W = 1 .. 7
    OBVIOUS
  <1>2. /\ W[1] = a1 /\ W[2] = a2 /\ W[3] = a3 /\ W[4] = a4 /\ W[5] = a5 /\
           W[6] = a6 /\ W[7] = a7
        /\ R[1] = b1 /\ R[2] = b2 /\ R[3] = b3 /\ R[4] = b4 /\ R[5] = b5 /\
           R[6] = b6 /\ R[7] = b7
    OBVIOUS
  <1> HIDE DEF W, R
  <1>3. PairsTo(W, R, 0) /\ Names(R, 0) = {}
    BY NoPairs
  <1>4. PairsTo(W, R, 1) /\ Names(R, 1) = {b1.field}
    <2>1. Pair(W[1], R[1], Names(R, 0))
      <3>1. Pair(a1, b1, {})
        BY DEF Pairs7
      <3> QED BY <1>2, <1>3, <3>1
    <2>2. 1 = 0 + 1 /\ 0 \in Nat
      OBVIOUS
    <2>3. PairsTo(W, R, 1)
      BY <1>3, <2>1, <2>2, NextPairs
    <2>4. Names(R, 1) = Names(R, 0) \cup {R[1].field}
      BY <2>2, NextNames
    <2> QED BY <1>2, <1>3, <2>3, <2>4
  <1>5. PairsTo(W, R, 2) /\ Names(R, 2) = {b1.field, b2.field}
    <2>1. Pair(W[2], R[2], Names(R, 1))
      <3>1. Pair(a2, b2, {b1.field})
        BY DEF Pairs7
      <3> QED BY <1>2, <1>4, <3>1
    <2>2. 2 = 1 + 1 /\ 1 \in Nat
      OBVIOUS
    <2>3. PairsTo(W, R, 2)
      BY <1>4, <2>1, <2>2, NextPairs
    <2>4. Names(R, 2) = Names(R, 1) \cup {R[2].field}
      BY <2>2, NextNames
    <2> QED BY <1>2, <1>4, <2>3, <2>4
  <1>6. PairsTo(W, R, 3) /\ Names(R, 3) = {b1.field, b2.field, b3.field}
    <2>1. Pair(W[3], R[3], Names(R, 2))
      <3>1. Pair(a3, b3, {b1.field, b2.field})
        BY DEF Pairs7
      <3> QED BY <1>2, <1>5, <3>1
    <2>2. 3 = 2 + 1 /\ 2 \in Nat
      OBVIOUS
    <2>3. PairsTo(W, R, 3)
      BY <1>5, <2>1, <2>2, NextPairs
    <2>4. Names(R, 3) = Names(R, 2) \cup {R[3].field}
      BY <2>2, NextNames
    <2> QED BY <1>2, <1>5, <2>3, <2>4
  <1>7. PairsTo(W, R, 4) /\ Names(R, 4) = {b1.field, b2.field, b3.field, b4.field}
    <2>1. Pair(W[4], R[4], Names(R, 3))
      <3>1. Pair(a4, b4, {b1.field, b2.field, b3.field})
        BY DEF Pairs7
      <3> QED BY <1>2, <1>6, <3>1
    <2>2. 4 = 3 + 1 /\ 3 \in Nat
      OBVIOUS
    <2>3. PairsTo(W, R, 4)
      BY <1>6, <2>1, <2>2, NextPairs
    <2>4. Names(R, 4) = Names(R, 3) \cup {R[4].field}
      BY <2>2, NextNames
    <2> QED BY <1>2, <1>6, <2>3, <2>4
  <1>8. PairsTo(W, R, 5) /\ Names(R, 5) = {b1.field, b2.field, b3.field, b4.field, b5.field}
    <2>1. Pair(W[5], R[5], Names(R, 4))
      <3>1. Pair(a5, b5, {b1.field, b2.field, b3.field, b4.field})
        BY DEF Pairs7
      <3> QED BY <1>2, <1>7, <3>1
    <2>2. 5 = 4 + 1 /\ 4 \in Nat
      OBVIOUS
    <2>3. PairsTo(W, R, 5)
      BY <1>7, <2>1, <2>2, NextPairs
    <2>4. Names(R, 5) = Names(R, 4) \cup {R[5].field}
      BY <2>2, NextNames
    <2> QED BY <1>2, <1>7, <2>3, <2>4
  <1>9. PairsTo(W, R, 6) /\ Names(R, 6) = {b1.field, b2.field, b3.field, b4.field, b5.field, b6.field}
    <2>1. Pair(W[6], R[6], Names(R, 5))
      <3>1. Pair(a6, b6, {b1.field, b2.field, b3.field, b4.field, b5.field})
        BY DEF Pairs7
      <3> QED BY <1>2, <1>8, <3>1
    <2>2. 6 = 5 + 1 /\ 5 \in Nat
      OBVIOUS
    <2>3. PairsTo(W, R, 6)
      BY <1>8, <2>1, <2>2, NextPairs
    <2>4. Names(R, 6) = Names(R, 5) \cup {R[6].field}
      BY <2>2, NextNames
    <2> QED BY <1>2, <1>8, <2>3, <2>4
  <1>10. PairsTo(W, R, 7) /\ Names(R, 7) = {b1.field, b2.field, b3.field, b4.field, b5.field, b6.field, b7.field}
    <2>1. Pair(W[7], R[7], Names(R, 6))
      <3>1. Pair(a7, b7, {b1.field, b2.field, b3.field, b4.field, b5.field, b6.field})
        BY DEF Pairs7
      <3> QED BY <1>2, <1>9, <3>1
    <2>2. 7 = 6 + 1 /\ 6 \in Nat
      OBVIOUS
    <2>3. PairsTo(W, R, 7)
      BY <1>9, <2>1, <2>2, NextPairs
    <2>4. Names(R, 7) = Names(R, 6) \cup {R[7].field}
      BY <2>2, NextNames
    <2> QED BY <1>2, <1>9, <2>3, <2>4
  <1> QED BY <1>1, <1>10, AgreeIf DEF W, R

Pairs8(a1, a2, a3, a4, a5, a6, a7, a8, b1, b2, b3, b4, b5, b6, b7, b8) ==
    /\ Pair(a1, b1, {})
    /\ Pair(a2, b2, {b1.field})
    /\ Pair(a3, b3, {b1.field, b2.field})
    /\ Pair(a4, b4, {b1.field, b2.field, b3.field})
    /\ Pair(a5, b5, {b1.field, b2.field, b3.field, b4.field})
    /\ Pair(a6, b6, {b1.field, b2.field, b3.field, b4.field, b5.field})
    /\ Pair(a7, b7, {b1.field, b2.field, b3.field, b4.field, b5.field, b6.field})
    /\ Pair(a8, b8, {b1.field, b2.field, b3.field, b4.field, b5.field, b6.field,
                      b7.field})

LEMMA Agree8 ==
  ASSUME NEW a1, NEW a2, NEW a3, NEW a4, NEW a5, NEW a6, NEW a7, NEW a8, NEW b1,
         NEW b2, NEW b3, NEW b4, NEW b5, NEW b6, NEW b7, NEW b8,
         Pairs8(a1, a2, a3, a4, a5, a6, a7, a8, b1, b2, b3, b4, b5, b6, b7, b8)
  PROVE  Agree(<<a1, a2, a3, a4, a5, a6, a7, a8>>, <<b1, b2, b3, b4, b5, b6, b7, b8>>)
  <1> DEFINE W == <<a1, a2, a3, a4, a5, a6, a7, a8>>
             R == <<b1, b2, b3, b4, b5, b6, b7, b8>>
  <1>1. Len(R) = 8 /\ DOMAIN R = 1 .. 8 /\ DOMAIN W = 1 .. 8
    OBVIOUS
  <1>2. /\ W[1] = a1 /\ W[2] = a2 /\ W[3] = a3 /\ W[4] = a4 /\ W[5] = a5 /\
           W[6] = a6 /\ W[7] = a7 /\ W[8] = a8
        /\ R[1] = b1 /\ R[2] = b2 /\ R[3] = b3 /\ R[4] = b4 /\ R[5] = b5 /\
           R[6] = b6 /\ R[7] = b7 /\ R[8] = b8
    OBVIOUS
  <1> HIDE DEF W, R
  <1>3. PairsTo(W, R, 0) /\ Names(R, 0) = {}
    BY NoPairs
  <1>4. PairsTo(W, R, 1) /\ Names(R, 1) = {b1.field}
    <2>1. Pair(W[1], R[1], Names(R, 0))
      <3>1. Pair(a1, b1, {})
        BY DEF Pairs8
      <3> QED BY <1>2, <1>3, <3>1
    <2>2. 1 = 0 + 1 /\ 0 \in Nat
      OBVIOUS
    <2>3. PairsTo(W, R, 1)
      BY <1>3, <2>1, <2>2, NextPairs
    <2>4. Names(R, 1) = Names(R, 0) \cup {R[1].field}
      BY <2>2, NextNames
    <2> QED BY <1>2, <1>3, <2>3, <2>4
  <1>5. PairsTo(W, R, 2) /\ Names(R, 2) = {b1.field, b2.field}
    <2>1. Pair(W[2], R[2], Names(R, 1))
      <3>1. Pair(a2, b2, {b1.field})
        BY DEF Pairs8
      <3> QED BY <1>2, <1>4, <3>1
    <2>2. 2 = 1 + 1 /\ 1 \in Nat
      OBVIOUS
    <2>3. PairsTo(W, R, 2)
      BY <1>4, <2>1, <2>2, NextPairs
    <2>4. Names(R, 2) = Names(R, 1) \cup {R[2].field}
      BY <2>2, NextNames
    <2> QED BY <1>2, <1>4, <2>3, <2>4
  <1>6. PairsTo(W, R, 3) /\ Names(R, 3) = {b1.field, b2.field, b3.field}
    <2>1. Pair(W[3], R[3], Names(R, 2))
      <3>1. Pair(a3, b3, {b1.field, b2.field})
        BY DEF Pairs8
      <3> QED BY <1>2, <1>5, <3>1
    <2>2. 3 = 2 + 1 /\ 2 \in Nat
      OBVIOUS
    <2>3. PairsTo(W, R, 3)
      BY <1>5, <2>1, <2>2, NextPairs
    <2>4. Names(R, 3) = Names(R, 2) \cup {R[3].field}
      BY <2>2, NextNames
    <2> QED BY <1>2, <1>5, <2>3, <2>4
  <1>7. PairsTo(W, R, 4) /\ Names(R, 4) = {b1.field, b2.field, b3.field, b4.field}
    <2>1. Pair(W[4], R[4], Names(R, 3))
      <3>1. Pair(a4, b4, {b1.field, b2.field, b3.field})
        BY DEF Pairs8
      <3> QED BY <1>2, <1>6, <3>1
    <2>2. 4 = 3 + 1 /\ 3 \in Nat
      OBVIOUS
    <2>3. PairsTo(W, R, 4)
      BY <1>6, <2>1, <2>2, NextPairs
    <2>4. Names(R, 4) = Names(R, 3) \cup {R[4].field}
      BY <2>2, NextNames
    <2> QED BY <1>2, <1>6, <2>3, <2>4
  <1>8. PairsTo(W, R, 5) /\ Names(R, 5) = {b1.field, b2.field, b3.field, b4.field, b5.field}
    <2>1. Pair(W[5], R[5], Names(R, 4))
      <3>1. Pair(a5, b5, {b1.field, b2.field, b3.field, b4.field})
        BY DEF Pairs8
      <3> QED BY <1>2, <1>7, <3>1
    <2>2. 5 = 4 + 1 /\ 4 \in Nat
      OBVIOUS
    <2>3. PairsTo(W, R, 5)
      BY <1>7, <2>1, <2>2, NextPairs
    <2>4. Names(R, 5) = Names(R, 4) \cup {R[5].field}
      BY <2>2, NextNames
    <2> QED BY <1>2, <1>7, <2>3, <2>4
  <1>9. PairsTo(W, R, 6) /\ Names(R, 6) = {b1.field, b2.field, b3.field, b4.field, b5.field, b6.field}
    <2>1. Pair(W[6], R[6], Names(R, 5))
      <3>1. Pair(a6, b6, {b1.field, b2.field, b3.field, b4.field, b5.field})
        BY DEF Pairs8
      <3> QED BY <1>2, <1>8, <3>1
    <2>2. 6 = 5 + 1 /\ 5 \in Nat
      OBVIOUS
    <2>3. PairsTo(W, R, 6)
      BY <1>8, <2>1, <2>2, NextPairs
    <2>4. Names(R, 6) = Names(R, 5) \cup {R[6].field}
      BY <2>2, NextNames
    <2> QED BY <1>2, <1>8, <2>3, <2>4
  <1>10. PairsTo(W, R, 7) /\ Names(R, 7) = {b1.field, b2.field, b3.field, b4.field, b5.field, b6.field, b7.field}
    <2>1. Pair(W[7], R[7], Names(R, 6))
      <3>1. Pair(a7, b7, {b1.field, b2.field, b3.field, b4.field, b5.field, b6.field})
        BY DEF Pairs8
      <3> QED BY <1>2, <1>9, <3>1
    <2>2. 7 = 6 + 1 /\ 6 \in Nat
      OBVIOUS
    <2>3. PairsTo(W, R, 7)
      BY <1>9, <2>1, <2>2, NextPairs
    <2>4. Names(R, 7) = Names(R, 6) \cup {R[7].field}
      BY <2>2, NextNames
    <2> QED BY <1>2, <1>9, <2>3, <2>4
  <1>11. PairsTo(W, R, 8) /\ Names(R, 8) = {b1.field, b2.field, b3.field, b4.field, b5.field, b6.field, b7.field,
          b8.field}
    <2>1. Pair(W[8], R[8], Names(R, 7))
      <3>1. Pair(a8, b8, {b1.field, b2.field, b3.field, b4.field, b5.field,
                          b6.field, b7.field})
        BY DEF Pairs8
      <3> QED BY <1>2, <1>10, <3>1
    <2>2. 8 = 7 + 1 /\ 7 \in Nat
      OBVIOUS
    <2>3. PairsTo(W, R, 8)
      BY <1>10, <2>1, <2>2, NextPairs
    <2>4. Names(R, 8) = Names(R, 7) \cup {R[8].field}
      BY <2>2, NextNames
    <2> QED BY <1>2, <1>10, <2>3, <2>4
  <1> QED BY <1>1, <1>11, AgreeIf DEF W, R


\* The pairs that there are.
LEMMA ValPair ==
  ASSUME NEW f, NEW w \in Nat \ {0}, NEW known
  PROVE  Pair(Val(f, w), Val(f, w), known)
  BY DEF Pair, Same, AgreeStep, Val, Step, Simple

\* The steps that the classes are made of are pairs of their own.
LEMMA U64Pair == ASSUME NEW f, NEW known PROVE Pair(U64(f), U64(f), known)
  BY DEF Pair, Same, AgreeStep, U64, Val, Step, Simple

LEMMA U32Pair == ASSUME NEW f, NEW known PROVE Pair(U32(f), U32(f), known)
  BY DEF Pair, Same, AgreeStep, U32, Val, Step, Simple

LEMMA SkipPair ==
  ASSUME NEW w \in Nat \ {0}, NEW known PROVE Pair(Skip(w), Skip(w), known)
  BY DEF Pair, Same, AgreeStep, Skip, Step, Simple

LEMMA FixedPair ==
  ASSUME NEW f, NEW n, NEW known PROVE Pair(Fixed(f, n), Fixed(f, n), known)
  BY DEF Pair, Same, AgreeStep, Fixed, Step, Simple

LEMMA CharsPair ==
  ASSUME NEW f, NEW l, NEW known, l \in known
  PROVE  Pair(Chars(f, l), Chars(f, l), known)
  BY DEF Pair, Same, AgreeStep, Chars, Step, Simple

LEMMA TextPair ==
  ASSUME NEW f, NEW l, NEW known, l \in known
  PROVE  Pair(Text(f), Chars(f, l), known)
  BY DEF Pair, Same, AgreeStep, Text, Chars, Step, Simple

LEMMA NestedPair == ASSUME NEW f, NEW known PROVE Pair(Nested(f), Nested(f), known)
  BY DEF Pair, Same, AgreeStep, Nested, Step, Compound

LEMMA NestedNPair ==
  ASSUME NEW f, NEW n, NEW known PROVE Pair(NestedN(f, n), NestedN(f, n), known)
  BY DEF Pair, Same, AgreeStep, NestedN, Step, Compound

LEMMA NestedByPair ==
  ASSUME NEW f, NEW l, NEW known, l \in known
  PROVE  Pair(NestedBy(f, l), NestedBy(f, l), known)
  BY DEF Pair, Same, AgreeStep, NestedBy, Step, Compound

LEMMA ListPair ==
  ASSUME NEW f, NEW v, NEW r, Flat(v, r), v # <<>>, r # <<>>, NEW known
  PROVE  Pair(List(f, v), List(f, r), known)
  BY DEF Pair, Same, AgreeStep, List, Step, Compound

LEMMA EachPair ==
  ASSUME NEW f, NEW n, NEW v, NEW r, Flat(v, r), v # <<>>, r # <<>>, NEW known
  PROVE  Pair(Each(f, n, v), Each(f, n, r), known)
  BY DEF Pair, Same, AgreeStep, Each, Step, Compound

\* A list's own steps.
LEMMA OneFlat ==
  ASSUME NEW s, Pair(s, s, {}), s.steps = <<>>
  PROVE  Flat(<<s>>, <<s>>) /\ <<s>> # <<>>
  <1>1. Agree(<<s>>, <<s>>)
    BY Agree1 DEF Pairs1
  <1>2. <<s>>[1] = s /\ Len(<<s>>) = 1 /\ <<s>> # <<>>
    OBVIOUS
  <1> QED BY <1>1, <1>2 DEF Agree, Flat

LEMMA U64Field ==
  ASSUME NEW f PROVE U64(f).field = f /\ U64(f).steps = <<>>
  BY DEF U64, Val, Step

LEMMA RequestFlat ==
  LET s == Val("request", RequestWidth)
  IN  Flat(<<s>>, <<s>>) /\ <<s>> # <<>>
  <1> DEFINE s == Val("request", RequestWidth)
  <1>1. Pair(s, s, {}) /\ s.steps = <<>>
    <2>1. RequestWidth \in Nat \ {0}
      BY SizeAssumption
    <2> QED BY <2>1, ValPair DEF Val, Step
  <1> HIDE DEF s
  <1>2. Flat(<<s>>, <<s>>) /\ <<s>> # <<>>
    BY <1>1, OneFlat
  <1> QED BY <1>2 DEF s

LEMMA NumberFlat ==
  ASSUME NEW f PROVE Flat(<<U64(f)>>, <<U64(f)>>) /\ <<U64(f)>> # <<>>
  BY U64Pair, U64Field, OneFlat

\* The steps of every class agree.
LEMMA KeyExchangeAgrees == Agree(KeyExchangeWrites, KeyExchangeReads)
  BY Agree3, U64Pair, CharsPair, U64Field, Zenon
  DEF Pairs3, KeyExchangeWrites, KeyExchangeReads

\* The functions of each class agree.
LEMMA FinishAgrees == Agree(FinishWrites, FinishReads)
  <1>1. 1 \in Nat \ {0}
    OBVIOUS
  <1> QED BY <1>1, Agree3, U64Pair, U32Pair, ValPair, Zenon
  DEF Pairs3, FinishWrites, FinishReads

LEMMA QueryResponseAgrees == Agree(QueryResponseWrites, QueryResponseReads)
  BY Agree1, U32Pair, Zenon
  DEF Pairs1, QueryResponseWrites, QueryResponseReads

LEMMA AckAgrees == Agree(AckWrites, AckReads)
  BY Agree1, U32Pair, Zenon
  DEF Pairs1, AckWrites, AckReads

LEMMA ForwardAgrees == Agree(ForwardWrites, ForwardReads)
  BY Agree1, U32Pair, Zenon
  DEF Pairs1, ForwardWrites, ForwardReads

LEMMA ClientQueryBatchAgrees == Agree(ClientQueryBatchWrites, ClientQueryBatchReads)
  BY Agree3, U64Pair, U32Pair, NestedNPair, Zenon
  DEF Pairs3, ClientQueryBatchWrites, ClientQueryBatchReads

LEMMA PBFTPreAgrees == Agree(PBFTPreWrites, PBFTPreReads)
  BY Agree5, U64Pair, TextPair, NestedPair, U64Field, Zenon
  DEF Pairs5, PBFTPreWrites, PBFTPreReads

LEMMA ExecuteAgrees == Agree(ExecuteWrites, ExecuteReads)
  BY Agree7, U64Pair, TextPair, U64Field, Zenon
  DEF Pairs7, ExecuteWrites, ExecuteReads

LEMMA CheckpointAgrees == Agree(CheckpointWrites, CheckpointReads)
  BY Agree3, U64Pair, Zenon
  DEF Pairs3, CheckpointWrites, CheckpointReads

LEMMA PBFTPrepAgrees == Agree(PBFTPrepWrites, PBFTPrepReads)
  BY Agree7, U64Pair, U32Pair, TextPair, U64Field, Zenon
  DEF Pairs7, PBFTPrepWrites, PBFTPrepReads

LEMMA PBFTCommitAgrees == Agree(PBFTCommitWrites, PBFTCommitReads)
  BY Agree7, U64Pair, TextPair, U64Field, Zenon
  DEF Pairs7, PBFTCommitWrites, PBFTCommitReads

LEMMA PBFTViewChangeAgrees == Agree(PBFTViewChangeWrites, PBFTViewChangeReads)
  <1> DEFINE pre == NestedBy("prePrepareMessages", "numPreMsgs")
             prep == NestedBy("prepareMessages", "numPrepMsgs")
             known == {U64("view").field, U64("index").field, U64("numPreMsgs").field,
                       U64("numPrepMsgs").field, NestedN("checkPointMessages", 2 * F).field}
  <1>1. Pair(pre, pre, known)
    BY NestedByPair, U64Field, Zenon
  <1>2. Pair(prep, prep,
             {U64("view").field, U64("index").field, U64("numPreMsgs").field,
              U64("numPrepMsgs").field, NestedN("checkPointMessages", 2 * F).field,
              pre.field})
    BY NestedByPair, U64Field, Zenon
  <1> QED BY <1>1, <1>2, Agree8, U64Pair, NestedNPair, Zenon
  DEF Pairs8, PBFTViewChangeWrites, PBFTViewChangeReads

LEMMA PBFTNewViewAgrees == Agree(PBFTNewViewWrites, PBFTNewViewReads)
  <1> DEFINE vc == NestedBy("viewChangeMessages", "numViewChangeMsgs")
             pre == NestedBy("prePrepareMessages", "numPreMsgs")
  <1>1. Pair(vc, vc, {U64("view").field, U64("numViewChangeMsgs").field,
                      U64("numPreMsgs").field})
    BY NestedByPair, U64Field, Zenon
  <1>2. Pair(pre, pre, {U64("view").field, U64("numViewChangeMsgs").field,
                        U64("numPreMsgs").field, vc.field})
    BY NestedByPair, U64Field, Zenon
  <1> QED BY <1>1, <1>2, Agree5, U64Pair, Zenon
  DEF Pairs5, PBFTNewViewWrites, PBFTNewViewReads

LEMMA ClientCommitCertificateAgrees == Agree(ClientCommitCertificateWrites, ClientCommitCertificateReads)
  BY Agree2, U64Pair, Zenon
  DEF Pairs2, ClientCommitCertificateWrites, ClientCommitCertificateReads

LEMMA ClientCertificateAckAgrees == Agree(ClientCertificateAckWrites, ClientCertificateAckReads)
  BY Agree2, U64Pair, Zenon
  DEF Pairs2, ClientCertificateAckWrites, ClientCertificateAckReads

LEMMA DBFTPrepAgrees == Agree(DBFTPrepWrites, DBFTPrepReads)
  <1>1. Pair(Text("hash"), Chars("hash", "hashSize"),
             {U64("view").field, U64("index").field, U64("hashSize").field})
    BY TextPair, U64Field, Zenon
  <1>2. Pair(Text("tripleSign"), Chars("tripleSign", "tripleSignSize"),
             {U64("view").field, U64("index").field, U64("hashSize").field,
              Chars("hash", "hashSize").field, U64("return_node").field,
              U64("tripleSignSize").field})
    BY TextPair, U64Field, Zenon
  <1> QED BY <1>1, <1>2, Agree7, U64Pair, Zenon
  DEF Pairs7, DBFTPrepWrites, DBFTPrepReads

LEMMA QueryAgrees == Agree(QueryWrites, QueryReads)
  BY Agree1, ListPair, RequestFlat, Zenon
  DEF Pairs1, QueryWrites, QueryReads, QueryRequests

\* Concatenation over any set.
LEMMA JoinedTwo ==
  ASSUME NEW S, NEW s \in Seq(S), NEW t \in Seq(S)
  PROVE  /\ s \o t \in Seq(S) /\ Len(s \o t) = Len(s) + Len(t)
         /\ \A k \in 1 .. Len(s) : (s \o t)[k] = s[k]
         /\ \A k \in 1 .. Len(t) : (s \o t)[Len(s) + k] = t[k]
  OBVIOUS

\* Two pairs make four steps.
LEMMA PairsJoined ==
  ASSUME NEW S, NEW s \in Seq(S), NEW t \in Seq(S), NEW r \in Seq(S),
         Len(s) = 2, Len(t) = 2, Len(r) = 4,
         s[1] = r[1], s[2] = r[2], t[1] = r[3], t[2] = r[4]
  PROVE  s \o t = r
  <1>1. /\ s \o t \in Seq(S) /\ Len(s \o t) = Len(s) + Len(t)
        /\ \A k \in 1 .. Len(s) : (s \o t)[k] = s[k]
        /\ \A k \in 1 .. Len(t) : (s \o t)[Len(s) + k] = t[k]
    BY ONLY JoinedTwo, s \in Seq(S), t \in Seq(S)
  <1>2. (s \o t)[1] = r[1] /\ (s \o t)[2] = r[2] 
    <2>1. 1 \in 1 .. Len(s) /\ 2 \in 1 .. Len(s)
      OBVIOUS
    <2>2. (s \o t)[1] = s[1] /\ (s \o t)[2] = s[2]
      BY <1>1, <2>1
    <2> QED BY <2>2
  <1>3. (s \o t)[3] = r[3] /\ (s \o t)[4] = r[4] 
    <2>1. 1 \in 1 .. Len(t) /\ 2 \in 1 .. Len(t) /\ Len(s) + 1 = 3 /\ Len(s) + 2 = 4
      OBVIOUS
    <2>2. (s \o t)[Len(s) + 1] = t[1] /\ (s \o t)[Len(s) + 2] = t[2]
      BY <1>1, <2>1
    <2> QED BY <2>1, <2>2
  <1> DEFINE u == s \o t
  <1>4. u \in Seq(S) /\ Len(u) = 4
    BY <1>1
  <1>5. \A i \in 1 .. 4 : u[i] = r[i]
    <2>1. ASSUME NEW i \in 1 .. 4 PROVE i = 1 \/ i = 2 \/ i = 3 \/ i = 4
      OBVIOUS
    <2> QED BY <1>2, <1>3, <2>1
  <1> HIDE DEF u
  <1>6. u = r
    BY <1>4, <1>5
  <1> QED BY <1>6 DEF u

LEMMA YCSBClientQuerySteps ==
  LET steps == << U64("client_startts"), List("partitions", <<U64("part")>>),
                  List("requests", <<Val("request", RequestWidth)>>),
                  U64("return_node") >>
  IN  YCSBClientQueryWrites = steps /\ YCSBClientQueryReads = steps
  <1>1. ASSUME NEW a, NEW b, NEW c, NEW d PROVE <<a, b>> \o <<c, d>> = <<a, b, c, d>>
    <2> DEFINE S == {a, b, c, d}
               s == <<a, b>>
               t == <<c, d>>
               r == <<a, b, c, d>>
    <2>1. s \in Seq(S) /\ t \in Seq(S) /\ r \in Seq(S) /\ Len(s) = 2 /\ Len(t) = 2 /\ Len(r) = 4
      OBVIOUS
    <2>2. s[1] = r[1] /\ s[2] = r[2] /\ t[1] = r[3] /\ t[2] = r[4]
      OBVIOUS
    <2> HIDE DEF S, s, t, r
    <2>3. s \o t = r
      BY <2>1, <2>2, PairsJoined
    <2> QED BY <2>3 DEF s, t, r
  <1> QED BY <1>1, Zenon DEF YCSBClientQueryWrites, YCSBClientQueryReads, ClientQueryWrites, ClientQueryReads

LEMMA YCSBClientQueryAgrees == Agree(YCSBClientQueryWrites, YCSBClientQueryReads)
  BY Agree4, U64Pair, ListPair, NumberFlat, RequestFlat, YCSBClientQuerySteps, Zenon
  DEF Pairs4

LEMMA ClientResponseAgrees == Agree(ClientResponseWrites, ClientResponseReads)
  BY Agree3, U64Pair, EachPair, NumberFlat, Zenon
  DEF Pairs3, ClientResponseWrites, ClientResponseReads

LEMMA BatchElementFlat ==
  LET v == <<U64("index"), U64("hashSize"), Text("hash"), Nested("requestMsg")>>
      r == <<U64("index"), U64("hashSize"), Chars("hash", "hashSize"),
             Nested("requestMsg")>>
  IN  Flat(v, r) /\ v # <<>> /\ r # <<>>
  <1> DEFINE v == <<U64("index"), U64("hashSize"), Text("hash"), Nested("requestMsg")>>
             r == <<U64("index"), U64("hashSize"), Chars("hash", "hashSize"),
                    Nested("requestMsg")>>
  <1>1. Agree(v, r)
    BY Agree4, U64Pair, U64Field, TextPair, NestedPair, Zenon DEF Pairs4
  <1>2. Len(r) = 4 /\ v # <<>> /\ r # <<>>
    OBVIOUS
  <1>3. /\ v[1].steps = <<>> /\ v[2].steps = <<>> /\ v[3].steps = <<>> /\ v[4].steps = <<>>
        /\ r[1].steps = <<>> /\ r[2].steps = <<>> /\ r[3].steps = <<>> /\ r[4].steps = <<>>
    BY DEF U64, Val, Text, Chars, Nested, Step
  <1> HIDE DEF v, r
  <1>4. ASSUME NEW i \in 1 .. 4 PROVE v[i].steps = <<>> /\ r[i].steps = <<>>
    <2>1. i = 1 \/ i = 2 \/ i = 3 \/ i = 4
      OBVIOUS
    <2> QED BY <1>3, <2>1
  <1>5. Flat(v, r)
    BY <1>1, <1>2, <1>4 DEF Agree, Flat
  <1> QED BY <1>2, <1>5 DEF v, r

LEMMA BatchRequestsAgrees == Agree(BatchRequestsWrites, BatchRequestsReads)
  BY Agree3, U64Pair, U32Pair, EachPair, BatchElementFlat, Zenon
  DEF Pairs3, BatchRequestsWrites, BatchRequestsReads

LEMMA NothingAgrees == Agree(<<>>, <<>>)
  <1>1. PairsTo(<<>>, <<>>, 0)
    BY NoPairs
  <1>2. Len(<<>>) = 0 /\ DOMAIN <<>> = 1 .. 0
    OBVIOUS
  <1> QED BY <1>1, <1>2, AgreeIf

\* One more step of a longer tuple.
LEMMA PairsToNext ==
  ASSUME NEW writes, NEW reads, NEW n \in Nat, PairsTo(writes, reads, n), NEW s,
         writes[n + 1] = s, reads[n + 1] = s, Pair(s, s, Names(reads, n))
  PROVE  /\ PairsTo(writes, reads, n + 1)
         /\ s.field \in Names(reads, n + 1)
         /\ Names(reads, n) \subseteq Names(reads, n + 1)
  <1>1. Pair(writes[n + 1], reads[n + 1], Names(reads, n))
    OBVIOUS
  <1>2. /\ PairsTo(writes, reads, n + 1)
        /\ Names(reads, n + 1) = Names(reads, n) \cup {reads[n + 1].field}
    BY <1>1, NextPair
  <1> QED BY <1>2

\* The header's agree.
LEMMA HeaderAgrees == Agree(HeaderWrites, HeaderReads)
  <1> DEFINE w == HeaderWrites
             r == HeaderReads
  <1>1. Len(r) = 16 /\ DOMAIN r = 1 .. 16 /\ DOMAIN w = 1 .. 16
    BY DEF HeaderReads, HeaderWrites
  <1>w1. w[0 + 1] = U32("rtype") /\ r[0 + 1] = U32("rtype")
    BY DEF HeaderReads, HeaderWrites
  <1>w2. w[1 + 1] = U64("txn_id") /\ r[1 + 1] = U64("txn_id")
    BY DEF HeaderReads, HeaderWrites
  <1>w3. w[2 + 1] = U64("mq_time") /\ r[2 + 1] = U64("mq_time")
    BY DEF HeaderReads, HeaderWrites
  <1>w4. w[3 + 1] = Skip(56) /\ r[3 + 1] = Skip(56)
    BY DEF HeaderReads, HeaderWrites
  <1>w5. w[4 + 1] = U64("sigSize") /\ r[4 + 1] = U64("sigSize")
    BY DEF HeaderReads, HeaderWrites
  <1>w6. w[5 + 1] = U64("keySize") /\ r[5 + 1] = U64("keySize")
    BY DEF HeaderReads, HeaderWrites
  <1>w7. w[6 + 1] = Chars("signature", "sigSize") /\ r[6 + 1] = Chars("signature", "sigSize")
    BY DEF HeaderReads, HeaderWrites
  <1>w8. w[7 + 1] = Chars("pubKey", "keySize") /\ r[7 + 1] = Chars("pubKey", "keySize")
    BY DEF HeaderReads, HeaderWrites
  <1>w9. w[8 + 1] = Fixed("dp_seed", SeedSize) /\ r[8 + 1] = Fixed("dp_seed", SeedSize)
    BY DEF HeaderReads, HeaderWrites
  <1>w10. w[9 + 1] = Fixed("dp_hash", HashSize) /\ r[9 + 1] = Fixed("dp_hash", HashSize)
    BY DEF HeaderReads, HeaderWrites
  <1>w11. w[10 + 1] = Fixed("dp_proof", ProofSize) /\ r[10 + 1] = Fixed("dp_proof", ProofSize)
    BY DEF HeaderReads, HeaderWrites
  <1>w12. w[11 + 1] = Fixed("dp_value", ValueSize) /\ r[11 + 1] = Fixed("dp_value", ValueSize)
    BY DEF HeaderReads, HeaderWrites
  <1>w13. w[12 + 1] = U32("dp_j") /\ r[12 + 1] = U32("dp_j")
    BY DEF HeaderReads, HeaderWrites
  <1>w14. w[13 + 1] = U32("dp_node_id") /\ r[13 + 1] = U32("dp_node_id")
    BY DEF HeaderReads, HeaderWrites
  <1>w15. w[14 + 1] = Fixed("dp_pk", PkSize) /\ r[14 + 1] = Fixed("dp_pk", PkSize)
    BY DEF HeaderReads, HeaderWrites
  <1>w16. w[15 + 1] = U32("dp_type") /\ r[15 + 1] = U32("dp_type")
    BY DEF HeaderReads, HeaderWrites
  <1> HIDE DEF w, r
  <1>p0. PairsTo(w, r, 0)
    BY NoPairs
  <1>p1. PairsTo(w, r, 1)
    <2>1. Pair(U32("rtype"), U32("rtype"), Names(r, 0))
      BY <1>p0, U32Pair
    <2>2. 0 \in Nat /\ 0 + 1 = 1
      OBVIOUS
    <2>3. /\ PairsTo(w, r, 0 + 1) /\ (U32("rtype")).field \in Names(r, 0 + 1)
          /\ Names(r, 0) \subseteq Names(r, 0 + 1)
      BY <1>w1, <1>p0, <2>1, <2>2, PairsToNext, Zenon
    <2> QED BY <1>p0, <2>2, <2>3
  <1>p2. PairsTo(w, r, 2)
    <2>1. Pair(U64("txn_id"), U64("txn_id"), Names(r, 1))
      BY <1>p1, U64Pair
    <2>2. 1 \in Nat /\ 1 + 1 = 2
      OBVIOUS
    <2>3. /\ PairsTo(w, r, 1 + 1) /\ (U64("txn_id")).field \in Names(r, 1 + 1)
          /\ Names(r, 1) \subseteq Names(r, 1 + 1)
      BY <1>w2, <1>p1, <2>1, <2>2, PairsToNext, Zenon
    <2> QED BY <1>p1, <2>2, <2>3
  <1>p3. PairsTo(w, r, 3)
    <2>1. Pair(U64("mq_time"), U64("mq_time"), Names(r, 2))
      BY <1>p2, U64Pair
    <2>2. 2 \in Nat /\ 2 + 1 = 3
      OBVIOUS
    <2>3. /\ PairsTo(w, r, 2 + 1) /\ (U64("mq_time")).field \in Names(r, 2 + 1)
          /\ Names(r, 2) \subseteq Names(r, 2 + 1)
      BY <1>w3, <1>p2, <2>1, <2>2, PairsToNext, Zenon
    <2> QED BY <1>p2, <2>2, <2>3
  <1>p4. PairsTo(w, r, 4)
    <2>1. Pair(Skip(56), Skip(56), Names(r, 3))
      BY 56 \in Nat \ {0}, SkipPair
    <2>2. 3 \in Nat /\ 3 + 1 = 4
      OBVIOUS
    <2>3. /\ PairsTo(w, r, 3 + 1) /\ (Skip(56)).field \in Names(r, 3 + 1)
          /\ Names(r, 3) \subseteq Names(r, 3 + 1)
      BY <1>w4, <1>p3, <2>1, <2>2, PairsToNext, Zenon
    <2> QED BY <1>p3, <2>2, <2>3
  <1>p5. PairsTo(w, r, 5) /\ "sigSize" \in Names(r, 5)
    <2>1. Pair(U64("sigSize"), U64("sigSize"), Names(r, 4))
      BY <1>p4, U64Pair
    <2>2. 4 \in Nat /\ 4 + 1 = 5
      OBVIOUS
    <2>3. /\ PairsTo(w, r, 4 + 1) /\ (U64("sigSize")).field \in Names(r, 4 + 1)
          /\ Names(r, 4) \subseteq Names(r, 4 + 1)
      BY <1>w5, <1>p4, <2>1, <2>2, PairsToNext, Zenon
    <2> QED BY <1>p4, <2>2, <2>3, U64Field
  <1>p6. PairsTo(w, r, 6) /\ "sigSize" \in Names(r, 6) /\ "keySize" \in Names(r, 6)
    <2>1. Pair(U64("keySize"), U64("keySize"), Names(r, 5))
      BY <1>p5, U64Pair
    <2>2. 5 \in Nat /\ 5 + 1 = 6
      OBVIOUS
    <2>3. /\ PairsTo(w, r, 5 + 1) /\ (U64("keySize")).field \in Names(r, 5 + 1)
          /\ Names(r, 5) \subseteq Names(r, 5 + 1)
      BY <1>w6, <1>p5, <2>1, <2>2, PairsToNext, Zenon
    <2> QED BY <1>p5, <2>2, <2>3, U64Field
  <1>p7. PairsTo(w, r, 7) /\ "keySize" \in Names(r, 7)
    <2>1. Pair(Chars("signature", "sigSize"), Chars("signature", "sigSize"), Names(r, 6))
      BY <1>p6, CharsPair
    <2>2. 6 \in Nat /\ 6 + 1 = 7
      OBVIOUS
    <2>3. /\ PairsTo(w, r, 6 + 1) /\ (Chars("signature", "sigSize")).field \in Names(r, 6 + 1)
          /\ Names(r, 6) \subseteq Names(r, 6 + 1)
      BY <1>w7, <1>p6, <2>1, <2>2, PairsToNext, Zenon
    <2> QED BY <1>p6, <2>2, <2>3
  <1>p8. PairsTo(w, r, 8)
    <2>1. Pair(Chars("pubKey", "keySize"), Chars("pubKey", "keySize"), Names(r, 7))
      BY <1>p7, CharsPair
    <2>2. 7 \in Nat /\ 7 + 1 = 8
      OBVIOUS
    <2>3. /\ PairsTo(w, r, 7 + 1) /\ (Chars("pubKey", "keySize")).field \in Names(r, 7 + 1)
          /\ Names(r, 7) \subseteq Names(r, 7 + 1)
      BY <1>w8, <1>p7, <2>1, <2>2, PairsToNext, Zenon
    <2> QED BY <1>p7, <2>2, <2>3
  <1>p9. PairsTo(w, r, 9)
    <2>1. Pair(Fixed("dp_seed", SeedSize), Fixed("dp_seed", SeedSize), Names(r, 8))
      BY <1>p8, FixedPair, SizeAssumption
    <2>2. 8 \in Nat /\ 8 + 1 = 9
      OBVIOUS
    <2>3. /\ PairsTo(w, r, 8 + 1) /\ (Fixed("dp_seed", SeedSize)).field \in Names(r, 8 + 1)
          /\ Names(r, 8) \subseteq Names(r, 8 + 1)
      BY <1>w9, <1>p8, <2>1, <2>2, PairsToNext, Zenon
    <2> QED BY <1>p8, <2>2, <2>3
  <1>p10. PairsTo(w, r, 10)
    <2>1. Pair(Fixed("dp_hash", HashSize), Fixed("dp_hash", HashSize), Names(r, 9))
      BY <1>p9, FixedPair, SizeAssumption
    <2>2. 9 \in Nat /\ 9 + 1 = 10
      OBVIOUS
    <2>3. /\ PairsTo(w, r, 9 + 1) /\ (Fixed("dp_hash", HashSize)).field \in Names(r, 9 + 1)
          /\ Names(r, 9) \subseteq Names(r, 9 + 1)
      BY <1>w10, <1>p9, <2>1, <2>2, PairsToNext, Zenon
    <2> QED BY <1>p9, <2>2, <2>3
  <1>p11. PairsTo(w, r, 11)
    <2>1. Pair(Fixed("dp_proof", ProofSize), Fixed("dp_proof", ProofSize), Names(r, 10))
      BY <1>p10, FixedPair, SizeAssumption
    <2>2. 10 \in Nat /\ 10 + 1 = 11
      OBVIOUS
    <2>3. /\ PairsTo(w, r, 10 + 1) /\ (Fixed("dp_proof", ProofSize)).field \in Names(r, 10 + 1)
          /\ Names(r, 10) \subseteq Names(r, 10 + 1)
      BY <1>w11, <1>p10, <2>1, <2>2, PairsToNext, Zenon
    <2> QED BY <1>p10, <2>2, <2>3
  <1>p12. PairsTo(w, r, 12)
    <2>1. Pair(Fixed("dp_value", ValueSize), Fixed("dp_value", ValueSize), Names(r, 11))
      BY <1>p11, FixedPair, SizeAssumption
    <2>2. 11 \in Nat /\ 11 + 1 = 12
      OBVIOUS
    <2>3. /\ PairsTo(w, r, 11 + 1) /\ (Fixed("dp_value", ValueSize)).field \in Names(r, 11 + 1)
          /\ Names(r, 11) \subseteq Names(r, 11 + 1)
      BY <1>w12, <1>p11, <2>1, <2>2, PairsToNext, Zenon
    <2> QED BY <1>p11, <2>2, <2>3
  <1>p13. PairsTo(w, r, 13)
    <2>1. Pair(U32("dp_j"), U32("dp_j"), Names(r, 12))
      BY <1>p12, U32Pair
    <2>2. 12 \in Nat /\ 12 + 1 = 13
      OBVIOUS
    <2>3. /\ PairsTo(w, r, 12 + 1) /\ (U32("dp_j")).field \in Names(r, 12 + 1)
          /\ Names(r, 12) \subseteq Names(r, 12 + 1)
      BY <1>w13, <1>p12, <2>1, <2>2, PairsToNext, Zenon
    <2> QED BY <1>p12, <2>2, <2>3
  <1>p14. PairsTo(w, r, 14)
    <2>1. Pair(U32("dp_node_id"), U32("dp_node_id"), Names(r, 13))
      BY <1>p13, U32Pair
    <2>2. 13 \in Nat /\ 13 + 1 = 14
      OBVIOUS
    <2>3. /\ PairsTo(w, r, 13 + 1) /\ (U32("dp_node_id")).field \in Names(r, 13 + 1)
          /\ Names(r, 13) \subseteq Names(r, 13 + 1)
      BY <1>w14, <1>p13, <2>1, <2>2, PairsToNext, Zenon
    <2> QED BY <1>p13, <2>2, <2>3
  <1>p15. PairsTo(w, r, 15)
    <2>1. Pair(Fixed("dp_pk", PkSize), Fixed("dp_pk", PkSize), Names(r, 14))
      BY <1>p14, FixedPair, SizeAssumption
    <2>2. 14 \in Nat /\ 14 + 1 = 15
      OBVIOUS
    <2>3. /\ PairsTo(w, r, 14 + 1) /\ (Fixed("dp_pk", PkSize)).field \in Names(r, 14 + 1)
          /\ Names(r, 14) \subseteq Names(r, 14 + 1)
      BY <1>w15, <1>p14, <2>1, <2>2, PairsToNext, Zenon
    <2> QED BY <1>p14, <2>2, <2>3
  <1>p16. PairsTo(w, r, 16)
    <2>1. Pair(U32("dp_type"), U32("dp_type"), Names(r, 15))
      BY <1>p15, U32Pair
    <2>2. 15 \in Nat /\ 15 + 1 = 16
      OBVIOUS
    <2>3. /\ PairsTo(w, r, 15 + 1) /\ (U32("dp_type")).field \in Names(r, 15 + 1)
          /\ Names(r, 15) \subseteq Names(r, 15 + 1)
      BY <1>w16, <1>p15, <2>1, <2>2, PairsToNext, Zenon
    <2> QED BY <1>p15, <2>2, <2>3
  <1>2. Agree(w, r)
    BY <1>1, <1>p16, AgreeIf
  <1> QED BY <1>2 DEF w, r

-----------------------------------------------------------------------------
(* Elements are written and read *)

\* The bytes of these messages take what get_size() says,
Laid(placed, S) == \A e \in S : placed[e] \in Seq(Byte) /\ Len(placed[e]) = SizeOf(e)

\* and create_message() makes them of these bytes wherever they are.
Readable(messages, buf, placed, S) ==
    \A e \in S : \A p \in Int :
        Holds(buf, p, placed[e]) => messages[p] = Got(p + SizeOf(e), e)

\* A step that goes over messages writes those.
LEMMA CopiesAre ==
  ASSUME NEW writes, NEW reads, Aligned(writes, reads), NEW i \in 1 .. Len(reads),
         writes[i].steps = <<>>, NEW x, AllFit(reads, x),
         NEW placed, Laid(placed, Direct(writes, x))
  PROVE  /\ Copies(writes[i], placed, x) \in [1 .. Repeats(reads[i], x) -> Seq(Byte)]
         /\ \A k \in 1 .. Repeats(reads[i], x) :
               /\ Copies(writes[i], placed, x)[k] = placed[Item(reads[i], x, k)]
               /\ Item(reads[i], x, k) \in Direct(writes, x)
  <1>1. Same(writes[i], reads[i]) /\ i \in DOMAIN writes
    BY DEF Aligned
  <1>2. /\ Repeats(writes[i], x) = Repeats(reads[i], x)
        /\ \A k : Item(writes[i], x, k) = Item(reads[i], x, k)
    <2> DEFINE w == writes[i]
               r == reads[i]
    <2>1. Same(w, r)
      BY <1>1
    <2> HIDE DEF w, r
    <2>2. Repeats(w, x) = Repeats(r, x)
      BY <2>1, SameElements
    <2>3. ASSUME NEW k PROVE Item(w, x, k) = Item(r, x, k)
      BY <2>1, SameElements
    <2> QED BY <2>2, <2>3 DEF w, r
  <1>3. ASSUME NEW k \in 1 .. Repeats(reads[i], x)
        PROVE  Item(reads[i], x, k) \in Direct(writes, x)
    <2>1. Item(writes[i], x, k) \in Direct(writes, x)
      BY <1>1, <1>2 DEF Direct
    <2> QED BY <1>2, <2>1
  <1>4. Copies(writes[i], placed, x)
           = [k \in 1 .. Repeats(reads[i], x) |-> placed[Item(reads[i], x, k)]]
    BY <1>2 DEF Copies
  <1>5. ASSUME NEW k \in 1 .. Repeats(reads[i], x)
        PROVE  placed[Item(reads[i], x, k)] \in Seq(Byte)
    BY <1>3 DEF Laid
  <1> QED BY <1>3, <1>4, <1>5

LEMMA CopiesAreRead ==
  ASSUME NEW writes, NEW reads, Aligned(writes, reads), NEW i \in 1 .. Len(reads),
         writes[i].steps = <<>>, NEW x, AllFit(reads, x),
         NEW placed, Laid(placed, Direct(writes, x)),
         NEW messages, NEW buf, Readable(messages, buf, placed, Direct(writes, x))
  PROVE  ReadsItems(Passing(messages), buf, Copies(writes[i], placed, x),
                    Items(reads[i], x))
  <1> DEFINE r == reads[i]
             parts == Copies(writes[i], placed, x)
             n == Repeats(r, x)
  <1>1. /\ parts \in [1 .. n -> Seq(Byte)]
        /\ \A k \in 1 .. n : /\ parts[k] = placed[Item(r, x, k)]
                             /\ Item(r, x, k) \in Direct(writes, x)
    BY CopiesAre
  <1>2. ASSUME NEW k \in DOMAIN parts, NEW p \in Int, Holds(buf, p, parts[k])
        PROVE  Passing(messages)[p] = Got(p + Len(parts[k]), Items(r, x)[k])
    <2> DEFINE e == Item(r, x, k)
    <2>1. k \in 1 .. n /\ parts[k] = placed[e] /\ e \in Direct(writes, x)
      BY <1>1
    <2>2. Items(r, x)[k] = e
      BY <2>1 DEF Items
    <2> HIDE DEF e, parts
    <2>3. messages[p] = Got(p + SizeOf(e), e) /\ Len(placed[e]) = SizeOf(e)
      BY <1>2, <2>1 DEF Readable, Laid
    <2>4. Passing(messages)[p] = PassOver(messages[p], p)
      BY DEF Passing
    <2>5. PassOver(Got(p + SizeOf(e), e), p) = Got(p + SizeOf(e), e)
      BY DEF PassOver, Got
    <2> QED BY <2>1, <2>2, <2>3, <2>4, <2>5
  <1> HIDE DEF parts, r
  <1>3. ReadsItems(Passing(messages), buf, parts, Items(r, x))
    BY <1>2 DEF ReadsItems
  <1> QED BY <1>3 DEF parts, r

\* The element of a list, with steps of its own.
LEMMA ElementIs ==
  ASSUME NEW writes, NEW reads, Flat(writes, reads), NEW e, AllFit(reads, e),
         NEW placed, Laid(placed, Direct(writes, e))
  PROVE  /\ AreElements([j \in DOMAIN writes |-> Copies(writes[j], placed, e)], reads, e)
         /\ PutElement(writes, placed, e) \in Seq(Byte)
  <1> DEFINE els == [j \in DOMAIN writes |-> Copies(writes[j], placed, e)]
  <1>1. Aligned(writes, reads) /\ Len(reads) \in Nat
        /\ DOMAIN reads = 1 .. Len(reads) /\ DOMAIN writes = 1 .. Len(reads)
    BY DEF Flat, Aligned
  <1>2. ASSUME NEW i \in DOMAIN reads PROVE els[i] \in [1 .. Repeats(reads[i], e) -> Seq(Byte)]
    <2>1. writes[i].steps = <<>> /\ i \in 1 .. Len(reads) /\ i \in DOMAIN writes
      BY <1>1 DEF Flat
    <2>2. Copies(writes[i], placed, e) \in [1 .. Repeats(reads[i], e) -> Seq(Byte)]
      BY <1>1, <2>1, CopiesAre
    <2> QED BY <2>1, <2>2
  <1>3. PutElement(writes, placed, e) = Put(writes, els, e)
    BY DEF PutElement
  <1> HIDE DEF els
  <1>4. AreElements(els, reads, e)
    BY <1>2 DEF AreElements
  <1>5. /\ Parts(writes, els, e) \in [1 .. Len(reads) -> Seq(Byte)]
        /\ Put(writes, els, e) = FlattenSeq(Parts(writes, els, e))
    BY <1>1, <1>4, PartsAre
  <1>6. Put(writes, els, e) \in Seq(Byte)
    BY <1>1, <1>5, JoinedAre
  <1> QED BY <1>3, <1>4, <1>6 DEF els

LEMMA ElementIsRead ==
  ASSUME NEW writes, NEW reads, Flat(writes, reads), NEW e, AllFit(reads, e),
         IsRecord(e, Fields(reads)),
         NEW placed, Laid(placed, Direct(writes, e)),
         NEW messages, NEW buf, Len(buf) \in Nat,
         Readable(messages, buf, placed, Direct(writes, e)),
         NEW p \in Int, Holds(buf, p, PutElement(writes, placed, e))
  PROVE  GetElement(reads, messages, buf, p) = Got(p + Len(PutElement(writes, placed, e)), e)
  <1> DEFINE els == [j \in DOMAIN writes |-> Copies(writes[j], placed, e)]
             readers == [j \in DOMAIN reads |-> Passing(messages)]
  <1>1. Aligned(writes, reads) /\ Len(reads) \in Nat
        /\ DOMAIN reads = 1 .. Len(reads) /\ DOMAIN writes = 1 .. Len(reads)
    BY DEF Flat, Aligned
  <1>2. AreElements(els, reads, e)
    BY ElementIs
  <1>3. ASSUME NEW i \in DOMAIN reads
        PROVE  ReadsItems(readers[i], buf, els[i], Items(reads[i], e))
    <2>1. writes[i].steps = <<>> /\ i \in 1 .. Len(reads) /\ i \in DOMAIN writes
      BY <1>1 DEF Flat
    <2>2. ReadsItems(Passing(messages), buf, Copies(writes[i], placed, e), Items(reads[i], e))
      BY <1>1, <2>1, CopiesAreRead
    <2> QED BY <2>1, <2>2
  <1>4. PutElement(writes, placed, e) = Put(writes, els, e)
    BY DEF PutElement
  <1>5. GetElement(reads, messages, buf, p) = Get(reads, readers, buf, Got(p, <<>>))
    BY DEF GetElement, Cursor, Got
  <1>6. Over(<<>>, Fields(reads), e) = e
    <2>1. DOMAIN <<>> \cup Fields(reads) = Fields(reads)
      OBVIOUS
    <2>2. Over(<<>>, Fields(reads), e) = [f \in Fields(reads) |-> e[f]]
      BY <2>1 DEF Over
    <2> QED BY <2>2 DEF IsRecord
  <1>7. IsRecord(<<>>, DOMAIN <<>>)
    BY DEF IsRecord
  <1> HIDE DEF els, readers
  <1>8. ElementsAreRead(readers, reads, buf, els, e)
    BY <1>3 DEF ElementsAreRead
  <1>9. Holds(buf, p, Put(writes, els, e))
    BY <1>4
  <1>10. Get(reads, readers, buf, Got(p, <<>>))
            = Got(p + Len(Put(writes, els, e)), Over(<<>>, Fields(reads), e))
    BY <1>1, <1>2, <1>7, <1>8, <1>9, GetPut
  <1> QED BY <1>4, <1>5, <1>6, <1>10
-----------------------------------------------------------------------------
(* Bodies are written and read *)

\* The messages in what the steps of writing write.
Messages(steps, x) == Direct(steps, x) \cup OfElements(steps, x)

LEMMA LaidParts ==
  ASSUME NEW S, NEW T, T \subseteq S, NEW placed, Laid(placed, S)
  PROVE  /\ Laid(placed, T)
         /\ \A messages : \A buf : Readable(messages, buf, placed, S)
                                      => Readable(messages, buf, placed, T)
  BY DEF Laid, Readable

\* A step with steps of its own, and the elements it goes over.
LEMMA StepOfElements ==
  ASSUME NEW writes, NEW reads, Agree(writes, reads), NEW i \in 1 .. Len(reads),
         writes[i].steps # <<>>, NEW x, AllFit(reads, x), ElementsFit(reads, x),
         NEW k \in 1 .. Repeats(reads[i], x)
  PROVE  /\ reads[i].steps # <<>> /\ Flat(writes[i].steps, reads[i].steps)
         /\ AllFit(reads[i].steps, Item(reads[i], x, k))
         /\ IsRecord(Item(reads[i], x, k), Fields(reads[i].steps))
         /\ Direct(writes[i].steps, Item(reads[i], x, k)) \subseteq Messages(writes, x)
  <1> DEFINE w == writes[i]
             r == reads[i]
             e == Item(r, x, k)
  <1>1. Same(w, r) /\ i \in DOMAIN writes /\ i \in DOMAIN reads
    BY DEF Agree, Aligned
  <1>2. r.steps # <<>> /\ Flat(w.steps, r.steps)
    BY DEF Agree, AgreeStep
  <1>3. StepsFit(r.steps, e) /\ IsRecord(e, Fields(r.steps))
    BY <1>1, <1>2 DEF ElementsFit
  <1>4. AllFit(r.steps, e)
    BY <1>3 DEF StepsFit, AllFit
  <1>5. Repeats(w, x) = Repeats(r, x)
    <2> HIDE DEF w, r
    <2> QED BY <1>1, SameElements
  <1>6. Item(w, x, k) = e
    <2> HIDE DEF w, r
    <2> QED BY <1>1, SameElements
  <1>7. Direct(w.steps, e) \subseteq OfElements(writes, x)
    <2>1. k \in 1 .. Repeats(writes[i], x) /\ Item(writes[i], x, k) = e
      BY <1>5, <1>6
    <2>2. Direct(writes[i].steps, Item(writes[i], x, k)) \subseteq OfElements(writes, x)
      BY <1>1, <2>1 DEF OfElements
    <2> QED BY <2>1, <2>2
  <1> QED BY <1>2, <1>3, <1>4, <1>7 DEF Messages

\* The elements of a step,
LEMMA ElementsAre ==
  ASSUME NEW writes, NEW reads, Agree(writes, reads), NEW i \in 1 .. Len(reads),
         NEW x, AllFit(reads, x), ElementsFit(reads, x),
         NEW placed, Laid(placed, Messages(writes, x))
  PROVE  /\ Elements(writes[i], placed, x) \in [1 .. Repeats(reads[i], x) -> Seq(Byte)]
         /\ writes[i].steps # <<>> =>
               \A k \in 1 .. Repeats(reads[i], x) :
                  Elements(writes[i], placed, x)[k]
                     = PutElement(writes[i].steps, placed, Item(reads[i], x, k))
  <1>1. Aligned(writes, reads) /\ Same(writes[i], reads[i])
    BY DEF Agree, Aligned
  <1>2. Laid(placed, Direct(writes, x))
    BY LaidParts DEF Messages
  <1>3. CASE writes[i].steps = <<>>
    <2>1. Elements(writes[i], placed, x) = Copies(writes[i], placed, x)
      BY <1>3 DEF Elements
    <2> QED BY <1>1, <1>2, <1>3, <2>1, CopiesAre
  <1>4. CASE writes[i].steps # <<>>
    <2> DEFINE w == writes[i]
               r == reads[i]
    <2>1. Repeats(w, x) = Repeats(r, x)
      <3> HIDE DEF w, r
      <3> QED BY <1>1, SameElements DEF w, r
    <2>2. ASSUME NEW k PROVE Item(w, x, k) = Item(r, x, k)
      <3>1. Same(w, r)
        BY <1>1
      <3> HIDE DEF w, r
      <3> QED BY <3>1, SameElements
    <2>3. Elements(w, placed, x)
             = [k \in 1 .. Repeats(r, x) |-> PutElement(w.steps, placed, Item(r, x, k))]
      BY <1>4, <2>1, <2>2 DEF Elements
    <2>4. ASSUME NEW k \in 1 .. Repeats(r, x)
          PROVE  PutElement(w.steps, placed, Item(r, x, k)) \in Seq(Byte)
      <3> DEFINE e == Item(r, x, k)
      <3>1. /\ Flat(w.steps, r.steps) /\ AllFit(r.steps, e)
            /\ Direct(w.steps, e) \subseteq Messages(writes, x)
        BY <1>4, StepOfElements
      <3> HIDE DEF e, w, r
      <3>2. Laid(placed, Direct(w.steps, e))
        BY <3>1, LaidParts
      <3>3. PutElement(w.steps, placed, e) \in Seq(Byte)
        BY <3>1, <3>2, ElementIs
      <3> QED BY <3>3 DEF e
    <2> QED BY <2>3, <2>4
  <1> QED BY <1>3, <1>4

\* and how they are read.
LEMMA ElementsAreReadBy ==
  ASSUME NEW writes, NEW reads, Agree(writes, reads), NEW i \in 1 .. Len(reads),
         NEW x, AllFit(reads, x), ElementsFit(reads, x),
         NEW placed, Laid(placed, Messages(writes, x)),
         NEW messages, NEW buf, Len(buf) \in Nat,
         Readable(messages, buf, placed, Messages(writes, x))
  PROVE  ReadsItems(Reader(reads[i], messages, buf), buf,
                    Elements(writes[i], placed, x), Items(reads[i], x))
  <1>1. Aligned(writes, reads) /\ Same(writes[i], reads[i])
    BY DEF Agree, Aligned
  <1>2. /\ Laid(placed, Direct(writes, x))
        /\ Readable(messages, buf, placed, Direct(writes, x))
    BY LaidParts DEF Messages
  <1>3. CASE writes[i].steps = <<>>
    <2>1. Elements(writes[i], placed, x) = Copies(writes[i], placed, x)
      BY <1>3 DEF Elements
    <2>2. reads[i].steps = <<>>
      BY <1>3 DEF Agree, AgreeStep
    <2>3. Reader(reads[i], messages, buf) = Passing(messages)
      BY <2>2 DEF Reader
    <2> QED BY <1>1, <1>2, <1>3, <2>1, <2>3, CopiesAreRead
  <1>4. CASE writes[i].steps # <<>>
    <2> DEFINE w == writes[i]
               r == reads[i]
               parts == Elements(w, placed, x)
    <2>1. /\ parts \in [1 .. Repeats(r, x) -> Seq(Byte)]
          /\ \A k \in 1 .. Repeats(r, x) :
                parts[k] = PutElement(w.steps, placed, Item(r, x, k))
      BY <1>4, ElementsAre
    <2>2. ASSUME NEW k \in DOMAIN parts, NEW p \in Int, Holds(buf, p, parts[k])
          PROVE  Reader(r, messages, buf)[p] = Got(p + Len(parts[k]), Items(r, x)[k])
      <3> DEFINE e == Item(r, x, k)
      <3>0. k \in 1 .. Repeats(r, x)
        BY <2>1
      <3>1. /\ r.steps # <<>> /\ Flat(w.steps, r.steps) /\ AllFit(r.steps, e)
            /\ IsRecord(e, Fields(r.steps))
            /\ Direct(w.steps, e) \subseteq Messages(writes, x)
        BY <1>4, <3>0, StepOfElements
      <3>2. parts[k] = PutElement(w.steps, placed, e) /\ Items(r, x)[k] = e
        BY <2>1, <3>0 DEF Items
      <3>3. Holds(buf, p, PutElement(w.steps, placed, e))
        BY <2>2, <3>2
      <3> HIDE DEF e, w, r, parts
      <3>4. /\ Laid(placed, Direct(w.steps, e))
            /\ Readable(messages, buf, placed, Direct(w.steps, e))
        BY <3>1, LaidParts
      <3>5. GetElement(r.steps, messages, buf, p)
               = Got(p + Len(PutElement(w.steps, placed, e)), e)
        BY <3>1, <3>3, <3>4, ElementIsRead
      <3>6. Reader(r, messages, buf)[p] = GetElement(r.steps, messages, buf, p)
        BY <3>1 DEF Reader
      <3> QED BY <3>2, <3>5, <3>6
    <2> HIDE DEF w, r, parts
    <2>3. ReadsItems(Reader(r, messages, buf), buf, parts, Items(r, x))
      BY <2>2 DEF ReadsItems
    <2> QED BY <2>3 DEF w, r, parts
  <1> QED BY <1>3, <1>4

\* All steps of a class.
BodyElements(writes, placed, x) == [i \in DOMAIN writes |-> Elements(writes[i], placed, x)]

LEMMA BodyIs ==
  ASSUME NEW writes, NEW reads, Agree(writes, reads),
         NEW x, AllFit(reads, x), ElementsFit(reads, x),
         NEW placed, Laid(placed, Messages(writes, x))
  PROVE  /\ AreElements(BodyElements(writes, placed, x), reads, x)
         /\ BodyBytes(writes, placed, x) = Put(writes, BodyElements(writes, placed, x), x)
         /\ BodyBytes(writes, placed, x) \in Seq(Byte)
  <1> DEFINE els == BodyElements(writes, placed, x)
  <1>1. Aligned(writes, reads) /\ Len(reads) \in Nat
        /\ DOMAIN reads = 1 .. Len(reads) /\ DOMAIN writes = 1 .. Len(reads)
    BY DEF Agree, Aligned
  <1>2. ASSUME NEW i \in DOMAIN reads PROVE els[i] \in [1 .. Repeats(reads[i], x) -> Seq(Byte)]
    <2>1. i \in 1 .. Len(reads) /\ els[i] = Elements(writes[i], placed, x)
      BY <1>1 DEF BodyElements
    <2>2. Elements(writes[i], placed, x) \in [1 .. Repeats(reads[i], x) -> Seq(Byte)]
      BY <2>1, ElementsAre
    <2> QED BY <2>1, <2>2
  <1>3. BodyBytes(writes, placed, x) = Put(writes, els, x)
    BY DEF BodyBytes, BodyElements
  <1> HIDE DEF els
  <1>4. AreElements(els, reads, x)
    BY <1>2 DEF AreElements
  <1>5. /\ Parts(writes, els, x) \in [1 .. Len(reads) -> Seq(Byte)]
        /\ Put(writes, els, x) = FlattenSeq(Parts(writes, els, x))
    BY <1>1, <1>4, PartsAre
  <1>6. Put(writes, els, x) \in Seq(Byte)
    BY <1>1, <1>5, JoinedAre
  <1> QED BY <1>3, <1>4, <1>6 DEF els

LEMMA BodyIsRead ==
  ASSUME NEW writes, NEW reads, Agree(writes, reads),
         NEW x, AllFit(reads, x), ElementsFit(reads, x),
         NEW placed, Laid(placed, Messages(writes, x)),
         NEW messages, NEW buf, Len(buf) \in Nat,
         Readable(messages, buf, placed, Messages(writes, x)),
         NEW at \in Int, Holds(buf, at, BodyBytes(writes, placed, x)),
         NEW msg, IsRecord(msg, DOMAIN msg)
  PROVE  GetBody(reads, messages, buf, Got(at, msg))
            = Got(at + Len(BodyBytes(writes, placed, x)), Over(msg, Fields(reads), x))
  <1> DEFINE els == BodyElements(writes, placed, x)
             readers == [i \in DOMAIN reads |-> Reader(reads[i], messages, buf)]
  <1>1. Aligned(writes, reads)
        /\ DOMAIN reads = 1 .. Len(reads) /\ DOMAIN writes = 1 .. Len(reads)
    BY DEF Agree, Aligned
  <1>2. /\ AreElements(els, reads, x)
        /\ BodyBytes(writes, placed, x) = Put(writes, els, x)
    BY BodyIs
  <1>3. ASSUME NEW i \in DOMAIN reads
        PROVE  ReadsItems(readers[i], buf, els[i], Items(reads[i], x))
    <2>1. i \in 1 .. Len(reads) /\ els[i] = Elements(writes[i], placed, x)
      BY <1>1 DEF BodyElements
    <2>2. ReadsItems(Reader(reads[i], messages, buf), buf,
                     Elements(writes[i], placed, x), Items(reads[i], x))
      BY <2>1, ElementsAreReadBy
    <2> QED BY <2>1, <2>2
  <1>4. GetBody(reads, messages, buf, Got(at, msg)) = Get(reads, readers, buf, Got(at, msg))
    BY DEF GetBody
  <1> HIDE DEF els, readers
  <1>5. ElementsAreRead(readers, reads, buf, els, x)
    BY <1>3 DEF ElementsAreRead
  <1>6. Holds(buf, at, Put(writes, els, x))
    BY <1>2
  <1>7. Get(reads, readers, buf, Got(at, msg))
            = Got(at + Len(Put(writes, els, x)), Over(msg, Fields(reads), x))
    BY <1>1, <1>2, <1>5, <1>6, GetPut
  <1> QED BY <1>2, <1>4, <1>7

-----------------------------------------------------------------------------
(* How many bytes that are *)

\* What a step of reading takes, with the bytes of its elements.
StepSize(step, elements, x) ==
    CASE step.op \in {"value", "skip"} -> step.count
      [] step.op \in {"chars", "fixed"} -> Len(x[step.field])
      [] step.op = "list" -> 8 + Total(Lens(elements))
      [] OTHER -> Total(Lens(elements))
\* The sizes of all steps.
StepSizes(reads, elements, x) ==
    [i \in 1 .. Len(reads) |-> StepSize(reads[i], elements[i], x)]

LEMMA JoinedSize ==
  ASSUME NEW n \in Nat, NEW ss \in [1 .. n -> Seq(Byte)]
  PROVE  /\ Lens(ss) \in [1 .. n -> Nat] /\ Total(Lens(ss)) \in Nat
         /\ Len(FlattenSeq(ss)) = Total(Lens(ss))
  <1>1. /\ Lens(ss) \in [1 .. n -> Nat] /\ Len(FlattenSeq(ss)) = Sums(Lens(ss))[n]
        /\ FlattenSeq(ss) \in Seq(Byte)
    BY JoinedAre
  <1>2. Len(Lens(ss)) = n
    BY <1>1, FunctionIsSeq
  <1>3. Len(FlattenSeq(ss)) \in Nat
    BY <1>1
  <1> QED BY <1>1, <1>2, <1>3 DEF Total

LEMMA PartSize ==
  ASSUME NEW writes, NEW reads, Aligned(writes, reads), NEW x, AllFit(reads, x),
         NEW elements, AreElements(elements, reads, x), NEW i \in 1 .. Len(reads)
  PROVE  /\ Len(Parts(writes, elements, x)[i]) = StepSize(reads[i], elements[i], x)
         /\ StepSize(reads[i], elements[i], x) \in Nat
  <1> DEFINE w == writes[i]
             r == reads[i]
             els == elements[i]
             part == Parts(writes, elements, x)[i]
  <1>1. /\ FlattenSeq(els) \in Seq(Byte) /\ PutSimple(w, x) \in Seq(Byte)
        /\ part \in Seq(Byte)
        /\ Len(part) = Len(PutSimple(w, x)) + Len(FlattenSeq(els))
    BY PartIs
  <1>2. Same(w, r) /\ FieldFits(r, x) /\ els \in [1 .. Repeats(r, x) -> Seq(Byte)]
    BY DEF Aligned, AllFit, AreElements
  <1>3. Repeats(r, x) \in Nat
    BY <1>2, RepeatsAre DEF Same
  <1> HIDE DEF w, r, els, part
  <1>4. Len(FlattenSeq(els)) = Total(Lens(els)) /\ Total(Lens(els)) \in Nat
    BY <1>2, <1>3, JoinedSize
  <1>5. /\ r.op \in {"value", "skip"} => Len(PutSimple(w, x)) = r.count
        /\ r.op \in {"chars", "fixed"} => Len(PutSimple(w, x)) = Len(x[r.field])
        /\ r.op = "list" => Len(PutSimple(w, x)) = 8
        /\ r.op \in {"each", "message", "messages"} => PutSimple(w, x) = <<>>
    BY <1>2, PutSimpleIs
  <1>6. r.op \in Simple => Len(FlattenSeq(els)) = 0
    <2>1. ASSUME r.op \in Simple PROVE Len(FlattenSeq(els)) = 0
      <3>1. Repeats(r, x) = 0
        BY <1>2, <2>1, SameElements
      <3>2. Len(els) = 0
        BY <1>2, <3>1, FunctionIsSeq
      <3>3. FlattenSeq(els) = els
        BY <3>2, JoinedChosen
      <3> QED BY <3>2, <3>3
    <2> QED BY <2>1
  <1>7. Len(part) = StepSize(r, els, x)
    <2>1. CASE r.op \in {"value", "skip"}
      BY <1>1, <1>5, <1>6, <2>1 DEF StepSize, Simple
    <2>2. CASE r.op \in {"chars", "fixed"}
      BY <1>1, <1>5, <1>6, <2>2 DEF StepSize, Simple
    <2>3. CASE r.op = "list"
      BY <1>1, <1>4, <1>5, <2>3 DEF StepSize
    <2>4. CASE r.op \in {"each", "message", "messages"}
      <3>1. Len(PutSimple(w, x)) = 0
        BY <1>5, <2>4
      <3> QED BY <1>1, <1>4, <2>4, <3>1 DEF StepSize
    <2> QED BY <1>2, <2>1, <2>2, <2>3, <2>4 DEF Same, Simple, Compound
  <1>8. Len(part) \in Nat
    BY <1>1
  <1> QED BY <1>7, <1>8 DEF w, r, els, part

LEMMA PutSize ==
  ASSUME NEW writes, NEW reads, Aligned(writes, reads), NEW x, AllFit(reads, x),
         NEW elements, AreElements(elements, reads, x)
  PROVE  /\ StepSizes(reads, elements, x) \in [1 .. Len(reads) -> Nat]
         /\ \A i \in 1 .. Len(reads) :
               StepSizes(reads, elements, x)[i] = StepSize(reads[i], elements[i], x)
         /\ Len(Put(writes, elements, x)) = Sums(StepSizes(reads, elements, x))[Len(reads)]
  <1> DEFINE n == Len(reads)
             parts == Parts(writes, elements, x)
             s == StepSizes(reads, elements, x)
  <1>1. n \in Nat
    BY DEF Aligned
  <1>2. parts \in [1 .. n -> Seq(Byte)] /\ Put(writes, elements, x) = FlattenSeq(parts)
    BY PartsAre
  <1>3. ASSUME NEW i \in 1 .. n
        PROVE  /\ Len(parts[i]) = StepSize(reads[i], elements[i], x)
               /\ StepSize(reads[i], elements[i], x) \in Nat
    BY PartSize
  <1>4. s = [i \in 1 .. n |-> StepSize(reads[i], elements[i], x)]
    BY DEF StepSizes
  <1>5. DOMAIN parts = 1 .. n
    BY <1>2
  <1> HIDE DEF parts, s
  <1>6. Lens(parts) = s
    BY <1>3, <1>4, <1>5 DEF Lens
  <1>7. Len(FlattenSeq(parts)) = Sums(Lens(parts))[n]
    BY <1>1, <1>2, JoinedAre
  <1> QED BY <1>2, <1>3, <1>4, <1>6, <1>7 DEF s

\* What each kind of step takes.
LEMMA U64Size ==
  ASSUME NEW f, NEW e, NEW x PROVE StepSize(U64(f), e, x) = 8
  BY DEF StepSize, U64, Val, Step

LEMMA U32Size ==
  ASSUME NEW f, NEW e, NEW x PROVE StepSize(U32(f), e, x) = 4
  BY DEF StepSize, U32, Val, Step

LEMMA ValSize ==
  ASSUME NEW f, NEW w, NEW e, NEW x PROVE StepSize(Val(f, w), e, x) = w
  BY DEF StepSize, Val, Step

LEMMA SkipSize ==
  ASSUME NEW w, NEW e, NEW x PROVE StepSize(Skip(w), e, x) = w
  BY DEF StepSize, Skip, Step

LEMMA CharsSize ==
  ASSUME NEW f, NEW l, NEW e, NEW x PROVE StepSize(Chars(f, l), e, x) = Len(x[f])
  BY DEF StepSize, Chars, Step

LEMMA ListSize ==
  ASSUME NEW f, NEW steps, NEW e, NEW x PROVE StepSize(List(f, steps), e, x) = 8 + Total(Lens(e))
  BY DEF StepSize, List, Step

LEMMA EachSize ==
  ASSUME NEW f, NEW n, NEW steps, NEW e, NEW x PROVE StepSize(Each(f, n, steps), e, x) = Total(Lens(e))
  BY DEF StepSize, Each, Step

LEMMA NestedSize ==
  ASSUME NEW f, NEW e, NEW x PROVE StepSize(Nested(f), e, x) = Total(Lens(e))
  BY DEF StepSize, Nested, Step

LEMMA NestedNSize ==
  ASSUME NEW f, NEW n, NEW e, NEW x PROVE StepSize(NestedN(f, n), e, x) = Total(Lens(e))
  BY DEF StepSize, NestedN, Step

LEMMA NestedBySize ==
  ASSUME NEW f, NEW l, NEW e, NEW x PROVE StepSize(NestedBy(f, l), e, x) = Total(Lens(e))
  BY DEF StepSize, NestedBy, Step

LEMMA FixedSize ==
  ASSUME NEW f, NEW n, NEW e, NEW x, FieldFits(Fixed(f, n), x)
  PROVE  StepSize(Fixed(f, n), e, x) = n
  BY DEF StepSize, FieldFits, Count, Fixed, Step

\* The sums of a few numbers.
LEMMA Sum1 ==
  ASSUME NEW s \in [1 .. 1 -> Nat]
  PROVE  Sums(s)[1] = s[1]
  <1> DEFINE u == Sums(s)
  <1>1. /\ u \in [0 .. 1 -> Nat] /\ u[0] = 0
        /\ \A i \in 1 .. 1 : u[i] = u[i - 1] + s[i]
    BY 1 \in Nat, SumsAre
  <1> HIDE DEF u
  <1>2. \A i \in 0 .. 1 : u[i] \in Nat
    BY <1>1
  <1>3. \A i \in 1 .. 1 : s[i] \in Nat
    OBVIOUS
  <1>4. /\ u[1] = u[0] + s[1]
    BY <1>1
  <1> QED BY <1>1, <1>2, <1>3, <1>4 DEF u

LEMMA Sum2 ==
  ASSUME NEW s \in [1 .. 2 -> Nat]
  PROVE  Sums(s)[2] = s[1] + s[2]
  <1> DEFINE u == Sums(s)
  <1>1. /\ u \in [0 .. 2 -> Nat] /\ u[0] = 0
        /\ \A i \in 1 .. 2 : u[i] = u[i - 1] + s[i]
    BY 2 \in Nat, SumsAre
  <1> HIDE DEF u
  <1>2. \A i \in 0 .. 2 : u[i] \in Nat
    BY <1>1
  <1>3. \A i \in 1 .. 2 : s[i] \in Nat
    OBVIOUS
  <1>4. /\ u[1] = u[0] + s[1]
        /\ u[2] = u[1] + s[2]
    BY <1>1
  <1> QED BY <1>1, <1>2, <1>3, <1>4 DEF u

LEMMA Sum3 ==
  ASSUME NEW s \in [1 .. 3 -> Nat]
  PROVE  Sums(s)[3] = s[1] + s[2] + s[3]
  <1> DEFINE u == Sums(s)
  <1>1. /\ u \in [0 .. 3 -> Nat] /\ u[0] = 0
        /\ \A i \in 1 .. 3 : u[i] = u[i - 1] + s[i]
    BY 3 \in Nat, SumsAre
  <1> HIDE DEF u
  <1>2. \A i \in 0 .. 3 : u[i] \in Nat
    BY <1>1
  <1>3. \A i \in 1 .. 3 : s[i] \in Nat
    OBVIOUS
  <1>4. /\ u[1] = u[0] + s[1]
        /\ u[2] = u[1] + s[2]
        /\ u[3] = u[2] + s[3]
    BY <1>1
  <1> QED BY <1>1, <1>2, <1>3, <1>4 DEF u

LEMMA Sum4 ==
  ASSUME NEW s \in [1 .. 4 -> Nat]
  PROVE  Sums(s)[4] = s[1] + s[2] + s[3] + s[4]
  <1> DEFINE u == Sums(s)
  <1>1. /\ u \in [0 .. 4 -> Nat] /\ u[0] = 0
        /\ \A i \in 1 .. 4 : u[i] = u[i - 1] + s[i]
    BY 4 \in Nat, SumsAre
  <1> HIDE DEF u
  <1>2. \A i \in 0 .. 4 : u[i] \in Nat
    BY <1>1
  <1>3. \A i \in 1 .. 4 : s[i] \in Nat
    OBVIOUS
  <1>4. /\ u[1] = u[0] + s[1]
        /\ u[2] = u[1] + s[2]
        /\ u[3] = u[2] + s[3]
        /\ u[4] = u[3] + s[4]
    BY <1>1
  <1> QED BY <1>1, <1>2, <1>3, <1>4 DEF u

LEMMA Sum5 ==
  ASSUME NEW s \in [1 .. 5 -> Nat]
  PROVE  Sums(s)[5] = s[1] + s[2] + s[3] + s[4] + s[5]
  <1> DEFINE u == Sums(s)
  <1>1. /\ u \in [0 .. 5 -> Nat] /\ u[0] = 0
        /\ \A i \in 1 .. 5 : u[i] = u[i - 1] + s[i]
    BY 5 \in Nat, SumsAre
  <1> HIDE DEF u
  <1>2. \A i \in 0 .. 5 : u[i] \in Nat
    BY <1>1
  <1>3. \A i \in 1 .. 5 : s[i] \in Nat
    OBVIOUS
  <1>4. /\ u[1] = u[0] + s[1]
        /\ u[2] = u[1] + s[2]
        /\ u[3] = u[2] + s[3]
        /\ u[4] = u[3] + s[4]
        /\ u[5] = u[4] + s[5]
    BY <1>1
  <1> QED BY <1>1, <1>2, <1>3, <1>4 DEF u

LEMMA Sum7 ==
  ASSUME NEW s \in [1 .. 7 -> Nat]
  PROVE  Sums(s)[7] = s[1] + s[2] + s[3] + s[4] + s[5] + s[6] + s[7]
  <1> DEFINE u == Sums(s)
  <1>1. /\ u \in [0 .. 7 -> Nat] /\ u[0] = 0
        /\ \A i \in 1 .. 7 : u[i] = u[i - 1] + s[i]
    BY 7 \in Nat, SumsAre
  <1> HIDE DEF u
  <1>2. \A i \in 0 .. 7 : u[i] \in Nat
    BY <1>1
  <1>3. \A i \in 1 .. 7 : s[i] \in Nat
    OBVIOUS
  <1>4. /\ u[1] = u[0] + s[1]
        /\ u[2] = u[1] + s[2]
        /\ u[3] = u[2] + s[3]
        /\ u[4] = u[3] + s[4]
        /\ u[5] = u[4] + s[5]
        /\ u[6] = u[5] + s[6]
        /\ u[7] = u[6] + s[7]
    BY <1>1
  <1> QED BY <1>1, <1>2, <1>3, <1>4 DEF u

LEMMA Sum8 ==
  ASSUME NEW s \in [1 .. 8 -> Nat]
  PROVE  Sums(s)[8] = s[1] + s[2] + s[3] + s[4] + s[5] + s[6] + s[7] + s[8]
  <1> DEFINE u == Sums(s)
  <1>1. /\ u \in [0 .. 8 -> Nat] /\ u[0] = 0
        /\ \A i \in 1 .. 8 : u[i] = u[i - 1] + s[i]
    BY 8 \in Nat, SumsAre
  <1> HIDE DEF u
  <1>2. \A i \in 0 .. 8 : u[i] \in Nat
    BY <1>1
  <1>3. \A i \in 1 .. 8 : s[i] \in Nat
    OBVIOUS
  <1>4. /\ u[1] = u[0] + s[1]
        /\ u[2] = u[1] + s[2]
        /\ u[3] = u[2] + s[3]
        /\ u[4] = u[3] + s[4]
        /\ u[5] = u[4] + s[5]
        /\ u[6] = u[5] + s[6]
        /\ u[7] = u[6] + s[7]
        /\ u[8] = u[7] + s[8]
    BY <1>1
  <1> QED BY <1>1, <1>2, <1>3, <1>4 DEF u

LEMMA Sum16 ==
  ASSUME NEW s \in [1 .. 16 -> Nat]
  PROVE  Sums(s)[16] = s[1] + s[2] + s[3] + s[4] + s[5] + s[6] + s[7] + s[8]
                         + s[9] + s[10] + s[11] + s[12] + s[13] + s[14] + s[15] + s[16]
  <1> DEFINE u == Sums(s)
  <1>1. /\ u \in [0 .. 16 -> Nat] /\ u[0] = 0
        /\ \A i \in 1 .. 16 : u[i] = u[i - 1] + s[i]
    BY 16 \in Nat, SumsAre
  <1> HIDE DEF u
  <1>2. \A i \in 0 .. 16 : u[i] \in Nat
    BY <1>1
  <1>3. \A i \in 1 .. 16 : s[i] \in Nat
    OBVIOUS
  <1>4. /\ u[1] = u[0] + s[1]
        /\ u[2] = u[1] + s[2]
        /\ u[3] = u[2] + s[3]
        /\ u[4] = u[3] + s[4]
        /\ u[5] = u[4] + s[5]
        /\ u[6] = u[5] + s[6]
        /\ u[7] = u[6] + s[7]
        /\ u[8] = u[7] + s[8]
        /\ u[9] = u[8] + s[9]
        /\ u[10] = u[9] + s[10]
        /\ u[11] = u[10] + s[11]
        /\ u[12] = u[11] + s[12]
        /\ u[13] = u[12] + s[13]
        /\ u[14] = u[13] + s[14]
        /\ u[15] = u[14] + s[15]
        /\ u[16] = u[15] + s[16]
    BY <1>1
  <1> QED BY <1>1, <1>2, <1>3, <1>4 DEF u

-----------------------------------------------------------------------------
(* The header *)

\* The size by itself.
LEMMA PutTakes ==
  ASSUME NEW writes, NEW reads, Aligned(writes, reads), NEW x, AllFit(reads, x),
         NEW elements, AreElements(elements, reads, x)
  PROVE  Len(Put(writes, elements, x)) = Sums(StepSizes(reads, elements, x))[Len(reads)]
  BY PutSize

\* Nothing in the header is an element.
NoElements == [i \in DOMAIN HeaderWrites |-> <<>>]

\* Its steps.
LEMMA HeaderSteps ==
  /\ Len(HeaderReads) = 16 /\ DOMAIN HeaderReads = 1 .. 16 /\ DOMAIN HeaderWrites = 1 .. 16
  /\ HeaderReads[1] = U32("rtype")
  /\ HeaderReads[2] = U64("txn_id")
  /\ HeaderReads[3] = U64("mq_time")
  /\ HeaderReads[4] = Skip(56)
  /\ HeaderReads[5] = U64("sigSize")
  /\ HeaderReads[6] = U64("keySize")
  /\ HeaderReads[7] = Chars("signature", "sigSize")
  /\ HeaderReads[8] = Chars("pubKey", "keySize")
  /\ HeaderReads[9] = Fixed("dp_seed", SeedSize)
  /\ HeaderReads[10] = Fixed("dp_hash", HashSize)
  /\ HeaderReads[11] = Fixed("dp_proof", ProofSize)
  /\ HeaderReads[12] = Fixed("dp_value", ValueSize)
  /\ HeaderReads[13] = U32("dp_j")
  /\ HeaderReads[14] = U32("dp_node_id")
  /\ HeaderReads[15] = Fixed("dp_pk", PkSize)
  /\ HeaderReads[16] = U32("dp_type")
  BY DEF HeaderReads, HeaderWrites

\* None of them is compound.
LEMMA HeaderIsSimple ==
  ASSUME NEW i \in 1 .. 16 PROVE HeaderReads[i].op \in Simple
  <1>1. /\ \A f : U32(f).op \in Simple /\ U64(f).op \in Simple
        /\ \A n : Skip(n).op \in Simple
        /\ \A f, l : Chars(f, l).op \in Simple
        /\ \A f, n : Fixed(f, n).op \in Simple
    BY DEF U32, U64, Val, Skip, Chars, Fixed, Step, Simple
  <1>h1. HeaderReads[1].op \in Simple
    BY <1>1, HeaderSteps
  <1>h2. HeaderReads[2].op \in Simple
    BY <1>1, HeaderSteps
  <1>h3. HeaderReads[3].op \in Simple
    BY <1>1, HeaderSteps
  <1>h4. HeaderReads[4].op \in Simple
    BY <1>1, HeaderSteps
  <1>h5. HeaderReads[5].op \in Simple
    BY <1>1, HeaderSteps
  <1>h6. HeaderReads[6].op \in Simple
    BY <1>1, HeaderSteps
  <1>h7. HeaderReads[7].op \in Simple
    BY <1>1, HeaderSteps
  <1>h8. HeaderReads[8].op \in Simple
    BY <1>1, HeaderSteps
  <1>h9. HeaderReads[9].op \in Simple
    BY <1>1, HeaderSteps
  <1>h10. HeaderReads[10].op \in Simple
    BY <1>1, HeaderSteps
  <1>h11. HeaderReads[11].op \in Simple
    BY <1>1, HeaderSteps
  <1>h12. HeaderReads[12].op \in Simple
    BY <1>1, HeaderSteps
  <1>h13. HeaderReads[13].op \in Simple
    BY <1>1, HeaderSteps
  <1>h14. HeaderReads[14].op \in Simple
    BY <1>1, HeaderSteps
  <1>h15. HeaderReads[15].op \in Simple
    BY <1>1, HeaderSteps
  <1>h16. HeaderReads[16].op \in Simple
    BY <1>1, HeaderSteps
  <1>2. \/ i = 1 \/ i = 2 \/ i = 3 \/ i = 4 \/ i = 5 \/ i = 6 \/ i = 7 \/ i = 8
        \/ i = 9 \/ i = 10 \/ i = 11 \/ i = 12 \/ i = 13 \/ i = 14 \/ i = 15 \/ i = 16
    OBVIOUS
  <1> QED BY <1>2, <1>h1, <1>h2, <1>h3, <1>h4, <1>h5, <1>h6, <1>h7, <1>h8, <1>h9, <1>h10, <1>h11, <1>h12, <1>h13, <1>h14, <1>h15, <1>h16

\* So there are no elements to write or to read.
LEMMA HeaderHasNoElements ==
  ASSUME NEW x
  PROVE  /\ AreElements(NoElements, HeaderReads, x)
         /\ \A readers : \A buf : ElementsAreRead(readers, HeaderReads, buf, NoElements, x)
  <1>1. DOMAIN HeaderReads = 1 .. 16 /\ DOMAIN HeaderWrites = 1 .. 16
    BY HeaderSteps
  <1>2. ASSUME NEW i \in DOMAIN HeaderReads
        PROVE  /\ NoElements[i] \in [1 .. Repeats(HeaderReads[i], x) -> Seq(Byte)]
               /\ HeaderReads[i].op \notin Compound
    <2>1. HeaderReads[i].op \in Simple
      BY <1>1, HeaderIsSimple
    <2>2. Repeats(HeaderReads[i], x) = 0
      BY <2>1 DEF Repeats, Simple
    <2>3. NoElements[i] = <<>>
      BY <1>1 DEF NoElements
    <2>4. <<>> \in [1 .. 0 -> Seq(Byte)]
      OBVIOUS
    <2> QED BY <2>1, <2>2, <2>3, <2>4 DEF Simple, Compound
  <1> QED BY <1>2 DEF AreElements, ElementsAreRead

\* What a message that is well formed has to write.
LEMMA CodedFits ==
  ASSUME NEW m, Fits(m)
  PROVE  /\ AllFit(HeaderReads, Coded(m))
         /\ Coded(m).signature = m.signature /\ Coded(m).pubKey = m.pubKey
  <1>1. AllFit(HeaderReads, Coded(m))
    BY DEF Fits, StepsFit, AllFit
  <1>2. IsRecord(m, Fields(HeaderReads) \cup Fields(Layout(m.rtype).reads))
    BY DEF Fits
  <1> DEFINE D == Fields(HeaderReads) \cup Fields(Layout(m.rtype).reads)
  <1> HIDE DEF D
  <1>3. DOMAIN m = D
    BY <1>2 DEF IsRecord, D
  <1>4. ASSUME NEW f \in D, f # "rtype" PROVE Coded(m)[f] = m[f]
    BY <1>3, <1>4 DEF Coded
  <1>5. "signature" \in D /\ "pubKey" \in D
    <2>1. /\ 7 \in DOMAIN HeaderReads /\ HeaderReads[7] = Chars("signature", "sigSize")
          /\ 8 \in DOMAIN HeaderReads /\ HeaderReads[8] = Chars("pubKey", "keySize")
      BY HeaderSteps
    <2>2. /\ HeaderReads[7].field = "signature" /\ HeaderReads[7].op # "skip"
          /\ HeaderReads[8].field = "pubKey" /\ HeaderReads[8].op # "skip"
      BY <2>1 DEF Chars, Step
    <2>3. "signature" \in Fields(HeaderReads) /\ "pubKey" \in Fields(HeaderReads)
      BY <2>1, <2>2 DEF Fields
    <2> QED BY <2>3 DEF D
  <1>6. Coded(m)["signature"] = m["signature"] /\ Coded(m)["pubKey"] = m["pubKey"]
    BY <1>4, <1>5
  <1> QED BY <1>1, <1>6

\* mget_size() is what is written of it,
LEMMA HeaderIs ==
  ASSUME NEW m, Fits(m)
  PROVE  /\ HeaderBytes(m) \in Seq(Byte) /\ Len(HeaderBytes(m)) = HeaderSize(m)
         /\ HeaderBytes(m) = Put(HeaderWrites, NoElements, Coded(m))
  <1> DEFINE x == Coded(m)
             e == NoElements
             s == StepSizes(HeaderReads, e, x)
  <1>1. HeaderBytes(m) = Put(HeaderWrites, e, x)
    BY DEF HeaderBytes, NoElements
  <1>2. /\ Aligned(HeaderWrites, HeaderReads) /\ Len(HeaderReads) = 16
        /\ DOMAIN HeaderReads = 1 .. 16 /\ AllFit(HeaderReads, x)
        /\ AreElements(e, HeaderReads, x)
    BY HeaderAgrees, HeaderSteps, HeaderHasNoElements, CodedFits DEF Agree
  <1>3. Put(HeaderWrites, e, x) \in Seq(Byte)
    <2>1. /\ Parts(HeaderWrites, e, x) \in [1 .. 16 -> Seq(Byte)]
          /\ Put(HeaderWrites, e, x) = FlattenSeq(Parts(HeaderWrites, e, x))
      BY <1>2, PartsAre
    <2> QED BY 16 \in Nat, <2>1, JoinedAre
  <1>4. /\ s \in [1 .. 16 -> Nat]
        /\ \A i \in 1 .. 16 : s[i] = StepSize(HeaderReads[i], e[i], x)
        /\ Len(Put(HeaderWrites, e, x)) = Sums(s)[16]
    <2> HIDE DEF e, x
    <2>0. /\ Aligned(HeaderWrites, HeaderReads) /\ AllFit(HeaderReads, x)
          /\ AreElements(e, HeaderReads, x)
      BY <1>2
    <2>1. s \in [1 .. Len(HeaderReads) -> Nat]
      BY <1>2, PutSize
    <2>2. \A i \in 1 .. Len(HeaderReads) : s[i] = StepSize(HeaderReads[i], e[i], x)
      BY <1>2, PutSize
    <2>3. Len(Put(HeaderWrites, e, x)) = Sums(s)[Len(HeaderReads)]
      BY <2>0, PutTakes
    <2> QED BY <1>2, <2>1, <2>2, <2>3
  <1>5. ASSUME NEW f, NEW n, NEW i \in 1 .. 16, HeaderReads[i] = Fixed(f, n)
        PROVE  StepSize(HeaderReads[i], e[i], x) = n
    <2>1. FieldFits(Fixed(f, n), x)
      BY <1>2, <1>5 DEF AllFit
    <2> QED BY <1>5, <2>1, FixedSize
  <1> HIDE DEF s, e, x
  <1>s1. s[1] = 4
    BY <1>4, HeaderSteps, U32Size
  <1>s2. s[2] = 8
    BY <1>4, HeaderSteps, U64Size
  <1>s3. s[3] = 8
    BY <1>4, HeaderSteps, U64Size
  <1>s4. s[4] = 56
    BY <1>4, HeaderSteps, SkipSize
  <1>s5. s[5] = 8
    BY <1>4, HeaderSteps, U64Size
  <1>s6. s[6] = 8
    BY <1>4, HeaderSteps, U64Size
  <1>s7. s[7] = Len(x.signature)
    <2>1. HeaderReads[7] = Chars("signature", "sigSize")
      BY HeaderSteps
    <2>2. StepSize(Chars("signature", "sigSize"), e[7], x) = Len(x.signature)
      BY CharsSize
    <2>3. s[7] = StepSize(HeaderReads[7], e[7], x)
      BY <1>4
    <2> QED BY <2>1, <2>2, <2>3
  <1>s8. s[8] = Len(x.pubKey)
    <2>1. HeaderReads[8] = Chars("pubKey", "keySize")
      BY HeaderSteps
    <2>2. StepSize(Chars("pubKey", "keySize"), e[8], x) = Len(x.pubKey)
      BY CharsSize
    <2>3. s[8] = StepSize(HeaderReads[8], e[8], x)
      BY <1>4
    <2> QED BY <2>1, <2>2, <2>3
  <1>s9. s[9] = SeedSize
    BY <1>4, <1>5, HeaderSteps
  <1>s10. s[10] = HashSize
    BY <1>4, <1>5, HeaderSteps
  <1>s11. s[11] = ProofSize
    BY <1>4, <1>5, HeaderSteps
  <1>s12. s[12] = ValueSize
    BY <1>4, <1>5, HeaderSteps
  <1>s13. s[13] = 4
    BY <1>4, HeaderSteps, U32Size
  <1>s14. s[14] = 4
    BY <1>4, HeaderSteps, U32Size
  <1>s15. s[15] = PkSize
    BY <1>4, <1>5, HeaderSteps
  <1>s16. s[16] = 4
    BY <1>4, HeaderSteps, U32Size
  <1>6. Sums(s)[16] = s[1] + s[2] + s[3] + s[4] + s[5] + s[6] + s[7] + s[8]
                         + s[9] + s[10] + s[11] + s[12] + s[13] + s[14] + s[15] + s[16]
    BY <1>4, Sum16
  <1>7. \A i \in 1 .. 16 : s[i] \in Nat
    BY <1>4
  <1>8. Len(Put(HeaderWrites, e, x)) =
           4 + 8 + 8 + 56 + 8 + 8 + Len(x.signature) + Len(x.pubKey)
           + SeedSize + HashSize + ProofSize + ValueSize + 4 + 4 + PkSize + 4
    BY <1>4, <1>6, <1>s1, <1>s2, <1>s3, <1>s4, <1>s5, <1>s6, <1>s7, <1>s8, <1>s9, <1>s10, <1>s11, <1>s12, <1>s13, <1>s14, <1>s15, <1>s16
  <1>9. x.signature = m.signature /\ x.pubKey = m.pubKey
    BY CodedFits DEF x
  <1>10. /\ Len(x.signature) \in Nat /\ Len(x.pubKey) \in Nat
         /\ SeedSize \in Nat /\ HashSize \in Nat /\ ProofSize \in Nat /\ ValueSize \in Nat
         /\ PkSize \in Nat
    <2>1. s[7] \in Nat /\ s[8] \in Nat
      BY <1>7
    <2> QED BY <1>s7, <1>s8, <2>1, SizeAssumption
  <1>11. Len(Put(HeaderWrites, e, x)) = HeaderSize(m)
    <2> DEFINE a == Len(m.signature)
               b == Len(m.pubKey)
    <2>1. HeaderSize(m) = 4 + 8 + 8 + a + b + 8 + 8 + SeedSize + HashSize + ProofSize
                              + ValueSize + 4 + 4 + PkSize + 4 + 56
      <3>1. 7 * 8 = 56
        OBVIOUS
      <3> QED BY <3>1, Zenon DEF HeaderSize
    <2>2. a = Len(x.signature) /\ b = Len(x.pubKey) /\ a \in Nat /\ b \in Nat
      BY <1>9, <1>10
    <2>3. Len(Put(HeaderWrites, e, x)) =
             4 + 8 + 8 + 56 + 8 + 8 + a + b
             + SeedSize + HashSize + ProofSize + ValueSize + 4 + 4 + PkSize + 4
      BY <1>8, <2>2
    <2> HIDE DEF a, b
    <2>4. ASSUME NEW c \in Nat, NEW d \in Nat, NEW g \in Nat, NEW h \in Nat, NEW k \in Nat,
                 NEW p \in Nat, NEW q \in Nat
          PROVE  4 + 8 + 8 + 56 + 8 + 8 + c + d + g + h + k + p + 4 + 4 + q + 4
                    = 4 + 8 + 8 + c + d + 8 + 8 + g + h + k + p + 4 + 4 + q + 4 + 56
      OBVIOUS
    <2>6. a \in Nat /\ b \in Nat
      BY <2>2
    <2>7. /\ SeedSize \in Nat /\ HashSize \in Nat /\ ProofSize \in Nat /\ ValueSize \in Nat
          /\ PkSize \in Nat
      BY <1>10
    <2>5. 4 + 8 + 8 + 56 + 8 + 8 + a + b
             + SeedSize + HashSize + ProofSize + ValueSize + 4 + 4 + PkSize + 4
          = 4 + 8 + 8 + a + b + 8 + 8 + SeedSize + HashSize + ProofSize
             + ValueSize + 4 + 4 + PkSize + 4 + 56
      BY <2>6, <2>7
    <2> QED BY <2>1, <2>3, <2>5, Zenon
  <1> QED BY <1>1, <1>3, <1>11 DEF e, x

\* and it is read back.
LEMMA HeaderIsRead ==
  ASSUME NEW m, Fits(m), NEW buf, Len(buf) \in Nat, NEW at \in Int,
         Holds(buf, at, HeaderBytes(m))
  PROVE  GetHeader(buf, at)
            = Got(at + HeaderSize(m), Over(<<>>, Fields(HeaderReads), Coded(m)))
  <1> DEFINE readers == [i \in DOMAIN HeaderReads |-> <<>>]
             x == Coded(m)
             e == NoElements
  <1>1. /\ HeaderBytes(m) = Put(HeaderWrites, e, x)
        /\ Len(HeaderBytes(m)) = HeaderSize(m)
    BY HeaderIs
  <1>2. /\ Aligned(HeaderWrites, HeaderReads) /\ AllFit(HeaderReads, x)
        /\ AreElements(e, HeaderReads, x)
        /\ ElementsAreRead(readers, HeaderReads, buf, e, x)
    BY HeaderAgrees, HeaderHasNoElements, CodedFits DEF Agree
  <1>3. GetHeader(buf, at) = Get(HeaderReads, readers, buf, Got(at, <<>>))
    BY DEF GetHeader, Cursor, Got
  <1>4. IsRecord(<<>>, DOMAIN <<>>)
    BY DEF IsRecord
  <1>5. Holds(buf, at, Put(HeaderWrites, e, x))
    BY <1>1
  <1> HIDE DEF readers, x, e
  <1>6. Get(HeaderReads, readers, buf, Got(at, <<>>))
           = Got(at + Len(Put(HeaderWrites, e, x)), Over(<<>>, Fields(HeaderReads), x))
    BY <1>2, <1>4, <1>5, GetPut
  <1> QED BY <1>1, <1>3, <1>6 DEF x
-----------------------------------------------------------------------------
(* get_size() is what copy_to_buf() writes: the parts *)

\* A message, or an element, that is ready to be written.
Prepared(writes, reads, x, placed) ==
    StepsFit(reads, x) /\ ElementsFit(reads, x) /\ Laid(placed, Messages(writes, x))

LEMMA PreparedIs ==
  ASSUME NEW writes, NEW reads, NEW x, NEW placed, Prepared(writes, reads, x, placed)
  PROVE  /\ AllFit(reads, x) /\ ElementsFit(reads, x)
         /\ Laid(placed, Messages(writes, x))
  BY DEF Prepared, StepsFit, AllFit

\* What each step of a class takes.
BodySizes(writes, reads, placed, x) ==
    [i \in 1 .. Len(reads) |-> StepSize(reads[i], Elements(writes[i], placed, x), x)]

LEMMA BodyTakes ==
  ASSUME NEW writes, NEW reads, Agree(writes, reads), NEW x, NEW placed,
         Prepared(writes, reads, x, placed), NEW n, Len(reads) = n
  PROVE  /\ BodySizes(writes, reads, placed, x) \in [1 .. n -> Nat]
         /\ \A i \in 1 .. n : BodySizes(writes, reads, placed, x)[i]
                                 = StepSize(reads[i], Elements(writes[i], placed, x), x)
         /\ Len(BodyBytes(writes, placed, x)) = Sums(BodySizes(writes, reads, placed, x))[n]
  <1> DEFINE els == BodyElements(writes, placed, x)
             s == BodySizes(writes, reads, placed, x)
  <1>1. Aligned(writes, reads) /\ DOMAIN writes = 1 .. n
    BY DEF Agree, Aligned
  <1>2. /\ AllFit(reads, x) /\ AreElements(els, reads, x)
        /\ BodyBytes(writes, placed, x) = Put(writes, els, x)
    BY PreparedIs, BodyIs
  <1>3. ASSUME NEW i \in 1 .. n PROVE els[i] = Elements(writes[i], placed, x)
    BY <1>1 DEF BodyElements
  <1> HIDE DEF els
  <1>4. StepSizes(reads, els, x) = s
    BY <1>3 DEF StepSizes, BodySizes
  <1>5. StepSizes(reads, els, x) \in [1 .. Len(reads) -> Nat]
    BY <1>1, <1>2, PutSize
  <1>6. Len(Put(writes, els, x)) = Sums(StepSizes(reads, els, x))[Len(reads)]
    BY <1>1, <1>2, PutTakes
  <1>7. \A i \in 1 .. n : s[i] = StepSize(reads[i], Elements(writes[i], placed, x), x)
    BY DEF BodySizes
  <1> QED BY <1>2, <1>4, <1>5, <1>6, <1>7

\* Messages inside take their get_size().
LEMMA NestedTake ==
  ASSUME NEW writes, NEW reads, Agree(writes, reads), NEW x, NEW placed,
         Prepared(writes, reads, x, placed), NEW i \in 1 .. Len(reads),
         writes[i].steps = <<>>
  PROVE  /\ Lens(Elements(writes[i], placed, x))
               = [k \in 1 .. Repeats(reads[i], x) |-> SizeOf(Item(reads[i], x, k))]
         /\ \A k \in 1 .. Repeats(reads[i], x) :
               /\ SizeOf(Item(reads[i], x, k)) \in Nat
               /\ Item(reads[i], x, k).rtype = NestedClass[reads[i].field]
  <1> DEFINE r == reads[i]
             parts == Copies(writes[i], placed, x)
  <1>1. Aligned(writes, reads) /\ i \in DOMAIN reads /\ r.steps = <<>>
    BY DEF Agree, Aligned, AgreeStep
  <1>2. AllFit(reads, x) /\ Laid(placed, Direct(writes, x))
    <2>1. AllFit(reads, x) /\ Laid(placed, Messages(writes, x))
      BY PreparedIs
    <2>2. Direct(writes, x) \subseteq Messages(writes, x)
      BY DEF Messages
    <2> QED BY <2>1, <2>2 DEF Laid
  <1>3. /\ parts \in [1 .. Repeats(r, x) -> Seq(Byte)]
        /\ \A k \in 1 .. Repeats(r, x) :
              parts[k] = placed[Item(r, x, k)] /\ Item(r, x, k) \in Direct(writes, x)
    BY <1>1, <1>2, CopiesAre
  <1>4. Elements(writes[i], placed, x) = parts
    BY DEF Elements
  <1>5. ASSUME NEW k \in 1 .. Repeats(r, x)
        PROVE  Len(parts[k]) = SizeOf(Item(r, x, k)) /\ SizeOf(Item(r, x, k)) \in Nat
    BY <1>2, <1>3 DEF Laid
  <1>6. ASSUME NEW k \in 1 .. Repeats(r, x)
        PROVE  Item(r, x, k).rtype = NestedClass[r.field]
    BY <1>1 DEF Prepared, StepsFit
  <1> HIDE DEF r, parts
  <1>7. Lens(parts) = [k \in 1 .. Repeats(r, x) |-> SizeOf(Item(r, x, k))]
    BY <1>3, <1>5 DEF Lens
  <1> QED BY <1>4, <1>5, <1>6, <1>7 DEF r

\* A list of them,
LEMMA ListTakes ==
  ASSUME NEW writes, NEW reads, Agree(writes, reads), NEW x, NEW placed,
         Prepared(writes, reads, x, placed), NEW i \in 1 .. Len(reads),
         writes[i].steps = <<>>, reads[i].op = "messages"
  PROVE  LET list == x[reads[i].field]
         IN  /\ Lens(Elements(writes[i], placed, x)) = [k \in DOMAIN list |-> SizeOf(list[k])]
             /\ \A k \in DOMAIN list : list[k].rtype = NestedClass[reads[i].field]
  <1> DEFINE r == reads[i]
             list == x[r.field]
             els == Elements(writes[i], placed, x)
  <1>1. /\ Lens(els) = [k \in 1 .. Repeats(r, x) |-> SizeOf(Item(r, x, k))]
        /\ \A k \in 1 .. Repeats(r, x) : Item(r, x, k).rtype = NestedClass[r.field]
    BY NestedTake
  <1>2. FieldFits(r, x) /\ r.op = "messages"
    BY PreparedIs DEF AllFit, Agree, Aligned
  <1> HIDE DEF r
  <1>3. list = [k \in 1 .. Repeats(r, x) |-> Item(r, x, k)]
    BY <1>2, RepeatsAre DEF Compound
  <1>4. \A k : Item(r, x, k) = list[k]
    BY <1>2 DEF Item
  <1>5. DOMAIN list = 1 .. Repeats(r, x)
    BY <1>3
  <1> QED BY <1>1, <1>4, <1>5 DEF r

\* and one.
LEMMA OneTakes ==
  ASSUME NEW writes, NEW reads, Agree(writes, reads), NEW x, NEW placed,
         Prepared(writes, reads, x, placed), NEW i \in 1 .. Len(reads),
         writes[i].steps = <<>>, reads[i].op = "message"
  PROVE  /\ Total(Lens(Elements(writes[i], placed, x))) = SizeOf(x[reads[i].field])
         /\ x[reads[i].field].rtype = NestedClass[reads[i].field]
         /\ SizeOf(x[reads[i].field]) \in Nat
  <1> DEFINE r == reads[i]
             e == x[r.field]
             els == Elements(writes[i], placed, x)
  <1>1. /\ Lens(els) = [k \in 1 .. Repeats(r, x) |-> SizeOf(Item(r, x, k))]
        /\ \A k \in 1 .. Repeats(r, x) :
              /\ Item(r, x, k).rtype = NestedClass[r.field]
              /\ SizeOf(Item(r, x, k)) \in Nat
    BY NestedTake
  <1>2. Repeats(r, x) = 1 /\ \A k : Item(r, x, k) = e
    BY DEF Repeats, Item
  <1> DEFINE s == [k \in 1 .. 1 |-> SizeOf(e)]
  <1>3. Lens(els) = s /\ e.rtype = NestedClass[r.field] /\ SizeOf(e) \in Nat
    BY <1>1, <1>2
  <1>4. s \in [1 .. 1 -> Nat] /\ s[1] = SizeOf(e)
    BY <1>3
  <1> HIDE DEF s
  <1>5. Total(s) = Sums(s)[1] /\ Sums(s)[1] = s[1]
    BY <1>4, 1 \in Nat, SumsAre, Sum1
  <1> QED BY <1>3, <1>4, <1>5

\* A number takes its width,
LEMMA NumberTakes ==
  ASSUME NEW steps, Flat(steps, steps), Len(steps) = 1, steps[1].op = "value",
         NEW e, AllFit(steps, e), NEW placed, Laid(placed, Direct(steps, e))
  PROVE  Len(PutElement(steps, placed, e)) = steps[1].count
  <1> DEFINE els == [j \in DOMAIN steps |-> Copies(steps[j], placed, e)]
             z == StepSizes(steps, els, e)
  <1>1. Aligned(steps, steps)
    BY DEF Flat
  <1>2. AreElements(els, steps, e)
    BY ElementIs
  <1>3. PutElement(steps, placed, e) = Put(steps, els, e)
    BY DEF PutElement
  <1> HIDE DEF els
  <1>4. z \in [1 .. Len(steps) -> Nat]
    BY <1>1, <1>2, PutSize
  <1>5. \A i \in 1 .. Len(steps) : z[i] = StepSize(steps[i], els[i], e)
    BY DEF StepSizes
  <1>6. Len(Put(steps, els, e)) = Sums(z)[Len(steps)]
    BY <1>1, <1>2, PutTakes
  <1> HIDE DEF z
  <1>7. Sums(z)[1] = z[1]
    BY <1>4, Sum1
  <1>8. z[1] = steps[1].count
    BY <1>5 DEF StepSize
  <1> QED BY <1>3, <1>6, <1>7, <1>8

\* and a list of numbers so many of them.
LEMMA NumbersTake ==
  ASSUME NEW writes, NEW reads, Agree(writes, reads), NEW x, NEW placed,
         Prepared(writes, reads, x, placed), NEW i \in 1 .. Len(reads), NEW steps,
         writes[i].steps = steps, reads[i].steps = steps, steps # <<>>,
         Len(steps) = 1, steps[1].op = "value"
  PROVE  /\ Total(Lens(Elements(writes[i], placed, x)))
               = steps[1].count * Len(x[reads[i].field])
         /\ Len(x[reads[i].field]) \in Nat /\ steps[1].count \in Nat
  <1> DEFINE w == writes[i]
             r == reads[i]
             n == Repeats(r, x)
             els == Elements(w, placed, x)
  <1>1. AllFit(reads, x) /\ ElementsFit(reads, x) /\ Laid(placed, Messages(writes, x))
    BY PreparedIs
  <1>2. /\ els \in [1 .. n -> Seq(Byte)]
        /\ \A k \in 1 .. n : els[k] = PutElement(steps, placed, Item(r, x, k))
    <2>1. /\ Elements(writes[i], placed, x) \in [1 .. Repeats(reads[i], x) -> Seq(Byte)]
          /\ \A k \in 1 .. Repeats(reads[i], x) :
                Elements(writes[i], placed, x)[k]
                   = PutElement(writes[i].steps, placed, Item(reads[i], x, k))
      BY <1>1, ElementsAre
    <2> QED BY <2>1
  <1>3. /\ Same(w, r) /\ FieldFits(r, x) /\ r.op \in {"list", "each"}
        /\ Flat(steps, steps)
    BY <1>1 DEF Agree, Aligned, AllFit, AgreeStep
  <1>4. n \in Nat /\ n = Len(x[r.field])
    <2> HIDE DEF r
    <2> QED BY <1>3, RepeatsAre DEF Same
  <1>5. ASSUME NEW k \in 1 .. n PROVE Len(els[k]) = steps[1].count
    <2> DEFINE e == Item(r, x, k)
    <2>1. AllFit(reads[i].steps, e) /\ Direct(writes[i].steps, e) \subseteq Messages(writes, x)
      BY <1>1, StepOfElements
    <2>2. els[k] = PutElement(steps, placed, e)
      BY <1>2
    <2> HIDE DEF e
    <2>3. Laid(placed, Direct(steps, e)) /\ AllFit(steps, e)
      BY <1>1, <2>1 DEF Laid
    <2>4. Len(PutElement(steps, placed, e)) = steps[1].count
      BY <1>3, <2>3, NumberTakes
    <2> QED BY <2>2, <2>4
  <1>6. steps[1].count \in Nat
    <2>1. Same(steps[1], steps[1])
      <3>1. Aligned(steps, steps) /\ 1 \in 1 .. Len(steps)
        BY <1>3 DEF Flat
      <3> QED BY <3>1 DEF Aligned
    <2> QED BY <2>1 DEF Same
  <1> HIDE DEF n, els
  <1>7. Lens(els) = [k \in 1 .. n |-> steps[1].count]
    BY <1>2, <1>5 DEF Lens
  <1>8. Total([k \in 1 .. n |-> steps[1].count]) = steps[1].count * n
    BY <1>4, <1>6, SumsOfEqual
  <1> QED BY <1>4, <1>6, <1>7, <1>8 DEF els

-----------------------------------------------------------------------------
(* get_size() is what copy_to_buf() writes: the classes *)

\* Which function a class takes.
LEMMA SizeOfClass ==
  ASSUME NEW m
  PROVE  /\ m.rtype = "CL_QRY" => SizeOf(m) = YCSBClientQuerySize(m)
         /\ m.rtype = "BATCH_REQ" => SizeOf(m) = BatchRequestsSize(m)
         /\ m.rtype = "PBFT_CHKPT_MSG" => SizeOf(m) = CheckpointSize(m)
         /\ m.rtype = "PBFT_PREP_MSG" => SizeOf(m) = PBFTPrepSize(m)
         /\ m.rtype = "PBFT_VIEW_CHANGE" => SizeOf(m) = PBFTViewChangeSize(m)
  BY DEF SizeOf

\* Steps that are one number.
LEMMA RequestSteps ==
  LET steps == <<Val("request", RequestWidth)>>
  IN  /\ Len(steps) = 1 /\ steps # <<>> /\ steps[1].op = "value"
      /\ steps[1].count = RequestWidth
  BY DEF Val, Step
LEMMA NumberSteps ==
  ASSUME NEW f
  PROVE  LET steps == <<U64(f)>>
         IN  Len(steps) = 1 /\ steps # <<>> /\ steps[1].op = "value" /\ steps[1].count = 8
  BY DEF U64, Val, Step


\* The parts again, each by itself.
Takes(writes, reads, placed, x, i) ==
    StepSize(reads[i], Elements(writes[i], placed, x), x)

LEMMA TakesNat ==
  ASSUME NEW writes, NEW reads, Agree(writes, reads), NEW x, NEW placed,
         Prepared(writes, reads, x, placed), NEW n, Len(reads) = n, NEW i \in 1 .. n
  PROVE  Takes(writes, reads, placed, x, i) \in Nat
  <1> DEFINE s == BodySizes(writes, reads, placed, x)
  <1>1. s \in [1 .. n -> Nat] /\ s[i] = StepSize(reads[i], Elements(writes[i], placed, x), x)
    BY BodyTakes
  <1> HIDE DEF s
  <1> QED BY <1>1 DEF Takes

LEMMA BodyTotal ==
  ASSUME NEW writes, NEW reads, Agree(writes, reads), NEW x, NEW placed,
         Prepared(writes, reads, x, placed)
  PROVE  Len(BodyBytes(writes, placed, x))
            = Sums(BodySizes(writes, reads, placed, x))[Len(reads)]
  BY BodyTakes

LEMMA BodyTakes1 ==
  ASSUME NEW writes, NEW reads, Agree(writes, reads), NEW x, NEW placed,
         Prepared(writes, reads, x, placed), Len(reads) = 1
  PROVE  Len(BodyBytes(writes, placed, x))
            = Takes(writes, reads, placed, x, 1)
  <1> DEFINE s == BodySizes(writes, reads, placed, x)
  <1>1. s \in [1 .. 1 -> Nat]
    BY BodyTakes
  <1>2. \A i \in 1 .. 1 : s[i] = Takes(writes, reads, placed, x, i)
    BY DEF BodySizes, Takes
  <1>3. Len(BodyBytes(writes, placed, x)) = Sums(s)[1]
    BY BodyTotal
  <1> HIDE DEF s
  <1>4. Sums(s)[1] = s[1]
    BY <1>1, Sum1
  <1> QED BY <1>2, <1>3, <1>4

LEMMA BodyTakes2 ==
  ASSUME NEW writes, NEW reads, Agree(writes, reads), NEW x, NEW placed,
         Prepared(writes, reads, x, placed), Len(reads) = 2
  PROVE  Len(BodyBytes(writes, placed, x))
            = Takes(writes, reads, placed, x, 1)
              + Takes(writes, reads, placed, x, 2)
  <1> DEFINE s == BodySizes(writes, reads, placed, x)
  <1>1. s \in [1 .. 2 -> Nat]
    BY BodyTakes
  <1>2. \A i \in 1 .. 2 : s[i] = Takes(writes, reads, placed, x, i)
    BY DEF BodySizes, Takes
  <1>3. Len(BodyBytes(writes, placed, x)) = Sums(s)[2]
    BY BodyTotal
  <1> HIDE DEF s
  <1>4. Sums(s)[2] = s[1] + s[2]
    BY <1>1, Sum2
  <1> QED BY <1>2, <1>3, <1>4

LEMMA BodyTakes3 ==
  ASSUME NEW writes, NEW reads, Agree(writes, reads), NEW x, NEW placed,
         Prepared(writes, reads, x, placed), Len(reads) = 3
  PROVE  Len(BodyBytes(writes, placed, x))
            = Takes(writes, reads, placed, x, 1)
              + Takes(writes, reads, placed, x, 2)
              + Takes(writes, reads, placed, x, 3)
  <1> DEFINE s == BodySizes(writes, reads, placed, x)
  <1>1. s \in [1 .. 3 -> Nat]
    BY BodyTakes
  <1>2. \A i \in 1 .. 3 : s[i] = Takes(writes, reads, placed, x, i)
    BY DEF BodySizes, Takes
  <1>3. Len(BodyBytes(writes, placed, x)) = Sums(s)[3]
    BY BodyTotal
  <1> HIDE DEF s
  <1>4. Sums(s)[3] = s[1] + s[2] + s[3]
    BY <1>1, Sum3
  <1> QED BY <1>2, <1>3, <1>4

LEMMA BodyTakes4 ==
  ASSUME NEW writes, NEW reads, Agree(writes, reads), NEW x, NEW placed,
         Prepared(writes, reads, x, placed), Len(reads) = 4
  PROVE  Len(BodyBytes(writes, placed, x))
            = Takes(writes, reads, placed, x, 1)
              + Takes(writes, reads, placed, x, 2)
              + Takes(writes, reads, placed, x, 3)
              + Takes(writes, reads, placed, x, 4)
  <1> DEFINE s == BodySizes(writes, reads, placed, x)
  <1>1. s \in [1 .. 4 -> Nat]
    BY BodyTakes
  <1>2. \A i \in 1 .. 4 : s[i] = Takes(writes, reads, placed, x, i)
    BY DEF BodySizes, Takes
  <1>3. Len(BodyBytes(writes, placed, x)) = Sums(s)[4]
    BY BodyTotal
  <1> HIDE DEF s
  <1>4. Sums(s)[4] = s[1] + s[2] + s[3] + s[4]
    BY <1>1, Sum4
  <1> QED BY <1>2, <1>3, <1>4

LEMMA BodyTakes5 ==
  ASSUME NEW writes, NEW reads, Agree(writes, reads), NEW x, NEW placed,
         Prepared(writes, reads, x, placed), Len(reads) = 5
  PROVE  Len(BodyBytes(writes, placed, x))
            = Takes(writes, reads, placed, x, 1)
              + Takes(writes, reads, placed, x, 2)
              + Takes(writes, reads, placed, x, 3)
              + Takes(writes, reads, placed, x, 4)
              + Takes(writes, reads, placed, x, 5)
  <1> DEFINE s == BodySizes(writes, reads, placed, x)
  <1>1. s \in [1 .. 5 -> Nat]
    BY BodyTakes
  <1>2. \A i \in 1 .. 5 : s[i] = Takes(writes, reads, placed, x, i)
    BY DEF BodySizes, Takes
  <1>3. Len(BodyBytes(writes, placed, x)) = Sums(s)[5]
    BY BodyTotal
  <1> HIDE DEF s
  <1>4. Sums(s)[5] = s[1] + s[2] + s[3] + s[4] + s[5]
    BY <1>1, Sum5
  <1> QED BY <1>2, <1>3, <1>4

LEMMA BodyTakes7 ==
  ASSUME NEW writes, NEW reads, Agree(writes, reads), NEW x, NEW placed,
         Prepared(writes, reads, x, placed), Len(reads) = 7
  PROVE  Len(BodyBytes(writes, placed, x))
            = Takes(writes, reads, placed, x, 1)
              + Takes(writes, reads, placed, x, 2)
              + Takes(writes, reads, placed, x, 3)
              + Takes(writes, reads, placed, x, 4)
              + Takes(writes, reads, placed, x, 5)
              + Takes(writes, reads, placed, x, 6)
              + Takes(writes, reads, placed, x, 7)
  <1> DEFINE s == BodySizes(writes, reads, placed, x)
  <1>1. s \in [1 .. 7 -> Nat]
    BY BodyTakes
  <1>2. \A i \in 1 .. 7 : s[i] = Takes(writes, reads, placed, x, i)
    BY DEF BodySizes, Takes
  <1>3. Len(BodyBytes(writes, placed, x)) = Sums(s)[7]
    BY BodyTotal
  <1> HIDE DEF s
  <1>4. Sums(s)[7] = s[1] + s[2] + s[3] + s[4] + s[5] + s[6] + s[7]
    BY <1>1, Sum7
  <1> QED BY <1>2, <1>3, <1>4

LEMMA BodyTakes8 ==
  ASSUME NEW writes, NEW reads, Agree(writes, reads), NEW x, NEW placed,
         Prepared(writes, reads, x, placed), Len(reads) = 8
  PROVE  Len(BodyBytes(writes, placed, x))
            = Takes(writes, reads, placed, x, 1)
              + Takes(writes, reads, placed, x, 2)
              + Takes(writes, reads, placed, x, 3)
              + Takes(writes, reads, placed, x, 4)
              + Takes(writes, reads, placed, x, 5)
              + Takes(writes, reads, placed, x, 6)
              + Takes(writes, reads, placed, x, 7)
              + Takes(writes, reads, placed, x, 8)
  <1> DEFINE s == BodySizes(writes, reads, placed, x)
  <1>1. s \in [1 .. 8 -> Nat]
    BY BodyTakes
  <1>2. \A i \in 1 .. 8 : s[i] = Takes(writes, reads, placed, x, i)
    BY DEF BodySizes, Takes
  <1>3. Len(BodyBytes(writes, placed, x)) = Sums(s)[8]
    BY BodyTotal
  <1> HIDE DEF s
  <1>4. Sums(s)[8] = s[1] + s[2] + s[3] + s[4] + s[5] + s[6] + s[7] + s[8]
    BY <1>1, Sum8
  <1> QED BY <1>2, <1>3, <1>4

\* For a field of a class.
LEMMA ListOf ==
  ASSUME NEW writes, NEW reads, Agree(writes, reads), NEW x, NEW placed,
         Prepared(writes, reads, x, placed), NEW i \in 1 .. Len(reads),
         writes[i].steps = <<>>, reads[i].op = "messages", NEW f, reads[i].field = f
  PROVE  Lens(Elements(writes[i], placed, x)) = [k \in DOMAIN x[f] |-> SizeOf(x[f][k])]
  BY ListTakes
AllAre(list, class) == \A k \in DOMAIN list : list[k].rtype = class
LEMMA ListClass ==
  ASSUME NEW writes, NEW reads, Agree(writes, reads), NEW x, NEW placed,
         Prepared(writes, reads, x, placed), NEW i \in 1 .. Len(reads),
         writes[i].steps = <<>>, reads[i].op = "messages", NEW f, reads[i].field = f
  PROVE  AllAre(x[f], NestedClass[f])
  <1> DEFINE r == reads[i]
  <1>1. /\ Lens(Elements(writes[i], placed, x))
              = [k \in 1 .. Repeats(r, x) |-> SizeOf(Item(r, x, k))]
        /\ \A k \in 1 .. Repeats(r, x) : Item(r, x, k).rtype = NestedClass[r.field]
    BY NestedTake
  <1>2. FieldFits(r, x) /\ r.op = "messages" /\ r.field = f
    BY PreparedIs DEF AllFit, Agree, Aligned
  <1> HIDE DEF r
  <1>3. x[f] = [k \in 1 .. Repeats(r, x) |-> Item(r, x, k)]
    BY <1>2, RepeatsAre DEF Compound
  <1>4. \A k : Item(r, x, k) = x[f][k]
    BY <1>2 DEF Item
  <1>5. DOMAIN x[f] = 1 .. Repeats(r, x)
    BY <1>3
  <1> QED BY <1>1, <1>2, <1>4, <1>5 DEF AllAre
LEMMA OneOf ==
  ASSUME NEW writes, NEW reads, Agree(writes, reads), NEW x, NEW placed,
         Prepared(writes, reads, x, placed), NEW i \in 1 .. Len(reads),
         writes[i].steps = <<>>, reads[i].op = "message", NEW f, reads[i].field = f
  PROVE  Total(Lens(Elements(writes[i], placed, x))) = SizeOf(x[f])
  BY OneTakes
LEMMA OneClass ==
  ASSUME NEW writes, NEW reads, Agree(writes, reads), NEW x, NEW placed,
         Prepared(writes, reads, x, placed), NEW i \in 1 .. Len(reads),
         writes[i].steps = <<>>, reads[i].op = "message", NEW f, reads[i].field = f
  PROVE  x[f].rtype = NestedClass[f]
  BY OneTakes
LEMMA NumbersOf ==
  ASSUME NEW writes, NEW reads, Agree(writes, reads), NEW x, NEW placed,
         Prepared(writes, reads, x, placed), NEW i \in 1 .. Len(reads), NEW steps,
         writes[i].steps = steps, reads[i].steps = steps, steps # <<>>,
         Len(steps) = 1, steps[1].op = "value", NEW w, steps[1].count = w,
         NEW f, reads[i].field = f
  PROVE  Total(Lens(Elements(writes[i], placed, x))) = w * Len(x[f])
  BY NumbersTake
LEMMA NumbersLen ==
  ASSUME NEW writes, NEW reads, Agree(writes, reads), NEW x, NEW placed,
         Prepared(writes, reads, x, placed), NEW i \in 1 .. Len(reads), NEW steps,
         writes[i].steps = steps, reads[i].steps = steps, steps # <<>>,
         Len(steps) = 1, steps[1].op = "value", NEW f, reads[i].field = f
  PROVE  Len(x[f]) \in Nat
  BY NumbersTake

\* What the constructors of compound steps make.
LEMMA ListParts ==
  ASSUME NEW f, NEW steps
  PROVE  List(f, steps).steps = steps /\ List(f, steps).field = f
  BY DEF List, Step
LEMMA EachParts ==
  ASSUME NEW f, NEW n, NEW steps
  PROVE  Each(f, n, steps).steps = steps /\ Each(f, n, steps).field = f
  BY DEF Each, Step
LEMMA NestedParts ==
  ASSUME NEW f
  PROVE  Nested(f).field = f /\ Nested(f).op = "message" /\ Nested(f).steps = <<>>
  BY DEF Nested, Step
LEMMA NestedNParts ==
  ASSUME NEW f, NEW n
  PROVE  NestedN(f, n).field = f /\ NestedN(f, n).op = "messages" /\ NestedN(f, n).steps = <<>>
  BY DEF NestedN, Step
LEMMA NestedByParts ==
  ASSUME NEW f, NEW l
  PROVE  NestedBy(f, l).field = f /\ NestedBy(f, l).op = "messages" /\ NestedBy(f, l).steps = <<>>
  BY DEF NestedBy, Step

\* In each class the two agree.
LEMMA KeyExchangeTakes ==
  ASSUME NEW x, NEW placed, Prepared(KeyExchangeWrites, KeyExchangeReads, x, placed), HeaderSize(x) \in Nat
  PROVE  KeyExchangeSize(x) = HeaderSize(x) + Len(BodyBytes(KeyExchangeWrites, placed, x))
  <1> DEFINE s(i) == Takes(KeyExchangeWrites, KeyExchangeReads, placed, x, i)
             e(i) == Elements(KeyExchangeWrites[i], placed, x)
  <1>1. /\ Len(KeyExchangeReads) = 3
        /\ KeyExchangeReads[1] = U64("pkeySz")
        /\ KeyExchangeReads[2] = Chars("pkey", "pkeySz")
        /\ KeyExchangeReads[3] = U64("return_node")
    BY DEF KeyExchangeReads
  <1>2. Len(BodyBytes(KeyExchangeWrites, placed, x))
           = s(1) + s(2) + s(3)
    BY <1>1, KeyExchangeAgrees, BodyTakes3, Zenon
  <1>3. \A i \in 1 .. 3 : s(i) \in Nat
    BY <1>1, KeyExchangeAgrees, TakesNat
  <1>4. \A i : s(i) = StepSize(KeyExchangeReads[i], e(i), x)
    BY DEF Takes
  <1> HIDE DEF s
  <1>s1. s(1) = 8
    BY <1>1, <1>4, U64Size
  <1>s2. s(2) = Len(x.pkey) /\ Len(x.pkey) \in Nat
    <2>1. StepSize(Chars("pkey", "pkeySz"), e(2), x) = Len(x.pkey)
      BY CharsSize
    <2>2. s(2) = StepSize(KeyExchangeReads[2], e(2), x) /\ s(2) \in Nat
      BY <1>3, <1>4
    <2> QED BY <1>1, <2>1, <2>2
  <1>s3. s(3) = 8
    BY <1>1, <1>4, U64Size
  <1> DEFINE a == Len(x.pkey)
             h == HeaderSize(x)
             l == Len(BodyBytes(KeyExchangeWrites, placed, x))
  <1>5. s(1) = 8 /\ s(2) = a /\ s(3) = 8
    BY <1>s1, <1>s2, <1>s3
  <1>6. KeyExchangeSize(x) = h + 8 + a + 8
    BY DEF KeyExchangeSize
  <1>7. a \in Int /\ h \in Int
        /\ l = s(1) + s(2) + s(3)
    <2>1. s(1) \in Nat /\ s(2) \in Nat /\ s(3) \in Nat
      BY <1>3
    <2>2. a \in Int
      BY <2>1, <1>s2
    <2> QED BY <1>2, <2>1, <2>2
  <1>8. l = 8 + a + 8
    BY <1>5, <1>7
  <1> HIDE DEF a, h, l
  <1>9. KeyExchangeSize(x) = h + l
    BY <1>6, <1>7, <1>8
  <1> QED BY <1>9 DEF h, l

LEMMA QueryTakes ==
  ASSUME NEW x, NEW placed, Prepared(QueryWrites, QueryReads, x, placed), HeaderSize(x) \in Nat
  PROVE  QuerySize(x) = HeaderSize(x) + Len(BodyBytes(QueryWrites, placed, x))
  <1> DEFINE s(i) == Takes(QueryWrites, QueryReads, placed, x, i)
             e(i) == Elements(QueryWrites[i], placed, x)
  <1>1. /\ Len(QueryReads) = 1
        /\ QueryReads[1] = List("requests", <<Val("request", RequestWidth)>>)
        /\ QueryWrites[1] = List("requests", <<Val("request", RequestWidth)>>)
    BY DEF QueryReads, QueryWrites, QueryRequests
  <1>2. Len(BodyBytes(QueryWrites, placed, x))
           = s(1)
    BY <1>1, QueryAgrees, BodyTakes1, Zenon
  <1>3. \A i \in 1 .. 1 : s(i) \in Nat
    BY <1>1, QueryAgrees, TakesNat
  <1>4. \A i : s(i) = StepSize(QueryReads[i], e(i), x)
    BY DEF Takes
  <1> HIDE DEF s
  <1>s1. s(1) = 8 + RequestWidth * Len(x.requests) /\ Len(x.requests) \in Nat
    <2> DEFINE steps == <<Val("request", RequestWidth)>>
               w == RequestWidth
    <2>1. Len(steps) = 1 /\ steps # <<>> /\ steps[1].op = "value" /\ steps[1].count = w
      BY RequestSteps
    <2> HIDE DEF steps, w
    <2>2. /\ QueryReads[1].steps = steps /\ QueryWrites[1].steps = steps
          /\ QueryReads[1].field = "requests"
      BY <1>1, ListParts DEF steps
    <2>3. 1 \in 1 .. Len(QueryReads)
      BY <1>1
    <2>6. Total(Lens(e(1))) = w * Len(x["requests"])
      BY <2>1, <2>2, <2>3, QueryAgrees, NumbersOf
    <2>7. Len(x["requests"]) \in Nat
      BY <2>1, <2>2, <2>3, QueryAgrees, NumbersLen
    <2>4. s(1) = StepSize(List("requests", <<Val("request", RequestWidth)>>), e(1), x)
      BY <1>1, <1>4
    <2>5. StepSize(List("requests", <<Val("request", RequestWidth)>>), e(1), x) = 8 + Total(Lens(e(1)))
      BY ListSize
    <2> QED BY <2>4, <2>5, <2>6, <2>7 DEF w
  <1> DEFINE a == RequestWidth * Len(x.requests)
             h == HeaderSize(x)
             l == Len(BodyBytes(QueryWrites, placed, x))
  <1>5. s(1) = (8 + a)
    BY <1>s1
  <1>6. QuerySize(x) = h + 8 + a
    BY DEF QuerySize
  <1>7. a \in Int /\ h \in Int
        /\ l = s(1)
    <2>1. s(1) \in Nat
      BY <1>3
    <2>2. a \in Int
      BY <1>s1, SizeAssumption
    <2> QED BY <1>2, <2>1, <2>2
  <1>8. l = (8 + a)
    BY <1>5, <1>7
  <1> HIDE DEF a, h, l
  <1>9. QuerySize(x) = h + l
    BY <1>6, <1>7, <1>8
  <1> QED BY <1>9 DEF h, l

LEMMA FinishTakes ==
  ASSUME NEW x, NEW placed, Prepared(FinishWrites, FinishReads, x, placed), HeaderSize(x) \in Nat
  PROVE  FinishSize(x) = HeaderSize(x) + Len(BodyBytes(FinishWrites, placed, x))
  <1> DEFINE s(i) == Takes(FinishWrites, FinishReads, placed, x, i)
             e(i) == Elements(FinishWrites[i], placed, x)
  <1>1. /\ Len(FinishReads) = 3
        /\ FinishReads[1] = U64("pid")
        /\ FinishReads[2] = U32("rc")
        /\ FinishReads[3] = Val("readonly", 1)
    BY DEF FinishReads
  <1>2. Len(BodyBytes(FinishWrites, placed, x))
           = s(1) + s(2) + s(3)
    BY <1>1, FinishAgrees, BodyTakes3, Zenon
  <1>3. \A i \in 1 .. 3 : s(i) \in Nat
    BY <1>1, FinishAgrees, TakesNat
  <1>4. \A i : s(i) = StepSize(FinishReads[i], e(i), x)
    BY DEF Takes
  <1> HIDE DEF s
  <1>s1. s(1) = 8
    BY <1>1, <1>4, U64Size
  <1>s2. s(2) = 4
    BY <1>1, <1>4, U32Size
  <1>s3. s(3) = 1
    BY <1>1, <1>4, ValSize
  <1> QED BY <1>2, <1>s1, <1>s2, <1>s3 DEF FinishSize

LEMMA QueryResponseTakes ==
  ASSUME NEW x, NEW placed, Prepared(QueryResponseWrites, QueryResponseReads, x, placed), HeaderSize(x) \in Nat
  PROVE  QueryResponseSize(x) = HeaderSize(x) + Len(BodyBytes(QueryResponseWrites, placed, x))
  <1> DEFINE s(i) == Takes(QueryResponseWrites, QueryResponseReads, placed, x, i)
             e(i) == Elements(QueryResponseWrites[i], placed, x)
  <1>1. /\ Len(QueryResponseReads) = 1
        /\ QueryResponseReads[1] = U32("rc")
    BY DEF QueryResponseReads
  <1>2. Len(BodyBytes(QueryResponseWrites, placed, x))
           = s(1)
    BY <1>1, QueryResponseAgrees, BodyTakes1, Zenon
  <1>3. \A i \in 1 .. 1 : s(i) \in Nat
    BY <1>1, QueryResponseAgrees, TakesNat
  <1>4. \A i : s(i) = StepSize(QueryResponseReads[i], e(i), x)
    BY DEF Takes
  <1> HIDE DEF s
  <1>s1. s(1) = 4
    BY <1>1, <1>4, U32Size
  <1> QED BY <1>2, <1>s1 DEF QueryResponseSize

LEMMA AckTakes ==
  ASSUME NEW x, NEW placed, Prepared(AckWrites, AckReads, x, placed), HeaderSize(x) \in Nat
  PROVE  AckSize(x) = HeaderSize(x) + Len(BodyBytes(AckWrites, placed, x))
  <1> DEFINE s(i) == Takes(AckWrites, AckReads, placed, x, i)
             e(i) == Elements(AckWrites[i], placed, x)
  <1>1. /\ Len(AckReads) = 1
        /\ AckReads[1] = U32("rc")
    BY DEF AckReads
  <1>2. Len(BodyBytes(AckWrites, placed, x))
           = s(1)
    BY <1>1, AckAgrees, BodyTakes1, Zenon
  <1>3. \A i \in 1 .. 1 : s(i) \in Nat
    BY <1>1, AckAgrees, TakesNat
  <1>4. \A i : s(i) = StepSize(AckReads[i], e(i), x)
    BY DEF Takes
  <1> HIDE DEF s
  <1>s1. s(1) = 4
    BY <1>1, <1>4, U32Size
  <1> QED BY <1>2, <1>s1 DEF AckSize

LEMMA ForwardTakes ==
  ASSUME NEW x, NEW placed, Prepared(ForwardWrites, ForwardReads, x, placed), HeaderSize(x) \in Nat
  PROVE  ForwardSize(x) = HeaderSize(x) + Len(BodyBytes(ForwardWrites, placed, x))
  <1> DEFINE s(i) == Takes(ForwardWrites, ForwardReads, placed, x, i)
             e(i) == Elements(ForwardWrites[i], placed, x)
  <1>1. /\ Len(ForwardReads) = 1
        /\ ForwardReads[1] = U32("rc")
    BY DEF ForwardReads
  <1>2. Len(BodyBytes(ForwardWrites, placed, x))
           = s(1)
    BY <1>1, ForwardAgrees, BodyTakes1, Zenon
  <1>3. \A i \in 1 .. 1 : s(i) \in Nat
    BY <1>1, ForwardAgrees, TakesNat
  <1>4. \A i : s(i) = StepSize(ForwardReads[i], e(i), x)
    BY DEF Takes
  <1> HIDE DEF s
  <1>s1. s(1) = 4
    BY <1>1, <1>4, U32Size
  <1> QED BY <1>2, <1>s1 DEF ForwardSize

LEMMA YCSBClientQueryTakes ==
  ASSUME NEW x, NEW placed, Prepared(YCSBClientQueryWrites, YCSBClientQueryReads, x, placed), HeaderSize(x) \in Nat
  PROVE  YCSBClientQuerySize(x) = HeaderSize(x) + Len(BodyBytes(YCSBClientQueryWrites, placed, x))
  <1> DEFINE s(i) == Takes(YCSBClientQueryWrites, YCSBClientQueryReads, placed, x, i)
             e(i) == Elements(YCSBClientQueryWrites[i], placed, x)
  <1>1. /\ Len(YCSBClientQueryReads) = 4
        /\ YCSBClientQueryReads[1] = U64("client_startts")
        /\ YCSBClientQueryReads[2] = List("partitions", <<U64("part")>>)
        /\ YCSBClientQueryReads[3] = List("requests", <<Val("request", RequestWidth)>>)
        /\ YCSBClientQueryReads[4] = U64("return_node")
        /\ YCSBClientQueryWrites[2] = List("partitions", <<U64("part")>>)
        /\ YCSBClientQueryWrites[3] = List("requests", <<Val("request", RequestWidth)>>)
    BY YCSBClientQuerySteps
  <1>2. Len(BodyBytes(YCSBClientQueryWrites, placed, x))
           = s(1) + s(2) + s(3) + s(4)
    BY <1>1, YCSBClientQueryAgrees, BodyTakes4, Zenon
  <1>3. \A i \in 1 .. 4 : s(i) \in Nat
    BY <1>1, YCSBClientQueryAgrees, TakesNat
  <1>4. \A i : s(i) = StepSize(YCSBClientQueryReads[i], e(i), x)
    BY DEF Takes
  <1> HIDE DEF s
  <1>s1. s(1) = 8
    BY <1>1, <1>4, U64Size
  <1>s2. s(2) = 8 + 8 * Len(x.partitions) /\ Len(x.partitions) \in Nat
    <2> DEFINE steps == <<U64("part")>>
               w == 8
    <2>1. Len(steps) = 1 /\ steps # <<>> /\ steps[1].op = "value" /\ steps[1].count = w
      BY NumberSteps
    <2> HIDE DEF steps, w
    <2>2. /\ YCSBClientQueryReads[2].steps = steps /\ YCSBClientQueryWrites[2].steps = steps
          /\ YCSBClientQueryReads[2].field = "partitions"
      BY <1>1, ListParts DEF steps
    <2>3. 2 \in 1 .. Len(YCSBClientQueryReads)
      BY <1>1
    <2>6. Total(Lens(e(2))) = w * Len(x["partitions"])
      BY <2>1, <2>2, <2>3, YCSBClientQueryAgrees, NumbersOf
    <2>7. Len(x["partitions"]) \in Nat
      BY <2>1, <2>2, <2>3, YCSBClientQueryAgrees, NumbersLen
    <2>4. s(2) = StepSize(List("partitions", <<U64("part")>>), e(2), x)
      BY <1>1, <1>4
    <2>5. StepSize(List("partitions", <<U64("part")>>), e(2), x) = 8 + Total(Lens(e(2)))
      BY ListSize
    <2> QED BY <2>4, <2>5, <2>6, <2>7 DEF w
  <1>s3. s(3) = 8 + RequestWidth * Len(x.requests) /\ Len(x.requests) \in Nat
    <2> DEFINE steps == <<Val("request", RequestWidth)>>
               w == RequestWidth
    <2>1. Len(steps) = 1 /\ steps # <<>> /\ steps[1].op = "value" /\ steps[1].count = w
      BY RequestSteps
    <2> HIDE DEF steps, w
    <2>2. /\ YCSBClientQueryReads[3].steps = steps /\ YCSBClientQueryWrites[3].steps = steps
          /\ YCSBClientQueryReads[3].field = "requests"
      BY <1>1, ListParts DEF steps
    <2>3. 3 \in 1 .. Len(YCSBClientQueryReads)
      BY <1>1
    <2>6. Total(Lens(e(3))) = w * Len(x["requests"])
      BY <2>1, <2>2, <2>3, YCSBClientQueryAgrees, NumbersOf
    <2>7. Len(x["requests"]) \in Nat
      BY <2>1, <2>2, <2>3, YCSBClientQueryAgrees, NumbersLen
    <2>4. s(3) = StepSize(List("requests", <<Val("request", RequestWidth)>>), e(3), x)
      BY <1>1, <1>4
    <2>5. StepSize(List("requests", <<Val("request", RequestWidth)>>), e(3), x) = 8 + Total(Lens(e(3)))
      BY ListSize
    <2> QED BY <2>4, <2>5, <2>6, <2>7 DEF w
  <1>s4. s(4) = 8
    BY <1>1, <1>4, U64Size
  <1> DEFINE a == 8 * Len(x.partitions)
             b == RequestWidth * Len(x.requests)
             h == HeaderSize(x)
             l == Len(BodyBytes(YCSBClientQueryWrites, placed, x))
  <1>5. s(1) = 8 /\ s(2) = (8 + a) /\ s(3) = (8 + b) /\ s(4) = 8
    BY <1>s1, <1>s2, <1>s3, <1>s4
  <1>6. YCSBClientQuerySize(x) = h + 8 + 8 + a + 8 + b + 8
    BY DEF YCSBClientQuerySize, ClientQuerySize
  <1>7. a \in Int /\ b \in Int /\ h \in Int
        /\ l = s(1) + s(2) + s(3) + s(4)
    <2>1. s(1) \in Nat /\ s(2) \in Nat /\ s(3) \in Nat /\ s(4) \in Nat
      BY <1>3
    <2>2. a \in Int
      BY <1>s2, SizeAssumption
    <2>3. b \in Int
      BY <1>s3, SizeAssumption
    <2> QED BY <1>2, <2>1, <2>2, <2>3
  <1>8. l = 8 + (8 + a) + (8 + b) + 8
    BY <1>5, <1>7
  <1> HIDE DEF a, b, h, l
  <1>9. YCSBClientQuerySize(x) = h + l
    BY <1>6, <1>7, <1>8
  <1> QED BY <1>9 DEF h, l

LEMMA ClientQueryBatchTakes ==
  ASSUME NEW x, NEW placed, Prepared(ClientQueryBatchWrites, ClientQueryBatchReads, x, placed), HeaderSize(x) \in Nat
  PROVE  ClientQueryBatchSize(x) = HeaderSize(x) + Len(BodyBytes(ClientQueryBatchWrites, placed, x))
  <1> DEFINE s(i) == Takes(ClientQueryBatchWrites, ClientQueryBatchReads, placed, x, i)
             e(i) == Elements(ClientQueryBatchWrites[i], placed, x)
  <1>1. /\ Len(ClientQueryBatchReads) = 3
        /\ ClientQueryBatchReads[1] = U64("return_node")
        /\ ClientQueryBatchReads[2] = U32("batch_size")
        /\ ClientQueryBatchReads[3] = NestedN("cqrySet", BatchSize)
        /\ ClientQueryBatchWrites[3] = NestedN("cqrySet", BatchSize)
    BY DEF ClientQueryBatchReads, ClientQueryBatchWrites
  <1>2. Len(BodyBytes(ClientQueryBatchWrites, placed, x))
           = s(1) + s(2) + s(3)
    BY <1>1, ClientQueryBatchAgrees, BodyTakes3, Zenon
  <1>3. \A i \in 1 .. 3 : s(i) \in Nat
    BY <1>1, ClientQueryBatchAgrees, TakesNat
  <1>4. \A i : s(i) = StepSize(ClientQueryBatchReads[i], e(i), x)
    BY DEF Takes
  <1> HIDE DEF s
  <1>s1. s(1) = 8
    BY <1>1, <1>4, U64Size
  <1>s2. s(2) = 4
    BY <1>1, <1>4, U32Size
  <1>s3. s(3) = Total([k \in DOMAIN x.cqrySet |-> YCSBClientQuerySize(x.cqrySet[k])])
    <2>1. /\ ClientQueryBatchReads[3].field = "cqrySet" /\ ClientQueryBatchReads[3].op = "messages"
          /\ ClientQueryBatchWrites[3].steps = <<>>
      BY <1>1, NestedNParts
    <2>2. /\ Lens(e(3)) = [k \in DOMAIN x.cqrySet |-> SizeOf(x.cqrySet[k])]
          /\ \A k \in DOMAIN x.cqrySet : x.cqrySet[k].rtype = NestedClass["cqrySet"]
      <3>1. 3 \in 1 .. Len(ClientQueryBatchReads)
        BY <1>1
      <3>2. Lens(e(3)) = [k \in DOMAIN x["cqrySet"] |-> SizeOf(x["cqrySet"][k])]
        BY <2>1, <3>1, ClientQueryBatchAgrees, ListOf
      <3>3. AllAre(x["cqrySet"], NestedClass["cqrySet"])
        BY <2>1, <3>1, ClientQueryBatchAgrees, ListClass
      <3> QED BY <3>2, <3>3 DEF AllAre
    <2>3. NestedClass["cqrySet"] = "CL_QRY"
      BY DEF NestedClass
    <2>4. Lens(e(3)) = [k \in DOMAIN x.cqrySet |-> YCSBClientQuerySize(x.cqrySet[k])]
      BY <2>2, <2>3, SizeOfClass
    <2>5. s(3) = Total(Lens(e(3)))
      BY <1>1, <1>4, NestedNSize
    <2> QED BY <2>4, <2>5
  <1> DEFINE a == Total([k \in DOMAIN x.cqrySet |-> YCSBClientQuerySize(x.cqrySet[k])])
             h == HeaderSize(x)
             l == Len(BodyBytes(ClientQueryBatchWrites, placed, x))
  <1>5. s(1) = 8 /\ s(2) = 4 /\ s(3) = a
    BY <1>s1, <1>s2, <1>s3
  <1>6. ClientQueryBatchSize(x) = h + 8 + 4 + a
    BY DEF ClientQueryBatchSize
  <1>7. a \in Int /\ h \in Int
        /\ l = s(1) + s(2) + s(3)
    <2>1. s(1) \in Nat /\ s(2) \in Nat /\ s(3) \in Nat
      BY <1>3
    <2>2. a \in Int
      BY <2>1, <1>s3
    <2> QED BY <1>2, <2>1, <2>2
  <1>8. l = 8 + 4 + a
    BY <1>5, <1>7
  <1> HIDE DEF a, h, l
  <1>9. ClientQueryBatchSize(x) = h + l
    BY <1>6, <1>7, <1>8
  <1> QED BY <1>9 DEF h, l

LEMMA ClientResponseTakes ==
  ASSUME NEW x, NEW placed, Prepared(ClientResponseWrites, ClientResponseReads, x, placed), HeaderSize(x) \in Nat
  PROVE  ClientResponseSize(x) = HeaderSize(x) + Len(BodyBytes(ClientResponseWrites, placed, x))
  <1> DEFINE s(i) == Takes(ClientResponseWrites, ClientResponseReads, placed, x, i)
             e(i) == Elements(ClientResponseWrites[i], placed, x)
  <1>1. /\ Len(ClientResponseReads) = 3
        /\ ClientResponseReads[1] = Each("index", BatchSize, <<U64("value")>>)
        /\ ClientResponseReads[2] = Each("client_ts", BatchSize, <<U64("value")>>)
        /\ ClientResponseReads[3] = U64("view")
        /\ ClientResponseWrites[1] = Each("index", BatchSize, <<U64("value")>>)
        /\ ClientResponseWrites[2] = Each("client_ts", BatchSize, <<U64("value")>>)
    BY DEF ClientResponseReads, ClientResponseWrites
  <1>2. Len(BodyBytes(ClientResponseWrites, placed, x))
           = s(1) + s(2) + s(3)
    BY <1>1, ClientResponseAgrees, BodyTakes3, Zenon
  <1>3. \A i \in 1 .. 3 : s(i) \in Nat
    BY <1>1, ClientResponseAgrees, TakesNat
  <1>4. \A i : s(i) = StepSize(ClientResponseReads[i], e(i), x)
    BY DEF Takes
  <1> HIDE DEF s
  <1>s1. s(1) = 8 * Len(x.index) /\ Len(x.index) \in Nat
    <2> DEFINE steps == <<U64("value")>>
               w == 8
    <2>1. Len(steps) = 1 /\ steps # <<>> /\ steps[1].op = "value" /\ steps[1].count = w
      BY NumberSteps
    <2> HIDE DEF steps, w
    <2>2. /\ ClientResponseReads[1].steps = steps /\ ClientResponseWrites[1].steps = steps
          /\ ClientResponseReads[1].field = "index"
      BY <1>1, EachParts DEF steps
    <2>3. 1 \in 1 .. Len(ClientResponseReads)
      BY <1>1
    <2>6. Total(Lens(e(1))) = w * Len(x["index"])
      BY <2>1, <2>2, <2>3, ClientResponseAgrees, NumbersOf
    <2>7. Len(x["index"]) \in Nat
      BY <2>1, <2>2, <2>3, ClientResponseAgrees, NumbersLen
    <2>4. s(1) = StepSize(Each("index", BatchSize, <<U64("value")>>), e(1), x)
      BY <1>1, <1>4
    <2>5. StepSize(Each("index", BatchSize, <<U64("value")>>), e(1), x) = Total(Lens(e(1)))
      BY EachSize
    <2> QED BY <2>4, <2>5, <2>6, <2>7 DEF w
  <1>s2. s(2) = 8 * Len(x.client_ts) /\ Len(x.client_ts) \in Nat
    <2> DEFINE steps == <<U64("value")>>
               w == 8
    <2>1. Len(steps) = 1 /\ steps # <<>> /\ steps[1].op = "value" /\ steps[1].count = w
      BY NumberSteps
    <2> HIDE DEF steps, w
    <2>2. /\ ClientResponseReads[2].steps = steps /\ ClientResponseWrites[2].steps = steps
          /\ ClientResponseReads[2].field = "client_ts"
      BY <1>1, EachParts DEF steps
    <2>3. 2 \in 1 .. Len(ClientResponseReads)
      BY <1>1
    <2>6. Total(Lens(e(2))) = w * Len(x["client_ts"])
      BY <2>1, <2>2, <2>3, ClientResponseAgrees, NumbersOf
    <2>7. Len(x["client_ts"]) \in Nat
      BY <2>1, <2>2, <2>3, ClientResponseAgrees, NumbersLen
    <2>4. s(2) = StepSize(Each("client_ts", BatchSize, <<U64("value")>>), e(2), x)
      BY <1>1, <1>4
    <2>5. StepSize(Each("client_ts", BatchSize, <<U64("value")>>), e(2), x) = Total(Lens(e(2)))
      BY EachSize
    <2> QED BY <2>4, <2>5, <2>6, <2>7 DEF w
  <1>s3. s(3) = 8
    BY <1>1, <1>4, U64Size
  <1> DEFINE a == 8 * Len(x.index)
             b == 8 * Len(x.client_ts)
             h == HeaderSize(x)
             l == Len(BodyBytes(ClientResponseWrites, placed, x))
  <1>5. s(1) = a /\ s(2) = b /\ s(3) = 8
    BY <1>s1, <1>s2, <1>s3
  <1>6. ClientResponseSize(x) = h + 8 + a + b
    BY DEF ClientResponseSize
  <1>7. a \in Int /\ b \in Int /\ h \in Int
        /\ l = s(1) + s(2) + s(3)
    <2>1. s(1) \in Nat /\ s(2) \in Nat /\ s(3) \in Nat
      BY <1>3
    <2>2. a \in Int
      BY <1>s1, SizeAssumption
    <2>3. b \in Int
      BY <1>s2, SizeAssumption
    <2> QED BY <1>2, <2>1, <2>2, <2>3
  <1>8. l = a + b + 8
    BY <1>5, <1>7
  <1> HIDE DEF a, b, h, l
  <1>9. ClientResponseSize(x) = h + l
    BY <1>6, <1>7, <1>8
  <1> QED BY <1>9 DEF h, l

LEMMA PBFTPreTakes ==
  ASSUME NEW x, NEW placed, Prepared(PBFTPreWrites, PBFTPreReads, x, placed), HeaderSize(x) \in Nat
  PROVE  PBFTPreSize(x) = HeaderSize(x) + Len(BodyBytes(PBFTPreWrites, placed, x))
  <1> DEFINE s(i) == Takes(PBFTPreWrites, PBFTPreReads, placed, x, i)
             e(i) == Elements(PBFTPreWrites[i], placed, x)
  <1>1. /\ Len(PBFTPreReads) = 5
        /\ PBFTPreReads[1] = U64("view")
        /\ PBFTPreReads[2] = U64("index")
        /\ PBFTPreReads[3] = U64("hashSize")
        /\ PBFTPreReads[4] = Chars("hash", "hashSize")
        /\ PBFTPreReads[5] = Nested("requestMsg")
        /\ PBFTPreWrites[5] = Nested("requestMsg")
    BY DEF PBFTPreReads, PBFTPreWrites
  <1>2. Len(BodyBytes(PBFTPreWrites, placed, x))
           = s(1) + s(2) + s(3) + s(4) + s(5)
    BY <1>1, PBFTPreAgrees, BodyTakes5, Zenon
  <1>3. \A i \in 1 .. 5 : s(i) \in Nat
    BY <1>1, PBFTPreAgrees, TakesNat
  <1>4. \A i : s(i) = StepSize(PBFTPreReads[i], e(i), x)
    BY DEF Takes
  <1> HIDE DEF s
  <1>s1. s(1) = 8
    BY <1>1, <1>4, U64Size
  <1>s2. s(2) = 8
    BY <1>1, <1>4, U64Size
  <1>s3. s(3) = 8
    BY <1>1, <1>4, U64Size
  <1>s4. s(4) = Len(x.hash) /\ Len(x.hash) \in Nat
    <2>1. StepSize(Chars("hash", "hashSize"), e(4), x) = Len(x.hash)
      BY CharsSize
    <2>2. s(4) = StepSize(PBFTPreReads[4], e(4), x) /\ s(4) \in Nat
      BY <1>3, <1>4
    <2> QED BY <1>1, <2>1, <2>2
  <1>s5. s(5) = YCSBClientQuerySize(x.requestMsg)
    <2>1. /\ PBFTPreReads[5].field = "requestMsg" /\ PBFTPreReads[5].op = "message"
          /\ PBFTPreWrites[5].steps = <<>>
      BY <1>1, NestedParts
    <2>2. Total(Lens(e(5))) = SizeOf(x.requestMsg) /\ x.requestMsg.rtype = NestedClass["requestMsg"]
      <3>1. 5 \in 1 .. Len(PBFTPreReads)
        BY <1>1
      <3>2. Total(Lens(e(5))) = SizeOf(x["requestMsg"])
        BY <2>1, <3>1, PBFTPreAgrees, OneOf
      <3>3. x["requestMsg"].rtype = NestedClass["requestMsg"]
        BY <2>1, <3>1, PBFTPreAgrees, OneClass
      <3> QED BY <3>2, <3>3
    <2>3. NestedClass["requestMsg"] = "CL_QRY"
      BY DEF NestedClass
    <2>4. s(5) = Total(Lens(e(5)))
      BY <1>1, <1>4, NestedSize
    <2> QED BY <2>2, <2>3, <2>4, SizeOfClass
  <1> DEFINE a == Len(x.hash)
             b == YCSBClientQuerySize(x.requestMsg)
             h == HeaderSize(x)
             l == Len(BodyBytes(PBFTPreWrites, placed, x))
  <1>5. s(1) = 8 /\ s(2) = 8 /\ s(3) = 8 /\ s(4) = a /\ s(5) = b
    BY <1>s1, <1>s2, <1>s3, <1>s4, <1>s5
  <1>6. PBFTPreSize(x) = h + 8 + 8 + 8 + a + b
    BY DEF PBFTPreSize
  <1>7. a \in Int /\ b \in Int /\ h \in Int
        /\ l = s(1) + s(2) + s(3) + s(4) + s(5)
    <2>1. s(1) \in Nat /\ s(2) \in Nat /\ s(3) \in Nat /\ s(4) \in Nat /\ s(5) \in Nat
      BY <1>3
    <2>2. a \in Int
      BY <2>1, <1>s4
    <2>3. b \in Int
      BY <2>1, <1>s5
    <2> QED BY <1>2, <2>1, <2>2, <2>3
  <1>8. l = 8 + 8 + 8 + a + b
    BY <1>5, <1>7
  <1> HIDE DEF a, b, h, l
  <1>9. PBFTPreSize(x) = h + l
    BY <1>6, <1>7, <1>8
  <1> QED BY <1>9 DEF h, l

LEMMA ExecuteTakes ==
  ASSUME NEW x, NEW placed, Prepared(ExecuteWrites, ExecuteReads, x, placed), HeaderSize(x) \in Nat
  PROVE  ExecuteSize(x) = HeaderSize(x) + Len(BodyBytes(ExecuteWrites, placed, x))
  <1> DEFINE s(i) == Takes(ExecuteWrites, ExecuteReads, placed, x, i)
             e(i) == Elements(ExecuteWrites[i], placed, x)
  <1>1. /\ Len(ExecuteReads) = 7
        /\ ExecuteReads[1] = U64("view")
        /\ ExecuteReads[2] = U64("index")
        /\ ExecuteReads[3] = U64("hashSize")
        /\ ExecuteReads[4] = Chars("hash", "hashSize")
        /\ ExecuteReads[5] = U64("return_node")
        /\ ExecuteReads[6] = U64("end_index")
        /\ ExecuteReads[7] = U64("batch_size")
    BY DEF ExecuteReads
  <1>2. Len(BodyBytes(ExecuteWrites, placed, x))
           = s(1) + s(2) + s(3) + s(4) + s(5) + s(6) + s(7)
    BY <1>1, ExecuteAgrees, BodyTakes7, Zenon
  <1>3. \A i \in 1 .. 7 : s(i) \in Nat
    BY <1>1, ExecuteAgrees, TakesNat
  <1>4. \A i : s(i) = StepSize(ExecuteReads[i], e(i), x)
    BY DEF Takes
  <1> HIDE DEF s
  <1>s1. s(1) = 8
    BY <1>1, <1>4, U64Size
  <1>s2. s(2) = 8
    BY <1>1, <1>4, U64Size
  <1>s3. s(3) = 8
    BY <1>1, <1>4, U64Size
  <1>s4. s(4) = Len(x.hash) /\ Len(x.hash) \in Nat
    <2>1. StepSize(Chars("hash", "hashSize"), e(4), x) = Len(x.hash)
      BY CharsSize
    <2>2. s(4) = StepSize(ExecuteReads[4], e(4), x) /\ s(4) \in Nat
      BY <1>3, <1>4
    <2> QED BY <1>1, <2>1, <2>2
  <1>s5. s(5) = 8
    BY <1>1, <1>4, U64Size
  <1>s6. s(6) = 8
    BY <1>1, <1>4, U64Size
  <1>s7. s(7) = 8
    BY <1>1, <1>4, U64Size
  <1> DEFINE a == Len(x.hash)
             h == HeaderSize(x)
             l == Len(BodyBytes(ExecuteWrites, placed, x))
  <1>5. s(1) = 8 /\ s(2) = 8 /\ s(3) = 8 /\ s(4) = a /\ s(5) = 8 /\ s(6) = 8 /\ s(7) = 8
    BY <1>s1, <1>s2, <1>s3, <1>s4, <1>s5, <1>s6, <1>s7
  <1>6. ExecuteSize(x) = h + 8 + 8 + a + 8 + 8 + 8 + 8
    BY DEF ExecuteSize
  <1>7. a \in Int /\ h \in Int
        /\ l = s(1) + s(2) + s(3) + s(4) + s(5) + s(6) + s(7)
    <2>1. s(1) \in Nat /\ s(2) \in Nat /\ s(3) \in Nat /\ s(4) \in Nat /\ s(5) \in Nat /\ s(6) \in Nat /\ s(7) \in Nat
      BY <1>3
    <2>2. a \in Int
      BY <2>1, <1>s4
    <2> QED BY <1>2, <2>1, <2>2
  <1>8. l = 8 + 8 + 8 + a + 8 + 8 + 8
    BY <1>5, <1>7
  <1> HIDE DEF a, h, l
  <1>9. ExecuteSize(x) = h + l
    BY <1>6, <1>7, <1>8
  <1> QED BY <1>9 DEF h, l

LEMMA CheckpointTakes ==
  ASSUME NEW x, NEW placed, Prepared(CheckpointWrites, CheckpointReads, x, placed), HeaderSize(x) \in Nat
  PROVE  CheckpointSize(x) = HeaderSize(x) + Len(BodyBytes(CheckpointWrites, placed, x))
  <1> DEFINE s(i) == Takes(CheckpointWrites, CheckpointReads, placed, x, i)
             e(i) == Elements(CheckpointWrites[i], placed, x)
  <1>1. /\ Len(CheckpointReads) = 3
        /\ CheckpointReads[1] = U64("index")
        /\ CheckpointReads[2] = U64("return_node")
        /\ CheckpointReads[3] = U64("beg_index")
    BY DEF CheckpointReads
  <1>2. Len(BodyBytes(CheckpointWrites, placed, x))
           = s(1) + s(2) + s(3)
    BY <1>1, CheckpointAgrees, BodyTakes3, Zenon
  <1>3. \A i \in 1 .. 3 : s(i) \in Nat
    BY <1>1, CheckpointAgrees, TakesNat
  <1>4. \A i : s(i) = StepSize(CheckpointReads[i], e(i), x)
    BY DEF Takes
  <1> HIDE DEF s
  <1>s1. s(1) = 8
    BY <1>1, <1>4, U64Size
  <1>s2. s(2) = 8
    BY <1>1, <1>4, U64Size
  <1>s3. s(3) = 8
    BY <1>1, <1>4, U64Size
  <1> QED BY <1>2, <1>s1, <1>s2, <1>s3 DEF CheckpointSize

LEMMA PBFTPrepTakes ==
  ASSUME NEW x, NEW placed, Prepared(PBFTPrepWrites, PBFTPrepReads, x, placed), HeaderSize(x) \in Nat
  PROVE  PBFTPrepSize(x) = HeaderSize(x) + Len(BodyBytes(PBFTPrepWrites, placed, x))
  <1> DEFINE s(i) == Takes(PBFTPrepWrites, PBFTPrepReads, placed, x, i)
             e(i) == Elements(PBFTPrepWrites[i], placed, x)
  <1>1. /\ Len(PBFTPrepReads) = 7
        /\ PBFTPrepReads[1] = U64("view")
        /\ PBFTPrepReads[2] = U64("index")
        /\ PBFTPrepReads[3] = U64("hashSize")
        /\ PBFTPrepReads[4] = Chars("hash", "hashSize")
        /\ PBFTPrepReads[5] = U64("return_node")
        /\ PBFTPrepReads[6] = U64("end_index")
        /\ PBFTPrepReads[7] = U32("batch_size")
    BY DEF PBFTPrepReads
  <1>2. Len(BodyBytes(PBFTPrepWrites, placed, x))
           = s(1) + s(2) + s(3) + s(4) + s(5) + s(6) + s(7)
    BY <1>1, PBFTPrepAgrees, BodyTakes7, Zenon
  <1>3. \A i \in 1 .. 7 : s(i) \in Nat
    BY <1>1, PBFTPrepAgrees, TakesNat
  <1>4. \A i : s(i) = StepSize(PBFTPrepReads[i], e(i), x)
    BY DEF Takes
  <1> HIDE DEF s
  <1>s1. s(1) = 8
    BY <1>1, <1>4, U64Size
  <1>s2. s(2) = 8
    BY <1>1, <1>4, U64Size
  <1>s3. s(3) = 8
    BY <1>1, <1>4, U64Size
  <1>s4. s(4) = Len(x.hash) /\ Len(x.hash) \in Nat
    <2>1. StepSize(Chars("hash", "hashSize"), e(4), x) = Len(x.hash)
      BY CharsSize
    <2>2. s(4) = StepSize(PBFTPrepReads[4], e(4), x) /\ s(4) \in Nat
      BY <1>3, <1>4
    <2> QED BY <1>1, <2>1, <2>2
  <1>s5. s(5) = 8
    BY <1>1, <1>4, U64Size
  <1>s6. s(6) = 8
    BY <1>1, <1>4, U64Size
  <1>s7. s(7) = 4
    BY <1>1, <1>4, U32Size
  <1> DEFINE a == Len(x.hash)
             h == HeaderSize(x)
             l == Len(BodyBytes(PBFTPrepWrites, placed, x))
  <1>5. s(1) = 8 /\ s(2) = 8 /\ s(3) = 8 /\ s(4) = a /\ s(5) = 8 /\ s(6) = 8 /\ s(7) = 4
    BY <1>s1, <1>s2, <1>s3, <1>s4, <1>s5, <1>s6, <1>s7
  <1>6. PBFTPrepSize(x) = h + 8 + 8 + a + 8 + 8 + 8 + 4
    BY DEF PBFTPrepSize
  <1>7. a \in Int /\ h \in Int
        /\ l = s(1) + s(2) + s(3) + s(4) + s(5) + s(6) + s(7)
    <2>1. s(1) \in Nat /\ s(2) \in Nat /\ s(3) \in Nat /\ s(4) \in Nat /\ s(5) \in Nat /\ s(6) \in Nat /\ s(7) \in Nat
      BY <1>3
    <2>2. a \in Int
      BY <2>1, <1>s4
    <2> QED BY <1>2, <2>1, <2>2
  <1>8. l = 8 + 8 + 8 + a + 8 + 8 + 4
    BY <1>5, <1>7
  <1> HIDE DEF a, h, l
  <1>9. PBFTPrepSize(x) = h + l
    BY <1>6, <1>7, <1>8
  <1> QED BY <1>9 DEF h, l

LEMMA PBFTCommitTakes ==
  ASSUME NEW x, NEW placed, Prepared(PBFTCommitWrites, PBFTCommitReads, x, placed), HeaderSize(x) \in Nat
  PROVE  PBFTCommitSize(x) = HeaderSize(x) + Len(BodyBytes(PBFTCommitWrites, placed, x))
  <1> DEFINE s(i) == Takes(PBFTCommitWrites, PBFTCommitReads, placed, x, i)
             e(i) == Elements(PBFTCommitWrites[i], placed, x)
  <1>1. /\ Len(PBFTCommitReads) = 7
        /\ PBFTCommitReads[1] = U64("view")
        /\ PBFTCommitReads[2] = U64("index")
        /\ PBFTCommitReads[3] = U64("hashSize")
        /\ PBFTCommitReads[4] = Chars("hash", "hashSize")
        /\ PBFTCommitReads[5] = U64("return_node")
        /\ PBFTCommitReads[6] = U64("end_index")
        /\ PBFTCommitReads[7] = U64("batch_size")
    BY DEF PBFTCommitReads
  <1>2. Len(BodyBytes(PBFTCommitWrites, placed, x))
           = s(1) + s(2) + s(3) + s(4) + s(5) + s(6) + s(7)
    BY <1>1, PBFTCommitAgrees, BodyTakes7, Zenon
  <1>3. \A i \in 1 .. 7 : s(i) \in Nat
    BY <1>1, PBFTCommitAgrees, TakesNat
  <1>4. \A i : s(i) = StepSize(PBFTCommitReads[i], e(i), x)
    BY DEF Takes
  <1> HIDE DEF s
  <1>s1. s(1) = 8
    BY <1>1, <1>4, U64Size
  <1>s2. s(2) = 8
    BY <1>1, <1>4, U64Size
  <1>s3. s(3) = 8
    BY <1>1, <1>4, U64Size
  <1>s4. s(4) = Len(x.hash) /\ Len(x.hash) \in Nat
    <2>1. StepSize(Chars("hash", "hashSize"), e(4), x) = Len(x.hash)
      BY CharsSize
    <2>2. s(4) = StepSize(PBFTCommitReads[4], e(4), x) /\ s(4) \in Nat
      BY <1>3, <1>4
    <2> QED BY <1>1, <2>1, <2>2
  <1>s5. s(5) = 8
    BY <1>1, <1>4, U64Size
  <1>s6. s(6) = 8
    BY <1>1, <1>4, U64Size
  <1>s7. s(7) = 8
    BY <1>1, <1>4, U64Size
  <1> DEFINE a == Len(x.hash)
             h == HeaderSize(x)
             l == Len(BodyBytes(PBFTCommitWrites, placed, x))
  <1>5. s(1) = 8 /\ s(2) = 8 /\ s(3) = 8 /\ s(4) = a /\ s(5) = 8 /\ s(6) = 8 /\ s(7) = 8
    BY <1>s1, <1>s2, <1>s3, <1>s4, <1>s5, <1>s6, <1>s7
  <1>6. PBFTCommitSize(x) = h + 8 + 8 + a + 8 + 8 + 8 + 8
    BY DEF PBFTCommitSize
  <1>7. a \in Int /\ h \in Int
        /\ l = s(1) + s(2) + s(3) + s(4) + s(5) + s(6) + s(7)
    <2>1. s(1) \in Nat /\ s(2) \in Nat /\ s(3) \in Nat /\ s(4) \in Nat /\ s(5) \in Nat /\ s(6) \in Nat /\ s(7) \in Nat
      BY <1>3
    <2>2. a \in Int
      BY <2>1, <1>s4
    <2> QED BY <1>2, <2>1, <2>2
  <1>8. l = 8 + 8 + 8 + a + 8 + 8 + 8
    BY <1>5, <1>7
  <1> HIDE DEF a, h, l
  <1>9. PBFTCommitSize(x) = h + l
    BY <1>6, <1>7, <1>8
  <1> QED BY <1>9 DEF h, l

LEMMA PBFTViewChangeTakes ==
  ASSUME NEW x, NEW placed, Prepared(PBFTViewChangeWrites, PBFTViewChangeReads, x, placed), HeaderSize(x) \in Nat
  PROVE  PBFTViewChangeSize(x) = HeaderSize(x) + Len(BodyBytes(PBFTViewChangeWrites, placed, x))
  <1> DEFINE s(i) == Takes(PBFTViewChangeWrites, PBFTViewChangeReads, placed, x, i)
             e(i) == Elements(PBFTViewChangeWrites[i], placed, x)
  <1>1. /\ Len(PBFTViewChangeReads) = 8
        /\ PBFTViewChangeReads[1] = U64("view")
        /\ PBFTViewChangeReads[2] = U64("index")
        /\ PBFTViewChangeReads[3] = U64("numPreMsgs")
        /\ PBFTViewChangeReads[4] = U64("numPrepMsgs")
        /\ PBFTViewChangeReads[5] = NestedN("checkPointMessages", 2 * F)
        /\ PBFTViewChangeReads[6] = NestedBy("prePrepareMessages", "numPreMsgs")
        /\ PBFTViewChangeReads[7] = NestedBy("prepareMessages", "numPrepMsgs")
        /\ PBFTViewChangeReads[8] = U64("return_node")
        /\ PBFTViewChangeWrites[5] = NestedN("checkPointMessages", 2 * F)
        /\ PBFTViewChangeWrites[6] = NestedBy("prePrepareMessages", "numPreMsgs")
        /\ PBFTViewChangeWrites[7] = NestedBy("prepareMessages", "numPrepMsgs")
    BY DEF PBFTViewChangeReads, PBFTViewChangeWrites
  <1>2. Len(BodyBytes(PBFTViewChangeWrites, placed, x))
           = s(1) + s(2) + s(3) + s(4) + s(5) + s(6) + s(7) + s(8)
    BY <1>1, PBFTViewChangeAgrees, BodyTakes8, Zenon
  <1>3. \A i \in 1 .. 8 : s(i) \in Nat
    BY <1>1, PBFTViewChangeAgrees, TakesNat
  <1>4. \A i : s(i) = StepSize(PBFTViewChangeReads[i], e(i), x)
    BY DEF Takes
  <1> HIDE DEF s
  <1>s1. s(1) = 8
    BY <1>1, <1>4, U64Size
  <1>s2. s(2) = 8
    BY <1>1, <1>4, U64Size
  <1>s3. s(3) = 8
    BY <1>1, <1>4, U64Size
  <1>s4. s(4) = 8
    BY <1>1, <1>4, U64Size
  <1>s5. s(5) = Total([k \in DOMAIN x.checkPointMessages |-> CheckpointSize(x.checkPointMessages[k])])
    <2>1. /\ PBFTViewChangeReads[5].field = "checkPointMessages" /\ PBFTViewChangeReads[5].op = "messages"
          /\ PBFTViewChangeWrites[5].steps = <<>>
      BY <1>1, NestedNParts
    <2>2. /\ Lens(e(5)) = [k \in DOMAIN x.checkPointMessages |-> SizeOf(x.checkPointMessages[k])]
          /\ \A k \in DOMAIN x.checkPointMessages : x.checkPointMessages[k].rtype = NestedClass["checkPointMessages"]
      <3>1. 5 \in 1 .. Len(PBFTViewChangeReads)
        BY <1>1
      <3>2. Lens(e(5)) = [k \in DOMAIN x["checkPointMessages"] |-> SizeOf(x["checkPointMessages"][k])]
        BY <2>1, <3>1, PBFTViewChangeAgrees, ListOf
      <3>3. AllAre(x["checkPointMessages"], NestedClass["checkPointMessages"])
        BY <2>1, <3>1, PBFTViewChangeAgrees, ListClass
      <3> QED BY <3>2, <3>3 DEF AllAre
    <2>3. NestedClass["checkPointMessages"] = "PBFT_CHKPT_MSG"
      BY DEF NestedClass
    <2>4. Lens(e(5)) = [k \in DOMAIN x.checkPointMessages |-> CheckpointSize(x.checkPointMessages[k])]
      BY <2>2, <2>3, SizeOfClass
    <2>5. s(5) = Total(Lens(e(5)))
      BY <1>1, <1>4, NestedNSize
    <2> QED BY <2>4, <2>5
  <1>s6. s(6) = Total([k \in DOMAIN x.prePrepareMessages |-> BatchRequestsSize(x.prePrepareMessages[k])])
    <2>1. /\ PBFTViewChangeReads[6].field = "prePrepareMessages" /\ PBFTViewChangeReads[6].op = "messages"
          /\ PBFTViewChangeWrites[6].steps = <<>>
      BY <1>1, NestedByParts
    <2>2. /\ Lens(e(6)) = [k \in DOMAIN x.prePrepareMessages |-> SizeOf(x.prePrepareMessages[k])]
          /\ \A k \in DOMAIN x.prePrepareMessages : x.prePrepareMessages[k].rtype = NestedClass["prePrepareMessages"]
      <3>1. 6 \in 1 .. Len(PBFTViewChangeReads)
        BY <1>1
      <3>2. Lens(e(6)) = [k \in DOMAIN x["prePrepareMessages"] |-> SizeOf(x["prePrepareMessages"][k])]
        BY <2>1, <3>1, PBFTViewChangeAgrees, ListOf
      <3>3. AllAre(x["prePrepareMessages"], NestedClass["prePrepareMessages"])
        BY <2>1, <3>1, PBFTViewChangeAgrees, ListClass
      <3> QED BY <3>2, <3>3 DEF AllAre
    <2>3. NestedClass["prePrepareMessages"] = "BATCH_REQ"
      BY DEF NestedClass
    <2>4. Lens(e(6)) = [k \in DOMAIN x.prePrepareMessages |-> BatchRequestsSize(x.prePrepareMessages[k])]
      BY <2>2, <2>3, SizeOfClass
    <2>5. s(6) = Total(Lens(e(6)))
      BY <1>1, <1>4, NestedBySize
    <2> QED BY <2>4, <2>5
  <1>s7. s(7) = Total([k \in DOMAIN x.prepareMessages |-> PBFTPrepSize(x.prepareMessages[k])])
    <2>1. /\ PBFTViewChangeReads[7].field = "prepareMessages" /\ PBFTViewChangeReads[7].op = "messages"
          /\ PBFTViewChangeWrites[7].steps = <<>>
      BY <1>1, NestedByParts
    <2>2. /\ Lens(e(7)) = [k \in DOMAIN x.prepareMessages |-> SizeOf(x.prepareMessages[k])]
          /\ \A k \in DOMAIN x.prepareMessages : x.prepareMessages[k].rtype = NestedClass["prepareMessages"]
      <3>1. 7 \in 1 .. Len(PBFTViewChangeReads)
        BY <1>1
      <3>2. Lens(e(7)) = [k \in DOMAIN x["prepareMessages"] |-> SizeOf(x["prepareMessages"][k])]
        BY <2>1, <3>1, PBFTViewChangeAgrees, ListOf
      <3>3. AllAre(x["prepareMessages"], NestedClass["prepareMessages"])
        BY <2>1, <3>1, PBFTViewChangeAgrees, ListClass
      <3> QED BY <3>2, <3>3 DEF AllAre
    <2>3. NestedClass["prepareMessages"] = "PBFT_PREP_MSG"
      BY DEF NestedClass
    <2>4. Lens(e(7)) = [k \in DOMAIN x.prepareMessages |-> PBFTPrepSize(x.prepareMessages[k])]
      BY <2>2, <2>3, SizeOfClass
    <2>5. s(7) = Total(Lens(e(7)))
      BY <1>1, <1>4, NestedBySize
    <2> QED BY <2>4, <2>5
  <1>s8. s(8) = 8
    BY <1>1, <1>4, U64Size
  <1> DEFINE a == Total([k \in DOMAIN x.checkPointMessages |-> CheckpointSize(x.checkPointMessages[k])])
             b == Total([k \in DOMAIN x.prePrepareMessages |-> BatchRequestsSize(x.prePrepareMessages[k])])
             c == Total([k \in DOMAIN x.prepareMessages |-> PBFTPrepSize(x.prepareMessages[k])])
             h == HeaderSize(x)
             l == Len(BodyBytes(PBFTViewChangeWrites, placed, x))
  <1>5. s(1) = 8 /\ s(2) = 8 /\ s(3) = 8 /\ s(4) = 8 /\ s(5) = a /\ s(6) = b /\ s(7) = c /\ s(8) = 8
    BY <1>s1, <1>s2, <1>s3, <1>s4, <1>s5, <1>s6, <1>s7, <1>s8
  <1>6. PBFTViewChangeSize(x) = h + 8 + 8 + 8 + 8 + a + b + c + 8
    BY DEF PBFTViewChangeSize
  <1>7. a \in Int /\ b \in Int /\ c \in Int /\ h \in Int
        /\ l = s(1) + s(2) + s(3) + s(4) + s(5) + s(6) + s(7) + s(8)
    <2>1. s(1) \in Nat /\ s(2) \in Nat /\ s(3) \in Nat /\ s(4) \in Nat /\ s(5) \in Nat /\ s(6) \in Nat /\ s(7) \in Nat /\ s(8) \in Nat
      BY <1>3
    <2>2. a \in Int
      BY <2>1, <1>s5
    <2>3. b \in Int
      BY <2>1, <1>s6
    <2>4. c \in Int
      BY <2>1, <1>s7
    <2> QED BY <1>2, <2>1, <2>2, <2>3, <2>4
  <1>8. l = 8 + 8 + 8 + 8 + a + b + c + 8
    BY <1>5, <1>7
  <1> HIDE DEF a, b, c, h, l
  <1>9. PBFTViewChangeSize(x) = h + l
    BY <1>6, <1>7, <1>8
  <1> QED BY <1>9 DEF h, l

LEMMA PBFTNewViewTakes ==
  ASSUME NEW x, NEW placed, Prepared(PBFTNewViewWrites, PBFTNewViewReads, x, placed), HeaderSize(x) \in Nat
  PROVE  PBFTNewViewSize(x) = HeaderSize(x) + Len(BodyBytes(PBFTNewViewWrites, placed, x))
  <1> DEFINE s(i) == Takes(PBFTNewViewWrites, PBFTNewViewReads, placed, x, i)
             e(i) == Elements(PBFTNewViewWrites[i], placed, x)
  <1>1. /\ Len(PBFTNewViewReads) = 5
        /\ PBFTNewViewReads[1] = U64("view")
        /\ PBFTNewViewReads[2] = U64("numViewChangeMsgs")
        /\ PBFTNewViewReads[3] = U64("numPreMsgs")
        /\ PBFTNewViewReads[4] = NestedBy("viewChangeMessages", "numViewChangeMsgs")
        /\ PBFTNewViewReads[5] = NestedBy("prePrepareMessages", "numPreMsgs")
        /\ PBFTNewViewWrites[4] = NestedBy("viewChangeMessages", "numViewChangeMsgs")
        /\ PBFTNewViewWrites[5] = NestedBy("prePrepareMessages", "numPreMsgs")
    BY DEF PBFTNewViewReads, PBFTNewViewWrites
  <1>2. Len(BodyBytes(PBFTNewViewWrites, placed, x))
           = s(1) + s(2) + s(3) + s(4) + s(5)
    BY <1>1, PBFTNewViewAgrees, BodyTakes5, Zenon
  <1>3. \A i \in 1 .. 5 : s(i) \in Nat
    BY <1>1, PBFTNewViewAgrees, TakesNat
  <1>4. \A i : s(i) = StepSize(PBFTNewViewReads[i], e(i), x)
    BY DEF Takes
  <1> HIDE DEF s
  <1>s1. s(1) = 8
    BY <1>1, <1>4, U64Size
  <1>s2. s(2) = 8
    BY <1>1, <1>4, U64Size
  <1>s3. s(3) = 8
    BY <1>1, <1>4, U64Size
  <1>s4. s(4) = Total([k \in DOMAIN x.viewChangeMessages |-> PBFTViewChangeSize(x.viewChangeMessages[k])])
    <2>1. /\ PBFTNewViewReads[4].field = "viewChangeMessages" /\ PBFTNewViewReads[4].op = "messages"
          /\ PBFTNewViewWrites[4].steps = <<>>
      BY <1>1, NestedByParts
    <2>2. /\ Lens(e(4)) = [k \in DOMAIN x.viewChangeMessages |-> SizeOf(x.viewChangeMessages[k])]
          /\ \A k \in DOMAIN x.viewChangeMessages : x.viewChangeMessages[k].rtype = NestedClass["viewChangeMessages"]
      <3>1. 4 \in 1 .. Len(PBFTNewViewReads)
        BY <1>1
      <3>2. Lens(e(4)) = [k \in DOMAIN x["viewChangeMessages"] |-> SizeOf(x["viewChangeMessages"][k])]
        BY <2>1, <3>1, PBFTNewViewAgrees, ListOf
      <3>3. AllAre(x["viewChangeMessages"], NestedClass["viewChangeMessages"])
        BY <2>1, <3>1, PBFTNewViewAgrees, ListClass
      <3> QED BY <3>2, <3>3 DEF AllAre
    <2>3. NestedClass["viewChangeMessages"] = "PBFT_VIEW_CHANGE"
      BY DEF NestedClass
    <2>4. Lens(e(4)) = [k \in DOMAIN x.viewChangeMessages |-> PBFTViewChangeSize(x.viewChangeMessages[k])]
      BY <2>2, <2>3, SizeOfClass
    <2>5. s(4) = Total(Lens(e(4)))
      BY <1>1, <1>4, NestedBySize
    <2> QED BY <2>4, <2>5
  <1>s5. s(5) = Total([k \in DOMAIN x.prePrepareMessages |-> BatchRequestsSize(x.prePrepareMessages[k])])
    <2>1. /\ PBFTNewViewReads[5].field = "prePrepareMessages" /\ PBFTNewViewReads[5].op = "messages"
          /\ PBFTNewViewWrites[5].steps = <<>>
      BY <1>1, NestedByParts
    <2>2. /\ Lens(e(5)) = [k \in DOMAIN x.prePrepareMessages |-> SizeOf(x.prePrepareMessages[k])]
          /\ \A k \in DOMAIN x.prePrepareMessages : x.prePrepareMessages[k].rtype = NestedClass["prePrepareMessages"]
      <3>1. 5 \in 1 .. Len(PBFTNewViewReads)
        BY <1>1
      <3>2. Lens(e(5)) = [k \in DOMAIN x["prePrepareMessages"] |-> SizeOf(x["prePrepareMessages"][k])]
        BY <2>1, <3>1, PBFTNewViewAgrees, ListOf
      <3>3. AllAre(x["prePrepareMessages"], NestedClass["prePrepareMessages"])
        BY <2>1, <3>1, PBFTNewViewAgrees, ListClass
      <3> QED BY <3>2, <3>3 DEF AllAre
    <2>3. NestedClass["prePrepareMessages"] = "BATCH_REQ"
      BY DEF NestedClass
    <2>4. Lens(e(5)) = [k \in DOMAIN x.prePrepareMessages |-> BatchRequestsSize(x.prePrepareMessages[k])]
      BY <2>2, <2>3, SizeOfClass
    <2>5. s(5) = Total(Lens(e(5)))
      BY <1>1, <1>4, NestedBySize
    <2> QED BY <2>4, <2>5
  <1> DEFINE a == Total([k \in DOMAIN x.viewChangeMessages |-> PBFTViewChangeSize(x.viewChangeMessages[k])])
             b == Total([k \in DOMAIN x.prePrepareMessages |-> BatchRequestsSize(x.prePrepareMessages[k])])
             h == HeaderSize(x)
             l == Len(BodyBytes(PBFTNewViewWrites, placed, x))
  <1>5. s(1) = 8 /\ s(2) = 8 /\ s(3) = 8 /\ s(4) = a /\ s(5) = b
    BY <1>s1, <1>s2, <1>s3, <1>s4, <1>s5
  <1>6. PBFTNewViewSize(x) = h + 8 + 8 + 8 + a + b
    BY DEF PBFTNewViewSize
  <1>7. a \in Int /\ b \in Int /\ h \in Int
        /\ l = s(1) + s(2) + s(3) + s(4) + s(5)
    <2>1. s(1) \in Nat /\ s(2) \in Nat /\ s(3) \in Nat /\ s(4) \in Nat /\ s(5) \in Nat
      BY <1>3
    <2>2. a \in Int
      BY <2>1, <1>s4
    <2>3. b \in Int
      BY <2>1, <1>s5
    <2> QED BY <1>2, <2>1, <2>2, <2>3
  <1>8. l = 8 + 8 + 8 + a + b
    BY <1>5, <1>7
  <1> HIDE DEF a, b, h, l
  <1>9. PBFTNewViewSize(x) = h + l
    BY <1>6, <1>7, <1>8
  <1> QED BY <1>9 DEF h, l

LEMMA ClientCommitCertificateTakes ==
  ASSUME NEW x, NEW placed, Prepared(ClientCommitCertificateWrites, ClientCommitCertificateReads, x, placed), HeaderSize(x) \in Nat
  PROVE  ClientCertificateSize(x) = HeaderSize(x) + Len(BodyBytes(ClientCommitCertificateWrites, placed, x))
  <1> DEFINE s(i) == Takes(ClientCommitCertificateWrites, ClientCommitCertificateReads, placed, x, i)
             e(i) == Elements(ClientCommitCertificateWrites[i], placed, x)
  <1>1. /\ Len(ClientCommitCertificateReads) = 2
        /\ ClientCommitCertificateReads[1] = U64("client_startts")
        /\ ClientCommitCertificateReads[2] = U64("view")
    BY DEF ClientCommitCertificateReads
  <1>2. Len(BodyBytes(ClientCommitCertificateWrites, placed, x))
           = s(1) + s(2)
    BY <1>1, ClientCommitCertificateAgrees, BodyTakes2, Zenon
  <1>3. \A i \in 1 .. 2 : s(i) \in Nat
    BY <1>1, ClientCommitCertificateAgrees, TakesNat
  <1>4. \A i : s(i) = StepSize(ClientCommitCertificateReads[i], e(i), x)
    BY DEF Takes
  <1> HIDE DEF s
  <1>s1. s(1) = 8
    BY <1>1, <1>4, U64Size
  <1>s2. s(2) = 8
    BY <1>1, <1>4, U64Size
  <1> QED BY <1>2, <1>s1, <1>s2 DEF ClientCertificateSize

LEMMA ClientCertificateAckTakes ==
  ASSUME NEW x, NEW placed, Prepared(ClientCertificateAckWrites, ClientCertificateAckReads, x, placed), HeaderSize(x) \in Nat
  PROVE  ClientCertificateSize(x) = HeaderSize(x) + Len(BodyBytes(ClientCertificateAckWrites, placed, x))
  <1> DEFINE s(i) == Takes(ClientCertificateAckWrites, ClientCertificateAckReads, placed, x, i)
             e(i) == Elements(ClientCertificateAckWrites[i], placed, x)
  <1>1. /\ Len(ClientCertificateAckReads) = 2
        /\ ClientCertificateAckReads[1] = U64("view")
        /\ ClientCertificateAckReads[2] = U64("client_startts")
    BY DEF ClientCertificateAckReads
  <1>2. Len(BodyBytes(ClientCertificateAckWrites, placed, x))
           = s(1) + s(2)
    BY <1>1, ClientCertificateAckAgrees, BodyTakes2, Zenon
  <1>3. \A i \in 1 .. 2 : s(i) \in Nat
    BY <1>1, ClientCertificateAckAgrees, TakesNat
  <1>4. \A i : s(i) = StepSize(ClientCertificateAckReads[i], e(i), x)
    BY DEF Takes
  <1> HIDE DEF s
  <1>s1. s(1) = 8
    BY <1>1, <1>4, U64Size
  <1>s2. s(2) = 8
    BY <1>1, <1>4, U64Size
  <1> QED BY <1>2, <1>s1, <1>s2 DEF ClientCertificateSize

LEMMA DBFTPrepTakes ==
  ASSUME NEW x, NEW placed, Prepared(DBFTPrepWrites, DBFTPrepReads, x, placed), HeaderSize(x) \in Nat
  PROVE  DBFTPrepSize(x) = HeaderSize(x) + Len(BodyBytes(DBFTPrepWrites, placed, x))
  <1> DEFINE s(i) == Takes(DBFTPrepWrites, DBFTPrepReads, placed, x, i)
             e(i) == Elements(DBFTPrepWrites[i], placed, x)
  <1>1. /\ Len(DBFTPrepReads) = 7
        /\ DBFTPrepReads[1] = U64("view")
        /\ DBFTPrepReads[2] = U64("index")
        /\ DBFTPrepReads[3] = U64("hashSize")
        /\ DBFTPrepReads[4] = Chars("hash", "hashSize")
        /\ DBFTPrepReads[5] = U64("return_node")
        /\ DBFTPrepReads[6] = U64("tripleSignSize")
        /\ DBFTPrepReads[7] = Chars("tripleSign", "tripleSignSize")
    BY DEF DBFTPrepReads
  <1>2. Len(BodyBytes(DBFTPrepWrites, placed, x))
           = s(1) + s(2) + s(3) + s(4) + s(5) + s(6) + s(7)
    BY <1>1, DBFTPrepAgrees, BodyTakes7, Zenon
  <1>3. \A i \in 1 .. 7 : s(i) \in Nat
    BY <1>1, DBFTPrepAgrees, TakesNat
  <1>4. \A i : s(i) = StepSize(DBFTPrepReads[i], e(i), x)
    BY DEF Takes
  <1> HIDE DEF s
  <1>s1. s(1) = 8
    BY <1>1, <1>4, U64Size
  <1>s2. s(2) = 8
    BY <1>1, <1>4, U64Size
  <1>s3. s(3) = 8
    BY <1>1, <1>4, U64Size
  <1>s4. s(4) = Len(x.hash) /\ Len(x.hash) \in Nat
    <2>1. StepSize(Chars("hash", "hashSize"), e(4), x) = Len(x.hash)
      BY CharsSize
    <2>2. s(4) = StepSize(DBFTPrepReads[4], e(4), x) /\ s(4) \in Nat
      BY <1>3, <1>4
    <2> QED BY <1>1, <2>1, <2>2
  <1>s5. s(5) = 8
    BY <1>1, <1>4, U64Size
  <1>s6. s(6) = 8
    BY <1>1, <1>4, U64Size
  <1>s7. s(7) = Len(x.tripleSign) /\ Len(x.tripleSign) \in Nat
    <2>1. StepSize(Chars("tripleSign", "tripleSignSize"), e(7), x) = Len(x.tripleSign)
      BY CharsSize
    <2>2. s(7) = StepSize(DBFTPrepReads[7], e(7), x) /\ s(7) \in Nat
      BY <1>3, <1>4
    <2> QED BY <1>1, <2>1, <2>2
  <1> DEFINE a == Len(x.hash)
             b == Len(x.tripleSign)
             h == HeaderSize(x)
             l == Len(BodyBytes(DBFTPrepWrites, placed, x))
  <1>5. s(1) = 8 /\ s(2) = 8 /\ s(3) = 8 /\ s(4) = a /\ s(5) = 8 /\ s(6) = 8 /\ s(7) = b
    BY <1>s1, <1>s2, <1>s3, <1>s4, <1>s5, <1>s6, <1>s7
  <1>6. DBFTPrepSize(x) = h + 8 + 8 + a + 8 + 8 + b + 8
    BY DEF DBFTPrepSize
  <1>7. a \in Int /\ b \in Int /\ h \in Int
        /\ l = s(1) + s(2) + s(3) + s(4) + s(5) + s(6) + s(7)
    <2>1. s(1) \in Nat /\ s(2) \in Nat /\ s(3) \in Nat /\ s(4) \in Nat /\ s(5) \in Nat /\ s(6) \in Nat /\ s(7) \in Nat
      BY <1>3
    <2>2. a \in Int
      BY <2>1, <1>s4
    <2>3. b \in Int
      BY <2>1, <1>s7
    <2> QED BY <1>2, <2>1, <2>2, <2>3
  <1>8. l = 8 + 8 + 8 + a + 8 + 8 + b
    BY <1>5, <1>7
  <1> HIDE DEF a, b, h, l
  <1>9. DBFTPrepSize(x) = h + l
    BY <1>6, <1>7, <1>8
  <1> QED BY <1>9 DEF h, l

\* An element whose steps are flat is written as a body is.
LEMMA FlatAgrees ==
  ASSUME NEW writes, NEW reads, Flat(writes, reads) PROVE Agree(writes, reads)
  BY DEF Flat, Agree, AgreeStep

LEMMA FlatBody ==
  ASSUME NEW writes, NEW reads, Flat(writes, reads), NEW e, StepsFit(reads, e),
         NEW placed, Laid(placed, Direct(writes, e))
  PROVE  /\ Prepared(writes, reads, e, placed)
         /\ PutElement(writes, placed, e) = BodyBytes(writes, placed, e)
  <1>1. /\ DOMAIN reads = 1 .. Len(reads) /\ DOMAIN writes = 1 .. Len(reads)
        /\ \A i \in 1 .. Len(reads) : writes[i].steps = <<>> /\ reads[i].steps = <<>>
    BY DEF Flat, Aligned
  <1>2. ElementsFit(reads, e)
    BY <1>1 DEF ElementsFit
  <1>3. OfElements(writes, e) = {}
    <2>1. \A x : Direct(<<>>, x) = {}
      <3>1. DOMAIN <<>> = {}
        OBVIOUS
      <3> QED BY <3>1 DEF Direct
    <2> QED BY <1>1, <2>1 DEF OfElements
  <1>4. Messages(writes, e) = Direct(writes, e)
    BY <1>3 DEF Messages
  <1>5. \A i \in DOMAIN writes : Elements(writes[i], placed, e) = Copies(writes[i], placed, e)
    BY <1>1 DEF Elements
  <1>6. [i \in DOMAIN writes |-> Elements(writes[i], placed, e)]
           = [i \in DOMAIN writes |-> Copies(writes[i], placed, e)]
    BY <1>5
  <1>7. PutElement(writes, placed, e) = BodyBytes(writes, placed, e)
    BY <1>6 DEF PutElement, BodyBytes
  <1> QED BY <1>2, <1>4, <1>7 DEF Prepared

\* The elements of a field of a class.
LEMMA ElementsTake ==
  ASSUME NEW writes, NEW reads, Agree(writes, reads), NEW x, NEW placed,
         Prepared(writes, reads, x, placed), NEW i \in 1 .. Len(reads),
         writes[i].steps # <<>>, NEW f, reads[i].field = f
  PROVE  /\ Lens(Elements(writes[i], placed, x))
               = [k \in DOMAIN x[f] |-> Len(BodyBytes(writes[i].steps, placed, x[f][k]))]
         /\ \A k \in DOMAIN x[f] :
               Prepared(writes[i].steps, reads[i].steps, x[f][k], placed)
  <1> DEFINE w == writes[i]
             r == reads[i]
             n == Repeats(r, x)
             els == Elements(w, placed, x)
  <1>1. /\ AllFit(reads, x) /\ ElementsFit(reads, x) /\ Laid(placed, Messages(writes, x))
        /\ i \in DOMAIN reads
    BY PreparedIs DEF Agree, Aligned
  <1>2. /\ els \in [1 .. n -> Seq(Byte)]
        /\ \A k \in 1 .. n : els[k] = PutElement(w.steps, placed, Item(r, x, k))
    <2>1. /\ Elements(writes[i], placed, x) \in [1 .. Repeats(reads[i], x) -> Seq(Byte)]
          /\ \A k \in 1 .. Repeats(reads[i], x) :
                Elements(writes[i], placed, x)[k]
                   = PutElement(writes[i].steps, placed, Item(reads[i], x, k))
      BY <1>1, ElementsAre
    <2> QED BY <2>1
  <1>3. /\ FieldFits(r, x) /\ r.op \in {"list", "each"} /\ r.field = f
        /\ Flat(w.steps, r.steps) /\ r.steps # <<>>
    BY <1>1 DEF Agree, Aligned, AllFit, AgreeStep
  <1>4. ASSUME NEW k \in 1 .. n
        PROVE  /\ StepsFit(r.steps, Item(r, x, k))
               /\ Direct(w.steps, Item(r, x, k)) \subseteq Messages(writes, x)
    <2>1. StepsFit(r.steps, Item(r, x, k))
      BY <1>1, <1>3 DEF ElementsFit
    <2>2. Direct(w.steps, Item(r, x, k)) \subseteq Messages(writes, x)
      BY <1>1, StepOfElements
    <2> QED BY <2>1, <2>2
  <1> HIDE DEF w, r
  <1>5. /\ DOMAIN x[f] = 1 .. n /\ \A k : Item(r, x, k) = x[f][k]
    <2>1. x[f] = [k \in 1 .. n |-> Item(r, x, k)]
      BY <1>3, RepeatsAre DEF Compound
    <2>2. \A k : Item(r, x, k) = x[f][k]
      BY <1>3 DEF Item
    <2> QED BY <2>1, <2>2
  <1> HIDE DEF n, els
  <1>6. ASSUME NEW k \in 1 .. n
        PROVE  /\ Prepared(w.steps, r.steps, x[f][k], placed)
               /\ els[k] = BodyBytes(w.steps, placed, x[f][k])
    <2> DEFINE e == x[f][k]
    <2>1. /\ StepsFit(r.steps, e) /\ els[k] = PutElement(w.steps, placed, e)
          /\ Direct(w.steps, e) \subseteq Messages(writes, x)
      BY <1>2, <1>4, <1>5
    <2> HIDE DEF e
    <2>2. Laid(placed, Direct(w.steps, e))
      BY <1>1, <2>1 DEF Laid
    <2>3. /\ Prepared(w.steps, r.steps, e, placed)
          /\ PutElement(w.steps, placed, e) = BodyBytes(w.steps, placed, e)
      BY <1>3, <2>1, <2>2, FlatBody
    <2> QED BY <2>1, <2>3 DEF e
  <1>7. Lens(els) = [k \in DOMAIN x[f] |-> Len(BodyBytes(w.steps, placed, x[f][k]))]
    BY <1>2, <1>5, <1>6 DEF Lens
  <1> QED BY <1>5, <1>6, <1>7 DEF w, r, els

\* A request in a batch.
BatchElementWrites ==
    <<U64("index"), U64("hashSize"), Text("hash"), Nested("requestMsg")>>
BatchElementReads ==
    <<U64("index"), U64("hashSize"), Chars("hash", "hashSize"), Nested("requestMsg")>>
BatchElementSize(x) == 8 + 8 + Len(x.hash) + YCSBClientQuerySize(x.requestMsg)

LEMMA BatchElementAgrees == Agree(BatchElementWrites, BatchElementReads)
  BY BatchElementFlat, FlatAgrees DEF BatchElementWrites, BatchElementReads

LEMMA BatchElementTakes ==
  ASSUME NEW x, NEW placed, Prepared(BatchElementWrites, BatchElementReads, x, placed)
  PROVE  BatchElementSize(x) = Len(BodyBytes(BatchElementWrites, placed, x))
  <1> DEFINE s(i) == Takes(BatchElementWrites, BatchElementReads, placed, x, i)
             e(i) == Elements(BatchElementWrites[i], placed, x)
  <1>1. /\ Len(BatchElementReads) = 4
        /\ BatchElementReads[1] = U64("index")
        /\ BatchElementReads[2] = U64("hashSize")
        /\ BatchElementReads[3] = Chars("hash", "hashSize")
        /\ BatchElementReads[4] = Nested("requestMsg")
        /\ BatchElementWrites[4] = Nested("requestMsg")
    BY DEF BatchElementReads, BatchElementWrites
  <1>2. Len(BodyBytes(BatchElementWrites, placed, x))
           = s(1) + s(2) + s(3) + s(4)
    BY <1>1, BatchElementAgrees, BodyTakes4, Zenon
  <1>3. \A i \in 1 .. 4 : s(i) \in Nat
    BY <1>1, BatchElementAgrees, TakesNat
  <1>4. \A i : s(i) = StepSize(BatchElementReads[i], e(i), x)
    BY DEF Takes
  <1> HIDE DEF s
  <1>s1. s(1) = 8
    BY <1>1, <1>4, U64Size
  <1>s2. s(2) = 8
    BY <1>1, <1>4, U64Size
  <1>s3. s(3) = Len(x.hash) /\ Len(x.hash) \in Nat
    <2>1. StepSize(Chars("hash", "hashSize"), e(3), x) = Len(x.hash)
      BY CharsSize
    <2>2. s(3) = StepSize(BatchElementReads[3], e(3), x) /\ s(3) \in Nat
      BY <1>3, <1>4
    <2> QED BY <1>1, <2>1, <2>2
  <1>s4. s(4) = YCSBClientQuerySize(x.requestMsg)
    <2>1. /\ BatchElementReads[4].field = "requestMsg" /\ BatchElementReads[4].op = "message"
          /\ BatchElementWrites[4].steps = <<>>
      BY <1>1, NestedParts
    <2>2. Total(Lens(e(4))) = SizeOf(x.requestMsg) /\ x.requestMsg.rtype = NestedClass["requestMsg"]
      <3>1. 4 \in 1 .. Len(BatchElementReads)
        BY <1>1
      <3>2. Total(Lens(e(4))) = SizeOf(x["requestMsg"])
        BY <2>1, <3>1, BatchElementAgrees, OneOf
      <3>3. x["requestMsg"].rtype = NestedClass["requestMsg"]
        BY <2>1, <3>1, BatchElementAgrees, OneClass
      <3> QED BY <3>2, <3>3
    <2>3. NestedClass["requestMsg"] = "CL_QRY"
      BY DEF NestedClass
    <2>4. s(4) = Total(Lens(e(4)))
      BY <1>1, <1>4, NestedSize
    <2> QED BY <2>2, <2>3, <2>4, SizeOfClass
  <1> DEFINE a == Len(x.hash)
             b == YCSBClientQuerySize(x.requestMsg)
             l == Len(BodyBytes(BatchElementWrites, placed, x))
  <1>5. s(1) = 8 /\ s(2) = 8 /\ s(3) = a /\ s(4) = b
    BY <1>s1, <1>s2, <1>s3, <1>s4
  <1>6. BatchElementSize(x) = 8 + 8 + a + b
    BY DEF BatchElementSize
  <1>7. a \in Int /\ b \in Int
        /\ l = s(1) + s(2) + s(3) + s(4)
    <2>1. s(1) \in Nat /\ s(2) \in Nat /\ s(3) \in Nat /\ s(4) \in Nat
      BY <1>3
    <2>2. a \in Int
      BY <2>1, <1>s3
    <2>3. b \in Int
      BY <2>1, <1>s4
    <2> QED BY <1>2, <2>1, <2>2, <2>3
  <1>8. l = 8 + 8 + a + b
    BY <1>5, <1>7
  <1> HIDE DEF a, b, l
  <1>9. BatchElementSize(x) = l
    BY <1>6, <1>7, <1>8
  <1> QED BY <1>9 DEF l

LEMMA BatchRequestsTakes ==
  ASSUME NEW x, NEW placed, Prepared(BatchRequestsWrites, BatchRequestsReads, x, placed),
         HeaderSize(x) \in Nat
  PROVE  BatchRequestsSize(x)
            = HeaderSize(x) + Len(BodyBytes(BatchRequestsWrites, placed, x))
  <1> DEFINE s(i) == Takes(BatchRequestsWrites, BatchRequestsReads, placed, x, i)
             e(i) == Elements(BatchRequestsWrites[i], placed, x)
  <1>1. /\ Len(BatchRequestsReads) = 3
        /\ BatchRequestsReads[1] = U64("view")
        /\ BatchRequestsReads[2] = Each("batch", BatchSize, BatchElementReads)
        /\ BatchRequestsReads[3] = U32("batch_size")
        /\ BatchRequestsWrites[2] = Each("batch", BatchSize, BatchElementWrites)
    BY DEF BatchRequestsReads, BatchRequestsWrites, BatchElementReads, BatchElementWrites
  <1>2. Len(BodyBytes(BatchRequestsWrites, placed, x)) = s(1) + s(2) + s(3)
    BY <1>1, BatchRequestsAgrees, BodyTakes3, Zenon
  <1>3. \A i \in 1 .. 3 : s(i) \in Nat
    BY <1>1, BatchRequestsAgrees, TakesNat
  <1>4. \A i : s(i) = StepSize(BatchRequestsReads[i], e(i), x)
    BY DEF Takes
  <1> HIDE DEF s
  <1>s1. s(1) = 8
    BY <1>1, <1>4, U64Size
  <1>s2. s(2) = Total([k \in DOMAIN x.batch |->
                          8 + 8 + Len(x.batch[k].hash)
                          + YCSBClientQuerySize(x.batch[k].requestMsg)])
    <2> DEFINE steps == BatchElementWrites
               readsteps == BatchElementReads
    <2>0. steps # <<>>
      BY DEF BatchElementWrites
    <2>1. /\ BatchRequestsReads[2].field = "batch" /\ BatchRequestsReads[2].steps = readsteps
          /\ BatchRequestsWrites[2].steps = steps /\ 2 \in 1 .. Len(BatchRequestsReads)
      BY <1>1, EachParts
    <2>2. /\ Lens(e(2)) = [k \in DOMAIN x["batch"] |->
                             Len(BodyBytes(BatchRequestsWrites[2].steps, placed, x["batch"][k]))]
          /\ \A k \in DOMAIN x["batch"] :
                Prepared(BatchRequestsWrites[2].steps, BatchRequestsReads[2].steps,
                         x["batch"][k], placed)
      BY <2>0, <2>1, BatchRequestsAgrees, ElementsTake
    <2>3. ASSUME NEW k \in DOMAIN x.batch
          PROVE  Len(BodyBytes(BatchElementWrites, placed, x.batch[k]))
                    = BatchElementSize(x.batch[k])
      <3>1. Prepared(BatchElementWrites, BatchElementReads, x.batch[k], placed)
        BY <2>1, <2>2
      <3> QED BY <3>1, BatchElementTakes
    <2>4. Lens(e(2)) = [k \in DOMAIN x.batch |-> BatchElementSize(x.batch[k])]
      BY <2>1, <2>2, <2>3
    <2>5. s(2) = Total(Lens(e(2)))
      BY <1>1, <1>4, EachSize
    <2> QED BY <2>4, <2>5 DEF BatchElementSize
  <1>s3. s(3) = 4
    BY <1>1, <1>4, U32Size
  <1> DEFINE a == Total([k \in DOMAIN x.batch |->
                           8 + 8 + Len(x.batch[k].hash)
                           + YCSBClientQuerySize(x.batch[k].requestMsg)])
             h == HeaderSize(x)
             l == Len(BodyBytes(BatchRequestsWrites, placed, x))
  <1>5. s(1) = 8 /\ s(2) = a /\ s(3) = 4
    BY <1>s1, <1>s2, <1>s3
  <1>6. BatchRequestsSize(x) = h + 8 + a + 4
    BY DEF BatchRequestsSize
  <1>7. a \in Int /\ h \in Int /\ l = s(1) + s(2) + s(3)
    <2>1. s(2) \in Nat
      BY <1>3
    <2>2. a \in Int
      BY <2>1, <1>5
    <2> QED BY <1>2, <2>2
  <1>8. l = 8 + a + 4
    BY <1>5, <1>7
  <1> HIDE DEF a, h, l
  <1>9. BatchRequestsSize(x) = h + l
    BY <1>6, <1>7, <1>8
  <1> QED BY <1>9 DEF h, l

\* A class without fields of its own writes nothing.
LEMMA NothingIsWritten ==
  ASSUME NEW placed, NEW x PROVE BodyBytes(<<>>, placed, x) = <<>>
  <1> DEFINE parts == [i \in DOMAIN <<>> |->
                         PutSimple(<<>>[i], x) \o
                         FlattenSeq([j \in DOMAIN <<>> |-> Elements(<<>>[j], placed, x)][i])]
  <1>1. DOMAIN <<>> = {}
    OBVIOUS
  <1>2. parts = <<>>
    BY <1>1
  <1>3. FlattenSeq(<<>>) = <<>>
    <2>1. Len(<<>>) = 0
      OBVIOUS
    <2> QED BY <2>1, JoinedChosen
  <1>4. BodyBytes(<<>>, placed, x) = FlattenSeq(parts)
    BY DEF BodyBytes, Put
  <1> QED BY <1>2, <1>3, <1>4

\* A class whose steps agree and whose get_size() counts what they take.
Counted(writes, reads, m, placed) ==
    /\ Agree(writes, reads)
    /\ SizeOf(m) = HeaderSize(m) + Len(BodyBytes(writes, placed, m))

\* They do in every class there is.
LEMMA AllCounted ==
  ASSUME NEW m, NEW placed, HeaderSize(m) \in Nat,
         Prepared(Layout(m.rtype).writes, Layout(m.rtype).reads, m, placed)
  PROVE  Counted(Layout(m.rtype).writes, Layout(m.rtype).reads, m, placed)
  <1> DEFINE w == Layout(m.rtype).writes
             r == Layout(m.rtype).reads
  <1>1. CASE m.rtype = "KEYEX"
    <2>1. w = KeyExchangeWrites /\ r = KeyExchangeReads
      BY <1>1 DEF Layout
    <2>2. SizeOf(m) = KeyExchangeSize(m)
      BY <1>1 DEF SizeOf
    <2>3. Prepared(KeyExchangeWrites, KeyExchangeReads, m, placed)
      BY <2>1
    <2> HIDE DEF w, r
    <2>4. KeyExchangeSize(m) = HeaderSize(m) + Len(BodyBytes(KeyExchangeWrites, placed, m))
      BY <2>3, KeyExchangeTakes
    <2>5. Counted(KeyExchangeWrites, KeyExchangeReads, m, placed)
      BY <2>2, <2>4, KeyExchangeAgrees DEF Counted
    <2> QED BY <2>1, <2>5 DEF w, r
  <1>2. CASE m.rtype \in {"RQRY", "RQRY_CONT"}
    <2>1. w = QueryWrites /\ r = QueryReads
      BY <1>2 DEF Layout
    <2>2. SizeOf(m) = QuerySize(m)
      BY <1>2 DEF SizeOf
    <2>3. Prepared(QueryWrites, QueryReads, m, placed)
      BY <2>1
    <2> HIDE DEF w, r
    <2>4. QuerySize(m) = HeaderSize(m) + Len(BodyBytes(QueryWrites, placed, m))
      BY <2>3, QueryTakes
    <2>5. Counted(QueryWrites, QueryReads, m, placed)
      BY <2>2, <2>4, QueryAgrees DEF Counted
    <2> QED BY <2>1, <2>5 DEF w, r
  <1>3. CASE m.rtype = "RFIN"
    <2>1. w = FinishWrites /\ r = FinishReads
      BY <1>3 DEF Layout
    <2>2. SizeOf(m) = FinishSize(m)
      BY <1>3 DEF SizeOf
    <2>3. Prepared(FinishWrites, FinishReads, m, placed)
      BY <2>1
    <2> HIDE DEF w, r
    <2>4. FinishSize(m) = HeaderSize(m) + Len(BodyBytes(FinishWrites, placed, m))
      BY <2>3, FinishTakes
    <2>5. Counted(FinishWrites, FinishReads, m, placed)
      BY <2>2, <2>4, FinishAgrees DEF Counted
    <2> QED BY <2>1, <2>5 DEF w, r
  <1>4. CASE m.rtype = "RQRY_RSP"
    <2>1. w = QueryResponseWrites /\ r = QueryResponseReads
      BY <1>4 DEF Layout
    <2>2. SizeOf(m) = QueryResponseSize(m)
      BY <1>4 DEF SizeOf
    <2>3. Prepared(QueryResponseWrites, QueryResponseReads, m, placed)
      BY <2>1
    <2> HIDE DEF w, r
    <2>4. QueryResponseSize(m) = HeaderSize(m) + Len(BodyBytes(QueryResponseWrites, placed, m))
      BY <2>3, QueryResponseTakes
    <2>5. Counted(QueryResponseWrites, QueryResponseReads, m, placed)
      BY <2>2, <2>4, QueryResponseAgrees DEF Counted
    <2> QED BY <2>1, <2>5 DEF w, r
  <1>5. CASE m.rtype \in {"RACK_PREP", "RACK_FIN"}
    <2>1. w = AckWrites /\ r = AckReads
      BY <1>5 DEF Layout
    <2>2. SizeOf(m) = AckSize(m)
      BY <1>5 DEF SizeOf
    <2>3. Prepared(AckWrites, AckReads, m, placed)
      BY <2>1
    <2> HIDE DEF w, r
    <2>4. AckSize(m) = HeaderSize(m) + Len(BodyBytes(AckWrites, placed, m))
      BY <2>3, AckTakes
    <2>5. Counted(AckWrites, AckReads, m, placed)
      BY <2>2, <2>4, AckAgrees DEF Counted
    <2> QED BY <2>1, <2>5 DEF w, r
  <1>6. CASE m.rtype \in {"CL_QRY", "RTXN", "RTXN_CONT"}
    <2>1. w = YCSBClientQueryWrites /\ r = YCSBClientQueryReads
      BY <1>6 DEF Layout
    <2>2. SizeOf(m) = YCSBClientQuerySize(m)
      BY <1>6 DEF SizeOf
    <2>3. Prepared(YCSBClientQueryWrites, YCSBClientQueryReads, m, placed)
      BY <2>1
    <2> HIDE DEF w, r
    <2>4. YCSBClientQuerySize(m) = HeaderSize(m) + Len(BodyBytes(YCSBClientQueryWrites, placed, m))
      BY <2>3, YCSBClientQueryTakes
    <2>5. Counted(YCSBClientQueryWrites, YCSBClientQueryReads, m, placed)
      BY <2>2, <2>4, YCSBClientQueryAgrees DEF Counted
    <2> QED BY <2>1, <2>5 DEF w, r
  <1>7. CASE m.rtype = "CL_BATCH"
    <2>1. w = ClientQueryBatchWrites /\ r = ClientQueryBatchReads
      BY <1>7 DEF Layout
    <2>2. SizeOf(m) = ClientQueryBatchSize(m)
      BY <1>7 DEF SizeOf
    <2>3. Prepared(ClientQueryBatchWrites, ClientQueryBatchReads, m, placed)
      BY <2>1
    <2> HIDE DEF w, r
    <2>4. ClientQueryBatchSize(m) = HeaderSize(m) + Len(BodyBytes(ClientQueryBatchWrites, placed, m))
      BY <2>3, ClientQueryBatchTakes
    <2>5. Counted(ClientQueryBatchWrites, ClientQueryBatchReads, m, placed)
      BY <2>2, <2>4, ClientQueryBatchAgrees DEF Counted
    <2> QED BY <2>1, <2>5 DEF w, r
  <1>8. CASE m.rtype = "RFWD"
    <2>1. w = ForwardWrites /\ r = ForwardReads
      BY <1>8 DEF Layout
    <2>2. SizeOf(m) = ForwardSize(m)
      BY <1>8 DEF SizeOf
    <2>3. Prepared(ForwardWrites, ForwardReads, m, placed)
      BY <2>1
    <2> HIDE DEF w, r
    <2>4. ForwardSize(m) = HeaderSize(m) + Len(BodyBytes(ForwardWrites, placed, m))
      BY <2>3, ForwardTakes
    <2>5. Counted(ForwardWrites, ForwardReads, m, placed)
      BY <2>2, <2>4, ForwardAgrees DEF Counted
    <2> QED BY <2>1, <2>5 DEF w, r
  <1>9. CASE m.rtype = "CL_RSP"
    <2>1. w = ClientResponseWrites /\ r = ClientResponseReads
      BY <1>9 DEF Layout
    <2>2. SizeOf(m) = ClientResponseSize(m)
      BY <1>9 DEF SizeOf
    <2>3. Prepared(ClientResponseWrites, ClientResponseReads, m, placed)
      BY <2>1
    <2> HIDE DEF w, r
    <2>4. ClientResponseSize(m) = HeaderSize(m) + Len(BodyBytes(ClientResponseWrites, placed, m))
      BY <2>3, ClientResponseTakes
    <2>5. Counted(ClientResponseWrites, ClientResponseReads, m, placed)
      BY <2>2, <2>4, ClientResponseAgrees DEF Counted
    <2> QED BY <2>1, <2>5 DEF w, r
  <1>10. CASE m.rtype = "CL_CC"
    <2>1. w = ClientCommitCertificateWrites /\ r = ClientCommitCertificateReads
      BY <1>10 DEF Layout
    <2>2. SizeOf(m) = ClientCertificateSize(m)
      BY <1>10 DEF SizeOf
    <2>3. Prepared(ClientCommitCertificateWrites, ClientCommitCertificateReads, m, placed)
      BY <2>1
    <2> HIDE DEF w, r
    <2>4. ClientCertificateSize(m) = HeaderSize(m) + Len(BodyBytes(ClientCommitCertificateWrites, placed, m))
      BY <2>3, ClientCommitCertificateTakes
    <2>5. Counted(ClientCommitCertificateWrites, ClientCommitCertificateReads, m, placed)
      BY <2>2, <2>4, ClientCommitCertificateAgrees DEF Counted
    <2> QED BY <2>1, <2>5 DEF w, r
  <1>11. CASE m.rtype = "CL_CAck"
    <2>1. w = ClientCertificateAckWrites /\ r = ClientCertificateAckReads
      BY <1>11 DEF Layout
    <2>2. SizeOf(m) = ClientCertificateSize(m)
      BY <1>11 DEF SizeOf
    <2>3. Prepared(ClientCertificateAckWrites, ClientCertificateAckReads, m, placed)
      BY <2>1
    <2> HIDE DEF w, r
    <2>4. ClientCertificateSize(m) = HeaderSize(m) + Len(BodyBytes(ClientCertificateAckWrites, placed, m))
      BY <2>3, ClientCertificateAckTakes
    <2>5. Counted(ClientCertificateAckWrites, ClientCertificateAckReads, m, placed)
      BY <2>2, <2>4, ClientCertificateAckAgrees DEF Counted
    <2> QED BY <2>1, <2>5 DEF w, r
  <1>12. CASE m.rtype = "EXECUTE_MSG"
    <2>1. w = ExecuteWrites /\ r = ExecuteReads
      BY <1>12 DEF Layout
    <2>2. SizeOf(m) = ExecuteSize(m)
      BY <1>12 DEF SizeOf
    <2>3. Prepared(ExecuteWrites, ExecuteReads, m, placed)
      BY <2>1
    <2> HIDE DEF w, r
    <2>4. ExecuteSize(m) = HeaderSize(m) + Len(BodyBytes(ExecuteWrites, placed, m))
      BY <2>3, ExecuteTakes
    <2>5. Counted(ExecuteWrites, ExecuteReads, m, placed)
      BY <2>2, <2>4, ExecuteAgrees DEF Counted
    <2> QED BY <2>1, <2>5 DEF w, r
  <1>13. CASE m.rtype = "PBFT_PRE_MSG"
    <2>1. w = PBFTPreWrites /\ r = PBFTPreReads
      BY <1>13 DEF Layout
    <2>2. SizeOf(m) = PBFTPreSize(m)
      BY <1>13 DEF SizeOf
    <2>3. Prepared(PBFTPreWrites, PBFTPreReads, m, placed)
      BY <2>1
    <2> HIDE DEF w, r
    <2>4. PBFTPreSize(m) = HeaderSize(m) + Len(BodyBytes(PBFTPreWrites, placed, m))
      BY <2>3, PBFTPreTakes
    <2>5. Counted(PBFTPreWrites, PBFTPreReads, m, placed)
      BY <2>2, <2>4, PBFTPreAgrees DEF Counted
    <2> QED BY <2>1, <2>5 DEF w, r
  <1>14. CASE m.rtype = "BATCH_REQ"
    <2>1. w = BatchRequestsWrites /\ r = BatchRequestsReads
      BY <1>14 DEF Layout
    <2>2. SizeOf(m) = BatchRequestsSize(m)
      BY <1>14 DEF SizeOf
    <2>3. Prepared(BatchRequestsWrites, BatchRequestsReads, m, placed)
      BY <2>1
    <2> HIDE DEF w, r
    <2>4. BatchRequestsSize(m) = HeaderSize(m) + Len(BodyBytes(BatchRequestsWrites, placed, m))
      BY <2>3, BatchRequestsTakes
    <2>5. Counted(BatchRequestsWrites, BatchRequestsReads, m, placed)
      BY <2>2, <2>4, BatchRequestsAgrees DEF Counted
    <2> QED BY <2>1, <2>5 DEF w, r
  <1>15. CASE m.rtype = "PBFT_VIEW_CHANGE"
    <2>1. w = PBFTViewChangeWrites /\ r = PBFTViewChangeReads
      BY <1>15 DEF Layout
    <2>2. SizeOf(m) = PBFTViewChangeSize(m)
      BY <1>15 DEF SizeOf
    <2>3. Prepared(PBFTViewChangeWrites, PBFTViewChangeReads, m, placed)
      BY <2>1
    <2> HIDE DEF w, r
    <2>4. PBFTViewChangeSize(m) = HeaderSize(m) + Len(BodyBytes(PBFTViewChangeWrites, placed, m))
      BY <2>3, PBFTViewChangeTakes
    <2>5. Counted(PBFTViewChangeWrites, PBFTViewChangeReads, m, placed)
      BY <2>2, <2>4, PBFTViewChangeAgrees DEF Counted
    <2> QED BY <2>1, <2>5 DEF w, r
  <1>16. CASE m.rtype = "PBFT_NEW_VIEW"
    <2>1. w = PBFTNewViewWrites /\ r = PBFTNewViewReads
      BY <1>16 DEF Layout
    <2>2. SizeOf(m) = PBFTNewViewSize(m)
      BY <1>16 DEF SizeOf
    <2>3. Prepared(PBFTNewViewWrites, PBFTNewViewReads, m, placed)
      BY <2>1
    <2> HIDE DEF w, r
    <2>4. PBFTNewViewSize(m) = HeaderSize(m) + Len(BodyBytes(PBFTNewViewWrites, placed, m))
      BY <2>3, PBFTNewViewTakes
    <2>5. Counted(PBFTNewViewWrites, PBFTNewViewReads, m, placed)
      BY <2>2, <2>4, PBFTNewViewAgrees DEF Counted
    <2> QED BY <2>1, <2>5 DEF w, r
  <1>17. CASE m.rtype = "PBFT_PREP_MSG"
    <2>1. w = PBFTPrepWrites /\ r = PBFTPrepReads
      BY <1>17 DEF Layout
    <2>2. SizeOf(m) = PBFTPrepSize(m)
      BY <1>17 DEF SizeOf
    <2>3. Prepared(PBFTPrepWrites, PBFTPrepReads, m, placed)
      BY <2>1
    <2> HIDE DEF w, r
    <2>4. PBFTPrepSize(m) = HeaderSize(m) + Len(BodyBytes(PBFTPrepWrites, placed, m))
      BY <2>3, PBFTPrepTakes
    <2>5. Counted(PBFTPrepWrites, PBFTPrepReads, m, placed)
      BY <2>2, <2>4, PBFTPrepAgrees DEF Counted
    <2> QED BY <2>1, <2>5 DEF w, r
  <1>18. CASE m.rtype = "PBFT_COMMIT_MSG"
    <2>1. w = PBFTCommitWrites /\ r = PBFTCommitReads
      BY <1>18 DEF Layout
    <2>2. SizeOf(m) = PBFTCommitSize(m)
      BY <1>18 DEF SizeOf
    <2>3. Prepared(PBFTCommitWrites, PBFTCommitReads, m, placed)
      BY <2>1
    <2> HIDE DEF w, r
    <2>4. PBFTCommitSize(m) = HeaderSize(m) + Len(BodyBytes(PBFTCommitWrites, placed, m))
      BY <2>3, PBFTCommitTakes
    <2>5. Counted(PBFTCommitWrites, PBFTCommitReads, m, placed)
      BY <2>2, <2>4, PBFTCommitAgrees DEF Counted
    <2> QED BY <2>1, <2>5 DEF w, r
  <1>19. CASE m.rtype = "PBFT_CHKPT_MSG"
    <2>1. w = CheckpointWrites /\ r = CheckpointReads
      BY <1>19 DEF Layout
    <2>2. SizeOf(m) = CheckpointSize(m)
      BY <1>19 DEF SizeOf
    <2>3. Prepared(CheckpointWrites, CheckpointReads, m, placed)
      BY <2>1
    <2> HIDE DEF w, r
    <2>4. CheckpointSize(m) = HeaderSize(m) + Len(BodyBytes(CheckpointWrites, placed, m))
      BY <2>3, CheckpointTakes
    <2>5. Counted(CheckpointWrites, CheckpointReads, m, placed)
      BY <2>2, <2>4, CheckpointAgrees DEF Counted
    <2> QED BY <2>1, <2>5 DEF w, r
  <1>20. CASE m.rtype = "DBFT_PREP_MSG"
    <2>1. w = DBFTPrepWrites /\ r = DBFTPrepReads
      BY <1>20 DEF Layout
    <2>2. SizeOf(m) = DBFTPrepSize(m)
      BY <1>20 DEF SizeOf
    <2>3. Prepared(DBFTPrepWrites, DBFTPrepReads, m, placed)
      BY <2>1
    <2> HIDE DEF w, r
    <2>4. DBFTPrepSize(m) = HeaderSize(m) + Len(BodyBytes(DBFTPrepWrites, placed, m))
      BY <2>3, DBFTPrepTakes
    <2>5. Counted(DBFTPrepWrites, DBFTPrepReads, m, placed)
      BY <2>2, <2>4, DBFTPrepAgrees DEF Counted
    <2> QED BY <2>1, <2>5 DEF w, r
  <1>21. CASE m.rtype \notin
                     {"KEYEX", "RQRY", "RQRY_CONT", "RFIN",
                       "RQRY_RSP", "RACK_PREP", "RACK_FIN",
                       "CL_QRY", "RTXN", "RTXN_CONT",
                       "CL_BATCH", "RFWD", "CL_RSP",
                       "CL_CC", "CL_CAck", "EXECUTE_MSG",
                       "PBFT_PRE_MSG", "BATCH_REQ",
                       "PBFT_VIEW_CHANGE", "PBFT_NEW_VIEW",
                       "PBFT_PREP_MSG", "PBFT_COMMIT_MSG",
                       "PBFT_CHKPT_MSG", "DBFT_PREP_MSG"}
    <2>1. w = <<>> /\ r = <<>>
      BY <1>21 DEF Layout
    <2>2. SizeOf(m) = HeaderSize(m)
      BY <1>21 DEF SizeOf
    <2>3. BodyBytes(<<>>, placed, m) = <<>>
      BY NothingIsWritten
    <2>4. Counted(<<>>, <<>>, m, placed)
      BY <2>2, <2>3, NothingAgrees DEF Counted
    <2> QED BY <2>1, <2>4
  <1> QED BY <1>1, <1>2, <1>3, <1>4, <1>5, <1>6, <1>7, <1>8, <1>9, <1>10,
             <1>11, <1>12, <1>13, <1>14, <1>15, <1>16, <1>17, <1>18, <1>19, <1>20, <1>21
-----------------------------------------------------------------------------
(* A message of a class *)

\* The number of a type is its own.
LEMMA CodeIs ==
  ASSUME NEW m, Fits(m)
  PROVE  /\ Code(m.rtype) \in DOMAIN RemReqType /\ Code(m.rtype) \in Nat
         /\ RemReqType[Code(m.rtype)] = m.rtype
  <1>1. m.rtype \in Range(RemReqType)
    BY DEF Fits
  <1>2. \E k \in DOMAIN RemReqType : RemReqType[k] = m.rtype
    BY <1>1 DEF Range
  <1>3. Code(m.rtype) \in DOMAIN RemReqType /\ RemReqType[Code(m.rtype)] = m.rtype
    BY <1>2 DEF Code
  <1>4. DOMAIN RemReqType = 1 .. 29
    BY DEF RemReqType
  <1> QED BY <1>3, <1>4

\* The fields of a message are those of all messages and of its class.
LEMMA FieldsOf ==
  ASSUME NEW m, Fits(m)
  PROVE  /\ m = [f \in Fields(HeaderReads) \cup Fields(Layout(m.rtype).reads) |-> m[f]]
         /\ "rtype" \in Fields(HeaderReads) /\ "signature" \in Fields(HeaderReads)
         /\ "pubKey" \in Fields(HeaderReads)
         /\ \A f \in Fields(HeaderReads) : f # "rtype" => Coded(m)[f] = m[f]
         /\ Coded(m)["rtype"] = Code(m["rtype"])
  <1> DEFINE D == Fields(HeaderReads) \cup Fields(Layout(m.rtype).reads)
  <1>1. m = [f \in D |-> m[f]]
    BY DEF Fits, IsRecord
  <1>2. "rtype" \in Fields(HeaderReads)
    <2>1. 1 \in DOMAIN HeaderReads /\ HeaderReads[1] = U32("rtype")
      BY HeaderSteps
    <2>2. HeaderReads[1].field = "rtype" /\ HeaderReads[1].op # "skip"
      <3>1. U32("rtype").field = "rtype" /\ U32("rtype").op = "value"
        BY DEF U32, Val, Step
      <3> QED BY <2>1, <3>1
    <2> QED BY <2>1, <2>2 DEF Fields
  <1>3. "signature" \in Fields(HeaderReads) /\ "pubKey" \in Fields(HeaderReads)
    <2>1. /\ 7 \in DOMAIN HeaderReads /\ HeaderReads[7] = Chars("signature", "sigSize")
          /\ 8 \in DOMAIN HeaderReads /\ HeaderReads[8] = Chars("pubKey", "keySize")
      BY HeaderSteps
    <2>2. /\ HeaderReads[7].field = "signature" /\ HeaderReads[7].op # "skip"
          /\ HeaderReads[8].field = "pubKey" /\ HeaderReads[8].op # "skip"
      BY <2>1 DEF Chars, Step
    <2> QED BY <2>1, <2>2 DEF Fields
  <1> DEFINE FH == Fields(HeaderReads)
  <1>4. FH \subseteq D /\ "rtype" \in D
    BY <1>2
  <1> HIDE DEF D, FH
  <1>5. DOMAIN m = D
    BY <1>1
  <1>6. /\ \A f \in FH : f # "rtype" => Coded(m)[f] = m[f]
        /\ Coded(m)["rtype"] = Code(m["rtype"])
    BY <1>4, <1>5 DEF Coded
  <1> QED BY <1>1, <1>2, <1>3, <1>6 DEF D, FH

\* The bytes of a message begin with its type.
LEMMA TypeIsRead ==
  ASSUME NEW m, Fits(m), NEW buf, Len(buf) \in Nat, NEW at \in Int,
         Holds(buf, at, HeaderBytes(m))
  PROVE  Value(Slice(buf, at, 4)) = Code(m.rtype)
  <1> DEFINE x == Coded(m)
             e == NoElements
             parts == Parts(HeaderWrites, e, x)
             front == PutSimple(HeaderWrites[1], x)
  <1>1. /\ Aligned(HeaderWrites, HeaderReads) /\ AllFit(HeaderReads, x)
        /\ AreElements(e, HeaderReads, x) /\ Len(HeaderReads) = 16
    BY HeaderAgrees, HeaderHasNoElements, CodedFits, HeaderSteps DEF Agree
  <1>2. HeaderBytes(m) = Put(HeaderWrites, e, x)
    BY HeaderIs
  <1>3. HeaderWrites[1] = U32("rtype")
    BY DEF HeaderWrites
  <1>4. front = Bytes(Code(m.rtype), 4)
    <2>1. x["rtype"] = Code(m.rtype)
      BY FieldsOf
    <2>2. U32("rtype").op = "value" /\ U32("rtype").field = "rtype" /\ U32("rtype").count = 4
      BY DEF U32, Val, Step
    <2> HIDE DEF x
    <2> QED BY <1>3, <2>1, <2>2 DEF PutSimple
  <1> HIDE DEF x, e
  <1>5. /\ parts \in [1 .. 16 -> Seq(Byte)]
        /\ Put(HeaderWrites, e, x) = FlattenSeq(parts)
    BY <1>1, PartsAre
  <1>6. /\ FlattenSeq(e[1]) \in Seq(Byte) /\ front \in Seq(Byte)
        /\ parts[1] = front \o FlattenSeq(e[1])
    <2>1. 1 \in 1 .. Len(HeaderReads)
      BY <1>1
    <2> HIDE DEF parts, front
    <2>2. FlattenSeq(e[1]) \in Seq(Byte)
      BY <1>1, <2>1, PartIs
    <2>3. front \in Seq(Byte)
      BY <1>1, <2>1, PartIs DEF front
    <2>4. parts[1] = front \o FlattenSeq(e[1])
      <3>1. 1 \in DOMAIN HeaderWrites
        BY HeaderSteps
      <3> QED BY <3>1 DEF parts, front, Parts
    <2> QED BY <2>2, <2>3, <2>4
  <1> HIDE DEF parts, front
  <1>7. Holds(buf, at, parts[1])
    <2>0. 16 \in Nat /\ 1 \in 1 .. 16
      OBVIOUS
    <2>1. Sums(Lens(parts))[0] = 0
      <3>1. Lens(parts) \in [1 .. 16 -> Nat]
        BY <1>5, <2>0, JoinedAre
      <3> QED BY <2>0, <3>1, SumsAre
    <2>2. Holds(buf, at, FlattenSeq(parts))
      BY <1>2, <1>5
    <2>3. Holds(buf, at + Sums(Lens(parts))[1 - 1], parts[1])
      BY <1>5, <2>0, <2>2, HoldsParts
    <2> QED BY <2>1, <2>3
  <1>8. Holds(buf, at, front)
    BY <1>6, <1>7, HoldsBoth
  <1>9. Code(m.rtype) \in Int
    BY CodeIs
  <1> QED BY <1>4, <1>8, <1>9, NumberIsRead, 4 \in Nat \ {0}

\* What lies behind the header and the body of a message.
LEMMA WriteIs ==
  ASSUME NEW m, Fits(m), NEW placed, Laid(placed, Inside(m))
  PROVE  /\ HeaderSize(m) \in Nat
         /\ Prepared(Layout(m.rtype).writes, Layout(m.rtype).reads, m, placed)
         /\ Counted(Layout(m.rtype).writes, Layout(m.rtype).reads, m, placed)
         /\ BodyBytes(Layout(m.rtype).writes, placed, m) \in Seq(Byte)
         /\ WriteBy(placed, m) = HeaderBytes(m) \o BodyBytes(Layout(m.rtype).writes, placed, m)
         /\ WriteBy(placed, m) \in Seq(Byte) /\ Len(WriteBy(placed, m)) = SizeOf(m)
  <1> DEFINE w == Layout(m.rtype).writes
             r == Layout(m.rtype).reads
             h == HeaderBytes(m)
             b == BodyBytes(w, placed, m)
  <1>1. h \in Seq(Byte) /\ Len(h) = HeaderSize(m)
    BY HeaderIs
  <1>2. HeaderSize(m) \in Nat
    BY <1>1
  <1>3. Inside(m) = Messages(w, m)
    BY DEF Inside, Messages
  <1>4. Prepared(w, r, m, placed)
    BY <1>3 DEF Prepared, Fits
  <1>5. Counted(w, r, m, placed)
    BY <1>2, <1>4, AllCounted
  <1>6. b \in Seq(Byte)
    <2> HIDE DEF w, r
    <2> QED BY <1>4, <1>5, PreparedIs, BodyIs DEF Counted
  <1>7. WriteBy(placed, m) = Slice(h, 1, Len(h)) \o b
    BY <1>1 DEF WriteBy
  <1>8. SizeOf(m) = HeaderSize(m) + Len(b)
    BY <1>5 DEF Counted
  <1> HIDE DEF h, b
  <1>9. Slice(h, 1, Len(h)) = h
    BY <1>1, HoldsItself, SliceIs
  <1>10. WriteBy(placed, m) \in Seq(Byte) /\ Len(WriteBy(placed, m)) = SizeOf(m)
    <2> HIDE DEF w, r
    <2>1. h \o b \in Seq(Byte) /\ Len(h \o b) = Len(h) + Len(b)
      BY <1>1, <1>6
    <2> QED BY <1>1, <1>7, <1>8, <1>9, <2>1
  <1> QED BY <1>2, <1>4, <1>5, <1>6, <1>7, <1>9, <1>10 DEF h, b

\* With the type it is read as, all that has been read of a message is the message.
LEMMA AllIsRead ==
  ASSUME NEW m, Fits(m)
  PROVE  /\ With(Over(Over(<<>>, Fields(HeaderReads), Coded(m)), Fields(Layout(m.rtype).reads), m),
                 "rtype", m.rtype) = m
         /\ HeaderSize(Over(<<>>, Fields(HeaderReads), Coded(m))) = HeaderSize(m)
         /\ IsRecord(Over(<<>>, Fields(HeaderReads), Coded(m)),
                     DOMAIN Over(<<>>, Fields(HeaderReads), Coded(m)))
  <1> DEFINE FH == Fields(HeaderReads)
             FB == Fields(Layout(m.rtype).reads)
             x == Coded(m)
             head == Over(<<>>, FH, x)
             body == Over(head, FB, m)
             all == With(body, "rtype", m.rtype)
  <1>1. /\ m = [f \in FH \cup FB |-> m[f]]
        /\ "rtype" \in FH /\ "signature" \in FH /\ "pubKey" \in FH
        /\ \A f \in FH : f # "rtype" => x[f] = m[f]
    BY FieldsOf
  <1> HIDE DEF FH, FB, x
  <1>2. head = [f \in FH |-> x[f]]
    <2>1. DOMAIN <<>> = {}
      OBVIOUS
    <2> QED BY <2>1 DEF Over
  <1> HIDE DEF head
  <1>3. body = [f \in FH \cup FB |-> IF f \in FB THEN m[f] ELSE x[f]]
    BY <1>2 DEF Over
  <1> HIDE DEF body
  <1>4. all = [f \in FH \cup FB |-> IF f = "rtype" THEN m.rtype ELSE body[f]]
    <2>1. (FH \cup FB) \cup {"rtype"} = FH \cup FB
      BY <1>1
    <2>2. DOMAIN body = FH \cup FB
      BY <1>3
    <2> QED BY <2>1, <2>2 DEF With
  <1> HIDE DEF all
  <1>5. ASSUME NEW f \in FH \cup FB PROVE all[f] = m[f]
    <2>1. CASE f = "rtype"
      BY <1>4, <2>1
    <2>2. CASE f # "rtype"
      BY <1>1, <1>3, <1>4, <2>2
    <2> QED BY <2>1, <2>2
  <1>6. all = [f \in FH \cup FB |-> all[f]]
    BY <1>4
  <1>7. all = m
    BY <1>1, <1>5, <1>6
  <1>8. HeaderSize(head) = HeaderSize(m)
    <2>1. head["signature"] = m["signature"] /\ head["pubKey"] = m["pubKey"]
      BY <1>1, <1>2
    <2> QED BY <2>1 DEF HeaderSize
  <1>9. IsRecord(head, DOMAIN head)
    BY <1>2 DEF IsRecord
  <1> QED BY <1>7, <1>8, <1>9 DEF all, body, head, x, FH, FB

\* create_message() makes of the bytes of a message that message, and has
\* then read as many as get_size() says.
LEMMA ReadIs ==
  ASSUME NEW m, Fits(m), NEW placed, Laid(placed, Inside(m)),
         NEW messages, NEW buf, Len(buf) \in Nat,
         Readable(messages, buf, placed, Inside(m)),
         NEW at \in Int, Holds(buf, at, WriteBy(placed, m))
  PROVE  ReadBy(messages, buf, at) = Got(at + SizeOf(m), m)
  <1> DEFINE w == Layout(m.rtype).writes
             r == Layout(m.rtype).reads
             x == Coded(m)
             head == Over(<<>>, Fields(HeaderReads), x)
             body == Over(head, Fields(r), m)
             hs == HeaderSize(m)
             b == BodyBytes(w, placed, m)
  <1>1. /\ hs \in Nat /\ Prepared(w, r, m, placed) /\ Agree(w, r)
        /\ SizeOf(m) = hs + Len(b) /\ b \in Seq(Byte)
        /\ WriteBy(placed, m) = HeaderBytes(m) \o b
    BY WriteIs DEF Counted
  <1>2. HeaderBytes(m) \in Seq(Byte) /\ Len(HeaderBytes(m)) = hs
    BY HeaderIs
  <1>3. Inside(m) = Messages(w, m)
    BY DEF Inside, Messages
  <1>4. /\ With(body, "rtype", m.rtype) = m /\ HeaderSize(head) = hs
        /\ IsRecord(head, DOMAIN head)
    BY AllIsRead
  <1> HIDE DEF hs, b, w, r, x
  <1>5. Holds(buf, at, HeaderBytes(m)) /\ Holds(buf, at + hs, b)
    BY <1>1, <1>2, HoldsBoth
  <1>6. GetHeader(buf, at) = Got(at + hs, head)
    BY <1>5, HeaderIsRead DEF hs, x
  <1> HIDE DEF head
  <1>7. GetBody(r, messages, buf, Got(at + hs, head)) = Got(at + hs + Len(b), body)
    <2>1. /\ AllFit(r, m) /\ ElementsFit(r, m) /\ Laid(placed, Messages(w, m))
      BY <1>1, PreparedIs
    <2>2. Readable(messages, buf, placed, Messages(w, m))
      BY <1>3
    <2>3. at + hs \in Int
      BY <1>1
    <2>4. Holds(buf, at + hs, BodyBytes(w, placed, m))
      BY <1>5 DEF b
    <2> QED BY <1>1, <1>4, <2>1, <2>2, <2>3, <2>4, BodyIsRead DEF b
  <1>8. at + hs + Len(b) = at + SizeOf(m) /\ (at + SizeOf(m)) - at = SizeOf(m)
    BY <1>1
  <1> HIDE DEF body
  <1>9. Checked(Got(at + SizeOf(m), body), at, m.rtype) = Got(at + SizeOf(m), m)
    <2> DEFINE c == Got(at + SizeOf(m), body)
    <2>1. c.msg = body /\ c.failed = FALSE /\ c.at = at + SizeOf(m)
      BY DEF Got
    <2> HIDE DEF c
    <2>2. (Asserts(m.rtype) /\ c.at - at # SizeOf(m)) = FALSE
      BY <1>8, <2>1
    <2>3. With(c.msg, "rtype", m.rtype) = m
      BY <1>4, <2>1
    <2>4. Checked(c, at, m.rtype)
             = [at |-> c.at, msg |-> m, failed |-> Asserts(m.rtype) /\ c.at - at # SizeOf(m)]
      BY <2>1, <2>3 DEF Checked
    <2>5. Checked(c, at, m.rtype) = [at |-> c.at, msg |-> m, failed |-> FALSE]
      BY <2>2, <2>4, Zenon
    <2>6. Checked(c, at, m.rtype) = Got(at + SizeOf(m), m)
      BY <2>1, <2>5 DEF Got
    <2> QED BY <2>6 DEF c
  <1>10. ReadAs(m.rtype, messages, buf, at) = Got(at + SizeOf(m), m)
    <2> DEFINE g == GetHeader(buf, at)
               start == [g EXCEPT !.at = at + HeaderSize(g.msg)]
    <2>1. ReadAs(m.rtype, messages, buf, at)
             = Checked(GetBody(r, messages, buf, start), at, m.rtype)
      BY DEF ReadAs, r
    <2>2. start = Got(at + hs, head)
      <3>1. g = Got(at + hs, head) /\ g.msg = head
        BY <1>6 DEF Got
      <3> DEFINE p == at + hs
      <3>2. start = [Got(p, head) EXCEPT !.at = p]
        BY <1>4, <3>1
      <3> HIDE DEF p, g
      <3>3. [Got(p, head) EXCEPT !.at = p] = Got(p, head)
        <4>1. ASSUME NEW S, NEW T, NEW f \in [S -> T], NEW a \in S, f[a] = p
              PROVE  [f EXCEPT ![a] = p] = f
          BY <4>1
        <4>2. Got(p, head) = [a \in {"at", "msg", "failed"} |-> Got(p, head)[a]]
          BY DEF Got
        <4>3. Got(p, head)["at"] = p
          BY DEF Got
        <4> QED BY <4>2, <4>3
      <3> QED BY <3>2, <3>3 DEF p
    <2> HIDE DEF start
    <2>3. GetBody(r, messages, buf, start) = Got(at + SizeOf(m), body)
      BY <1>7, <1>8, <2>2
    <2> QED BY <1>9, <2>1, <2>3
  <1>11. Value(Slice(buf, at, 4)) = Code(m.rtype)
    BY <1>5, TypeIsRead
  <1>12. Code(m.rtype) \in DOMAIN RemReqType /\ RemReqType[Code(m.rtype)] = m.rtype
    BY CodeIs
  <1>13. ReadBy(messages, buf, at) = ReadAs(m.rtype, messages, buf, at)
    BY <1>11, <1>12 DEF ReadBy
  <1> QED BY <1>10, <1>13
-----------------------------------------------------------------------------
(* Messages in messages, for each depth *)

\* The place of a message is all of what it has written.
LEMMA PlacedIs ==
  ASSUME NEW bytes \in Seq(Byte), NEW m, Len(bytes) = SizeOf(m)
  PROVE  Placed(bytes, m) = bytes
  BY HoldsItself, SliceIs DEF Placed

\* A message without others in it,
LEMMA Writes0 ==
  ASSUME NEW m, WellFormed0(m)
  PROVE  Written0(m) \in Seq(Byte) /\ Len(Written0(m)) = SizeOf(m)
  <1>1. Fits(m) /\ Inside(m) = {}
    BY DEF WellFormed0
  <1>2. Laid(<<>>, Inside(m))
    BY <1>1 DEF Laid
  <1> QED BY <1>1, <1>2, WriteIs DEF Written0

LEMMA Reads0 ==
  ASSUME NEW m, WellFormed0(m), NEW buf, Len(buf) \in Nat, NEW at \in Int,
         Holds(buf, at, Written0(m))
  PROVE  Read0(buf, at) = Got(at + SizeOf(m), m)
  <1> DEFINE messages == [p \in Int |-> Unreadable(p)]
  <1>1. Fits(m) /\ Inside(m) = {}
    BY DEF WellFormed0
  <1>2. Laid(<<>>, Inside(m)) /\ Readable(messages, buf, <<>>, Inside(m))
    BY <1>1 DEF Laid, Readable
  <1>3. Holds(buf, at, WriteBy(<<>>, m)) /\ Read0(buf, at) = ReadBy(messages, buf, at)
    BY DEF Written0, Read0
  <1> HIDE DEF messages
  <1> QED BY <1>1, <1>2, <1>3, ReadIs

\* and one whose own hold none, and so on.
LEMMA Laid1 ==
  ASSUME NEW m, WellFormed1(m)
  PROVE  LET placed == [e \in Inside(m) |-> Placed(Written0(e), e)]
         IN  Laid(placed, Inside(m)) /\ \A e \in Inside(m) : placed[e] = Written0(e)
  <1> DEFINE placed == [e \in Inside(m) |-> Placed(Written0(e), e)]
  <1>1. ASSUME NEW e \in Inside(m)
        PROVE  placed[e] = Written0(e) /\ Written0(e) \in Seq(Byte) /\ Len(Written0(e)) = SizeOf(e)
    <2>1. WellFormed0(e)
      BY DEF WellFormed1
    <2>2. Written0(e) \in Seq(Byte) /\ Len(Written0(e)) = SizeOf(e)
      BY <2>1, Writes0
    <2>3. Placed(Written0(e), e) = Written0(e)
      BY <2>2, PlacedIs
    <2> QED BY <2>2, <2>3
  <1> HIDE DEF placed
  <1>2. Laid(placed, Inside(m))
    BY <1>1 DEF Laid
  <1> QED BY <1>1, <1>2 DEF placed

LEMMA Writes1 ==
  ASSUME NEW m, WellFormed1(m)
  PROVE  Written1(m) \in Seq(Byte) /\ Len(Written1(m)) = SizeOf(m)
  <1> DEFINE placed == [e \in Inside(m) |-> Placed(Written0(e), e)]
  <1>1. Laid(placed, Inside(m))
    BY Laid1
  <1>2. Fits(m)
    BY DEF WellFormed1
  <1>3. Written1(m) = WriteBy(placed, m)
    BY DEF Written1
  <1> HIDE DEF placed
  <1> QED BY <1>1, <1>2, <1>3, WriteIs

LEMMA Reads1 ==
  ASSUME NEW m, WellFormed1(m), NEW buf, Len(buf) \in Nat, NEW at \in Int,
         Holds(buf, at, Written1(m))
  PROVE  Read1(buf, at) = Got(at + SizeOf(m), m)
  <1> DEFINE placed == [e \in Inside(m) |-> Placed(Written0(e), e)]
             messages == [p \in Int |-> Read0(buf, p)]
  <1>1. Laid(placed, Inside(m)) /\ \A e \in Inside(m) : placed[e] = Written0(e)
    BY Laid1
  <1>2. Fits(m)
    BY DEF WellFormed1
  <1>3. Holds(buf, at, WriteBy(placed, m)) /\ Read1(buf, at) = ReadBy(messages, buf, at)
    BY DEF Written1, Read1
  <1>4. \A p \in Int : messages[p] = Read0(buf, p)
    OBVIOUS
  <1> HIDE DEF placed, messages
  <1>5. ASSUME NEW e \in Inside(m), NEW p \in Int, Holds(buf, p, placed[e])
        PROVE  messages[p] = Got(p + SizeOf(e), e)
    <2>1. WellFormed0(e)
      BY DEF WellFormed1
    <2>2. Holds(buf, p, Written0(e))
      BY <1>1, <1>5
    <2>3. Read0(buf, p) = Got(p + SizeOf(e), e)
      BY <2>1, <2>2, Reads0
    <2> QED BY <1>4, <2>3
  <1>6. Readable(messages, buf, placed, Inside(m))
    BY <1>5 DEF Readable
  <1> QED BY <1>1, <1>2, <1>3, <1>6, ReadIs

LEMMA Laid2 ==
  ASSUME NEW m, WellFormed2(m)
  PROVE  LET placed == [e \in Inside(m) |-> Placed(Written1(e), e)]
         IN  Laid(placed, Inside(m)) /\ \A e \in Inside(m) : placed[e] = Written1(e)
  <1> DEFINE placed == [e \in Inside(m) |-> Placed(Written1(e), e)]
  <1>1. ASSUME NEW e \in Inside(m)
        PROVE  placed[e] = Written1(e) /\ Written1(e) \in Seq(Byte) /\ Len(Written1(e)) = SizeOf(e)
    <2>1. WellFormed1(e)
      BY DEF WellFormed2
    <2>2. Written1(e) \in Seq(Byte) /\ Len(Written1(e)) = SizeOf(e)
      BY <2>1, Writes1
    <2>3. Placed(Written1(e), e) = Written1(e)
      BY <2>2, PlacedIs
    <2> QED BY <2>2, <2>3
  <1> HIDE DEF placed
  <1>2. Laid(placed, Inside(m))
    BY <1>1 DEF Laid
  <1> QED BY <1>1, <1>2 DEF placed

LEMMA Writes2 ==
  ASSUME NEW m, WellFormed2(m)
  PROVE  Written2(m) \in Seq(Byte) /\ Len(Written2(m)) = SizeOf(m)
  <1> DEFINE placed == [e \in Inside(m) |-> Placed(Written1(e), e)]
  <1>1. Laid(placed, Inside(m))
    BY Laid2
  <1>2. Fits(m)
    BY DEF WellFormed2
  <1>3. Written2(m) = WriteBy(placed, m)
    BY DEF Written2
  <1> HIDE DEF placed
  <1> QED BY <1>1, <1>2, <1>3, WriteIs

LEMMA Reads2 ==
  ASSUME NEW m, WellFormed2(m), NEW buf, Len(buf) \in Nat, NEW at \in Int,
         Holds(buf, at, Written2(m))
  PROVE  Read2(buf, at) = Got(at + SizeOf(m), m)
  <1> DEFINE placed == [e \in Inside(m) |-> Placed(Written1(e), e)]
             messages == [p \in Int |-> Read1(buf, p)]
  <1>1. Laid(placed, Inside(m)) /\ \A e \in Inside(m) : placed[e] = Written1(e)
    BY Laid2
  <1>2. Fits(m)
    BY DEF WellFormed2
  <1>3. Holds(buf, at, WriteBy(placed, m)) /\ Read2(buf, at) = ReadBy(messages, buf, at)
    BY DEF Written2, Read2
  <1>4. \A p \in Int : messages[p] = Read1(buf, p)
    OBVIOUS
  <1> HIDE DEF placed, messages
  <1>5. ASSUME NEW e \in Inside(m), NEW p \in Int, Holds(buf, p, placed[e])
        PROVE  messages[p] = Got(p + SizeOf(e), e)
    <2>1. WellFormed1(e)
      BY DEF WellFormed2
    <2>2. Holds(buf, p, Written1(e))
      BY <1>1, <1>5
    <2>3. Read1(buf, p) = Got(p + SizeOf(e), e)
      BY <2>1, <2>2, Reads1
    <2> QED BY <1>4, <2>3
  <1>6. Readable(messages, buf, placed, Inside(m))
    BY <1>5 DEF Readable
  <1> QED BY <1>1, <1>2, <1>3, <1>6, ReadIs

LEMMA Laid3 ==
  ASSUME NEW m, WellFormed(m)
  PROVE  LET placed == [e \in Inside(m) |-> Placed(Written2(e), e)]
         IN  Laid(placed, Inside(m)) /\ \A e \in Inside(m) : placed[e] = Written2(e)
  <1> DEFINE placed == [e \in Inside(m) |-> Placed(Written2(e), e)]
  <1>1. ASSUME NEW e \in Inside(m)
        PROVE  placed[e] = Written2(e) /\ Written2(e) \in Seq(Byte) /\ Len(Written2(e)) = SizeOf(e)
    <2>1. WellFormed2(e)
      BY DEF WellFormed
    <2>2. Written2(e) \in Seq(Byte) /\ Len(Written2(e)) = SizeOf(e)
      BY <2>1, Writes2
    <2>3. Placed(Written2(e), e) = Written2(e)
      BY <2>2, PlacedIs
    <2> QED BY <2>2, <2>3
  <1> HIDE DEF placed
  <1>2. Laid(placed, Inside(m))
    BY <1>1 DEF Laid
  <1> QED BY <1>1, <1>2 DEF placed

LEMMA Writes3 ==
  ASSUME NEW m, WellFormed(m)
  PROVE  Written(m) \in Seq(Byte) /\ Len(Written(m)) = SizeOf(m)
  <1> DEFINE placed == [e \in Inside(m) |-> Placed(Written2(e), e)]
  <1>1. Laid(placed, Inside(m))
    BY Laid3
  <1>2. Fits(m)
    BY DEF WellFormed
  <1>3. Written(m) = WriteBy(placed, m)
    BY DEF Written
  <1> HIDE DEF placed
  <1> QED BY <1>1, <1>2, <1>3, WriteIs

LEMMA Reads3 ==
  ASSUME NEW m, WellFormed(m), NEW buf, Len(buf) \in Nat, NEW at \in Int,
         Holds(buf, at, Written(m))
  PROVE  Read(buf, at) = Got(at + SizeOf(m), m)
  <1> DEFINE placed == [e \in Inside(m) |-> Placed(Written2(e), e)]
             messages == [p \in Int |-> Read2(buf, p)]
  <1>1. Laid(placed, Inside(m)) /\ \A e \in Inside(m) : placed[e] = Written2(e)
    BY Laid3
  <1>2. Fits(m)
    BY DEF WellFormed
  <1>3. Holds(buf, at, WriteBy(placed, m)) /\ Read(buf, at) = ReadBy(messages, buf, at)
    BY DEF Written, Read
  <1>4. \A p \in Int : messages[p] = Read2(buf, p)
    OBVIOUS
  <1> HIDE DEF placed, messages
  <1>5. ASSUME NEW e \in Inside(m), NEW p \in Int, Holds(buf, p, placed[e])
        PROVE  messages[p] = Got(p + SizeOf(e), e)
    <2>1. WellFormed2(e)
      BY DEF WellFormed
    <2>2. Holds(buf, p, Written2(e))
      BY <1>1, <1>5
    <2>3. Read2(buf, p) = Got(p + SizeOf(e), e)
      BY <2>1, <2>2, Reads2
    <2> QED BY <1>4, <2>3
  <1>6. Readable(messages, buf, placed, Inside(m))
    BY <1>5 DEF Readable
  <1> QED BY <1>1, <1>2, <1>3, <1>6, ReadIs

\* create_message() makes of the bytes that copy_to_buf() has written of a
\* message the message itself, and these are as many as get_size() says: for
\* every class, every value of its fields and every message that is nested.
THEOREM MessagesAreReadBack ==
  ASSUME NEW m, WellFormed(m)
  PROVE  /\ Len(Written(m)) = SizeOf(m)
         /\ Read(Written(m), 1) = [at |-> 1 + SizeOf(m), msg |-> m, failed |-> FALSE]
  <1>1. Written(m) \in Seq(Byte) /\ Len(Written(m)) = SizeOf(m)
    BY Writes3
  <1>2. Holds(Written(m), 1, Written(m))
    BY <1>1, HoldsItself
  <1>3. Read(Written(m), 1) = Got(1 + SizeOf(m), m)
    BY <1>1, <1>2, Reads3
  <1> QED BY <1>1, <1>3 DEF Got

-----------------------------------------------------------------------------
(* The link *)

\* What may be sent, and how many bytes each of a list takes.
Msgs == Unicast \cup Broadcasts
Sizes(msgs) == [j \in DOMAIN msgs |-> SizeOf(msgs[j])]

\* The messages of the buffer that are still to be read.
Pending == [j \in 1 .. left |-> sent[Len(inbox) + j]]

\* From position at on, the buffer holds these messages one behind the other,
\* and nothing else.
Framed(buf, at, msgs) ==
    /\ \A j \in DOMAIN msgs : Holds(buf, at + Sums(Sizes(msgs))[j - 1], Written(msgs[j]))
    /\ at + Total(Sizes(msgs)) = Len(buf) + 1

\* Every message sent is in the inbox, in the buffer or in the outbox, in this
\* order, and what is left of the buffer are the messages that are in it.
Accounted ==
    /\ sent \in Seq(Msgs) /\ outbox \in Seq(Msgs)
    /\ inbox \in Seq([msg : Msgs, return_node_id : {Sender}])
    /\ left \in Nat
    /\ Len(sent) = Len(inbox) + left + Len(outbox)
    /\ \A k \in 1 .. Len(inbox) : inbox[k].msg = sent[k]
    /\ \A k \in 1 .. Len(outbox) : outbox[k] = sent[Len(inbox) + left + k]

\* The buffer begins with the ids, and what is left of it begins at ptr.
Positioned ==
    /\ buffer \in Seq(Byte) /\ ptr \in Nat /\ end = ptr
    /\ buffer = <<>> => left = 0
    /\ buffer # <<>> => Holds(buffer, 1, BufferHeader) /\ Framed(buffer, ptr, Pending)

\* The inductive invariant of a link.
LinkInv == ~aborted /\ Accounted /\ Positioned

\* The sizes of messages that may be sent are numbers.
LEMMA SizesAre ==
  ASSUME NEW n \in Nat, NEW msgs \in [1 .. n -> Msgs]
  PROVE  /\ Sizes(msgs) \in [1 .. n -> Nat]
         /\ \A j \in 1 .. n : Sizes(msgs)[j] = SizeOf(msgs[j])
  <1>1. ASSUME NEW j \in 1 .. n PROVE SizeOf(msgs[j]) \in Nat
    <2>1. WellFormed(msgs[j])
      BY WireAssumption DEF Msgs
    <2>2. Written(msgs[j]) \in Seq(Byte) /\ Len(Written(msgs[j])) = SizeOf(msgs[j])
      BY <2>1, Writes3
    <2> QED BY <2>2
  <1>2. DOMAIN msgs = 1 .. n
    OBVIOUS
  <1> QED BY <1>1, <1>2 DEF Sizes

\* Messages are framed where they have been packed one behind the other,
LEMMA PackedAreFramed ==
  ASSUME NEW n \in Nat, NEW msgs \in [1 .. n -> Msgs], NEW front \in Seq(Byte)
  PROVE  LET buf == front \o FlattenSeq([k \in 1 .. n |-> Placed(Written(msgs[k]), msgs[k])])
         IN  /\ buf \in Seq(Byte) /\ Holds(buf, 1, front)
             /\ Framed(buf, Len(front) + 1, msgs)
  <1> DEFINE ws == [k \in 1 .. n |-> Placed(Written(msgs[k]), msgs[k])]
             all == FlattenSeq(ws)
             buf == front \o all
             u == Sums(Sizes(msgs))
  <1>1. ASSUME NEW k \in 1 .. n
        PROVE  /\ ws[k] = Written(msgs[k]) /\ ws[k] \in Seq(Byte)
               /\ Len(ws[k]) = SizeOf(msgs[k])
    <2>1. WellFormed(msgs[k])
      BY WireAssumption DEF Msgs
    <2>2. Written(msgs[k]) \in Seq(Byte) /\ Len(Written(msgs[k])) = SizeOf(msgs[k])
      BY <2>1, Writes3
    <2>3. Placed(Written(msgs[k]), msgs[k]) = Written(msgs[k])
      BY <2>2, PlacedIs
    <2> QED BY <2>2, <2>3
  <1>2. ws \in [1 .. n -> Seq(Byte)] /\ DOMAIN ws = 1 .. n /\ DOMAIN msgs = 1 .. n
    BY <1>1
  <1> HIDE DEF ws
  <1>3. Lens(ws) = Sizes(msgs)
    BY <1>1, <1>2 DEF Lens, Sizes
  <1>4. all \in Seq(Byte) /\ Len(all) = u[n]
    BY <1>2, <1>3, JoinedAre
  <1>5. /\ Len(Sizes(msgs)) = n /\ Total(Sizes(msgs)) = u[n]
        /\ u \in [0 .. n -> Nat]
    BY SizesAre, SumsAre
  <1> HIDE DEF all, u
  <1>6. /\ buf \in Seq(Byte) /\ Len(buf) = Len(front) + Len(all)
    BY <1>4, Concatenation
  <1>7. Holds(buf, 1, front) /\ Holds(buf, 1 + Len(front), all)
    <2>1. Holds(buf, 1, front \o all)
      BY <1>6, HoldsItself
    <2> HIDE DEF buf
    <2> QED BY <1>4, <2>1, HoldsBoth
  <1> HIDE DEF buf
  <1>8. ASSUME NEW j \in 1 .. n
        PROVE  Holds(buf, Len(front) + 1 + u[j - 1], Written(msgs[j]))
    <2>1. Holds(buf, 1 + Len(front) + Sums(Lens(ws))[j - 1], ws[j])
      <3>1. Holds(buf, 1 + Len(front), FlattenSeq(ws)) /\ 1 + Len(front) \in Int
        BY <1>7 DEF all
      <3> QED BY <1>2, <3>1, HoldsParts
    <2>2. Sums(Lens(ws))[j - 1] = u[j - 1]
      BY <1>3 DEF u
    <2>3. 1 + Len(front) = Len(front) + 1
      OBVIOUS
    <2> QED BY <1>1, <2>1, <2>2, <2>3
  <1>9. Len(front) + 1 + Total(Sizes(msgs)) = Len(buf) + 1
    <2>1. u[n] \in Nat /\ Len(front) \in Nat
      BY <1>5
    <2> QED BY <1>4, <1>5, <1>6, <2>1
  <1>10. Framed(buf, Len(front) + 1, msgs)
    BY <1>2, <1>8, <1>9 DEF Framed, u
  <1> QED BY <1>6, <1>7, <1>10 DEF buf, all, ws

\* and reading the first leads to the others.
LEMMA FirstIsRead ==
  ASSUME NEW n \in Nat \ {0}, NEW msgs \in [1 .. n -> Msgs], NEW buf, Len(buf) \in Nat,
         NEW at \in Nat, Framed(buf, at, msgs)
  PROVE  /\ Read(buf, at) = Got(at + SizeOf(msgs[1]), msgs[1])
         /\ at + SizeOf(msgs[1]) \in Nat
         /\ Framed(buf, at + SizeOf(msgs[1]), [j \in 1 .. n - 1 |-> msgs[j + 1]])
  <1> DEFINE rest == [j \in 1 .. n - 1 |-> msgs[j + 1]]
             s == Sizes(msgs)
             t == Sizes(rest)
             u == Sums(s)
             v == Sums(t)
  <1>1. /\ s \in [1 .. n -> Nat] /\ \A j \in 1 .. n : s[j] = SizeOf(msgs[j])
    BY SizesAre
  <1>2. u \in [0 .. n -> Nat] /\ u[0] = 0 /\ Total(s) = u[n]
    BY <1>1, SumsAre
  <1>3. /\ n - 1 \in Nat /\ rest \in [1 .. n - 1 -> Msgs] /\ 1 \in 1 .. n
        /\ \A j \in 1 .. n - 1 : j + 1 \in 1 .. n /\ rest[j] = msgs[j + 1]
    OBVIOUS
  <1> HIDE DEF rest
  <1>4. /\ t \in [1 .. n - 1 -> Nat] /\ \A j \in 1 .. n - 1 : t[j] = SizeOf(rest[j])
    BY <1>3, SizesAre
  <1>5. t = [j \in 1 .. n - 1 |-> s[j + 1]]
    <2>1. \A j \in 1 .. n - 1 : t[j] = s[j + 1]
      BY <1>1, <1>3, <1>4
    <2> HIDE DEF s, t
    <2> QED BY <1>4, <2>1
  <1>6. \A i \in 0 .. n - 1 : v[i] = u[i + 1] - s[1]
    <2>1. AreNumbers(s, n) /\ IsTail(t, s, n)
      BY <1>1, <1>5 DEF IsTail, AreNumbers
    <2> HIDE DEF s, t
    <2>2. TailSums(t, s, n)
      BY <2>1, SumsOfRest
    <2> QED BY <2>2 DEF u, v, TailSums
  <1>7. Total(t) = v[n - 1]
    BY <1>3, <1>4, SumsAre
  <1>8. /\ DOMAIN msgs = 1 .. n /\ DOMAIN rest = 1 .. n - 1
        /\ \A j \in 1 .. n : Holds(buf, at + u[j - 1], Written(msgs[j]))
        /\ at + u[n] = Len(buf) + 1
    <2>1. DOMAIN msgs = 1 .. n /\ DOMAIN rest = 1 .. n - 1
      BY <1>3
    <2> QED BY <1>2, <2>1 DEF Framed
  <1> HIDE DEF s, t, u, v
  <1>9. Read(buf, at) = Got(at + SizeOf(msgs[1]), msgs[1])
    <2>1. WellFormed(msgs[1])
      BY <1>3, WireAssumption DEF Msgs
    <2>2. Holds(buf, at, Written(msgs[1]))
      <3>1. Holds(buf, at + u[1 - 1], Written(msgs[1]))
        BY <1>3, <1>8
      <3>2. at + u[1 - 1] = at
        BY <1>2
      <3> QED BY <3>1, <3>2
    <2> QED BY <2>1, <2>2, Reads3
  <1>10. s[1] = SizeOf(msgs[1]) /\ s[1] \in Nat
    BY <1>1, <1>3
  <1>11. ASSUME NEW j \in 1 .. n - 1
         PROVE  Holds(buf, at + s[1] + v[j - 1], Written(rest[j]))
    <2>1. j - 1 \in 0 .. n - 1 /\ (j - 1) + 1 = j /\ j + 1 \in 1 .. n /\ (j + 1) - 1 = j
          /\ j \in 0 .. n
      OBVIOUS
    <2>2. v[j - 1] = u[j] - s[1]
      BY <1>6, <2>1
    <2>3. at + s[1] + v[j - 1] = at + u[j]
      <3>1. u[j] \in Nat
        BY <1>2, <2>1
      <3> QED BY <1>10, <2>2, <3>1
    <2>4. Holds(buf, at + u[j], Written(msgs[j + 1]))
      BY <1>8, <2>1
    <2> QED BY <1>3, <2>3, <2>4
  <1>12. at + s[1] + Total(t) = Len(buf) + 1
    <2>1. n - 1 \in 0 .. n - 1 /\ (n - 1) + 1 = n /\ n \in 0 .. n
      OBVIOUS
    <2>2. v[n - 1] = u[n] - s[1] /\ u[n] \in Nat
      BY <1>2, <1>6, <2>1
    <2> QED BY <1>7, <1>8, <1>10, <2>2
  <1>13. Framed(buf, at + s[1], rest)
    BY <1>8, <1>11, <1>12 DEF Framed, t, v
  <1>14. at + s[1] \in Nat
    BY <1>10
  <1> QED BY <1>9, <1>10, <1>13, <1>14 DEF rest
\* What is pending is a sequence of messages.
LEMMA PendingAre ==
  ASSUME Accounted
  PROVE  Pending \in [1 .. left -> Msgs]
  <1>1. ASSUME NEW j \in 1 .. left PROVE sent[Len(inbox) + j] \in Msgs
    <2>1. Len(inbox) \in Nat /\ Len(outbox) \in Nat /\ left \in Nat
      BY DEF Accounted
    <2>2. Len(inbox) + j \in 1 .. Len(sent)
      BY <2>1 DEF Accounted
    <2> QED BY <2>2 DEF Accounted
  <1> QED BY <1>1 DEF Pending

LEMMA InitLink == Init => LinkInv
  <1> SUFFICES ASSUME Init PROVE LinkInv
    OBVIOUS
  <1> USE DEF Init
  <1>1. ~aborted
    OBVIOUS
  <1>2. Accounted
    BY DEF Accounted
  <1>3. Positioned
    BY DEF Positioned
  <1> QED BY <1>1, <1>2, <1>3 DEF LinkInv

\* Sending a message adds it to the outbox, the copy of a broadcast as well.
LEMMA SentIsQueued ==
  ASSUME LinkInv, NEW m \in Msgs,
         sent' = Append(sent, m), outbox' = Append(outbox, m),
         UNCHANGED <<buffer, left, ptr, end, inbox>>, ~aborted'
  PROVE  LinkInv'
  <1>1. /\ sent \in Seq(Msgs) /\ outbox \in Seq(Msgs) /\ left \in Nat
        /\ inbox \in Seq([msg : Msgs, return_node_id : {Sender}])
        /\ Len(sent) = Len(inbox) + left + Len(outbox)
        /\ \A k \in 1 .. Len(inbox) : inbox[k].msg = sent[k]
        /\ \A k \in 1 .. Len(outbox) : outbox[k] = sent[Len(inbox) + left + k]
    BY DEF LinkInv, Accounted
  <1>2. /\ sent' \in Seq(Msgs) /\ Len(sent') = Len(sent) + 1
        /\ \A k \in 1 .. Len(sent) : sent'[k] = sent[k]
        /\ sent'[Len(sent) + 1] = m
    BY <1>1
  <1>3. /\ outbox' \in Seq(Msgs) /\ Len(outbox') = Len(outbox) + 1
        /\ \A k \in 1 .. Len(outbox) : outbox'[k] = outbox[k]
        /\ outbox'[Len(outbox) + 1] = m
    BY <1>1
  <1>4. Len(sent) \in Nat /\ Len(inbox) \in Nat /\ Len(outbox) \in Nat
    BY <1>1
  <1>5. \A k \in 1 .. Len(inbox) : inbox[k].msg = sent'[k]
    BY <1>1, <1>2, <1>4
  <1>6. ASSUME NEW k \in 1 .. Len(outbox')
        PROVE  outbox'[k] = sent'[Len(inbox) + left + k]
    <2>1. CASE k \in 1 .. Len(outbox)
      <3>1. Len(inbox) + left + k \in 1 .. Len(sent)
        BY <1>1, <1>4, <2>1
      <3> QED BY <1>1, <1>2, <1>3, <2>1, <3>1
    <2>2. CASE k = Len(outbox) + 1
      <3>1. Len(inbox) + left + k = Len(sent) + 1
        BY <1>1, <1>4, <2>2
      <3> QED BY <1>2, <1>3, <2>2, <3>1
    <2>3. k \in 1 .. Len(outbox) \/ k = Len(outbox) + 1
      <3>1. k \in 1 .. Len(outbox) + 1
        BY <1>3
      <3> QED BY <1>4, <3>1
    <2> QED BY <2>1, <2>2, <2>3
  <1>7. Accounted'
    <2>1. Len(sent') = Len(inbox) + left + Len(outbox')
      BY <1>1, <1>2, <1>3, <1>4
    <2> QED BY <1>1, <1>2, <1>3, <1>5, <1>6, <2>1 DEF Accounted
  <1>8. Pending' = Pending
    <2>1. ASSUME NEW j \in 1 .. left PROVE sent'[Len(inbox) + j] = sent[Len(inbox) + j]
      <3>1. Len(inbox) + j \in 1 .. Len(sent)
        BY <1>1, <1>4
      <3> QED BY <1>2, <3>1
    <2> QED BY <2>1 DEF Pending
  <1>9. Positioned'
    BY <1>8 DEF LinkInv, Positioned
  <1> QED BY <1>7, <1>9 DEF LinkInv

LEMMA EnqueueLink ==
  ASSUME LinkInv, NEW m \in Unicast, Enqueue(m) PROVE LinkInv'
  BY SentIsQueued DEF Enqueue, Msgs

LEMMA BroadcastLink ==
  ASSUME LinkInv, NEW m \in Broadcasts, Broadcast(m) PROVE LinkInv'
  <1> DEFINE copy == Read(Placed(Written(m), m), 1)
  <1>1. WellFormed(m) /\ m \in Msgs
    BY WireAssumption DEF Msgs
  <1>2. Written(m) \in Seq(Byte) /\ Len(Written(m)) = SizeOf(m)
    BY <1>1, Writes3
  <1>3. copy = Got(1 + SizeOf(m), m)
    <2>1. Placed(Written(m), m) = Written(m)
      BY <1>2, PlacedIs
    <2>2. Holds(Written(m), 1, Written(m))
      BY <1>2, HoldsItself
    <2>3. Read(Written(m), 1) = Got(1 + SizeOf(m), m)
      BY <1>1, <1>2, <2>2, Reads3
    <2> QED BY <2>1, <2>3
  <1>4. ~WriteFails(m)
    BY <1>2 DEF WriteFails
  <1>5. ~copy.failed /\ copy.msg = m
    BY <1>3 DEF Got
  <1>6. /\ sent' = Append(sent, m) /\ aborted' = (WriteFails(m) \/ copy.failed)
        /\ (IF aborted' THEN UNCHANGED outbox ELSE outbox' = Append(outbox, copy.msg))
        /\ UNCHANGED <<buffer, left, ptr, end, inbox>> /\ ~aborted
    BY DEF Broadcast
  <1> HIDE DEF copy
  <1>7. ~aborted'
    BY <1>4, <1>5, <1>6
  <1>8. outbox' = Append(outbox, m)
    BY <1>5, <1>6, <1>7
  <1> QED BY <1>1, <1>6, <1>7, <1>8, SentIsQueued
\* The two parts of a queue.
LEMMA FirstPart ==
  ASSUME NEW S, NEW s \in Seq(S), NEW n \in Nat, n =< Len(s)
  PROVE  SubSeq(s, 1, n) = [k \in 1 .. n |-> s[k]]
  OBVIOUS
LEMMA SecondPart ==
  ASSUME NEW S, NEW s \in Seq(S), NEW n \in Nat, n =< Len(s)
  PROVE  SubSeq(s, n + 1, Len(s)) = [k \in 1 .. Len(s) - n |-> s[n + k]]
  OBVIOUS

\* A number of four bytes, and the three in front of the messages.
LEMMA FourBytes ==
  ASSUME NEW v \in Int PROVE Bytes(v, 4) \in Seq(Byte) /\ Len(Bytes(v, 4)) = 4
  <1>1. 4 \in Nat
    OBVIOUS
  <1> QED BY <1>1, BytesAre

LEMMA FrontIs ==
  ASSUME NEW n \in Nat
  PROVE  /\ BufferHeader \in Seq(Byte) /\ Len(BufferHeader) = 8
         /\ BufferHeader \o Bytes(n, 4) \in Seq(Byte)
         /\ Len(BufferHeader \o Bytes(n, 4)) = 12
  <1> DEFINE r == Bytes(Receiver, 4)
             s == Bytes(Sender, 4)
             t == Bytes(n, 4)
  <1>1. /\ r \in Seq(Byte) /\ Len(r) = 4 /\ s \in Seq(Byte) /\ Len(s) = 4
        /\ t \in Seq(Byte) /\ Len(t) = 4
    <2>1. Receiver \in Int /\ Sender \in Int /\ n \in Int
      BY WireAssumption
    <2> QED BY <2>1, FourBytes
  <1>2. BufferHeader = r \o s
    BY DEF BufferHeader
  <1> HIDE DEF r, s, t
  <1>3. BufferHeader \in Seq(Byte) /\ Len(BufferHeader) = 8
    <2>1. r \o s \in Seq(Byte) /\ Len(r \o s) = Len(r) + Len(s)
      BY <1>1, Concatenation, Zenon
    <2>2. 4 + 4 = 8
      OBVIOUS
    <2> QED BY <1>1, <1>2, <2>1, <2>2, Zenon
  <1>4. BufferHeader \o t \in Seq(Byte) /\ Len(BufferHeader \o t) = 12
    <2>1. BufferHeader \o t \in Seq(Byte) /\ Len(BufferHeader \o t) = Len(BufferHeader) + Len(t)
      BY <1>1, <1>3, Concatenation, Zenon
    <2>2. 8 + 4 = 12
      OBVIOUS
    <2> QED BY <1>1, <1>3, <2>1, <2>2, Zenon
  <1> QED BY <1>3, <1>4 DEF t

\* Packing moves messages from the outbox to the buffer.
LEMMA PackLink ==
  ASSUME LinkInv, NEW n \in 1 .. MaxSent, Pack(n) PROVE LinkInv'
  <1> DEFINE msgs == SubSeq(outbox, 1, n)
             front == BufferHeader \o Bytes(n, 4)
             bytes == FlattenSeq([k \in 1 .. n |-> Placed(Written(msgs[k]), msgs[k])])
  <1>1. /\ sent \in Seq(Msgs) /\ outbox \in Seq(Msgs)
        /\ inbox \in Seq([msg : Msgs, return_node_id : {Sender}])
        /\ Len(sent) = Len(inbox) + left + Len(outbox)
        /\ \A k \in 1 .. Len(inbox) : inbox[k].msg = sent[k]
        /\ \A k \in 1 .. Len(outbox) : outbox[k] = sent[Len(inbox) + left + k]
    BY DEF LinkInv, Accounted
  <1>2. /\ left = 0 /\ n \in 1 .. Len(outbox)
        /\ aborted' = (\E k \in 1 .. n : WriteFails(msgs[k]))
        /\ outbox' = SubSeq(outbox, n + 1, Len(outbox))
        /\ buffer' = BufferHeader \o Bytes(n, 4) \o bytes
        /\ left' = n /\ ptr' = 13 /\ end' = 13
        /\ sent' = sent /\ inbox' = inbox
    BY DEF Pack
  <1>3. /\ Len(outbox) \in Nat /\ Len(inbox) \in Nat /\ n \in Nat /\ n =< Len(outbox)
        /\ Len(sent) = Len(inbox) + Len(outbox)
        /\ \A k \in 1 .. Len(outbox) : outbox[k] = sent[Len(inbox) + k]
    <2>1. Len(outbox) \in Nat /\ Len(inbox) \in Nat /\ n \in Nat /\ n =< Len(outbox)
      BY <1>1, <1>2
    <2>2. \A k \in 1 .. Len(outbox) : Len(inbox) + left + k = Len(inbox) + k
      BY <1>2, <2>1
    <2> QED BY <1>1, <1>2, <2>1, <2>2
  <1>4. msgs \in [1 .. n -> Msgs] /\ \A k \in 1 .. n : msgs[k] = outbox[k]
    <2>1. msgs = [k \in 1 .. n |-> outbox[k]]
      BY <1>1, <1>3, FirstPart
    <2>2. \A k \in 1 .. n : outbox[k] \in Msgs
      BY <1>1, <1>3
    <2> HIDE DEF msgs
    <2> QED BY <2>1, <2>2
  <1>5. front \in Seq(Byte) /\ Len(front) = 12
    BY <1>3, FrontIs
  <1>6. buffer' = front \o bytes
    BY <1>2
  <1>7. /\ buffer' \in Seq(Byte) /\ Holds(buffer', 1, front)
        /\ Framed(buffer', Len(front) + 1, msgs)
    <2> HIDE DEF front, msgs
    <2>1. n \in Nat
      BY <1>3
    <2>2. front \o bytes \in Seq(Byte)
      BY <1>4, <1>5, <2>1, PackedAreFramed
    <2>3. Holds(front \o bytes, 1, front)
      BY <1>4, <1>5, <2>1, PackedAreFramed
    <2>4. Framed(front \o bytes, Len(front) + 1, msgs)
      BY <1>4, <1>5, <2>1, PackedAreFramed
    <2> HIDE DEF bytes
    <2> QED BY <1>6, <2>2, <2>3, <2>4
  <1> HIDE DEF bytes
  <1>8. Holds(buffer', 1, BufferHeader)
    <2>1. BufferHeader \in Seq(Byte) /\ Bytes(n, 4) \in Seq(Byte)
      <3>1. n \in Int
        BY <1>3
      <3> QED BY <1>3, <3>1, FrontIs, FourBytes
    <2>2. Holds(buffer', 1, BufferHeader \o Bytes(n, 4))
      BY <1>7
    <2> QED BY <2>1, <2>2, HoldsBoth
  <1>9. Pending' = msgs
    <2>1. \A j \in 1 .. n : sent[Len(inbox) + j] = msgs[j]
      BY <1>3, <1>4
    <2>2. Pending' = [j \in 1 .. n |-> sent[Len(inbox) + j]]
      BY <1>2 DEF Pending
    <2>3. msgs = [j \in 1 .. n |-> msgs[j]]
      BY <1>4
    <2> HIDE DEF msgs
    <2> QED BY <2>1, <2>2, <2>3
  <1> HIDE DEF msgs
  <1>10. ~aborted'
    <2>1. ASSUME NEW k \in 1 .. n PROVE ~WriteFails(msgs[k])
      <3>1. WellFormed(msgs[k])
        BY <1>4, WireAssumption DEF Msgs
      <3> QED BY <3>1, Writes3 DEF WriteFails
    <2> QED BY <1>2, <2>1
  <1>11. Positioned'
    <2>1. Framed(buffer', ptr', Pending')
      <3>1. Len(front) + 1 = 13
        BY <1>5
      <3> HIDE DEF front
      <3> QED BY <1>2, <1>7, <1>9, <3>1
    <2>2. buffer' # <<>>
      <3>1. Len(front) = 12 /\ Len(<<>>) = 0
        BY <1>5
      <3>2. 1 \in 1 .. Len(buffer')
        <4> HIDE DEF front
        <4>1. 1 \in 1 .. Len(front) /\ 1 + 1 - 1 = 1
          BY <3>1
        <4>2. 1 + 1 - 1 \in 1 .. Len(buffer')
          BY <1>7, <4>1 DEF Holds
        <4> QED BY <4>1, <4>2
      <3> QED BY <3>1, <3>2
    <2>3. ptr' \in Nat /\ end' = ptr'
      BY <1>2
    <2> QED BY <1>7, <1>8, <2>1, <2>2, <2>3 DEF Positioned
  <1>12. Accounted'
    <2>1. /\ outbox' \in Seq(Msgs) /\ Len(outbox') = Len(outbox) - n
          /\ \A k \in 1 .. Len(outbox) - n : outbox'[k] = outbox[n + k]
      <3>1. outbox' = [k \in 1 .. Len(outbox) - n |-> outbox[n + k]]
        BY <1>1, <1>2, <1>3, SecondPart
      <3>2. \A k \in 1 .. Len(outbox) - n : outbox[n + k] \in Msgs
        BY <1>1, <1>3
      <3>3. Len(outbox) - n \in Nat
        BY <1>3
      <3> QED BY <3>1, <3>2, <3>3
    <2>2. Len(sent) = Len(inbox) + n + Len(outbox')
      BY <1>3, <2>1
    <2>3. ASSUME NEW k \in 1 .. Len(outbox')
          PROVE  outbox'[k] = sent[Len(inbox) + n + k]
      <3>1. k \in 1 .. Len(outbox) - n /\ n + k \in 1 .. Len(outbox)
        BY <1>3, <2>1
      <3>2. Len(inbox) + (n + k) = Len(inbox) + n + k
        BY <1>3
      <3> QED BY <1>3, <2>1, <3>1, <3>2
    <2> QED BY <1>1, <1>2, <1>3, <2>1, <2>2, <2>3 DEF Accounted
  <1> QED BY <1>10, <1>11, <1>12 DEF LinkInv
\* Unpacking makes of the first message of the buffer the last one of the inbox.
LEMMA UnpackLink ==
  ASSUME LinkInv, Unpack PROVE LinkInv'
  <1> DEFINE m == Pending[1]
             r == Read(buffer, ptr)
             dest_id == Value(Slice(buffer, 1, 4))
             return_id == Value(Slice(buffer, 5, 4))
             Entries == [msg : Msgs, return_node_id : {Sender}]
  <1>1. /\ sent \in Seq(Msgs) /\ outbox \in Seq(Msgs) /\ inbox \in Seq(Entries)
        /\ left \in Nat
        /\ Len(sent) = Len(inbox) + left + Len(outbox)
        /\ \A k \in 1 .. Len(inbox) : inbox[k].msg = sent[k]
        /\ \A k \in 1 .. Len(outbox) : outbox[k] = sent[Len(inbox) + left + k]
    BY DEF LinkInv, Accounted
  <1>2. /\ left > 0 /\ left' = left - 1
        /\ aborted' = \/ r.failed
                       \/ dest_id # Receiver \/ return_id = Receiver
                       \/ ~(ISCLIENTN(return_id) \/ ISSERVERN(return_id) \/ ISREPLICAN(return_id))
        /\ IF aborted' THEN UNCHANGED <<ptr, end, inbox>>
           ELSE /\ ptr' = ptr + SizeOf(r.msg)
                /\ end' = r.at
                /\ inbox' = Append(inbox, [msg |-> r.msg, return_node_id |-> return_id])
        /\ sent' = sent /\ outbox' = outbox /\ buffer' = buffer
    BY DEF Unpack
  <1>3. /\ left \in Nat \ {0} /\ Pending \in [1 .. left -> Msgs] /\ 1 \in 1 .. left
    BY <1>1, <1>2, PendingAre DEF LinkInv
  <1>4. /\ buffer \in Seq(Byte) /\ ptr \in Nat /\ buffer # <<>> /\ Len(buffer) \in Nat
        /\ Holds(buffer, 1, BufferHeader) /\ Framed(buffer, ptr, Pending)
    BY <1>2 DEF LinkInv, Positioned
  <1>5. /\ r = Got(ptr + SizeOf(m), m) /\ ptr + SizeOf(m) \in Nat
        /\ Framed(buffer, ptr + SizeOf(m), [j \in 1 .. left - 1 |-> Pending[j + 1]])
    <2>1. Read(buffer, ptr) = Got(ptr + SizeOf(Pending[1]), Pending[1])
      BY <1>3, <1>4, FirstIsRead
    <2>2. ptr + SizeOf(Pending[1]) \in Nat
      BY <1>3, <1>4, FirstIsRead
    <2>3. Framed(buffer, ptr + SizeOf(Pending[1]), [j \in 1 .. left - 1 |-> Pending[j + 1]])
      BY <1>3, <1>4, FirstIsRead
    <2> QED BY <2>1, <2>2, <2>3
  <1>6. r.failed = FALSE /\ r.msg = m /\ r.at = ptr + SizeOf(m)
    BY <1>5 DEF Got
  <1>7. dest_id = Receiver /\ return_id = Sender /\ Sender # Receiver
    <2>1. /\ Receiver \in Int /\ Sender \in Int /\ Sender # Receiver
          /\ 4 \in Nat \ {0} /\ 1 \in Int /\ 5 \in Int /\ 1 + 4 = 5
      BY WireAssumption
    <2>2. /\ Bytes(Receiver, 4) \in Seq(Byte) /\ Len(Bytes(Receiver, 4)) = 4
          /\ Bytes(Sender, 4) \in Seq(Byte)
      BY <2>1, FourBytes
    <2>3. Holds(buffer, 1, Bytes(Receiver, 4) \o Bytes(Sender, 4))
      BY <1>4 DEF BufferHeader
    <2>4. Holds(buffer, 1, Bytes(Receiver, 4)) /\ Holds(buffer, 5, Bytes(Sender, 4))
      <3>1. /\ Holds(buffer, 1, Bytes(Receiver, 4))
            /\ Holds(buffer, 1 + Len(Bytes(Receiver, 4)), Bytes(Sender, 4))
        BY <2>1, <2>2, <2>3, HoldsBoth
      <3>2. 1 + Len(Bytes(Receiver, 4)) = 5
        BY <2>1, <2>2
      <3> QED BY <3>1, <3>2
    <2>5. dest_id = Receiver
      BY <1>4, <2>1, <2>4, NumberIsRead
    <2>6. return_id = Sender
      BY <1>4, <2>1, <2>4, NumberIsRead
    <2> QED BY <2>1, <2>5, <2>6
  <1> HIDE DEF r, dest_id, return_id
  <1>8. ~aborted'
    <2>1. ISCLIENTN(return_id) \/ ISSERVERN(return_id) \/ ISREPLICAN(return_id)
      BY <1>7, WireAssumption
    <2> QED BY <1>2, <1>6, <1>7, <2>1
  <1>9. /\ ptr' = ptr + SizeOf(m) /\ end' = ptr + SizeOf(m)
        /\ inbox' = Append(inbox, [msg |-> m, return_node_id |-> Sender])
    BY <1>2, <1>6, <1>7, <1>8
  <1>10. m = sent[Len(inbox) + 1] /\ m \in Msgs
    BY <1>3 DEF Pending
  <1>11. Pending' = [j \in 1 .. left - 1 |-> Pending[j + 1]]
    <2>1. Len(inbox') = Len(inbox) + 1 /\ Len(inbox) \in Nat
      BY <1>1, <1>9, <1>10
    <2>2. ASSUME NEW j \in 1 .. left - 1
          PROVE  sent[Len(inbox') + j] = Pending[j + 1]
      <3>1. j + 1 \in 1 .. left /\ Len(inbox') + j = Len(inbox) + (j + 1)
        BY <1>3, <2>1
      <3> QED BY <3>1 DEF Pending
    <2>3. Pending' = [j \in 1 .. left - 1 |-> sent[Len(inbox') + j]]
      BY <1>2 DEF Pending
    <2> QED BY <2>2, <2>3
  <1> HIDE DEF m
  <1>12. Positioned'
    BY <1>2, <1>4, <1>5, <1>9, <1>11 DEF Positioned
  <1>13. Accounted'
    <2> DEFINE entry == [msg |-> m, return_node_id |-> Sender]
    <2>1. entry \in Entries /\ entry.msg = m
      BY <1>10
    <2> HIDE DEF entry, Entries
    <2>2. /\ inbox' \in Seq(Entries) /\ Len(inbox') = Len(inbox) + 1
          /\ \A k \in 1 .. Len(inbox) : inbox'[k] = inbox[k]
          /\ inbox'[Len(inbox) + 1] = entry /\ Len(inbox) \in Nat
      BY <1>1, <1>9, <2>1 DEF entry
    <2>3. ASSUME NEW k \in 1 .. Len(inbox') PROVE inbox'[k].msg = sent[k]
      <3>1. k \in 1 .. Len(inbox) \/ k = Len(inbox) + 1
        <4>1. k \in 1 .. Len(inbox) + 1
          BY <2>2
        <4> QED BY <2>2, <4>1
      <3> QED BY <1>1, <1>10, <2>1, <2>2, <3>1
    <2>4. left - 1 \in Nat /\ Len(sent) = Len(inbox') + (left - 1) + Len(outbox)
          /\ Len(inbox') + (left - 1) = Len(inbox) + left
      <3>1. Len(outbox) \in Nat
        BY <1>1
      <3> QED BY <1>1, <1>3, <2>2, <3>1
    <2>5. \A k \in 1 .. Len(outbox) : outbox[k] = sent[Len(inbox') + (left - 1) + k]
      BY <1>1, <2>4
    <2> QED BY <1>1, <1>2, <2>2, <2>3, <2>4, <2>5 DEF Accounted, Entries
  <1> QED BY <1>8, <1>12, <1>13 DEF LinkInv

LEMMA NextLink == LinkInv /\ [Next]_vars => LinkInv'
  <1> SUFFICES ASSUME LinkInv, [Next]_vars PROVE LinkInv'
    OBVIOUS
  <1>1. ASSUME NEW m \in Unicast, Enqueue(m) PROVE LinkInv'
    BY <1>1, EnqueueLink
  <1>2. ASSUME NEW m \in Broadcasts, Broadcast(m) PROVE LinkInv'
    BY <1>2, BroadcastLink
  <1>3. ASSUME NEW n \in 1 .. MaxSent, Pack(n) PROVE LinkInv'
    BY <1>3, PackLink
  <1>4. ASSUME Unpack PROVE LinkInv'
    BY <1>4, UnpackLink
  <1>5. ASSUME UNCHANGED vars PROVE LinkInv'
    BY <1>5 DEF vars, LinkInv, Accounted, Positioned, Pending
  <1>6. ASSUME Done PROVE LinkInv'
    BY <1>5, <1>6 DEF Done
  <1> QED BY <1>1, <1>2, <1>3, <1>4, <1>5, <1>6 DEF Next

\* What is sent over a link is at every moment in the inbox, in the buffer or
\* in the outbox, once and in order, and the buffer holds the messages that
\* are still to be read where create_messages() will look for them.
THEOREM LinkIsSound == Spec => []LinkInv
  <1> QED BY InitLink, NextLink, PTL DEF Spec

-----------------------------------------------------------------------------
(* The properties *)

\* create_messages() hands to the handlers of the peer what was sent, field by
\* field and in the order it was sent, and puts each message down to the node
\* it came from: whatever messages the link carries, nested or not, in any
\* number of buffers, queued themselves or copied through a buffer of their own.
THEOREM LinkArrivesIntact == Spec => []ArrivesIntact
  <1>1. LinkInv => ArrivesIntact
    <2> SUFFICES ASSUME LinkInv, NEW k \in DOMAIN inbox
                 PROVE  inbox[k] = [msg |-> sent[k], return_node_id |-> Sender]
      BY DEF ArrivesIntact
    <2> DEFINE Entries == [msg : Msgs, return_node_id : {Sender}]
    <2>1. inbox \in Seq(Entries) /\ \A j \in 1 .. Len(inbox) : inbox[j].msg = sent[j]
      BY DEF LinkInv, Accounted
    <2> HIDE DEF Entries
    <2>2. k \in 1 .. Len(inbox) /\ inbox[k] \in Entries
      BY <2>1
    <2>3. inbox[k].msg = sent[k]
      BY <2>1, <2>2
    <2>4. inbox[k] = [msg |-> inbox[k].msg, return_node_id |-> Sender]
      BY <2>2 DEF Entries
    <2> QED BY <2>3, <2>4
  <1> QED BY <1>1, LinkIsSound, PTL

\* get_size() of every message that create_messages() has read is what
\* copy_from_buf() has read of it, and the loop over a buffer ends where the
\* bytes of the buffer end, in the classes that do not assert it as well.
THEOREM LinkFramesMeet == Spec => []FramesMeet
  <1>1. LinkInv => FramesMeet
    <2> SUFFICES ASSUME LinkInv
                 PROVE  end = ptr /\ (left = 0 /\ buffer # <<>> => ptr = Len(buffer) + 1)
      BY DEF FramesMeet
    <2>1. end = ptr /\ ptr \in Nat
      BY DEF LinkInv, Positioned
    <2>2. ASSUME left = 0, buffer # <<>> PROVE ptr = Len(buffer) + 1
      <3>1. Pending \in [1 .. 0 -> Msgs]
        BY <2>2, PendingAre DEF LinkInv
      <3>2. Sizes(Pending) \in [1 .. 0 -> Nat]
        BY <3>1, SizesAre, 0 \in Nat
      <3>3. Total(Sizes(Pending)) = 0
        BY <3>2, SumsAre, 0 \in Nat
      <3>4. ptr + Total(Sizes(Pending)) = Len(buffer) + 1
        BY <2>2 DEF LinkInv, Positioned, Framed
      <3> QED BY <2>1, <3>3, <3>4
    <2> QED BY <2>1, <2>2
  <1> QED BY <1>1, LinkIsSound, PTL

\* No assert(ptr == get_size()) of a message fails, writing or reading, and none
\* of the assertions of create_messages() on the ids in front of a buffer.
THEOREM LinkAssertionsHold == Spec => []AssertionsHold
  <1>1. LinkInv => AssertionsHold
    BY DEF LinkInv, AssertionsHold
  <1> QED BY <1>1, LinkIsSound, PTL
=============================================================================
