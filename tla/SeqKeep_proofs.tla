--------------------------- MODULE SeqKeep_proofs ---------------------------
(***************************************************************************)
(* Induction on the natural numbers, stated with sets, what Keep returns,  *)
(* and how a text is cut into pieces, one element at a time. The library   *)
(* states induction with a predicate as a parameter, which the provers do  *)
(* not instantiate; but that a nonempty set of natural numbers has a least *)
(* element follows from the facts about well-founded relations without     *)
(* one.                                                                    *)
(***************************************************************************)
EXTENDS SeqKeep, WellFoundedInduction, TLAPS

LEMMA LessOnNat == \A x, y \in Nat : <<x, y>> \in OpToRel(<, Nat) <=> x < y
BY DEF OpToRel

LEMMA MinimalIn ==
  ASSUME NEW R, IsWellFoundedOn(R, Nat), NEW T, T \subseteq Nat, T # {}
  PROVE  \E x \in T : \A y \in T : ~(<<y, x>> \in R)
BY WFMin

LEMMA LeastOf ==
  ASSUME NEW R, IsWellFoundedOn(R, Nat), \A x, y \in Nat : <<x, y>> \in R <=> x < y,
         NEW T \in SUBSET Nat, T # {}
  PROVE  \E x \in T : \A y \in T : x <= y
<1>1. T \subseteq Nat
  OBVIOUS
<1>2. PICK x \in T : \A y \in T : ~(<<y, x>> \in R)
  BY <1>1, MinimalIn, Zenon
<1>3. ASSUME NEW y \in T PROVE x <= y
  <2>1. x \in Nat /\ y \in Nat
    BY <1>1
  <2>2. ~(y < x)
    BY <1>2, <2>1, Zenon
  <2> QED
    BY <2>1, <2>2
<1> QED
  BY <1>3

\* Every nonempty set of natural numbers has a least element.
LEMMA LeastNat ==
  ASSUME NEW T \in SUBSET Nat, T # {}
  PROVE  \E x \in T : \A y \in T : x <= y
BY NatLessThanWellFounded, LessOnNat, LeastOf, Zenon

LEMMA SetInduction ==
  ASSUME NEW T, 0 \in T, \A n \in Nat : n \in T => n + 1 \in T
  PROVE  \A n \in Nat : n \in T
<1> SUFFICES ASSUME NEW m \in Nat, m \notin T PROVE FALSE
  OBVIOUS
<1> DEFINE S == Nat \ T
<1>1. PICK x \in S : \A y \in S : x <= y
  <2>1. S \in SUBSET Nat /\ S # {}
    OBVIOUS
  <2> QED BY <2>1, LeastNat
<1>2. x # 0 /\ x \in Nat /\ x \notin T
  BY <1>1
<1>3. x - 1 \in Nat /\ x-1 \in T
  BY <1>1, <1>2
<1> QED BY <1>2, <1>3

-----------------------------------------------------------------------------
\* The function of which Keep takes a value.
kept(s, K) ==
  CHOOSE f : f = [i \in 0..Len(s) |->
                    IF i = 0 THEN <<>>
                    ELSE IF i \in K THEN Append(f[i - 1], s[i]) ELSE f[i - 1]]

LEMMA KeepIs ==
  ASSUME NEW s, NEW K, NEW n
  PROVE  Keep(s, K, n) = kept(s, K)[n]
BY DEF Keep, kept

\* The equation of kept has a solution: one on 0..n extends to one on 0..(n + 1).
LEMMA KeptExists ==
  ASSUME NEW S, NEW s \in Seq(S), NEW K
  PROVE  \E f : f = [i \in 0..Len(s) |->
                       IF i = 0 THEN <<>>
                       ELSE IF i \in K THEN Append(f[i - 1], s[i]) ELSE f[i - 1]]
<1> DEFINE Next(x, i) == IF i \in K THEN Append(x, s[i]) ELSE x
           Solves(f, n) == /\ f[0] = <<>>
                           /\ \A i \in 1..n : f[i] = Next(f[i - 1], i)
           T == {n \in Nat : n <= Len(s) => \E f \in [0..n -> Seq(S)] : Solves(f, n)}
<1>1. Len(s) \in Nat /\ \A i \in 1..Len(s) : s[i] \in S
  OBVIOUS
<1>2. 0 \in T
  <2> DEFINE f == [i \in 0..0 |-> <<>>]
  <2>1. f \in [0..0 -> Seq(S)] /\ Solves(f, 0)
    OBVIOUS
  <2> QED
    BY <2>1
<1>3. ASSUME NEW n \in Nat, n \in T PROVE n + 1 \in T
  <2> SUFFICES ASSUME n + 1 <= Len(s)
               PROVE  \E f \in [0..(n + 1) -> Seq(S)] : Solves(f, n + 1)
    OBVIOUS
  <2>1. PICK f \in [0..n -> Seq(S)] : Solves(f, n)
    <3> HIDE DEF Solves
    <3>1. n <= Len(s)
      BY <1>1
    <3> QED
      BY <1>3, <3>1
  <2> DEFINE g == [i \in 0..(n + 1) |-> IF i = n + 1 THEN Next(f[n], n + 1) ELSE f[i]]
  <2>2. f[n] \in Seq(S) /\ s[n + 1] \in S
    BY <1>1
  <2>3. Next(f[n], n + 1) \in Seq(S)
    BY <2>2
  <2> HIDE DEF Next
  <2>4. g \in [0..(n + 1) -> Seq(S)]
    BY <2>3
  <2>5. g[0] = <<>>
    BY <2>1
  <2>6. ASSUME NEW i \in 1..(n + 1) PROVE g[i] = Next(g[i - 1], i)
    <3>1. CASE i = n + 1
      BY <3>1
    <3>2. CASE i # n + 1
      <4>1. i \in 1..n /\ i - 1 \in 0..n /\ i - 1 # n + 1
        BY <3>2
      <4>2. g[i] = f[i] /\ g[i - 1] = f[i - 1]
        BY <4>1
      <4> QED
        BY <2>1, <4>1, <4>2
    <3> QED
      BY <3>1, <3>2
  <2> HIDE DEF g
  <2> QED
    BY <2>4, <2>5, <2>6
<1>4. Len(s) \in T
  <2> HIDE DEF T
  <2> QED
    BY <1>1, <1>2, <1>3, SetInduction
<1>5. PICK f \in [0..Len(s) -> Seq(S)] : Solves(f, Len(s))
  BY <1>1, <1>4
<1>6. \A i \in 0..Len(s) : f[i] = IF i = 0 THEN <<>> ELSE Next(f[i - 1], i)
  <2> HIDE DEF Next
  <2> SUFFICES ASSUME NEW i \in 0..Len(s)
               PROVE  f[i] = IF i = 0 THEN <<>> ELSE Next(f[i - 1], i)
    OBVIOUS
  <2>1. i = 0 \/ i \in 1..Len(s)
    BY <1>1
  <2> QED
    BY <1>5, <2>1
<1>7. f = [i \in 0..Len(s) |-> IF i = 0 THEN <<>> ELSE Next(f[i - 1], i)]
  <2> HIDE DEF Next
  <2> QED
    BY <1>5, <1>6
<1> QED
  BY <1>7

\* Keep goes through the sequence one element at a time.
LEMMA KeepStep ==
  ASSUME NEW S, NEW s \in Seq(S), NEW K
  PROVE  /\ Keep(s, K, 0) = <<>>
         /\ \A n \in 1..Len(s) :
              Keep(s, K, n) = IF n \in K THEN Append(Keep(s, K, n - 1), s[n])
                              ELSE Keep(s, K, n - 1)
<1> DEFINE g == kept(s, K)
<1>1. g = [i \in 0..Len(s) |->
             IF i = 0 THEN <<>>
             ELSE IF i \in K THEN Append(g[i - 1], s[i]) ELSE g[i - 1]]
  <2> DEFINE P(f) == f = [i \in 0..Len(s) |->
                       IF i = 0 THEN <<>>
                       ELSE IF i \in K THEN Append(f[i - 1], s[i]) ELSE f[i - 1]]
  <2>1. \E f : P(f)
    BY KeptExists
  <2>2. g = CHOOSE f : P(f)
    BY DEF kept
  <2> HIDE DEF P, g
  <2>3. P(g)
    BY <2>1, <2>2
  <2> QED
    BY <2>3 DEF P
<1> HIDE DEF g
<1>2. Len(s) \in Nat
  OBVIOUS
<1>3. g[0] = <<>>
  BY <1>1, <1>2
<1>4. ASSUME NEW n \in 1..Len(s)
      PROVE  g[n] = IF n \in K THEN Append(g[n - 1], s[n]) ELSE g[n - 1]
  <2>1. n \in 0..Len(s) /\ n # 0
    BY <1>2
  <2> QED
    BY <1>1, <2>1
<1>5. \A n : Keep(s, K, n) = g[n]
  BY KeepIs DEF g
<1> QED
  BY <1>3, <1>4, <1>5

\* It returns a sequence of what is at those positions, no longer than what it
\* went through.
LEMMA KeepIn ==
  ASSUME NEW S, NEW R, NEW s \in Seq(S), NEW K, NEW n \in 0..Len(s),
         \A i \in 1..Len(s) : i \in K => s[i] \in R
  PROVE  Keep(s, K, n) \in Seq(R) /\ Len(Keep(s, K, n)) <= n
<1> DEFINE T == {m \in Nat : m <= Len(s) =>
                   Keep(s, K, m) \in Seq(R) /\ Len(Keep(s, K, m)) <= m}
<1>1. Len(s) \in Nat
  OBVIOUS
<1>2. 0 \in T
  <2>1. Keep(s, K, 0) = <<>>
    BY KeepStep
  <2>2. <<>> \in Seq(R) /\ Len(<<>>) <= 0
    OBVIOUS
  <2>3. Keep(s, K, 0) \in Seq(R) /\ Len(Keep(s, K, 0)) <= 0
    BY <2>1, <2>2, Zenon
  <2> QED
    BY <2>3
<1>3. ASSUME NEW m \in Nat, m \in T PROVE m + 1 \in T
  <2> SUFFICES ASSUME m + 1 <= Len(s)
               PROVE  /\ Keep(s, K, m + 1) \in Seq(R)
                      /\ Len(Keep(s, K, m + 1)) <= m + 1
    OBVIOUS
  <2> DEFINE x == Keep(s, K, m)
  <2>1. x \in Seq(R) /\ Len(x) <= m
    BY <1>1, <1>3
  <2>2. m + 1 \in 1..Len(s) /\ (m + 1) - 1 = m
    BY <1>1
  <2>3. Keep(s, K, m + 1) = IF m + 1 \in K THEN Append(x, s[m + 1]) ELSE x
    <3>1. \A i \in 1..Len(s) :
            Keep(s, K, i) = IF i \in K THEN Append(Keep(s, K, i - 1), s[i])
                            ELSE Keep(s, K, i - 1)
      BY KeepStep, ZenonT(60)
    <3> QED
      BY <2>2, <3>1
  <2> HIDE DEF x
  <2>4. CASE m + 1 \in K
    <3>1. s[m + 1] \in R
      BY <2>2, <2>4
    <3>2. Append(x, s[m + 1]) \in Seq(R) /\ Len(Append(x, s[m + 1])) <= m + 1
      BY <2>1, <3>1
    <3> QED
      BY <2>3, <2>4, <3>2, Zenon
  <2>5. CASE m + 1 \notin K
    <3>1. Len(x) <= m + 1
      BY <2>1
    <3> QED
      BY <2>1, <2>3, <2>5, <3>1, Zenon
  <2> QED
    BY <2>4, <2>5
<1>4. n \in T
  <2> HIDE DEF T
  <2> QED
    BY <1>1, <1>2, <1>3, SetInduction
<1> QED
  BY <1>1, <1>4

LEMMA KeepType ==
  ASSUME NEW S, NEW s \in Seq(S), NEW K, NEW n \in 0..Len(s)
  PROVE  Keep(s, K, n) \in Seq(S) /\ Len(Keep(s, K, n)) <= n
<1>1. \A i \in 1..Len(s) : i \in K => s[i] \in S
  OBVIOUS
<1> QED
  BY <1>1, KeepIn

\* The same for one element.
LEMMA KeepNext ==
  ASSUME NEW S, NEW s \in Seq(S), NEW K, NEW n \in Nat, n + 1 \in 1..Len(s)
  PROVE  Keep(s, K, n + 1) = IF n + 1 \in K THEN Append(Keep(s, K, n), s[n + 1])
                             ELSE Keep(s, K, n)
<1>1. \A i \in 1..Len(s) :
        Keep(s, K, i) = IF i \in K THEN Append(Keep(s, K, i - 1), s[i])
                        ELSE Keep(s, K, i - 1)
  BY KeepStep, ZenonT(60)
<1>2. (n + 1) - 1 = n
  OBVIOUS
<1> QED
  BY <1>1, <1>2

\* What it keeps of the first n elements depends on those and their positions only.
LEMMA KeepAgree ==
  ASSUME NEW S, NEW s \in Seq(S), NEW t \in Seq(S), NEW K, NEW L, NEW n \in Nat,
         n <= Len(s), n <= Len(t), \A i \in 1..n : s[i] = t[i] /\ (i \in K <=> i \in L)
  PROVE  Keep(s, K, n) = Keep(t, L, n)
<1>1. Len(s) \in Nat /\ Len(t) \in Nat
  OBVIOUS
<1>2. Keep(s, K, 0) = <<>> /\ Keep(t, L, 0) = <<>>
  BY KeepStep
<1> DEFINE T == {m \in Nat : m <= n => Keep(s, K, m) = Keep(t, L, m)}
<1>3. 0 \in T
  BY <1>2
<1>4. ASSUME NEW m \in Nat, m \in T PROVE m + 1 \in T
  <2> SUFFICES ASSUME m + 1 <= n PROVE Keep(s, K, m + 1) = Keep(t, L, m + 1)
    OBVIOUS
  <2>1. /\ m + 1 \in 1..Len(s) /\ m + 1 \in 1..Len(t) /\ m + 1 \in 1..n
        /\ (m + 1) - 1 = m /\ m <= n
    BY <1>1
  <2>2. Keep(s, K, m) = Keep(t, L, m)
    BY <1>4, <2>1
  <2>3. s[m + 1] = t[m + 1] /\ (m + 1 \in K <=> m + 1 \in L)
    BY <2>1
  <2>4. /\ Keep(s, K, m + 1) = IF m + 1 \in K THEN Append(Keep(s, K, m), s[m + 1])
                               ELSE Keep(s, K, m)
        /\ Keep(t, L, m + 1) = IF m + 1 \in L THEN Append(Keep(t, L, m), t[m + 1])
                               ELSE Keep(t, L, m)
    BY <2>1, KeepNext
  <2> QED
    BY <2>2, <2>3, <2>4
<1>5. n \in T
  <2> HIDE DEF T
  <2> QED
    BY <1>3, <1>4, SetInduction
<1> QED
  BY <1>5

LEMMA KeepNone ==
  ASSUME NEW S, NEW s \in Seq(S), NEW K, NEW n \in 0..Len(s), \A i \in 1..n : i \notin K
  PROVE  Keep(s, K, n) = <<>>
<1>1. Len(s) \in Nat /\ n \in Nat /\ n <= Len(s)
  OBVIOUS
<1>2. \A i \in 1..n : i \in {} <=> i \in K
  OBVIOUS
<1>3. Keep(s, K, n) = Keep(s, {}, n)
  BY <1>1, <1>2, KeepAgree
<1>4. Keep(s, {}, n) \in Seq({}) /\ Len(Keep(s, {}, n)) \in Nat
  <2>1. \A i \in 1..Len(s) : i \in {} => s[i] \in {}
    OBVIOUS
  <2>2. Keep(s, {}, n) \in Seq({})
    BY <2>1, KeepIn
  <2> QED
    BY <2>2
<1>5. Keep(s, {}, n) = <<>>
  <2> DEFINE x == Keep(s, {}, n)
  <2> HIDE DEF x
  <2>1. x \in Seq({})
    BY <1>4 DEF x
  <2>2. Len(x) = 0
    <3> SUFFICES ASSUME Len(x) # 0 PROVE FALSE
      OBVIOUS
    <3>1. 1 \in 1..Len(x)
      BY <2>1
    <3> QED
      BY <2>1, <3>1
  <2>3. x = <<>>
    BY <2>1, <2>2
  <2> QED
    BY <2>3 DEF x
<1> QED
  BY <1>3, <1>5

(***************************************************************************)
(* Texts cut into pieces.                                                  *)
(***************************************************************************)
\* One byte more changes the remainder by one, or makes it 0.
LEMMA Remainder ==
  ASSUME NEW x \in Nat, NEW k \in Nat, k >= 2
  PROVE  /\ x % k \in 0..(k - 1) /\ x % k <= x /\ 0 % k = 0
         /\ (x + 1) % k = IF x % k = k - 1 THEN 0 ELSE (x % k) + 1
<1> DEFINE q == x \div k
           r == x % k
           p == (x + 1) \div k
           u == (x + 1) % k
<1>1. r \in 0..(k - 1) /\ r <= x /\ 0 % k = 0 /\ u \in 0..(k - 1)
  OBVIOUS
<1>2. x = k * q + r /\ x + 1 = k * p + u /\ q \in Int /\ p \in Int
  BY Z3
<1> HIDE DEF q, r, p, u
<1>3. \A a, b, m, n \in Int :
        0 <= m /\ m < k /\ 0 <= n /\ n < k /\ a * k + m = b * k + n => m = n
  BY Z3
<1>4. CASE r = k - 1
  <2>1. p * k + u = (q + 1) * k + 0
    BY <1>1, <1>2, <1>4, Z3
  <2>2. u = 0
    BY <1>1, <1>2, <1>3, <2>1
  <2> QED
    BY <1>1, <1>4, <2>2 DEF r, u
<1>5. CASE r # k - 1
  <2>1. p * k + u = q * k + (r + 1)
    BY <1>1, <1>2, Z3
  <2>2. 0 <= r + 1 /\ r + 1 < k /\ 0 <= u /\ u < k /\ r + 1 \in Int /\ u \in Int
    BY <1>1, <1>5
  <2>3. u = r + 1
    BY <1>2, <1>3, <2>1, <2>2
  <2> QED
    BY <1>1, <1>5, <2>3 DEF r, u
<1> QED
  BY <1>4, <1>5

\* The text goes on with each element, or begins anew.
TextGoes(S, s, Sep, Drop) ==
  /\ TextAt(s, Sep, Drop, 0) = <<>>
  /\ \A i \in 0..Len(s) : TextAt(s, Sep, Drop, i) \in Seq(S \ (Sep \cup Drop))
  /\ \A i \in 1..Len(s) :
       TextAt(s, Sep, Drop, i) =
         IF s[i] \in Sep THEN <<>>
         ELSE IF s[i] \in Drop THEN TextAt(s, Sep, Drop, i - 1)
         ELSE Append(TextAt(s, Sep, Drop, i - 1), s[i])

LEMMA TextStep ==
  ASSUME NEW S, NEW s \in Seq(S), NEW Sep, NEW Drop
  PROVE  TextGoes(S, s, Sep, Drop)
<1> DEFINE K(i) == {k \in DOMAIN s : s[k] \notin Sep \cup Drop /\ \A j \in k..i : s[j] \notin Sep}
           Run(i) == TextAt(s, Sep, Drop, i)
<1>1. Len(s) \in Nat /\ DOMAIN s = 1..Len(s) /\ \A i \in 1..Len(s) : s[i] \in S
  OBVIOUS
<1>2. \A i : Run(i) = Keep(s, K(i), i)
  BY DEF TextAt
<1>3. \A i : \A k \in 1..Len(s) : k \in K(i) => s[k] \in S \ (Sep \cup Drop)
  BY <1>1
<1>4. ASSUME NEW i \in 1..Len(s)
      PROVE  /\ \A k \in 1..(i - 1) : s[i] \notin Sep => (k \in K(i) <=> k \in K(i - 1))
             /\ s[i] \notin Sep => (i \in K(i) <=> s[i] \notin Drop)
             /\ s[i] \in Sep => \A k \in 1..i : k \notin K(i)
  <2>1. ASSUME NEW k \in 1..(i - 1), s[i] \notin Sep PROVE k \in K(i) <=> k \in K(i - 1)
    <3>1. \A j \in k..i : j \in k..(i - 1) \/ j = i
      BY <1>1
    <3>2. \A j \in k..(i - 1) : j \in k..i
      BY <1>1
    <3> QED
      BY <2>1, <3>1, <3>2
  <2>2. s[i] \notin Sep => (i \in K(i) <=> s[i] \notin Drop)
    <3>1. \A j \in i..i : j = i
      BY <1>1
    <3> QED
      BY <1>1, <3>1
  <2>3. ASSUME s[i] \in Sep, NEW k \in 1..i PROVE k \notin K(i)
    <3>1. i \in k..i
      BY <1>1
    <3> QED
      BY <2>3, <3>1
  <2> QED
    BY <2>1, <2>2, <2>3
<1> HIDE DEF K
<1>5. ASSUME NEW i \in 1..Len(s)
      PROVE  Keep(s, K(i), i) = IF i \in K(i) THEN Append(Keep(s, K(i), i - 1), s[i])
                                ELSE Keep(s, K(i), i - 1)
  <2>1. \A k \in 1..Len(s) : Keep(s, K(i), k) = IF k \in K(i) THEN Append(Keep(s, K(i), k - 1), s[k])
                                                ELSE Keep(s, K(i), k - 1)
    BY KeepStep, ZenonT(60)
  <2> QED
    BY <2>1
<1>6. ASSUME NEW i \in 1..Len(s), s[i] \notin Sep PROVE Keep(s, K(i), i - 1) = Run(i - 1)
  <2>1. i - 1 \in Nat /\ i - 1 <= Len(s)
    BY <1>1
  <2>2. \A k \in 1..(i - 1) : s[k] = s[k] /\ (k \in K(i) <=> k \in K(i - 1))
    BY <1>4, <1>6
  <2>3. Keep(s, K(i), i - 1) = Keep(s, K(i - 1), i - 1)
    BY <2>1, <2>2, KeepAgree
  <2> QED
    BY <1>2, <2>3
<1> HIDE DEF Run
<1>7. ASSUME NEW i \in 1..Len(s)
      PROVE  Run(i) = IF s[i] \in Sep THEN <<>> ELSE IF s[i] \in Drop THEN Run(i - 1)
                      ELSE Append(Run(i - 1), s[i])
  <2>1. CASE s[i] \in Sep
    <3>1. i \in 0..Len(s) /\ \A k \in 1..i : k \notin K(i)
      BY <1>1, <1>4, <2>1
    <3>2. Keep(s, K(i), i) = <<>>
      BY <3>1, KeepNone
    <3> QED
      BY <1>2, <2>1, <3>2
  <2>2. CASE s[i] \notin Sep
    <3>1. Run(i) = IF i \in K(i) THEN Append(Run(i - 1), s[i]) ELSE Run(i - 1)
      BY <1>2, <1>5, <1>6, <2>2
    <3> QED
      BY <1>4, <2>2, <3>1
  <2> QED
    BY <2>1, <2>2
<1>8. ASSUME NEW i \in 0..Len(s) PROVE Run(i) \in Seq(S \ (Sep \cup Drop))
  <2>1. \A k \in 1..Len(s) : k \in K(i) => s[k] \in S \ (Sep \cup Drop)
    BY <1>3
  <2>2. Keep(s, K(i), i) \in Seq(S \ (Sep \cup Drop))
    BY <2>1, KeepIn
  <2> QED
    BY <1>2, <2>2
<1>9. Run(0) = <<>>
  BY <1>2, KeepStep
<1> QED
  BY <1>7, <1>8, <1>9 DEF Run, TextGoes

\* What is left of a text when the full pieces are taken off.
Left(r, w) == SubSeq(r, Len(r) - (Len(r) % (w + 1)) + 1, Len(r))

LeftGoes(R, r, w) ==
  /\ Left(r, w) \in Seq(R) /\ Len(Left(r, w)) \in 0..w
  /\ Left(<<>>, w) = <<>>
  /\ \A b \in R : Left(Append(r, b), w) = IF Len(Left(r, w)) = w THEN <<>>
                                          ELSE Append(Left(r, w), b)

LEMMA LeftStep ==
  ASSUME NEW R, NEW r \in Seq(R), NEW w \in Nat \ {0}
  PROVE  LeftGoes(R, r, w)
<1> DEFINE k == w + 1
           n == Len(r)
           l == n % k
<1>1. k \in Nat /\ k >= 2 /\ w \in Nat /\ n \in Nat
  OBVIOUS
<1>2. l \in 0..(k - 1) /\ l <= n /\ 0 % k = 0
  BY <1>1, Remainder
<1>3. (n + 1) % k = IF l = k - 1 THEN 0 ELSE l + 1
  BY <1>1, Remainder
<1>4. Left(r, w) = SubSeq(r, n - l + 1, n)
  BY DEF Left
<1>5. Left(<<>>, w) = SubSeq(<<>>, 0 - (0 % k) + 1, 0)
  BY DEF Left
<1>6. ASSUME NEW b \in R
      PROVE  Left(Append(r, b), w) = SubSeq(Append(r, b), (n + 1) - ((n + 1) % k) + 1, n + 1)
  <2>1. Len(Append(r, b)) = n + 1
    OBVIOUS
  <2> QED
    BY <2>1 DEF Left
<1> HIDE DEF k, l
<1>7. /\ Left(r, w) \in Seq(R) /\ Len(Left(r, w)) = l
      /\ \A i \in 1..l : Left(r, w)[i] = r[n - l + i]
  <2>1. n - l + 1 \in 1..(n + 1) /\ n - (n - l + 1) + 1 = l
    BY <1>1, <1>2
  <2> QED
    BY <1>1, <1>2, <1>4, <2>1
<1>8. Left(<<>>, w) = <<>>
  BY <1>2, <1>5
<1>9. ASSUME NEW b \in R
      PROVE  Left(Append(r, b), w) = IF l = k - 1 THEN <<>> ELSE Append(Left(r, w), b)
  <2> DEFINE a == Append(r, b)
  <2>1. /\ a \in Seq(R) /\ Len(a) = n + 1 /\ a[n + 1] = b
        /\ \A i \in 1..n : a[i] = r[i]
    OBVIOUS
  <2>2. Left(a, w) = SubSeq(a, (n + 1) - ((n + 1) % k) + 1, n + 1)
    BY <1>6
  <2> HIDE DEF a
  <2>3. CASE l = k - 1
    <3>1. Left(a, w) = SubSeq(a, (n + 1) + 1, n + 1)
      <4>1. (n + 1) - 0 + 1 = (n + 1) + 1 /\ (n + 1) % k = 0
        BY <1>1, <1>3, <2>3
      <4> QED
        BY <2>2, <4>1
    <3>2. SubSeq(a, (n + 1) + 1, n + 1) = <<>>
      BY <1>1, <2>1
    <3> QED
      BY <2>3, <3>1, <3>2 DEF a
  <2>4. CASE l # k - 1
    <3>1. Left(a, w) = SubSeq(a, n - l + 1, n + 1)
      <4>1. (n + 1) - (l + 1) + 1 = n - l + 1
        BY <1>1, <1>2
      <4> QED
        BY <1>3, <2>2, <2>4, <4>1
    <3>2. SubSeq(a, n - l + 1, n + 1) = Append(Left(r, w), b)
      <4> DEFINE x == SubSeq(a, n - l + 1, n + 1)
                 y == Append(Left(r, w), b)
      <4>1. /\ x \in Seq(R) /\ Len(x) = l + 1
            /\ \A i \in 1..(l + 1) : x[i] = a[n - l + i]
        <5>1. n - l + 1 \in 1..(n + 1) /\ (n + 1) - (n - l + 1) + 1 = l + 1
          BY <1>1, <1>2
        <5> QED
          BY <1>1, <1>2, <2>1, <5>1
      <4>2. /\ y \in Seq(R) /\ Len(y) = l + 1 /\ y[l + 1] = b
            /\ \A i \in 1..l : y[i] = Left(r, w)[i]
        BY <1>7
      <4>3. ASSUME NEW i \in 1..(l + 1) PROVE x[i] = y[i]
        <5>1. CASE i = l + 1
          <6>1. n - l + i = n + 1
            BY <1>1, <1>2, <5>1
          <6> QED
            BY <2>1, <4>1, <4>2, <5>1, <6>1
        <5>2. CASE i # l + 1
          <6>1. i \in 1..l /\ n - l + i \in 1..n
            BY <1>1, <1>2, <5>2
          <6>2. x[i] = a[n - l + i] /\ a[n - l + i] = r[n - l + i]
            BY <2>1, <4>1, <6>1
          <6> QED
            BY <1>7, <4>2, <6>1, <6>2
        <5> QED
          BY <5>1, <5>2
      <4> HIDE DEF x, y
      <4>4. x = y
        BY <1>2, <4>1, <4>2, <4>3
      <4> QED
        BY <4>4 DEF x, y
    <3> QED
      BY <2>4, <3>1, <3>2 DEF a
  <2> QED
    BY <2>3, <2>4
<1>10. k - 1 = w /\ 0..(k - 1) = 0..w
  BY <1>1 DEF k
<1> QED
  BY <1>2, <1>7, <1>8, <1>9, <1>10 DEF LeftGoes


LEMMA AppendFacts ==
  ASSUME NEW S, NEW v \in Seq(S), NEW w \in Seq(S), NEW b \in S
  PROVE  Append(v, b) # <<>> /\ Append(w \o v, b) = w \o Append(v, b)
<1>1. Append(v, b) \in Seq(S) /\ Len(Append(v, b)) = Len(v) + 1 /\ Len(v) \in Nat
  OBVIOUS
<1>2. Append(v, b) # <<>>
  <2> DEFINE x == Append(v, b)
  <2>1. Len(x) = Len(v) + 1 /\ Len(v) \in Nat
    BY <1>1
  <2> HIDE DEF x
  <2>2. x # <<>>
    BY <2>1
  <2> QED
    BY <2>2 DEF x
<1>3. Append(w \o v, b) = w \o Append(v, b)
  <2> DEFINE x == Append(w \o v, b)
             y == w \o Append(v, b)
  <2>1. /\ x \in Seq(S) /\ y \in Seq(S) /\ Len(x) = Len(w) + Len(v) + 1 /\ Len(y) = Len(x)
        /\ Len(w) \in Nat
    BY <1>1
  <2>2. ASSUME NEW i \in 1..Len(x) PROVE x[i] = y[i]
    <3>1. CASE i <= Len(w)
      BY <1>1, <2>1, <3>1
    <3>2. CASE i > Len(w) /\ i <= Len(w) + Len(v)
      BY <1>1, <2>1, <3>2
    <3>3. CASE i = Len(w) + Len(v) + 1
      BY <1>1, <2>1, <3>3
    <3> QED
      BY <1>1, <2>1, <3>1, <3>2, <3>3
  <2> HIDE DEF x, y
  <2>3. x = y
    BY <2>1, <2>2
  <2> QED
    BY <2>3 DEF x, y
<1> QED
  BY <1>2, <1>3

\* An element that ends a piece; what the piece begun and the pieces are after an
\* element.
EndsPiece(b, c, Sep, Drop, w) == c \in Sep \/ (c \notin Drop /\ Len(b) = w)
NextPiece(b, c, Sep, Drop, w) ==
  IF EndsPiece(b, c, Sep, Drop, w) THEN <<>> ELSE IF c \in Drop THEN b ELSE Append(b, c)
NextPieces(l, b, c, Sep, Drop, w) ==
  IF EndsPiece(b, c, Sep, Drop, w) /\ b # <<>> THEN Append(l, b) ELSE l

PieceGoes(S, s, Sep, Drop, w) ==
  /\ PieceAt(s, Sep, Drop, w, 0) = <<>>
  /\ \A i \in 0..Len(s) : /\ PieceAt(s, Sep, Drop, w, i) \in Seq(S \ (Sep \cup Drop))
                          /\ Len(PieceAt(s, Sep, Drop, w, i)) \in 0..w
  /\ \A i \in 1..Len(s) :
       PieceAt(s, Sep, Drop, w, i) =
         NextPiece(PieceAt(s, Sep, Drop, w, i - 1), s[i], Sep, Drop, w)

LEMMA PieceStep ==
  ASSUME NEW S, NEW s \in Seq(S), NEW Sep, NEW Drop, NEW w \in Nat \ {0}
  PROVE  PieceGoes(S, s, Sep, Drop, w)
<1> DEFINE R == S \ (Sep \cup Drop)
           T(i) == TextAt(s, Sep, Drop, i)
           B(i) == PieceAt(s, Sep, Drop, w, i)
<1>1. \A i : B(i) = Left(T(i), w)
  BY DEF PieceAt, Left
<1>2. /\ T(0) = <<>> /\ Len(s) \in Nat
      /\ \A i \in 0..Len(s) : T(i) \in Seq(R)
      /\ \A i \in 1..Len(s) : T(i) = IF s[i] \in Sep THEN <<>>
                                     ELSE IF s[i] \in Drop THEN T(i - 1)
                                     ELSE Append(T(i - 1), s[i])
  <2>1. /\ T(0) = <<>>
        /\ \A i \in 0..Len(s) : T(i) \in Seq(R)
        /\ \A i \in 1..Len(s) : T(i) = IF s[i] \in Sep THEN <<>>
                                       ELSE IF s[i] \in Drop THEN T(i - 1)
                                       ELSE Append(T(i - 1), s[i])
    <3>1. TextGoes(S, s, Sep, Drop)
      BY TextStep
    <3> QED
      BY <3>1 DEF TextGoes
  <2> QED
    BY <2>1
<1>3. \A i \in 1..Len(s) : s[i] \in S /\ (s[i] \notin Sep /\ s[i] \notin Drop => s[i] \in R)
  OBVIOUS
<1> HIDE DEF R, T, B
<1>4. /\ Left(<<>>, w) = <<>>
      /\ \A r \in Seq(R) : /\ Left(r, w) \in Seq(R) /\ Len(Left(r, w)) \in 0..w
                           /\ \A b \in R : Left(Append(r, b), w) =
                                IF Len(Left(r, w)) = w THEN <<>> ELSE Append(Left(r, w), b)
  <2>1. <<>> \in Seq(R)
    OBVIOUS
  <2>2. ASSUME NEW r \in Seq(R)
        PROVE  /\ Left(<<>>, w) = <<>>
               /\ Left(r, w) \in Seq(R) /\ Len(Left(r, w)) \in 0..w
               /\ \A b \in R : Left(Append(r, b), w) =
                    IF Len(Left(r, w)) = w THEN <<>> ELSE Append(Left(r, w), b)
    <3>1. LeftGoes(R, r, w)
      BY LeftStep
    <3> QED
      BY <3>1 DEF LeftGoes
  <2> QED
    BY <2>1, <2>2
<1>5. ASSUME NEW i \in 1..Len(s) PROVE B(i) = NextPiece(B(i - 1), s[i], Sep, Drop, w)
  <2>1. i - 1 \in 0..Len(s)
    BY <1>2
  <2>2. T(i - 1) \in Seq(R)
    BY <1>2, <2>1
  <2>3. B(i) = Left(T(i), w) /\ B(i - 1) = Left(T(i - 1), w)
    BY <1>1
  <2>4. CASE s[i] \in Sep
    BY <1>2, <1>4, <2>3, <2>4 DEF NextPiece, EndsPiece
  <2>5. CASE s[i] \notin Sep /\ s[i] \in Drop
    <3>1. T(i) = T(i - 1)
      BY <1>2, <2>5
    <3> QED
      BY <2>3, <2>5, <3>1 DEF NextPiece, EndsPiece
  <2>6. CASE s[i] \notin Sep /\ s[i] \notin Drop
    <3>1. T(i) = Append(T(i - 1), s[i]) /\ s[i] \in R
      BY <1>2, <1>3, <2>6
    <3>2. B(i) = IF Len(B(i - 1)) = w THEN <<>> ELSE Append(B(i - 1), s[i])
      BY <1>4, <2>2, <2>3, <3>1
    <3> QED
      BY <2>6, <3>2 DEF NextPiece, EndsPiece
  <2> QED
    BY <2>4, <2>5, <2>6
<1>6. \A i \in 0..Len(s) : B(i) \in Seq(R) /\ Len(B(i)) \in 0..w
  BY <1>1, <1>2, <1>4
<1>7. B(0) = <<>>
  BY <1>1, <1>2, <1>4
<1> QED
  BY <1>5, <1>6, <1>7 DEF B, R, PieceGoes

PiecesGo(S, s, Sep, Drop, w) ==
  /\ PiecesTo(s, Sep, Drop, w, 0) = <<>>
  /\ \A i \in 0..Len(s) :
       PiecesTo(s, Sep, Drop, w, i) \in Seq(Seq(S \ (Sep \cup Drop)))
  /\ \A i \in 1..Len(s) :
       PiecesTo(s, Sep, Drop, w, i) =
         NextPieces(PiecesTo(s, Sep, Drop, w, i - 1), PieceAt(s, Sep, Drop, w, i - 1),
                    s[i], Sep, Drop, w)

LEMMA PiecesStep ==
  ASSUME NEW S, NEW s \in Seq(S), NEW Sep, NEW Drop, NEW w \in Nat \ {0}
  PROVE  PiecesGo(S, s, Sep, Drop, w)
<1> DEFINE R == S \ (Sep \cup Drop)
           B(i) == PieceAt(s, Sep, Drop, w, i)
           Ends(i) == s[i] \in Sep \/ (s[i] \notin Drop /\ B(i) = <<>>)
           q == [i \in DOMAIN s |-> B(i - 1)]
           K == {i \in DOMAIN s : Ends(i) /\ B(i - 1) # <<>>}
           P(n) == PiecesTo(s, Sep, Drop, w, n)
<1>1. Len(s) \in Nat /\ DOMAIN s = 1..Len(s) /\ \A i \in 1..Len(s) : s[i] \in S
  OBVIOUS
<1>2. \A n : P(n) = Keep(q, K, n)
  BY DEF PiecesTo
<1>3. /\ \A i \in 0..Len(s) : B(i) \in Seq(R)
      /\ \A i \in 1..Len(s) : B(i) = NextPiece(B(i - 1), s[i], Sep, Drop, w)
  <2>1. PieceGoes(S, s, Sep, Drop, w)
    BY PieceStep
  <2> QED
    BY <2>1 DEF PieceGoes
<1>4. \A i \in 1..Len(s) : s[i] \notin Sep /\ s[i] \notin Drop => s[i] \in R
  OBVIOUS
<1> HIDE DEF R, B, P
<1>5. \A i \in 1..Len(s) : i - 1 \in 0..Len(s)
  BY <1>1
<1>6. ASSUME NEW i \in 1..Len(s)
      PROVE  Ends(i) <=> EndsPiece(B(i - 1), s[i], Sep, Drop, w)
  <2>1. B(i - 1) \in Seq(R)
    BY <1>3, <1>5
  <2>2. s[i] \notin Sep /\ s[i] \notin Drop => Append(B(i - 1), s[i]) # <<>>
    BY <1>4, <2>1, AppendFacts
  <2> QED
    BY <1>3, <2>2 DEF NextPiece, EndsPiece
<1>7. q \in Seq(Seq(R)) /\ Len(q) = Len(s) /\ \A i \in 1..Len(s) : q[i] = B(i - 1)
  <2>1. \A i \in 1..Len(s) : B(i - 1) \in Seq(R)
    BY <1>3, <1>5
  <2> QED
    BY <1>1, <2>1
<1>8. \A i \in 1..Len(s) : i \in K <=> Ends(i) /\ B(i - 1) # <<>>
  BY <1>1
<1> HIDE DEF q, K, Ends
<1>9. /\ Keep(q, K, 0) = <<>>
      /\ \A i \in 1..Len(q) : Keep(q, K, i) = IF i \in K THEN Append(Keep(q, K, i - 1), q[i])
                                              ELSE Keep(q, K, i - 1)
  BY <1>7, KeepStep, ZenonT(60)
<1>10. ASSUME NEW i \in 1..Len(s)
       PROVE  P(i) = NextPieces(P(i - 1), B(i - 1), s[i], Sep, Drop, w)
  <2>1. Keep(q, K, i) = IF i \in K THEN Append(Keep(q, K, i - 1), q[i]) ELSE Keep(q, K, i - 1)
    BY <1>7, <1>9
  <2> QED
    BY <1>2, <1>6, <1>7, <1>8, <2>1 DEF NextPieces
<1>11. \A i \in 0..Len(s) : P(i) \in Seq(Seq(R))
  <2>1. \A i \in 0..Len(q) : Keep(q, K, i) \in Seq(Seq(R))
    BY <1>7, KeepType
  <2> QED
    BY <1>2, <1>7, <2>1
<1> QED
  BY <1>2, <1>9, <1>10, <1>11 DEF P, B, R, PiecesGo
=============================================================================
