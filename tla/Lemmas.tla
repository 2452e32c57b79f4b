------------------------------- MODULE Lemmas -------------------------------
(***************************************************************************)
(* What the proofs need of integers, finite sets and sequences, whatever   *)
(* they are about.                                                         *)
(***************************************************************************)
EXTENDS Integers, SequencesExt, FiniteSetTheorems, SequenceTheorems, WellFoundedInduction, TLAPS

-----------------------------------------------------------------------------
(* Numbers.                                                                *)

\* The smaller of two numbers.
LEMMA MinOfTwo ==
    ASSUME NEW a \in Int, NEW b \in Int
    PROVE  Min({a, b}) = IF a <= b THEN a ELSE b
<1>1. \E x \in {a, b} : \A y \in {a, b} : x <= y
    <2>1. CASE a <= b
        BY <2>1
    <2>2. CASE ~(a <= b)
        BY <2>2
    <2>3. QED BY <2>1, <2>2
<1>2. Min({a, b}) \in {a, b} /\ \A y \in {a, b} : Min({a, b}) <= y
    BY <1>1 DEF Min
<1>3. QED BY <1>2

\* The larger of two numbers.
LEMMA MaxOfTwo ==
    ASSUME NEW a \in Int, NEW b \in Int
    PROVE  Max({a, b}) = IF a <= b THEN b ELSE a
<1>1. \E x \in {a, b} : \A y \in {a, b} : x >= y
    <2>1. CASE a <= b
        BY <2>1
    <2>2. CASE ~(a <= b)
        BY <2>2
    <2>3. QED BY <2>1, <2>2
<1>2. Max({a, b}) \in {a, b} /\ \A y \in {a, b} : Max({a, b}) >= y
    BY <1>1 DEF Max
<1>3. QED BY <1>2

\* Every set of numbers that is not empty has a least one.
LEMMA Least ==
    ASSUME NEW T \in SUBSET Nat, T # {}
    PROVE  \E m \in T : \A k \in T : m <= k
<1> DEFINE Below == {0 .. n - 1 : n \in T}
<1>1. IsWellFoundedOn(StrictSubsetOrdering(Nat), FiniteSubsetsOf(Nat))
    BY FS_StrictSubsetOrderingWellFounded
<1>2. \A n \in T : 0 .. n - 1 \in FiniteSubsetsOf(Nat)
    BY FS_Interval DEF FiniteSubsetsOf
<1>3. Below \subseteq FiniteSubsetsOf(Nat) /\ Below # {}
    BY <1>2
<1>4. PICK x \in Below : \A y \in Below : <<y, x>> \notin StrictSubsetOrdering(Nat)
    BY <1>1, <1>3, WFMin, Zenon
<1>5. PICK m \in T : x = 0 .. m - 1
    BY <1>4
<1>6. \A k \in T : m <= k
    <2> SUFFICES ASSUME NEW k \in T, k < m PROVE FALSE
        OBVIOUS
    <2>1. 0 .. k - 1 \in Below
        OBVIOUS
    <2>2. 0 .. k - 1 \subseteq 0 .. m - 1 /\ k \in 0 .. m - 1 /\ k \notin 0 .. k - 1
        OBVIOUS
    <2>3. <<0 .. k - 1, 0 .. m - 1>> \in StrictSubsetOrdering(Nat)
        BY <2>2 DEF StrictSubsetOrdering
    <2>4. QED BY <1>4, <1>5, <2>1, <2>3
<1>7. QED BY <1>6

\* Induction over the members of a set.
LEMMA Induct ==
    ASSUME NEW S, 0 \in S, \A n \in Nat : n \in S => n + 1 \in S
    PROVE  Nat \subseteq S
<1> SUFFICES ASSUME NEW n \in Nat, n \notin S PROVE FALSE
    OBVIOUS
<1>1. PICK m \in Nat \ S : \A k \in Nat \ S : m <= k
    BY Least
<1>2. m # 0
    BY <1>1
<1>3. m - 1 \in Nat /\ m - 1 \in S
    BY <1>1, <1>2
<1>4. QED BY <1>1, <1>3

\* Quotient and remainder.
LEMMA Division ==
    ASSUME NEW n \in Int, NEW d \in Nat \ {0}
    PROVE  /\ n \div d \in Int /\ n % d \in 0 .. d - 1
           /\ n = d * (n \div d) + (n % d)
OBVIOUS

\* Multiplication by a natural number keeps the order.
LEMMA Times == ASSUME NEW x \in Int, NEW y \in Int, x <= y, NEW w \in Nat PROVE w * x <= w * y
<1>1. w * (y - x) \in Nat
    OBVIOUS
<1>2. w * (y - x) = w * y - w * x
    OBVIOUS
<1>3. w * y \in Int /\ w * x \in Int
    OBVIOUS
<1>4. QED BY <1>1, <1>2, <1>3

\* So does that of both factors.
LEMMA TimesBoth ==
    ASSUME NEW r \in Nat, NEW k \in Nat, r <= k, NEW w \in Nat, NEW x \in Int, x <= w
    PROVE  r * x <= k * w
<1>1. r * x <= r * w
    BY Times
<1>2. w * r <= w * k
    BY Times
<1>3. r * x \in Int /\ r * w \in Int /\ k * w \in Int /\ w * r = r * w /\ w * k = k * w
    OBVIOUS
<1>4. QED BY <1>1, <1>2, <1>3

\* A multiple that does not exceed a number is at most its quotient.
LEMMA Quotient ==
    ASSUME NEW M \in Nat \ {0}, NEW x \in Int, NEW y \in Int, M * x <= y
    PROVE  x <= y \div M
<1> DEFINE k == y \div M
           m == y % M
<1>1. k \in Int /\ m \in 0 .. M - 1 /\ y = (M * k) + m
    BY Division
<1> HIDE DEF k, m
<1>2. SUFFICES ASSUME k + 1 <= x PROVE FALSE
    BY <1>1 DEF k
<1>3. M * (k + 1) <= M * x
    BY <1>1, <1>2, Times
<1>4. M * (k + 1) = (M * k) + M /\ M * k \in Int /\ M * x \in Int
    BY <1>1
<1>5. QED BY <1>1, <1>3, <1>4

\* What the bound on overtaking, k(k + 1) halved, needs of its terms.
LEMMA Products ==
    ASSUME NEW k \in Nat
    PROVE  /\ k * (k + 1) \in Nat /\ 2 * k <= k * (k + 1)
           /\ (k + 1) * ((k + 1) + 1) = k * (k + 1) + 2 * (k + 1)
<1>1. k * (k + 1) = k * k + k /\ k * k \in Nat
    OBVIOUS
<1>2. k <= k * k
    <2>1. CASE k = 0
        BY <2>1
    <2>2. CASE k # 0
        <3>1. k * k - k = k * (k - 1) /\ k - 1 \in Nat
            BY <2>2
        <3>2. k * (k - 1) \in Nat
            BY <3>1
        <3>3. QED BY <3>1, <3>2, <1>1
    <2>3. QED BY <2>1, <2>2
<1>3. (k + 1) * ((k + 1) + 1) = k * k + k + 2 * k + 2
    OBVIOUS
<1>4. QED BY <1>1, <1>2, <1>3

\* Products of larger numbers are larger.
LEMMA LargerProducts ==
    ASSUME NEW k \in Nat, NEW n \in Nat, k <= n
    PROVE  k * (k + 1) <= n * (n + 1)
<1>1. n * (n + 1) - k * (k + 1) = (n - k) * (n + k + 1)
    OBVIOUS
<1>2. (n - k) * (n + k + 1) \in Nat
    <2>1. n - k \in Nat /\ n + k + 1 \in Nat
        OBVIOUS
    <2>2. QED BY <2>1
<1>3. k * (k + 1) \in Nat /\ n * (n + 1) \in Nat
    OBVIOUS
<1>4. QED BY <1>1, <1>2, <1>3


-----------------------------------------------------------------------------
(* Sequences.                                                              *)

\* What a sequence has at its positions is finite.
LEMMA SeqSetFinite ==
    ASSUME NEW S, NEW s \in Seq(S)
    PROVE  IsFiniteSet(ToSet(s)) /\ Cardinality(ToSet(s)) \in Nat /\ ToSet(s) \subseteq S
<1>1. /\ s \in [1 .. Len(s) -> S] /\ DOMAIN s = 1 .. Len(s) /\ Len(s) \in Nat
    BY LenProperties
<1>2. s \in Surjection(1 .. Len(s), ToSet(s))
    BY <1>1 DEF ToSet, Surjection
<1>3. IsFiniteSet(1 .. Len(s))
    BY <1>1, FS_Interval
<1>4. IsFiniteSet(ToSet(s))
    BY <1>2, <1>3, FS_Surjection
<1>5. QED BY <1>1, <1>4, FS_CardinalityType DEF ToSet

\* An enumeration of a finite set has each of its elements at one position.
LEMMA Enumerated ==
    ASSUME NEW S, IsFiniteSet(S), NEW e \in SetToSeqs(S)
    PROVE  /\ e \in Seq(S) /\ ToSet(e) = S
           /\ DOMAIN e = 1 .. Len(e)
<1> DEFINE n == Cardinality(S)
<1>1. n \in Nat
    BY FS_CardinalityType
<1>2. e \in [1 .. n -> S] /\ \A i, j \in 1 .. n : i # j => e[i] # e[j]
    BY DEF SetToSeqs
<1>3. e \in Injection(1 .. n, S)
    BY <1>2 DEF Injection, IsInjective
<1>4. Cardinality(1 .. n) = n
    BY <1>1, FS_Interval
<1>5. e \in Surjection(1 .. n, S)
    BY <1>3, <1>4, FS_Injection
<1>6. ToSet(e) = S
    BY <1>2, <1>5 DEF ToSet, Surjection
<1>7. e \in Seq(S) /\ DOMAIN e = 1 .. Len(e)
    BY <1>1, <1>2
<1>8. QED BY <1>6, <1>7

\* What is left of a sequence without the element at i.
LEMMA OneLess ==
    ASSUME NEW S, NEW s \in Seq(S), NEW i \in DOMAIN s
    PROVE  /\ RemoveAt(s, i) \in Seq(S) /\ Len(RemoveAt(s, i)) = Len(s) - 1
           /\ \A w \in S \ {s[i]} : w \in ToSet(RemoveAt(s, i)) <=> w \in ToSet(s)
           /\ \A j \in 1 .. Len(s) - 1 : RemoveAt(s, i)[j] = IF j < i THEN s[j] ELSE s[j + 1]
<1> DEFINE a == SubSeq(s, 1, i - 1)
           b == SubSeq(s, i + 1, Len(s))
           t == a \o b
<1>1. /\ Len(s) \in Nat /\ DOMAIN s = 1 .. Len(s) /\ i \in 1 .. Len(s)
      /\ \A j \in 1 .. Len(s) : s[j] \in S
    BY LenProperties, ElementOfSeq
<1>2. /\ a \in Seq(S) /\ Len(a) = i - 1
      /\ \A j \in 1 .. i - 1 : a[j] = s[j]
    <2>1. \A j \in 1 .. i - 1 : s[j] \in S
        BY <1>1
    <2>2. QED BY <1>1, <2>1, SubSeqProperties
<1>3. /\ b \in Seq(S) /\ Len(b) = Len(s) - i
      /\ \A j \in 1 .. Len(s) - i : b[j] = s[i + j]
    <2>1. \A j \in i + 1 .. Len(s) : s[j] \in S
        BY <1>1
    <2>2. /\ b \in Seq(S) /\ Len(b) = IF i + 1 <= Len(s) THEN Len(s) - (i + 1) + 1 ELSE 0
          /\ \A j \in 1 .. Len(s) - (i + 1) + 1 : b[j] = s[i + 1 + j - 1]
        BY <1>1, <2>1, SubSeqProperties
    <2>3. Len(b) = Len(s) - i
        BY <1>1, <2>2
    <2>4. ASSUME NEW j \in 1 .. Len(s) - i PROVE b[j] = s[i + j]
        <3>1. j \in 1 .. Len(s) - (i + 1) + 1 /\ i + 1 + j - 1 = i + j
            BY <1>1
        <3>2. QED BY <2>2, <3>1
    <2>5. QED BY <2>2, <2>3, <2>4
<1> HIDE DEF a, b
<1>4. /\ t \in Seq(S) /\ Len(t) = Len(s) - 1
      /\ \A j \in 1 .. Len(s) - 1 : t[j] = IF j < i THEN s[j] ELSE s[j + 1]
    <2>1. /\ t \in Seq(S) /\ Len(t) = Len(a) + Len(b)
          /\ \A j \in 1 .. Len(a) + Len(b) : t[j] = IF j <= Len(a) THEN a[j] ELSE b[j - Len(a)]
        BY <1>2, <1>3, ConcatProperties
    <2> HIDE DEF t
    <2>2. Len(a) + Len(b) = Len(s) - 1
        BY <1>1, <1>2, <1>3
    <2>3. ASSUME NEW j \in 1 .. Len(s) - 1, j < i PROVE t[j] = s[j]
        BY <1>1, <1>2, <2>1, <2>2, <2>3
    <2>4. ASSUME NEW j \in 1 .. Len(s) - 1, ~(j < i) PROVE t[j] = s[j + 1]
        <3>1. t[j] = b[j - (i - 1)]
            BY <1>1, <1>2, <2>1, <2>2, <2>4
        <3>2. j - (i - 1) \in 1 .. Len(s) - i /\ i + (j - (i - 1)) = j + 1
            BY <1>1, <2>4
        <3>3. QED BY <1>3, <3>1, <3>2
    <2>5. QED BY <2>1, <2>2, <2>3, <2>4
<1> HIDE DEF t
<1>5. RemoveAt(s, i) = t
    BY DEF RemoveAt, t, a, b
<1>6. DOMAIN t = 1 .. Len(s) - 1
    BY <1>1, <1>4, LenProperties
<1>7. ASSUME NEW w \in S \ {s[i]}
      PROVE  w \in ToSet(t) <=> w \in ToSet(s)
    <2>1. ASSUME w \in ToSet(t) PROVE w \in ToSet(s)
        <3>1. PICK j \in 1 .. Len(s) - 1 : t[j] = w
            BY <2>1, <1>6 DEF ToSet
        <3>2. w = s[j] \/ w = s[j + 1]
            BY <3>1, <1>4
        <3>3. QED BY <3>1, <3>2, <1>1 DEF ToSet
    <2>2. ASSUME w \in ToSet(s) PROVE w \in ToSet(t)
        <3>1. PICK j \in 1 .. Len(s) : s[j] = w
            BY <2>2, <1>1 DEF ToSet
        <3>2. j # i
            BY <3>1
        <3>3. CASE j < i
            BY <3>1, <3>3, <1>1, <1>4, <1>6 DEF ToSet
        <3>4. CASE j > i
            <4>1. j - 1 \in 1 .. Len(s) - 1 /\ t[j - 1] = w
                BY <3>1, <3>4, <1>1, <1>4
            <4>2. QED BY <4>1, <1>6 DEF ToSet
        <3>5. QED BY <3>2, <3>3, <3>4, <1>1, <3>1
    <2>3. QED BY <2>1, <2>2
<1>8. QED BY <1>4, <1>5, <1>7

\* Induction over the subsets of a finite set.
LEMMA SetInduct ==
    ASSUME NEW S, IsFiniteSet(S), NEW A, {} \in A,
           \A T \in SUBSET S : T # {} /\ (\A x \in T : T \ {x} \in A) => T \in A
    PROVE  SUBSET S \subseteq A
<1> DEFINE Have == {n \in Nat : \A T \in SUBSET S : Cardinality(T) = n => T \in A}
<1>1. \A T \in SUBSET S : IsFiniteSet(T) /\ Cardinality(T) \in Nat
    BY FS_Subset, FS_CardinalityType
<1>2. 0 \in Have
    BY <1>1, FS_EmptySet
<1>3. ASSUME NEW n \in Nat, n \in Have PROVE n + 1 \in Have
    <2> SUFFICES ASSUME NEW T \in SUBSET S, Cardinality(T) = n + 1 PROVE T \in A
        OBVIOUS
    <2>1. T # {}
        BY <1>1, FS_EmptySet
    <2>2. ASSUME NEW x \in T PROVE T \ {x} \in A
        <3>1. Cardinality(T \ {x}) = n
            BY <1>1, FS_RemoveElement
        <3>2. QED BY <1>3, <3>1
    <2>3. QED BY <2>1, <2>2
<1> HIDE DEF Have
<1>4. Nat \subseteq Have
    BY <1>2, <1>3, Induct
<1>5. QED BY <1>1, <1>4 DEF Have

\* pick names a member of each set of some elements.
Picks(pick, S) ==
    pick \in [(SUBSET S) \ {{}} -> S] /\ \A T \in (SUBSET S) \ {{}} : pick[T] \in T

\* f is what F makes of the members of a set, picked one by one, and of b.
Recurs(f, S, V, b, pick, F) ==
    /\ f \in [SUBSET S -> V]
    /\ \A T \in SUBSET S : f[T] = IF T = {} THEN b ELSE F[pick[T]][f[T \ {pick[T]}]]

\* There is such a function.
LEMMA Recursion ==
    ASSUME NEW S, IsFiniteSet(S), NEW V, NEW b \in V, NEW pick, Picks(pick, S),
           NEW F \in [S -> [V -> V]]
    PROVE  \E f : Recurs(f, S, V, b, pick, F)
<1> USE DEF Picks
<1> DEFINE Value(f, T) == IF T = {} THEN b ELSE F[pick[T]][f[T \ {pick[T]}]]
           Upto(f, n) == \A T \in SUBSET S : Cardinality(T) <= n => f[T] = Value(f, T)
           Have == {n \in Nat : \E f \in [SUBSET S -> V] : Upto(f, n)}
<1>1. \A T \in SUBSET S : IsFiniteSet(T) /\ Cardinality(T) \in Nat
                          /\ Cardinality(T) <= Cardinality(S)
    BY FS_Subset, FS_CardinalityType
<1>2. \A T \in SUBSET S : T # {} => /\ T \ {pick[T]} \in SUBSET S
                                    /\ Cardinality(T \ {pick[T]}) = Cardinality(T) - 1
    BY <1>1, FS_RemoveElement
<1>3. ASSUME NEW T \in SUBSET S, Cardinality(T) <= 0 PROVE T = {}
    <2> HIDE DEF Value, Upto, Have
    <2>1. IsFiniteSet(T) /\ Cardinality(T) \in Nat
        BY <1>1
    <2>2. Cardinality(T) = 0
        BY <1>3, <2>1
    <2>3. QED BY <2>1, <2>2, FS_EmptySet
<1>4. \A f \in [SUBSET S -> V], T \in SUBSET S : Value(f, T) \in V
    <2> TAKE f \in [SUBSET S -> V], T \in SUBSET S
    <2>1. ASSUME T # {} PROVE F[pick[T]][f[T \ {pick[T]}]] \in V
        <3>1. pick[T] \in S /\ f[T \ {pick[T]}] \in V
            BY <2>1
        <3>2. QED BY <3>1
    <2>2. QED BY <2>1
<1>5. 0 \in Have
    <2> DEFINE g == [T \in SUBSET S |-> b]
    <2>1. g \in [SUBSET S -> V]
        OBVIOUS
    <2>2. Upto(g, 0)
        BY <1>3
    <2> HIDE DEF g, Upto
    <2>3. QED BY <2>1, <2>2
<1>6. ASSUME NEW n \in Nat, n \in Have PROVE n + 1 \in Have
    <2>1. PICK f \in [SUBSET S -> V] : Upto(f, n)
        BY <1>6
    <2> DEFINE g == [T \in SUBSET S |-> IF Cardinality(T) <= n THEN f[T] ELSE Value(f, T)]
    <2>2. g \in [SUBSET S -> V]
        <3>1. \A T \in SUBSET S : f[T] \in V /\ Value(f, T) \in V
            BY <1>4
        <3> HIDE DEF Value
        <3>2. QED BY <3>1
    <2>3. ASSUME NEW T \in SUBSET S, Cardinality(T) <= n + 1 PROVE g[T] = Value(g, T)
        <3>1. g[T] = Value(f, T)
            <4>1. Cardinality(T) <= n => f[T] = Value(f, T)
                BY <2>1
            <4> HIDE DEF Value, Upto
            <4>2. QED BY <4>1
        <3>2. ASSUME T # {} PROVE g[T \ {pick[T]}] = f[T \ {pick[T]}]
            <4> DEFINE U == T \ {pick[T]}
            <4>1. U \in SUBSET S /\ Cardinality(U) = Cardinality(T) - 1
                BY <1>2, <3>2
            <4>2. Cardinality(T) \in Nat
                BY <1>1
            <4> HIDE DEF Value, Upto, Have, U
            <4>3. Cardinality(U) <= n
                <5> DEFINE k == Cardinality(T)
                           l == Cardinality(U)
                <5>1. k \in Nat /\ k <= n + 1 /\ l = k - 1
                    BY <2>3, <4>1, <4>2
                <5> HIDE DEF k, l
                <5>2. l <= n
                    BY <5>1
                <5>3. QED BY <5>2 DEF l
            <4>4. g[U] = f[U]
                BY <4>1, <4>3
            <4>5. QED BY <4>4 DEF U
        <3> HIDE DEF g
        <3>3. QED BY <3>1, <3>2
    <2>4. Upto(g, n + 1)
        BY <2>3
    <2>5. \E h \in [SUBSET S -> V] : Upto(h, n + 1)
        <3> HIDE DEF g, Upto
        <3>1. QED BY <2>2, <2>4
    <2>6. n + 1 \in Nat
        OBVIOUS
    <2>7. QED BY <2>5, <2>6
<1>7. Cardinality(S) \in Have
    <2> HIDE DEF Have
    <2>1. Nat \subseteq Have
        BY <1>5, <1>6, Induct
    <2>2. QED BY <1>1, <2>1
<1>8. PICK f \in [SUBSET S -> V] : Upto(f, Cardinality(S))
    BY <1>7
<1>9. Recurs(f, S, V, b, pick, F)
    BY <1>1, <1>8 DEF Recurs
<1>10. QED BY <1>9

\* A finite set of numbers that is not empty has a greatest one.
LEMMA Greatest ==
    ASSUME NEW T \in SUBSET Int, IsFiniteSet(T), T # {}
    PROVE  Max(T) \in T /\ \A x \in T : x <= Max(T)
<1> DEFINE A == {U \in SUBSET T : U # {} => \E m \in U : \A x \in U : x <= m}
<1>1. {} \in A
    OBVIOUS
<1>2. ASSUME NEW U \in SUBSET T, U # {}, \A x \in U : U \ {x} \in A PROVE U \in A
    <2>1. PICK x \in U : TRUE
        BY <1>2
    <2>2. CASE U = {x}
        BY <2>2
    <2>3. CASE U # {x}
        <3>1. PICK m \in U \ {x} : \A y \in U \ {x} : y <= m
            BY <1>2, <2>1, <2>3
        <3>2. x \in Int /\ m \in Int
            BY <3>1
        <3>3. CASE x <= m
            BY <3>1, <3>3
        <3>4. CASE ~(x <= m)
            <4>1. \A y \in U : y <= x
                BY <3>1, <3>2, <3>4
            <4>2. QED BY <4>1
        <3>5. QED BY <3>3, <3>4
    <2>4. QED BY <2>2, <2>3
<1>3. T \in A
    <2> HIDE DEF A
    <2>1. QED BY <1>1, <1>2, SetInduct
<1>4. \E m \in T : \A x \in T : x <= m
    BY <1>3
<1>5. \E m \in T : \A x \in T : m >= x
    BY <1>4
<1>6. Max(T) \in T /\ \A x \in T : Max(T) >= x
    BY <1>5 DEF Max
<1>7. QED BY <1>6

\* The positions of a sequence, from the last one down.
LEMMA Positions ==
    ASSUME NEW X, NEW q \in Seq(X)
    PROVE  /\ IsFiniteSet(DOMAIN q) /\ \A i \in DOMAIN q : q[i] \in X
           /\ \A T \in SUBSET DOMAIN q : T # {} => Max(T) \in T
<1>1. DOMAIN q = 1 .. Len(q) /\ Len(q) \in Nat
    BY LenProperties
<1>2. IsFiniteSet(DOMAIN q)
    BY <1>1, FS_Interval
<1>3. \A i \in DOMAIN q : q[i] \in X
    BY <1>1, ElementOfSeq
<1>4. ASSUME NEW T \in SUBSET DOMAIN q, T # {} PROVE Max(T) \in T
    <2>1. T \in SUBSET Int /\ IsFiniteSet(T)
        BY <1>1, <1>2, FS_Subset
    <2>2. QED BY <1>4, <2>1, Greatest
<1>5. QED BY <1>2, <1>3, <1>4

\* The sum of what the members of a set are worth, at most w each.
LEMMA Worth ==
    ASSUME NEW S, IsFiniteSet(S), NEW w \in Nat, NEW c \in [S -> Int],
           \A x \in S : c[x] <= w,
           NEW f, NEW pick, \A T \in SUBSET S : T # {} => pick[T] \in T,
           \A T \in SUBSET S : f[T] = IF T = {} THEN 0 ELSE c[pick[T]] + f[T \ {pick[T]}]
    PROVE  /\ f[S] \in Int /\ f[S] <= w * Cardinality(S)
           /\ (\A x \in S : c[x] = w) => f[S] = w * Cardinality(S)
           /\ (\E x \in S : 2 * c[x] <= w) => 2 * f[S] <= 2 * (w * Cardinality(S)) - w
<1> DEFINE Says(T) == /\ f[T] \in Int /\ f[T] <= w * Cardinality(T)
                      /\ (\A x \in T : c[x] = w) => f[T] = w * Cardinality(T)
                      /\ (\E x \in T : 2 * c[x] <= w) => 2 * f[T] <= 2 * (w * Cardinality(T)) - w
           A == {T \in SUBSET S : Says(T)}
<1>1. {} \in A
    <2>1. Cardinality({}) = 0
        BY FS_EmptySet
    <2>2. w * 0 = 0
        <3> HIDE DEF Says, A
        <3>1. QED OBVIOUS
    <2>3. f[{}] = 0
        OBVIOUS
    <2>4. Says({})
        BY <2>1, <2>2, <2>3
    <2>5. QED BY <2>4
<1>2. ASSUME NEW T \in SUBSET S, T # {}, \A x \in T : T \ {x} \in A PROVE T \in A
    <2> DEFINE p == pick[T]
               U == T \ {p}
               k == Cardinality(U)
    <2>1. p \in T /\ U \in A /\ f[T] = c[p] + f[U] /\ c[p] \in Int /\ c[p] <= w
        BY <1>2
    <2>2. IsFiniteSet(U) /\ k \in Nat /\ Cardinality(T) = k + 1
        <3>1. IsFiniteSet(T) /\ Cardinality(T) \in Nat
            BY FS_Subset, FS_CardinalityType
        <3>2. IsFiniteSet(U) /\ Cardinality(U) = Cardinality(T) - 1
            BY <2>1, <3>1, FS_RemoveElement
        <3>3. Cardinality(U) \in Nat
            BY <3>2, FS_CardinalityType
        <3> HIDE DEF Says, A, U
        <3>4. QED BY <3>1, <3>2, <3>3
    <2>3. Says(U)
        BY <2>1
    <2> DEFINE wk == w * k
    <2>4. w * (k + 1) = wk + w /\ wk \in Int
        BY <2>2
    <2>5. T = U \union {p}
        BY <2>1
    <2>6. /\ f[U] \in Int /\ f[U] <= wk
          /\ (\A x \in U : c[x] = w) => f[U] = wk
          /\ (\E x \in U : 2 * c[x] <= w) => 2 * f[U] <= 2 * wk - w
        BY <2>3
    <2> HIDE DEF p, U, k, wk, Says, A
    <2>7. /\ f[T] \in Int /\ f[T] <= wk + w
          /\ (\A x \in T : c[x] = w) => f[T] = wk + w
          /\ (\E x \in T : 2 * c[x] <= w) => 2 * f[T] <= 2 * (wk + w) - w
        <3>1. f[T] \in Int /\ f[T] <= wk + w
            BY <2>1, <2>4, <2>6
        <3>2. ASSUME \A x \in T : c[x] = w PROVE f[T] = wk + w
            BY <2>1, <2>4, <2>5, <2>6, <3>2
        <3>3. ASSUME NEW x \in T, 2 * c[x] <= w PROVE 2 * f[T] <= 2 * (wk + w) - w
            <4>1. CASE x = p
                BY <2>1, <2>4, <2>6, <3>3, <4>1
            <4>2. CASE x \in U
                <5>1. 2 * f[U] <= 2 * wk - w
                    BY <2>6, <3>3, <4>2
                <5>2. QED BY <2>1, <2>4, <2>6, <5>1
            <4>3. QED BY <2>5, <4>1, <4>2
        <3>4. QED BY <3>1, <3>2, <3>3
    <2>8. Says(T)
        BY <2>2, <2>4, <2>7 DEF Says
    <2>9. QED BY <2>8 DEF A
<1>3. S \in A
    <2> HIDE DEF A
    <2>1. QED BY <1>1, <1>2, SetInduct
<1>4. QED BY <1>3

\* A sequence that gets longer has one more member.
LEMMA Appended ==
    ASSUME NEW X, NEW s \in Seq(X), NEW e \in X
    PROVE  Append(s, e) \in Seq(X) /\ ToSet(Append(s, e)) = ToSet(s) \union {e}
<1> DEFINE t == Append(s, e)
           n == Len(s)
<1>1. /\ t \in Seq(X) /\ Len(t) = n + 1 /\ t[n + 1] = e /\ \A i \in 1 .. n : t[i] = s[i]
      /\ n \in Nat /\ DOMAIN s = 1 .. n /\ DOMAIN t = 1 .. n + 1
    BY AppendProperties, LenProperties
<1> HIDE DEF t, n
<1>2. ToSet(t) = ToSet(s) \union {e}
    <2>1. ASSUME NEW i \in 1 .. n + 1 PROVE t[i] \in ToSet(s) \union {e}
        <3>1. CASE i = n + 1
            BY <1>1, <3>1
        <3>2. CASE i # n + 1
            <4>1. i \in 1 .. n
                BY <1>1, <3>2
            <4>2. QED BY <1>1, <4>1 DEF ToSet
        <3>3. QED BY <3>1, <3>2
    <2>2. ASSUME NEW i \in 1 .. n PROVE s[i] \in ToSet(t)
        <3>1. i \in 1 .. n + 1
            BY <1>1
        <3>2. QED BY <1>1, <3>1 DEF ToSet
    <2>3. e \in ToSet(t)
        <3>1. n + 1 \in 1 .. n + 1
            BY <1>1
        <3>2. QED BY <1>1, <3>1 DEF ToSet
    <2>4. QED BY <1>1, <2>1, <2>2, <2>3 DEF ToSet
<1>3. QED BY <1>1, <1>2 DEF t

\* The first few of a sequence are some of it.
LEMMA FirstFew ==
    ASSUME NEW X, NEW q \in Seq(X), q # <<>>, NEW k \in Nat \ {0}
    PROVE  LET few == SubSeq(q, 1, Min({k, Len(q)}))
           IN  few # <<>> /\ Head(few) \in X /\ \A i \in DOMAIN few : few[i] \in X
<1> DEFINE m == Min({k, Len(q)})
           few == SubSeq(q, 1, m)
<1>1. Len(q) \in Nat /\ Len(q) # 0
  BY LenProperties, EmptySeq
<1>2. m \in 1 .. Len(q)
  BY <1>1, MinOfTwo
<1> HIDE DEF m
<1>3. \A i \in 1 .. m : q[i] \in X
  BY <1>1, <1>2, ElementOfSeq
<1>4. Len(few) = m /\ few \in Seq(X) /\ \A i \in 1 .. m : few[i] = q[i]
  BY <1>1, <1>2, <1>3, SubSeqProperties
<1> HIDE DEF few
<1>5. DOMAIN few = 1 .. m /\ few # <<>> /\ few[1] \in X
  BY <1>2, <1>3, <1>4, LenProperties, EmptySeq
<1>6. Head(few) = few[1]
  BY <1>4, <1>5, HeadTailProperties
<1> QED
  BY <1>3, <1>4, <1>5, <1>6 DEF few, m
=============================================================================
