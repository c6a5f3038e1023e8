------------------------------ MODULE PathsProofs ------------------------------
(***************************************************************************)
(* What the conversions of Paths do with every text, however long.          *)
(***************************************************************************)
EXTENDS Paths, FiniteSetTheorems, SequenceTheorems, WellFoundedInduction, TLAPS

--------------------------------------------------------------------------------
(* Putting a finite set in order *)

\* What comes before e.
Below(S, R, e) == {d \in S \ {e} : <<d, e>> \in R}

\* R orders different elements of S.
Orders(R, S) ==
  /\ \A a, b \in S : a # b => (<<a, b>> \in R <=> <<b, a>> \notin R)
  /\ \A a, b, c \in S : (a # b /\ b # c /\ <<a, b>> \in R /\ <<b, c>> \in R) => <<a, c>> \in R

\* The number of elements before one says where it stands: different elements have different
\* numbers, and every number below that of all elements occurs.
LEMMA Ranks ==
  ASSUME NEW S, IsFiniteSet(S), NEW R, Orders(R, S)
  PROVE  /\ \A e \in S : Cardinality(Below(S, R, e)) \in 0 .. Cardinality(S) - 1
         /\ \A a, b \in S : (a # b /\ <<a, b>> \in R)
              => Cardinality(Below(S, R, a)) < Cardinality(Below(S, R, b))
         /\ \A k \in 0 .. Cardinality(S) - 1 : \E e \in S : Cardinality(Below(S, R, e)) = k
  <1> DEFINE n == Cardinality(S)
             rank(e) == Cardinality(Below(S, R, e))
  <1>0. n \in Nat
    BY FS_CardinalityType
  <1>1. ASSUME NEW e \in S
        PROVE  /\ IsFiniteSet(Below(S, R, e)) /\ rank(e) \in Nat /\ rank(e) \in 0 .. n - 1
    <2>1. IsFiniteSet(S \ {e}) /\ Cardinality(S \ {e}) = n - 1
      BY FS_RemoveElement
    <2>2. Below(S, R, e) \in SUBSET (S \ {e})
      BY DEF Below
    <2>3. IsFiniteSet(Below(S, R, e)) /\ rank(e) <= n - 1
      BY <2>1, <2>2, FS_Subset
    <2>4. rank(e) \in Nat
      BY <2>3, FS_CardinalityType
    <2> QED BY <1>0, <2>3, <2>4
  <1>2. ASSUME NEW a \in S, NEW b \in S, a # b, <<a, b>> \in R
        PROVE  rank(a) < rank(b)
    <2>1. Below(S, R, a) \subseteq Below(S, R, b)
      BY <1>2 DEF Below, Orders
    <2>2. a \in Below(S, R, b) /\ a \notin Below(S, R, a)
      BY <1>2 DEF Below
    <2>3. rank(a) <= rank(b) /\ (rank(b) = rank(a) => Below(S, R, b) = Below(S, R, a))
      BY <1>1, <2>1, FS_Subset
    <2> QED BY <1>1, <2>2, <2>3
  <1>3. ASSUME NEW k \in 0 .. n - 1, \A e \in S : rank(e) # k
        PROVE  FALSE
    <2> DEFINE T == (0 .. n - 1) \ {k}
               f == [e \in S |-> rank(e)]
    <2>1. IsFiniteSet(0 .. n - 1) /\ Cardinality(0 .. n - 1) = n
      <3>1. 0 \in Int /\ n - 1 \in Int
        BY <1>0
      <3>2. IsFiniteSet(0 .. n - 1) /\ Cardinality(0 .. n - 1) = IF 0 > n - 1 THEN 0 ELSE (n - 1) - 0 + 1
        BY <3>1, FS_Interval
      <3> QED BY <1>0, <3>2
    <2>2. IsFiniteSet(T) /\ Cardinality(T) < n
      <3>1. k \in 0 .. n - 1
        BY <1>3
      <3> DEFINE N == 0 .. n - 1
      <3> HIDE DEF N
      <3>2. IsFiniteSet(N \ {k}) /\ Cardinality(N \ {k}) = IF k \in N THEN Cardinality(N) - 1 ELSE Cardinality(N)
        BY <2>1, FS_RemoveElement, Zenon DEF N
      <3>3. IsFiniteSet(T) /\ Cardinality(T) = n - 1
        BY <2>1, <3>1, <3>2, Zenon DEF N
      <3> QED BY <1>0, <3>3
    <2>3. f \in [S -> T]
      BY <1>1, <1>3
    <2>4. PICK x, y \in S : x # y /\ rank(x) = rank(y)
      <3> HIDE DEF f, T
      <3>1. \E x, y \in S : x # y /\ f[x] = f[y]
        BY <2>2, <2>3, FS_PigeonHole
      <3> QED BY <3>1 DEF f
    <2>5. <<x, y>> \in R \/ <<y, x>> \in R
      BY <2>4 DEF Orders
    <2>6. rank(x) # rank(y)
      BY <1>1, <1>2, <2>4, <2>5
    <2> QED BY <2>4, <2>6
  <1> QED BY <1>1, <1>2, <1>3

\* So a sequence that has at each place the element with that many before it has all
\* elements, in order.
LEMMA InOrder ==
  ASSUME NEW S, IsFiniteSet(S), NEW R, Orders(R, S), NEW s \in [1 .. Cardinality(S) -> S],
         \A k \in 1 .. Cardinality(S) : Cardinality(Below(S, R, s[k])) = k - 1
  PROVE  /\ s \in Seq(S) /\ Len(s) = Cardinality(S)
         /\ \A e \in S : \E k \in 1 .. Len(s) : s[k] = e
         /\ \A i, j \in 1 .. Len(s) : i < j => s[i] # s[j] /\ <<s[i], s[j]>> \in R
  <1>0. Cardinality(S) \in Nat
    BY FS_CardinalityType
  <1>1. s \in Seq(S) /\ Len(s) = Cardinality(S)
    BY <1>0
  <1>2. \A a, b \in S : (a # b /\ <<a, b>> \in R)
              => Cardinality(Below(S, R, a)) < Cardinality(Below(S, R, b))
    BY Ranks
  <1>3. ASSUME NEW e \in S PROVE \E k \in 1 .. Len(s) : s[k] = e
    <2>1. Cardinality(Below(S, R, e)) \in 0 .. Cardinality(S) - 1
      BY Ranks
    <2> DEFINE k == Cardinality(Below(S, R, e)) + 1
    <2>2. k \in 1 .. Cardinality(S) /\ k - 1 = Cardinality(Below(S, R, e))
      BY <1>0, <2>1
    <2>3. s[k] \in S /\ Cardinality(Below(S, R, s[k])) = k - 1
      BY <2>2
    <2>4. s[k] = e
      <3>1. s[k] # e => <<s[k], e>> \in R \/ <<e, s[k]>> \in R
        BY <2>3 DEF Orders
      <3>2. Cardinality(Below(S, R, s[k])) = Cardinality(Below(S, R, e))
        BY <2>2, <2>3
      <3>3. Cardinality(Below(S, R, e)) \in Int
        BY <2>1
      <3>4. \A a, b \in S : Cardinality(Below(S, R, a)) = Cardinality(Below(S, R, e))
              /\ Cardinality(Below(S, R, b)) = Cardinality(Below(S, R, e)) /\ a # b
                => <<a, b>> \notin R
        BY <1>2, <3>3
      <3> QED BY <2>3, <3>1, <3>2, <3>4
    <2> QED BY <1>1, <2>2, <2>4
  <1>4. ASSUME NEW i \in 1 .. Len(s), NEW j \in 1 .. Len(s), i < j
        PROVE  s[i] # s[j] /\ <<s[i], s[j]>> \in R
    <2>1. /\ s[i] \in S /\ Cardinality(Below(S, R, s[i])) = i - 1
          /\ s[j] \in S /\ Cardinality(Below(S, R, s[j])) = j - 1
      BY <1>1
    <2>2. s[i] # s[j]
      BY <1>4, <2>1
    <2>3. ~(<<s[j], s[i]>> \in R)
      BY <1>2, <1>4, <2>1, <2>2
    <2> QED BY <2>1, <2>2, <2>3 DEF Orders
  <1> QED BY <1>1, <1>3, <1>4

--------------------------------------------------------------------------------
(* Numbers and texts *)

\* A set of numbers that is not empty has a least one.
LEMMA Least == ASSUME NEW T \in SUBSET Nat, T # {} PROVE \E x \in T : \A y \in T : x <= y
  <1>1. PICK R : IsWellFoundedOn(R, Nat) /\ \A x, y \in Nat : y < x => <<y, x>> \in R
    <2>1. \A x, y \in Nat : y < x => <<y, x>> \in OpToRel(<, Nat)
      BY DEF OpToRel
    <2> QED BY <2>1, NatLessThanWellFounded
  <1>2. PICK x \in T : \A y \in T : ~ (<<y, x>> \in R)
    BY <1>1, WFMin
  <1>3. \A y \in T : ~ (y < x)
    BY <1>1, <1>2
  <1> QED BY <1>3

\* A text is made of characters.
LEMMA Characters ==
  ASSUME NEW a \in Text
  PROVE  /\ Len(a) \in Nat /\ DOMAIN a = 1 .. Len(a)
         /\ \A i \in 1 .. Len(a) : a[i] \in 0 .. 255 /\ a[i] \in Int
  <1>1. a \in Seq(0 .. 255)
    BY DEF Text
  <1>2. \A i \in 1 .. Len(a) : a[i] \in 0 .. 255
    BY <1>1, ElementOfSeq
  <1>3. Len(a) \in Nat /\ DOMAIN a = 1 .. Len(a)
    BY <1>1
  <1>4. \A c \in 0 .. 255 : c \in Int
    OBVIOUS
  <1> QED BY <1>2, <1>3, <1>4

\* What holds of 0, and of the number behind each of which it holds, holds of all.
LEMMA Induction ==
  ASSUME NEW T, 0 \in T, \A n \in Nat : n \in T => n + 1 \in T
  PROVE  \A n \in Nat : n \in T
  <1> SUFFICES ASSUME NEW m \in Nat, m \notin T PROVE FALSE
    OBVIOUS
  <1> DEFINE U == {n \in Nat : n \notin T}
  <1>1. U \in SUBSET Nat /\ U # {}
    OBVIOUS
  <1> HIDE DEF U
  <1>2. PICK x \in U : \A y \in U : x <= y
    BY <1>1, Least
  <1>3. x \in Nat /\ x \notin T
    BY <1>2 DEF U
  <1>4. x - 1 \in Nat /\ x - 1 \notin U
    BY <1>1, <1>2, <1>3
  <1>5. x - 1 \in T
    BY <1>4 DEF U
  <1> QED BY <1>3, <1>4, <1>5

--------------------------------------------------------------------------------
(* Ascending lists *)

\* c lists the numbers of S, each once, in ascending order.
Ascends(c, S) ==
  /\ c \in Seq(S)
  /\ \A e \in S : \E k \in 1 .. Len(c) : c[k] = e
  /\ \A i, j \in 1 .. Len(c) : i < j => c[i] < c[j]

\* Ordered puts the numbers of a finite set in ascending order.
LEMMA OrderedAscends ==
  ASSUME NEW S \in SUBSET Int, IsFiniteSet(S)
  PROVE  Ascends(Ordered(S, <), S)
  <1> DEFINE R == {d \in Int \X Int : d[1] < d[2]}
             n == Cardinality(S)
             c == Ordered(S, <)
             g(k) == CHOOSE e \in S : Cardinality({d \in S \ {e} : d < e}) = k - 1
  <1>0. n \in Nat
    BY FS_CardinalityType
  <1>1. \A e \in S : {d \in S \ {e} : d < e} = Below(S, R, e)
    BY DEF Below
  <1>2. Orders(R, S)
    BY DEF Orders
  <1>3. \A a, b \in S : <<a, b>> \in R => a < b
    OBVIOUS
  <1>4. c = [k \in 1 .. n |-> g(k)]
    BY DEF Ordered
  <1> HIDE DEF R, c
  <1>5. ASSUME NEW k \in 1 .. n
        PROVE  g(k) \in S /\ Cardinality(Below(S, R, g(k))) = k - 1
    <2>1. k - 1 \in 0 .. n - 1
      BY <1>0
    <2>2. PICK e \in S : Cardinality(Below(S, R, e)) = k - 1
      BY <1>2, <2>1, Ranks
    <2>3. \E d \in S : Cardinality({x \in S \ {d} : x < d}) = k - 1
      BY <1>1, <2>2
    <2>4. g(k) \in S /\ Cardinality({d \in S \ {g(k)} : d < g(k)}) = k - 1
      BY <2>3, Zenon
    <2> HIDE DEF g
    <2> QED BY <1>1, <2>4
  <1> HIDE DEF g
  <1>6. c \in [1 .. n -> S] /\ \A k \in 1 .. n : Cardinality(Below(S, R, c[k])) = k - 1
    BY <1>4, <1>5
  <1>7. /\ c \in Seq(S)
        /\ \A e \in S : \E k \in 1 .. Len(c) : c[k] = e
        /\ \A i, j \in 1 .. Len(c) : i < j => c[i] # c[j] /\ <<c[i], c[j]>> \in R
    <2>1. /\ c \in Seq(S) /\ Len(c) = Cardinality(S)
          /\ \A e \in S : \E k \in 1 .. Len(c) : c[k] = e
          /\ \A i, j \in 1 .. Len(c) : i < j => c[i] # c[j] /\ <<c[i], c[j]>> \in R
      BY <1>2, <1>6, InOrder
    <2> QED BY <2>1
  <1>8. \A i, j \in 1 .. Len(c) : i < j => c[i] < c[j]
    <2>1. \A i \in 1 .. Len(c) : c[i] \in S
      BY <1>7, ElementOfSeq
    <2> QED BY <1>3, <1>7, <2>1
  <1> QED BY <1>7, <1>8 DEF c, Ascends

\* Where two ascending lists of one set first differ, neither is the smaller.
LEMMA AscendAlike ==
  ASSUME NEW S \in SUBSET Int, NEW c, NEW d, Ascends(c, S), Ascends(d, S),
         NEW k \in 1 .. Len(c), k <= Len(d), \A j \in 1 .. k - 1 : c[j] = d[j]
  PROVE  ~ (c[k] < d[k])
  <1>0. /\ Len(c) \in Nat /\ Len(d) \in Nat
        /\ \A i \in 1 .. Len(c) : c[i] \in S /\ c[i] \in Int
        /\ \A i \in 1 .. Len(d) : d[i] \in S /\ d[i] \in Int
    BY ElementOfSeq, LenProperties DEF Ascends
  <1> SUFFICES ASSUME c[k] < d[k] PROVE FALSE
    OBVIOUS
  <1>1. PICK m \in 1 .. Len(d) : d[m] = c[k]
    BY <1>0 DEF Ascends
  <1>2. ~ (m < k)
    <2> SUFFICES ASSUME m < k PROVE FALSE
      OBVIOUS
    <2>1. m \in 1 .. k - 1 /\ m \in 1 .. Len(c)
      BY <1>0
    <2>2. c[m] = d[m] /\ c[m] < c[k]
      BY <2>1 DEF Ascends
    <2> QED BY <1>0, <1>1, <2>1, <2>2
  <1>3. m # k
    BY <1>0, <1>1
  <1>4. k \in 1 .. Len(d) /\ k < m
    BY <1>0, <1>2, <1>3
  <1>5. d[k] < d[m]
    BY <1>4 DEF Ascends
  <1> QED BY <1>0, <1>1, <1>4, <1>5

\* So there is only one ascending list of a set.
LEMMA AscendsOnce ==
  ASSUME NEW S \in SUBSET Int, NEW c, NEW d, Ascends(c, S), Ascends(d, S)
  PROVE  c = d
  <1>0. /\ Len(c) \in Nat /\ Len(d) \in Nat
        /\ \A i \in 1 .. Len(c) : c[i] \in S /\ c[i] \in Int
        /\ \A i \in 1 .. Len(d) : d[i] \in S /\ d[i] \in Int
    BY ElementOfSeq, LenProperties DEF Ascends
  <1>1. ASSUME NEW m \in Nat, m \in 1 .. Len(c), m \in 1 .. Len(d), c[m] # d[m]
        PROVE  FALSE
    <2> DEFINE T == {k \in Nat : k \in 1 .. Len(c) /\ k \in 1 .. Len(d) /\ c[k] # d[k]}
    <2>1. T \in SUBSET Nat /\ T # {}
      BY <1>1
    <2> HIDE DEF T
    <2>2. PICK k \in T : \A j \in T : k <= j
      BY <2>1, Least
    <2>3. k \in 1 .. Len(c) /\ k \in 1 .. Len(d) /\ c[k] # d[k] /\ k <= Len(c) /\ k <= Len(d)
      BY <1>0, <2>2 DEF T
    <2>4. \A j \in 1 .. k - 1 : c[j] = d[j]
      <3> SUFFICES ASSUME NEW j \in 1 .. k - 1, c[j] # d[j] PROVE FALSE
        OBVIOUS
      <3>1. j \in Nat /\ j \in 1 .. Len(c) /\ j \in 1 .. Len(d) /\ j < k
        BY <1>0, <2>3
      <3>2. j \in T
        BY <3>1 DEF T
      <3> QED BY <1>0, <2>2, <2>3, <3>1, <3>2
    <2>5. ~ (c[k] < d[k])
      BY <2>3, <2>4, AscendAlike
    <2>6. ~ (d[k] < c[k])
      BY <2>3, <2>4, AscendAlike
    <2> QED BY <1>0, <2>3, <2>5, <2>6
  <1>2. Len(c) >= Len(d)
    <2> SUFFICES ASSUME Len(c) < Len(d) PROVE FALSE
      BY <1>0
    <2>1. Len(c) + 1 \in 1 .. Len(d)
      BY <1>0
    <2>2. PICK m \in 1 .. Len(c) : c[m] = d[Len(c) + 1]
      BY <1>0, <2>1 DEF Ascends
    <2>3. m \in 1 .. Len(d) /\ m < Len(c) + 1
      BY <1>0
    <2>4. d[m] < d[Len(c) + 1] /\ c[m] = d[m]
      BY <1>1, <2>1, <2>3 DEF Ascends
    <2> QED BY <1>0, <2>1, <2>2, <2>4
  <1>3. Len(d) >= Len(c)
    <2> SUFFICES ASSUME Len(d) < Len(c) PROVE FALSE
      BY <1>0
    <2>1. Len(d) + 1 \in 1 .. Len(c)
      BY <1>0
    <2>2. PICK m \in 1 .. Len(d) : d[m] = c[Len(d) + 1]
      BY <1>0, <2>1 DEF Ascends
    <2>3. m \in 1 .. Len(c) /\ m < Len(d) + 1
      BY <1>0
    <2>4. c[m] < c[Len(d) + 1] /\ c[m] = d[m]
      BY <1>1, <2>1, <2>3 DEF Ascends
    <2> QED BY <1>0, <2>1, <2>2, <2>4
  <1>4. Len(c) = Len(d) /\ \A i \in 1 .. Len(c) : c[i] = d[i]
    BY <1>0, <1>1, <1>2, <1>3
  <1> QED BY <1>4, SeqEqual DEF Ascends

--------------------------------------------------------------------------------
(* The pieces of a path *)

\* The places of the separators of a path, and of its two ends.
Separators(p) == {0, Len(p) + 1} \cup {i \in DOMAIN p : p[i] = Slash}

\* A text without a separator.
Part == {x \in Text : \A i \in 1 .. Len(x) : x[i] # Slash}

\* There are finitely many separators.
LEMMA SeparatorsFinite ==
  ASSUME NEW p \in Text
  PROVE  /\ Separators(p) \in SUBSET Int /\ IsFiniteSet(Separators(p))
         /\ \A e \in Separators(p) : e \in 0 .. Len(p) + 1
  <1>0. Len(p) \in Nat /\ DOMAIN p = 1 .. Len(p)
    BY Characters
  <1>1. Separators(p) \in SUBSET (0 .. Len(p) + 1)
    BY <1>0 DEF Separators
  <1>2. IsFiniteSet(0 .. Len(p) + 1)
    BY <1>0, FS_Interval
  <1>3. IsFiniteSet(Separators(p))
    BY <1>1, <1>2, FS_Subset
  <1> QED BY <1>1, <1>3

\* And a list of them.
LEMMA SeparatorsListed ==
  ASSUME NEW p \in Text
  PROVE  \E cut : Ascends(cut, Separators(p))
  BY SeparatorsFinite, OrderedAscends

\* The pieces lie between neighbours in the list of the separators.
LEMMA PiecesBetween ==
  ASSUME NEW p \in Text, NEW cut, Ascends(cut, Separators(p))
  PROVE  Pieces(p) = [k \in 1 .. Len(cut) - 1 |-> SubSeq(p, cut[k] + 1, cut[k + 1] - 1)]
  <1>1. Ascends(Ordered(Separators(p), <), Separators(p))
    BY SeparatorsFinite, OrderedAscends
  <1>2. cut = Ordered(Separators(p), <)
    BY <1>1, SeparatorsFinite, AscendsOnce
  <1> QED BY <1>2 DEF Pieces, Separators

\* The list begins before the text and ends behind it, and between two neighbours there is
\* no separator.
LEMMA Neighbours ==
  ASSUME NEW p \in Text, NEW cut, Ascends(cut, Separators(p))
  PROVE  /\ Len(cut) \in Nat /\ Len(cut) >= 2
         /\ cut[1] = 0 /\ cut[Len(cut)] = Len(p) + 1
         /\ \A k \in 1 .. Len(cut) : cut[k] \in 0 .. Len(p) + 1
         /\ \A k \in 1 .. Len(cut) - 1 :
              cut[k] < cut[k + 1] /\ \A i \in cut[k] + 1 .. cut[k + 1] - 1 : i \in 1 .. Len(p) /\ p[i] # Slash
  <1>0. /\ Len(p) \in Nat /\ DOMAIN p = 1 .. Len(p)
        /\ Len(cut) \in Nat
        /\ \A k \in 1 .. Len(cut) : cut[k] \in Separators(p) /\ cut[k] \in 0 .. Len(p) + 1
        /\ \A i, j \in 1 .. Len(cut) : i < j => cut[i] < cut[j]
    BY Characters, SeparatorsFinite, ElementOfSeq, LenProperties DEF Ascends
  <1>1. PICK a \in 1 .. Len(cut) : cut[a] = 0
    BY DEF Ascends, Separators
  <1>2. PICK b \in 1 .. Len(cut) : cut[b] = Len(p) + 1
    BY DEF Ascends, Separators
  <1>3. a = 1
    <2>1. 1 \in 1 .. Len(cut) /\ cut[1] \in 0 .. Len(p) + 1
      BY <1>0, <1>1
    <2>2. 1 < a => cut[1] < cut[a]
      BY <1>0, <2>1
    <2> QED BY <1>0, <1>1, <2>1, <2>2
  <1>4. b = Len(cut)
    <2>1. Len(cut) \in 1 .. Len(cut) /\ cut[Len(cut)] \in 0 .. Len(p) + 1
      BY <1>0, <1>2
    <2>2. b < Len(cut) => cut[b] < cut[Len(cut)]
      BY <1>0, <2>1
    <2> QED BY <1>0, <1>2, <2>1, <2>2
  <1>5. Len(cut) >= 2
    BY <1>0, <1>1, <1>2, <1>3, <1>4
  <1>6. ASSUME NEW k \in 1 .. Len(cut) - 1
        PROVE  cut[k] < cut[k + 1] /\ \A i \in cut[k] + 1 .. cut[k + 1] - 1 : i \in 1 .. Len(p) /\ p[i] # Slash
    <2>1. k \in 1 .. Len(cut) /\ k + 1 \in 1 .. Len(cut) /\ k < k + 1
      BY <1>0
    <2>2. cut[k] \in 0 .. Len(p) + 1 /\ cut[k + 1] \in 0 .. Len(p) + 1 /\ cut[k] < cut[k + 1]
      BY <1>0, <2>1
    <2>3. ASSUME NEW i \in cut[k] + 1 .. cut[k + 1] - 1 PROVE i \in 1 .. Len(p) /\ p[i] # Slash
      <3>1. i \in 1 .. Len(p) /\ cut[k] < i /\ i < cut[k + 1]
        BY <1>0, <2>2
      <3>2. ASSUME p[i] = Slash PROVE FALSE
        <4>1. i \in Separators(p)
          BY <1>0, <3>1, <3>2 DEF Separators
        <4>2. PICK m \in 1 .. Len(cut) : cut[m] = i
          BY <4>1 DEF Ascends
        <4>3. ~ (m < k) /\ m # k
          <5>1. m < k => cut[m] < cut[k]
            BY <1>0, <2>1
          <5> QED BY <2>2, <3>1, <4>2, <5>1
        <4>4. ~ (k + 1 < m) /\ m # k + 1
          <5>1. k + 1 < m => cut[k + 1] < cut[m]
            BY <1>0, <2>1
          <5> QED BY <2>2, <3>1, <4>2, <5>1
        <4> QED BY <1>0, <4>3, <4>4
      <3> QED BY <3>1, <3>2
    <2> QED BY <2>2, <2>3
  <1> QED BY <1>0, <1>1, <1>2, <1>3, <1>4, <1>5, <1>6

\* A stretch of a text is a text, and of a stretch without separators a part.
LEMMA Stretch ==
  ASSUME NEW p \in Text, NEW i \in 1 .. Len(p) + 1, NEW j \in 0 .. Len(p), i <= j + 1
  PROVE  /\ SubSeq(p, i, j) \in Text /\ Len(SubSeq(p, i, j)) = j - i + 1
         /\ \A k \in 1 .. j - i + 1 : SubSeq(p, i, j)[k] = p[i + k - 1]
         /\ (\A k \in i .. j : p[k] # Slash) => SubSeq(p, i, j) \in Part
  <1>0. Len(p) \in Nat /\ DOMAIN p = 1 .. Len(p) /\ \A k \in 1 .. Len(p) : p[k] \in 0 .. 255
    BY Characters
  <1>1. /\ i \in Int /\ j \in Int /\ \A k \in i .. j : p[k] \in 0 .. 255
        /\ (IF i <= j THEN j - i + 1 ELSE 0) = j - i + 1
    BY <1>0
  <1>2. /\ SubSeq(p, i, j) \in Seq(0 .. 255) /\ Len(SubSeq(p, i, j)) = j - i + 1
        /\ \A k \in 1 .. j - i + 1 : SubSeq(p, i, j)[k] = p[i + k - 1]
    BY <1>1, SubSeqProperties
  <1>3. ASSUME \A k \in i .. j : p[k] # Slash PROVE SubSeq(p, i, j) \in Part
    <2>1. \A k \in 1 .. j - i + 1 : i + k - 1 \in i .. j
      BY <1>1
    <2>2. \A k \in 1 .. j - i + 1 : SubSeq(p, i, j)[k] # Slash
      BY <1>2, <1>3, <2>1
    <2> QED BY <1>2, <2>2 DEF Part, Text
  <1> QED BY <1>2, <1>3 DEF Text

\* The pieces of a text have no separators.
LEMMA PiecesAreParts ==
  ASSUME NEW p \in Text
  PROVE  Pieces(p) \in Seq(Part) /\ Len(Pieces(p)) \in Nat \ {0}
  <1>1. PICK cut : Ascends(cut, Separators(p))
    BY SeparatorsListed
  <1>2. Pieces(p) = [k \in 1 .. Len(cut) - 1 |-> SubSeq(p, cut[k] + 1, cut[k + 1] - 1)]
    BY <1>1, PiecesBetween
  <1>3. Len(cut) \in Nat /\ Len(cut) >= 2
    BY <1>1, Neighbours
  <1>4. ASSUME NEW k \in 1 .. Len(cut) - 1 PROVE SubSeq(p, cut[k] + 1, cut[k + 1] - 1) \in Part
    <2>1. /\ Len(p) \in Nat /\ k \in 1 .. Len(cut) /\ k + 1 \in 1 .. Len(cut)
      BY <1>3, Characters
    <2>2. /\ cut[k] \in 0 .. Len(p) + 1 /\ cut[k + 1] \in 0 .. Len(p) + 1 /\ cut[k] < cut[k + 1]
          /\ \A i \in cut[k] + 1 .. cut[k + 1] - 1 : p[i] # Slash
      BY <1>1, <2>1, Neighbours
    <2>3. cut[k] + 1 \in 1 .. Len(p) + 1 /\ cut[k + 1] - 1 \in 0 .. Len(p) /\ cut[k] + 1 <= (cut[k + 1] - 1) + 1
      BY <2>1, <2>2
    <2> QED BY <2>2, <2>3, Stretch
  <1>5. Pieces(p) \in [1 .. Len(cut) - 1 -> Part]
    BY <1>2, <1>4
  <1>6. Len(cut) - 1 \in Nat /\ Len(cut) - 1 > 0
    BY <1>3
  <1>7. Pieces(p) \in Seq(Part) /\ Len(Pieces(p)) = Len(cut) - 1
    BY <1>5, <1>6
  <1>8. \A n \in Nat : n > 0 => n \in Nat \ {0}
    OBVIOUS
  <1> QED BY <1>6, <1>7, <1>8

\* A path without separators is its only piece.
LEMMA OnePiece ==
  ASSUME NEW q \in Part
  PROVE  Pieces(q) = <<q>>
  <1>0. q \in Text /\ Len(q) \in Nat /\ DOMAIN q = 1 .. Len(q)
    BY Characters DEF Part
  <1> DEFINE cut == <<0, Len(q) + 1>>
  <1>1. Separators(q) = {0, Len(q) + 1}
    BY <1>0 DEF Separators, Part
  <1>2. Ascends(cut, Separators(q))
    BY <1>0, <1>1 DEF Ascends
  <1>3. Pieces(q) = [k \in 1 .. Len(cut) - 1 |-> SubSeq(q, cut[k] + 1, cut[k + 1] - 1)]
    BY <1>0, <1>2, PiecesBetween
  <1>4. Pieces(q) = [k \in 1 .. 1 |-> SubSeq(q, 1, Len(q))]
    BY <1>0, <1>3
  <1>5. SubSeq(q, 1, Len(q)) = q
    BY <1>0 DEF Text
  <1> QED BY <1>4, <1>5

\* What follows the last separator is one more piece.
LEMMA PiecesAppend ==
  ASSUME NEW t \in Text, NEW q \in Part
  PROVE  /\ t \o Root \o q \in Text
         /\ Pieces(t \o Root \o q) = Append(Pieces(t), q)
  <1> DEFINE p == t \o Root \o q
             n == Len(t) + 1 + Len(q)
  <1>0. /\ Len(t) \in Nat /\ DOMAIN t = 1 .. Len(t) /\ n \in Nat
        /\ q \in Text /\ Len(q) \in Nat /\ DOMAIN q = 1 .. Len(q)
        /\ \A i \in 1 .. Len(q) : q[i] # Slash
    BY Characters DEF Part
  <1>1. /\ p \in Text /\ Len(p) = n
        /\ \A i \in 1 .. Len(t) : p[i] = t[i]
        /\ p[Len(t) + 1] = Slash
        /\ \A i \in 1 .. Len(q) : p[Len(t) + 1 + i] = q[i]
    <2>1. Root \in Text /\ Len(Root) = 1 /\ Root[1] = Slash
      BY DEF Root, Slash, Text
    <2> DEFINE r == t \o Root
    <2>2. /\ r \in Text /\ Len(r) = Len(t) + 1
          /\ \A i \in 1 .. Len(t) + 1 : r[i] = IF i <= Len(t) THEN t[i] ELSE Root[i - Len(t)]
      <3>1. /\ r \in Text /\ Len(r) = Len(t) + Len(Root)
            /\ \A i \in 1 .. Len(t) + Len(Root) : r[i] = IF i <= Len(t) THEN t[i] ELSE Root[i - Len(t)]
        BY <2>1, ConcatProperties DEF Text
      <3> HIDE DEF r
      <3> QED BY <2>1, <3>1
    <2> HIDE DEF r
    <2>3. /\ r \o q \in Text /\ Len(r \o q) = Len(r) + Len(q)
          /\ \A i \in 1 .. Len(r) + Len(q) : (r \o q)[i] = IF i <= Len(r) THEN r[i] ELSE q[i - Len(r)]
      <3>1. r \in Seq(0 .. 255) /\ q \in Seq(0 .. 255)
        BY <1>0, <2>2 DEF Text
      <3>2. /\ r \o q \in Seq(0 .. 255) /\ Len(r \o q) = Len(r) + Len(q)
            /\ \A i \in 1 .. Len(r) + Len(q) : (r \o q)[i] = IF i <= Len(r) THEN r[i] ELSE q[i - Len(r)]
        BY <3>1, ConcatProperties
      <3> QED BY <3>2 DEF Text
    <2>4. p = r \o q
      BY DEF r
    <2> HIDE DEF p
    <2>5. \A i \in 1 .. Len(t) : r[i] = t[i]
      BY <1>0, <2>2
    <2>6. r[Len(t) + 1] = Slash
      BY <1>0, <2>1, <2>2
    <2>7. \A i \in 1 .. Len(t) + 1 : p[i] = r[i]
      BY <1>0, <2>2, <2>3, <2>4
    <2>8. \A i \in 1 .. Len(q) : p[Len(t) + 1 + i] = q[i]
      BY <1>0, <2>2, <2>3, <2>4
    <2>9. p \in Text /\ Len(p) = n
      BY <1>0, <2>2, <2>3, <2>4
    <2> QED BY <1>0, <2>5, <2>6, <2>7, <2>8, <2>9
  <1> HIDE DEF p, n
  <1>2. PICK cut : Ascends(cut, Separators(t))
    BY SeparatorsListed
  <1> DEFINE next == Append(cut, n + 1)
  <1>3. /\ Len(cut) \in Nat /\ Len(cut) >= 2 /\ cut[Len(cut)] = Len(t) + 1
        /\ \A k \in 1 .. Len(cut) : cut[k] \in 0 .. Len(t) + 1 /\ cut[k] \in Separators(t)
        /\ \A i, j \in 1 .. Len(cut) : i < j => cut[i] < cut[j]
        /\ cut \in Seq(Separators(t))
    BY <1>2, Neighbours, ElementOfSeq DEF Ascends
  <1>4. Separators(p) = Separators(t) \cup {n + 1}
    <2>1. DOMAIN p = 1 .. n
      BY <1>1, Characters
    <2>2. \A i \in 1 .. n : p[i] = Slash <=> (i \in 1 .. Len(t) /\ t[i] = Slash) \/ i = Len(t) + 1
      <3> TAKE i \in 1 .. n
      <3>1. CASE i \in 1 .. Len(t)
        BY <1>0, <1>1, <3>1
      <3>2. CASE i = Len(t) + 1
        BY <1>0, <1>1, <3>2
      <3>3. CASE i \notin 1 .. Len(t) + 1
        <4>1. i - (Len(t) + 1) \in 1 .. Len(q) /\ i = Len(t) + 1 + (i - (Len(t) + 1))
          BY <1>0, <3>3 DEF n
        <4> QED BY <1>0, <1>1, <3>3, <4>1
      <3> QED BY <1>0, <3>1, <3>2, <3>3
    <2>3. Len(t) + 1 \in 1 .. n /\ \A i \in 1 .. Len(t) : i \in 1 .. n
      BY <1>0 DEF n
    <2> QED BY <1>0, <1>1, <2>1, <2>2, <2>3 DEF Separators
  <1>5. /\ next \in Seq(Separators(p)) /\ Len(next) = Len(cut) + 1
        /\ \A k \in 1 .. Len(cut) : next[k] = cut[k]
        /\ next[Len(cut) + 1] = n + 1
    <2>1. cut \in Seq(Separators(p)) /\ n + 1 \in Separators(p)
      BY <1>3, <1>4
    <2> QED BY <1>3, <2>1, AppendProperties
  <1> HIDE DEF next
  <1>6. Ascends(next, Separators(p))
    <2>1. ASSUME NEW e \in Separators(p) PROVE \E k \in 1 .. Len(next) : next[k] = e
      <3>1. CASE e = n + 1
        <4>1. Len(cut) + 1 \in 1 .. Len(next)
          BY <1>3, <1>5
        <4> QED BY <1>5, <3>1, <4>1
      <3>2. CASE e \in Separators(t)
        <4>1. PICK k \in 1 .. Len(cut) : cut[k] = e
          BY <1>2, <3>2 DEF Ascends
        <4>2. k \in 1 .. Len(next)
          BY <1>3, <1>5
        <4> QED BY <1>5, <4>1, <4>2
      <3> QED BY <1>4, <3>1, <3>2
    <2>2. ASSUME NEW i \in 1 .. Len(next), NEW j \in 1 .. Len(next), i < j PROVE next[i] < next[j]
      <3>1. i \in 1 .. Len(cut) /\ next[i] = cut[i]
        BY <1>3, <1>5, <2>2
      <3>2. CASE j \in 1 .. Len(cut)
        BY <1>3, <1>5, <2>2, <3>1, <3>2
      <3>3. CASE j = Len(cut) + 1
        <4>1. cut[i] <= Len(t) + 1 /\ Len(t) + 1 < n + 1 /\ cut[i] \in Int
          BY <1>0, <1>3, <3>1 DEF n
        <4> QED BY <1>0, <1>5, <3>1, <3>3, <4>1
      <3> QED BY <1>3, <1>5, <3>2, <3>3
    <2> QED BY <1>5, <2>1, <2>2 DEF Ascends
  <1>7. Pieces(p) = [k \in 1 .. Len(cut) |-> SubSeq(p, next[k] + 1, next[k + 1] - 1)]
    <2>1. Pieces(p) = [k \in 1 .. Len(next) - 1 |-> SubSeq(p, next[k] + 1, next[k + 1] - 1)]
      BY <1>1, <1>6, PiecesBetween
    <2>2. Len(next) - 1 = Len(cut)
      BY <1>3, <1>5
    <2> QED BY <2>1, <2>2
  <1>8. Pieces(t) = [k \in 1 .. Len(cut) - 1 |-> SubSeq(t, cut[k] + 1, cut[k + 1] - 1)]
    BY <1>2, PiecesBetween
  <1>9. ASSUME NEW k \in 1 .. Len(cut) - 1
        PROVE  SubSeq(p, next[k] + 1, next[k + 1] - 1) = SubSeq(t, cut[k] + 1, cut[k + 1] - 1)
    <2>1. k \in 1 .. Len(cut) /\ k + 1 \in 1 .. Len(cut) /\ k < k + 1
      BY <1>3
    <2> DEFINE i == cut[k] + 1
               j == cut[k + 1] - 1
    <2>2. /\ i \in 1 .. Len(t) + 1 /\ j \in 0 .. Len(t) /\ i <= j + 1
          /\ next[k] + 1 = i /\ next[k + 1] - 1 = j
      BY <1>0, <1>3, <1>5, <2>1
    <2> HIDE DEF i, j
    <2>3. /\ SubSeq(t, i, j) \in Text /\ Len(SubSeq(t, i, j)) = j - i + 1
          /\ \A m \in 1 .. j - i + 1 : SubSeq(t, i, j)[m] = t[i + m - 1]
      BY <2>2, Stretch
    <2>4. i \in 1 .. Len(p) + 1 /\ j \in 0 .. Len(p)
      BY <1>0, <1>1, <2>2 DEF n
    <2>5. /\ SubSeq(p, i, j) \in Text /\ Len(SubSeq(p, i, j)) = j - i + 1
          /\ \A m \in 1 .. j - i + 1 : SubSeq(p, i, j)[m] = p[i + m - 1]
      BY <1>1, <2>2, <2>4, Stretch
    <2>6. \A m \in 1 .. j - i + 1 : i + m - 1 \in 1 .. Len(t)
      BY <1>0, <2>2
    <2>7. \A m \in 1 .. Len(SubSeq(p, i, j)) : SubSeq(p, i, j)[m] = SubSeq(t, i, j)[m]
      BY <1>1, <2>3, <2>5, <2>6
    <2>8. SubSeq(p, i, j) = SubSeq(t, i, j)
      BY <2>3, <2>5, <2>7, SeqEqual DEF Text
    <2> QED BY <2>2, <2>8 DEF i, j
  <1>10. SubSeq(p, next[Len(cut)] + 1, next[Len(cut) + 1] - 1) = q
    <2> DEFINE i == Len(t) + 2
    <2>1. next[Len(cut)] + 1 = i /\ next[Len(cut) + 1] - 1 = n
      <3>1. Len(cut) \in 1 .. Len(cut)
        BY <1>3
      <3> QED BY <1>0, <1>3, <1>5, <3>1
    <2>2. i \in 1 .. Len(p) + 1 /\ n \in 0 .. Len(p) /\ i <= n + 1 /\ n - i + 1 = Len(q)
      BY <1>0, <1>1 DEF n
    <2>3. /\ SubSeq(p, i, n) \in Text /\ Len(SubSeq(p, i, n)) = Len(q)
          /\ \A m \in 1 .. Len(q) : SubSeq(p, i, n)[m] = p[i + m - 1]
      <3> HIDE DEF i
      <3>1. /\ SubSeq(p, i, n) \in Text /\ Len(SubSeq(p, i, n)) = n - i + 1
            /\ \A m \in 1 .. n - i + 1 : SubSeq(p, i, n)[m] = p[i + m - 1]
        BY <1>1, <2>2, Stretch
      <3> QED BY <2>2, <3>1
    <2>4. \A m \in 1 .. Len(q) : i + m - 1 = Len(t) + 1 + m
      BY <1>0
    <2>5. \A m \in 1 .. Len(q) : SubSeq(p, i, n)[m] = q[m]
      BY <1>1, <2>3, <2>4
    <2>6. SubSeq(p, i, n) = q
      BY <1>0, <2>3, <2>5, SeqEqual DEF Text
    <2> QED BY <2>1, <2>6
  <1>11. Pieces(p) = Append(Pieces(t), q)
    <2>1. Pieces(t) \in Seq(Part) /\ Len(Pieces(t)) = Len(cut) - 1
      <3>1. Len(cut) - 1 \in Nat /\ DOMAIN Pieces(t) = 1 .. Len(cut) - 1
        BY <1>3, <1>8
      <3>2. Pieces(t) \in Seq(Part) /\ Len(Pieces(t)) \in Nat /\ DOMAIN Pieces(t) = 1 .. Len(Pieces(t))
        BY PiecesAreParts, LenProperties
      <3> QED BY <3>1, <3>2
    <2>2. Pieces(p) \in Seq(Part) /\ Len(Pieces(p)) = Len(cut)
      <3>1. DOMAIN Pieces(p) = 1 .. Len(cut)
        BY <1>7
      <3>2. Pieces(p) \in Seq(Part) /\ Len(Pieces(p)) \in Nat /\ DOMAIN Pieces(p) = 1 .. Len(Pieces(p))
        BY <1>1, PiecesAreParts, LenProperties
      <3> QED BY <1>3, <3>1, <3>2
    <2>3. /\ Append(Pieces(t), q) \in Seq(Part) /\ Len(Append(Pieces(t), q)) = Len(cut)
          /\ \A k \in 1 .. Len(cut) - 1 : Append(Pieces(t), q)[k] = Pieces(t)[k]
          /\ Append(Pieces(t), q)[Len(cut)] = q
      BY <1>3, <2>1, AppendProperties
    <2>4. \A k \in 1 .. Len(cut) : Pieces(p)[k] = Append(Pieces(t), q)[k]
      <3> TAKE k \in 1 .. Len(cut)
      <3>1. CASE k \in 1 .. Len(cut) - 1
        <4>1. k \in 1 .. Len(cut)
          OBVIOUS
        <4> QED BY <1>7, <1>8, <1>9, <2>3, <3>1, <4>1
      <3>2. CASE k = Len(cut)
        BY <1>3, <1>7, <1>10, <2>3, <3>2
      <3>3. k \in 1 .. Len(cut) - 1 \/ k = Len(cut)
        BY <1>3
      <3> QED BY <3>1, <3>2, <3>3
    <2> QED BY <2>2, <2>3, <2>4, SeqEqual
  <1> QED BY <1>1, <1>11 DEF p

--------------------------------------------------------------------------------
(* Folds, step by step *)

\* The state in which PathExplode starts, and what it makes of given pieces.
Start == [legal |-> TRUE, parts |-> <<>>]

Exploded(q) == FoldLeft(Enter, Start, q)

\* g says for every set of places up to m what its pieces lead to.
EnterSteps(q, g, m) ==
  g = [s \in SUBSET (1 .. m) |->
         IF s = {} THEN Start ELSE Enter(g[s \ {Max(s)}], q[Max(s)])]

\* Such steps exist: those up to m + 1 are those up to m and one more.
LEMMA EnterStepsExist ==
  ASSUME NEW q, NEW m \in Nat
  PROVE  \E g : EnterSteps(q, g, m)
  <1> DEFINE T == {k \in Nat : \E g : EnterSteps(q, g, k)}
  <1>1. 0 \in T
    <2> DEFINE g == [s \in SUBSET (1 .. 0) |-> Start]
    <2>1. \A s \in SUBSET (1 .. 0) : s = {}
      OBVIOUS
    <2>2. EnterSteps(q, g, 0)
      BY <2>1 DEF EnterSteps
    <2> HIDE DEF g
    <2> QED BY <2>2
  <1>2. ASSUME NEW k \in Nat, k \in T PROVE k + 1 \in T
    <2>1. PICK g : EnterSteps(q, g, k)
      BY <1>2
    <2> DEFINE h == [s \in SUBSET (1 .. k + 1) |->
                       IF k + 1 \in s THEN Enter(g[s \ {k + 1}], q[k + 1]) ELSE g[s]]
    <2>2. ASSUME NEW s \in SUBSET (1 .. k + 1)
          PROVE  h[s] = IF s = {} THEN Start ELSE Enter(h[s \ {Max(s)}], q[Max(s)])
      <3>1. CASE k + 1 \in s
        <4>1. Max(s) = k + 1
          <5>1. k + 1 \in s /\ \A y \in s : y \in Int /\ k + 1 >= y
            BY <3>1
          <5>2. \A x \in s : (\A y \in s : x >= y) => x = k + 1
            BY <5>1
          <5> QED BY <5>1, <5>2 DEF Max
        <4>2. s \ {k + 1} \in SUBSET (1 .. k + 1) /\ k + 1 \notin s \ {k + 1} /\ s # {}
          BY <3>1
        <4>3. h[s \ {k + 1}] = g[s \ {k + 1}]
          BY <4>2
        <4>4. h[s] = Enter(g[s \ {k + 1}], q[k + 1])
          BY <3>1
        <4> HIDE DEF h
        <4> QED BY <4>1, <4>2, <4>3, <4>4
      <3>2. CASE k + 1 \notin s
        <4>1. s \in SUBSET (1 .. k) /\ s \ {Max(s)} \in SUBSET (1 .. k) /\ s \ {Max(s)} \in SUBSET (1 .. k + 1)
          <5>1. \A y \in s : y \in 1 .. k
            BY <3>2
          <5>2. s \subseteq 1 .. k /\ 1 .. k \subseteq 1 .. k + 1
            BY <5>1
          <5> QED BY <5>2
        <4>2. g[s] = IF s = {} THEN Start ELSE Enter(g[s \ {Max(s)}], q[Max(s)])
          BY <2>1, <4>1 DEF EnterSteps
        <4>3. h[s] = g[s]
          BY <3>2
        <4>4. h[s \ {Max(s)}] = g[s \ {Max(s)}]
          BY <3>2, <4>1
        <4> HIDE DEF h
        <4> QED BY <4>2, <4>3, <4>4
      <3> QED BY <3>1, <3>2
    <2>3. EnterSteps(q, h, k + 1)
      <3>1. h = [s \in SUBSET (1 .. k + 1) |-> h[s]]
        OBVIOUS
      <3> HIDE DEF h
      <3> QED BY <2>2, <3>1 DEF EnterSteps
    <2> HIDE DEF h
    <2> QED BY <2>3
  <1> HIDE DEF T
  <1>3. m \in T
    BY <1>1, <1>2, Induction
  <1> QED BY <1>3 DEF T

\* Each step takes the next piece.
LEMMA EnterStepsFollow ==
  ASSUME NEW q, NEW g, NEW m \in Nat, EnterSteps(q, g, m)
  PROVE  /\ g[1 .. 0] = Start
         /\ \A k \in Nat : k < m => g[1 .. k + 1] = Enter(g[1 .. k], q[k + 1])
  <1>1. g[1 .. 0] = Start
    <2>1. 1 .. 0 = {} /\ {} \in SUBSET (1 .. m)
      OBVIOUS
    <2>2. g[{}] = Start
      BY <2>1 DEF EnterSteps
    <2> QED BY <2>1, <2>2
  <1>2. ASSUME NEW k \in Nat, k < m PROVE g[1 .. k + 1] = Enter(g[1 .. k], q[k + 1])
    <2> DEFINE s == 1 .. k + 1
    <2>1. s \in SUBSET (1 .. m) /\ s # {} /\ s \ {k + 1} = 1 .. k
      BY <1>2
    <2>2. Max(s) = k + 1
      <3>1. k + 1 \in s /\ \A y \in s : y \in Int /\ k + 1 >= y
        OBVIOUS
      <3>2. \A x \in s : (\A y \in s : x >= y) => x = k + 1
        BY <3>1
      <3> HIDE DEF s
      <3> QED BY <3>1, <3>2 DEF Max
    <2> HIDE DEF s
    <2>3. g[s] = Enter(g[s \ {Max(s)}], q[Max(s)])
      BY <2>1 DEF EnterSteps
    <2>4. g[s] = Enter(g[1 .. k], q[k + 1])
      BY <2>1, <2>2, <2>3
    <2> QED BY <2>4 DEF s
  <1> QED BY <1>1, <1>2

\* The fold is the last of the steps.
LEMMA ExplodedIs ==
  ASSUME NEW S, NEW q \in Seq(S)
  PROVE  \E g : EnterSteps(q, g, Len(q)) /\ Exploded(q) = g[1 .. Len(q)]
  <1> DEFINE g == CHOOSE f : EnterSteps(q, f, Len(q))
  <1>1. DOMAIN q = 1 .. Len(q) /\ Len(q) \in Nat
    BY LenProperties
  <1>2. Exploded(q) = (CHOOSE f : EnterSteps(q, f, Len(q)))[1 .. Len(q)]
    BY <1>1 DEF Exploded, FoldLeft, MapThenFoldSet, EnterSteps
  <1>3. EnterSteps(q, g, Len(q))
    BY <1>1, EnterStepsExist, Zenon
  <1>4. Exploded(q) = g[1 .. Len(q)]
    BY <1>2
  <1> HIDE DEF g
  <1> QED BY <1>3, <1>4

\* One more piece is entered behind the others.
LEMMA ExplodedNext ==
  ASSUME NEW S, NEW q \in Seq(S), NEW x \in S
  PROVE  Exploded(Append(q, x)) = Enter(Exploded(q), x)
  <1> DEFINE r == Append(q, x)
  <1>1. r \in Seq(S) /\ Len(r) = Len(q) + 1 /\ r[Len(q) + 1] = x /\ \A k \in 1 .. Len(q) : r[k] = q[k]
    BY AppendProperties
  <1>2. Len(q) \in Nat
    BY LenProperties
  <1> HIDE DEF r
  <1>3. PICK g : EnterSteps(q, g, Len(q)) /\ Exploded(q) = g[1 .. Len(q)]
    BY ExplodedIs
  <1>4. PICK h : EnterSteps(r, h, Len(q) + 1) /\ Exploded(r) = h[1 .. Len(q) + 1]
    BY <1>1, ExplodedIs
  <1>5. g[1 .. Len(q)] = h[1 .. Len(q)]
    <2> DEFINE T == {k \in Nat : k <= Len(q) => g[1 .. k] = h[1 .. k]}
    <2>1. 0 \in T
      <3>1. g[1 .. 0] = Start
        BY <1>2, <1>3, EnterStepsFollow
      <3>2. Len(q) + 1 \in Nat
        BY <1>2
      <3>3. h[1 .. 0] = Start
        BY <1>4, <3>2, EnterStepsFollow
      <3> QED BY <3>1, <3>3
    <2>2. ASSUME NEW k \in Nat, k \in T PROVE k + 1 \in T
      <3> SUFFICES ASSUME k + 1 <= Len(q) PROVE g[1 .. k + 1] = h[1 .. k + 1]
        OBVIOUS
      <3>1. k < Len(q) /\ k < Len(q) + 1 /\ k + 1 \in 1 .. Len(q) /\ Len(q) + 1 \in Nat
        BY <1>2
      <3>2. g[1 .. k] = h[1 .. k] /\ q[k + 1] = r[k + 1]
        BY <1>1, <1>2, <2>2, <3>1
      <3>3. g[1 .. k + 1] = Enter(g[1 .. k], q[k + 1])
        BY <1>2, <1>3, <3>1, EnterStepsFollow
      <3>4. h[1 .. k + 1] = Enter(h[1 .. k], r[k + 1])
        BY <1>4, <3>1, EnterStepsFollow
      <3> QED BY <3>2, <3>3, <3>4
    <2> HIDE DEF T
    <2>3. Len(q) \in T
      BY <1>2, <2>1, <2>2, Induction
    <2> QED BY <1>2, <2>3 DEF T
  <1>6. h[1 .. Len(q) + 1] = Enter(h[1 .. Len(q)], r[Len(q) + 1])
    <2>1. Len(q) + 1 \in Nat /\ Len(q) < Len(q) + 1
      BY <1>2
    <2> QED BY <1>2, <1>4, <2>1, EnterStepsFollow
  <1>7. Exploded(r) = Enter(Exploded(q), x)
    BY <1>1, <1>3, <1>4, <1>5, <1>6
  <1> QED BY <1>7 DEF r

\* No pieces lead nowhere.
LEMMA ExplodedNone == Exploded(<<>>) = Start
  <1>1. <<>> \in Seq({}) /\ Len(<<>>) = 0
    BY EmptySeq
  <1>2. PICK g : EnterSteps(<<>>, g, 0) /\ Exploded(<<>>) = g[1 .. 0]
    BY <1>1, ExplodedIs
  <1> QED BY <1>2, EnterStepsFollow

\* The same for Join: g is the text of the parts in every set of places up to m.
JoinSteps(q, g, m) ==
  g = [s \in SUBSET (1 .. m) |->
         IF s = {} THEN <<>> ELSE g[s \ {Max(s)}] \o Root \o q[Max(s)]]

\* Such steps exist: those up to m + 1 are those up to m and one more.
LEMMA JoinStepsExist ==
  ASSUME NEW q, NEW m \in Nat
  PROVE  \E g : JoinSteps(q, g, m)
  <1> DEFINE T == {k \in Nat : \E g : JoinSteps(q, g, k)}
  <1>1. 0 \in T
    <2> DEFINE g == [s \in SUBSET (1 .. 0) |-> <<>>]
    <2>1. \A s \in SUBSET (1 .. 0) : s = {}
      OBVIOUS
    <2>2. JoinSteps(q, g, 0)
      BY <2>1 DEF JoinSteps
    <2> HIDE DEF g
    <2> QED BY <2>2
  <1>2. ASSUME NEW k \in Nat, k \in T PROVE k + 1 \in T
    <2>1. PICK g : JoinSteps(q, g, k)
      BY <1>2
    <2> DEFINE h == [s \in SUBSET (1 .. k + 1) |->
                       IF k + 1 \in s THEN g[s \ {k + 1}] \o Root \o q[k + 1] ELSE g[s]]
    <2>2. ASSUME NEW s \in SUBSET (1 .. k + 1)
          PROVE  h[s] = IF s = {} THEN <<>> ELSE h[s \ {Max(s)}] \o Root \o q[Max(s)]
      <3>1. CASE k + 1 \in s
        <4>1. Max(s) = k + 1
          <5>1. k + 1 \in s /\ \A y \in s : y \in Int /\ k + 1 >= y
            BY <3>1
          <5>2. \A x \in s : (\A y \in s : x >= y) => x = k + 1
            BY <5>1
          <5> QED BY <5>1, <5>2 DEF Max
        <4>2. s \ {k + 1} \in SUBSET (1 .. k + 1) /\ k + 1 \notin s \ {k + 1} /\ s # {}
          BY <3>1
        <4>3. h[s \ {k + 1}] = g[s \ {k + 1}]
          BY <4>2
        <4>4. h[s] = g[s \ {k + 1}] \o Root \o q[k + 1]
          BY <3>1
        <4> HIDE DEF h
        <4> QED BY <4>1, <4>2, <4>3, <4>4
      <3>2. CASE k + 1 \notin s
        <4>1. s \in SUBSET (1 .. k) /\ s \ {Max(s)} \in SUBSET (1 .. k) /\ s \ {Max(s)} \in SUBSET (1 .. k + 1)
          <5>1. \A y \in s : y \in 1 .. k
            BY <3>2
          <5>2. s \subseteq 1 .. k /\ 1 .. k \subseteq 1 .. k + 1
            BY <5>1
          <5> QED BY <5>2
        <4>2. g[s] = IF s = {} THEN <<>> ELSE g[s \ {Max(s)}] \o Root \o q[Max(s)]
          BY <2>1, <4>1 DEF JoinSteps
        <4>3. h[s] = g[s]
          BY <3>2
        <4>4. h[s \ {Max(s)}] = g[s \ {Max(s)}]
          BY <3>2, <4>1
        <4> HIDE DEF h
        <4> QED BY <4>2, <4>3, <4>4
      <3> QED BY <3>1, <3>2
    <2>3. JoinSteps(q, h, k + 1)
      <3>1. h = [s \in SUBSET (1 .. k + 1) |-> h[s]]
        OBVIOUS
      <3> HIDE DEF h
      <3> QED BY <2>2, <3>1 DEF JoinSteps
    <2> HIDE DEF h
    <2> QED BY <2>3
  <1> HIDE DEF T
  <1>3. m \in T
    BY <1>1, <1>2, Induction
  <1> QED BY <1>3 DEF T

\* Each step takes the next part.
LEMMA JoinStepsFollow ==
  ASSUME NEW q, NEW g, NEW m \in Nat, JoinSteps(q, g, m)
  PROVE  /\ g[1 .. 0] = <<>>
         /\ \A k \in Nat : k < m => g[1 .. k + 1] = g[1 .. k] \o Root \o q[k + 1]
  <1>1. g[1 .. 0] = <<>>
    <2>1. 1 .. 0 = {} /\ {} \in SUBSET (1 .. m)
      OBVIOUS
    <2>2. g[{}] = <<>>
      BY <2>1 DEF JoinSteps
    <2> QED BY <2>1, <2>2
  <1>2. ASSUME NEW k \in Nat, k < m PROVE g[1 .. k + 1] = g[1 .. k] \o Root \o q[k + 1]
    <2> DEFINE s == 1 .. k + 1
    <2>1. s \in SUBSET (1 .. m) /\ s # {} /\ s \ {k + 1} = 1 .. k
      BY <1>2
    <2>2. Max(s) = k + 1
      <3>1. k + 1 \in s /\ \A y \in s : y \in Int /\ k + 1 >= y
        OBVIOUS
      <3>2. \A x \in s : (\A y \in s : x >= y) => x = k + 1
        BY <3>1
      <3> HIDE DEF s
      <3> QED BY <3>1, <3>2 DEF Max
    <2> HIDE DEF s
    <2>3. g[s] = g[s \ {Max(s)}] \o Root \o q[Max(s)]
      BY <2>1 DEF JoinSteps
    <2>4. g[s] = g[1 .. k] \o Root \o q[k + 1]
      BY <2>1, <2>2, <2>3
    <2> QED BY <2>4 DEF s
  <1> QED BY <1>1, <1>2

\* The text is the last of the steps.
LEMMA JoinIs ==
  ASSUME NEW S, NEW q \in Seq(S)
  PROVE  \E g : JoinSteps(q, g, Len(q)) /\ Join(q) = g[1 .. Len(q)]
  <1> DEFINE g == CHOOSE f : JoinSteps(q, f, Len(q))
  <1>1. DOMAIN q = 1 .. Len(q) /\ Len(q) \in Nat
    BY LenProperties
  <1>2. Join(q) = (CHOOSE f : JoinSteps(q, f, Len(q)))[1 .. Len(q)]
    BY <1>1 DEF Join, FoldLeft, MapThenFoldSet, JoinSteps
  <1>3. JoinSteps(q, g, Len(q))
    BY <1>1, JoinStepsExist, Zenon
  <1>4. Join(q) = g[1 .. Len(q)]
    BY <1>2
  <1> HIDE DEF g
  <1> QED BY <1>3, <1>4

\* One more part is put behind the others.
LEMMA JoinNext ==
  ASSUME NEW S, NEW q \in Seq(S), NEW x \in S
  PROVE  Join(Append(q, x)) = Join(q) \o Root \o x
  <1> DEFINE r == Append(q, x)
  <1>1. r \in Seq(S) /\ Len(r) = Len(q) + 1 /\ r[Len(q) + 1] = x /\ \A k \in 1 .. Len(q) : r[k] = q[k]
    BY AppendProperties
  <1>2. Len(q) \in Nat
    BY LenProperties
  <1> HIDE DEF r
  <1>3. PICK g : JoinSteps(q, g, Len(q)) /\ Join(q) = g[1 .. Len(q)]
    BY JoinIs
  <1>4. PICK h : JoinSteps(r, h, Len(q) + 1) /\ Join(r) = h[1 .. Len(q) + 1]
    BY <1>1, JoinIs
  <1>5. g[1 .. Len(q)] = h[1 .. Len(q)]
    <2> DEFINE T == {k \in Nat : k <= Len(q) => g[1 .. k] = h[1 .. k]}
    <2>1. 0 \in T
      <3>1. g[1 .. 0] = <<>>
        BY <1>2, <1>3, JoinStepsFollow
      <3>2. Len(q) + 1 \in Nat
        BY <1>2
      <3>3. h[1 .. 0] = <<>>
        BY <1>4, <3>2, JoinStepsFollow
      <3> QED BY <3>1, <3>3
    <2>2. ASSUME NEW k \in Nat, k \in T PROVE k + 1 \in T
      <3> SUFFICES ASSUME k + 1 <= Len(q) PROVE g[1 .. k + 1] = h[1 .. k + 1]
        OBVIOUS
      <3>1. k < Len(q) /\ k < Len(q) + 1 /\ k + 1 \in 1 .. Len(q) /\ Len(q) + 1 \in Nat
        BY <1>2
      <3>2. g[1 .. k] = h[1 .. k] /\ q[k + 1] = r[k + 1]
        BY <1>1, <1>2, <2>2, <3>1
      <3>3. g[1 .. k + 1] = g[1 .. k] \o Root \o q[k + 1]
        BY <1>2, <1>3, <3>1, JoinStepsFollow
      <3>4. h[1 .. k + 1] = h[1 .. k] \o Root \o r[k + 1]
        BY <1>4, <3>1, JoinStepsFollow
      <3> QED BY <3>2, <3>3, <3>4
    <2> HIDE DEF T
    <2>3. Len(q) \in T
      BY <1>2, <2>1, <2>2, Induction
    <2> QED BY <1>2, <2>3 DEF T
  <1>6. h[1 .. Len(q) + 1] = h[1 .. Len(q)] \o Root \o r[Len(q) + 1]
    <2>1. Len(q) + 1 \in Nat /\ Len(q) < Len(q) + 1
      BY <1>2
    <2> QED BY <1>2, <1>4, <2>1, JoinStepsFollow
  <1>7. Join(r) = Join(q) \o Root \o x
    BY <1>1, <1>3, <1>4, <1>5, <1>6
  <1> QED BY <1>7 DEF r

\* No parts have no text.
LEMMA JoinNone == Join(<<>>) = <<>>
  <1>1. <<>> \in Seq({}) /\ Len(<<>>) = 0
    BY EmptySeq
  <1>2. PICK g : JoinSteps(<<>>, g, 0) /\ Join(<<>>) = g[1 .. 0]
    BY <1>1, JoinIs
  <1> QED BY <1>2, JoinStepsFollow

\* A list without its last element.
LEMMA FrontIs ==
  ASSUME NEW S, NEW s \in Seq(S), Len(s) > 0
  PROVE  /\ Front(s) \in Seq(S) /\ Len(Front(s)) = Len(s) - 1
         /\ \A i \in 1 .. Len(s) - 1 : Front(s)[i] = s[i]
  <1>1. PICK l \in Nat : l = Len(s) - 1
    BY LenProperties
  <1>2. \A i \in 1 .. l : i \in 1 .. Len(s) /\ s[i] \in S /\ 1 + i - 1 = i
    BY <1>1, LenProperties, ElementOfSeq
  <1>3. 1 \in Int /\ l \in Int /\ (IF 1 <= l THEN l - 1 + 1 ELSE 0) = l /\ l - 1 + 1 = l
    OBVIOUS
  <1>4. /\ SubSeq(s, 1, l) \in Seq(S) /\ Len(SubSeq(s, 1, l)) = l
        /\ \A i \in 1 .. l : SubSeq(s, 1, l)[i] = s[i]
    BY <1>2, <1>3, SubSeqProperties
  <1> QED BY <1>1, <1>4 DEF Front

\* What holds of no elements, and of one more when it holds of some, holds of every list.
LEMMA AppendInduction ==
  ASSUME NEW S, NEW T, <<>> \in T, \A s \in Seq(S), x \in S : s \in T => Append(s, x) \in T
  PROVE  \A s \in Seq(S) : s \in T
  <1> DEFINE U == {n \in Nat : \A s \in Seq(S) : Len(s) = n => s \in T}
  <1>1. 0 \in U
    <2>1. \A s \in Seq(S) : Len(s) = 0 => s = <<>>
      BY EmptySeq
    <2> QED BY <2>1
  <1>2. ASSUME NEW n \in Nat, n \in U PROVE n + 1 \in U
    <2> SUFFICES ASSUME NEW s \in Seq(S), Len(s) = n + 1 PROVE s \in T
      OBVIOUS
    <2>1. s # <<>>
      BY EmptySeq
    <2>2. PICK r \in Seq(S), x \in S : s = Append(r, x)
      BY <2>1, SequenceEmptyOrAppend
    <2>3. Len(r) = n
      BY <2>2, AppendProperties, LenProperties
    <2>4. r \in T
      BY <1>2, <2>3
    <2> QED BY <2>2, <2>4
  <1> HIDE DEF U
  <1>3. \A n \in Nat : n \in U
    BY <1>1, <1>2, Induction
  <1> QED BY <1>3, LenProperties DEF U

--------------------------------------------------------------------------------
(* What a path leads to *)

\* The parts that are entered.
Name == {x \in Part : IsName(x)}

Place == [legal : BOOLEAN, parts : Seq(Name)]

\* A part is skipped, goes up, or is a name.
LEMMA ThreeKinds ==
  /\ DotDot \notin {<<>>, <<Dot>>}
  /\ \A x \in Part : x \in {<<>>, <<Dot>>} \/ x = DotDot \/ x \in Name
  /\ \A x \in Name : x \in Part /\ x \in Text /\ x \notin {<<>>, <<Dot>>} /\ x # DotDot /\ x # <<>> /\ IsName(x)
  /\ <<>> \in Part
  <1>1. DotDot \notin {<<>>, <<Dot>>}
    BY DEF DotDot, Dot
  <1>2. <<>> \in Part
    BY EmptySeq DEF Part, Text
  <1> QED BY <1>1, <1>2 DEF Name, IsName, Part

\* What each of them does.
LEMMA EnterIs ==
  ASSUME NEW r \in Place, NEW x \in Part
  PROVE  /\ Enter(r, x) \in Place
         /\ ~r.legal => Enter(r, x) = r
         /\ x \in {<<>>, <<Dot>>} => Enter(r, x) = r
         /\ (r.legal /\ x = DotDot /\ r.parts = <<>>) => ~Enter(r, x).legal
         /\ (r.legal /\ x = DotDot /\ r.parts # <<>>)
              => Enter(r, x) = [legal |-> TRUE, parts |-> Front(r.parts)]
         /\ (r.legal /\ x \in Name) => Enter(r, x) = [legal |-> TRUE, parts |-> Append(r.parts, x)]
  <1>1. r.legal \in BOOLEAN /\ r.parts \in Seq(Name) /\ r = [legal |-> r.legal, parts |-> r.parts]
    BY DEF Place
  <1>2. CASE ~r.legal \/ x \in {<<>>, <<Dot>>}
    <2>1. r.legal => x # DotDot /\ x \notin Name
      BY <1>2, ThreeKinds
    <2>2. Enter(r, x) = r
      BY <1>2, <2>1 DEF Enter
    <2> QED BY <2>1, <2>2
  <1>3. CASE r.legal /\ x = DotDot /\ r.parts = <<>>
    <2>1. Enter(r, x) = [r EXCEPT !.legal = FALSE]
      BY <1>3, ThreeKinds DEF Enter
    <2>2. [r EXCEPT !.legal = FALSE] \in Place /\ ~[r EXCEPT !.legal = FALSE].legal
      BY DEF Place
    <2> QED BY <1>3, <2>1, <2>2, ThreeKinds
  <1>4. CASE r.legal /\ x = DotDot /\ r.parts # <<>>
    <2>1. Enter(r, x) = [r EXCEPT !.parts = Front(@)]
      BY <1>4, ThreeKinds DEF Enter
    <2>2. Enter(r, x) = [legal |-> TRUE, parts |-> Front(r.parts)]
      BY <1>1, <1>4, <2>1
    <2>3. Front(r.parts) \in Seq(Name)
      <3>1. Len(r.parts) - 1 \in Int /\ 1 \in Int /\ \A i \in 1 .. Len(r.parts) - 1 : r.parts[i] \in Name
        BY <1>1, ElementOfSeq, LenProperties
      <3> QED BY <3>1, SubSeqProperties DEF Front
    <2> QED BY <1>4, <2>2, <2>3, ThreeKinds DEF Place
  <1>5. CASE r.legal /\ x \in Name
    <2>1. Enter(r, x) = [r EXCEPT !.parts = Append(@, x)]
      BY <1>5, ThreeKinds DEF Enter
    <2>2. Enter(r, x) = [legal |-> TRUE, parts |-> Append(r.parts, x)]
      BY <1>1, <1>5, <2>1
    <2>3. Append(r.parts, x) \in Seq(Name)
      BY <1>1, <1>5, AppendProperties
    <2> QED BY <1>5, <2>2, <2>3, ThreeKinds DEF Place
  <1> QED BY <1>2, <1>3, <1>4, <1>5, ThreeKinds

\* Entering parts leads to a place.
LEMMA ExplodedTyped == \A q \in Seq(Part) : Exploded(q) \in Place
  <1> DEFINE T == {q \in Seq(Part) : Exploded(q) \in Place}
  <1>1. <<>> \in T
    <2>1. Start \in Place /\ <<>> \in Seq(Part)
      BY EmptySeq DEF Start, Place
    <2> QED BY <2>1, ExplodedNone
  <1>2. ASSUME NEW q \in Seq(Part), NEW x \in Part, q \in T PROVE Append(q, x) \in T
    <2>1. Append(q, x) \in Seq(Part)
      BY AppendProperties
    <2>2. Exploded(Append(q, x)) = Enter(Exploded(q), x)
      BY ExplodedNext
    <2> QED BY <1>2, <2>1, <2>2, EnterIs
  <1> HIDE DEF T
  <1>3. \A q \in Seq(Part) : q \in T
    BY <1>1, <1>2, AppendInduction
  <1> QED BY <1>3 DEF T

\* Names that are joined to a path are what it leads to.
LEMMA JoinedNames ==
  ASSUME NEW s \in Seq(Name)
  PROVE  /\ Join(s) \in Text
         /\ PathExplode(Join(s)) = [legal |-> TRUE, parts |-> s]
  <1> DEFINE T == {q \in Seq(Name) : /\ Join(q) \in Text
                                     /\ Exploded(Pieces(Join(q))) = [legal |-> TRUE, parts |-> q]}
  <1>1. <<>> \in T
    <2>1. Join(<<>>) = <<>> /\ <<>> \in Text /\ <<>> \in Seq(Name)
      BY JoinNone, EmptySeq DEF Text
    <2>2. Pieces(<<>>) = << <<>> >>
      BY OnePiece, ThreeKinds
    <2>3. << <<>> >> = Append(<<>>, <<>>) /\ <<>> \in Seq(Part)
      BY EmptySeq
    <2>4. Exploded(<< <<>> >>) = Enter(Exploded(<<>>), <<>>)
      BY <2>3, ExplodedNext, ThreeKinds
    <2>5. Exploded(<< <<>> >>) = Start
      <3>1. Start \in Place
        BY EmptySeq DEF Start, Place
      <3> QED BY <2>4, <3>1, ExplodedNone, EnterIs, ThreeKinds
    <2> QED BY <2>1, <2>2, <2>5 DEF Start
  <1>2. ASSUME NEW q \in Seq(Name), NEW x \in Name, q \in T PROVE Append(q, x) \in T
    <2>1. Append(q, x) \in Seq(Name) /\ x \in Part
      BY AppendProperties, ThreeKinds
    <2>2. Join(Append(q, x)) = Join(q) \o Root \o x
      BY JoinNext
    <2>3. /\ Join(q) \o Root \o x \in Text
          /\ Pieces(Join(q) \o Root \o x) = Append(Pieces(Join(q)), x)
      BY <1>2, <2>1, PiecesAppend
    <2>4. Exploded(Append(Pieces(Join(q)), x)) = Enter(Exploded(Pieces(Join(q))), x)
      BY <1>2, <2>1, PiecesAreParts, ExplodedNext
    <2>5. [legal |-> TRUE, parts |-> q] \in Place
      BY DEF Place
    <2>6. Enter([legal |-> TRUE, parts |-> q], x) = [legal |-> TRUE, parts |-> Append(q, x)]
      BY <2>1, <2>5, EnterIs
    <2> QED BY <1>2, <2>1, <2>2, <2>3, <2>4, <2>6
  <1> HIDE DEF T
  <1>3. s \in T
    BY <1>1, <1>2, AppendInduction
  <1>4. PathExplode(Join(s)) = Exploded(Pieces(Join(s)))
    BY DEF PathExplode, Exploded, Start
  <1> QED BY <1>3, <1>4 DEF T

\* The path that Resolve gives is that of the parts which the path asked for leads to,
\* though it is cleaned, split and joined twice.
LEMMA ResolvedOnce ==
  ASSUME NEW path \in Text
  PROVE  /\ PathExplode(path) \in Place
         /\ Resolve(path).legal = PathExplode(path).legal
         /\ Resolve(path).path = <<Dot>> \o Join(PathExplode(path).parts)
  <1> DEFINE parts == PathExplode(path).parts
  <1>1. PathExplode(path) = Exploded(Pieces(path))
    BY DEF PathExplode, Exploded, Start
  <1>2. PathExplode(path) \in Place /\ parts \in Seq(Name)
    BY <1>1, PiecesAreParts, ExplodedTyped DEF Place
  <1>3. PathExplode(PathClean(path)).parts = parts
    <2>1. CASE parts = <<>>
      <3>1. PathClean(path) = Root
        BY <2>1 DEF PathClean
      <3>2. Root = <<>> \o Root \o <<>>
        BY DEF Root
      <3>3. Pieces(Root) = Append(Pieces(<<>>), <<>>)
        BY <3>2, PiecesAppend, ThreeKinds DEF Part
      <3>4. Pieces(<<>>) \in Seq(Part) /\ <<>> \in Text
        BY ThreeKinds, PiecesAreParts DEF Part
      <3>5. Exploded(Pieces(Root)) = Enter(Exploded(Pieces(<<>>)), <<>>)
        BY <3>3, <3>4, ExplodedNext, ThreeKinds
      <3>6. Exploded(Pieces(<<>>)) = [legal |-> TRUE, parts |-> <<>>]
        <4>1. Join(<<>>) = <<>> /\ <<>> \in Seq(Name)
          BY JoinNone, EmptySeq
        <4>2. PathExplode(<<>>) = Exploded(Pieces(<<>>))
          BY DEF PathExplode, Exploded, Start
        <4> QED BY <4>1, <4>2, JoinedNames
      <3>7. Exploded(Pieces(Root)) = Exploded(Pieces(<<>>))
        BY <3>4, <3>5, ExplodedTyped, EnterIs, ThreeKinds
      <3>8. PathExplode(Root) = Exploded(Pieces(Root))
        BY DEF PathExplode, Exploded, Start
      <3> QED BY <2>1, <3>1, <3>6, <3>7, <3>8
    <2>2. CASE parts # <<>>
      <3>1. PathClean(path) = Join(parts)
        BY <2>2 DEF PathClean
      <3> QED BY <1>2, <3>1, JoinedNames
    <2> QED BY <2>1, <2>2
  <1> QED BY <1>2, <1>3 DEF Resolve

--------------------------------------------------------------------------------
(* The parts that no ".." takes back *)

\* How deep the first i pieces lead.
Depth(q, i) ==
  Cardinality({j \in 1 .. i : IsName(q[j])}) - Cardinality({j \in 1 .. i : q[j] = DotDot})

\* The names behind which it never gets less deep again.
Kept(q) == {i \in 1 .. Len(q) : IsName(q[i]) /\ \A j \in i .. Len(q) : Depth(q, j) >= Depth(q, i)}

\* No ".." has nothing to take back.
Deep(q) == \A i \in 1 .. Len(q) : Depth(q, i) >= 0

\* A name leads one deeper, and ".." one back.
LEMMA DepthNext ==
  ASSUME NEW q, NEW i \in Nat
  PROVE  /\ Depth(q, 0) = 0 /\ Depth(q, i) \in Int
         /\ IsName(q[i + 1]) => Depth(q, i + 1) = Depth(q, i) + 1
         /\ q[i + 1] = DotDot => Depth(q, i + 1) = Depth(q, i) - 1
         /\ (~IsName(q[i + 1]) /\ q[i + 1] # DotDot) => Depth(q, i + 1) = Depth(q, i)
  <1> DEFINE N(k) == {j \in 1 .. k : IsName(q[j])}
             D(k) == {j \in 1 .. k : q[j] = DotDot}
  <1>1. ASSUME NEW k \in Nat
        PROVE  /\ IsFiniteSet(N(k)) /\ Cardinality(N(k)) \in Nat
               /\ IsFiniteSet(D(k)) /\ Cardinality(D(k)) \in Nat
    <2>1. IsFiniteSet(1 .. k)
      BY FS_Interval
    <2>2. N(k) \in SUBSET (1 .. k) /\ D(k) \in SUBSET (1 .. k)
      OBVIOUS
    <2> HIDE DEF N, D
    <2>3. IsFiniteSet(N(k)) /\ IsFiniteSet(D(k))
      BY <2>1, <2>2, FS_Subset
    <2> QED BY <2>3, FS_CardinalityType
  <1>2. N(0) = {} /\ D(0) = {} /\ Cardinality({}) = 0
    BY FS_EmptySet
  <1>3. i + 1 \notin N(i) /\ i + 1 \notin D(i)
    OBVIOUS
  <1>4. IsName(q[i + 1]) => N(i + 1) = N(i) \cup {i + 1}
    OBVIOUS
  <1>5. ~IsName(q[i + 1]) => N(i + 1) = N(i)
    <2>1. \A j \in 1 .. i + 1 : j # i + 1 => j \in 1 .. i
      OBVIOUS
    <2> QED BY <2>1
  <1>6. q[i + 1] = DotDot => D(i + 1) = D(i) \cup {i + 1}
    OBVIOUS
  <1>7. q[i + 1] # DotDot => D(i + 1) = D(i)
    <2>1. \A j \in 1 .. i + 1 : j # i + 1 => j \in 1 .. i
      OBVIOUS
    <2> QED BY <2>1
  <1>8. \A k : Depth(q, k) = Cardinality(N(k)) - Cardinality(D(k))
    BY DEF Depth
  <1> HIDE DEF N, D
  <1>9. IsName(q[i + 1]) => Cardinality(N(i + 1)) = Cardinality(N(i)) + 1
    BY <1>1, <1>3, <1>4, FS_AddElement
  <1>10. q[i + 1] = DotDot => Cardinality(D(i + 1)) = Cardinality(D(i)) + 1
    BY <1>1, <1>3, <1>6, FS_AddElement
  <1>11. q[i + 1] = DotDot => ~IsName(q[i + 1])
    BY DEF IsName
  <1>12. Depth(q, 0) = 0
    BY <1>2, <1>8
  <1>13. /\ Cardinality(N(i)) \in Nat /\ Cardinality(D(i)) \in Nat
         /\ Depth(q, i) = Cardinality(N(i)) - Cardinality(D(i))
         /\ Depth(q, i + 1) = Cardinality(N(i + 1)) - Cardinality(D(i + 1))
    BY <1>1, <1>8
  <1>14. CASE IsName(q[i + 1])
    <2>1. q[i + 1] # DotDot
      BY <1>11, <1>14
    <2> QED BY <1>7, <1>9, <1>12, <1>13, <1>14, <2>1
  <1>15. CASE q[i + 1] = DotDot
    <2>1. ~IsName(q[i + 1])
      BY <1>11, <1>15
    <2> QED BY <1>5, <1>10, <1>12, <1>13, <1>15, <2>1
  <1>16. CASE ~IsName(q[i + 1]) /\ q[i + 1] # DotDot
    BY <1>5, <1>7, <1>12, <1>13, <1>16
  <1> QED BY <1>14, <1>15, <1>16

\* What a further piece changes of all this.
LEMMA KeptNext ==
  ASSUME NEW S, NEW q \in Seq(S), NEW x \in S
  PROVE  LET r == Append(q, x)
             n == Len(q)
         IN /\ r \in Seq(S) /\ Len(r) = n + 1 /\ n \in Nat /\ r[n + 1] = x
            /\ \A i \in 1 .. n : r[i] = q[i]
            /\ \A i \in 0 .. n : Depth(r, i) = Depth(q, i) /\ Depth(q, i) \in Int
            /\ Depth(r, n + 1) \in Int
            /\ Deep(r) <=> Deep(q) /\ Depth(r, n + 1) >= 0
            /\ \A i \in 1 .. n : i \in Kept(r) <=> i \in Kept(q) /\ Depth(r, n + 1) >= Depth(q, i)
            /\ n + 1 \in Kept(r) <=> IsName(x)
            /\ \A i \in Kept(r) : i \in 1 .. n + 1
            /\ \A i \in Kept(q) : i \in 1 .. n
  <1> DEFINE r == Append(q, x)
             n == Len(q)
  <1>1. r \in Seq(S) /\ Len(r) = n + 1 /\ n \in Nat /\ r[n + 1] = x /\ \A i \in 1 .. n : r[i] = q[i]
    BY AppendProperties, LenProperties
  <1> HIDE DEF r, n
  <1>2. ASSUME NEW i \in 0 .. n PROVE Depth(r, i) = Depth(q, i)
    <2>1. \A j \in 1 .. i : r[j] = q[j]
      BY <1>1
    <2>2. {j \in 1 .. i : IsName(r[j])} = {j \in 1 .. i : IsName(q[j])}
      BY <2>1
    <2>3. {j \in 1 .. i : r[j] = DotDot} = {j \in 1 .. i : q[j] = DotDot}
      BY <2>1
    <2> QED BY <2>2, <2>3 DEF Depth
  <1>3. \A i \in 0 .. n : Depth(q, i) \in Int
    BY <1>1, DepthNext
  <1>4. Depth(r, n + 1) \in Int
    <2>1. n + 1 \in Nat
      BY <1>1
    <2> QED BY <2>1, DepthNext
  <1>5. Deep(r) <=> Deep(q) /\ Depth(r, n + 1) >= 0
    <2>1. \A i \in 1 .. n + 1 : i \in 1 .. n \/ i = n + 1
      BY <1>1
    <2>2. \A i \in 1 .. n : i \in 1 .. n + 1 /\ i \in 0 .. n
      BY <1>1
    <2>3. n + 1 \in 1 .. n + 1 /\ Len(q) = n
      BY <1>1 DEF n
    <2> QED BY <1>1, <1>2, <2>1, <2>2, <2>3 DEF Deep
  <1>6. ASSUME NEW i \in 1 .. n
        PROVE  i \in Kept(r) <=> i \in Kept(q) /\ Depth(r, n + 1) >= Depth(q, i)
    <2>1. \A j \in i .. n + 1 : j \in i .. n \/ j = n + 1
      BY <1>1
    <2>2. \A j \in i .. n : j \in i .. n + 1 /\ j \in 0 .. n
      BY <1>1
    <2>3. n + 1 \in i .. n + 1 /\ Len(q) = n /\ i \in 0 .. n /\ i \in 1 .. n + 1 /\ r[i] = q[i]
      BY <1>1 DEF n
    <2> QED BY <1>1, <1>2, <2>1, <2>2, <2>3 DEF Kept
  <1>7. n + 1 \in Kept(r) <=> IsName(x)
    <2>1. \A j \in n + 1 .. n + 1 : j = n + 1
      BY <1>1
    <2>2. n + 1 \in 1 .. n + 1 /\ Depth(r, n + 1) >= Depth(r, n + 1)
      BY <1>1, <1>4
    <2> QED BY <1>1, <2>1, <2>2 DEF Kept
  <1>8. (\A i \in Kept(r) : i \in 1 .. n + 1) /\ (\A i \in Kept(q) : i \in 1 .. n)
    BY <1>1 DEF Kept, n
  <1> QED BY <1>1, <1>2, <1>3, <1>4, <1>5, <1>6, <1>7, <1>8 DEF r, n

\* c lists the names that stay of q: as many as q is deep, the m-th of them at depth m.
Stack(q, c) ==
  /\ Ascends(c, Kept(q)) /\ Len(c) = Depth(q, Len(q))
  /\ \A m \in 1 .. Len(c) : Depth(q, c[m]) = m

\* The names of q in the places that c lists.
Picked(q, c) == [m \in 1 .. Len(c) |-> q[c[m]]]

\* A piece that is skipped leaves the stack as it is.
LEMMA StackSkips ==
  ASSUME NEW q \in Seq(Part), NEW c, Stack(q, c), Deep(q), NEW x \in Part, ~IsName(x), x # DotDot
  PROVE  /\ Deep(Append(q, x)) /\ Stack(Append(q, x), c)
         /\ Picked(Append(q, x), c) = Picked(q, c)
  <1> DEFINE r == Append(q, x)
             n == Len(q)
  <1>1. /\ r \in Seq(Part) /\ Len(r) = n + 1 /\ n \in Nat /\ r[n + 1] = x
        /\ \A i \in 1 .. n : r[i] = q[i]
        /\ \A i \in 0 .. n : Depth(r, i) = Depth(q, i) /\ Depth(q, i) \in Int
        /\ Depth(r, n + 1) \in Int
        /\ Deep(r) <=> Deep(q) /\ Depth(r, n + 1) >= 0
        /\ \A i \in 1 .. n : i \in Kept(r) <=> i \in Kept(q) /\ Depth(r, n + 1) >= Depth(q, i)
        /\ n + 1 \in Kept(r) <=> IsName(x)
        /\ \A i \in Kept(r) : i \in 1 .. n + 1
        /\ \A i \in Kept(q) : i \in 1 .. n
    BY KeptNext
  <1>2. n = Len(q)
    OBVIOUS
  <1> HIDE DEF r, n
  <1>3. Depth(r, n + 1) = Depth(q, n)
    <2>1. n \in 0 .. n
      BY <1>1
    <2> QED BY <1>1, <2>1, DepthNext
  <1>4. /\ c \in Seq(Kept(q)) /\ Len(c) \in Nat /\ Len(c) = Depth(q, n)
        /\ \A m \in 1 .. Len(c) : c[m] \in Kept(q) /\ c[m] \in 1 .. n /\ Depth(q, c[m]) = m
    BY <1>1, <1>2, ElementOfSeq, LenProperties DEF Stack, Ascends
  <1>5. Deep(r)
    BY <1>1, <1>3, <1>4
  <1>6. Kept(r) = Kept(q)
    <2>1. \A i \in Kept(q) : Depth(q, n) >= Depth(q, i)
      BY <1>1, <1>2 DEF Kept
    <2>2. \A i \in Kept(r) : i \in 1 .. n
      <3>1. \A i \in 1 .. n + 1 : i \in 1 .. n \/ i = n + 1
        BY <1>1
      <3> QED BY <1>1, <3>1
    <2> QED BY <1>1, <1>3, <2>1, <2>2
  <1>7. \A m \in 1 .. Len(c) : c[m] \in 0 .. n /\ Depth(r, c[m]) = m
    <2>1. \A i \in 1 .. n : i \in 0 .. n
      BY <1>1
    <2> QED BY <1>1, <1>4, <2>1
  <1>8. Stack(r, c)
    BY <1>1, <1>3, <1>4, <1>6, <1>7 DEF Stack
  <1>9. Picked(r, c) = Picked(q, c)
    BY <1>1, <1>4 DEF Picked
  <1> QED BY <1>5, <1>8, <1>9 DEF r

\* A name is put on top.
LEMMA StackEnters ==
  ASSUME NEW q \in Seq(Part), NEW c, Stack(q, c), Deep(q), NEW x \in Name
  PROVE  /\ Deep(Append(q, x)) /\ Stack(Append(q, x), Append(c, Len(q) + 1))
         /\ Picked(Append(q, x), Append(c, Len(q) + 1)) = Append(Picked(q, c), x)
  <1> DEFINE r == Append(q, x)
             n == Len(q)
             d == Append(c, n + 1)
  <1>1. /\ r \in Seq(Part) /\ Len(r) = n + 1 /\ n \in Nat /\ r[n + 1] = x
        /\ \A i \in 1 .. n : r[i] = q[i]
        /\ \A i \in 0 .. n : Depth(r, i) = Depth(q, i) /\ Depth(q, i) \in Int
        /\ Depth(r, n + 1) \in Int
        /\ Deep(r) <=> Deep(q) /\ Depth(r, n + 1) >= 0
        /\ \A i \in 1 .. n : i \in Kept(r) <=> i \in Kept(q) /\ Depth(r, n + 1) >= Depth(q, i)
        /\ n + 1 \in Kept(r) <=> IsName(x)
        /\ \A i \in Kept(r) : i \in 1 .. n + 1
        /\ \A i \in Kept(q) : i \in 1 .. n
    BY KeptNext, ThreeKinds
  <1>2. n = Len(q) /\ IsName(x)
    BY ThreeKinds
  <1> HIDE DEF r, n
  <1>3. Depth(r, n + 1) = Depth(q, n) + 1
    <2>1. n \in 0 .. n
      BY <1>1
    <2> QED BY <1>1, <1>2, <2>1, DepthNext
  <1>4. /\ c \in Seq(Kept(q)) /\ Len(c) \in Nat /\ Len(c) = Depth(q, n)
        /\ \A m \in 1 .. Len(c) : c[m] \in Kept(q) /\ c[m] \in 1 .. n /\ Depth(q, c[m]) = m
        /\ \A i, j \in 1 .. Len(c) : i < j => c[i] < c[j]
    BY <1>1, <1>2, ElementOfSeq, LenProperties DEF Stack, Ascends
  <1>5. Deep(r)
    BY <1>1, <1>3, <1>4
  <1>6. Kept(r) = Kept(q) \cup {n + 1}
    <2>1. \A i \in Kept(q) : i \in 1 .. n /\ Depth(q, n) >= Depth(q, i)
      BY <1>1, <1>2 DEF Kept
    <2>2. \A i \in Kept(r) : i \in 1 .. n \/ i = n + 1
      <3>1. \A i \in 1 .. n + 1 : i \in 1 .. n \/ i = n + 1
        BY <1>1
      <3> QED BY <1>1, <3>1
    <2>3. \A i \in Kept(q) : Depth(r, n + 1) >= Depth(q, i)
      <3>1. \A i \in 1 .. n : i \in 0 .. n
        BY <1>1
      <3>2. n \in 0 .. n
        BY <1>1
      <3> QED BY <1>1, <1>3, <2>1, <3>1, <3>2
    <2> QED BY <1>1, <1>2, <2>1, <2>2, <2>3
  <1>7. /\ d \in Seq(Kept(r)) /\ Len(d) = Len(c) + 1
        /\ \A m \in 1 .. Len(c) : d[m] = c[m]
        /\ d[Len(c) + 1] = n + 1
    <2>1. c \in Seq(Kept(r)) /\ n + 1 \in Kept(r)
      BY <1>4, <1>6
    <2> QED BY <2>1, AppendProperties
  <1> HIDE DEF d
  <1>8. \A m \in 1 .. Len(d) : m \in 1 .. Len(c) \/ m = Len(c) + 1
    BY <1>4, <1>7
  <1>9. \A m \in 1 .. Len(d) : Depth(r, d[m]) = m
    <2>1. \A i \in 1 .. n : i \in 0 .. n
      BY <1>1
    <2>2. \A m \in 1 .. Len(c) : Depth(r, d[m]) = m
      BY <1>1, <1>4, <1>7, <2>1
    <2>3. Depth(r, d[Len(c) + 1]) = Len(c) + 1
      BY <1>3, <1>4, <1>7
    <2> QED BY <1>8, <2>2, <2>3
  <1>10. Ascends(d, Kept(r))
    <2>1. ASSUME NEW e \in Kept(r) PROVE \E k \in 1 .. Len(d) : d[k] = e
      <3>1. CASE e = n + 1
        <4>1. Len(c) + 1 \in 1 .. Len(d)
          BY <1>4, <1>7
        <4> QED BY <1>7, <3>1, <4>1
      <3>2. CASE e \in Kept(q)
        <4>1. PICK k \in 1 .. Len(c) : c[k] = e
          BY <3>2 DEF Stack, Ascends
        <4>2. k \in 1 .. Len(d)
          BY <1>4, <1>7
        <4> QED BY <1>7, <4>1, <4>2
      <3> QED BY <1>6, <3>1, <3>2
    <2>2. ASSUME NEW i \in 1 .. Len(d), NEW j \in 1 .. Len(d), i < j PROVE d[i] < d[j]
      <3>1. i \in 1 .. Len(c) /\ d[i] = c[i] /\ c[i] \in 1 .. n
        BY <1>4, <1>7, <2>2
      <3>2. CASE j \in 1 .. Len(c)
        BY <1>4, <1>7, <2>2, <3>1, <3>2
      <3>3. CASE j = Len(c) + 1
        BY <1>1, <1>7, <3>1, <3>3
      <3> QED BY <1>8, <3>2, <3>3
    <2> QED BY <1>7, <2>1, <2>2 DEF Ascends
  <1>11. Stack(r, d)
    BY <1>1, <1>3, <1>4, <1>7, <1>9, <1>10 DEF Stack
  <1>12. Picked(r, d) = Append(Picked(q, c), x)
    <2>1. Picked(q, c) \in Seq(Part) /\ Len(Picked(q, c)) = Len(c) /\ \A m \in 1 .. Len(c) : Picked(q, c)[m] = q[c[m]]
      <3>1. \A m \in 1 .. Len(c) : q[c[m]] \in Part
        BY <1>2, <1>4, ElementOfSeq
      <3> QED BY <1>4, <3>1 DEF Picked
    <2>2. /\ Append(Picked(q, c), x) \in Seq(Part) /\ Len(Append(Picked(q, c), x)) = Len(c) + 1
          /\ \A m \in 1 .. Len(c) : Append(Picked(q, c), x)[m] = q[c[m]]
          /\ Append(Picked(q, c), x)[Len(c) + 1] = x
      BY <2>1, AppendProperties, ThreeKinds
    <2>3. \A m \in 1 .. Len(d) : r[d[m]] = Append(Picked(q, c), x)[m]
      BY <1>1, <1>4, <1>7, <1>8, <2>2
    <2>4. \A m \in 1 .. Len(d) : r[d[m]] \in Part
      <3>1. \A m \in 1 .. Len(d) : d[m] \in 1 .. Len(r)
        BY <1>1, <1>7, ElementOfSeq
      <3> QED BY <1>1, <3>1, ElementOfSeq
    <2>5. Picked(r, d) \in Seq(Part) /\ Len(Picked(r, d)) = Len(d)
          /\ \A m \in 1 .. Len(d) : Picked(r, d)[m] = r[d[m]]
      <3>1. Len(d) \in Nat
        BY <1>4, <1>7
      <3> QED BY <2>4, <3>1 DEF Picked
    <2> DEFINE a == Picked(r, d)
               b == Append(Picked(q, c), x)
    <2>6. a \in Seq(Part) /\ b \in Seq(Part)
      BY <2>2, <2>5
    <2>7. Len(a) = Len(b) /\ Len(a) = Len(d)
      BY <1>7, <2>2, <2>5
    <2>8. \A m \in 1 .. Len(a) : a[m] = b[m]
      BY <2>3, <2>5, <2>7
    <2> HIDE DEF a, b
    <2>9. a = b
      BY <2>6, <2>7, <2>8, SeqEqual, Zenon
    <2> QED BY <2>9 DEF a, b
  <1> QED BY <1>5, <1>11, <1>12 DEF r, d, n

\* ".." takes the uppermost off, if there is one.
LEMMA StackLeaves ==
  ASSUME NEW q \in Seq(Part), NEW c, Stack(q, c), Deep(q)
  PROVE  /\ Deep(Append(q, DotDot)) <=> Len(c) > 0
         /\ Len(c) > 0 => Stack(Append(q, DotDot), Front(c))
         /\ Len(c) > 0 => Picked(Append(q, DotDot), Front(c)) = Front(Picked(q, c))
         /\ Len(c) = 0 => Kept(Append(q, DotDot)) = {}
  <1> DEFINE r == Append(q, DotDot)
             n == Len(q)
             d == Front(c)
  <1>0. DotDot \in Part /\ ~IsName(DotDot)
    BY DEF DotDot, Dot, Slash, Part, Text, IsName
  <1>1. /\ r \in Seq(Part) /\ Len(r) = n + 1 /\ n \in Nat /\ r[n + 1] = DotDot
        /\ \A i \in 1 .. n : r[i] = q[i]
        /\ \A i \in 0 .. n : Depth(r, i) = Depth(q, i) /\ Depth(q, i) \in Int
        /\ Depth(r, n + 1) \in Int
        /\ Deep(r) <=> Deep(q) /\ Depth(r, n + 1) >= 0
        /\ \A i \in 1 .. n : i \in Kept(r) <=> i \in Kept(q) /\ Depth(r, n + 1) >= Depth(q, i)
        /\ n + 1 \in Kept(r) <=> IsName(DotDot)
        /\ \A i \in Kept(r) : i \in 1 .. n + 1
        /\ \A i \in Kept(q) : i \in 1 .. n
    BY <1>0, KeptNext
  <1>2. n = Len(q)
    OBVIOUS
  <1> HIDE DEF r, n
  <1>3. Depth(r, n + 1) = Depth(q, n) - 1
    <2>1. n \in 0 .. n
      BY <1>1
    <2> QED BY <1>1, <2>1, DepthNext
  <1>4. /\ c \in Seq(Kept(q)) /\ Len(c) \in Nat /\ Len(c) = Depth(q, n)
        /\ \A m \in 1 .. Len(c) : c[m] \in Kept(q) /\ c[m] \in 1 .. n /\ Depth(q, c[m]) = m
        /\ \A i, j \in 1 .. Len(c) : i < j => c[i] < c[j]
    BY <1>1, <1>2, ElementOfSeq, LenProperties DEF Stack, Ascends
  <1>5. Deep(r) <=> Len(c) > 0
    BY <1>1, <1>3, <1>4
  <1>6. \A i : i \in Kept(r) <=> i \in Kept(q) /\ Depth(q, i) <= Len(c) - 1
    <2>1. \A i \in 1 .. n + 1 : i \in 1 .. n \/ i = n + 1
      BY <1>1
    <2>2. \A i \in 1 .. n : i \in 0 .. n
      BY <1>1
    <2>3. ASSUME NEW i \in 1 .. n PROVE i \in Kept(r) <=> i \in Kept(q) /\ Depth(q, i) <= Len(c) - 1
      BY <1>1, <1>3, <1>4, <2>2
    <2> QED BY <1>0, <1>1, <2>1, <2>3
  <1>7. \A e \in Kept(q) : \E k \in 1 .. Len(c) : c[k] = e
    BY DEF Stack, Ascends
  <1>8. ASSUME Len(c) = 0 PROVE Kept(r) = {}
    BY <1>6, <1>7, <1>8
  <1>9. ASSUME Len(c) > 0
        PROVE  Stack(r, d) /\ Picked(r, d) = Front(Picked(q, c))
    <2> DEFINE l == Len(c) - 1
    <2>0. l \in Nat /\ \A m \in 1 .. l : m \in 1 .. Len(c)
      BY <1>4, <1>9
    <2>1. \A m \in 1 .. l : c[m] \in Kept(r)
      BY <1>4, <1>6, <2>0
    <2>2. d \in Seq(Kept(r)) /\ Len(d) = l /\ \A m \in 1 .. l : d[m] = c[m]
      <3>1. d \in Seq(Kept(q)) /\ Len(d) = l /\ \A m \in 1 .. l : d[m] = c[m]
        BY <1>4, <1>9, FrontIs
      <3> HIDE DEF d, l
      <3>2. d = [m \in 1 .. l |-> d[m]] /\ \A m \in 1 .. l : d[m] \in Kept(r)
        BY <2>1, <3>1
      <3> QED BY <2>0, <3>1, <3>2
    <2> HIDE DEF d
    <2>3. \A e \in Kept(r) : \E k \in 1 .. l : d[k] = e
      <3> TAKE e \in Kept(r)
      <3>1. PICK k \in 1 .. Len(c) : c[k] = e
        BY <1>6, <1>7
      <3>2. k <= Len(c) - 1
        BY <1>4, <1>6, <3>1
      <3>3. k \in 1 .. l
        BY <1>4, <3>2
      <3> QED BY <2>2, <3>1, <3>3
    <2>4. Ascends(d, Kept(r))
      <3>1. \A i, j \in 1 .. l : i < j => d[i] < d[j]
        BY <1>4, <2>0, <2>2
      <3> QED BY <2>2, <2>3, <3>1 DEF Ascends
    <2>5. \A m \in 1 .. l : Depth(r, d[m]) = m
      <3>1. \A i \in 1 .. n : i \in 0 .. n
        BY <1>1
      <3> QED BY <1>1, <1>4, <2>0, <2>2, <3>1
    <2>6. Stack(r, d)
      BY <1>1, <1>3, <1>4, <2>2, <2>4, <2>5 DEF Stack
    <2>7. Picked(r, d) = Front(Picked(q, c))
      <3>1. Picked(r, d) = [m \in 1 .. l |-> q[c[m]]]
        BY <1>1, <1>4, <2>0, <2>2 DEF Picked
      <3>2. \A m \in 1 .. Len(c) : q[c[m]] \in Part
        BY <1>2, <1>4, ElementOfSeq
      <3>3. Picked(q, c) \in Seq(Part) /\ Len(Picked(q, c)) = Len(c)
            /\ \A m \in 1 .. Len(c) : Picked(q, c)[m] = q[c[m]]
        BY <1>4, <3>2 DEF Picked
      <3>4. /\ Front(Picked(q, c)) \in Seq(Part) /\ Len(Front(Picked(q, c))) = l
            /\ \A m \in 1 .. l : Front(Picked(q, c))[m] = q[c[m]]
        BY <1>9, <2>0, <3>3, FrontIs
      <3>5. Front(Picked(q, c)) = [m \in 1 .. l |-> q[c[m]]]
        BY <3>4
      <3> QED BY <3>1, <3>5
    <2> QED BY <2>6, <2>7
  <1> QED BY <1>5, <1>8, <1>9 DEF r, d

\* Entering the pieces builds this stack, and fails when a ".." has nothing to take back.
LEMMA StackExplodes ==
  \A q \in Seq(Part) :
    /\ Exploded(q).legal <=> Deep(q)
    /\ Deep(q) => \E c : Stack(q, c) /\ Exploded(q).parts = Picked(q, c)
  <1> DEFINE T == {q \in Seq(Part) : /\ Exploded(q).legal <=> Deep(q)
                                     /\ Deep(q) => \E c : Stack(q, c) /\ Exploded(q).parts = Picked(q, c)}
  <1>1. <<>> \in T
    <2>1. <<>> \in Seq(Part) /\ Len(<<>>) = 0 /\ <<>> \in Seq({})
      BY EmptySeq
    <2>2. Exploded(<<>>).legal = TRUE /\ Exploded(<<>>).parts = <<>>
      BY ExplodedNone DEF Start
    <2>3. Deep(<<>>)
      BY <2>1 DEF Deep
    <2>4. Kept(<<>>) = {}
      BY <2>1 DEF Kept
    <2>5. Depth(<<>>, 0) = 0
      BY DepthNext
    <2>6. Stack(<<>>, <<>>)
      BY <2>1, <2>4, <2>5 DEF Stack, Ascends
    <2>7. Picked(<<>>, <<>>) = <<>>
      BY <2>1 DEF Picked
    <2> QED BY <2>1, <2>2, <2>3, <2>6, <2>7
  <1>2. ASSUME NEW q \in Seq(Part), NEW x \in Part, q \in T PROVE Append(q, x) \in T
    <2> DEFINE r == Append(q, x)
    <2>1. r \in Seq(Part) /\ Exploded(r) = Enter(Exploded(q), x) /\ Exploded(q) \in Place
      BY AppendProperties, ExplodedNext, ExplodedTyped
    <2>2. CASE ~Exploded(q).legal
      <3>1. Exploded(r) = Exploded(q)
        BY <2>1, <2>2, EnterIs
      <3>2. ~Deep(q)
        BY <1>2, <2>2
      <3>3. ~Deep(r)
        BY <3>2, KeptNext
      <3> QED BY <2>1, <2>2, <3>1, <3>3
    <2>3. CASE Exploded(q).legal
      <3>1. Deep(q)
        BY <1>2, <2>3
      <3>2. PICK c : Stack(q, c) /\ Exploded(q).parts = Picked(q, c)
        BY <1>2, <3>1
      <3>3. CASE x \in {<<>>, <<Dot>>}
        <4>1. ~IsName(x) /\ x # DotDot
          BY <3>3, ThreeKinds DEF IsName
        <4>2. Deep(r) /\ Stack(r, c) /\ Picked(r, c) = Picked(q, c)
          BY <3>1, <3>2, <4>1, StackSkips
        <4>3. Exploded(r) = Exploded(q)
          BY <2>1, <3>3, EnterIs
        <4> HIDE DEF r
        <4>4. Exploded(r).legal /\ Exploded(r).parts = Picked(r, c)
          BY <2>3, <3>2, <4>2, <4>3
        <4> QED BY <2>1, <4>2, <4>4 DEF r
      <3>4. CASE x \in Name
        <4> DEFINE d == Append(c, Len(q) + 1)
        <4>1. Deep(r) /\ Stack(r, d) /\ Picked(r, d) = Append(Picked(q, c), x)
          BY <3>1, <3>2, <3>4, StackEnters
        <4>2. Exploded(r) = [legal |-> TRUE, parts |-> Append(Exploded(q).parts, x)]
          BY <2>1, <2>3, <3>4, EnterIs
        <4> HIDE DEF r, d
        <4>3. Exploded(r).legal /\ Exploded(r).parts = Picked(r, d)
          BY <3>2, <4>1, <4>2
        <4> QED BY <2>1, <4>1, <4>3 DEF r
      <3>5. CASE x = DotDot
        <4>1. /\ Deep(r) <=> Len(c) > 0
              /\ Len(c) > 0 => Stack(r, Front(c)) /\ Picked(r, Front(c)) = Front(Picked(q, c))
          BY <3>1, <3>2, <3>5, StackLeaves
        <4>2. Len(c) \in Nat
          BY <3>2, LenProperties DEF Stack, Ascends
        <4>3. CASE Len(c) = 0
          <5>1. Picked(q, c) = <<>>
            BY <4>3 DEF Picked
          <5>2. ~Exploded(r).legal
            BY <2>1, <2>3, <3>2, <3>5, <5>1, EnterIs
          <5>3. ~Deep(r)
            BY <4>1, <4>3
          <5> QED BY <2>1, <5>2, <5>3
        <4>4. CASE Len(c) > 0
          <5>1. Exploded(q).parts # <<>>
            <6>1. DOMAIN Picked(q, c) = 1 .. Len(c) /\ 1 \in 1 .. Len(c)
              BY <4>2, <4>4 DEF Picked
            <6>2. DOMAIN <<>> = {}
              OBVIOUS
            <6> QED BY <3>2, <6>1, <6>2
          <5>2. Exploded(r) = [legal |-> TRUE, parts |-> Front(Exploded(q).parts)]
            BY <2>1, <2>3, <3>5, <5>1, EnterIs
          <5> HIDE DEF r
          <5>3. Exploded(r).legal /\ Exploded(r).parts = Picked(r, Front(c))
            BY <3>2, <4>1, <4>4, <5>2
          <5> QED BY <2>1, <4>1, <4>4, <5>3 DEF r
        <4> QED BY <4>2, <4>3, <4>4
      <3> QED BY <3>3, <3>4, <3>5, ThreeKinds
    <2> QED BY <2>2, <2>3
  <1> HIDE DEF T
  <1>3. \A q \in Seq(Part) : q \in T
    BY <1>1, <1>2, AppendInduction
  <1> QED BY <1>3 DEF T

\* What ResolvedParts says of a path, in these terms.
LEMMA ResolvedPartsAre ==
  ASSUME NEW path \in Text
  PROVE  LET q == Pieces(path)
             k == Ordered(Kept(q), <)
         IN /\ ResolvedParts(path).legal <=> Deep(q)
            /\ ResolvedParts(path).parts = Picked(q, k)
            /\ Ascends(k, Kept(q))
  <1> DEFINE q == Pieces(path)
             depth(i) == Cardinality({j \in 1 .. i : IsName(q[j])})
                           - Cardinality({j \in 1 .. i : q[j] = DotDot})
             stays(i) == IsName(q[i]) /\ \A j \in i .. Len(q) : depth(j) >= depth(i)
             kept == Ordered({i \in DOMAIN q : stays(i)}, <)
  <1>1. DOMAIN q = 1 .. Len(q) /\ Len(q) \in Nat
    BY PiecesAreParts, LenProperties
  <1>2. ResolvedParts(path) = [legal |-> \A i \in DOMAIN q : depth(i) >= 0,
                               parts |-> [k \in DOMAIN kept |-> q[kept[k]]]]
    BY DEF ResolvedParts
  <1>3. \A i : depth(i) = Depth(q, i)
    BY DEF Depth
  <1> HIDE DEF depth, q
  <1>4. {i \in DOMAIN q : stays(i)} = Kept(q)
    BY <1>1, <1>3 DEF Kept
  <1>5. kept = Ordered(Kept(q), <)
    BY <1>4
  <1>6. Ascends(Ordered(Kept(q), <), Kept(q))
    <2>1. Kept(q) \in SUBSET (1 .. Len(q)) /\ 1 .. Len(q) \in SUBSET Int
      BY DEF Kept
    <2>2. IsFiniteSet(1 .. Len(q))
      BY <1>1, FS_Interval
    <2>3. IsFiniteSet(Kept(q)) /\ Kept(q) \in SUBSET Int
      BY <2>1, <2>2, FS_Subset
    <2> QED BY <2>3, OrderedAscends
  <1>7. DOMAIN kept = 1 .. Len(kept)
    BY <1>5, <1>6, LenProperties DEF Ascends
  <1> HIDE DEF kept
  <1>8. ResolvedParts(path).parts = Picked(q, kept)
    BY <1>2, <1>7 DEF Picked
  <1>9. ResolvedParts(path).legal <=> Deep(q)
    BY <1>1, <1>2, <1>3 DEF Deep
  <1> QED BY <1>5, <1>6, <1>8, <1>9 DEF q

\* "Splits paths into parts, automatically resolving "." and ".."": what PathExplode collects
\* on a stack, or refuses, is what ResolvedParts says without one.
LEMMA ExplodesAsResolved ==
  ASSUME NEW path \in Text
  PROVE  /\ PathExplode(path).legal <=> ResolvedParts(path).legal
         /\ PathExplode(path).legal => PathExplode(path).parts = ResolvedParts(path).parts
  <1> DEFINE q == Pieces(path)
  <1>1. q \in Seq(Part) /\ PathExplode(path) = Exploded(q)
    BY PiecesAreParts DEF PathExplode, Exploded, Start
  <1>2. /\ Exploded(q).legal <=> Deep(q)
        /\ Deep(q) => \E c : Stack(q, c) /\ Exploded(q).parts = Picked(q, c)
    BY <1>1, StackExplodes
  <1>3. \E k : /\ ResolvedParts(path).legal <=> Deep(q)
               /\ ResolvedParts(path).parts = Picked(q, k)
               /\ Ascends(k, Kept(q))
    BY ResolvedPartsAre
  <1>4. Kept(q) \in SUBSET Int
    BY DEF Kept
  <1> HIDE DEF q
  <1>5. ASSUME Deep(q) PROVE Exploded(q).parts = ResolvedParts(path).parts
    <2>1. PICK c : Stack(q, c) /\ Exploded(q).parts = Picked(q, c)
      BY <1>2, <1>5
    <2>2. PICK k : ResolvedParts(path).parts = Picked(q, k) /\ Ascends(k, Kept(q))
      BY <1>3
    <2>3. Ascends(c, Kept(q))
      BY <2>1 DEF Stack
    <2>4. c = k
      BY <1>4, <2>2, <2>3, AscendsOnce
    <2> QED BY <2>1, <2>2, <2>4
  <1> QED BY <1>1, <1>2, <1>3, <1>5

--------------------------------------------------------------------------------
(* Putting texts one behind another *)

\* f says for every place what the lists up to there make together.
FlatSteps(q, f, m) ==
  f = [i \in 1 .. m |-> IF i = 1 THEN q[i] ELSE f[i - 1] \o q[i]]

\* Such steps exist.
LEMMA FlatStepsExist ==
  ASSUME NEW q, NEW m \in Nat
  PROVE  \E f : FlatSteps(q, f, m)
  <1> DEFINE T == {k \in Nat : \E f : FlatSteps(q, f, k)}
  <1>1. 0 \in T
    <2> DEFINE f == [i \in 1 .. 0 |-> <<>>]
    <2>1. FlatSteps(q, f, 0)
      BY DEF FlatSteps
    <2> HIDE DEF f
    <2> QED BY <2>1
  <1>2. ASSUME NEW k \in Nat, k \in T PROVE k + 1 \in T
    <2>1. PICK f : FlatSteps(q, f, k)
      BY <1>2
    <2> DEFINE h == [i \in 1 .. k + 1 |->
                       IF i = k + 1 THEN IF i = 1 THEN q[i] ELSE f[i - 1] \o q[i] ELSE f[i]]
    <2>2. ASSUME NEW i \in 1 .. k + 1 PROVE h[i] = IF i = 1 THEN q[i] ELSE h[i - 1] \o q[i]
      <3>1. i - 1 # k + 1 /\ (i = 1 \/ i - 1 \in 1 .. k + 1)
        OBVIOUS
      <3>2. i # 1 => h[i - 1] = f[i - 1]
        BY <3>1
      <3>3. CASE i = k + 1
        <4>1. h[i] = IF i = 1 THEN q[i] ELSE f[i - 1] \o q[i]
          BY <3>3
        <4> HIDE DEF h
        <4> QED BY <3>2, <4>1
      <3>4. CASE i # k + 1
        <4>1. i \in 1 .. k /\ h[i] = f[i]
          BY <3>4
        <4>2. f[i] = IF i = 1 THEN q[i] ELSE f[i - 1] \o q[i]
          BY <2>1, <4>1 DEF FlatSteps
        <4> HIDE DEF h
        <4> QED BY <3>2, <4>1, <4>2
      <3> QED BY <3>3, <3>4
    <2>3. FlatSteps(q, h, k + 1)
      <3>1. h = [i \in 1 .. k + 1 |-> h[i]]
        OBVIOUS
      <3> HIDE DEF h
      <3> QED BY <2>2, <3>1 DEF FlatSteps
    <2> HIDE DEF h
    <2> QED BY <2>3
  <1> HIDE DEF T
  <1>3. m \in T
    BY <1>1, <1>2, Induction
  <1> QED BY <1>3 DEF T

\* They lead to what FlattenSeq makes of the lists.
LEMMA FlattenIs ==
  ASSUME NEW S, NEW q \in Seq(S), Len(q) > 0
  PROVE  \E f : FlatSteps(q, f, Len(q)) /\ FlattenSeq(q) = f[Len(q)]
  <1> DEFINE g == CHOOSE f : FlatSteps(q, f, Len(q))
  <1>1. Len(q) \in Nat
    BY LenProperties
  <1>2. FlattenSeq(q) = (CHOOSE f : FlatSteps(q, f, Len(q)))[Len(q)]
    BY <1>1 DEF FlattenSeq, FlatSteps
  <1>3. FlatSteps(q, g, Len(q))
    BY <1>1, FlatStepsExist, Zenon
  <1>4. FlattenSeq(q) = g[Len(q)]
    BY <1>2
  <1> HIDE DEF g
  <1> QED BY <1>3, <1>4

\* No lists make an empty one.
LEMMA FlattenNone == FlattenSeq(<<>>) = <<>>
  BY DEF FlattenSeq

\* One more list is put behind the others.
LEMMA FlattenNext ==
  ASSUME NEW S, NEW q \in Seq(Seq(S)), NEW x \in Seq(S)
  PROVE  FlattenSeq(Append(q, x)) = FlattenSeq(q) \o x
  <1> DEFINE r == Append(q, x)
  <1>1. /\ r \in Seq(Seq(S)) /\ Len(r) = Len(q) + 1 /\ r[Len(q) + 1] = x
        /\ \A k \in 1 .. Len(q) : r[k] = q[k]
    BY AppendProperties
  <1>2. Len(q) \in Nat
    BY LenProperties
  <1> HIDE DEF r
  <1>3. PICK h : FlatSteps(r, h, Len(q) + 1) /\ FlattenSeq(r) = h[Len(q) + 1]
    <2>1. Len(r) > 0
      BY <1>1, <1>2
    <2> QED BY <1>1, <2>1, FlattenIs
  <1>4. CASE q = <<>>
    <2>1. Len(q) = 0 /\ FlattenSeq(q) = <<>>
      BY <1>4, FlattenNone
    <2>2. h[1] = r[1]
      BY <1>3, <2>1 DEF FlatSteps
    <2>3. <<>> \o x = x
      BY ConcatEmptySeq
    <2> QED BY <1>1, <1>3, <2>1, <2>2, <2>3 DEF r
  <1>5. CASE q # <<>>
    <2>0. Len(q) > 0
      BY <1>5, EmptySeq
    <2>1. PICK f : FlatSteps(q, f, Len(q)) /\ FlattenSeq(q) = f[Len(q)]
      BY <2>0, FlattenIs
    <2> DEFINE T == {k \in Nat : k \in 1 .. Len(q) => f[k] = h[k]}
    <2>2. 0 \in T
      OBVIOUS
    <2>3. ASSUME NEW k \in Nat, k \in T PROVE k + 1 \in T
      <3> SUFFICES ASSUME k + 1 \in 1 .. Len(q) PROVE f[k + 1] = h[k + 1]
        OBVIOUS
      <3>1. k + 1 \in 1 .. Len(q) + 1 /\ r[k + 1] = q[k + 1] /\ (k + 1) - 1 = k
        BY <1>1, <1>2
      <3>2. f[k + 1] = IF k + 1 = 1 THEN q[k + 1] ELSE f[k] \o q[k + 1]
        BY <2>1, <3>1 DEF FlatSteps
      <3>3. h[k + 1] = IF k + 1 = 1 THEN r[k + 1] ELSE h[k] \o r[k + 1]
        BY <1>3, <3>1 DEF FlatSteps
      <3>4. k + 1 # 1 => f[k] = h[k]
        BY <1>2, <2>3
      <3> QED BY <3>1, <3>2, <3>3, <3>4
    <2> HIDE DEF T
    <2>4. Len(q) \in T
      BY <1>2, <2>2, <2>3, Induction
    <2>5. f[Len(q)] = h[Len(q)]
      BY <1>2, <2>0, <2>4 DEF T
    <2>6. h[Len(q) + 1] = h[Len(q)] \o x
      <3>1. Len(q) + 1 \in 1 .. Len(q) + 1 /\ (Len(q) + 1) - 1 = Len(q) /\ ~(Len(q) + 1 = 1)
        BY <1>2, <2>0
      <3>2. h[Len(q) + 1] = IF Len(q) + 1 = 1 THEN r[Len(q) + 1] ELSE h[(Len(q) + 1) - 1] \o r[Len(q) + 1]
        BY <1>3, <3>1 DEF FlatSteps
      <3> QED BY <1>1, <3>1, <3>2
    <2> QED BY <1>3, <2>1, <2>5, <2>6 DEF r
  <1> QED BY <1>4, <1>5

\* Together they are a list again.
LEMMA FlattenTyped ==
  ASSUME NEW S, NEW q \in Seq(Seq(S))
  PROVE  FlattenSeq(q) \in Seq(S)
  <1> DEFINE T == {s \in Seq(Seq(S)) : FlattenSeq(s) \in Seq(S)}
  <1>1. <<>> \in T
    BY FlattenNone, EmptySeq
  <1>2. ASSUME NEW s \in Seq(Seq(S)), NEW x \in Seq(S), s \in T PROVE Append(s, x) \in T
    <2>1. Append(s, x) \in Seq(Seq(S))
      BY AppendProperties
    <2>2. FlattenSeq(Append(s, x)) = FlattenSeq(s) \o x
      BY FlattenNext
    <2>3. FlattenSeq(s) \o x \in Seq(S)
      BY <1>2, ConcatProperties
    <2> QED BY <2>1, <2>2, <2>3
  <1> HIDE DEF T
  <1>3. q \in T
    BY <1>1, <1>2, AppendInduction
  <1> QED BY <1>3 DEF T

--------------------------------------------------------------------------------
(* URL encoding *)

\* What an encoded text consists of.
Safe == Unreserved \cup {Percent}

\* The letters of a number below 16 stand for it.
LEMMA HexDigitIs ==
  ASSUME NEW n \in 0 .. 15
  PROVE  /\ HexDigit(n) \in Unreserved /\ HexDigit(n) # Slash /\ HexDigit(n) # Dot
         /\ HexDigit(n) \in 0 .. 255 /\ HexValue(HexDigit(n)) = n
  <1>1. CASE n < 10
    <2>1. HexDigit(n) = n + 48 /\ n + 48 \in 48 .. 57 /\ (n + 48) - 48 = n
      BY <1>1 DEF HexDigit
    <2>2. HexDigit(n) \in Unreserved /\ HexDigit(n) # Slash /\ HexDigit(n) # Dot /\ HexDigit(n) \in 0 .. 255
      BY <2>1 DEF Unreserved, Digit, Slash, Dot
    <2>3. HexValue(HexDigit(n)) = HexDigit(n) - 48
      BY <2>1 DEF HexValue, Digit
    <2> QED BY <2>1, <2>2, <2>3
  <1>2. CASE ~ (n < 10)
    <2>1. HexDigit(n) = n + 87 /\ n + 87 \in 97 .. 102 /\ (n + 87) - 87 = n
      BY <1>2 DEF HexDigit
    <2>2. HexDigit(n) \in Unreserved /\ HexDigit(n) # Slash /\ HexDigit(n) # Dot /\ HexDigit(n) \in 0 .. 255
      BY <2>1 DEF Unreserved, Small, Slash, Dot
    <2>3. HexValue(HexDigit(n)) = HexDigit(n) - 87
      BY <2>1 DEF HexValue, Digit
    <2> QED BY <2>1, <2>2, <2>3
  <1> QED BY <1>1, <1>2

\* A character is encoded as itself, or as an escape that stands for it.
LEMMA EncodedCharacter ==
  ASSUME NEW c \in 0 .. 255
  PROVE  /\ EncodeCharacter(c) \in Seq(Safe) /\ EncodeCharacter(c) \in Text
         /\ Len(EncodeCharacter(c)) \in {1, 3}
         /\ c \in Unreserved => EncodeCharacter(c) = <<c>>
         /\ c \notin Unreserved
              => /\ Len(EncodeCharacter(c)) = 3 /\ EncodeCharacter(c)[1] = Percent
                 /\ Strtol(EncodeCharacter(c)[2], EncodeCharacter(c)[3]) = c
         /\ c # Slash => EncodeCharacter(c) \in Seq(Safe \ {Slash})
         /\ c # Dot => EncodeCharacter(c)[1] # Dot
  <1>1. CASE c \in Unreserved
    <2>1. EncodeCharacter(c) = <<c>>
      BY <1>1 DEF EncodeCharacter
    <2>2. c \in Safe /\ (c # Slash => c \in Safe \ {Slash})
      BY <1>1 DEF Safe
    <2>3. Len(<<c>>) = 1 /\ <<c>>[1] = c /\ <<c>> \in Seq({c})
      OBVIOUS
    <2> QED BY <1>1, <2>1, <2>2, <2>3 DEF Text
  <1>2. CASE c \notin Unreserved
    <2>1. PICK h, l : h = c \div 16 /\ l = c % 16
      OBVIOUS
    <2>2. h \in 0 .. 15 /\ l \in 0 .. 15 /\ 16 * h + l = c
      BY <2>1
    <2>3. EncodeCharacter(c) = <<Percent, HexDigit(h), HexDigit(l)>>
      BY <1>2, <2>1 DEF EncodeCharacter
    <2> DEFINE a == HexDigit(h)
               b == HexDigit(l)
    <2>4. /\ a \in Unreserved /\ a # Slash /\ a \in 0 .. 255 /\ HexValue(a) = h
          /\ b \in Unreserved /\ b # Slash /\ b \in 0 .. 255 /\ HexValue(b) = l
      BY <2>2, HexDigitIs
    <2>5. Strtol(a, b) = 16 * HexValue(a) + HexValue(b)
      <3>1. HexValue(a) >= 0 /\ HexValue(b) >= 0 /\ ~ (HexValue(b) < 0)
        BY <2>2, <2>4
      <3>2. a \notin (9 .. 13) \cup {32, 43} /\ a # 45
        <4>1. a \in 48 .. 57 \/ a \in 97 .. 102
          BY <2>2 DEF HexDigit
        <4> QED BY <4>1
      <3> HIDE DEF a, b
      <3> QED BY <3>1, <3>2 DEF Strtol
    <2>6. Strtol(a, b) = c
      BY <2>2, <2>4, <2>5
    <2>7. /\ Percent \in 0 .. 255 /\ Percent \in Safe /\ Percent # Slash /\ Percent # Dot
          /\ a \in Safe /\ b \in Safe
      BY <2>4 DEF Safe, Percent, Slash, Dot
    <2> HIDE DEF a, b
    <2>8. /\ <<Percent, a, b>> \in Seq(Safe \ {Slash}) /\ <<Percent, a, b>> \in Seq(Safe)
          /\ <<Percent, a, b>> \in Text
      BY <2>4, <2>7 DEF Text
    <2>9. Len(<<Percent, a, b>>) = 3 /\ <<Percent, a, b>>[1] = Percent /\ <<Percent, a, b>>[2] = a
          /\ <<Percent, a, b>>[3] = b
      OBVIOUS
    <2>10. EncodeCharacter(c) = <<Percent, a, b>>
      BY <2>3 DEF a, b
    <2> QED BY <1>2, <2>6, <2>7, <2>8, <2>9, <2>10
  <1> QED BY <1>1, <1>2

\* The parts of an encoded text.
Encodings(text) == [i \in DOMAIN text |-> EncodeCharacter(text[i])]

\* An encoded text consists of characters that need no encoding and of percent signs, and
\* has no slash that the text does not have.
LEMMA EncodedTyped ==
  ASSUME NEW t \in Text
  PROVE  /\ URLEncode(t) \in Seq(Safe) /\ URLEncode(t) \in Text
         /\ Encodings(t) \in Seq(Text)
         /\ t \in Part => URLEncode(t) \in Seq(Safe \ {Slash}) /\ URLEncode(t) \in Part
  <1>1. Len(t) \in Nat /\ DOMAIN t = 1 .. Len(t) /\ \A i \in 1 .. Len(t) : t[i] \in 0 .. 255
    BY Characters
  <1>2. URLEncode(t) = FlattenSeq(Encodings(t))
    BY DEF URLEncode, Encodings
  <1>3. \A i \in 1 .. Len(t) : EncodeCharacter(t[i]) \in Seq(Safe) /\ EncodeCharacter(t[i]) \in Text
    BY <1>1, EncodedCharacter
  <1>4. Encodings(t) \in Seq(Seq(Safe)) /\ Encodings(t) \in Seq(Text)
    BY <1>1, <1>3 DEF Encodings
  <1>5. URLEncode(t) \in Seq(Safe)
    BY <1>2, <1>4, FlattenTyped
  <1>6. URLEncode(t) \in Text
    <2>1. Encodings(t) \in Seq(Seq(0 .. 255))
      BY <1>4 DEF Text
    <2> QED BY <1>2, <2>1, FlattenTyped DEF Text
  <1>7. ASSUME t \in Part PROVE URLEncode(t) \in Seq(Safe \ {Slash}) /\ URLEncode(t) \in Part
    <2>1. \A i \in 1 .. Len(t) : EncodeCharacter(t[i]) \in Seq(Safe \ {Slash})
      BY <1>1, <1>7, EncodedCharacter DEF Part
    <2>2. Encodings(t) \in Seq(Seq(Safe \ {Slash}))
      BY <1>1, <2>1 DEF Encodings
    <2>3. URLEncode(t) \in Seq(Safe \ {Slash})
      BY <1>2, <2>2, FlattenTyped
    <2>4. \A i \in 1 .. Len(URLEncode(t)) : URLEncode(t)[i] # Slash
      BY <2>3, ElementOfSeq
    <2> QED BY <1>6, <2>3, <2>4 DEF Part
  <1> QED BY <1>4, <1>5, <1>6, <1>7

\* A text is encoded character by character.
LEMMA EncodedNext ==
  /\ URLEncode(<<>>) = <<>>
  /\ \A t \in Text, c \in 0 .. 255 : URLEncode(Append(t, c)) = URLEncode(t) \o EncodeCharacter(c)
  <1>1. URLEncode(<<>>) = <<>>
    <2>1. <<>> \in Seq(0 .. 255) /\ Len(<<>>) = 0
      BY EmptySeq
    <2>2. DOMAIN <<>> = {}
      <3>1. 1 .. 0 = {}
        OBVIOUS
      <3> QED BY <2>1, <3>1, LenProperties
    <2>3. Encodings(<<>>) \in Seq(Text)
      BY <2>1, EncodedTyped DEF Text
    <2>4. DOMAIN Encodings(<<>>) = {}
      BY <2>2 DEF Encodings
    <2>5. Len(Encodings(<<>>)) = 0
      BY <2>3, <2>4, LenProperties
    <2>6. Encodings(<<>>) = <<>>
      BY <2>3, <2>5, EmptySeq
    <2> QED BY <2>6, FlattenNone DEF URLEncode, Encodings
  <1>2. ASSUME NEW t \in Text, NEW c \in 0 .. 255
        PROVE  URLEncode(Append(t, c)) = URLEncode(t) \o EncodeCharacter(c)
    <2>1. Len(t) \in Nat /\ DOMAIN t = 1 .. Len(t)
      BY Characters
    <2> DEFINE r == Append(t, c)
               n == Len(t)
    <2>2. r \in Text /\ Len(r) = n + 1 /\ r[n + 1] = c /\ \A i \in 1 .. n : r[i] = t[i]
      BY AppendProperties DEF Text
    <2>3. DOMAIN r = 1 .. n + 1
      BY <2>2, Characters
    <2>4. EncodeCharacter(c) \in Text /\ Encodings(t) \in Seq(Text) /\ Encodings(r) \in Seq(Text)
      BY <2>2, EncodedCharacter, EncodedTyped
    <2> HIDE DEF r
    <2>5. Encodings(t) = [i \in 1 .. n |-> EncodeCharacter(t[i])]
      BY <2>1 DEF Encodings
    <2>6. Len(Encodings(t)) = n
      BY <2>1, <2>4, <2>5, LenProperties
    <2>7. Encodings(r) = [i \in 1 .. n + 1 |-> EncodeCharacter(r[i])]
      BY <2>3 DEF Encodings
    <2>8. Len(Encodings(r)) = n + 1
      BY <2>1, <2>4, <2>7, LenProperties
    <2>9. LET q == Append(Encodings(t), EncodeCharacter(c))
          IN q \in Seq(Text) /\ Len(q) = n + 1 /\ q[n + 1] = EncodeCharacter(c)
               /\ \A i \in 1 .. n : q[i] = Encodings(t)[i]
      BY <2>4, <2>6, AppendProperties
    <2>10. Encodings(r) = Append(Encodings(t), EncodeCharacter(c))
      <3> DEFINE q == Append(Encodings(t), EncodeCharacter(c))
      <3>1. q \in Seq(Text) /\ Len(q) = n + 1 /\ q[n + 1] = EncodeCharacter(c)
            /\ \A i \in 1 .. n : q[i] = Encodings(t)[i]
        BY <2>9
      <3> HIDE DEF q
      <3>2. ASSUME NEW i \in 1 .. n + 1 PROVE q[i] = Encodings(r)[i]
        <4>1. CASE i \in 1 .. n
          BY <2>1, <2>2, <2>5, <2>7, <3>1, <4>1
        <4>2. CASE i = n + 1
          BY <2>1, <2>2, <2>7, <3>1, <4>2
        <4> QED BY <2>1, <4>1, <4>2
      <3>3. Encodings(r) = q
        BY <2>4, <2>8, <3>1, <3>2, SeqEqual
      <3> QED BY <3>3 DEF q
    <2>11. FlattenSeq(Append(Encodings(t), EncodeCharacter(c))) = FlattenSeq(Encodings(t)) \o EncodeCharacter(c)
      <3>1. Encodings(t) \in Seq(Seq(0 .. 255)) /\ EncodeCharacter(c) \in Seq(0 .. 255)
        BY <2>4 DEF Text
      <3> QED BY <3>1, FlattenNext
    <2>12. URLEncode(r) = FlattenSeq(Encodings(r)) /\ URLEncode(t) = FlattenSeq(Encodings(t))
      BY DEF URLEncode, Encodings
    <2> QED BY <2>10, <2>11, <2>12 DEF r
  <1> QED BY <1>1, <1>2

\* Texts put one behind the other.
LEMMA Joined ==
  ASSUME NEW a \in Text, NEW b \in Text
  PROVE  /\ a \o b \in Text /\ Len(a \o b) = Len(a) + Len(b)
         /\ Len(a) \in Nat /\ Len(b) \in Nat
         /\ \A i \in 1 .. Len(a) : (a \o b)[i] = a[i]
         /\ \A i \in 1 .. Len(b) : (a \o b)[Len(a) + i] = b[i]
  <1>1. Len(a) \in Nat /\ Len(b) \in Nat
    BY Characters
  <1>2. /\ a \o b \in Text /\ Len(a \o b) = Len(a) + Len(b)
        /\ \A i \in 1 .. Len(a) + Len(b) : (a \o b)[i] = IF i <= Len(a) THEN a[i] ELSE b[i - Len(a)]
    BY ConcatProperties DEF Text
  <1>3. \A i \in 1 .. Len(a) : (a \o b)[i] = a[i]
    BY <1>1, <1>2
  <1>4. ASSUME NEW i \in 1 .. Len(b) PROVE (a \o b)[Len(a) + i] = b[i]
    <2>1. Len(a) + i \in 1 .. Len(a) + Len(b) /\ ~ (Len(a) + i <= Len(a)) /\ (Len(a) + i) - Len(a) = i
      BY <1>1
    <2> QED BY <1>2, <2>1
  <1> QED BY <1>1, <1>2, <1>3, <1>4

\* They may be put together in any order.
LEMMA Regroup ==
  ASSUME NEW a \in Text, NEW b \in Text, NEW c \in Text
  PROVE  (a \o b) \o c = a \o (b \o c)
  BY ConcatAssociative DEF Text

\* No text changes nothing.
LEMMA JoinedNone ==
  ASSUME NEW a \in Text
  PROVE  a \o <<>> = a /\ <<>> \o a = a
  BY ConcatEmptySeq DEF Text

\* A character more is a text of one character more.
LEMMA OneMore ==
  ASSUME NEW a \in Text, NEW c \in 0 .. 255
  PROVE  /\ <<c>> \in Text /\ Append(a, c) = a \o <<c>> /\ Append(a, c) \in Text
         /\ Len(a) \in Nat /\ Len(Append(a, c)) = Len(a) + 1 /\ Append(a, c)[Len(a) + 1] = c
         /\ \A i \in 1 .. Len(a) : Append(a, c)[i] = a[i]
  <1>1. <<c>> \in Text
    BY DEF Text
  <1>2. Append(a, c) = a \o <<c>>
    BY AppendIsConcat DEF Text
  <1> QED BY <1>1, <1>2, AppendProperties, LenProperties DEF Text

\* It may be put behind the last of two texts.
LEMMA OneMoreBehind ==
  ASSUME NEW a \in Text, NEW b \in Text, NEW c \in 0 .. 255
  PROVE  a \o Append(b, c) = Append(a \o b, c)
  <1>1. <<c>> \in Text /\ Append(b, c) = b \o <<c>>
    BY OneMore
  <1>2. a \o b \in Text
    BY Joined
  <1>3. Append(a \o b, c) = (a \o b) \o <<c>>
    BY <1>2, OneMore
  <1>4. (a \o b) \o <<c>> = a \o (b \o <<c>>)
    BY <1>1, Regroup
  <1> QED BY <1>1, <1>3, <1>4, Zenon

\* What holds of the empty text, and of one more character when it holds of some, holds of
\* every text.
LEMMA TextInduction ==
  ASSUME NEW T, <<>> \in T, \A t \in Text, c \in 0 .. 255 : t \in T => Append(t, c) \in T
  PROVE  \A t \in Text : t \in T
  BY AppendInduction DEF Text

\* Encoding goes through a text put together from two.
LEMMA EncodedJoin ==
  ASSUME NEW a \in Text, NEW b \in Text
  PROVE  URLEncode(a \o b) = URLEncode(a) \o URLEncode(b)
  <1> DEFINE T == {t \in Text : URLEncode(a \o t) = URLEncode(a) \o URLEncode(t)}
  <1>1. <<>> \in T
    <2>1. <<>> \in Text
      BY EmptySeq DEF Text
    <2>2. a \o <<>> = a /\ URLEncode(<<>>) = <<>>
      BY JoinedNone, EncodedNext
    <2>3. URLEncode(a) \o <<>> = URLEncode(a)
      BY EncodedTyped, JoinedNone
    <2> QED BY <2>1, <2>2, <2>3
  <1>2. ASSUME NEW t \in Text, NEW c \in 0 .. 255, t \in T PROVE Append(t, c) \in T
    <2>1. a \o Append(t, c) = Append(a \o t, c) /\ a \o t \in Text /\ Append(t, c) \in Text
      <3>1. a \o Append(t, c) = Append(a \o t, c) /\ a \o t \in Text
        BY Joined, OneMoreBehind
      <3>2. Append(t, c) \in Text
        BY OneMore
      <3> QED BY <3>1, <3>2
    <2>2. URLEncode(Append(a \o t, c)) = URLEncode(a \o t) \o EncodeCharacter(c)
      BY <2>1, EncodedNext
    <2>3. URLEncode(a \o t) = URLEncode(a) \o URLEncode(t)
      BY <1>2
    <2>4. /\ URLEncode(a) \in Text /\ URLEncode(t) \in Text /\ EncodeCharacter(c) \in Text
      BY EncodedTyped, EncodedCharacter
    <2>5. (URLEncode(a) \o URLEncode(t)) \o EncodeCharacter(c)
            = URLEncode(a) \o (URLEncode(t) \o EncodeCharacter(c))
      BY <2>4, Regroup
    <2>6. URLEncode(Append(t, c)) = URLEncode(t) \o EncodeCharacter(c)
      BY EncodedNext
    <2>7. URLEncode(a \o Append(t, c)) = URLEncode(a) \o URLEncode(Append(t, c))
      BY <2>1, <2>2, <2>3, <2>5, <2>6, Zenon
    <2> QED BY <2>1, <2>7
  <1> HIDE DEF T
  <1>3. b \in T
    BY <1>1, <1>2, TextInduction
  <1> QED BY <1>3 DEF T

\* A text that is encoded as itself has nothing to encode, and the other way round.
LEMMA PlainText ==
  ASSUME NEW t \in Text
  PROVE  URLEncode(t) = t <=> t \in Seq(Unreserved)
  <1> DEFINE L(x) == Len(URLEncode(x)) >= Len(x) /\ (Len(URLEncode(x)) = Len(x) => x \in Seq(Unreserved))
             E(x) == x \in Seq(Unreserved) => URLEncode(x) = x
             T == {x \in Text : L(x) /\ E(x)}
  <1>1. <<>> \in T
    <2>1. <<>> \in Text /\ <<>> \in Seq(Unreserved) /\ Len(<<>>) = 0
      BY EmptySeq DEF Text
    <2> QED BY <2>1, EncodedNext
  <1>2. ASSUME NEW x \in Text, NEW c \in 0 .. 255, x \in T PROVE Append(x, c) \in T
    <2> DEFINE r == Append(x, c)
               u == URLEncode(x)
               e == EncodeCharacter(c)
    <2>1. /\ r \in Text /\ Len(r) = Len(x) + 1 /\ Len(x) \in Nat /\ r[Len(x) + 1] = c
          /\ \A i \in 1 .. Len(x) : r[i] = x[i]
      BY OneMore
    <2>2. u \in Text /\ e \in Text /\ Len(e) \in {1, 3} /\ (c \in Unreserved => e = <<c>>)
          /\ (c \notin Unreserved => Len(e) = 3)
      BY EncodedTyped, EncodedCharacter
    <2>3. URLEncode(r) = u \o e
      BY EncodedNext
    <2>4. Len(u) \in Nat /\ Len(u \o e) = Len(u) + Len(e)
      BY <2>2, Joined
    <2>5. Len(u) >= Len(x) /\ (Len(u) = Len(x) => x \in Seq(Unreserved))
      <3>1. L(x)
        BY <1>2
      <3> QED BY <3>1
    <2>6. x \in Seq(Unreserved) => u = x
      BY <1>2
    <2> HIDE DEF u, e, r, T
    <2>7. Len(URLEncode(r)) >= Len(r)
      <3>1. Len(e) \in Nat /\ Len(e) >= 1
        BY <2>2
      <3>2. Len(URLEncode(r)) = Len(u) + Len(e)
        BY <2>3, <2>4
      <3> QED BY <2>1, <2>4, <2>5, <3>1, <3>2
    <2>8. ASSUME Len(URLEncode(r)) = Len(r) PROVE r \in Seq(Unreserved)
      <3>1. Len(u) + Len(e) = Len(x) + 1
        BY <2>1, <2>3, <2>4, <2>8
      <3>2. Len(e) = 1 /\ Len(u) = Len(x)
        <4>1. Len(e) \in Nat /\ Len(e) >= 1
          BY <2>2
        <4>2. Len(x) \in Nat /\ Len(u) \in Nat /\ Len(u) >= Len(x)
          BY <2>1, <2>4, <2>5
        <4>3. PICK p \in Nat, q \in Nat, w \in Nat : p = Len(u) /\ q = Len(e) /\ w = Len(x)
          BY <4>1, <4>2
        <4>4. p + q = w + 1 /\ q >= 1 /\ p >= w
          BY <3>1, <4>1, <4>2, <4>3
        <4>5. q = 1 /\ p = w
          BY <4>4
        <4> QED BY <4>3, <4>5
      <3>3. c \in Unreserved /\ x \in Seq(Unreserved)
        BY <2>2, <2>5, <3>2
      <3> QED BY <3>3, AppendProperties DEF r
    <2>9. ASSUME r \in Seq(Unreserved) PROVE URLEncode(r) = r
      <3>1. \A i \in 1 .. Len(x) + 1 : r[i] \in Unreserved
        BY <2>1, <2>9, ElementOfSeq
      <3>2. c \in Unreserved
        BY <2>1, <3>1
      <3>3. \A i \in 1 .. Len(x) : x[i] \in Unreserved
        BY <2>1, <3>1
      <3>4. x \in Seq(Unreserved)
        <4>1. x = [i \in 1 .. Len(x) |-> x[i]]
          BY LenProperties DEF Text
        <4> QED BY <2>1, <3>3, <4>1
      <3>5. x \o <<c>> = r
        BY OneMore DEF r
      <3> QED BY <2>2, <2>3, <2>6, <3>2, <3>4, <3>5
    <2>10. L(r) /\ E(r)
      BY <2>7, <2>8, <2>9
    <2> QED BY <2>1, <2>10 DEF T, r
  <1>3. t \in T
    <2> HIDE DEF T
    <2> QED BY <1>1, <1>2, TextInduction
  <1>4. L(t) /\ E(t)
    BY <1>3
  <1> QED BY <1>4

--------------------------------------------------------------------------------
(* ParseURLEncoding *)

\* f says what is parsed from each place of a text on.
ParseSteps(text, f) ==
  f = [i \in 1 .. Len(text) + 1 |->
         IF i > Len(text) THEN <<>>
         ELSE IF Escaped(text, i) # 0 THEN <<Escaped(text, i)>> \o f[i + 3]
         ELSE <<text[i]>> \o f[i + 1]]

\* An escape ends within the text and stands for a character.
LEMMA EscapedIs ==
  ASSUME NEW text \in Text, NEW i \in 1 .. Len(text)
  PROVE  /\ Escaped(text, i) \in 0 .. 255
         /\ Escaped(text, i) # 0 => i + 3 \in 1 .. Len(text) + 1
         /\ text[i] # Percent => Escaped(text, i) = 0
  <1>1. Len(text) \in Nat /\ \A k \in 1 .. Len(text) : text[k] \in 0 .. 255
    BY Characters
  <1>2. ASSUME NEW c \in 0 .. 255, NEW d \in 0 .. 255 PROVE Strtol(c, d) \in 0 .. 255
    <2>1. HexValue(c) \in -1 .. 15 /\ HexValue(d) \in -1 .. 15
      <3>1. ASSUME NEW x \in 0 .. 255 PROVE HexValue(x) \in -1 .. 15
        <4>1. CASE x \in 48 .. 57
          BY <4>1 DEF HexValue, Digit
        <4>2. CASE x \in 65 .. 70
          BY <4>2 DEF HexValue, Digit
        <4>3. CASE x \in 97 .. 102
          BY <4>3 DEF HexValue, Digit
        <4>4. CASE x \notin 48 .. 57 /\ x \notin 65 .. 70 /\ x \notin 97 .. 102
          <5>1. HexValue(x) = -1
            BY <4>4 DEF HexValue, Digit
          <5> QED BY <5>1
        <4> QED BY <4>1, <4>2, <4>3, <4>4
      <3> QED BY <3>1
    <2> DEFINE x == HexValue(c)
               y == HexValue(d)
    <2>2. x \in -1 .. 15 /\ y \in -1 .. 15
      BY <2>1
    <2>3. Strtol(c, d) = CASE x >= 0 /\ y >= 0 -> 16 * x + y
                           [] x >= 0 /\ y < 0  -> x
                           [] c \in (9 .. 13) \cup {32, 43} /\ y >= 0 -> y
                           [] c = 45 /\ y >= 0 -> (256 - y) % 256
                           [] OTHER -> 0
      BY DEF Strtol
    <2>4. (c \in (9 .. 13) \cup {32, 43} \/ c = 45) => x = -1
      <3>1. (c \in (9 .. 13) \cup {32, 43} \/ c = 45) => (c \notin 48 .. 57 /\ c \notin 65 .. 70 /\ c \notin 97 .. 102)
        OBVIOUS
      <3> QED BY <3>1 DEF HexValue, Digit
    <2> HIDE DEF x, y
    <2>5. 16 * x + y \in Int /\ (x >= 0 /\ y >= 0 => 16 * x + y \in 0 .. 255)
      BY <2>2
    <2>6. (256 - y) % 256 \in 0 .. 255
      BY <2>2
    <2>7. CASE x >= 0 /\ y >= 0
      <3>1. Strtol(c, d) = 16 * x + y
        BY <2>2, <2>3, <2>4, <2>7
      <3> QED BY <2>5, <2>7, <3>1
    <2>8. CASE x >= 0 /\ y < 0
      <3>1. Strtol(c, d) = x
        BY <2>2, <2>3, <2>4, <2>8
      <3> QED BY <2>2, <2>8, <3>1
    <2>9. CASE x < 0 /\ c \in (9 .. 13) \cup {32, 43} /\ y >= 0
      <3>1. Strtol(c, d) = y
        BY <2>2, <2>3, <2>4, <2>9
      <3> QED BY <2>2, <2>9, <3>1
    <2>10. CASE x < 0 /\ c = 45 /\ y >= 0
      <3>1. Strtol(c, d) = (256 - y) % 256
        BY <2>2, <2>3, <2>4, <2>10
      <3> QED BY <2>6, <3>1
    <2>11. CASE x < 0 /\ ~ (c \in (9 .. 13) \cup {32, 43} /\ y >= 0) /\ ~ (c = 45 /\ y >= 0)
      <3>1. Strtol(c, d) = 0
        BY <2>2, <2>3, <2>11
      <3> QED BY <3>1
    <2>12. (x >= 0 \/ x < 0) /\ (y >= 0 \/ y < 0)
      BY <2>2
    <2> QED BY <2>7, <2>8, <2>9, <2>10, <2>11, <2>12, Zenon
  <1>3. CASE text[i] = Percent /\ i + 2 <= Len(text)
    <2>1. i + 1 \in 1 .. Len(text) /\ i + 2 \in 1 .. Len(text) /\ i + 3 \in 1 .. Len(text) + 1
      BY <1>1, <1>3
    <2>2. Escaped(text, i) = Strtol(text[i + 1], text[i + 2])
      BY <1>3 DEF Escaped
    <2>3. text[i + 1] \in 0 .. 255 /\ text[i + 2] \in 0 .. 255
      BY <1>1, <2>1
    <2> QED BY <1>2, <1>3, <2>1, <2>2, <2>3
  <1>4. CASE ~ (text[i] = Percent /\ i + 2 <= Len(text))
    BY <1>4 DEF Escaped
  <1> QED BY <1>3, <1>4

\* Such steps exist: from one place more on, they are those there are and one before them.
LEMMA ParseStepsExist ==
  ASSUME NEW text \in Text
  PROVE  \E f : ParseSteps(text, f)
  <1> DEFINE n == Len(text)
             V(i, f) == IF i > n THEN <<>>
                        ELSE IF Escaped(text, i) # 0 THEN <<Escaped(text, i)>> \o f[i + 3]
                        ELSE <<text[i]>> \o f[i + 1]
             P(m) == \E f : f = [i \in n + 1 - m .. n + 1 |-> V(i, f)]
             T == {m \in Nat : m <= n => P(m)}
  <1>1. n \in Nat
    BY Characters
  <1>2. 0 \in T
    <2> DEFINE f == [i \in n + 1 - 0 .. n + 1 |-> <<>>]
    <2>1. \A i \in n + 1 - 0 .. n + 1 : i > n
      BY <1>1
    <2>2. f = [i \in n + 1 - 0 .. n + 1 |-> V(i, f)]
      BY <2>1
    <2> HIDE DEF V, f
    <2>3. P(0)
      BY <2>2
    <2> QED BY <2>3
  <1>3. ASSUME NEW m \in Nat, m \in T PROVE m + 1 \in T
    <2> HIDE DEF P
    <2> SUFFICES ASSUME m + 1 <= n PROVE P(m + 1)
      OBVIOUS
    <2>0. P(m)
      BY <1>1, <1>3
    <2>1. PICK f : f = [i \in n + 1 - m .. n + 1 |-> V(i, f)]
      BY <2>0 DEF P
    <2> DEFINE k == n + 1 - (m + 1)
    <2>2. k \in 1 .. n /\ k + 1 = n + 1 - m /\ \A i \in k .. n + 1 : i = k \/ i \in k + 1 .. n + 1
      BY <1>1
    <2>3. n + 1 - m .. n + 1 = k + 1 .. n + 1
      BY <2>2
    <2> HIDE DEF V
    <2>4. f = [i \in k + 1 .. n + 1 |-> V(i, f)]
      BY <2>1, <2>3
    <2> HIDE DEF k
    <2> DEFINE h == [i \in k .. n + 1 |-> IF i = k THEN V(k, f) ELSE f[i]]
    <2>5. \A i \in k + 1 .. n + 1 : h[i] = f[i]
      BY <1>1, <2>2
    <2>6. ASSUME NEW i \in k .. n + 1 PROVE V(i, h) = V(i, f)
      <3>1. CASE i > n
        BY <3>1 DEF V
      <3>2. CASE ~ (i > n)
        <4>1. i \in 1 .. n /\ i + 1 \in k + 1 .. n + 1
          BY <1>1, <2>2, <3>2
        <4>2. h[i + 1] = f[i + 1]
          BY <2>5, <4>1
        <4>3. Escaped(text, i) # 0 => i + 3 \in k + 1 .. n + 1
          <5>1. Escaped(text, i) # 0 => i + 3 \in 1 .. n + 1
            BY <4>1, EscapedIs
          <5> QED BY <1>1, <2>2, <4>1, <5>1
        <4>4. Escaped(text, i) # 0 => h[i + 3] = f[i + 3]
          BY <2>5, <4>3
        <4> HIDE DEF h
        <4> QED BY <4>2, <4>4 DEF V
      <3> QED BY <3>1, <3>2
    <2>7. ASSUME NEW i \in k .. n + 1 PROVE h[i] = V(i, f)
      <3>1. CASE i = k
        BY <3>1
      <3>2. CASE i # k
        <4>1. i \in k + 1 .. n + 1
          BY <2>2, <3>2
        <4>2. h[i] = f[i] /\ f[i] = V(i, f)
          BY <2>4, <2>5, <4>1
        <4> QED BY <4>2
      <3> QED BY <3>1, <3>2
    <2>8. h = [i \in k .. n + 1 |-> h[i]]
      OBVIOUS
    <2> HIDE DEF h
    <2>9. \A i \in k .. n + 1 : h[i] = V(i, h)
      BY <2>6, <2>7
    <2>10. h = [i \in k .. n + 1 |-> V(i, h)]
      BY <2>8, <2>9
    <2>11. \E g : g = [i \in n + 1 - (m + 1) .. n + 1 |-> V(i, g)]
      BY <2>10 DEF k
    <2> QED BY <2>11 DEF P
  <1> HIDE DEF T
  <1>4. n \in T
    BY <1>1, <1>2, <1>3, Induction
  <1>5. n + 1 - n = 1
    BY <1>1
  <1>6. \E f : f = [i \in n + 1 - n .. n + 1 |-> V(i, f)]
    BY <1>1, <1>4 DEF T
  <1> HIDE DEF V, n
  <1>7. PICK f : f = [i \in 1 .. n + 1 |-> V(i, f)]
    BY <1>5, <1>6
  <1>8. ParseSteps(text, f)
    BY <1>7 DEF ParseSteps, V, n
  <1> QED BY <1>8

\* Parsing a text takes all of them.
LEMMA ParsedIs ==
  ASSUME NEW text \in Text
  PROVE  \E f : ParseSteps(text, f) /\ ParseURLEncoding(text) = f[1]
  <1> DEFINE Steps(f) == f = [i \in 1 .. Len(text) + 1 |->
                                IF i > Len(text) THEN <<>>
                                ELSE IF Escaped(text, i) # 0 THEN <<Escaped(text, i)>> \o f[i + 3]
                                ELSE <<text[i]>> \o f[i + 1]]
             parsed == CHOOSE f : Steps(f)
  <1>1. PICK g : ParseSteps(text, g)
    BY ParseStepsExist
  <1>2. Steps(g)
    BY <1>1 DEF ParseSteps
  <1>3. Steps(parsed)
    BY <1>2
  <1>4. ParseURLEncoding(text) = parsed[1]
    BY DEF ParseURLEncoding
  <1> HIDE DEF parsed
  <1>5. ParseSteps(text, parsed)
    BY <1>3 DEF ParseSteps
  <1> QED BY <1>4, <1>5

\* What holds behind a text, and at each of its places when it holds at those behind it,
\* holds everywhere.
LEMMA Downwards ==
  ASSUME NEW n \in Nat, NEW T, n + 1 \in T,
         \A i \in 1 .. n : (\A j \in i + 1 .. n + 1 : j \in T) => i \in T
  PROVE  \A i \in 1 .. n + 1 : i \in T
  <1> DEFINE U == {m \in Nat : \A i \in 1 .. n + 1 : i >= n + 1 - m => i \in T}
  <1>1. 0 \in U
    <2>1. \A i \in 1 .. n + 1 : i >= n + 1 - 0 => i = n + 1
      OBVIOUS
    <2> QED BY <2>1
  <1>2. ASSUME NEW m \in Nat, m \in U PROVE m + 1 \in U
    <2> SUFFICES ASSUME NEW i \in 1 .. n + 1, i >= n + 1 - (m + 1) PROVE i \in T
      OBVIOUS
    <2>1. \A j \in 1 .. n + 1 : j >= n + 1 - m => j \in T
      BY <1>2
    <2>2. CASE i >= n + 1 - m
      BY <2>1, <2>2
    <2>3. CASE ~ (i >= n + 1 - m)
      <3>1. i \in 1 .. n /\ \A j \in i + 1 .. n + 1 : j \in 1 .. n + 1 /\ j >= n + 1 - m
        BY <2>3
      <3>2. \A j \in i + 1 .. n + 1 : j \in T
        BY <2>1, <3>1
      <3> QED BY <3>1, <3>2
    <2> QED BY <2>2, <2>3
  <1> HIDE DEF U
  <1>3. n + 1 \in U
    BY <1>1, <1>2, Induction
  <1> QED BY <1>3 DEF U

\* A parsed text is a text.
LEMMA ParsedTyped ==
  ASSUME NEW text \in Text
  PROVE  ParseURLEncoding(text) \in Text
  <1>1. PICK n \in Nat : n = Len(text)
    BY Characters
  <1>2. PICK f : ParseSteps(text, f) /\ ParseURLEncoding(text) = f[1]
    BY ParsedIs
  <1> DEFINE T == {i \in 1 .. n + 1 : f[i] \in Text}
  <1>3. n + 1 \in T
    <2>1. f[n + 1] = <<>>
      BY <1>1, <1>2 DEF ParseSteps
    <2>2. <<>> \in Text /\ n + 1 \in 1 .. n + 1
      BY EmptySeq DEF Text
    <2>3. f[n + 1] \in Text
      BY <2>1, <2>2
    <2> QED BY <2>2, <2>3
  <1>4. ASSUME NEW i \in 1 .. n, \A j \in i + 1 .. n + 1 : j \in T PROVE i \in T
    <2>1. f[i] = IF Escaped(text, i) # 0 THEN <<Escaped(text, i)>> \o f[i + 3] ELSE <<text[i]>> \o f[i + 1]
      <3>1. i \in 1 .. n + 1 /\ ~ (i > n)
        OBVIOUS
      <3> QED BY <1>1, <1>2, <3>1 DEF ParseSteps
    <2>2. CASE Escaped(text, i) # 0
      <3>1. Escaped(text, i) \in 0 .. 255 /\ i + 3 \in 1 .. n + 1
        BY <1>1, <2>2, EscapedIs
      <3>2. f[i + 3] \in Text
        <4>1. i + 3 \in i + 1 .. n + 1
          BY <3>1
        <4> QED BY <1>4, <4>1
      <3>3. <<Escaped(text, i)>> \in Text
        BY <3>1 DEF Text
      <3>4. <<Escaped(text, i)>> \o f[i + 3] \in Text
        BY <3>2, <3>3, Joined
      <3>5. f[i] \in Text
        BY <2>1, <2>2, <3>4
      <3> QED BY <3>5
    <2>3. CASE Escaped(text, i) = 0
      <3>1. f[i + 1] \in Text
        BY <1>4
      <3>2. <<text[i]>> \in Text
        BY <1>1, Characters DEF Text
      <3>3. <<text[i]>> \o f[i + 1] \in Text
        BY <3>1, <3>2, Joined
      <3>4. f[i] \in Text
        BY <2>1, <2>3, <3>3
      <3> QED BY <3>4
    <2> QED BY <2>2, <2>3
  <1> HIDE DEF T
  <1>5. 1 \in T
    BY <1>3, <1>4, Downwards
  <1> QED BY <1>2, <1>5 DEF T

\* What is parsed from a place on depends on what follows it, and on nothing else.
LEMMA ParsedAlike ==
  ASSUME NEW a \in Text, NEW s \in Text, NEW f, NEW g, ParseSteps(a \o s, f), ParseSteps(s, g)
  PROVE  f[Len(a) + 1] = g[1]
  <1>1. PICK m \in Nat, n \in Nat : m = Len(a) /\ n = Len(s)
    BY Characters
  <1>2. /\ a \o s \in Text /\ Len(a \o s) = m + n
        /\ \A i \in 1 .. n : (a \o s)[m + i] = s[i]
    BY <1>1, Joined
  <1> DEFINE text == a \o s
             T == {i \in 1 .. n + 1 : f[m + i] = g[i]}
  <1> HIDE DEF text
  <1>3. text \in Text /\ Len(text) = m + n /\ \A i \in 1 .. n : text[m + i] = s[i]
    BY <1>2 DEF text
  <1>4. \A i \in 1 .. m + n + 1 :
          f[i] = IF i > m + n THEN <<>>
                 ELSE IF Escaped(text, i) # 0 THEN <<Escaped(text, i)>> \o f[i + 3]
                 ELSE <<text[i]>> \o f[i + 1]
    BY <1>3 DEF ParseSteps, text
  <1>5. \A i \in 1 .. n + 1 :
          g[i] = IF i > n THEN <<>>
                 ELSE IF Escaped(s, i) # 0 THEN <<Escaped(s, i)>> \o g[i + 3]
                 ELSE <<s[i]>> \o g[i + 1]
    BY <1>1 DEF ParseSteps
  <1>6. n + 1 \in T
    <2>1. m + (n + 1) \in 1 .. m + n + 1 /\ m + (n + 1) > m + n /\ n + 1 \in 1 .. n + 1 /\ n + 1 > n
      OBVIOUS
    <2> QED BY <1>4, <1>5, <2>1
  <1>7. ASSUME NEW i \in 1 .. n, \A j \in i + 1 .. n + 1 : j \in T PROVE i \in T
    <2>1. m + i \in 1 .. m + n + 1 /\ ~ (m + i > m + n) /\ i \in 1 .. n + 1 /\ ~ (i > n)
      OBVIOUS
    <2>2. Escaped(text, m + i) = Escaped(s, i)
      <3>1. text[m + i] = s[i]
        BY <1>3
      <3>2. CASE i + 2 <= n
        <4>1. i + 1 \in 1 .. n /\ i + 2 \in 1 .. n /\ m + (i + 1) = (m + i) + 1 /\ m + (i + 2) = (m + i) + 2
          BY <3>2
        <4>2. text[(m + i) + 1] = s[i + 1] /\ text[(m + i) + 2] = s[i + 2]
          <5>1. text[m + (i + 1)] = s[i + 1] /\ text[m + (i + 2)] = s[i + 2]
            BY <1>3, <4>1
          <5> QED BY <4>1, <5>1, Zenon
        <4>3. (m + i) + 2 <= Len(text) /\ i + 2 <= Len(s)
          BY <1>1, <1>3, <3>2
        <4> QED BY <3>1, <4>2, <4>3 DEF Escaped
      <3>3. CASE ~ (i + 2 <= n)
        <4>1. ~ ((m + i) + 2 <= Len(text)) /\ ~ (i + 2 <= Len(s))
          BY <1>1, <1>3, <3>3
        <4> QED BY <4>1 DEF Escaped
      <3> QED BY <3>2, <3>3
    <2>3. f[m + i] = IF Escaped(s, i) # 0 THEN <<Escaped(s, i)>> \o f[(m + i) + 3] ELSE <<s[i]>> \o f[(m + i) + 1]
      BY <1>3, <1>4, <2>1, <2>2
    <2>4. g[i] = IF Escaped(s, i) # 0 THEN <<Escaped(s, i)>> \o g[i + 3] ELSE <<s[i]>> \o g[i + 1]
      BY <1>5, <2>1
    <2>5. CASE Escaped(s, i) # 0
      <3>1. i + 3 \in 1 .. n + 1
        BY <1>1, <2>5, EscapedIs
      <3>2. i + 3 \in i + 1 .. n + 1 /\ m + (i + 3) = (m + i) + 3
        BY <3>1
      <3>3. f[(m + i) + 3] = g[i + 3]
        BY <1>7, <3>2
      <3>4. f[m + i] = g[i]
        BY <2>3, <2>4, <2>5, <3>3
      <3> QED BY <3>4
    <2>6. CASE Escaped(s, i) = 0
      <3>1. i + 1 \in i + 1 .. n + 1 /\ m + (i + 1) = (m + i) + 1
        OBVIOUS
      <3>2. f[(m + i) + 1] = g[i + 1]
        BY <1>7, <3>1
      <3>3. f[m + i] = g[i]
        BY <2>3, <2>4, <2>6, <3>2
      <3> QED BY <3>3
    <2> QED BY <2>5, <2>6
  <1> HIDE DEF T
  <1>8. 1 \in T
    BY <1>6, <1>7, Downwards
  <1> QED BY <1>1, <1>8 DEF T

\* Nothing is parsed as nothing, a character that is no percent sign as itself, and an
\* encoded character as that character; 0 is none, and its escape is left alone.
LEMMA ParsedNext ==
  /\ ParseURLEncoding(<<>>) = <<>>
  /\ \A c \in 0 .. 255, s \in Text :
       c # Percent => ParseURLEncoding(<<c>> \o s) = <<c>> \o ParseURLEncoding(s)
  /\ \A c \in 1 .. 255, s \in Text :
       ParseURLEncoding(EncodeCharacter(c) \o s) = <<c>> \o ParseURLEncoding(s)
  <1>1. ParseURLEncoding(<<>>) = <<>>
    <2>1. <<>> \in Text /\ Len(<<>>) = 0
      BY EmptySeq DEF Text
    <2>2. PICK f : ParseSteps(<<>>, f) /\ ParseURLEncoding(<<>>) = f[1]
      BY <2>1, ParsedIs
    <2>3. 1 \in 1 .. Len(<<>>) + 1 /\ 1 > Len(<<>>)
      BY <2>1
    <2> QED BY <2>2, <2>3 DEF ParseSteps
  <1>2. ASSUME NEW c \in 0 .. 255, NEW s \in Text, c # Percent
        PROVE  ParseURLEncoding(<<c>> \o s) = <<c>> \o ParseURLEncoding(s)
    <2> DEFINE text == <<c>> \o s
    <2>1. <<c>> \in Text /\ Len(<<c>>) = 1 /\ <<c>>[1] = c
      BY DEF Text
    <2>2. text \in Text /\ Len(text) = 1 + Len(s) /\ Len(s) \in Nat /\ text[1] = c
      BY <2>1, Joined
    <2>3. PICK f : ParseSteps(text, f) /\ ParseURLEncoding(text) = f[1]
      BY <2>2, ParsedIs
    <2>4. PICK g : ParseSteps(s, g) /\ ParseURLEncoding(s) = g[1]
      BY ParsedIs
    <2>5. f[2] = g[1]
      <3>1. f[Len(<<c>>) + 1] = g[1]
        BY <2>1, <2>3, <2>4, ParsedAlike
      <3> QED BY <2>1, <3>1
    <2> HIDE DEF text
    <2>6. 1 \in 1 .. Len(text) /\ 1 \in 1 .. Len(text) + 1 /\ ~ (1 > Len(text))
      BY <2>2
    <2>7. Escaped(text, 1) = 0
      BY <1>2, <2>2, <2>6, EscapedIs
    <2>8. f[1] = <<text[1]>> \o f[1 + 1]
      BY <2>3, <2>6, <2>7 DEF ParseSteps
    <2>9. f[1] = <<c>> \o f[2]
      BY <2>2, <2>8
    <2>10. ParseURLEncoding(text) = <<c>> \o ParseURLEncoding(s)
      BY <2>3, <2>4, <2>5, <2>9, Zenon
    <2> QED BY <2>10 DEF text
  <1>3. ASSUME NEW c \in 1 .. 255, NEW s \in Text
        PROVE  ParseURLEncoding(EncodeCharacter(c) \o s) = <<c>> \o ParseURLEncoding(s)
    <2>1. c \in 0 .. 255 /\ c # 0
      OBVIOUS
    <2>2. CASE c \in Unreserved
      <3>1. EncodeCharacter(c) = <<c>> /\ c # Percent
        <4>1. c # Percent
          BY <2>2 DEF Unreserved, Percent, Digit, Capital, Small, Dot, Slash
        <4> QED BY <2>1, <2>2, <4>1, EncodedCharacter
      <3> QED BY <1>2, <2>1, <3>1
    <2>3. CASE c \notin Unreserved
      <3> DEFINE e == EncodeCharacter(c)
                 text == e \o s
      <3>1. e \in Text /\ Len(e) = 3 /\ e[1] = Percent /\ Strtol(e[2], e[3]) = c
        BY <2>1, <2>3, EncodedCharacter
      <3> HIDE DEF e
      <3>2. /\ text \in Text /\ Len(text) = 3 + Len(s) /\ Len(s) \in Nat
            /\ text[1] = e[1] /\ text[2] = e[2] /\ text[3] = e[3]
        <4>1. /\ text \in Text /\ Len(text) = Len(e) + Len(s) /\ Len(s) \in Nat
              /\ \A i \in 1 .. Len(e) : text[i] = e[i]
          BY <3>1, Joined
        <4>2. 1 \in 1 .. Len(e) /\ 2 \in 1 .. Len(e) /\ 3 \in 1 .. Len(e)
          BY <3>1
        <4> HIDE DEF text
        <4> QED BY <3>1, <4>1, <4>2
      <3>3. PICK f : ParseSteps(text, f) /\ ParseURLEncoding(text) = f[1]
        BY <3>2, ParsedIs
      <3>4. PICK g : ParseSteps(s, g) /\ ParseURLEncoding(s) = g[1]
        BY ParsedIs
      <3>5. f[4] = g[1]
        <4>1. f[Len(e) + 1] = g[1]
          BY <3>1, <3>3, <3>4, ParsedAlike
        <4> QED BY <3>1, <4>1
      <3> HIDE DEF text
      <3>6. 1 \in 1 .. Len(text) + 1 /\ ~ (1 > Len(text)) /\ 1 + 2 <= Len(text)
        BY <3>2
      <3>7. Escaped(text, 1) = c
        BY <3>1, <3>2, <3>6 DEF Escaped
      <3>8. f[1] = <<c>> \o f[1 + 3]
        BY <2>1, <3>3, <3>6, <3>7 DEF ParseSteps
      <3> QED BY <3>3, <3>4, <3>5, <3>8 DEF text, e
    <2> QED BY <2>2, <2>3
  <1> QED BY <1>1, <1>2, <1>3

\* A text without a percent sign is parsed as itself, whatever follows it.
LEMMA ParsedPlain ==
  ASSUME NEW t \in Seq((0 .. 255) \ {Percent}), NEW s \in Text
  PROVE  /\ t \in Text
         /\ ParseURLEncoding(t \o s) = t \o ParseURLEncoding(s)
         /\ ParseURLEncoding(t) = t
  <1> DEFINE C == (0 .. 255) \ {Percent}
             P(x) == \A r \in Text : ParseURLEncoding(x \o r) = x \o ParseURLEncoding(r)
             T == {x \in Seq(C) : P(x)}
  <1>0. \A x \in Seq(C) : x \in Text
    BY SeqMonotonic DEF Text
  <1>1. <<>> \in T
    <2>1. <<>> \in Seq(C)
      BY EmptySeq
    <2>2. \A r \in Text : <<>> \o r = r /\ <<>> \o ParseURLEncoding(r) = ParseURLEncoding(r)
      BY JoinedNone, ParsedTyped
    <2> QED BY <2>1, <2>2
  <1>2. ASSUME NEW x \in Seq(C), NEW c \in C, x \in T PROVE Append(x, c) \in T
    <2>1. Append(x, c) \in Seq(C)
      BY AppendProperties
    <2>2. ASSUME NEW r \in Text
          PROVE  ParseURLEncoding(Append(x, c) \o r) = Append(x, c) \o ParseURLEncoding(r)
      <3>1. x \in Text /\ c \in 0 .. 255 /\ c # Percent /\ <<c>> \in Text /\ Append(x, c) = x \o <<c>>
        BY <1>0, OneMore
      <3>2. ParseURLEncoding(r) \in Text /\ <<c>> \o r \in Text
        BY <3>1, ParsedTyped, Joined
      <3>3. (x \o <<c>>) \o r = x \o (<<c>> \o r)
        BY <3>1, Regroup
      <3>4. (x \o <<c>>) \o ParseURLEncoding(r) = x \o (<<c>> \o ParseURLEncoding(r))
        BY <3>1, <3>2, Regroup
      <3>5. ParseURLEncoding(x \o (<<c>> \o r)) = x \o ParseURLEncoding(<<c>> \o r)
        BY <1>2, <3>2
      <3>6. ParseURLEncoding(<<c>> \o r) = <<c>> \o ParseURLEncoding(r)
        BY <3>1, ParsedNext
      <3> QED BY <3>1, <3>3, <3>4, <3>5, <3>6, Zenon
    <2> QED BY <2>1, <2>2
  <1>3. t \in T
    <2> HIDE DEF T
    <2> QED BY <1>1, <1>2, AppendInduction
  <1>4. <<>> \in Text
    BY EmptySeq DEF Text
  <1>5. t \in Text /\ t \o <<>> = t
    BY <1>0, JoinedNone
  <1>6. P(t)
    BY <1>3
  <1>7. ParseURLEncoding(t \o <<>>) = t \o ParseURLEncoding(<<>>)
    BY <1>4, <1>6
  <1>8. ParseURLEncoding(t) = t
    BY <1>5, <1>7, ParsedNext
  <1> QED BY <1>5, <1>6, <1>8

\* A text that has been encoded is parsed as what it was, whatever follows it, when it has
\* no character 0.
LEMMA ParsedEncoded ==
  ASSUME NEW t \in Seq(1 .. 255), NEW s \in Text
  PROVE  /\ t \in Text
         /\ ParseURLEncoding(URLEncode(t) \o s) = t \o ParseURLEncoding(s)
         /\ ParseURLEncoding(URLEncode(t)) = t
  <1> DEFINE C == 1 .. 255
             P(x) == \A r \in Text : ParseURLEncoding(URLEncode(x) \o r) = x \o ParseURLEncoding(r)
             T == {x \in Seq(C) : P(x)}
  <1>0. \A x \in Seq(C) : x \in Text
    <2>1. C \subseteq 0 .. 255
      OBVIOUS
    <2> QED BY <2>1, SeqMonotonic DEF Text
  <1>1. <<>> \in T
    <2>1. <<>> \in Seq(C)
      BY EmptySeq
    <2>2. \A r \in Text : <<>> \o r = r /\ <<>> \o ParseURLEncoding(r) = ParseURLEncoding(r)
      BY JoinedNone, ParsedTyped
    <2> QED BY <2>1, <2>2, EncodedNext
  <1>2. ASSUME NEW x \in Seq(C), NEW c \in C, x \in T PROVE Append(x, c) \in T
    <2>1. Append(x, c) \in Seq(C)
      BY AppendProperties
    <2>2. ASSUME NEW r \in Text
          PROVE  ParseURLEncoding(URLEncode(Append(x, c)) \o r) = Append(x, c) \o ParseURLEncoding(r)
      <3> DEFINE e == EncodeCharacter(c)
                 u == URLEncode(x)
      <3>0. c \in 0 .. 255
        OBVIOUS
      <3>1. x \in Text /\ <<c>> \in Text /\ Append(x, c) = x \o <<c>>
        BY <1>0, <3>0, OneMore
      <3>2. ParseURLEncoding(r) \in Text /\ e \in Text /\ u \in Text
        BY <3>0, <3>1, ParsedTyped, EncodedCharacter, EncodedTyped
      <3>3. URLEncode(Append(x, c)) = u \o e
        BY <3>0, <3>1, EncodedNext
      <3>4. e \o r \in Text
        BY <3>2, Joined
      <3>5. ParseURLEncoding(e \o r) = <<c>> \o ParseURLEncoding(r)
        BY ParsedNext
      <3>6. ParseURLEncoding(u \o (e \o r)) = x \o ParseURLEncoding(e \o r)
        BY <1>2, <3>4
      <3> HIDE DEF e, u
      <3>7. (u \o e) \o r = u \o (e \o r)
        BY <3>2, Regroup
      <3>8. (x \o <<c>>) \o ParseURLEncoding(r) = x \o (<<c>> \o ParseURLEncoding(r))
        BY <3>1, <3>2, Regroup
      <3> QED BY <3>1, <3>3, <3>5, <3>6, <3>7, <3>8, Zenon
    <2> QED BY <2>1, <2>2
  <1>3. t \in T
    <2> HIDE DEF T
    <2> QED BY <1>1, <1>2, AppendInduction
  <1>4. <<>> \in Text
    BY EmptySeq DEF Text
  <1>5. t \in Text /\ URLEncode(t) \in Text /\ t \o <<>> = t
    BY <1>0, JoinedNone, EncodedTyped
  <1>6. P(t)
    BY <1>3
  <1>7. ParseURLEncoding(URLEncode(t) \o <<>>) = t \o ParseURLEncoding(<<>>)
    BY <1>4, <1>6
  <1>8. URLEncode(t) \o <<>> = URLEncode(t)
    BY <1>5, JoinedNone
  <1>9. ParseURLEncoding(URLEncode(t)) = t
    BY <1>5, <1>7, <1>8, ParsedNext
  <1> QED BY <1>5, <1>6, <1>9
================================================================================
