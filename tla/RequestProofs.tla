----------------------------- MODULE RequestProofs -----------------------------
(***************************************************************************)
(* What a browser is answered, for any number of threads, any files, paths  *)
(* and header fields: the text it sends is read as the path it asked for,   *)
(* that path is resolved as it should be, and the links of an index lead to *)
(* the entries they stand for.                                              *)
(***************************************************************************)
EXTENDS AnsweringProofs

--------------------------------------------------------------------------------
(* Reading a header *)

\* The first position is one of S or the end, and nothing before it is one of S.
LEMMA FirstOfIs ==
  ASSUME NEW text \in Text, NEW i \in Nat, NEW S
  PROVE  /\ FirstOf(text, i, S) \in Nat /\ FirstOf(text, i, S) <= Len(text) + 1
         /\ \/ FirstOf(text, i, S) = Len(text) + 1
            \/ FirstOf(text, i, S) \in i .. Len(text) /\ text[FirstOf(text, i, S)] \in S
         /\ \A j \in i .. Len(text) : text[j] \in S => FirstOf(text, i, S) <= j
  <1> DEFINE T == {j \in i .. Len(text) : text[j] \in S} \cup {Len(text) + 1}
  <1>1. Len(text) \in Nat
    BY Characters
  <1>2. T \in SUBSET Nat /\ T # {} /\ \A j \in T : j <= Len(text) + 1
    BY <1>1
  <1>3. \E x \in T : \A y \in T : x <= y
    BY <1>2, Least
  <1>4. FirstOf(text, i, S) = CHOOSE x \in T : \A y \in T : x <= y
    BY DEF FirstOf, Min
  <1>5. FirstOf(text, i, S) \in T /\ \A y \in T : FirstOf(text, i, S) <= y
    BY <1>3, <1>4, Zenon
  <1>6. FirstOf(text, i, S) \in Nat /\ FirstOf(text, i, S) <= Len(text) + 1
    BY <1>2, <1>5
  <1>7. \/ FirstOf(text, i, S) = Len(text) + 1
        \/ FirstOf(text, i, S) \in i .. Len(text) /\ text[FirstOf(text, i, S)] \in S
    BY <1>5
  <1>8. \A j \in i .. Len(text) : text[j] \in S => FirstOf(text, i, S) <= j
    BY <1>5
  <1> QED BY <1>6, <1>7, <1>8

\* What is one of S and has nothing of S before it is the first.
LEMMA FirstOfMeans ==
  ASSUME NEW text \in Text, NEW i \in Nat, NEW S, NEW r \in i .. Len(text), text[r] \in S,
         \A j \in i .. r - 1 : text[j] \notin S
  PROVE  FirstOf(text, i, S) = r
  <1>1. Len(text) \in Nat
    BY Characters
  <1>2. FirstOf(text, i, S) <= r
    BY FirstOfIs
  <1>3. FirstOf(text, i, S) \in Nat /\ FirstOf(text, i, S) \in i .. Len(text)
        /\ text[FirstOf(text, i, S)] \in S
    BY <1>1, <1>2, FirstOfIs
  <1>4. ~ (FirstOf(text, i, S) < r)
    BY <1>1, <1>3
  <1> QED BY <1>1, <1>2, <1>3, <1>4

\* A word lies within the text and has no blank.
LEMMA WordIs ==
  ASSUME NEW text \in Text, NEW i \in Nat \ {0}
  PROVE  /\ WordStart(text, i) \in Nat \ {0} /\ WordEnd(text, i) \in Nat \ {0}
         /\ WordStart(text, i) <= Len(text)
              => /\ i <= WordStart(text, i) /\ WordStart(text, i) < WordEnd(text, i)
                 /\ \A j \in WordStart(text, i) .. WordEnd(text, i) - 1 : text[j] \notin Blank
         /\ WordEnd(text, i) <= Len(text) + 1
         /\ WordStart(text, i) > Len(text) => WordEnd(text, i) = Len(text) + 1
  <1> DEFINE s == WordStart(text, i)
             e == WordEnd(text, i)
             V == Range(text) \ Blank
  <1>1. Len(text) \in Nat
    BY Characters
  <1>2. /\ s \in Nat /\ s <= Len(text) + 1
        /\ s = Len(text) + 1 \/ (s \in i .. Len(text) /\ text[s] \in V)
    <2>1. s = FirstOf(text, i, V)
      BY DEF WordStart
    <2> HIDE DEF s, V
    <2>2. /\ FirstOf(text, i, V) \in Nat /\ FirstOf(text, i, V) <= Len(text) + 1
          /\ \/ FirstOf(text, i, V) = Len(text) + 1
             \/ FirstOf(text, i, V) \in i .. Len(text) /\ text[FirstOf(text, i, V)] \in V
      <3>1. i \in Nat
        OBVIOUS
      <3> QED BY <3>1, FirstOfIs
    <2> QED BY <2>1, <2>2
  <1>3. /\ e \in Nat /\ e <= Len(text) + 1
        /\ e = Len(text) + 1 \/ (e \in s .. Len(text) /\ text[e] \in Blank)
        /\ \A j \in s .. Len(text) : text[j] \in Blank => e <= j
    <2>1. e = FirstOf(text, s, Blank)
      BY DEF WordEnd
    <2> HIDE DEF s, e
    <2>2. /\ FirstOf(text, s, Blank) \in Nat /\ FirstOf(text, s, Blank) <= Len(text) + 1
          /\ \/ FirstOf(text, s, Blank) = Len(text) + 1
             \/ FirstOf(text, s, Blank) \in s .. Len(text) /\ text[FirstOf(text, s, Blank)] \in Blank
          /\ \A j \in s .. Len(text) : text[j] \in Blank => FirstOf(text, s, Blank) <= j
      BY <1>2, FirstOfIs
    <2> QED BY <2>1, <2>2
  <1>4. s <= Len(text) => text[s] \notin Blank
    BY <1>1, <1>2
  <1> HIDE DEF s, e, V
  <1>5. s \in Nat \ {0} /\ e \in Nat \ {0}
    BY <1>1, <1>2, <1>3
  <1>6. s <= Len(text) => i <= s /\ s < e
    BY <1>1, <1>2, <1>3, <1>4
  <1>7. ASSUME NEW j \in s .. e - 1, s <= Len(text) PROVE text[j] \notin Blank
    BY <1>1, <1>2, <1>3, <1>7
  <1>8. s > Len(text) => e = Len(text) + 1
    BY <1>1, <1>2, <1>3
  <1> QED BY <1>3, <1>5, <1>6, <1>7, <1>8 DEF s, e

\* A stretch of a text is a text.
LEMMA Within ==
  ASSUME NEW text \in Text, NEW i \in Nat \ {0}, NEW j \in Nat, j <= Len(text)
  PROVE  SubSeq(text, i, j) \in Text
  <1>1. Len(text) \in Nat /\ \A k \in 1 .. Len(text) : text[k] \in 0 .. 255
    BY Characters
  <1>2. i \in Int /\ j \in Int /\ \A k \in i .. j : text[k] \in 0 .. 255
    BY <1>1
  <1> QED BY <1>2, SubSeqProperties DEF Text

\* A word that is read is a text.
LEMMA ReadTyped ==
  ASSUME NEW text \in Text, NEW i \in Nat \ {0}, NEW word \in Text
  PROVE  Read(text, i, word) \in Text
  <1>1. CASE WordStart(text, i) > Len(text)
    BY <1>1 DEF Read
  <1>2. CASE ~ (WordStart(text, i) > Len(text))
    <2>1. Read(text, i, word) = SubSeq(text, WordStart(text, i), WordEnd(text, i) - 1)
      BY <1>2 DEF Read
    <2>2. WordStart(text, i) \in Nat \ {0} /\ WordEnd(text, i) - 1 \in Nat /\ WordEnd(text, i) - 1 <= Len(text)
      <3>1. Len(text) \in Nat /\ WordEnd(text, i) <= Len(text) + 1
            /\ WordStart(text, i) \in Nat \ {0} /\ WordEnd(text, i) \in Nat \ {0}
        BY WordIs, Characters
      <3> QED BY <3>1
    <2> QED BY <2>1, <2>2, Within
  <1> QED BY <1>1, <1>2

\* The fields of a header, and a header.
FieldMap == UNION {[D -> Text] : D \in SUBSET Text}

Header ==
  [AccessType : Text, AccessPath : Text, AccessProtocol : Text, HeaderFields : FieldMap]

\* What the loop over the fields keeps.
Reading ==
  [at : Nat \ {0}, good : BOOLEAN, Field : Text, Value : Text, HeaderFields : FieldMap]

\* No field, and one more.
LEMMA FieldMaps ==
  /\ <<>> \in FieldMap
  /\ \A m \in FieldMap, f, v \in Text : SetValue(m, f, v) \in FieldMap
  <1>1. <<>> \in FieldMap
    <2>1. <<>> \in [{} -> Text]
      <3>1. <<>> \in Seq(Text) /\ Len(<<>>) = 0
        BY EmptySeq
      <3>2. DOMAIN <<>> = 1 .. 0
        BY <3>1, LenProperties
      <3>3. 1 .. 0 = {}
        OBVIOUS
      <3>4. <<>> = [x \in 1 .. Len(<<>>) |-> <<>>[x]]
        BY <3>1
      <3> QED BY <3>1, <3>3, <3>4
    <2>2. {} \in SUBSET Text
      OBVIOUS
    <2> QED BY <2>1, <2>2 DEF FieldMap
  <1>2. ASSUME NEW m \in FieldMap, NEW f \in Text, NEW v \in Text
        PROVE  SetValue(m, f, v) \in FieldMap
    <2>1. PICK D \in SUBSET Text : m \in [D -> Text]
      BY DEF FieldMap
    <2>2. DOMAIN m = D
      BY <2>1
    <2>3. SetValue(m, f, v) = [g \in D \cup {f} |-> IF g = f THEN v ELSE m[g]]
      BY <2>2 DEF SetValue
    <2>4. SetValue(m, f, v) \in [D \cup {f} -> Text]
      BY <2>1, <2>3
    <2>5. D \cup {f} \in SUBSET Text
      OBVIOUS
    <2> QED BY <2>4, <2>5 DEF FieldMap
  <1> QED BY <1>1, <1>2

\* The first letters and the last ones of a text that is long enough.
LEMMA Shorter ==
  ASSUME NEW text \in Text, Len(text) > 0
  PROVE  Front(text) \in Text /\ Tail(text) \in Text
  <1>1. Front(text) \in Text
    BY FrontIs DEF Text
  <1>2. text # <<>>
    BY EmptySeq
  <1> QED BY <1>1, <1>2, HeadTailProperties DEF Text

\* One turn of the loop keeps the types.
LEMMA ReadFieldTyped ==
  ASSUME NEW text \in Text, NEW s \in Reading
  PROVE  ReadField(text, s) \in Reading
  <1> DEFINE behind == WordEnd(text, s.at)
             end    == FirstOf(text, behind, {NewLine})
             Field  == Read(text, s.at, s.Field)
             Value  == IF behind > Len(text) THEN s.Value ELSE SubSeq(text, behind, end - 1)
             fields == SetValue(s.HeaderFields, Front(Field), Tail(Value))
             after  == [at |-> end + 1, good |-> end <= Len(text), Field |-> Front(Field), Value |-> Tail(Value),
                        HeaderFields |-> fields]
  <1>0. Len(text) \in Nat /\ s.at \in Nat \ {0} /\ s.Field \in Text /\ s.Value \in Text
        /\ s.HeaderFields \in FieldMap /\ s.good \in BOOLEAN
    BY Characters DEF Reading
  <1>1. behind \in Nat \ {0}
    BY <1>0, WordIs
  <1>2. end \in Nat /\ end <= Len(text) + 1 /\ (end = Len(text) + 1 \/ end >= behind)
    <2>1. behind \in Nat
      BY <1>1
    <2> HIDE DEF behind
    <2>2. /\ FirstOf(text, behind, {NewLine}) \in Nat /\ FirstOf(text, behind, {NewLine}) <= Len(text) + 1
          /\ \/ FirstOf(text, behind, {NewLine}) = Len(text) + 1
             \/ FirstOf(text, behind, {NewLine}) \in behind .. Len(text)
      BY <2>1, FirstOfIs
    <2> QED BY <2>1, <2>2
  <1>3. Field \in Text
    BY <1>0, ReadTyped
  <1>4. Value \in Text
    <2> HIDE DEF behind, end
    <2>1. end - 1 \in Nat /\ end - 1 <= Len(text)
      BY <1>0, <1>1, <1>2
    <2>2. SubSeq(text, behind, end - 1) \in Text
      BY <1>1, <2>1, Within
    <2> QED BY <1>0, <2>2
  <1>5. ReadField(text, s) = IF Len(Field) <= 3 \/ Len(Value) <= 1 THEN [s EXCEPT !.good = FALSE] ELSE after
    BY Zenon DEF ReadField
  <1> HIDE DEF behind, end, Field, Value
  <1>6. CASE Len(Field) <= 3 \/ Len(Value) <= 1
    BY <1>5, <1>6 DEF Reading
  <1>7. CASE ~ (Len(Field) <= 3 \/ Len(Value) <= 1)
    <2>1. Len(Field) \in Nat /\ Len(Value) \in Nat
      BY <1>3, <1>4, Characters
    <2>2. Len(Field) > 0 /\ Len(Value) > 0
      BY <1>7, <2>1
    <2>3. Front(Field) \in Text /\ Tail(Value) \in Text
      BY <1>3, <1>4, <2>2, Shorter
    <2>4. fields \in FieldMap
      BY <1>0, <2>3, FieldMaps
    <2> HIDE DEF fields
    <2>5. end + 1 \in Nat \ {0} /\ (end <= Len(text)) \in BOOLEAN
      BY <1>2
    <2>6. after \in Reading
      BY <2>3, <2>4, <2>5 DEF Reading
    <2> QED BY <1>5, <1>7, <2>6
  <1> QED BY <1>6, <1>7

\* l lists what the loop keeps after each of up to m turns.
FieldSteps(text, start, l, m) ==
  l = [k \in 0 .. m |->
         IF k = 0 THEN start
         ELSE LET s == l[k - 1] IN IF s.good THEN ReadField(text, s) ELSE s]

\* Such a list exists: one for m + 1 turns is one for m turns and the next turn.
LEMMA FieldStepsExist ==
  ASSUME NEW text, NEW start, NEW m \in Nat
  PROVE  \E l : FieldSteps(text, start, l, m)
  <1> DEFINE T == {k \in Nat : \E l : FieldSteps(text, start, l, k)}
             Turn(s) == IF s.good THEN ReadField(text, s) ELSE s
  <1>1. 0 \in T
    <2> DEFINE l == [k \in 0 .. 0 |-> start]
    <2>1. l = [k \in 0 .. 0 |-> IF k = 0 THEN start ELSE Turn(l[k - 1])]
      <3>1. \A k \in 0 .. 0 : k = 0
        OBVIOUS
      <3> QED BY <3>1
    <2>2. FieldSteps(text, start, l, 0)
      BY <2>1 DEF FieldSteps
    <2> QED BY <2>2
  <1>2. ASSUME NEW n \in Nat, n \in T PROVE n + 1 \in T
    <2>1. PICK l : FieldSteps(text, start, l, n)
      BY <1>2
    <2>2. l = [k \in 0 .. n |-> IF k = 0 THEN start ELSE Turn(l[k - 1])]
      BY <2>1 DEF FieldSteps
    <2> HIDE DEF Turn
    <2> DEFINE h == [k \in 0 .. n + 1 |-> IF k <= n THEN l[k] ELSE Turn(l[n])]
    <2>3. \A k \in 0 .. n : h[k] = l[k]
      OBVIOUS
    <2>4. h[n + 1] = Turn(l[n])
      OBVIOUS
    <2>5. ASSUME NEW k \in 0 .. n + 1
          PROVE  h[k] = IF k = 0 THEN start ELSE Turn(h[k - 1])
      <3>1. CASE k = 0
        BY <2>2, <2>3, <3>1
      <3>2. CASE k # 0 /\ k <= n
        <4>1. k - 1 \in 0 .. n /\ k \in 0 .. n
          BY <3>2
        <4> QED BY <2>2, <2>3, <3>2, <4>1
      <3>3. CASE k # 0 /\ ~ (k <= n)
        <4>1. k = n + 1 /\ k - 1 = n /\ n \in 0 .. n
          BY <3>3
        <4> QED BY <2>3, <2>4, <3>3, <4>1
      <3> QED BY <3>1, <3>2, <3>3
    <2>6. h = [k \in 0 .. n + 1 |-> h[k]]
      OBVIOUS
    <2> HIDE DEF h
    <2>7. h = [k \in 0 .. n + 1 |-> IF k = 0 THEN start ELSE Turn(h[k - 1])]
      BY <2>5, <2>6
    <2>8. FieldSteps(text, start, h, n + 1)
      BY <2>7 DEF FieldSteps, Turn
    <2> QED BY <2>8
  <1> HIDE DEF T
  <1>3. m \in T
    BY <1>1, <1>2, Induction
  <1> QED BY <1>3 DEF T

\* Where the loop begins, and how often it turns at most.
LoopStart(header, text) ==
  LET third  == WordEnd(text, WordEnd(text, 1))
      fields == WordEnd(text, third)
  IN [at |-> fields, good |-> fields <= Len(text), Field |-> <<>>, Value |-> <<>>,
      HeaderFields |-> header.HeaderFields]

Turns(text) == Cardinality({i \in DOMAIN text : text[i] = NewLine}) + 1

\* The parts of a header that has been imported.
LEMMA ImportIs ==
  ASSUME NEW header \in Header, NEW text \in Text
  PROVE  /\ Turns(text) \in Nat \ {0}
         /\ \E l : /\ FieldSteps(text, LoopStart(header, text), l, Turns(text))
                   /\ ImportHeader(header, text) =
                        [AccessType     |-> Read(text, 1, header.AccessType),
                         AccessPath     |-> Read(text, WordEnd(text, 1), header.AccessPath),
                         AccessProtocol |-> Read(text, WordEnd(text, WordEnd(text, 1)), header.AccessProtocol),
                         HeaderFields   |-> l[Turns(text)].HeaderFields]
  <1> DEFINE start == LoopStart(header, text)
             lines == Turns(text)
             Steps(l) == l = [k \in 0 .. lines |->
                                IF k = 0 THEN start
                                ELSE LET s == l[k - 1] IN IF s.good THEN ReadField(text, s) ELSE s]
             loop == CHOOSE l : Steps(l)
  <1>1. lines \in Nat \ {0}
    <2>1. Len(text) \in Nat /\ DOMAIN text = 1 .. Len(text)
      BY Characters
    <2>2. {i \in DOMAIN text : text[i] = NewLine} \in SUBSET (1 .. Len(text)) /\ IsFiniteSet(1 .. Len(text))
      BY <2>1, FS_Interval
    <2>3. Cardinality({i \in DOMAIN text : text[i] = NewLine}) \in Nat
      BY <2>2, FS_Subset, FS_CardinalityType
    <2> QED BY <2>3 DEF Turns
  <1>2. \E l : Steps(l)
    <2>1. lines \in Nat
      BY <1>1
    <2> HIDE DEF start, lines
    <2>2. \E l : FieldSteps(text, start, l, lines)
      BY <2>1, FieldStepsExist
    <2>3. PICK l : FieldSteps(text, start, l, lines)
      BY <2>2
    <2>4. Steps(l)
      BY <2>3 DEF FieldSteps
    <2> QED BY <2>4
  <1>3. Steps(loop)
    BY <1>2
  <1>4. ImportHeader(header, text) =
          [AccessType     |-> Read(text, 1, header.AccessType),
           AccessPath     |-> Read(text, WordEnd(text, 1), header.AccessPath),
           AccessProtocol |-> Read(text, WordEnd(text, WordEnd(text, 1)), header.AccessProtocol),
           HeaderFields   |-> loop[lines].HeaderFields]
    BY DEF ImportHeader, LoopStart, Turns
  <1> HIDE DEF loop
  <1>5. FieldSteps(text, start, loop, lines)
    BY <1>3 DEF FieldSteps
  <1> QED BY <1>1, <1>4, <1>5

\* Importing keeps the types.
LEMMA ImportTyped ==
  ASSUME NEW header \in Header, NEW text \in Text
  PROVE  ImportHeader(header, text) \in Header
  <1>0. /\ header.AccessType \in Text /\ header.AccessPath \in Text /\ header.AccessProtocol \in Text
        /\ header.HeaderFields \in FieldMap
    BY DEF Header
  <1> DEFINE second == WordEnd(text, 1)
             third  == WordEnd(text, second)
             at     == WordEnd(text, third)
             start  == LoopStart(header, text)
  <1>1. second \in Nat \ {0}
    <2>1. 1 \in Nat \ {0}
      OBVIOUS
    <2> QED BY <2>1, WordIs
  <1>2. third \in Nat \ {0} /\ at \in Nat \ {0}
    <2> HIDE DEF second
    <2>1. third \in Nat \ {0}
      BY <1>1, WordIs
    <2> HIDE DEF third
    <2> QED BY <2>1, WordIs
  <1>3. start \in Reading
    <2>1. start = [at |-> at, good |-> at <= Len(text), Field |-> <<>>, Value |-> <<>>,
                   HeaderFields |-> header.HeaderFields]
      BY DEF LoopStart
    <2> HIDE DEF at, start
    <2>2. <<>> \in Text
      BY EmptySeq DEF Text
    <2> QED BY <1>0, <1>2, <2>1, <2>2 DEF Reading
  <1>4. PICK l : /\ FieldSteps(text, start, l, Turns(text))
                 /\ ImportHeader(header, text) =
                      [AccessType     |-> Read(text, 1, header.AccessType),
                       AccessPath     |-> Read(text, second, header.AccessPath),
                       AccessProtocol |-> Read(text, third, header.AccessProtocol),
                       HeaderFields   |-> l[Turns(text)].HeaderFields]
    BY ImportIs
  <1>5. Turns(text) \in Nat
    BY ImportIs
  <1>6. \A k \in Nat : k <= Turns(text) => l[k] \in Reading
    <2> DEFINE T == {k \in Nat : k <= Turns(text) => l[k] \in Reading}
    <2> HIDE DEF start
    <2>1. 0 \in T
      BY <1>3, <1>4, <1>5 DEF FieldSteps
    <2>2. ASSUME NEW k \in Nat, k \in T PROVE k + 1 \in T
      <3>1. SUFFICES ASSUME k + 1 <= Turns(text) PROVE l[k + 1] \in Reading
        OBVIOUS
      <3>2. l[k] \in Reading
        BY <1>5, <2>2, <3>1
      <3>3. k + 1 \in 0 .. Turns(text) /\ k + 1 # 0 /\ (k + 1) - 1 = k
        BY <1>5, <3>1
      <3>4. l[k + 1] = IF l[k].good THEN ReadField(text, l[k]) ELSE l[k]
        BY <1>4, <3>3 DEF FieldSteps
      <3>5. ReadField(text, l[k]) \in Reading
        BY <3>2, ReadFieldTyped
      <3> QED BY <3>2, <3>4, <3>5
    <2> HIDE DEF T
    <2>3. \A k \in Nat : k \in T
      BY <2>1, <2>2, Induction
    <2> QED BY <2>3 DEF T
  <1>7. l[Turns(text)].HeaderFields \in FieldMap
    BY <1>5, <1>6 DEF Reading
  <1>8. /\ Read(text, 1, header.AccessType) \in Text
        /\ Read(text, second, header.AccessPath) \in Text
        /\ Read(text, third, header.AccessProtocol) \in Text
    <2>1. 1 \in Nat \ {0}
      OBVIOUS
    <2>2. Read(text, 1, header.AccessType) \in Text
      BY <1>0, <2>1, ReadTyped
    <2> HIDE DEF second, third
    <2> QED BY <1>0, <1>1, <1>2, <2>2, ReadTyped
  <1> HIDE DEF second, third
  <1> QED BY <1>4, <1>7, <1>8 DEF Header

--------------------------------------------------------------------------------
(* Links and places, piece by piece *)

\* What a browser makes of the given pieces of a link.
Walked(q) == FoldLeft(Walk, <<>>, q)

\* g says for every set of places up to m what its pieces lead to.
WalkSteps(q, g, m) ==
  g = [s \in SUBSET (1 .. m) |->
         IF s = {} THEN <<>> ELSE Walk(g[s \ {Max(s)}], q[Max(s)])]

\* Such steps exist: those up to m + 1 are those up to m and one more.
LEMMA WalkStepsExist ==
  ASSUME NEW q, NEW m \in Nat
  PROVE  \E g : WalkSteps(q, g, m)
  <1> DEFINE T == {k \in Nat : \E g : WalkSteps(q, g, k)}
  <1>1. 0 \in T
    <2> DEFINE g == [s \in SUBSET (1 .. 0) |-> <<>>]
    <2>1. \A s \in SUBSET (1 .. 0) : s = {}
      OBVIOUS
    <2>2. WalkSteps(q, g, 0)
      BY <2>1 DEF WalkSteps
    <2> HIDE DEF g
    <2> QED BY <2>2
  <1>2. ASSUME NEW k \in Nat, k \in T PROVE k + 1 \in T
    <2>1. PICK g : WalkSteps(q, g, k)
      BY <1>2
    <2> DEFINE h == [s \in SUBSET (1 .. k + 1) |->
                       IF k + 1 \in s THEN Walk(g[s \ {k + 1}], q[k + 1]) ELSE g[s]]
    <2>2. ASSUME NEW s \in SUBSET (1 .. k + 1)
          PROVE  h[s] = IF s = {} THEN <<>> ELSE Walk(h[s \ {Max(s)}], q[Max(s)])
      <3>1. CASE k + 1 \in s
        <4>1. Max(s) = k + 1
          <5>1. k + 1 \in s /\ \A y \in s : y \in Int /\ k + 1 >= y
            BY <3>1
          <5>2. \A x \in s : (\A y \in s : x >= y) => x = k + 1
            BY <5>1
          <5> QED BY <5>1, <5>2 DEF Max
        <4>2. s \ {k + 1} \in SUBSET (1 .. k + 1) /\ k + 1 \notin s \ {k + 1} /\ s # {}
          BY <3>1
        <4>3. h[s \ {k + 1}] = g[s \ {k + 1}]
          BY <4>2
        <4>4. h[s] = Walk(g[s \ {k + 1}], q[k + 1])
          BY <3>1
        <4> HIDE DEF h
        <4> QED BY <4>1, <4>2, <4>3, <4>4
      <3>2. CASE k + 1 \notin s
        <4>1. s \in SUBSET (1 .. k) /\ s \ {Max(s)} \in SUBSET (1 .. k) /\ s \ {Max(s)} \in SUBSET (1 .. k + 1)
          <5>1. \A y \in s : y \in 1 .. k
            BY <3>2
          <5>2. s \subseteq 1 .. k /\ 1 .. k \subseteq 1 .. k + 1
            BY <5>1
          <5> QED BY <5>2
        <4>2. g[s] = IF s = {} THEN <<>> ELSE Walk(g[s \ {Max(s)}], q[Max(s)])
          BY <2>1, <4>1 DEF WalkSteps
        <4>3. h[s] = g[s]
          BY <3>2
        <4>4. h[s \ {Max(s)}] = g[s \ {Max(s)}]
          BY <3>2, <4>1
        <4> HIDE DEF h
        <4> QED BY <4>2, <4>3, <4>4
      <3> QED BY <3>1, <3>2
    <2>3. WalkSteps(q, h, k + 1)
      <3>1. h = [s \in SUBSET (1 .. k + 1) |-> h[s]]
        OBVIOUS
      <3> HIDE DEF h
      <3> QED BY <2>2, <3>1 DEF WalkSteps
    <2> HIDE DEF h
    <2> QED BY <2>3
  <1> HIDE DEF T
  <1>3. m \in T
    BY <1>1, <1>2, Induction
  <1> QED BY <1>3 DEF T

\* Each step takes the next piece.
LEMMA WalkStepsFollow ==
  ASSUME NEW q, NEW g, NEW m \in Nat, WalkSteps(q, g, m)
  PROVE  /\ g[1 .. 0] = <<>>
         /\ \A k \in Nat : k < m => g[1 .. k + 1] = Walk(g[1 .. k], q[k + 1])
  <1>1. g[1 .. 0] = <<>>
    <2>1. 1 .. 0 = {} /\ {} \in SUBSET (1 .. m)
      OBVIOUS
    <2>2. g[{}] = <<>>
      BY <2>1 DEF WalkSteps
    <2> QED BY <2>1, <2>2
  <1>2. ASSUME NEW k \in Nat, k < m PROVE g[1 .. k + 1] = Walk(g[1 .. k], q[k + 1])
    <2> DEFINE s == 1 .. k + 1
    <2>1. s \in SUBSET (1 .. m) /\ s # {} /\ s \ {k + 1} = 1 .. k
      BY <1>2
    <2>2. Max(s) = k + 1
      <3>1. k + 1 \in s /\ \A y \in s : y \in Int /\ k + 1 >= y
        OBVIOUS
      <3>2. \A x \in s : (\A y \in s : x >= y) => x = k + 1
        BY <3>1
      <3> HIDE DEF s
      <3> QED BY <3>1, <3>2 DEF Max
    <2> HIDE DEF s
    <2>3. g[s] = Walk(g[s \ {Max(s)}], q[Max(s)])
      BY <2>1 DEF WalkSteps
    <2>4. g[s] = Walk(g[1 .. k], q[k + 1])
      BY <2>1, <2>2, <2>3
    <2> QED BY <2>4 DEF s
  <1> QED BY <1>1, <1>2

\* The fold is the last of the steps.
LEMMA WalkedIs ==
  ASSUME NEW S, NEW q \in Seq(S)
  PROVE  \E g : WalkSteps(q, g, Len(q)) /\ Walked(q) = g[1 .. Len(q)]
  <1> DEFINE g == CHOOSE f : WalkSteps(q, f, Len(q))
  <1>1. DOMAIN q = 1 .. Len(q) /\ Len(q) \in Nat
    BY LenProperties
  <1>2. Walked(q) = (CHOOSE f : WalkSteps(q, f, Len(q)))[1 .. Len(q)]
    BY <1>1 DEF Walked, FoldLeft, MapThenFoldSet, WalkSteps
  <1>3. WalkSteps(q, g, Len(q))
    BY <1>1, WalkStepsExist, Zenon
  <1>4. Walked(q) = g[1 .. Len(q)]
    BY <1>2
  <1> HIDE DEF g
  <1> QED BY <1>3, <1>4

\* One more piece is walked behind the others.
LEMMA WalkedNext ==
  ASSUME NEW S, NEW q \in Seq(S), NEW x \in S
  PROVE  Walked(Append(q, x)) = Walk(Walked(q), x)
  <1> DEFINE r == Append(q, x)
  <1>1. r \in Seq(S) /\ Len(r) = Len(q) + 1 /\ r[Len(q) + 1] = x /\ \A k \in 1 .. Len(q) : r[k] = q[k]
    BY AppendProperties
  <1>2. Len(q) \in Nat
    BY LenProperties
  <1> HIDE DEF r
  <1>3. PICK g : WalkSteps(q, g, Len(q)) /\ Walked(q) = g[1 .. Len(q)]
    BY WalkedIs
  <1>4. PICK h : WalkSteps(r, h, Len(q) + 1) /\ Walked(r) = h[1 .. Len(q) + 1]
    BY <1>1, WalkedIs
  <1>5. g[1 .. Len(q)] = h[1 .. Len(q)]
    <2> DEFINE T == {k \in Nat : k <= Len(q) => g[1 .. k] = h[1 .. k]}
    <2>1. 0 \in T
      <3>1. g[1 .. 0] = <<>>
        BY <1>2, <1>3, WalkStepsFollow
      <3>2. Len(q) + 1 \in Nat
        BY <1>2
      <3>3. h[1 .. 0] = <<>>
        BY <1>4, <3>2, WalkStepsFollow
      <3> QED BY <3>1, <3>3
    <2>2. ASSUME NEW k \in Nat, k \in T PROVE k + 1 \in T
      <3> SUFFICES ASSUME k + 1 <= Len(q) PROVE g[1 .. k + 1] = h[1 .. k + 1]
        OBVIOUS
      <3>1. k < Len(q) /\ k < Len(q) + 1 /\ k + 1 \in 1 .. Len(q) /\ Len(q) + 1 \in Nat
        BY <1>2
      <3>2. g[1 .. k] = h[1 .. k] /\ q[k + 1] = r[k + 1]
        BY <1>1, <1>2, <2>2, <3>1
      <3>3. g[1 .. k + 1] = Walk(g[1 .. k], q[k + 1])
        BY <1>2, <1>3, <3>1, WalkStepsFollow
      <3>4. h[1 .. k + 1] = Walk(h[1 .. k], r[k + 1])
        BY <1>4, <3>1, WalkStepsFollow
      <3> QED BY <3>2, <3>3, <3>4
    <2> HIDE DEF T
    <2>3. Len(q) \in T
      BY <1>2, <2>1, <2>2, Induction
    <2> QED BY <1>2, <2>3 DEF T
  <1>6. h[1 .. Len(q) + 1] = Walk(h[1 .. Len(q)], r[Len(q) + 1])
    <2>1. Len(q) + 1 \in Nat /\ Len(q) < Len(q) + 1
      BY <1>2
    <2> QED BY <1>2, <1>4, <2>1, WalkStepsFollow
  <1>7. Walked(r) = Walk(Walked(q), x)
    BY <1>1, <1>3, <1>4, <1>5, <1>6
  <1> QED BY <1>7 DEF r

\* Nothing is made of nothing.
LEMMA WalkedNone == Walked(<<>>) = <<>>
  <1>1. <<>> \in Seq({}) /\ Len(<<>>) = 0
    BY EmptySeq
  <1>2. PICK g : WalkSteps(<<>>, g, 0) /\ Walked(<<>>) = g[1 .. 0]
    BY <1>1, WalkedIs
  <1> QED BY <1>2, WalkStepsFollow
\* Where the given pieces lead to in the file system, in the same way.
Placed(q) == FoldLeft(Into, Home, q)

\* g says for every set of places up to m where its pieces lead to.
IntoSteps(q, g, m) ==
  g = [s \in SUBSET (1 .. m) |->
         IF s = {} THEN Home ELSE Into(g[s \ {Max(s)}], q[Max(s)])]

\* Such steps exist: those up to m + 1 are those up to m and one more.
LEMMA IntoStepsExist ==
  ASSUME NEW q, NEW m \in Nat
  PROVE  \E g : IntoSteps(q, g, m)
  <1> DEFINE T == {k \in Nat : \E g : IntoSteps(q, g, k)}
  <1>1. 0 \in T
    <2> DEFINE g == [s \in SUBSET (1 .. 0) |-> Home]
    <2>1. \A s \in SUBSET (1 .. 0) : s = {}
      OBVIOUS
    <2>2. IntoSteps(q, g, 0)
      BY <2>1 DEF IntoSteps
    <2> HIDE DEF g
    <2> QED BY <2>2
  <1>2. ASSUME NEW k \in Nat, k \in T PROVE k + 1 \in T
    <2>1. PICK g : IntoSteps(q, g, k)
      BY <1>2
    <2> DEFINE h == [s \in SUBSET (1 .. k + 1) |->
                       IF k + 1 \in s THEN Into(g[s \ {k + 1}], q[k + 1]) ELSE g[s]]
    <2>2. ASSUME NEW s \in SUBSET (1 .. k + 1)
          PROVE  h[s] = IF s = {} THEN Home ELSE Into(h[s \ {Max(s)}], q[Max(s)])
      <3>1. CASE k + 1 \in s
        <4>1. Max(s) = k + 1
          <5>1. k + 1 \in s /\ \A y \in s : y \in Int /\ k + 1 >= y
            BY <3>1
          <5>2. \A x \in s : (\A y \in s : x >= y) => x = k + 1
            BY <5>1
          <5> QED BY <5>1, <5>2 DEF Max
        <4>2. s \ {k + 1} \in SUBSET (1 .. k + 1) /\ k + 1 \notin s \ {k + 1} /\ s # {}
          BY <3>1
        <4>3. h[s \ {k + 1}] = g[s \ {k + 1}]
          BY <4>2
        <4>4. h[s] = Into(g[s \ {k + 1}], q[k + 1])
          BY <3>1
        <4> HIDE DEF h
        <4> QED BY <4>1, <4>2, <4>3, <4>4
      <3>2. CASE k + 1 \notin s
        <4>1. s \in SUBSET (1 .. k) /\ s \ {Max(s)} \in SUBSET (1 .. k) /\ s \ {Max(s)} \in SUBSET (1 .. k + 1)
          <5>1. \A y \in s : y \in 1 .. k
            BY <3>2
          <5>2. s \subseteq 1 .. k /\ 1 .. k \subseteq 1 .. k + 1
            BY <5>1
          <5> QED BY <5>2
        <4>2. g[s] = IF s = {} THEN Home ELSE Into(g[s \ {Max(s)}], q[Max(s)])
          BY <2>1, <4>1 DEF IntoSteps
        <4>3. h[s] = g[s]
          BY <3>2
        <4>4. h[s \ {Max(s)}] = g[s \ {Max(s)}]
          BY <3>2, <4>1
        <4> HIDE DEF h
        <4> QED BY <4>2, <4>3, <4>4
      <3> QED BY <3>1, <3>2
    <2>3. IntoSteps(q, h, k + 1)
      <3>1. h = [s \in SUBSET (1 .. k + 1) |-> h[s]]
        OBVIOUS
      <3> HIDE DEF h
      <3> QED BY <2>2, <3>1 DEF IntoSteps
    <2> HIDE DEF h
    <2> QED BY <2>3
  <1> HIDE DEF T
  <1>3. m \in T
    BY <1>1, <1>2, Induction
  <1> QED BY <1>3 DEF T

\* Each step takes the next piece.
LEMMA IntoStepsFollow ==
  ASSUME NEW q, NEW g, NEW m \in Nat, IntoSteps(q, g, m)
  PROVE  /\ g[1 .. 0] = Home
         /\ \A k \in Nat : k < m => g[1 .. k + 1] = Into(g[1 .. k], q[k + 1])
  <1>1. g[1 .. 0] = Home
    <2>1. 1 .. 0 = {} /\ {} \in SUBSET (1 .. m)
      OBVIOUS
    <2>2. g[{}] = Home
      BY <2>1 DEF IntoSteps
    <2> QED BY <2>1, <2>2
  <1>2. ASSUME NEW k \in Nat, k < m PROVE g[1 .. k + 1] = Into(g[1 .. k], q[k + 1])
    <2> DEFINE s == 1 .. k + 1
    <2>1. s \in SUBSET (1 .. m) /\ s # {} /\ s \ {k + 1} = 1 .. k
      BY <1>2
    <2>2. Max(s) = k + 1
      <3>1. k + 1 \in s /\ \A y \in s : y \in Int /\ k + 1 >= y
        OBVIOUS
      <3>2. \A x \in s : (\A y \in s : x >= y) => x = k + 1
        BY <3>1
      <3> HIDE DEF s
      <3> QED BY <3>1, <3>2 DEF Max
    <2> HIDE DEF s
    <2>3. g[s] = Into(g[s \ {Max(s)}], q[Max(s)])
      BY <2>1 DEF IntoSteps
    <2>4. g[s] = Into(g[1 .. k], q[k + 1])
      BY <2>1, <2>2, <2>3
    <2> QED BY <2>4 DEF s
  <1> QED BY <1>1, <1>2

\* The fold is the last of the steps.
LEMMA PlacedIs ==
  ASSUME NEW S, NEW q \in Seq(S)
  PROVE  \E g : IntoSteps(q, g, Len(q)) /\ Placed(q) = g[1 .. Len(q)]
  <1> DEFINE g == CHOOSE f : IntoSteps(q, f, Len(q))
  <1>1. DOMAIN q = 1 .. Len(q) /\ Len(q) \in Nat
    BY LenProperties
  <1>2. Placed(q) = (CHOOSE f : IntoSteps(q, f, Len(q)))[1 .. Len(q)]
    BY <1>1 DEF Placed, FoldLeft, MapThenFoldSet, IntoSteps
  <1>3. IntoSteps(q, g, Len(q))
    BY <1>1, IntoStepsExist, Zenon
  <1>4. Placed(q) = g[1 .. Len(q)]
    BY <1>2
  <1> HIDE DEF g
  <1> QED BY <1>3, <1>4

\* One more piece is followed behind the others.
LEMMA PlacedNext ==
  ASSUME NEW S, NEW q \in Seq(S), NEW x \in S
  PROVE  Placed(Append(q, x)) = Into(Placed(q), x)
  <1> DEFINE r == Append(q, x)
  <1>1. r \in Seq(S) /\ Len(r) = Len(q) + 1 /\ r[Len(q) + 1] = x /\ \A k \in 1 .. Len(q) : r[k] = q[k]
    BY AppendProperties
  <1>2. Len(q) \in Nat
    BY LenProperties
  <1> HIDE DEF r
  <1>3. PICK g : IntoSteps(q, g, Len(q)) /\ Placed(q) = g[1 .. Len(q)]
    BY PlacedIs
  <1>4. PICK h : IntoSteps(r, h, Len(q) + 1) /\ Placed(r) = h[1 .. Len(q) + 1]
    BY <1>1, PlacedIs
  <1>5. g[1 .. Len(q)] = h[1 .. Len(q)]
    <2> DEFINE T == {k \in Nat : k <= Len(q) => g[1 .. k] = h[1 .. k]}
    <2>1. 0 \in T
      <3>1. g[1 .. 0] = Home
        BY <1>2, <1>3, IntoStepsFollow
      <3>2. Len(q) + 1 \in Nat
        BY <1>2
      <3>3. h[1 .. 0] = Home
        BY <1>4, <3>2, IntoStepsFollow
      <3> QED BY <3>1, <3>3
    <2>2. ASSUME NEW k \in Nat, k \in T PROVE k + 1 \in T
      <3> SUFFICES ASSUME k + 1 <= Len(q) PROVE g[1 .. k + 1] = h[1 .. k + 1]
        OBVIOUS
      <3>1. k < Len(q) /\ k < Len(q) + 1 /\ k + 1 \in 1 .. Len(q) /\ Len(q) + 1 \in Nat
        BY <1>2
      <3>2. g[1 .. k] = h[1 .. k] /\ q[k + 1] = r[k + 1]
        BY <1>1, <1>2, <2>2, <3>1
      <3>3. g[1 .. k + 1] = Into(g[1 .. k], q[k + 1])
        BY <1>2, <1>3, <3>1, IntoStepsFollow
      <3>4. h[1 .. k + 1] = Into(h[1 .. k], r[k + 1])
        BY <1>4, <3>1, IntoStepsFollow
      <3> QED BY <3>2, <3>3, <3>4
    <2> HIDE DEF T
    <2>3. Len(q) \in T
      BY <1>2, <2>1, <2>2, Induction
    <2> QED BY <1>2, <2>3 DEF T
  <1>6. h[1 .. Len(q) + 1] = Into(h[1 .. Len(q)], r[Len(q) + 1])
    <2>1. Len(q) + 1 \in Nat /\ Len(q) < Len(q) + 1
      BY <1>2
    <2> QED BY <1>2, <1>4, <2>1, IntoStepsFollow
  <1>7. Placed(r) = Into(Placed(q), x)
    BY <1>1, <1>3, <1>4, <1>5, <1>6
  <1> QED BY <1>7 DEF r

\* No pieces lead away.
LEMMA PlacedNone == Placed(<<>>) = Home
  <1>1. <<>> \in Seq({}) /\ Len(<<>>) = 0
    BY EmptySeq
  <1>2. PICK g : IntoSteps(<<>>, g, 0) /\ Placed(<<>>) = g[1 .. 0]
    BY <1>1, PlacedIs
  <1> QED BY <1>2, IntoStepsFollow
--------------------------------------------------------------------------------
(* The types *)

\* The constant texts.
LEMMA Constants ==
  /\ <<>> \in Text /\ Root \in Text /\ <<Dot>> \in Text /\ DotDot \in Text
  /\ IndexHtml \in Text /\ IndexHtm \in Text
  /\ Get \in Text /\ Http \in Text /\ <<Space>> \in Text /\ <<58, Space>> \in Text
  /\ <<Return, NewLine>> \in Text
  <1>1. <<>> \in Text
    BY EmptySeq DEF Text
  <1>2. /\ Root \in Text /\ <<Dot>> \in Text /\ DotDot \in Text
        /\ <<Space>> \in Text /\ <<58, Space>> \in Text /\ <<Return, NewLine>> \in Text
    BY DEF Root, Slash, Dot, DotDot, Space, Return, NewLine, Text
  <1>3. IndexHtml \in Text /\ IndexHtm \in Text
    BY DEF IndexHtml, IndexHtm, Text
  <1>4. Get \in Text /\ Http \in Text
    BY DEF Get, Http, Text
  <1> QED BY <1>1, <1>2, <1>3, <1>4

\* Parts that are joined are a text.
LEMMA JoinTyped == \A s \in Seq(Text) : Join(s) \in Text
  <1> DEFINE T == {s \in Seq(Text) : Join(s) \in Text}
  <1>1. <<>> \in T
    BY JoinNone, Constants, EmptySeq
  <1>2. ASSUME NEW s \in Seq(Text), NEW x \in Text, s \in T PROVE Append(s, x) \in T
    <2>1. Append(s, x) \in Seq(Text)
      BY AppendProperties
    <2>2. Join(Append(s, x)) = Join(s) \o Root \o x
      BY JoinNext
    <2>3. Join(s) \in Text /\ Root \in Text
      BY <1>2, Constants
    <2>4. Join(s) \o Root \in Text
      BY <2>3, Joined
    <2>5. Join(s) \o Root \o x \in Text
      BY <2>4, Joined
    <2> QED BY <2>1, <2>2, <2>5
  <1> HIDE DEF T
  <1>3. \A s \in Seq(Text) : s \in T
    BY <1>1, <1>2, AppendInduction
  <1> QED BY <1>3 DEF T

\* Names are texts.
LEMMA NamedTexts == \A s \in Seq(Name) : s \in Seq(Text)
  <1>1. Name \subseteq Text
    BY ThreeKinds
  <1> QED BY <1>1, SeqMonotonic

\* What a path is resolved to.
LEMMA ResolvedTyped ==
  ASSUME NEW path \in Text
  PROVE  /\ ResolvedParts(path).parts \in Seq(Name)
         /\ Resolve(path).path \in Text
  <1> DEFINE q == Pieces(path)
             k == Ordered(Kept(q), <)
  <1>1. q \in Seq(Part)
    BY PiecesAreParts
  <1>2. ResolvedParts(path).parts = Picked(q, k) /\ Ascends(k, Kept(q))
    BY ResolvedPartsAre
  <1> HIDE DEF q, k
  <1>3. k \in Seq(Kept(q)) /\ Len(k) \in Nat
    BY <1>2, LenProperties DEF Ascends
  <1>4. \A m \in 1 .. Len(k) : q[k[m]] \in Name
    <2> TAKE m \in 1 .. Len(k)
    <2>1. k[m] \in Kept(q)
      BY <1>3, ElementOfSeq
    <2>2. k[m] \in 1 .. Len(q) /\ IsName(q[k[m]])
      BY <2>1 DEF Kept
    <2>3. q[k[m]] \in Part
      BY <1>1, <2>2, ElementOfSeq
    <2> QED BY <2>2, <2>3 DEF Name
  <1>5. Picked(q, k) \in Seq(Name)
    BY <1>3, <1>4 DEF Picked
  <1>6. ResolvedParts(path).parts \in Seq(Name)
    BY <1>2, <1>5
  <1>7. Resolve(path).path \in Text
    <2>1. PathExplode(path).parts \in Seq(Name) /\ Resolve(path).path = <<Dot>> \o Join(PathExplode(path).parts)
      BY ResolvedOnce DEF Place
    <2>2. Join(PathExplode(path).parts) \in Text
      BY <2>1, NamedTexts, JoinTyped
    <2> QED BY <2>1, <2>2, Constants, Joined
  <1> QED BY <1>6, <1>7

\* A name in a folder, and what an entry leads to.
LEMMA TargetTyped ==
  ASSUME NEW path \in Text, NEW name \in Text
  PROVE  /\ FullPath(path, name) \in Text /\ Above(path) \in Text
         /\ Target(path, name) \in Text
  <1>1. FullPath(path, name) \in Text
    <2>1. path \o <<>> \in Text /\ path \o Root \in Text
      BY Constants, Joined
    <2>2. path \o <<>> \o name \in Text /\ path \o Root \o name \in Text
      BY <2>1, Joined
    <2>3. FullPath(path, name) \in {path \o <<>> \o name, path \o Root \o name}
      BY DEF FullPath
    <2> QED BY <2>2, <2>3
  <1>2. Above(path) \in Text
    <2>1. Len(path) \in Nat /\ \A i \in 1 .. Len(path) : path[i] \in 0 .. 255
      BY Characters
    <2>2. Last(Pieces(path)) \in Part
      <3>1. Pieces(path) \in Seq(Part) /\ Len(Pieces(path)) \in 1 .. Len(Pieces(path))
        BY PiecesAreParts
      <3> QED BY <3>1, ElementOfSeq DEF Last
    <2>3. PICK k \in Nat : k = Len(Last(Pieces(path)))
      BY <2>2, Characters DEF Part
    <2>4. Len(path) - k - 1 \in Int /\ 1 \in Int /\ \A i \in 1 .. Len(path) - k - 1 : path[i] \in 0 .. 255
      BY <2>1
    <2>5. SubSeq(path, 1, Len(path) - k - 1) \in Text
      BY <2>4, SubSeqProperties DEF Text
    <2>6. Above(path) = SubSeq(path, 1, Len(path) - k - 1)
      BY <2>3 DEF Above
    <2> QED BY <2>5, <2>6
  <1>3. Target(path, name) \in {FullPath(path, name), path, Above(path)}
    BY DEF Target
  <1> QED BY <1>1, <1>2, <1>3

\* What the header fields of a browser consist of.
LEMMA LinesAreTexts ==
  /\ Len(FieldLines) \in Nat /\ DOMAIN FieldLines = 1 .. Len(FieldLines)
  /\ \A i \in DOMAIN FieldLines :
       /\ FieldLines[i].field \in Text /\ FieldLines[i].value \in Text
       /\ FieldLines[i].field # <<>> /\ Len(FieldLines[i].field) \in Nat \ {0}
       /\ \A k \in 1 .. Len(FieldLines[i].field) : FieldLines[i].field[k] \notin Blank
       /\ \A k \in 1 .. Len(FieldLines[i].value) : FieldLines[i].value[k] # NewLine
  <1> DEFINE V == (0 .. 255) \ {NewLine}
             C == (0 .. 255) \ Blank
  <1>1. FieldLines \in Seq([field : Word, value : Seq(V)])
    BY AnsweringAssumption
  <1>2. Len(FieldLines) \in Nat /\ DOMAIN FieldLines = 1 .. Len(FieldLines)
    BY <1>1, LenProperties
  <1>3. ASSUME NEW i \in DOMAIN FieldLines
        PROVE  FieldLines[i].field \in Word /\ FieldLines[i].value \in Seq(V)
    <2>1. FieldLines[i] \in [field : Word, value : Seq(V)]
      BY <1>1, <1>2, ElementOfSeq
    <2> HIDE DEF V
    <2> QED BY <2>1
  <1>4. V \in SUBSET (0 .. 255) /\ C \in SUBSET (0 .. 255)
    OBVIOUS
  <1>5. ASSUME NEW f \in Seq(C), f # <<>>
        PROVE  f \in Text /\ Len(f) \in Nat \ {0} /\ \A k \in 1 .. Len(f) : f[k] \notin Blank
    <2>1. f \in Text
      BY <1>4, <1>5, SeqMonotonic DEF Text
    <2>2. Len(f) \in Nat \ {0}
      BY <1>5, EmptySeq, LenProperties
    <2>3. \A k \in 1 .. Len(f) : f[k] \in C
      BY <1>5, ElementOfSeq
    <2> QED BY <2>1, <2>2, <2>3
  <1>6. ASSUME NEW v \in Seq(V) PROVE v \in Text /\ \A k \in 1 .. Len(v) : v[k] # NewLine
    <2>1. v \in Text
      BY <1>4, SeqMonotonic DEF Text
    <2>2. \A k \in 1 .. Len(v) : v[k] \in V
      BY ElementOfSeq
    <2> QED BY <2>1, <2>2
  <1>7. ASSUME NEW i \in DOMAIN FieldLines PROVE FieldLines[i].field \in Seq(C) /\ FieldLines[i].field # <<>>
    BY <1>3 DEF Word
  <1> HIDE DEF V, C
  <1> QED BY <1>2, <1>3, <1>5, <1>6, <1>7


\* What a browser sends.
LEMMA RequestTyped ==
  ASSUME NEW path \in Text
  PROVE  /\ FirstLine(path) \in Text /\ RequestText(path) \in Text
         /\ \E fields \in Text : RequestText(path) = FirstLine(path) \o fields \o <<Return, NewLine>>
  <1>1. ASSUME NEW i \in DOMAIN FieldLines PROVE FieldLine(FieldLines[i]) \in Text
    <2>1. FieldLines[i].field \in Text /\ FieldLines[i].value \in Text
      BY <1>1, LinesAreTexts
    <2>2. PICK f \in Text, v \in Text : f = FieldLines[i].field /\ v = FieldLines[i].value
      BY <2>1
    <2>3. f \o <<58, Space>> \in Text
      BY Constants, Joined
    <2>4. f \o <<58, Space>> \o v \in Text
      BY <2>3, Joined
    <2>5. f \o <<58, Space>> \o v \o <<Return, NewLine>> \in Text
      BY <2>4, Constants, Joined
    <2> QED BY <2>2, <2>5 DEF FieldLine
  <1> DEFINE lines == [i \in DOMAIN FieldLines |-> FieldLine(FieldLines[i])]
  <1>2. lines \in Seq(Seq(0 .. 255))
    <2>1. Len(FieldLines) \in Nat /\ DOMAIN FieldLines = 1 .. Len(FieldLines)
      BY AnsweringAssumption, LenProperties
    <2> QED BY <1>1, <2>1 DEF Text
  <1>3. FlattenSeq(lines) \in Text
    BY <1>2, FlattenTyped DEF Text
  <1> HIDE DEF lines
  <1>4. FirstLine(path) \in Text
    <2>1. Get \o <<Space>> \in Text
      BY Constants, Joined
    <2>2. Get \o <<Space>> \o path \in Text
      BY <2>1, Joined
    <2>3. Get \o <<Space>> \o path \o <<Space>> \in Text
      BY <2>2, Constants, Joined
    <2>4. Get \o <<Space>> \o path \o <<Space>> \o Http \in Text
      BY <2>3, Constants, Joined
    <2>5. Get \o <<Space>> \o path \o <<Space>> \o Http \o <<Return, NewLine>> \in Text
      BY <2>4, Constants, Joined
    <2> QED BY <2>5 DEF FirstLine
  <1>5. FirstLine(path) \o FlattenSeq(lines) \in Text
    BY <1>3, <1>4, Joined
  <1>6. FirstLine(path) \o FlattenSeq(lines) \o <<Return, NewLine>> \in Text
    BY <1>5, Constants, Joined
  <1>7. RequestText(path) = FirstLine(path) \o FlattenSeq(lines) \o <<Return, NewLine>>
    BY DEF RequestText, lines
  <1> QED BY <1>3, <1>4, <1>6, <1>7

\* What a path leads to.
LEMMA FoundTyped ==
  ASSUME NEW path \in Text
  PROVE  /\ GenerateFolderIndex(path).what \in {"none", "file", "index"}
         /\ GenerateFolderIndex(path).path \in Text
         /\ GenerateFolderIndex(path).what # "file" => GenerateFolderIndex(path).path = path
         /\ GenerateFolderIndex(path).what = "index" => IsDirectory(path)
         /\ GenerateFolderIndex(path).what = "none" <=> ~IsDirectory(path) /\ ~Openable(path)
  <1> DEFINE html == path \o Root \o IndexHtml
             htm == path \o Root \o IndexHtm
             first == Openable(FullPath(path, IndexHtml))
             second == Openable(FullPath(path, IndexHtm))
  <1>1. html \in Text /\ htm \in Text
    <2>1. path \o Root \in Text
      BY Constants, Joined
    <2> QED BY <2>1, Constants, Joined
  <1>2. GenerateFolderIndex(path) =
          CASE ~IsDirectory(path) /\ ~Openable(path) -> Found("none", path)
            [] ~IsDirectory(path) /\ Openable(path)  -> Found("file", path)
            [] IsDirectory(path) /\ first            -> Found("file", html)
            [] IsDirectory(path) /\ ~first /\ second -> Found("file", htm)
            [] OTHER                                 -> Found("index", path)
    BY DEF GenerateFolderIndex
  <1> HIDE DEF html, htm, first, second
  <1>3. CASE ~IsDirectory(path) /\ ~Openable(path)
    <2>1. GenerateFolderIndex(path) = Found("none", path)
      BY <1>2, <1>3
    <2> QED BY <1>3, <2>1 DEF Found
  <1>4. CASE ~IsDirectory(path) /\ Openable(path)
    <2>1. GenerateFolderIndex(path) = Found("file", path)
      BY <1>2, <1>4
    <2> QED BY <1>4, <2>1 DEF Found
  <1>5. CASE IsDirectory(path) /\ first
    <2>1. GenerateFolderIndex(path) = Found("file", html)
      BY <1>2, <1>5
    <2> QED BY <1>1, <1>5, <2>1 DEF Found
  <1>6. CASE IsDirectory(path) /\ ~first /\ second
    <2>1. GenerateFolderIndex(path) = Found("file", htm)
      BY <1>2, <1>6
    <2> QED BY <1>1, <1>6, <2>1 DEF Found
  <1>7. CASE IsDirectory(path) /\ ~first /\ ~second
    <2>1. GenerateFolderIndex(path) = Found("index", path)
      BY <1>2, <1>7
    <2> QED BY <1>7, <2>1 DEF Found
  <1> QED BY <1>3, <1>4, <1>5, <1>6, <1>7

\* The size of a file fits into an int, and can be told.
LEMMA SizeTyped ==
  /\ \A path : FileSize(path) \in -IntLimit .. IntLimit - 1 /\ FileSize(path) \in Int
  /\ \A place : SizeAt(place) \in Int
  /\ \A n \in Int : ConvertSizeToFriendly(n) \in SizeTold
  <1>1. ASSUME NEW place PROVE SizeAt(place) \in -IntLimit .. IntLimit - 1 /\ SizeAt(place) \in Int
    <2>1. PICK L \in Nat \ {0} : L = IntLimit
      BY IndexingAssumption
    <2>2. CASE place \in DOMAIN Files /\ Files[place].readable
      <3>1. PICK n \in Nat : n = Files[place].size
        BY <2>2, IndexingAssumption
      <3>2. SizeAt(place) = ((n + L) % (2 * L)) - L
        BY <2>1, <2>2, <3>1 DEF SizeAt, ToInt
      <3>3. 2 * L \in Nat \ {0} /\ n + L \in Int
        OBVIOUS
      <3>4. (n + L) % (2 * L) \in 0 .. 2 * L - 1
        <4> DEFINE M == 2 * L
                   N == n + L
        <4>1. M \in Nat \ {0} /\ N \in Int
          BY <3>3
        <4> HIDE DEF M, N
        <4>2. N % M \in 0 .. M - 1
          BY <4>1
        <4> QED BY <4>2 DEF M, N
      <3>5. PICK r \in 0 .. 2 * L - 1 : r = (n + L) % (2 * L)
        BY <3>4
      <3>6. r - L \in -L .. L - 1 /\ r - L \in Int
        OBVIOUS
      <3> QED BY <2>1, <3>2, <3>5, <3>6
    <2>3. CASE ~ (place \in DOMAIN Files /\ Files[place].readable)
      <3>1. SizeAt(place) = -1
        BY <2>3 DEF SizeAt
      <3>2. -1 \in -L .. L - 1 /\ -1 \in Int
        OBVIOUS
      <3> QED BY <2>1, <3>1, <3>2
    <2> QED BY <2>2, <2>3
  <1>2. ASSUME NEW n \in Int PROVE ConvertSizeToFriendly(n) \in SizeTold
    <2>1. Kilo \in Nat \ {0} /\ Mega \in Nat \ {0} /\ Giga \in Nat \ {0}
      <3>1. Kilo \in Nat \ {0}
        BY IndexingAssumption
      <3>2. Mega \in Nat \ {0}
        BY <3>1 DEF Mega
      <3>3. Giga \in Nat \ {0}
        BY <3>1, <3>2 DEF Giga
      <3> QED BY <3>1, <3>2, <3>3
    <2>2. \A m \in Nat \ {0} : n > m => n \div m \in Nat
      OBVIOUS
    <2>3. Mega >= Kilo /\ Giga >= Mega
      <3>1. \A x, y \in Nat \ {0} : x * y >= x
        OBVIOUS
      <3> QED BY <2>1, <3>1 DEF Mega, Giga
    <2> DEFINE M == Mega
               G == Giga
               K == Kilo
    <2>10. K \in Nat \ {0} /\ M \in Nat \ {0} /\ G \in Nat \ {0} /\ M >= K /\ G >= M
      BY <2>1, <2>3
    <2>11. ConvertSizeToFriendly(n) =
             CASE n = -1            -> <<0, "Cannot Access">>
               [] n > G             -> <<n \div G, "GB">>
               [] n > M /\ n <= G   -> <<n \div M, "MB">>
               [] n > K /\ n <= M   -> <<n \div K, "KB">>
               [] OTHER             -> <<1, "< KB">>
      BY DEF ConvertSizeToFriendly
    <2>12. /\ n > G => n \div G \in Nat
           /\ n > M => n \div M \in Nat
           /\ n > K => n \div K \in Nat
      BY <2>1, <2>2
    <2> HIDE DEF M, G, K
    <2>4. CASE n = -1
      <3>1. <<0, "Cannot Access">> \in SizeTold
        BY DEF SizeTold
      <3>2. ~ (n > G) /\ ~ (n > M) /\ ~ (n > K)
        BY <2>4, <2>10
      <3>3. ConvertSizeToFriendly(n) = <<0, "Cannot Access">>
        BY <2>4, <2>11, <3>2, Zenon
      <3> QED BY <3>1, <3>3, Zenon
    <2>5. CASE n > G
      <3>1. <<n \div G, "GB">> \in SizeTold
        BY <2>5, <2>12 DEF SizeTold
      <3>2. n # -1 /\ ~ (n <= G) /\ ~ (n <= M)
        BY <2>5, <2>10
      <3>3. ConvertSizeToFriendly(n) = <<n \div G, "GB">>
        BY <2>5, <2>11, <3>2, Zenon
      <3> QED BY <3>1, <3>3, Zenon
    <2>6. CASE n > M /\ n <= G
      <3>1. <<n \div M, "MB">> \in SizeTold
        BY <2>6, <2>12 DEF SizeTold
      <3>2. n # -1 /\ ~ (n > G) /\ ~ (n <= M)
        BY <2>6, <2>10
      <3>3. ConvertSizeToFriendly(n) = <<n \div M, "MB">>
        BY <2>6, <2>11, <3>2, Zenon
      <3> QED BY <3>1, <3>3, Zenon
    <2>7. CASE n > K /\ n <= M
      <3>1. <<n \div K, "KB">> \in SizeTold
        BY <2>7, <2>12 DEF SizeTold
      <3>2. n # -1 /\ ~ (n > G) /\ ~ (n > M)
        BY <2>7, <2>10
      <3>3. ConvertSizeToFriendly(n) = <<n \div K, "KB">>
        BY <2>7, <2>11, <3>2, Zenon
      <3> QED BY <3>1, <3>3, Zenon
    <2>8. CASE n # -1 /\ ~ (n > K)
      <3>1. <<1, "< KB">> \in SizeTold
        BY DEF SizeTold
      <3>2. ~ (n > G) /\ ~ (n > M)
        BY <2>8, <2>10
      <3>3. ConvertSizeToFriendly(n) = <<1, "< KB">>
        BY <2>8, <2>11, <3>2, Zenon
      <3> QED BY <3>1, <3>3, Zenon
    <2>9. n = -1 \/ n > G \/ (n > M /\ n <= G) \/ (n > K /\ n <= M) \/ (n # -1 /\ ~ (n > K))
      BY <2>10
    <2> QED BY <2>4, <2>5, <2>6, <2>7, <2>8, <2>9
  <1> QED BY <1>1, <1>2 DEF FileSize

--------------------------------------------------------------------------------
(* What the pieces of a text consist of *)

\* A stretch of a text consists of what the text consists of.
LEMMA StretchWithin ==
  ASSUME NEW C \in SUBSET (0 .. 255), NEW t \in Seq(C), NEW i \in 1 .. Len(t) + 1,
         NEW j \in 0 .. Len(t), i <= j + 1
  PROVE  SubSeq(t, i, j) \in Seq(C)
  <1>0. Len(t) \in Nat /\ \A k \in 1 .. Len(t) : t[k] \in C
    BY ElementOfSeq, LenProperties
  <1>1. i \in Int /\ j \in Int /\ \A k \in i .. j : t[k] \in C
    BY <1>0
  <1> QED BY <1>1, SubSeqProperties

\* And so do its pieces.
LEMMA PiecesWithin ==
  ASSUME NEW C \in SUBSET (0 .. 255), NEW t \in Seq(C)
  PROVE  t \in Text /\ \A k \in 1 .. Len(Pieces(t)) : Pieces(t)[k] \in Seq(C)
  <1>0. t \in Text
    BY SeqMonotonic DEF Text
  <1>1. PICK cut : Ascends(cut, Separators(t))
    BY <1>0, SeparatorsListed
  <1>2. PICK n \in Nat : n = Len(cut)
    BY <1>0, <1>1, Neighbours
  <1>3. n >= 2 /\ n - 1 \in Nat
    BY <1>0, <1>1, <1>2, Neighbours
  <1>4. Pieces(t) = [k \in 1 .. n - 1 |-> SubSeq(t, cut[k] + 1, cut[k + 1] - 1)]
    BY <1>0, <1>1, <1>2, PiecesBetween
  <1>5. Len(Pieces(t)) = n - 1
    BY <1>3, <1>4
  <1>6. ASSUME NEW k \in 1 .. n - 1 PROVE Pieces(t)[k] \in Seq(C)
    <2>1. k \in 1 .. n /\ k + 1 \in 1 .. n
      BY <1>3
    <2>2. PICK m \in Nat : m = Len(t)
      BY <1>0, Characters
    <2>3. /\ cut[k] \in 0 .. Len(t) + 1 /\ cut[k + 1] \in 0 .. Len(t) + 1
          /\ cut[k] < cut[k + 1]
      BY <1>0, <1>1, <1>2, <2>1, Neighbours
    <2>4. PICK x \in 0 .. m + 1 : x = cut[k]
      BY <2>2, <2>3
    <2>5. PICK y \in 0 .. m + 1 : y = cut[k + 1]
      BY <2>2, <2>3
    <2>6. x + 1 \in 1 .. m + 1 /\ y - 1 \in 0 .. m /\ x + 1 <= (y - 1) + 1
      BY <2>3, <2>4, <2>5
    <2>7. SubSeq(t, x + 1, y - 1) \in Seq(C)
      BY <2>2, <2>6, StretchWithin
    <2> QED BY <1>4, <2>4, <2>5, <2>7
  <1> QED BY <1>0, <1>5, <1>6

\* Parts that are joined consist of what they consist of, and of slashes.
LEMMA JoinWithin ==
  ASSUME NEW C \in SUBSET (0 .. 255), Slash \in C
  PROVE  \A s \in Seq(Seq(C)) : Join(s) \in Seq(C)
  <1> DEFINE T == {s \in Seq(Seq(C)) : Join(s) \in Seq(C)}
  <1>0. Root \in Seq(C) /\ <<>> \in Seq(C) /\ <<>> \in Seq(Seq(C))
    BY EmptySeq DEF Root
  <1>1. <<>> \in T
    BY <1>0, JoinNone
  <1>2. ASSUME NEW s \in Seq(Seq(C)), NEW x \in Seq(C), s \in T PROVE Append(s, x) \in T
    <2>1. Append(s, x) \in Seq(Seq(C))
      BY AppendProperties
    <2>2. Join(Append(s, x)) = Join(s) \o Root \o x
      BY JoinNext
    <2>3. Join(s) \in Seq(C)
      BY <1>2
    <2>4. Join(s) \o Root \in Seq(C)
      BY <1>0, <2>3, ConcatProperties
    <2>5. Join(s) \o Root \o x \in Seq(C)
      BY <2>4, ConcatProperties
    <2> QED BY <2>1, <2>2, <2>5
  <1> HIDE DEF T
  <1>3. \A s \in Seq(Seq(C)) : s \in T
    BY <1>1, <1>2, AppendInduction
  <1> QED BY <1>3 DEF T

\* What a path is resolved to consists of what the path consists of.
LEMMA ResolvedWithin ==
  ASSUME NEW C \in SUBSET (0 .. 255), NEW path \in Seq(C)
  PROVE  /\ ResolvedParts(path).parts \in Seq(Seq(C))
         /\ Slash \in C => Join(ResolvedParts(path).parts) \in Seq(C)
  <1> DEFINE q == Pieces(path)
             k == Ordered(Kept(q), <)
             parts == ResolvedParts(path).parts
  <1>0. path \in Text /\ \A i \in 1 .. Len(q) : q[i] \in Seq(C)
    BY PiecesWithin
  <1>1. parts = Picked(q, k) /\ Ascends(k, Kept(q))
    BY <1>0, ResolvedPartsAre
  <1> HIDE DEF q, k, parts
  <1>2. k \in Seq(Kept(q)) /\ Len(k) \in Nat
    BY <1>1, LenProperties DEF Ascends
  <1>3. \A m \in 1 .. Len(k) : q[k[m]] \in Seq(C)
    <2> TAKE m \in 1 .. Len(k)
    <2>1. k[m] \in Kept(q)
      BY <1>2, ElementOfSeq
    <2> QED BY <1>0, <2>1 DEF Kept
  <1>4. parts \in Seq(Seq(C))
    BY <1>1, <1>2, <1>3 DEF Picked
  <1>5. ASSUME Slash \in C PROVE Join(parts) \in Seq(C)
    BY <1>4, <1>5, JoinWithin
  <1> QED BY <1>4, <1>5 DEF parts

\* What lies above a path consists of what the path consists of.
LEMMA AboveWithin ==
  ASSUME NEW C \in SUBSET (0 .. 255), NEW path \in Seq(C)
  PROVE  Above(path) \in Seq(C)
  <1>1. path \in Text /\ Len(path) \in Nat /\ \A i \in 1 .. Len(path) : path[i] \in C
    BY PiecesWithin, ElementOfSeq, LenProperties
  <1>2. Last(Pieces(path)) \in Part
    <2>1. Pieces(path) \in Seq(Part) /\ Len(Pieces(path)) \in 1 .. Len(Pieces(path))
      BY <1>1, PiecesAreParts
    <2> QED BY <2>1, ElementOfSeq DEF Last
  <1>3. PICK k \in Nat : k = Len(Last(Pieces(path)))
    BY <1>2, Characters DEF Part
  <1>4. Len(path) - k - 1 \in Int /\ 1 \in Int /\ \A i \in 1 .. Len(path) - k - 1 : path[i] \in C
    BY <1>1
  <1>5. SubSeq(path, 1, Len(path) - k - 1) \in Seq(C)
    BY <1>4, SubSeqProperties
  <1>6. Above(path) = SubSeq(path, 1, Len(path) - k - 1)
    BY <1>3 DEF Above
  <1> QED BY <1>5, <1>6

\* A text with a slash has several pieces.
LEMMA SeveralPieces ==
  ASSUME NEW p \in Text, NEW i \in 1 .. Len(p), p[i] = Slash
  PROVE  Len(Pieces(p)) > 1
  <1>1. Len(p) \in Nat /\ DOMAIN p = 1 .. Len(p)
    BY Characters
  <1>2. PICK cut : Ascends(cut, Separators(p))
    BY SeparatorsListed
  <1>3. cut \in Seq(Separators(p)) /\ Len(cut) \in Nat
    BY <1>2, LenProperties DEF Ascends
  <1>4. 0 \in Separators(p) /\ i \in Separators(p) /\ Len(p) + 1 \in Separators(p)
    BY <1>1 DEF Separators
  <1>5. PICK a \in 1 .. Len(cut), b \in 1 .. Len(cut), c \in 1 .. Len(cut) :
          cut[a] = 0 /\ cut[b] = i /\ cut[c] = Len(p) + 1
    BY <1>2, <1>4 DEF Ascends
  <1>6. a # b /\ b # c /\ a # c
    BY <1>1, <1>5
  <1>7. Len(cut) - 1 > 1
    BY <1>3, <1>6
  <1>8. Pieces(p) = [k \in 1 .. Len(cut) - 1 |-> SubSeq(p, cut[k] + 1, cut[k + 1] - 1)]
    BY <1>2, PiecesBetween
  <1>9. Len(Pieces(p)) = Len(cut) - 1
    <2>1. DOMAIN Pieces(p) = 1 .. Len(cut) - 1 /\ Len(cut) - 1 \in Nat
      BY <1>3, <1>7, <1>8
    <2>2. Pieces(p) \in Seq(Part)
      BY PiecesAreParts
    <2>3. Len(Pieces(p)) \in Nat /\ DOMAIN Pieces(p) = 1 .. Len(Pieces(p))
      BY <2>2, LenProperties
    <2> QED BY <2>1, <2>3
  <1> QED BY <1>7, <1>9

\* What a browser walks over consists of what it began with, and a piece that is no dot is
\* the last of it.
LEMMA WalkedTyped ==
  ASSUME NEW S
  PROVE  /\ \A q \in Seq(S) : Walked(q) \in Seq(S)
         /\ \A q \in Seq(S), x \in S :
              x \notin {<<Dot>>, DotDot} => Walked(Append(q, x)) = Append(Walked(q), x)
  <1>1. \A r \in Seq(S), x \in S : /\ Walk(r, x) \in Seq(S)
                                   /\ x \notin {<<Dot>>, DotDot} => Walk(r, x) = Append(r, x)
    <2> TAKE r \in Seq(S), x \in S
    <2>1. CASE x = <<Dot>>
      <3>1. Walk(r, x) = r
        BY <2>1 DEF Walk, DotDot
      <3> QED BY <2>1, <3>1
    <2>2. CASE x = DotDot /\ r = <<>>
      <3>1. Walk(r, x) = r
        BY <2>2 DEF Walk, DotDot
      <3> QED BY <2>2, <3>1
    <2>3. CASE x = DotDot /\ r # <<>>
      <3>1. Walk(r, x) = Front(r)
        BY <2>3 DEF Walk, DotDot
      <3>2. Len(r) > 0
        BY <2>3, EmptySeq, LenProperties
      <3>3. Front(r) \in Seq(S)
        BY <3>2, FrontIs
      <3> QED BY <2>3, <3>1, <3>3
    <2>4. CASE x \notin {<<Dot>>, DotDot}
      <3>1. Walk(r, x) = Append(r, x)
        BY <2>4 DEF Walk
      <3> QED BY <3>1, AppendProperties
    <2> QED BY <2>1, <2>2, <2>3, <2>4
  <1> DEFINE T == {q \in Seq(S) : Walked(q) \in Seq(S)}
  <1>2. <<>> \in T
    BY WalkedNone, EmptySeq
  <1>3. ASSUME NEW q \in Seq(S), NEW x \in S, q \in T PROVE Append(q, x) \in T
    BY <1>1, <1>3, WalkedNext, AppendProperties
  <1> HIDE DEF T
  <1>4. \A q \in Seq(S) : q \in T
    BY <1>2, <1>3, AppendInduction
  <1>5. ASSUME NEW q \in Seq(S), NEW x \in S, x \notin {<<Dot>>, DotDot}
        PROVE  Walked(Append(q, x)) = Append(Walked(q), x)
    <2>1. Walked(Append(q, x)) = Walk(Walked(q), x)
      BY WalkedNext
    <2>2. Walked(q) \in Seq(S)
      BY <1>4 DEF T
    <2> QED BY <1>1, <1>5, <2>1, <2>2
  <1> QED BY <1>4, <1>5 DEF T

\* Parts that are joined are more than nothing when there is one.
LEMMA JoinedMore ==
  ASSUME NEW s \in Seq(Text), s # <<>>
  PROVE  Join(s) # <<>>
  <1>1. PICK q \in Seq(Text), x \in Text : s = Append(q, x)
    BY SequenceEmptyOrAppend
  <1>2. Join(s) = Join(q) \o Root \o x /\ Join(q) \in Text /\ Root \in Text
    BY <1>1, JoinNext, JoinTyped, Constants
  <1>3. Join(q) \o Root \in Text /\ Len(Join(q) \o Root) = Len(Join(q)) + Len(Root)
    BY <1>2, Joined
  <1>4. Len(Join(q) \o Root \o x) = Len(Join(q) \o Root) + Len(x)
    BY <1>3, Joined
  <1>5. Len(Root) = 1 /\ Len(Join(q)) \in Nat /\ Len(x) \in Nat /\ Len(<<>>) = 0
    BY <1>2, Characters DEF Root
  <1>6. Len(Join(s)) > 0
    BY <1>2, <1>3, <1>4, <1>5
  <1> QED BY <1>5, <1>6

\* What a browser asks for consists of what the link consists of, and is something when the
\* link has a slash.
LEMMA NormalizedWithin ==
  ASSUME NEW C \in SUBSET (0 .. 255), Slash \in C, NEW link \in Seq(C)
  PROVE  /\ Normalized(link) \in Seq(C)
         /\ (\E i \in 1 .. Len(link) : link[i] = Slash) => Normalized(link) # <<>>
  <1> DEFINE q == Pieces(link)
             r == Tail(q)
             x == Last(q)
             parts == Walked(r)
             all == IF x \in {<<Dot>>, DotDot} THEN Append(parts, <<>>) ELSE parts
             S == Seq(C)
  <1>0. link \in Text /\ \A i \in 1 .. Len(q) : q[i] \in S
    BY PiecesWithin
  <1>1. q \in Seq(S) /\ Len(q) \in Nat /\ Len(q) >= 1
    <2>1. q \in Seq(Part) /\ Len(q) \in 1 .. Len(q)
      BY <1>0, PiecesAreParts
    <2>2. Len(q) \in Nat /\ q = [i \in 1 .. Len(q) |-> q[i]]
      BY <2>1, LenProperties
    <2> HIDE DEF q, S
    <2> QED BY <1>0, <2>1, <2>2
  <1>2. <<>> \in S /\ S \subseteq Text
    <2>1. <<>> \in Seq(C)
      BY EmptySeq
    <2>2. ASSUME NEW l \in Seq(C) PROVE l \in Text
      BY PiecesWithin
    <2> QED BY <2>1, <2>2
  <1>3. Normalized(link) = Join(all)
    BY DEF Normalized, Walked
  <1> HIDE DEF q, S
  <1>4. r \in Seq(S) /\ x \in S
    <2>1. q # <<>>
      BY <1>1, EmptySeq
    <2> QED BY <1>1, <2>1, HeadTailProperties, ElementOfSeq DEF Last
  <1>5. parts \in Seq(S)
    BY <1>2, <1>4, WalkedTyped
  <1> HIDE DEF parts
  <1>6. all \in Seq(S)
    BY <1>2, <1>5, AppendProperties
  <1>7. Join(all) \in S
    BY <1>6, JoinWithin DEF S
  <1>8. ASSUME NEW i \in 1 .. Len(link), link[i] = Slash PROVE all # <<>>
    <2>1. Len(q) > 1
      BY <1>0, <1>8, SeveralPieces DEF q
    <2>2. CASE x \in {<<Dot>>, DotDot}
      <3>1. all = Append(parts, <<>>)
        BY <2>2
      <3>2. Len(Append(parts, <<>>)) = Len(parts) + 1 /\ Len(parts) \in Nat
        BY <1>2, <1>5, AppendProperties, LenProperties
      <3> HIDE DEF all
      <3>3. Len(all) > 0 /\ Len(<<>>) = 0
        BY <3>1, <3>2
      <3> QED BY <3>3
    <2>3. CASE x \notin {<<Dot>>, DotDot}
      <3>1. Len(r) = Len(q) - 1 /\ \A k \in 1 .. Len(r) : r[k] = q[k + 1]
        <4>1. q # <<>>
          BY <1>1, EmptySeq
        <4> QED BY <1>1, <4>1, HeadTailProperties
      <3>2. Len(r) > 0 /\ Len(r) \in Nat /\ r[Len(r)] = x
        BY <1>1, <2>1, <3>1 DEF Last
      <3> HIDE DEF r, x
      <3>3. r # <<>>
        BY <3>2, EmptySeq
      <3>4. PICK s \in Seq(S), y \in S : r = Append(s, y)
        BY <1>4, <3>3, SequenceEmptyOrAppend
      <3>5. Len(r) = Len(s) + 1 /\ r[Len(s) + 1] = y /\ Len(s) \in Nat
        BY <3>4, AppendProperties, LenProperties
      <3>6. y = x
        BY <3>2, <3>5
      <3>7. Walked(r) = Append(Walked(s), y) /\ Walked(s) \in Seq(S)
        BY <1>2, <2>3, <3>4, <3>6, WalkedTyped
      <3>8. Len(Walked(r)) = Len(Walked(s)) + 1 /\ Len(Walked(s)) \in Nat
        BY <3>7, AppendProperties, LenProperties
      <3>9. Len(parts) > 0 /\ Len(<<>>) = 0
        BY <3>8 DEF parts
      <3> QED BY <2>3, <3>9
    <2> QED BY <2>2, <2>3
  <1> HIDE DEF all
  <1>9. ASSUME NEW i \in 1 .. Len(link), link[i] = Slash PROVE Join(all) # <<>>
    <2>1. all # <<>>
      BY <1>9, <1>8
    <2>2. all \in Seq(Text)
      BY <1>2, <1>6, SeqMonotonic
    <2> QED BY <2>1, <2>2, JoinedMore
  <1> QED BY <1>3, <1>7, <1>9 DEF S

\* So does the whole of a link, which has a slash.
LEMMA AbsoluteWithin ==
  ASSUME NEW C \in SUBSET (0 .. 255), Slash \in C, NEW asked \in Seq(C), NEW link \in Seq(C),
         link # <<>>
  PROVE  /\ Absolute(asked, link) \in Seq(C)
         /\ \E i \in 1 .. Len(Absolute(asked, link)) : Absolute(asked, link)[i] = Slash
  <1>1. CASE link[1] = Slash
    <2>1. Absolute(asked, link) = link
      BY <1>1 DEF Absolute
    <2>2. Len(link) \in Nat /\ Len(link) # 0
      BY EmptySeq, LenProperties
    <2>3. 1 \in 1 .. Len(link)
      BY <2>2
    <2> QED BY <1>1, <2>1, <2>3
  <1>2. CASE link[1] # Slash
    <2> DEFINE a == Above(asked)
               b == a \o Root
    <2>1. Absolute(asked, link) = b \o link
      BY <1>2 DEF Absolute
    <2>2. a \in Seq(C) /\ Root \in Seq(C) /\ Len(Root) = 1 /\ Root[1] = Slash
      BY AboveWithin DEF Root
    <2> HIDE DEF a
    <2>a. a \in Text /\ Root \in Text /\ link \in Text
      BY <2>2, PiecesWithin, Constants
    <2>3. /\ b \in Text /\ Len(b) = Len(a) + Len(Root) /\ Len(a) \in Nat
          /\ \A i \in 1 .. Len(Root) : b[Len(a) + i] = Root[i]
      BY <2>a, Joined
    <2>4. Len(b) = Len(a) + 1 /\ b[Len(b)] = Slash
      BY <2>2, <2>3
    <2>b. b \in Seq(C)
      BY <2>2, ConcatProperties
    <2> HIDE DEF b
    <2>5. /\ Len(b \o link) = Len(b) + Len(link) /\ Len(link) \in Nat /\ Len(b) \in Nat
          /\ \A i \in 1 .. Len(b) : (b \o link)[i] = b[i]
      BY <2>a, <2>3, Joined
    <2>c. b \o link \in Seq(C)
      BY <2>b, ConcatProperties
    <2>6. Len(b) \in 1 .. Len(b) /\ Len(b) \in 1 .. Len(b \o link)
      BY <2>3, <2>4, <2>5
    <2>7. (b \o link)[Len(b)] = Slash
      BY <2>4, <2>5, <2>6
    <2> QED BY <2>1, <2>c, <2>6, <2>7
  <1> QED BY <1>1, <1>2

\* What is read is a word, or what was there before.
LEMMA ReadWord ==
  ASSUME NEW text \in Text, NEW i \in Nat \ {0}, NEW word
  PROVE  Read(text, i, word) \in Word \cup {word}
  <1> DEFINE s == WordStart(text, i)
             e == WordEnd(text, i)
             C == (0 .. 255) \ Blank
  <1>0. Len(text) \in Nat /\ \A j \in 1 .. Len(text) : text[j] \in 0 .. 255
    BY Characters
  <1>1. /\ s \in Nat \ {0} /\ e \in Nat \ {0}
        /\ s <= Len(text) => s < e /\ \A j \in s .. e - 1 : text[j] \notin Blank
        /\ e <= Len(text) + 1
    BY WordIs
  <1> HIDE DEF s, e
  <1>2. CASE s <= Len(text)
    <2>1. s \in Int /\ e - 1 \in Int /\ \A j \in s .. e - 1 : text[j] \in C
      BY <1>0, <1>1, <1>2
    <2>2. /\ SubSeq(text, s, e - 1) \in Seq(C)
          /\ Len(SubSeq(text, s, e - 1)) = IF s <= e - 1 THEN e - 1 - s + 1 ELSE 0
      BY <2>1, SubSeqProperties
    <2>3. Len(SubSeq(text, s, e - 1)) > 0 /\ Len(<<>>) = 0
      BY <1>1, <1>2, <2>2
    <2> DEFINE word2 == SubSeq(text, s, e - 1)
    <2> HIDE DEF word2
    <2>4. word2 # <<>>
      <3>1. Len(word2) > 0
        BY <2>3 DEF word2
      <3> QED BY <2>3, <3>1
    <2>5. Read(text, i, word) = SubSeq(text, s, e - 1)
      BY <1>0, <1>1, <1>2 DEF Read, s, e
    <2> QED BY <2>2, <2>4, <2>5 DEF Word, word2
  <1>3. CASE s > Len(text)
    BY <1>3 DEF Read, s
  <1> QED BY <1>0, <1>1, <1>2, <1>3

--------------------------------------------------------------------------------
(* The types *)

\* An entry of a table is ".." or that of a name in the folder.
LEMMA EntryAt ==
  ASSUME NEW virtual, NEW place, NEW tab \in IndexTables(virtual, place)
  PROVE  /\ Len(tab) \in Nat /\ DOMAIN tab = 1 .. Len(tab)
         /\ tab = [i \in 1 .. Len(tab) |-> tab[i]]
         /\ \A i \in DOMAIN tab :
              \/ tab[i] = ParentEntry(virtual)
              \/ \E n \in Names(place) :
                   Head(n) # Dot /\ tab[i] = EntryOf(virtual, place, n) /\ tab[i].Size # -1
  <1>0. PICK E : Tabulates(E, tab, virtual, place)
    BY TableIs
  <1>1. /\ Lists(E, virtual, place)
        /\ tab \in Seq(E)
        /\ \A e \in E : \E k \in 1 .. Len(tab) : tab[k] = e
        /\ \A i, j \in 1 .. Len(tab) : i < j => tab[i] # tab[j] /\ Less(tab[i], tab[j])
        /\ \A e \in E : e.Name \in Text /\ e.Folder \in BOOLEAN
        /\ \A a, b \in E : a.Name = b.Name => a = b
    BY <1>0 DEF Tabulates
  <1>2. Len(tab) \in Nat /\ DOMAIN tab = 1 .. Len(tab) /\ \A i \in DOMAIN tab : tab[i] \in E
    BY <1>1, ElementOfSeq, LenProperties
  <1>3. tab = [i \in 1 .. Len(tab) |-> tab[i]]
    BY <1>1
  <1> QED BY <1>1, <1>2, <1>3 DEF Lists

\* The link of an entry, and what it is an entry of.
LEMMA LinkOf ==
  ASSUME NEW virtual, NEW place, NEW n \in Names(place), Head(n) # Dot
  PROVE  LET e == EntryOf(virtual, place, n)
             link == URLEncode(FullPath(virtual, n))
             file == Append(place, n)
         IN /\ file \in Folders => e = Entry(n, link \o Root, TRUE, 0)
            /\ file \notin Folders => e = Entry(n, link, FALSE, SizeAt(file))
  BY DEF EntryOf

\* A table has the right type.
LEMMA EntriesTyped ==
  ASSUME NEW virtual \in Text, NEW place, NEW tab \in IndexTables(virtual, place)
  PROVE  tab \in Seq(TableEntry)
  <1>1. ASSUME NEW i \in DOMAIN tab PROVE tab[i] \in TableEntry
    <2>1. CASE tab[i] = ParentEntry(virtual)
      <3>1. FullPath(virtual, DotDot) \in Text /\ DotDot \in Text
        BY Constants, TargetTyped
      <3> QED BY <2>1, <3>1 DEF ParentEntry, Entry, TableEntry
    <2>2. ASSUME NEW n \in Names(place), Head(n) # Dot, tab[i] = EntryOf(virtual, place, n)
          PROVE  tab[i] \in TableEntry
      <3>1. n \in Text
        BY NamesAreTexts DEF Names
      <3>2. FullPath(virtual, n) \in Text
        BY <3>1, TargetTyped
      <3> DEFINE link == URLEncode(FullPath(virtual, n))
      <3>3. link \in Text
        BY <3>2, EncodedTyped
      <3> HIDE DEF link
      <3>4. link \o Root \in Text
        BY <3>3, Constants, Joined
      <3>5. SizeAt(Append(place, n)) \in Int
        BY SizeTyped
      <3>6. CASE Append(place, n) \in Folders
        <4>1. tab[i] = Entry(n, link \o Root, TRUE, 0)
          BY <2>2, <3>6, LinkOf DEF link
        <4> QED BY <3>1, <3>4, <4>1 DEF Entry, TableEntry
      <3>7. CASE Append(place, n) \notin Folders
        <4>1. tab[i] = Entry(n, link, FALSE, SizeAt(Append(place, n)))
          BY <2>2, <3>7, LinkOf DEF link
        <4> QED BY <3>1, <3>3, <3>5, <4>1 DEF Entry, TableEntry
      <3> QED BY <3>6, <3>7
    <2> QED BY <2>1, <2>2, EntryAt
  <1>2. Len(tab) \in Nat /\ DOMAIN tab = 1 .. Len(tab) /\ tab = [i \in 1 .. Len(tab) |-> tab[i]]
    BY EntryAt
  <1> QED BY <1>1, <1>2

\* What a browser asks for that follows a link is a text.
LEMMA AskedTyped ==
  ASSUME NEW asked \in Text, NEW link \in Text
  PROVE  Normalized(Absolute(asked, link)) \in Text
  <1>1. Above(asked) \in Text
    BY TargetTyped, Constants
  <1>2. Above(asked) \o Root \in Text
    BY <1>1, Constants, Joined
  <1>3. Above(asked) \o Root \o link \in Text
    BY <1>2, Joined
  <1>4. Absolute(asked, link) \in Text
    BY <1>3 DEF Absolute
  <1>5. Slash \in 0 .. 255 /\ 0 .. 255 \in SUBSET (0 .. 255)
    BY DEF Slash
  <1> DEFINE C == 0 .. 255
  <1> HIDE DEF C
  <1>6. \A l \in Seq(C) : Normalized(l) \in Seq(C)
    BY <1>5, NormalizedWithin DEF C
  <1> QED BY <1>4, <1>6 DEF Text, C

\* The files of a table are entries of it.
LEMMA OnlyFilesTyped ==
  ASSUME NEW tab \in Seq(TableEntry)
  PROVE  OnlyFiles(tab) \in Seq(TableEntry)
  <1> DEFINE S == {i \in DOMAIN tab : ~tab[i].Folder}
             at == Ordered(S, <)
  <1>1. DOMAIN tab = 1 .. Len(tab) /\ Len(tab) \in Nat
    BY LenProperties
  <1>2. S \in SUBSET (1 .. Len(tab)) /\ 1 .. Len(tab) \in SUBSET Int
    BY <1>1
  <1>3. IsFiniteSet(S) /\ S \in SUBSET Int
    <2>1. IsFiniteSet(1 .. Len(tab))
      BY <1>1, FS_Interval
    <2> HIDE DEF S
    <2> QED BY <1>2, <2>1, FS_Subset
  <1>4. Ascends(at, S)
    <2> HIDE DEF S
    <2> QED BY <1>3, OrderedAscends
  <1>5. OnlyFiles(tab) = [k \in DOMAIN at |-> tab[at[k]]]
    BY DEF OnlyFiles
  <1> HIDE DEF S, at
  <1>6. at \in Seq(S) /\ Len(at) \in Nat /\ DOMAIN at = 1 .. Len(at)
    BY <1>4, LenProperties DEF Ascends
  <1>7. \A k \in 1 .. Len(at) : tab[at[k]] \in TableEntry
    <2> TAKE k \in 1 .. Len(at)
    <2>1. at[k] \in 1 .. Len(tab)
      BY <1>2, <1>6, ElementOfSeq
    <2> QED BY <2>1, ElementOfSeq
  <1> QED BY <1>5, <1>6, <1>7

\* The types of a browser and of an answer.
BrowserType ==
  [asked : Text, means : Text, from : Text, rest : Text, clicks : Nat, cut : {"nothing", "fields", "line"}]

AnswerType ==
  [for : Text, what : {"nothing", "illegal", "404", "index", "file"}, path : Text, type : TypeTold,
   length : -IntLimit .. IntLimit - 1, table : Seq(TableEntry)]

\* Every variable has its type, and no more sizes are told than there are files.
Typed ==
  /\ visit \in Visits
  /\ browser \in [Thread -> BrowserType]
  /\ pc \in [Thread -> Label]
  /\ BrowserRequest \in [Thread -> Header]
  /\ Resource \in [Thread -> Text]
  /\ table \in [Thread -> Seq(TableEntry)]
  /\ sizes \in [Thread -> Seq(SizeTold)]
  /\ answer \in [Thread -> AnswerType]
  /\ mimetype \in TypeTold /\ FriendlyFileSize \in SizeTold
  /\ disturbed \subseteq Thread
  /\ \A t \in Thread :
       /\ pc[t] = "size" => Len(sizes[t]) <= Len(OnlyFiles(table[t]))
       /\ pc[t] = "copy size" => Len(sizes[t]) < Len(OnlyFiles(table[t]))

\* It says at least what AnsweringTypeOK says.
LEMMA TypedIsTypeOK == Typed => AnsweringTypeOK
  <1> SUFFICES ASSUME Typed PROVE AnsweringTypeOK
    OBVIOUS
  <1>1. ASSUME NEW t \in Thread
        PROVE  /\ BrowserRequest[t].AccessType \in Text /\ BrowserRequest[t].AccessPath \in Text
               /\ BrowserRequest[t].AccessProtocol \in Text
               /\ DOMAIN BrowserRequest[t].HeaderFields \subseteq Text
               /\ Range(BrowserRequest[t].HeaderFields) \subseteq Text
    <2>1. BrowserRequest[t] \in Header
      BY DEF Typed
    <2>2. BrowserRequest[t].HeaderFields \in FieldMap
      BY <2>1 DEF Header
    <2>3. PICK D \in SUBSET Text : BrowserRequest[t].HeaderFields \in [D -> Text]
      BY <2>2 DEF FieldMap
    <2> QED BY <2>1, <2>3 DEF Header, Range
  <1>2. /\ visit \in Visits
        /\ browser \in [Thread -> [asked : Text, means : Text, from : Text, rest : Text,
                                clicks : Nat, cut : {"nothing", "fields", "line"}]]
        /\ pc \in [Thread -> {"away", "receive", "locate", "find", "size", "copy size", "mime", "match",
                              "copy type", "ended"}]
    BY DEF Typed, BrowserType, Label
  <1>3. /\ Resource \in [Thread -> Text]
        /\ table \in [Thread -> Seq(TableEntry)]
        /\ sizes \in [Thread -> Seq(SizeTold)]
        /\ answer \in [Thread ->
             [for : Text, what : {"nothing", "illegal", "404", "index", "file"}, path : Text, type : TypeTold,
              length : -IntLimit .. IntLimit - 1, table : Seq(TableEntry)]]
        /\ mimetype \in TypeTold /\ FriendlyFileSize \in SizeTold
        /\ disturbed \subseteq Thread
    BY DEF Typed, AnswerType
  <1> QED BY <1>1, <1>2, <1>3 DEF AnsweringTypeOK

\* What a browser is, and an answer.
LEMMA BrowserTyped ==
  /\ \A asked, means, from \in Text, clicks \in Nat : Browser(asked, means, from, clicks) \in BrowserType
  /\ NoBrowser \in BrowserType
  <1>1. ASSUME NEW asked \in Text, NEW means \in Text, NEW from \in Text, NEW clicks \in Nat
        PROVE  Browser(asked, means, from, clicks) \in BrowserType
    <2>1. RequestText(asked) \in Text
      BY RequestTyped
    <2> QED BY <2>1 DEF Browser, BrowserType
  <1>2. NoPath \in Text /\ <<>> \in Text
    BY Constants DEF NoPath
  <1>3. Browser(NoPath, NoPath, NoPath, 0) \in BrowserType
    BY <1>1, <1>2
  <1>4. NoBrowser \in BrowserType
    BY <1>2, <1>3 DEF NoBrowser, BrowserType
  <1> QED BY <1>1, <1>4

\* What a browser is told is typed, with an answer and without one.
LEMMA AnswerTyped ==
  /\ \A for, path \in Text, what \in {"nothing", "illegal", "404", "index", "file"} :
       Answer(for, what, path) \in AnswerType
  /\ \A for, path \in Text, what \in {"nothing", "illegal", "404", "index", "file"}, type \in TypeTold,
        length \in -IntLimit .. IntLimit - 1, entries \in Seq(TableEntry) :
       [Answer(for, what, path) EXCEPT !.type = type, !.length = length, !.table = entries] \in AnswerType
  /\ NoAnswer \in AnswerType
  <1>1. 0 \in -IntLimit .. IntLimit - 1
    BY IndexingAssumption
  <1>2. "" \in TypeTold /\ <<>> \in Seq(TableEntry) /\ NoPath \in Text
    BY EmptySeq, Constants DEF TypeTold, NoPath
  <1>3. \A for, path \in Text, what \in {"nothing", "illegal", "404", "index", "file"} :
          Answer(for, what, path) \in AnswerType
    BY <1>1, <1>2 DEF Answer, AnswerType
  <1>4. ASSUME NEW for \in Text, NEW path \in Text,
               NEW what \in {"nothing", "illegal", "404", "index", "file"}, NEW type \in TypeTold,
               NEW length \in -IntLimit .. IntLimit - 1, NEW entries \in Seq(TableEntry)
        PROVE  [Answer(for, what, path) EXCEPT !.type = type, !.length = length, !.table = entries]
                 \in AnswerType
    <2> DEFINE a == Answer(for, what, path)
    <2>1. a \in AnswerType
      BY <1>3
    <2> HIDE DEF a
    <2>2. [a EXCEPT !.type = type, !.length = length, !.table = entries] \in AnswerType
      BY <2>1 DEF AnswerType
    <2> QED BY <2>2 DEF a
  <1>5. NoAnswer \in AnswerType
    BY <1>2, <1>3 DEF NoAnswer
  <1> QED BY <1>3, <1>4, <1>5

\* The next file of an index has a size.
LEMMA NextFileTyped ==
  ASSUME Typed, NEW t \in Thread, pc[t] = "size", ~AllSized(t)
  PROVE  /\ ConvertSizeToFriendly(NextFile(t).Size) \in SizeTold
         /\ Len(sizes[t]) < Len(OnlyFiles(table[t]))
  <1>1. table[t] \in Seq(TableEntry) /\ sizes[t] \in Seq(SizeTold)
    BY DEF Typed
  <1>2. OnlyFiles(table[t]) \in Seq(TableEntry)
    BY <1>1, OnlyFilesTyped
  <1>3. Len(sizes[t]) \in Nat /\ Len(OnlyFiles(table[t])) \in Nat
    BY <1>1, <1>2, LenProperties
  <1>4. Len(sizes[t]) <= Len(OnlyFiles(table[t])) /\ Len(sizes[t]) # Len(OnlyFiles(table[t]))
    BY DEF Typed, AllSized
  <1>5. Len(sizes[t]) < Len(OnlyFiles(table[t]))
    BY <1>3, <1>4
  <1>6. Len(sizes[t]) + 1 \in 1 .. Len(OnlyFiles(table[t]))
    BY <1>3, <1>5
  <1>7. NextFile(t) \in TableEntry
    BY <1>2, <1>6, ElementOfSeq DEF NextFile
  <1> QED BY <1>5, <1>7, SizeTyped DEF TableEntry

\* The initial states are typed.
LEMMA TypedInit == Init => Typed
  <1> SUFFICES ASSUME Init PROVE Typed
    OBVIOUS
  <1>1. NoHeader \in Header
    BY FieldMaps, Constants DEF NoHeader, Header
  <1>2. NoPath \in Text /\ <<>> \in Seq(TableEntry) /\ <<>> \in Seq(SizeTold)
    BY EmptySeq, Constants DEF NoPath
  <1>3. "" \in TypeTold /\ <<0, "">> \in SizeTold
    BY DEF TypeTold, SizeTold
  <1> QED BY <1>1, <1>2, <1>3, BrowserTyped, AnswerTyped DEF Init, Typed, Label

\* What a thread tells its browser is typed.
LEMMA ToldTyped ==
  ASSUME Typed, NEW t \in Thread, NEW what \in {"404", "index", "file"}, NEW path \in Text,
         NEW type \in TypeTold, NEW length \in -IntLimit .. IntLimit - 1,
         NEW entries \in Seq(TableEntry), Told(t, what, path, type, length, entries)
  PROVE  answer' \in [Thread -> AnswerType]
  <1>1. BrowserRequest[t].AccessPath \in Text
    BY DEF Typed, Header
  <1>2. [Answer(BrowserRequest[t].AccessPath, what, path) EXCEPT
           !.type = type, !.length = length, !.table = entries] \in AnswerType
    BY <1>1, AnswerTyped
  <1> QED BY <1>2 DEF Typed, Told

\* A step of a thread leaves everything typed.
LEMMA StepTyped ==
  ASSUME Typed, NEW t \in Thread, Step(t), UNCHANGED visit
  PROVE  Typed'
  <1>0. /\ NoHeader \in Header /\ NoPath \in Text
        /\ <<>> \in Seq(TableEntry) /\ <<>> \in Seq(SizeTold)
        /\ 0 \in -IntLimit .. IntLimit - 1 /\ "text/html" \in TypeTold /\ "text/plain" \in TypeTold
    BY FieldMaps, Constants, EmptySeq, IndexingAssumption DEF NoHeader, Header, NoPath, TypeTold
  <1> USE DEF Goto, Index, Buffers, Label
  <1>a. ASSUME NEW b \in BrowserType, Connect(t, b) PROVE Typed'
    BY <1>0, <1>a, AnswerTyped DEF Connect, Typed
  <1>1. CASE TypePath(t)
    <2>1. PICK path \in visit.typed[t] : Connect(t, Browser(path, NoPath, NoPath, 0))
      BY <1>1 DEF TypePath
    <2>2. path \in Text
      <3>1. visit \in [typed : [Thread -> SUBSET Word], clicks : Nat]
        BY AnsweringAssumption DEF Typed
      <3>2. path \in Word
        BY <3>1
      <3> QED BY <3>2, SeqMonotonic DEF Word, Text
    <2> QED BY <1>0, <1>a, <2>1, <2>2, BrowserTyped
  <1>2. CASE FollowLink(t)
    <2>1. PICK i \in DOMAIN answer[t].table :
            Connect(t, Browser(Normalized(Absolute(browser[t].asked, answer[t].table[i].CompletePath)),
                               Target(answer[t].path, answer[t].table[i].Name), answer[t].for,
                               browser[t].clicks + 1))
      BY <1>2 DEF FollowLink
    <2>2. /\ answer[t].table \in Seq(TableEntry) /\ browser[t].asked \in Text /\ answer[t].path \in Text /\ answer[t].for \in Text
          /\ browser[t].clicks + 1 \in Nat
      <3>1. answer[t] \in AnswerType /\ browser[t] \in BrowserType
        BY DEF Typed
      <3> QED BY <3>1 DEF AnswerType, BrowserType
    <2>3. i \in 1 .. Len(answer[t].table)
      BY <2>2, LenProperties
    <2>4. answer[t].table[i].CompletePath \in Text /\ answer[t].table[i].Name \in Text
      <3>1. answer[t].table[i] \in TableEntry
        BY <2>2, <2>3, ElementOfSeq
      <3> QED BY <3>1 DEF TableEntry
    <2>5. /\ Normalized(Absolute(browser[t].asked, answer[t].table[i].CompletePath)) \in Text
          /\ Target(answer[t].path, answer[t].table[i].Name) \in Text
      BY <2>2, <2>4, AskedTyped, TargetTyped
    <2> QED BY <1>a, <2>1, <2>2, <2>5, BrowserTyped
  <1>b. ASSUME Gone(t), UNCHANGED <<Index, Buffers>> PROVE Typed'
    BY <1>0, <1>b, AnswerTyped, BrowserTyped DEF Gone, Typed
  <1>3. CASE Leave(t) \/ FollowElsewhere(t)
    BY <1>3, <1>b DEF Leave, FollowElsewhere
  <1>4. CASE Receive(t)
    <2>1. PICK n \in Cuts(t) \cup {Len(browser[t].rest)} :
            LET header == ImportHeader(BrowserRequest[t], SubSeq(browser[t].rest, 1, n))
            IN /\ BrowserRequest' = [BrowserRequest EXCEPT ![t] = header]
               /\ browser' = [browser EXCEPT ![t].rest = SubSeq(@, n + 1, Len(@)),
                    ![t].cut = CASE n = Len(browser[t].rest)               -> @
                                 [] n # Len(browser[t].rest) /\ n < Len(FirstLine(browser[t].asked)) -> "line"
                                 [] OTHER                                   -> "fields"]
               /\ Goto(t, IF ToBeAnswered(t, header) THEN "locate" ELSE "receive")
      BY <1>4 DEF Receive
    <2> DEFINE header == ImportHeader(BrowserRequest[t], SubSeq(browser[t].rest, 1, n))
               rest == browser[t].rest
               cut == CASE n = Len(rest) -> browser[t].cut
                        [] n # Len(rest) /\ n < Len(FirstLine(browser[t].asked)) -> "line"
                        [] OTHER -> "fields"
    <2>2. browser[t] \in BrowserType /\ rest \in Text /\ Len(rest) \in Nat
          /\ browser[t].cut \in {"nothing", "fields", "line"}
      BY Characters DEF Typed, BrowserType
    <2>3. n \in Nat /\ n <= Len(rest)
      <3>1. ASSUME n \in Cuts(t) PROVE n \in Nat /\ n < Len(rest)
        <4>1. n \in Lengths[t] /\ n < Len(rest)
          BY <3>1 DEF Cuts
        <4>2. Lengths \in [Thread -> SUBSET (Nat \ {0})]
          BY AnsweringAssumption
        <4> QED BY <4>1, <4>2
      <3> QED BY <2>2, <3>1
    <2>4. SubSeq(rest, 1, n) \in Text
      <3>1. 1 \in Nat \ {0}
        OBVIOUS
      <3> QED BY <2>2, <2>3, <3>1, Within
    <2>5. SubSeq(rest, n + 1, Len(rest)) \in Text
      <3>1. n + 1 \in Nat \ {0} /\ Len(rest) <= Len(rest)
        BY <2>2, <2>3
      <3> QED BY <2>2, <3>1, Within
    <2>6. header \in Header
      BY <2>4, ImportTyped DEF Typed
    <2>7. cut \in {"nothing", "fields", "line"}
      BY <2>2
    <2>8. browser' = [browser EXCEPT ![t] = [browser[t] EXCEPT !.rest = SubSeq(rest, n + 1, Len(rest)), !.cut = cut]]
      <3>1. browser \in [Thread -> BrowserType]
        BY DEF Typed
      <3> QED BY <2>1, <3>1
    <2>9. [browser[t] EXCEPT !.rest = SubSeq(rest, n + 1, Len(rest)), !.cut = cut] \in BrowserType
      <3> HIDE DEF cut, rest
      <3> QED BY <2>2, <2>5, <2>7 DEF BrowserType
    <2>10. /\ BrowserRequest' = [BrowserRequest EXCEPT ![t] = header]
           /\ pc' = [pc EXCEPT ![t] = IF ToBeAnswered(t, header) THEN "locate" ELSE "receive"]
           /\ UNCHANGED <<Resource, Index, answer, Buffers>>
      BY <1>4, <2>1 DEF Receive
    <2> HIDE DEF header, rest, cut
    <2> QED BY <2>6, <2>8, <2>9, <2>10 DEF Typed
  <1>c. BrowserRequest[t].AccessPath \in Text /\ Resource[t] \in Text
    BY DEF Typed, Header
  <1>5. CASE Illegal(t)
    <2>1. Answer(BrowserRequest[t].AccessPath, "illegal", NoPath) \in AnswerType
      BY <1>0, <1>c, AnswerTyped
    <2> QED BY <1>5, <2>1 DEF Illegal, Typed
  <1>6. CASE LocateResource(t)
    <2>1. ParseURLEncoding(Resolve(BrowserRequest[t].AccessPath).path) \in Text
      BY <1>c, ResolvedTyped, ParsedTyped
    <2> QED BY <1>6, <2>1 DEF LocateResource, Typed
  <1>7. CASE NotFound(t)
    <2>1. answer' \in [Thread -> AnswerType]
      BY <1>0, <1>7, ToldTyped DEF NotFound
    <2> QED BY <1>7, <2>1 DEF NotFound, Typed
  <1>8. CASE FindFile(t)
    <2>1. GenerateFolderIndex(Resource[t]).path \in Text
      BY <1>c, FoundTyped
    <2> QED BY <1>8, <2>1 DEF FindFile, Typed
  <1>9. CASE FindFolder(t)
    <2>1. PICK entries \in IndexTables(BrowserRequest[t].AccessPath, Lookup(Resource[t])) :
            table' = [table EXCEPT ![t] = entries]
      BY <1>9 DEF FindFolder
    <2>2. entries \in Seq(TableEntry)
      BY <1>c, EntriesTyped
    <2>3. Len(<<>>) <= Len(OnlyFiles(entries))
      BY <2>2, OnlyFilesTyped, LenProperties
    <2> QED BY <1>0, <1>9, <2>1, <2>2, <2>3 DEF FindFolder, Typed
  <1>10. CASE FindUnreadable(t) \/ Overrun(t)
    BY <1>10 DEF FindUnreadable, Overrun, Typed
  <1>11. CASE WriteSize(t)
    <2>1. ConvertSizeToFriendly(NextFile(t).Size) \in SizeTold /\ Len(sizes[t]) < Len(OnlyFiles(table[t]))
      BY <1>11, NextFileTyped DEF WriteSize
    <2> QED BY <1>11, <2>1 DEF WriteSize, Disturb, Typed
  <1>12. CASE CopySize(t)
    <2>1. sizes[t] \in Seq(SizeTold) /\ FriendlyFileSize \in SizeTold
      BY DEF Typed
    <2>2. Append(sizes[t], FriendlyFileSize) \in Seq(SizeTold)
          /\ Len(Append(sizes[t], FriendlyFileSize)) = Len(sizes[t]) + 1
      BY <2>1, AppendProperties
    <2>3. Len(sizes[t]) < Len(OnlyFiles(table[t])) /\ Len(sizes[t]) \in Nat /\ Len(OnlyFiles(table[t])) \in Nat
      <3>1. table[t] \in Seq(TableEntry)
        BY DEF Typed
      <3>2. OnlyFiles(table[t]) \in Seq(TableEntry)
        BY <3>1, OnlyFilesTyped
      <3> QED BY <1>12, <2>1, <3>2, LenProperties DEF CopySize, Typed
    <2>4. Len(sizes[t]) + 1 <= Len(OnlyFiles(table[t]))
      BY <2>3
    <2> QED BY <1>12, <2>2, <2>4 DEF CopySize, Typed
  <1>13. CASE IndexDone(t)
    <2>1. table[t] \in Seq(TableEntry)
      BY DEF Typed
    <2>2. answer' \in [Thread -> AnswerType]
      BY <1>0, <1>c, <1>13, <2>1, ToldTyped DEF IndexDone
    <2> QED BY <1>0, <1>13, <2>2 DEF IndexDone, Typed
  <1>14. CASE DefaultType(t)
    BY <1>0, <1>14 DEF DefaultType, Disturb, Typed
  <1>15. CASE MatchType(t)
    <2>1. MimeTypes[Extension(Resource[t])] \in TypeTold
      BY <1>15 DEF MatchType, TypeTold, Range
    <2> QED BY <1>15, <2>1 DEF MatchType, Disturb, Typed
  <1>16. CASE NoMatch(t)
    BY <1>16 DEF NoMatch, Typed
  <1>17. CASE SendHeader(t)
    <2>1. mimetype \in TypeTold /\ FileSize(Resource[t]) \in -IntLimit .. IntLimit - 1
      BY SizeTyped DEF Typed
    <2>2. answer' \in [Thread -> AnswerType]
      BY <1>0, <1>c, <1>17, <2>1, ToldTyped DEF SendHeader
    <2> QED BY <1>17, <2>2 DEF SendHeader, Typed
  <1>18. CASE OpenFails(t)
    BY <1>18, <1>b DEF OpenFails
  <1> QED BY <1>1, <1>2, <1>3, <1>4, <1>5, <1>6, <1>7, <1>8, <1>9, <1>10, <1>11, <1>12, <1>13,
             <1>14, <1>15, <1>16, <1>17, <1>18 DEF Step

\* The types are an invariant.
LEMMA TypesHold == Spec => []Typed
  <1>1. Typed /\ [Next]_vars => Typed'
    <2> SUFFICES ASSUME Typed, [Next]_vars PROVE Typed'
      OBVIOUS
    <2>1. CASE UNCHANGED vars
      BY <2>1 DEF vars, Typed, NextFile
    <2>2. CASE Next
      BY <2>2, StepTyped DEF Next
    <2> QED BY <2>1, <2>2
  <1> QED BY <1>1, TypedInit, PTL DEF Spec

\* Every variable of Answering has its type: in particular no Content-Length is outside an
\* int, whatever the size of a file, and whatever text arrives is read into a header.
THEOREM TypesCorrect == Spec => []AnsweringTypeOK
  BY TypesHold, TypedIsTypeOK, PTL

--------------------------------------------------------------------------------
(* What an answer is chosen for *)

\* The file that a path leads to, as a name in the file system.
LedTo(path) == ParseURLEncoding(Resolve(path).path)

\* Where a thread is in choosing an answer says what it has found out about the path, and
\* an answer tells what there is where the path leads.
Chosen ==
  \A t \in Thread :
    LET path == BrowserRequest[t].AccessPath
        a == answer[t]
    IN /\ pc[t] \in {"find", "size", "copy size"} => Resolve(path).legal /\ Resource[t] = LedTo(path)
       /\ pc[t] \in {"size", "copy size"} => GenerateFolderIndex(Resource[t]).what = "index"
       /\ pc[t] \in {"mime", "match", "copy type"} =>
            /\ Resolve(path).legal
            /\ GenerateFolderIndex(LedTo(path)).what = "file"
            /\ GenerateFolderIndex(LedTo(path)).path = Resource[t]
       /\ a.what = "nothing" => a = NoAnswer
       /\ a.what = "illegal" => ~Resolve(a.for).legal
       /\ a.what \in {"404", "index", "file"} => Resolve(a.for).legal
       /\ a.what = "404" => GenerateFolderIndex(LedTo(a.for)).what = "none"
       /\ a.what \in {"index", "file"} =>
            /\ GenerateFolderIndex(LedTo(a.for)).what = a.what
            /\ GenerateFolderIndex(LedTo(a.for)).path = a.path
       /\ a.what = "index" => LedTo(a.for) = a.path

\* Nothing is chosen at the start.
LEMMA ChosenInit == Init => Chosen
  <1> SUFFICES ASSUME Init, NEW t \in Thread
               PROVE  pc[t] = "away" /\ answer[t] = NoAnswer
    BY NoAnswerIs DEF Chosen
  <1> QED BY DEF Init

\* A step keeps what was chosen, or chooses what it has found out.
LEMMA ChosenNext == Typed /\ Chosen /\ [Next]_vars => Chosen'
  <1> SUFFICES ASSUME Typed, Chosen, [Next]_vars PROVE Chosen'
    OBVIOUS
  <1> USE DEF Chosen, Goto, Index, Buffers
  <1>0. /\ DOMAIN pc = Thread /\ DOMAIN answer = Thread /\ DOMAIN Resource = Thread
        /\ DOMAIN BrowserRequest = Thread /\ NoAnswer.what = "nothing"
        /\ pc \in [Thread -> Label]
        /\ \A t \in Thread : Resource[t] \in Text /\ BrowserRequest[t].AccessPath \in Text
    BY NoAnswerIs DEF Typed, Header
  <1>1. CASE UNCHANGED vars
    BY <1>1 DEF vars
  <1>2. ASSUME NEW t \in Thread, Step(t) PROVE Chosen'
    <2>a. ASSUME NEW b, Connect(t, b) PROVE Chosen'
      BY <1>0, <2>a DEF Connect
    <2>1. CASE TypePath(t)
      BY <2>1, <2>a DEF TypePath
    <2>2. CASE FollowLink(t)
      BY <2>2, <2>a DEF FollowLink
    <2>3. CASE Leave(t) \/ FollowElsewhere(t)
      <3>1. Gone(t) /\ UNCHANGED <<Index, Buffers>>
        BY <2>3 DEF Leave, FollowElsewhere
      <3> QED BY <1>0, <3>1 DEF Gone
    <2>4. CASE Receive(t)
      <3>1. PICK n : LET header == ImportHeader(BrowserRequest[t], SubSeq(browser[t].rest, 1, n))
                     IN /\ BrowserRequest' = [BrowserRequest EXCEPT ![t] = header]
                        /\ pc' = [pc EXCEPT ![t] = IF ToBeAnswered(t, header) THEN "locate" ELSE "receive"]
        BY <2>4 DEF Receive
      <3> DEFINE h == ImportHeader(BrowserRequest[t], SubSeq(browser[t].rest, 1, n))
                 l == IF ToBeAnswered(t, h) THEN "locate" ELSE "receive"
      <3>2. /\ l \in {"locate", "receive"} /\ pc' = [pc EXCEPT ![t] = l]
            /\ BrowserRequest' = [BrowserRequest EXCEPT ![t] = h]
        BY <3>1
      <3>3. Resource' = Resource /\ answer' = answer
        BY <2>4 DEF Receive
      <3> HIDE DEF h, l
      <3> QED BY <1>0, <3>2, <3>3
    <2>5. CASE Illegal(t)
      BY <1>0, <2>5 DEF Illegal, Answer
    <2>6. CASE LocateResource(t)
      BY <1>0, <2>6 DEF LocateResource, LedTo
    <2>7. CASE NotFound(t)
      BY <1>0, <2>7 DEF NotFound, Told, Answer
    <2>8. CASE FindFile(t)
      BY <1>0, <2>8 DEF FindFile
    <2>9. CASE FindFolder(t)
      BY <1>0, <2>9 DEF FindFolder
    <2>10. CASE FindUnreadable(t) \/ Overrun(t)
      <3>1. pc' = [u \in Thread |-> "ended"] /\ UNCHANGED <<BrowserRequest, Resource, answer>>
        BY <2>10 DEF FindUnreadable, Overrun
      <3> QED BY <1>0, <3>1
    <2>11. CASE WriteSize(t)
      BY <1>0, <2>11 DEF WriteSize, Disturb
    <2>12. CASE CopySize(t)
      BY <1>0, <2>12 DEF CopySize
    <2>13. CASE IndexDone(t)
      <3>1. GenerateFolderIndex(Resource[t]).path = Resource[t]
        BY <1>0, <2>13, FoundTyped DEF IndexDone
      <3> QED BY <1>0, <2>13, <3>1 DEF IndexDone, Told, Answer
    <2>14. CASE DefaultType(t)
      BY <1>0, <2>14 DEF DefaultType, Disturb
    <2>15. CASE MatchType(t)
      BY <1>0, <2>15 DEF MatchType, Disturb
    <2>16. CASE NoMatch(t)
      BY <1>0, <2>16 DEF NoMatch
    <2>17. CASE SendHeader(t)
      BY <1>0, <2>17 DEF SendHeader, Told, Answer
    <2>18. CASE OpenFails(t)
      BY <1>0, <2>18 DEF OpenFails, Gone
    <2> QED BY <1>2, <2>1, <2>2, <2>3, <2>4, <2>5, <2>6, <2>7, <2>8, <2>9, <2>10, <2>11, <2>12,
               <2>13, <2>14, <2>15, <2>16, <2>17, <2>18 DEF Step
  <1> QED BY <1>1, <1>2 DEF Next

\* What is chosen is an invariant.
LEMMA ChoicesHold == Spec => [](Typed /\ Chosen)
  BY TypesHold, ChosenInit, ChosenNext, PTL DEF Spec

\* "Splits paths into parts, automatically resolving "." and "..": for every path that fits
\* into the buffer, what is decoded and looked for is what is left of its pieces when every
\* ".." takes back the name before it; and a path is refused exactly when a ".." has nothing
\* to take back, not when nothing is left of it.  A ".." that only decoding brings about is
\* not among those pieces: the file system follows it.
THEOREM PathsResolved == Spec => []ResolvedAsAsked
  <1>1. ASSUME NEW path \in Text
        PROVE  /\ Resolve(path).legal <=> ResolvedParts(path).legal
               /\ Resolve(path).legal => Resolve(path).path = <<Dot>> \o Join(ResolvedParts(path).parts)
    BY ResolvedOnce, ExplodesAsResolved
  <1>2. ASSUME Typed, Chosen, NEW t \in Thread
        PROVE  LET asked == ResolvedParts(BrowserRequest[t].AccessPath)
               IN /\ pc[t] = "find" =>
                       asked.legal /\ Resource[t] = ParseURLEncoding(<<Dot>> \o Join(asked.parts))
                  /\ answer[t].what = "illegal" => ~ResolvedParts(answer[t].for).legal
    <2>1. BrowserRequest[t].AccessPath \in Text /\ answer[t].for \in Text
      <3>1. BrowserRequest[t] \in Header /\ answer[t] \in AnswerType
        BY <1>2 DEF Typed
      <3> QED BY <3>1 DEF Header, AnswerType
    <2> QED BY <1>1, <1>2, <2>1 DEF Chosen, LedTo
  <1>3. Typed /\ Chosen => ResolvedAsAsked
    BY <1>2 DEF ResolvedAsAsked
  <1> QED BY <1>3, ChoicesHold, PTL

--------------------------------------------------------------------------------
(* What a browser asks for *)

\* Where the words of the first line are.
LEMMA FirstLineIs ==
  ASSUME NEW path \in Text
  PROVE  LET line == FirstLine(path)
         IN /\ Len(line) = Len(path) + 11 /\ Len(path) \in Nat
            /\ line[1] = 71 /\ line[2] = 69 /\ line[3] = 84 /\ line[4] = Space
            /\ \A i \in 1 .. Len(path) : line[4 + i] = path[i]
            /\ line[5 + Len(path)] = Space
            /\ \A i \in 1 .. 4 : line[5 + Len(path) + i] \notin Blank
            /\ line[10 + Len(path)] = Return /\ line[11 + Len(path)] = NewLine
  <1> DEFINE a == Get \o <<Space>>
             b == a \o path
             c == b \o <<Space>>
             d == c \o Http
             line == d \o <<Return, NewLine>>
  <1>0. PICK k \in Nat : k = Len(path)
    BY Characters
  <1>1. /\ a \in Text /\ Len(a) = 4
        /\ a[1] = 71 /\ a[2] = 69 /\ a[3] = 84 /\ a[4] = Space
    BY DEF Get, Space, Text
  <1> HIDE DEF a
  <1>2. /\ b \in Text /\ Len(b) = 4 + k
        /\ \A i \in 1 .. 4 : b[i] = a[i]
        /\ \A i \in 1 .. k : b[4 + i] = path[i]
    <2>1. /\ a \o path \in Text /\ Len(a \o path) = Len(a) + Len(path)
          /\ \A i \in 1 .. Len(a) : (a \o path)[i] = a[i]
          /\ \A i \in 1 .. Len(path) : (a \o path)[Len(a) + i] = path[i]
      <3>1. a \in Text /\ path \in Text
        BY <1>1
      <3> QED BY <3>1, Joined, Zenon
    <2>2. /\ b \in Text /\ Len(b) = Len(a) + Len(path)
          /\ \A i \in 1 .. Len(a) : b[i] = a[i]
          /\ \A i \in 1 .. Len(path) : b[Len(a) + i] = path[i]
      BY <2>1, Zenon
    <2> HIDE DEF b
    <2> QED BY <1>0, <1>1, <2>2
  <1> HIDE DEF b
  <1>3. /\ c \in Text /\ Len(c) = 5 + k
        /\ \A i \in 1 .. 4 + k : c[i] = b[i]
        /\ c[5 + k] = Space
    <2>1. <<Space>> \in Text /\ Len(<<Space>>) = 1 /\ <<Space>>[1] = Space
      BY Constants
    <2>2. /\ c \in Text /\ Len(c) = Len(b) + Len(<<Space>>)
          /\ \A i \in 1 .. Len(b) : c[i] = b[i]
          /\ \A i \in 1 .. Len(<<Space>>) : c[Len(b) + i] = <<Space>>[i]
      BY <1>2, <2>1, Joined
    <2>3. 1 \in 1 .. Len(<<Space>>)
      BY <2>1
    <2>4. c[Len(b) + 1] = Space
      BY <2>1, <2>2, <2>3
    <2>5. (4 + k) + 1 = 5 + k
      BY <1>0
    <2> QED BY <1>2, <2>1, <2>2, <2>4, <2>5
  <1> HIDE DEF c
  <1>4. /\ d \in Text /\ Len(d) = 9 + k
        /\ \A i \in 1 .. 5 + k : d[i] = c[i]
        /\ \A i \in 1 .. 4 : d[5 + k + i] \notin Blank
    <2>1. Http \in Text /\ Len(Http) = 4
      BY Constants DEF Http
    <2>2. /\ d \in Text /\ Len(d) = Len(c) + Len(Http)
          /\ \A i \in 1 .. Len(c) : d[i] = c[i]
          /\ \A i \in 1 .. Len(Http) : d[Len(c) + i] = Http[i]
      BY <1>3, <2>1, Joined
    <2>3. \A i \in 1 .. 4 : Http[i] \notin Blank
      BY DEF Http, Blank, Space, Return
    <2> HIDE DEF d
    <2> QED BY <1>0, <1>3, <2>1, <2>2, <2>3
  <1> HIDE DEF d
  <1>5. /\ line \in Text /\ Len(line) = 11 + k
        /\ \A i \in 1 .. 9 + k : line[i] = d[i]
        /\ line[10 + k] = Return /\ line[11 + k] = NewLine
    <2> DEFINE ends == <<Return, NewLine>>
    <2>1. ends \in Text /\ Len(ends) = 2 /\ ends[1] = Return /\ ends[2] = NewLine /\ 1 \in 1 .. 2 /\ 2 \in 1 .. 2
      BY Constants
    <2>2. line = d \o ends
      OBVIOUS
    <2> HIDE DEF line, ends
    <2>3. /\ d \o ends \in Text /\ Len(d \o ends) = Len(d) + Len(ends)
          /\ \A i \in 1 .. Len(d) : (d \o ends)[i] = d[i]
          /\ \A i \in 1 .. Len(ends) : (d \o ends)[Len(d) + i] = ends[i]
      BY <1>4, <2>1, Joined
    <2>4. line[Len(d) + 1] = Return /\ line[Len(d) + 2] = NewLine
      BY <2>1, <2>2, <2>3
    <2>5. Len(d) + 1 = 10 + k /\ Len(d) + 2 = 11 + k
      BY <1>4
    <2> QED BY <1>0, <1>4, <2>1, <2>2, <2>3, <2>4, <2>5
  <1>6. FirstLine(path) = line
    BY DEF FirstLine, a, b, c, d
  <1> HIDE DEF line
  <1>7. /\ 1 \in 1 .. 4 /\ 2 \in 1 .. 4 /\ 3 \in 1 .. 4 /\ 4 \in 1 .. 4
        /\ \A i \in 1 .. 4 : i \in 1 .. 4 + k /\ i \in 1 .. 5 + k /\ i \in 1 .. 9 + k
        /\ \A i \in 1 .. k : 4 + i \in 1 .. 4 + k /\ 4 + i \in 1 .. 5 + k /\ 4 + i \in 1 .. 9 + k
        /\ 5 + k \in 1 .. 5 + k /\ 5 + k \in 1 .. 9 + k
    BY <1>0
  <1>8. \A i \in 1 .. 4 : line[i] = a[i]
    BY <1>2, <1>3, <1>4, <1>5, <1>7
  <1>9. \A i \in 1 .. k : line[4 + i] = path[i]
    BY <1>2, <1>3, <1>4, <1>5, <1>7
  <1>10. line[5 + k] = Space
    BY <1>3, <1>4, <1>5, <1>7
  <1>11. \A i \in 1 .. 4 : line[5 + k + i] \notin Blank
    <2>1. \A i \in 1 .. 4 : 5 + k + i \in 1 .. 9 + k
      BY <1>0
    <2> QED BY <1>4, <1>5, <2>1
  <1> QED BY <1>0, <1>1, <1>5, <1>6, <1>7, <1>8, <1>9, <1>10, <1>11

\* Whoever has received the whole first line reads the path that was asked for.
LEMMA FirstLineRead ==
  ASSUME NEW path \in Word, NEW n \in Nat, n >= Len(FirstLine(path)), n <= Len(RequestText(path))
  PROVE  LET text == SubSeq(RequestText(path), 1, n)
         IN /\ ImportHeader(NoHeader, text).AccessPath = path
            /\ WordEnd(text, WordEnd(text, 1)) = 5 + Len(path)
  <1> DEFINE text == SubSeq(RequestText(path), 1, n)
             line == FirstLine(path)
             all == RequestText(path)
  <1>0. path \in Text /\ path \in Seq((0 .. 255) \ Blank) /\ path # <<>>
    BY SeqMonotonic DEF Word, Text
  <1>1. PICK k \in Nat \ {0} : k = Len(path)
    <2>1. Len(path) \in Nat /\ Len(path) # 0
      BY <1>0, EmptySeq, Characters
    <2> QED BY <2>1
  <1>2. /\ Len(line) = k + 11
        /\ line[1] = 71 /\ line[2] = 69 /\ line[3] = 84 /\ line[4] = Space
        /\ \A i \in 1 .. k : line[4 + i] = path[i]
        /\ line[5 + k] = Space
    BY <1>0, <1>1, FirstLineIs
  <1> HIDE DEF line
  <1>3. line \in Text /\ all \in Text /\ \A i \in 1 .. Len(line) : all[i] = line[i]
    <2>1. line \in Text /\ all \in Text
      BY <1>0, RequestTyped DEF line
    <2>2. PICK fields \in Text : all = line \o fields \o <<Return, NewLine>>
      BY <1>0, RequestTyped DEF line
    <2>3. /\ line \o fields \in Text /\ Len(line \o fields) = Len(line) + Len(fields)
          /\ \A i \in 1 .. Len(line) : (line \o fields)[i] = line[i]
          /\ Len(line) \in Nat /\ Len(fields) \in Nat
      BY <2>1, Joined
    <2> DEFINE w == line \o fields
    <2>4. w \in Text /\ \A i \in 1 .. Len(line) : i \in 1 .. Len(w) /\ w[i] = line[i]
      BY <2>3
    <2> HIDE DEF w
    <2>5. \A i \in 1 .. Len(w) : (w \o <<Return, NewLine>>)[i] = w[i]
      BY <2>4, Constants, Joined
    <2>6. all = w \o <<Return, NewLine>>
      BY <2>2 DEF w
    <2> HIDE DEF all
    <2> QED BY <2>1, <2>4, <2>5, <2>6
  <1> HIDE DEF all
  <1>4. n >= k + 11 /\ n <= Len(all) /\ Len(all) \in Nat
    BY <1>2, <1>3, Characters DEF line, all
  <1>5. text \in Text /\ Len(text) = n /\ \A i \in 1 .. n : text[i] = all[i]
    <2>1. text = SubSeq(all, 1, n)
      BY DEF all
    <2>2. 1 \in 1 .. Len(all) + 1 /\ n \in 0 .. Len(all) /\ 1 <= n + 1
      BY <1>4
    <2>3. /\ SubSeq(all, 1, n) \in Text /\ Len(SubSeq(all, 1, n)) = n - 1 + 1
          /\ \A i \in 1 .. n - 1 + 1 : SubSeq(all, 1, n)[i] = all[1 + i - 1]
      BY <1>3, <2>2, Stretch
    <2>4. n - 1 + 1 = n /\ \A i \in 1 .. n : 1 + i - 1 = i
      OBVIOUS
    <2> HIDE DEF text
    <2> QED BY <2>1, <2>3, <2>4
  <1> HIDE DEF text
  <1>6. /\ text[1] = 71 /\ text[2] = 69 /\ text[3] = 84 /\ text[4] = Space
        /\ \A i \in 1 .. k : text[4 + i] = path[i]
        /\ text[5 + k] = Space
    <2>1. \A i \in 1 .. k + 11 : text[i] = line[i]
      <3>1. \A i \in 1 .. k + 11 : i \in 1 .. n /\ i \in 1 .. Len(line)
        BY <1>2, <1>4
      <3> QED BY <1>3, <1>5, <3>1
    <2>2. /\ 1 \in 1 .. k + 11 /\ 2 \in 1 .. k + 11 /\ 3 \in 1 .. k + 11 /\ 4 \in 1 .. k + 11
          /\ 5 + k \in 1 .. k + 11 /\ \A i \in 1 .. k : 4 + i \in 1 .. k + 11
      OBVIOUS
    <2> QED BY <1>2, <2>1, <2>2
  <1>7. \A i \in 1 .. k : path[i] \notin Blank
    BY <1>0, <1>1, ElementOfSeq
  <1> DEFINE V == Range(text) \ Blank
  <1>8. DOMAIN text = 1 .. n /\ \A i \in 1 .. n : text[i] \in Range(text)
    BY <1>5, LenProperties DEF Range, Text
  <1>9. Space \in Blank /\ 71 \notin Blank /\ 69 \notin Blank /\ 84 \notin Blank
    BY DEF Blank, Space, Return
  <1>10. WordStart(text, 1) = 1
    <2>1. 1 \in 1 .. n /\ text[1] \in V
      BY <1>4, <1>6, <1>8, <1>9
    <2>2. \A j \in 1 .. 1 - 1 : text[j] \notin V
      OBVIOUS
    <2> HIDE DEF V
    <2>3. FirstOf(text, 1, V) = 1
      BY <1>5, <2>1, <2>2, FirstOfMeans
    <2> QED BY <2>3 DEF WordStart, V
  <1>11. WordEnd(text, 1) = 4
    <2>1. 4 \in 1 .. n /\ text[4] \in Blank
      BY <1>4, <1>6, <1>9
    <2>2. \A j \in 1 .. 4 - 1 : text[j] \notin Blank
      <3>1. \A j \in 1 .. 4 - 1 : j = 1 \/ j = 2 \/ j = 3
        OBVIOUS
      <3> QED BY <1>6, <1>9, <3>1
    <2>3. FirstOf(text, 1, Blank) = 4
      BY <1>5, <2>1, <2>2, FirstOfMeans
    <2> QED BY <1>10, <2>3 DEF WordEnd
  <1>12. WordStart(text, 4) = 5
    <2>1. 1 \in 1 .. k /\ text[5] = path[1]
      <3>1. 1 \in 1 .. k /\ 4 + 1 = 5
        OBVIOUS
      <3> QED BY <1>6, <3>1
    <2>2. 5 \in 4 .. n /\ text[5] \in V
      BY <1>4, <1>7, <1>8, <2>1
    <2>3. \A j \in 4 .. 5 - 1 : text[j] \notin V
      <3>1. \A j \in 4 .. 5 - 1 : j = 4
        OBVIOUS
      <3> QED BY <1>6, <1>9, <3>1
    <2> HIDE DEF V
    <2>4. FirstOf(text, 4, V) = 5
      BY <1>5, <2>2, <2>3, FirstOfMeans
    <2> QED BY <2>4 DEF WordStart, V
  <1>13. WordEnd(text, 4) = 5 + k
    <2>1. 5 + k \in 5 .. n /\ text[5 + k] \in Blank
      BY <1>4, <1>6, <1>9
    <2>2. \A j \in 5 .. (5 + k) - 1 : text[j] \notin Blank
      <3> TAKE j \in 5 .. (5 + k) - 1
      <3>1. PICK i \in 1 .. k : j = 4 + i
        <4>1. j - 4 \in 1 .. k /\ j = 4 + (j - 4)
          OBVIOUS
        <4> QED BY <4>1
      <3> QED BY <1>6, <1>7, <3>1
    <2>3. FirstOf(text, 5, Blank) = 5 + k
      BY <1>5, <2>1, <2>2, FirstOfMeans
    <2> QED BY <1>12, <2>3 DEF WordEnd
  <1>14. Read(text, 4, NoHeader.AccessPath) = path
    <2>1. ~ (5 > n) /\ (5 + k) - 1 = 4 + k
      BY <1>4
    <2>2. Read(text, 4, NoHeader.AccessPath) = SubSeq(text, 5, 4 + k)
      BY <1>5, <1>12, <1>13, <2>1 DEF Read
    <2>3. 5 \in 1 .. Len(text) + 1 /\ 4 + k \in 0 .. Len(text) /\ 5 <= (4 + k) + 1
      BY <1>4, <1>5
    <2> DEFINE m == 4 + k
    <2>4. m - 5 + 1 = k /\ \A i \in 1 .. k : 5 + i - 1 = 4 + i
      OBVIOUS
    <2>5. 5 \in 1 .. Len(text) + 1 /\ m \in 0 .. Len(text) /\ 5 <= m + 1
      BY <2>3
    <2> HIDE DEF m
    <2>6. /\ SubSeq(text, 5, m) \in Text /\ Len(SubSeq(text, 5, m)) = m - 5 + 1
          /\ \A i \in 1 .. m - 5 + 1 : SubSeq(text, 5, m)[i] = text[5 + i - 1]
      BY <1>5, <2>5, Stretch
    <2> DEFINE w == SubSeq(text, 5, m)
    <2>7. w \in Text /\ Len(w) = k /\ \A i \in 1 .. k : w[i] = text[5 + i - 1]
      BY <2>4, <2>6
    <2> HIDE DEF w
    <2>8. \A i \in 1 .. k : w[i] = path[i]
      <3> TAKE i \in 1 .. k
      <3>1. w[i] = text[5 + i - 1] /\ 5 + i - 1 = 4 + i
        BY <2>7
      <3>2. w[i] = text[4 + i]
        BY <3>1, Zenon
      <3> QED BY <1>6, <3>2
    <2>9. w = path
      BY <1>0, <1>1, <2>7, <2>8, SeqEqual DEF Text
    <2> QED BY <2>2, <2>9 DEF m, w
  <1>15. NoHeader \in Header
    BY FieldMaps, Constants DEF NoHeader, Header
  <1>16. ImportHeader(NoHeader, text).AccessPath = Read(text, WordEnd(text, 1), NoHeader.AccessPath)
    BY <1>5, <1>15, ImportIs
  <1> QED BY <1>1, <1>11, <1>13, <1>14, <1>16 DEF text

\* A name in a folder consists of what the two consist of.
LEMMA FullPathWithin ==
  ASSUME NEW C \in SUBSET (0 .. 255), Slash \in C, NEW path \in Seq(C), NEW name \in Seq(C)
  PROVE  FullPath(path, name) \in Seq(C)
  <1>1. Root \in Seq(C) /\ <<>> \in Seq(C)
    BY EmptySeq DEF Root
  <1>2. path \o Root \in Seq(C) /\ path \o <<>> \in Seq(C)
    BY <1>1, ConcatProperties
  <1>3. path \o Root \o name \in Seq(C) /\ path \o <<>> \o name \in Seq(C)
    BY <1>2, ConcatProperties
  <1>4. FullPath(path, name) \in {path \o Root \o name, path \o <<>> \o name}
    BY DEF FullPath
  <1> QED BY <1>3, <1>4

\* A link is something.
LEMMA LinkIsSomething ==
  ASSUME NEW path \in Text, NEW name \in Text, name # <<>>
  PROVE  /\ FullPath(path, name) # <<>> /\ URLEncode(FullPath(path, name)) # <<>>
         /\ URLEncode(FullPath(path, name)) \o Root # <<>>
  <1>0. Len(<<>>) = 0 /\ Len(name) \in Nat /\ Len(name) > 0
    BY EmptySeq, LenProperties DEF Text
  <1>1. FullPath(path, name) # <<>>
    <2>1. PICK p \in Text : FullPath(path, name) = p \o name
      <3>1. path \o <<>> \in Text /\ path \o Root \in Text
        BY Constants, Joined
      <3>2. FullPath(path, name) = path \o <<>> \o name \/ FullPath(path, name) = path \o Root \o name
        BY DEF FullPath
      <3> QED BY <3>1, <3>2
    <2>2. Len(p \o name) = Len(p) + Len(name) /\ Len(p) \in Nat
      BY Joined, Characters
    <2> QED BY <1>0, <2>1, <2>2
  <1>2. FullPath(path, name) \in Text
    BY TargetTyped
  <1>3. PICK q \in Text, c \in 0 .. 255 : FullPath(path, name) = Append(q, c)
    BY <1>1, <1>2, SequenceEmptyOrAppend DEF Text
  <1> DEFINE u == URLEncode(q)
             e == EncodeCharacter(c)
             w == URLEncode(FullPath(path, name))
  <1>4. w = u \o e
    BY <1>3, EncodedNext
  <1>5. u \in Text /\ e \in Text /\ Len(e) \in {1, 3}
    BY EncodedTyped, EncodedCharacter
  <1> HIDE DEF u, e, w
  <1>6. Len(u \o e) = Len(u) + Len(e) /\ Len(u) \in Nat /\ u \o e \in Text
    BY <1>5, Joined, Characters
  <1>7. Len(w) > 0 /\ Len(w) \in Nat /\ w \in Text
    <2>1. PICK m \in Nat, k \in {1, 3} : m = Len(u) /\ k = Len(e)
      BY <1>5, <1>6
    <2>2. Len(w) = m + k /\ w \in Text
      BY <1>4, <1>6, <2>1, Zenon
    <2> QED BY <2>2
  <1>8. Len(w \o Root) = Len(w) + Len(Root) /\ Len(Root) = 1
    BY <1>7, Constants, Joined DEF Root
  <1>9. w # <<>> /\ w \o Root # <<>>
    BY <1>0, <1>7, <1>8
  <1> QED BY <1>1, <1>9 DEF w

\* What a word consists of.
NotBlank == (0 .. 255) \ Blank

\* A browser that follows a link of an index asks for something without a blank.
LEMMA LinkIsWord ==
  ASSUME NEW asked \in Seq(NotBlank), NEW virtual \in Seq(NotBlank), NEW place,
         NEW tab \in IndexTables(virtual, place), NEW i \in DOMAIN tab
  PROVE  Normalized(Absolute(asked, tab[i].CompletePath)) \in Word
  <1>0. /\ NotBlank \in SUBSET (0 .. 255) /\ Slash \in NotBlank /\ virtual \in Text
        /\ Root \in Seq(NotBlank) /\ DotDot \in Seq(NotBlank)
    <2>1. NotBlank \in SUBSET (0 .. 255) /\ Slash \in NotBlank /\ Dot \in NotBlank
      BY DEF NotBlank, Blank, Slash, Dot, Space, Return
    <2>2. virtual \in Text
      BY <2>1, PiecesWithin
    <2>3. <<Slash>> \in Seq(NotBlank) /\ <<Dot, Dot>> \in Seq(NotBlank)
      BY <2>1
    <2> QED BY <2>1, <2>2, <2>3 DEF Root, DotDot
  <1>1. Safe \subseteq NotBlank
    BY DEF Safe, Unreserved, Digit, Capital, Small, Dot, Slash, Percent, NotBlank, Blank, Space, Return
  <1>2. tab[i].CompletePath \in Seq(NotBlank) /\ tab[i].CompletePath # <<>>
    <2>1. CASE tab[i] = ParentEntry(virtual)
      <3>1. FullPath(virtual, DotDot) \in Seq(NotBlank)
        BY <1>0, FullPathWithin
      <3>2. FullPath(virtual, DotDot) # <<>>
        BY <1>0, Constants, ThreeKinds, LinkIsSomething
      <3> QED BY <2>1, <3>1, <3>2 DEF ParentEntry, Entry
    <2>2. ASSUME NEW n \in Names(place), Head(n) # Dot, tab[i] = EntryOf(virtual, place, n)
          PROVE  tab[i].CompletePath \in Seq(NotBlank) /\ tab[i].CompletePath # <<>>
      <3> DEFINE link == URLEncode(FullPath(virtual, n))
      <3>0. link # <<>> /\ link \o Root # <<>>
        <4>1. n \in Text /\ n # <<>>
          BY NamesAreTexts DEF Names
        <4> QED BY <1>0, <4>1, LinkIsSomething
      <3>1. link \in Seq(NotBlank)
        <4>1. n \in Text
          BY NamesAreTexts DEF Names
        <4>2. FullPath(virtual, n) \in Text
          BY <1>0, <4>1, TargetTyped
        <4> QED BY <1>1, <4>2, EncodedTyped, SeqMonotonic
      <3>2. link \o Root \in Seq(NotBlank)
        BY <1>0, <3>1, ConcatProperties
      <3>3. \/ tab[i] = Entry(n, link \o Root, TRUE, 0)
            \/ tab[i] = Entry(n, link, FALSE, SizeAt(Append(place, n)))
        BY <2>2, LinkOf
      <3> HIDE DEF link
      <3>4. CASE tab[i] = Entry(n, link \o Root, TRUE, 0)
        BY <3>0, <3>2, <3>4 DEF Entry
      <3>5. CASE tab[i] = Entry(n, link, FALSE, SizeAt(Append(place, n)))
        BY <3>0, <3>1, <3>5 DEF Entry
      <3> QED BY <3>3, <3>4, <3>5
    <2> QED BY <2>1, <2>2, EntryAt
  <1> DEFINE link == Absolute(asked, tab[i].CompletePath)
  <1>4. link \in Seq(NotBlank) /\ \E k \in 1 .. Len(link) : link[k] = Slash
    BY <1>0, <1>2, AbsoluteWithin
  <1> HIDE DEF link
  <1>5. Normalized(link) \in Seq(NotBlank) /\ Normalized(link) # <<>>
    BY <1>0, <1>4, NormalizedWithin
  <1> QED BY <1>5 DEF Word, NotBlank, link

\* Where a thread is between a request and its answer.
Choosing == {"locate", "find", "size", "copy size", "mime", "match", "copy type"}

\* From an uncut first line to its answer it is the path asked for that is looked at.
Asks ==
  \A t \in Thread :
    LET b == browser[t]
        path == BrowserRequest[t].AccessPath
    IN /\ path \in Seq(NotBlank)
       /\ pc[t] \in Choosing \cup {"receive"} => b.asked \in Word
       /\ pc[t] \in Choosing => /\ path \in Word /\ answer[t] = NoAnswer
                                /\ b.cut # "line" => path = b.asked
       /\ (pc[t] = "receive" /\ answer[t] = NoAnswer /\ b.cut # "line")
            => b.cut = "nothing" /\ b.rest = RequestText(b.asked) /\ BrowserRequest[t] = NoHeader
       /\ answer[t].what = "index" => answer[t].for \in Word
       /\ (answer[t] # NoAnswer /\ b.cut # "line") => answer[t].for = b.asked

\* A header without fields has no path.
LEMMA NoHeaderIs == NoHeader.AccessPath = <<>> /\ <<>> \in Seq(NotBlank)
  BY EmptySeq DEF NoHeader

\* Nobody asks for anything at the start.
LEMMA AsksInit == Init => Asks
  <1> SUFFICES ASSUME Init, NEW t \in Thread
               PROVE  pc[t] = "away" /\ answer[t] = NoAnswer /\ BrowserRequest[t] = NoHeader
    BY NoAnswerIs, NoHeaderIs DEF Asks, Choosing
  <1> QED BY DEF Init

\* A path that is typed, or that a link leads to, is a word.
LEMMA AskedIsWord ==
  ASSUME Typed, Tables, Asks, NEW t \in Thread, TypePath(t) \/ FollowLink(t)
  PROVE  \E asked, means, from, clicks :
           asked \in Word /\ Connect(t, Browser(asked, means, from, clicks))
  <1>1. CASE TypePath(t)
    <2>1. PICK path \in visit.typed[t] : Connect(t, Browser(path, NoPath, NoPath, 0))
      BY <1>1 DEF TypePath
    <2>2. visit \in [typed : [Thread -> SUBSET Word], clicks : Nat]
      BY AnsweringAssumption DEF Typed
    <2>3. path \in Word
      BY <2>2
    <2> QED BY <2>1, <2>3
  <1>2. CASE FollowLink(t)
    <2>1. PICK i \in DOMAIN answer[t].table :
            Connect(t, Browser(Normalized(Absolute(browser[t].asked, answer[t].table[i].CompletePath)),
                               Target(answer[t].path, answer[t].table[i].Name), answer[t].for,
                               browser[t].clicks + 1))
      BY <1>2 DEF FollowLink
    <2>2. answer[t].what = "index" /\ pc[t] = "receive"
      BY <1>2 DEF FollowLink
    <2>3. answer[t].for \in Seq(NotBlank) /\ browser[t].asked \in Seq(NotBlank)
      BY <2>2 DEF Asks, Word, NotBlank
    <2>4. answer[t].table \in IndexTables(answer[t].for, Lookup(answer[t].path))
      BY <2>2 DEF Tables
    <2>5. Normalized(Absolute(browser[t].asked, answer[t].table[i].CompletePath)) \in Word
      BY <2>3, <2>4, LinkIsWord
    <2> QED BY <2>1, <2>5
  <1> QED BY <1>1, <1>2

\* What a thread knows of the path when a piece of the request has arrived.
LEMMA ReceiveAsks == ASSUME Typed, Asks, NEW t \in Thread, Receive(t) PROVE Asks'
  <1>1. PICK n \in Cuts(t) \cup {Len(browser[t].rest)} :
          LET header == ImportHeader(BrowserRequest[t], SubSeq(browser[t].rest, 1, n))
          IN /\ BrowserRequest' = [BrowserRequest EXCEPT ![t] = header]
             /\ browser' = [browser EXCEPT ![t].rest = SubSeq(@, n + 1, Len(@)),
                  ![t].cut = CASE n = Len(browser[t].rest)               -> @
                               [] n # Len(browser[t].rest) /\ n < Len(FirstLine(browser[t].asked)) -> "line"
                               [] OTHER                                   -> "fields"]
             /\ Goto(t, IF ToBeAnswered(t, header) THEN "locate" ELSE "receive")
    BY DEF Receive
  <1> DEFINE rest == browser[t].rest
             asked == browser[t].asked
             text == SubSeq(rest, 1, n)
             header == ImportHeader(BrowserRequest[t], text)
             cut == CASE n = Len(rest) -> browser[t].cut
                      [] n # Len(rest) /\ n < Len(FirstLine(asked)) -> "line"
                      [] OTHER -> "fields"
  <1>2. /\ browser[t] \in BrowserType /\ rest \in Text /\ Len(rest) \in Nat
        /\ BrowserRequest[t] \in Header /\ asked \in Word /\ asked \in Text
    <2>1. browser[t] \in BrowserType /\ BrowserRequest[t] \in Header
      BY DEF Typed
    <2>2. rest \in Text /\ asked \in Text
      BY <2>1 DEF BrowserType
    <2>3. asked \in Word
      BY DEF Asks, Receive
    <2> QED BY <2>1, <2>2, <2>3, Characters
  <1>3. n \in Nat /\ n <= Len(rest) /\ (n # Len(rest) => browser[t].cut = "nothing")
    <2>1. ASSUME n \in Cuts(t) PROVE n \in Nat /\ n < Len(rest) /\ browser[t].cut = "nothing"
      <3>1. n \in Lengths[t] /\ n < Len(rest) /\ browser[t].cut = "nothing"
        BY <2>1 DEF Cuts
      <3>2. Lengths \in [Thread -> SUBSET (Nat \ {0})]
        BY AnsweringAssumption
      <3> QED BY <3>1, <3>2
    <2> QED BY <1>2, <2>1
  <1>4. text \in Text
    <2>1. 1 \in Nat \ {0}
      OBVIOUS
    <2> QED BY <1>2, <1>3, <2>1, Within
  <1>5. /\ DOMAIN browser = Thread /\ DOMAIN pc = Thread /\ DOMAIN BrowserRequest = Thread
        /\ pc[t] = "receive" /\ answer' = answer
    BY DEF Typed, Receive, Buffers
  <1>6. /\ browser'[t].asked = asked /\ browser'[t].cut = cut
        /\ \A u \in Thread \ {t} : browser'[u] = browser[u]
    <2>1. browser \in [Thread -> BrowserType]
      BY DEF Typed
    <2>2. browser' = [browser EXCEPT ![t] = [browser[t] EXCEPT !.rest = SubSeq(rest, n + 1, Len(rest)), !.cut = cut]]
      BY <1>1, <2>1
    <2> HIDE DEF cut, rest
    <2> QED BY <1>2, <2>1, <2>2 DEF BrowserType
  <1>7. /\ BrowserRequest'[t] = header
        /\ \A u \in Thread \ {t} : BrowserRequest'[u] = BrowserRequest[u] /\ pc'[u] = pc[u]
        /\ pc'[t] = IF header.AccessPath # <<>> /\ answer[t] = NoAnswer THEN "locate" ELSE "receive"
    BY <1>1, <1>5 DEF Goto, ToBeAnswered
  <1>8. /\ header.AccessPath \in Seq(NotBlank)
        /\ header.AccessPath # <<>> => header.AccessPath \in Word
    <2>1. header.AccessPath = Read(text, WordEnd(text, 1), BrowserRequest[t].AccessPath)
      BY <1>2, <1>4, ImportIs
    <2>2. WordEnd(text, 1) \in Nat \ {0}
      <3>1. 1 \in Nat \ {0}
        OBVIOUS
      <3> QED BY <1>4, <3>1, WordIs
    <2> HIDE DEF header, text
    <2>3. header.AccessPath \in Word \cup {BrowserRequest[t].AccessPath}
      BY <1>4, <2>1, <2>2, ReadWord
    <2>4. BrowserRequest[t].AccessPath \in Seq(NotBlank)
      BY DEF Asks
    <2> QED BY <2>3, <2>4 DEF Word, NotBlank
  <1>9. cut # "line" => browser[t].cut # "line" /\ (n = Len(rest) \/ n >= Len(FirstLine(asked)))
    <2>1. Len(FirstLine(asked)) \in Nat
      BY <1>2, RequestTyped, Characters
    <2> QED BY <1>2, <1>3, <2>1
  <1>10. (answer[t] = NoAnswer /\ cut # "line") => header.AccessPath = asked
    <2> SUFFICES ASSUME answer[t] = NoAnswer, cut # "line" PROVE header.AccessPath = asked
      OBVIOUS
    <2>1. rest = RequestText(asked) /\ BrowserRequest[t] = NoHeader
      BY <1>5, <1>9 DEF Asks
    <2>2. Len(FirstLine(asked)) \in Nat /\ Len(FirstLine(asked)) <= Len(RequestText(asked))
      <3>1. PICK fields \in Text : RequestText(asked) = FirstLine(asked) \o fields \o <<Return, NewLine>>
        BY <1>2, RequestTyped
      <3>2. /\ FirstLine(asked) \in Text /\ FirstLine(asked) \o fields \in Text
            /\ Len(FirstLine(asked) \o fields) = Len(FirstLine(asked)) + Len(fields)
            /\ Len(FirstLine(asked)) \in Nat /\ Len(fields) \in Nat
        BY <1>2, RequestTyped, Joined
      <3>3. /\ Len(RequestText(asked)) = Len(FirstLine(asked) \o fields) + Len(<<Return, NewLine>>)
            /\ Len(<<Return, NewLine>>) \in Nat
        BY <3>1, <3>2, Constants, Joined
      <3> QED BY <3>2, <3>3
    <2>3. n \in Nat /\ n >= Len(FirstLine(asked)) /\ n <= Len(RequestText(asked))
      BY <1>3, <1>9, <2>1, <2>2
    <2>4. ImportHeader(NoHeader, SubSeq(RequestText(asked), 1, n)).AccessPath = asked
      BY <1>2, <2>3, FirstLineRead
    <2> QED BY <2>1, <2>4
  <1>11. asked # <<>>
    BY <1>2 DEF Word
  <1> HIDE DEF rest, asked, text, header, cut
  <1> SUFFICES ASSUME NEW u \in Thread
               PROVE  /\ BrowserRequest'[u].AccessPath \in Seq(NotBlank)
                      /\ pc'[u] \in Choosing \cup {"receive"} => browser'[u].asked \in Word
                      /\ pc'[u] \in Choosing =>
                           /\ BrowserRequest'[u].AccessPath \in Word /\ answer'[u] = NoAnswer
                           /\ browser'[u].cut # "line" => BrowserRequest'[u].AccessPath = browser'[u].asked
                      /\ (pc'[u] = "receive" /\ answer'[u] = NoAnswer /\ browser'[u].cut # "line")
                           => /\ browser'[u].cut = "nothing" /\ browser'[u].rest = RequestText(browser'[u].asked)
                              /\ BrowserRequest'[u] = NoHeader
                      /\ answer'[u].what = "index" => answer'[u].for \in Word
                      /\ (answer'[u] # NoAnswer /\ browser'[u].cut # "line") => answer'[u].for = browser'[u].asked
    BY DEF Asks
  <1>12. CASE u = t
    <2>1. answer[t].what = "index" => answer[t].for \in Word
      BY DEF Asks
    <2>2. (answer[t] # NoAnswer /\ browser[t].cut # "line") => answer[t].for = asked
      BY DEF Asks, asked
    <2> QED BY <1>2, <1>5, <1>6, <1>7, <1>8, <1>9, <1>10, <1>11, <1>12, <2>1, <2>2 DEF Choosing
  <1>13. CASE u # t
    BY <1>5, <1>6, <1>7, <1>13 DEF Asks
  <1> QED BY <1>12, <1>13

\* No step answers for something else.
LEMMA AsksNext == Typed /\ Tables /\ Asks /\ [Next]_vars => Asks'
  <1> SUFFICES ASSUME Typed, Tables, Asks, [Next]_vars PROVE Asks'
    OBVIOUS
  <1>0. /\ DOMAIN pc = Thread /\ DOMAIN answer = Thread /\ DOMAIN browser = Thread
        /\ DOMAIN BrowserRequest = Thread
    BY DEF Typed
  <1>1. CASE UNCHANGED vars
    BY <1>1 DEF vars, Asks
  <1>2. ASSUME NEW t \in Thread, Step(t) PROVE Asks'
    <2> USE <1>0, NoAnswerIs, NoHeaderIs DEF Asks, Goto, Index, Buffers, Choosing
    <2>1. CASE TypePath(t) \/ FollowLink(t)
      <3>1. PICK asked, means, from, clicks :
              asked \in Word /\ Connect(t, Browser(asked, means, from, clicks))
        BY <2>1, AskedIsWord
      <3> DEFINE b == Browser(asked, means, from, clicks)
      <3>2. b.asked = asked /\ b.cut = "nothing" /\ b.rest = RequestText(asked)
        BY DEF Browser
      <3> HIDE DEF b
      <3>3. Connect(t, b)
        BY <3>1 DEF b
      <3>4. asked \in Word
        BY <3>1
      <3> QED BY <3>2, <3>3, <3>4 DEF Connect
    <2>2. ASSUME Gone(t), Leave(t) \/ FollowElsewhere(t) \/ OpenFails(t) PROVE Asks'
      BY <2>2 DEF Gone
    <2>3. CASE Leave(t) \/ FollowElsewhere(t)
      BY <2>2, <2>3 DEF Leave, FollowElsewhere
    <2>4. CASE Receive(t)
      BY <2>4, ReceiveAsks
    <2>5. CASE Illegal(t)
      <3> DEFINE a == Answer(BrowserRequest[t].AccessPath, "illegal", NoPath)
      <3>1. a.what = "illegal" /\ a.for = BrowserRequest[t].AccessPath
        BY DEF Answer
      <3> HIDE DEF a
      <3>2. answer' = [answer EXCEPT ![t] = a] /\ pc[t] = "locate"
            /\ pc' = [pc EXCEPT ![t] = "receive"] /\ UNCHANGED <<browser, BrowserRequest>>
        BY <2>5 DEF Illegal, a
      <3> QED BY <3>1, <3>2
    <2>6. CASE LocateResource(t)
      BY <2>6 DEF LocateResource
    <2>7. CASE NotFound(t)
      BY <2>7 DEF NotFound, Told, Answer
    <2>8. CASE FindFile(t)
      BY <2>8 DEF FindFile
    <2>9. CASE FindFolder(t)
      BY <2>9 DEF FindFolder
    <2>10. CASE FindUnreadable(t) \/ Overrun(t)
      BY <2>10 DEF FindUnreadable, Overrun
    <2>11. CASE WriteSize(t)
      BY <2>11 DEF WriteSize, Disturb
    <2>12. CASE CopySize(t)
      BY <2>12 DEF CopySize
    <2>13. CASE IndexDone(t)
      BY <2>13 DEF IndexDone, Told, Answer
    <2>14. CASE DefaultType(t)
      BY <2>14 DEF DefaultType, Disturb
    <2>15. CASE MatchType(t)
      BY <2>15 DEF MatchType, Disturb
    <2>16. CASE NoMatch(t)
      BY <2>16 DEF NoMatch
    <2>17. CASE SendHeader(t)
      BY <2>17 DEF SendHeader, Told, Answer
    <2>18. CASE OpenFails(t)
      BY <2>2, <2>18 DEF OpenFails
    <2> QED BY <1>2, <2>1, <2>3, <2>4, <2>5, <2>6, <2>7, <2>8, <2>9, <2>10, <2>11, <2>12,
               <2>13, <2>14, <2>15, <2>16, <2>17, <2>18 DEF Step
  <1> QED BY <1>1, <1>2 DEF Next

\* What is asked and what is looked at stay together.
LEMMA AsksHold == Spec => [](Typed /\ Tables /\ Chosen /\ Asks)
  BY TypesHold, TablesHold, ChoicesHold, AsksInit, AsksNext, PTL DEF Spec

\* A browser whose first line arrives uncut is answered for the path it asked for, whatever
\* its fields are, wherever they are cut and whatever a later piece is taken for, for any
\* path that has no blank.
THEOREM AnsweredAsAsked == Spec => []AnswersTheAsked
  <1>1. Asks => AnswersTheAsked
    BY DEF Asks, AnswersTheAsked
  <1> QED BY <1>1, AsksHold, PTL

--------------------------------------------------------------------------------
(* Where a link leads *)

\* What comes behind the last slash of a text, and what lies above it.
LEMMA BehindSlash ==
  ASSUME NEW t \in Text, NEW x \in Part
  PROVE  /\ t \o Root \o x \in Text /\ Above(t \o Root \o x) = t
         /\ Last(Pieces(t \o Root \o x)) = x
         /\ x # <<>> => Last(t \o Root \o x) # Slash
         /\ t \o Root \o x # <<>>
  <1> DEFINE w == t \o Root \o x
             a == t \o Root
  <1>0. x \in Text /\ Root \in Text /\ Len(Root) = 1
    BY Constants DEF Part, Root
  <1>1. a \in Text /\ Len(a) = Len(t) + Len(Root) /\ \A i \in 1 .. Len(t) : a[i] = t[i]
    BY <1>0, Joined
  <1>2. PICK k \in Nat : k = Len(t)
    BY Characters
  <1>3. PICK m \in Nat : m = Len(x)
    BY <1>0, Characters
  <1> HIDE DEF a
  <1>4. /\ a \o x \in Text /\ Len(a \o x) = Len(a) + Len(x)
        /\ \A i \in 1 .. Len(a) : (a \o x)[i] = a[i]
        /\ \A i \in 1 .. Len(x) : (a \o x)[Len(a) + i] = x[i]
    BY <1>0, <1>1, Joined, Zenon
  <1>5. w = a \o x
    BY DEF a
  <1> HIDE DEF w
  <1>6. Len(a) = k + 1 /\ Len(w) = k + 1 + m /\ w \in Text
    BY <1>0, <1>1, <1>2, <1>3, <1>4, <1>5
  <1>7. \A i \in 1 .. k : w[i] = t[i]
    BY <1>0, <1>1, <1>2, <1>4, <1>5
  <1>8. \A i \in 1 .. m : w[k + 1 + i] = x[i]
    BY <1>3, <1>4, <1>5, <1>6
  <1>9. Last(Pieces(w)) = x
    <2>1. Pieces(w) = Append(Pieces(t), x)
      BY PiecesAppend DEF w
    <2>2. Pieces(t) \in Seq(Part) /\ Len(Pieces(t)) \in Nat
      BY PiecesAreParts
    <2>3. /\ Len(Append(Pieces(t), x)) = Len(Pieces(t)) + 1
          /\ Append(Pieces(t), x)[Len(Pieces(t)) + 1] = x
      BY <2>2, AppendProperties
    <2> QED BY <2>1, <2>3 DEF Last
  <1>10. Above(w) = t
    <2>1. Len(w) - Len(Last(Pieces(w))) - 1 = k
      BY <1>3, <1>6, <1>9
    <2>2. Above(w) = SubSeq(w, 1, k)
      BY <2>1 DEF Above
    <2>3. 1 \in 1 .. Len(w) + 1 /\ k \in 0 .. Len(w) /\ 1 <= k + 1
      BY <1>6
    <2>4. /\ SubSeq(w, 1, k) \in Text /\ Len(SubSeq(w, 1, k)) = k - 1 + 1
          /\ \A i \in 1 .. k - 1 + 1 : SubSeq(w, 1, k)[i] = w[1 + i - 1]
      BY <1>6, <2>3, Stretch
    <2> DEFINE v == SubSeq(w, 1, k)
    <2>5. k - 1 + 1 = k /\ \A i \in 1 .. k : 1 + i - 1 = i
      OBVIOUS
    <2>6. v \in Text /\ Len(v) = k /\ \A i \in 1 .. k : v[i] = w[i]
      BY <2>4, <2>5
    <2> HIDE DEF v
    <2>7. v = t
      BY <1>2, <1>7, <2>6, SeqEqual DEF Text
    <2> QED BY <2>2, <2>7 DEF v
  <1>11. ASSUME x # <<>> PROVE Last(w) # Slash
    <2>1. m # 0
      BY <1>0, <1>3, <1>11, EmptySeq DEF Text
    <2>2. m \in 1 .. m
      BY <2>1
    <2>3. x[m] # Slash /\ w[k + 1 + m] = x[m]
      BY <1>3, <1>8, <2>2 DEF Part
    <2> QED BY <1>6, <2>3 DEF Last
  <1>12. w # <<>>
    <2>1. Len(w) > 0 /\ Len(<<>>) = 0
      BY <1>6
    <2> QED BY <2>1
  <1> QED BY <1>6, <1>9, <1>10, <1>11, <1>12 DEF w

\* A slash at the end of a path changes nothing, and the root is where paths start.
LEMMA SlashAtEnd ==
  /\ \A t \in Text : t \o Root \in Text /\ PathExplode(t \o Root) = PathExplode(t)
  /\ PathExplode(Root) = Start
  <1>1. ASSUME NEW t \in Text PROVE t \o Root \in Text /\ PathExplode(t \o Root) = PathExplode(t)
    <2>1. <<>> \in Part /\ Pieces(t) \in Seq(Part)
      BY ThreeKinds, PiecesAreParts
    <2>2. Pieces(t \o Root \o <<>>) = Append(Pieces(t), <<>>)
      BY <2>1, PiecesAppend
    <2>3. t \o Root \in Text
      BY Constants, Joined
    <2>4. t \o Root \o <<>> = t \o Root
      BY <2>3, JoinedNone
    <2>5. Exploded(Append(Pieces(t), <<>>)) = Enter(Exploded(Pieces(t)), <<>>)
      BY <2>1, ExplodedNext
    <2>6. Exploded(Pieces(t)) \in Place
      BY <2>1, ExplodedTyped
    <2>7. Enter(Exploded(Pieces(t)), <<>>) = Exploded(Pieces(t))
      BY <2>1, <2>6, EnterIs
    <2> QED BY <2>2, <2>3, <2>4, <2>5, <2>7 DEF PathExplode, Exploded, Start
  <1>2. PathExplode(Root) = Start
    <2>1. <<>> \in Text /\ <<>> \in Seq(Name) /\ Root \in Text
      BY Constants, EmptySeq
    <2>2. PathExplode(Join(<<>>)) = [legal |-> TRUE, parts |-> <<>>]
      BY <2>1, JoinedNames
    <2>3. PathExplode(<<>>) = Start
      BY <2>2, JoinNone DEF Start
    <2>4. <<>> \o Root = Root
      BY <2>1, JoinedNone
    <2> QED BY <1>1, <2>1, <2>3, <2>4
  <1> QED BY <1>1, <1>2

\* The link of a name is a name.
LEMMA EncodedName ==
  ASSUME NEW n \in Part, n # <<>>, Head(n) # Dot
  PROVE  URLEncode(n) \in Name
  <1>0. n \in Text
    BY DEF Part
  <1> DEFINE u == URLEncode(n)
             c == Head(n)
             r == Tail(n)
  <1>1. c \in 0 .. 255 /\ r \in Text /\ n = <<c>> \o r
    <2>1. c \in 0 .. 255 /\ r \in Text
      BY <1>0, HeadTailProperties DEF Text
    <2>2. n = <<c>> \o r
      BY <1>0 DEF Text
    <2> QED BY <2>1, <2>2
  <1> HIDE DEF c, r
  <1>2. <<c>> \in Text /\ EncodeCharacter(c) \in Text /\ URLEncode(r) \in Text
    BY <1>1, EncodedCharacter, EncodedTyped, OneMore, Constants
  <1>3. URLEncode(<<c>>) = EncodeCharacter(c)
    <2>1. URLEncode(Append(<<>>, c)) = URLEncode(<<>>) \o EncodeCharacter(c)
      BY <1>1, EncodedNext, Constants
    <2>2. <<>> \o EncodeCharacter(c) = EncodeCharacter(c)
      BY <1>2, JoinedNone
    <2>3. Append(<<>>, c) = <<c>>
      OBVIOUS
    <2> QED BY <2>1, <2>2, <2>3, EncodedNext
  <1>4. u = EncodeCharacter(c) \o URLEncode(r)
    BY <1>1, <1>2, <1>3, EncodedJoin
  <1> DEFINE e == EncodeCharacter(c)
  <1>5. /\ e \in Text /\ Len(e) \in {1, 3} /\ e[1] # Dot
    BY <1>1, EncodedCharacter DEF c
  <1>6. /\ Len(e \o URLEncode(r)) = Len(e) + Len(URLEncode(r)) /\ Len(URLEncode(r)) \in Nat
        /\ \A i \in 1 .. Len(e) : (e \o URLEncode(r))[i] = e[i]
    BY <1>2, Joined
  <1> HIDE DEF e, u
  <1>7. u[1] # Dot /\ Len(u) > 0
    <2>1. u = e \o URLEncode(r)
      BY <1>4 DEF e
    <2>2. 1 \in 1 .. Len(e)
      BY <1>5
    <2> QED BY <1>5, <1>6, <2>1, <2>2
  <1>8. u \in Part
    BY <1>0, EncodedTyped DEF u
  <1>9. u # <<>> /\ u # <<Dot>> /\ u # DotDot
    BY <1>7 DEF DotDot
  <1> QED BY <1>8, <1>9 DEF Name, IsName, u

\* A path that needs no encoding leads to what is left of its pieces, as it stands.
LEMMA PlainLeads ==
  ASSUME NEW virtual \in Text, Plain(virtual), Resolve(virtual).legal
  PROVE  \E s \in Seq(Name) :
           /\ PathExplode(virtual) = [legal |-> TRUE, parts |-> s]
           /\ s \in Seq(Seq(Unreserved))
           /\ LedTo(virtual) = <<Dot>> \o Join(s)
           /\ \A name \in Text : FullPath(virtual, name) = Join(s) \o Root \o name
  <1>0. /\ Unreserved \in SUBSET (0 .. 255) /\ Slash \in Unreserved /\ Dot \in Unreserved
        /\ Unreserved \subseteq (0 .. 255) \ {Percent}
    BY DEF Unreserved, Digit, Capital, Small, Slash, Dot, Percent
  <1>1. virtual \in Seq(Unreserved)
    BY PlainText DEF Plain
  <1>2. /\ PathExplode(virtual) \in Place /\ PathExplode(virtual).legal = TRUE
        /\ Resolve(virtual).path = <<Dot>> \o Join(PathExplode(virtual).parts)
        /\ PathExplode(virtual).parts = ResolvedParts(virtual).parts
    BY ResolvedOnce, ExplodesAsResolved DEF Place
  <1> DEFINE s == PathExplode(virtual).parts
  <1>3. s \in Seq(Name) /\ PathExplode(virtual) = [legal |-> TRUE, parts |-> s]
    BY <1>2 DEF Place
  <1>4. s \in Seq(Seq(Unreserved)) /\ Join(s) \in Seq(Unreserved)
    BY <1>0, <1>1, <1>2, ResolvedWithin
  <1>5. <<Dot>> \o Join(s) \in Seq(Unreserved)
    <2>1. <<Dot>> \in Seq(Unreserved)
      BY <1>0
    <2> QED BY <1>4, <2>1, ConcatProperties
  <1>6. <<Dot>> \o Join(s) \in Seq((0 .. 255) \ {Percent})
    <2> DEFINE C == (0 .. 255) \ {Percent}
    <2>1. Unreserved \subseteq C
      BY <1>0
    <2> HIDE DEF C
    <2>2. <<Dot>> \o Join(s) \in Seq(C)
      BY <1>5, <2>1, SeqMonotonic
    <2> QED BY <2>2 DEF C
  <1>7. ParseURLEncoding(<<Dot>> \o Join(s)) = <<Dot>> \o Join(s)
    BY <1>6, Constants, ParsedPlain
  <1>8. LedTo(virtual) = <<Dot>> \o Join(s)
    BY <1>2, <1>7 DEF LedTo
  <1>9. virtual # <<>> /\ virtual \in {Join(s), Join(s) \o Root}
    BY DEF Plain
  <1>10. Join(s) \in Text /\ Join(s) \o Root \in Text
    BY <1>3, NamedTexts, JoinTyped, SlashAtEnd
  <1> HIDE DEF s
  <1>11. ASSUME NEW name \in Text PROVE FullPath(virtual, name) = Join(s) \o Root \o name
    <2>1. CASE virtual = Join(s)
      <3>1. s # <<>>
        BY <1>9, <2>1, JoinNone
      <3>2. PICK q \in Seq(Name), x \in Name : s = Append(q, x)
        BY <1>3, <3>1, SequenceEmptyOrAppend
      <3>3. Join(s) = Join(q) \o Root \o x /\ Join(q) \in Text /\ x \in Part /\ x # <<>>
        BY <3>2, JoinNext, NamedTexts, JoinTyped, ThreeKinds
      <3>4. Last(virtual) # Slash
        BY <2>1, <3>3, BehindSlash
      <3> QED BY <2>1, <3>4 DEF FullPath
    <2>2. CASE virtual = Join(s) \o Root
      <3> DEFINE w == Join(s)
      <3> HIDE DEF w
      <3>1. w \in Text /\ Root \in Text /\ Len(Root) = 1 /\ Root[1] = Slash
        BY <1>10, Constants DEF w, Root
      <3>2. /\ Len(w \o Root) = Len(w) + Len(Root) /\ Len(w) \in Nat
            /\ \A i \in 1 .. Len(Root) : (w \o Root)[Len(w) + i] = Root[i]
        BY <3>1, Joined
      <3>3. (w \o Root)[Len(w) + 1] = Slash /\ Len(w \o Root) = Len(w) + 1
        BY <3>1, <3>2
      <3>4. Last(virtual) = Slash
        BY <2>2, <3>3 DEF Last, w
      <3>5. virtual \o <<>> = virtual
        BY JoinedNone
      <3> QED BY <2>2, <3>4, <3>5 DEF FullPath
    <2> QED BY <1>9, <2>1, <2>2
  <1> QED BY <1>3, <1>4, <1>8, <1>11 DEF s

\* The file that some names lead to is not the folder they start from, and the last of
\* them is its name.
LEMMA Folder ==
  ASSUME NEW s \in Seq(Name)
  PROVE  /\ <<Dot>> \o Join(s) \in Text /\ Last(<<Dot>> \o Join(s)) # Slash
         /\ <<Dot>> \o Join(s) # <<>>
         /\ s = <<>> => <<Dot>> \o Join(s) = <<Dot>>
         /\ s # <<>> => /\ <<Dot>> \o Join(s) # <<Dot>>
                        /\ Above(<<Dot>> \o Join(s)) = <<Dot>> \o Join(Front(s))
                        /\ Front(s) \in Seq(Name)
  <1>0. <<Dot>> \in Text /\ Join(s) \in Text /\ <<Dot>> \o Join(s) \in Text
    BY Constants, NamedTexts, JoinTyped, Joined
  <1>1. CASE s = <<>>
    <2>1. <<Dot>> \o Join(s) = <<Dot>>
      BY <1>0, <1>1, JoinNone, JoinedNone
    <2>2. Last(<<Dot>>) # Slash /\ <<Dot>> # <<>>
      BY DEF Last, Dot, Slash
    <2> QED BY <1>0, <1>1, <2>1, <2>2
  <1>2. CASE s # <<>>
    <2>1. PICK q \in Seq(Name), x \in Name : s = Append(q, x)
      BY <1>2, SequenceEmptyOrAppend
    <2>2. x \in Part /\ x \in Text /\ x # <<>> /\ Join(q) \in Text /\ Root \in Text
      BY ThreeKinds, NamedTexts, JoinTyped, Constants
    <2>3. Join(s) = Join(q) \o Root \o x
      BY <2>1, JoinNext
    <2> DEFINE t == <<Dot>> \o Join(q)
    <2>4. t \in Text
      BY <1>0, <2>2, Joined
    <2>5. <<Dot>> \o Join(s) = t \o Root \o x
      <3> DEFINE d == <<Dot>>
                 j == Join(q)
                 k == j \o Root
      <3>1. d \in Text /\ k \in Text /\ x \in Text
        BY <1>0, <2>2, Joined
      <3>2. d \in Text /\ j \in Text /\ Root \in Text
        BY <1>0, <2>2
      <3> HIDE DEF d, j, k
      <3>3. d \o (k \o x) = (d \o k) \o x
        BY <3>1, Regroup, Zenon
      <3>4. d \o (j \o Root) = (d \o j) \o Root
        BY <3>2, Regroup, Zenon
      <3> QED BY <2>3, <3>3, <3>4 DEF d, j, k
    <2>6. Front(s) = q
      <3>1. Len(s) = Len(q) + 1 /\ Len(q) \in Nat /\ \A i \in 1 .. Len(q) : s[i] = q[i]
        BY <2>1, AppendProperties, LenProperties
      <3>2. Len(s) > 0 /\ Len(s) - 1 = Len(q)
        BY <3>1
      <3>3. /\ Front(s) \in Seq(Name) /\ Len(Front(s)) = Len(s) - 1
            /\ \A i \in 1 .. Len(s) - 1 : Front(s)[i] = s[i]
        BY <3>2, FrontIs
      <3> QED BY <3>1, <3>2, <3>3, SeqEqual
    <2> HIDE DEF t
    <2>7. /\ Above(t \o Root \o x) = t /\ Last(t \o Root \o x) # Slash
          /\ t \o Root \o x # <<>>
      BY <2>2, <2>4, BehindSlash
    <2>8. t \o Root \o x # <<Dot>>
      <3>1. Last(Pieces(t \o Root \o x)) = x
        BY <2>2, <2>4, BehindSlash
      <3>2. <<Dot>> \in Part
        BY <1>0 DEF Part, Dot, Slash
      <3>3. Pieces(<<Dot>>) = <<<<Dot>>>>
        BY <3>2, OnePiece
      <3>4. Last(Pieces(<<Dot>>)) = <<Dot>>
        <4> DEFINE d == <<Dot>>
        <4> HIDE DEF d
        <4>1. Len(<<d>>) = 1 /\ <<d>>[1] = d
          OBVIOUS
        <4>2. Last(<<d>>) = d
          BY <4>1 DEF Last
        <4> QED BY <3>3, <4>2 DEF d
      <3>5. x # <<Dot>>
        BY ThreeKinds
      <3> QED BY <3>1, <3>4, <3>5
    <2> QED BY <1>0, <1>2, <2>1, <2>5, <2>6, <2>7, <2>8 DEF t
  <1> QED BY <1>1, <1>2

\* Names that need no encoding lead to a file as they stand.
LEMMA PlainNames ==
  ASSUME NEW s \in Seq(Name), s \in Seq(Seq(Unreserved))
  PROVE  /\ <<Dot>> \o Join(s) \in Seq((0 .. 255) \ {Percent})
         /\ <<Dot>> \o Join(s) \o Root \in Seq((0 .. 255) \ {Percent})
         /\ ParseURLEncoding(<<Dot>> \o Join(s)) = <<Dot>> \o Join(s)
  <1> DEFINE C == (0 .. 255) \ {Percent}
             U == Unreserved
  <1>0. /\ U \in SUBSET (0 .. 255) /\ Slash \in U /\ Dot \in U /\ U \subseteq C
    BY DEF Unreserved, Digit, Capital, Small, Slash, Dot, Percent
  <1>1. s \in Seq(Seq(U))
    OBVIOUS
  <1> HIDE DEF C, U
  <1>2. <<Dot>> \in Seq(U) /\ Root \in Seq(U) /\ Join(s) \in Seq(U)
    BY <1>0, <1>1, JoinWithin DEF Root
  <1>3. <<Dot>> \o Join(s) \in Seq(U)
    BY <1>2, ConcatProperties
  <1>4. <<Dot>> \o Join(s) \o Root \in Seq(U)
    BY <1>2, <1>3, ConcatProperties
  <1>5. <<Dot>> \o Join(s) \in Seq(C) /\ <<Dot>> \o Join(s) \o Root \in Seq(C)
    BY <1>0, <1>3, <1>4, SeqMonotonic
  <1>6. ParseURLEncoding(<<Dot>> \o Join(s)) = <<Dot>> \o Join(s)
    BY <1>5, Constants, ParsedPlain DEF C
  <1> QED BY <1>5, <1>6 DEF C

\* The first of several is the same whether one more is added or not.
LEMMA TailAppend ==
  ASSUME NEW S, NEW p \in Seq(S), NEW x \in S, p # <<>>
  PROVE  Tail(Append(p, x)) = Append(Tail(p), x)
  <1>1. /\ Len(p) \in Nat /\ Len(p) > 0
        /\ Append(p, x) \in Seq(S) /\ Len(Append(p, x)) = Len(p) + 1
        /\ Append(p, x)[Len(p) + 1] = x /\ \A i \in 1 .. Len(p) : Append(p, x)[i] = p[i]
    BY AppendProperties, LenProperties, EmptySeq
  <1>2. /\ Tail(p) \in Seq(S) /\ Len(Tail(p)) = Len(p) - 1
        /\ \A i \in 1 .. Len(p) - 1 : Tail(p)[i] = p[i + 1]
    BY <1>1, HeadTailProperties
  <1>3. /\ Append(Tail(p), x) \in Seq(S) /\ Len(Append(Tail(p), x)) = Len(p)
        /\ Append(Tail(p), x)[Len(p)] = x
        /\ \A i \in 1 .. Len(p) - 1 : Append(Tail(p), x)[i] = p[i + 1]
    BY <1>1, <1>2, AppendProperties
  <1>4. /\ Tail(Append(p, x)) \in Seq(S) /\ Len(Tail(Append(p, x))) = Len(p)
        /\ \A i \in 1 .. Len(p) : Tail(Append(p, x))[i] = Append(p, x)[i + 1]
    BY <1>1, HeadTailProperties, EmptySeq
  <1> DEFINE a == Tail(Append(p, x))
             b == Append(Tail(p), x)
  <1>5. ASSUME NEW i \in 1 .. Len(p) PROVE a[i] = b[i]
    <2>1. CASE i = Len(p)
      BY <1>1, <1>3, <1>4, <2>1
    <2>2. CASE i # Len(p)
      <3>1. i \in 1 .. Len(p) - 1 /\ i + 1 \in 1 .. Len(p)
        BY <1>1, <2>2
      <3> QED BY <1>1, <1>3, <1>4, <3>1
    <2> QED BY <2>1, <2>2
  <1> HIDE DEF a, b
  <1>6. a \in Seq(S) /\ b \in Seq(S) /\ Len(a) = Len(b) /\ \A i \in 1 .. Len(a) : a[i] = b[i]
    BY <1>3, <1>4, <1>5 DEF a, b
  <1>7. a = b
    BY <1>6, SeqEqual
  <1> QED BY <1>7 DEF a, b

\* The pieces of names put together are those names, behind the empty one that lies before
\* the first slash.
LEMMA PiecesOfNames ==
  \A v \in Seq(Name) : Pieces(Join(v)) # <<>> /\ Tail(Pieces(Join(v))) = v
  <1> DEFINE T == {v \in Seq(Name) : Pieces(Join(v)) # <<>> /\ Tail(Pieces(Join(v))) = v}
  <1>1. <<>> \in T
    <2>1. Pieces(<<>>) = << <<>> >>
      BY ThreeKinds, OnePiece
    <2>2. Tail(<< <<>> >>) = <<>> /\ << <<>> >> # <<>>
      OBVIOUS
    <2> QED BY <2>1, <2>2, JoinNone, EmptySeq
  <1>2. ASSUME NEW v \in Seq(Name), NEW x \in Name, v \in T PROVE Append(v, x) \in T
    <2>1. Join(Append(v, x)) = Join(v) \o Root \o x /\ Join(v) \in Text /\ x \in Part
      BY JoinNext, NamedTexts, JoinTyped, ThreeKinds
    <2>2. Pieces(Join(Append(v, x))) = Append(Pieces(Join(v)), x) /\ Pieces(Join(v)) \in Seq(Part)
      BY <2>1, PiecesAppend, PiecesAreParts
    <2>3. Pieces(Join(v)) # <<>> /\ Tail(Pieces(Join(v))) = v
      BY <1>2
    <2> DEFINE p == Pieces(Join(v))
    <2> HIDE DEF p
    <2>4. p \in Seq(Part) /\ p # <<>> /\ Tail(p) = v
      BY <2>2, <2>3 DEF p
    <2>5. Tail(Append(p, x)) = Append(v, x) /\ Append(p, x) # <<>>
      BY <2>1, <2>4, TailAppend, AppendProperties
    <2>6. Append(v, x) \in Seq(Name)
      BY AppendProperties
    <2> QED BY <2>2, <2>5, <2>6 DEF p
  <1> HIDE DEF T
  <1>3. \A v \in Seq(Name) : v \in T
    BY <1>1, <1>2, AppendInduction
  <1> QED BY <1>3 DEF T

\* Names are walked through as they are.
LEMMA WalkedNames == \A v \in Seq(Name) : Walked(v) = v
  <1> DEFINE T == {v \in Seq(Name) : Walked(v) = v}
  <1>1. <<>> \in T
    BY WalkedNone, EmptySeq
  <1>2. ASSUME NEW v \in Seq(Name), NEW x \in Name, v \in T PROVE Append(v, x) \in T
    <2>1. Walked(v) = v /\ x \notin {<<Dot>>, DotDot}
      BY <1>2, ThreeKinds
    <2>2. Walked(Append(v, x)) = Append(Walked(v), x)
      BY <2>1, WalkedTyped
    <2> QED BY <2>1, <2>2, AppendProperties
  <1> HIDE DEF T
  <1>3. \A v \in Seq(Name) : v \in T
    BY <1>1, <1>2, AppendInduction
  <1> QED BY <1>3 DEF T

\* What a browser makes of a link that is made of names and one more piece.
LEMMA NormalizedNames ==
  ASSUME NEW v \in Seq(Name), NEW x \in Part
  PROVE  LET link == Join(v) \o Root \o x
         IN Normalized(link) =
              Join(IF x \in {<<Dot>>, DotDot} THEN Append(Walk(v, x), <<>>) ELSE Walk(v, x))
  <1> DEFINE p == Pieces(Join(v))
             q == Pieces(Join(v) \o Root \o x)
  <1>1. Join(v) \in Text
    BY NamedTexts, JoinTyped
  <1>2. q = Append(p, x) /\ p \in Seq(Part) /\ p # <<>> /\ Tail(p) = v
    BY <1>1, PiecesAppend, PiecesAreParts, PiecesOfNames
  <1>3. Last(q) = x
    BY <1>1, BehindSlash
  <1> HIDE DEF p
  <1>4. Tail(q) = Append(v, x)
    BY <1>2, TailAppend
  <1>5. v \in Seq(Part)
    BY ThreeKinds, SeqMonotonic
  <1>6. Walked(Append(v, x)) = Walk(v, x)
    BY <1>5, WalkedNext, WalkedNames
  <1>7. FoldLeft(Walk, <<>>, Tail(q)) = Walk(v, x)
    BY <1>4, <1>6 DEF Walked
  <1> QED BY <1>3, <1>7 DEF Normalized

\* Such a link begins with a slash: the browser puts nothing before it.
LEMMA NamesBegin ==
  ASSUME NEW v \in Seq(Name), NEW x \in Part, NEW asked
  PROVE  Absolute(asked, Join(v) \o Root \o x) = Join(v) \o Root \o x
  <1> DEFINE T == {s \in Seq(Name) : (Join(s) \o Root)[1] = Slash}
  <1>0. Root \in Text /\ Len(Root) = 1 /\ Root[1] = Slash
    BY Constants DEF Root
  <1>1. <<>> \in T
    <2>1. <<>> \o Root = Root
      BY <1>0, JoinedNone
    <2> QED BY <1>0, <2>1, JoinNone, EmptySeq
  <1>2. \A s \in Seq(Name) : Join(s) \in Text
    BY NamedTexts, JoinTyped
  <1>3. ASSUME NEW a \in Text, NEW b \in Text, (a \o Root)[1] = Slash
        PROVE  /\ a \o Root \o b \in Text /\ a \o Root \in Text
               /\ (a \o Root \o b)[1] = Slash
    <2>1. a \o Root \in Text /\ Len(a \o Root) = Len(a) + Len(Root) /\ Len(a) \in Nat
      BY <1>0, Joined
    <2> DEFINE r == a \o Root
    <2> HIDE DEF r
    <2>2. r \in Text /\ Len(r) \in Nat /\ 1 \in 1 .. Len(r)
      BY <1>0, <2>1 DEF r
    <2>3. r \o b \in Text /\ \A i \in 1 .. Len(r) : (r \o b)[i] = r[i]
      BY <2>2, Joined
    <2>4. (r \o b)[1] = r[1]
      BY <2>2, <2>3
    <2> QED BY <1>3, <2>1, <2>3, <2>4 DEF r
  <1>4. ASSUME NEW s \in Seq(Name), NEW n \in Name, s \in T PROVE Append(s, n) \in T
    <2>1. Join(Append(s, n)) = Join(s) \o Root \o n /\ n \in Text
      BY JoinNext, ThreeKinds
    <2>2. Join(s) \in Text /\ (Join(s) \o Root)[1] = Slash
      BY <1>2, <1>4
    <2> DEFINE j == Join(s)
               a == Join(Append(s, n))
    <2>3. a \in Text /\ a[1] = Slash
      <3>1. j \in Text /\ (j \o Root)[1] = Slash
        BY <2>2
      <3>2. a = j \o Root \o n
        BY <2>1
      <3> HIDE DEF j, a, T
      <3>3. j \o Root \o n \in Text /\ (j \o Root \o n)[1] = Slash
        BY <1>3, <2>1, <3>1, Zenon
      <3> QED BY <3>2, <3>3
    <2>4. a # <<>>
      BY NamedTexts, JoinedMore, AppendProperties
    <2> HIDE DEF a
    <2>5. Len(a) \in Nat /\ Len(a) # 0
      BY <2>3, <2>4, Characters, EmptySeq DEF Text
    <2>6. \A i \in 1 .. Len(a) : (a \o Root)[i] = a[i]
      BY <1>0, <2>3, Joined
    <2>7. (a \o Root)[1] = Slash
      BY <2>3, <2>5, <2>6
    <2>8. Append(s, n) \in Seq(Name)
      BY AppendProperties
    <2> QED BY <2>7, <2>8 DEF a
  <1> HIDE DEF T
  <1>5. v \in T
    BY <1>1, <1>4, AppendInduction
  <1>6. (Join(v) \o Root)[1] = Slash /\ Join(v) \in Text /\ x \in Text
    BY <1>2, <1>5 DEF T, Part
  <1>7. (Join(v) \o Root \o x)[1] = Slash
    BY <1>3, <1>6
  <1> QED BY <1>7 DEF Absolute

\* The link of a name in a folder leads to that name in that folder.
LEMMA NameLeads ==
  ASSUME NEW virtual \in Text, Plain(virtual), Resolve(virtual).legal,
         NEW n \in Part, n # <<>>, Head(n) # Dot, n \in Seq(1 .. 255), NEW asked,
         NEW link \in {URLEncode(FullPath(virtual, n)), URLEncode(FullPath(virtual, n)) \o Root}
  PROVE  LET to == Normalized(Absolute(asked, link))
         IN Resolve(to).legal /\ LedTo(to) = FullPath(LedTo(virtual), n)
  <1>1. PICK s \in Seq(Name) :
          /\ s \in Seq(Seq(Unreserved))
          /\ LedTo(virtual) = <<Dot>> \o Join(s)
          /\ \A name \in Text : FullPath(virtual, name) = Join(s) \o Root \o name
    BY PlainLeads
  <1> DEFINE u == URLEncode(n)
             v == Append(s, u)
             w == Join(s)
             P == <<Dot>> \o Join(s)
             to == Normalized(Absolute(asked, link))
  <1>3. u \in Name /\ u \in Part /\ u \in Text /\ n \in Text /\ Root \in Text
    BY EncodedName, ThreeKinds, Constants DEF Part
  <1>4. URLEncode(FullPath(virtual, n)) = w \o Root \o u
    <2>1. Unreserved \in SUBSET (0 .. 255) /\ Slash \in Unreserved
      BY DEF Unreserved, Digit, Capital, Small, Slash, Dot
    <2>2. w \in Seq(Unreserved) /\ w \in Text
      <3>1. w \in Seq(Unreserved)
        BY <1>1, <2>1, JoinWithin
      <3>2. w \in Text
        BY NamedTexts, JoinTyped
      <3> QED BY <3>1, <3>2
    <2> HIDE DEF w, u
    <2>3. w \o Root \in Seq(Unreserved)
      <3>1. Root \in Seq(Unreserved)
        BY <2>1 DEF Root
      <3> QED BY <2>2, <3>1, ConcatProperties
    <2>4. w \o Root \in Text
      BY <1>3, <2>2, Joined
    <2>5. URLEncode(w \o Root) = w \o Root
      BY <2>3, <2>4, PlainText
    <2>6. URLEncode((w \o Root) \o n) = URLEncode(w \o Root) \o URLEncode(n)
      BY <1>3, <2>4, EncodedJoin
    <2>7. FullPath(virtual, n) = w \o Root \o n
      BY <1>1, <1>3 DEF w
    <2> QED BY <2>5, <2>6, <2>7 DEF u
  <1> HIDE DEF u
  <1>5. Join(v) = Join(s) \o Root \o u
    BY <1>3, JoinNext
  <1>7. v \in Seq(Name) /\ v # <<>> /\ Join(v) \in Text
    <2>1. v \in Seq(Name) /\ v # <<>>
      BY <1>3, AppendProperties
    <2> QED BY <2>1, NamedTexts, JoinTyped
  <1>8. Normalized(Absolute(asked, Join(s) \o Root \o u)) = Join(v)
    <2>1. u \notin {<<Dot>>, DotDot} /\ Walk(s, u) = v
      BY <1>3, ThreeKinds DEF Walk
    <2>2. Normalized(Join(s) \o Root \o u) = Join(v)
      BY <1>3, <2>1, NormalizedNames
    <2> QED BY <1>3, <2>2, NamesBegin
  <1> HIDE DEF v
  <1>9. Normalized(Absolute(asked, Join(v) \o Root)) = Join(v) \o Root
    <2>1. <<>> \in Part /\ <<>> \notin {<<Dot>>, DotDot} /\ Walk(v, <<>>) = Append(v, <<>>)
      BY ThreeKinds DEF Walk, DotDot
    <2>2. Join(v) \o Root \o <<>> = Join(v) \o Root
      BY <1>7, SlashAtEnd, JoinedNone
    <2>3. Normalized(Join(v) \o Root \o <<>>) = Join(Append(v, <<>>))
      BY <1>7, <2>1, NormalizedNames
    <2>4. Join(Append(v, <<>>)) = Join(v) \o Root \o <<>>
      BY <1>7, NamedTexts, Constants, JoinNext
    <2>5. Absolute(asked, Join(v) \o Root \o <<>>) = Join(v) \o Root \o <<>>
      BY <1>7, <2>1, NamesBegin
    <2> QED BY <2>2, <2>3, <2>4, <2>5
  <1>10. Resolve(to).legal /\ Resolve(to).path = <<Dot>> \o Join(v)
    <2>1. to \in {Join(v), Join(v) \o Root}
      BY <1>4, <1>5, <1>8, <1>9
    <2>2. PathExplode(Join(v)) = [legal |-> TRUE, parts |-> v]
      BY <1>7, JoinedNames
    <2>3. /\ Join(v) \o Root \in Text
          /\ PathExplode(Join(v) \o Root) = PathExplode(Join(v))
      BY <1>7, SlashAtEnd
    <2> HIDE DEF to
    <2>4. to \in Text /\ PathExplode(to) = [legal |-> TRUE, parts |-> v]
      BY <1>7, <2>1, <2>2, <2>3
    <2> QED BY <2>4, ResolvedOnce
  <1> HIDE DEF to
  <1>11. <<Dot>> \o Join(v) = P \o Root \o u
    <2>2. <<Dot>> \in Text /\ Join(s) \in Text /\ Join(s) \o Root \in Text
      BY <1>3, Constants, NamedTexts, JoinTyped, Joined
    <2> DEFINE d == <<Dot>>
               j == Join(s)
               k == j \o Root
    <2> HIDE DEF d, j, k
    <2>3. d \in Text /\ j \in Text /\ k \in Text /\ Root \in Text /\ u \in Text
      BY <1>3, <2>2 DEF d, j, k
    <2>4. d \o (k \o u) = (d \o k) \o u
      <3>1. d \in Text /\ k \in Text /\ u \in Text
        BY <2>3
      <3> QED BY <3>1, Regroup, Zenon
    <2>5. d \o (j \o Root) = (d \o j) \o Root
      <3>1. d \in Text /\ j \in Text /\ Root \in Text
        BY <2>3
      <3> QED BY <3>1, Regroup, Zenon
    <2>6. <<Dot>> \o Join(v) = d \o ((j \o Root) \o u)
      BY <1>5 DEF d, j
    <2>7. P = d \o j
      BY DEF d, j
    <2> QED BY <2>4, <2>5, <2>6, <2>7 DEF k
  <1>12. ParseURLEncoding((P \o Root) \o u) = (P \o Root) \o n
    <2>1. P \o Root \in Seq((0 .. 255) \ {Percent})
      BY <1>1, PlainNames
    <2>2. ParseURLEncoding((P \o Root) \o u) = (P \o Root) \o ParseURLEncoding(u)
      <3> HIDE DEF P
      <3> QED BY <1>3, <2>1, ParsedPlain
    <2>3. ParseURLEncoding(u) = n
      BY Constants, ParsedEncoded DEF u
    <2> QED BY <2>2, <2>3
  <1>13. FullPath(P, n) = P \o Root \o n
    BY Folder DEF FullPath
  <1>14. LedTo(to) = FullPath(P, n)
    BY <1>10, <1>11, <1>12, <1>13 DEF LedTo
  <1> QED BY <1>1, <1>10, <1>14 DEF to

\* The link of ".." leads to the folder above, and from the topmost one to itself.
LEMMA ParentLeads ==
  ASSUME NEW virtual \in Text, Plain(virtual), Resolve(virtual).legal, NEW asked
  PROVE  LET to == Normalized(Absolute(asked, FullPath(virtual, DotDot)))
         IN Resolve(to).legal /\ LedTo(to) = Target(LedTo(virtual), DotDot)
  <1>1. PICK s \in Seq(Name) :
          /\ s \in Seq(Seq(Unreserved))
          /\ LedTo(virtual) = <<Dot>> \o Join(s)
          /\ \A name \in Text : FullPath(virtual, name) = Join(s) \o Root \o name
    BY PlainLeads
  <1> DEFINE f == Walk(s, DotDot)
             link == Join(s) \o Root \o DotDot
             to == Normalized(Absolute(asked, link))
  <1>2. DotDot \in Part /\ DotDot \in Text
    BY Constants DEF DotDot, Part, Dot, Slash
  <1>3. link = FullPath(virtual, DotDot)
    BY <1>1, <1>2
  <1>4. /\ f \in Seq(Name) /\ f \in Seq(Seq(Unreserved))
        /\ s = <<>> => f = s
        /\ s # <<>> => f = Front(s)
    <2>1. CASE s = <<>>
      <3>1. f = s
        BY <2>1 DEF Walk, DotDot
      <3> HIDE DEF f
      <3> QED BY <1>1, <2>1, <3>1
    <2>2. CASE s # <<>>
      <3>1. f = Front(s)
        BY <2>2 DEF Walk, DotDot
      <3>2. Len(s) > 0
        BY <2>2, EmptySeq, LenProperties
      <3> HIDE DEF f
      <3> QED BY <1>1, <2>2, <3>1, <3>2, FrontIs
    <2> QED BY <2>1, <2>2
  <1>5. to = Join(f) \o Root
    <2>1. to = Join(Append(f, <<>>))
      <3>1. DotDot \in {<<Dot>>, DotDot}
        OBVIOUS
      <3>2. Normalized(link) = Join(Append(f, <<>>))
        BY <1>2, <3>1, NormalizedNames
      <3>3. Absolute(asked, link) = link
        BY <1>2, NamesBegin
      <3> QED BY <3>2, <3>3
    <2> HIDE DEF f
    <2>2. Join(f) \in Text
      BY <1>4, NamedTexts, JoinTyped
    <2>3. Join(Append(f, <<>>)) = Join(f) \o Root \o <<>>
      BY <1>4, NamedTexts, Constants, JoinNext
    <2>4. Join(f) \o Root \o <<>> = Join(f) \o Root
      BY <2>2, SlashAtEnd, JoinedNone
    <2> QED BY <2>1, <2>3, <2>4
  <1> HIDE DEF f, to
  <1>6. to \in Text /\ PathExplode(to) = [legal |-> TRUE, parts |-> f]
    <2>1. Join(f) \in Text /\ PathExplode(Join(f)) = [legal |-> TRUE, parts |-> f]
      BY <1>4, JoinedNames
    <2> QED BY <1>5, <2>1, SlashAtEnd
  <1>7. Resolve(to).legal /\ Resolve(to).path = <<Dot>> \o Join(f)
    BY <1>6, ResolvedOnce
  <1>8. LedTo(to) = <<Dot>> \o Join(f)
    BY <1>4, <1>7, PlainNames DEF LedTo
  <1>9. Target(<<Dot>> \o Join(s), DotDot) = <<Dot>> \o Join(f)
    <2> DEFINE P == <<Dot>> \o Join(s)
               Q == <<Dot>> \o Join(f)
    <2>1. CASE s = <<>>
      <3>1. P = <<Dot>> /\ Q = P
        BY <1>4, <2>1, Folder
      <3> HIDE DEF P, Q
      <3>2. Target(P, DotDot) = P
        BY <3>1 DEF Target
      <3> QED BY <3>1, <3>2 DEF P, Q
    <2>2. CASE s # <<>>
      <3>1. P # <<Dot>> /\ Above(P) = Q
        BY <1>4, <2>2, Folder
      <3> HIDE DEF P, Q
      <3>2. Target(P, DotDot) = Above(P)
        BY <3>1 DEF Target
      <3> QED BY <3>1, <3>2 DEF P, Q
    <2> QED BY <2>1, <2>2
  <1> QED BY <1>1, <1>3, <1>7, <1>8, <1>9 DEF to

\* One more piece is followed from where the others lead.
LEMMA LookedUpNext ==
  ASSUME NEW t \in Text, NEW x \in Part
  PROVE  Lookup(t \o Root \o x) = Into(Lookup(t), x)
  <1>1. Pieces(t \o Root \o x) = Append(Pieces(t), x) /\ Pieces(t) \in Seq(Part)
    BY PiecesAppend, PiecesAreParts
  <1> DEFINE q == Pieces(t)
  <1>2. Placed(Append(q, x)) = Into(Placed(q), x)
    BY <1>1, PlacedNext
  <1> QED BY <1>1, <1>2 DEF Lookup, Placed

\* What is in a folder is found by its name, and nothing else is found from what is not a
\* folder.
LEMMA IntoIs ==
  /\ \A place \in Folders : \A n \in Names(place) : Into(place, n) = Append(place, n)
  /\ \A place, x : place \notin Folders => Into(place, x) \notin DOMAIN Files
  <1>1. ASSUME NEW place \in Folders, NEW n \in Names(place) PROVE Into(place, n) = Append(place, n)
    <2>1. n \in AllNames /\ Append(place, n) \in DOMAIN Files
      BY DEF Names
    <2>2. IsName(n)
      BY <2>1, NamesAreTexts DEF IsName, DotDot
    <2>3. n \notin {<<>>, <<Dot>>} /\ n # DotDot
      BY <2>2 DEF IsName
    <2> QED BY <2>1, <2>2, <2>3 DEF Into
  <1>2. ASSUME NEW place, NEW x, place \notin Folders PROVE Into(place, x) \notin DOMAIN Files
    <2>1. Into(place, x) = NoPlace
      BY <1>2 DEF Into
    <2>2. NoPlace \notin DOMAIN Files
      <3>1. ASSUME NoPlace \in DOMAIN Files PROVE FALSE
        <4>1. \A i \in DOMAIN NoPlace : IsFileName(NoPlace[i])
          BY <3>1, IndexingAssumption
        <4>2. 1 \in DOMAIN NoPlace /\ NoPlace[1] = <<>>
          BY DEF NoPlace
        <4>3. IsName(<<>>)
          BY <4>1, <4>2 DEF IsFileName
        <4> QED BY <4>3 DEF IsName
      <3> QED BY <3>1
    <2> QED BY <2>1, <2>2
  <1> QED BY <1>1, <1>2

\* A link of an index whose path needs no encoding leads to what its entry stands for, and
\* there is something.
LEMMA LinkLeads ==
  ASSUME NEW virtual \in Word, Plain(virtual), Resolve(virtual).legal, NEW asked,
         IsDirectory(LedTo(virtual)),
         NEW tab \in IndexTables(virtual, Lookup(LedTo(virtual))), NEW i \in DOMAIN tab
  PROVE  LET to == Normalized(Absolute(asked, tab[i].CompletePath))
             means == Target(LedTo(virtual), tab[i].Name)
         IN /\ Resolve(to).legal /\ LedTo(to) = means
            /\ GenerateFolderIndex(means).what # "none"
  <1> DEFINE P == LedTo(virtual)
  <1>0. virtual \in Text
    BY SeqMonotonic DEF Word, Text
  <1>1. PICK s \in Seq(Name) : P = <<Dot>> \o Join(s)
    BY <1>0, PlainLeads
  <1>2. P \in Text /\ Last(P) # Slash
    BY <1>1, Folder
  <1>3. Lookup(P) \in Folders
    BY DEF IsDirectory
  <1>4. CASE tab[i] = ParentEntry(virtual)
    <2>1. tab[i].Name = DotDot /\ tab[i].CompletePath = FullPath(virtual, DotDot)
      BY <1>4 DEF ParentEntry, Entry
    <2> DEFINE means == Target(P, DotDot)
    <2>2. IsDirectory(means)
      <3>1. CASE P = <<Dot>>
        <4>1. means = P
          BY <3>1 DEF Target
        <4> QED BY <1>3, <4>1 DEF IsDirectory
      <3>2. CASE P # <<Dot>>
        <4>1. s # <<>>
          BY <1>1, <3>2, Folder
        <4>2. PICK q \in Seq(Name), x \in Name : s = Append(q, x)
          BY <4>1, SequenceEmptyOrAppend
        <4>3. Above(P) \in Text
          BY <1>2, TargetTyped
        <4>4. P = Above(P) \o Root \o x /\ x \in Part
          <5>1. <<Dot>> \in Text /\ Join(q) \in Text /\ x \in Text /\ Root \in Text /\ x \in Part
            BY Constants, NamedTexts, JoinTyped, ThreeKinds
          <5>2. Join(s) = Join(q) \o Root \o x
            BY <4>2, JoinNext
          <5> DEFINE d == <<Dot>>
                     j == Join(q)
                     k == j \o Root
          <5> HIDE DEF d, j
          <5>3. d \in Text /\ k \in Text /\ x \in Text
            BY <5>1, Joined DEF d, j
          <5>4. d \in Text /\ j \in Text /\ Root \in Text
            BY <5>1 DEF d, j
          <5> HIDE DEF k
          <5>5. d \o (k \o x) = (d \o k) \o x
            BY <5>3, Regroup, Zenon
          <5>6. d \o k = (d \o j) \o Root
            BY <5>4, Regroup, Zenon DEF k
          <5>7. P = (d \o j) \o Root \o x
            BY <1>1, <5>2, <5>5, <5>6 DEF d, j, k
          <5>8. d \o j \in Text
            BY <5>4, Joined
          <5> DEFINE a == d \o j
          <5> HIDE DEF a
          <5>9. Above(a \o Root \o x) = a
            BY <5>1, <5>8, BehindSlash DEF a
          <5> QED BY <5>1, <5>7, <5>9 DEF a
        <4>5. Lookup(P) = Into(Lookup(Above(P)), x)
          BY <4>3, <4>4, LookedUpNext
        <4>6. Lookup(P) \in DOMAIN Files
          BY <1>3 DEF Folders
        <4>7. Lookup(Above(P)) \in Folders
          BY <4>5, <4>6, IntoIs
        <4>8. means = Above(P)
          BY <3>2 DEF Target
        <4> QED BY <4>7, <4>8 DEF IsDirectory
      <3> QED BY <3>1, <3>2
    <2>3. means \in Text
      BY <1>2, Constants, TargetTyped
    <2> HIDE DEF means
    <2>4. GenerateFolderIndex(means).what # "none"
      BY <2>2, <2>3, FoundTyped
    <2>5. /\ Resolve(Normalized(Absolute(asked, FullPath(virtual, DotDot)))).legal
          /\ LedTo(Normalized(Absolute(asked, FullPath(virtual, DotDot)))) = Target(P, DotDot)
      BY <1>0, ParentLeads
    <2> QED BY <2>1, <2>4, <2>5 DEF means
  <1>5. ASSUME NEW n \in Names(Lookup(P)), Head(n) # Dot, tab[i] = EntryOf(virtual, Lookup(P), n),
               tab[i].Size # -1
        PROVE  LET to == Normalized(Absolute(asked, tab[i].CompletePath))
                   means == Target(LedTo(virtual), tab[i].Name)
               IN /\ Resolve(to).legal /\ LedTo(to) = means
                  /\ GenerateFolderIndex(means).what # "none"
    <2> DEFINE file == FullPath(P, n)
               at == Append(Lookup(P), n)
               link == URLEncode(FullPath(virtual, n))
    <2>1. n \in AllNames /\ at \in DOMAIN Files
      BY DEF Names
    <2>2. n \in Part /\ n \in Text /\ n \in Seq(1 .. 255) /\ n # <<>> /\ n # DotDot
      BY <2>1, NamesAreTexts DEF IsName
    <2>3. \/ tab[i] = Entry(n, link \o Root, TRUE, 0) /\ at \in Folders
          \/ tab[i] = Entry(n, link, FALSE, SizeAt(at))
      BY <1>5, LinkOf
    <2>4. tab[i].CompletePath \in {link, link \o Root} /\ tab[i].Name = n
      <3> HIDE DEF link, at
      <3> QED BY <2>3 DEF Entry
    <2>5. at \in Folders \/ (at \in DOMAIN Files /\ Files[at].readable)
      <3>1. CASE at \in Folders
        BY <3>1
      <3>2. CASE tab[i] = Entry(n, link, FALSE, SizeAt(at))
        <4> HIDE DEF link, at
        <4>1. SizeAt(at) # -1
          BY <1>5, <3>2 DEF Entry
        <4> QED BY <4>1 DEF SizeAt
      <3> QED BY <2>3, <3>1, <3>2
    <2>6. Lookup(file) = at
      <3>1. file = P \o Root \o n
        BY <1>2 DEF FullPath
      <3> QED BY <1>2, <1>3, <2>2, <3>1, LookedUpNext, IntoIs
    <2>7. /\ Resolve(Normalized(Absolute(asked, tab[i].CompletePath))).legal
          /\ LedTo(Normalized(Absolute(asked, tab[i].CompletePath))) = file
      BY <1>0, <1>5, <2>2, <2>4, NameLeads
    <2>8. Target(P, tab[i].Name) = file
      BY <2>2, <2>4 DEF Target
    <2>9. file \in Text
      BY <1>2, <2>2, TargetTyped
    <2> HIDE DEF file, at
    <2>10. IsDirectory(file) \/ Openable(file)
      BY <2>5, <2>6 DEF IsDirectory, Openable
    <2>11. GenerateFolderIndex(file).what # "none"
      BY <2>9, <2>10, FoundTyped
    <2> QED BY <2>7, <2>8, <2>11
  <1> QED BY <1>4, <1>5, EntryAt

\* A browser that follows a link asks for what its entry stands for, and there is something.
Follows ==
  \A t \in Thread :
    LET b == browser[t]
    IN (b.means # NoPath /\ Plain(b.from)) =>
         /\ Resolve(b.asked).legal /\ LedTo(b.asked) = b.means
         /\ GenerateFolderIndex(b.means).what # "none"

\* Nobody follows a link at the start.
LEMMA FollowsInit == Init => Follows
  <1>1. NoBrowser.means = NoPath
    BY DEF NoBrowser, Browser
  <1> SUFFICES ASSUME Init, NEW t \in Thread PROVE browser[t] = NoBrowser
    BY <1>1 DEF Follows
  <1> QED BY DEF Init

\* What a browser asks for leads where its link does.
LEMMA FollowedLeads ==
  ASSUME Typed, Tables, Chosen, Asks, NEW t \in Thread, TypePath(t) \/ FollowLink(t)
  PROVE  \E b : /\ Connect(t, b)
                /\ (b.means # NoPath /\ Plain(b.from)) =>
                     /\ Resolve(b.asked).legal /\ LedTo(b.asked) = b.means
                     /\ GenerateFolderIndex(b.means).what # "none"
  <1>1. CASE TypePath(t)
    <2>1. PICK path \in visit.typed[t] : Connect(t, Browser(path, NoPath, NoPath, 0))
      BY <1>1 DEF TypePath
    <2> DEFINE b == Browser(path, NoPath, NoPath, 0)
    <2>2. b.means = NoPath
      BY DEF Browser
    <2>3. Connect(t, b)
      BY <2>1
    <2> HIDE DEF b
    <2> QED BY <2>2, <2>3
  <1>2. CASE FollowLink(t)
    <2> DEFINE a == answer[t]
    <2>1. a.what = "index" /\ a \in AnswerType
      BY <1>2 DEF FollowLink, Typed
    <2>2. PICK i \in DOMAIN a.table :
            Connect(t, Browser(Normalized(Absolute(browser[t].asked, a.table[i].CompletePath)),
                               Target(a.path, a.table[i].Name), a.for, browser[t].clicks + 1))
      BY <1>2 DEF FollowLink
    <2>3. /\ a.for \in Word /\ a.table \in IndexTables(a.for, Lookup(a.path))
          /\ Resolve(a.for).legal /\ LedTo(a.for) = a.path
          /\ GenerateFolderIndex(LedTo(a.for)).what = "index"
      BY <2>1 DEF Asks, Tables, Chosen
    <2>4. IsDirectory(LedTo(a.for))
      <3>1. a.path \in Text
        BY <2>1 DEF AnswerType
      <3> HIDE DEF a
      <3> QED BY <2>3, <3>1, FoundTyped
    <2> DEFINE link == Absolute(browser[t].asked, a.table[i].CompletePath)
               b == Browser(Normalized(link), Target(a.path, a.table[i].Name), a.for,
                            browser[t].clicks + 1)
    <2>5. /\ b.asked = Normalized(link)
          /\ b.means = Target(a.path, a.table[i].Name) /\ b.from = a.for
      BY DEF Browser
    <2>6. Connect(t, b)
      BY <2>2
    <2> HIDE DEF a, b
    <2>7. ASSUME Plain(a.for)
          PROVE  /\ Resolve(b.asked).legal /\ LedTo(b.asked) = b.means
                 /\ GenerateFolderIndex(b.means).what # "none"
      <3>1. a.table \in IndexTables(a.for, Lookup(LedTo(a.for)))
        BY <2>3
      <3> DEFINE asked == Normalized(link)
                 means == Target(LedTo(a.for), a.table[i].Name)
      <3>2. /\ Resolve(asked).legal /\ LedTo(asked) = means
            /\ GenerateFolderIndex(means).what # "none"
        BY <2>3, <2>4, <2>7, <3>1, LinkLeads
      <3>3. b.asked = asked /\ b.means = means
        BY <2>3, <2>5
      <3> HIDE DEF asked, means
      <3> QED BY <3>2, <3>3
    <2> QED BY <2>5, <2>6, <2>7
  <1> QED BY <1>1, <1>2

\* No step makes a browser ask for something else.
LEMMA FollowsNext == Typed /\ Tables /\ Chosen /\ Asks /\ Follows /\ [Next]_vars => Follows'
  <1> SUFFICES ASSUME Typed, Tables, Chosen, Asks, Follows, [Next]_vars PROVE Follows'
    OBVIOUS
  <1>0. DOMAIN browser = Thread /\ browser \in [Thread -> BrowserType] /\ NoBrowser.means = NoPath
    BY DEF Typed, NoBrowser, Browser
  <1>1. CASE browser' = browser
    BY <1>1 DEF Follows
  <1>2. ASSUME NEW t \in Thread, Step(t), browser' # browser PROVE Follows'
    <2>1. CASE TypePath(t) \/ FollowLink(t)
      BY <1>0, <2>1, FollowedLeads DEF Connect, Follows
    <2>2. CASE Leave(t) \/ FollowElsewhere(t) \/ OpenFails(t)
      BY <1>0, <2>2 DEF Leave, FollowElsewhere, OpenFails, Gone, Follows
    <2>3. CASE Receive(t)
      <3>1. PICK n \in Cuts(t) \cup {Len(browser[t].rest)} :
              browser' = [browser EXCEPT ![t].rest = SubSeq(@, n + 1, Len(@)),
                ![t].cut = CASE n = Len(browser[t].rest)               -> @
                             [] n # Len(browser[t].rest) /\ n < Len(FirstLine(browser[t].asked)) -> "line"
                             [] OTHER                                   -> "fields"]
        BY <2>3 DEF Receive
      <3> DEFINE rest == SubSeq(browser[t].rest, n + 1, Len(browser[t].rest))
                 cut == CASE n = Len(browser[t].rest) -> browser[t].cut
                          [] n # Len(browser[t].rest) /\ n < Len(FirstLine(browser[t].asked)) -> "line"
                          [] OTHER -> "fields"
      <3>a. browser' = [browser EXCEPT ![t] = [browser[t] EXCEPT !.rest = rest, !.cut = cut]]
        BY <1>0, <3>1
      <3> HIDE DEF rest, cut
      <3>2. /\ browser'[t].asked = browser[t].asked /\ browser'[t].means = browser[t].means
            /\ browser'[t].from = browser[t].from
            /\ \A u \in Thread \ {t} : browser'[u] = browser[u]
        BY <1>0, <3>a DEF BrowserType
      <3> QED BY <3>2 DEF Follows
    <2>4. CASE \/ Illegal(t) \/ LocateResource(t) \/ NotFound(t) \/ FindFile(t) \/ FindFolder(t)
               \/ FindUnreadable(t) \/ Overrun(t) \/ WriteSize(t) \/ CopySize(t) \/ IndexDone(t)
               \/ DefaultType(t) \/ MatchType(t) \/ NoMatch(t) \/ SendHeader(t)
      BY <1>2, <2>4 DEF Illegal, LocateResource, NotFound, FindFile, FindFolder, FindUnreadable, Overrun,
        WriteSize, CopySize, IndexDone, DefaultType, MatchType, NoMatch, SendHeader
    <2> QED BY <1>2, <2>1, <2>2, <2>3, <2>4 DEF Step
  <1> QED BY <1>1, <1>2 DEF Next, vars

\* That is an invariant.
LEMMA FollowsHold == Spec => [](Typed /\ Chosen /\ Asks /\ Follows)
  BY TypesHold, TablesHold, ChoicesHold, AsksHold, FollowsInit, FollowsNext, PTL DEF Spec

\* A link of an index that is answered leads to the entry it stands for, whatever characters
\* the name of that entry has, when the path of the index needs no encoding and has no empty
\* part; the entry ".." of the topmost folder stands for that folder itself.
THEOREM LinksFollowed == Spec => []LinksLead
  <1>1. ASSUME Typed, Chosen, Asks, Follows, NEW t \in Thread,
               browser[t].means # NoPath, answer[t] # NoAnswer, browser[t].cut # "line",
               Plain(browser[t].from)
        PROVE  LeadsTo(answer[t], browser[t].means)
    <2> DEFINE a == answer[t]
               means == browser[t].means
    <2>1. /\ a.for = browser[t].asked /\ Resolve(a.for).legal /\ LedTo(a.for) = means
          /\ GenerateFolderIndex(means).what # "none"
      BY <1>1 DEF Asks, Follows
    <2>2. a.what \in {"nothing", "illegal", "404", "index", "file"}
      <3>1. a \in AnswerType
        BY <1>1 DEF Typed
      <3> QED BY <3>1 DEF AnswerType
    <2>3. /\ a.what # "nothing" /\ a.what # "illegal"
          /\ a.what = "404" => GenerateFolderIndex(LedTo(a.for)).what = "none"
          /\ a.what \in {"index", "file"} =>
               /\ GenerateFolderIndex(LedTo(a.for)).what = a.what
               /\ GenerateFolderIndex(LedTo(a.for)).path = a.path
      BY <1>1, <2>1 DEF Chosen
    <2> HIDE DEF a, means
    <2>4. GenerateFolderIndex(means).path = a.path /\ GenerateFolderIndex(means).what = a.what
      BY <2>1, <2>2, <2>3
    <2> QED BY <2>4 DEF LeadsTo, a, means
  <1>2. Typed /\ Chosen /\ Asks /\ Follows => LinksLead
    BY <1>1 DEF LinksLead
  <1> QED BY <1>2, FollowsHold, PTL

--------------------------------------------------------------------------------
(* The fields of a request *)

\* a is followed in text by the line of a field.
LineBehind(text, a, f) ==
  LET l == Len(f.field)
      m == Len(f.value)
  IN /\ a + l + m + 4 <= Len(text)
     /\ \A j \in 1 .. l : text[a + j] = f.field[j]
     /\ text[a + l + 1] = 58 /\ text[a + l + 2] = Space
     /\ \A j \in 1 .. m : text[a + l + 2 + j] = f.value[j]
     /\ text[a + l + m + 3] = Return /\ text[a + l + m + 4] = NewLine

\* What one turn of the loop reads from a line.
LEMMA LineRead ==
  ASSUME NEW text \in Text, NEW s \in Reading, NEW a \in Nat, s.at <= a + 1,
         \A j \in s.at .. a : text[j] \in Blank,
         NEW i \in DOMAIN FieldLines, LineBehind(text, a, FieldLines[i])
  PROVE  LET f == FieldLines[i].field
             v == FieldLines[i].value
         IN ReadField(text, s) =
              IF Len(f) <= 2 THEN [s EXCEPT !.good = FALSE]
              ELSE [at |-> a + Len(f) + Len(v) + 5, good |-> TRUE, Field |-> f, Value |-> v \o <<Return>>,
                    HeaderFields |-> SetValue(s.HeaderFields, f, v \o <<Return>>)]
  <1> DEFINE f == FieldLines[i].field
             v == FieldLines[i].value
  <1>1. /\ f \in Text /\ v \in Text
        /\ \A k \in 1 .. Len(f) : f[k] \notin Blank
        /\ \A k \in 1 .. Len(v) : v[k] # NewLine
    BY LinesAreTexts
  <1>2. PICK l \in Nat \ {0} : l = Len(f)
    BY LinesAreTexts
  <1>3. PICK m \in Nat : m = Len(v)
    BY <1>1, Characters
  <1>4. /\ a + l + m + 4 <= Len(text)
        /\ \A j \in 1 .. l : text[a + j] = f[j]
        /\ text[a + l + 1] = 58 /\ text[a + l + 2] = Space
        /\ \A j \in 1 .. m : text[a + l + 2 + j] = v[j]
        /\ text[a + l + m + 3] = Return /\ text[a + l + m + 4] = NewLine
    BY <1>2, <1>3 DEF LineBehind
  <1>5. Len(text) \in Nat /\ DOMAIN text = 1 .. Len(text) /\ s.at \in Nat \ {0}
    BY Characters DEF Reading
  <1> HIDE DEF f, v
  <1>6. WordStart(text, s.at) = a + 1
    <2> DEFINE V == Range(text) \ Blank
    <2>1. a + 1 \in s.at .. Len(text) /\ text[a + 1] = f[1]
      BY <1>4, <1>5
    <2>2. f[1] \notin Blank
      BY <1>1, <1>2
    <2>3. text[a + 1] \in Range(text)
      BY <1>5, <2>1 DEF Range
    <2>4. text[a + 1] \in V /\ \A j \in s.at .. a + 1 - 1 : text[j] \notin V
      BY <2>1, <2>2, <2>3
    <2>5. s.at \in Nat
      BY <1>5
    <2>6. WordStart(text, s.at) = FirstOf(text, s.at, V)
      BY DEF WordStart
    <2> HIDE DEF V
    <2> QED BY <2>1, <2>4, <2>5, <2>6, FirstOfMeans
  <1>7. WordEnd(text, s.at) = a + l + 2
    <2>1. a + 1 \in Nat /\ a + l + 2 \in a + 1 .. Len(text)
      BY <1>4, <1>5
    <2>2. text[a + l + 2] \in Blank /\ 58 \notin Blank
      BY <1>4 DEF Blank, Space, Return
    <2>3. ASSUME NEW j \in a + 1 .. a + l + 2 - 1 PROVE text[j] \notin Blank
      <3>1. CASE j = a + l + 1
        BY <1>4, <2>2, <3>1
      <3>2. CASE j # a + l + 1
        <4>1. PICK k \in 1 .. l : k = j - a
          BY <3>2
        <4>2. j = a + k
          BY <4>1
        <4>3. text[a + k] = f[k] /\ f[k] \notin Blank
          BY <1>1, <1>2, <1>4
        <4> QED BY <4>2, <4>3
      <3> QED BY <3>1, <3>2
    <2>4. FirstOf(text, a + 1, Blank) = a + l + 2
      BY <2>1, <2>2, <2>3, FirstOfMeans
    <2> QED BY <1>6, <2>4 DEF WordEnd
  <1>8. FirstOf(text, a + l + 2, {NewLine}) = a + l + m + 4
    <2>1. a + l + 2 \in Nat /\ a + l + m + 4 \in a + l + 2 .. Len(text) /\ text[a + l + m + 4] \in {NewLine}
      BY <1>4, <1>5
    <2>2. ASSUME NEW j \in a + l + 2 .. a + l + m + 4 - 1 PROVE text[j] \notin {NewLine}
      <3>1. CASE j = a + l + 2 \/ j = a + l + m + 3
        BY <1>4, <3>1 DEF Space, Return, NewLine
      <3>2. CASE ~ (j = a + l + 2 \/ j = a + l + m + 3)
        <4>1. PICK k \in 1 .. m : k = j - a - l - 2
          BY <3>2
        <4>2. j = a + l + 2 + k
          BY <4>1
        <4>3. text[a + l + 2 + k] = v[k] /\ v[k] # NewLine
          BY <1>1, <1>3, <1>4
        <4> QED BY <4>2, <4>3
      <3> QED BY <3>1, <3>2
    <2> DEFINE e == a + l + 2
               r == a + l + m + 4
    <2>3. e \in Nat /\ r \in e .. Len(text) /\ text[r] \in {NewLine} /\ \A j \in e .. r - 1 : text[j] \notin {NewLine}
      BY <2>1, <2>2
    <2> HIDE DEF e, r
    <2>4. FirstOf(text, e, {NewLine}) = r
      BY <2>3, FirstOfMeans
    <2> QED BY <2>4 DEF e, r
  <1> DEFINE field == SubSeq(text, a + 1, a + l + 1)
             value == SubSeq(text, a + l + 2, a + l + m + 3)
  <1>9. /\ Read(text, s.at, s.Field) = field
        /\ field \in Text /\ Len(field) = l + 1
        /\ \A k \in 1 .. l : field[k] = f[k]
    <2>1. a + 1 \in 1 .. Len(text) + 1 /\ a + l + 1 \in 0 .. Len(text) /\ a + 1 <= a + l + 1 + 1
          /\ a + l + 1 - (a + 1) + 1 = l + 1
      BY <1>4, <1>5
    <2>2. /\ field \in Text /\ Len(field) = l + 1
          /\ \A k \in 1 .. l + 1 : field[k] = text[a + 1 + k - 1]
      <3> DEFINE b == a + 1
                 e == a + l + 1
      <3>1. b \in 1 .. Len(text) + 1 /\ e \in 0 .. Len(text) /\ b <= e + 1 /\ e - b + 1 = l + 1
        BY <2>1
      <3> HIDE DEF b, e
      <3>2. /\ SubSeq(text, b, e) \in Text /\ Len(SubSeq(text, b, e)) = l + 1
            /\ \A k \in 1 .. l + 1 : SubSeq(text, b, e)[k] = text[b + k - 1]
        BY <3>1, Stretch
      <3> QED BY <3>2 DEF b, e
    <2>3. \A k \in 1 .. l : k \in 1 .. l + 1 /\ a + 1 + k - 1 = a + k
      OBVIOUS
    <2>4. Read(text, s.at, s.Field) = SubSeq(text, a + 1, a + l + 2 - 1)
      BY <1>4, <1>5, <1>6, <1>7 DEF Read
    <2>5. a + l + 2 - 1 = a + l + 1
      OBVIOUS
    <2> HIDE DEF field
    <2>6. \A k \in 1 .. l : field[k] = f[k]
      BY <1>4, <2>2, <2>3
    <2> QED BY <2>2, <2>4, <2>5, <2>6 DEF field
  <1>10. /\ value \in Text /\ Len(value) = m + 2
         /\ \A k \in 1 .. m : value[k + 1] = v[k]
         /\ value[m + 2] = Return
    <2>1. a + l + 2 \in 1 .. Len(text) + 1 /\ a + l + m + 3 \in 0 .. Len(text)
          /\ a + l + 2 <= a + l + m + 3 + 1 /\ a + l + m + 3 - (a + l + 2) + 1 = m + 2
      BY <1>4, <1>5
    <2>2. /\ value \in Text /\ Len(value) = m + 2
          /\ \A k \in 1 .. m + 2 : value[k] = text[a + l + 2 + k - 1]
      <3> DEFINE b == a + l + 2
                 e == a + l + m + 3
      <3>1. b \in 1 .. Len(text) + 1 /\ e \in 0 .. Len(text) /\ b <= e + 1 /\ e - b + 1 = m + 2
        BY <2>1
      <3> HIDE DEF b, e
      <3>2. /\ SubSeq(text, b, e) \in Text /\ Len(SubSeq(text, b, e)) = m + 2
            /\ \A k \in 1 .. m + 2 : SubSeq(text, b, e)[k] = text[b + k - 1]
        BY <3>1, Stretch
      <3> QED BY <3>2 DEF b, e
    <2> HIDE DEF value
    <2>3. ASSUME NEW k \in 1 .. m PROVE value[k + 1] = v[k]
      <3>1. k + 1 \in 1 .. m + 2 /\ a + l + 2 + (k + 1) - 1 = a + l + 2 + k
        OBVIOUS
      <3>2. value[k + 1] = text[a + l + 2 + k]
        BY <2>2, <3>1
      <3> QED BY <1>4, <3>2
    <2>4. m + 2 \in 1 .. m + 2 /\ a + l + 2 + (m + 2) - 1 = a + l + m + 3
      OBVIOUS
    <2>5. value[m + 2] = Return
      BY <1>4, <2>2, <2>4
    <2> QED BY <2>2, <2>3, <2>5
  <1> HIDE DEF field, value
  <1>11. Front(field) = f
    <2>1. Front(field) \in Text /\ Len(Front(field)) = l /\ \A k \in 1 .. l : Front(field)[k] = field[k]
      <3>1. field \in Seq(0 .. 255) /\ Len(field) > 0 /\ l + 1 - 1 = l
        BY <1>9 DEF Text
      <3>2. /\ Front(field) \in Seq(0 .. 255) /\ Len(Front(field)) = Len(field) - 1
            /\ \A k \in 1 .. Len(field) - 1 : Front(field)[k] = field[k]
        BY <3>1, FrontIs, Zenon
      <3> QED BY <1>9, <3>1, <3>2 DEF Text
    <2>2. \A k \in 1 .. l : Front(field)[k] = f[k]
      BY <1>9, <2>1
    <2> DEFINE w == Front(field)
    <2>3. w \in Seq(0 .. 255) /\ f \in Seq(0 .. 255) /\ Len(w) = Len(f) /\ \A k \in 1 .. Len(w) : w[k] = f[k]
      BY <1>1, <1>2, <2>1, <2>2 DEF Text
    <2> HIDE DEF w
    <2>4. w = f
      BY <2>3, SeqEqual
    <2> QED BY <2>4 DEF w
  <1>12. Tail(value) = v \o <<Return>>
    <2> DEFINE r == v \o <<Return>>
               w == Tail(value)
    <2>1. <<Return>> \in Text /\ Len(<<Return>>) = 1 /\ <<Return>>[1] = Return
      BY DEF Return, Text
    <2>2. /\ r \in Text /\ Len(r) = m + 1
          /\ \A k \in 1 .. m : r[k] = v[k]
          /\ r[m + 1] = Return
      <3>1. /\ r \in Text /\ Len(r) = Len(v) + Len(<<Return>>)
            /\ \A k \in 1 .. Len(v) : r[k] = v[k]
            /\ \A k \in 1 .. Len(<<Return>>) : r[Len(v) + k] = <<Return>>[k]
        BY <1>1, <2>1, Joined
      <3>2. 1 \in 1 .. Len(<<Return>>)
        BY <2>1
      <3>3. r[Len(v) + 1] = Return
        BY <2>1, <3>1, <3>2
      <3> HIDE DEF r
      <3> QED BY <1>3, <2>1, <3>1, <3>3
    <2>3. w \in Seq(0 .. 255) /\ Len(w) = m + 1 /\ \A k \in 1 .. m + 1 : w[k] = value[k + 1]
      <3>1. value \in Seq(0 .. 255) /\ value # <<>>
        BY <1>10, EmptySeq DEF Text
      <3>2. m + 2 - 1 = m + 1
        OBVIOUS
      <3> QED BY <1>10, <3>1, <3>2, HeadTailProperties
    <2> HIDE DEF r, w
    <2>4. ASSUME NEW k \in 1 .. m + 1 PROVE w[k] = r[k]
      <3>1. CASE k = m + 1
        <4>1. k + 1 = m + 2
          BY <3>1
        <4> QED BY <1>10, <2>2, <2>3, <3>1, <4>1
      <3>2. CASE k # m + 1
        <4>1. k \in 1 .. m
          BY <3>2
        <4> QED BY <1>10, <2>2, <2>3, <4>1
      <3> QED BY <3>1, <3>2
    <2>5. r \in Seq(0 .. 255) /\ Len(w) = Len(r) /\ \A k \in 1 .. Len(w) : w[k] = r[k]
      BY <2>2, <2>3, <2>4 DEF Text
    <2>6. w = r
      BY <2>3, <2>5, SeqEqual
    <2> QED BY <2>6 DEF r, w
  <1>13. ReadField(text, s) =
           IF l <= 2 THEN [s EXCEPT !.good = FALSE]
           ELSE [at |-> a + l + m + 5, good |-> TRUE, Field |-> f, Value |-> v \o <<Return>>,
                 HeaderFields |-> SetValue(s.HeaderFields, f, v \o <<Return>>)]
    <2>1. ~ (a + l + 2 > Len(text)) /\ a + l + 2 \in Nat
      BY <1>4, <1>5
    <2>2. a + l + m + 4 - 1 = a + l + m + 3 /\ a + l + m + 4 + 1 = a + l + m + 5
          /\ a + l + m + 4 <= Len(text)
      BY <1>4
    <2>3. (Len(field) <= 3 \/ Len(value) <= 1) <=> l <= 2
      BY <1>9, <1>10
    <2>4. ReadField(text, s) =
            IF Len(field) <= 3 \/ Len(value) <= 1 THEN [s EXCEPT !.good = FALSE]
            ELSE [at |-> a + l + m + 4 + 1, good |-> a + l + m + 4 <= Len(text),
                  Field |-> Front(field), Value |-> Tail(value),
                  HeaderFields |-> SetValue(s.HeaderFields, Front(field), Tail(value))]
      <3> DEFINE behind == WordEnd(text, s.at)
                 end    == FirstOf(text, behind, {NewLine})
                 Field  == Read(text, s.at, s.Field)
                 Value  == IF behind > Len(text) THEN s.Value ELSE SubSeq(text, behind, end - 1)
      <3>1. ReadField(text, s) =
              IF Len(Field) <= 3 \/ Len(Value) <= 1 THEN [s EXCEPT !.good = FALSE]
              ELSE [at |-> end + 1, good |-> end <= Len(text), Field |-> Front(Field), Value |-> Tail(Value),
                    HeaderFields |-> SetValue(s.HeaderFields, Front(Field), Tail(Value))]
        BY DEF ReadField
      <3>2. behind = a + l + 2 /\ Field = field
        BY <1>7, <1>9
      <3> HIDE DEF behind
      <3>3. end = a + l + m + 4
        BY <1>8, <3>2
      <3> HIDE DEF end
      <3>4. Value = value
        BY <2>1, <2>2, <3>2, <3>3 DEF value
      <3> HIDE DEF Field, Value
      <3> QED BY <3>1, <3>2, <3>3, <3>4
    <2> QED BY <1>11, <1>12, <2>2, <2>3, <2>4
  <1> QED BY <1>2, <1>3, <1>13 DEF f, v

\* A request up to the end of the line of its k-th field.
Before(path, k) == FirstLine(path) \o FlattenSeq([i \in 1 .. k |-> FieldLine(FieldLines[i])])

\* The line of a field is a text.
LEMMA FieldLineIs ==
  ASSUME NEW i \in DOMAIN FieldLines
  PROVE  FieldLine(FieldLines[i]) \in Text
  <1> DEFINE f == FieldLines[i].field
             v == FieldLines[i].value
  <1>1. f \in Text /\ v \in Text
    BY LinesAreTexts
  <1>2. FieldLine(FieldLines[i]) = f \o <<58, Space>> \o v \o <<Return, NewLine>>
    BY DEF FieldLine
  <1> HIDE DEF f, v
  <1>3. f \o <<58, Space>> \in Text
    BY <1>1, Constants, Joined
  <1>4. f \o <<58, Space>> \o v \in Text
    BY <1>1, <1>3, Joined
  <1>5. f \o <<58, Space>> \o v \o <<Return, NewLine>> \in Text
    BY <1>4, Constants, Joined
  <1> QED BY <1>2, <1>5

\* The first line, one line more, and all of them.
LEMMA LinesBefore ==
  ASSUME NEW path \in Text
  PROVE  /\ Before(path, 0) = FirstLine(path)
         /\ \A k \in 0 .. Len(FieldLines) : Before(path, k) \in Text
         /\ \A k \in 1 .. Len(FieldLines) :
              Before(path, k) = Before(path, k - 1) \o FieldLine(FieldLines[k])
         /\ RequestText(path) = Before(path, Len(FieldLines)) \o <<Return, NewLine>>
  <1> DEFINE q(k) == [i \in 1 .. k |-> FieldLine(FieldLines[i])]
             C == 0 .. 255
  <1>0. Len(FieldLines) \in Nat /\ DOMAIN FieldLines = 1 .. Len(FieldLines)
    BY LinesAreTexts
  <1>1. FirstLine(path) \in Text
    BY RequestTyped
  <1>2. ASSUME NEW k \in 0 .. Len(FieldLines)
        PROVE  /\ q(k) \in Seq(Seq(C)) /\ Len(q(k)) = k
               /\ \A i \in 1 .. k : q(k)[i] = FieldLine(FieldLines[i])
    <2>1. \A i \in 1 .. k : FieldLine(FieldLines[i]) \in Seq(C)
      BY <1>0, FieldLineIs DEF Text
    <2>2. k \in Nat
      BY <1>0
    <2> HIDE DEF C
    <2> QED BY <2>1, <2>2
  <1>3. Before(path, 0) = FirstLine(path)
    <2>1. q(0) = <<>>
      <3>1. 0 \in 0 .. Len(FieldLines)
        BY <1>0
      <3>2. q(0) \in Seq(Seq(C)) /\ Len(q(0)) = 0
        BY <1>2, <3>1
      <3> QED BY <3>2, EmptySeq
    <2>2. Before(path, 0) = FirstLine(path) \o FlattenSeq(q(0))
      BY DEF Before
    <2> QED BY <1>1, <2>1, <2>2, FlattenNone, JoinedNone
  <1>4. ASSUME NEW k \in 0 .. Len(FieldLines) PROVE FlattenSeq(q(k)) \in Text /\ Before(path, k) \in Text
    <2>1. FlattenSeq(q(k)) \in Text
      BY <1>2, FlattenTyped DEF Text
    <2>2. Before(path, k) = FirstLine(path) \o FlattenSeq(q(k))
      BY DEF Before
    <2> HIDE DEF q
    <2> QED BY <1>1, <2>1, <2>2, Joined
  <1>5. ASSUME NEW k \in 1 .. Len(FieldLines)
        PROVE  Before(path, k) = Before(path, k - 1) \o FieldLine(FieldLines[k])
    <2> DEFINE x == FieldLine(FieldLines[k])
               d == q(k - 1)
               e == q(k)
    <2>1. x \in Seq(C) /\ x \in Text
      BY <1>0, FieldLineIs DEF Text
    <2>2. /\ d \in Seq(Seq(C)) /\ Len(d) = k - 1
          /\ \A i \in 1 .. k - 1 : d[i] = FieldLine(FieldLines[i])
      <3>1. k - 1 \in 0 .. Len(FieldLines)
        BY <1>0
      <3> QED BY <1>2, <3>1
    <2>3. /\ e \in Seq(Seq(C)) /\ Len(e) = k
          /\ \A i \in 1 .. k : e[i] = FieldLine(FieldLines[i])
      <3>1. k \in 0 .. Len(FieldLines)
        BY <1>0
      <3> QED BY <1>2, <3>1
    <2>4. e[k] = x
      <3>1. k \in 1 .. k
        BY <1>0
      <3> QED BY <2>3, <3>1
    <2> HIDE DEF x, d, e, C
    <2>5. /\ Append(d, x) \in Seq(Seq(C)) /\ Len(Append(d, x)) = k
          /\ \A i \in 1 .. k - 1 : Append(d, x)[i] = d[i]
          /\ Append(d, x)[k] = x
      <3>1. /\ Append(d, x) \in Seq(Seq(C)) /\ Len(Append(d, x)) = Len(d) + 1
            /\ \A i \in 1 .. Len(d) : Append(d, x)[i] = d[i]
            /\ Append(d, x)[Len(d) + 1] = x
        BY <2>1, <2>2, AppendProperties
      <3>2. k - 1 + 1 = k
        BY <1>0
      <3> QED BY <2>2, <3>1, <3>2
    <2>6. ASSUME NEW i \in 1 .. k PROVE e[i] = Append(d, x)[i]
      <3>1. CASE i = k
        BY <2>4, <2>5, <3>1
      <3>2. CASE i # k
        <4>1. i \in 1 .. k - 1 /\ i \in 1 .. k
          BY <3>2
        <4> QED BY <2>2, <2>3, <2>5, <4>1
      <3> QED BY <3>1, <3>2
    <2>7. e = Append(d, x)
      <3>1. Len(e) = Len(Append(d, x)) /\ \A i \in 1 .. Len(e) : e[i] = Append(d, x)[i]
        BY <2>3, <2>5, <2>6
      <3> DEFINE w == Append(d, x)
      <3>2. w \in Seq(Seq(C)) /\ Len(e) = Len(w) /\ \A i \in 1 .. Len(e) : e[i] = w[i]
        BY <2>5, <3>1
      <3> HIDE DEF w
      <3>3. e = w
        BY <2>3, <3>2, SeqEqual
      <3> QED BY <3>3 DEF w
    <2>8. FlattenSeq(e) = FlattenSeq(d) \o x
      BY <2>1, <2>2, <2>7, FlattenNext
    <2>9. FlattenSeq(d) \in Text
      <3>1. FlattenSeq(d) \in Seq(C)
        BY <2>2, FlattenTyped
      <3> QED BY <3>1 DEF C, Text
    <2>10. Before(path, k) = FirstLine(path) \o FlattenSeq(e) /\ Before(path, k - 1) = FirstLine(path) \o FlattenSeq(d)
      BY DEF Before, d, e
    <2> DEFINE u == FirstLine(path)
               z == FlattenSeq(d)
    <2>11. u \in Text /\ z \in Text
      BY <1>1, <2>9
    <2> HIDE DEF u, z
    <2>12. (u \o z) \o x = u \o (z \o x)
      BY <2>1, <2>11, Regroup
    <2> QED BY <2>8, <2>10, <2>12 DEF x, u, z
  <1>6. RequestText(path) = Before(path, Len(FieldLines)) \o <<Return, NewLine>>
    BY <1>0 DEF RequestText, Before
  <1> HIDE DEF q
  <1> QED BY <1>3, <1>4, <1>5, <1>6

\* The lines that follow.
LEMMA LinesFollow ==
  ASSUME NEW path \in Text
  PROVE  \A k \in 0 .. Len(FieldLines) : \E r \in Text : RequestText(path) = Before(path, k) \o r
  <1> DEFINE n == Len(FieldLines)
             T == {i \in 1 .. n + 1 : \E r \in Text : RequestText(path) = Before(path, i - 1) \o r}
  <1>0. n \in Nat /\ DOMAIN FieldLines = 1 .. n
    BY LinesAreTexts
  <1>1. n + 1 \in T
    <2>1. n + 1 \in 1 .. n + 1 /\ n + 1 - 1 = n
      BY <1>0
    <2>2. /\ <<Return, NewLine>> \in Text
          /\ RequestText(path) = Before(path, n) \o <<Return, NewLine>>
      BY Constants, LinesBefore
    <2>3. \E r \in Text : RequestText(path) = Before(path, n) \o r
      BY <2>2
    <2> QED BY <2>1, <2>3
  <1>2. ASSUME NEW i \in 1 .. n, i + 1 \in T PROVE i \in T
    <2>1. i + 1 - 1 = i /\ i \in 0 .. n /\ i - 1 \in 0 .. n /\ i \in 1 .. n + 1
      BY <1>0
    <2>2. PICK r \in Text : RequestText(path) = Before(path, i) \o r
      BY <1>2, <2>1
    <2> DEFINE a == Before(path, i - 1)
               x == FieldLine(FieldLines[i])
    <2>3. a \in Text /\ x \in Text /\ Before(path, i) = a \o x
      BY <1>0, <2>1, LinesBefore, FieldLineIs
    <2> HIDE DEF a, x
    <2>4. (a \o x) \o r = a \o (x \o r) /\ x \o r \in Text
      <3>1. (a \o x) \o r = a \o (x \o r)
        BY <2>3, Regroup
      <3>2. x \o r \in Text
        BY <2>3, Joined
      <3> QED BY <3>1, <3>2
    <2>5. RequestText(path) = a \o (x \o r)
      BY <2>2, <2>3, <2>4
    <2> QED BY <2>1, <2>4, <2>5 DEF a
  <1> HIDE DEF T
  <1>3. \A i \in 1 .. n : (\A j \in i + 1 .. n + 1 : j \in T) => i \in T
    <2> TAKE i \in 1 .. n
    <2>1. i + 1 \in i + 1 .. n + 1
      BY <1>0
    <2> QED BY <1>2, <2>1
  <1>4. \A i \in 1 .. n + 1 : i \in T
    BY <1>0, <1>1, <1>3, Downwards
  <1> TAKE k \in 0 .. Len(FieldLines)
  <1>5. k + 1 \in 1 .. n + 1 /\ k + 1 - 1 = k
    BY <1>0
  <1>6. k + 1 \in T
    BY <1>4, <1>5
  <1>7. PICK r \in Text : RequestText(path) = Before(path, k + 1 - 1) \o r
    BY <1>6 DEF T
  <1> QED BY <1>5, <1>7

\* The lines stand in the request, one behind the other.
LEMMA LinesStand ==
  ASSUME NEW path \in Text, NEW k \in 1 .. Len(FieldLines)
  PROVE  LET f == FieldLines[k]
             a == Len(Before(path, k - 1))
         IN /\ a \in Nat /\ LineBehind(RequestText(path), a, f)
            /\ Len(Before(path, k)) = a + Len(f.field) + Len(f.value) + 4
            /\ RequestText(path)[Len(Before(path, k))] = NewLine
  <1> DEFINE f == FieldLines[k].field
             v == FieldLines[k].value
             p == Before(path, k - 1)
             c == p \o f
             d == c \o <<58, Space>>
             e == d \o v
             g == e \o <<Return, NewLine>>
  <1>0. /\ k \in DOMAIN FieldLines /\ k - 1 \in 0 .. Len(FieldLines) /\ k \in 0 .. Len(FieldLines)
        /\ f \in Text /\ v \in Text
    BY LinesAreTexts
  <1>1. PICK l \in Nat : l = Len(f)
    BY <1>0, Characters
  <1>2. PICK m \in Nat : m = Len(v)
    BY <1>0, Characters
  <1>3. p \in Text /\ Before(path, k) = p \o FieldLine(FieldLines[k])
    BY <1>0, LinesBefore
  <1>4. FieldLine(FieldLines[k]) = f \o <<58, Space>> \o v \o <<Return, NewLine>>
    BY DEF FieldLine
  <1>5. PICK a \in Nat : a = Len(p)
    BY <1>3, Characters
  <1>6. PICK r \in Text : RequestText(path) = Before(path, k) \o r
    BY <1>0, LinesFollow
  <1> HIDE DEF f, v, p
  <1> DEFINE colon == <<58, Space>>
             ends == <<Return, NewLine>>
  <1>7. /\ colon \in Text /\ Len(colon) = 2 /\ colon[1] = 58 /\ colon[2] = Space
        /\ ends \in Text /\ Len(ends) = 2 /\ ends[1] = Return /\ ends[2] = NewLine
        /\ 1 \in 1 .. 2 /\ 2 \in 1 .. 2
    BY Constants
  <1> HIDE DEF colon, ends
  <1>8. /\ c \in Text /\ Len(c) = a + l
        /\ \A j \in 1 .. l : c[a + j] = f[j]
    BY <1>0, <1>1, <1>3, <1>5, Joined
  <1> HIDE DEF c
  <1>9. /\ d \in Text /\ Len(d) = a + l + 2
        /\ \A j \in 1 .. a + l : d[j] = c[j]
        /\ d[a + l + 1] = 58 /\ d[a + l + 2] = Space
    <2>1. /\ c \o colon \in Text /\ Len(c \o colon) = Len(c) + Len(colon)
          /\ \A j \in 1 .. Len(c) : (c \o colon)[j] = c[j]
          /\ \A j \in 1 .. Len(colon) : (c \o colon)[Len(c) + j] = colon[j]
      <3>1. c \in Text /\ colon \in Text
        BY <1>7, <1>8
      <3> QED BY <3>1, Joined, Zenon
    <2>2. d = c \o colon
      BY DEF colon
    <2> HIDE DEF d
    <2> QED BY <1>7, <1>8, <2>1, <2>2
  <1> HIDE DEF d
  <1>10. /\ e \in Text /\ Len(e) = a + l + 2 + m
         /\ \A j \in 1 .. a + l + 2 : e[j] = d[j]
         /\ \A j \in 1 .. m : e[a + l + 2 + j] = v[j]
    <2>1. d \in Text /\ v \in Text
      BY <1>0, <1>9
    <2>2. /\ d \o v \in Text /\ Len(d \o v) = Len(d) + Len(v)
          /\ \A j \in 1 .. Len(d) : (d \o v)[j] = d[j]
          /\ \A j \in 1 .. Len(v) : (d \o v)[Len(d) + j] = v[j]
      BY <2>1, Joined
    <2>3. e = d \o v
      OBVIOUS
    <2> HIDE DEF e
    <2> QED BY <1>2, <1>9, <2>2, <2>3
  <1> HIDE DEF e
  <1>11. /\ g \in Text /\ Len(g) = a + l + m + 4
         /\ \A j \in 1 .. a + l + 2 + m : g[j] = e[j]
         /\ g[a + l + m + 3] = Return /\ g[a + l + m + 4] = NewLine
    <2>1. /\ e \o ends \in Text /\ Len(e \o ends) = Len(e) + Len(ends)
          /\ \A j \in 1 .. Len(e) : (e \o ends)[j] = e[j]
          /\ \A j \in 1 .. Len(ends) : (e \o ends)[Len(e) + j] = ends[j]
      BY <1>7, <1>10, Joined
    <2>2. g = e \o ends
      BY DEF ends
    <2> HIDE DEF g
    <2>3. g[Len(e) + 1] = Return /\ g[Len(e) + 2] = NewLine
      BY <1>7, <2>1, <2>2
    <2>4. Len(e) + 1 = a + l + m + 3 /\ Len(e) + 2 = a + l + m + 4
      BY <1>10
    <2> QED BY <1>7, <1>10, <2>1, <2>2, <2>3, <2>4
  <1>12. Before(path, k) = g
    <2>1. Before(path, k) = p \o (((f \o colon) \o v) \o ends)
      BY <1>3, <1>4 DEF colon, ends
    <2>2. f \o colon \in Text /\ (f \o colon) \o v \in Text
      <3>1. f \o colon \in Text
        BY <1>0, <1>7, Joined
      <3> QED BY <1>0, <3>1, Joined
    <2>3. (p \o f) \o colon = p \o (f \o colon)
      BY <1>0, <1>3, <1>7, Regroup
    <2> DEFINE x == f \o colon
    <2>4. x \in Text
      BY <2>2
    <2> HIDE DEF x
    <2>5. (p \o x) \o v = p \o (x \o v) /\ x \o v \in Text
      <3>1. (p \o x) \o v = p \o (x \o v)
        BY <1>0, <1>3, <2>4, Regroup
      <3>2. x \o v \in Text
        BY <1>0, <2>4, Joined
      <3> QED BY <3>1, <3>2
    <2> DEFINE y == x \o v
    <2>6. y \in Text
      BY <2>5
    <2> HIDE DEF y
    <2>7. (p \o y) \o ends = p \o (y \o ends)
      BY <1>3, <1>7, <2>6, Regroup
    <2>8. g = (((p \o f) \o colon) \o v) \o ends
      BY DEF g, e, d, c, colon, ends
    <2>9. Before(path, k) = p \o (y \o ends)
      BY <2>1 DEF x, y
    <2>10. (p \o f) \o colon = p \o x
      BY <2>3 DEF x
    <2>11. (p \o x) \o v = p \o y
      BY <2>5 DEF y
    <2> HIDE DEF g
    <2> QED BY <2>7, <2>8, <2>9, <2>10, <2>11
  <1> HIDE DEF g
  <1> DEFINE text == RequestText(path)
  <1>13. Len(text) >= Len(g) /\ \A j \in 1 .. Len(g) : text[j] = g[j]
    <2>1. /\ g \o r \in Text /\ Len(g \o r) = Len(g) + Len(r) /\ Len(g) \in Nat /\ Len(r) \in Nat
          /\ \A j \in 1 .. Len(g) : (g \o r)[j] = g[j]
      BY <1>11, Joined
    <2>2. text = g \o r
      BY <1>6, <1>12
    <2> HIDE DEF text
    <2> QED BY <2>1, <2>2
  <1> HIDE DEF text
  <1>14. /\ \A j \in 1 .. l : text[a + j] = f[j]
         /\ text[a + l + 1] = 58 /\ text[a + l + 2] = Space
         /\ \A j \in 1 .. m : text[a + l + 2 + j] = v[j]
         /\ text[a + l + m + 3] = Return /\ text[a + l + m + 4] = NewLine
    <2>1. ASSUME NEW j \in 1 .. l PROVE text[a + j] = f[j]
      <3>1. a + j \in 1 .. a + l /\ a + j \in 1 .. a + l + 2 /\ a + j \in 1 .. a + l + 2 + m
            /\ a + j \in 1 .. a + l + m + 4
        OBVIOUS
      <3> QED BY <1>8, <1>9, <1>10, <1>11, <1>13, <3>1
    <2>2. ASSUME NEW j \in 1 .. m PROVE text[a + l + 2 + j] = v[j]
      <3>1. a + l + 2 + j \in 1 .. a + l + 2 + m /\ a + l + 2 + j \in 1 .. a + l + m + 4
        OBVIOUS
      <3> QED BY <1>10, <1>11, <1>13, <3>1
    <2>3. ASSUME NEW j \in a + l + 1 .. a + l + 2 PROVE text[j] = d[j]
      <3>1. j \in 1 .. a + l + 2 /\ j \in 1 .. a + l + 2 + m /\ j \in 1 .. a + l + m + 4
        OBVIOUS
      <3> QED BY <1>10, <1>11, <1>13, <3>1
    <2>4. /\ a + l + 1 \in a + l + 1 .. a + l + 2 /\ a + l + 2 \in a + l + 1 .. a + l + 2
          /\ a + l + m + 3 \in 1 .. a + l + m + 4 /\ a + l + m + 4 \in 1 .. a + l + m + 4
      OBVIOUS
    <2>5. text[a + l + 1] = 58 /\ text[a + l + 2] = Space
      BY <1>9, <2>3, <2>4
    <2>6. text[a + l + m + 3] = Return /\ text[a + l + m + 4] = NewLine
      BY <1>11, <1>13, <2>4
    <2> QED BY <2>1, <2>2, <2>5, <2>6
  <1>15. a + l + m + 4 <= Len(text)
    <2>1. Len(text) \in Nat
      BY RequestTyped, Characters DEF text
    <2> QED BY <1>11, <1>13, <2>1
  <1>16. LineBehind(text, a, FieldLines[k])
    BY <1>1, <1>2, <1>14, <1>15 DEF LineBehind, f, v
  <1> QED BY <1>1, <1>2, <1>5, <1>11, <1>12, <1>14, <1>16 DEF text, f, v, p

\* Up to its end a text is the whole text.
LEMMA WholeText == \A text \in Text : SubSeq(text, 1, Len(text)) = text
  <1> TAKE text \in Text
  <1>1. PICK n \in Nat : n = Len(text)
    BY Characters
  <1>2. 1 \in 1 .. Len(text) + 1 /\ n \in 0 .. Len(text) /\ 1 <= n + 1 /\ n - 1 + 1 = n
    BY <1>1
  <1>3. /\ SubSeq(text, 1, n) \in Text /\ Len(SubSeq(text, 1, n)) = n
        /\ \A k \in 1 .. n : SubSeq(text, 1, n)[k] = text[1 + k - 1]
    BY <1>2, Stretch
  <1> DEFINE w == SubSeq(text, 1, n)
  <1>4. \A k \in 1 .. n : 1 + k - 1 = k
    OBVIOUS
  <1>5. w \in Seq(0 .. 255) /\ text \in Seq(0 .. 255) /\ Len(w) = Len(text) /\ \A k \in 1 .. Len(w) : w[k] = text[k]
    BY <1>1, <1>3, <1>4 DEF Text
  <1> HIDE DEF w
  <1>6. w = text
    BY <1>5, SeqEqual
  <1> QED BY <1>1, <1>6 DEF w

\* The loop begins at the end of the last word of the first line.
LEMMA LoopBegins ==
  ASSUME NEW path \in Word
  PROVE  LET text  == RequestText(path)
             start == LoopStart(NoHeader, text)
             a     == Len(Before(path, 0))
         IN /\ start \in Reading /\ start.good = TRUE /\ a \in Nat /\ start.at <= a + 1
            /\ \A j \in start.at .. a : text[j] \in Blank
  <1> DEFINE text == RequestText(path)
             line == FirstLine(path)
  <1>0. path \in Text /\ path # <<>> /\ path \in Seq((0 .. 255) \ Blank)
    BY SeqMonotonic DEF Word, Text
  <1>1. PICK k \in Nat \ {0} : k = Len(path)
    BY <1>0, EmptySeq, Characters
  <1>2. /\ Len(line) = k + 11
        /\ \A i \in 1 .. 4 : line[5 + k + i] \notin Blank
        /\ line[5 + k] = Space /\ line[10 + k] = Return /\ line[11 + k] = NewLine
    BY <1>0, <1>1, FirstLineIs
  <1>3. Before(path, 0) = line /\ line \in Text /\ text \in Text
    BY <1>0, LinesBefore, RequestTyped
  <1>4. Len(text) \in Nat /\ Len(line) <= Len(text) /\ \A i \in 1 .. k + 11 : text[i] = line[i]
    <2>1. 0 \in 0 .. Len(FieldLines)
      BY LinesAreTexts
    <2>2. PICK r \in Text : text = line \o r
      BY <1>0, <1>3, <2>1, LinesFollow
    <2> HIDE DEF text, line
    <2>3. /\ line \o r \in Text /\ Len(line \o r) = Len(line) + Len(r) /\ Len(line) \in Nat /\ Len(r) \in Nat
          /\ \A i \in 1 .. Len(line) : (line \o r)[i] = line[i]
      BY <1>3, Joined
    <2> QED BY <1>2, <2>2, <2>3
  <1>5. WordEnd(text, WordEnd(text, 1)) = 5 + k
    <2>1. SubSeq(text, 1, Len(text)) = text
      BY <1>3, WholeText
    <2>2. Len(text) \in Nat /\ Len(text) >= Len(line) /\ Len(text) <= Len(text)
      BY <1>2, <1>4
    <2>3. WordEnd(SubSeq(text, 1, Len(text)), WordEnd(SubSeq(text, 1, Len(text)), 1)) = 5 + Len(path)
      BY <2>2, FirstLineRead
    <2> QED BY <1>1, <2>1, <2>3
  <1> HIDE DEF text, line
  <1>6. /\ text[5 + k] = Space /\ text[10 + k] = Return /\ text[11 + k] = NewLine
        /\ \A i \in 1 .. 4 : text[5 + k + i] \notin Blank
    <2>1. /\ 5 + k \in 1 .. k + 11 /\ 10 + k \in 1 .. k + 11 /\ 11 + k \in 1 .. k + 11
          /\ \A i \in 1 .. 4 : 5 + k + i \in 1 .. k + 11
      OBVIOUS
    <2> QED BY <1>2, <1>4, <2>1
  <1>7. k + 11 <= Len(text) /\ DOMAIN text = 1 .. Len(text) /\ \A j \in 1 .. Len(text) : text[j] \in Range(text)
    <2>1. DOMAIN text = 1 .. Len(text)
      BY <1>3, Characters
    <2> QED BY <1>2, <1>4, <2>1 DEF Range
  <1>8. Space \in Blank /\ Return \in Blank /\ NewLine \in Blank
    BY DEF Blank, Space, Return, NewLine
  <1>9. WordStart(text, 5 + k) = 6 + k
    <2> DEFINE V == Range(text) \ Blank
               b == 5 + k
               r == 6 + k
    <2>1. r \in b .. Len(text) /\ b \in Nat /\ r = 5 + k + 1 /\ 1 \in 1 .. 4
      BY <1>7
    <2>2. text[r] \in V
      <3>1. text[r] \notin Blank
        BY <1>6, <2>1
      <3>2. r \in 1 .. Len(text)
        BY <2>1
      <3> QED BY <1>7, <3>1, <3>2
    <2>3. \A j \in b .. r - 1 : j = 5 + k
      OBVIOUS
    <2>4. \A j \in b .. r - 1 : text[j] \notin V
      BY <1>6, <1>8, <2>3
    <2> HIDE DEF V, b, r
    <2>5. FirstOf(text, b, V) = r
      BY <1>3, <2>1, <2>2, <2>4, FirstOfMeans
    <2> QED BY <2>5 DEF V, b, r, WordStart
  <1>10. WordEnd(text, 5 + k) = 10 + k
    <2> DEFINE b == 6 + k
               r == 10 + k
    <2>1. r \in b .. Len(text) /\ b \in Nat /\ text[r] \in Blank
      BY <1>6, <1>7, <1>8
    <2>2. ASSUME NEW j \in b .. r - 1 PROVE text[j] \notin Blank
      <3>1. PICK i \in 1 .. 4 : i = j - 5 - k
        OBVIOUS
      <3>2. j = 5 + k + i
        BY <3>1
      <3> QED BY <1>6, <3>2
    <2> HIDE DEF b, r
    <2>3. FirstOf(text, b, Blank) = r
      BY <1>3, <2>1, <2>2, FirstOfMeans
    <2> QED BY <1>9, <2>3 DEF b, r, WordEnd
  <1> DEFINE start == LoopStart(NoHeader, text)
  <1>11. start = [at |-> 10 + k, good |-> 10 + k <= Len(text), Field |-> <<>>, Value |-> <<>>,
                  HeaderFields |-> <<>>]
    BY <1>5, <1>10 DEF LoopStart, NoHeader
  <1> HIDE DEF start
  <1>12. start \in Reading /\ start.good = TRUE /\ start.at = 10 + k
    <2>1. 10 + k \in Nat \ {0} /\ 10 + k <= Len(text)
      BY <1>7
    <2>2. <<>> \in Text /\ <<>> \in FieldMap
      BY FieldMaps, Constants
    <2> QED BY <1>11, <2>1, <2>2 DEF Reading
  <1>13. Len(Before(path, 0)) = k + 11
    BY <1>2, <1>3
  <1>14. \A j \in 10 + k .. k + 11 : text[j] \in Blank
    <2>1. \A j \in 10 + k .. k + 11 : j = 10 + k \/ j = 11 + k
      OBVIOUS
    <2> QED BY <1>6, <1>8, <2>1
  <1> QED BY <1>12, <1>13, <1>14 DEF text, start

\* The loop turns at least once for every line.
LEMMA EnoughTurns ==
  ASSUME NEW path \in Word, NEW i \in DOMAIN FieldLines
  PROVE  i <= Turns(RequestText(path))
  <1> DEFINE text == RequestText(path)
             Ends == {j \in DOMAIN text : text[j] = NewLine}
             g == [k \in 1 .. i |-> Len(Before(path, k))]
  <1>0. path \in Text /\ text \in Text
    <2>1. path \in Text
      BY SeqMonotonic DEF Word, Text
    <2> QED BY <2>1, RequestTyped
  <1>1. /\ Len(text) \in Nat /\ DOMAIN text = 1 .. Len(text)
        /\ Len(FieldLines) \in Nat /\ i \in 1 .. Len(FieldLines)
    BY <1>0, Characters, LinesAreTexts
  <1>2. ASSUME NEW k \in 1 .. i
        PROVE  /\ Len(Before(path, k)) \in Ends /\ Len(Before(path, k)) \in Nat
               /\ Len(Before(path, k - 1)) \in Nat /\ Len(Before(path, k - 1)) < Len(Before(path, k))
    <2> DEFINE f == FieldLines[k]
               a == Len(Before(path, k - 1))
               e == Len(Before(path, k))
    <2>1. k \in 1 .. Len(FieldLines) /\ k \in DOMAIN FieldLines
      BY <1>1, LinesAreTexts
    <2>2. /\ a \in Nat /\ LineBehind(text, a, f)
          /\ e = a + Len(f.field) + Len(f.value) + 4 /\ text[e] = NewLine
      BY <1>0, <2>1, LinesStand
    <2>3. Len(f.field) \in Nat /\ Len(f.value) \in Nat
      BY <2>1, LinesAreTexts, Characters
    <2>4. a + Len(f.field) + Len(f.value) + 4 <= Len(text)
      BY <2>2 DEF LineBehind
    <2> HIDE DEF text, f, a, e
    <2>5. e \in 1 .. Len(text) /\ e \in Nat /\ a < e
      <3>1. PICK l \in Nat, m \in Nat : l = Len(f.field) /\ m = Len(f.value)
        BY <2>3
      <3>2. a \in Nat /\ e = a + l + m + 4 /\ a + l + m + 4 <= Len(text)
        BY <2>2, <2>4, <3>1
      <3> QED BY <1>1, <3>2
    <2> QED BY <1>1, <2>2, <2>5 DEF a, e
  <1> HIDE DEF text
  <1>3. IsFiniteSet(Ends) /\ Cardinality(Ends) \in Nat
    <2>1. Ends \in SUBSET (1 .. Len(text)) /\ IsFiniteSet(1 .. Len(text))
      BY <1>1, FS_Interval
    <2> QED BY <2>1, FS_Subset, FS_CardinalityType
  <1> HIDE DEF Ends
  <1>4. \A k \in 1 .. i : \A j \in 1 .. i : j < k => Len(Before(path, j)) < Len(Before(path, k))
    <2> DEFINE T == {k \in Nat : k \in 1 .. i =>
                       \A j \in 1 .. i : j < k => Len(Before(path, j)) < Len(Before(path, k))}
    <2>1. 0 \in T
      OBVIOUS
    <2>2. ASSUME NEW k \in Nat, k \in T PROVE k + 1 \in T
      <3> SUFFICES ASSUME k + 1 \in 1 .. i, NEW j \in 1 .. i, j < k + 1
                   PROVE  Len(Before(path, j)) < Len(Before(path, k + 1))
        OBVIOUS
      <3>1. k + 1 - 1 = k /\ j \in 1 .. i /\ Len(Before(path, j)) \in Nat
        BY <1>2
      <3>2. Len(Before(path, k)) \in Nat /\ Len(Before(path, k + 1)) \in Nat
            /\ Len(Before(path, k)) < Len(Before(path, k + 1))
        BY <1>2, <3>1
      <3>3. CASE j = k
        BY <3>2, <3>3
      <3>4. CASE j # k
        <4>1. j < k /\ k \in 1 .. i
          BY <1>1, <3>4
        <4>2. Len(Before(path, j)) < Len(Before(path, k))
          BY <2>2, <4>1
        <4> QED BY <3>1, <3>2, <4>2
      <3> QED BY <3>3, <3>4
    <2> HIDE DEF T
    <2>3. \A k \in Nat : k \in T
      BY <2>1, <2>2, Induction
    <2> TAKE k \in 1 .. i
    <2>4. k \in T
      BY <2>3
    <2> QED BY <2>4 DEF T
  <1>5. ASSUME Cardinality(Ends) < i PROVE FALSE
    <2>1. IsFiniteSet(1 .. i) /\ Cardinality(1 .. i) = i
      BY <1>1, FS_Interval
    <2>2. g \in [1 .. i -> Ends] /\ \A k \in 1 .. i : g[k] = Len(Before(path, k))
      BY <1>2
    <2> HIDE DEF g
    <2>3. Cardinality(Ends) < Cardinality(1 .. i)
      BY <1>5, <2>1
    <2> DEFINE S == 1 .. i
    <2>11. IsFiniteSet(S) /\ IsFiniteSet(Ends) /\ Cardinality(Ends) < Cardinality(S) /\ g \in [S -> Ends]
      BY <1>3, <2>1, <2>2, <2>3
    <2> HIDE DEF S
    <2>12. \E x, y \in S : x # y /\ g[x] = g[y]
      BY <2>11, FS_PigeonHole
    <2>4. PICK x \in 1 .. i, y \in 1 .. i : x # y /\ g[x] = g[y]
      BY <2>12 DEF S
    <2>5. /\ Len(Before(path, x)) = Len(Before(path, y)) /\ Len(Before(path, x)) \in Nat
          /\ x < y \/ y < x
      BY <1>2, <2>2, <2>4
    <2> QED BY <1>4, <2>5
  <1>6. Turns(text) = Cardinality(Ends) + 1
    BY DEF Turns, Ends
  <1>7. i <= Turns(text)
    BY <1>1, <1>3, <1>5, <1>6
  <1> QED BY <1>7 DEF text

\* A field that is stored has its value, and the others keep theirs.
LEMMA ValueSet ==
  ASSUME NEW fields, NEW f, NEW v
  PROVE  /\ f \in DOMAIN SetValue(fields, f, v) /\ SetValue(fields, f, v)[f] = v
         /\ \A g \in DOMAIN fields : g # f => /\ g \in DOMAIN SetValue(fields, f, v)
                                              /\ SetValue(fields, f, v)[g] = fields[g]
  BY DEF SetValue

\* What the loop has read after k turns, as far as field i is concerned.
ReadSoFar(path, i, k, s) ==
  LET text == RequestText(path)
      a == Len(Before(path, k))
      f == FieldLines[i].field
  IN /\ s \in Reading
     /\ s.good => /\ k <= Len(FieldLines) /\ s.at <= a + 1
                  /\ \A j \in s.at .. a : text[j] \in Blank
                  /\ k # 0 => s.Field = FieldLines[k].field
     /\ k <= i => s.good
     /\ i <= k => f \in DOMAIN s.HeaderFields /\ s.HeaderFields[f] = FieldLines[i].value \o <<Return>>

\* Behind the last line the strings keep what they had.
LEMMA LastTurn ==
  ASSUME NEW path \in Word, NEW s \in Reading,
         LET a == Len(Before(path, Len(FieldLines)))
         IN s.at <= a + 1 /\ \A j \in s.at .. a : RequestText(path)[j] \in Blank
  PROVE  LET r == ReadField(RequestText(path), s)
         IN /\ ~ r.good
            /\ \/ r.HeaderFields = s.HeaderFields
               \/ \E v : r.HeaderFields = SetValue(s.HeaderFields, Front(s.Field), v)
  <1> DEFINE text == RequestText(path)
             n == Len(FieldLines)
             p == Before(path, n)
  <1>0. path \in Text /\ text \in Text /\ Len(text) \in Nat /\ DOMAIN text = 1 .. Len(text)
    <2>1. path \in Text
      BY SeqMonotonic DEF Word, Text
    <2> QED BY <2>1, RequestTyped, Characters
  <1>1. PICK a \in Nat : a = Len(p)
    <2>1. n \in 0 .. n
      BY LinesAreTexts
    <2> QED BY <1>0, <2>1, LinesBefore, Characters
  <1>2. s.at \in Nat \ {0} /\ s.at <= a + 1 /\ \A j \in s.at .. a : text[j] \in Blank
    BY <1>1 DEF Reading
  <1>3. Len(text) = a + 2 /\ text[a + 1] = Return /\ text[a + 2] = NewLine
    <2> DEFINE ends == <<Return, NewLine>>
    <2>1. ends \in Text /\ Len(ends) = 2 /\ ends[1] = Return /\ ends[2] = NewLine /\ 1 \in 1 .. 2 /\ 2 \in 1 .. 2
      BY Constants
    <2>2. p \in Text /\ text = p \o ends
      <3>1. n \in 0 .. n
        BY LinesAreTexts
      <3> QED BY <1>0, <3>1, LinesBefore
    <2> HIDE DEF text, p, ends
    <2>3. /\ Len(p \o ends) = Len(p) + Len(ends)
          /\ \A i \in 1 .. Len(ends) : (p \o ends)[Len(p) + i] = ends[i]
      BY <2>1, <2>2, Joined
    <2> QED BY <1>1, <2>1, <2>2, <2>3
  <1> HIDE DEF text, p, n
  <1>4. \A j \in s.at .. Len(text) : text[j] \in Blank
    <2> TAKE j \in s.at .. Len(text)
    <2>1. j \in s.at .. a \/ j = a + 1 \/ j = a + 2
      BY <1>2, <1>3
    <2>2. Return \in Blank /\ NewLine \in Blank
      BY DEF Blank, NewLine
    <2> QED BY <1>2, <1>3, <2>1, <2>2
  <1>5. WordStart(text, s.at) = Len(text) + 1
    <2> DEFINE V == Range(text) \ Blank
    <2>1. \A j \in s.at .. Len(text) : text[j] \notin V
      BY <1>4
    <2> HIDE DEF V
    <2>2. FirstOf(text, s.at, V) = Len(text) + 1
      <3>1. s.at \in Nat
        BY <1>2
      <3>2. \/ FirstOf(text, s.at, V) = Len(text) + 1
            \/ FirstOf(text, s.at, V) \in s.at .. Len(text) /\ text[FirstOf(text, s.at, V)] \in V
        BY <1>0, <3>1, FirstOfIs
      <3> QED BY <2>1, <3>2
    <2> QED BY <2>2 DEF WordStart, V
  <1>6. WordEnd(text, s.at) = Len(text) + 1
    <2> DEFINE b == s.at
    <2>1. b \in Nat \ {0} /\ WordStart(text, b) > Len(text)
      BY <1>0, <1>2, <1>5
    <2> HIDE DEF b
    <2>2. WordEnd(text, b) = Len(text) + 1
      BY <1>0, <2>1, WordIs
    <2> QED BY <2>2 DEF b
  <1>7. FirstOf(text, Len(text) + 1, {NewLine}) = Len(text) + 1
    <2> DEFINE e == Len(text) + 1
    <2>1. e \in Nat
      BY <1>0
    <2> HIDE DEF e
    <2>2. \/ FirstOf(text, e, {NewLine}) = Len(text) + 1
          \/ FirstOf(text, e, {NewLine}) \in e .. Len(text)
      BY <1>0, <2>1, FirstOfIs
    <2>3. e .. Len(text) = {}
      BY <1>0 DEF e
    <2> QED BY <2>2, <2>3 DEF e
  <1> DEFINE behind == WordEnd(text, s.at)
             end    == FirstOf(text, behind, {NewLine})
             Field  == Read(text, s.at, s.Field)
             Value  == IF behind > Len(text) THEN s.Value ELSE SubSeq(text, behind, end - 1)
             r == ReadField(text, s)
  <1>8. r = IF Len(Field) <= 3 \/ Len(Value) <= 1 THEN [s EXCEPT !.good = FALSE]
            ELSE [at |-> end + 1, good |-> end <= Len(text), Field |-> Front(Field), Value |-> Tail(Value),
                  HeaderFields |-> SetValue(s.HeaderFields, Front(Field), Tail(Value))]
    BY DEF ReadField
  <1>9. ~ (end <= Len(text)) /\ Field = s.Field
    <2>1. behind = Len(text) + 1
      BY <1>6
    <2> HIDE DEF behind
    <2>2. end = Len(text) + 1
      BY <1>7, <2>1
    <2>3. Field = s.Field
      BY <1>0, <1>5 DEF Read
    <2> HIDE DEF end, Field
    <2> QED BY <1>0, <2>2, <2>3
  <1> HIDE DEF end, Field, Value, r
  <1>10. ~ r.good /\ \/ r.HeaderFields = s.HeaderFields
                     \/ r.HeaderFields = SetValue(s.HeaderFields, Front(s.Field), Tail(Value))
    <2>1. CASE Len(Field) <= 3 \/ Len(Value) <= 1
      <3>1. r = [s EXCEPT !.good = FALSE]
        BY <1>8, <2>1
      <3> QED BY <3>1 DEF Reading
    <2>2. CASE ~ (Len(Field) <= 3 \/ Len(Value) <= 1)
      <3>1. r.good = (end <= Len(text)) /\ r.HeaderFields = SetValue(s.HeaderFields, Front(Field), Tail(Value))
        BY <1>8, <2>2
      <3> QED BY <1>9, <3>1
    <2> QED BY <2>1, <2>2
  <1> QED BY <1>10 DEF r, text

\* A turn of the loop reads on.
LEMMA TurnReads ==
  ASSUME NEW path \in Word, NEW i \in DOMAIN FieldLines, Readable(i), NEW k \in Nat, NEW s,
         ReadSoFar(path, i, k, s)
  PROVE  ReadSoFar(path, i, k + 1, IF s.good THEN ReadField(RequestText(path), s) ELSE s)
  <1> DEFINE text == RequestText(path)
             n == Len(FieldLines)
             a == Len(Before(path, k))
             f == FieldLines[i].field
             v == FieldLines[i].value \o <<Return>>
  <1>0. /\ path \in Text /\ text \in Text /\ n \in Nat /\ i \in 1 .. n /\ DOMAIN FieldLines = 1 .. n
        /\ FieldLines \in Seq([field : Word, value : Seq((0 .. 255) \ {NewLine})])
    <2>1. path \in Text
      BY SeqMonotonic DEF Word, Text
    <2> QED BY <2>1, RequestTyped, LinesAreTexts, AnsweringAssumption
  <1>1. /\ s \in Reading
        /\ s.good => /\ k <= n /\ s.at <= a + 1
                     /\ \A j \in s.at .. a : text[j] \in Blank
                     /\ k # 0 => s.Field = FieldLines[k].field
        /\ k <= i => s.good
        /\ i <= k => f \in DOMAIN s.HeaderFields /\ s.HeaderFields[f] = v
    BY DEF ReadSoFar
  <1>2. CASE ~ s.good
    <2>1. i <= k /\ i <= k + 1 /\ ~ (k + 1 <= i)
      BY <1>0, <1>1, <1>2
    <2> QED BY <1>1, <1>2, <2>1 DEF ReadSoFar
  <1>3. CASE s.good /\ k < n
    <2> DEFINE g == FieldLines[k + 1].field
               w == FieldLines[k + 1].value
               e == Len(Before(path, k + 1))
               r == ReadField(text, s)
    <2>1. k + 1 \in 1 .. n /\ k + 1 - 1 = k
      BY <1>0, <1>3
    <2>2. /\ a \in Nat /\ LineBehind(text, a, FieldLines[k + 1])
          /\ e = a + Len(g) + Len(w) + 4
      <3> DEFINE h == k + 1
      <3>1. h \in 1 .. Len(FieldLines) /\ h - 1 = k
        BY <2>1
      <3> HIDE DEF h
      <3>2. /\ Len(Before(path, h - 1)) \in Nat
            /\ LineBehind(RequestText(path), Len(Before(path, h - 1)), FieldLines[h])
            /\ Len(Before(path, h)) = Len(Before(path, h - 1)) + Len(FieldLines[h].field) + Len(FieldLines[h].value) + 4
        BY <1>0, <3>1, LinesStand
      <3> QED BY <3>1, <3>2 DEF h
    <2>3. PICK l \in Nat : l = Len(g)
      BY <1>0, <2>1, LinesAreTexts
    <2>4. PICK m \in Nat : m = Len(w)
      BY <1>0, <2>1, LinesAreTexts, Characters
    <2>5. e = a + l + m + 4
      BY <2>2, <2>3, <2>4
    <2>6. r = IF l <= 2 THEN [s EXCEPT !.good = FALSE]
              ELSE [at |-> a + l + m + 5, good |-> TRUE, Field |-> g, Value |-> w \o <<Return>>,
                    HeaderFields |-> SetValue(s.HeaderFields, g, w \o <<Return>>)]
      <3>1. /\ s.at <= a + 1 /\ \A j \in s.at .. a : text[j] \in Blank
            /\ k + 1 \in DOMAIN FieldLines
        BY <1>0, <1>1, <1>3, <2>1
      <3>2. r = IF Len(g) <= 2 THEN [s EXCEPT !.good = FALSE]
                ELSE [at |-> a + Len(g) + Len(w) + 5, good |-> TRUE, Field |-> g, Value |-> w \o <<Return>>,
                      HeaderFields |-> SetValue(s.HeaderFields, g, w \o <<Return>>)]
        <4> DEFINE h == k + 1
        <4>1. h \in DOMAIN FieldLines /\ LineBehind(text, a, FieldLines[h])
          BY <2>2, <3>1
        <4> HIDE DEF h, text, a
        <4>2. a \in Nat /\ text \in Text
          BY <1>0, <2>2
        <4>3. ReadField(text, s) =
                LET F == FieldLines[h].field
                    V == FieldLines[h].value
                IN IF Len(F) <= 2 THEN [s EXCEPT !.good = FALSE]
                   ELSE [at |-> a + Len(F) + Len(V) + 5, good |-> TRUE, Field |-> F, Value |-> V \o <<Return>>,
                         HeaderFields |-> SetValue(s.HeaderFields, F, V \o <<Return>>)]
          BY <1>1, <3>1, <4>1, <4>2, LineRead
        <4> QED BY <4>3 DEF h
      <3> QED BY <2>3, <2>4, <3>2
    <2>7. r \in Reading
      BY <1>0, <1>1, ReadFieldTyped
    <2> HIDE DEF text, a, e, r, n, g, w, v, f
    <2>8. CASE l <= 2
      <3>1. r = [s EXCEPT !.good = FALSE]
        BY <2>6, <2>8
      <3>2. ~ r.good /\ r.HeaderFields = s.HeaderFields
        BY <1>1, <3>1 DEF Reading
      <3>3. ~ (k + 1 <= i)
        <4>1. ASSUME k + 1 <= i PROVE FALSE
          <5>1. k + 1 \in 1 .. i
            BY <1>0, <4>1
          <5>2. Len(FieldLines[k + 1].field) > 2
            BY <5>1 DEF Readable
          <5> QED BY <2>3, <2>8, <5>2 DEF g
        <4> QED BY <4>1
      <3>4. i <= k
        BY <1>0, <3>3
      <3>5. f \in DOMAIN r.HeaderFields /\ r.HeaderFields[f] = v
        BY <1>1, <3>2, <3>4
      <3> QED BY <1>3, <2>7, <3>2, <3>3, <3>5 DEF ReadSoFar, r, text, f, v
    <2>9. CASE ~ (l <= 2)
      <3>1. r = [at |-> a + l + m + 5, good |-> TRUE, Field |-> g, Value |-> w \o <<Return>>,
                 HeaderFields |-> SetValue(s.HeaderFields, g, w \o <<Return>>)]
        BY <2>6, <2>9
      <3>2. /\ r.at = e + 1 /\ r.good = TRUE /\ r.Field = g
            /\ r.HeaderFields = SetValue(s.HeaderFields, g, w \o <<Return>>)
        BY <2>2, <2>5, <3>1
      <3>3. e \in Nat /\ r.at .. e = {} /\ r.at <= e + 1
        BY <2>2, <2>5, <3>2
      <3>4. ASSUME i <= k + 1 PROVE f \in DOMAIN r.HeaderFields /\ r.HeaderFields[f] = v
        <4>1. CASE i = k + 1
          <5>1. g = f /\ w \o <<Return>> = v
            BY <4>1 DEF g, f, w, v
          <5>2. r.HeaderFields = SetValue(s.HeaderFields, f, v)
            BY <3>2, <5>1
          <5> QED BY <5>2, ValueSet
        <4>2. CASE i # k + 1
          <5>1. i <= k /\ k + 1 \in i + 1 .. Len(FieldLines)
            BY <1>0, <2>1, <3>4, <4>2 DEF n
          <5>2. g # f
            BY <5>1 DEF Readable, g, f
          <5>3. f \in DOMAIN s.HeaderFields /\ s.HeaderFields[f] = v
            BY <1>1, <5>1
          <5> QED BY <3>2, <5>2, <5>3, ValueSet
        <4> QED BY <4>1, <4>2
      <3>5. k + 1 <= n /\ \A j \in r.at .. e : text[j] \in Blank
        BY <2>1, <3>3
      <3>6. ReadSoFar(path, i, k + 1, r)
        BY <2>7, <3>2, <3>3, <3>4, <3>5 DEF ReadSoFar, text, f, v, e, n, g
      <3> QED BY <1>3, <3>6 DEF r, text
    <2> QED BY <2>8, <2>9
  <1>4. CASE s.good /\ ~ (k < n)
    <2> DEFINE r == ReadField(text, s)
    <2>1. k = n /\ i <= k /\ ~ (k + 1 <= i) /\ k # 0
      BY <1>0, <1>1, <1>4
    <2>2. s.Field = FieldLines[n].field /\ s.at <= a + 1 /\ \A j \in s.at .. a : text[j] \in Blank
      BY <1>1, <1>4, <2>1
    <2>3. /\ ~ r.good
          /\ \/ r.HeaderFields = s.HeaderFields
             \/ \E x : r.HeaderFields = SetValue(s.HeaderFields, Front(s.Field), x)
      <3>1. a = Len(Before(path, Len(FieldLines)))
        BY <2>1
      <3> QED BY <1>1, <2>2, <3>1, LastTurn
    <2>4. r \in Reading
      BY <1>0, <1>1, ReadFieldTyped
    <2>5. Front(s.Field) # f
      <3>1. Last(FieldLines) = FieldLines[n]
        BY DEF Last
      <3> QED BY <2>2, <3>1 DEF Readable
    <2>6. f \in DOMAIN s.HeaderFields /\ s.HeaderFields[f] = v
      BY <1>1, <2>1
    <2> HIDE DEF r, f, v
    <2>7. f \in DOMAIN r.HeaderFields /\ r.HeaderFields[f] = v
      BY <2>3, <2>5, <2>6, ValueSet
    <2> QED BY <1>4, <2>1, <2>3, <2>4, <2>7 DEF ReadSoFar, r, f, v
  <1> QED BY <1>2, <1>3, <1>4

\* What a request that arrives uncut says of a field can be read back.
LEMMA FieldRead ==
  ASSUME NEW path \in Word, NEW i \in DOMAIN FieldLines, Readable(i)
  PROVE  GetValue(ImportHeader(NoHeader, RequestText(path)), FieldLines[i].field)
           = FieldLines[i].value \o <<Return>>
  <1> DEFINE text == RequestText(path)
             f == FieldLines[i].field
             start == LoopStart(NoHeader, text)
             m == Turns(text)
  <1>0. text \in Text /\ NoHeader \in Header
    <2>1. path \in Text
      BY SeqMonotonic DEF Word, Text
    <2> QED BY <2>1, RequestTyped, FieldMaps, Constants DEF NoHeader, Header
  <1>1. PICK loop : /\ FieldSteps(text, start, loop, m)
                    /\ ImportHeader(NoHeader, text).HeaderFields = loop[m].HeaderFields
    BY <1>0, ImportIs
  <1>2. m \in Nat /\ i <= m /\ i \in Nat \ {0}
    <2>1. m \in Nat
      BY <1>0, ImportIs
    <2>2. i \in Nat \ {0}
      BY LinesAreTexts
    <2> QED BY <2>1, <2>2, EnoughTurns
  <1>3. /\ loop[0] = start
        /\ \A k \in 0 .. m : k # 0 => loop[k] = IF loop[k - 1].good THEN ReadField(text, loop[k - 1]) ELSE loop[k - 1]
    <2> HIDE DEF start, m, text
    <2>1. loop = [k \in 0 .. m |-> IF k = 0 THEN start
                   ELSE IF loop[k - 1].good THEN ReadField(text, loop[k - 1]) ELSE loop[k - 1]]
      BY <1>1 DEF FieldSteps
    <2>2. 0 \in 0 .. m
      BY <1>2
    <2> QED BY <2>1, <2>2
  <1> DEFINE T == {k \in Nat : k <= m => ReadSoFar(path, i, k, loop[k])}
  <1>4. 0 \in T
    <2>1. ReadSoFar(path, i, 0, start)
      <3>1. /\ start \in Reading /\ start.good = TRUE /\ start.at <= Len(Before(path, 0)) + 1
            /\ \A j \in start.at .. Len(Before(path, 0)) : text[j] \in Blank
        BY LoopBegins
      <3>2. ~ (i <= 0) /\ 0 <= i /\ 0 <= Len(FieldLines)
        BY <1>2, LinesAreTexts
      <3> HIDE DEF start
      <3> QED BY <3>1, <3>2 DEF ReadSoFar
    <2> QED BY <1>3, <2>1
  <1>5. ASSUME NEW k \in Nat, k \in T PROVE k + 1 \in T
    <2> SUFFICES ASSUME k + 1 <= m PROVE ReadSoFar(path, i, k + 1, loop[k + 1])
      OBVIOUS
    <2> HIDE DEF m, text, start
    <2>1. k <= m /\ k + 1 \in 0 .. m /\ k + 1 # 0 /\ k + 1 - 1 = k
      BY <1>2
    <2>2. loop[k + 1] = IF loop[k].good THEN ReadField(text, loop[k]) ELSE loop[k]
      BY <1>3, <2>1
    <2>3. ReadSoFar(path, i, k, loop[k])
      BY <1>5, <2>1
    <2> DEFINE s == loop[k]
    <2>4. ReadSoFar(path, i, k, s)
      BY <2>3
    <2> HIDE DEF s
    <2>5. ReadSoFar(path, i, k + 1, IF s.good THEN ReadField(text, s) ELSE s)
      BY <2>4, TurnReads DEF text
    <2> QED BY <2>2, <2>5 DEF s
  <1> HIDE DEF T
  <1>6. m \in T
    BY <1>2, <1>4, <1>5, Induction
  <1>7. ReadSoFar(path, i, m, loop[m])
    BY <1>2, <1>6 DEF T
  <1>8. f \in DOMAIN loop[m].HeaderFields /\ loop[m].HeaderFields[f] = FieldLines[i].value \o <<Return>>
    BY <1>2, <1>7 DEF ReadSoFar
  <1> QED BY <1>1, <1>8 DEF GetValue

\* A request that has arrived uncut is what its header was read from.
Heard ==
  \A t \in Thread :
    (pc[t] = "locate" /\ browser[t].cut = "nothing")
      => BrowserRequest[t] = ImportHeader(NoHeader, RequestText(browser[t].asked))

\* Nobody has asked for anything at the start.
LEMMA HeardInit == Init => Heard
  BY DEF Init, Heard

\* A header is read from the request, and no step but the next request changes it.
LEMMA HeardNext == Typed /\ Asks /\ Heard /\ [Next]_vars => Heard'
  <1> SUFFICES ASSUME Typed, Asks, Heard, [Next]_vars PROVE Heard'
    OBVIOUS
  <1>0. DOMAIN pc = Thread /\ DOMAIN browser = Thread /\ DOMAIN BrowserRequest = Thread
    BY DEF Typed
  <1>1. CASE UNCHANGED vars
    BY <1>1 DEF vars, Heard
  <1>2. ASSUME NEW t \in Thread, Step(t) PROVE Heard'
    <2>1. CASE Receive(t)
      <3>1. PICK n \in Cuts(t) \cup {Len(browser[t].rest)} :
              LET header == ImportHeader(BrowserRequest[t], SubSeq(browser[t].rest, 1, n))
              IN /\ BrowserRequest' = [BrowserRequest EXCEPT ![t] = header]
                 /\ browser' = [browser EXCEPT ![t].rest = SubSeq(@, n + 1, Len(@)),
                      ![t].cut = CASE n = Len(browser[t].rest)               -> @
                                   [] n # Len(browser[t].rest) /\ n < Len(FirstLine(browser[t].asked)) -> "line"
                                   [] OTHER                                   -> "fields"]
                 /\ Goto(t, IF ToBeAnswered(t, header) THEN "locate" ELSE "receive")
        BY <2>1 DEF Receive
      <3> DEFINE rest == browser[t].rest
                 asked == browser[t].asked
                 header == ImportHeader(BrowserRequest[t], SubSeq(rest, 1, n))
                 cut == CASE n = Len(rest) -> browser[t].cut
                          [] n # Len(rest) /\ n < Len(FirstLine(asked)) -> "line"
                          [] OTHER -> "fields"
      <3>2. /\ browser'[t].asked = asked /\ browser'[t].cut = cut
            /\ \A u \in Thread \ {t} : browser'[u] = browser[u]
        <4>1. browser \in [Thread -> BrowserType] /\ browser[t] \in BrowserType
          BY DEF Typed
        <4>2. browser' = [browser EXCEPT ![t] = [browser[t] EXCEPT !.rest = SubSeq(rest, n + 1, Len(rest)), !.cut = cut]]
          BY <3>1, <4>1
        <4> HIDE DEF cut, rest
        <4> QED BY <4>1, <4>2 DEF BrowserType
      <3>3. /\ BrowserRequest'[t] = header /\ pc[t] = "receive"
            /\ \A u \in Thread \ {t} : BrowserRequest'[u] = BrowserRequest[u] /\ pc'[u] = pc[u]
            /\ pc'[t] = "locate" => answer[t] = NoAnswer
        BY <1>0, <2>1, <3>1 DEF Goto, ToBeAnswered, Receive
      <3>4. ASSUME pc'[t] = "locate", cut = "nothing" PROVE header = ImportHeader(NoHeader, RequestText(asked))
        <4>1. n = Len(rest) /\ browser[t].cut = "nothing"
          BY <3>4
        <4>2. rest = RequestText(asked) /\ BrowserRequest[t] = NoHeader
          BY <3>3, <3>4, <4>1 DEF Asks
        <4>3. rest \in Text
          <5>1. browser[t] \in BrowserType
            BY DEF Typed
          <5> QED BY <5>1 DEF BrowserType
        <4>4. SubSeq(rest, 1, n) = rest
          BY <4>1, <4>3, WholeText
        <4> QED BY <4>2, <4>4
      <3> HIDE DEF rest, asked, header, cut
      <3> SUFFICES ASSUME NEW u \in Thread, pc'[u] = "locate", browser'[u].cut = "nothing"
                   PROVE  BrowserRequest'[u] = ImportHeader(NoHeader, RequestText(browser'[u].asked))
        BY DEF Heard
      <3>5. CASE u = t
        BY <3>2, <3>3, <3>4, <3>5
      <3>6. CASE u # t
        BY <3>2, <3>3, <3>6 DEF Heard
      <3> QED BY <3>5, <3>6
    <2>2. ASSUME ~ Receive(t)
          PROVE  \A u \in Thread : pc'[u] = "locate" =>
                   pc[u] = "locate" /\ browser'[u] = browser[u] /\ BrowserRequest'[u] = BrowserRequest[u]
      <3> SUFFICES ASSUME NEW u \in Thread, pc'[u] = "locate"
                   PROVE  pc[u] = "locate" /\ browser'[u] = browser[u] /\ BrowserRequest'[u] = BrowserRequest[u]
        OBVIOUS
      <3> USE <1>0 DEF Goto
      <3>1. CASE TypePath(t)
        BY <3>1 DEF TypePath, Connect
      <3>2. CASE FollowLink(t)
        BY <3>2 DEF FollowLink, Connect
      <3>3. CASE Leave(t) \/ FollowElsewhere(t) \/ OpenFails(t)
        BY <3>3 DEF Leave, FollowElsewhere, OpenFails, Gone
      <3>4. CASE Illegal(t) \/ LocateResource(t)
        BY <3>4 DEF Illegal, LocateResource
      <3>5. CASE NotFound(t) \/ FindFile(t) \/ FindFolder(t) \/ FindUnreadable(t) \/ Overrun(t)
        BY <3>5 DEF NotFound, FindFile, FindFolder, FindUnreadable, Overrun
      <3>6. CASE WriteSize(t) \/ CopySize(t) \/ IndexDone(t)
        BY <3>6 DEF WriteSize, CopySize, IndexDone
      <3>7. CASE DefaultType(t) \/ MatchType(t) \/ NoMatch(t) \/ SendHeader(t)
        BY <3>7 DEF DefaultType, MatchType, NoMatch, SendHeader
      <3> QED BY <1>2, <2>2, <3>1, <3>2, <3>3, <3>4, <3>5, <3>6, <3>7 DEF Step
    <2>3. ASSUME ~ Receive(t) PROVE Heard'
      BY <2>2, <2>3 DEF Heard
    <2> QED BY <2>1, <2>3
  <1> QED BY <1>1, <1>2 DEF Next

\* Every field that the loop over the lines can read is read back with its value, however
\* many fields there are and whatever they say, although the line behind the last one is
\* taken for a field too.
THEOREM FieldsRead == Spec => []FieldsReadBack
  <1>1. Asks /\ Heard => FieldsReadBack
    <2> SUFFICES ASSUME Asks, Heard, NEW t \in Thread, NEW i \in DOMAIN FieldLines,
                        pc[t] = "locate", browser[t].cut = "nothing", Readable(i)
                 PROVE  GetValue(BrowserRequest[t], FieldLines[i].field) = FieldLines[i].value \o <<Return>>
      BY DEF FieldsReadBack
    <2>1. browser[t].asked \in Word
      BY DEF Asks, Choosing
    <2>2. BrowserRequest[t] = ImportHeader(NoHeader, RequestText(browser[t].asked))
      BY DEF Heard
    <2> QED BY <2>1, <2>2, FieldRead
  <1> QED BY <1>1, AsksHold, HeardInit, HeardNext, PTL DEF Spec
================================================================================
