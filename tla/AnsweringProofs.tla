---------------------------- MODULE AnsweringProofs ----------------------------
(***************************************************************************)
(* Two things that Answering promises, for any number of threads, any files *)
(* and any requests: what goes through a static buffer is the thread's own  *)
(* unless another one wrote there in between, and an index is the list of   *)
(* its folder, in order.                                                    *)
(***************************************************************************)
EXTENDS Answering, PathsProofs

--------------------------------------------------------------------------------
(* The static buffers *)

\* A thread that has written a buffer and not yet copied it finds there what it wrote,
\* unless it was disturbed.
OwnBuffers ==
  \A t \in Thread :
    t \notin disturbed =>
      /\ pc[t] = "match" => mimetype = "text/plain"
      /\ pc[t] = "copy type" => mimetype = TypeOf(Resource[t])
      /\ pc[t] = "copy size" => FriendlyFileSize = ConvertSizeToFriendly(NextFile(t).Size)

Label == {"away", "receive", "locate", "find", "size", "copy size", "mime", "match", "copy type",
          "ended"}

\* The variables that hold something per thread.
Shape ==
  /\ pc \in [Thread -> Label]
  /\ DOMAIN Resource = Thread /\ DOMAIN table = Thread /\ DOMAIN answer = Thread
  /\ DOMAIN BrowserRequest = Thread
  /\ DOMAIN sizes = Thread /\ \A t \in Thread : \E S : sizes[t] \in Seq(S)

\* The empty sequence is one.
LEMMA NoSizes == <<>> \in Seq(Nat)
  OBVIOUS

\* A sequence stays one when something is appended to it.
LEMMA OneMoreSize == \A S, x : \A s \in Seq(S) : Append(s, x) \in Seq(S \cup {x})
  OBVIOUS

\* At the start every variable holds something for each thread.
LEMMA ShapeInit == Init => Shape
  <1>1. <<>> \in Seq(Nat)
    BY EmptySeq
  <1> QED BY <1>1 DEF Init, Shape, Label

\* And every step leaves it so.
LEMMA ShapeNext == Shape /\ [Next]_vars => Shape'
  <1> SUFFICES ASSUME Shape, [Next]_vars PROVE Shape'
    OBVIOUS
  <1> USE DEF Shape, Goto, Label, Index, Buffers
  <1>1. CASE UNCHANGED vars
    BY <1>1 DEF vars
  <1>2. ASSUME NEW t \in Thread, Step(t) PROVE Shape'
    <2>1. CASE TypePath(t)
      BY <2>1 DEF TypePath, Connect
    <2>2. CASE FollowLink(t)
      BY <2>2 DEF FollowLink, Connect
    <2>3. CASE Leave(t)
      BY <2>3 DEF Leave, Gone
    <2>4. CASE Receive(t)
      BY <2>4 DEF Receive
    <2>5. CASE Illegal(t)
      BY <2>5 DEF Illegal
    <2>6. CASE LocateResource(t)
      BY <2>6 DEF LocateResource
    <2>7. CASE NotFound(t)
      BY <2>7 DEF NotFound, Told
    <2>8. CASE FindFile(t)
      BY <2>8 DEF FindFile
    <2>9. CASE FindFolder(t)
      BY <2>9, NoSizes DEF FindFolder
    <2>10. CASE FindUnreadable(t)
      BY <2>10 DEF FindUnreadable
    <2>11. CASE WriteSize(t)
      BY <2>11 DEF WriteSize, Disturb
    <2>12. CASE CopySize(t)
      BY <2>12, OneMoreSize DEF CopySize
    <2>13. CASE IndexDone(t)
      BY <2>13, NoSizes DEF IndexDone, Told
    <2>14. CASE DefaultType(t)
      BY <2>14 DEF DefaultType, Disturb
    <2>15. CASE MatchType(t)
      BY <2>15 DEF MatchType, Disturb
    <2>16. CASE NoMatch(t)
      BY <2>16 DEF NoMatch
    <2>17. CASE SendHeader(t)
      BY <2>17 DEF SendHeader, Told
    <2>18. CASE OpenFails(t)
      BY <2>18 DEF OpenFails, Gone
    <2>19. CASE FollowElsewhere(t)
      BY <2>19 DEF FollowElsewhere, Gone
    <2>20. CASE Overrun(t)
      BY <2>20 DEF Overrun
    <2> QED BY <1>2, <2>1, <2>2, <2>3, <2>4, <2>5, <2>6, <2>7, <2>8, <2>9, <2>10, <2>11, <2>12,
               <2>13, <2>14, <2>15, <2>16, <2>17, <2>18, <2>19, <2>20 DEF Step
  <1> QED BY <1>1, <1>2 DEF Next

\* Who writes a buffer marks those that have still to read it as disturbed.
LEMMA OwnBuffersNext == Shape /\ OwnBuffers /\ [Next]_vars => OwnBuffers'
  <1> SUFFICES ASSUME Shape, OwnBuffers, [Next]_vars, NEW u \in Thread, u \notin disturbed'
               PROVE  /\ pc'[u] = "match" => mimetype' = "text/plain"
                      /\ pc'[u] = "copy type" => mimetype' = TypeOf(Resource'[u])
                      /\ pc'[u] = "copy size"
                           => FriendlyFileSize' = ConvertSizeToFriendly(NextFile(u)'.Size)
    BY DEF OwnBuffers
  <1> USE DEF Shape, Goto, Index, Buffers, OwnBuffers, NextFile
  <1>1. CASE UNCHANGED vars
    BY <1>1 DEF vars
  <1>2. ASSUME NEW t \in Thread, Step(t)
        PROVE  /\ pc'[u] = "match" => mimetype' = "text/plain"
               /\ pc'[u] = "copy type" => mimetype' = TypeOf(Resource'[u])
               /\ pc'[u] = "copy size"
                    => FriendlyFileSize' = ConvertSizeToFriendly(NextFile(u)'.Size)
    <2>1. CASE TypePath(t)
      BY <2>1 DEF TypePath, Connect
    <2>2. CASE FollowLink(t)
      BY <2>2 DEF FollowLink, Connect
    <2>3. CASE Leave(t)
      BY <2>3 DEF Leave, Gone
    <2>4. CASE Receive(t)
      BY <2>4 DEF Receive
    <2>5. CASE Illegal(t)
      BY <2>5 DEF Illegal
    <2>6. CASE LocateResource(t)
      BY <2>6 DEF LocateResource
    <2>7. CASE NotFound(t)
      BY <2>7 DEF NotFound, Told
    <2>8. CASE FindFile(t)
      BY <2>8 DEF FindFile
    <2>9. CASE FindFolder(t)
      BY <2>9 DEF FindFolder
    <2>10. CASE FindUnreadable(t)
      BY <2>10 DEF FindUnreadable
    <2>11. CASE WriteSize(t)
      BY <2>11 DEF WriteSize, Disturb
    <2>12. CASE CopySize(t)
      BY <2>12 DEF CopySize
    <2>13. CASE IndexDone(t)
      BY <2>13 DEF IndexDone, Told
    <2>14. CASE DefaultType(t)
      BY <2>14 DEF DefaultType, Disturb
    <2>15. CASE MatchType(t)
      BY <2>15 DEF MatchType, Disturb, TypeOf
    <2>16. CASE NoMatch(t)
      BY <2>16 DEF NoMatch, TypeOf
    <2>17. CASE SendHeader(t)
      BY <2>17 DEF SendHeader, Told
    <2>18. CASE OpenFails(t)
      BY <2>18 DEF OpenFails, Gone
    <2>19. CASE FollowElsewhere(t)
      BY <2>19 DEF FollowElsewhere, Gone
    <2>20. CASE Overrun(t)
      BY <2>20 DEF Overrun
    <2> QED BY <1>2, <2>1, <2>2, <2>3, <2>4, <2>5, <2>6, <2>7, <2>8, <2>9, <2>10, <2>11, <2>12,
               <2>13, <2>14, <2>15, <2>16, <2>17, <2>18, <2>19, <2>20 DEF Step
  <1> QED BY <1>1, <1>2 DEF Next

\* What a buffer holds for an undisturbed thread is an invariant.
LEMMA BuffersHold == Spec => [](Shape /\ OwnBuffers)
  <1>1. Init => OwnBuffers
    BY DEF Init, OwnBuffers
  <1> QED BY <1>1, ShapeInit, ShapeNext, OwnBuffersNext, PTL DEF Spec

\* The type told for a file is that of its extension, unless another thread wrote the
\* static buffer of ReturnMimeType while this one still needed it.
THEOREM OwnTypeTold == Spec => OwnType
  <1>1. ASSUME Shape, OwnBuffers, NEW t \in Thread, SendHeader(t)
        PROVE  answer'[t].type = TypeOf(Resource[t]) \/ t \in disturbed
    <2>1. answer'[t].type = mimetype
      BY <1>1 DEF Shape, SendHeader, Told, Answer
    <2> QED BY <1>1, <2>1 DEF OwnBuffers, SendHeader
  <1>2. Shape /\ OwnBuffers
          => [\A t \in Thread : SendHeader(t) =>
                answer'[t].type = TypeOf(Resource[t]) \/ t \in disturbed]_vars
    BY <1>1
  <1> QED BY <1>2, BuffersHold, PTL DEF OwnType

\* The size told for a file in an index is its own, with the same exception for the static
\* buffer of ConvertSizeToFriendly.
THEOREM OwnSizeTold == Spec => OwnSize
  <1>1. ASSUME Shape, OwnBuffers, NEW t \in Thread, CopySize(t)
        PROVE  Last(sizes'[t]) = ConvertSizeToFriendly(NextFile(t).Size) \/ t \in disturbed
    <2>1. PICK S : sizes[t] \in Seq(S)
      BY <1>1 DEF Shape
    <2>2. sizes'[t] = Append(sizes[t], FriendlyFileSize)
      BY <1>1 DEF Shape, CopySize
    <2>3. Last(sizes'[t]) = FriendlyFileSize
      BY <2>1, <2>2 DEF Last
    <2> QED BY <1>1, <2>3 DEF OwnBuffers, CopySize
  <1>2. Shape /\ OwnBuffers
          => [\A t \in Thread : CopySize(t) =>
                Last(sizes'[t]) = ConvertSizeToFriendly(NextFile(t).Size) \/ t \in disturbed]_vars
    BY <1>1
  <1> QED BY <1>2, BuffersHold, PTL DEF OwnSize

--------------------------------------------------------------------------------
(* Comparing names *)

\* Two texts begin with the same n characters.
Agree(a, b, n) == \A j \in 1 .. n : a[j] = b[j]

\* Texts agree in n characters when their beginnings of that length are equal.
LEMMA SamePrefix ==
  ASSUME NEW a \in Text, NEW b \in Text, NEW n \in 0 .. Len(a), n <= Len(b)
  PROVE  SubSeq(a, 1, n) = SubSeq(b, 1, n) <=> Agree(a, b, n)
  <1>0. /\ Len(a) \in Nat /\ Len(b) \in Nat /\ 1 \in Int /\ n \in Int /\ n - 1 + 1 = n
        /\ (IF 1 <= n THEN n - 1 + 1 ELSE 0) = n
        /\ \A i \in 1 .. n : a[i] \in 0 .. 255 /\ b[i] \in 0 .. 255 /\ 1 + i - 1 = i
    BY Characters
  <1>1. /\ SubSeq(a, 1, n) \in Text /\ Len(SubSeq(a, 1, n)) = n
        /\ \A j \in 1 .. n : SubSeq(a, 1, n)[j] = a[j]
    BY <1>0, SubSeqProperties DEF Text
  <1>2. /\ SubSeq(b, 1, n) \in Text /\ Len(SubSeq(b, 1, n)) = n
        /\ \A j \in 1 .. n : SubSeq(b, 1, n)[j] = b[j]
    BY <1>0, SubSeqProperties DEF Text
  <1>3. Agree(a, b, n) => SubSeq(a, 1, n) = SubSeq(b, 1, n)
    BY <1>1, <1>2, SeqEqual DEF Agree, Text
  <1>4. SubSeq(a, 1, n) = SubSeq(b, 1, n) => Agree(a, b, n)
    BY <1>1, <1>2 DEF Agree
  <1> QED BY <1>3, <1>4

\* One name is a beginning of the other, or they differ first where it has the smaller
\* character.
LEMMA LessNameIs ==
  ASSUME NEW a \in Text, NEW b \in Text
  PROVE  LessName(a, b) <=>
           \/ Len(a) < Len(b) /\ Agree(a, b, Len(a))
           \/ \E i \in 1 .. Len(a) : i <= Len(b) /\ a[i] < b[i] /\ Agree(a, b, i - 1)
  <1>0. Len(a) \in Nat /\ Len(b) \in Nat
    BY LenProperties DEF Text
  <1>1. Len(a) < Len(b) => (SubSeq(b, 1, Len(a)) = a <=> Agree(a, b, Len(a)))
    <2>1. SubSeq(a, 1, Len(a)) = a
      BY DEF Text
    <2> QED BY <1>0, <2>1, SamePrefix
  <1>2. ASSUME NEW i \in 1 .. Len(a), i <= Len(b)
        PROVE  SubSeq(a, 1, i - 1) = SubSeq(b, 1, i - 1) <=> Agree(a, b, i - 1)
    <2>1. i - 1 \in 0 .. Len(a) /\ i - 1 <= Len(b)
      BY <1>0, <1>2
    <2> QED BY <2>1, SamePrefix
  <1>3. DOMAIN a \cap DOMAIN b = {i \in 1 .. Len(a) : i <= Len(b)}
    BY <1>0 DEF Text
  <1> QED BY <1>0, <1>1, <1>2, <1>3 DEF LessName

\* Two different names have a first difference.
LEMMA NamesCompare ==
  ASSUME NEW a \in Text, NEW b \in Text, a # b
  PROVE  LessName(a, b) \/ LessName(b, a)
  <1>0. Len(a) \in Nat /\ Len(b) \in Nat
    BY LenProperties DEF Text
  <1> DEFINE D == {i \in 1 .. Len(a) : i <= Len(b) /\ a[i] # b[i]}
  <1>1. CASE D = {}
    <2>1. \A n \in Nat : n <= Len(a) /\ n <= Len(b) => Agree(a, b, n) /\ Agree(b, a, n)
      BY <1>0, <1>1 DEF Agree
    <2>2. Len(a) # Len(b)
      <3>1. Len(a) = Len(b) => Agree(a, b, Len(a))
        BY <1>0, <2>1
      <3> QED BY <1>0, <3>1, SeqEqual DEF Agree, Text
    <2> QED BY <1>0, <2>1, <2>2, LessNameIs
  <1>2. CASE D # {}
    <2>1. PICK i \in D : \A j \in D : i <= j
      <3>1. D \in SUBSET Nat
        BY <1>0
      <3> HIDE DEF D
      <3> QED BY <1>2, <3>1, Least
    <2>2. a[i] \in Int /\ b[i] \in Int /\ i \in 1 .. Len(a) /\ i \in 1 .. Len(b)
      BY <1>0, Characters
    <2>3. Agree(a, b, i - 1) /\ Agree(b, a, i - 1)
      BY <1>0, <2>1, <2>2 DEF Agree
    <2>4. a[i] < b[i] \/ b[i] < a[i]
      BY <2>2
    <2> QED BY <1>0, <2>2, <2>3, <2>4, LessNameIs
  <1> QED BY <1>1, <1>2

\* Of two names at most one is less.
LEMMA NamesDiffer ==
  ASSUME NEW a \in Text, NEW b \in Text, LessName(a, b)
  PROVE  ~LessName(b, a)
  <1>0. /\ Len(a) \in Nat /\ Len(b) \in Nat
        /\ \A i \in 1 .. Len(a) : a[i] \in Int
        /\ \A i \in 1 .. Len(b) : b[i] \in Int
    BY Characters
  <1> SUFFICES ASSUME LessName(b, a) PROVE FALSE
    OBVIOUS
  <1>1. \/ Len(a) < Len(b) /\ Agree(a, b, Len(a))
        \/ \E i \in 1 .. Len(a) : i <= Len(b) /\ a[i] < b[i] /\ Agree(a, b, i - 1)
    BY LessNameIs
  <1>2. \/ Len(b) < Len(a) /\ Agree(b, a, Len(b))
        \/ \E i \in 1 .. Len(b) : i <= Len(a) /\ b[i] < a[i] /\ Agree(b, a, i - 1)
    BY LessNameIs
  <1> QED BY <1>0, <1>1, <1>2 DEF Agree

\* What is less than something less is less.
LEMMA NamesChain ==
  ASSUME NEW a \in Text, NEW b \in Text, NEW c \in Text, LessName(a, b), LessName(b, c)
  PROVE  LessName(a, c)
  <1>0. /\ Len(a) \in Nat /\ Len(b) \in Nat /\ Len(c) \in Nat
        /\ \A i \in 1 .. Len(a) : a[i] \in Int
        /\ \A i \in 1 .. Len(b) : b[i] \in Int
        /\ \A i \in 1 .. Len(c) : c[i] \in Int
    BY Characters
  <1> DEFINE Result == \/ Len(a) < Len(c) /\ Agree(a, c, Len(a))
                       \/ \E i \in 1 .. Len(a) : i <= Len(c) /\ a[i] < c[i] /\ Agree(a, c, i - 1)
  <1>1. CASE Len(a) < Len(b) /\ Agree(a, b, Len(a)) /\ Len(b) < Len(c) /\ Agree(b, c, Len(b))
    <2>1. Len(a) < Len(c) /\ Agree(a, c, Len(a))
      BY <1>0, <1>1 DEF Agree
    <2> QED BY <2>1, LessNameIs
  <1>2. ASSUME NEW i \in 1 .. Len(b), i <= Len(c), b[i] < c[i], Agree(b, c, i - 1),
               Len(a) < Len(b) /\ Agree(a, b, Len(a))
        PROVE  Result
    <2>1. CASE i <= Len(a)
      <3>1. i \in 1 .. Len(a) /\ a[i] = b[i] /\ a[i] < c[i] /\ Agree(a, c, i - 1)
        BY <1>0, <1>2, <2>1 DEF Agree
      <3> QED BY <1>2, <3>1
    <2>2. CASE i > Len(a)
      <3>1. Len(a) < Len(c) /\ Agree(a, c, Len(a))
        BY <1>0, <1>2, <2>2 DEF Agree
      <3> QED BY <3>1
    <2> QED BY <1>0, <2>1, <2>2
  <1>3. ASSUME NEW i \in 1 .. Len(a), i <= Len(b), a[i] < b[i], Agree(a, b, i - 1),
               Len(b) < Len(c) /\ Agree(b, c, Len(b))
        PROVE  Result
    <2>1. i <= Len(c) /\ a[i] < c[i] /\ Agree(a, c, i - 1)
      BY <1>0, <1>3 DEF Agree
    <2> QED BY <2>1
  <1>4. ASSUME NEW i \in 1 .. Len(a), i <= Len(b), a[i] < b[i], Agree(a, b, i - 1),
               NEW k \in 1 .. Len(b), k <= Len(c), b[k] < c[k], Agree(b, c, k - 1)
        PROVE  Result
    <2>1. CASE i <= k
      <3>1. i <= Len(c) /\ a[i] < c[i] /\ Agree(a, c, i - 1)
        <4>1. Agree(a, c, i - 1)
          BY <1>0, <1>4, <2>1 DEF Agree
        <4>2. i < k => b[i] = c[i]
          BY <1>0, <1>4 DEF Agree
        <4>3. i <= Len(c)
          BY <1>0, <1>4, <2>1
        <4>4. a[i] \in Int /\ b[i] \in Int /\ c[i] \in Int
          BY <1>0, <1>4, <4>3
        <4>5. a[i] < c[i]
          BY <1>4, <2>1, <4>2, <4>4
        <4> QED BY <4>1, <4>3, <4>5
      <3> QED BY <3>1
    <2>2. CASE k < i
      <3>1. k \in 1 .. Len(a) /\ k \in 1 .. i - 1
        BY <1>0, <1>4, <2>2
      <3>2. a[k] = b[k] /\ Agree(a, c, k - 1)
        BY <1>0, <1>4, <2>2, <3>1 DEF Agree
      <3> QED BY <1>4, <3>1, <3>2
    <2> QED BY <1>0, <2>1, <2>2
  <1>5. \/ Len(a) < Len(b) /\ Agree(a, b, Len(a))
        \/ \E i \in 1 .. Len(a) : i <= Len(b) /\ a[i] < b[i] /\ Agree(a, b, i - 1)
    BY LessNameIs
  <1>6. \/ Len(b) < Len(c) /\ Agree(b, c, Len(b))
        \/ \E i \in 1 .. Len(b) : i <= Len(c) /\ b[i] < c[i] /\ Agree(b, c, i - 1)
    BY LessNameIs
  <1>7. Result <=> LessName(a, c)
    BY LessNameIs
  <1> HIDE DEF Result
  <1> QED BY <1>1, <1>2, <1>3, <1>4, <1>5, <1>6, <1>7

\* Names are texts without a slash, and there are finitely many.
LEMMA NamesAreTexts ==
  /\ IsFiniteSet(AllNames)
  /\ \A n \in AllNames : n \in Part /\ n \in Text /\ n # <<>> /\ n \in Seq(1 .. 255) /\ IsName(n)
  <1>1. ASSUME NEW n \in AllNames
        PROVE  n \in Part /\ n \in Text /\ n # <<>> /\ n \in Seq(1 .. 255) /\ IsName(n)
    <2>1. PICK p \in DOMAIN Files : p # <<>> /\ n = Last(p)
      BY DEF AllNames
    <2>2. p \in Seq(Seq(1 .. 255)) /\ \A i \in DOMAIN p : IsFileName(p[i])
      BY IndexingAssumption
    <2>3. Len(p) \in 1 .. Len(p) /\ Len(p) \in DOMAIN p
      BY <2>1, <2>2, EmptySeq, LenProperties
    <2>4. IsFileName(n)
      BY <2>1, <2>2, <2>3 DEF Last
    <2>5. n \in Text /\ \A i \in 1 .. Len(n) : n[i] # Slash
      BY <2>4, SeqMonotonic DEF IsFileName, Text
    <2> QED BY <2>4, <2>5 DEF IsFileName, IsName, Part
  <1>2. IsFiniteSet(AllNames)
    <2> DEFINE D == DOMAIN Files \ {<<>>}
               f == [p \in D |-> Last(p)]
    <2>1. f \in Surjection(D, AllNames)
      BY DEF AllNames, Surjection
    <2>2. IsFiniteSet(D)
      BY IndexingAssumption, FS_Subset
    <2> QED BY <2>1, <2>2, FS_Surjection
  <1> QED BY <1>1, <1>2

--------------------------------------------------------------------------------
(* The table of an index *)

\* Less orders entries that have different names.
LEMMA LessOrders ==
  ASSUME NEW E, \A e \in E : e.Name \in Text /\ e.Folder \in BOOLEAN,
         \A a, b \in E : a.Name = b.Name => a = b
  PROVE  Orders({x \in E \X E : Less(x[1], x[2])}, E)
  <1> DEFINE R == {x \in E \X E : Less(x[1], x[2])}
  <1>0. \A a, b \in E : <<a, b>> \in R <=> Less(a, b)
    OBVIOUS
  <1> HIDE DEF R
  <1>1. ASSUME NEW a \in E, NEW b \in E, a # b
        PROVE  Less(a, b) <=> ~Less(b, a)
    <2>1. a.Name # b.Name
      BY <1>1
    <2>2. LessName(a.Name, b.Name) <=> ~LessName(b.Name, a.Name)
      BY <2>1, NamesCompare, NamesDiffer
    <2>3. (a.Folder = b.Folder) \/ (a.Folder /\ ~b.Folder) \/ (b.Folder /\ ~a.Folder)
      OBVIOUS
    <2>4. CASE a.Folder = b.Folder
      BY <2>1, <2>2, <2>4, Zenon DEF Less
    <2>5. CASE a.Folder # b.Folder
      BY <2>1, <2>2, <2>3, <2>5, Zenon DEF Less
    <2> QED BY <2>4, <2>5
  <1>2. ASSUME NEW a \in E, NEW b \in E, NEW c \in E, a # b, b # c, Less(a, b), Less(b, c)
        PROVE  Less(a, c)
    <2>1. a.Name # b.Name /\ b.Name # c.Name
      BY <1>2
    <2>2. CASE a.Name = DotDot
      BY <2>2 DEF Less
    <2>3. CASE a.Name # DotDot
      <3>1. b.Name # DotDot /\ c.Name # DotDot
        BY <1>2, <2>3, Zenon DEF Less
      <3>2. CASE a.Folder /\ ~c.Folder
        BY <3>1, <3>2, Zenon DEF Less
      <3>3. CASE ~(a.Folder /\ ~c.Folder)
        <4>1. /\ (a.Folder /\ ~b.Folder) \/ (a.Folder = b.Folder /\ LessName(a.Name, b.Name))
              /\ (b.Folder /\ ~c.Folder) \/ (b.Folder = c.Folder /\ LessName(b.Name, c.Name))
          BY <1>2, <2>3, <3>1, Zenon DEF Less
        <4>2. a.Folder = b.Folder /\ b.Folder = c.Folder
          BY <3>3, <4>1
        <4>3. LessName(a.Name, b.Name) /\ LessName(b.Name, c.Name)
          BY <4>1, <4>2, Zenon
        <4>4. LessName(a.Name, c.Name)
          BY <4>3, NamesChain
        <4> QED BY <3>1, <4>2, <4>4, Zenon DEF Less
      <3> QED BY <3>2, <3>3
    <2> QED BY <2>2, <2>3
  <1> QED BY <1>0, <1>1, <1>2 DEF Orders, R

\* What Ordered does with such entries.
LEMMA OrderedEntries ==
  ASSUME NEW E, IsFiniteSet(E), \A e \in E : e.Name \in Text /\ e.Folder \in BOOLEAN,
         \A a, b \in E : a.Name = b.Name => a = b
  PROVE  /\ Ordered(E, Less) \in Seq(E)
         /\ \A e \in E : \E k \in 1 .. Len(Ordered(E, Less)) : Ordered(E, Less)[k] = e
         /\ \A i, j \in 1 .. Len(Ordered(E, Less)) : i < j =>
              /\ Ordered(E, Less)[i] # Ordered(E, Less)[j]
              /\ Less(Ordered(E, Less)[i], Ordered(E, Less)[j])
  <1> DEFINE R == {x \in E \X E : Less(x[1], x[2])}
             s == Ordered(E, Less)
             n == Cardinality(E)
             g(k) == CHOOSE e \in E : Cardinality({d \in E \ {e} : Less(d, e)}) = k - 1
  <1>1. Orders(R, E)
    BY LessOrders
  <1>2. \A e \in E : {d \in E \ {e} : Less(d, e)} = Below(E, R, e)
    BY DEF Below
  <1>3. s = [k \in 1 .. n |-> g(k)]
    BY DEF Ordered
  <1>4. \A a, b \in E : <<a, b>> \in R <=> Less(a, b)
    OBVIOUS
  <1>0. n \in Nat
    BY FS_CardinalityType
  <1> HIDE DEF R, s
  <1>5. ASSUME NEW k \in 1 .. n
        PROVE  g(k) \in E /\ Cardinality(Below(E, R, g(k))) = k - 1
    <2>1. k - 1 \in 0 .. n - 1
      BY <1>0
    <2>2. PICK c \in E : Cardinality(Below(E, R, c)) = k - 1
      BY <1>1, <2>1, Ranks
    <2>3. \E e \in E : Cardinality({d \in E \ {e} : Less(d, e)}) = k - 1
      BY <1>2, <2>2
    <2>4. g(k) \in E /\ Cardinality({d \in E \ {g(k)} : Less(d, g(k))}) = k - 1
      BY <2>3, Zenon
    <2> HIDE DEF g
    <2> QED BY <1>2, <2>4
  <1> HIDE DEF g
  <1>6. s \in [1 .. n -> E] /\ \A k \in 1 .. n : Cardinality(Below(E, R, s[k])) = k - 1
    BY <1>3, <1>5
  <1>7. /\ s \in Seq(E) /\ Len(s) = Cardinality(E)
        /\ \A e \in E : \E k \in 1 .. Len(s) : s[k] = e
        /\ \A i, j \in 1 .. Len(s) : i < j => s[i] # s[j] /\ <<s[i], s[j]>> \in R
    BY <1>1, <1>6, InOrder
  <1>8. \A i, j \in 1 .. Len(s) : i < j => s[i] # s[j] /\ Less(s[i], s[j])
    <2>1. \A i \in 1 .. Len(s) : s[i] \in E
      BY <1>7, ElementOfSeq
    <2> QED BY <1>4, <1>7, <2>1
  <1> QED BY <1>7, <1>8 DEF s

\* What EntryOf says of a name in a folder: the entry is that of the name, and has a size
\* for which it is left out only when it is a file that cannot be read.
LEMMA EntryIs ==
  ASSUME NEW virtual, NEW place, NEW n \in Names(place), Head(n) # Dot
  PROVE  LET e == EntryOf(virtual, place, n)
         IN /\ e.Name = n /\ n \in Text /\ n # <<>> /\ n # DotDot /\ n[1] # Dot
            /\ e.Folder = (Append(place, n) \in Folders) /\ e.Folder \in BOOLEAN
            /\ e.Folder => e.Size = 0
            /\ ~e.Folder => e.Size = SizeAt(Append(place, n))
  <1> DEFINE e == EntryOf(virtual, place, n)
             file == Append(place, n)
  <1>1. n \in Text /\ n # <<>>
    BY NamesAreTexts DEF Names
  <1>2. n # DotDot /\ n[1] # Dot
    BY <1>1 DEF DotDot, Dot, Text
  <1>3. CASE file \in Folders
    <2>1. e = Entry(n, URLEncode(FullPath(virtual, n)) \o Root, TRUE, 0)
      BY <1>3 DEF EntryOf
    <2> HIDE DEF file
    <2>2. e.Name = n /\ e.Folder = TRUE /\ e.Size = 0
      BY <2>1 DEF Entry
    <2>3. e.Folder = (file \in Folders)
      BY <1>3, <2>2
    <2> HIDE DEF e
    <2> QED BY <1>1, <1>2, <2>2, <2>3 DEF file, e
  <1>4. CASE file \notin Folders
    <2>1. e = Entry(n, URLEncode(FullPath(virtual, n)), FALSE, SizeAt(file))
      BY <1>4 DEF EntryOf
    <2> HIDE DEF file
    <2>2. e.Name = n /\ e.Folder = FALSE /\ e.Size = SizeAt(file)
      BY <2>1 DEF Entry
    <2>3. e.Folder = (file \in Folders)
      <3>1. (file \in Folders) = FALSE
        BY <1>4
      <3> QED BY <2>2, <3>1
    <2> HIDE DEF e
    <2> QED BY <1>1, <1>2, <2>2, <2>3 DEF file, e
  <1> QED BY <1>3, <1>4

\* The entries of a table: those of names that are not hidden, ".." at most once.  A file
\* that can be read is never left out.
Lists(E, virtual, place) ==
  /\ \A e \in E : \/ e = ParentEntry(virtual)
                  \/ \E n \in Names(place) : Head(n) # Dot /\ e = EntryOf(virtual, place, n) /\ e.Size # -1
  /\ \A n \in Names(place) :
       (Head(n) # Dot /\ Append(place, n) \notin Folders /\ SizeAt(Append(place, n)) # -1)
         => EntryOf(virtual, place, n) \in E

\* tab has such entries, each once and in order.
Tabulates(E, tab, virtual, place) ==
  /\ Lists(E, virtual, place)
  /\ tab \in Seq(E)
  /\ \A e \in E : \E k \in 1 .. Len(tab) : tab[k] = e
  /\ \A i, j \in 1 .. Len(tab) : i < j => tab[i] # tab[j] /\ Less(tab[i], tab[j])
  /\ \A e \in E : e.Name \in Text /\ e.Folder \in BOOLEAN
  /\ \A a, b \in E : a.Name = b.Name => a = b

\* Every table that IndexTables allows does.
LEMMA TableIs ==
  ASSUME NEW virtual, NEW place, NEW tab \in IndexTables(virtual, place)
  PROVE  \E E : Tabulates(E, tab, virtual, place)
  <1> DEFINE shown == {m \in Names(place) : Head(m) # Dot}
             entries == {EntryOf(virtual, place, n) : n \in shown}
             parent == IF virtual = Root THEN {} ELSE {ParentEntry(virtual)}
             listed == {e \in entries : e.Size # -1}
  <1>1. PICK dropped \in SUBSET {e \in listed : e.Folder} :
          tab = Ordered((listed \ dropped) \cup parent, Less)
    BY DEF IndexTables
  <1> DEFINE E == (listed \ dropped) \cup parent
  <1>2. \A p \in parent : p = ParentEntry(virtual) /\ p.Name = DotDot /\ p.Folder = TRUE
    BY DEF ParentEntry, Entry
  <1>3. \A e \in entries : \E n \in Names(place) : Head(n) # Dot /\ e = EntryOf(virtual, place, n)
    OBVIOUS
  <1>4. \A e \in entries : e.Name \in Text /\ e.Name # DotDot /\ e.Folder \in BOOLEAN
    <2> TAKE e \in entries
    <2> PICK n \in Names(place) : Head(n) # Dot /\ e = EntryOf(virtual, place, n)
      OBVIOUS
    <2> QED BY EntryIs
  <1>5. \A a, b \in entries : a.Name = b.Name => a = b
    <2> TAKE a, b \in entries
    <2> PICK n \in Names(place) : Head(n) # Dot /\ a = EntryOf(virtual, place, n)
      OBVIOUS
    <2> PICK m \in Names(place) : Head(m) # Dot /\ b = EntryOf(virtual, place, m)
      OBVIOUS
    <2>1. a.Name = n /\ b.Name = m
      BY EntryIs
    <2> QED BY <2>1
  <1>6. DotDot \in Text
    BY DEF DotDot, Dot, Text
  <1>7. IsFiniteSet(E)
    <2>1. shown \in SUBSET AllNames
      BY DEF Names
    <2>2. IsFiniteSet(shown)
      BY <2>1, NamesAreTexts, FS_Subset
    <2>3. IsFiniteSet(entries)
      <3> DEFINE f == [n \in shown |-> EntryOf(virtual, place, n)]
      <3>1. f \in Surjection(shown, entries)
        BY DEF Surjection
      <3> HIDE DEF f, shown, entries
      <3> QED BY <2>2, <3>1, FS_Surjection
    <2>4. listed \ dropped \in SUBSET entries
      OBVIOUS
    <2>5. IsFiniteSet(listed \ dropped)
      BY <2>3, <2>4, FS_Subset
    <2>6. IsFiniteSet(parent)
      BY FS_EmptySet, FS_Singleton
    <2> HIDE DEF listed, parent
    <2> QED BY <2>5, <2>6, FS_Union
  <1>8. \A e \in E : e.Name \in Text /\ e.Folder \in BOOLEAN
    BY <1>2, <1>4, <1>6
  <1>9. \A a, b \in E : a.Name = b.Name => a = b
    BY <1>2, <1>4, <1>5
  <1>10. Lists(E, virtual, place)
    <2>1. ASSUME NEW e \in E
          PROVE  \/ e = ParentEntry(virtual)
                 \/ \E n \in Names(place) :
                      Head(n) # Dot /\ e = EntryOf(virtual, place, n) /\ e.Size # -1
      BY <1>2
    <2>2. ASSUME NEW n \in Names(place), Head(n) # Dot, Append(place, n) \notin Folders,
                 SizeAt(Append(place, n)) # -1
          PROVE  EntryOf(virtual, place, n) \in E
      <3> DEFINE e == EntryOf(virtual, place, n)
      <3>1. e.Folder = FALSE /\ e.Size = SizeAt(Append(place, n))
        BY <2>2, EntryIs
      <3>2. e \in listed
        BY <2>2, <3>1
      <3>3. e \notin dropped
        BY <3>1
      <3> QED BY <3>2, <3>3
    <2> QED BY <2>1, <2>2 DEF Lists
  <1> HIDE DEF E
  <1>11. /\ tab \in Seq(E)
         /\ \A e \in E : \E k \in 1 .. Len(tab) : tab[k] = e
         /\ \A i, j \in 1 .. Len(tab) : i < j => tab[i] # tab[j] /\ Less(tab[i], tab[j])
    <2>1. tab = Ordered(E, Less)
      BY <1>1 DEF E
    <2>2. /\ Ordered(E, Less) \in Seq(E)
          /\ \A e \in E : \E k \in 1 .. Len(Ordered(E, Less)) : Ordered(E, Less)[k] = e
          /\ \A i, j \in 1 .. Len(Ordered(E, Less)) : i < j =>
               /\ Ordered(E, Less)[i] # Ordered(E, Less)[j]
               /\ Less(Ordered(E, Less)[i], Ordered(E, Less)[j])
      BY <1>7, <1>8, <1>9, OrderedEntries
    <2> QED BY <2>1, <2>2, Zenon
  <1>12. Tabulates(E, tab, virtual, place)
    BY <1>8, <1>9, <1>10, <1>11 DEF Tabulates
  <1> QED BY <1>12

\* A table begins with "..", then come the folders, then the files, each by their names.
InOrderOfNames(tab) ==
  \A i, j \in DOMAIN tab : i < j =>
    /\ tab[j].Name # DotDot
    /\ tab[j].Folder => tab[i].Folder
    /\ (tab[i].Folder = tab[j].Folder /\ tab[i].Name # DotDot) => LessName(tab[i].Name, tab[j].Name)

\* Every table an index can have is in that order.
LEMMA TableOrdered ==
  ASSUME NEW virtual, NEW place, NEW tab \in IndexTables(virtual, place)
  PROVE  InOrderOfNames(tab)
  <1>0. PICK E : Tabulates(E, tab, virtual, place)
    BY TableIs
  <1>1. /\ Lists(E, virtual, place)
        /\ tab \in Seq(E)
        /\ \A e \in E : \E k \in 1 .. Len(tab) : tab[k] = e
        /\ \A i, j \in 1 .. Len(tab) : i < j => tab[i] # tab[j] /\ Less(tab[i], tab[j])
        /\ \A e \in E : e.Name \in Text /\ e.Folder \in BOOLEAN
        /\ \A a, b \in E : a.Name = b.Name => a = b
    BY <1>0 DEF Tabulates
  <1>2. DOMAIN tab = 1 .. Len(tab) /\ \A i \in 1 .. Len(tab) : tab[i] \in E
    BY <1>1, ElementOfSeq
  <1>3. \A e \in E : e.Name = DotDot => e.Folder = TRUE
    <2> SUFFICES ASSUME NEW e \in E, e.Name = DotDot PROVE e.Folder = TRUE
      OBVIOUS
    <2>1. \A n \in Names(place) : Head(n) # Dot => EntryOf(virtual, place, n).Name # DotDot
      BY EntryIs
    <2>2. e = ParentEntry(virtual)
      BY <1>1, <2>1 DEF Lists
    <2> QED BY <2>2 DEF ParentEntry, Entry
  <1>4. ASSUME NEW i \in DOMAIN tab, NEW j \in DOMAIN tab, i < j
        PROVE  /\ tab[j].Name # DotDot
               /\ tab[j].Folder => tab[i].Folder
               /\ (tab[i].Folder = tab[j].Folder /\ tab[i].Name # DotDot)
                    => LessName(tab[i].Name, tab[j].Name)
    <2> DEFINE a == tab[i]
               b == tab[j]
    <2>1. a \in E /\ b \in E /\ a # b /\ Less(a, b)
      BY <1>1, <1>2, <1>4
    <2> HIDE DEF a, b
    <2>2. a.Folder \in BOOLEAN /\ b.Folder \in BOOLEAN /\ a.Name # b.Name
      BY <1>1, <2>1
    <2>3. b.Name # DotDot
      BY <2>1, <2>2, Zenon DEF Less
    <2>4. b.Folder => a.Folder
      <3>1. CASE a.Name = DotDot
        BY <1>3, <2>1, <3>1
      <3>2. CASE a.Name # DotDot
        BY <2>1, <3>2, Zenon DEF Less
      <3> QED BY <3>1, <3>2
    <2>5. (a.Folder = b.Folder /\ a.Name # DotDot) => LessName(a.Name, b.Name)
      BY <2>1, <2>2, Zenon DEF Less
    <2> QED BY <2>3, <2>4, <2>5 DEF a, b
  <1> QED BY <1>4 DEF InOrderOfNames

\* A table names what its folder has.
ListsFolder(tab, place) ==
  LET listed == {tab[i].Name : i \in DOMAIN tab} \ {DotDot}
      there  == {n \in Names(place) : n[1] # Dot}
      file(n) == Files[Append(place, n)]
      files  == {n \in there : ~file(n).folder /\ file(n).readable /\ ToInt(file(n).size) # -1}
  IN /\ Cardinality(listed) = Cardinality({i \in DOMAIN tab : tab[i].Name # DotDot})
     /\ files \subseteq listed /\ listed \subseteq files \cup {n \in there : file(n).folder}

\* Every table an index can have names what its folder has.
LEMMA TableLists ==
  ASSUME NEW virtual, NEW place, NEW tab \in IndexTables(virtual, place)
  PROVE  ListsFolder(tab, place)
  <1> DEFINE listed == {tab[i].Name : i \in DOMAIN tab} \ {DotDot}
             there == {n \in Names(place) : n[1] # Dot}
             file(n) == Files[Append(place, n)]
             files == {n \in there : ~file(n).folder /\ file(n).readable /\ ToInt(file(n).size) # -1}
             places == {i \in DOMAIN tab : tab[i].Name # DotDot}
  <1>0. PICK E : Tabulates(E, tab, virtual, place)
    BY TableIs
  <1>1. /\ Lists(E, virtual, place)
        /\ tab \in Seq(E)
        /\ \A e \in E : \E k \in 1 .. Len(tab) : tab[k] = e
        /\ \A i, j \in 1 .. Len(tab) : i < j => tab[i] # tab[j] /\ Less(tab[i], tab[j])
        /\ \A e \in E : e.Name \in Text /\ e.Folder \in BOOLEAN
        /\ \A a, b \in E : a.Name = b.Name => a = b
    BY <1>0 DEF Tabulates
  <1>2. /\ Len(tab) \in Nat /\ DOMAIN tab = 1 .. Len(tab)
        /\ \A i \in DOMAIN tab : tab[i] \in E
    BY <1>1, ElementOfSeq
  <1>3. Cardinality(listed) = Cardinality(places)
    <2> DEFINE f == [i \in places |-> tab[i].Name]
    <2>1. \A i, j \in places : i # j => f[i] # f[j]
      <3>1. \A i, j \in DOMAIN tab : i < j => tab[i].Name # tab[j].Name
        BY <1>1, <1>2
      <3>2. \A i, j \in DOMAIN tab : i # j => i < j \/ j < i
        BY <1>2
      <3> QED BY <3>1, <3>2
    <2>2. f \in Bijection(places, listed)
      <3>1. f \in [places -> listed] /\ \A n \in listed : \E i \in places : f[i] = n
        OBVIOUS
      <3>2. IsInjective(f)
        <4>1. DOMAIN f = places
          OBVIOUS
        <4> HIDE DEF f, places, listed
        <4> QED BY <2>1, <4>1 DEF IsInjective
      <3> HIDE DEF f, places, listed
      <3> QED BY <3>1, <3>2 DEF Bijection, Injection, Surjection
    <2>3. IsFiniteSet(places)
      <3>1. IsFiniteSet(1 .. Len(tab))
        BY <1>2, FS_Interval
      <3>2. places \in SUBSET (1 .. Len(tab))
        BY <1>2
      <3> QED BY <3>1, <3>2, FS_Subset
    <2> HIDE DEF f, places, listed
    <2> QED BY <2>2, <2>3, FS_Bijection DEF ExistsBijection
  <1>4. ASSUME NEW n \in files PROVE n \in listed
    <2>1. n \in Names(place) /\ n[1] # Dot /\ Append(place, n) \in DOMAIN Files
      BY DEF Names
    <2>2. n \in Text /\ n # <<>> /\ Head(n) # Dot
      BY <2>1, NamesAreTexts DEF Names, Text
    <2>3. Append(place, n) \notin Folders /\ SizeAt(Append(place, n)) # -1
      BY <2>1 DEF Folders, SizeAt
    <2>4. EntryOf(virtual, place, n) \in E
      BY <1>1, <2>1, <2>2, <2>3 DEF Lists
    <2>5. EntryOf(virtual, place, n).Name = n /\ n # DotDot
      BY <2>1, <2>2, EntryIs
    <2> QED BY <1>1, <1>2, <2>4, <2>5
  <1>5. ASSUME NEW n \in listed
        PROVE  n \in files \cup {m \in there : file(m).folder}
    <2>1. PICK i \in DOMAIN tab : n = tab[i].Name /\ n # DotDot
      OBVIOUS
    <2>2. tab[i] \in E /\ tab[i] # ParentEntry(virtual)
      BY <1>2, <2>1 DEF ParentEntry, Entry
    <2>3. PICK m \in Names(place) : Head(m) # Dot /\ tab[i] = EntryOf(virtual, place, m) /\ tab[i].Size # -1
      BY <1>1, <2>2 DEF Lists
    <2>4. /\ m = n /\ n[1] # Dot /\ Append(place, n) \in DOMAIN Files
          /\ tab[i].Folder = (Append(place, n) \in Folders)
          /\ ~tab[i].Folder => tab[i].Size = SizeAt(Append(place, n))
      BY <2>1, <2>3, EntryIs DEF Names
    <2>5. n \in there
      BY <2>3, <2>4
    <2>6. CASE Append(place, n) \in Folders
      BY <2>5, <2>6 DEF Folders
    <2>7. CASE Append(place, n) \notin Folders
      <3>1. SizeAt(Append(place, n)) # -1
        BY <2>3, <2>4, <2>7
      <3>2. file(n).readable /\ ToInt(file(n).size) # -1 /\ ~file(n).folder
        BY <2>4, <2>7, <3>1 DEF SizeAt, Folders
      <3> QED BY <2>5, <3>2
    <2> QED BY <2>6, <2>7
  <1> QED BY <1>3, <1>4, <1>5 DEF ListsFolder

--------------------------------------------------------------------------------
(* The tables in the model *)

\* A table under construction is one of the folder that is being looked at, and the one in
\* an answer is one of the folder that the answer is for; any other answer has none.
Tables ==
  \A t \in Thread :
    /\ pc[t] \in {"size", "copy size"} => table[t] \in IndexTables(BrowserRequest[t].AccessPath, Lookup(Resource[t]))
    /\ answer[t].what = "index" => answer[t].table \in IndexTables(answer[t].for, Lookup(answer[t].path))
    /\ answer[t].what # "index" => answer[t].table = <<>>

\* Without an answer there is no table.
LEMMA NoAnswerIs == NoAnswer.what = "nothing" /\ NoAnswer.table = <<>>
  BY DEF NoAnswer, Answer

\* No step brings in another table than those.
LEMMA TablesNext == Shape /\ Tables /\ [Next]_vars => Tables'
  <1> SUFFICES ASSUME Shape, Tables, [Next]_vars, NEW u \in Thread
               PROVE  /\ pc'[u] \in {"size", "copy size"}
                           => table'[u] \in IndexTables(BrowserRequest'[u].AccessPath, Lookup(Resource'[u]))
                      /\ answer'[u].what = "index"
                           => answer'[u].table \in IndexTables(answer'[u].for, Lookup(answer'[u].path))
                      /\ answer'[u].what # "index" => answer'[u].table = <<>>
    BY DEF Tables
  <1> USE DEF Shape, Goto, Index, Buffers, Tables, Answer
  <1>1. CASE UNCHANGED vars
    BY <1>1 DEF vars
  <1>2. ASSUME NEW t \in Thread, Step(t)
        PROVE  /\ pc'[u] \in {"size", "copy size"}
                    => table'[u] \in IndexTables(BrowserRequest'[u].AccessPath, Lookup(Resource'[u]))
               /\ answer'[u].what = "index"
                    => answer'[u].table \in IndexTables(answer'[u].for, Lookup(answer'[u].path))
               /\ answer'[u].what # "index" => answer'[u].table = <<>>
    <2>1. CASE TypePath(t)
      BY <2>1, NoAnswerIs DEF TypePath, Connect
    <2>2. CASE FollowLink(t)
      BY <2>2, NoAnswerIs DEF FollowLink, Connect
    <2>3. CASE Leave(t)
      BY <2>3, NoAnswerIs DEF Leave, Gone
    <2>4. CASE Receive(t)
      BY <2>4 DEF Receive
    <2>5. CASE Illegal(t)
      BY <2>5 DEF Illegal
    <2>6. CASE LocateResource(t)
      BY <2>6 DEF LocateResource
    <2>7. CASE NotFound(t)
      BY <2>7 DEF NotFound, Told
    <2>8. CASE FindFile(t)
      BY <2>8 DEF FindFile
    <2>9. CASE FindFolder(t)
      BY <2>9 DEF FindFolder
    <2>10. CASE FindUnreadable(t)
      BY <2>10 DEF FindUnreadable
    <2>11. CASE WriteSize(t)
      BY <2>11 DEF WriteSize, Disturb
    <2>12. CASE CopySize(t)
      BY <2>12 DEF CopySize
    <2>13. CASE IndexDone(t)
      BY <2>13 DEF IndexDone, Told
    <2>14. CASE DefaultType(t)
      BY <2>14 DEF DefaultType, Disturb
    <2>15. CASE MatchType(t)
      BY <2>15 DEF MatchType, Disturb
    <2>16. CASE NoMatch(t)
      BY <2>16 DEF NoMatch
    <2>17. CASE SendHeader(t)
      BY <2>17 DEF SendHeader, Told
    <2>18. CASE OpenFails(t)
      BY <2>18, NoAnswerIs DEF OpenFails, Gone
    <2>19. CASE FollowElsewhere(t)
      BY <2>19, NoAnswerIs DEF FollowElsewhere, Gone
    <2>20. CASE Overrun(t)
      BY <2>20 DEF Overrun
    <2> QED BY <1>2, <2>1, <2>2, <2>3, <2>4, <2>5, <2>6, <2>7, <2>8, <2>9, <2>10, <2>11, <2>12,
               <2>13, <2>14, <2>15, <2>16, <2>17, <2>18, <2>19, <2>20 DEF Step
  <1> QED BY <1>1, <1>2 DEF Next

\* Every table in the model is one that an index can have.
LEMMA TablesHold == Spec => [](Shape /\ Tables)
  <1>1. Init => Tables
    <2> SUFFICES ASSUME Init, NEW t \in Thread
                 PROVE  pc[t] = "away" /\ answer[t] = NoAnswer
      BY NoAnswerIs DEF Tables
    <2> QED BY DEF Init
  <1> QED BY <1>1, ShapeInit, ShapeNext, TablesNext, PTL DEF Spec

\* A browser is sent an index with ".." on top, then the folders, then the files, each by
\* their names, for any folder, any path that leads to it and any number of threads.
THEOREM IndexSorted == Spec => []IndexOrdered
  <1>1. ASSUME Tables, NEW t \in Thread, answer[t].what = "index"
        PROVE  InOrderOfNames(answer[t].table)
    BY <1>1, TableOrdered DEF Tables
  <1>2. ASSUME Tables, NEW t \in Thread, answer[t].what # "index"
        PROVE  InOrderOfNames(answer[t].table)
    <2>1. answer[t].table = <<>>
      BY <1>2 DEF Tables
    <2>2. \A i \in DOMAIN <<>> : FALSE
      OBVIOUS
    <2> QED BY <2>1, <2>2 DEF InOrderOfNames
  <1>3. Tables => IndexOrdered
    BY <1>1, <1>2 DEF IndexOrdered, InOrderOfNames
  <1> QED BY <1>3, TablesHold, PTL

\* It lists every file of its folder that is not hidden and can be read, and no other file;
\* of the subfolders, none that is hidden and nothing that is not there.
THEOREM IndexComplete == Spec => []IndexLists
  <1>1. ASSUME Tables, NEW t \in Thread, answer[t].what = "index"
        PROVE  ListsFolder(answer[t].table, Lookup(answer[t].path))
    BY <1>1, TableLists DEF Tables
  <1>2. Tables => IndexLists
    BY <1>1 DEF IndexLists, ListsFolder
  <1> QED BY <1>2, TablesHold, PTL
================================================================================
