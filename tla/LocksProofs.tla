------------------------------ MODULE LocksProofs ------------------------------
(***************************************************************************)
(* The use of the five mutexes in MessagingLocks, for any number of threads:*)
(* every mutex taken is released, nobody waits for ever for one, and no     *)
(* other accesses race than the two the code leaves unprotected.  What a    *)
(* thread holds is read off what is left of its call: the mutexes that it   *)
(* releases before it takes them.                                           *)
(***************************************************************************)
EXTENDS MessagingLocks, SequenceTheorems, TLAPS

--------------------------------------------------------------------------------
(* Calls that keep the rules *)

\* The mutex over each of the shared data.
Guard == [MessageQueue |-> "Queue", sentMessages |-> "Sent", Messengers |-> "Messengers",
          RegisteredChannels |-> "Channels", waitingMessageIDs |-> "WaitingIDs"]

AnAccess == [op : Accesses, on : DOMAIN Guard, of : Thread \cup {Free}]
Step     == {lock(m) : m \in Mutex} \cup {unlock(m) : m \in Mutex} \cup AnAccess

\* What a thread holds when it is at step k of s.
HeldAt(s, k) == {m \in Mutex : Releases(s, k, m)}

\* What it held before a step, when it holds these after it.
Before(step, after) ==
  CASE step.op = "lock"   -> after \ {step.on}
    [] step.op = "unlock" -> after \cup {step.on}
    [] OTHER              -> after

\* Only AcceptMessage takes a mutex with another one in its hands; the runtime thread does
\* so, but never takes the one of the inboxes.
Nests(p, m, held) ==
  IF p = Runtime THEN m # "WaitingIDs" ELSE held = {} \/ (m = "Sent" /\ held = {"WaitingIDs"})

\* An access is under its mutex, but for the two that are not.
Covered(p, step, held) ==
  IF step.on = "waitingMessageIDs"
  THEN IF p = Runtime THEN "WaitingIDs" \notin held ELSE step.of = p /\ "WaitingIDs" \in held
  ELSE Guard[step.on] \in held \/ (step.op = "read" /\ step.on = "Messengers")

\* The loops are those of the runtime thread.
AtLoop(p, step, held) ==
  /\ step.op = "while" => p = Runtime /\ held = {"Queue", "Sent"}
  /\ step.op \in {"for", "for if"} => p = Runtime /\ held = {"Sent", "Messengers"}
  /\ step.op = "for" => step = nextOfAll
  /\ step.op = "for if" => step = nextOfChannel

Fits(p, step, after) ==
  \/ \E m \in Mutex : step = lock(m) /\ m \in after /\ Nests(p, m, after \ {m})
  \/ \E m \in Mutex : step = unlock(m) /\ m \notin after
  \/ step \in AnAccess /\ Covered(p, step, after) /\ AtLoop(p, step, after)

Orderly(p, s) == \A i \in 1 .. Len(s) : Fits(p, s[i], HeldAt(s, i + 1))

\* Steps are told apart by what they do.
LEMMA Kinds ==
  ASSUME NEW step \in Step
  PROVE  \/ step.op = "lock"   /\ \E m \in Mutex : step = lock(m)
         \/ step.op = "unlock" /\ \E m \in Mutex : step = unlock(m)
         \/ step.op \in Accesses /\ step \in AnAccess
  <1>1. ASSUME NEW m \in Mutex, step = lock(m) PROVE step.op = "lock"
    BY <1>1 DEF lock
  <1>2. ASSUME NEW m \in Mutex, step = unlock(m) PROVE step.op = "unlock"
    BY <1>2 DEF unlock
  <1>3. ASSUME step \in AnAccess PROVE step.op \in Accesses
    BY <1>3 DEF AnAccess
  <1> QED BY <1>1, <1>2, <1>3 DEF Step

\* A step of the rules is a step.
LEMMA FitsIsStep ==
  ASSUME NEW p, NEW after, NEW step, Fits(p, step, after)
  PROVE  step \in Step
  BY DEF Fits, Step

\* What is held at a step follows from what is held after it.
LEMMA HeldBefore ==
  ASSUME NEW s \in Seq(Step), NEW k \in 1 .. Len(s)
  PROVE  HeldAt(s, k) = Before(s[k], HeldAt(s, k + 1))
  <1>0. Len(s) \in Nat /\ s[k] \in Step
    BY LenProperties, ElementOfSeq
  <1>1. ASSUME NEW m \in Mutex
        PROVE  Releases(s, k, m) <=> s[k] = unlock(m) \/ (s[k] # lock(m) /\ Releases(s, k + 1, m))
    <2>1. lock(m) # unlock(m)
      BY DEF lock, unlock
    <2>2. ASSUME Releases(s, k, m)
          PROVE  s[k] = unlock(m) \/ (s[k] # lock(m) /\ Releases(s, k + 1, m))
      <3> PICK i \in k .. Len(s) : s[i] = unlock(m) /\ \A j \in k .. i - 1 : s[j] # lock(m)
        BY <2>2 DEF Releases
      <3>1. CASE i = k
        BY <3>1
      <3>2. CASE i # k
        <4>1. i \in k + 1 .. Len(s) /\ k \in k .. i - 1
          BY <1>0, <3>2
        <4>2. \A j \in k + 1 .. i - 1 : s[j] # lock(m)
          BY <1>0
        <4> QED BY <4>1, <4>2 DEF Releases
      <3> QED BY <3>1, <3>2
    <2>3. ASSUME s[k] = unlock(m)
          PROVE  Releases(s, k, m)
      <3>1. k \in k .. Len(s) /\ \A j \in k .. k - 1 : s[j] # lock(m)
        BY <1>0
      <3> QED BY <2>3, <3>1 DEF Releases
    <2>4. ASSUME s[k] # lock(m), Releases(s, k + 1, m)
          PROVE  Releases(s, k, m)
      <3> PICK i \in k + 1 .. Len(s) : s[i] = unlock(m) /\ \A j \in k + 1 .. i - 1 : s[j] # lock(m)
        BY <2>4 DEF Releases
      <3>1. i \in k .. Len(s)
        BY <1>0
      <3>2. \A j \in k .. i - 1 : j = k \/ j \in k + 1 .. i - 1
        BY <1>0
      <3> QED BY <2>4, <3>1, <3>2 DEF Releases
    <2> QED BY <2>2, <2>3, <2>4
  <1>2. CASE s[k].op = "lock"
    <2>1. PICK n \in Mutex : s[k] = lock(n)
      BY <1>0, <1>2, Kinds DEF Accesses
    <2>2. \A m \in Mutex : s[k] # unlock(m) /\ (s[k] = lock(m) <=> m = n)
      BY <2>1 DEF lock, unlock
    <2>3. s[k].on = n
      BY <2>1 DEF lock
    <2> QED BY <1>1, <1>2, <2>2, <2>3 DEF HeldAt, Before
  <1>3. CASE s[k].op = "unlock"
    <2>1. PICK n \in Mutex : s[k] = unlock(n)
      BY <1>0, <1>3, Kinds DEF Accesses
    <2>2. \A m \in Mutex : s[k] # lock(m) /\ (s[k] = unlock(m) <=> m = n)
      BY <2>1 DEF lock, unlock
    <2>3. s[k].on = n
      BY <2>1 DEF unlock
    <2> QED BY <1>1, <1>3, <2>2, <2>3 DEF HeldAt, Before
  <1>4. CASE s[k].op \notin {"lock", "unlock"}
    <2>1. \A m \in Mutex : s[k] # lock(m) /\ s[k] # unlock(m)
      BY <1>4 DEF lock, unlock
    <2> QED BY <1>1, <1>4, <2>1 DEF HeldAt, Before
  <1> QED BY <1>2, <1>3, <1>4

\* The first step done, the others are what they were.
LEMMA HeldInTail ==
  ASSUME NEW s \in Seq(Step), s # <<>>, NEW k \in Nat \ {0}
  PROVE  HeldAt(Tail(s), k) = HeldAt(s, k + 1)
  <1>1. /\ Len(s) \in Nat \ {0} /\ Len(Tail(s)) = Len(s) - 1
        /\ \A i \in 1 .. Len(s) - 1 : Tail(s)[i] = s[i + 1]
    BY HeadTailProperties, EmptySeq, LenProperties
  <1>2. ASSUME NEW m \in Mutex, Releases(Tail(s), k, m)
        PROVE  Releases(s, k + 1, m)
    <2> PICK i \in k .. Len(Tail(s)) :
          Tail(s)[i] = unlock(m) /\ \A j \in k .. i - 1 : Tail(s)[j] # lock(m)
      BY <1>2 DEF Releases
    <2>1. i + 1 \in k + 1 .. Len(s) /\ s[i + 1] = unlock(m)
      BY <1>1
    <2>2. ASSUME NEW j \in k + 1 .. (i + 1) - 1 PROVE s[j] # lock(m)
      <3>1. j - 1 \in k .. i - 1 /\ j - 1 \in 1 .. Len(s) - 1 /\ (j - 1) + 1 = j
        BY <1>1
      <3> QED BY <1>1, <3>1
    <2> QED BY <2>1, <2>2 DEF Releases
  <1>3. ASSUME NEW m \in Mutex, Releases(s, k + 1, m)
        PROVE  Releases(Tail(s), k, m)
    <2> PICK i \in k + 1 .. Len(s) : s[i] = unlock(m) /\ \A j \in k + 1 .. i - 1 : s[j] # lock(m)
      BY <1>3 DEF Releases
    <2>1. /\ i - 1 \in k .. Len(Tail(s)) /\ i - 1 \in 1 .. Len(s) - 1 /\ (i - 1) + 1 = i
      BY <1>1
    <2>2. ASSUME NEW j \in k .. (i - 1) - 1 PROVE Tail(s)[j] # lock(m)
      <3>1. j + 1 \in k + 1 .. i - 1 /\ j \in 1 .. Len(s) - 1
        BY <1>1, <2>1
      <3> QED BY <1>1, <3>1
    <2> QED BY <1>1, <2>1, <2>2 DEF Releases
  <1> QED BY <1>2, <1>3 DEF HeldAt

\* So a call is orderly when its first step fits and its other steps are orderly.
LEMMA FirstAndRest ==
  ASSUME NEW p, NEW s \in Seq(Step), s # <<>>
  PROVE  /\ HeldAt(s, 1) = Before(Head(s), HeldAt(Tail(s), 1))
         /\ Orderly(p, s) <=> Fits(p, Head(s), HeldAt(Tail(s), 1)) /\ Orderly(p, Tail(s))
  <1>1. /\ Len(s) \in Nat \ {0} /\ Len(Tail(s)) = Len(s) - 1 /\ Head(s) = s[1]
        /\ \A i \in 1 .. Len(s) - 1 : Tail(s)[i] = s[i + 1]
    BY HeadTailProperties, EmptySeq, LenProperties
  <1>2. HeldAt(Tail(s), 1) = HeldAt(s, 1 + 1)
    BY HeldInTail
  <1>3. HeldAt(s, 1) = Before(Head(s), HeldAt(Tail(s), 1))
    BY <1>1, <1>2, HeldBefore
  <1>4. ASSUME Orderly(p, s)
        PROVE  Fits(p, Head(s), HeldAt(Tail(s), 1)) /\ Orderly(p, Tail(s))
    <2>1. Fits(p, Head(s), HeldAt(Tail(s), 1))
      BY <1>1, <1>2, <1>4 DEF Orderly
    <2>2. ASSUME NEW i \in 1 .. Len(Tail(s))
          PROVE  Fits(p, Tail(s)[i], HeldAt(Tail(s), i + 1))
      <3>1. i + 1 \in 1 .. Len(s) /\ Tail(s)[i] = s[i + 1] /\ i + 1 \in Nat \ {0}
        BY <1>1
      <3>2. HeldAt(Tail(s), i + 1) = HeldAt(s, (i + 1) + 1)
        BY <3>1, HeldInTail
      <3> QED BY <1>4, <3>1, <3>2 DEF Orderly
    <2> QED BY <2>1, <2>2 DEF Orderly
  <1>5. ASSUME Fits(p, Head(s), HeldAt(Tail(s), 1)), Orderly(p, Tail(s)), NEW i \in 1 .. Len(s)
        PROVE  Fits(p, s[i], HeldAt(s, i + 1))
    <2>1. CASE i = 1
      BY <1>1, <1>2, <1>5, <2>1
    <2>2. CASE i # 1
      <3>1. /\ i - 1 \in 1 .. Len(Tail(s)) /\ i - 1 \in 1 .. Len(s) - 1 /\ (i - 1) + 1 = i
            /\ i \in Nat \ {0}
        BY <1>1, <2>2
      <3>2. Tail(s)[i - 1] = s[i] /\ HeldAt(Tail(s), i) = HeldAt(s, i + 1)
        BY <1>1, <3>1, HeldInTail
      <3>3. Fits(p, Tail(s)[i - 1], HeldAt(Tail(s), (i - 1) + 1))
        BY <1>5, <3>1 DEF Orderly
      <3> QED BY <3>1, <3>2, <3>3
    <2> QED BY <2>1, <2>2
  <1> QED BY <1>3, <1>4, <1>5 DEF Orderly

--------------------------------------------------------------------------------
(* The calls keep the rules *)

\* The rest of a call: it keeps the rules, with H held before its first step.
Plan(p, s, H) == s \in Seq(Step) /\ HeldAt(s, 1) = H /\ Orderly(p, s)

\* A plan with a step before it that fits is a plan.
LEMMA Prepend ==
  ASSUME NEW p, NEW r, NEW H, Plan(p, r, H), NEW x, Fits(p, x, H)
  PROVE  Plan(p, <<x>> \o r, Before(x, H))
  <1> DEFINE s == <<x>> \o r
  <1>1. x \in Step /\ r \in Seq(Step)
    BY FitsIsStep DEF Plan
  <1>2. s \in Seq(Step) /\ s # <<>> /\ Head(s) = x /\ Tail(s) = r
    BY <1>1
  <1> HIDE DEF s
  <1>3. HeldAt(s, 1) = Before(x, HeldAt(r, 1)) /\ (Orderly(p, s) <=> Fits(p, x, HeldAt(r, 1)) /\ Orderly(p, r))
    BY <1>2, FirstAndRest
  <1>4. Plan(p, s, Before(x, H))
    BY <1>2, <1>3 DEF Plan
  <1> QED BY <1>4 DEF s

\* A sequence is known by its first element and the others.
LEMMA SameEnds ==
  ASSUME NEW S, NEW s \in Seq(S), NEW t \in Seq(S), s # <<>>, t # <<>>, Head(s) = Head(t), Tail(s) = Tail(t)
  PROVE  s = t
  <1>1. Len(s) \in Nat /\ Len(t) \in Nat /\ Len(s) = Len(t)
    BY HeadTailProperties, EmptySeq, LenProperties
  <1>2. ASSUME NEW i \in 1 .. Len(s) PROVE s[i] = t[i]
    <2>1. CASE i = 1
      BY <2>1, HeadTailProperties
    <2>2. CASE i # 1
      <3>1. i - 1 \in 1 .. Len(s) - 1 /\ (i - 1) + 1 = i
        BY <1>1, <2>2
      <3>2. s[i] = Tail(s)[i - 1] /\ t[i] = Tail(t)[i - 1]
        BY <1>1, <3>1, HeadTailProperties
      <3> QED BY <3>2
    <2> QED BY <2>1, <2>2
  <1> QED BY <1>1, <1>2, SeqEqual

\* A call that is written out, step by step.
LEMMA OneByOne ==
  ASSUME NEW S, NEW a \in S, NEW b \in S, NEW c \in S, NEW d \in S, NEW e \in S, NEW r \in Seq(S)
  PROVE  /\ <<a, b>> \o r = <<a>> \o (<<b>> \o r)
         /\ <<a, b, c>> \o r = <<a>> \o (<<b, c>> \o r)
         /\ <<a, b, c, d>> \o r = <<a>> \o (<<b, c, d>> \o r)
         /\ <<a, b, c, d, e>> \o r = <<a>> \o (<<b, c, d, e>> \o r)
  <1>1. <<a, b>> \o r = <<a>> \o (<<b>> \o r)
    <2>1. Head(<<a, b>> \o r) = a /\ Tail(<<a, b>> \o r) = <<b>> \o r
      OBVIOUS
    <2>2. Head(<<a>> \o (<<b>> \o r)) = a /\ Tail(<<a>> \o (<<b>> \o r)) = <<b>> \o r
      OBVIOUS
    <2>3. <<a, b>> \o r \in Seq(S) \ {<<>>} /\ <<a>> \o (<<b>> \o r) \in Seq(S) \ {<<>>}
      OBVIOUS
    <2> QED BY <2>1, <2>2, <2>3, SameEnds
  <1>2. <<a, b, c>> \o r = <<a>> \o (<<b, c>> \o r)
    OBVIOUS
  <1>3. <<a, b, c, d>> \o r = <<a>> \o (<<b, c, d>> \o r)
    OBVIOUS
  <1>4. <<a, b, c, d, e>> \o r = <<a>> \o (<<b, c, d, e>> \o r)
    <2>1. Head(<<a, b, c, d, e>> \o r) = a /\ Tail(<<a, b, c, d, e>> \o r) = <<b, c, d, e>> \o r
      OBVIOUS
    <2>2. Head(<<a>> \o (<<b, c, d, e>> \o r)) = a /\ Tail(<<a>> \o (<<b, c, d, e>> \o r)) = <<b, c, d, e>> \o r
      OBVIOUS
    <2>3. <<a, b, c, d, e>> \o r \in Seq(S) \ {<<>>} /\ <<a>> \o (<<b, c, d, e>> \o r) \in Seq(S) \ {<<>>}
      OBVIOUS
    <2> QED BY <2>1, <2>2, <2>3, SameEnds
  <1> QED BY <1>1, <1>2, <1>3, <1>4

\* Nothing is left to do, and nothing is held.
LEMMA NoPlan == ASSUME NEW p PROVE Plan(p, <<>>, {})
  <1>1. HeldAt(<<>>, 1) = {}
    BY DEF HeldAt, Releases
  <1> QED BY <1>1 DEF Plan, Orderly

\* A mutex is taken that the rest of the call releases.
LEMMA LockFirst ==
  ASSUME NEW p, NEW r, NEW H, NEW m \in Mutex, m \notin H, Nests(p, m, H), Plan(p, r, H \cup {m})
  PROVE  Plan(p, <<lock(m)>> \o r, H)
  <1>1. Before(lock(m), H \cup {m}) = H /\ (H \cup {m}) \ {m} = H
    BY DEF Before, lock
  <1>2. Fits(p, lock(m), H \cup {m})
    BY <1>1 DEF Fits
  <1> QED BY <1>1, <1>2, Prepend

\* A mutex is released that the rest of the call does not release again.
LEMMA UnlockFirst ==
  ASSUME NEW p, NEW r, NEW H, NEW m \in Mutex, m \notin H, Plan(p, r, H)
  PROVE  Plan(p, <<unlock(m)>> \o r, H \cup {m})
  <1>1. Before(unlock(m), H) = H \cup {m} /\ Fits(p, unlock(m), H)
    BY DEF Before, unlock, Fits
  <1> QED BY <1>1, Prepend

\* Something is accessed whose mutex is held.
LEMMA AccessFirst ==
  ASSUME NEW p, NEW r, NEW H, NEW x \in AnAccess, Covered(p, x, H), AtLoop(p, x, H), Plan(p, r, H)
  PROVE  Plan(p, <<x>> \o r, H)
  <1>1. x.op \notin {"lock", "unlock"}
    BY DEF AnAccess, Accesses
  <1>2. Before(x, H) = H /\ Fits(p, x, H)
    BY <1>1 DEF Before, Fits
  <1> QED BY <1>2, Prepend

\* A mutex is taken for one access.
LEMMA Section ==
  ASSUME NEW p, NEW r, NEW H, NEW m \in Mutex, m \notin H, Nests(p, m, H), Plan(p, r, H),
         NEW x \in AnAccess, Covered(p, x, H \cup {m}), x.op \in {"read", "write"}
  PROVE  /\ Plan(p, <<lock(m), x, unlock(m)>> \o r, H)
         /\ H = {} /\ r = <<>> => Plan(p, <<lock(m), x, unlock(m)>>, {})
  <1>1. Plan(p, <<unlock(m)>> \o r, H \cup {m})
    BY UnlockFirst
  <1>2. Plan(p, <<x>> \o (<<unlock(m)>> \o r), H \cup {m})
    <2>1. AtLoop(p, x, H \cup {m})
      BY DEF AtLoop
    <2> QED BY <1>1, <2>1, AccessFirst
  <1>3. Plan(p, <<lock(m)>> \o (<<x>> \o (<<unlock(m)>> \o r)), H)
    BY <1>2, LockFirst
  <1>4. <<lock(m)>> \o (<<x>> \o (<<unlock(m)>> \o r)) = <<lock(m), x, unlock(m)>> \o r
    BY DEF Plan
  <1>5. r = <<>> => <<lock(m), x, unlock(m)>> \o r = <<lock(m), x, unlock(m)>>
    OBVIOUS
  <1> QED BY <1>3, <1>4, <1>5

\* The accesses there are.
LEMMA AllAccesses ==
  /\ \A d \in {"MessageQueue", "sentMessages", "Messengers", "RegisteredChannels"} :
       read(d) \in AnAccess /\ write(d) \in AnAccess
  /\ \A t \in Thread : readInbox(t) \in AnAccess /\ writeInbox(t) \in AnAccess
  /\ nextMessage \in AnAccess /\ nextOfAll \in AnAccess /\ nextOfChannel \in AnAccess
  BY DEF AnAccess, Accesses, Guard, read, write, readInbox, writeInbox, nextMessage, nextOfAll,
         nextOfChannel

\* Every method that a thread calls keeps the rules, and holds nothing before and after.
LEMMA CallsArePlans ==
  ASSUME NEW t \in Thread, NEW call \in Calls(t)
  PROVE  Plan(t, call, {})
  <1>0. t # Runtime
    BY LocksAssumption
  <1>1. Mutex = {"Queue", "Sent", "Messengers", "WaitingIDs", "Channels"}
    BY DEF Mutex
  <1>2. ASSUME NEW m \in Mutex, NEW x \in AnAccess, Covered(t, x, {m}), x.op \in {"read", "write"}
        PROVE  Plan(t, <<lock(m), x, unlock(m)>>, {})
    <2>1. Nests(t, m, {}) /\ m \notin {} /\ {} \cup {m} = {m}
      BY <1>0 DEF Nests
    <2> QED BY <1>2, <2>1, NoPlan, Section
  <1>3. /\ Covered(t, write("MessageQueue"), {"Queue"})
        /\ Covered(t, write("sentMessages"), {"Sent"})
        /\ Covered(t, write("sentMessages"), {"WaitingIDs", "Sent"})
        /\ Covered(t, write("RegisteredChannels"), {"Channels"})
        /\ Covered(t, write("Messengers"), {"Messengers"})
        /\ Covered(t, read("Messengers"), {"Messengers"})
        /\ Covered(t, read("Messengers"), {})
        /\ Covered(t, readInbox(t), {"WaitingIDs"})
        /\ Covered(t, writeInbox(t), {"WaitingIDs"})
    BY <1>0 DEF Covered, Guard, read, write, readInbox, writeInbox
  <1>4. /\ \A d : read(d).op = "read" /\ write(d).op = "write"
        /\ readInbox(t).op = "read" /\ writeInbox(t).op = "write"
    BY DEF read, write, readInbox, writeInbox
  <1>5. \A H, x : x.op \in {"read", "write"} => AtLoop(t, x, H)
    BY DEF AtLoop
  <1>6. Plan(t, DistributeMessage, {})
    BY <1>1, <1>2, <1>3, <1>4, AllAccesses DEF DistributeMessage
  <1>7. Plan(t, HasMessages(t), {})
    BY <1>1, <1>2, <1>3, <1>4, AllAccesses DEF HasMessages
  <1>8. Plan(t, acceptTask, {})
    BY <1>1, <1>2, <1>3, <1>4, AllAccesses DEF acceptTask
  <1>9. Plan(t, RegisterOnChannel, {})
    BY <1>1, <1>2, <1>3, <1>4, AllAccesses DEF RegisterOnChannel
  <1>10. Plan(t, DeactivateActiveMessenger, {})
    BY <1>1, <1>2, <1>3, <1>4, AllAccesses DEF DeactivateActiveMessenger
  <1>11. Plan(t, ValidateMessenger, {})
    BY <1>1, <1>2, <1>3, <1>4, AllAccesses DEF ValidateMessenger
  <1>12. Plan(t, ReceiveActiveMessenger, {})
    <2> DEFINE end == <<read("Messengers")>> \o <<>>
    <2>1. Plan(t, end, {})
      <3>1. /\ read("Messengers") \in AnAccess /\ AtLoop(t, read("Messengers"), {})
            /\ Covered(t, read("Messengers"), {}) /\ Plan(t, <<>>, {})
        BY <1>3, <1>4, <1>5, NoPlan, AllAccesses
      <3> QED BY <3>1, AccessFirst
    <2>2. Nests(t, "Messengers", {}) /\ "Messengers" \notin {} /\ {} \cup {"Messengers"} = {"Messengers"}
      BY <1>0 DEF Nests
    <2> HIDE DEF end
    <2>3. Plan(t, <<lock("Messengers"), write("Messengers"), unlock("Messengers")>> \o end, {})
      BY <1>1, <1>3, <1>4, <2>1, <2>2, Section, AllAccesses
    <2>4. ReceiveActiveMessenger = <<lock("Messengers"), write("Messengers"), unlock("Messengers")>> \o end
      BY DEF end, ReceiveActiveMessenger
    <2> QED BY <2>3, <2>4
  <1>13. Plan(t, AcceptMessage(t), {})
    <2> DEFINE end == <<writeInbox(t), unlock("WaitingIDs")>>
    <2>1. Plan(t, end, {"WaitingIDs"})
      <3>1. Plan(t, <<unlock("WaitingIDs")>> \o <<>>, {} \cup {"WaitingIDs"})
        BY <1>1, NoPlan, UnlockFirst
      <3>2. Plan(t, <<writeInbox(t)>> \o (<<unlock("WaitingIDs")>> \o <<>>), {"WaitingIDs"})
        <4>1. {} \cup {"WaitingIDs"} = {"WaitingIDs"}
          OBVIOUS
        <4> QED BY <1>3, <1>4, <1>5, <3>1, <4>1, AccessFirst, AllAccesses
      <3>3. end = <<writeInbox(t)>> \o (<<unlock("WaitingIDs")>> \o <<>>)
        OBVIOUS
      <3> QED BY <3>2, <3>3
    <2>2. Plan(t, GetMessage \o end, {"WaitingIDs"})
      <3>1. /\ Nests(t, "Sent", {"WaitingIDs"}) /\ "Sent" \notin {"WaitingIDs"}
            /\ {"WaitingIDs"} \cup {"Sent"} = {"WaitingIDs", "Sent"}
        BY <1>0 DEF Nests
      <3> HIDE DEF end
      <3> QED BY <1>1, <1>3, <1>4, <2>1, <3>1, Section, AllAccesses DEF GetMessage
    <2>3. Plan(t, <<readInbox(t)>> \o (GetMessage \o end), {"WaitingIDs"})
      BY <1>3, <1>4, <1>5, <2>2, AccessFirst, AllAccesses
    <2>4. Plan(t, <<lock("WaitingIDs")>> \o (<<readInbox(t)>> \o (GetMessage \o end)), {})
      <3>1. Nests(t, "WaitingIDs", {}) /\ {} \cup {"WaitingIDs"} = {"WaitingIDs"}
        BY <1>0 DEF Nests
      <3> QED BY <1>1, <2>3, <3>1, LockFirst
    <2>5. AcceptMessage(t) = <<lock("WaitingIDs")>> \o (<<readInbox(t)>> \o (GetMessage \o end))
      BY DEF AcceptMessage, GetMessage
    <2> QED BY <2>4, <2>5
  <1> QED BY <1>6, <1>7, <1>8, <1>9, <1>10, <1>11, <1>12, <1>13 DEF Calls

\* The runtime thread keeps the rules as well: when it wakes up it holds nothing, at the
\* head of its outer loop the queue and the map of sent messages, and at the head of an
\* inner loop the map and the list of messengers.
LEMMA RuntimePlans ==
  /\ Plan(Runtime, MessengerServerRuntime, {})
  /\ \A head \in {nextOfAll, nextOfChannel} :
       /\ Plan(Runtime, DistributeOne(head), {"Queue", "Sent"})
       /\ Plan(Runtime, <<head>> \o EndOfMessage, {"Sent", "Messengers"})
  <1> DEFINE Q  == {"Queue"}
             S  == {"Sent"}
             QS == {"Queue", "Sent"}
             SM == {"Sent", "Messengers"}
  <1>1. /\ "Queue" \in Mutex /\ "Sent" \in Mutex /\ "Messengers" \in Mutex
        /\ "Queue" \notin {} /\ {} \cup {"Queue"} = Q
        /\ "Sent" \notin Q /\ Q \cup {"Sent"} = QS
        /\ "Queue" \notin S /\ S \cup {"Queue"} = QS
        /\ "Messengers" \notin S /\ S \cup {"Messengers"} = SM
    BY DEF Mutex
  <1>2. \A H, m : m # "WaitingIDs" => Nests(Runtime, m, H)
    BY DEF Nests
  <1>3. /\ Covered(Runtime, write("MessageQueue"), QS)
        /\ Covered(Runtime, write("sentMessages"), S)
        /\ Covered(Runtime, nextMessage, QS)
        /\ Covered(Runtime, nextOfAll, SM)
        /\ Covered(Runtime, nextOfChannel, SM)
    BY DEF Covered, Guard, write, nextMessage, nextOfAll, nextOfChannel
  <1>4. /\ AtLoop(Runtime, write("MessageQueue"), QS)
        /\ AtLoop(Runtime, write("sentMessages"), S)
        /\ AtLoop(Runtime, nextMessage, QS)
        /\ AtLoop(Runtime, nextOfAll, SM)
        /\ AtLoop(Runtime, nextOfChannel, SM)
    BY DEF AtLoop, write, nextMessage, nextOfAll, nextOfChannel
  <1>5. /\ write("MessageQueue") \in AnAccess /\ write("sentMessages") \in AnAccess
        /\ nextMessage \in AnAccess /\ nextOfAll \in AnAccess /\ nextOfChannel \in AnAccess
    BY AllAccesses
  <1>6. /\ \A m \in {"Queue", "Sent", "Messengers"} : lock(m) \in Step /\ unlock(m) \in Step
        /\ AnAccess \subseteq Step
    BY <1>1 DEF Step
  <1> HIDE DEF Q, S, QS, SM
  <1>7. Plan(Runtime, EndOfDrain, QS)
    <2>1. Plan(Runtime, <<unlock("Queue")>> \o <<>>, Q)
      BY <1>1, NoPlan, UnlockFirst
    <2>2. Plan(Runtime, <<unlock("Sent")>> \o (<<unlock("Queue")>> \o <<>>), QS)
      BY <1>1, <2>1, UnlockFirst
    <2>3. /\ <<unlock("Sent"), unlock("Queue")>> \o <<>> = <<unlock("Sent")>> \o (<<unlock("Queue")>> \o <<>>)
          /\ <<unlock("Sent"), unlock("Queue")>> \o <<>> = <<unlock("Sent"), unlock("Queue")>>
      BY <1>6, OneByOne
    <2> QED BY <2>2, <2>3 DEF EndOfDrain
  <1>8. Plan(Runtime, <<nextMessage>> \o EndOfDrain, QS)
    BY <1>3, <1>4, <1>5, <1>7, AccessFirst
  <1>9. Plan(Runtime, MessengerServerRuntime, {})
    <2>1. Plan(Runtime, <<lock("Sent")>> \o (<<nextMessage>> \o EndOfDrain), Q)
      BY <1>1, <1>2, <1>8, LockFirst
    <2>2. Plan(Runtime, <<lock("Queue")>> \o (<<lock("Sent")>> \o (<<nextMessage>> \o EndOfDrain)), {})
      BY <1>1, <1>2, <2>1, LockFirst
    <2>3. MessengerServerRuntime = <<lock("Queue")>> \o (<<lock("Sent")>> \o (<<nextMessage>> \o EndOfDrain))
      BY <1>5, <1>6, <1>7, OneByOne DEF MessengerServerRuntime, Plan
    <2> QED BY <2>2, <2>3
  <1>10. Plan(Runtime, EndOfMessage, SM)
    <2> DEFINE r == <<nextMessage>> \o EndOfDrain
    <2>1. Plan(Runtime, <<lock("Queue")>> \o r, S)
      BY <1>1, <1>2, <1>8, LockFirst
    <2>2. Plan(Runtime, <<write("sentMessages")>> \o (<<lock("Queue")>> \o r), S)
      BY <1>3, <1>4, <1>5, <2>1, AccessFirst
    <2>3. Plan(Runtime, <<unlock("Messengers")>> \o (<<write("sentMessages")>> \o (<<lock("Queue")>> \o r)), SM)
      BY <1>1, <2>2, UnlockFirst
    <2>4. EndOfMessage = <<unlock("Messengers")>> \o (<<write("sentMessages")>> \o (<<lock("Queue")>> \o r))
      BY <1>5, <1>6, <1>7, OneByOne DEF EndOfMessage, Plan
    <2> QED BY <2>3, <2>4
  <1>11. ASSUME NEW head \in {nextOfAll, nextOfChannel}
         PROVE  /\ Plan(Runtime, DistributeOne(head), QS)
                /\ Plan(Runtime, <<head>> \o EndOfMessage, SM)
    <2> DEFINE r == <<head>> \o EndOfMessage
    <2>1. Plan(Runtime, r, SM)
      BY <1>3, <1>4, <1>5, <1>10, AccessFirst
    <2> HIDE DEF r
    <2>2. Plan(Runtime, <<lock("Messengers")>> \o r, S)
      BY <1>1, <1>2, <2>1, LockFirst
    <2>3. Plan(Runtime, <<write("sentMessages")>> \o (<<lock("Messengers")>> \o r), S)
      BY <1>3, <1>4, <1>5, <2>2, AccessFirst
    <2>4. Plan(Runtime, <<unlock("Queue")>> \o (<<write("sentMessages")>> \o (<<lock("Messengers")>> \o r)), QS)
      BY <1>1, <2>3, UnlockFirst
    <2>5. Plan(Runtime, <<write("MessageQueue")>> \o
                 (<<unlock("Queue")>> \o (<<write("sentMessages")>> \o (<<lock("Messengers")>> \o r))), QS)
      BY <1>3, <1>4, <1>5, <2>4, AccessFirst
    <2>6. DistributeOne(head) = <<write("MessageQueue")>> \o
            (<<unlock("Queue")>> \o (<<write("sentMessages")>> \o (<<lock("Messengers")>> \o r)))
      <3> DEFINE a == write("MessageQueue")
                 b == unlock("Queue")
                 c == write("sentMessages")
                 d == lock("Messengers")
      <3>1. /\ a \in Step /\ b \in Step /\ c \in Step /\ d \in Step /\ head \in Step
            /\ EndOfMessage \in Seq(Step)
        BY <1>5, <1>6, <1>10 DEF Plan
      <3>2. DistributeOne(head) = <<a, b, c, d, head>> \o EndOfMessage
        BY DEF DistributeOne
      <3> HIDE DEF a, b, c, d
      <3>3. <<a, b, c, d, head>> \o EndOfMessage = <<a>> \o (<<b, c, d, head>> \o EndOfMessage)
        BY <3>1, OneByOne
      <3>4. <<b, c, d, head>> \o EndOfMessage = <<b>> \o (<<c, d, head>> \o EndOfMessage)
        BY <3>1, OneByOne
      <3>5. <<c, d, head>> \o EndOfMessage = <<c>> \o (<<d, head>> \o EndOfMessage)
        BY <3>1, OneByOne
      <3>6. <<d, head>> \o EndOfMessage = <<d>> \o r
        BY <3>1, OneByOne DEF r
      <3>7. DistributeOne(head) = <<a>> \o (<<b>> \o (<<c>> \o (<<d>> \o r)))
        BY <3>2, <3>3, <3>4, <3>5, <3>6
      <3> QED BY <3>7 DEF a, b, c, d
    <2> QED BY <2>1, <2>5, <2>6 DEF r
  <1> QED BY <1>9, <1>11 DEF QS, SM

\* A round of an inner loop keeps the rules, whether the messenger is asked for its
\* channels or not and whether it is alerted or not.
LEMMA RoundIsPlan ==
  ASSUME NEW head \in {nextOfAll, nextOfChannel}, NEW asked \in {isRegisteredOnChannel, <<>>},
         NEW body \in {asked} \cup {asked \o Alert(t) : t \in Thread}
  PROVE  Plan(Runtime, body \o <<head>> \o EndOfMessage, {"Sent", "Messengers"})
  <1> DEFINE SM == {"Sent", "Messengers"}
             r  == <<head>> \o EndOfMessage
  <1>1. /\ "Channels" \in Mutex \ SM /\ "Sent" \in SM /\ "WaitingIDs" \notin SM
        /\ Nests(Runtime, "Channels", SM)
    BY DEF Mutex, Nests
  <1>2. /\ Covered(Runtime, read("RegisteredChannels"), SM \cup {"Channels"})
        /\ Covered(Runtime, write("sentMessages"), SM) /\ AtLoop(Runtime, write("sentMessages"), SM)
        /\ read("RegisteredChannels").op = "read"
    BY DEF Covered, Guard, AtLoop, read, write
  <1>3. \A t \in Thread : /\ Covered(Runtime, writeInbox(t), SM) /\ AtLoop(Runtime, writeInbox(t), SM)
                          /\ writeInbox(t) \in AnAccess
    BY AllAccesses DEF Covered, AtLoop, writeInbox
  <1>4. read("RegisteredChannels") \in AnAccess /\ write("sentMessages") \in AnAccess
    BY AllAccesses
  <1>5. /\ AnAccess \subseteq Step /\ lock("Channels") \in Step /\ unlock("Channels") \in Step
        /\ EndOfMessage \in Seq(Step) /\ head \in Step
    BY <1>1, AllAccesses DEF Step, EndOfMessage, EndOfDrain, Mutex
  <1>6. Plan(Runtime, r, SM)
    BY RuntimePlans
  <1>7. isRegisteredOnChannel \in Seq(Step) /\ \A t \in Thread : Alert(t) \in Seq(Step)
    BY <1>3, <1>4, <1>5 DEF isRegisteredOnChannel, Alert, AlertMessageID
  <1>8. body \o <<head>> \o EndOfMessage = body \o r
    <2>1. asked \in Seq(Step)
      <3>1. <<>> \in Seq(Step)
        OBVIOUS
      <3> QED BY <1>7, <3>1
    <2>2. body \in Seq(Step)
      <3>1. CASE body = asked
        BY <2>1, <3>1
      <3>2. ASSUME NEW t \in Thread, body = asked \o Alert(t) PROVE body \in Seq(Step)
        <4>1. Alert(t) \in Seq(Step)
          BY <1>7
        <4> QED BY <2>1, <3>2, <4>1, ConcatProperties
      <3> QED BY <3>1, <3>2
    <2>3. <<head>> \in Seq(Step)
      BY <1>5
    <2> QED BY <1>5, <2>2, <2>3, ConcatAssociative
  <1> HIDE DEF SM, r
  <1>9. ASSUME NEW s, Plan(Runtime, s, SM)
        PROVE  Plan(Runtime, asked \o s, SM)
    <2>1. CASE asked = <<>>
      BY <1>9, <2>1 DEF Plan
    <2>2. CASE asked = isRegisteredOnChannel
      BY <1>1, <1>2, <1>4, <1>9, <2>2, Section DEF isRegisteredOnChannel
    <2> QED BY <2>1, <2>2
  <1>10. ASSUME NEW t \in Thread
         PROVE  Plan(Runtime, (asked \o Alert(t)) \o r, SM)
    <2>1. Plan(Runtime, <<write("sentMessages")>> \o r, SM)
      BY <1>2, <1>4, <1>6, AccessFirst
    <2>2. Plan(Runtime, <<writeInbox(t)>> \o (<<write("sentMessages")>> \o r), SM)
      BY <1>3, <2>1, AccessFirst
    <2>3. Plan(Runtime, asked \o (<<writeInbox(t)>> \o (<<write("sentMessages")>> \o r)), SM)
      BY <1>9, <2>2
    <2>4. (asked \o Alert(t)) \o r = asked \o (<<writeInbox(t)>> \o (<<write("sentMessages")>> \o r))
      <3>1. asked \in Seq(Step) /\ r \in Seq(Step)
        <4>1. <<>> \in Seq(Step)
          OBVIOUS
        <4> QED BY <1>6, <1>7, <4>1 DEF Plan
      <3>2. <<writeInbox(t)>> \in Seq(Step) /\ <<write("sentMessages")>> \in Seq(Step)
        BY <1>3, <1>4, <1>5
      <3> QED BY <3>1, <3>2, ConcatAssociative DEF Alert, AlertMessageID
    <2> QED BY <2>3, <2>4
  <1>11. Plan(Runtime, body \o r, SM)
    BY <1>6, <1>9, <1>10
  <1> QED BY <1>8, <1>11 DEF SM

--------------------------------------------------------------------------------
(* The inductive invariant *)

\* Every thread has an orderly rest of a call to do, and holds what that rest says it holds.
LocksInv ==
  /\ holder \in [Mutex -> Proc \cup {Free}]
  /\ todo \in [Proc -> Seq(Step)]
  /\ \A p \in Proc : Orderly(p, todo[p])
  /\ \A p \in Proc, m \in Mutex : holder[m] = p <=> m \in HeldAt(todo[p], 1)

\* At the start nobody does or holds anything.
LEMMA LocksInvInit == Init => LocksInv
  <1> SUFFICES ASSUME Init PROVE LocksInv
    OBVIOUS
  <1>1. \A p \in Proc : todo[p] = <<>> /\ Plan(p, todo[p], {})
    BY NoPlan DEF Init
  <1>2. \A p \in Proc : p # Free
    BY LocksAssumption DEF Proc
  <1>3. \A m \in Mutex : holder[m] = Free
    BY DEF Init
  <1>4. holder \in [Mutex -> Proc \cup {Free}] /\ todo \in [Proc -> Seq(Step)]
    BY DEF Init
  <1> QED BY <1>1, <1>2, <1>3, <1>4 DEF LocksInv, Plan

\* A thread that takes or releases nothing goes on with another rest that holds the same.
LEMMA GoesOn ==
  ASSUME LocksInv, NEW p \in Proc, NEW s, Plan(p, s, HeldAt(todo[p], 1)),
         todo' = [todo EXCEPT ![p] = s], holder' = holder
  PROVE  LocksInv'
  <1>1. todo' \in [Proc -> Seq(Step)]
    BY DEF LocksInv, Plan
  <1>2. \A q \in Proc : q # p => todo'[q] = todo[q]
    BY DEF LocksInv
  <1>3. todo'[p] = s /\ HeldAt(s, 1) = HeldAt(todo[p], 1) /\ Orderly(p, s)
    BY DEF LocksInv, Plan
  <1>4. \A q \in Proc : Orderly(q, todo'[q]) /\ HeldAt(todo'[q], 1) = HeldAt(todo[q], 1)
    BY <1>2, <1>3 DEF LocksInv
  <1> QED BY <1>1, <1>4 DEF LocksInv

\* What is known of a thread that is at a step.
LEMMA AtAStep ==
  ASSUME LocksInv, NEW p \in Proc, todo[p] # <<>>
  PROVE  /\ Plan(p, Tail(todo[p]), HeldAt(Tail(todo[p]), 1))
         /\ HeldAt(todo[p], 1) = Before(Head(todo[p]), HeldAt(Tail(todo[p]), 1))
         /\ Fits(p, Head(todo[p]), HeldAt(Tail(todo[p]), 1))
         /\ Head(todo[p]) \in Step
  <1>1. todo[p] \in Seq(Step) /\ Orderly(p, todo[p])
    BY DEF LocksInv
  <1>2. Tail(todo[p]) \in Seq(Step) /\ Head(todo[p]) \in Step
    BY <1>1
  <1> QED BY <1>1, <1>2, FirstAndRest DEF Plan

\* A step that is neither a lock nor an unlock is an access, and holds what the rest holds.
LEMMA AtAnAccess ==
  ASSUME LocksInv, NEW p \in Proc, At(p, Accesses)
  PROVE  /\ HeldAt(Tail(todo[p]), 1) = HeldAt(todo[p], 1)
         /\ Head(todo[p]) \in AnAccess
         /\ Covered(p, Head(todo[p]), HeldAt(todo[p], 1))
         /\ AtLoop(p, Head(todo[p]), HeldAt(todo[p], 1))
  <1>1. todo[p] # <<>> /\ Head(todo[p]).op \in Accesses
    BY DEF At
  <1>2. /\ HeldAt(todo[p], 1) = Before(Head(todo[p]), HeldAt(Tail(todo[p]), 1))
        /\ Fits(p, Head(todo[p]), HeldAt(Tail(todo[p]), 1))
    BY <1>1, AtAStep
  <1>3. HeldAt(todo[p], 1) = HeldAt(Tail(todo[p]), 1)
    BY <1>1, <1>2 DEF Before, Accesses
  <1>4. \A m \in Mutex : Head(todo[p]) # lock(m) /\ Head(todo[p]) # unlock(m)
    <2>1. \A m \in Mutex : lock(m).op = "lock" /\ unlock(m).op = "unlock"
      BY DEF lock, unlock
    <2>2. "lock" \notin Accesses /\ "unlock" \notin Accesses
      BY DEF Accesses
    <2> QED BY <1>1, <2>1, <2>2
  <1>5. /\ Head(todo[p]) \in AnAccess
        /\ Covered(p, Head(todo[p]), HeldAt(Tail(todo[p]), 1))
        /\ AtLoop(p, Head(todo[p]), HeldAt(Tail(todo[p]), 1))
    BY <1>2, <1>4, Zenon DEF Fits
  <1> QED BY <1>3, <1>5, Zenon

\* A thread that does the next step of its call, and takes or releases nothing by it.
LEMMA AccessKeeps ==
  ASSUME LocksInv, NEW p \in Proc, At(p, Accesses), todo' = [todo EXCEPT ![p] = Tail(@)],
         holder' = holder
  PROVE  LocksInv'
  <1>1. todo[p] # <<>>
    BY DEF At
  <1>2. Plan(p, Tail(todo[p]), HeldAt(todo[p], 1))
    BY <1>1, AtAStep, AtAnAccess
  <1>3. todo' = [todo EXCEPT ![p] = Tail(todo[p])]
    OBVIOUS
  <1> QED BY <1>2, <1>3, GoesOn

\* A thread between two calls holds nothing.
LEMMA BetweenCalls == ASSUME NEW p \in Proc, todo[p] = <<>> PROVE HeldAt(todo[p], 1) = {}
  BY NoPlan DEF Plan

\* A mutex that is taken gets the thread that the rest of the call says holds it.
LEMMA LockKeeps ==
  ASSUME LocksInv, NEW p \in Proc, Lock(p)
  PROVE  LocksInv'
  <1>1. todo[p] # <<>> /\ Head(todo[p]).op = "lock"
    BY DEF Lock, At
  <1>2. /\ HeldAt(todo[p], 1) = Before(Head(todo[p]), HeldAt(Tail(todo[p]), 1))
        /\ Fits(p, Head(todo[p]), HeldAt(Tail(todo[p]), 1))
        /\ Plan(p, Tail(todo[p]), HeldAt(Tail(todo[p]), 1))
    BY <1>1, AtAStep
  <1>3. PICK m \in Mutex : Head(todo[p]) = lock(m) /\ m \in HeldAt(Tail(todo[p]), 1)
    <2>1. \A m \in Mutex : Head(todo[p]) # unlock(m)
      <3>1. \A m \in Mutex : unlock(m).op = "unlock"
        BY DEF unlock
      <3> QED BY <1>1, <3>1
    <2>2. Head(todo[p]) \notin AnAccess
      BY <1>1 DEF AnAccess, Accesses
    <2> QED BY <1>2, <2>1, <2>2, Zenon DEF Fits
  <1>4. Head(todo[p]).on = m
    BY <1>3 DEF lock
  <1>5. HeldAt(todo[p], 1) = HeldAt(Tail(todo[p]), 1) \ {m}
    BY <1>1, <1>2, <1>4 DEF Before
  <1>6. /\ holder[m] = Free /\ holder' = [holder EXCEPT ![m] = p]
        /\ todo' = [todo EXCEPT ![p] = Tail(todo[p])]
    BY <1>4 DEF Lock
  <1>7. p # Free /\ \A q \in Proc : q # Free
    BY LocksAssumption DEF Proc
  <1>8. holder' \in [Mutex -> Proc \cup {Free}] /\ holder'[m] = p
        /\ \A n \in Mutex : n # m => holder'[n] = holder[n]
    BY <1>6 DEF LocksInv
  <1>9. todo' \in [Proc -> Seq(Step)] /\ todo'[p] = Tail(todo[p])
        /\ \A q \in Proc : q # p => todo'[q] = todo[q]
    BY <1>2, <1>6 DEF LocksInv, Plan
  <1>10. ASSUME NEW q \in Proc
         PROVE  Orderly(q, todo'[q]) /\ \A n \in Mutex : holder'[n] = q <=> n \in HeldAt(todo'[q], 1)
    <2>1. CASE q = p
      <3>1. Orderly(p, todo'[p])
        BY <1>2, <1>9 DEF Plan
      <3>2. \A n \in Mutex : n # m => (holder'[n] = p <=> n \in HeldAt(todo'[p], 1))
        BY <1>5, <1>8, <1>9 DEF LocksInv
      <3>3. holder'[m] = p /\ m \in HeldAt(todo'[p], 1)
        BY <1>3, <1>8, <1>9
      <3> QED BY <2>1, <3>1, <3>2, <3>3
    <2>2. CASE q # p
      <3>1. Orderly(q, todo'[q])
        BY <1>9, <2>2 DEF LocksInv
      <3>2. \A n \in Mutex : n # m => (holder'[n] = q <=> n \in HeldAt(todo'[q], 1))
        BY <1>8, <1>9, <2>2 DEF LocksInv
      <3>3. holder'[m] # q /\ m \notin HeldAt(todo'[q], 1)
        BY <1>6, <1>7, <1>8, <1>9, <2>2 DEF LocksInv
      <3> QED BY <3>1, <3>2, <3>3
    <2> QED BY <2>1, <2>2
  <1> QED BY <1>8, <1>9, <1>10 DEF LocksInv

\* A mutex that is released was held by the thread that releases it.
LEMMA UnlockKeeps ==
  ASSUME LocksInv, NEW p \in Proc, Unlock(p)
  PROVE  LocksInv'
  <1>1. todo[p] # <<>> /\ Head(todo[p]).op = "unlock"
    BY DEF Unlock, At
  <1>2. /\ HeldAt(todo[p], 1) = Before(Head(todo[p]), HeldAt(Tail(todo[p]), 1))
        /\ Fits(p, Head(todo[p]), HeldAt(Tail(todo[p]), 1))
        /\ Plan(p, Tail(todo[p]), HeldAt(Tail(todo[p]), 1))
    BY <1>1, AtAStep
  <1>3. PICK m \in Mutex : Head(todo[p]) = unlock(m) /\ m \notin HeldAt(Tail(todo[p]), 1)
    <2>1. \A m \in Mutex : Head(todo[p]) # lock(m)
      <3>1. \A m \in Mutex : lock(m).op = "lock"
        BY DEF lock
      <3> QED BY <1>1, <3>1
    <2>2. Head(todo[p]) \notin AnAccess
      BY <1>1 DEF AnAccess, Accesses
    <2> QED BY <1>2, <2>1, <2>2, Zenon DEF Fits
  <1>4. Head(todo[p]).on = m
    BY <1>3 DEF unlock
  <1>5. HeldAt(todo[p], 1) = HeldAt(Tail(todo[p]), 1) \cup {m}
    BY <1>1, <1>2, <1>4 DEF Before
  <1>6. /\ holder[m] = p /\ holder' = [holder EXCEPT ![m] = Free]
        /\ todo' = [todo EXCEPT ![p] = Tail(todo[p])]
    BY <1>4, <1>5 DEF Unlock, LocksInv
  <1>7. p # Free /\ \A q \in Proc : q # Free
    BY LocksAssumption DEF Proc
  <1>8. holder' \in [Mutex -> Proc \cup {Free}] /\ holder'[m] = Free
        /\ \A n \in Mutex : n # m => holder'[n] = holder[n]
    BY <1>6 DEF LocksInv
  <1>9. todo' \in [Proc -> Seq(Step)] /\ todo'[p] = Tail(todo[p])
        /\ \A q \in Proc : q # p => todo'[q] = todo[q]
    BY <1>2, <1>6 DEF LocksInv, Plan
  <1>10. ASSUME NEW q \in Proc
         PROVE  Orderly(q, todo'[q]) /\ \A n \in Mutex : holder'[n] = q <=> n \in HeldAt(todo'[q], 1)
    <2>1. CASE q = p
      <3>1. Orderly(p, todo'[p])
        BY <1>2, <1>9 DEF Plan
      <3>2. \A n \in Mutex : n # m => (holder'[n] = p <=> n \in HeldAt(todo'[p], 1))
        BY <1>5, <1>8, <1>9 DEF LocksInv
      <3>3. holder'[m] # p /\ m \notin HeldAt(todo'[p], 1)
        BY <1>3, <1>7, <1>8, <1>9
      <3> QED BY <2>1, <3>1, <3>2, <3>3
    <2>2. CASE q # p
      <3>1. Orderly(q, todo'[q])
        BY <1>9, <2>2 DEF LocksInv
      <3>2. \A n \in Mutex : n # m => (holder'[n] = q <=> n \in HeldAt(todo'[q], 1))
        BY <1>8, <1>9, <2>2 DEF LocksInv
      <3>3. holder'[m] # q /\ m \notin HeldAt(todo'[q], 1)
        BY <1>6, <1>7, <1>8, <1>9, <2>2 DEF LocksInv
      <3> QED BY <3>1, <3>2, <3>3
    <2> QED BY <2>1, <2>2
  <1> QED BY <1>8, <1>9, <1>10 DEF LocksInv

\* Every step keeps the invariant.
LEMMA LocksInvNext == LocksInv /\ [Next]_vars => LocksInv'
  <1> SUFFICES ASSUME LocksInv, [Next]_vars PROVE LocksInv'
    OBVIOUS
  <1>0. Runtime \in Proc /\ Thread \subseteq Proc
    BY DEF Proc
  <1>1. ASSUME NEW t \in Thread, Call(t) PROVE LocksInv'
    <2>1. PICK call \in Calls(t) : todo' = [todo EXCEPT ![t] = call]
      BY <1>1 DEF Call
    <2>2. Plan(t, call, HeldAt(todo[t], 1)) /\ holder' = holder
      BY <1>0, <1>1, BetweenCalls, CallsArePlans DEF Call
    <2> QED BY <1>0, <2>1, <2>2, GoesOn
  <1>2. ASSUME WakeUp PROVE LocksInv'
    <2>1. Plan(Runtime, MessengerServerRuntime, HeldAt(todo[Runtime], 1))
      BY <1>0, <1>2, BetweenCalls, RuntimePlans DEF WakeUp
    <2> QED BY <1>0, <1>2, <2>1, GoesOn DEF WakeUp
  <1>3. ASSUME NEW p \in Proc, Access(p) PROVE LocksInv'
    <2>1. At(p, Accesses)
      BY <1>3 DEF Access, At, Accesses
    <2> QED BY <1>3, <2>1, AccessKeeps DEF Access
  <1>4. ASSUME While PROVE LocksInv'
    <2>1. At(Runtime, Accesses) /\ Head(todo[Runtime]).op = "while"
      BY <1>4 DEF While, At, Accesses
    <2>2. HeldAt(todo[Runtime], 1) = {"Queue", "Sent"}
      BY <1>0, <2>1, AtAnAccess DEF AtLoop
    <2>3. CASE Leave
      BY <1>0, <1>4, <2>1, <2>3, AccessKeeps DEF While, Leave
    <2>4. ASSUME NEW head \in {nextOfAll, nextOfChannel}, todo' = [todo EXCEPT ![Runtime] = DistributeOne(head)]
          PROVE  LocksInv'
      <3>1. Plan(Runtime, DistributeOne(head), HeldAt(todo[Runtime], 1)) /\ holder' = holder
        BY <1>4, <2>2, RuntimePlans DEF While
      <3> QED BY <1>0, <2>4, <3>1, GoesOn
    <2> QED BY <1>4, <2>3, <2>4 DEF While
  <1>5. ASSUME For PROVE LocksInv'
    <2> DEFINE head  == Head(todo[Runtime])
               asked == IF head = nextOfChannel THEN isRegisteredOnChannel ELSE <<>>
    <2>1. At(Runtime, Accesses) /\ head.op \in {"for", "for if"}
      BY <1>5 DEF For, At, Accesses
    <2>2. HeldAt(todo[Runtime], 1) = {"Sent", "Messengers"} /\ head \in {nextOfAll, nextOfChannel}
      BY <1>0, <2>1, AtAnAccess DEF AtLoop
    <2>3. CASE Leave
      BY <1>0, <1>5, <2>1, <2>3, AccessKeeps DEF For, Leave
    <2>4. ASSUME NEW body \in {asked} \cup {asked \o Alert(t) : t \in Thread},
                 todo' = [todo EXCEPT ![Runtime] = body \o <<head>> \o EndOfMessage]
          PROVE  LocksInv'
      <3>1. Plan(Runtime, body \o <<head>> \o EndOfMessage, HeldAt(todo[Runtime], 1)) /\ holder' = holder
        <4>1. asked \in {isRegisteredOnChannel, <<>>} /\ holder' = holder
          BY <1>5 DEF For
        <4> HIDE DEF head, asked
        <4> QED BY <2>2, <2>4, <4>1, RoundIsPlan
      <3> QED BY <1>0, <2>4, <3>1, GoesOn
    <2> QED BY <1>5, <2>3, <2>4 DEF For
  <1>6. CASE UNCHANGED vars
    BY <1>6 DEF vars, LocksInv
  <1> QED BY <1>1, <1>2, <1>3, <1>4, <1>5, <1>6, LockKeeps, UnlockKeeps DEF Next

LEMMA LocksInvHolds == Spec => []LocksInv
  BY LocksInvInit, LocksInvNext, PTL DEF Spec

--------------------------------------------------------------------------------
(* What the mutexes promise *)

\* A thread about to take a mutex does not hold it, and nests it as the rules say.
LEMMA AtALock ==
  ASSUME LocksInv, NEW p \in Proc, At(p, {"lock"})
  PROVE  /\ Head(todo[p]).on \in Mutex
         /\ holder[Head(todo[p]).on] # p
         /\ Nests(p, Head(todo[p]).on, HeldAt(todo[p], 1))
  <1>1. todo[p] # <<>> /\ Head(todo[p]).op = "lock"
    BY DEF At
  <1>2. /\ HeldAt(todo[p], 1) = Before(Head(todo[p]), HeldAt(Tail(todo[p]), 1))
        /\ Fits(p, Head(todo[p]), HeldAt(Tail(todo[p]), 1))
    BY <1>1, AtAStep
  <1>3. PICK m \in Mutex : Head(todo[p]) = lock(m) /\ Nests(p, m, HeldAt(Tail(todo[p]), 1) \ {m})
    <2>1. \A m \in Mutex : Head(todo[p]) # unlock(m)
      <3>1. \A m \in Mutex : unlock(m).op = "unlock"
        BY DEF unlock
      <3> QED BY <1>1, <3>1
    <2>2. Head(todo[p]) \notin AnAccess
      BY <1>1 DEF AnAccess, Accesses
    <2> QED BY <1>2, <2>1, <2>2, Zenon DEF Fits
  <1>4. Head(todo[p]).on = m
    BY <1>3 DEF lock
  <1>5. HeldAt(todo[p], 1) = HeldAt(Tail(todo[p]), 1) \ {m}
    BY <1>1, <1>2, <1>4 DEF Before
  <1>6. Nests(p, m, HeldAt(todo[p], 1))
    BY <1>3, <1>5
  <1>7. holder[m] # p
    BY <1>5 DEF LocksInv
  <1> QED BY <1>4, <1>6, <1>7

\* No mutex is kept, released twice or taken twice on any path through a method or through
\* the loops of MessengerServerRuntime, for any number of threads and rounds.
THEOREM LocksReleased == Spec => []HeldIsReleased
  <1>1. LocksInv => HeldIsReleased
    <2> SUFFICES ASSUME LocksInv, NEW p \in Proc, NEW m \in Mutex
                 PROVE  /\ holder[m] = p <=> Releases(todo[p], 1, m)
                        /\ \A i \in 1 .. Len(todo[p]) :
                             /\ todo[p][i] = lock(m)   => Releases(todo[p], i + 1, m)
                             /\ todo[p][i] = unlock(m) => ~Releases(todo[p], i + 1, m)
      BY DEF HeldIsReleased
    <2>1. holder[m] = p <=> Releases(todo[p], 1, m)
      BY DEF LocksInv, HeldAt
    <2>2. ASSUME NEW i \in 1 .. Len(todo[p])
          PROVE  /\ todo[p][i] = lock(m)   => Releases(todo[p], i + 1, m)
                 /\ todo[p][i] = unlock(m) => ~Releases(todo[p], i + 1, m)
      <3>1. Fits(p, todo[p][i], HeldAt(todo[p], i + 1))
        BY DEF LocksInv, Orderly
      <3>2. /\ \A n \in Mutex : lock(n) # unlock(m) /\ unlock(n) # lock(m)
            /\ \A n \in Mutex : (lock(n) = lock(m) => n = m) /\ (unlock(n) = unlock(m) => n = m)
        BY DEF lock, unlock
      <3>3. lock(m) \notin AnAccess /\ unlock(m) \notin AnAccess
        BY DEF lock, unlock, AnAccess, Accesses
      <3>4. todo[p][i] = lock(m) => m \in HeldAt(todo[p], i + 1)
        BY <3>1, <3>2, <3>3 DEF Fits
      <3>5. todo[p][i] = unlock(m) => m \notin HeldAt(todo[p], i + 1)
        BY <3>1, <3>2, <3>3 DEF Fits
      <3> QED BY <3>4, <3>5 DEF HeldAt
    <2> QED BY <2>1, <2>2
  <1> QED BY <1>1, LocksInvHolds, PTL

\* No threads wait for each other in a circle: a client takes at most Sent under WaitingIDs,
\* and the runtime thread, which takes Queue and Sent in both orders, never takes WaitingIDs.
THEOREM NeverDeadlocked == Spec => []NoDeadlock
  <1>1. LocksInv => NoDeadlock
    <2> SUFFICES ASSUME LocksInv, NEW S \in SUBSET Proc, S # {}
                 PROVE  \E p \in S : \A q \in S : ~WaitsFor(p, q)
      BY DEF NoDeadlock
    <2>1. CASE \E p \in S : ~At(p, {"lock"})
      BY <2>1 DEF WaitsFor
    <2>2. CASE \A p \in S : At(p, {"lock"})
      <3>1. \A p \in S : /\ Head(todo[p]).on \in Mutex
                         /\ holder[Head(todo[p]).on] # p
                         /\ Nests(p, Head(todo[p]).on, HeldAt(todo[p], 1))
        BY <2>2, AtALock
      <3>2. \A q \in S, m \in Mutex : holder[m] = q => m \in HeldAt(todo[q], 1)
        BY DEF LocksInv
      <3>3. \A q \in S \ {Runtime}, m \in Mutex : holder[m] = q => m = "WaitingIDs"
        BY <3>1, <3>2 DEF Nests
      <3>4. CASE Runtime \in S
        <4>1. Head(todo[Runtime]).on # "WaitingIDs"
          BY <3>1, <3>4 DEF Nests
        <4>2. \A q \in S : ~WaitsFor(Runtime, q)
          BY <3>1, <3>3, <3>4, <4>1 DEF WaitsFor
        <4> QED BY <3>4, <4>2
      <3>5. CASE Runtime \notin S /\ \E p \in S : Head(todo[p]).on = "Sent"
        BY <3>1, <3>3, <3>5 DEF WaitsFor
      <3>6. CASE Runtime \notin S /\ \A p \in S : Head(todo[p]).on # "Sent"
        <4>1. \A q \in S : HeldAt(todo[q], 1) = {}
          BY <3>1, <3>6 DEF Nests
        <4>2. \A p \in S, q \in S : holder[Head(todo[p]).on] # q
          BY <3>1, <3>2, <4>1
        <4> QED BY <4>2 DEF WaitsFor
      <3> QED BY <3>4, <3>5, <3>6
    <2> QED BY <2>1, <2>2
  <1> QED BY <1>1, LocksInvHolds, PTL

\* Two accesses of which one writes are under the same mutex, or they are the two that the
\* code leaves unprotected: AlertMessageID, and what ReceiveActiveMessenger returns.
THEOREM RacesAreTwo == Spec => []OnlyTwoRaces
  <1>1. LocksInv => OnlyTwoRaces
    <2> SUFFICES ASSUME LocksInv, NEW p \in Proc, NEW q \in Proc, Race(p, q)
                 PROVE  AppendUnprotected(p, q) \/ BackUnprotected(p, q)
      BY DEF OnlyTwoRaces
    <2>1. /\ p # q /\ At(p, {"write"}) /\ At(p, Accesses) /\ At(q, Accesses)
          /\ Head(todo[p]).on = Head(todo[q]).on /\ Head(todo[p]).of = Head(todo[q]).of
      BY DEF Race, At, Accesses
    <2>2. /\ Covered(p, Head(todo[p]), HeldAt(todo[p], 1)) /\ Head(todo[p]) \in AnAccess
          /\ Covered(q, Head(todo[q]), HeldAt(todo[q], 1)) /\ Head(todo[q]) \in AnAccess
      BY <2>1, AtAnAccess
    <2>3. \A m \in Mutex : /\ holder[m] = p <=> m \in HeldAt(todo[p], 1)
                           /\ holder[m] = q <=> m \in HeldAt(todo[q], 1)
      BY DEF LocksInv
    <2>4. CASE Head(todo[p]).on = "waitingMessageIDs"
      <3>1. "WaitingIDs" \in Mutex
        BY DEF Mutex
      <3>2. p = Runtime => holder["WaitingIDs"] # Runtime
        BY <2>2, <2>3, <2>4, <3>1 DEF Covered
      <3>3. q = Runtime => holder["WaitingIDs"] # Runtime
        BY <2>1, <2>2, <2>3, <2>4, <3>1 DEF Covered
      <3>4. p = Runtime \/ q = Runtime
        BY <2>1, <2>2, <2>4 DEF Covered
      <3> QED BY <2>4, <3>2, <3>3, <3>4 DEF AppendUnprotected
    <2>5. CASE Head(todo[p]).on # "waitingMessageIDs"
      <3>1. Head(todo[p]).op = "write"
        BY <2>1 DEF At
      <3>2. Guard[Head(todo[p]).on] \in Mutex
        BY <2>2 DEF AnAccess, Guard, Mutex
      <3>3. holder[Guard[Head(todo[p]).on]] = p
        BY <2>2, <2>3, <2>5, <3>1, <3>2 DEF Covered
      <3>4. Head(todo[q]).op = "read" /\ Head(todo[q]).on = "Messengers"
        BY <2>1, <2>2, <2>3, <2>5, <3>2, <3>3 DEF Covered
      <3>5. Guard["Messengers"] = "Messengers"
        BY DEF Guard
      <3>6. At(q, {"read"}) /\ holder["Messengers"] # q
        BY <2>1, <3>3, <3>4, <3>5 DEF At
      <3> QED BY <3>4, <3>6 DEF BackUnprotected
    <2> QED BY <2>4, <2>5
  <1> QED BY <1>1, LocksInvHolds, PTL
================================================================================
