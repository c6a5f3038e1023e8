---------------------------- MODULE MessagingProofs ----------------------------
(* Theorems about Messaging, for every value of its constants: its invariants, and that it *)
(* implements MessageBoard.                                                               *)
EXTENDS Messaging, SequenceTheorems, FiniteSetTheorems, TLAPS

USE DEF ID

\* What Head and Tail are of a sequence that is not empty (the inboxes and the
\* queue are read through them).
LEMMA HeadTail ==
  ASSUME NEW S, NEW s \in Seq(S), s # <<>>
  PROVE  /\ Len(s) \in Nat \ {0}
         /\ Head(s) = s[1] /\ Head(s) \in S
         /\ Tail(s) \in Seq(S)
         /\ Len(Tail(s)) = Len(s) - 1
         /\ \A i \in 1 .. Len(s) - 1 : Tail(s)[i] = s[i + 1]
  BY HeadTailProperties, EmptySeq, LenProperties

\* The program starts with every variable in its type.
LEMMA TypeInit == Init => TypeOK
  BY MessagingAssumption DEF Init, TypeOK, Stored

\* Distributing one message (one turn of the loop of MessengerServerRuntime)
\* keeps the types.
LEMMA TypeDistribute ==
  ASSUME TypeOK, RuntimeDistribute
  PROVE  TypeOK'
  <1> USE MessagingAssumption
  <1> DEFINE msg == Head(MessageQueue)
             to  == Recipients(msg)
  <1>1. /\ nextMessageID \in ID
        /\ msg \in Message
        /\ MessageQueue' \in Seq(Message)
        /\ nextMessageID' + Len(MessageQueue') <= MaxMessages
        /\ nextMessageID' \in 0 .. MaxMessages
    <2>1. /\ MessageQueue \in Seq(Message) /\ MessageQueue # <<>>
          /\ MessageQueue' = Tail(MessageQueue) /\ nextMessageID' = nextMessageID + 1
      BY DEF TypeOK, RuntimeDistribute
    <2>2. /\ Len(MessageQueue) \in Nat \ {0}
          /\ msg \in Message
          /\ MessageQueue' \in Seq(Message)
          /\ Len(MessageQueue') = Len(MessageQueue) - 1
      BY <2>1, HeadTail
    <2> QED BY <2>1, <2>2 DEF TypeOK
  <1>2. /\ to \subseteq Address
        /\ Cardinality(to) \in Nat
    BY FS_Subset, FS_CardinalityType DEF TypeOK, Recipients
  <1>3. waitingMessageIDs' \in [Address -> Seq(ID)]
    BY <1>1, AppendProperties DEF TypeOK, RuntimeDistribute, AlertMessageID
  <1>4. phase' \in [Address -> {"run", "check", "wait", "timedCheck", "timedWait"}]
    BY DEF TypeOK, RuntimeDistribute, AlertMessageID
  <1>5. /\ Stored' \subseteq ID
        /\ \A i \in Stored' : sentMessages'[i] \in Entry
    <2>1. Stored' = (Stored \ Expired) \cup {nextMessageID}
      BY DEF RuntimeDistribute, Stored
    <2>2. ASSUME NEW i \in Stored' PROVE sentMessages'[i] \in Entry
      <3>1. CASE i = nextMessageID
        <4>1. sentMessages'[i] = [msg |-> msg, pending |-> Cardinality(to), sendTime |-> now]
          BY <2>1, <3>1 DEF RuntimeDistribute
        <4> QED BY <4>1, <1>1, <1>2 DEF TypeOK, Entry
      <3>2. CASE i # nextMessageID
        <4>1. i \in Stored /\ sentMessages'[i] = sentMessages[i]
          BY <2>1, <3>2 DEF RuntimeDistribute
        <4> QED BY <4>1 DEF TypeOK
      <3> QED BY <3>1, <3>2
    <2> QED BY <1>1, <2>1, <2>2 DEF TypeOK
  <1>6. pruned' \subseteq ID
    BY DEF TypeOK, RuntimeDistribute, Expired
  <1> QED BY <1>1, <1>3, <1>4, <1>5, <1>6 DEF TypeOK, RuntimeDistribute

\* Every other operation on the map erases an entry or decrements one.
LEMMA MapUpdates ==
  ASSUME NEW id \in ID, Stored \subseteq ID, \A i \in Stored : sentMessages[i] \in Entry,
         id \in Stored
  PROVE  /\ sentMessages' = Erase(id) =>
              /\ Stored' = Stored \ {id}
              /\ \A i \in Stored' : sentMessages'[i] = sentMessages[i]
         /\ DecrementPending(id) =>
              /\ Stored' \subseteq Stored /\ Stored \subseteq Stored' \cup {id}
              /\ id \in Stored' <=> sentMessages[id].pending # 1
              /\ \A i \in Stored' : 
                   sentMessages'[i] = IF i = id THEN [sentMessages[i] EXCEPT !.pending = @ - 1]
                                                ELSE sentMessages[i]
              /\ \A i \in Stored' : sentMessages'[i] \in Entry
  <1>1. sentMessages' = Erase(id) =>
              /\ Stored' = Stored \ {id}
              /\ \A i \in Stored' : sentMessages'[i] = sentMessages[i]
    BY DEF Erase, Restrict, Stored
  <1>2. ASSUME DecrementPending(id), sentMessages[id].pending # 1
        PROVE  /\ Stored' = Stored
               /\ sentMessages' = [sentMessages EXCEPT ![id].pending = @ - 1]
    BY <1>2 DEF DecrementPending, Stored
  <1>3. ASSUME DecrementPending(id), sentMessages[id].pending = 1
        PROVE  sentMessages' = Erase(id)
    BY <1>3 DEF DecrementPending
  <1> QED BY <1>1, <1>2, <1>3 DEF Entry, Stored

\* Reading one message (AcceptMessage and the GetMessage it calls) keeps the
\* types.
LEMMA TypeAccept ==
  ASSUME TypeOK, NEW a \in Address, AcceptMessage(a)
  PROVE  TypeOK'
  <1> DEFINE id == Head(waitingMessageIDs[a])
  <1>1. /\ id \in ID
        /\ Tail(waitingMessageIDs[a]) \in Seq(ID)
    BY HeadTail DEF TypeOK, AcceptMessage
  <1>2. /\ Stored' \subseteq ID
        /\ \A i \in Stored' : sentMessages'[i] \in Entry
    BY <1>1, MapUpdates DEF TypeOK, AcceptMessage, GetMessage, Stored
  <1>3. hand' \in [Address -> Copy \cup {NoTask}]
    <2>1. ASSUME id \in Stored
          PROVE  [id |-> id, origin |-> sentMessages[id].msg.origin] \in Copy
      BY <2>1, <1>1 DEF TypeOK, Copy, Entry, Message
    <2> QED BY <2>1 DEF TypeOK, AcceptMessage, GetMessage
  <1>4. /\ waitingMessageIDs' \in [Address -> Seq(ID)]
        /\ readUpTo' \in [Address -> 0 .. MaxMessages]
    <2>1. /\ waitingMessageIDs' = [waitingMessageIDs EXCEPT ![a] = Tail(waitingMessageIDs[a])]
          /\ readUpTo' = [readUpTo EXCEPT ![a] = id + 1]
      BY DEF AcceptMessage
    <2>2. id + 1 \in 0 .. MaxMessages
      BY MessagingAssumption, <1>1 DEF ID
    <2>3. /\ waitingMessageIDs \in [Address -> Seq(ID)]
          /\ readUpTo \in [Address -> 0 .. MaxMessages]
      BY DEF TypeOK
    <2> HIDE DEF id
    <2> QED BY <1>1, <2>1, <2>2, <2>3
  <1> QED BY <1>2, <1>3, <1>4 DEF TypeOK, AcceptMessage

\* Deciding on a task (acceptTask or refuseTask) keeps the types.
LEMMA TypeDecide ==
  ASSUME TypeOK, NEW a \in Address, acceptTask(a) \/ refuseTask(a)
  PROVE  TypeOK'
  <1> DEFINE id == hand[a].id
  <1>1. id \in ID
    <2>1. hand[a] # NoTask
      BY DEF acceptTask, refuseTask, Decide
    <2>2. hand[a] \in Copy
      BY <2>1 DEF TypeOK
    <2> QED BY <2>2 DEF Copy
  <1>2. /\ Stored' \subseteq ID
        /\ \A i \in Stored' : sentMessages'[i] \in Entry
    <2>1. \/ id \in Stored /\ sentMessages' = Erase(id)
          \/ id \in Stored /\ DecrementPending(id)
          \/ sentMessages' = sentMessages
      BY DEF acceptTask, refuseTask, FoundTask
    <2>2. CASE sentMessages' = sentMessages
      BY <2>2 DEF TypeOK, Stored
    <2>3. CASE id \in Stored /\ (sentMessages' = Erase(id) \/ DecrementPending(id))
      BY <1>1, <2>3, MapUpdates DEF TypeOK
    <2> QED BY <2>1, <2>2, <2>3
  <1>3. takes' \in [ID -> Nat]
    <2>1. takes' = [takes EXCEPT ![id] = @ + 1] \/ takes' = takes
      BY DEF acceptTask, refuseTask
    <2>2. takes \in [ID -> Nat]
      BY DEF TypeOK
    <2> QED BY <1>1, <2>1, <2>2
  <1>4. hand' \in [Address -> Copy \cup {NoTask}]
    BY DEF TypeOK, acceptTask, refuseTask, Decide
  <1> QED BY <1>2, <1>3, <1>4 DEF TypeOK, acceptTask, refuseTask, Decide
\* No step of any thread breaks the types.
LEMMA TypeNext == TypeOK /\ [Next]_vars => TypeOK'
  <1> SUFFICES ASSUME TypeOK, [Next]_vars PROVE TypeOK'
    OBVIOUS
  <1>1. ASSUME NEW a \in Address, ReceiveActiveMessenger(a) PROVE TypeOK'
    BY MessagingAssumption, <1>1 DEF TypeOK, ReceiveActiveMessenger, Stored, server
  <1>2. ASSUME NEW a \in Address, DeactivateActiveMessenger(a) PROVE TypeOK'
    BY EmptySeq, <1>2 DEF TypeOK, DeactivateActiveMessenger, Stored, server, history
  <1>3. ASSUME NEW a \in Address, unRegisterAllChannels(a) PROVE TypeOK'
    BY <1>3 DEF TypeOK, unRegisterAllChannels, Stored, server, history
  <1>4. ASSUME NEW a \in Address, NEW c \in Channel, RegisterOnChannel(a, c) PROVE TypeOK'
    BY <1>4 DEF TypeOK, RegisterOnChannel, Stored, server, history
  <1>5. ASSUME NEW msg \in Message, DistributeMessage(msg), UNCHANGED <<clients, now, history>>
        PROVE  TypeOK'
    <2>1. /\ MessageQueue' \in Seq(Message)
          /\ Len(MessageQueue') = Len(MessageQueue) + 1
      BY AppendProperties, <1>5 DEF TypeOK, DistributeMessage
    <2>2. Len(MessageQueue) \in Nat
      BY LenProperties DEF TypeOK
    <2>3. nextMessageID' + Len(MessageQueue') <= MaxMessages
      BY MessagingAssumption, <1>5, <2>1, <2>2 DEF TypeOK, DistributeMessage
    <2> QED BY <1>5, <2>1, <2>3 DEF TypeOK, DistributeMessage, Stored, clients, history
  <1>6. ASSUME NEW a \in Address, NEW c \in Channel, sendMessage(a, c) \/ SendPointer(a, c)
        PROVE  TypeOK'
    BY <1>5, <1>6 DEF sendMessage, SendPointer, Message, Origin
  <1>7. ASSUME ShutdownServer PROVE TypeOK'
    BY <1>5, <1>7 DEF ShutdownServer, Message, Origin
  <1>8. ASSUME NEW a \in Address,
               (\E timed \in Pauses : pauseForMessage(a, timed)) \/ StartWait(a)
                 \/ TimeoutWakeup(a) \/ SpuriousWakeup(a)
        PROVE  TypeOK'
    BY <1>8 DEF TypeOK, pauseForMessage, StartWait, TimeoutWakeup, SpuriousWakeup, Stored,
                server, history
  <1>9. ASSUME RuntimeWait \/ RuntimeSpuriousWakeup \/ RuntimeLock \/ RuntimeUnlock
        PROVE  TypeOK'
    BY <1>9 DEF TypeOK, RuntimeWait, RuntimeSpuriousWakeup, RuntimeLock, RuntimeUnlock, Stored,
                clients, history
  <1>10. CASE Tick
    BY MessagingAssumption, <1>10 DEF TypeOK, Tick, Stored, clients, server, history
  <1>11. CASE UNCHANGED vars
    BY <1>11 DEF TypeOK, vars, Stored, clients, server, history
  <1> QED
    BY <1>1, <1>2, <1>3, <1>4, <1>6, <1>7, <1>8, <1>9, <1>10, <1>11,
       TypeDistribute, TypeAccept, TypeDecide
    DEF Next, Runtime, Client

\* Every variable keeps its type, whatever the clients do.
THEOREM TypeCorrect == Spec => []TypeOK
  BY TypeInit, TypeNext, PTL DEF Spec
--------------------------------------------------------------------------------
(* The steps that touch messages, inboxes or hands, and the others. *)

Quiet == UNCHANGED <<Messengers, waitingMessageIDs, hand, sentMessages, nextMessageID,
                     takes, pruned, readUpTo>>

\* Only five operations touch what the later invariants speak of; all others
\* are quiet.
LEMMA StepKinds ==
  [Next]_vars => \/ Quiet
                 \/ RuntimeDistribute
                 \/ \E a \in Address : \/ ReceiveActiveMessenger(a)
                                      \/ DeactivateActiveMessenger(a)
                                       \/ AcceptMessage(a)
                                       \/ acceptTask(a)
                                       \/ refuseTask(a)
   BY DEF Next, Runtime, Client, vars, clients, server, history, Quiet,
         RegisterOnChannel, unRegisterAllChannels, DistributeMessage, sendMessage, SendPointer,
         ShutdownServer, RuntimeWait, RuntimeSpuriousWakeup, RuntimeLock, RuntimeUnlock,
         pauseForMessage, StartWait, TimeoutWakeup, SpuriousWakeup, Tick

--------------------------------------------------------------------------------
(* A task is taken once: only stored messages can be taken, and they leave the
   map in the same step. *)

TakenIsGone ==
  /\ \A i \in ID : i \in Stored \/ i >= nextMessageID => takes[i] = 0
  /\ \A i \in Stored : i < nextMessageID

TakeInv == TypeOK /\ TakenIsGone /\ TakenAtMostOnce

\* At the start no task has been taken.
LEMMA TakeInit == Init => TakeInv
  <1> SUFFICES ASSUME Init PROVE TakenIsGone /\ TakenAtMostOnce
    BY TypeInit DEF TakeInv
  <1> QED BY DEF Init, TakenIsGone, TakenAtMostOnce, Stored

\* No step lets a task be taken a second time: acceptTask erases it, and only
\* the runtime thread stores messages, under an ID never used before.
LEMMA TakeNext == TakeInv /\ [Next]_vars => TakeInv'
  <1> SUFFICES ASSUME TakeInv, [Next]_vars PROVE TakenIsGone' /\ TakenAtMostOnce'
    BY TypeNext DEF TakeInv
  <1> USE DEF TakeInv, TakenIsGone, TakenAtMostOnce
  <1>1. CASE Quiet
    BY <1>1 DEF Quiet, Stored
  <1>2. CASE RuntimeDistribute
    <2>1. /\ Stored' = (Stored \ Expired) \cup {nextMessageID}
          /\ nextMessageID' = nextMessageID + 1 /\ takes' = takes
      BY <1>2 DEF RuntimeDistribute, Stored
    <2> QED BY <2>1 DEF TypeOK
  <1>3. ASSUME NEW a \in Address, ReceiveActiveMessenger(a) \/ DeactivateActiveMessenger(a)
        PROVE  TakenIsGone' /\ TakenAtMostOnce'
    BY <1>3 DEF ReceiveActiveMessenger, DeactivateActiveMessenger, Stored, server, history
  <1>4. ASSUME NEW a \in Address, AcceptMessage(a)
        PROVE  TakenIsGone' /\ TakenAtMostOnce'
    <2>1. Head(waitingMessageIDs[a]) \in ID
      BY <1>4, HeadTail DEF AcceptMessage, TypeOK
    <2>2. Stored' \subseteq Stored
      BY <1>4, <2>1, MapUpdates DEF AcceptMessage, GetMessage, TypeOK, Stored
    <2> QED BY <1>4, <2>2 DEF AcceptMessage
  <1>5. ASSUME NEW a \in Address, acceptTask(a) \/ refuseTask(a)
        PROVE  TakenIsGone' /\ TakenAtMostOnce'
    <2> DEFINE id == hand[a].id
    <2>1. nextMessageID' = nextMessageID
      BY <1>5 DEF acceptTask, refuseTask, Decide
    <2>2. CASE sentMessages' = sentMessages /\ takes' = takes
      BY <2>1, <2>2 DEF Stored
    <2>3. CASE id \in Stored /\ DecrementPending(id) /\ takes' = takes
      <3>1. Stored' \subseteq Stored
        BY <2>3, MapUpdates DEF TypeOK
      <3> QED BY <2>1, <2>3, <3>1
    <2>4. CASE /\ id \in Stored /\ sentMessages' = Erase(id)
               /\ takes' = [takes EXCEPT ![id] = @ + 1]
      <3>1. Stored' = Stored \ {id}
        BY <2>4, MapUpdates DEF TypeOK
      <3>2. id \in ID /\ takes[id] = 0 /\ id < nextMessageID
        BY <2>4 DEF TypeOK
      <3>3. \A i \in ID : takes'[i] = IF i = id THEN 1 ELSE takes[i]
        BY <2>4, <3>2 DEF TypeOK
      <3>4. TakenIsGone'
        BY MessagingAssumption, <2>1, <3>1, <3>2, <3>3 DEF TypeOK
      <3> QED BY <3>2, <3>3, <3>4
    <2> QED BY <1>5, <2>2, <2>3, <2>4 DEF acceptTask, refuseTask, FoundTask
  <1> QED BY <1>1, <1>2, <1>3, <1>4, <1>5, StepKinds

\* A task is "locked in by a single thread": however many messengers hold a copy of
\* it, whatever dies or expires meanwhile, acceptTask returns true once at most.
THEOREM TakenOnce == Spec => []TakenAtMostOnce
  <1>1. TakeInv => TakenAtMostOnce
    BY DEF TakeInv
  <1> QED BY TakeInit, TakeNext, <1>1, PTL DEF Spec
--------------------------------------------------------------------------------
(* An inbox is increasing and above what its messenger has read. *)

\* An inbox stays increasing when a larger ID is appended.
LEMMA AppendIncreasing ==
  ASSUME NEW s \in Seq(Int), NEW low \in Int, NEW n \in Int, low <= n, Increasing(s, low, n)
  PROVE  Increasing(Append(s, n), low, n + 1)
  <1> DEFINE t == Append(s, n)
  <1>1. /\ Len(s) \in Nat /\ Len(t) = Len(s) + 1
        /\ DOMAIN s = 1 .. Len(s) /\ DOMAIN t = 1 .. Len(t)
        /\ \A i \in 1 .. Len(s) : s[i] \in Int /\ t[i] = s[i]
        /\ t[Len(s) + 1] = n
    BY AppendProperties, LenProperties, ElementOfSeq
  <1> QED BY <1>1 DEF Increasing

\* What is left of an increasing inbox is increasing and above what was read.
LEMMA TailIncreasing ==
  ASSUME NEW s \in Seq(Int), NEW low \in Int, NEW n \in Int, s # <<>>, Increasing(s, low, n)
  PROVE  /\ low <= Head(s) /\ Head(s) < n
         /\ Increasing(Tail(s), Head(s) + 1, n)
  <1> DEFINE t == Tail(s)
  <1>1. /\ Len(s) \in Nat \ {0} /\ Len(t) = Len(s) - 1
        /\ DOMAIN s = 1 .. Len(s) /\ DOMAIN t = 1 .. Len(t)
        /\ \A i \in 1 .. Len(s) : s[i] \in Int
        /\ \A i \in 1 .. Len(t) : t[i] = s[i + 1]
        /\ Head(s) = s[1]
    BY HeadTail, LenProperties, ElementOfSeq
  <1>2. 1 \in DOMAIN s /\ low <= s[1] /\ s[1] < n
    BY <1>1 DEF Increasing
  <1>3. ASSUME NEW i \in DOMAIN t
        PROVE  s[1] + 1 <= t[i] /\ t[i] < n
    <2>1. i + 1 \in DOMAIN s /\ 1 < i + 1 /\ t[i] = s[i + 1]
      BY <1>1
    <2>2. s[1] < s[i + 1] /\ s[i + 1] < n
      BY <1>2, <2>1 DEF Increasing
    <2> QED BY <1>1, <2>1, <2>2
  <1>4. ASSUME NEW i \in DOMAIN t, NEW j \in DOMAIN t, i < j
        PROVE  t[i] < t[j]
    <2>1. /\ i + 1 \in DOMAIN s /\ j + 1 \in DOMAIN s /\ i + 1 < j + 1
          /\ t[i] = s[i + 1] /\ t[j] = s[j + 1]
      BY <1>1, <1>4
    <2> QED BY <2>1 DEF Increasing
  <1> QED BY <1>1, <1>2, <1>3, <1>4 DEF Increasing

\* A copy in hand is of a message that was read, and an absent messenger has nothing.
HandBehindInbox ==
  \A a \in Address :
    /\ readUpTo[a] <= nextMessageID
    /\ hand[a] # NoTask => hand[a].id < readUpTo[a]
    /\ a \notin Messengers => hand[a] = NoTask /\ waitingMessageIDs[a] = <<>>

OrderInv == TypeOK /\ HandBehindInbox /\ InboxOrder

\* At the start every inbox is empty, so it is in order.
LEMMA OrderInit == Init => OrderInv
  <1> SUFFICES ASSUME Init PROVE HandBehindInbox /\ InboxOrder
    BY TypeInit DEF OrderInv
  <1>1. Increasing(<<>>, 0, 0)
    BY DEF Increasing
  <1>2. \A a \in Address : /\ waitingMessageIDs[a] = <<>> /\ hand[a] = NoTask /\ readUpTo[a] = 0
    BY DEF Init
  <1>3. nextMessageID = 0
    BY DEF Init
  <1> QED BY <1>1, <1>2, <1>3 DEF HandBehindInbox, InboxOrder

\* No step brings an inbox out of order: IDs are appended at the end and read
\* at the front.
LEMMA OrderNext == OrderInv /\ [Next]_vars => OrderInv'
  <1> SUFFICES ASSUME OrderInv, [Next]_vars PROVE HandBehindInbox' /\ InboxOrder'
    BY TypeNext DEF OrderInv
  <1>0. /\ waitingMessageIDs \in [Address -> Seq(Int)]
        /\ nextMessageID \in Int /\ readUpTo \in [Address -> Int]
    BY SeqMonotonic, MessagingAssumption DEF OrderInv, TypeOK
  <1>1. CASE Quiet
    BY <1>1 DEF Quiet, OrderInv, HandBehindInbox, InboxOrder
  <1>2. CASE RuntimeDistribute
    <2>1. /\ UNCHANGED <<Messengers, hand, readUpTo>>
          /\ nextMessageID' = nextMessageID + 1
      BY <1>2 DEF RuntimeDistribute
    <2>2. ASSUME NEW a \in Address
          PROVE  \/ waitingMessageIDs'[a] = waitingMessageIDs[a]
                 \/ /\ waitingMessageIDs'[a] = Append(waitingMessageIDs[a], nextMessageID)
                    /\ a \in Messengers
      BY <1>2 DEF RuntimeDistribute, AlertMessageID, Recipients
    <2>3. ASSUME NEW a \in Address
          PROVE  Increasing(waitingMessageIDs'[a], readUpTo[a], nextMessageID + 1)
      <3>1. /\ readUpTo[a] <= nextMessageID
            /\ Increasing(waitingMessageIDs[a], readUpTo[a], nextMessageID)
        BY DEF OrderInv, HandBehindInbox, InboxOrder
      <3>2. CASE waitingMessageIDs'[a] = waitingMessageIDs[a]
        <4>1. \A i \in DOMAIN waitingMessageIDs[a] : waitingMessageIDs[a][i] \in Int
          BY <1>0, ElementOfSeq, LenProperties
        <4> QED BY <1>0, <3>1, <3>2, <4>1 DEF Increasing
      <3>3. CASE waitingMessageIDs'[a] = Append(waitingMessageIDs[a], nextMessageID)
        BY <1>0, <3>1, <3>3, AppendIncreasing
      <3> QED BY <2>2, <3>2, <3>3
    <2>4. InboxOrder'
      BY <2>1, <2>3 DEF InboxOrder
    <2>5. HandBehindInbox'
      BY <1>0, <2>1, <2>2 DEF OrderInv, HandBehindInbox
    <2> QED BY <2>4, <2>5
  <1>3. ASSUME NEW a \in Address, ReceiveActiveMessenger(a)
        PROVE  HandBehindInbox' /\ InboxOrder'
    <2>1. /\ a \notin Messengers /\ Messengers' = Messengers \cup {a}
          /\ readUpTo' = [readUpTo EXCEPT ![a] = 0]
          /\ UNCHANGED <<waitingMessageIDs, hand, nextMessageID>>
      BY <1>3 DEF ReceiveActiveMessenger, server
    <2>2. /\ hand[a] = NoTask /\ waitingMessageIDs[a] = <<>> /\ nextMessageID >= 0
      BY <2>1 DEF OrderInv, HandBehindInbox, TypeOK
    <2>3. Increasing(<<>>, 0, nextMessageID)
      BY DEF Increasing
    <2>4. HandBehindInbox'
      BY <1>0, <2>1, <2>2 DEF OrderInv, HandBehindInbox
    <2>5. InboxOrder'
      BY <1>0, <2>1, <2>2, <2>3 DEF OrderInv, InboxOrder
    <2> QED BY <2>4, <2>5
  <1>4. ASSUME NEW a \in Address, DeactivateActiveMessenger(a)
        PROVE  HandBehindInbox' /\ InboxOrder'
    <2>1. /\ hand[a] = NoTask /\ Messengers' = Messengers \ {a}
          /\ waitingMessageIDs' = [waitingMessageIDs EXCEPT ![a] = <<>>]
          /\ UNCHANGED <<readUpTo, hand, nextMessageID>>
      BY <1>4 DEF DeactivateActiveMessenger, Running, server, history
    <2>2. Increasing(<<>>, readUpTo[a], nextMessageID)
      BY DEF Increasing
    <2>3. HandBehindInbox'
      BY <1>0, <2>1 DEF OrderInv, HandBehindInbox
    <2>4. InboxOrder'
      BY <1>0, <2>1, <2>2 DEF OrderInv, InboxOrder
    <2> QED BY <2>3, <2>4
  <1>5. ASSUME NEW a \in Address, AcceptMessage(a)
        PROVE  HandBehindInbox' /\ InboxOrder'
    <2> DEFINE id == Head(waitingMessageIDs[a])
    <2>1. /\ waitingMessageIDs[a] # <<>> /\ a \in Messengers
          /\ waitingMessageIDs' = [waitingMessageIDs EXCEPT ![a] = Tail(@)]
          /\ readUpTo' = [readUpTo EXCEPT ![a] = id + 1]
          /\ UNCHANGED <<Messengers, nextMessageID>>
      BY <1>5 DEF AcceptMessage, Running
    <2>2. /\ id \in Int /\ id < nextMessageID
          /\ Increasing(Tail(waitingMessageIDs[a]), id + 1, nextMessageID)
      BY <1>0, <2>1, HeadTail, TailIncreasing DEF OrderInv, InboxOrder
    <2>3. \/ hand' = hand /\ hand[a] = NoTask
          \/ \E o : hand' = [hand EXCEPT ![a] = [id |-> id, origin |-> o]]
      <3>1. hand[a] = NoTask /\ GetMessage(a, id)
        BY <1>5 DEF AcceptMessage, Running
      <3> QED BY <3>1 DEF GetMessage
    <2>4. hand \in [Address -> Copy \cup {NoTask}]
      BY DEF OrderInv, TypeOK
    <2>5. HandBehindInbox'
      <3>1. ASSUME NEW b \in Address \ {a}
            PROVE  /\ hand'[b] = hand[b] /\ readUpTo'[b] = readUpTo[b]
                   /\ waitingMessageIDs'[b] = waitingMessageIDs[b]
        BY <1>0, <2>1, <2>3, <2>4
      <3>2. readUpTo'[a] = id + 1
        BY <1>0, <2>1
      <3>3. hand'[a] = NoTask \/ hand'[a].id = id
        BY <2>3, <2>4
      <3>4. readUpTo'[a] <= nextMessageID /\ (hand'[a] # NoTask => hand'[a].id < readUpTo'[a])
        BY <1>0, <2>2, <3>2, <3>3
      <3> QED BY <2>1, <3>1, <3>4 DEF OrderInv, HandBehindInbox
    <2>6. InboxOrder'
      BY <1>0, <2>1, <2>2 DEF OrderInv, InboxOrder
    <2> QED BY <2>5, <2>6
  <1>6. ASSUME NEW a \in Address, acceptTask(a) \/ refuseTask(a)
        PROVE  HandBehindInbox' /\ InboxOrder'
    <2>1. /\ hand' = [hand EXCEPT ![a] = NoTask]
          /\ UNCHANGED <<Messengers, waitingMessageIDs, nextMessageID, readUpTo>>
      BY <1>6 DEF acceptTask, refuseTask, Decide
    <2>2. hand \in [Address -> Copy \cup {NoTask}]
      BY DEF OrderInv, TypeOK
    <2> QED BY <2>1, <2>2 DEF OrderInv, HandBehindInbox, InboxOrder
  <1> QED BY <1>1, <1>2, <1>3, <1>4, <1>5, <1>6, StepKinds

\* Every messenger reads in the order of distribution and reads nothing twice.
THEOREM ReadsInOrder == Spec => []InboxOrder
  <1>1. OrderInv => InboxOrder
    BY DEF OrderInv
  <1> QED BY OrderInit, OrderNext, <1>1, PTL DEF Spec
--------------------------------------------------------------------------------
(* What each kind of step does to the debts of the messengers. *)

\* What is in a sequence when something is appended to it.
LEMMA RangeAppend ==
  ASSUME NEW S, NEW s \in Seq(S), NEW e \in S
  PROVE  Range(Append(s, e)) = Range(s) \cup {e}
  BY AppendProperties, LenProperties DEF Range

\* Reading the first message takes no other one out of the inbox.
LEMMA RangeTail ==
  ASSUME NEW S, NEW s \in Seq(S), s # <<>>
  PROVE  Range(s) = {Head(s)} \cup Range(Tail(s))
  <1>1. /\ Len(s) \in Nat \ {0} /\ Len(Tail(s)) = Len(s) - 1
        /\ DOMAIN s = 1 .. Len(s) /\ DOMAIN Tail(s) = 1 .. Len(Tail(s))
        /\ Head(s) = s[1]
        /\ \A i \in 1 .. Len(s) - 1 : Tail(s)[i] = s[i + 1]
    BY HeadTail, LenProperties
  <1>2. \A i \in 1 .. Len(s) : i = 1 \/ (i - 1 \in DOMAIN Tail(s) /\ s[i] = Tail(s)[i - 1])
    BY <1>1
  <1>3. \A i \in DOMAIN Tail(s) : i + 1 \in DOMAIN s /\ Tail(s)[i] = s[i + 1]
    BY <1>1
  <1>4. 1 \in DOMAIN s
    BY <1>1
  <1>5. ASSUME NEW e \in Range(s) PROVE e \in {Head(s)} \cup Range(Tail(s))
    <2>1. PICK i \in 1 .. Len(s) : e = s[i]
      BY <1>1 DEF Range
    <2> QED BY <1>1, <1>2, <2>1 DEF Range
  <1>6. ASSUME NEW e \in Range(Tail(s)) PROVE e \in Range(s)
    <2>1. PICK i \in DOMAIN Tail(s) : e = Tail(s)[i]
      BY DEF Range
    <2> QED BY <1>3, <2>1 DEF Range
  <1>7. Head(s) \in Range(s)
    BY <1>1, <1>4 DEF Range
  <1> QED BY <1>5, <1>6, <1>7

\* The IDs in an inbox lie between what was read and what was distributed.
LEMMA InboxBounds ==
  ASSUME OrderInv, NEW a \in Address, NEW i \in InboxSet(a)
  PROVE  readUpTo[a] <= i /\ i < nextMessageID
  BY DEF OrderInv, InboxOrder, Increasing, InboxSet, Range

\* A messenger owes no message that is not distributed yet.
LEMMA OwesBelowNext ==
  ASSUME OrderInv, NEW a \in Address, NEW i, Owes(a, i)
  PROVE  i < nextMessageID
  <1>1. CASE i \in InboxSet(a)
    BY <1>1, InboxBounds
  <1>2. CASE hand[a] # NoTask /\ hand[a].id = i
    <2>1. i \in Int /\ i < readUpTo[a] /\ readUpTo[a] <= nextMessageID
      BY <1>2 DEF OrderInv, HandBehindInbox, TypeOK, Copy
    <2>2. readUpTo[a] \in Int /\ nextMessageID \in Int
      BY MessagingAssumption DEF OrderInv, TypeOK
    <2> QED BY <2>1, <2>2
  <1> QED BY <1>1, <1>2 DEF Owes

\* A quiet step changes no debt.
LEMMA OwesQuiet ==
  ASSUME Quiet, NEW b \in Address, NEW i
  PROVE  Owes(b, i)' <=> Owes(b, i)
  BY DEF Quiet, Owes, InboxSet, Range

\* A new messenger has no debts, even at an address used before.
LEMMA OwesReceive ==
  ASSUME OrderInv, NEW a \in Address, ReceiveActiveMessenger(a), NEW b \in Address, NEW i
  PROVE  Owes(b, i)' <=> Owes(b, i)
  <1>1. /\ a \notin Messengers /\ Messengers' = Messengers \cup {a}
        /\ UNCHANGED <<waitingMessageIDs, hand>>
    BY DEF ReceiveActiveMessenger
  <1>2. hand[a] = NoTask /\ InboxSet(a) = {}
    BY <1>1 DEF OrderInv, HandBehindInbox, InboxSet, Range
  <1> QED BY <1>1, <1>2 DEF Owes, InboxSet

\* Deleting a messenger makes no debts.
LEMMA OwesDeactivate ==
  ASSUME OrderInv, NEW a \in Address, DeactivateActiveMessenger(a), NEW b \in Address, NEW i
  PROVE  Owes(b, i)' => Owes(b, i)
  BY DEF DeactivateActiveMessenger, Owes, InboxSet, Range, OrderInv, TypeOK

\* Distributing a message makes debts only for its recipients, and only for
\* that message.
LEMMA OwesDistribute ==
  ASSUME OrderInv, RuntimeDistribute, NEW b \in Address, NEW i \in ID
  PROVE  IF i = nextMessageID THEN Owes(b, i)' => b \in Recipients(Head(MessageQueue))
                              ELSE Owes(b, i)' <=> Owes(b, i)
  <1> DEFINE to == Recipients(Head(MessageQueue))
  <1>1. /\ nextMessageID \in ID
        /\ waitingMessageIDs[b] \in Seq(ID)
    BY HeadTail, LenProperties, MessagingAssumption DEF RuntimeDistribute, OrderInv, TypeOK
  <1>2. /\ UNCHANGED <<Messengers, hand>>
        /\ waitingMessageIDs'[b] = IF b \in to THEN Append(waitingMessageIDs[b], nextMessageID)
                                               ELSE waitingMessageIDs[b]
    BY DEF RuntimeDistribute, AlertMessageID
  <1>3. InboxSet(b)' = IF b \in to THEN InboxSet(b) \cup {nextMessageID} ELSE InboxSet(b)
    <2>1. InboxSet(b)' = Range(waitingMessageIDs'[b])
      BY DEF InboxSet
    <2>2. Range(Append(waitingMessageIDs[b], nextMessageID)) = InboxSet(b) \cup {nextMessageID}
      <3> DEFINE IDs == ID
      <3>1. nextMessageID \in IDs /\ waitingMessageIDs[b] \in Seq(IDs)
        BY <1>1
      <3> HIDE DEF IDs
      <3>2. Range(Append(waitingMessageIDs[b], nextMessageID))
              = Range(waitingMessageIDs[b]) \cup {nextMessageID}
        BY <3>1, RangeAppend
      <3> QED BY <3>2 DEF InboxSet
    <2> QED BY <1>2, <2>1, <2>2 DEF InboxSet
  <1>4. ~Owes(b, nextMessageID)
    BY <1>1, OwesBelowNext
  <1>5. CASE i = nextMessageID
    BY <1>2, <1>3, <1>4, <1>5 DEF Owes
  <1>6. CASE i # nextMessageID
    BY <1>2, <1>3, <1>6 DEF Owes
  <1> QED BY <1>5, <1>6

\* AcceptMessage changes the map only when the reader then no longer owes the
\* message.
LEMMA OwesAccept ==
  ASSUME OrderInv, NEW a \in Address, AcceptMessage(a),
         NEW id, id = Head(waitingMessageIDs[a])
  PROVE  /\ Owes(a, id)
         /\ sentMessages' = sentMessages \/ (id \in Stored /\ DecrementPending(id) /\ ~Owes(a, id)')
         /\ \A b \in Address, i \in ID : Owes(b, i)' => Owes(b, i)
  <1> DEFINE rest == Tail(waitingMessageIDs[a])
  <1>1. /\ a \in Messengers /\ hand[a] = NoTask
        /\ waitingMessageIDs[a] \in Seq(ID) /\ waitingMessageIDs[a] # <<>>
        /\ Messengers' = Messengers
        /\ waitingMessageIDs' = [waitingMessageIDs EXCEPT ![a] = rest]
        /\ readUpTo'[a] = id + 1
        /\ waitingMessageIDs \in [Address -> Seq(ID)]
        /\ hand \in [Address -> Copy \cup {NoTask}]
    BY DEF AcceptMessage, Running, OrderInv, TypeOK
  <1>2. /\ InboxSet(a) = {id} \cup Range(rest)
        /\ InboxSet(a)' = Range(rest)
        /\ \A b \in Address \ {a} : InboxSet(b)' = InboxSet(b)
    BY <1>1, RangeTail DEF InboxSet
  <1>3. id \notin Range(rest)
    <2>1. id \in Int /\ waitingMessageIDs[a] \in Seq(Int) /\ nextMessageID \in Int /\ readUpTo[a] \in Int
      BY <1>1, HeadTail, SeqMonotonic, MessagingAssumption DEF OrderInv, TypeOK
    <2>2. Increasing(rest, id + 1, nextMessageID)
      BY <1>1, <2>1, TailIncreasing DEF OrderInv, InboxOrder
    <2> QED BY <2>1, <2>2 DEF Increasing, Range
  <1>4. \/ hand' = hand /\ (sentMessages' = sentMessages \/ (id \in Stored /\ DecrementPending(id)))
        \/ sentMessages' = sentMessages /\ \E o : hand' = [hand EXCEPT ![a] = [id |-> id, origin |-> o]]
    <2>1. GetMessage(a, id)
      BY DEF AcceptMessage
    <2> QED BY <2>1 DEF GetMessage
  <1>5. Owes(a, id)
    BY <1>1, <1>2 DEF Owes
  <1>6. sentMessages' = sentMessages \/ (id \in Stored /\ DecrementPending(id) /\ ~Owes(a, id)')
    BY <1>1, <1>2, <1>3, <1>4 DEF Owes
  <1>7. ASSUME NEW b \in Address, NEW i \in ID, Owes(b, i)'
        PROVE  Owes(b, i)
    <2>1. CASE b = a
      BY <1>1, <1>2, <1>4, <1>5, <1>7, <2>1 DEF Owes
    <2>2. CASE b # a
      <3>1. hand'[b] = hand[b] /\ InboxSet(b)' = InboxSet(b)
        BY <1>1, <1>2, <1>4, <2>2
      <3> QED BY <1>1, <1>7, <3>1 DEF Owes
    <2> QED BY <2>1, <2>2
  <1> QED BY <1>5, <1>6, <1>7

\* acceptTask and refuseTask settle the debt of the thread that calls them.
LEMMA OwesDecide ==
  ASSUME OrderInv, NEW a \in Address, acceptTask(a) \/ refuseTask(a),
         NEW id, id = hand[a].id
  PROVE  /\ Owes(a, id)
         /\ ~Owes(a, id)'
         /\ \A b \in Address, i \in ID : Owes(b, i)' => Owes(b, i)
  <1>1. /\ hand[a] # NoTask /\ a \in Messengers
        /\ hand' = [hand EXCEPT ![a] = NoTask]
        /\ UNCHANGED <<Messengers, waitingMessageIDs>>
        /\ hand \in [Address -> Copy \cup {NoTask}]
    BY DEF acceptTask, refuseTask, Decide, OrderInv, TypeOK
  <1>2. id \notin InboxSet(a)
    <2>1. /\ id \in Int /\ id < readUpTo[a] /\ readUpTo[a] \in Int
      BY <1>1, MessagingAssumption DEF OrderInv, HandBehindInbox, TypeOK, Copy
    <2> QED BY <2>1, InboxBounds
  <1>3. \A b \in Address : InboxSet(b)' = InboxSet(b)
    BY <1>1 DEF InboxSet
  <1>4. Owes(a, id) /\ ~Owes(a, id)'
    BY <1>1, <1>2, <1>3 DEF Owes
  <1>5. ASSUME NEW b \in Address, NEW i \in ID, Owes(b, i)' PROVE Owes(b, i)
    BY <1>1, <1>3, <1>5 DEF Owes
  <1> QED BY <1>4, <1>5
--------------------------------------------------------------------------------
(* The Pending counts. *)

\* When nobody owes more than before, no more owe.
LEMMA FewerReaders ==
  ASSUME NEW i, \A b \in Address : Owes(b, i)' => Owes(b, i)
  PROVE  /\ Cardinality(Readers(i)) \in Nat /\ Cardinality(Readers(i)') \in Nat
         /\ Cardinality(Readers(i)') <= Cardinality(Readers(i))
         /\ \A a \in Address : Owes(a, i) /\ ~Owes(a, i)' =>
              /\ Cardinality(Readers(i)') < Cardinality(Readers(i))
              /\ Cardinality(Readers(i)) = 1 => Readers(i)' = {}
  <1>1. Readers(i) \subseteq Address /\ Readers(i)' \subseteq Readers(i)
    BY DEF Readers
  <1>2. IsFiniteSet(Readers(i)) /\ IsFiniteSet(Readers(i)')
    BY <1>1, FS_Subset, MessagingAssumption
  <1>3. /\ Cardinality(Readers(i)) \in Nat /\ Cardinality(Readers(i)') \in Nat
        /\ Cardinality(Readers(i)') <= Cardinality(Readers(i))
    BY <1>1, <1>2, FS_Subset, FS_CardinalityType
  <1>4. ASSUME NEW a \in Address, Owes(a, i), ~Owes(a, i)'
        PROVE  /\ Cardinality(Readers(i)') < Cardinality(Readers(i))
               /\ Cardinality(Readers(i)) = 1 => Readers(i)' = {}
    <2>1. Readers(i) # Readers(i)'
      BY <1>4 DEF Readers
    <2>2. Cardinality(Readers(i)) # Cardinality(Readers(i)')
      BY <1>1, <1>2, <2>1, FS_Subset
    <2>3. Cardinality(Readers(i)') = 0 => Readers(i)' = {}
      BY <1>2, FS_EmptySet
    <2> QED BY <1>3, <2>2, <2>3
  <1> QED BY <1>3, <1>4

ReaderInv == OrderInv /\ PendingCoversReaders /\ NoReaderLeftBehind

\* A Pending count that goes down by one for one settled debt still covers the
\* readers.
LEMMA DecrementKeepsReaders ==
  ASSUME ReaderInv, NEW id \in ID, id \in Stored, DecrementPending(id),
         NEW a \in Address, Owes(a, id), ~Owes(a, id)',
         \A b \in Address, i \in ID : Owes(b, i)' => Owes(b, i),
         UNCHANGED <<takes, pruned>>
  PROVE  PendingCoversReaders' /\ NoReaderLeftBehind'
  <1>1. /\ Stored' \subseteq Stored /\ Stored \subseteq Stored' \cup {id}
        /\ id \in Stored' <=> sentMessages[id].pending # 1
        /\ \A i \in Stored' : 
             sentMessages'[i] = IF i = id THEN [sentMessages[i] EXCEPT !.pending = @ - 1]
                                          ELSE sentMessages[i]
    BY MapUpdates DEF ReaderInv, OrderInv, TypeOK
  <1>2. \A i \in Stored : i \in ID /\ sentMessages[i] \in Entry
    BY DEF ReaderInv, OrderInv, TypeOK
  <1>3. \A i \in Stored : sentMessages[i].pending \in Int
    BY <1>2 DEF Entry
  <1>4. ASSUME NEW i \in Stored'
        PROVE  Cardinality(Readers(i)') <= sentMessages'[i].pending
    <2>1. i \in ID /\ Cardinality(Readers(i)) <= sentMessages[i].pending
      BY <1>1, <1>2 DEF ReaderInv, PendingCoversReaders
    <2>2. CASE i = id
      <3>1. sentMessages'[i].pending = sentMessages[i].pending - 1
        BY <1>1, <1>2, <2>2 DEF Entry
      <3>2. Cardinality(Readers(i)') < Cardinality(Readers(i))
        BY <2>1, <2>2, FewerReaders
      <3> QED BY <1>1, <1>3, <2>1, <2>2, <3>1, <3>2, FewerReaders
    <2>3. CASE i # id
      <3>1. sentMessages'[i] = sentMessages[i] /\ sentMessages[i].pending \in Int
        BY <1>1, <1>3, <2>3
      <3> QED BY <2>1, <3>1, FewerReaders
    <2> QED BY <2>2, <2>3
  <1>5. ASSUME NEW b \in Address, NEW i \in ID, Owes(b, i)'
        PROVE  i \in Stored' \cup pruned' \/ takes'[i] > 0
    <2>1. i \in Stored \cup pruned \/ takes[i] > 0
      BY <1>5 DEF ReaderInv, NoReaderLeftBehind
    <2>2. ASSUME i = id, sentMessages[id].pending = 1 PROVE FALSE
      <3>1. Cardinality(Readers(id)) <= 1
        BY <2>2 DEF ReaderInv, PendingCoversReaders
      <3>2. Cardinality(Readers(id)) # 0
        BY <3>1, FewerReaders
      <3>3. Readers(id)' = {}
        BY <3>1, <3>2, FewerReaders
      <3> QED BY <1>5, <2>2, <3>3 DEF Readers
    <2> QED BY <1>1, <2>1, <2>2
  <1>6. PendingCoversReaders'
    BY <1>4 DEF PendingCoversReaders
  <1>7. NoReaderLeftBehind'
    BY <1>5 DEF NoReaderLeftBehind
  <1> QED BY <1>6, <1>7

\* While the map stays the same and no debt is made the counts cover the
\* readers.
LEMMA SameMapKeepsReaders ==
  ASSUME ReaderInv, sentMessages' = sentMessages,
         \A b \in Address, i \in ID : Owes(b, i)' => Owes(b, i),
         UNCHANGED <<takes, pruned>>
  PROVE  PendingCoversReaders' /\ NoReaderLeftBehind'
  <1>1. Stored' = Stored
    BY DEF Stored
  <1>2. ASSUME NEW i \in Stored
        PROVE  Cardinality(Readers(i)') <= sentMessages[i].pending
    <2>1. i \in ID /\ sentMessages[i].pending \in Int
      BY DEF ReaderInv, OrderInv, TypeOK, Entry
    <2>2. Cardinality(Readers(i)) <= sentMessages[i].pending
      BY DEF ReaderInv, PendingCoversReaders
    <2> QED BY <2>1, <2>2, FewerReaders
  <1>3. PendingCoversReaders'
    BY <1>1, <1>2 DEF PendingCoversReaders
  <1>4. NoReaderLeftBehind'
    BY <1>1 DEF ReaderInv, NoReaderLeftBehind
  <1> QED BY <1>3, <1>4

\* At the start the map is empty and nobody owes anything.
LEMMA ReaderInit == Init => ReaderInv
  <1> SUFFICES ASSUME Init PROVE PendingCoversReaders /\ NoReaderLeftBehind
    BY OrderInit DEF ReaderInv
  <1> QED BY DEF Init, PendingCoversReaders, NoReaderLeftBehind, Stored, Owes

\* A distributed message starts with a count of its recipients (the loop of
\* MessengerServerRuntime).
LEMMA DistributeKeepsReaders ==
  ASSUME ReaderInv, RuntimeDistribute
  PROVE  PendingCoversReaders' /\ NoReaderLeftBehind'
  <1> DEFINE to == Recipients(Head(MessageQueue))
  <1>1. /\ Stored' = (Stored \ Expired) \cup {nextMessageID}
        /\ sentMessages'[nextMessageID].pending = Cardinality(to)
        /\ \A i \in Stored' \ {nextMessageID} : sentMessages'[i] = sentMessages[i]
        /\ pruned' = pruned \cup Expired
        /\ takes' = takes
    BY DEF RuntimeDistribute, Stored
  <1>2. to \subseteq Address /\ OrderInv
    BY DEF Recipients, ReaderInv, OrderInv, TypeOK
  <1>3. nextMessageID \in ID /\ Stored \subseteq ID
    BY LenProperties, EmptySeq, MessagingAssumption DEF RuntimeDistribute, ReaderInv, OrderInv, TypeOK
  <1>4. ASSUME NEW i \in Stored'
        PROVE  Cardinality(Readers(i)') <= sentMessages'[i].pending
    <2>1. CASE i = nextMessageID
      <3>1. Readers(i)' \subseteq to
        BY <1>2, <1>3, <2>1, OwesDistribute DEF Readers
      <3>2. IsFiniteSet(to)
        BY <1>2, FS_Subset, MessagingAssumption
      <3> QED BY <1>1, <2>1, <3>1, <3>2, FS_Subset
    <2>2. CASE i # nextMessageID
      <3>1. i \in Stored /\ i \in ID /\ sentMessages'[i] = sentMessages[i]
        BY <1>1, <1>3, <2>2
      <3>2. Readers(i)' = Readers(i)
        BY <1>2, <2>2, <3>1, OwesDistribute DEF Readers
      <3> QED BY <3>1, <3>2 DEF ReaderInv, PendingCoversReaders
    <2> QED BY <2>1, <2>2
  <1>5. ASSUME NEW b \in Address, NEW i \in ID, Owes(b, i)'
        PROVE  i \in Stored' \cup pruned' \/ takes'[i] > 0
    <2>1. CASE i = nextMessageID
      BY <1>1, <2>1
    <2>2. CASE i # nextMessageID
      <3>1. Owes(b, i)
        BY <1>2, <1>5, <2>2, OwesDistribute
      <3>2. i \in Stored \cup pruned \/ takes[i] > 0
        BY <3>1 DEF ReaderInv, NoReaderLeftBehind
      <3> QED BY <1>1, <3>2
    <2> QED BY <2>1, <2>2
  <1>6. PendingCoversReaders'
    BY <1>4 DEF PendingCoversReaders
  <1>7. NoReaderLeftBehind'
    BY <1>5 DEF NoReaderLeftBehind
  <1> QED BY <1>6, <1>7

\* Reading a message keeps the counts above the readers.
LEMMA AcceptKeepsReaders ==
  ASSUME ReaderInv, NEW a \in Address, AcceptMessage(a)
  PROVE  PendingCoversReaders' /\ NoReaderLeftBehind'
  <1>1. PICK id : id = Head(waitingMessageIDs[a])
    OBVIOUS
  <1>2. OrderInv /\ id \in ID /\ UNCHANGED <<takes, pruned>>
    BY <1>1, HeadTail DEF AcceptMessage, ReaderInv, OrderInv, TypeOK
  <1>3. /\ Owes(a, id)
        /\ sentMessages' = sentMessages \/ (id \in Stored /\ DecrementPending(id) /\ ~Owes(a, id)')
        /\ \A b \in Address, i \in ID : Owes(b, i)' => Owes(b, i)
    BY <1>1, <1>2, OwesAccept
  <1>4. CASE sentMessages' = sentMessages
    BY <1>2, <1>3, <1>4, SameMapKeepsReaders
  <1>5. CASE id \in Stored /\ DecrementPending(id) /\ ~Owes(a, id)'
    BY <1>2, <1>3, <1>5, DecrementKeepsReaders
  <1> QED BY <1>3, <1>4, <1>5

\* Accepting or refusing a task keeps the counts above the readers.
LEMMA DecideKeepsReaders ==
  ASSUME ReaderInv, TakeInv, NEW a \in Address, acceptTask(a) \/ refuseTask(a)
  PROVE  PendingCoversReaders' /\ NoReaderLeftBehind'
  <1>1. PICK id : id = hand[a].id
    OBVIOUS
  <1>2. OrderInv /\ pruned' = pruned
    BY DEF acceptTask, refuseTask, Decide, ReaderInv
  <1>3. /\ Owes(a, id) /\ ~Owes(a, id)'
        /\ \A b \in Address, i \in ID : Owes(b, i)' => Owes(b, i)
    BY <1>1, <1>2, OwesDecide
  <1>4. CASE sentMessages' = sentMessages /\ takes' = takes
    BY <1>2, <1>3, <1>4, SameMapKeepsReaders
  <1>5. CASE id \in Stored /\ DecrementPending(id) /\ takes' = takes
    <2>1. id \in ID
      BY <1>5 DEF TakeInv, TypeOK
    <2> QED BY <1>2, <1>3, <1>5, <2>1, DecrementKeepsReaders
  <1>6. CASE /\ id \in Stored /\ sentMessages' = Erase(id)
             /\ takes' = [takes EXCEPT ![id] = @ + 1]
    <2>1. /\ id \in ID /\ Stored' = Stored \ {id} /\ Stored \subseteq ID
          /\ \A i \in Stored' : sentMessages'[i] = sentMessages[i]
      BY <1>6, MapUpdates DEF TakeInv, TypeOK
    <2>2. /\ takes'[id] > 0
          /\ \A i \in ID \ {id} : takes'[i] = takes[i]
      BY <1>6, <2>1 DEF TakeInv, TypeOK
    <2>3. ASSUME NEW i \in Stored'
          PROVE  Cardinality(Readers(i)') <= sentMessages'[i].pending
      <3>1. i \in ID /\ sentMessages'[i] = sentMessages[i] /\ sentMessages[i].pending \in Int
        BY <2>1 DEF TakeInv, TypeOK, Entry
      <3>2. Cardinality(Readers(i)) <= sentMessages[i].pending
        BY <2>1 DEF ReaderInv, PendingCoversReaders
      <3> QED BY <1>3, <3>1, <3>2, FewerReaders
    <2>4. PendingCoversReaders'
      BY <2>3 DEF PendingCoversReaders
    <2>5. NoReaderLeftBehind'
      BY <1>2, <1>3, <2>1, <2>2 DEF ReaderInv, NoReaderLeftBehind
    <2> QED BY <2>4, <2>5
  <1> QED BY <1>1, <1>4, <1>5, <1>6 DEF acceptTask, refuseTask, FoundTask

\* No step leaves a reader behind.
LEMMA ReaderNext == ReaderInv /\ TakeInv /\ [Next]_vars => ReaderInv'
  <1> SUFFICES ASSUME ReaderInv, TakeInv, [Next]_vars
               PROVE  PendingCoversReaders' /\ NoReaderLeftBehind'
    BY OrderNext DEF ReaderInv
  <1>1. CASE Quiet
    BY <1>1, OwesQuiet, SameMapKeepsReaders DEF Quiet
  <1>2. ASSUME NEW a \in Address, ReceiveActiveMessenger(a)
        PROVE  PendingCoversReaders' /\ NoReaderLeftBehind'
    BY <1>2, OwesReceive, SameMapKeepsReaders DEF ReceiveActiveMessenger, server, ReaderInv
  <1>3. ASSUME NEW a \in Address, DeactivateActiveMessenger(a)
        PROVE  PendingCoversReaders' /\ NoReaderLeftBehind'
    BY <1>3, OwesDeactivate, SameMapKeepsReaders
    DEF DeactivateActiveMessenger, server, history, ReaderInv
  <1> QED
    BY <1>1, <1>2, <1>3, StepKinds, DistributeKeepsReaders, AcceptKeepsReaders, DecideKeepsReaders

\* The unsigned Pending counter of a message never falls below the number of living
\* messengers that have still to read it or to decide on it.
THEOREM PendingCovers == Spec => []PendingCoversReaders
  <1>1. ReaderInv => PendingCoversReaders
    BY DEF ReaderInv
  <1> QED BY TakeInit, TakeNext, ReaderInit, ReaderNext, <1>1, PTL DEF Spec

\* A message that disappears under a reader has expired or was taken as a task.
THEOREM NobodyLeftBehind == Spec => []NoReaderLeftBehind
  <1>1. ReaderInv => NoReaderLeftBehind
    BY DEF ReaderInv
  <1> QED BY TakeInit, TakeNext, ReaderInit, ReaderNext, <1>1, PTL DEF Spec

--------------------------------------------------------------------------------
(* Messaging implements MessageBoard: the queue, the map, the Pending counters and the *)
(* inboxes together show their clients nothing but the life of messages on a board.    *)

\* The stage of a message, read off the state of the server.
Stage ==
  \A i \in ID :
    /\ statusOf(i) = "unsent"  <=> ~Sent(i)
    /\ statusOf(i) = "queued"  <=> Sent(i) /\ i >= nextMessageID
    /\ statusOf(i) = "open"    <=> Sent(i) /\ i < nextMessageID /\ i \in Stored
    /\ statusOf(i) = "taken"   <=> Sent(i) /\ i < nextMessageID /\ i \notin Stored /\ takes[i] > 0
    /\ statusOf(i) = "expired" <=>
         Sent(i) /\ i < nextMessageID /\ i \notin Stored /\ ~(takes[i] > 0) /\ i \in pruned
    /\ statusOf(i) = "read"    <=>
         Sent(i) /\ i < nextMessageID /\ i \notin Stored /\ ~(takes[i] > 0) /\ i \notin pruned

\* The cases of statusOf exclude each other.
LEMMA Stages == TypeOK => Stage
  <1> SUFFICES ASSUME TypeOK, NEW i \in ID
               PROVE  /\ statusOf(i) = "unsent"  <=> ~Sent(i)
                      /\ statusOf(i) = "queued"  <=> Sent(i) /\ i >= nextMessageID
                      /\ statusOf(i) = "open"    <=> Sent(i) /\ i < nextMessageID /\ i \in Stored
                      /\ statusOf(i) = "taken"   <=>
                           Sent(i) /\ i < nextMessageID /\ i \notin Stored /\ takes[i] > 0
                      /\ statusOf(i) = "expired" <=>
                           /\ Sent(i) /\ i < nextMessageID /\ i \notin Stored
                           /\ ~(takes[i] > 0) /\ i \in pruned
                      /\ statusOf(i) = "read"    <=>
                           /\ Sent(i) /\ i < nextMessageID /\ i \notin Stored
                           /\ ~(takes[i] > 0) /\ i \notin pruned
    BY DEF Stage
  <1>1. i \in Int /\ nextMessageID \in Int /\ Len(MessageQueue) \in Nat /\ takes[i] \in Nat
    <2>1. /\ MessageQueue \in Seq(Message) /\ takes \in [ID -> Nat]
          /\ nextMessageID \in 0 .. MaxMessages /\ MaxMessages \in Nat
      BY MessagingAssumption DEF TypeOK
    <2> QED BY <2>1, LenProperties
  <1> DEFINE sent  == i < nextMessageID + Len(MessageQueue)
             given == i < nextMessageID
             kept  == i \in Stored
             took  == takes[i] > 0
  <1>2. /\ i >= nextMessageID + Len(MessageQueue) <=> ~sent
        /\ i >= nextMessageID <=> ~given
        /\ given => sent
        /\ takes[i] = 0 <=> ~took
    BY <1>1
  <1>3. statusOf(i) = CASE ~sent -> "unsent"
                        [] ~given /\ sent -> "queued"
                        [] given /\ kept -> "open"
                        [] given /\ ~kept /\ took -> "taken"
                        [] given /\ ~kept /\ ~took /\ i \in pruned -> "expired"
                        [] OTHER -> "read"
    BY <1>2 DEF statusOf
  <1> HIDE DEF sent, given, kept, took
  <1>4. /\ ~sent => statusOf(i) = "unsent"
        /\ sent /\ ~given => statusOf(i) = "queued"
        /\ given /\ kept => statusOf(i) = "open"
        /\ given /\ ~kept /\ took => statusOf(i) = "taken"
        /\ given /\ ~kept /\ ~took /\ i \in pruned => statusOf(i) = "expired"
        /\ given /\ ~kept /\ ~took /\ i \notin pruned => statusOf(i) = "read"
    BY <1>2, <1>3
  <1> QED BY <1>2, <1>4 DEF Sent, sent, given, kept, took

\* The stages after a step.
LEMMA StagesAfter == TypeOK' => Stage'
  BY Stages, PTL

\* A message whose place, store and history are the same is at the same stage.
LEMMA SameStage ==
  ASSUME TypeOK, TypeOK', NEW i \in ID,
         Sent(i)' <=> Sent(i),
         i < nextMessageID' <=> i < nextMessageID,
         i \in Stored' <=> i \in Stored,
         takes'[i] > 0 <=> takes[i] > 0,
         i \in pruned' <=> i \in pruned
  PROVE  statusOf(i)' = statusOf(i)
  <1>1. Stage /\ Stage'
    BY Stages, StagesAfter
  <1>2. /\ i >= nextMessageID <=> ~(i < nextMessageID)
        /\ i >= nextMessageID' <=> ~(i < nextMessageID')
        /\ i < nextMessageID => Sent(i)
    <2>1. /\ i \in Int /\ MessageQueue \in Seq(Message) /\ MaxMessages \in Nat
          /\ nextMessageID \in 0 .. MaxMessages /\ nextMessageID' \in 0 .. MaxMessages
      BY MessagingAssumption DEF TypeOK, ID
    <2> QED BY <2>1, LenProperties DEF Sent
  <1> DEFINE sent == Sent(i)
             given == i < nextMessageID
             kept == i \in Stored
             took == takes[i] > 0
             old  == i \in pruned
  <1>3. /\ statusOf(i) = "unsent"  <=> ~sent
        /\ statusOf(i) = "queued"  <=> sent /\ ~given
        /\ statusOf(i) = "open"    <=> sent /\ given /\ kept
        /\ statusOf(i) = "taken"   <=> sent /\ given /\ ~kept /\ took
        /\ statusOf(i) = "expired" <=> sent /\ given /\ ~kept /\ ~took /\ old
        /\ statusOf(i) = "read"    <=> sent /\ given /\ ~kept /\ ~took /\ ~old
    BY <1>1, <1>2, Zenon DEF Stage
  <1>4. /\ statusOf(i)' = "unsent"  <=> ~sent
        /\ statusOf(i)' = "queued"  <=> sent /\ ~given
        /\ statusOf(i)' = "open"    <=> sent /\ given /\ kept
        /\ statusOf(i)' = "taken"   <=> sent /\ given /\ ~kept /\ took
        /\ statusOf(i)' = "expired" <=> sent /\ given /\ ~kept /\ ~took /\ old
        /\ statusOf(i)' = "read"    <=> sent /\ given /\ ~kept /\ ~took /\ ~old
    BY <1>1, <1>2, Zenon DEF Stage
  <1> HIDE DEF sent, given, kept, took, old
  <1>5. \/ ~sent
        \/ sent /\ ~given
        \/ sent /\ given /\ kept
        \/ sent /\ given /\ ~kept /\ took
        \/ sent /\ given /\ ~kept /\ ~took /\ old
        \/ sent /\ given /\ ~kept /\ ~took /\ ~old
    OBVIOUS
  <1> QED BY <1>3, <1>4, <1>5

\* Nobody's debts for a message change: it has the same readers.
LEMMA SameReaders ==
  ASSUME NEW i, \A b \in Address : Owes(b, i)' <=> Owes(b, i)
  PROVE  Readers(i)' = Readers(i)
  BY DEF Readers

--------------------------------------------------------------------------------
(* The steps of the board, message by message *)

\* A step that posts a message.
LEMMA PostStep ==
  ASSUME NEW k \in ID, statusOf(k) = "unsent",
         \A j \in ID : j < k => statusOf(j) # "unsent",
         \A i \in ID : statusOf(i)' = IF i = k THEN "queued" ELSE statusOf(i),
         \A i \in ID : Readers(i)' = Readers(i)
  PROVE  Board!Post(k)
  <1>1. [i \in ID |-> statusOf(i)]' = [[i \in ID |-> statusOf(i)] EXCEPT ![k] = "queued"]
    OBVIOUS
  <1>2. [i \in ID |-> Readers(i)]' = [i \in ID |-> Readers(i)]
    OBVIOUS
  <1>3. \A j \in ID : j < k => [i \in ID |-> statusOf(i)][j] # "unsent"
    OBVIOUS
  <1>4. [i \in ID |-> statusOf(i)][k] = "unsent"
    OBVIOUS
  <1>5. Board!ID = ID
    BY Zenon DEF Board!ID, ID
  <1> QED BY <1>1, <1>2, <1>3, <1>4, <1>5, Zenon DEF Board!Post

\* A step that opens a message and may let others expire.
LEMMA OpenStep ==
  ASSUME NEW k \in ID, statusOf(k) = "queued",
         \A j \in ID : j < k => statusOf(j) # "queued",
         statusOf(k)' = "open",
         Readers(k)' \subseteq Address,
         \A i \in ID \ {k} : /\ Readers(i)' = Readers(i)
                             /\ \/ statusOf(i)' = statusOf(i)
                                \/ statusOf(i) = "open" /\ statusOf(i)' = "expired"
  PROVE  Board!Open(k)
  <1>1. \A j \in ID : /\ [i \in ID |-> statusOf(i)][j] = statusOf(j)
                      /\ ([i \in ID |-> statusOf(i)]')[j] = statusOf(j)'
                      /\ [i \in ID |-> Readers(i)][j] = Readers(j)
                      /\ ([i \in ID |-> Readers(i)]')[j] = Readers(j)'
    OBVIOUS
  <1>2. Board!ID = ID
    BY Zenon DEF Board!ID, ID
  <1> QED BY <1>1, <1>2, Zenon DEF Board!Open

\* A step by which a reader is done with a message, and closes it at most when it
\* is the last one.
LEMMA ReadStep ==
  ASSUME NEW k \in ID, NEW a \in Address, a \in Readers(k),
         \A i \in ID : Readers(i)' = IF i = k THEN Readers(i) \ {a} ELSE Readers(i),
         \A i \in ID \ {k} : statusOf(i)' = statusOf(i),
         \/ statusOf(k)' = statusOf(k)
         \/ statusOf(k) = "open" /\ Readers(k) = {a} /\ statusOf(k)' = "read"
  PROVE  Board!Read(a, k)
  <1>1. [i \in ID |-> Readers(i)]' = [[i \in ID |-> Readers(i)] EXCEPT ![k] = @ \ {a}]
    OBVIOUS
  <1>2. CASE statusOf(k)' = statusOf(k)
    <2>1. [i \in ID |-> statusOf(i)]' = [i \in ID |-> statusOf(i)]
      BY <1>2
    <2> QED BY <1>1, <2>1 DEF Board!Read
  <1>3. CASE statusOf(k) = "open" /\ Readers(k) = {a} /\ statusOf(k)' = "read"
    <2>1. [i \in ID |-> statusOf(i)]' = [[i \in ID |-> statusOf(i)] EXCEPT ![k] = "read"]
      BY <1>3
    <2> QED BY <1>1, <1>3, <2>1 DEF Board!Read
  <1> QED BY <1>2, <1>3

\* A step by which a reader locks a task in.
LEMMA TakeStep ==
  ASSUME NEW k \in ID, NEW a \in Address, a \in Readers(k), statusOf(k) = "open",
         \A i \in ID : Readers(i)' = IF i = k THEN Readers(i) \ {a} ELSE Readers(i),
         \A i \in ID : statusOf(i)' = IF i = k THEN "taken" ELSE statusOf(i)
  PROVE  Board!Take(a, k)
  BY DEF Board!Take, Board!ID

\* A step by which a reader goes away.
LEMMA LeaveStep ==
  ASSUME NEW a \in Address,
         \A i \in ID : Readers(i)' = Readers(i) \ {a},
         \A i \in ID : statusOf(i)' = statusOf(i)
  PROVE  Board!Leave(a)
  <1>1. /\ [i \in ID |-> Readers(i)]' = [j \in ID |-> [i \in ID |-> Readers(i)][j] \ {a}]
        /\ [i \in ID |-> statusOf(i)]' = [i \in ID |-> statusOf(i)]
    OBVIOUS
  <1>2. Board!ID = ID
    BY Zenon DEF Board!ID, ID
  <1> QED BY <1>1, <1>2, Zenon DEF Board!Leave

\* A step the board does not notice.
LEMMA Unnoticed ==
  ASSUME \A i \in ID : Readers(i)' = Readers(i),
         \A i \in ID : statusOf(i)' = statusOf(i)
  PROVE  UNCHANGED Board!boardVars
  BY DEF Board!boardVars

--------------------------------------------------------------------------------
(* The steps of the server, seen from the board *)

\* What PruneOldMessages erased stays erased: an ID is given out once.
ExpiredIsGone == \A i \in pruned : i < nextMessageID /\ i \notin Stored

BoardInv == ReaderInv /\ TakeInv /\ ExpiredIsGone

\* At the start no message has expired.
LEMMA BoardInvInit == Init => BoardInv
  <1>1. Init => ExpiredIsGone
    BY DEF Init, ExpiredIsGone
  <1> QED BY <1>1, ReaderInit, TakeInit DEF BoardInv

\* Nothing but the runtime thread stores a message, under an ID not used before.
LEMMA BoardInvNext == BoardInv /\ [Next]_vars => BoardInv'
  <1> SUFFICES ASSUME BoardInv, [Next]_vars PROVE ExpiredIsGone'
    BY ReaderNext, TakeNext DEF BoardInv
  <1>1. TypeOK /\ TakenIsGone /\ ExpiredIsGone
    BY DEF BoardInv, TakeInv
  <1>2. CASE Quiet
    BY <1>1, <1>2 DEF Quiet, ExpiredIsGone, Stored
  <1>3. CASE RuntimeDistribute
    <2>1. /\ Stored' = (Stored \ Expired) \cup {nextMessageID}
          /\ nextMessageID' = nextMessageID + 1 /\ pruned' = pruned \cup Expired
      BY <1>3 DEF RuntimeDistribute, Stored
    <2>2. Expired \subseteq Stored
      BY DEF Expired
    <2>3. nextMessageID \in Int /\ Stored \subseteq Int /\ pruned \subseteq Int
      BY <1>1, MessagingAssumption DEF TypeOK, ID
    <2> QED BY <1>1, <2>1, <2>2, <2>3 DEF ExpiredIsGone, TakenIsGone
  <1>4. ASSUME NEW a \in Address, ReceiveActiveMessenger(a) \/ DeactivateActiveMessenger(a)
        PROVE  ExpiredIsGone'
    BY <1>1, <1>4 DEF ReceiveActiveMessenger, DeactivateActiveMessenger, Stored, server, history,
                      ExpiredIsGone
  <1>5. ASSUME NEW a \in Address, AcceptMessage(a) PROVE ExpiredIsGone'
    <2>1. Head(waitingMessageIDs[a]) \in ID
      BY <1>1, <1>5, HeadTail DEF AcceptMessage, TypeOK
    <2>2. Stored' \subseteq Stored
      BY <1>1, <1>5, <2>1, MapUpdates DEF AcceptMessage, GetMessage, TypeOK, Stored
    <2> QED BY <1>1, <1>5, <2>2 DEF AcceptMessage, ExpiredIsGone
  <1>6. ASSUME NEW a \in Address, acceptTask(a) \/ refuseTask(a) PROVE ExpiredIsGone'
    <2>1. UNCHANGED <<nextMessageID, pruned>>
      BY <1>6 DEF acceptTask, refuseTask, Decide
    <2>2. Stored' \subseteq Stored
      BY <1>1, <1>6, MapUpdates DEF acceptTask, refuseTask, FoundTask, TypeOK, Stored
    <2> QED BY <1>1, <2>1, <2>2 DEF ExpiredIsGone
  <1> QED BY <1>2, <1>3, <1>4, <1>5, <1>6, StepKinds

\* Pushing a message into the queue posts it under the next free ID.
LEMMA SendPosts ==
  ASSUME BoardInv, TypeOK', NEW msg \in Message, DistributeMessage(msg),
         UNCHANGED <<clients, now, history>>
  PROVE  \E k \in ID : Board!Post(k)
  <1>1. TypeOK /\ MaxMessages \in Nat
    BY MessagingAssumption DEF BoardInv, TakeInv
  <1>2. /\ MessageQueue \in Seq(Message) /\ nextMessageID \in 0 .. MaxMessages
        /\ nextMessageID + Len(MessageQueue) < MaxMessages
        /\ MessageQueue' = Append(MessageQueue, msg)
        /\ UNCHANGED <<sentMessages, nextMessageID, takes, pruned, Messengers,
                       waitingMessageIDs, hand>>
    BY <1>1 DEF TypeOK, DistributeMessage, clients, history
  <1>3. Len(MessageQueue) \in Nat /\ Len(MessageQueue') = Len(MessageQueue) + 1
    BY <1>2, AppendProperties, LenProperties
  <1>4. PICK k \in ID : k = nextMessageID + Len(MessageQueue)
    BY <1>1, <1>2, <1>3 DEF ID
  <1>5. \A i \in ID : /\ Sent(i) <=> i < k
                      /\ Sent(i)' <=> i < k + 1
    BY <1>1, <1>2, <1>3, <1>4 DEF Sent, ID
  <1>6. \A i \in ID : Readers(i)' = Readers(i)
    BY <1>2 DEF Readers, Owes, InboxSet, Range
  <1>7. /\ statusOf(k) = "unsent" /\ statusOf(k)' = "queued"
        /\ \A j \in ID : j < k => statusOf(j) # "unsent"
    <2>1. Stage /\ Stage'
      BY <1>1, Stages, StagesAfter
    <2>2. ~Sent(k) /\ Sent(k)' /\ k >= nextMessageID' /\ \A j \in ID : j < k => Sent(j)
      BY <1>1, <1>2, <1>3, <1>4, <1>5 DEF ID
    <2>3. /\ statusOf(k) = "unsent"  <=> ~Sent(k)
          /\ statusOf(k)' = "queued" <=> Sent(k)' /\ k >= nextMessageID'
      BY <1>4, <2>1, Zenon DEF Stage
    <2>4. \A j \in ID : statusOf(j) = "unsent" <=> ~Sent(j)
      BY <2>1, Zenon DEF Stage
    <2> QED BY <2>2, <2>3, <2>4
  <1>8. ASSUME NEW i \in ID, i # k PROVE statusOf(i)' = statusOf(i)
    <2>1. Sent(i)' <=> Sent(i)
      BY <1>1, <1>2, <1>3, <1>4, <1>5, <1>8 DEF ID
    <2>2. /\ i < nextMessageID' <=> i < nextMessageID
          /\ i \in Stored' <=> i \in Stored
          /\ takes'[i] > 0 <=> takes[i] > 0
          /\ i \in pruned' <=> i \in pruned
      BY <1>2 DEF Stored
    <2> QED BY <1>1, <2>1, <2>2, SameStage
  <1>9. \A i \in ID : statusOf(i)' = IF i = k THEN "queued" ELSE statusOf(i)
    BY <1>7, <1>8, Zenon
  <1> QED BY <1>4, <1>6, <1>7, <1>9, PostStep

\* The runtime thread opens the message that is first in the queue, and those that
\* PruneOldMessages erases expire.
LEMMA DistributeOpens ==
  ASSUME BoardInv, TypeOK', RuntimeDistribute
  PROVE  \E k \in ID : Board!Open(k)
  <1>1. /\ TypeOK /\ OrderInv /\ TakenIsGone /\ MaxMessages \in Nat
    BY MessagingAssumption DEF BoardInv, TakeInv, ReaderInv
  <1>2. /\ MessageQueue \in Seq(Message) /\ MessageQueue # <<>>
        /\ nextMessageID \in 0 .. MaxMessages /\ nextMessageID + Len(MessageQueue) <= MaxMessages
        /\ MessageQueue' = Tail(MessageQueue)
        /\ nextMessageID' = nextMessageID + 1
        /\ takes' = takes
        /\ Stored' = (Stored \ Expired) \cup {nextMessageID}
        /\ pruned' = pruned \cup Expired
    BY <1>1 DEF TypeOK, RuntimeDistribute, Stored
  <1>3. Len(MessageQueue) \in Nat \ {0} /\ Len(MessageQueue') = Len(MessageQueue) - 1
    BY <1>2, HeadTail
  <1>4. PICK k \in ID : k = nextMessageID
    BY <1>1, <1>2, <1>3 DEF ID
  <1>5. \A i \in ID : Sent(i)' <=> Sent(i)
    BY <1>2, <1>3 DEF Sent, ID
  <1>6. Stage /\ Stage'
    BY <1>1, Stages, StagesAfter
  <1>7. /\ statusOf(k) = "queued"
        /\ statusOf(k)' = "open"
        /\ \A j \in ID : j < k => statusOf(j) # "queued"
    <2>1. Sent(k) /\ k >= nextMessageID /\ k < nextMessageID' /\ k \in Stored'
      BY <1>2, <1>3, <1>4 DEF Sent
    <2>2. \A j \in ID : j < k => ~(j >= nextMessageID)
      BY <1>1, <1>2, <1>4 DEF ID
    <2>3. \A j \in ID : statusOf(j) = "queued" <=> Sent(j) /\ j >= nextMessageID
      BY <1>6, Zenon DEF Stage
    <2>4. \A j \in ID : statusOf(j)' = "open" <=> Sent(j)' /\ j < nextMessageID' /\ j \in Stored'
      BY <1>6, Zenon DEF Stage
    <2> QED BY <1>4, <1>5, <2>1, <2>2, <2>3, <2>4, Zenon
  <1>8. ASSUME NEW i \in ID \ {k}
        PROVE  /\ Readers(i)' = Readers(i)
               /\ \/ statusOf(i)' = statusOf(i)
                  \/ statusOf(i) = "open" /\ statusOf(i)' = "expired"
    <2>1. Readers(i)' = Readers(i)
      BY <1>1, <1>4, <1>8, OwesDistribute, SameReaders
    <2>2. i < nextMessageID' <=> i < nextMessageID
      BY <1>2, <1>4, <1>8 DEF ID
    <2>3. CASE i \in Expired
      <3>1. /\ i \in Stored /\ i \notin Stored' /\ i \in pruned'
            /\ i < nextMessageID /\ takes[i] = 0
        BY <1>1, <1>2, <1>4, <1>8, <2>3 DEF Expired, TakenIsGone
      <3>2. Sent(i)
        BY <1>2, <1>3, <3>1 DEF Sent, ID
      <3>3. ~(takes'[i] > 0)
        BY <1>2, <3>1
      <3>4. /\ statusOf(i) = "open" <=> Sent(i) /\ i < nextMessageID /\ i \in Stored
            /\ statusOf(i)' = "expired" <=>
                 Sent(i)' /\ i < nextMessageID' /\ i \notin Stored' /\ ~(takes'[i] > 0) /\ i \in pruned'
        BY <1>6, Zenon DEF Stage
      <3> QED BY <1>5, <2>1, <2>2, <3>1, <3>2, <3>3, <3>4
    <2>4. CASE i \notin Expired
      <3>1. /\ i \in Stored' <=> i \in Stored
            /\ i \in pruned' <=> i \in pruned
            /\ takes'[i] > 0 <=> takes[i] > 0
        BY <1>2, <1>4, <1>8, <2>4
      <3> QED BY <1>1, <1>5, <2>1, <2>2, <3>1, SameStage
    <2> QED BY <2>3, <2>4
  <1>9. Readers(k)' \subseteq Address
    BY DEF Readers
  <1> QED BY <1>4, <1>7, <1>8, <1>9, OpenStep

\* Reading changes no debt but the one of the reader for the message it reads.
LEMMA OtherDebtsAccept ==
  ASSUME OrderInv, NEW a \in Address, AcceptMessage(a), NEW id, id = Head(waitingMessageIDs[a]),
         NEW b \in Address, NEW i \in ID, b # a \/ i # id
  PROVE  Owes(b, i)' <=> Owes(b, i)
  <1> DEFINE rest == Tail(waitingMessageIDs[a])
  <1>1. /\ a \in Messengers /\ hand[a] = NoTask
        /\ waitingMessageIDs[a] \in Seq(ID) /\ waitingMessageIDs[a] # <<>>
        /\ Messengers' = Messengers
        /\ waitingMessageIDs' = [waitingMessageIDs EXCEPT ![a] = rest]
        /\ waitingMessageIDs \in [Address -> Seq(ID)]
        /\ hand \in [Address -> Copy \cup {NoTask}]
    BY DEF AcceptMessage, Running, OrderInv, TypeOK
  <1>2. /\ InboxSet(a) = {id} \cup Range(rest)
        /\ InboxSet(a)' = Range(rest)
        /\ \A c \in Address \ {a} : InboxSet(c)' = InboxSet(c)
    BY <1>1, RangeTail DEF InboxSet
  <1>3. hand' = hand \/ \E o : hand' = [hand EXCEPT ![a] = [id |-> id, origin |-> o]]
    BY DEF AcceptMessage, GetMessage
  <1>4. CASE b = a
    <2>1. hand'[a] = NoTask \/ hand'[a].id = id
      BY <1>1, <1>3
    <2> QED BY <1>1, <1>2, <1>4, <2>1 DEF Owes
  <1>5. CASE b # a
    <2>1. hand'[b] = hand[b]
      BY <1>1, <1>3, <1>5
    <2> QED BY <1>1, <1>2, <1>5, <2>1 DEF Owes
  <1> QED BY <1>4, <1>5

\* Deciding changes no debt but the one for the task in hand.
LEMMA OtherDebtsDecide ==
  ASSUME OrderInv, NEW a \in Address, acceptTask(a) \/ refuseTask(a), NEW id, id = hand[a].id,
         NEW b \in Address, NEW i \in ID, b # a \/ i # id
  PROVE  Owes(b, i)' <=> Owes(b, i)
  <1>1. /\ hand' = [hand EXCEPT ![a] = NoTask]
        /\ UNCHANGED <<Messengers, waitingMessageIDs>>
        /\ hand \in [Address -> Copy \cup {NoTask}]
    BY DEF acceptTask, refuseTask, Decide, OrderInv, TypeOK
  <1>2. InboxSet(b)' = InboxSet(b)
    BY <1>1 DEF InboxSet
  <1> QED BY <1>1, <1>2 DEF Owes

\* What the board sees of an operation on the map that settles the debt of a: the
\* reader is done with the message, and it is closed if the Pending count was at one.
LEMMA SettledIsRead ==
  ASSUME BoardInv, TypeOK', NEW a \in Address, NEW id \in ID,
         Owes(a, id), ~Owes(a, id)',
         \A b \in Address, i \in ID : b # a \/ i # id => (Owes(b, i)' <=> Owes(b, i)),
         sentMessages' = sentMessages \/ (id \in Stored /\ DecrementPending(id)),
         UNCHANGED <<MessageQueue, nextMessageID, takes, pruned>>
  PROVE  Board!Read(a, id)
  <1>1. TypeOK /\ OrderInv /\ TakenIsGone /\ PendingCoversReaders
    BY DEF BoardInv, TakeInv, ReaderInv
  <1>2. a \in Readers(id)
    BY DEF Readers
  <1>3. ASSUME NEW i \in ID
        PROVE  Readers(i)' = IF i = id THEN Readers(i) \ {a} ELSE Readers(i)
    BY DEF Readers
  <1>4. \A i \in ID : Sent(i)' <=> Sent(i)
    BY DEF Sent
  <1>5. ASSUME NEW i \in ID, i \in Stored' <=> i \in Stored
        PROVE  statusOf(i)' = statusOf(i)
    BY <1>1, <1>4, <1>5, SameStage
  <1>6. \A i \in ID \ {id} : i \in Stored' <=> i \in Stored
    BY <1>1, MapUpdates DEF TypeOK, Stored
  <1>7. CASE id \in Stored' <=> id \in Stored
    BY <1>2, <1>3, <1>5, <1>6, <1>7, ReadStep
  <1>8. CASE ~(id \in Stored' <=> id \in Stored)
    <2>1. id \in Stored /\ id \notin Stored' /\ sentMessages[id].pending = 1
      BY <1>1, <1>8, MapUpdates DEF TypeOK, Stored
    <2>2. Readers(id) = {a}
      <3>1. IsFiniteSet(Readers(id)) /\ Cardinality(Readers(id)) <= 1
        BY <1>1, <2>1, FS_Subset, MessagingAssumption DEF PendingCoversReaders, Readers
      <3>2. /\ IsFiniteSet({a}) /\ Cardinality({a}) = 1 /\ {a} \subseteq Readers(id)
        BY <1>2, FS_Singleton
      <3>3. Cardinality(Readers(id)) \in Nat /\ Cardinality({a}) <= Cardinality(Readers(id))
        BY <3>1, <3>2, FS_Subset, FS_CardinalityType
      <3> QED BY <3>1, <3>2, <3>3, FS_Subset
    <2>3. /\ id < nextMessageID /\ id < nextMessageID'
          /\ takes[id] = 0 /\ ~(takes'[id] > 0)
      BY <1>1, <2>1 DEF TakenIsGone
    <2>4. Sent(id) /\ Sent(id)'
      <3>1. /\ MessageQueue \in Seq(Message) /\ nextMessageID \in 0 .. MaxMessages
            /\ MaxMessages \in Nat
        BY <1>1, MessagingAssumption DEF TypeOK
      <3> QED BY <1>4, <2>3, <3>1, LenProperties DEF Sent, ID
    <2>5. id \notin pruned'
      BY <2>1 DEF BoardInv, ExpiredIsGone
    <2>6. statusOf(id) = "open" /\ statusOf(id)' = "read"
      <3>1. Stage /\ Stage'
        BY <1>1, Stages, StagesAfter
      <3>2. /\ statusOf(id) = "open" <=> Sent(id) /\ id < nextMessageID /\ id \in Stored
            /\ statusOf(id)' = "read" <=> Sent(id)' /\ id < nextMessageID' /\ id \notin Stored'
                                          /\ ~(takes'[id] > 0) /\ id \notin pruned'
        BY <3>1, Zenon DEF Stage
      <3> QED BY <2>1, <2>3, <2>4, <2>5, <3>2
    <2> QED BY <1>2, <1>3, <1>5, <1>6, <2>2, <2>6, ReadStep
  <1> QED BY <1>7, <1>8

\* Reading a message: a task stays with its reader until he decides, everything else
\* is read.
LEMMA AcceptReads ==
  ASSUME BoardInv, TypeOK', NEW a \in Address, AcceptMessage(a)
  PROVE  (\E i \in ID : Board!Read(a, i)) \/ UNCHANGED Board!boardVars
  <1>1. PICK id : id = Head(waitingMessageIDs[a])
    OBVIOUS
  <1>2. /\ OrderInv /\ TypeOK /\ id \in ID
        /\ UNCHANGED <<MessageQueue, nextMessageID, takes, pruned>>
    BY <1>1, HeadTail DEF AcceptMessage, BoardInv, TakeInv, ReaderInv, TypeOK
  <1>3. /\ Owes(a, id)
        /\ sentMessages' = sentMessages \/ (id \in Stored /\ DecrementPending(id) /\ ~Owes(a, id)')
    BY <1>1, <1>2, OwesAccept
  <1>4. \A b \in Address, i \in ID : b # a \/ i # id => (Owes(b, i)' <=> Owes(b, i))
    BY <1>1, <1>2, OtherDebtsAccept
  <1>5. CASE ~Owes(a, id)'
    BY <1>2, <1>3, <1>4, <1>5, SettledIsRead
  <1>6. CASE Owes(a, id)'
    <2>1. \A b \in Address, i \in ID : Owes(b, i)' <=> Owes(b, i)
      BY <1>3, <1>4, <1>6
    <2>2. \A i \in ID : Readers(i)' = Readers(i)
      BY <2>1 DEF Readers
    <2>3. sentMessages' = sentMessages
      BY <1>3, <1>6
    <2>4. \A i \in ID : statusOf(i)' = statusOf(i)
      BY <1>2, <2>3, SameStage DEF Sent, Stored
    <2> QED BY <2>2, <2>4, Unnoticed
  <1> QED BY <1>5, <1>6

\* Deciding on a task: taking it closes it, a refusal or a task that is not found any
\* more is read.
LEMMA DecideTakesOrReads ==
  ASSUME BoardInv, TypeOK', NEW a \in Address, acceptTask(a) \/ refuseTask(a)
  PROVE  \E i \in ID : Board!Take(a, i) \/ Board!Read(a, i)
  <1>1. PICK id : id = hand[a].id
    OBVIOUS
  <1>2. /\ OrderInv /\ TypeOK /\ TakenIsGone /\ id \in ID
        /\ UNCHANGED <<MessageQueue, nextMessageID, pruned>>
    <2>1. hand[a] # NoTask /\ hand \in [Address -> Copy \cup {NoTask}]
      BY DEF acceptTask, refuseTask, Decide, BoardInv, TakeInv, TypeOK
    <2>2. id \in ID
      BY <1>1, <2>1 DEF Copy
    <2> QED BY <2>2 DEF acceptTask, refuseTask, Decide, BoardInv, TakeInv, ReaderInv
  <1>3. Owes(a, id) /\ ~Owes(a, id)'
    BY <1>1, <1>2, OwesDecide
  <1>4. \A b \in Address, i \in ID : b # a \/ i # id => (Owes(b, i)' <=> Owes(b, i))
    BY <1>1, <1>2, OtherDebtsDecide
  <1>5. CASE /\ takes' = takes
             /\ sentMessages' = sentMessages \/ (id \in Stored /\ DecrementPending(id))
    BY <1>2, <1>3, <1>4, <1>5, SettledIsRead
  <1>6. CASE /\ id \in Stored /\ sentMessages' = Erase(id)
             /\ takes' = [takes EXCEPT ![id] = @ + 1]
    <2>1. Stored' = Stored \ {id}
      BY <1>2, <1>6, MapUpdates DEF TypeOK
    <2>2. /\ takes \in [ID -> Nat] /\ takes'[id] > 0
          /\ \A i \in ID \ {id} : takes'[i] = takes[i]
      <3>1. takes \in [ID -> Nat] /\ id \in ID /\ takes' = [takes EXCEPT ![id] = @ + 1]
        BY <1>2, <1>6 DEF TypeOK
      <3>2. takes[id] \in Nat /\ takes'[id] = takes[id] + 1 /\ \A i \in ID \ {id} : takes'[i] = takes[i]
        BY <3>1
      <3> QED BY <3>1, <3>2
    <2>3. \A i \in ID : Sent(i)' <=> Sent(i)
      BY <1>2 DEF Sent
    <2>4. id < nextMessageID /\ id < nextMessageID' /\ Sent(id) /\ Sent(id)'
      <3>1. /\ MessageQueue \in Seq(Message) /\ nextMessageID \in 0 .. MaxMessages
            /\ MaxMessages \in Nat
        BY <1>2, MessagingAssumption DEF TypeOK
      <3> QED BY <1>2, <1>6, <2>3, <3>1, LenProperties DEF Sent, ID, TakenIsGone
    <2>5. statusOf(id) = "open" /\ statusOf(id)' = "taken"
      <3>1. Stage /\ Stage'
        BY <1>2, Stages, StagesAfter
      <3>2. /\ statusOf(id) = "open" <=> Sent(id) /\ id < nextMessageID /\ id \in Stored
            /\ statusOf(id)' = "taken" <=>
                 Sent(id)' /\ id < nextMessageID' /\ id \notin Stored' /\ takes'[id] > 0
        BY <1>2, <3>1, Zenon DEF Stage
      <3> QED BY <1>6, <2>1, <2>2, <2>4, <3>2
    <2>6. ASSUME NEW i \in ID \ {id} PROVE statusOf(i)' = statusOf(i)
      BY <1>2, <2>1, <2>2, <2>3, SameStage
    <2>7. \A i \in ID : statusOf(i)' = IF i = id THEN "taken" ELSE statusOf(i)
      BY <2>5, <2>6
    <2>8. /\ a \in Readers(id)
          /\ \A i \in ID : Readers(i)' = IF i = id THEN Readers(i) \ {a} ELSE Readers(i)
      BY <1>3, <1>4 DEF Readers
    <2> QED BY <1>2, <2>5, <2>7, <2>8, TakeStep
  <1> QED BY <1>1, <1>5, <1>6 DEF acceptTask, refuseTask, FoundTask

\* A messenger that is deleted leaves the board with all its debts.
LEMMA DeactivateLeaves ==
  ASSUME BoardInv, TypeOK', NEW a \in Address, DeactivateActiveMessenger(a)
  PROVE  Board!Leave(a)
  <1>1. /\ TypeOK /\ OrderInv /\ a \in Messengers
        /\ Messengers' = Messengers \ {a}
        /\ waitingMessageIDs' = [waitingMessageIDs EXCEPT ![a] = <<>>]
        /\ UNCHANGED <<hand, MessageQueue, sentMessages, nextMessageID, takes, pruned>>
    BY DEF DeactivateActiveMessenger, Running, server, history, BoardInv, TakeInv, ReaderInv
  <1>2. \A b \in Address, i \in ID : Owes(b, i)' <=> b # a /\ Owes(b, i)
    BY <1>1 DEF Owes, InboxSet, TypeOK
  <1>3. \A i \in ID : Readers(i)' = Readers(i) \ {a}
    BY <1>2 DEF Readers
  <1>4. \A i \in ID : statusOf(i)' = statusOf(i)
    BY <1>1, SameStage DEF Sent, Stored
  <1> QED BY <1>3, <1>4, LeaveStep

\* The steps that are quiet do nothing but post a message.
LEMMA QuietStepKinds ==
  [Next]_vars => \/ Quiet /\ UNCHANGED MessageQueue
                 \/ \E msg \in Message : DistributeMessage(msg) /\ UNCHANGED <<clients, now, history>>
                 \/ RuntimeDistribute
                 \/ \E a \in Address : \/ ReceiveActiveMessenger(a)
                                       \/ DeactivateActiveMessenger(a)
                                       \/ AcceptMessage(a)
                                       \/ acceptTask(a)
                                       \/ refuseTask(a)
  <1>1. ASSUME NEW a \in Address, NEW c \in Channel, sendMessage(a, c) \/ SendPointer(a, c)
        PROVE  \E msg \in Message : DistributeMessage(msg) /\ UNCHANGED <<clients, now, history>>
    <2>1. \A task \in BOOLEAN : [origin |-> a, task |-> task, channel |-> c] \in Message
      BY DEF Message, Origin
    <2> QED BY <1>1, <2>1 DEF sendMessage, SendPointer
  <1>2. ASSUME ShutdownServer
        PROVE  \E msg \in Message : DistributeMessage(msg) /\ UNCHANGED <<clients, now, history>>
    <2>1. [origin |-> Nobody, task |-> FALSE, channel |-> All] \in Message
      BY DEF Message, Origin
    <2> QED BY <1>2, <2>1 DEF ShutdownServer
  <1> QED
    BY <1>1, <1>2
    DEF Next, Runtime, Client, vars, clients, server, history, Quiet,
        RegisterOnChannel, unRegisterAllChannels, RuntimeWait, RuntimeSpuriousWakeup, RuntimeLock,
        RuntimeUnlock, pauseForMessage, StartWait, TimeoutWakeup, SpuriousWakeup, Tick

--------------------------------------------------------------------------------
(* The refinement *)

\* Before the first message the board is empty.
LEMMA BoardInitial == Init => Board!Init
  <1> SUFFICES ASSUME Init PROVE Board!Init
    OBVIOUS
  <1>1. TypeOK /\ Stage
    BY TypeInit, Stages
  <1>2. \A i \in ID : ~Sent(i)
    BY EmptySeq, MessagingAssumption DEF Init, Sent, ID
  <1>3. \A i \in ID : statusOf(i) = "unsent"
    BY <1>1, <1>2, Zenon DEF Stage
  <1>4. \A i \in ID : Readers(i) = {}
    BY DEF Init, Readers, Owes
  <1>5. Board!ID = ID
    BY Zenon DEF Board!ID, ID
  <1> QED BY <1>3, <1>4, <1>5 DEF Board!Init

\* Every step of the server is a step of the board, or one the board does not notice.
LEMMA BoardNext == BoardInv /\ [Next]_vars => [Board!Next]_(Board!boardVars)
  <1> SUFFICES ASSUME BoardInv, [Next]_vars PROVE [Board!Next]_(Board!boardVars)
    OBVIOUS
  <1>1. TypeOK /\ OrderInv
    BY DEF BoardInv, TakeInv, ReaderInv
  <1>2. TypeOK'
    BY <1>1, TypeNext
  <1>3. Board!ID = ID
    BY Zenon DEF Board!ID, ID
  <1>4. CASE Quiet /\ UNCHANGED MessageQueue
    <2>1. \A i \in ID : statusOf(i)' = statusOf(i)
      BY <1>1, <1>2, <1>4, SameStage DEF Quiet, Sent, Stored
    <2>2. \A i \in ID : Readers(i)' = Readers(i)
      BY <1>4, OwesQuiet, SameReaders
    <2> QED BY <2>1, <2>2, Unnoticed
  <1>5. ASSUME NEW a \in Address, ReceiveActiveMessenger(a)
        PROVE  UNCHANGED Board!boardVars
    <2>1. \A i \in ID : Readers(i)' = Readers(i)
      BY <1>1, <1>5, OwesReceive, SameReaders
    <2>2. UNCHANGED <<server, takes, pruned>>
      BY <1>5 DEF ReceiveActiveMessenger
    <2>3. \A i \in ID : statusOf(i)' = statusOf(i)
      BY <1>1, <1>2, <2>2, SameStage DEF server, Sent, Stored
    <2> QED BY <2>1, <2>3, Unnoticed
  <1>6. CASE \E msg \in Message : DistributeMessage(msg) /\ UNCHANGED <<clients, now, history>>
    BY <1>2, <1>3, <1>6, SendPosts DEF Board!Next
  <1>7. CASE RuntimeDistribute
    BY <1>2, <1>3, <1>7, DistributeOpens DEF Board!Next
  <1>8. ASSUME NEW a \in Address, DeactivateActiveMessenger(a) PROVE Board!Next
    BY <1>2, <1>8, DeactivateLeaves DEF Board!Next
  <1>9. ASSUME NEW a \in Address, AcceptMessage(a)
        PROVE  Board!Next \/ UNCHANGED Board!boardVars
    BY <1>2, <1>3, <1>9, AcceptReads DEF Board!Next
  <1>10. ASSUME NEW a \in Address, acceptTask(a) \/ refuseTask(a) PROVE Board!Next
    BY <1>2, <1>3, <1>10, DecideTakesOrReads DEF Board!Next
  <1> QED BY <1>4, <1>5, <1>6, <1>7, <1>8, <1>9, <1>10, QuietStepKinds

\* The message server, whatever its clients do and whatever expires, shows them the board:
\* messages are opened in the order of posting, a task is taken by one reader while it is open,
\* and a message is closed by reading only when nobody who is still there has it before him.
THEOREM Implementation == Spec => ImplementsBoard
  <1> QED
    BY BoardInitial, BoardInvInit, BoardInvNext, BoardNext, PTL
    DEF Spec, ImplementsBoard, Board!Spec
================================================================================
