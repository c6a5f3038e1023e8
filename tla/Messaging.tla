------------------------------- MODULE Messaging -------------------------------
(***************************************************************************)
(* DFSMessaging (src/src/InterProcessMessaging.cxx): the message server,    *)
(* its runtime thread and the messengers through which all other threads    *)
(* of DFileServer talk to each other.                                       *)
(*                                                                          *)
(* A step is one critical section of the code.  The runtime thread holds    *)
(* MessengerServerSentMessagesMutex from the first to the last message of   *)
(* a drain, so every operation that needs that mutex waits while            *)
(* runtime = "drain".  Condition variables are modelled as C++ defines      *)
(* them: a notification reaches only the threads that are already waiting,  *)
(* and a waiting thread may wake up spuriously.                             *)
(***************************************************************************)
EXTENDS Integers, Sequences, FiniteSets, Functions

CONSTANTS
  Address,      \* the addresses Messenger objects are allocated at
  Channel,      \* the channels a messenger can register on
  All,          \* MSG_TARGET_ALL, the channel of the shutdown broadcast
  Nobody,       \* the null Origin of the shutdown broadcast
  NoTask,       \* no task message in hand
  Expiry,       \* age beyond which PruneOldMessages erases (60 in the code)
  Pauses,       \* the kinds of pause the clients use: TRUE is one with a timeout
  MaxMessages,  \* bound: messages distributed in a behaviour
  MaxTime       \* bound: the last instant of the clock

ASSUME MessagingAssumption ==
  /\ IsFiniteSet(Address)
  /\ All \notin Channel
  /\ Nobody \notin Address
  /\ NoTask \notin [id : Int, origin : Address \cup {Nobody}]
  /\ Pauses \subseteq BOOLEAN
  /\ Expiry \in Nat /\ MaxMessages \in Nat /\ MaxTime \in Nat

VARIABLES
  Messengers,         \* addresses of the messengers the server knows
  RegisteredChannels, \* per messenger
  waitingMessageIDs,  \* per messenger: the inbox
  phase,              \* per messenger: where its thread is in pauseForMessage
  hand,               \* per messenger: the task message returned by GetMessage
  MessageQueue,       \* messages not yet distributed
  sentMessages,       \* distributed messages, by message ID
  nextMessageID,
  runtime,            \* where MessengerServerRuntime is
  now,                \* time(nullptr)
  takes,              \* history: how many calls of acceptTask took a message
  pruned,             \* history: the messages PruneOldMessages erased
  readUpTo            \* history: per messenger, one more than the last ID read

clients == <<Messengers, RegisteredChannels, waitingMessageIDs, phase, hand>>
server  == <<MessageQueue, sentMessages, nextMessageID, runtime>>
history == <<takes, pruned, readUpTo>>
vars    == <<clients, server, now, history>>

ID      == 0 .. (MaxMessages - 1)
Origin  == Address \cup {Nobody}
Message == [origin : Origin, task : BOOLEAN, channel : Channel \cup {All}]
Entry   == [msg : Message, pending : Int, sendTime : 0 .. MaxTime]
Copy    == [id : ID, origin : Origin]

Init ==
  /\ Messengers = {}
  /\ RegisteredChannels = [a \in Address |-> {}]
  /\ waitingMessageIDs = [a \in Address |-> <<>>]
  /\ phase = [a \in Address |-> "run"]
  /\ hand = [a \in Address |-> NoTask]
  /\ MessageQueue = <<>>
  /\ sentMessages = << >>
  /\ nextMessageID = 0
  /\ runtime = "toWait"
  /\ now = 0
  /\ takes = [i \in ID |-> 0]
  /\ pruned = {}
  /\ readUpTo = [a \in Address |-> 0]

--------------------------------------------------------------------------------
(* Messenger objects *)

\* The thread that owns messenger a is between two calls of the library.
Running(a) == a \in Messengers /\ phase[a] = "run" /\ hand[a] = NoTask

\* A messenger is created, possibly where a deleted one used to be.
ReceiveActiveMessenger(a) ==
  /\ a \notin Messengers
  /\ Messengers' = Messengers \cup {a}
  /\ readUpTo' = [readUpTo EXCEPT ![a] = 0]
  /\ UNCHANGED <<RegisteredChannels, waitingMessageIDs, phase, hand, server, now, takes, pruned>>

\* delete messenger: its inbox goes with it, the Pending counts stay.
DeactivateActiveMessenger(a) ==
  /\ Running(a)
  /\ Messengers' = Messengers \ {a}
  /\ RegisteredChannels' = [RegisteredChannels EXCEPT ![a] = {}]
  /\ waitingMessageIDs' = [waitingMessageIDs EXCEPT ![a] = <<>>]
  /\ UNCHANGED <<phase, hand, server, now, history>>

RegisterOnChannel(a, c) ==
  /\ Running(a)
  /\ RegisteredChannels' = [RegisteredChannels EXCEPT ![a] = @ \cup {c}]
  /\ UNCHANGED <<Messengers, waitingMessageIDs, phase, hand, server, now, history>>

unRegisterAllChannels(a) ==
  /\ Running(a)
  /\ RegisteredChannels' = [RegisteredChannels EXCEPT ![a] = {}]
  /\ UNCHANGED <<Messengers, waitingMessageIDs, phase, hand, server, now, history>>

--------------------------------------------------------------------------------
(* Sending *)

\* Push under the queue mutex, then notify the runtime thread if it waits.
DistributeMessage(msg) ==
  /\ nextMessageID + Len(MessageQueue) < MaxMessages
  /\ MessageQueue' = Append(MessageQueue, msg)
  /\ runtime' = IF runtime = "parked" THEN "awake" ELSE runtime
  /\ UNCHANGED <<sentMessages, nextMessageID>>

sendMessage(a, c) ==
  /\ Running(a)
  /\ DistributeMessage([origin |-> a, task |-> FALSE, channel |-> c])
  /\ UNCHANGED <<clients, now, history>>

SendPointer(a, c) ==
  /\ Running(a)
  /\ DistributeMessage([origin |-> a, task |-> TRUE, channel |-> c])
  /\ UNCHANGED <<clients, now, history>>

ShutdownServer ==
  /\ DistributeMessage([origin |-> Nobody, task |-> FALSE, channel |-> All])
  /\ UNCHANGED <<clients, now, history>>

--------------------------------------------------------------------------------
(* The runtime thread *)

RuntimeWait ==
  /\ runtime = "toWait"
  /\ runtime' = "parked"
  /\ UNCHANGED <<clients, MessageQueue, sentMessages, nextMessageID, now, history>>

RuntimeSpuriousWakeup ==
  /\ runtime = "parked"
  /\ runtime' = "awake"
  /\ UNCHANGED <<clients, MessageQueue, sentMessages, nextMessageID, now, history>>

RuntimeLock ==
  /\ runtime = "awake"
  /\ runtime' = "drain"
  /\ UNCHANGED <<clients, MessageQueue, sentMessages, nextMessageID, now, history>>

Recipients(msg) ==
  {a \in Messengers : /\ a # msg.origin
                      /\ msg.channel = All \/ msg.channel \in RegisteredChannels[a]}

\* Mutants: the ID is read after its increment, or put at the front of the inbox.
AlertNextID(to) ==
  /\ waitingMessageIDs' = [a \in Address |->
       IF a \in to THEN Append(waitingMessageIDs[a], nextMessageID + 1) ELSE waitingMessageIDs[a]]
  /\ phase' = [a \in Address |-> IF a \in to THEN "run" ELSE phase[a]]
AlertInFront(to) ==
  /\ waitingMessageIDs' = [a \in Address |->
       IF a \in to THEN <<nextMessageID>> \o waitingMessageIDs[a] ELSE waitingMessageIDs[a]]
  /\ phase' = [a \in Address |-> IF a \in to THEN "run" ELSE phase[a]]

AlertMessageID(to) ==
  /\ waitingMessageIDs' = [a \in Address |->
       IF a \in to THEN Append(waitingMessageIDs[a], nextMessageID) ELSE waitingMessageIDs[a]]
  /\ phase' = [a \in Address |->
       IF a \in to /\ phase[a] \in {"wait", "timedWait"} THEN "run" ELSE phase[a]]

\* The IDs in the map, and those of them PruneOldMessages(60) erases.
Stored  == DOMAIN sentMessages
Expired == {i \in Stored : now - sentMessages[i].sendTime > Expiry}

RuntimeDistribute ==
  /\ runtime = "drain"
  /\ MessageQueue # <<>>
  /\ LET msg == Head(MessageQueue)
         to  == Recipients(msg)
     IN /\ AlertMessageID(to)
        /\ sentMessages' = [i \in (Stored \ Expired) \cup {nextMessageID} |->
             IF i = nextMessageID
             THEN [msg |-> msg, pending |-> Cardinality(to), sendTime |-> now]
             ELSE sentMessages[i]]
  /\ pruned' = pruned \cup Expired
  /\ MessageQueue' = Tail(MessageQueue)
  /\ nextMessageID' = nextMessageID + 1
  /\ UNCHANGED <<Messengers, RegisteredChannels, hand, runtime, now, takes, readUpTo>>

\* Mutant: the drain is an if, not a while.
UnlockAfterOne ==
  /\ runtime = "drain"
  /\ runtime' = "toWait"
  /\ UNCHANGED <<clients, MessageQueue, sentMessages, nextMessageID, now, history>>

RuntimeUnlock ==
  /\ runtime = "drain"
  /\ MessageQueue = <<>>
  /\ runtime' = "toWait"
  /\ UNCHANGED <<clients, MessageQueue, sentMessages, nextMessageID, now, history>>

--------------------------------------------------------------------------------
(* Receiving *)

\* Mutant: an accepted task stays in the map.
EraseNothing(id) == sentMessages

Erase(id) == Restrict(sentMessages, Stored \ {id})

\* Mutant: the last reader but one erases the message.
DecrementEarly(id) ==
  sentMessages' = IF sentMessages[id].pending <= 2
                  THEN Erase(id)
                  ELSE [sentMessages EXCEPT ![id].pending = @ - 1]

\* One reader less; the last one erases the message.
DecrementPending(id) ==
  sentMessages' = IF sentMessages[id].pending = 1
                  THEN Erase(id)
                  ELSE [sentMessages EXCEPT ![id].pending = @ - 1]

\* Mutant: receiving a task counts as having decided on it.
GetMessageAndDecrement(a, id) ==
  \/ /\ id \in Stored
     /\ hand' = IF sentMessages[id].msg.task
                THEN [hand EXCEPT ![a] = [id |-> id, origin |-> sentMessages[id].msg.origin]]
                ELSE hand
     /\ DecrementPending(id)
  \/ id \notin Stored /\ UNCHANGED <<hand, sentMessages>>

\* A message that is no longer in the map is returned as the empty Message.
GetMessage(a, id) ==
  \/ /\ id \in Stored
     /\ sentMessages[id].msg.task
     /\ hand' = [hand EXCEPT ![a] = [id |-> id, origin |-> sentMessages[id].msg.origin]]
     /\ UNCHANGED sentMessages
  \/ /\ id \in Stored
     /\ ~sentMessages[id].msg.task
     /\ DecrementPending(id)
     /\ UNCHANGED hand
  \/ /\ id \notin Stored
     /\ UNCHANGED <<hand, sentMessages>>

AcceptMessage(a) ==
  /\ Running(a)
  /\ waitingMessageIDs[a] # <<>>
  /\ runtime # "drain"
  /\ GetMessage(a, Head(waitingMessageIDs[a]))
  /\ waitingMessageIDs' = [waitingMessageIDs EXCEPT ![a] = Tail(@)]
  /\ readUpTo' = [readUpTo EXCEPT ![a] = Head(waitingMessageIDs[a]) + 1]
  /\ UNCHANGED <<Messengers, RegisteredChannels, phase, MessageQueue, nextMessageID, runtime,
                 now, takes, pruned>>

\* The thread of a holds a copy of a task and calls acceptTask or refuseTask.
Decide(a) ==
  /\ a \in Messengers
  /\ hand[a] # NoTask
  /\ hand' = [hand EXCEPT ![a] = NoTask]
  /\ UNCHANGED <<Messengers, RegisteredChannels, waitingMessageIDs, phase, MessageQueue,
                 nextMessageID, runtime, now, pruned, readUpTo>>

\* The security key is read through the Origin pointer.  The memory of a deleted
\* messenger may still hold the key, or no longer.
KeyMayMatch(a)    == TRUE
KeyMayMismatch(a) == hand[a].origin \notin Messengers

\* The map is looked into under its mutex, and only with the right key.
FoundTask(a) == KeyMayMatch(a) /\ runtime # "drain" /\ hand[a].id \in Stored
NoTaskFound(a) ==
  KeyMayMismatch(a) \/ (KeyMayMatch(a) /\ runtime # "drain" /\ hand[a].id \notin Stored)

\* Mutant: acceptTask does not look whether the task is still there.
acceptUnchecked(a) ==
  /\ Decide(a) /\ runtime # "drain"
  /\ sentMessages' = Erase(hand[a].id)
  /\ takes' = [takes EXCEPT ![hand[a].id] = @ + 1]

acceptTask(a) ==
  /\ Decide(a)
  /\ \/ /\ FoundTask(a)
        /\ sentMessages' = Erase(hand[a].id)
        /\ takes' = [takes EXCEPT ![hand[a].id] = @ + 1]
     \/ NoTaskFound(a) /\ UNCHANGED <<sentMessages, takes>>

refuseTask(a) ==
  /\ Decide(a)
  /\ \/ FoundTask(a) /\ DecrementPending(hand[a].id)
     \/ NoTaskFound(a) /\ UNCHANGED sentMessages
  /\ UNCHANGED takes

--------------------------------------------------------------------------------
(* pauseForMessage: the inbox is found empty under its mutex; the wait on the
   condition variable starts later, under a mutex no other thread knows. *)

pauseForMessage(a, timed) ==
  /\ Running(a)
  /\ waitingMessageIDs[a] = <<>>
  /\ phase' = [phase EXCEPT ![a] = IF timed THEN "timedCheck" ELSE "check"]
  /\ UNCHANGED <<Messengers, RegisteredChannels, waitingMessageIDs, hand, server, now, history>>

\* Mutant: the timeout is ignored.
WaitForever(a) ==
  /\ phase[a] \in {"check", "timedCheck"}
  /\ phase' = [phase EXCEPT ![a] = "wait"]
  /\ UNCHANGED <<Messengers, RegisteredChannels, waitingMessageIDs, hand, server, now, history>>

StartWait(a) ==
  /\ phase[a] \in {"check", "timedCheck"}
  /\ phase' = [phase EXCEPT ![a] = IF @ = "check" THEN "wait" ELSE "timedWait"]
  /\ UNCHANGED <<Messengers, RegisteredChannels, waitingMessageIDs, hand, server, now, history>>

TimeoutWakeup(a) ==
  /\ phase[a] = "timedWait"
  /\ phase' = [phase EXCEPT ![a] = "run"]
  /\ UNCHANGED <<Messengers, RegisteredChannels, waitingMessageIDs, hand, server, now, history>>

SpuriousWakeup(a) ==
  /\ phase[a] \in {"wait", "timedWait"}
  /\ phase' = [phase EXCEPT ![a] = "run"]
  /\ UNCHANGED <<Messengers, RegisteredChannels, waitingMessageIDs, hand, server, now, history>>

Tick ==
  /\ now < MaxTime
  /\ now' = now + 1
  /\ UNCHANGED <<clients, server, history>>

--------------------------------------------------------------------------------
Runtime ==
  RuntimeWait \/ RuntimeSpuriousWakeup \/ RuntimeLock \/ RuntimeDistribute \/ RuntimeUnlock

Client(a) ==
  \/ ReceiveActiveMessenger(a)
  \/ DeactivateActiveMessenger(a)
  \/ unRegisterAllChannels(a)
  \/ \E c \in Channel : RegisterOnChannel(a, c) \/ sendMessage(a, c) \/ SendPointer(a, c)
  \/ AcceptMessage(a)
  \/ acceptTask(a)
  \/ refuseTask(a)
  \/ \E timed \in Pauses : pauseForMessage(a, timed)
  \/ StartWait(a)
  \/ TimeoutWakeup(a)
  \/ SpuriousWakeup(a)

Next == Runtime \/ (\E a \in Address : Client(a)) \/ ShutdownServer \/ Tick

Spec == Init /\ [][Next]_vars

--------------------------------------------------------------------------------
(* Properties *)

InboxSet(a) == Range(waitingMessageIDs[a])

\* Messenger a has still to read message id, or to decide on the task it read.
Owes(a, id) ==
  a \in Messengers /\ (id \in InboxSet(a) \/ (hand[a] # NoTask /\ hand[a].id = id))

Readers(id) == {a \in Address : Owes(a, id)}

\* Every variable has its type, and the IDs in use stay below the next one.
TypeOK ==
  /\ Messengers \subseteq Address
  /\ RegisteredChannels \in [Address -> SUBSET Channel]
  /\ waitingMessageIDs \in [Address -> Seq(ID)]
  /\ phase \in [Address -> {"run", "check", "wait", "timedCheck", "timedWait"}]
  /\ hand \in [Address -> Copy \cup {NoTask}]
  /\ MessageQueue \in Seq(Message)
  /\ Stored \subseteq ID
  /\ \A i \in Stored : sentMessages[i] \in Entry
  /\ nextMessageID \in 0 .. MaxMessages
  /\ nextMessageID + Len(MessageQueue) <= MaxMessages
  /\ runtime \in {"toWait", "parked", "awake", "drain"}
  /\ now \in 0 .. MaxTime
  /\ takes \in [ID -> Nat]
  /\ pruned \subseteq ID
  /\ readUpTo \in [Address -> 0 .. MaxMessages]

\* A task is "locked in by a single thread" (CHANGES.DOC, 2.1.0): of all the
\* threads that hold a copy of it, at most one gets true from acceptTask.
TakenAtMostOnce == \A i \in ID : takes[i] <= 1

\* The numbers of s are strictly increasing, from low to below high.
Increasing(s, low, high) ==
  /\ \A i \in DOMAIN s : low <= s[i] /\ s[i] < high
  /\ \A i, j \in DOMAIN s : i < j => s[i] < s[j]

\* A messenger reads its messages in the order the server queued them and none
\* twice: its inbox is strictly increasing and above everything it has read.
InboxOrder ==
  \A a \in Address : Increasing(waitingMessageIDs[a], readUpTo[a], nextMessageID)

\* The Pending count of a stored message is never less than the number of living
\* messengers that still owe it a decision, so the unsigned counter cannot wrap
\* and cannot reach zero while somebody has the message in its inbox.
PendingCoversReaders ==
  \A i \in Stored : Cardinality(Readers(i)) <= sentMessages[i].pending

\* The reader that finds a message gone finds it expired or taken; reading and
\* refusing by others never removes a message from under a reader.
NoReaderLeftBehind ==
  \A a \in Address : \A i \in ID :
    Owes(a, i) => i \in Stored \cup pruned \/ takes[i] > 0

--------------------------------------------------------------------------------
(* What the server promises *)

\* The life of message i, read off the queue, the map and what became of i.
statusOf(i) ==
  CASE i >= nextMessageID + Len(MessageQueue) -> "unsent"
    [] i >= nextMessageID /\ i < nextMessageID + Len(MessageQueue) -> "queued"
    [] i < nextMessageID /\ i \in Stored -> "open"
    [] i < nextMessageID /\ i \notin Stored /\ takes[i] > 0 -> "taken"
    [] i < nextMessageID /\ i \notin Stored /\ takes[i] = 0 /\ i \in pruned -> "expired"
    [] OTHER -> "read"

Board == INSTANCE MessageBoard
  WITH status  <- [i \in ID |-> statusOf(i)],
       readers <- [i \in ID |-> Readers(i)]

\* The server implements the board: messages are opened in the order of posting,
\* a task is taken by one reader while it is open, and a message is closed by
\* reading only when nobody who is still there has it before him.
ImplementsBoard == Board!Spec

--------------------------------------------------------------------------------
(* Liveness.  The runtime thread is scheduled whenever it can run; nothing is
   assumed of the clients and of spurious wakeups. *)

RuntimeFairness == WF_vars(RuntimeWait) /\ WF_vars(RuntimeLock)
                   /\ WF_vars(RuntimeDistribute) /\ WF_vars(RuntimeUnlock)

WaitFairness == \A a \in Address : WF_vars(StartWait(a)) /\ WF_vars(TimeoutWakeup(a))

FairSpec == Spec /\ RuntimeFairness /\ WaitFairness

Sent(i) == i < nextMessageID + Len(MessageQueue)

\* Whatever is in the queue while the runtime thread is awake is distributed.
AwakeDistributesAll ==
  \A i \in ID : (Sent(i) /\ runtime \in {"awake", "drain"}) ~> (i < nextMessageID)

\* A messenger that pauses with a timeout gets to see what is in its inbox.
TimedPauseEnds ==
  \A a \in Address :
    (phase[a] = "timedCheck" /\ waitingMessageIDs[a] # <<>>) ~> (phase[a] = "run")

\* "Interprocess Messengers can pause ( with or without a timeout ) until a
\* message is received" (CHANGES.DOC:7): a paused messenger with a message in
\* its inbox goes on.
PauseEndsOnMessage ==
  \A a \in Address :
    (phase[a] # "run" /\ waitingMessageIDs[a] # <<>>) ~> (phase[a] = "run")
================================================================================
