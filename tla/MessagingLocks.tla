----------------------------- MODULE MessagingLocks ----------------------------
(***************************************************************************)
(* The five global mutexes of src/src/InterProcessMessaging.cxx.  Messaging *)
(* takes a critical section as one step; here every lock, every unlock and  *)
(* every access to shared data between them is a step of its own, so that   *)
(* the order in which the mutexes are taken, and what is touched without    *)
(* one, can be checked.  What the data hold is left out: a branch on them   *)
(* is a choice.                                                             *)
(***************************************************************************)
EXTENDS Naturals, Sequences

CONSTANTS
  Thread,   \* the threads that own a messenger
  Runtime,  \* the thread of MessengerServerRuntime
  Free      \* no holder

ASSUME LocksAssumption == Runtime \notin Thread /\ Free \notin Thread \cup {Runtime}

VARIABLES
  holder,   \* per mutex: the thread that holds it
  todo      \* per thread: the rest of the call it executes

vars == <<holder, todo>>

Proc  == Thread \cup {Runtime}
Mutex == {"Queue", "Sent", "Messengers", "WaitingIDs", "Channels"}

\* A step of a call.  The inboxes are told apart by the thread they belong to.
lock(m)   == [op |-> "lock", on |-> m, of |-> Free]
unlock(m) == [op |-> "unlock", on |-> m, of |-> Free]
read(d)   == [op |-> "read", on |-> d, of |-> Free]
write(d)  == [op |-> "write", on |-> d, of |-> Free]
readInbox(t)  == [op |-> "read", on |-> "waitingMessageIDs", of |-> t]
writeInbox(t) == [op |-> "write", on |-> "waitingMessageIDs", of |-> t]

\* The heads of the loops of the runtime thread: while there is a message, and over all
\* messengers or those of the channel.
nextMessage   == [op |-> "while", on |-> "MessageQueue", of |-> Free]
nextOfAll     == [op |-> "for", on |-> "Messengers", of |-> Free]
nextOfChannel == [op |-> "for if", on |-> "Messengers", of |-> Free]

--------------------------------------------------------------------------------
(* The calls, as the order of their locks and accesses *)

DistributeMessage == <<lock("Queue"), write("MessageQueue"), unlock("Queue")>>

\* HasMessages, and pauseForMessage before it waits.
HasMessages(t) == <<lock("WaitingIDs"), readInbox(t), unlock("WaitingIDs")>>

GetMessage == <<lock("Sent"), write("sentMessages"), unlock("Sent")>>

AcceptMessage(t) ==
  <<lock("WaitingIDs"), readInbox(t)>> \o GetMessage
    \o <<writeInbox(t), unlock("WaitingIDs")>>

\* Mutant: the map is searched before its mutex is taken.
acceptUnlocked == <<write("sentMessages")>>

\* acceptTask and refuseTask.
acceptTask == <<lock("Sent"), write("sentMessages"), unlock("Sent")>>

isRegisteredOnChannel == <<lock("Channels"), read("RegisteredChannels"), unlock("Channels")>>

\* RegisterOnChannel and unRegisterAllChannels.
RegisterOnChannel == <<lock("Channels"), write("RegisteredChannels"), unlock("Channels")>>

\* The pointer returned is read from the vector after the unlock.
ReceiveActiveMessenger ==
  <<lock("Messengers"), write("Messengers"), unlock("Messengers"), read("Messengers")>>

DeactivateActiveMessenger == <<lock("Messengers"), write("Messengers"), unlock("Messengers")>>

ValidateMessenger == <<lock("Messengers"), read("Messengers"), unlock("Messengers")>>

Calls(t) == {DistributeMessage, HasMessages(t), AcceptMessage(t), acceptTask, RegisterOnChannel,
             ReceiveActiveMessenger, DeactivateActiveMessenger, ValidateMessenger}

\* Mutant: AlertMessageID takes the mutex its comment speaks of.
AlertUnderMutex(t) == <<lock("WaitingIDs"), writeInbox(t), unlock("WaitingIDs")>>

AlertMessageID(t) == <<writeInbox(t)>>

\* Mutant: the queue stays locked when the drain ends.
EndKeepsQueue == <<unlock("Sent")>>

EndOfDrain == <<unlock("Sent"), unlock("Queue")>>

MessengerServerRuntime == <<lock("Queue"), lock("Sent"), nextMessage>> \o EndOfDrain

\* PruneOldMessages goes over the map before the queue is locked again.
EndOfMessage ==
  <<unlock("Messengers"), write("sentMessages"), lock("Queue"), nextMessage>> \o EndOfDrain

\* One message, for everybody or for those of its channel.
DistributeOne(head) ==
  <<write("MessageQueue"), unlock("Queue"), write("sentMessages"), lock("Messengers"), head>>
    \o EndOfMessage

\* The messenger of t gets it and is counted.
Alert(t) == AlertMessageID(t) \o <<write("sentMessages")>>

--------------------------------------------------------------------------------
Init ==
  /\ holder = [m \in Mutex |-> Free]
  /\ todo = [p \in Proc |-> <<>>]

\* The heads of the loops read what they loop over.
Accesses == {"read", "write", "while", "for", "for if"}

At(p, ops) == todo[p] # <<>> /\ Head(todo[p]).op \in ops

Call(t) ==
  /\ todo[t] = <<>>
  /\ \E call \in Calls(t) : todo' = [todo EXCEPT ![t] = call]
  /\ UNCHANGED holder

\* The runtime thread wakes up.
WakeUp ==
  /\ todo[Runtime] = <<>>
  /\ todo' = [todo EXCEPT ![Runtime] = MessengerServerRuntime]
  /\ UNCHANGED holder

Lock(p) ==
  /\ At(p, {"lock"})
  /\ holder[Head(todo[p]).on] = Free
  /\ holder' = [holder EXCEPT ![Head(todo[p]).on] = p]
  /\ todo' = [todo EXCEPT ![p] = Tail(@)]

Unlock(p) ==
  /\ At(p, {"unlock"})
  /\ holder' = [holder EXCEPT ![Head(todo[p]).on] = Free]
  /\ todo' = [todo EXCEPT ![p] = Tail(@)]

Access(p) ==
  /\ At(p, {"read", "write"})
  /\ todo' = [todo EXCEPT ![p] = Tail(@)]
  /\ UNCHANGED holder

\* A loop ends, or its body is executed and its head comes again.
Leave == todo' = [todo EXCEPT ![Runtime] = Tail(@)]

\* The queue is empty, or has a message.
While ==
  /\ At(Runtime, {"while"})
  /\ \/ Leave
     \/ \E head \in {nextOfAll, nextOfChannel} : todo' = [todo EXCEPT ![Runtime] = DistributeOne(head)]
  /\ UNCHANGED holder

\* Which messengers there are is left out: any may come next, and again.  The origin of a
\* message is passed over, and who is not registered on its channel.
For ==
  /\ At(Runtime, {"for", "for if"})
  /\ LET head  == Head(todo[Runtime])
         asked == IF head = nextOfChannel THEN isRegisteredOnChannel ELSE <<>>
     IN \/ Leave
        \/ \E body \in {asked} \cup {asked \o Alert(t) : t \in Thread} :
             todo' = [todo EXCEPT ![Runtime] = body \o <<head>> \o EndOfMessage]
  /\ UNCHANGED holder

Next ==
  \/ \E t \in Thread : Call(t)
  \/ WakeUp
  \/ While \/ For
  \/ \E p \in Proc : Lock(p) \/ Unlock(p) \/ Access(p)

Spec == Init /\ [][Next]_vars

--------------------------------------------------------------------------------
(* Properties *)

\* From its step k on, s releases m, which it does not take before.
Releases(s, k, m) ==
  \E i \in k .. Len(s) : s[i] = unlock(m) /\ \A j \in k .. i - 1 : s[j] # lock(m)

\* The mutexes a thread holds are those that the rest of its call releases without
\* taking them first: on no path is a mutex kept, released twice or taken twice.
HeldIsReleased ==
  \A p \in Proc, m \in Mutex :
    /\ holder[m] = p <=> Releases(todo[p], 1, m)
    /\ \A i \in 1 .. Len(todo[p]) :
         /\ todo[p][i] = lock(m)   => Releases(todo[p], i + 1, m)
         /\ todo[p][i] = unlock(m) => ~Releases(todo[p], i + 1, m)

WaitsFor(p, q) == At(p, {"lock"}) /\ holder[Head(todo[p]).on] = q

\* The runtime thread takes Queue before Sent when it wakes up and Sent before
\* Queue inside the loop, and AcceptMessage takes Sent under WaitingIDs.  Still no
\* set of threads waits for mutexes that only threads of the set hold.
NoDeadlock ==
  \A S \in (SUBSET Proc) \ {{}} : \E p \in S : \A q \in S : ~WaitsFor(p, q)

\* p is about to write what q is about to read or write.
Race(p, q) ==
  /\ p # q /\ At(p, {"write"}) /\ At(q, Accesses)
  /\ Head(todo[p]).on = Head(todo[q]).on /\ Head(todo[p]).of = Head(todo[q]).of

\* "PRESUME THAT THE CALLER HAS LOCKED THE MessengerwaitingMessageIDsMutex"
\* (InterProcessMessaging.cxx:187): it has not, and AlertMessageID appends to an inbox while
\* its owner looks into it or erases from it.
AppendUnprotected(p, q) ==
  Head(todo[p]).on = "waitingMessageIDs" /\ Runtime \in {p, q} /\ holder["WaitingIDs"] # Runtime

\* ReceiveActiveMessenger returns Messengers.back() after the unlock (line 450).
BackUnprotected(p, q) ==
  At(q, {"read"}) /\ Head(todo[q]).on = "Messengers" /\ holder["Messengers"] # q

\* Those two are all the races there are: no other two threads are at the same queue, map,
\* inbox or list of messengers or channels at the same time with one of them writing.
OnlyTwoRaces == \A p, q \in Proc : Race(p, q) => AppendUnprotected(p, q) \/ BackUnprotected(p, q)
================================================================================
