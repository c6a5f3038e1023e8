------------------------------ MODULE ServerProofs ------------------------------
(* Theorems about Server, for every value of its constants. *)
EXTENDS Server, MessagingProofs

--------------------------------------------------------------------------------
(* The server on top of the bus *)

\* Every step of a thread of the server is a call of the bus or leaves it alone.
LEMMA StepOfTheBus == [ServerNext]_allVars => [Next]_vars
  <1> SUFFICES ASSUME [ServerNext]_allVars PROVE [Next]_vars
    OBVIOUS
  <1> USE ServerAssumption
  <1>1. Daemon \in Address /\ Thread \subseteq Address
    OBVIOUS
  <1>2. CASE Bus
    BY <1>1, <1>2 DEF Bus, RuntimeThread, Next, Client
  <1>3. CASE DaemonStep
    <2>1. CASE \/ NetworkDaemon \/ DaemonRead \/ DeleteDaemon
               \/ \E t \in Thread : ConstructThread(t) \/ StartThread(t)
      BY <1>1, <2>1
      DEF NetworkDaemon, DaemonRead, DeleteDaemon, ConstructThread, StartThread, Next, Client
    <2>2. CASE \E c \in Connection : IncomingConnection(c)
      BY <1>1, <2>2 DEF IncomingConnection, Next, Client
    <2>3. CASE \/ Fork \/ EnterNetworkLoop \/ DaemonNoMessage \/ NothingToAccept
               \/ \E c \in Connection : AcceptFails(c)
      BY <2>3 DEF Fork, EnterNetworkLoop, DaemonNoMessage, NothingToAccept, AcceptFails
    <2> QED BY <1>3, <2>1, <2>2, <2>3 DEF DaemonStep
  <1>4. ASSUME NEW t \in Thread, ThreadStep(t) PROVE [Next]_vars
    BY <1>1, <1>4
    DEF ThreadStep, LoopHead, ThreadRead, ThreadTake, ServeConnections, DeleteThread, Next, Client
  <1>5. CASE ConsoleQuit
    BY <1>5 DEF ConsoleQuit, Next
  <1>6. CASE Exit \/ \E c \in Connection : ClientArrives(c)
    BY <1>6 DEF Exit, ClientArrives
  <1>7. CASE UNCHANGED allVars
    BY <1>7 DEF allVars
  <1> QED BY <1>2, <1>3, <1>4, <1>5, <1>6, <1>7 DEF ServerNext

\* The daemon, the threads and the console together use the bus as its messengers do:
\* whatever is proved of the bus holds inside the server.
THEOREM UsesTheBus == ServerSpec => Spec
  <1>1. ServerInit => Init
    BY DEF ServerInit
  <1> QED BY <1>1, StepOfTheBus, PTL DEF ServerSpec, Spec

--------------------------------------------------------------------------------
(* The kinds of steps, as far as connections are concerned *)

bus == <<MessageQueue, nextMessageID, sentMessages, hand, takes>>

\* Nothing that is said below of connections, messages and counters changes.
Still ==
  UNCHANGED <<bus, MaxConnections, ConnectionList, conn, pointer, ActiveConnections>>

\* A message is distributed, read, or the shutdown is queued.
Passed ==
  /\ UNCHANGED <<takes, MaxConnections, ConnectionList, conn, pointer, ActiveConnections>>
  /\ RuntimeDistribute \/ (\E a \in Address : AcceptMessage(a)) \/ ShutdownServer

\* A client arrives or is turned away.
AtTheDoor ==
  /\ \E c \in Connection :
       /\ conn[c] \in {"away", "waiting"}
       /\ \E s \in {"waiting", "closed"} : conn' = [conn EXCEPT ![c] = s]
  /\ UNCHANGED <<bus, MaxConnections, ConnectionList, pointer, ActiveConnections>>

\* A thread ends connections of its own.
Ends(t) ==
  /\ \E done \in SUBSET ConnectionList[t] : Close(t, done)
  /\ UNCHANGED <<bus, MaxConnections, pointer, ActiveConnections>>

\* Every step of the server is of one of these kinds.
LEMMA ServerStepKinds ==
  [ServerNext]_allVars =>
    \/ Still \/ Passed \/ AtTheDoor
    \/ \E c \in Connection : IncomingConnection(c)
    \/ \E t \in Thread : ThreadTake(t) \/ Ends(t)
  <1> SUFFICES ASSUME [ServerNext]_allVars
               PROVE  \/ Still \/ Passed \/ AtTheDoor
                      \/ \E c \in Connection : IncomingConnection(c)
                      \/ \E t \in Thread : ThreadTake(t) \/ Ends(t)
    OBVIOUS
  <1>0. Daemon \in Address /\ Thread \subseteq Address
    BY ServerAssumption
  <1>1. CASE RuntimeThread
    BY <1>1 DEF RuntimeThread, Runtime, RuntimeWait, RuntimeSpuriousWakeup, RuntimeLock,
                RuntimeUnlock, RuntimeDistribute, network, settings, clients, history, Still, Passed, bus
  <1>2. CASE (Tick \/ \E t \in Thread : StartWait(t) \/ SpuriousWakeup(t)) /\ UNCHANGED network
    BY <1>2 DEF Tick, StartWait, SpuriousWakeup, network, settings, clients, server, history, Still, bus
  <1>3. CASE NetworkDaemon \/ DeleteDaemon \/ \E t \in Thread : ConstructThread(t) \/ StartThread(t)
    BY <1>3 DEF NetworkDaemon, DeleteDaemon, ConstructThread, StartThread, settings,
                ReceiveActiveMessenger, DeactivateActiveMessenger, RegisterOnChannel, server, history,
                Still, bus
  <1>4. CASE \/ Fork \/ EnterNetworkLoop \/ DaemonNoMessage \/ NothingToAccept
    BY <1>4 DEF Fork, EnterNetworkLoop, DaemonNoMessage, NothingToAccept, settings, vars, clients,
                server, history, Still, bus
  <1>5. ASSUME NEW c \in Connection, AcceptFails(c) PROVE AtTheDoor
    BY <1>5 DEF AcceptFails, settings, vars, clients, server, history, AtTheDoor, bus
  <1>6. CASE DaemonRead
    BY <1>0, <1>6 DEF DaemonRead, AcceptMessage, settings, Passed
  <1>7. ASSUME NEW t \in Thread, LoopHead(t) PROVE Still
    BY <1>7 DEF LoopHead, pauseForMessage, settings, vars, clients, server, history, Still, bus
  <1>8. ASSUME NEW t \in Thread, ThreadRead(t) PROVE Passed
    BY <1>0, <1>8 DEF ThreadRead, AcceptMessage, settings, Passed
  <1>9. ASSUME NEW t \in Thread, ServeConnections(t) PROVE Ends(t)
    BY <1>9 DEF ServeConnections, settings, vars, clients, server, history, Ends, bus
  <1>10. ASSUME NEW t \in Thread, DeleteThread(t) PROVE Ends(t)
    BY <1>10 DEF DeleteThread, DeactivateActiveMessenger, settings, server, history, Ends, bus
  <1>11. CASE ConsoleQuit
    BY <1>11 DEF ConsoleQuit, ShutdownServer, history, settings, Passed
  <1>12. CASE Exit
    BY <1>12 DEF Exit, settings, vars, clients, server, history, Still, bus
  <1>13. ASSUME NEW c \in Connection, ClientArrives(c) PROVE AtTheDoor
    BY <1>13 DEF ClientArrives, settings, vars, clients, server, history, AtTheDoor, bus
  <1>14. CASE UNCHANGED allVars
    BY <1>14 DEF allVars, network, settings, vars, clients, server, history, Still, bus
  <1> QED
    BY <1>1, <1>2, <1>3, <1>4, <1>5, <1>6, <1>7, <1>8, <1>9, <1>10, <1>11, <1>12, <1>13, <1>14
    DEF ServerNext, Bus, DaemonStep, ThreadStep

--------------------------------------------------------------------------------
(* Types *)

\* Every task, wherever it is, carries a connection.
TasksCarryConnections ==
  /\ \A k \in 1 .. Len(MessageQueue) :
       MessageQueue[k].task => pointer[nextMessageID + k - 1] \in Connection
  /\ \A i \in Stored : sentMessages[i].msg.task => pointer[i] \in Connection
  /\ \A a \in Address : hand[a] # NoTask => pointer[hand[a].id] \in Connection

\* As many connections are counted as messages were sent at most.
Posted == nextMessageID + Len(MessageQueue)
Counted == ActiveConnections <= Posted

TypeInv == ServerTypeOK /\ TasksCarryConnections /\ Counted

\* Before the program starts there are no messages and no connections.
LEMMA ServerTypeInit == ServerInit => TypeInv
  <1> SUFFICES ASSUME ServerInit PROVE TypeInv
    OBVIOUS
  <1>1. TypeOK
    BY TypeInit DEF ServerInit
  <1>2. Len(MessageQueue) = 0
    BY EmptySeq DEF ServerInit, Init
  <1>3. TasksCarryConnections /\ Counted
    BY <1>2 DEF ServerInit, Init, Stored, TasksCarryConnections, Counted, Posted
  <1> QED
    BY <1>1, <1>3, ServerAssumption, MessagingAssumption DEF ServerInit, ServerTypeOK, TypeInv

\* What sending a message does to the queue.
LEMMA Queued ==
  ASSUME TypeOK, NEW msg \in Message, DistributeMessage(msg)
  PROVE  /\ Len(MessageQueue) \in Nat /\ Posted \in ID
         /\ Len(MessageQueue') = Len(MessageQueue) + 1
         /\ MessageQueue'[Len(MessageQueue) + 1] = msg
         /\ \A k \in 1 .. Len(MessageQueue) : MessageQueue'[k] = MessageQueue[k]
         /\ nextMessageID' = nextMessageID /\ sentMessages' = sentMessages
  <1>1. MessageQueue \in Seq(Message) /\ MessageQueue' = Append(MessageQueue, msg)
    BY DEF TypeOK, DistributeMessage
  <1>2. /\ Len(MessageQueue) \in Nat
        /\ Len(MessageQueue') = Len(MessageQueue) + 1
        /\ MessageQueue'[Len(MessageQueue) + 1] = msg
        /\ \A k \in 1 .. Len(MessageQueue) : MessageQueue'[k] = MessageQueue[k]
    BY <1>1, AppendProperties, LenProperties
  <1>3. nextMessageID \in Nat /\ nextMessageID + Len(MessageQueue) < MaxMessages
    BY MessagingAssumption DEF TypeOK, DistributeMessage
  <1>4. Posted \in ID
    BY <1>2, <1>3, MessagingAssumption DEF Posted, ID
  <1> QED BY <1>2, <1>4 DEF DistributeMessage

\* Distributing, reading and deciding leave the tasks what they carry, and the
\* number of messages sent.
LEMMA CarriedOn ==
  ASSUME TypeOK, TasksCarryConnections, UNCHANGED pointer,
         \/ RuntimeDistribute
         \/ \E a \in Address : AcceptMessage(a) \/ acceptTask(a)
         \/ ShutdownServer
  PROVE  TasksCarryConnections' /\ Posted' >= Posted
  <1>1. CASE RuntimeDistribute
    <2>1. MessageQueue \in Seq(Message) /\ MessageQueue # <<>>
      BY <1>1 DEF RuntimeDistribute, TypeOK
    <2>2. /\ MessageQueue' = Tail(MessageQueue) /\ nextMessageID' = nextMessageID + 1
          /\ Head(MessageQueue) = MessageQueue[1]
          /\ Len(MessageQueue) \in Nat \ {0} /\ Len(MessageQueue') = Len(MessageQueue) - 1
          /\ \A k \in 1 .. Len(MessageQueue) - 1 : MessageQueue'[k] = MessageQueue[k + 1]
      BY <1>1, <2>1, HeadTail DEF RuntimeDistribute
    <2>3. Posted' = Posted
      BY <2>2 DEF Posted, TypeOK
    <2>4. ASSUME NEW k \in 1 .. Len(MessageQueue'), MessageQueue'[k].task
          PROVE  pointer[nextMessageID' + k - 1] \in Connection
      <3>1. k + 1 \in 1 .. Len(MessageQueue) /\ MessageQueue[k + 1].task
        BY <2>2, <2>4
      <3>2. pointer[nextMessageID + (k + 1) - 1] \in Connection
        BY <3>1 DEF TasksCarryConnections
      <3> QED BY <2>2, <3>2 DEF TypeOK
    <2>5. ASSUME NEW i \in Stored', sentMessages'[i].msg.task
          PROVE  pointer[i] \in Connection
      <3>1. CASE i = nextMessageID
        <4>1. sentMessages'[i].msg = MessageQueue[1]
          BY <1>1, <2>2, <3>1 DEF RuntimeDistribute
        <4>2. 1 \in 1 .. Len(MessageQueue) /\ MessageQueue[1].task
          BY <2>2, <2>5, <4>1
        <4>3. pointer[nextMessageID + 1 - 1] \in Connection
          BY <4>2 DEF TasksCarryConnections
        <4> QED BY <3>1, <4>3 DEF TypeOK
      <3>2. CASE i # nextMessageID
        <4>1. i \in Stored /\ sentMessages'[i] = sentMessages[i]
          BY <1>1, <3>2 DEF RuntimeDistribute, Stored
        <4> QED BY <2>5, <4>1 DEF TasksCarryConnections
      <3> QED BY <3>1, <3>2
    <2>6. \A a \in Address : hand'[a] # NoTask => pointer[hand'[a].id] \in Connection
      BY <1>1 DEF RuntimeDistribute, TasksCarryConnections
    <2>7. Posted' >= Posted
      <3>1. Posted \in Int
        BY <2>2 DEF Posted, TypeOK
      <3> QED BY <2>3, <3>1
    <2> QED BY <2>4, <2>5, <2>6, <2>7 DEF TasksCarryConnections
  <1>2. ASSUME NEW a \in Address, AcceptMessage(a)
        PROVE  TasksCarryConnections' /\ Posted' >= Posted
    <2> DEFINE id == Head(waitingMessageIDs[a])
    <2>1. id \in ID
      BY <1>2, HeadTail DEF AcceptMessage, TypeOK
    <2>2. /\ Stored' \subseteq Stored
          /\ \A i \in Stored' : sentMessages'[i].msg = sentMessages[i].msg
      <3>1. CASE sentMessages' = sentMessages
        BY <3>1 DEF Stored
      <3>2. CASE id \in Stored /\ DecrementPending(id)
        <4>1. /\ Stored' \subseteq Stored
              /\ \A i \in Stored' :
                   sentMessages'[i] = IF i = id THEN [sentMessages[i] EXCEPT !.pending = @ - 1]
                                                ELSE sentMessages[i]
          BY <2>1, <3>2, MapUpdates DEF TypeOK
        <4> QED BY <4>1 DEF TypeOK, Entry
      <3> QED BY <1>2, <3>1, <3>2 DEF AcceptMessage, GetMessage
    <2>3. ASSUME NEW b \in Address, hand'[b] # NoTask
          PROVE  pointer[hand'[b].id] \in Connection
      <3>1. CASE hand' = hand
        BY <2>3, <3>1 DEF TasksCarryConnections
      <3>2. CASE /\ id \in Stored /\ sentMessages[id].msg.task
                 /\ hand' = [hand EXCEPT ![a] = [id |-> id, origin |-> sentMessages[id].msg.origin]]
        <4>1. hand'[b].id = IF b = a THEN id ELSE hand[b].id
          BY <3>2 DEF TypeOK
        <4>2. b # a => hand[b] # NoTask
          BY <2>3, <3>2 DEF TypeOK
        <4> QED BY <3>2, <4>1, <4>2 DEF TasksCarryConnections
      <3> QED BY <1>2, <3>1, <3>2 DEF AcceptMessage, GetMessage
    <2>4. UNCHANGED <<MessageQueue, nextMessageID>>
      BY <1>2 DEF AcceptMessage
    <2>5. Posted \in Int
      BY LenProperties DEF Posted, TypeOK
    <2> QED BY <2>2, <2>3, <2>4, <2>5 DEF TasksCarryConnections, Posted
  <1>3. ASSUME NEW a \in Address, acceptTask(a)
        PROVE  TasksCarryConnections' /\ Posted' >= Posted
    <2>1. /\ hand' = [hand EXCEPT ![a] = NoTask] /\ UNCHANGED <<MessageQueue, nextMessageID>>
      BY <1>3 DEF acceptTask, Decide
    <2>2. /\ Stored' \subseteq Stored
          /\ \A i \in Stored' : sentMessages'[i] = sentMessages[i]
      BY <1>3, MapUpdates DEF acceptTask, FoundTask, TypeOK, Stored
    <2>3. \A b \in Address : hand'[b] # NoTask => hand'[b] = hand[b]
      BY <2>1 DEF TypeOK
    <2>4. Posted \in Int
      BY LenProperties DEF Posted, TypeOK
    <2> QED BY <2>1, <2>2, <2>3, <2>4 DEF TasksCarryConnections, Posted
  <1>4. CASE ShutdownServer
    <2> DEFINE msg == [origin |-> Nobody, task |-> FALSE, channel |-> All]
    <2>1. msg \in Message /\ DistributeMessage(msg) /\ hand' = hand
      BY <1>4 DEF ShutdownServer, Message, Origin, clients
    <2>2. /\ Len(MessageQueue) \in Nat /\ Posted \in ID
          /\ Len(MessageQueue') = Len(MessageQueue) + 1
          /\ MessageQueue'[Len(MessageQueue) + 1] = msg
          /\ \A k \in 1 .. Len(MessageQueue) : MessageQueue'[k] = MessageQueue[k]
          /\ nextMessageID' = nextMessageID /\ sentMessages' = sentMessages
      BY <2>1, Queued
    <2>3. ASSUME NEW k \in 1 .. Len(MessageQueue'), MessageQueue'[k].task
          PROVE  pointer[nextMessageID' + k - 1] \in Connection
      <3>1. k # Len(MessageQueue) + 1
        BY <2>2, <2>3
      <3>2. k \in 1 .. Len(MessageQueue)
        BY <2>2, <3>1
      <3> QED BY <2>2, <2>3, <3>2 DEF TasksCarryConnections
    <2>4. Posted' >= Posted
      BY <2>2 DEF Posted, TypeOK
    <2> QED BY <2>1, <2>2, <2>3, <2>4 DEF TasksCarryConnections, Stored
  <1> QED BY <1>1, <1>2, <1>3, <1>4

\* No step of the server breaks the types.
LEMMA ServerTypeNext == TypeInv /\ [ServerNext]_allVars => TypeInv'
  <1> SUFFICES ASSUME TypeInv, [ServerNext]_allVars PROVE TypeInv'
    OBVIOUS
  <1>0. TypeOK /\ TypeOK' /\ Daemon \in Address /\ Thread \subseteq Address
    BY StepOfTheBus, TypeNext, ServerAssumption DEF TypeInv, ServerTypeOK
  <1>p. Posted \in Nat /\ Posted' \in Nat /\ Posted' <= MaxMessages
    BY <1>0, LenProperties, MessagingAssumption DEF TypeOK, Posted
  \* The program counters.
  <1>1. /\ MaxConnections' \in Limits /\ process' \in {"one", "parent", "child"}
        /\ daemon' \in {"new", "start", "poll", "listen", "closing", "gone"}
        /\ thread' \in [Thread -> {"none", "constructed", "loop", "drain", "closing", "gone"}]
        /\ console' \in {"run", "quit", "exited"}
        /\ dropped' \subseteq ID
    <2> USE DEF TypeInv, ServerTypeOK, settings
    <2>1. CASE Bus
      BY <2>1 DEF Bus, RuntimeThread, network
    <2>2. CASE DaemonStep
      BY <2>2 DEF DaemonStep, NetworkDaemon, Fork, EnterNetworkLoop, DaemonRead, DaemonNoMessage,
                  NothingToAccept, DeleteDaemon, ConstructThread, StartThread, IncomingConnection, AcceptFails
    <2>3. ASSUME NEW t \in Thread, ThreadStep(t)
          PROVE  /\ MaxConnections' \in Limits /\ process' \in {"one", "parent", "child"}
                 /\ daemon' \in {"new", "start", "poll", "listen", "closing", "gone"}
                 /\ thread' \in [Thread -> {"none", "constructed", "loop", "drain", "closing", "gone"}]
                 /\ console' \in {"run", "quit", "exited"}
                 /\ dropped' \subseteq ID
      BY <2>3, <1>0 DEF ThreadStep, LoopHead, ThreadRead, ThreadTake, ServeConnections, DeleteThread, TypeOK
    <2>4. CASE ConsoleQuit \/ Exit \/ (\E c \in Connection : ClientArrives(c)) \/ UNCHANGED allVars
      BY <2>4 DEF ConsoleQuit, Exit, ClientArrives, allVars, network
    <2> QED BY <2>1, <2>2, <2>3, <2>4 DEF ServerNext
  \* The connections.
  <1>2. CASE Still
    <2>1. /\ ConnectionList' \in [Thread -> SUBSET Connection]
          /\ conn' \in [Connection -> {"away", "waiting", "posted", "open", "closed"}]
          /\ pointer' \in [ID -> Connection \cup {NoConnection}]
          /\ ActiveConnections' \in 0 .. MaxMessages
          /\ TasksCarryConnections' /\ Counted'
      BY <1>2 DEF Still, bus, TypeInv, ServerTypeOK, TasksCarryConnections, Counted, Posted, Stored
    <2> QED BY <1>0, <1>1, <2>1 DEF TypeInv, ServerTypeOK
  <1>3. CASE Passed
    <2>1. TasksCarryConnections' /\ Posted' >= Posted
      BY <1>0, <1>3, CarriedOn DEF Passed, TypeInv
    <2>2. /\ ConnectionList' \in [Thread -> SUBSET Connection]
          /\ conn' \in [Connection -> {"away", "waiting", "posted", "open", "closed"}]
          /\ pointer' \in [ID -> Connection \cup {NoConnection}]
          /\ ActiveConnections' \in 0 .. MaxMessages
          /\ Counted'
      BY <1>3, <1>p, <2>1 DEF Passed, TypeInv, ServerTypeOK, Counted
    <2> QED BY <1>0, <1>1, <2>1, <2>2 DEF TypeInv, ServerTypeOK
  <1>4. CASE AtTheDoor
    <2>1. /\ ConnectionList' \in [Thread -> SUBSET Connection]
          /\ conn' \in [Connection -> {"away", "waiting", "posted", "open", "closed"}]
          /\ pointer' \in [ID -> Connection \cup {NoConnection}]
          /\ ActiveConnections' \in 0 .. MaxMessages
          /\ TasksCarryConnections' /\ Counted'
      BY <1>4 DEF AtTheDoor, bus, TypeInv, ServerTypeOK, TasksCarryConnections, Counted, Posted, Stored
    <2> QED BY <1>0, <1>1, <2>1 DEF TypeInv, ServerTypeOK
  <1>5. ASSUME NEW c \in Connection, IncomingConnection(c) PROVE TypeInv'
    <2> DEFINE msg == [origin |-> Daemon, task |-> TRUE, channel |-> Network]
    <2>1. /\ msg \in Message /\ DistributeMessage(msg)
          /\ pointer' = [pointer EXCEPT ![Posted] = c] /\ hand' = hand
          /\ ConnectionList' = ConnectionList /\ conn' = [conn EXCEPT ![c] = "posted"]
          /\ ActiveConnections' = ActiveConnections + 1
      BY <1>0, <1>5, ServerAssumption
      DEF IncomingConnection, SendPointer, Message, Origin, clients, Posted
    <2>2. /\ Len(MessageQueue) \in Nat /\ Posted \in ID
          /\ Len(MessageQueue') = Len(MessageQueue) + 1
          /\ MessageQueue'[Len(MessageQueue) + 1] = msg
          /\ \A k \in 1 .. Len(MessageQueue) : MessageQueue'[k] = MessageQueue[k]
          /\ nextMessageID' = nextMessageID /\ sentMessages' = sentMessages
      BY <1>0, <2>1, Queued
    <2>3. /\ pointer' \in [ID -> Connection \cup {NoConnection}]
          /\ conn' \in [Connection -> {"away", "waiting", "posted", "open", "closed"}]
          /\ pointer'[Posted] = c
          /\ \A i \in ID : pointer[i] \in Connection => pointer'[i] \in Connection
      BY <2>1, <2>2 DEF TypeInv, ServerTypeOK
    <2>4. TasksCarryConnections'
      <3>1. ASSUME NEW k \in 1 .. Len(MessageQueue'), MessageQueue'[k].task
            PROVE  pointer'[nextMessageID' + k - 1] \in Connection
        <4>1. CASE k = Len(MessageQueue) + 1
          <5>1. nextMessageID' + k - 1 = Posted
            BY <4>1, <2>2, <1>0 DEF Posted, TypeOK
          <5> QED BY <5>1, <2>3
        <4>2. CASE k # Len(MessageQueue) + 1
          <5>1. k \in 1 .. Len(MessageQueue) /\ MessageQueue[k].task
            BY <2>2, <3>1, <4>2
          <5>2. pointer[nextMessageID + k - 1] \in Connection
            BY <5>1 DEF TypeInv, TasksCarryConnections
          <5>3. nextMessageID + k - 1 \in ID
            BY <1>0, <2>2, <5>1, MessagingAssumption DEF TypeOK, ID, Posted
          <5> QED BY <2>2, <2>3, <5>2, <5>3
        <4> QED BY <4>1, <4>2
      <3>2. \A i \in Stored' : sentMessages'[i].msg.task => pointer'[i] \in Connection
        BY <1>0, <2>2, <2>3 DEF TypeInv, TasksCarryConnections, Stored, TypeOK
      <3>3. \A a \in Address : hand'[a] # NoTask => pointer'[hand'[a].id] \in Connection
        <4> SUFFICES ASSUME NEW a \in Address, hand'[a] # NoTask
                     PROVE  pointer'[hand'[a].id] \in Connection
          OBVIOUS
        <4>1. hand' = hand
          BY <2>1
        <4>2. hand[a].id \in ID
          BY <1>0, <4>1 DEF TypeOK, Copy
        <4>3. pointer[hand[a].id] \in Connection
          BY <4>1 DEF TypeInv, TasksCarryConnections
        <4> QED BY <2>3, <4>1, <4>2, <4>3
      <3> QED BY <3>1, <3>2, <3>3 DEF TasksCarryConnections
    <2>5. ActiveConnections' \in 0 .. MaxMessages /\ Counted'
      <3>1. Posted' = Posted + 1
        BY <1>0, <2>2 DEF Posted, TypeOK
      <3> QED BY <1>p, <2>1, <3>1, MessagingAssumption DEF TypeInv, ServerTypeOK, Counted
    <2> QED BY <1>0, <1>1, <2>1, <2>3, <2>4, <2>5 DEF TypeInv, ServerTypeOK
  <1>6. ASSUME NEW t \in Thread, ThreadTake(t) PROVE TypeInv'
    <2>1. /\ acceptTask(t) /\ t \in Address
          /\ UNCHANGED <<pointer, ActiveConnections>>
      BY <1>0, <1>6 DEF ThreadTake
    <2>2. TasksCarryConnections' /\ Posted' >= Posted
      BY <1>0, <2>1, CarriedOn DEF TypeInv
    <2>3. pointer[hand[t].id] \in Connection
      BY <2>1 DEF acceptTask, Decide, TypeInv, TasksCarryConnections
    <2>4. /\ ConnectionList' \in [Thread -> SUBSET Connection]
          /\ conn' \in [Connection -> {"away", "waiting", "posted", "open", "closed"}]
      BY <1>6, <2>3 DEF ThreadTake, TypeInv, ServerTypeOK
    <2>5. /\ pointer' \in [ID -> Connection \cup {NoConnection}]
          /\ ActiveConnections' \in 0 .. MaxMessages /\ Counted'
      BY <1>p, <2>1, <2>2 DEF TypeInv, ServerTypeOK, Counted
    <2> QED BY <1>0, <1>1, <2>2, <2>4, <2>5 DEF TypeInv, ServerTypeOK
  <1>7. ASSUME NEW t \in Thread, Ends(t) PROVE TypeInv'
    <2>1. /\ ConnectionList' \in [Thread -> SUBSET Connection]
          /\ conn' \in [Connection -> {"away", "waiting", "posted", "open", "closed"}]
      BY <1>7 DEF Ends, Close, TypeInv, ServerTypeOK
    <2>2. /\ pointer' \in [ID -> Connection \cup {NoConnection}]
          /\ ActiveConnections' \in 0 .. MaxMessages
          /\ TasksCarryConnections' /\ Counted'
      BY <1>7 DEF Ends, bus, TypeInv, ServerTypeOK, TasksCarryConnections, Counted, Posted, Stored
    <2> QED BY <1>0, <1>1, <2>1, <2>2 DEF TypeInv, ServerTypeOK
  <1> QED BY <1>2, <1>3, <1>4, <1>5, <1>6, <1>7, ServerStepKinds

\* Every variable of the server keeps its type.
THEOREM ServerTypeCorrect == ServerSpec => []ServerTypeOK
  <1>1. TypeInv => ServerTypeOK
    BY DEF TypeInv
  <1> QED BY ServerTypeInit, ServerTypeNext, <1>1, PTL DEF ServerSpec

--------------------------------------------------------------------------------
(* One owner: a connection is created by one message, a message is taken once, and
   only who took it adds it to its list. *)

OnePointer ==
  \A i, j \in ID : pointer[i] \in Connection /\ pointer[i] = pointer[j] => i = j

\* A client that has a message is beyond the door; it is posted until it is taken.
Arrived == \A i \in ID : pointer[i] \in Connection => conn[pointer[i]] \notin {"away", "waiting"}
PostedUntilTaken ==
  \A i \in ID : pointer[i] \in Connection /\ takes[i] = 0 => conn[pointer[i]] = "posted"

PointerInv == OnePointer /\ Arrived /\ PostedUntilTaken

ListedIsOpen == \A t \in Thread : \A c \in ConnectionList[t] : conn[c] = "open"
ListedOnce   == \A t, u \in Thread : ConnectionList[t] \cap ConnectionList[u] # {} => t = u
OpenIsListed == \A c \in Connection : conn[c] = "open" => \E t \in Thread : c \in ConnectionList[t]

ListInv == ListedIsOpen /\ ListedOnce /\ OpenIsListed

OwnerInv == TypeInv /\ TakeInv /\ PointerInv /\ ListInv

\* A thread that got true from acceptTask holds a connection that was still posted; a
\* thread that did not leaves everything as it is.
LEMMA TakenOver ==
  ASSUME OwnerInv, NEW t \in Thread, ThreadTake(t)
  PROVE  \/ UNCHANGED <<takes, pointer, conn, ConnectionList, ActiveConnections, MaxConnections>>
         \/ \E id \in ID :
              /\ pointer[id] \in Connection /\ conn[pointer[id]] = "posted"
              /\ takes' = [takes EXCEPT ![id] = 1]
              /\ ConnectionList' = [ConnectionList EXCEPT ![t] = @ \cup {pointer[id]}]
              /\ conn' = [conn EXCEPT ![pointer[id]] = "open"]
              /\ UNCHANGED <<pointer, ActiveConnections, MaxConnections>>
  <1> DEFINE id == hand[t].id
  <1>1. /\ t \in Address /\ acceptTask(t) /\ hand[t] # NoTask
        /\ UNCHANGED <<pointer, ActiveConnections, MaxConnections>>
    BY ServerAssumption DEF ThreadTake, acceptTask, Decide, settings
  <1>2. id \in ID /\ pointer[id] \in Connection
    BY <1>1 DEF OwnerInv, TypeInv, ServerTypeOK, TypeOK, Copy, TasksCarryConnections
  <1>3. takes \in [ID -> Nat]
    BY DEF OwnerInv, TypeInv, ServerTypeOK, TypeOK
  <1>4. CASE takes' = takes
    <2>1. ~Took(id)
      BY <1>2, <1>3, <1>4 DEF Took
    <2> QED BY <1>1, <1>4, <2>1 DEF ThreadTake
  <1>5. CASE id \in Stored /\ takes' = [takes EXCEPT ![id] = @ + 1]
    <2>1. takes[id] = 0
      BY <1>2, <1>5 DEF OwnerInv, TakeInv, TakenIsGone
    <2>2. Took(id) /\ takes' = [takes EXCEPT ![id] = 1]
      BY <1>2, <1>3, <1>5, <2>1 DEF Took
    <2>3. conn[pointer[id]] = "posted"
      BY <1>2, <2>1 DEF OwnerInv, PointerInv, PostedUntilTaken
    <2>4. /\ ConnectionList' = [ConnectionList EXCEPT ![t] = @ \cup {pointer[id]}]
          /\ conn' = [conn EXCEPT ![pointer[id]] = "open"]
      BY <2>2 DEF ThreadTake
    <2> QED BY <1>1, <1>2, <2>2, <2>3, <2>4
  <1> QED BY <1>1, <1>4, <1>5 DEF acceptTask, FoundTask

\* Before the program starts nobody has a connection.
LEMMA OwnerInit == ServerInit => OwnerInv
  <1> SUFFICES ASSUME ServerInit PROVE PointerInv /\ ListInv
    BY ServerTypeInit, TakeInit DEF ServerInit, OwnerInv
  <1> QED
    BY ServerAssumption
    DEF ServerInit, PointerInv, OnePointer, Arrived, PostedUntilTaken, ListInv, ListedIsOpen,
        ListedOnce, OpenIsListed

\* No step gives a connection a second message or a second owner.
LEMMA OwnerNext == OwnerInv /\ [ServerNext]_allVars => OwnerInv'
  <1> SUFFICES ASSUME OwnerInv, [ServerNext]_allVars PROVE PointerInv' /\ ListInv'
    BY StepOfTheBus, ServerTypeNext, TakeNext DEF OwnerInv
  <1> USE DEF PointerInv, OnePointer, Arrived, PostedUntilTaken
  <1> USE DEF ListInv, ListedIsOpen, ListedOnce, OpenIsListed
  <1>0. /\ pointer \in [ID -> Connection \cup {NoConnection}]
        /\ conn \in [Connection -> {"away", "waiting", "posted", "open", "closed"}]
        /\ ConnectionList \in [Thread -> SUBSET Connection]
        /\ takes \in [ID -> Nat] /\ TypeOK
        /\ PointerInv /\ ListInv
    BY DEF OwnerInv, TypeInv, ServerTypeOK, TypeOK
  <1>1. CASE Still
    BY <1>0, <1>1 DEF Still, bus
  <1>2. CASE Passed
    BY <1>0, <1>2 DEF Passed
  <1>3. CASE AtTheDoor
    BY <1>0, <1>3 DEF AtTheDoor, bus
  <1>4. ASSUME NEW c \in Connection, IncomingConnection(c) PROVE PointerInv' /\ ListInv'
    <2> DEFINE msg == [origin |-> Daemon, task |-> TRUE, channel |-> Network]
    <2>1. /\ msg \in Message /\ DistributeMessage(msg) /\ conn[c] = "waiting"
          /\ pointer' = [pointer EXCEPT ![Posted] = c]
          /\ conn' = [conn EXCEPT ![c] = "posted"]
          /\ UNCHANGED <<takes, ConnectionList>>
      BY <1>4, ServerAssumption
      DEF IncomingConnection, SendPointer, Message, Origin, clients, Posted, history
    <2>2. Posted \in ID
      BY <1>0, <2>1, Queued
    <2>3. PointerInv'
      BY <1>0, <2>1, <2>2
    <2>4. ListInv'
      BY <1>0, <2>1
    <2> QED BY <2>3, <2>4
  <1>5. ASSUME NEW t \in Thread, ThreadTake(t) PROVE PointerInv' /\ ListInv'
    <2>1. CASE UNCHANGED <<takes, pointer, conn, ConnectionList, ActiveConnections, MaxConnections>>
      BY <1>0, <2>1
    <2>2. ASSUME NEW id \in ID,
                 pointer[id] \in Connection, conn[pointer[id]] = "posted",
                 takes' = [takes EXCEPT ![id] = 1],
                 ConnectionList' = [ConnectionList EXCEPT ![t] = @ \cup {pointer[id]}],
                 conn' = [conn EXCEPT ![pointer[id]] = "open"],
                 UNCHANGED pointer
          PROVE  PointerInv' /\ ListInv'
      <3>1. PointerInv'
        BY <1>0, <2>2
      <3>2. \A u \in Thread : pointer[id] \notin ConnectionList[u]
        BY <1>0, <2>2
      <3>3. ListInv'
        BY <1>0, <2>2, <3>2
      <3> QED BY <3>1, <3>3
    <2> QED BY <1>5, <2>1, <2>2, TakenOver
  <1>6. ASSUME NEW t \in Thread, Ends(t) PROVE PointerInv' /\ ListInv'
    <2> PICK done \in SUBSET ConnectionList[t] : Close(t, done)
      BY <1>6 DEF Ends
    <2>1. /\ UNCHANGED <<takes, pointer>> /\ done \subseteq ConnectionList[t]
          /\ ConnectionList' = [ConnectionList EXCEPT ![t] = @ \ done]
          /\ conn' = [c \in Connection |-> IF c \in done THEN "closed" ELSE conn[c]]
      BY <1>6 DEF Ends, Close, bus
    <2>2. PointerInv'
      BY <1>0, <2>1
    <2>3. ListInv'
      BY <1>0, <2>1
    <2> QED BY <2>2, <2>3
  <1> QED BY <1>1, <1>2, <1>3, <1>4, <1>5, <1>6, ServerStepKinds

\* However many threads find the task in their inbox, one of them has the connection
\* in its list, as long as it is open, and no other thread has it at any time.
THEOREM OneOwnerCorrect == ServerSpec => []OneOwner
  <1>1. OwnerInv => OneOwner
    <2> SUFFICES ASSUME OwnerInv, NEW c \in Connection
                 PROVE  Cardinality({t \in Thread : c \in ConnectionList[t]}) =
                          IF conn[c] = "open" THEN 1 ELSE 0
      BY DEF OneOwner
    <2> USE DEF OwnerInv, ListInv, ListedIsOpen, ListedOnce, OpenIsListed
    <2>1. CASE conn[c] = "open"
      <3>1. PICK t \in Thread : c \in ConnectionList[t]
        BY <2>1
      <3>2. {u \in Thread : c \in ConnectionList[u]} = {t}
        BY <3>1
      <3> QED BY <2>1, <3>2, FS_Singleton
    <2>2. CASE conn[c] # "open"
      <3>1. {u \in Thread : c \in ConnectionList[u]} = {}
        BY <2>2
      <3> QED BY <2>2, <3>1, FS_EmptySet
    <2> QED BY <2>1, <2>2
  <1> QED BY OwnerInit, OwnerNext, <1>1, PTL DEF ServerSpec

--------------------------------------------------------------------------------
(* The limit: the counter that is compared with it counts every connection *)

CountInv ==
  /\ Cardinality(Open) <= ActiveConnections
  /\ MaxConnections # 0 => ActiveConnections <= MaxConnections

LimitInv == OwnerInv /\ CountInv

\* At the start there is nothing to count.
LEMMA LimitInit == ServerInit => LimitInv
  <1> SUFFICES ASSUME ServerInit PROVE CountInv
    BY OwnerInit DEF LimitInv
  <1>1. Open = {} /\ ActiveConnections = 0 /\ MaxConnections \in Nat
    BY ServerAssumption DEF ServerInit, Open
  <1> QED BY <1>1, FS_EmptySet DEF CountInv

\* A connection is counted in the step that posts it, and only below the limit.
LEMMA LimitNext == LimitInv /\ [ServerNext]_allVars => LimitInv'
  <1> SUFFICES ASSUME LimitInv, [ServerNext]_allVars PROVE CountInv'
    BY OwnerNext DEF LimitInv
  <1>0. /\ conn \in [Connection -> {"away", "waiting", "posted", "open", "closed"}]
        /\ ConnectionList \in [Thread -> SUBSET Connection]
        /\ ActiveConnections \in Nat /\ MaxConnections \in Nat
        /\ CountInv /\ ListedIsOpen /\ OwnerInv
    BY ServerAssumption DEF LimitInv, OwnerInv, ListInv, TypeInv, ServerTypeOK
  <1>1. IsFiniteSet(Open) /\ Cardinality(Open) \in Nat
    <2>1. Open \in SUBSET Connection
      BY DEF Open
    <2> QED BY <2>1, ServerAssumption, FS_Subset, FS_CardinalityType
  <1>2. ASSUME Open' \in SUBSET Open, UNCHANGED <<ActiveConnections, MaxConnections>>
        PROVE  CountInv'
    <2>1. Cardinality(Open') <= Cardinality(Open) /\ Cardinality(Open') \in Nat
      BY <1>1, <1>2, FS_Subset, FS_CardinalityType
    <2> QED BY <1>0, <1>1, <1>2, <2>1 DEF CountInv
  <1>3. CASE Still \/ Passed
    <2>1. Open' \in SUBSET Open /\ UNCHANGED <<ActiveConnections, MaxConnections>>
      BY <1>3 DEF Still, Passed, Open
    <2> QED BY <1>2, <2>1
  <1>4. CASE AtTheDoor
    <2>1. Open' \in SUBSET Open /\ UNCHANGED <<ActiveConnections, MaxConnections>>
      BY <1>0, <1>4 DEF AtTheDoor, Open
    <2> QED BY <1>2, <2>1
  <1>5. ASSUME NEW c \in Connection, IncomingConnection(c) PROVE CountInv'
    <2>1. /\ conn[c] = "waiting" /\ conn' = [conn EXCEPT ![c] = "posted"]
          /\ ActiveConnections' = ActiveConnections + 1 /\ MaxConnections' = MaxConnections
          /\ MaxConnections = 0 \/ ActiveConnections # MaxConnections
      BY <1>5 DEF IncomingConnection, MayAccept, settings
    <2>2. Open' = Open \cup {c} /\ c \notin Open
      BY <1>0, <2>1 DEF Open
    <2>3. Cardinality(Open') = Cardinality(Open) + 1
      BY <1>1, <2>2, FS_AddElement
    <2> QED BY <1>0, <1>1, <2>1, <2>3 DEF CountInv
  <1>6. ASSUME NEW t \in Thread, ThreadTake(t) PROVE CountInv'
    <2>1. CASE UNCHANGED <<takes, pointer, conn, ConnectionList, ActiveConnections, MaxConnections>>
      BY <1>2, <2>1 DEF Open
    <2>2. ASSUME NEW id \in ID,
                 pointer[id] \in Connection, conn[pointer[id]] = "posted",
                 conn' = [conn EXCEPT ![pointer[id]] = "open"],
                 UNCHANGED <<ActiveConnections, MaxConnections>>
          PROVE  CountInv'
      <3>1. Open' \in SUBSET Open
        BY <1>0, <2>2 DEF Open
      <3> QED BY <1>2, <2>2, <3>1
    <2> QED BY <1>0, <1>6, <2>1, <2>2, TakenOver
  <1>7. ASSUME NEW t \in Thread, Ends(t) PROVE CountInv'
    <2>1. Open' \in SUBSET Open /\ UNCHANGED <<ActiveConnections, MaxConnections>>
      BY <1>0, <1>7 DEF Ends, Close, Open
    <2> QED BY <1>2, <2>1
  <1> QED BY <1>3, <1>4, <1>5, <1>6, <1>7, ServerStepKinds

\* Never more connections than -maxconnections allows, in the queue or open.
THEOREM LimitKeptCorrect == ServerSpec => []LimitKept
  <1>1. LimitInv => LimitKept
    <2> SUFFICES ASSUME LimitInv, MaxConnections # 0
                 PROVE  Cardinality(Open) <= MaxConnections
      BY DEF LimitKept
    <2>1. Open \in SUBSET Connection
      BY DEF Open
    <2>2. /\ Cardinality(Open) \in Nat
          /\ ActiveConnections \in Nat /\ MaxConnections \in Nat
      BY <2>1, ServerAssumption, FS_Subset, FS_CardinalityType
      DEF LimitInv, OwnerInv, TypeInv, ServerTypeOK
    <2> QED BY <2>2 DEF LimitInv, CountInv
  <1> QED BY LimitInit, LimitNext, <1>1, PTL DEF ServerSpec

--------------------------------------------------------------------------------
(* No connection that was queued before the shutdown is forgotten.  The argument follows *)
(* a task through the bus: every thread that may still read it has it in its inbox or in *)
(* its hand until one of them takes it, and no thread gets as far as the shutdown        *)
(* broadcast with a task in front of it undecided.                                       *)

\* No messenger, message, thread or list changes; a client may come to the door or leave it,
\* the daemon goes from poll to its listeners or back, and the console may exit.
AtRest ==
  /\ UNCHANGED <<Messengers, RegisteredChannels, waitingMessageIDs, hand, MessageQueue,
                 sentMessages, nextMessageID, takes, pruned, readUpTo,
                 thread, ConnectionList, pointer, dropped>>
  /\ daemon' = daemon \/ (daemon \in {"poll", "listen"} /\ daemon' \in {"poll", "listen"})
  /\ console' = console \/ (console = "quit" /\ console' = "exited")
  /\ \/ conn' = conn
     \/ \E c \in Connection : /\ conn[c] \in {"away", "waiting"}
                              /\ \E s \in {"waiting", "closed"} : conn' = [conn EXCEPT ![c] = s]

\* Every step of the server is one of these.
LEMMA HandOverSteps ==
  [ServerNext]_allVars =>
    \/ AtRest
    \/ RuntimeDistribute /\ UNCHANGED network
    \/ ConsoleQuit \/ NetworkDaemon \/ EnterNetworkLoop \/ DaemonRead \/ DeleteDaemon
    \/ \E c \in Connection : IncomingConnection(c)
    \/ \E t \in Thread : ConstructThread(t) \/ StartThread(t) \/ ThreadStep(t)
  <1> SUFFICES ASSUME [ServerNext]_allVars
               PROVE  \/ AtRest
                      \/ RuntimeDistribute /\ UNCHANGED network
                      \/ ConsoleQuit \/ NetworkDaemon \/ EnterNetworkLoop \/ DaemonRead
                      \/ DeleteDaemon
                      \/ \E c \in Connection : IncomingConnection(c)
                      \/ \E t \in Thread : ConstructThread(t) \/ StartThread(t) \/ ThreadStep(t)
    OBVIOUS
  <1>1. CASE RuntimeThread
    BY <1>1 DEF RuntimeThread, Runtime, RuntimeWait, RuntimeSpuriousWakeup, RuntimeLock,
                RuntimeUnlock, network, settings, clients, history, AtRest
  <1>2. CASE (Tick \/ \E t \in Thread : StartWait(t) \/ SpuriousWakeup(t)) /\ UNCHANGED network
    BY <1>2 DEF Tick, StartWait, SpuriousWakeup, network, settings, clients, server, history, AtRest
  <1>3. CASE Fork \/ DaemonNoMessage \/ NothingToAccept
    BY <1>3 DEF Fork, DaemonNoMessage, NothingToAccept, settings, vars, clients, server, history,
                AtRest
  <1>4. ASSUME NEW c \in Connection, AcceptFails(c) PROVE AtRest
    BY <1>4 DEF AcceptFails, settings, vars, clients, server, history, AtRest
  <1>5. CASE Exit
    BY <1>5 DEF Exit, settings, vars, clients, server, history, AtRest
  <1>6. ASSUME NEW c \in Connection, ClientArrives(c) PROVE AtRest
    BY <1>6 DEF ClientArrives, settings, vars, clients, server, history, AtRest
  <1>7. CASE UNCHANGED allVars
    BY <1>7 DEF allVars, network, settings, vars, clients, server, history, AtRest
  <1> QED
    BY <1>1, <1>2, <1>3, <1>4, <1>5, <1>6, <1>7 DEF ServerNext, Bus, DaemonStep

\* Reading a message and accepting a task take messages out of the map and put none in.
LEMMA MapShrinks ==
  ASSUME TypeOK, NEW a \in Address, AcceptMessage(a) \/ acceptTask(a)
  PROVE  /\ Stored' \subseteq Stored
         /\ \A i \in Stored' : sentMessages'[i].msg = sentMessages[i].msg
         /\ UNCHANGED <<MessageQueue, nextMessageID, pruned, Messengers, RegisteredChannels>>
  <1>1. ASSUME AcceptMessage(a)
        PROVE  /\ Stored' \subseteq Stored
               /\ \A i \in Stored' : sentMessages'[i].msg = sentMessages[i].msg
    <2> DEFINE id == Head(waitingMessageIDs[a])
    <2>1. id \in ID
      BY <1>1, HeadTail DEF AcceptMessage, TypeOK
    <2>2. CASE sentMessages' = sentMessages
      BY <2>2 DEF Stored
    <2>3. CASE id \in Stored /\ DecrementPending(id)
      <3>1. /\ Stored' \subseteq Stored
            /\ \A i \in Stored' :
                 sentMessages'[i] = IF i = id THEN [sentMessages[i] EXCEPT !.pending = @ - 1]
                                              ELSE sentMessages[i]
        BY <2>1, <2>3, MapUpdates DEF TypeOK
      <3> QED BY <3>1 DEF TypeOK, Entry
    <2> QED BY <1>1, <2>2, <2>3 DEF AcceptMessage, GetMessage
  <1>2. ASSUME acceptTask(a)
        PROVE  /\ Stored' \subseteq Stored
               /\ \A i \in Stored' : sentMessages'[i].msg = sentMessages[i].msg
    BY <1>2, MapUpdates DEF acceptTask, FoundTask, TypeOK, Stored
  <1> QED BY <1>1, <1>2 DEF AcceptMessage, acceptTask, Decide

--------------------------------------------------------------------------------
(* The messages: there are the tasks of the daemon and one shutdown broadcast *)

Broadcast(i) == Sent(i) /\ pointer[i] = NoConnection

TaskMessage     == [origin |-> Daemon, task |-> TRUE, channel |-> Network]
ShutdownMessage == [origin |-> Nobody, task |-> FALSE, channel |-> All]
MessageOf(i)    == IF pointer[i] = NoConnection THEN ShutdownMessage ELSE TaskMessage

\* What is under an ID tells the pointer, in the queue and in the map.
TwoMessages ==
  /\ \A k \in 1 .. Len(MessageQueue) : MessageQueue[k] = MessageOf(nextMessageID + k - 1)
  /\ \A i \in Stored : sentMessages[i].msg = MessageOf(i)
  /\ \A i \in ID : pointer[i] # NoConnection => Sent(i)

\* The console asks for the shutdown once.
OneBroadcast ==
  /\ console = "run" => \A i \in ID : ~Broadcast(i)
  /\ \A i, j \in ID : Broadcast(i) /\ Broadcast(j) => i = j

MessageInv == OwnerInv /\ TwoMessages /\ OneBroadcast

\* A message is sent under the number of messages sent before.
LEMMA SentAfterSending ==
  ASSUME TypeOK, NEW msg \in Message, DistributeMessage(msg), NEW i \in ID
  PROVE  Sent(i)' <=> Sent(i) \/ i = Posted
  <1>1. /\ Len(MessageQueue) \in Nat /\ Posted \in ID
        /\ Len(MessageQueue') = Len(MessageQueue) + 1 /\ nextMessageID' = nextMessageID
    BY Queued
  <1>2. nextMessageID \in Int /\ i \in Int
    BY MessagingAssumption DEF TypeOK, ID
  <1> QED BY <1>1, <1>2 DEF Sent, Posted

\* Distributing a message does not send another one.
LEMMA SentAfterDistributing ==
  ASSUME TypeOK, RuntimeDistribute, NEW i \in ID
  PROVE  Sent(i)' <=> Sent(i)
  <1>1. MessageQueue \in Seq(Message) /\ MessageQueue # <<>>
    BY DEF RuntimeDistribute, TypeOK
  <1>2. /\ MessageQueue' = Tail(MessageQueue) /\ nextMessageID' = nextMessageID + 1
        /\ Len(MessageQueue) \in Nat \ {0} /\ Len(MessageQueue') = Len(MessageQueue) - 1
    BY <1>1, HeadTail DEF RuntimeDistribute
  <1>3. nextMessageID \in Int /\ i \in Int
    BY MessagingAssumption DEF TypeOK, ID
  <1> QED BY <1>2, <1>3 DEF Sent

\* Before the program starts nothing has been sent.
LEMMA MessageInit == ServerInit => MessageInv
  <1> SUFFICES ASSUME ServerInit PROVE TwoMessages /\ OneBroadcast
    BY OwnerInit DEF MessageInv
  <1>1. /\ Len(MessageQueue) = 0 /\ Stored = {} /\ nextMessageID = 0
        /\ \A i \in ID : pointer[i] = NoConnection
    BY EmptySeq DEF ServerInit, Init, Stored
  <1>2. \A i \in ID : ~Sent(i)
    BY <1>1, MessagingAssumption DEF Sent, ID
  <1> QED BY <1>1, <1>2 DEF TwoMessages, OneBroadcast, Broadcast

\* Appending a message of the right kind keeps the queue and the map what they tell.
LEMMA SendingKeepsMessages ==
  ASSUME MessageInv, NEW msg \in Message, DistributeMessage(msg),
         \A i \in ID : i # Posted => pointer'[i] = pointer[i],
         msg = IF pointer'[Posted] = NoConnection THEN ShutdownMessage ELSE TaskMessage
  PROVE  TwoMessages'
  <1>1. /\ TypeOK /\ TakenIsGone /\ TwoMessages
        /\ nextMessageID \in Int /\ MaxMessages \in Int
    BY MessagingAssumption DEF MessageInv, OwnerInv, TypeInv, TakeInv, ServerTypeOK, TypeOK
  <1>2. /\ Len(MessageQueue) \in Nat /\ Posted \in ID
        /\ Len(MessageQueue') = Len(MessageQueue) + 1
        /\ MessageQueue'[Len(MessageQueue) + 1] = msg
        /\ \A k \in 1 .. Len(MessageQueue) : MessageQueue'[k] = MessageQueue[k]
        /\ nextMessageID' = nextMessageID /\ sentMessages' = sentMessages
    BY <1>1, Queued
  <1>3. \A i \in ID : i # Posted => MessageOf(i)' = MessageOf(i)
    BY DEF MessageOf
  <1>4. ASSUME NEW k \in 1 .. Len(MessageQueue')
        PROVE  MessageQueue'[k] = MessageOf(nextMessageID + k - 1)'
    <2>1. CASE k = Len(MessageQueue) + 1
      <3>1. PICK p \in ID : p = Posted
        BY <1>2
      <3>2. nextMessageID' + k - 1 = p
        BY <1>1, <1>2, <2>1, <3>1 DEF Posted
      <3>3. MessageOf(p)' = msg
        BY <3>1 DEF MessageOf
      <3> QED BY <1>2, <2>1, <3>2, <3>3 DEF MessageOf
    <2>2. CASE k # Len(MessageQueue) + 1
      <3>1. k \in 1 .. Len(MessageQueue)
        BY <1>2, <2>2
      <3>2. PICK i \in ID : i = nextMessageID + k - 1
        BY <1>1, <1>2, <3>1 DEF Posted, ID, TypeOK
      <3>3. i # Posted
        BY <1>1, <1>2, <3>1, <3>2 DEF Posted
      <3>4. MessageQueue[k] = MessageOf(i) /\ MessageOf(i)' = MessageOf(i)
        BY <1>1, <1>3, <3>1, <3>2, <3>3 DEF TwoMessages
      <3> QED BY <1>2, <3>1, <3>2, <3>4 DEF MessageOf
    <2> QED BY <2>1, <2>2
  <1>5. ASSUME NEW i \in Stored' PROVE sentMessages'[i].msg = MessageOf(i)'
    <2>1. i \in Stored /\ i \in ID
      BY <1>1, <1>2 DEF Stored, TypeOK
    <2>2. i # Posted
      BY <1>1, <1>2, <2>1 DEF TakenIsGone, Posted, ID
    <2> QED BY <1>1, <1>2, <1>3, <2>1, <2>2 DEF TwoMessages
  <1>6. ASSUME NEW i \in ID, pointer'[i] # NoConnection PROVE Sent(i)'
    BY <1>1, <1>6, SentAfterSending DEF TwoMessages
  <1> QED BY <1>4, <1>5, <1>6 DEF TwoMessages

\* Most steps send nothing and put nothing into the map.
Calm ==
  /\ UNCHANGED <<MessageQueue, nextMessageID, pointer>>
  /\ Stored' \subseteq Stored
  /\ \A i \in Stored' : sentMessages'[i].msg = sentMessages[i].msg
  /\ console' = console \/ (console = "quit" /\ console' = "exited")

\* The others distribute a message, queue a task or queue the broadcast.
LEMMA CalmSteps ==
  ASSUME TypeOK, [ServerNext]_allVars
  PROVE  \/ Calm
         \/ RuntimeDistribute /\ UNCHANGED network
         \/ ConsoleQuit
         \/ \E c \in Connection : IncomingConnection(c)
  <1>0. Daemon \in Address /\ Thread \subseteq Address
    BY ServerAssumption
  <1>1. CASE AtRest
    BY <1>1 DEF AtRest, Calm, Stored
  <1>2. ASSUME NEW a \in Address, AcceptMessage(a) \/ acceptTask(a), UNCHANGED <<pointer, console>>
        PROVE  Calm
    BY <1>2, MapShrinks DEF Calm
  <1>3. CASE DaemonRead
    BY <1>0, <1>2, <1>3 DEF DaemonRead
  <1>4. CASE NetworkDaemon \/ EnterNetworkLoop \/ DeleteDaemon
    BY <1>4 DEF NetworkDaemon, EnterNetworkLoop, DeleteDaemon, ReceiveActiveMessenger,
                DeactivateActiveMessenger, vars, server, history, Calm, Stored
  <1>5. ASSUME NEW t \in Thread, ConstructThread(t) \/ StartThread(t) PROVE Calm
    BY <1>5 DEF ConstructThread, StartThread, ReceiveActiveMessenger, RegisterOnChannel, server,
                history, Calm, Stored
  <1>6. ASSUME NEW t \in Thread, ThreadRead(t) \/ ThreadTake(t) PROVE Calm
    BY <1>0, <1>2, <1>6 DEF ThreadRead, ThreadTake
  <1>7. ASSUME NEW t \in Thread, LoopHead(t) \/ ServeConnections(t) \/ DeleteThread(t) PROVE Calm
    BY <1>7 DEF LoopHead, ServeConnections, DeleteThread, pauseForMessage,
                DeactivateActiveMessenger, vars, server, history, Calm, Stored
  <1> QED BY <1>1, <1>3, <1>4, <1>5, <1>6, <1>7, HandOverSteps DEF ThreadStep

\* A broadcast that was sent stays one, and only the console sends one.
LEMMA BroadcastAfter ==
  ASSUME MessageInv, [ServerNext]_allVars, NEW i \in ID
  PROVE  /\ Broadcast(i) => Broadcast(i)'
         /\ ~ConsoleQuit => (Broadcast(i)' => Broadcast(i))
         /\ pointer[i] # NoConnection => pointer'[i] = pointer[i]
  <1>0. /\ TypeOK /\ TwoMessages /\ pointer \in [ID -> Connection \cup {NoConnection}]
        /\ NoConnection \notin Connection
    BY ServerAssumption DEF MessageInv, OwnerInv, TypeInv, ServerTypeOK
  <1>1. CASE Calm
    BY <1>1 DEF Calm, Broadcast, Sent
  <1>2. CASE RuntimeDistribute /\ UNCHANGED network
    BY <1>0, <1>2, SentAfterDistributing DEF network, Broadcast
  <1>3. CASE ConsoleQuit
    <2>1. UNCHANGED pointer
      BY <1>3 DEF ConsoleQuit
    <2>2. Sent(i) => Sent(i)'
      BY <1>0, <1>3, SentAfterSending DEF ConsoleQuit, ShutdownServer, Message, Origin
    <2> QED BY <1>3, <2>1, <2>2 DEF Broadcast
  <1>4. ASSUME NEW c \in Connection, IncomingConnection(c)
        PROVE  /\ Broadcast(i) => Broadcast(i)'
               /\ Broadcast(i)' => Broadcast(i)
               /\ pointer[i] # NoConnection => pointer'[i] = pointer[i]
    <2> DEFINE msg == [origin |-> Daemon, task |-> TRUE, channel |-> Network]
    <2>1. /\ msg \in Message /\ DistributeMessage(msg)
          /\ pointer' = [pointer EXCEPT ![Posted] = c]
      BY <1>4, ServerAssumption DEF IncomingConnection, SendPointer, Message, Origin, Posted
    <2>2. Sent(i)' <=> Sent(i) \/ i = Posted
      BY <1>0, <2>1, SentAfterSending
    <2>3. ~Sent(Posted) /\ Posted \in ID
      <3>1. Posted \in ID
        BY <1>0, <2>1, Queued
      <3> QED BY <3>1 DEF Sent, Posted, ID
    <2>4. i # Posted => pointer'[i] = pointer[i]
      BY <1>0, <2>1
    <2>5. i = Posted => pointer'[i] = c /\ pointer[i] = NoConnection /\ ~Sent(i)
      BY <1>0, <2>1, <2>3 DEF TwoMessages
    <2> QED BY <1>0, <2>2, <2>4, <2>5 DEF Broadcast
  <1> QED BY <1>0, <1>1, <1>2, <1>3, <1>4, CalmSteps

\* No step sends another kind of message, or a second broadcast.
LEMMA MessageNext == MessageInv /\ [ServerNext]_allVars => MessageInv'
  <1> SUFFICES ASSUME MessageInv, [ServerNext]_allVars PROVE TwoMessages' /\ OneBroadcast'
    BY OwnerNext DEF MessageInv
  <1>0. /\ TypeOK /\ TakenIsGone /\ TwoMessages /\ OneBroadcast
        /\ pointer \in [ID -> Connection \cup {NoConnection}]
        /\ nextMessageID \in Int
    BY MessagingAssumption
    DEF MessageInv, OwnerInv, TypeInv, TakeInv, ServerTypeOK, TypeOK
  <1>1. CASE Calm
    <2>1. \A i \in ID : Sent(i)' = Sent(i)
      BY <1>1 DEF Calm, Sent
    <2>2. TwoMessages'
      BY <1>0, <1>1, <2>1 DEF Calm, TwoMessages, MessageOf
    <2>3. OneBroadcast'
      BY <1>0, <1>1, <2>1 DEF Calm, OneBroadcast, Broadcast
    <2> QED BY <2>2, <2>3
  <1>2. CASE RuntimeDistribute /\ UNCHANGED network
    <2>1. pointer' = pointer /\ console' = console
      BY <1>2 DEF network
    <2>2. \A i \in ID : Sent(i)' <=> Sent(i)
      BY <1>0, <1>2, SentAfterDistributing
    <2>3. OneBroadcast'
      BY <1>0, <2>1, <2>2 DEF OneBroadcast, Broadcast
    <2>4. MessageQueue \in Seq(Message) /\ MessageQueue # <<>>
      BY <1>0, <1>2 DEF RuntimeDistribute, TypeOK
    <2>5. /\ MessageQueue' = Tail(MessageQueue) /\ nextMessageID' = nextMessageID + 1
          /\ Head(MessageQueue) = MessageQueue[1]
          /\ Len(MessageQueue) \in Nat \ {0} /\ Len(MessageQueue') = Len(MessageQueue) - 1
          /\ \A k \in 1 .. Len(MessageQueue) - 1 : MessageQueue'[k] = MessageQueue[k + 1]
      BY <1>2, <2>4, HeadTail DEF RuntimeDistribute
    <2>6. ASSUME NEW k \in 1 .. Len(MessageQueue')
          PROVE  MessageQueue'[k] = MessageOf(nextMessageID + k - 1)'
      <3>1. k + 1 \in 1 .. Len(MessageQueue) /\ MessageQueue'[k] = MessageQueue[k + 1]
        BY <2>5
      <3>2. MessageQueue[k + 1] = MessageOf(nextMessageID + (k + 1) - 1)
        BY <1>0, <3>1 DEF TwoMessages
      <3>3. nextMessageID + (k + 1) - 1 = nextMessageID' + k - 1
        BY <1>0, <2>5
      <3> QED BY <2>1, <3>1, <3>2, <3>3 DEF MessageOf
    <2>7. ASSUME NEW i \in Stored' PROVE sentMessages'[i].msg = MessageOf(i)'
      <3>1. MessageOf(i)' = MessageOf(i)
        BY <2>1 DEF MessageOf
      <3>2. CASE i = nextMessageID
        <4>1. sentMessages'[i].msg = MessageQueue[1]
          BY <1>2, <2>5, <3>2 DEF RuntimeDistribute
        <4>2. MessageQueue[1] = MessageOf(nextMessageID + 1 - 1)
          BY <1>0, <2>5 DEF TwoMessages
        <4>3. nextMessageID + 1 - 1 = i
          BY <1>0, <3>2
        <4> QED BY <3>1, <4>1, <4>2, <4>3
      <3>3. CASE i # nextMessageID
        <4>1. i \in Stored /\ sentMessages'[i] = sentMessages[i]
          BY <1>2, <3>3 DEF RuntimeDistribute, Stored
        <4> QED BY <1>0, <3>1, <4>1 DEF TwoMessages
      <3> QED BY <3>2, <3>3
    <2>8. TwoMessages'
      BY <1>0, <2>1, <2>2, <2>6, <2>7 DEF TwoMessages
    <2> QED BY <2>3, <2>8
  <1>3. CASE ConsoleQuit
    <2>1. /\ console = "run" /\ console' = "quit" /\ pointer' = pointer
          /\ ShutdownMessage \in Message /\ DistributeMessage(ShutdownMessage)
      BY <1>3 DEF ConsoleQuit, ShutdownServer, ShutdownMessage, Message, Origin
    <2>2. Posted \in ID /\ ~Sent(Posted)
      <3>1. Posted \in ID
        BY <1>0, <2>1, Queued
      <3> QED BY <3>1 DEF Sent, Posted, ID
    <2>3. pointer'[Posted] = NoConnection
      BY <1>0, <2>1, <2>2 DEF TwoMessages
    <2>4. TwoMessages'
      BY <2>1, <2>3, SendingKeepsMessages
    <2>5. \A i \in ID : Broadcast(i)' => i = Posted
      <3>1. \A i \in ID : Sent(i)' <=> Sent(i) \/ i = Posted
        BY <1>0, <2>1, SentAfterSending
      <3> QED BY <1>0, <2>1, <3>1 DEF Broadcast, OneBroadcast
    <2>6. OneBroadcast'
      BY <2>1, <2>5 DEF OneBroadcast
    <2> QED BY <2>4, <2>6
  <1>4. ASSUME NEW c \in Connection, IncomingConnection(c)
        PROVE  TwoMessages' /\ OneBroadcast'
    <2>1. /\ TaskMessage \in Message /\ DistributeMessage(TaskMessage)
          /\ pointer' = [pointer EXCEPT ![Posted] = c]
          /\ console' = console
      BY <1>4, ServerAssumption
      DEF IncomingConnection, SendPointer, TaskMessage, Message, Origin, Posted
    <2>2. Posted \in ID
      BY <1>0, <2>1, Queued
    <2>3. /\ \A i \in ID : i # Posted => pointer'[i] = pointer[i]
          /\ pointer'[Posted] # NoConnection
      BY <1>0, <2>1, <2>2, ServerAssumption
    <2>4. TwoMessages'
      BY <2>1, <2>3, SendingKeepsMessages
    <2>5. ~ConsoleQuit
      BY <2>1, <1>4 DEF ConsoleQuit, IncomingConnection
    <2>6. \A i \in ID : Broadcast(i)' => Broadcast(i)
      BY <2>5, BroadcastAfter
    <2>7. OneBroadcast'
      BY <1>0, <2>1, <2>6 DEF OneBroadcast
    <2> QED BY <2>4, <2>7
  <1> QED BY <1>0, <1>1, <1>2, <1>3, <1>4, CalmSteps

--------------------------------------------------------------------------------
(* The threads: no task is sent before all of them listen, and none of them ends
   before it has read the broadcast *)

Started ==
  /\ daemon \notin {"new", "start"} => \A t \in Thread : thread[t] \notin {"none", "constructed"}
  /\ (\E i \in ID : pointer[i] # NoConnection) => daemon \notin {"new", "start"}

\* Where a thread is tells of its messenger, what it has in hand and what it has read.
Listening ==
  \A t \in Thread :
    /\ thread[t] \in {"none", "gone"} <=> t \notin Messengers
    /\ thread[t] \in {"loop", "drain"} => Network \in RegisteredChannels[t]
    /\ thread[t] # "drain" => hand[t] = NoTask
    /\ thread[t] = "gone" => ConnectionList[t] = {}
    /\ thread[t] \in {"closing", "gone"} => \E i \in ID : Broadcast(i) /\ i < readUpTo[t]

ThreadInv == MessageInv /\ OrderInv /\ Started /\ Listening

\* Before the program starts there are no threads.
LEMMA ThreadInit == ServerInit => ThreadInv
  <1> SUFFICES ASSUME ServerInit PROVE Started /\ Listening
    BY MessageInit, OrderInit DEF ServerInit, ThreadInv
  <1> QED BY ServerAssumption DEF ServerInit, Init, Started, Listening

\* No task is sent before the daemon polls, and it does not before its threads are started.
LEMMA StartedNext ==
  ASSUME ThreadInv, [ServerNext]_allVars
  PROVE  Started'
  <1>0. /\ Started /\ TypeOK
        /\ pointer \in [ID -> Connection \cup {NoConnection}]
        /\ thread \in [Thread -> {"none", "constructed", "loop", "drain", "closing", "gone"}]
    BY DEF ThreadInv, MessageInv, OwnerInv, TypeInv, ServerTypeOK
  <1>1. CASE AtRest
    BY <1>0, <1>1 DEF AtRest, Started
  <1>2. CASE RuntimeDistribute /\ UNCHANGED network
    BY <1>0, <1>2 DEF network, Started
  <1>3. CASE ConsoleQuit
    BY <1>0, <1>3 DEF ConsoleQuit, Started
  <1>4. CASE NetworkDaemon \/ EnterNetworkLoop \/ DaemonRead \/ DeleteDaemon
    BY <1>0, <1>4 DEF NetworkDaemon, EnterNetworkLoop, DaemonRead, DeleteDaemon, Started
  <1>5. ASSUME NEW c \in Connection, IncomingConnection(c) PROVE Started'
    BY <1>0, <1>5 DEF IncomingConnection, Started
  <1>6. ASSUME NEW t \in Thread, ConstructThread(t) \/ StartThread(t) PROVE Started'
    BY <1>0, <1>6 DEF ConstructThread, StartThread, Started
  <1>7. ASSUME NEW t \in Thread, ThreadStep(t) PROVE Started'
    BY <1>0, <1>7
    DEF ThreadStep, LoopHead, ThreadRead, ThreadTake, ServeConnections, DeleteThread, Started
  <1> QED BY <1>1, <1>2, <1>3, <1>4, <1>5, <1>6, <1>7, HandOverSteps

\* A messenger reads the broadcast only if there was one.
LEMMA ShutdownIsBroadcast ==
  ASSUME MessageInv, NEW id \in ID, IsShutdown(id)
  PROVE  Broadcast(id) /\ ~sentMessages[id].msg.task
  <1>1. /\ TypeOK /\ TakenIsGone /\ TwoMessages /\ id \in Stored
    BY DEF MessageInv, OwnerInv, TypeInv, TakeInv, ServerTypeOK, IsShutdown
  <1>2. sentMessages[id].msg = MessageOf(id) /\ sentMessages[id].msg.channel = All
    BY <1>1 DEF TwoMessages, IsShutdown
  <1>3. pointer[id] = NoConnection
    BY <1>2, MessagingAssumption, ServerAssumption DEF MessageOf, TaskMessage
  <1>4. Sent(id)
    <2>1. /\ id < nextMessageID /\ MessageQueue \in Seq(Message)
          /\ nextMessageID \in Int
      BY <1>1, MessagingAssumption DEF TakenIsGone, TypeOK
    <2> QED BY <2>1, LenProperties DEF Sent, ID
  <1> QED BY <1>2, <1>3, <1>4 DEF Broadcast, MessageOf, ShutdownMessage

\* What the steps of one thread do not touch stays true of the others.
LEMMA ListeningOfOthers ==
  ASSUME Listening, NEW u \in Thread,
         thread'[u] = thread[u], hand'[u] = hand[u], ConnectionList'[u] = ConnectionList[u],
         readUpTo'[u] = readUpTo[u], RegisteredChannels'[u] = RegisteredChannels[u],
         u \in Messengers' <=> u \in Messengers,
         \A i \in ID : Broadcast(i) => Broadcast(i)'
  PROVE  /\ thread'[u] \in {"none", "gone"} <=> u \notin Messengers'
         /\ thread'[u] \in {"loop", "drain"} => Network \in RegisteredChannels'[u]
         /\ thread'[u] # "drain" => hand'[u] = NoTask
         /\ thread'[u] = "gone" => ConnectionList'[u] = {}
         /\ thread'[u] \in {"closing", "gone"} => \E i \in ID : Broadcast(i)' /\ i < readUpTo'[u]
  BY DEF Listening

\* No step takes a thread past the broadcast unread, or lets it end with a task in hand.
LEMMA ListeningNext ==
  ASSUME ThreadInv, [ServerNext]_allVars
  PROVE  Listening'
  <1> DEFINE Says(u) ==
         /\ thread'[u] \in {"none", "gone"} <=> u \notin Messengers'
         /\ thread'[u] \in {"loop", "drain"} => Network \in RegisteredChannels'[u]
         /\ thread'[u] # "drain" => hand'[u] = NoTask
         /\ thread'[u] = "gone" => ConnectionList'[u] = {}
         /\ thread'[u] \in {"closing", "gone"} => \E i \in ID : Broadcast(i)' /\ i < readUpTo'[u]
  <1> SUFFICES ASSUME NEW u \in Thread PROVE Says(u)
    BY DEF Listening
  <1>0. /\ Listening /\ TypeOK /\ MessageInv /\ u \in Address /\ u # Daemon /\ Daemon \in Address
        /\ thread \in [Thread -> {"none", "constructed", "loop", "drain", "closing", "gone"}]
        /\ ConnectionList \in [Thread -> SUBSET Connection]
        /\ hand \in [Address -> Copy \cup {NoTask}]
        /\ readUpTo \in [Address -> 0 .. MaxMessages]
        /\ RegisteredChannels \in [Address -> SUBSET Channel]
    BY ServerAssumption DEF ThreadInv, MessageInv, OwnerInv, TypeInv, ServerTypeOK, TypeOK
  <1>b. \A i \in ID : Broadcast(i) => Broadcast(i)'
    BY <1>0, BroadcastAfter
  <1>o. ASSUME thread'[u] = thread[u], hand'[u] = hand[u], ConnectionList'[u] = ConnectionList[u],
               readUpTo'[u] = readUpTo[u], RegisteredChannels'[u] = RegisteredChannels[u],
               u \in Messengers' <=> u \in Messengers
        PROVE  Says(u)
    BY <1>0, <1>b, <1>o, ListeningOfOthers
  <1>1. CASE AtRest
    BY <1>o, <1>1 DEF AtRest
  <1>2. CASE RuntimeDistribute /\ UNCHANGED network
    BY <1>o, <1>2 DEF network, RuntimeDistribute
  <1>3. CASE ConsoleQuit \/ EnterNetworkLoop
    BY <1>o, <1>3 DEF ConsoleQuit, EnterNetworkLoop, ShutdownServer, vars, clients, history
  <1>4. CASE NetworkDaemon \/ DeleteDaemon
    <2>1. /\ UNCHANGED <<thread, hand, ConnectionList>>
          /\ Messengers' = Messengers \cup {Daemon} \/ Messengers' = Messengers \ {Daemon}
          /\ readUpTo'[u] = readUpTo[u] /\ RegisteredChannels'[u] = RegisteredChannels[u]
      BY <1>0, <1>4
      DEF NetworkDaemon, DeleteDaemon, ReceiveActiveMessenger, DeactivateActiveMessenger, history
    <2> QED BY <1>0, <1>o, <2>1
  <1>5. CASE DaemonRead
    <2>1. /\ UNCHANGED <<thread, ConnectionList, Messengers, RegisteredChannels>>
          /\ readUpTo'[u] = readUpTo[u] /\ hand'[u] = hand[u]
      BY <1>0, <1>5 DEF DaemonRead, AcceptMessage, GetMessage
    <2> QED BY <1>o, <2>1
  <1>6. ASSUME NEW c \in Connection, IncomingConnection(c) PROVE Says(u)
    BY <1>o, <1>6 DEF IncomingConnection, SendPointer, clients, history
  <1>7. ASSUME NEW t \in Thread, ConstructThread(t) PROVE Says(u)
    <2>1. /\ thread' = [thread EXCEPT ![t] = "constructed"] /\ thread[t] = "none"
          /\ Messengers' = Messengers \cup {t}
          /\ UNCHANGED <<RegisteredChannels, hand, ConnectionList>>
          /\ u # t => readUpTo'[u] = readUpTo[u]
      BY <1>0, <1>7 DEF ConstructThread, ReceiveActiveMessenger
    <2>2. CASE u = t
      BY <1>0, <2>1, <2>2 DEF Listening
    <2>3. CASE u # t
      BY <1>0, <1>o, <2>1, <2>3
    <2> QED BY <2>2, <2>3
  <1>8. ASSUME NEW t \in Thread, StartThread(t) PROVE Says(u)
    <2>1. /\ thread' = [thread EXCEPT ![t] = "loop"] /\ thread[t] = "constructed"
          /\ RegisteredChannels' = [RegisteredChannels EXCEPT ![t] = @ \cup {Network}]
          /\ t \in Address
          /\ UNCHANGED <<Messengers, hand, ConnectionList, readUpTo>>
      BY <1>8, ServerAssumption DEF StartThread, RegisterOnChannel, history
    <2>2. CASE u = t
      BY <1>0, <2>1, <2>2 DEF Listening
    <2>3. CASE u # t
      BY <1>0, <1>o, <2>1, <2>3
    <2> QED BY <2>2, <2>3
  <1>9. ASSUME NEW t \in Thread, LoopHead(t) PROVE Says(u)
    <2>1. /\ thread' = [thread EXCEPT ![t] = "drain"] /\ thread[t] = "loop"
          /\ UNCHANGED <<Messengers, RegisteredChannels, hand, ConnectionList, readUpTo>>
      BY <1>9 DEF LoopHead, pauseForMessage, vars, clients, history
    <2>2. CASE u = t
      BY <1>0, <2>1, <2>2 DEF Listening
    <2>3. CASE u # t
      BY <1>0, <1>o, <2>1, <2>3
    <2> QED BY <2>2, <2>3
  <1>10. ASSUME NEW t \in Thread, ThreadRead(t) PROVE Says(u)
    <2>0. PICK id : id = Head(waitingMessageIDs[t])
      OBVIOUS
    <2>1. /\ thread[t] = "drain" /\ AcceptMessage(t) /\ t \in Address /\ id \in ID
          /\ thread' = [thread EXCEPT ![t] = IF IsShutdown(id) THEN "closing" ELSE "drain"]
          /\ readUpTo' = [readUpTo EXCEPT ![t] = id + 1]
          /\ UNCHANGED <<Messengers, RegisteredChannels, ConnectionList>>
      BY <1>0, <1>10, <2>0, ServerAssumption, HeadTail DEF ThreadRead, AcceptMessage, TypeOK
    <2>2. CASE u = t
      <3>1. thread'[u] \in {"closing", "drain"}
        BY <1>0, <2>1, <2>2
      <3>2. CASE IsShutdown(id)
        <4>1. Broadcast(id) /\ Broadcast(id)' /\ ~sentMessages[id].msg.task
          BY <1>0, <1>b, <2>1, <3>2, ShutdownIsBroadcast
        <4>2. hand[t] = NoTask /\ hand' = hand
          BY <2>0, <2>1, <3>2, <4>1 DEF AcceptMessage, Running, GetMessage, IsShutdown
        <4>3. readUpTo'[u] = id + 1 /\ id < id + 1
          BY <1>0, <2>1, <2>2 DEF ID
        <4> QED BY <1>0, <2>1, <2>2, <3>1, <4>1, <4>2, <4>3 DEF Listening
      <3>3. CASE ~IsShutdown(id)
        BY <1>0, <2>1, <2>2, <3>3 DEF Listening
      <3> QED BY <3>2, <3>3
    <2>3. CASE u # t
      <3>1. hand'[u] = hand[u]
        BY <1>0, <2>1, <2>3 DEF AcceptMessage, GetMessage
      <3> QED BY <1>0, <1>o, <2>1, <2>3, <3>1
    <2> QED BY <2>2, <2>3
  <1>11. ASSUME NEW t \in Thread, ThreadTake(t) PROVE Says(u)
    <2>1. /\ thread[t] = "drain" /\ t \in Address
          /\ hand' = [hand EXCEPT ![t] = NoTask]
          /\ UNCHANGED <<thread, Messengers, RegisteredChannels, readUpTo>>
          /\ u # t => ConnectionList'[u] = ConnectionList[u]
      BY <1>0, <1>11, ServerAssumption DEF ThreadTake, acceptTask, Decide
    <2>2. CASE u = t
      BY <1>0, <2>1, <2>2 DEF Listening
    <2>3. CASE u # t
      BY <1>0, <1>o, <2>1, <2>3
    <2> QED BY <2>2, <2>3
  <1>12. ASSUME NEW t \in Thread, ServeConnections(t) PROVE Says(u)
    <2>1. /\ thread[t] = "drain" /\ hand[t] = NoTask
          /\ thread' = [thread EXCEPT ![t] = "loop"]
          /\ UNCHANGED <<Messengers, RegisteredChannels, hand, readUpTo>>
          /\ u # t => ConnectionList'[u] = ConnectionList[u]
      BY <1>0, <1>12 DEF ServeConnections, Running, Close, vars, clients, history
    <2>2. CASE u = t
      BY <1>0, <2>1, <2>2 DEF Listening
    <2>3. CASE u # t
      BY <1>0, <1>o, <2>1, <2>3
    <2> QED BY <2>2, <2>3
  <1>13. ASSUME NEW t \in Thread, DeleteThread(t) PROVE Says(u)
    <2>1. /\ thread[t] = "closing" /\ hand[t] = NoTask
          /\ thread' = [thread EXCEPT ![t] = "gone"]
          /\ Messengers' = Messengers \ {t}
          /\ RegisteredChannels' = [RegisteredChannels EXCEPT ![t] = {}]
          /\ UNCHANGED <<hand, readUpTo>>
          /\ ConnectionList' = [ConnectionList EXCEPT ![t] = {}]
      BY <1>0, <1>13 DEF DeleteThread, DeactivateActiveMessenger, Running, Close, history
    <2>2. CASE u = t
      BY <1>0, <1>b, <2>1, <2>2 DEF Listening
    <2>3. CASE u # t
      BY <1>0, <1>o, <2>1, <2>3
    <2> QED BY <2>2, <2>3
  <1> QED
    BY <1>1, <1>2, <1>3, <1>4, <1>5, <1>6, <1>7, <1>8, <1>9, <1>10, <1>11, <1>12, <1>13,
       HandOverSteps DEF ThreadStep

\* The threads start before the tasks and end after the broadcast.
LEMMA ThreadNext == ThreadInv /\ [ServerNext]_allVars => ThreadInv'
  BY MessageNext, OrderNext, StepOfTheBus, StartedNext, ListeningNext DEF ThreadInv

--------------------------------------------------------------------------------
(* The tasks: none leaves the map but by acceptTask or by its age, and until then every
   thread has it in front of it, or the broadcast *)

\* A task that may still be taken is owed by every thread, or was sent behind the broadcast.
Undecided ==
  \A i \in Stored \ dropped :
    pointer[i] # NoConnection =>
      (\A t \in Thread : Owes(t, i)) \/ \E j \in ID : j < i /\ Broadcast(j)

\* A task that was distributed is in the map, has expired or was taken.
Accounted ==
  \A i \in ID :
    pointer[i] # NoConnection /\ i < nextMessageID => i \in Stored \cup pruned \/ takes[i] > 0

TakenIsOpen ==
  \A i \in ID :
    takes[i] > 0 => pointer[i] # NoConnection /\ conn[pointer[i]] \in {"open", "closed"}

HandOverInv == ThreadInv /\ Undecided /\ Accounted /\ TakenIsOpen

\* Before the program starts there is nothing to hand over.
LEMMA HandOverInit == ServerInit => HandOverInv
  <1> SUFFICES ASSUME ServerInit PROVE Undecided /\ Accounted /\ TakenIsOpen
    BY ThreadInit DEF HandOverInv
  <1>1. Stored = {} /\ \A i \in ID : pointer[i] = NoConnection /\ takes[i] = 0
    BY DEF ServerInit, Init, Stored
  <1> QED BY <1>1 DEF Undecided, Accounted, TakenIsOpen

\* Who is alerted owes the message that is distributed.
LEMMA RecipientsOwe ==
  ASSUME OrderInv, RuntimeDistribute, NEW i, i = nextMessageID,
         NEW b \in Recipients(Head(MessageQueue))
  PROVE  Owes(b, i)'
  <1> DEFINE IDs == ID
  <1>1. /\ nextMessageID \in IDs /\ waitingMessageIDs[b] \in Seq(IDs)
        /\ b \in Messengers /\ b \in Address
    BY HeadTail, LenProperties, MessagingAssumption
    DEF RuntimeDistribute, OrderInv, TypeOK, Recipients, ID
  <1>2. /\ Messengers' = Messengers
        /\ waitingMessageIDs'[b] = Append(waitingMessageIDs[b], nextMessageID)
    BY <1>1 DEF RuntimeDistribute, AlertMessageID
  <1> HIDE DEF IDs
  <1>3. nextMessageID \in Range(waitingMessageIDs'[b])
    BY <1>1, <1>2, RangeAppend
  <1> QED BY <1>1, <1>2, <1>3 DEF Owes, InboxSet

\* Reading a task puts it into the reader's hand and leaves it in the map.
LEMMA TasksAreKept ==
  ASSUME MessageInv, OrderInv, NEW a \in Address, AcceptMessage(a),
         NEW i \in Stored, pointer[i] # NoConnection
  PROVE  /\ i \in Stored'
         /\ \A t \in Address : Owes(t, i) => Owes(t, i)'
  <1> PICK id : id = Head(waitingMessageIDs[a])
    OBVIOUS
  <1>1. /\ TypeOK /\ i \in ID /\ id \in ID /\ a \in Messengers /\ hand[a] = NoTask
        /\ GetMessage(a, id) /\ Messengers' = Messengers
        /\ hand \in [Address -> Copy \cup {NoTask}]
    BY HeadTail DEF OrderInv, TypeOK, AcceptMessage, Running
  <1>2. sentMessages[i].msg.task
    BY DEF MessageInv, TwoMessages, MessageOf, TaskMessage
  <1>3. CASE i = id
    <2>1. /\ sentMessages' = sentMessages
          /\ hand' = [hand EXCEPT ![a] = [id |-> id, origin |-> sentMessages[id].msg.origin]]
      BY <1>1, <1>2, <1>3 DEF GetMessage
    <2>2. hand'[a] = [id |-> id, origin |-> sentMessages[id].msg.origin]
      BY <1>1, <2>1
    <2>3. hand'[a] # NoTask /\ hand'[a].id = i
      <3>1. id \in Int /\ sentMessages[id].msg.origin \in Address \cup {Nobody}
        BY <1>1, <1>3 DEF TypeOK, Entry, Message, ID, Origin
      <3> QED BY <1>3, <2>2, <3>1, MessagingAssumption
    <2>4. Owes(a, i)'
      BY <1>1, <2>3 DEF Owes
    <2>5. \A t \in Address \ {a} : Owes(t, i)' <=> Owes(t, i)
      BY <1>1, OtherDebtsAccept
    <2> QED BY <2>1, <2>4, <2>5 DEF Stored
  <1>4. CASE i # id
    <2>1. i \in Stored'
      <3>1. CASE sentMessages' = sentMessages
        BY <3>1 DEF Stored
      <3>2. CASE id \in Stored /\ DecrementPending(id)
        BY <1>1, <1>4, <3>2, MapUpdates DEF TypeOK
      <3> QED BY <1>1, <3>1, <3>2 DEF GetMessage
    <2>2. \A t \in Address : Owes(t, i)' <=> Owes(t, i)
      BY <1>1, <1>4, OtherDebtsAccept
    <2> QED BY <2>1, <2>2
  <1> QED BY <1>3, <1>4

\* Sending leaves everything that was distributed as it is.
LEMMA PostedIsNew ==
  ASSUME MessageInv, NEW c \in Connection, IncomingConnection(c)
  PROVE  /\ \A i \in ID : i < nextMessageID \/ takes[i] > 0 => pointer'[i] = pointer[i]
         /\ UNCHANGED <<sentMessages, nextMessageID, takes, pruned, Messengers,
                        waitingMessageIDs, hand, dropped, thread>>
         /\ conn' = [conn EXCEPT ![c] = "posted"] /\ conn[c] = "waiting"
  <1> DEFINE msg == [origin |-> Daemon, task |-> TRUE, channel |-> Network]
  <1>1. /\ msg \in Message /\ DistributeMessage(msg) /\ conn[c] = "waiting"
        /\ pointer' = [pointer EXCEPT ![Posted] = c]
        /\ conn' = [conn EXCEPT ![c] = "posted"]
        /\ UNCHANGED <<sentMessages, nextMessageID, takes, pruned, Messengers,
                       waitingMessageIDs, hand, dropped, thread>>
    BY ServerAssumption
    DEF IncomingConnection, SendPointer, DistributeMessage, Message, Origin, clients, Posted, history
  <1>2. /\ TypeOK /\ TakenIsGone /\ pointer \in [ID -> Connection \cup {NoConnection}]
        /\ takes \in [ID -> Nat] /\ nextMessageID \in Int
    BY MessagingAssumption DEF MessageInv, OwnerInv, TypeInv, TakeInv, ServerTypeOK, TypeOK
  <1>3. Len(MessageQueue) \in Nat /\ Posted \in ID
    BY <1>1, <1>2, Queued
  <1>4. takes[Posted] = 0 /\ ~(Posted < nextMessageID)
    BY <1>2, <1>3 DEF TakenIsGone, Posted, ID
  <1> QED BY <1>1, <1>2, <1>4

\* The steps of the server that leave the map, the tasks and the debts as they are.
Aside ==
  /\ UNCHANGED <<sentMessages, nextMessageID, takes, pruned, pointer, dropped>>
  /\ \A t \in Thread, i \in ID : Owes(t, i)' <=> Owes(t, i)

\* A task is handed on only in the steps that are not aside.
LEMMA AsideSteps ==
  ASSUME ThreadInv, [ServerNext]_allVars
  PROVE  \/ Aside
         \/ RuntimeDistribute /\ UNCHANGED network
         \/ \E a \in Address : AcceptMessage(a) /\ UNCHANGED <<pointer, dropped>>
         \/ \E c \in Connection : IncomingConnection(c)
         \/ \E t \in Thread : ThreadTake(t) \/ DeleteThread(t)
  <1>0. OrderInv /\ Daemon \in Address /\ Daemon \notin Thread /\ Thread \subseteq Address
    BY ServerAssumption DEF ThreadInv
  <1>1. ASSUME UNCHANGED <<sentMessages, nextMessageID, takes, pruned, pointer, dropped>>,
               UNCHANGED <<Messengers, waitingMessageIDs, hand>>
        PROVE  Aside
    BY <1>1 DEF Aside, Owes, InboxSet
  <1>2. CASE AtRest
    BY <1>1, <1>2 DEF AtRest
  <1>3. CASE ConsoleQuit \/ EnterNetworkLoop
    BY <1>1, <1>3
    DEF ConsoleQuit, EnterNetworkLoop, ShutdownServer, DistributeMessage, vars, clients, server,
        history
  <1>4. CASE DaemonRead
    BY <1>0, <1>4 DEF DaemonRead
  <1>5. ASSUME NEW a \in Address, ReceiveActiveMessenger(a), UNCHANGED <<pointer, dropped>>
        PROVE  Aside
    <2>1. \A t \in Thread, i \in ID : Owes(t, i)' <=> Owes(t, i)
      BY <1>0, <1>5, OwesReceive
    <2> QED BY <1>5, <2>1 DEF Aside, ReceiveActiveMessenger, server
  <1>6. CASE NetworkDaemon
    BY <1>0, <1>5, <1>6 DEF NetworkDaemon
  <1>7. CASE DeleteDaemon
    <2>1. \A t \in Thread : /\ t \in Messengers' <=> t \in Messengers
                            /\ waitingMessageIDs'[t] = waitingMessageIDs[t]
                            /\ hand'[t] = hand[t]
      BY <1>0, <1>7 DEF DeleteDaemon, DeactivateActiveMessenger, OrderInv, TypeOK
    <2>2. \A t \in Thread, i \in ID : Owes(t, i)' <=> Owes(t, i)
      BY <2>1 DEF Owes, InboxSet
    <2> QED BY <1>7, <2>2 DEF DeleteDaemon, DeactivateActiveMessenger, server, history, Aside
  <1>8. ASSUME NEW t \in Thread, ConstructThread(t) PROVE Aside
    BY <1>0, <1>5, <1>8 DEF ConstructThread
  <1>9. ASSUME NEW t \in Thread, StartThread(t) \/ LoopHead(t) \/ ServeConnections(t) PROVE Aside
    BY <1>1, <1>9
    DEF StartThread, LoopHead, ServeConnections, RegisterOnChannel, pauseForMessage, vars, clients,
        server, history
  <1>10. ASSUME NEW t \in Thread, ThreadRead(t)
         PROVE  \E a \in Address : AcceptMessage(a) /\ UNCHANGED <<pointer, dropped>>
    BY <1>0, <1>10 DEF ThreadRead
  <1> QED BY <1>2, <1>3, <1>4, <1>6, <1>7, <1>8, <1>9, <1>10, HandOverSteps DEF ThreadStep

\* What acceptTask did to the task in the hand of t.
LEMMA TakeSteps ==
  ASSUME ThreadInv, NEW t \in Thread, ThreadTake(t), NEW id, id = hand[t].id
  PROVE  /\ id \in ID /\ t \in Address /\ acceptTask(t)
         /\ UNCHANGED <<nextMessageID, pruned, pointer>>
         /\ \/ /\ Stored' = Stored \ {id} /\ takes' = [takes EXCEPT ![id] = @ + 1]
               /\ dropped' = dropped
            \/ /\ UNCHANGED <<sentMessages, takes>>
               /\ dropped' = dropped \cup ({id} \cap Stored)
  <1>1. /\ TypeOK /\ takes \in [ID -> Nat] /\ t \in Address
        /\ hand[t] # NoTask /\ acceptTask(t)
        /\ UNCHANGED <<nextMessageID, pruned, pointer>>
    BY ServerAssumption
    DEF ThreadInv, OrderInv, TypeOK, ThreadTake, acceptTask, Decide
  <1>2. id \in ID
    BY <1>1 DEF TypeOK, Copy
  <1>3. CASE FoundTask(t) /\ sentMessages' = Erase(id) /\ takes' = [takes EXCEPT ![id] = @ + 1]
    <2>1. Stored' = Stored \ {id}
      BY <1>1, <1>2, <1>3, MapUpdates DEF FoundTask, TypeOK
    <2>2. Took(id)
      BY <1>1, <1>2, <1>3 DEF Took
    <2> QED BY <1>1, <1>2, <1>3, <2>1, <2>2 DEF ThreadTake
  <1>4. CASE UNCHANGED <<sentMessages, takes>>
    <2>1. ~Took(id)
      BY <1>1, <1>2, <1>4 DEF Took
    <2>2. dropped' = dropped \cup ({id} \cap Stored)
      BY <2>1 DEF ThreadTake
    <2> QED BY <1>1, <1>2, <1>4, <2>2
  <1> QED BY <1>1, <1>3, <1>4 DEF acceptTask

\* Tasks leave the map by acceptTask or by their age, and no other way.
LEMMA AccountedNext ==
  ASSUME HandOverInv, [ServerNext]_allVars
  PROVE  Accounted'
  <1> SUFFICES ASSUME NEW i \in ID, pointer'[i] # NoConnection, i < nextMessageID'
               PROVE  i \in Stored' \cup pruned' \/ takes'[i] > 0
    BY DEF Accounted
  <1>0. /\ ThreadInv /\ MessageInv /\ OrderInv /\ Accounted
        /\ takes \in [ID -> Nat] /\ nextMessageID \in Int
    BY MessagingAssumption DEF HandOverInv, ThreadInv, OrderInv, TypeOK
  <1>1. CASE Aside
    BY <1>0, <1>1 DEF Aside, Accounted, Stored
  <1>2. CASE RuntimeDistribute /\ UNCHANGED network
    <2>1. /\ Stored' = (Stored \ Expired) \cup {nextMessageID}
          /\ pruned' = pruned \cup Expired
          /\ UNCHANGED <<takes, pointer>> /\ nextMessageID' = nextMessageID + 1
      BY <1>2 DEF RuntimeDistribute, network, Stored
    <2>2. i = nextMessageID \/ i < nextMessageID
      BY <1>0, <2>1 DEF ID
    <2> QED BY <1>0, <2>1, <2>2 DEF Accounted
  <1>3. ASSUME NEW a \in Address, AcceptMessage(a), UNCHANGED <<pointer, dropped>>
        PROVE  i \in Stored' \cup pruned' \/ takes'[i] > 0
    <2>1. UNCHANGED <<nextMessageID, takes, pruned>>
      BY <1>3 DEF AcceptMessage
    <2> QED BY <1>0, <1>3, <2>1, TasksAreKept DEF Accounted
  <1>4. ASSUME NEW c \in Connection, IncomingConnection(c)
        PROVE  i \in Stored' \cup pruned' \/ takes'[i] > 0
    BY <1>0, <1>4, PostedIsNew DEF Accounted, Stored
  <1>5. ASSUME NEW t \in Thread, ThreadTake(t)
        PROVE  i \in Stored' \cup pruned' \/ takes'[i] > 0
    <2> PICK id : id = hand[t].id
      OBVIOUS
    <2>1. /\ UNCHANGED <<nextMessageID, pruned, pointer>> /\ id \in ID
          /\ \/ Stored' = Stored \ {id} /\ takes' = [takes EXCEPT ![id] = @ + 1]
             \/ UNCHANGED <<sentMessages, takes>>
      BY <1>0, <1>5, TakeSteps
    <2> QED BY <1>0, <2>1 DEF Accounted, Stored
  <1>6. ASSUME NEW t \in Thread, DeleteThread(t)
        PROVE  i \in Stored' \cup pruned' \/ takes'[i] > 0
    BY <1>0, <1>6
    DEF DeleteThread, DeactivateActiveMessenger, server, history, Accounted, Stored
  <1> QED BY <1>0, <1>1, <1>2, <1>3, <1>4, <1>5, <1>6, AsideSteps

\* A connection is opened by the thread that takes its task, and after that only closed.
LEMMA TakenIsOpenNext ==
  ASSUME HandOverInv, [ServerNext]_allVars
  PROVE  TakenIsOpen'
  <1>0. /\ OwnerInv /\ MessageInv /\ TakenIsOpen /\ ListedIsOpen
        /\ pointer \in [ID -> Connection \cup {NoConnection}] /\ NoConnection \notin Connection
        /\ conn \in [Connection -> {"away", "waiting", "posted", "open", "closed"}]
        /\ ConnectionList \in [Thread -> SUBSET Connection]
        /\ takes \in [ID -> Nat]
    BY ServerAssumption
    DEF HandOverInv, ThreadInv, MessageInv, OwnerInv, TypeInv, ServerTypeOK, TypeOK, ListInv
  <1>1. CASE Still
    BY <1>0, <1>1 DEF Still, bus, TakenIsOpen
  <1>2. CASE Passed
    BY <1>0, <1>2 DEF Passed, TakenIsOpen
  <1>3. CASE AtTheDoor
    BY <1>0, <1>3 DEF AtTheDoor, bus, TakenIsOpen
  <1>4. ASSUME NEW c \in Connection, IncomingConnection(c) PROVE TakenIsOpen'
    <2>1. /\ \A i \in ID : takes[i] > 0 => pointer'[i] = pointer[i]
          /\ UNCHANGED takes
          /\ conn' = [conn EXCEPT ![c] = "posted"] /\ conn[c] = "waiting"
      BY <1>0, <1>4, PostedIsNew
    <2> QED BY <1>0, <2>1 DEF TakenIsOpen
  <1>5. ASSUME NEW t \in Thread, ThreadTake(t) PROVE TakenIsOpen'
    <2>1. CASE UNCHANGED <<takes, pointer, conn>>
      BY <1>0, <2>1 DEF TakenIsOpen
    <2>2. ASSUME NEW id \in ID, pointer[id] \in Connection,
                 takes' = [takes EXCEPT ![id] = 1],
                 conn' = [conn EXCEPT ![pointer[id]] = "open"],
                 UNCHANGED pointer
          PROVE  TakenIsOpen'
      BY <1>0, <2>2 DEF TakenIsOpen
    <2> QED BY <1>0, <1>5, <2>1, <2>2, TakenOver
  <1>6. ASSUME NEW t \in Thread, Ends(t) PROVE TakenIsOpen'
    <2> PICK done \in SUBSET ConnectionList[t] : Close(t, done)
      BY <1>6 DEF Ends
    <2>1. /\ UNCHANGED <<takes, pointer>>
          /\ conn' = [c \in Connection |-> IF c \in done THEN "closed" ELSE conn[c]]
      BY <1>6 DEF Ends, Close, bus
    <2> QED BY <1>0, <2>1 DEF TakenIsOpen
  <1> QED BY <1>1, <1>2, <1>3, <1>4, <1>5, <1>6, ServerStepKinds

\* A task that is distributed before the broadcast goes to every thread: none of them is
\* missing yet, and none is on its way out.
LEMMA EveryThreadGetsTasks ==
  ASSUME ThreadInv, RuntimeDistribute, NEW i \in ID, i = nextMessageID,
         pointer[i] # NoConnection, \A j \in ID : j < i => ~Broadcast(j),
         NEW t \in Thread
  PROVE  Owes(t, i)'
  <1>0. /\ OrderInv /\ MessageInv /\ Started /\ Listening /\ t \in Address /\ t # Daemon
        /\ thread[t] \in {"none", "constructed", "loop", "drain", "closing", "gone"}
    BY ServerAssumption DEF ThreadInv, MessageInv, OwnerInv, TypeInv, ServerTypeOK
  <1>n. nextMessageID \in Int /\ readUpTo[t] \in Int
    <2>1. nextMessageID \in 0 .. MaxMessages /\ readUpTo \in [Address -> 0 .. MaxMessages]
      BY <1>0 DEF OrderInv, TypeOK
    <2> QED BY <1>0, <2>1, MessagingAssumption
  <1>1. thread[t] \notin {"none", "constructed"}
    BY <1>0 DEF Started
  <1>2. thread[t] \notin {"closing", "gone"}
    <2> SUFFICES ASSUME NEW j \in ID, Broadcast(j), j < readUpTo[t] PROVE FALSE
      BY <1>0 DEF Listening
    <2>1. readUpTo[t] <= nextMessageID
      BY <1>0 DEF OrderInv, HandBehindInbox
    <2> QED BY <1>0, <1>n, <2>1 DEF ID
  <1>3. t \in Messengers /\ Network \in RegisteredChannels[t]
    BY <1>0, <1>1, <1>2 DEF Listening
  <1>4. Head(MessageQueue) = TaskMessage
    <2>1. MessageQueue \in Seq(Message) /\ MessageQueue # <<>>
      BY <1>0 DEF RuntimeDistribute, OrderInv, TypeOK
    <2>2. 1 \in 1 .. Len(MessageQueue) /\ Head(MessageQueue) = MessageQueue[1]
      BY <2>1, HeadTail
    <2>3. MessageQueue[1] = MessageOf(nextMessageID + 1 - 1)
      BY <1>0, <2>2 DEF MessageInv, TwoMessages
    <2>4. nextMessageID + 1 - 1 = i
      BY <1>n
    <2> QED BY <2>2, <2>3, <2>4 DEF MessageOf
  <1>5. t \in Recipients(Head(MessageQueue))
    BY <1>0, <1>3, <1>4 DEF Recipients, TaskMessage
  <1> QED BY <1>0, <1>5, RecipientsOwe

\* No thread loses sight of a task that may still be taken, unless the broadcast was sent
\* before it.
LEMMA UndecidedNext ==
  ASSUME HandOverInv, [ServerNext]_allVars
  PROVE  Undecided'
  <1> SUFFICES ASSUME NEW i \in Stored', i \notin dropped', pointer'[i] # NoConnection
               PROVE  (\A t \in Thread : Owes(t, i)') \/ \E j \in ID : j < i /\ Broadcast(j)'
    BY DEF Undecided
  <1> DEFINE Done == (\A t \in Thread : Owes(t, i)') \/ \E j \in ID : j < i /\ Broadcast(j)'
  <1>0. /\ ThreadInv /\ MessageInv /\ OrderInv /\ Undecided /\ Listening /\ TakenIsGone
        /\ Thread \subseteq Address
        /\ nextMessageID \in Int
    BY ServerAssumption, MessagingAssumption
    DEF HandOverInv, ThreadInv, MessageInv, OwnerInv, TakeInv, OrderInv, TypeOK
  <1>1. i \in ID
    <2>1. TypeOK'
      BY <1>0, StepOfTheBus, TypeNext DEF OrderInv
    <2> QED BY <2>1 DEF TypeOK, ID
  <1>2. \A j \in ID : Broadcast(j) => Broadcast(j)'
    BY <1>0, BroadcastAfter
  <1>3. ASSUME i \in Stored, i \notin dropped, pointer[i] # NoConnection,
               \A t \in Thread : Owes(t, i) => Owes(t, i)'
        PROVE  Done
    BY <1>0, <1>2, <1>3 DEF Undecided
  <1>4. CASE Aside
    BY <1>1, <1>3, <1>4 DEF Aside, Stored
  <1>5. CASE RuntimeDistribute /\ UNCHANGED network
    <2>1. /\ Stored' = (Stored \ Expired) \cup {nextMessageID}
          /\ UNCHANGED <<pointer, dropped>>
      BY <1>5 DEF RuntimeDistribute, network, Stored
    <2>2. CASE i = nextMessageID
      BY <1>0, <1>1, <1>2, <1>5, <2>1, <2>2, EveryThreadGetsTasks
    <2>3. CASE i # nextMessageID
      <3>1. \A t \in Thread : Owes(t, i) => Owes(t, i)'
        BY <1>0, <1>1, <1>5, <2>3, OwesDistribute
      <3> QED BY <1>3, <2>1, <2>3, <3>1
    <2> QED BY <2>2, <2>3
  <1>6. ASSUME NEW a \in Address, AcceptMessage(a), UNCHANGED <<pointer, dropped>>
        PROVE  Done
    <2>1. i \in Stored
      BY <1>0, <1>6, MapShrinks DEF OrderInv
    <2>2. \A t \in Thread : Owes(t, i) => Owes(t, i)'
      BY <1>0, <1>6, <2>1, TasksAreKept
    <2> QED BY <1>3, <1>6, <2>1, <2>2
  <1>7. ASSUME NEW c \in Connection, IncomingConnection(c) PROVE Done
    <2>1. i \in Stored /\ i \notin dropped
      BY <1>0, <1>7, PostedIsNew DEF Stored
    <2>2. i < nextMessageID
      BY <1>0, <2>1 DEF TakenIsGone
    <2>3. /\ pointer'[i] = pointer[i]
          /\ UNCHANGED <<Messengers, waitingMessageIDs, hand>>
      BY <1>0, <1>1, <1>7, <2>2, PostedIsNew
    <2>4. \A t \in Thread : Owes(t, i) => Owes(t, i)'
      BY <2>3 DEF Owes, InboxSet
    <2> QED BY <1>3, <2>1, <2>3, <2>4
  <1>8. ASSUME NEW u \in Thread, ThreadTake(u) PROVE Done
    <2> PICK id : id = hand[u].id
      OBVIOUS
    <2>1. /\ id \in ID /\ u \in Address /\ acceptTask(u) /\ pointer' = pointer
          /\ \/ Stored' = Stored \ {id} /\ dropped' = dropped
             \/ sentMessages' = sentMessages /\ dropped' = dropped \cup ({id} \cap Stored)
      BY <1>0, <1>8, TakeSteps
    <2>2. i # id /\ i \in Stored /\ i \notin dropped
      BY <2>1 DEF Stored
    <2>3. \A t \in Thread : Owes(t, i) => Owes(t, i)'
      BY <1>0, <1>1, <2>1, <2>2, OtherDebtsDecide
    <2> QED BY <1>3, <2>1, <2>2, <2>3
  <1>9. ASSUME NEW u \in Thread, DeleteThread(u) PROVE Done
    <2>1. /\ thread[u] = "closing" /\ hand[u] = NoTask /\ u \in Address
          /\ UNCHANGED <<sentMessages, pointer, dropped>>
      BY <1>0, <1>9 DEF DeleteThread, DeactivateActiveMessenger, Running, server
    <2>2. i \in Stored /\ i \notin dropped
      BY <2>1 DEF Stored
    <2>3. CASE \E j \in ID : j < i /\ Broadcast(j)
      BY <1>2, <2>3
    <2>4. CASE Owes(u, i)
      <3>1. readUpTo[u] <= i /\ readUpTo[u] \in Int
        BY <1>0, <2>1, <2>4, InboxBounds, MessagingAssumption DEF Owes, OrderInv, TypeOK
      <3>2. PICK j \in ID : Broadcast(j) /\ j < readUpTo[u]
        BY <1>0, <2>1 DEF Listening
      <3>3. j < i
        BY <1>1, <3>1, <3>2 DEF ID
      <3> QED BY <1>2, <3>2, <3>3
    <2> QED BY <1>0, <2>1, <2>2, <2>3, <2>4 DEF Undecided
  <1> QED BY <1>0, <1>4, <1>5, <1>6, <1>7, <1>8, <1>9, AsideSteps

\* No step loses a task.
LEMMA HandOverNext == HandOverInv /\ [ServerNext]_allVars => HandOverInv'
  BY ThreadNext, UndecidedNext, AccountedNext, TakenIsOpenNext DEF HandOverInv

\* A connection queued before the shutdown is taken over and closed by the time the last
\* thread is gone, unless its task expired or was dropped (acceptTask, PruneOldMessages).
THEOREM HandedOverCorrect == ServerSpec => []HandedOver
  <1>1. HandOverInv => HandedOver
    <2> SUFFICES ASSUME HandOverInv, \A t \in Thread : thread[t] = "gone",
                        NEW i \in ID, NEW j \in ID, i < j, pointer[i] # NoConnection, Broadcast(j)
                 PROVE  conn[pointer[i]] = "closed" \/ i \in pruned \cup dropped
      BY DEF HandedOver, Broadcast
    <2>0. /\ OrderInv /\ Listening /\ Undecided /\ Accounted /\ TakenIsOpen /\ OpenIsListed
          /\ OneBroadcast /\ nextMessageID \in Int
          /\ pointer \in [ID -> Connection \cup {NoConnection}]
      BY MessagingAssumption
      DEF HandOverInv, ThreadInv, MessageInv, OwnerInv, TypeInv, ServerTypeOK, ListInv, OrderInv,
          TypeOK
    <2> PICK t \in Thread : thread[t] = "gone"
      BY ServerAssumption
    <2>1. t \in Address /\ t \notin Messengers
      BY <2>0, ServerAssumption DEF Listening
    <2>2. i < nextMessageID
      <3>1. PICK k \in ID : Broadcast(k) /\ k < readUpTo[t]
        BY <2>0 DEF Listening
      <3>2. k = j
        BY <2>0, <3>1 DEF OneBroadcast
      <3>3. readUpTo[t] <= nextMessageID /\ readUpTo[t] \in Int
        BY <2>0, <2>1, MessagingAssumption DEF OrderInv, HandBehindInbox, TypeOK
      <3> QED BY <2>0, <3>1, <3>2, <3>3 DEF ID
    <2>3. CASE i \in Stored \ dropped
      <3>1. ~Owes(t, i)
        BY <2>1 DEF Owes
      <3>2. PICK k \in ID : k < i /\ Broadcast(k)
        BY <2>0, <2>3, <3>1 DEF Undecided
      <3>3. k = j
        BY <2>0, <3>2 DEF OneBroadcast
      <3> QED BY <3>2, <3>3 DEF ID
    <2>4. CASE takes[i] > 0
      <3>1. conn[pointer[i]] \in {"open", "closed"} /\ pointer[i] \in Connection
        BY <2>0, <2>4 DEF TakenIsOpen
      <3>2. conn[pointer[i]] # "open"
        BY <2>0, <3>1 DEF OpenIsListed, Listening
      <3> QED BY <3>1, <3>2
    <2> QED BY <2>0, <2>2, <2>3, <2>4 DEF Accounted
  <1> QED BY <1>1, HandOverInit, HandOverNext, PTL DEF ServerSpec
================================================================================
