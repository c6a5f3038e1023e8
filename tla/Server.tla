-------------------------------- MODULE Server ---------------------------------
(***************************************************************************)
(* The threads of DFileServer on top of DFSMessaging: the network daemon    *)
(* that accepts clients (src/src/Networking.cxx), the prime network threads *)
(* that take them over (src/src/NetworkThread.cxx) and the console that     *)
(* ends the program (src/src/DashFileServer.cxx).                           *)
(*                                                                          *)
(* Every use of the bus is the action of Messaging it calls.  Left out are  *)
(* the log messages to the console, the messengers of connections and       *)
(* interfaces (they only log) and what a network thread does with a         *)
(* connection, which is in NetworkThread: here a pass over the connections  *)
(* ends any of them.                                                        *)
(***************************************************************************)
EXTENDS Messaging

CONSTANTS
  Daemon,         \* the messenger of the network daemon
  Thread,         \* the prime network threads, by their messengers
  Network,        \* MSG_TARGET_NETWORK
  Connection,     \* the clients
  NoConnection,   \* what a message carries that is no task
  Limits,         \* what -maxconnections may be, 0 for no limit
  Backgrounds     \* {TRUE} for a start with -background, {FALSE} for one without

ASSUME ServerAssumption ==
  /\ Address = Thread \cup {Daemon} /\ Daemon \notin Thread
  /\ Thread # {}                    \* Configuration.primeThreads is 4
  /\ Network \in Channel
  /\ IsFiniteSet(Connection) /\ NoConnection \notin Connection
  /\ FALSE \in Pauses
  /\ Limits \subseteq Nat /\ Backgrounds \subseteq BOOLEAN

VARIABLES
  MaxConnections,    \* Configuration.MaxConnections
  process,           \* "one", or with -background: "parent", and "child" when it has forked
  daemon,            \* where NetworkLoop is
  thread,            \* per network thread: where its constructor or its loop is
  ConnectionList,    \* per network thread
  conn,              \* per client: its connection
  pointer,           \* per message ID: the ClientConnection the task points to
  ActiveConnections,
  console,           \* where legacyConsole is
  dropped            \* history: tasks in the map that acceptTask did not recognise

settings == <<MaxConnections, process>>
network == <<settings, daemon, thread, ConnectionList, conn, pointer, ActiveConnections, console, dropped>>
allVars == <<vars, network>>

ServerInit ==
  /\ Init
  /\ MaxConnections \in Limits
  /\ process \in {IF background THEN "parent" ELSE "one" : background \in Backgrounds}
  /\ daemon = "new"
  /\ thread = [t \in Thread |-> "none"]
  /\ ConnectionList = [t \in Thread |-> {}]
  /\ conn = [c \in Connection |-> "away"]
  /\ pointer = [i \in ID |-> NoConnection]
  /\ ActiveConnections = 0
  /\ console = "run"
  /\ dropped = {}

IsShutdown(id) == id \in Stored /\ sentMessages[id].msg.channel = All

--------------------------------------------------------------------------------
(* The network daemon *)

\* main constructs the daemon and starts NetworkLoop, ...
NetworkDaemon ==
  /\ daemon = "new"
  /\ ReceiveActiveMessenger(Daemon)
  /\ daemon' = "start"
  /\ UNCHANGED <<settings, thread, ConnectionList, conn, pointer, ActiveConnections, console, dropped>>

\* ... unless the options have the process forked first.  The child has neither the runtime
\* thread nor anybody who would start it again; the parent exits.
Fork ==
  /\ daemon = "start" /\ process = "parent"
  /\ process' = "child"
  /\ UNCHANGED <<vars, MaxConnections, daemon, thread, ConnectionList, conn, pointer, ActiveConnections,
                 console, dropped>>

\* NetworkLoop constructs one network thread after the other: a messenger, then its
\* channel, then the thread itself.
ConstructThread(t) ==
  /\ daemon = "start" /\ process # "parent"
  /\ thread[t] = "none" /\ \A u \in Thread : thread[u] # "constructed"
  /\ ReceiveActiveMessenger(t)
  /\ thread' = [thread EXCEPT ![t] = "constructed"]
  /\ UNCHANGED <<settings, daemon, ConnectionList, conn, pointer, ActiveConnections, console, dropped>>


StartThread(t) ==
  /\ thread[t] = "constructed"
  /\ RegisterOnChannel(t, Network)
  /\ thread' = [thread EXCEPT ![t] = "loop"]
  /\ UNCHANGED <<settings, daemon, ConnectionList, conn, pointer, ActiveConnections, console, dropped>>

EnterNetworkLoop ==
  /\ daemon = "start" /\ process # "parent"
  /\ \A t \in Thread : thread[t] \notin {"none", "constructed"}
  /\ daemon' = "poll"
  /\ UNCHANGED <<vars, settings, thread, ConnectionList, conn, pointer, ActiveConnections, console, dropped>>

\* Mutant: poll has no timeout, so the messages wait for the next client.
DaemonPollForever ==
  /\ daemon = "poll"
  /\ \E c \in Connection : conn[c] = "waiting"
  /\ AcceptMessage(Daemon)
  /\ daemon' = IF IsShutdown(Head(waitingMessageIDs[Daemon])) THEN "closing" ELSE "listen"
  /\ UNCHANGED <<settings, thread, ConnectionList, conn, pointer, ActiveConnections, console, dropped>>

\* poll returns, at the latest after its timeout; then at most one message is read.
DaemonRead ==
  /\ daemon = "poll"
  /\ AcceptMessage(Daemon)
  /\ daemon' = IF IsShutdown(Head(waitingMessageIDs[Daemon])) THEN "closing" ELSE "listen"
  /\ UNCHANGED <<settings, thread, ConnectionList, conn, pointer, ActiveConnections, console, dropped>>

DaemonNoMessage ==
  /\ daemon = "poll"
  /\ waitingMessageIDs[Daemon] = <<>>
  /\ daemon' = "listen"
  /\ UNCHANGED <<vars, settings, thread, ConnectionList, conn, pointer, ActiveConnections, console, dropped>>

\* Mutant: the limit is never looked at.
AnyNumber == TRUE

MayAccept == MaxConnections = 0 \/ ActiveConnections # MaxConnections

\* The connection travels to the network threads as the pointer of a task.
\* Then the next listener is looked at, if there is one.
IncomingConnection(c) ==
  /\ daemon = "listen"
  /\ conn[c] = "waiting" /\ MayAccept
  /\ SendPointer(Daemon, Network)
  /\ pointer' = [pointer EXCEPT ![nextMessageID + Len(MessageQueue)] = c]
  /\ conn' = [conn EXCEPT ![c] = "posted"]
  /\ ActiveConnections' = ActiveConnections + 1
  /\ daemon' \in {"listen", "poll"}
  /\ UNCHANGED <<settings, thread, ConnectionList, console, dropped>>

\* accept or the TLS handshake fails: the ClientConnection is deleted.
AcceptFails(c) ==
  /\ daemon = "listen"
  /\ conn[c] = "waiting" /\ MayAccept
  /\ conn' = [conn EXCEPT ![c] = "closed"]
  /\ daemon' \in {"listen", "poll"}
  /\ UNCHANGED <<vars, settings, thread, ConnectionList, pointer, ActiveConnections, console, dropped>>

NothingToAccept ==
  /\ daemon = "listen"
  /\ ~MayAccept \/ \A c \in Connection : conn[c] # "waiting"
  /\ daemon' = "poll"
  /\ UNCHANGED <<vars, settings, thread, ConnectionList, conn, pointer, ActiveConnections, console, dropped>>

DeleteDaemon ==
  /\ daemon = "closing"
  /\ DeactivateActiveMessenger(Daemon)
  /\ daemon' = "gone"
  /\ UNCHANGED <<settings, thread, ConnectionList, conn, pointer, ActiveConnections, console, dropped>>

--------------------------------------------------------------------------------
(* A prime network thread *)

\* It pauses without a timeout when it has no connection.
LoopHead(t) ==
  /\ thread[t] = "loop"
  /\ thread' = [thread EXCEPT ![t] = "drain"]
  /\ \/ ConnectionList[t] = {} /\ pauseForMessage(t, FALSE)
     \/ (ConnectionList[t] # {} \/ waitingMessageIDs[t] # <<>>) /\ UNCHANGED vars
  /\ UNCHANGED <<settings, daemon, ConnectionList, conn, pointer, ActiveConnections, console, dropped>>

\* Mutant: a thread that has connections reads the broadcast and goes on with them.
ReadAndGoOn(t) ==
  /\ thread[t] = "drain"
  /\ AcceptMessage(t)
  /\ thread' = [thread EXCEPT
       ![t] = IF IsShutdown(Head(waitingMessageIDs[t])) /\ ConnectionList[t] = {} THEN "closing"
              ELSE "drain"]
  /\ UNCHANGED <<settings, daemon, ConnectionList, conn, pointer, ActiveConnections, console, dropped>>

ThreadRead(t) ==
  /\ thread[t] = "drain"
  /\ AcceptMessage(t)
  /\ thread' = [thread EXCEPT
       ![t] = IF IsShutdown(Head(waitingMessageIDs[t])) THEN "closing" ELSE "drain"]
  /\ UNCHANGED <<settings, daemon, ConnectionList, conn, pointer, ActiveConnections, console, dropped>>

\* What acceptTask did, seen from its caller.
Took(id) == takes'[id] > takes[id]

\* Mutant: a thread keeps the connection whatever acceptTask returns.
TakeUnasked(t) ==
  /\ thread[t] = "drain"
  /\ acceptTask(t)
  /\ ConnectionList' = [ConnectionList EXCEPT ![t] = @ \cup {pointer[hand[t].id]}]
  /\ conn' = [conn EXCEPT ![pointer[hand[t].id]] = "open"]
  /\ UNCHANGED <<settings, daemon, thread, pointer, ActiveConnections, console, dropped>>

\* Whoever gets true from acceptTask adds the connection to its list.
ThreadTake(t) ==
  /\ thread[t] = "drain"
  /\ acceptTask(t)
  /\ LET id == hand[t].id
     IN \/ /\ Took(id)
           /\ ConnectionList' = [ConnectionList EXCEPT ![t] = @ \cup {pointer[id]}]
           /\ conn' = [conn EXCEPT ![pointer[id]] = "open"]
           /\ UNCHANGED dropped
        \/ /\ ~Took(id)
           /\ dropped' = dropped \cup ({id} \cap Stored)
           /\ UNCHANGED <<ConnectionList, conn>>
  /\ UNCHANGED <<settings, daemon, thread, pointer, ActiveConnections, console>>

Close(t, done) ==
  /\ ConnectionList' = [ConnectionList EXCEPT ![t] = @ \ done]
  /\ conn' = [c \in Connection |-> IF c \in done THEN "closed" ELSE conn[c]]

\* One pass over the connections, when the inbox is found empty: each may end.
ServeConnections(t) ==
  /\ thread[t] = "drain"
  /\ Running(t) /\ waitingMessageIDs[t] = <<>>
  /\ \E done \in SUBSET ConnectionList[t] : Close(t, done)
  /\ thread' = [thread EXCEPT ![t] = "loop"]
  /\ UNCHANGED <<vars, settings, daemon, pointer, ActiveConnections, console, dropped>>

DeleteThread(t) ==
  /\ thread[t] = "closing"
  /\ DeactivateActiveMessenger(t)
  /\ Close(t, ConnectionList[t])
  /\ thread' = [thread EXCEPT ![t] = "gone"]
  /\ UNCHANGED <<settings, daemon, pointer, ActiveConnections, console, dropped>>

--------------------------------------------------------------------------------
(* The console, the clients, and what the bus does by itself *)

ConsoleQuit ==
  /\ console = "run" /\ daemon # "new" /\ process # "parent"
  /\ ShutdownServer
  /\ console' = "quit"
  /\ UNCHANGED <<settings, daemon, thread, ConnectionList, conn, pointer, ActiveConnections, dropped>>

\* Five seconds later the program exits, whoever is still running.
Exit ==
  /\ console = "quit"
  /\ console' = "exited"
  /\ UNCHANGED <<vars, settings, daemon, thread, ConnectionList, conn, pointer, ActiveConnections, dropped>>

ClientArrives(c) ==
  /\ conn[c] = "away"
  /\ conn' = [conn EXCEPT ![c] = "waiting"]
  /\ UNCHANGED <<vars, settings, daemon, thread, ConnectionList, pointer, ActiveConnections, console, dropped>>

RuntimeThread == process # "child" /\ Runtime /\ UNCHANGED network

Bus ==
  \/ RuntimeThread
  \/ (Tick \/ \E t \in Thread : StartWait(t) \/ SpuriousWakeup(t)) /\ UNCHANGED network

DaemonStep ==
  \/ NetworkDaemon \/ Fork \/ EnterNetworkLoop \/ DaemonRead \/ DaemonNoMessage
  \/ NothingToAccept \/ DeleteDaemon
  \/ \E t \in Thread : ConstructThread(t) \/ StartThread(t)
  \/ \E c \in Connection : IncomingConnection(c) \/ AcceptFails(c)

ThreadStep(t) ==
  LoopHead(t) \/ ThreadRead(t) \/ ThreadTake(t) \/ ServeConnections(t) \/ DeleteThread(t)

ServerNext ==
  /\ console # "exited"
  /\ \/ Bus
     \/ DaemonStep
     \/ \E t \in Thread : ThreadStep(t)
     \/ ConsoleQuit
     \/ Exit
     \/ \E c \in Connection : ClientArrives(c)

ServerSpec == ServerInit /\ [][ServerNext]_allVars

--------------------------------------------------------------------------------
(* Properties *)

Open == {c \in Connection : conn[c] \in {"posted", "open"}}

ServerTypeOK ==
  /\ TypeOK
  /\ MaxConnections \in Limits /\ process \in {"one", "parent", "child"}
  /\ daemon \in {"new", "start", "poll", "listen", "closing", "gone"}
  /\ thread \in [Thread -> {"none", "constructed", "loop", "drain", "closing", "gone"}]
  /\ ConnectionList \in [Thread -> SUBSET Connection]
  /\ conn \in [Connection -> {"away", "waiting", "posted", "open", "closed"}]
  /\ pointer \in [ID -> Connection \cup {NoConnection}]
  /\ ActiveConnections \in 0 .. MaxMessages
  /\ console \in {"run", "quit", "exited"}
  /\ dropped \subseteq ID

\* A connection that a thread took over is in the list of that thread and of no
\* other, and no other connection is in a list.
OneOwner ==
  \A c \in Connection :
    Cardinality({t \in Thread : c \in ConnectionList[t]}) = IF conn[c] = "open" THEN 1 ELSE 0

\* Never more connections than -maxconnections, in the queue of the bus or open.
LimitKept == MaxConnections # 0 => Cardinality(Open) <= MaxConnections

\* A task that was posted before the shutdown was asked for is lost to nobody: when
\* the last thread is gone, some thread has taken it over and closed it, unless it
\* grew too old or its origin was no longer recognised.
HandedOver ==
  (\A t \in Thread : thread[t] = "gone") =>
    \A i, j \in ID :
      (i < j /\ pointer[i] # NoConnection /\ Sent(j) /\ pointer[j] = NoConnection)
        => conn[pointer[i]] = "closed" \/ i \in pruned \cup dropped

--------------------------------------------------------------------------------
(* Liveness *)

\* What the runtime thread does when it is scheduled; nobody promises a spurious wakeup.
ScheduledRuntime ==
  /\ process # "child"
  /\ RuntimeWait \/ RuntimeLock \/ RuntimeDistribute \/ RuntimeUnlock
  /\ UNCHANGED network

Runs == console # "exited"

\* As long as the program runs, its threads do.  A thread that waits for a mutex which becomes
\* free again and again gets it.
ServerFairness ==
  /\ WF_allVars(Runs /\ ScheduledRuntime)
  /\ SF_allVars(Runs /\ DaemonStep)
  /\ \A t \in Thread : SF_allVars(Runs /\ ThreadStep(t))

FairServerSpec == ServerSpec /\ ServerFairness

Notified(a) == \E i \in DOMAIN waitingMessageIDs[a] : IsShutdown(waitingMessageIDs[a][i])

\* A broadcast that grew too old before it is read is read as an empty message.
TooOld == \E id \in pruned : pointer[id] = NoConnection

\* The daemon ends after the shutdown broadcast has reached it, however many clients come.
DaemonEnds == Notified(Daemon) ~> (daemon = "gone" \/ ~Runs \/ TooOld)

\* A thread whose notification came between its look into the inbox and its wait pauses on.
PausesOn(t) == phase[t] # "run"

\* A network thread that the broadcast has reached ends as well, whatever connections it has,
\* unless it missed the notification.
ThreadEnds ==
  \A t \in Thread :
    Notified(t) ~> (thread[t] = "gone" \/ ~Runs \/ TooOld \/ []PausesOn(t))

\* The runtime thread missed the notification of what is in its queue.
QueueUnseen == runtime \in {"toWait", "parked"} /\ MessageQueue # <<>>


\* "[-maxconnections (connections)]" (README.DOC:1): when fewer clients are
\* connected than that, the next one is let in.
NextIsLetIn ==
  \A c \in Connection :
    (conn[c] = "waiting" /\ Cardinality(Open) < MaxConnections)
      ~> (conn[c] # "waiting" \/ Cardinality(Open) >= MaxConnections \/ console # "run")
================================================================================
