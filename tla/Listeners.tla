-------------------------------- MODULE Listeners --------------------------------
(***************************************************************************)
(* How DFileServer gets to its listening sockets, and how its network       *)
(* daemon serves them: main (src/src/DashFileServer.cxx) goes through the   *)
(* command line and adds listeners, the interfaces                          *)
(* (src/src/Interfaces/Interface.cxx) bind their sockets, which may fail,   *)
(* and the one thread of NetworkLoop (src/src/Networking.cxx) polls them    *)
(* all, accepts, and for TLS waits for the handshake.                       *)
(*                                                                          *)
(* The bus is in Server, and so is the limit of connections: no command     *)
(* line here sets it.  Of the shutdown only the message to the daemon is    *)
(* kept.  A client that gives up stays in the queue of the kernel, so it    *)
(* counts as waiting.                                                       *)
(***************************************************************************)
EXTENDS Integers, Sequences, SequencesExt, FiniteSets

CONSTANTS
  Client,
  CommandLines,   \* what the program may be started with: sequences of [name, given, value]
  Unavailables,   \* addresses [family, port] that other programs hold or only root may bind:
                  \* one of these sets
  DefaultBackLog, \* 100
  DefaultPorts    \* [http, https]: 2000 and 2001

Port == 1 .. 65535

\* An option, whether a value follows it, and the number that atoi makes of it.
Option == [name : STRING, given : BOOLEAN, value : Int]

ASSUME ListenersAssumption ==
  /\ CommandLines \subseteq Seq(Option)
  /\ DefaultBackLog \in Nat \ {0}
  /\ DefaultPorts \in [http : Port, https : Port]

VARIABLES
  main,                \* where main is
  options,             \* what is left of the command line
  interfacesActivated,
  BackLog,             \* Configuration.BackLog
  unix,                \* which of -chroot and -setuid were given
  unavailable,         \* one of Unavailables
  socket,              \* the sockets the kernel has for this program, by descriptor
  InterfaceList, PollStruct,
  daemon,              \* where NetworkLoop is
  i,                   \* the entry of PollStruct it looks at
  client,              \* per client: the state of its connection and the socket it is for
  shutdown             \* SHUTDOWN is in the inbox of the daemon

startup == <<main, options, interfacesActivated, BackLog, unix, unavailable>>
lists   == <<InterfaceList, PollStruct>>
vars    == <<startup, socket, lists, daemon, i, client, shutdown>>

Kind == {"-ipv4", "-ipv6", "-ipv4s"}
Address(kind, port) == [family |-> IF kind = "-ipv6" THEN "IPv6" ELSE "IPv4", port |-> port]

NoSocket == -1
Nowhere == [state |-> "away", at |-> NoSocket]

Init ==
  /\ main = "options" /\ options \in CommandLines
  /\ interfacesActivated = FALSE /\ BackLog = DefaultBackLog /\ unix = {}
  /\ unavailable \in Unavailables
  /\ socket = <<>> /\ InterfaceList = <<>> /\ PollStruct = <<>>
  /\ daemon = "none" /\ i = 1
  /\ client = [c \in Client |-> Nowhere]
  /\ shutdown = FALSE

--------------------------------------------------------------------------------
(* Interfaces *)

\* Mutant: "allow dual-stack (IPv4 and IPv6) connections", as the comment has it.
DualStack(kind) == FALSE

\* setsockopt sets IPV6_V6ONLY, so that an IPv6 socket is for IPv6 only.
V6Only(kind) == kind = "-ipv6"

\* Without that option an IPv6 socket has the IPv4 port of its number as well.
Families(address, v6only) ==
  IF address.family = "IPv6" /\ ~v6only THEN {"IPv4", "IPv6"} ELSE {address.family}

Listening(s) == socket[s].state = "listening"

InUse(address, v6only) ==
  \E s \in DOMAIN socket :
    /\ Listening(s) /\ socket[s].address.port = address.port
    /\ Families(socket[s].address, socket[s].v6only) \cap Families(address, v6only) # {}

Socket(address, v6only, state) ==
  [address |-> address, v6only |-> v6only, state |-> state, backlog |-> BackLog, queue |-> <<>>]

\* An HTTPS interface listens before it makes its certificate, which may fail.
Interface(kind, NetworkSocket, certificate) ==
  [kind |-> kind, NetworkSocket |-> NetworkSocket, certificate |-> certificate]

\* Each step of generate_self_signed_cert may fail.
Certificates(kind) == {FALSE, kind = "-ipv4s"}

\* What there can be afterwards, in the order of the calls: socket, setsockopt, bind or listen
\* has failed, or the socket listens.  Whatever there is stays.
initializeInterface(kind, port) ==
  LET address == Address(kind, port)
      With(v6only, state, certificate) ==
        [socket    |-> Append(socket, Socket(address, v6only, state)),
         interface |-> Interface(kind, Len(socket) + 1, certificate)]
  IN {[socket |-> socket, interface |-> Interface(kind, NoSocket, FALSE)]}
       \cup {With(FALSE, "unset", FALSE)}
       \cup IF InUse(address, V6Only(kind)) \/ address \in unavailable
            THEN {With(V6Only(kind), "unbound", FALSE)}
            ELSE {With(V6Only(kind), "bound", FALSE)}
                   \cup {With(V6Only(kind), "listening", certificate) : certificate \in Certificates(kind)}

--------------------------------------------------------------------------------
(* The start *)

PollEntry(fd) == [fd |-> fd, in |-> FALSE]

\* Mutant: an interface that is not bound is not put into the list.
addListenerOrStop(kind, port) ==
  \E made \in initializeInterface(kind, port) :
    /\ socket' = made.socket
    /\ PollStruct' = Append(PollStruct, PollEntry(made.interface.NetworkSocket))
    /\ InterfaceList' = IF made.interface.NetworkSocket = NoSocket \/ Last(socket').state # "listening"
                        THEN InterfaceList
                        ELSE Append(InterfaceList, made.interface)

\* It returns true, however initializeInterface ended.
addListener(kind, port) ==
  \E made \in initializeInterface(kind, port) :
    /\ socket' = made.socket
    /\ PollStruct' = Append(PollStruct, PollEntry(made.interface.NetworkSocket))
    /\ InterfaceList' = Append(InterfaceList, made.interface)

AtOption(names) == main = "options" /\ options # <<>> /\ Head(options).name \in names

\* Mutant: any number is taken for a port.
AnyPort(option) == option.given

ValidPort(option) == option.given /\ option.value \in Port

ListenerOption ==
  /\ AtOption(Kind) /\ ValidPort(Head(options))
  /\ addListener(Head(options).name, Head(options).value)
  /\ interfacesActivated' = TRUE
  /\ options' = Tail(options)
  /\ UNCHANGED <<main, BackLog, unix, unavailable, daemon, i, client, shutdown>>

Terminate ==
  /\ main' = "exited"
  /\ UNCHANGED <<options, interfacesActivated, BackLog, unix, unavailable, socket, lists, daemon, i,
                 client, shutdown>>

\* exit(-1): the port is missing or is none.
InvalidPort == AtOption(Kind) /\ ~ValidPort(Head(options)) /\ Terminate

\* The other options that have a value do not look whether it is there.
MissingValue ==
  /\ AtOption({"-backlog", "-chroot", "-setuid"}) /\ ~Head(options).given
  /\ Terminate

\* It holds for the listeners that come after it.
BackLogOption ==
  /\ AtOption({"-backlog"}) /\ Head(options).given
  /\ BackLog' = Head(options).value
  /\ options' = Tail(options)
  /\ UNCHANGED <<main, interfacesActivated, unix, unavailable, socket, lists, daemon, i, client, shutdown>>

UnixOption ==
  /\ AtOption({"-chroot", "-setuid"}) /\ Head(options).given
  /\ unix' = unix \cup {Head(options).name}
  /\ options' = Tail(options)
  /\ UNCHANGED <<main, interfacesActivated, BackLog, unavailable, socket, lists, daemon, i, client, shutdown>>

\* The child goes on, with the sockets there are; the parent exits.  When fork fails there
\* is no child.
Background ==
  /\ AtOption({"-background"})
  /\ options' = Tail(options)
  /\ main' \in {"options", "exited"}
  /\ UNCHANGED <<interfacesActivated, BackLog, unix, unavailable, socket, lists, daemon, i, client, shutdown>>

\* Three listeners when the command line has none.
Defaults == <<[kind |-> "-ipv4", port |-> DefaultPorts.http], [kind |-> "-ipv6", port |-> DefaultPorts.http],
              [kind |-> "-ipv4s", port |-> DefaultPorts.https]>>

DefaultListener ==
  /\ main = "options" /\ options = <<>>
  /\ ~interfacesActivated /\ Len(PollStruct) < Len(Defaults)
  /\ LET next == Defaults[Len(PollStruct) + 1]
     IN addListener(next.kind, next.port)
  /\ UNCHANGED <<startup, daemon, i, client, shutdown>>

Ready == main = "options" /\ options = <<>> /\ (interfacesActivated \/ Len(PollStruct) = Len(Defaults))

\* chroot, chdir or setuid fails: exit(-1).
UnixFails == Ready /\ unix # {} /\ Terminate

StartNetworkLoop ==
  /\ Ready
  /\ main' = "console" /\ daemon' = "poll"
  /\ UNCHANGED <<options, interfacesActivated, BackLog, unix, unavailable, socket, lists, i, client, shutdown>>

--------------------------------------------------------------------------------
(* The network daemon *)

\* A socket that does not listen makes poll return at once, but with POLLHUP only.
Poll ==
  /\ daemon = "poll"
  /\ PollStruct' = [k \in DOMAIN PollStruct |-> [PollStruct[k] EXCEPT
       !.in = @ \/ (PollStruct[k].fd # NoSocket /\ socket[PollStruct[k].fd].queue # <<>>)]]
  /\ daemon' = "message"
  /\ UNCHANGED <<startup, socket, InterfaceList, i, client, shutdown>>

NoMessage ==
  /\ daemon = "message" /\ ~shutdown
  /\ daemon' = "look" /\ i' = 1
  /\ UNCHANGED <<startup, socket, lists, client, shutdown>>

\* Mutant: the message is read when nobody is waiting.
ReadWhenIdle ==
  /\ daemon = "message" /\ shutdown
  /\ \A k \in DOMAIN PollStruct : ~PollStruct[k].in
  /\ daemon' = "gone"
  /\ socket' = [s \in DOMAIN socket |-> [socket[s] EXCEPT !.state = "closed", !.queue = <<>>]]
  /\ client' = [c \in Client |-> IF client[c].state = "waiting" THEN Nowhere ELSE client[c]]
  /\ UNCHANGED <<startup, lists, i, shutdown>>

\* "SHUTDOWN": delete this, and with it the interfaces.
ReadShutdown ==
  /\ daemon = "message" /\ shutdown
  /\ daemon' = "gone"
  /\ socket' = [s \in DOMAIN socket |-> [socket[s] EXCEPT !.state = "closed", !.queue = <<>>]]
  /\ client' = [c \in Client |-> IF client[c].state = "waiting" THEN Nowhere ELSE client[c]]
  /\ UNCHANGED <<startup, lists, i, shutdown>>

\* Nothing looks at the revents again before the next poll.
EndOfLoop ==
  /\ daemon = "look" /\ i > Len(PollStruct)
  /\ daemon' = "poll" /\ i' = 1
  /\ PollStruct' = [k \in DOMAIN PollStruct |-> PollEntry(PollStruct[k].fd)]
  /\ UNCHANGED <<startup, socket, InterfaceList, client, shutdown>>

NobodyThere ==
  /\ daemon = "look" /\ i <= Len(PollStruct) /\ ~PollStruct[i].in
  /\ i' = i + 1
  /\ UNCHANGED <<startup, socket, lists, daemon, client, shutdown>>

\* The socket that accept is called on, and the clients that wait there.
Accepting == InterfaceList[i].NetworkSocket
Waiting == socket[Accepting].queue

\* Mutant: one client per poll.
LookNext == i' = Len(PollStruct) + 1
Continue == i' = i + 1

AtReported == daemon = "look" /\ i <= Len(PollStruct) /\ PollStruct[i].in

\* accept fails, for want of descriptors or memory: acceptConnection returns nullptr and
\* IncomingConnection deletes its ClientConnection.  The client is still in the queue.
AcceptFails ==
  /\ AtReported /\ Waiting # <<>>
  /\ Continue
  /\ UNCHANGED <<startup, socket, lists, daemon, client, shutdown>>

CanAccept(tls) ==
  AtReported /\ Waiting # <<>> /\ (InterfaceList[i].kind = "-ipv4s") = tls

Dequeue == socket' = [socket EXCEPT ![Accepting].queue = Tail(@)]
Becomes(c, state) == client' = [client EXCEPT ![c].state = state]

\* acceptConnection of the plain interfaces; the connection is posted.
AcceptPlain ==
  /\ CanAccept(FALSE)
  /\ Dequeue
  /\ Becomes(Head(Waiting), "accepted")
  /\ Continue
  /\ UNCHANGED <<startup, lists, daemon, shutdown>>

\* SSL_new fails: the interface of the client is deleted, and its connection with it.
SSLNewFails ==
  /\ CanAccept(TRUE)
  /\ Dequeue
  /\ client' = [client EXCEPT ![Head(Waiting)] = Nowhere]
  /\ Continue
  /\ UNCHANGED <<startup, lists, daemon, shutdown>>

\* acceptConnection of the HTTPS interface, up to SSL_accept ...
AcceptTLS ==
  /\ CanAccept(TRUE)
  /\ Dequeue
  /\ Becomes(Head(Waiting), "handshake")
  /\ daemon' = "handshake"
  /\ UNCHANGED <<startup, lists, i, shutdown>>

\* ... which returns when the client has completed its part or has failed.
HandshakeDone(c) ==
  /\ client[c].state = "handshake" /\ InterfaceList[i].certificate
  /\ Becomes(c, "accepted")
  /\ daemon' = "look" /\ Continue
  /\ UNCHANGED <<startup, socket, lists, shutdown>>

HandshakeFails(c) ==
  /\ client[c].state = "handshake"
  /\ client' = [client EXCEPT ![c] = Nowhere]
  /\ daemon' = "look" /\ Continue
  /\ UNCHANGED <<startup, socket, lists, shutdown>>

--------------------------------------------------------------------------------
(* The clients and the console *)

Connect(c) ==
  /\ client[c] = Nowhere
  /\ \E s \in DOMAIN socket :
       /\ Listening(s) /\ Len(socket[s].queue) < socket[s].backlog
       /\ socket' = [socket EXCEPT ![s].queue = Append(@, c)]
       /\ client' = [client EXCEPT ![c] = [state |-> "waiting", at |-> s]]
  /\ UNCHANGED <<startup, lists, daemon, i, shutdown>>

\* Its connection ends, and it may come again.
Leave(c) ==
  /\ client[c].state = "accepted"
  /\ client' = [client EXCEPT ![c] = Nowhere]
  /\ UNCHANGED <<startup, socket, lists, daemon, i, shutdown>>

ShutdownServer ==
  /\ main = "console" /\ ~shutdown
  /\ shutdown' = TRUE
  /\ UNCHANGED <<startup, socket, lists, daemon, i, client>>

Exit == main = "console" /\ shutdown /\ Terminate

--------------------------------------------------------------------------------
Start ==
  \/ ListenerOption \/ InvalidPort \/ MissingValue \/ BackLogOption \/ UnixOption \/ Background
  \/ DefaultListener \/ UnixFails \/ StartNetworkLoop

NetworkLoop ==
  \/ Poll \/ NoMessage \/ ReadShutdown \/ EndOfLoop \/ NobodyThere
  \/ AcceptPlain \/ AcceptTLS \/ AcceptFails \/ SSLNewFails

Handshake(c) == HandshakeDone(c) \/ HandshakeFails(c)

Next ==
  /\ main # "exited"
  /\ \/ Start \/ NetworkLoop \/ ShutdownServer \/ Exit
     \/ \E c \in Client : Handshake(c) \/ Connect(c) \/ Leave(c)

Spec == Init /\ [][Next]_vars

\* The start and the thread of the daemon go on whenever they can.  Nothing is assumed of the
\* clients: they may leave a handshake unfinished, and come back for ever.  Nor is anything
\* assumed of accept: it may fail for ever.
FairSpec == Spec /\ WF_vars(Start) /\ WF_vars(NetworkLoop)

--------------------------------------------------------------------------------
(* Properties *)

\* Every variable has its type; in particular no socket is bound to port 0, which the
\* kernel would replace by one of its choice, or to a port beyond 16 bits.
ListenersTypeOK ==
  /\ main \in {"options", "console", "exited"}
  /\ options \in Seq(Option)
  /\ interfacesActivated \in BOOLEAN /\ BackLog \in Int
  /\ unix \subseteq {"-chroot", "-setuid"}
  /\ unavailable \in Unavailables
  /\ socket \in Seq([address : [family : {"IPv4", "IPv6"}, port : Port],
                     v6only : BOOLEAN, state : {"unset", "unbound", "bound", "listening", "closed"},
                     backlog : Int, queue : Seq(Client)])
  /\ InterfaceList \in Seq([kind : Kind, NetworkSocket : DOMAIN socket \cup {NoSocket},
                           certificate : BOOLEAN])
  /\ PollStruct \in Seq([fd : DOMAIN socket \cup {NoSocket}, in : BOOLEAN])
  /\ daemon \in {"none", "poll", "message", "look", "handshake", "gone"}
  /\ i \in 1 .. Len(PollStruct) + 1
  /\ client \in [Client -> [state : {"away", "waiting", "handshake", "accepted"},
                            at : DOMAIN socket \cup {NoSocket}]]
  /\ shutdown \in BOOLEAN

\* The listening sockets block.  The daemon calls accept only when somebody waits at the
\* interface it calls, whichever of the listeners failed to start: else it would neither
\* serve the others nor hear of a shutdown.
AcceptNeverWaits ==
  AtReported => i <= Len(InterfaceList) /\ Accepting # NoSocket /\ Waiting # <<>>

\* "IPv6 support and HTTPS ( IPv4 ) support ... to be active at the same time"
\* (CHANGES.DOC:11): bind fails only where another program or an earlier listener of the same
\* family has the port.  "Set the socket to allow dual-stack (IPv4 and IPv6) connections"
\* (Interface.cxx:220) promises the opposite; the call below that comment sets IPV6_V6ONLY,
\* without which the default listeners would exclude each other.
NoFalseConflict ==
  \A s \in DOMAIN socket :
    socket[s].state = "unbound" =>
      \/ socket[s].address \in unavailable
      \/ \E r \in 1 .. s - 1 : /\ socket[r].address = socket[s].address
                              /\ socket[r].state \in {"listening", "closed"}

Stopped == daemon = "gone" \/ main = "exited"

\* A client whose handshake never ends stops the daemon.
Stalled == daemon = "handshake"

\* There is a socket for each listener, so no more than options, or defaults.
Descriptor == 1 .. Max({Len(Defaults)} \cup {Len(line) : line \in CommandLines})

WaitsAt(c, s) == client[c].state = "waiting" /\ client[c].at = s

\* Unless a client leaves its handshake unfinished for ever, everybody who waits at a listener
\* is let in or refused, however often others come back to another listener, and whatever
\* fails there: only the accept at his own listener may keep him out, by failing for ever.
EverybodyServed ==
  \/ <>[]Stalled
  \/ \A s \in Descriptor :
       \/ \A c \in Client : WaitsAt(c, s) ~> (~WaitsAt(c, s) \/ Stopped)
       \/ []<><<AcceptFails /\ Accepting = s>>_vars

\* With the same exception of the handshake the daemon ends after a shutdown, however many
\* clients come and however often accept fails.
ShutdownHeard == <>[]Stalled \/ (shutdown ~> Stopped)
================================================================================
