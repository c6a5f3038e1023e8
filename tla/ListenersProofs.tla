----------------------------- MODULE ListenersProofs -----------------------------
(* Theorems about Listeners, for every set of clients, every command line and every
   set of addresses that are not available. *)
EXTENDS Listeners, SequenceTheorems, TLAPS

SocketFields ==
  [address : [family : {"IPv4", "IPv6"}, port : Port],
   v6only : BOOLEAN, state : {"unset", "unbound", "bound", "listening", "closed"},
   backlog : Int, queue : Seq(Client)]

\* A socket listens only if the option that its family wants is set.
SocketType ==
  {s \in SocketFields : s.state = "listening" => (s.v6only <=> s.address.family = "IPv6")}

InterfaceType == [kind : Kind, NetworkSocket : Nat \cup {NoSocket}, certificate : BOOLEAN]
EntryType == [fd : Nat \cup {NoSocket}, in : BOOLEAN]

\* The types, with the descriptors apart from the sequences that hold them.
Types ==
  /\ main \in {"options", "console", "exited"}
  /\ options \in Seq(Option)
  /\ interfacesActivated \in BOOLEAN /\ BackLog \in Int
  /\ unix \subseteq {"-chroot", "-setuid"}
  /\ unavailable \in Unavailables
  /\ socket \in Seq(SocketType)
  /\ InterfaceList \in Seq(InterfaceType)
  /\ PollStruct \in Seq(EntryType)
  /\ daemon \in {"none", "poll", "message", "look", "handshake", "gone"}
  /\ i \in 1 .. Len(PollStruct) + 1
  /\ client \in [Client -> [state : {"away", "waiting", "handshake", "accepted"},
                            at : Nat \cup {NoSocket}]]
  /\ shutdown \in BOOLEAN

\* The two lists go together, and every listener has a socket of its own or none.
Together ==
  /\ Len(InterfaceList) = Len(PollStruct)
  /\ \A k \in 1 .. Len(PollStruct) :
       /\ PollStruct[k].fd = InterfaceList[k].NetworkSocket
       /\ PollStruct[k].fd \in 1 .. Len(socket) \cup {NoSocket}
  /\ \A k, l \in 1 .. Len(PollStruct) :
       PollStruct[k].fd = PollStruct[l].fd => k = l \/ PollStruct[k].fd = NoSocket
  /\ \A c \in Client : client[c].at \in 1 .. Len(socket) \cup {NoSocket}

\* Entry k is still to be looked at in this round.
ToLookAt(k) == daemon = "message" \/ (daemon = "look" /\ k >= i) \/ (daemon = "handshake" /\ k > i)

\* What poll reported of an entry holds until accept is called on it.
Reported ==
  \A k \in 1 .. Len(PollStruct) :
    PollStruct[k].in =>
      /\ daemon \notin {"none", "poll"}
      /\ ToLookAt(k) => PollStruct[k].fd # NoSocket /\ socket[PollStruct[k].fd].queue # <<>>

\* The daemon starts when the options are done, and waits for one handshake at most.
InStep ==
  /\ main = "options" => daemon = "none"
  /\ \A c, d \in Client : client[c].state = "handshake" /\ client[d].state = "handshake" => c = d
  /\ \A c \in Client : client[c].state = "handshake" => daemon = "handshake"
  /\ daemon = "handshake" => i <= Len(PollStruct)

\* NoFalseConflict, with the domain of the sequence spelt out.
TakenByOwnFamily ==
  \A s \in 1 .. Len(socket) :
    socket[s].state = "unbound" =>
      \/ socket[s].address \in unavailable
      \/ \E r \in 1 .. s - 1 : socket[r].address = socket[s].address /\ socket[r].state \in {"listening", "closed"}

Inv == Types /\ Together /\ Reported /\ InStep /\ TakenByOwnFamily

--------------------------------------------------------------------------------
(* Lemmas *)

\* What a listener adds to the sockets and to the two lists.
Added ==
  /\ socket' \in Seq(SocketType) /\ InterfaceList' \in Seq(InterfaceType) /\ PollStruct' \in Seq(EntryType)
  /\ \A s \in 1 .. Len(socket) : socket'[s] = socket[s]
  /\ \/ socket' = socket
     \/ /\ Len(socket') = Len(socket) + 1
        /\ socket'[Len(socket')].state = "unbound" =>
             \/ socket'[Len(socket')].address \in unavailable
             \/ \E r \in 1 .. Len(socket) :
                  /\ socket[r].address = socket'[Len(socket')].address
                  /\ socket[r].state \in {"listening", "closed"}
  /\ Len(InterfaceList') = Len(InterfaceList) + 1 /\ Len(PollStruct') = Len(PollStruct) + 1
  /\ \A k \in 1 .. Len(InterfaceList) : InterfaceList'[k] = InterfaceList[k]
  /\ \A k \in 1 .. Len(PollStruct) : PollStruct'[k] = PollStruct[k]
  /\ LET entry == PollStruct'[Len(PollStruct')]
     IN /\ InterfaceList'[Len(InterfaceList')].NetworkSocket = entry.fd
        /\ ~entry.in
        /\ entry.fd \in {Len(socket) + 1, NoSocket}
        /\ entry.fd # NoSocket => Len(socket') = Len(socket) + 1

\* However initializeInterface ends, the lists grow together.
LEMMA ListenerAdded ==
  ASSUME Types, NEW kind \in Kind, NEW port \in Port, addListener(kind, port)
  PROVE  Added
  <1> DEFINE address == Address(kind, port)
             fd == Len(socket) + 1
  <1>1. /\ Len(socket) \in Nat /\ Len(PollStruct) \in Nat /\ Len(InterfaceList) \in Nat
        /\ address \in [family : {"IPv4", "IPv6"}, port : Port]
    BY LenProperties DEF Types, Address
  <1>2. PICK made \in initializeInterface(kind, port) :
          /\ socket' = made.socket
          /\ PollStruct' = Append(PollStruct, PollEntry(made.interface.NetworkSocket))
          /\ InterfaceList' = Append(InterfaceList, made.interface)
    BY DEF addListener
  <1>3. \/ made = [socket |-> socket, interface |-> Interface(kind, NoSocket, FALSE)]
        \/ \E v6only \in BOOLEAN, state \in {"unset", "unbound", "bound", "listening"},
               certificate \in BOOLEAN :
             /\ made = [socket    |-> Append(socket, Socket(address, v6only, state)),
                        interface |-> Interface(kind, fd, certificate)]
             /\ state = "unbound" => InUse(address, V6Only(kind)) \/ address \in unavailable
             /\ state = "listening" => v6only = V6Only(kind)
    <2>0. V6Only(kind) \in BOOLEAN
      BY DEF V6Only
    <2>1. CASE InUse(address, V6Only(kind)) \/ address \in unavailable
      BY <2>0, <2>1 DEF initializeInterface
    <2>2. CASE ~(InUse(address, V6Only(kind)) \/ address \in unavailable)
      BY <2>0, <2>2 DEF initializeInterface, Certificates
    <2> QED BY <2>1, <2>2
  <1>4. ASSUME NEW n \in {fd, NoSocket}, NEW certificate \in BOOLEAN,
               made.interface = Interface(kind, n, certificate)
        PROVE  /\ InterfaceList' \in Seq(InterfaceType) /\ PollStruct' \in Seq(EntryType)
               /\ Len(InterfaceList') = Len(InterfaceList) + 1 /\ Len(PollStruct') = Len(PollStruct) + 1
               /\ \A k \in 1 .. Len(InterfaceList) : InterfaceList'[k] = InterfaceList[k]
               /\ \A k \in 1 .. Len(PollStruct) : PollStruct'[k] = PollStruct[k]
               /\ InterfaceList'[Len(InterfaceList')] = Interface(kind, n, certificate)
               /\ PollStruct'[Len(PollStruct')] = PollEntry(n)
    <2>1. Interface(kind, n, certificate) \in InterfaceType /\ PollEntry(n) \in EntryType
      BY <1>1 DEF Interface, InterfaceType, PollEntry, EntryType
    <2>2. made.interface.NetworkSocket = n
      BY <1>4 DEF Interface
    <2> QED BY <1>2, <1>4, <2>1, <2>2, AppendProperties DEF Types
  <1>5. CASE made = [socket |-> socket, interface |-> Interface(kind, NoSocket, FALSE)]
    <2>1. made.socket = socket /\ made.interface = Interface(kind, NoSocket, FALSE)
      BY <1>5
    <2>2. socket' = socket
      BY <1>2, <2>1
    <2>3. /\ Interface(kind, NoSocket, FALSE).NetworkSocket = NoSocket
          /\ PollEntry(NoSocket).fd = NoSocket /\ ~PollEntry(NoSocket).in
      BY DEF Interface, PollEntry
    <2>4. socket' \in Seq(SocketType)
      BY <2>2 DEF Types
    <2> QED BY <1>1, <1>4, <2>1, <2>2, <2>3, <2>4 DEF Added
  <1>6. ASSUME NEW v6only \in BOOLEAN, NEW state \in {"unset", "unbound", "bound", "listening"},
               NEW certificate \in BOOLEAN,
               made = [socket    |-> Append(socket, Socket(address, v6only, state)),
                       interface |-> Interface(kind, fd, certificate)],
               state = "unbound" => InUse(address, V6Only(kind)) \/ address \in unavailable,
               state = "listening" => v6only = V6Only(kind)
        PROVE  Added
    <2> DEFINE new == Socket(address, v6only, state)
    <2>0. made.socket = Append(socket, new) /\ made.interface = Interface(kind, fd, certificate)
      BY <1>6
    <2>1. new \in SocketType
      <3>1. <<>> \in Seq(Client)
        BY EmptySeq
      <3>2. new \in SocketFields
        BY <1>1, <3>1 DEF Socket, SocketFields, Types
      <3>3. V6Only(kind) <=> address.family = "IPv6"
        BY DEF V6Only, Address
      <3> QED BY <1>6, <3>2, <3>3 DEF Socket, SocketType
    <2>2. /\ socket' \in Seq(SocketType) /\ Len(socket') = Len(socket) + 1
          /\ \A s \in 1 .. Len(socket) : socket'[s] = socket[s]
          /\ socket'[Len(socket')] = new
      BY <1>2, <2>0, <2>1, AppendProperties DEF Types
    <2>3. InUse(address, V6Only(kind)) =>
            \E r \in 1 .. Len(socket) :
              socket[r].address = address /\ socket[r].state \in {"listening", "closed"}
      <3> SUFFICES ASSUME InUse(address, V6Only(kind))
                   PROVE  \E r \in 1 .. Len(socket) :
                            socket[r].address = address /\ socket[r].state \in {"listening", "closed"}
        OBVIOUS
      <3>0. DOMAIN socket = 1 .. Len(socket)
        BY LenProperties DEF Types
      <3>1. PICK r \in 1 .. Len(socket) :
              /\ socket[r].state = "listening" /\ socket[r].address.port = address.port
              /\ Families(socket[r].address, socket[r].v6only) \cap Families(address, V6Only(kind)) # {}
        BY <3>0 DEF InUse, Listening
      <3>2. /\ socket[r].address \in [family : {"IPv4", "IPv6"}, port : Port]
            /\ socket[r].v6only <=> socket[r].address.family = "IPv6"
        <4>1. socket[r] \in SocketType
          BY ElementOfSeq DEF Types
        <4> QED BY <3>1, <4>1 DEF SocketType, SocketFields
      <3>3. /\ Families(socket[r].address, socket[r].v6only) = {socket[r].address.family}
            /\ Families(address, V6Only(kind)) = {address.family}
        BY <3>2 DEF Families, V6Only, Address
      <3>4. socket[r].address.family = address.family
        BY <3>1, <3>3
      <3>5. socket[r].address = address
        BY <1>1, <3>1, <3>2, <3>4
      <3> QED BY <3>1, <3>5
    <2>4. new.state = state /\ new.address = address
      BY DEF Socket
    <2>5. /\ Interface(kind, fd, certificate).NetworkSocket = fd
          /\ PollEntry(fd).fd = fd /\ ~PollEntry(fd).in
      BY DEF Interface, PollEntry
    <2> QED BY <1>1, <1>4, <1>6, <2>0, <2>2, <2>3, <2>4, <2>5 DEF Added
  <1> QED BY <1>3, <1>5, <1>6

--------------------------------------------------------------------------------
(* The invariant *)

\* At the start there are no listeners and no sockets.
LEMMA InvInit == Init => Inv
  <1> SUFFICES ASSUME Init PROVE Inv
    OBVIOUS
  <1>1. /\ Len(socket) = 0 /\ Len(InterfaceList) = 0 /\ Len(PollStruct) = 0
        /\ socket \in Seq(SocketType) /\ InterfaceList \in Seq(InterfaceType)
        /\ PollStruct \in Seq(EntryType)
    BY EmptySeq DEF Init
  <1>2. Types
    <2>1. options \in Seq(Option) /\ BackLog \in Int
      BY ListenersAssumption DEF Init
    <2>2. client \in [Client -> [state : {"away", "waiting", "handshake", "accepted"},
                                at : Nat \cup {NoSocket}]]
      BY DEF Init, Nowhere
    <2>3. i \in 1 .. Len(PollStruct) + 1
      BY <1>1 DEF Init
    <2>4. /\ main \in {"options", "console", "exited"} /\ interfacesActivated \in BOOLEAN
          /\ unix \subseteq {"-chroot", "-setuid"} /\ unavailable \in Unavailables
          /\ daemon \in {"none", "poll", "message", "look", "handshake", "gone"}
          /\ shutdown \in BOOLEAN
      BY DEF Init
    <2> QED BY <1>1, <2>1, <2>2, <2>3, <2>4 DEF Types
  <1> QED BY <1>1, <1>2 DEF Init, Inv, Together, Reported, InStep, TakenByOwnFamily, Nowhere

\* Steps of main that leave the sockets alone.
Elsewhere ==
  /\ main' = main \/ main' = "exited"
  /\ UNCHANGED <<unavailable, socket, lists, daemon, i, client>>

LEMMA ElsewhereKinds ==
  ASSUME Types,
         \/ InvalidPort \/ MissingValue \/ BackLogOption \/ UnixOption \/ Background
         \/ UnixFails \/ ShutdownServer \/ Exit \/ UNCHANGED vars
  PROVE  /\ Elsewhere
         /\ options' \in Seq(Option) /\ BackLog' \in Int /\ interfacesActivated' \in BOOLEAN
         /\ unix' \subseteq {"-chroot", "-setuid"} /\ shutdown' \in BOOLEAN
  <1> USE DEF Types, Elsewhere, lists
  <1>1. CASE InvalidPort \/ MissingValue \/ UnixFails \/ Exit
    BY <1>1 DEF InvalidPort, MissingValue, UnixFails, Exit, Terminate
  <1>2. options # <<>> =>
          Head(options) \in Option /\ Tail(options) \in Seq(Option)
    BY HeadTailProperties
  <1>3. CASE BackLogOption
    BY <1>2, <1>3 DEF BackLogOption, AtOption, Option
  <1>4. CASE UnixOption
    BY <1>2, <1>4 DEF UnixOption, AtOption
  <1>5. CASE Background
    BY <1>2, <1>5 DEF Background, AtOption
  <1>6. CASE ShutdownServer
    BY <1>6 DEF ShutdownServer, startup
  <1>7. CASE UNCHANGED vars
    BY <1>7 DEF vars, startup
  <1> QED BY <1>1, <1>3, <1>4, <1>5, <1>6, <1>7

\* No step of main breaks the invariant.
LEMMA StartKeepsInv ==
  ASSUME Inv, Start \/ ShutdownServer \/ Exit \/ UNCHANGED vars
  PROVE  Inv'
  <1>0. /\ Types /\ Together /\ Reported /\ InStep /\ TakenByOwnFamily
        /\ Len(socket) \in Nat /\ Len(PollStruct) \in Nat /\ Len(InterfaceList) \in Nat
    BY LenProperties DEF Inv, Types
  <1>1. CASE \/ InvalidPort \/ MissingValue \/ BackLogOption \/ UnixOption \/ Background
             \/ UnixFails \/ ShutdownServer \/ Exit \/ UNCHANGED vars
    <2>1. /\ Elsewhere
          /\ options' \in Seq(Option) /\ BackLog' \in Int /\ interfacesActivated' \in BOOLEAN
          /\ unix' \subseteq {"-chroot", "-setuid"} /\ shutdown' \in BOOLEAN
      BY <1>0, <1>1, ElsewhereKinds
    <2>2. Types' /\ InStep'
      BY <1>0, <2>1 DEF Elsewhere, lists, Types, InStep
    <2>3. Together' /\ Reported' /\ TakenByOwnFamily'
      BY <1>0, <2>1 DEF Elsewhere, lists, Together, Reported, ToLookAt, TakenByOwnFamily
    <2> QED BY <2>2, <2>3 DEF Inv
  <1>2. CASE StartNetworkLoop
    <2>1. /\ main = "options" /\ main' = "console" /\ daemon' = "poll"
          /\ UNCHANGED <<options, interfacesActivated, BackLog, unix, unavailable, socket, InterfaceList,
                         PollStruct, i, client, shutdown>>
      BY <1>2 DEF StartNetworkLoop, Ready, lists
    <2>2. daemon = "none"
      BY <1>0, <2>1 DEF InStep
    <2>3. Types' /\ InStep'
      BY <1>0, <2>1, <2>2 DEF Types, InStep
    <2>4. Together' /\ Reported' /\ TakenByOwnFamily'
      BY <1>0, <2>1, <2>2 DEF Together, Reported, ToLookAt, TakenByOwnFamily
    <2> QED BY <2>3, <2>4 DEF Inv
  <1>3. CASE ListenerOption \/ DefaultListener
    <2>1. \E kind \in Kind, port \in Port : addListener(kind, port)
      <3>1. CASE ListenerOption
        BY <3>1 DEF ListenerOption, AtOption, ValidPort
      <3>2. CASE DefaultListener
        <4>1. Len(PollStruct) < 3
          BY <3>2 DEF DefaultListener, Defaults
        <4>2. Defaults[Len(PollStruct) + 1].kind \in Kind /\ Defaults[Len(PollStruct) + 1].port \in Port
          BY <1>0, <4>1, ListenersAssumption DEF Defaults, Kind
        <4> QED BY <3>2, <4>2 DEF DefaultListener
      <3> QED BY <1>3, <3>1, <3>2
    <2>2. Added
      BY <1>0, <2>1, ListenerAdded
    <2>3. /\ UNCHANGED <<main, BackLog, unix, unavailable, daemon, i, client, shutdown>>
          /\ main = "options"
          /\ (options' = Tail(options) /\ options # <<>>) \/ options' = options
          /\ interfacesActivated' \in BOOLEAN
      BY <1>0, <1>3 DEF ListenerOption, DefaultListener, AtOption, startup, Types
    <2>4. options' \in Seq(Option)
      <3>1. options # <<>> => Tail(options) \in Seq(Option)
        BY <1>0, HeadTailProperties DEF Types
      <3> QED BY <1>0, <2>3, <3>1 DEF Types
    <2>5. /\ Len(PollStruct') = Len(PollStruct) + 1 /\ Len(InterfaceList') = Len(InterfaceList) + 1
          /\ Len(socket') \in {Len(socket), Len(socket) + 1}
      BY <2>2 DEF Added
    <2>6. Types' /\ InStep'
      BY <1>0, <2>2, <2>3, <2>4, <2>5 DEF Added, Types, InStep
    <2>7. Together'
      <3> DEFINE fd == PollStruct'[Len(PollStruct')].fd
      <3>1. /\ fd = InterfaceList'[Len(InterfaceList')].NetworkSocket
            /\ \/ fd = NoSocket
               \/ fd = Len(socket) + 1 /\ Len(socket') = Len(socket) + 1
        BY <2>2 DEF Added
      <3>2. /\ \A k \in 1 .. Len(PollStruct) : /\ PollStruct'[k] = PollStruct[k]
                                               /\ InterfaceList'[k] = InterfaceList[k]
            /\ Len(InterfaceList) = Len(PollStruct)
        BY <1>0, <2>2 DEF Added, Together
      <3>3. \A k \in 1 .. Len(PollStruct') : k = Len(PollStruct') \/ k \in 1 .. Len(PollStruct)
        BY <1>0, <2>5
      <3>4. \A k \in 1 .. Len(PollStruct') :
              /\ PollStruct'[k].fd = InterfaceList'[k].NetworkSocket
              /\ PollStruct'[k].fd \in 1 .. Len(socket') \cup {NoSocket}
        BY <1>0, <2>5, <3>1, <3>2, <3>3 DEF Together
      <3>5. \A k \in 1 .. Len(PollStruct) : PollStruct[k].fd = fd => fd = NoSocket
        BY <1>0, <3>1 DEF Together, NoSocket
      <3>6. \A k, l \in 1 .. Len(PollStruct') :
              PollStruct'[k].fd = PollStruct'[l].fd => k = l \/ PollStruct'[k].fd = NoSocket
        BY <1>0, <3>2, <3>3, <3>5 DEF Together
      <3>7. \A c \in Client : client'[c].at \in 1 .. Len(socket') \cup {NoSocket}
        BY <1>0, <2>3, <2>5 DEF Together
      <3> QED BY <2>5, <3>2, <3>4, <3>6, <3>7 DEF Together
    <2>8. Reported'
      <3>1. daemon = "none"
        BY <1>0, <2>3 DEF InStep
      <3>2. \A k \in 1 .. Len(PollStruct) : ~PollStruct'[k].in
        BY <1>0, <2>2, <3>1 DEF Added, Reported
      <3>3. ~PollStruct'[Len(PollStruct')].in
        BY <2>2 DEF Added
      <3>4. \A k \in 1 .. Len(PollStruct') : ~PollStruct'[k].in
        BY <1>0, <2>5, <3>2, <3>3
      <3> QED BY <3>4 DEF Reported
    <2>9. TakenByOwnFamily'
      <3> SUFFICES ASSUME NEW s \in 1 .. Len(socket'), socket'[s].state = "unbound"
                   PROVE  \/ socket'[s].address \in unavailable
                          \/ \E r \in 1 .. s - 1 : /\ socket'[r].address = socket'[s].address
                                                   /\ socket'[r].state \in {"listening", "closed"}
        BY <2>3 DEF TakenByOwnFamily
      <3>1. CASE s \in 1 .. Len(socket)
        <4>1. /\ socket'[s] = socket[s]
              /\ \A r \in 1 .. s - 1 : socket'[r] = socket[r]
          BY <1>0, <2>2, <3>1 DEF Added
        <4> QED BY <1>0, <3>1, <4>1 DEF TakenByOwnFamily
      <3>2. CASE s = Len(socket) + 1 /\ Len(socket') = Len(socket) + 1
        <4>1. \/ socket'[s].address \in unavailable
              \/ \E r \in 1 .. Len(socket) : /\ socket[r].address = socket'[s].address
                                             /\ socket[r].state \in {"listening", "closed"}
          BY <1>0, <2>2, <3>2 DEF Added
        <4>2. \A r \in 1 .. Len(socket) : r \in 1 .. s - 1 /\ socket'[r] = socket[r]
          BY <1>0, <2>2, <3>2 DEF Added
        <4> QED BY <4>1, <4>2
      <3> QED BY <1>0, <2>5, <3>1, <3>2
    <2> QED BY <2>6, <2>7, <2>8, <2>9 DEF Inv
  <1> QED BY <1>1, <1>2, <1>3 DEF Start

--------------------------------------------------------------------------------
(* The daemon and the clients *)

\* A function on 1 .. n is a sequence of length n.
LEMMA Sequence ==
  ASSUME NEW S, NEW n \in Nat, NEW f \in [1 .. n -> S]
  PROVE  f \in Seq(S) /\ Len(f) = n
  <1>1. f \in Seq(S)
    BY SeqDef
  <1>2. Len(f) \in Nat /\ 1 .. Len(f) = 1 .. n
    BY <1>1, LenProperties
  <1> QED BY <1>1, <1>2

\* Only the queue of socket s changes.
QueueOnly(s, q) ==
  /\ socket' \in Seq(SocketType) /\ Len(socket') = Len(socket)
  /\ \A r \in 1 .. Len(socket) :
       /\ socket'[r].address = socket[r].address /\ socket'[r].state = socket[r].state
       /\ socket'[r].queue = IF r = s THEN q ELSE socket[r].queue

LEMMA QueueChanged ==
  ASSUME Types, NEW s \in 1 .. Len(socket), NEW q \in Seq(Client),
         socket' = [socket EXCEPT ![s].queue = q]
  PROVE  QueueOnly(s, q)
  <1>1. socket[s] \in SocketType
    BY ElementOfSeq DEF Types
  <1>2. [socket[s] EXCEPT !.queue = q] \in SocketType
    BY <1>1 DEF SocketType, SocketFields
  <1>3. socket' = [socket EXCEPT ![s] = [socket[s] EXCEPT !.queue = q]]
    OBVIOUS
  <1>4. /\ socket' \in Seq(SocketType) /\ Len(socket') = Len(socket)
        /\ \A r \in 1 .. Len(socket) :
             socket'[r] = IF r = s THEN [socket[s] EXCEPT !.queue = q] ELSE socket[r]
    BY <1>2, <1>3, ExceptSeq DEF Types
  <1>5. /\ [socket[s] EXCEPT !.queue = q].address = socket[s].address
        /\ [socket[s] EXCEPT !.queue = q].state = socket[s].state
        /\ [socket[s] EXCEPT !.queue = q].queue = q
    BY <1>1 DEF SocketType, SocketFields
  <1> QED BY <1>4, <1>5 DEF QueueOnly

\* Which port is whose does not depend on who waits.
LEMMA TakenKept ==
  ASSUME Types, TakenByOwnFamily, UNCHANGED unavailable, NEW s, NEW q, QueueOnly(s, q)
  PROVE  TakenByOwnFamily'
  <1>1. Len(socket) \in Nat
    BY LenProperties DEF Types
  <1> SUFFICES ASSUME NEW r \in 1 .. Len(socket), socket'[r].state = "unbound"
               PROVE  \/ socket'[r].address \in unavailable
                      \/ \E p \in 1 .. r - 1 : /\ socket'[p].address = socket'[r].address
                                               /\ socket'[p].state \in {"listening", "closed"}
    BY DEF TakenByOwnFamily, QueueOnly
  <1>2. \A p \in 1 .. r : /\ socket'[p].address = socket[p].address
                          /\ socket'[p].state = socket[p].state
    BY <1>1 DEF QueueOnly
  <1> QED BY <1>1, <1>2 DEF TakenByOwnFamily

\* When accept is called, somebody waits; afterwards only that queue is shorter.
LEMMA SomebodyWaits ==
  ASSUME Inv, NEW tls, CanAccept(tls)
  PROVE  /\ i \in 1 .. Len(PollStruct) /\ i \in 1 .. Len(InterfaceList)
         /\ Accepting = PollStruct[i].fd /\ Accepting \in 1 .. Len(socket)
         /\ Waiting \in Seq(Client) /\ Waiting # <<>>
         /\ Head(Waiting) \in Client /\ Tail(Waiting) \in Seq(Client)
         /\ Dequeue => QueueOnly(Accepting, Tail(Waiting))
  <1>1. daemon = "look" /\ i \in 1 .. Len(PollStruct) /\ PollStruct[i].in
    BY LenProperties DEF CanAccept, AtReported, Inv, Types
  <1>2. /\ i \in 1 .. Len(InterfaceList) /\ Accepting = PollStruct[i].fd
        /\ PollStruct[i].fd \in 1 .. Len(socket) \cup {NoSocket}
    BY <1>1 DEF Inv, Together, Accepting
  <1>3. PollStruct[i].fd # NoSocket /\ socket[PollStruct[i].fd].queue # <<>>
    BY <1>1 DEF Inv, Reported, ToLookAt
  <1>4. Accepting \in 1 .. Len(socket) /\ Waiting # <<>>
    BY <1>2, <1>3 DEF Waiting
  <1>5. socket[Accepting] \in SocketType
    BY <1>4, ElementOfSeq DEF Inv, Types
  <1>6. Waiting \in Seq(Client)
    BY <1>5 DEF Waiting, SocketType, SocketFields
  <1>7. Head(Waiting) \in Client /\ Tail(Waiting) \in Seq(Client)
    BY <1>4, <1>6, HeadTailProperties
  <1>8. ASSUME Dequeue PROVE QueueOnly(Accepting, Tail(Waiting))
    <2>1. socket' = [socket EXCEPT ![Accepting].queue = Tail(Waiting)]
      BY <1>8 DEF Dequeue, Waiting
    <2> QED BY <1>4, <1>7, <2>1, QueueChanged DEF Inv
  <1> QED BY <1>1, <1>2, <1>4, <1>6, <1>7, <1>8

\* No step of the daemon breaks the invariant.
LEMMA NetworkLoopKeepsInv ==
  ASSUME Inv, NetworkLoop
  PROVE  Inv'
  <1>0. /\ Types /\ Together /\ Reported /\ InStep /\ TakenByOwnFamily
        /\ Len(socket) \in Nat /\ Len(PollStruct) \in Nat /\ Len(InterfaceList) \in Nat
        /\ DOMAIN socket = 1 .. Len(socket) /\ DOMAIN PollStruct = 1 .. Len(PollStruct)
    BY LenProperties DEF Inv, Types
  <1>1. CASE Poll
    <2>1. /\ daemon = "poll" /\ daemon' = "message"
          /\ UNCHANGED <<startup, socket, InterfaceList, i, client, shutdown>>
      BY <1>1 DEF Poll
    <2>2. \A k \in 1 .. Len(PollStruct) : PollStruct[k] \in EntryType /\ ~PollStruct[k].in
      <3>1. \A k \in 1 .. Len(PollStruct) : PollStruct[k] \in EntryType
        BY <1>0, ElementOfSeq DEF Types
      <3> QED BY <1>0, <2>1, <3>1 DEF Reported
    <2>3. /\ PollStruct' \in [1 .. Len(PollStruct) -> EntryType]
          /\ \A k \in 1 .. Len(PollStruct) :
               /\ PollStruct'[k].fd = PollStruct[k].fd
               /\ PollStruct'[k].in =>
                    PollStruct[k].fd # NoSocket /\ socket[PollStruct[k].fd].queue # <<>>
      BY <1>0, <1>1, <2>2 DEF Poll, EntryType
    <2>4. PollStruct' \in Seq(EntryType) /\ Len(PollStruct') = Len(PollStruct)
      BY <1>0, <2>3, Sequence
    <2>5. Types' /\ InStep'
      BY <1>0, <2>1, <2>4 DEF Types, InStep, startup
    <2>6. Together'
      BY <1>0, <2>1, <2>3, <2>4 DEF Together
    <2>7. Reported' /\ TakenByOwnFamily'
      BY <1>0, <2>1, <2>3, <2>4 DEF Reported, TakenByOwnFamily, startup
    <2> QED BY <2>5, <2>6, <2>7 DEF Inv
  <1>2. CASE NoMessage
    <2>1. /\ daemon = "message" /\ daemon' = "look" /\ i' = 1
          /\ UNCHANGED <<startup, socket, InterfaceList, PollStruct, client, shutdown>>
      BY <1>2 DEF NoMessage, lists
    <2>2. Types' /\ InStep'
      BY <1>0, <2>1 DEF Types, InStep, startup
    <2>3. Together' /\ Reported' /\ TakenByOwnFamily'
      BY <1>0, <2>1 DEF Together, Reported, ToLookAt, TakenByOwnFamily, startup
    <2> QED BY <2>2, <2>3 DEF Inv
  <1>3. CASE ReadShutdown
    <2>1. /\ daemon = "message" /\ daemon' = "gone"
          /\ client' = [c \in Client |-> IF client[c].state = "waiting" THEN Nowhere ELSE client[c]]
          /\ UNCHANGED <<startup, InterfaceList, PollStruct, i, shutdown>>
      BY <1>3 DEF ReadShutdown, lists
    <2>2. /\ socket' \in [1 .. Len(socket) -> SocketType]
          /\ \A s \in 1 .. Len(socket) : socket'[s].state = "closed"
      <3>1. \A s \in 1 .. Len(socket) : socket[s] \in SocketType
        BY <1>0, ElementOfSeq DEF Types
      <3>2. <<>> \in Seq(Client)
        BY EmptySeq
      <3>3. \A s \in 1 .. Len(socket) :
              /\ [socket[s] EXCEPT !.state = "closed", !.queue = <<>>] \in SocketType
              /\ [socket[s] EXCEPT !.state = "closed", !.queue = <<>>].state = "closed"
        BY <3>1, <3>2 DEF SocketType, SocketFields
      <3> QED BY <1>0, <1>3, <3>3 DEF ReadShutdown
    <2>3. socket' \in Seq(SocketType) /\ Len(socket') = Len(socket)
      BY <1>0, <2>2, Sequence
    <2>4. /\ client' \in [Client -> [state : {"away", "waiting", "handshake", "accepted"},
                                    at : Nat \cup {NoSocket}]]
          /\ \A c \in Client : /\ client'[c].at \in {client[c].at, NoSocket}
                               /\ client'[c].state # "handshake"
      <3>1. \A c \in Client : client[c].state # "handshake"
        BY <1>0, <2>1 DEF InStep
      <3> QED BY <1>0, <2>1, <3>1 DEF Types, Nowhere
    <2>5. Types' /\ InStep'
      BY <1>0, <2>1, <2>3, <2>4 DEF Types, InStep, startup
    <2>6. Together' /\ Reported' /\ TakenByOwnFamily'
      BY <1>0, <2>1, <2>2, <2>3, <2>4 DEF Together, Reported, ToLookAt, TakenByOwnFamily, startup
    <2> QED BY <2>5, <2>6 DEF Inv
  <1>4. CASE EndOfLoop
    <2>1. /\ daemon = "look" /\ daemon' = "poll" /\ i' = 1
          /\ PollStruct' = [k \in 1 .. Len(PollStruct) |-> PollEntry(PollStruct[k].fd)]
          /\ UNCHANGED <<startup, socket, InterfaceList, client, shutdown>>
      BY <1>0, <1>4 DEF EndOfLoop
    <2>2. \A k \in 1 .. Len(PollStruct) : PollStruct[k] \in EntryType
      BY <1>0, ElementOfSeq DEF Types
    <2>3. /\ PollStruct' \in [1 .. Len(PollStruct) -> EntryType]
          /\ \A k \in 1 .. Len(PollStruct) :
               PollStruct'[k].fd = PollStruct[k].fd /\ ~PollStruct'[k].in
      BY <2>1, <2>2 DEF EntryType, PollEntry
    <2>4. PollStruct' \in Seq(EntryType) /\ Len(PollStruct') = Len(PollStruct)
      BY <1>0, <2>3, Sequence
    <2>5. Types' /\ InStep'
      BY <1>0, <2>1, <2>4 DEF Types, InStep, startup
    <2>6. Together' /\ Reported' /\ TakenByOwnFamily'
      BY <1>0, <2>1, <2>3, <2>4 DEF Together, Reported, TakenByOwnFamily, startup
    <2> QED BY <2>5, <2>6 DEF Inv
  <1>5. CASE NobodyThere \/ AcceptFails
    <2>1. /\ daemon = "look" /\ i <= Len(PollStruct) /\ i' = i + 1
          /\ UNCHANGED <<startup, socket, InterfaceList, PollStruct, daemon, client, shutdown>>
      BY <1>5 DEF NobodyThere, AcceptFails, AtReported, Continue, lists
    <2>2. Types' /\ InStep'
      BY <1>0, <2>1 DEF Types, InStep, startup
    <2>3. Together' /\ TakenByOwnFamily'
      BY <1>0, <2>1 DEF Together, TakenByOwnFamily, startup
    <2>4. Reported'
      BY <1>0, <2>1 DEF Reported, ToLookAt, Types
    <2> QED BY <2>2, <2>3, <2>4 DEF Inv
  <1>6. ASSUME AcceptPlain \/ AcceptTLS \/ SSLNewFails PROVE Inv'
    <2> DEFINE c == Head(Waiting)
    <2>1. PICK tls \in BOOLEAN :
            /\ CanAccept(tls) /\ Dequeue
            /\ UNCHANGED <<startup, InterfaceList, PollStruct, shutdown>>
            /\ \/ Becomes(c, "accepted") /\ i' = i + 1 /\ daemon' = daemon
               \/ client' = [client EXCEPT ![c] = Nowhere] /\ i' = i + 1 /\ daemon' = daemon
               \/ Becomes(c, "handshake") /\ i' = i /\ daemon' = "handshake"
      BY <1>6 DEF AcceptPlain, AcceptTLS, SSLNewFails, Continue, lists
    <2>2. /\ daemon = "look" /\ i \in 1 .. Len(PollStruct) /\ c \in Client
          /\ QueueOnly(PollStruct[i].fd, Tail(Waiting))
      BY <2>1, SomebodyWaits DEF CanAccept, AtReported
    <2>3. /\ client' \in [Client -> [state : {"away", "waiting", "handshake", "accepted"},
                                    at : Nat \cup {NoSocket}]]
          /\ \A d \in Client : /\ client'[d].at \in {client[d].at, NoSocket}
                               /\ client'[d].state = "handshake" => d = c /\ daemon' = "handshake"
      <3>1. \A d \in Client : client[d].state # "handshake"
        BY <1>0, <2>2 DEF InStep
      <3> DEFINE Clients == [state : {"away", "waiting", "handshake", "accepted"},
                             at : Nat \cup {NoSocket}]
      <3>3. client \in [Client -> Clients] /\ client[c] \in Clients
        BY <1>0, <2>2 DEF Types
      <3>2. PICK new \in Clients :
              /\ client' = [client EXCEPT ![c] = new]
              /\ new.at \in {client[c].at, NoSocket}
              /\ new.state = "handshake" => daemon' = "handshake"
        <4>1. CASE client' = [client EXCEPT ![c] = Nowhere]
          <5>1. /\ Nowhere \in Clients /\ Nowhere.at = NoSocket
                /\ Nowhere.state = "handshake" => daemon' = "handshake"
            BY DEF Nowhere
          <5> QED BY <4>1, <5>1
        <4>2. ASSUME NEW state \in {"accepted", "handshake"}, Becomes(c, state),
                     state = "handshake" => daemon' = "handshake"
              PROVE  \E new \in Clients :
                       /\ client' = [client EXCEPT ![c] = new]
                       /\ new.at \in {client[c].at, NoSocket}
                       /\ new.state = "handshake" => daemon' = "handshake"
          <5>1. [client[c] EXCEPT !.state = state] \in Clients
            BY <3>3
          <5>2. /\ [client[c] EXCEPT !.state = state].state = state
                /\ [client[c] EXCEPT !.state = state].at = client[c].at
            BY <3>3
          <5>3. client' = [client EXCEPT ![c] = [client[c] EXCEPT !.state = state]]
            BY <4>2 DEF Becomes
          <5> QED BY <4>2, <5>1, <5>2, <5>3
        <4> QED BY <2>1, <4>1, <4>2
      <3>4. /\ \A d \in Client : d # c => client'[d] = client[d]
            /\ client'[c] = new
            /\ client' \in [Client -> [state : {"away", "waiting", "handshake", "accepted"},
                                      at : Nat \cup {NoSocket}]]
        BY <2>2, <3>2, <3>3
      <3> QED BY <3>1, <3>2, <3>4
    <2>4. Types' /\ InStep'
      <3>1. i' \in 1 .. Len(PollStruct) + 1 /\ daemon' \in {"none", "poll", "message", "look", "handshake", "gone"}
        BY <1>0, <2>1, <2>2 DEF Types
      <3>2. Types'
        BY <1>0, <2>1, <2>2, <2>3, <3>1 DEF Types, startup, QueueOnly
      <3>3. InStep'
        BY <1>0, <2>1, <2>2, <2>3 DEF InStep, startup
      <3> QED BY <3>2, <3>3
    <2>5. Together' /\ TakenByOwnFamily'
      <3>1. Together'
        BY <1>0, <2>1, <2>2, <2>3 DEF Together, QueueOnly
      <3>2. unavailable' = unavailable
        BY <2>1 DEF startup
      <3> QED BY <1>0, <2>2, <3>1, <3>2, TakenKept
    <2>6. Reported'
      <3> SUFFICES ASSUME NEW k \in 1 .. Len(PollStruct), PollStruct[k].in, ToLookAt(k)'
                   PROVE  PollStruct[k].fd # NoSocket /\ socket'[PollStruct[k].fd].queue # <<>>
        BY <1>0, <2>1, <2>2 DEF Reported
      <3>1. k > i /\ ToLookAt(k)
        BY <1>0, <2>1, <2>2 DEF ToLookAt, Types
      <3>2. PollStruct[k].fd # NoSocket /\ socket[PollStruct[k].fd].queue # <<>>
        BY <1>0, <3>1 DEF Reported
      <3>3. PollStruct[k].fd # PollStruct[i].fd /\ PollStruct[k].fd \in 1 .. Len(socket)
        BY <1>0, <2>2, <3>1, <3>2 DEF Together
      <3> QED BY <2>2, <3>2, <3>3 DEF QueueOnly
    <2> QED BY <2>4, <2>5, <2>6 DEF Inv
  <1> QED BY <1>1, <1>2, <1>3, <1>4, <1>5, <1>6 DEF NetworkLoop

\* No client breaks the invariant, whenever it comes, leaves or ends its handshake.
LEMMA ClientKeepsInv ==
  ASSUME Inv, NEW c \in Client, Handshake(c) \/ Connect(c) \/ Leave(c)
  PROVE  Inv'
  <1>0. /\ Types /\ Together /\ Reported /\ InStep /\ TakenByOwnFamily
        /\ Len(socket) \in Nat /\ Len(PollStruct) \in Nat /\ Len(InterfaceList) \in Nat
        /\ DOMAIN socket = 1 .. Len(socket)
    BY LenProperties DEF Inv, Types
  <1>1. CASE Handshake(c)
    <2>1. /\ client[c].state = "handshake" /\ daemon' = "look" /\ i' = i + 1
          /\ client' \in {[client EXCEPT ![c].state = "accepted"], [client EXCEPT ![c] = Nowhere]}
          /\ UNCHANGED <<startup, socket, InterfaceList, PollStruct, shutdown>>
      BY <1>1 DEF Handshake, HandshakeDone, HandshakeFails, Becomes, Continue, lists
    <2>2. daemon = "handshake" /\ i <= Len(PollStruct)
      BY <1>0, <2>1 DEF InStep
    <2>3. /\ client' \in [Client -> [state : {"away", "waiting", "handshake", "accepted"},
                                    at : Nat \cup {NoSocket}]]
          /\ \A d \in Client : /\ client'[d].at \in {client[d].at, NoSocket}
                               /\ client'[d].state # "handshake"
      <3>1. \A d \in Client : d # c => client[d].state # "handshake"
        BY <1>0, <2>1 DEF InStep
      <3>2. CASE client' = [client EXCEPT ![c].state = "accepted"]
        BY <1>0, <3>1, <3>2 DEF Types
      <3>3. CASE client' = [client EXCEPT ![c] = Nowhere]
        BY <1>0, <3>1, <3>3 DEF Types, Nowhere
      <3> QED BY <2>1, <3>2, <3>3
    <2>4. Types' /\ InStep'
      BY <1>0, <2>1, <2>2, <2>3 DEF Types, InStep, startup
    <2>5. Together' /\ TakenByOwnFamily'
      BY <1>0, <2>1, <2>3 DEF Together, TakenByOwnFamily, startup
    <2>6. Reported'
      BY <1>0, <2>1, <2>2 DEF Reported, ToLookAt, Types
    <2> QED BY <2>4, <2>5, <2>6 DEF Inv
  <1>2. CASE Connect(c)
    <2>1. PICK s \in 1 .. Len(socket) :
            /\ socket' = [socket EXCEPT ![s].queue = Append(@, c)]
            /\ client[c] = Nowhere
            /\ client' = [client EXCEPT ![c] = [state |-> "waiting", at |-> s]]
            /\ UNCHANGED <<startup, InterfaceList, PollStruct, daemon, i, shutdown>>
      BY <1>0, <1>2 DEF Connect, lists
    <2>2. /\ Append(socket[s].queue, c) \in Seq(Client) /\ Append(socket[s].queue, c) # <<>>
          /\ QueueOnly(s, Append(socket[s].queue, c))
      <3>1. socket[s] \in SocketType
        BY <1>0, ElementOfSeq DEF Types
      <3>2. socket[s].queue \in Seq(Client)
        BY <3>1 DEF SocketType, SocketFields
      <3>3. Append(socket[s].queue, c) \in Seq(Client) /\ Append(socket[s].queue, c) # <<>>
        BY <3>2, AppendProperties
      <3> QED BY <1>0, <2>1, <3>3, QueueChanged
    <2>3. /\ client' \in [Client -> [state : {"away", "waiting", "handshake", "accepted"},
                                    at : Nat \cup {NoSocket}]]
          /\ \A d \in Client : /\ client'[d].at \in {client[d].at, s}
                               /\ client'[d].state = "handshake" => client[d].state = "handshake"
      BY <1>0, <2>1 DEF Types
    <2>4. Types' /\ InStep'
      <3>1. i' \in 1 .. Len(PollStruct) + 1 /\ daemon' \in {"none", "poll", "message", "look", "handshake", "gone"}
        BY <1>0, <2>1, <2>2 DEF Types
      <3>2. Types'
        BY <1>0, <2>1, <2>2, <2>3, <3>1 DEF Types, startup, QueueOnly
      <3>3. InStep'
        BY <1>0, <2>1, <2>2, <2>3 DEF InStep, startup
      <3> QED BY <3>2, <3>3
    <2>5. Together' /\ TakenByOwnFamily'
      <3>1. Together'
        BY <1>0, <2>1, <2>2, <2>3 DEF Together, QueueOnly
      <3>2. unavailable' = unavailable
        BY <2>1 DEF startup
      <3> QED BY <1>0, <2>2, <3>1, <3>2, TakenKept
    <2>6. Reported'
      <3> SUFFICES ASSUME NEW k \in 1 .. Len(PollStruct), PollStruct[k].in, ToLookAt(k)
                   PROVE  PollStruct[k].fd # NoSocket /\ socket'[PollStruct[k].fd].queue # <<>>
        BY <1>0, <2>1 DEF Reported, ToLookAt
      <3>1. PollStruct[k].fd # NoSocket /\ socket[PollStruct[k].fd].queue # <<>>
        BY <1>0 DEF Reported
      <3>2. PollStruct[k].fd \in 1 .. Len(socket)
        BY <1>0, <3>1 DEF Together
      <3> QED BY <2>2, <3>1, <3>2 DEF QueueOnly
    <2> QED BY <2>4, <2>5, <2>6 DEF Inv
  <1>3. CASE Leave(c)
    <2>1. /\ client[c].state = "accepted" /\ client' = [client EXCEPT ![c] = Nowhere]
          /\ UNCHANGED <<startup, socket, InterfaceList, PollStruct, daemon, i, shutdown>>
      BY <1>3 DEF Leave, lists
    <2>2. /\ client' \in [Client -> [state : {"away", "waiting", "handshake", "accepted"},
                                    at : Nat \cup {NoSocket}]]
          /\ \A d \in Client : /\ client'[d].at \in {client[d].at, NoSocket}
                               /\ client'[d].state = "handshake" => client[d].state = "handshake"
      BY <1>0, <2>1 DEF Types, Nowhere
    <2>3. Types'
      BY <1>0, <2>1, <2>2 DEF Types, startup
    <2>4. InStep'
      BY <1>0, <2>1, <2>2 DEF InStep, startup
    <2>5. Together'
      BY <1>0, <2>1, <2>2 DEF Together
    <2>6. Reported' /\ TakenByOwnFamily'
      BY <1>0, <2>1 DEF Reported, ToLookAt, TakenByOwnFamily, startup
    <2> QED BY <2>3, <2>4, <2>5, <2>6 DEF Inv
  <1> QED BY <1>1, <1>2, <1>3

\* Every step keeps the invariant.
LEMMA InvNext == Inv /\ [Next]_vars => Inv'
  <1> SUFFICES ASSUME Inv, [Next]_vars PROVE Inv'
    OBVIOUS
  <1>1. CASE Start \/ ShutdownServer \/ Exit \/ UNCHANGED vars
    BY <1>1, StartKeepsInv
  <1>2. CASE NetworkLoop
    BY <1>2, NetworkLoopKeepsInv
  <1>3. ASSUME NEW c \in Client, Handshake(c) \/ Connect(c) \/ Leave(c) PROVE Inv'
    BY <1>3, ClientKeepsInv
  <1> QED BY <1>1, <1>2, <1>3 DEF Next

--------------------------------------------------------------------------------
(* Theorems *)

\* Every variable of the listeners keeps its type, whatever fails to start.
THEOREM ListenersTypeCorrect == Spec => []ListenersTypeOK
  <1>1. Inv => ListenersTypeOK
    <2> SUFFICES ASSUME Inv PROVE ListenersTypeOK
      OBVIOUS
    <2>1. /\ DOMAIN socket = 1 .. Len(socket) /\ Len(InterfaceList) = Len(PollStruct)
          /\ DOMAIN PollStruct = 1 .. Len(PollStruct) /\ DOMAIN InterfaceList = 1 .. Len(PollStruct)
          /\ Len(PollStruct) \in Nat
      BY LenProperties DEF Inv, Types, Together
    <2>2. /\ \A k \in 1 .. Len(PollStruct) :
               PollStruct[k] \in [fd : DOMAIN socket \cup {NoSocket}, in : BOOLEAN]
          /\ \A k \in 1 .. Len(PollStruct) :
               InterfaceList[k] \in [kind : Kind, NetworkSocket : DOMAIN socket \cup {NoSocket},
                                    certificate : BOOLEAN]
      <3>1. \A k \in 1 .. Len(PollStruct) : PollStruct[k] \in EntryType /\ InterfaceList[k] \in InterfaceType
        BY <2>1, ElementOfSeq DEF Inv, Types
      <3> QED BY <2>1, <3>1 DEF Inv, Together, EntryType, InterfaceType
    <2>3. PollStruct \in Seq([fd : DOMAIN socket \cup {NoSocket}, in : BOOLEAN])
      <3>1. PollStruct \in [1 .. Len(PollStruct) -> [fd : DOMAIN socket \cup {NoSocket}, in : BOOLEAN]]
        BY <2>2, LenProperties DEF Inv, Types
      <3> QED BY <2>1, <3>1, Sequence
    <2>4. InterfaceList \in Seq([kind : Kind, NetworkSocket : DOMAIN socket \cup {NoSocket},
                                certificate : BOOLEAN])
      <3>1. InterfaceList \in [1 .. Len(PollStruct) ->
                              [kind : Kind, NetworkSocket : DOMAIN socket \cup {NoSocket},
                               certificate : BOOLEAN]]
        BY <2>1, <2>2, LenProperties DEF Inv, Types
      <3> QED BY <2>1, <3>1, Sequence
    <2>5. client \in [Client -> [state : {"away", "waiting", "handshake", "accepted"},
                                at : DOMAIN socket \cup {NoSocket}]]
      BY <2>1 DEF Inv, Types, Together
    <2>6. socket \in Seq(SocketFields)
      <3>1. socket \in [1 .. Len(socket) -> SocketFields]
        BY LenProperties DEF Inv, Types, SocketType
      <3>2. Len(socket) \in Nat
        BY LenProperties DEF Inv, Types
      <3> QED BY <3>1, <3>2, Sequence
    <2> QED BY <2>3, <2>4, <2>5, <2>6 DEF Inv, Types, ListenersTypeOK, SocketFields
  <1> QED BY InvInit, InvNext, <1>1, PTL DEF Spec

\* However many listeners failed to start, and whoever comes between poll and accept, the
\* daemon never calls accept where nobody waits.
THEOREM AcceptReturns == Spec => []AcceptNeverWaits
  <1>1. Inv => AcceptNeverWaits
    <2> SUFFICES ASSUME Inv, daemon = "look", i <= Len(PollStruct), PollStruct[i].in
                 PROVE  i <= Len(InterfaceList) /\ Accepting # NoSocket /\ Waiting # <<>>
      BY DEF AcceptNeverWaits, AtReported
    <2>1. i \in 1 .. Len(PollStruct) /\ Len(InterfaceList) = Len(PollStruct)
      BY LenProperties DEF Inv, Types, Together
    <2>2. Accepting = PollStruct[i].fd
      BY <2>1 DEF Inv, Together, Accepting
    <2> QED BY <2>1, <2>2 DEF Inv, Reported, ToLookAt, Waiting
  <1> QED BY InvInit, InvNext, <1>1, PTL DEF Spec

\* Whatever setsockopt, bind, listen and the certificate make of the earlier listeners, bind
\* fails at most because another program or an earlier listener of the same family has the
\* port: the option that the sockets of IPv6 got keeps the families apart.
THEOREM FamiliesApart == Spec => []NoFalseConflict
  <1>1. Inv => NoFalseConflict
    <2> SUFFICES ASSUME Inv PROVE NoFalseConflict
      OBVIOUS
    <2>1. DOMAIN socket = 1 .. Len(socket)
      BY LenProperties DEF Inv, Types
    <2> QED BY <2>1 DEF Inv, TakenByOwnFamily, NoFalseConflict
  <1> QED BY InvInit, InvNext, <1>1, PTL DEF Spec
================================================================================
