----------------------------- MODULE NetworkThread -----------------------------
(***************************************************************************)
(* The loop of one prime network thread (src/src/NetworkThread.cxx) with    *)
(* the connections it serves (src/src/ClientConnection.cxx): it takes       *)
(* connections from its inbox, polls their sockets, and in one pass over    *)
(* ConnectionList reads a request, chooses an answer, sends the next piece  *)
(* of it, and removes the connections that ended or are idle.               *)
(*                                                                          *)
(* The clients, the kernel's socket buffers and the clock move between any  *)
(* two steps.  Headers are left out but for what sending one changes, a     *)
(* body byte is its position, and a clock is kept as an age: Tick is one    *)
(* second.  Files do not change while they are sent.  How a task travels to *)
(* the thread is in Server; here it is in the inbox, and acceptTask says    *)
(* yes or no.  A read waits only for the rest of a TLS record; a write does *)
(* not wait.                                                                *)
(***************************************************************************)
EXTENDS Integers, Sequences, SequencesExt, FiniteSets

CONSTANTS
  Connection,     \* the clients
  Fd, NoFd,       \* socket descriptors, the kernel reuses a closed one
  Shutdown,       \* the SHUTDOWN broadcast, as an entry of the inbox
  Chunk,          \* sizeof(Buffer) - 1
  MaxSize,        \* bound: the longest body
  Loads,          \* bound: [clients: how many of them come, pieces: in how many pieces each sends
                  \* its request, tls: the clients of an HTTPS listener, shutdown: whether the console
                  \* ends the program, and the option MaxBandwidth, 0 for no limit]: one of these
  IdleLimit,      \* 15 seconds
  RequireAuth     \* Configuration.BasicCredentials is not empty

ASSUME NetworkAssumption ==
  /\ NoFd \notin Fd /\ Shutdown \notin Connection
  /\ Chunk \in Nat \ {0} /\ MaxSize \in Nat \ {0}
  /\ Loads \subseteq [clients : Nat, pieces : Nat, tls : SUBSET Connection, shutdown : BOOLEAN,
                      MaxBandwidth : Nat]
  /\ IdleLimit \in Nat
  /\ RequireAuth \in BOOLEAN

VARIABLES
  load,              \* which of Loads it is
  pc,                \* where NetworkThreadLoop is
  inbox,             \* connections posted to this thread, and SHUTDOWN
  ConnectionListIterator,  \* counted from 1
  ConnectionList,
  PollStruct,        \* per entry: the descriptor and what poll reported
  localConnections,
  conn,              \* per client: its ClientConnection
  peer,              \* per client: its end of the connection
  reply,             \* per client: the answer chosen for it
  sent,              \* history: body bytes sent to it in this second
  visited, missed    \* history: visited in this pass, passed over in the last one

thread == <<pc, ConnectionListIterator, ConnectionList, PollStruct, localConnections>>
past == <<sent, visited, missed>>
vars == <<load, thread, inbox, conn, peer, reply, past>>

MaxBandwidth == load.MaxBandwidth

Pages == {"index", "404", "401"}
Reply(body, size) == [body |-> body, size |-> size]
NoReply == Reply("none", 0)

\* A ClientConnection as constructed.  idle is the age of LastAction, bandReset
\* says that LastBandReset is the current second, position is where FileStream or
\* SendBufferIterator stands.
NewConnection ==
  [fd |-> NoFd, Resource |-> FALSE, FileStream |-> "null", SendBuffer |-> FALSE,
   position |-> 0, BytesRemaining |-> 0, BandwidthLeft |-> 0, bandReset |-> FALSE, idle |-> 0]

\* What is unread may be a record that is not complete yet.
Peer(state) == [state |-> state, unread |-> FALSE, partial |-> FALSE, pieces |-> 0,
                full |-> FALSE, body |-> <<>>]

Entry(fd) == [fd |-> fd, in |-> FALSE, out |-> FALSE]

Init ==
  /\ load \in Loads
  /\ pc = "head" /\ inbox = <<>> /\ ConnectionListIterator = 1
  /\ ConnectionList = <<>> /\ PollStruct = <<>> /\ localConnections = 0
  /\ conn = [c \in Connection |-> NewConnection]
  /\ peer = [c \in Connection |-> Peer("away")]
  /\ reply = [c \in Connection |-> NoReply]
  /\ sent = [c \in Connection |-> 0]
  /\ visited = {} /\ missed = {}

Listed == Range(ConnectionList)
Connected(c) == conn[c].fd # NoFd
Current == ConnectionList[ConnectionListIterator]
Revents == PollStruct[ConnectionListIterator]

--------------------------------------------------------------------------------
(* Deleting connections *)

\* Mutant: the newest entry is removed.
WithoutNewest(s, fd) == Front(s)

\* The poll structure is searched for the socket of the client.
Without(s, fd) == RemoveAt(s, Min({i \in DOMAIN s : s[i].fd = fd}))

\* What was sent to a client is forgotten with its connection.
Delete(gone) ==
  /\ conn' = [c \in Connection |-> IF c \in gone THEN NewConnection ELSE conn[c]]
  /\ peer' = [c \in Connection |-> IF c \in gone THEN Peer("gone") ELSE peer[c]]
  /\ reply' = [c \in Connection |-> IF c \in gone THEN NoReply ELSE reply[c]]
  /\ visited' = visited \ gone /\ missed' = missed \ gone

TerminateConnection ==
  /\ localConnections' = localConnections - 1
  /\ PollStruct' = Without(PollStruct, conn[Current].fd)
  /\ ConnectionList' = RemoveAt(ConnectionList, ConnectionListIterator)
  /\ Delete({Current})

\* Mutant: the iterator is not moved back.
MoveOn ==
  /\ ConnectionListIterator' = ConnectionListIterator + 1
  /\ pc' = "visit"

\* Back by one, but never before the first, and then on to the next: when the first
\* connection goes, its successor has moved into its place and is passed over.
AfterTermination ==
  /\ ConnectionListIterator' = IF ConnectionListIterator = 1 THEN 2 ELSE ConnectionListIterator
  /\ pc' = "visit"

NextConnection ==
  /\ ConnectionListIterator' = ConnectionListIterator + 1
  /\ pc' = "visit"

--------------------------------------------------------------------------------
(* The inbox *)

\* pauseForMessage holds a thread without connections until there is a message.
LoopHead ==
  /\ pc = "head"
  /\ ConnectionList # <<>> \/ inbox # <<>>
  /\ pc' = "drain"
  /\ UNCHANGED <<ConnectionListIterator, ConnectionList, PollStruct, localConnections,
                 inbox, conn, peer, reply, past>>

TakeConnection ==
  /\ pc = "drain" /\ inbox # <<>> /\ Head(inbox) # Shutdown
  /\ LET c == Head(inbox)
     IN /\ ConnectionList' = Append(ConnectionList, c)
        /\ PollStruct' = Append(PollStruct, Entry(conn[c].fd))
  /\ localConnections' = localConnections + 1
  /\ inbox' = Tail(inbox)
  /\ UNCHANGED <<pc, ConnectionListIterator, conn, peer, reply, past>>

\* acceptTask returns false: the connection is another thread's.
TakenElsewhere ==
  /\ pc = "drain" /\ inbox # <<>> /\ Head(inbox) # Shutdown
  /\ inbox' = Tail(inbox)
  /\ Delete({Head(inbox)})
  /\ UNCHANGED <<thread, sent>>

\* "SHUTDOWN": delete this, which terminates every connection first.
ReceiveShutdown ==
  /\ pc = "drain" /\ inbox # <<>> /\ Head(inbox) = Shutdown
  /\ pc' = "gone"
  /\ inbox' = Tail(inbox)
  /\ ConnectionList' = <<>> /\ PollStruct' = <<>> /\ localConnections' = 0
  /\ Delete(Listed)
  /\ UNCHANGED <<ConnectionListIterator, sent>>

NoConnections ==
  /\ pc = "drain" /\ inbox = <<>> /\ PollStruct = <<>>
  /\ pc' = "head"
  /\ UNCHANGED <<ConnectionListIterator, ConnectionList, PollStruct, localConnections,
                 inbox, conn, peer, reply, past>>

HasInput(c) == peer[c].unread \/ peer[c].state \in {"closed", "reset"}
Owner(fd) == CHOOSE c \in Connection : conn[c].fd = fd

Poll ==
  /\ pc = "drain" /\ inbox = <<>> /\ PollStruct # <<>>
  /\ PollStruct' = [i \in DOMAIN PollStruct |->
       LET c == Owner(PollStruct[i].fd)
       IN [PollStruct[i] EXCEPT !.in = HasInput(c), !.out = ~peer[c].full]]
  /\ ConnectionListIterator' = 1 /\ pc' = "visit"
  /\ visited' = {}
  /\ UNCHANGED <<inbox, ConnectionList, localConnections, conn, peer, reply, sent, missed>>

\* Nothing looks at the revents again before the next poll, nor at the iterator.
EndOfPass ==
  /\ pc = "visit" /\ ConnectionListIterator > Len(ConnectionList)
  /\ pc' = "head"
  /\ missed' = Listed \ visited /\ visited' = {}
  /\ ConnectionListIterator' = 1
  /\ PollStruct' = [i \in DOMAIN PollStruct |-> Entry(PollStruct[i].fd)]
  /\ UNCHANGED <<ConnectionList, localConnections, inbox, conn, peer, reply, sent>>

--------------------------------------------------------------------------------
(* One visit: the request *)

Visiting == pc = "visit" /\ ConnectionListIterator <= Len(ConnectionList)

NothingToRead ==
  /\ Visiting /\ ~Revents.in
  /\ pc' = "out" /\ visited' = visited \cup {Current}
  /\ UNCHANGED <<ConnectionListIterator, ConnectionList, PollStruct, localConnections,
                 inbox, conn, peer, reply, sent, missed>>

\* A piece of the request may end before the path or have none.
Received ==
  /\ \E path \in {TRUE, conn[Current].Resource} :
       conn' = [conn EXCEPT ![Current].Resource = path, ![Current].idle = 0]
  /\ pc' = "out" /\ visited' = visited \cup {Current}
  /\ UNCHANGED <<ConnectionListIterator, ConnectionList, PollStruct, localConnections,
                 inbox, reply, sent, missed>>

\* SSL_read returns when the record is complete, or at once when there is nothing to wait for.
Returns(c) == ~peer[c].partial

Receive ==
  /\ Visiting /\ Revents.in /\ peer[Current].unread /\ Returns(Current)
  /\ peer' = [peer EXCEPT ![Current].unread = FALSE]
  /\ Received

\* recv fails.  RecvData returns -1 as a size_t, which is not below 1, so what the
\* buffer happens to hold is taken for a request.  The next recv returns 0.
ReceiveError ==
  /\ Visiting /\ Revents.in /\ peer[Current].state = "reset"
  /\ peer' = [peer EXCEPT ![Current].state = "closed"]
  /\ Received

ReceiveEnd ==
  /\ Visiting /\ Revents.in /\ ~peer[Current].unread /\ peer[Current].state = "closed"
  /\ TerminateConnection
  /\ AfterTermination
  /\ UNCHANGED <<inbox, sent>>

--------------------------------------------------------------------------------
(* One visit: the answer *)

MaySend == pc = "out" /\ conn[Current].Resource /\ Revents.out
HasBody == conn[Current].FileStream # "null" \/ conn[Current].SendBuffer

NothingToSend ==
  /\ pc = "out" /\ ~MaySend
  /\ pc' = "idle"
  /\ UNCHANGED <<ConnectionListIterator, ConnectionList, PollStruct, localConnections,
                 inbox, conn, peer, reply, past>>

Prepared(r, answer) ==
  [r EXCEPT !.FileStream = IF answer.body = "file" THEN "open" ELSE "null",
            !.SendBuffer = answer.body \in Pages,
            !.position = 0, !.BytesRemaining = answer.size]

\* LocateResource fails: the 404 page is buffered, and nothing sends a header.
Unresolvable ==
  /\ MaySend /\ ~HasBody
  /\ \E size \in 1 .. MaxSize :
       /\ reply' = [reply EXCEPT ![Current] = Reply("404", size)]
       /\ conn' = [conn EXCEPT ![Current] = Prepared(@, Reply("404", size))]
  /\ NextConnection
  /\ UNCHANGED <<inbox, ConnectionList, PollStruct, localConnections, peer, past>>

\* The header alone may fill the socket buffer.
\* A file may be empty, a page is not.  With wrong credentials the file is closed and
\* the page of Buffer401 takes its place; without any only the status tells.
Answers ==
  {Reply("file", size) : size \in 0 .. MaxSize}
    \cup {Reply(body, size) : body \in {"index", "404"}, size \in 1 .. MaxSize}
    \cup {Reply("401", size) : size \in IF RequireAuth THEN 1 .. MaxSize ELSE {}}

\* What a send that fails leaves behind: sendData over TCP returns 0, which
\* SendData takes for a success and resets LastAction; over TLS it is -1.
IdleAfter(ok, idle) == IF ok THEN {0} ELSE {0, idle}

Answer ==
  /\ MaySend /\ ~HasBody
  /\ \E answer \in Answers, ok \in {TRUE, peer[Current].state = "up"} :
       /\ reply' = [reply EXCEPT ![Current] = answer]
       /\ \E idle \in IdleAfter(ok, conn[Current].idle) :
            conn' = [conn EXCEPT ![Current] = [Prepared(@, answer) EXCEPT !.idle = idle]]
  /\ \E full \in {FALSE, peer[Current].state = "up"} :
       peer' = [peer EXCEPT ![Current].full = full]
  /\ pc' = "idle"
  /\ UNCHANGED <<ConnectionListIterator, ConnectionList, PollStruct, localConnections,
                 inbox, past>>

\* OpenFile deletes its stream when the file cannot be opened, and keeps the pointer.
OpenFails ==
  /\ MaySend /\ ~HasBody
  /\ conn' = [conn EXCEPT ![Current].FileStream = "deleted"]
  /\ pc' = "unopened"
  /\ UNCHANGED <<ConnectionListIterator, ConnectionList, PollStruct, localConnections,
                 inbox, peer, reply, past>>

\* The destructor of the connection then looks at that stream: it may find it
\* "not good" and leave it alone, or delete it again.
Unopened ==
  /\ pc = "unopened"
  /\ \/ TerminateConnection /\ AfterTermination
     \/ /\ pc' = "crashed"
        /\ UNCHANGED <<ConnectionListIterator, ConnectionList, PollStruct, localConnections,
                       conn, peer, reply, visited, missed>>
  /\ UNCHANGED <<inbox, sent>>

--------------------------------------------------------------------------------
(* One visit: a piece of the body *)

\* Mutant: a connection gets its share in every pass, not in every second.
ShareEveryPass(r) == MaxBandwidth \div localConnections

BandwidthLeft(r) ==
  IF r.bandReset THEN r.BandwidthLeft ELSE MaxBandwidth \div localConnections

BytesAllowed(r) == IF MaxBandwidth = 0 THEN Chunk ELSE Min({Chunk, BandwidthLeft(r)})

\* Mutant: the rest that was read but not sent is forgotten ...
ForgetUnsent(position, read, n) == position + read

\* The stream moves by what was read, and back by what was not sent.
Resumed(position, read, n) == position + read - (read - n)

\* Mutants: ... or counted as sent, or every piece counts as a whole buffer.
CountRead(remaining, read, n)  == remaining - read
CountChunk(remaining, read, n) == remaining - Chunk

Remaining(remaining, read, n) == remaining - n

Charged(r) ==
  IF MaxBandwidth = 0 THEN r
  ELSE [r EXCEPT !.bandReset = TRUE, !.BandwidthLeft = BandwidthLeft(r) - BytesAllowed(r)]

SendBody ==
  /\ MaySend /\ HasBody
  /\ LET r == conn[Current]
         read == Min({BytesAllowed(r), r.BytesRemaining})
     IN \E n \in 0 .. read, full \in BOOLEAN :
          LET up == peer[Current].state = "up"
              left == Remaining(r.BytesRemaining, read, n)
          IN /\ (n = 0 => read = 0 \/ ~up) /\ (up /\ n < read => full) /\ (n = 0 => ~full)
             /\ sent' = [sent EXCEPT ![Current] = @ + n]
             /\ \/ left = 0 /\ TerminateConnection /\ AfterTermination
                \/ /\ left # 0
                   /\ peer' = [peer EXCEPT ![Current].full = full,
                        ![Current].body = @ \o [k \in 1 .. n |-> r.position + k]]
                   /\ \E idle \in IdleAfter(n > 0 \/ read = 0, r.idle) :
                        conn' = [conn EXCEPT ![Current] =
                          [Charged(r) EXCEPT !.position = Resumed(r.position, read, n),
                                             !.BytesRemaining = left, !.idle = idle]]
                   /\ pc' = "idle"
                   /\ UNCHANGED <<ConnectionListIterator, ConnectionList, PollStruct,
                                  localConnections, reply, visited, missed>>
  /\ UNCHANGED inbox

\* In a POSIX build sending to a client that is gone raises SIGPIPE, which nothing
\* handles: the program ends.
BrokenPipe ==
  /\ MaySend /\ peer[Current].state # "up"
  /\ pc' = "crashed"
  /\ UNCHANGED <<ConnectionListIterator, ConnectionList, PollStruct, localConnections,
                 inbox, conn, peer, reply, past>>

--------------------------------------------------------------------------------
(* One visit: the idle check *)

\* Mutant: the age is compared with itself.
NeverIdle(c) == conn[c].idle > conn[c].idle

TooIdle(c) == conn[c].idle > IdleLimit

TerminateIdle ==
  /\ pc = "idle" /\ TooIdle(Current)
  /\ TerminateConnection
  /\ AfterTermination
  /\ UNCHANGED <<inbox, sent>>

KeepConnection ==
  /\ pc = "idle" /\ ~TooIdle(Current)
  /\ NextConnection
  /\ UNCHANGED <<inbox, ConnectionList, PollStruct, localConnections, conn, peer, reply, past>>

--------------------------------------------------------------------------------
(* The clients, the console and the clock *)

Arrive(c) ==
  /\ peer[c].state = "away"
  /\ Cardinality({d \in Connection : peer[d].state # "away"}) < load.clients
  /\ \E fd \in Fd \ {conn[d].fd : d \in Connection} :
       conn' = [conn EXCEPT ![c].fd = fd]
  /\ peer' = [peer EXCEPT ![c].state = "up"]
  /\ inbox' = Append(inbox, c)
  /\ UNCHANGED <<thread, reply, past>>

SendRequest(c) ==
  /\ Connected(c) /\ peer[c].state = "up" /\ ~peer[c].unread
  /\ peer[c].pieces < load.pieces
  /\ \E partial \in BOOLEAN :
       /\ partial => c \in load.tls
       /\ peer' = [peer EXCEPT ![c].unread = TRUE, ![c].partial = partial, ![c].pieces = @ + 1]
  /\ UNCHANGED <<thread, inbox, conn, reply, past>>

SendRest(c) ==
  /\ Connected(c) /\ peer[c].state = "up" /\ peer[c].partial
  /\ peer' = [peer EXCEPT ![c].partial = FALSE]
  /\ UNCHANGED <<thread, inbox, conn, reply, past>>

ReadAnswer(c) ==
  /\ Connected(c) /\ peer[c].state = "up" /\ peer[c].full
  /\ peer' = [peer EXCEPT ![c].full = FALSE]
  /\ UNCHANGED <<thread, inbox, conn, reply, past>>

\* The rest of a record is not waited for any longer.
HangUp(c) ==
  /\ Connected(c) /\ peer[c].state = "up"
  /\ \E state \in {"closed", "reset"}, unread \in BOOLEAN :
       /\ unread <=> (state = "closed" /\ peer[c].unread /\ Returns(c))
       /\ peer' = [peer EXCEPT ![c].state = state, ![c].unread = unread,
                               ![c].partial = FALSE, ![c].full = FALSE]
  /\ UNCHANGED <<thread, inbox, conn, reply, past>>

ShutdownServer ==
  /\ load.shutdown
  /\ pc # "gone" /\ Shutdown \notin Range(inbox)
  /\ inbox' = Append(inbox, Shutdown)
  /\ UNCHANGED <<thread, conn, peer, reply, past>>

\* One second.  Beyond IdleLimit all ages are alike.
Tick ==
  /\ conn' = [c \in Connection |->
       IF Connected(c)
       THEN [conn[c] EXCEPT !.idle = Min({@ + 1, IdleLimit + 1}),
                            !.bandReset = FALSE, !.BandwidthLeft = 0]
       ELSE conn[c]]
  /\ sent' = [c \in Connection |-> 0]
  /\ UNCHANGED <<thread, inbox, peer, reply, visited, missed>>

--------------------------------------------------------------------------------
Pass ==
  \/ LoopHead \/ TakeConnection \/ TakenElsewhere \/ ReceiveShutdown \/ NoConnections
  \/ Poll \/ EndOfPass \/ NothingToRead \/ Receive \/ ReceiveError \/ ReceiveEnd
  \/ NothingToSend \/ Unresolvable \/ Answer \/ OpenFails \/ Unopened \/ SendBody \/ BrokenPipe
  \/ TerminateIdle \/ KeepConnection

Client(c) == Arrive(c) \/ SendRequest(c) \/ SendRest(c) \/ ReadAnswer(c) \/ HangUp(c)

Next ==
  /\ Pass \/ Tick \/ ShutdownServer \/ \E c \in Connection : Client(c)
  /\ UNCHANGED load

Spec == Init /\ [][Next]_vars

\* The thread is never stopped for good and time passes.  Nothing is assumed of the
\* clients: they may neither send nor read nor leave.
FairSpec == Spec /\ WF_vars(Pass /\ UNCHANGED load) /\ WF_vars(Tick /\ UNCHANGED load)

--------------------------------------------------------------------------------
(* Properties *)

\* Every variable has its type; in particular a share of the bandwidth is never
\* overdrawn and BytesRemaining (a size_t) never passes below zero.
NetworkTypeOK ==
  /\ load \in Loads
  /\ pc \in {"head", "drain", "visit", "out", "idle", "unopened", "crashed", "gone"}
  /\ inbox \in Seq(Connection \cup {Shutdown})
  /\ ConnectionListIterator \in Nat \ {0}
  /\ ConnectionList \in Seq(Connection)
  /\ PollStruct \in Seq([fd : Fd, in : BOOLEAN, out : BOOLEAN])
  /\ localConnections \in Nat
  /\ conn \in [Connection ->
       [fd : Fd \cup {NoFd}, Resource : BOOLEAN, FileStream : {"null", "open", "deleted"},
        SendBuffer : BOOLEAN, position : Nat, BytesRemaining : 0 .. MaxSize,
        BandwidthLeft : 0 .. MaxBandwidth, bandReset : BOOLEAN, idle : 0 .. IdleLimit + 1]]
  /\ peer \in [Connection ->
       [state : {"away", "up", "closed", "reset", "gone"}, unread : BOOLEAN, partial : BOOLEAN,
        pieces : 0 .. load.pieces, full : BOOLEAN, body : Seq(1 .. MaxSize)]]
  /\ reply \in [Connection -> [body : Pages \cup {"none", "file"}, size : 0 .. MaxSize]]
  /\ sent \in [Connection -> Nat]
  /\ visited \subseteq Connection /\ missed \subseteq Connection

\* "PollStruct and ConnectionList being in the same order as each other, as they
\* only EVER get deleted together, and added together" (NetworkThread.cxx:208):
\* entry i of one is the socket of entry i of the other, though descriptors are
\* reused, and localConnections counts them.
SameOrder ==
  /\ localConnections = Len(ConnectionList)
  /\ Len(PollStruct) = Len(ConnectionList)
  /\ \A i \in DOMAIN ConnectionList : PollStruct[i].fd = conn[ConnectionList[i]].fd

\* However the sends are cut, a client has received the beginning of its body,
\* and the stream and BytesRemaining stand for exactly the rest.
Streamed ==
  \A c \in Connection :
    LET n == Len(peer[c].body)
    IN /\ peer[c].body = [k \in 1 .. n |-> k]
       /\ (c \in Listed /\ reply[c] # NoReply) =>
            conn[c].position = n /\ conn[c].BytesRemaining = reply[c].size - n

\* A connection that is ended as complete has been sent its whole body, the piece
\* of the last step included.
WholeBody ==
  [][SendBody => \A c \in Listed \ Listed' :
       Len(peer[c].body) + sent'[c] - sent[c] = reply[c].size]_vars

\* In no second a connection is sent more than -maxbandwidth.
ShareKept == MaxBandwidth # 0 => \A c \in Connection : sent[c] <= MaxBandwidth

\* Removing the first connection passes over its successor; the pass after that
\* begins with it, so no connection is passed over twice in a row.
NotMissedTwice == [][EndOfPass => missed \cap missed' = {}]_vars

\* With fewer bytes per second than connections the share of each is 0.
Crowded == MaxBandwidth # 0 /\ localConnections > MaxBandwidth

\* A client of HTTPS that does not send the rest of a record stops the thread.
Stopped == Visiting /\ Revents.in /\ ~Returns(Current)

\* Whatever a client does or fails to do, its connection ends: it is answered, or it
\* leaves, or it is "idle for too long, remove the jerk" (NetworkThread.cxx:452).  Only
\* when the thread stays crowded it need not: then every send is empty, and resets the
\* idle clock nevertheless; nor when the thread waits in SSL_read for good.
EveryConnectionEnds ==
  \/ <>[]Crowded
  \/ <>[]Stopped
  \/ \A c \in Connection : (c \in Listed) ~> (c \notin Listed \/ pc = "crashed")
================================================================================
