--------------------------- MODULE NetworkThreadProofs ---------------------------
(* Theorems about NetworkThread, for every number of clients, every size of files and
   pieces, every limit. *)
EXTENDS NetworkThread, SequenceTheorems, TLAPS

--------------------------------------------------------------------------------
(* The invariant *)

\* Every socket belongs to one connection; a client that has not come yet has none.
OwnSockets ==
  /\ \A c, d \in Connection : conn[c].fd = conn[d].fd => c = d \/ conn[c].fd = NoFd
  /\ \A c \in Connection : peer[c].state = "away" => conn[c] = NewConnection

\* A connection is at most once in the inbox or in the list, with its socket.
Places ==
  /\ \A j \in 1 .. Len(inbox) : inbox[j] # Shutdown => conn[inbox[j]].fd # NoFd
  /\ \A j \in 1 .. Len(ConnectionList) : conn[ConnectionList[j]].fd # NoFd
  /\ \A j, k \in 1 .. Len(inbox) : inbox[j] = inbox[k] => j = k \/ inbox[j] = Shutdown
  /\ \A j, k \in 1 .. Len(ConnectionList) : ConnectionList[j] = ConnectionList[k] => j = k
  /\ \A j \in 1 .. Len(inbox), k \in 1 .. Len(ConnectionList) : inbox[j] # ConnectionList[k]

\* The two vectors, with their indices spelt out.
Aligned ==
  /\ localConnections = Len(ConnectionList)
  /\ Len(PollStruct) = Len(ConnectionList)
  /\ \A j \in 1 .. Len(ConnectionList) : PollStruct[j].fd = conn[ConnectionList[j]].fd

\* After its first part a visit is at an entry of the list.
AtAnEntry ==
  pc \in {"out", "idle", "unopened"} => ConnectionListIterator \in 1 .. Len(ConnectionList)

\* What a client has is the beginning of the answer chosen for it, and the rest is left.
Streaming ==
  \A c \in Connection :
    /\ peer[c].body = [k \in 1 .. Len(peer[c].body) |-> k]
    /\ conn[c].FileStream = "deleted" => pc = "crashed" \/ (pc = "unopened" /\ c = Current)
    /\ reply[c] = NoReply =>
         /\ peer[c].body = <<>>
         /\ conn[c].FileStream # "open" /\ ~conn[c].SendBuffer
    /\ reply[c] # NoReply =>
         /\ conn[c].FileStream = "open" \/ conn[c].SendBuffer
         /\ conn[c].position = Len(peer[c].body)
         /\ conn[c].BytesRemaining = reply[c].size - Len(peer[c].body)
    /\ peer[c].state = "away" => reply[c] = NoReply

\* What a connection was sent in this second and what it may still be sent.
Shares ==
  MaxBandwidth # 0 =>
    \A c \in Connection :
      /\ sent[c] <= MaxBandwidth
      /\ peer[c].state = "away" => sent[c] = 0
      /\ conn[c].fd # NoFd =>
           IF conn[c].bandReset THEN sent[c] + conn[c].BandwidthLeft <= MaxBandwidth
           ELSE sent[c] = 0

InPass == pc \in {"visit", "out", "idle", "unopened"}

\* Only the first connection can have been passed over in the last pass; once this pass
\* is beyond it, it was visited.  All others are visited one after the other.
Passes ==
  /\ pc # "crashed" => \A c \in missed : Len(ConnectionList) > 0 /\ c = ConnectionList[1]
  /\ InPass =>
       /\ ConnectionListIterator > 1 => missed \subseteq visited
       /\ \A j \in 2 .. Len(ConnectionList) :
            j < ConnectionListIterator => ConnectionList[j] \in visited
       /\ pc # "visit" => ConnectionList[ConnectionListIterator] \in visited

Inv ==
  NetworkTypeOK /\ OwnSockets /\ Places /\ Aligned /\ AtAnEntry /\ Streaming /\ Shares /\ Passes


--------------------------------------------------------------------------------
(* Operators *)

LEMMA MinOne == ASSUME NEW k \in Int PROVE Min({k}) = k
  BY DEF Min

LEMMA MinTwo ==
  ASSUME NEW a \in Int, NEW b \in Int
  PROVE  Min({a, b}) = IF a <= b THEN a ELSE b
  <1>1. CASE a <= b
    <2>1. a \in {a, b} /\ \A y \in {a, b} : a <= y
      BY <1>1
    <2>2. \A x \in {a, b} : (\A y \in {a, b} : x <= y) => x = a
      BY <1>1
    <2> QED BY <1>1, <2>1, <2>2 DEF Min
  <1>2. CASE ~(a <= b)
    <2>1. b \in {a, b} /\ \A y \in {a, b} : b <= y
      BY <1>2
    <2>2. \A x \in {a, b} : (\A y \in {a, b} : x <= y) => x = b
      BY <1>2
    <2> QED BY <1>2, <2>1, <2>2 DEF Min
  <1> QED BY <1>1, <1>2

LEMMA Quotient ==
  ASSUME NEW a \in Nat, NEW b \in Nat \ {0}
  PROVE  a \div b \in 0 .. a
  <1>1. a \div b \in Int /\ a % b \in 0 .. (b - 1)
    OBVIOUS
  <1>2. a = b * (a \div b) + (a % b)
    OBVIOUS
  <1> QED BY <1>1, <1>2

\* A sequence without its k-th entry: the entries behind it move up by one.
LEMMA RemoveAtProperties ==
  ASSUME NEW S, NEW s \in Seq(S), NEW k \in 1 .. Len(s)
  PROVE  /\ RemoveAt(s, k) \in Seq(S)
         /\ Len(RemoveAt(s, k)) = Len(s) - 1
         /\ \A j \in 1 .. Len(s) - 1 : RemoveAt(s, k)[j] = s[IF j < k THEN j ELSE j + 1]
  <1> DEFINE before == SubSeq(s, 1, k - 1)
             after == SubSeq(s, k + 1, Len(s))
  <1>0. Len(s) \in Nat /\ \A j \in 1 .. Len(s) : s[j] \in S
    BY LenProperties, ElementOfSeq
  <1>1. /\ before \in Seq(S) /\ Len(before) = k - 1
        /\ \A j \in 1 .. k - 1 : before[j] = s[j]
    <2>1. \A j \in 1 .. k - 1 : s[j] \in S
      BY <1>0
    <2> QED BY <1>0, <2>1, SubSeqProperties
  <1>2. /\ after \in Seq(S) /\ Len(after) = Len(s) - k
        /\ \A j \in 1 .. Len(s) - k : after[j] = s[j + k]
    <2>1. \A j \in k + 1 .. Len(s) : s[j] \in S
      BY <1>0
    <2> QED BY <1>0, <2>1, SubSeqProperties
  <1>3. RemoveAt(s, k) = before \o after
    BY DEF RemoveAt
  <1>4. /\ before \o after \in Seq(S)
        /\ Len(before \o after) = Len(before) + Len(after)
        /\ \A j \in 1 .. Len(before) + Len(after) :
             (before \o after)[j] = IF j <= Len(before) THEN before[j] ELSE after[j - Len(before)]
    <2> HIDE DEF before, after
    <2> QED BY <1>1, <1>2, ConcatProperties
  <1> HIDE DEF before, after
  <1>5. ASSUME NEW j \in 1 .. Len(s) - 1
        PROVE  (before \o after)[j] = s[IF j < k THEN j ELSE j + 1]
    <2>1. CASE j < k
      BY <1>0, <1>1, <1>2, <1>4, <2>1
    <2>2. CASE ~(j < k)
      <3>1. j - (k - 1) \in 1 .. Len(s) - k /\ (j - (k - 1)) + k = j + 1
        BY <1>0, <2>2
      <3>2. (before \o after)[j] = after[j - (k - 1)]
        BY <1>0, <1>1, <1>2, <1>4, <2>2
      <3> QED BY <1>2, <2>2, <3>1, <3>2
    <2> QED BY <2>1, <2>2
  <1> QED BY <1>0, <1>1, <1>2, <1>3, <1>4, <1>5

--------------------------------------------------------------------------------
(* Types *)

EntryType == [fd : Fd, in : BOOLEAN, out : BOOLEAN]
ConnType ==
  [fd : Fd \cup {NoFd}, Resource : BOOLEAN, FileStream : {"null", "open", "deleted"},
   SendBuffer : BOOLEAN, position : Nat, BytesRemaining : 0 .. MaxSize,
   BandwidthLeft : 0 .. MaxBandwidth, bandReset : BOOLEAN, idle : 0 .. IdleLimit + 1]
PeerType ==
  [state : {"away", "up", "closed", "reset", "gone"}, unread : BOOLEAN, partial : BOOLEAN,
   pieces : 0 .. load.pieces, full : BOOLEAN, body : Seq(1 .. MaxSize)]
ReplyType == [body : Pages \cup {"none", "file"}, size : 0 .. MaxSize]
Place == {"head", "drain", "visit", "out", "idle", "unopened", "crashed", "gone"}

\* The loads give numbers.
LEMMA LoadType ==
  ASSUME load \in Loads
  PROVE  /\ load.clients \in Nat /\ load.pieces \in Nat
         /\ load.shutdown \in BOOLEAN /\ MaxBandwidth \in Nat
  BY NetworkAssumption DEF MaxBandwidth

\* What a connection, a client and an answer start with has the types.
LEMMA FreshTypes ==
  ASSUME load \in Loads
  PROVE  /\ NewConnection \in ConnType
         /\ NoReply \in ReplyType
         /\ Peer("away") \in PeerType /\ Peer("up") \in PeerType /\ Peer("gone") \in PeerType
  <1>1. << >> \in Seq(1 .. MaxSize)
    BY EmptySeq
  <1> QED
    BY <1>1, LoadType, NetworkAssumption
    DEF NewConnection, ConnType, NoReply, Reply, ReplyType, Peer, PeerType

Types ==
  /\ load \in Loads
  /\ pc \in Place
  /\ inbox \in Seq(Connection \cup {Shutdown})
  /\ ConnectionListIterator \in Nat \ {0}
  /\ ConnectionList \in Seq(Connection)
  /\ PollStruct \in Seq(EntryType)
  /\ localConnections \in Nat
  /\ conn \in [Connection -> ConnType]
  /\ peer \in [Connection -> PeerType]
  /\ reply \in [Connection -> ReplyType]
  /\ sent \in [Connection -> Nat]
  /\ visited \subseteq Connection /\ missed \subseteq Connection

LEMMA TypesAreTypes == NetworkTypeOK <=> Types
  BY DEF NetworkTypeOK, Types, Place, EntryType, ConnType, PeerType, ReplyType

--------------------------------------------------------------------------------
(* The lists *)

AtEntry == ConnectionListIterator \in 1 .. Len(ConnectionList)

\* The connection that is visited, and the entry of its socket.
LEMMA CurrentType ==
  ASSUME Types, AtEntry, Len(PollStruct) = Len(ConnectionList)
  PROVE  /\ Current \in Connection
         /\ conn[Current] \in ConnType /\ peer[Current] \in PeerType
         /\ Revents \in EntryType
  <1>1. Current \in Connection
    BY ElementOfSeq DEF Types, AtEntry, Current
  <1>2. Revents \in EntryType
    BY ElementOfSeq DEF Types, AtEntry, Revents
  <1> QED BY <1>1, <1>2 DEF Types

LEMMA ListedType ==
  ASSUME Types
  PROVE  /\ Len(ConnectionList) \in Nat /\ Len(PollStruct) \in Nat /\ Len(inbox) \in Nat
         /\ \A j \in 1 .. Len(ConnectionList) : ConnectionList[j] \in Connection
         /\ \A j \in 1 .. Len(PollStruct) : PollStruct[j] \in EntryType
         /\ \A j \in 1 .. Len(inbox) : inbox[j] \in Connection \cup {Shutdown}
  BY LenProperties, ElementOfSeq DEF Types

\* Where an entry of the shorter list was in the list.
Formerly(j) == IF j < ConnectionListIterator THEN j ELSE j + 1

Shortened ==
  /\ ConnectionList' \in Seq(Connection) /\ PollStruct' \in Seq(EntryType)
  /\ Len(ConnectionList') = Len(ConnectionList) - 1
  /\ Len(PollStruct') = Len(PollStruct) - 1
  /\ localConnections' = Len(ConnectionList) - 1
  /\ \A j \in 1 .. Len(ConnectionList) - 1 :
       /\ ConnectionList'[j] = ConnectionList[Formerly(j)]
       /\ PollStruct'[j] = PollStruct[Formerly(j)]

\* Looking for the socket finds the entry at the place of the connection, so the same
\* entry leaves both lists.
LEMMA Terminated ==
  ASSUME Types, OwnSockets, Places, Aligned, AtEntry, TerminateConnection
  PROVE  Shortened
  <1> DEFINE k == ConnectionListIterator
  <1>1. /\ k \in 1 .. Len(ConnectionList) /\ k \in 1 .. Len(PollStruct) /\ k \in Int
        /\ Len(PollStruct) \in Nat
    BY ListedType DEF AtEntry, Aligned
  <1>2. {j \in DOMAIN PollStruct : PollStruct[j].fd = conn[Current].fd} = {k}
    <2>1. DOMAIN PollStruct = 1 .. Len(ConnectionList)
      BY LenProperties DEF Types, Aligned
    <2>2. \A j \in 1 .. Len(ConnectionList) : PollStruct[j].fd = conn[Current].fd <=> j = k
      <3> TAKE j \in 1 .. Len(ConnectionList)
      <3>1. ConnectionList[j] \in Connection /\ ConnectionList[k] \in Connection
        BY <1>1, ListedType
      <3>2. PollStruct[j].fd = conn[ConnectionList[j]].fd /\ conn[ConnectionList[j]].fd # NoFd
        BY DEF Aligned, Places
      <3>3. ConnectionList[j] = ConnectionList[k] => j = k
        BY <1>1 DEF Places
      <3> QED BY <3>1, <3>2, <3>3 DEF OwnSockets, Current
    <2> QED BY <1>1, <2>1, <2>2
  <1>3. Without(PollStruct, conn[Current].fd) = RemoveAt(PollStruct, k)
    BY <1>1, <1>2, MinOne DEF Without
  <1>4. /\ RemoveAt(PollStruct, k) \in Seq(EntryType)
        /\ Len(RemoveAt(PollStruct, k)) = Len(PollStruct) - 1
        /\ \A j \in 1 .. Len(PollStruct) - 1 :
             RemoveAt(PollStruct, k)[j] = PollStruct[IF j < k THEN j ELSE j + 1]
    BY <1>1, RemoveAtProperties DEF Types
  <1>5. /\ RemoveAt(ConnectionList, k) \in Seq(Connection)
        /\ Len(RemoveAt(ConnectionList, k)) = Len(ConnectionList) - 1
        /\ \A j \in 1 .. Len(ConnectionList) - 1 :
             RemoveAt(ConnectionList, k)[j] = ConnectionList[IF j < k THEN j ELSE j + 1]
    BY <1>1, RemoveAtProperties DEF Types
  <1> QED BY <1>3, <1>4, <1>5 DEF TerminateConnection, Shortened, Formerly, Aligned

\* Deleting connections leaves the others alone.
LEMMA Deleted ==
  ASSUME Types, UNCHANGED load, NEW gone \in SUBSET Connection, Delete(gone)
  PROVE  /\ conn' \in [Connection -> ConnType'] /\ peer' \in [Connection -> PeerType']
         /\ reply' \in [Connection -> ReplyType']
         /\ visited' \subseteq Connection /\ missed' \subseteq Connection
  <1>1. ConnType' = ConnType /\ PeerType' = PeerType /\ ReplyType' = ReplyType
    BY DEF ConnType, PeerType, ReplyType, MaxBandwidth
  <1>2. /\ NewConnection \in ConnType /\ NoReply \in ReplyType /\ Peer("gone") \in PeerType
    BY FreshTypes DEF Types
  <1> QED BY <1>1, <1>2 DEF Types, Delete

--------------------------------------------------------------------------------
(* Sending a piece *)

\* What a visited connection may be sent now: no more than its share, which is there.
LEMMA Allowance ==
  ASSUME Types, Aligned, AtEntry
  PROVE  LET r == conn[Current]
         IN /\ BandwidthLeft(r) \in 0 .. MaxBandwidth
            /\ BytesAllowed(r) \in Nat
            /\ MaxBandwidth # 0 => BytesAllowed(r) <= BandwidthLeft(r)
  <1> DEFINE r == conn[Current]
  <1>1. r \in ConnType /\ MaxBandwidth \in Nat /\ Chunk \in Nat
    BY CurrentType, LoadType, NetworkAssumption DEF Types, Aligned
  <1>2. localConnections \in Nat \ {0}
    BY ListedType DEF Aligned, AtEntry
  <1>3. BandwidthLeft(r) \in 0 .. MaxBandwidth
    <2>1. MaxBandwidth \div localConnections \in 0 .. MaxBandwidth
      BY <1>1, <1>2, Quotient
    <2>2. r.BandwidthLeft \in 0 .. MaxBandwidth
      BY <1>1 DEF ConnType
    <2> QED BY <2>1, <2>2 DEF BandwidthLeft
  <1>4. Min({Chunk, BandwidthLeft(r)}) =
          IF Chunk <= BandwidthLeft(r) THEN Chunk ELSE BandwidthLeft(r)
    BY <1>1, <1>3, MinTwo
  <1> QED BY <1>1, <1>3, <1>4 DEF BytesAllowed

\* Charging a connection with its piece changes nothing but its share.
LEMMA Charging ==
  ASSUME Types, Aligned, AtEntry
  PROVE  LET r == conn[Current]
         IN /\ Charged(r) \in ConnType
            /\ Charged(r) = [r EXCEPT !.bandReset = Charged(r).bandReset,
                                      !.BandwidthLeft = Charged(r).BandwidthLeft]
            /\ MaxBandwidth # 0 =>
                 /\ Charged(r).bandReset
                 /\ Charged(r).BandwidthLeft = BandwidthLeft(r) - BytesAllowed(r)
  <1> DEFINE r == conn[Current]
  <1>1. r \in ConnType /\ MaxBandwidth \in Nat
    BY CurrentType, LoadType DEF Types, Aligned
  <1>2. CASE MaxBandwidth = 0
    BY <1>1, <1>2 DEF Charged, ConnType
  <1>3. CASE MaxBandwidth # 0
    <2>1. BandwidthLeft(r) - BytesAllowed(r) \in 0 .. MaxBandwidth
      BY <1>1, <1>3, Allowance
    <2>2. Charged(r) = [r EXCEPT !.bandReset = TRUE,
                                 !.BandwidthLeft = BandwidthLeft(r) - BytesAllowed(r)]
      BY <1>3 DEF Charged
    <2> QED BY <1>1, <1>3, <2>1, <2>2 DEF ConnType
  <1> QED BY <1>2, <1>3

\* n bytes of the body are sent to the connection: all that was left, or less.
Piece(n) ==
  /\ n \in 0 .. conn[Current].BytesRemaining
  /\ n <= BytesAllowed(conn[Current])
  /\ sent' = [sent EXCEPT ![Current] = @ + n]
  /\ inbox' = inbox
  /\ \/ n = conn[Current].BytesRemaining /\ TerminateConnection /\ AfterTermination
     \/ /\ n # conn[Current].BytesRemaining
        /\ \E full \in BOOLEAN :
             peer' = [peer EXCEPT ![Current].full = full,
               ![Current].body = @ \o [j \in 1 .. n |-> conn[Current].position + j]]
        /\ \E idle \in 0 .. IdleLimit + 1 :
             conn' = [conn EXCEPT ![Current] =
               [Charged(conn[Current]) EXCEPT !.position = conn[Current].position + n,
                  !.BytesRemaining = conn[Current].BytesRemaining - n, !.idle = idle]]
        /\ pc' = "idle"
        /\ UNCHANGED <<ConnectionListIterator, ConnectionList, PollStruct, localConnections,
                       reply, visited, missed>>

LEMMA Sending ==
  ASSUME Types, Aligned, AtAnEntry, SendBody
  PROVE  \E n \in Nat : Piece(n)
  <1> DEFINE r == conn[Current]
             read == Min({BytesAllowed(r), r.BytesRemaining})
  <1>1. AtEntry
    BY DEF SendBody, MaySend, AtAnEntry, AtEntry
  <1>2. r \in ConnType /\ Current \in Connection /\ BytesAllowed(r) \in Nat
    BY <1>1, CurrentType, Allowance DEF Aligned
  <1>3. /\ r.BytesRemaining \in 0 .. MaxSize /\ r.position \in Nat /\ r.idle \in 0 .. IdleLimit + 1
        /\ MaxSize \in Nat /\ IdleLimit \in Nat
    BY <1>2, NetworkAssumption DEF ConnType
  <1>4. read = IF BytesAllowed(r) <= r.BytesRemaining THEN BytesAllowed(r) ELSE r.BytesRemaining
    BY <1>2, <1>3, MinTwo
  <1>5. read \in Nat /\ read <= BytesAllowed(r) /\ read <= r.BytesRemaining
    BY <1>2, <1>3, <1>4
  <1>6. PICK n \in 0 .. read, full \in BOOLEAN :
          LET up == peer[Current].state = "up"
              left == Remaining(r.BytesRemaining, read, n)
          IN /\ sent' = [sent EXCEPT ![Current] = @ + n]
             /\ \/ left = 0 /\ TerminateConnection /\ AfterTermination
                \/ /\ left # 0
                   /\ peer' = [peer EXCEPT ![Current].full = full,
                        ![Current].body = @ \o [k \in 1 .. n |-> r.position + k]]
                   /\ \E idle \in IdleAfter(n > 0 \/ read = 0, r.idle) :
                        conn' = [conn EXCEPT ![Current] =
                          [Charged(r) EXCEPT !.position = Resumed(r.position, read, n),
                                             !.BytesRemaining = left, !.idle = idle]]
                   /\ pc' = "idle"
                   /\ UNCHANGED <<ConnectionListIterator, ConnectionList, PollStruct,
                                  localConnections, reply, visited, missed>>
    BY DEF SendBody
  <1> HIDE DEF read
  <1>7. n \in 0 .. r.BytesRemaining /\ n <= BytesAllowed(r) /\ n \in Nat
    BY <1>2, <1>3, <1>5
  <1>8. Remaining(r.BytesRemaining, read, n) = r.BytesRemaining - n
    BY DEF Remaining
  <1>9. Resumed(r.position, read, n) = r.position + n
    BY <1>3, <1>5, <1>7 DEF Resumed
  <1>10. inbox' = inbox
    BY DEF SendBody
  <1>11. CASE r.BytesRemaining - n = 0 /\ TerminateConnection /\ AfterTermination
    <2>1. n = r.BytesRemaining
      BY <1>3, <1>7, <1>11
    <2> QED BY <1>6, <1>7, <1>10, <1>11, <2>1 DEF Piece
  <1>12. CASE r.BytesRemaining - n # 0 /\ pc' = "idle"
    <2>1. n # r.BytesRemaining
      BY <1>3, <1>12
    <2>2. IdleAfter(n > 0 \/ read = 0, r.idle) \subseteq 0 .. IdleLimit + 1
      BY <1>3 DEF IdleAfter
    <2>3. /\ peer' = [peer EXCEPT ![Current].full = full,
                        ![Current].body = @ \o [k \in 1 .. n |-> r.position + k]]
          /\ \E idle \in IdleAfter(n > 0 \/ read = 0, r.idle) :
               conn' = [conn EXCEPT ![Current] =
                 [Charged(r) EXCEPT !.position = Resumed(r.position, read, n),
                                    !.BytesRemaining = r.BytesRemaining - n, !.idle = idle]]
          /\ UNCHANGED <<ConnectionListIterator, ConnectionList, PollStruct,
                         localConnections, reply, visited, missed>>
      BY <1>6, <1>8, <1>12 DEF AfterTermination
    <2>4. \E idle \in 0 .. IdleLimit + 1 :
            conn' = [conn EXCEPT ![Current] =
              [Charged(r) EXCEPT !.position = r.position + n,
                                 !.BytesRemaining = r.BytesRemaining - n, !.idle = idle]]
      BY <1>9, <2>2, <2>3
    <2> QED BY <1>6, <1>7, <1>10, <1>12, <2>1, <2>3, <2>4 DEF Piece
  <1> QED BY <1>6, <1>8, <1>11, <1>12

--------------------------------------------------------------------------------
(* Every step keeps the types *)

\* What is streamed never passes the longest body.
LEMMA WithinBody ==
  ASSUME Types, Aligned, AtAnEntry, Streaming, MaySend, HasBody
  PROVE  /\ reply[Current] # NoReply
         /\ conn[Current].position = Len(peer[Current].body)
         /\ conn[Current].BytesRemaining = reply[Current].size - Len(peer[Current].body)
         /\ conn[Current].position + conn[Current].BytesRemaining \in 0 .. MaxSize
  <1>1. AtEntry
    BY DEF MaySend, AtAnEntry, AtEntry
  <1>2. Current \in Connection /\ conn[Current] \in ConnType
    BY <1>1, CurrentType DEF Aligned
  <1>3. conn[Current].FileStream = "open" \/ conn[Current].SendBuffer
    <2>1. conn[Current].FileStream # "deleted"
      BY <1>2 DEF Streaming, MaySend
    <2> QED BY <1>2, <2>1 DEF HasBody, ConnType
  <1>4. reply[Current] # NoReply
    BY <1>2, <1>3 DEF Streaming
  <1>5. /\ conn[Current].position = Len(peer[Current].body)
        /\ conn[Current].BytesRemaining = reply[Current].size - Len(peer[Current].body)
    BY <1>2, <1>4 DEF Streaming
  <1>6. reply[Current].size \in 0 .. MaxSize /\ conn[Current].position \in Nat
    BY <1>2 DEF Types, ReplyType, ConnType
  <1> QED BY <1>4, <1>5, <1>6, NetworkAssumption

\* One field of a connection or a client changes.
LEMMA FieldTypes ==
  ASSUME load \in Loads
  PROVE  /\ \A r \in ConnType, path \in BOOLEAN :
              [r EXCEPT !.Resource = path, !.idle = 0] \in ConnType
         /\ \A p \in PeerType, b \in BOOLEAN :
              /\ [p EXCEPT !.unread = b] \in PeerType
              /\ [p EXCEPT !.partial = b] \in PeerType
              /\ [p EXCEPT !.full = b] \in PeerType
         /\ \A p \in PeerType, s \in {"up", "closed", "reset"} :
              [p EXCEPT !.state = s] \in PeerType
  <1> DEFINE pieces == load.pieces
  <1>1. /\ MaxBandwidth \in Nat /\ pieces \in Nat /\ MaxSize \in Nat /\ IdleLimit \in Nat
    BY LoadType, NetworkAssumption
  <1>2. PeerType =
          [state : {"away", "up", "closed", "reset", "gone"}, unread : BOOLEAN, partial : BOOLEAN,
           pieces : 0 .. pieces, full : BOOLEAN, body : Seq(1 .. MaxSize)]
    BY DEF PeerType
  <1> HIDE DEF pieces
  <1>3. \A r \in ConnType, path \in BOOLEAN :
          [r EXCEPT !.Resource = path, !.idle = 0] \in ConnType
    <2> TAKE r \in ConnType, path \in BOOLEAN
    <2>1. [r EXCEPT !.Resource = path] \in ConnType
      BY <1>1 DEF ConnType
    <2> DEFINE q == [r EXCEPT !.Resource = path]
    <2>2. 0 \in 0 .. IdleLimit + 1
      BY <1>1
    <2> HIDE DEF q
    <2>3. q \in ConnType => [q EXCEPT !.idle = 0] \in ConnType
      BY <1>1, <2>2 DEF ConnType
    <2> QED BY <2>1, <2>3 DEF q
  <1>4. \A p \in PeerType, b \in BOOLEAN :
          /\ [p EXCEPT !.unread = b] \in PeerType
          /\ [p EXCEPT !.partial = b] \in PeerType
          /\ [p EXCEPT !.full = b] \in PeerType
    BY <1>1, <1>2
  <1>5. \A p \in PeerType, s \in {"up", "closed", "reset"} : [p EXCEPT !.state = s] \in PeerType
    BY <1>1, <1>2
  <1> QED BY <1>3, <1>4, <1>5

\* A connection that is told its answer.
LEMMA PreparedType ==
  ASSUME load \in Loads, NEW r \in ConnType, NEW answer \in ReplyType
  PROVE  /\ Prepared(r, answer) \in ConnType
         /\ \A idle \in 0 .. IdleLimit + 1 : [Prepared(r, answer) EXCEPT !.idle = idle] \in ConnType
  <1> DEFINE stream == IF answer.body = "file" THEN "open" ELSE "null"
             buffer == answer.body \in Pages
             size == answer.size
  <1>1. /\ stream \in {"null", "open", "deleted"} /\ buffer \in BOOLEAN
        /\ size \in 0 .. MaxSize /\ 0 \in Nat
    BY DEF ReplyType
  <1>2. /\ Prepared(r, answer) =
             [r EXCEPT !.FileStream = stream, !.SendBuffer = buffer,
                       !.position = 0, !.BytesRemaining = size]
    BY DEF Prepared
  <1>3. MaxBandwidth \in Nat /\ MaxSize \in Nat /\ IdleLimit \in Nat
    BY LoadType, NetworkAssumption
  <1> HIDE DEF stream, buffer, size
  <1>4. Prepared(r, answer) \in ConnType
    BY <1>1, <1>2, <1>3 DEF ConnType
  <1> HIDE <1>2
  <1> QED BY <1>3, <1>4 DEF ConnType

LEMMA AnswersType == Answers \subseteq ReplyType /\ NoReply \notin Answers
  <1>1. ASSUME NEW answer \in Answers PROVE answer \in ReplyType /\ answer # NoReply
    <2>1. CASE answer \in {Reply("file", size) : size \in 0 .. MaxSize}
      BY <2>1 DEF Reply, ReplyType, NoReply
    <2>2. CASE answer \in {Reply(body, size) : body \in {"index", "404"}, size \in 1 .. MaxSize}
      BY <2>2, NetworkAssumption DEF Reply, ReplyType, NoReply, Pages
    <2>3. CASE answer \in {Reply("401", size) : size \in IF RequireAuth THEN 1 .. MaxSize ELSE {}}
      BY <2>3, NetworkAssumption DEF Reply, ReplyType, NoReply, Pages
    <2> QED BY <2>1, <2>2, <2>3 DEF Answers
  <1> QED BY <1>1

\* Reading a piece of a request and choosing an answer keep the types.
LEMMA VisitTypes ==
  ASSUME Types, Aligned, AtAnEntry, Streaming, UNCHANGED load,
         \/ Receive \/ ReceiveError \/ Unresolvable \/ Answer \/ OpenFails
  PROVE  Types'
  <1>1. AtEntry
    <2>1. Visiting => AtEntry
      BY ListedType DEF Visiting, AtEntry, Types
    <2>2. MaySend => AtEntry
      BY DEF MaySend, AtAnEntry, AtEntry
    <2> QED BY <2>1, <2>2 DEF Receive, ReceiveError, Unresolvable, Answer, OpenFails
  <1>2. Current \in Connection /\ conn[Current] \in ConnType /\ peer[Current] \in PeerType
    BY <1>1, CurrentType DEF Aligned
  <1>3. ConnType' = ConnType /\ PeerType' = PeerType /\ ReplyType' = ReplyType
    BY DEF ConnType, PeerType, ReplyType, MaxBandwidth
  <1>4. IdleLimit \in Nat /\ MaxBandwidth \in Nat /\ MaxSize \in Nat /\ load.pieces \in Nat
    BY LoadType, NetworkAssumption DEF Types
  <1> DEFINE C == conn' \in [Connection -> ConnType] /\ peer' \in [Connection -> PeerType]
                  /\ reply' \in [Connection -> ReplyType]
             R == /\ pc' \in Place /\ ConnectionListIterator' \in Nat \ {0}
                  /\ UNCHANGED <<inbox, ConnectionList, PollStruct, localConnections, sent, missed>>
                  /\ visited' \in {visited, visited \cup {Current}}
  <1>5. C /\ R => Types'
    BY <1>2, <1>3 DEF Types
  <1>6. CASE Receive \/ ReceiveError
    <2>1. conn' \in [Connection -> ConnType]
      <3>1. PICK path \in {TRUE, conn[Current].Resource} :
              conn' = [conn EXCEPT ![Current].Resource = path, ![Current].idle = 0]
        BY <1>6 DEF Receive, ReceiveError, Received
      <3>2. path \in BOOLEAN
        BY <1>2 DEF ConnType
      <3>3. [conn[Current] EXCEPT !.Resource = path, !.idle = 0] \in ConnType
        BY <1>2, <3>2, FieldTypes DEF Types
      <3>4. conn' = [conn EXCEPT ![Current] = [conn[Current] EXCEPT !.Resource = path, !.idle = 0]]
        BY <3>1
      <3> QED BY <1>2, <3>3, <3>4 DEF Types
    <2>2. peer' \in [Connection -> PeerType]
      <3>1. /\ [peer[Current] EXCEPT !.unread = FALSE] \in PeerType
            /\ [peer[Current] EXCEPT !.state = "closed"] \in PeerType
        BY <1>2, FieldTypes DEF Types
      <3>2. \/ peer' = [peer EXCEPT ![Current] = [peer[Current] EXCEPT !.unread = FALSE]]
            \/ peer' = [peer EXCEPT ![Current] = [peer[Current] EXCEPT !.state = "closed"]]
        BY <1>6 DEF Receive, ReceiveError
      <3> QED BY <1>2, <3>1, <3>2 DEF Types
    <2>3. R /\ reply' = reply
      BY <1>6 DEF Receive, ReceiveError, Received, Types, Place
    <2> QED BY <1>5, <2>1, <2>2, <2>3 DEF Types
  <1>7. CASE Unresolvable
    <2>1. PICK size \in 1 .. MaxSize :
            /\ reply' = [reply EXCEPT ![Current] = Reply("404", size)]
            /\ conn' = [conn EXCEPT ![Current] = Prepared(@, Reply("404", size))]
      BY <1>7 DEF Unresolvable
    <2>2. Reply("404", size) \in ReplyType
      BY NetworkAssumption DEF Reply, ReplyType, Pages
    <2>3. Prepared(conn[Current], Reply("404", size)) \in ConnType
      BY <1>2, <2>2, PreparedType DEF Types
    <2>4. conn' \in [Connection -> ConnType] /\ reply' \in [Connection -> ReplyType]
      BY <1>2, <2>1, <2>2, <2>3 DEF Types
    <2>5. R /\ peer' = peer
      BY <1>7 DEF Unresolvable, NextConnection, past, Types, Place
    <2> QED BY <1>5, <2>4, <2>5 DEF Types
  <1>8. CASE Answer
    <2>1. PICK answer \in Answers, ok \in {TRUE, peer[Current].state = "up"} :
            /\ reply' = [reply EXCEPT ![Current] = answer]
            /\ \E idle \in IdleAfter(ok, conn[Current].idle) :
                 conn' = [conn EXCEPT ![Current] = [Prepared(@, answer) EXCEPT !.idle = idle]]
      BY <1>8 DEF Answer
    <2>2. PICK idle \in IdleAfter(ok, conn[Current].idle) :
            conn' = [conn EXCEPT ![Current] = [Prepared(@, answer) EXCEPT !.idle = idle]]
      BY <2>1
    <2>3. idle \in 0 .. IdleLimit + 1 /\ answer \in ReplyType
      BY <1>2, <1>4, <2>1, AnswersType DEF IdleAfter, ConnType
    <2>4. [Prepared(conn[Current], answer) EXCEPT !.idle = idle] \in ConnType
      BY <1>2, <2>3, PreparedType DEF Types
    <2>5. conn' \in [Connection -> ConnType] /\ reply' \in [Connection -> ReplyType]
      BY <1>2, <2>1, <2>2, <2>3, <2>4, Zenon DEF Types
    <2>6. peer' \in [Connection -> PeerType]
      <3>1. PICK full \in BOOLEAN :
              peer' = [peer EXCEPT ![Current] = [peer[Current] EXCEPT !.full = full]]
        BY <1>8 DEF Answer
      <3>2. [peer[Current] EXCEPT !.full = full] \in PeerType
        BY <1>2, FieldTypes DEF Types
      <3> QED BY <1>2, <3>1, <3>2 DEF Types
    <2>7. R
      BY <1>8 DEF Answer, past, Types, Place
    <2> QED BY <1>5, <2>5, <2>6, <2>7
  <1>9. CASE OpenFails
    <2>1. conn' \in [Connection -> ConnType]
      BY <1>2, <1>9 DEF OpenFails, Types, ConnType
    <2>2. R /\ peer' = peer /\ reply' = reply
      BY <1>9 DEF OpenFails, past, Types, Place
    <2> QED BY <1>5, <2>1, <2>2 DEF Types
  <1> QED BY <1>6, <1>7, <1>8, <1>9

\* The next piece of a body continues what was sent of it.
LEMMA NextPiece ==
  ASSUME NEW m \in Nat, NEW n \in Nat, m + n <= MaxSize
  PROVE  /\ [k \in 1 .. n |-> m + k] \in Seq(1 .. MaxSize)
         /\ Len([k \in 1 .. n |-> m + k]) = n
         /\ [k \in 1 .. m |-> k] \o [k \in 1 .. n |-> m + k] = [k \in 1 .. m + n |-> k]
  <1> DEFINE s == [k \in 1 .. m |-> k]
             t == [k \in 1 .. n |-> m + k]
             u == [k \in 1 .. m + n |-> k]
             S == 1 .. MaxSize
  <1>1. m + n \in Nat /\ MaxSize \in Nat
    BY NetworkAssumption
  <1>2. s \in [1 .. m -> S] /\ t \in [1 .. n -> S] /\ u \in [1 .. m + n -> S]
    BY <1>1
  <1>3. s \in Seq(S) /\ t \in Seq(S) /\ u \in Seq(S)
    BY <1>1, <1>2, SeqDef
  <1>4. Len(s) = m /\ Len(t) = n /\ Len(u) = m + n
    <2>1. DOMAIN s = 1 .. m /\ DOMAIN t = 1 .. n /\ DOMAIN u = 1 .. m + n
      OBVIOUS
    <2> HIDE DEF s, t, u
    <2> QED BY <1>1, <1>3, <2>1, LenProperties
  <1>5. /\ \A k \in 1 .. m : s[k] = k
        /\ \A k \in 1 .. n : t[k] = m + k
        /\ \A k \in 1 .. m + n : u[k] = k
    OBVIOUS
  <1> HIDE DEF s, t, u, S
  <1>6. /\ s \o t \in Seq(S) /\ Len(s \o t) = m + n
        /\ \A k \in 1 .. m + n : (s \o t)[k] = IF k <= m THEN s[k] ELSE t[k - m]
    BY <1>3, <1>4, ConcatProperties
  <1>7. \A k \in 1 .. m + n : (s \o t)[k] = u[k]
    <2> TAKE k \in 1 .. m + n
    <2>1. CASE k <= m
      BY <1>5, <1>6, <2>1
    <2>2. CASE ~(k <= m)
      <3>1. k - m \in 1 .. n /\ m + (k - m) = k
        BY <1>1, <2>2
      <3> QED BY <1>5, <1>6, <2>2, <3>1
    <2> QED BY <2>1, <2>2
  <1>8. s \o t = u
    BY <1>3, <1>4, <1>6, <1>7, SeqEqual
  <1> QED BY <1>3, <1>4, <1>8 DEF s, t, u, S

\* Where the visited connection and its client are after a piece that is not the last.
LEMMA PieceKept ==
  ASSUME Types, Aligned, AtAnEntry, Streaming, MaySend, HasBody,
         NEW n \in Nat, Piece(n), n # conn[Current].BytesRemaining
  PROVE  LET m == conn[Current].position
         IN /\ m + n \in 0 .. MaxSize
            /\ \E full \in BOOLEAN :
                 /\ [peer[Current] EXCEPT !.full = full, !.body = [k \in 1 .. m + n |-> k]]
                      \in PeerType
                 /\ peer' = [peer EXCEPT ![Current] =
                      [peer[Current] EXCEPT !.full = full, !.body = [k \in 1 .. m + n |-> k]]]
            /\ \E idle \in 0 .. IdleLimit + 1 :
                 LET r == [Charged(conn[Current]) EXCEPT !.position = m + n,
                             !.BytesRemaining = conn[Current].BytesRemaining - n, !.idle = idle]
                 IN r \in ConnType /\ conn' = [conn EXCEPT ![Current] = r]
  <1> DEFINE m == conn[Current].position
             rest == conn[Current].BytesRemaining - n
             piece == [k \in 1 .. n |-> m + k]
  <1>1. AtEntry
    BY DEF MaySend, AtAnEntry, AtEntry
  <1>2. Current \in Connection /\ conn[Current] \in ConnType /\ peer[Current] \in PeerType
    BY <1>1, CurrentType DEF Aligned
  <1>3. m \in Nat /\ n <= conn[Current].BytesRemaining /\ conn[Current].BytesRemaining \in 0 .. MaxSize
        /\ MaxSize \in Nat /\ IdleLimit \in Nat /\ MaxBandwidth \in Nat
    <2>1. n \in 0 .. conn[Current].BytesRemaining
      BY DEF Piece
    <2> QED BY <1>2, <2>1, LoadType, NetworkAssumption DEF ConnType, Types
  <1>4. /\ Len(peer[Current].body) = m
        /\ m + conn[Current].BytesRemaining \in 0 .. MaxSize
    BY WithinBody
  <1>5. m + n \in 0 .. MaxSize /\ rest \in 0 .. MaxSize
    <2> DEFINE b == conn[Current].BytesRemaining
    <2>1. m \in Nat /\ b \in 0 .. MaxSize /\ n <= b /\ MaxSize \in Nat /\ m + b \in 0 .. MaxSize
      BY <1>3, <1>4
    <2> HIDE DEF m, b
    <2>2. m + n \in 0 .. MaxSize /\ b - n \in 0 .. MaxSize
      BY <2>1
    <2> QED BY <2>2 DEF m, b
  <1>6. peer[Current].body = [k \in 1 .. m |-> k]
    <2>1. peer[Current].body = [k \in 1 .. Len(peer[Current].body) |-> k]
      BY <1>2 DEF Streaming
    <2> QED BY <1>4, <2>1
  <1>7. peer[Current].body \o piece = [k \in 1 .. m + n |-> k]
    <2>1. m + n <= MaxSize
      BY <1>3, <1>5
    <2>2. m \in Nat
      BY <1>3
    <2> HIDE DEF m
    <2>3. [k \in 1 .. m |-> k] \o [k \in 1 .. n |-> m + k] = [k \in 1 .. m + n |-> k]
      BY <2>1, <2>2, NextPiece
    <2> QED BY <1>6, <2>3
  <1>8. [k \in 1 .. m + n |-> k] \in Seq(1 .. MaxSize)
    <2>1. peer[Current].body \in Seq(1 .. MaxSize)
      BY <1>2 DEF PeerType
    <2>2. piece \in Seq(1 .. MaxSize)
      BY <1>3, <1>5, NextPiece
    <2> HIDE DEF piece
    <2>3. peer[Current].body \o piece \in Seq(1 .. MaxSize)
      BY <2>1, <2>2, ConcatProperties
    <2> QED BY <1>7, <2>3
  <1>9. /\ \E full \in BOOLEAN :
              peer' = [peer EXCEPT ![Current].full = full, ![Current].body = @ \o piece]
         /\ \E idle \in 0 .. IdleLimit + 1 :
              conn' = [conn EXCEPT ![Current] =
                [Charged(conn[Current]) EXCEPT !.position = m + n,
                   !.BytesRemaining = rest, !.idle = idle]]
    BY DEF Piece
  <1> DEFINE whole == [k \in 1 .. m + n |-> k]
  <1>10. \E full \in BOOLEAN :
           /\ [peer[Current] EXCEPT !.full = full, !.body = whole] \in PeerType
           /\ peer' = [peer EXCEPT ![Current] = [peer[Current] EXCEPT !.full = full, !.body = whole]]
    <2>1. PICK full \in BOOLEAN :
            peer' = [peer EXCEPT ![Current].full = full, ![Current].body = @ \o piece]
      BY <1>9
    <2> HIDE DEF piece, whole
    <2>2. peer' = [peer EXCEPT ![Current] =
                     [peer[Current] EXCEPT !.full = full, !.body = peer[Current].body \o piece]]
      BY <1>2, <2>1 DEF Types, PeerType
    <2>3. peer[Current].body \o piece = whole
      BY <1>7 DEF whole, piece
    <2>4. [peer[Current] EXCEPT !.full = full, !.body = whole] \in PeerType
      <3> DEFINE p == [peer[Current] EXCEPT !.full = full]
      <3>1. p \in PeerType
        BY <1>2, FieldTypes DEF Types
      <3>2. whole \in Seq(1 .. MaxSize)
        BY <1>8 DEF whole
      <3> HIDE DEF p
      <3>3. [p EXCEPT !.body = whole] \in PeerType
        BY <3>1, <3>2 DEF PeerType
      <3> QED BY <3>3 DEF p
    <2> QED BY <2>2, <2>3, <2>4
  <1>11. \E idle \in 0 .. IdleLimit + 1 :
           LET r == [Charged(conn[Current]) EXCEPT !.position = m + n,
                       !.BytesRemaining = rest, !.idle = idle]
           IN r \in ConnType /\ conn' = [conn EXCEPT ![Current] = r]
    <2>1. PICK idle \in 0 .. IdleLimit + 1 :
              conn' = [conn EXCEPT ![Current] =
                [Charged(conn[Current]) EXCEPT !.position = m + n,
                   !.BytesRemaining = rest, !.idle = idle]]
      BY <1>9
    <2> DEFINE q == Charged(conn[Current])
               to == m + n
    <2>2. q \in ConnType /\ to \in Nat
      BY <1>1, <1>5, Charging
    <2>3. rest \in 0 .. MaxSize
      BY <1>5
    <2> HIDE DEF q, to, rest
    <2>4. [q EXCEPT !.position = to, !.BytesRemaining = rest, !.idle = idle] \in ConnType
      BY <1>3, <2>2, <2>3 DEF ConnType
    <2> QED BY <2>1, <2>4 DEF q, to
  <1> QED BY <1>5, <1>10, <1>11

\* Ending the visited connection keeps the types.
LEMMA TerminationTypes ==
  ASSUME Types, OwnSockets, Places, Aligned, AtEntry, UNCHANGED <<load, inbox>>,
         TerminateConnection, AfterTermination, sent' \in [Connection -> Nat]
  PROVE  Types'
  <1>1. Shortened
    BY Terminated
  <1>2. {Current} \in SUBSET Connection
    BY CurrentType DEF Aligned
  <1>3. /\ conn' \in [Connection -> ConnType'] /\ peer' \in [Connection -> PeerType']
        /\ reply' \in [Connection -> ReplyType']
        /\ visited' \subseteq Connection /\ missed' \subseteq Connection
    BY <1>2, Deleted DEF TerminateConnection
  <1>4. pc' \in Place /\ ConnectionListIterator' \in Nat \ {0}
    BY DEF AfterTermination, Place, Types
  <1>5. localConnections' \in Nat
    BY <1>1, ListedType DEF Shortened, AtEntry
  <1>6. EntryType' = EntryType
    BY DEF EntryType
  <1> QED BY <1>1, <1>3, <1>4, <1>5, <1>6 DEF Types, Shortened

\* The inbox gets shorter, and its first entry was a connection or the shutdown.
LEMMA InboxType ==
  ASSUME Types, inbox # <<>>
  PROVE  /\ Head(inbox) \in Connection \cup {Shutdown}
         /\ Head(inbox) = inbox[1]
         /\ Tail(inbox) \in Seq(Connection \cup {Shutdown})
         /\ Len(inbox) \in Nat \ {0}
         /\ Len(Tail(inbox)) = Len(inbox) - 1
         /\ \A j \in 1 .. Len(inbox) - 1 : Tail(inbox)[j] = inbox[j + 1]
  BY HeadTailProperties, EmptySeq DEF Types

\* Steps of the thread.
LEMMA PassTypes ==
  ASSUME Types, OwnSockets, Places, Aligned, AtAnEntry, Streaming, UNCHANGED load, Pass
  PROVE  Types'
  <1>1. ConnType' = ConnType /\ PeerType' = PeerType /\ ReplyType' = ReplyType /\ EntryType' = EntryType
    BY DEF ConnType, PeerType, ReplyType, EntryType, MaxBandwidth
  <1>2. /\ Visiting => AtEntry
        /\ pc \in {"out", "idle", "unopened"} => AtEntry
    <2>1. Visiting => AtEntry
      BY ListedType DEF Visiting, AtEntry, Types
    <2>2. pc \in {"out", "idle", "unopened"} => AtEntry
      BY DEF AtAnEntry, AtEntry
    <2> QED BY <2>1, <2>2
  <1>3. CASE LoopHead \/ NoConnections \/ NothingToSend \/ BrokenPipe \/ KeepConnection
    BY <1>1, <1>3
    DEF LoopHead, NoConnections, NothingToSend, BrokenPipe, KeepConnection, NextConnection,
        past, Types, Place
  <1>4. CASE NothingToRead
    <2>1. Current \in Connection
      BY <1>2, <1>4, CurrentType DEF NothingToRead, Aligned
    <2> QED BY <1>1, <1>4, <2>1 DEF NothingToRead, Types, Place
  <1>5. CASE TakeConnection
    <2> DEFINE c == Head(inbox)
    <2>1. c \in Connection /\ Tail(inbox) \in Seq(Connection \cup {Shutdown})
      BY <1>5, InboxType DEF TakeConnection
    <2>2. conn[c].fd \in Fd
      <3>1. 1 \in 1 .. Len(inbox) /\ c = inbox[1] /\ inbox[1] # Shutdown
        BY <1>5, InboxType DEF TakeConnection
      <3>2. conn[c].fd # NoFd
        BY <3>1 DEF Places
      <3>3. conn[c] \in ConnType
        BY <2>1 DEF Types
      <3> QED BY <3>2, <3>3 DEF ConnType
    <2>3. Entry(conn[c].fd) \in EntryType
      BY <2>2 DEF Entry, EntryType
    <2>4. PollStruct' \in Seq(EntryType) /\ ConnectionList' \in Seq(Connection)
      <3>1. PollStruct' = Append(PollStruct, Entry(conn[c].fd)) /\ ConnectionList' = Append(ConnectionList, c)
        BY <1>5 DEF TakeConnection
      <3> QED BY <2>1, <2>3, <3>1, AppendProperties DEF Types
    <2> QED BY <1>1, <1>5, <2>1, <2>4 DEF TakeConnection, past, Types
  <1>6. CASE TakenElsewhere
    <2>1. {Head(inbox)} \in SUBSET Connection /\ Tail(inbox) \in Seq(Connection \cup {Shutdown})
      BY <1>6, InboxType DEF TakenElsewhere
    <2>2. Delete({Head(inbox)})
      BY <1>6 DEF TakenElsewhere
    <2> QED BY <1>1, <1>6, <2>1, <2>2, Deleted DEF TakenElsewhere, thread, Types
  <1>7. CASE ReceiveShutdown
    <2>1. Listed \in SUBSET Connection
      BY LenProperties, ListedType DEF Listed, Range, Types
    <2>2. Tail(inbox) \in Seq(Connection \cup {Shutdown}) /\ Delete(Listed)
      BY <1>7, InboxType DEF ReceiveShutdown
    <2>3. <<>> \in Seq(EntryType) /\ <<>> \in Seq(Connection)
      BY EmptySeq
    <2> QED BY <1>1, <1>7, <2>1, <2>2, <2>3, Deleted DEF ReceiveShutdown, Types, Place
  <1>8. CASE Poll
    <2>1. PollStruct' \in Seq(EntryType)
      <3> DEFINE c(j) == Owner(PollStruct[j].fd)
                 e(j) == [PollStruct[j] EXCEPT !.in = HasInput(c(j)), !.out = ~peer[c(j)].full]
      <3>1. PollStruct' = [j \in 1 .. Len(PollStruct) |-> e(j)]
        BY <1>8, LenProperties DEF Poll, Types
      <3>2. \A j \in 1 .. Len(PollStruct) : e(j) \in EntryType
        <4> TAKE j \in 1 .. Len(PollStruct)
        <4> DEFINE a == HasInput(c(j))
                   b == ~peer[c(j)].full
        <4>1. a \in BOOLEAN /\ b \in BOOLEAN /\ PollStruct[j] \in EntryType
          BY ListedType DEF HasInput
        <4> HIDE DEF a, b
        <4>2. [PollStruct[j] EXCEPT !.in = a, !.out = b] \in EntryType
          BY <4>1 DEF EntryType
        <4> QED BY <4>2 DEF a, b
      <3> HIDE DEF e
      <3>3. PollStruct' \in [1 .. Len(PollStruct) -> EntryType] /\ Len(PollStruct) \in Nat
        BY <3>1, <3>2, ListedType
      <3> QED BY <3>3, SeqDef
    <2>2. /\ ConnectionListIterator' = 1 /\ pc' = "visit" /\ visited' = {}
          /\ UNCHANGED <<inbox, ConnectionList, localConnections, conn, peer, reply, sent, missed>>
      BY <1>8 DEF Poll
    <2> QED BY <1>1, <2>1, <2>2 DEF Types, Place
  <1>9. CASE EndOfPass
    <2>1. PollStruct' \in Seq(EntryType)
      <3> DEFINE e(j) == Entry(PollStruct[j].fd)
      <3>1. PollStruct' = [j \in 1 .. Len(PollStruct) |-> e(j)]
        BY <1>9, LenProperties DEF EndOfPass, Types
      <3>2. \A j \in 1 .. Len(PollStruct) : e(j) \in EntryType
        BY ListedType DEF Entry, EntryType
      <3> HIDE DEF e
      <3>3. PollStruct' \in [1 .. Len(PollStruct) -> EntryType] /\ Len(PollStruct) \in Nat
        BY <3>1, <3>2, ListedType
      <3> QED BY <3>3, SeqDef
    <2>2. Listed \subseteq Connection
      BY LenProperties, ListedType DEF Listed, Range, Types
    <2>3. missed' \subseteq Connection /\ visited' \subseteq Connection
      BY <1>9, <2>2 DEF EndOfPass
    <2> QED BY <1>1, <1>9, <2>1, <2>3 DEF EndOfPass, Types, Place
  <1>10. CASE Receive \/ ReceiveError \/ Unresolvable \/ Answer \/ OpenFails
    BY <1>10, VisitTypes
  <1>11. CASE ReceiveEnd \/ TerminateIdle
    BY <1>2, <1>11, TerminationTypes DEF ReceiveEnd, TerminateIdle, Types
  <1>12. CASE Unopened
    <2>1. CASE TerminateConnection /\ AfterTermination
      BY <1>2, <1>12, <2>1, TerminationTypes DEF Unopened, Types
    <2>2. CASE ~(TerminateConnection /\ AfterTermination)
      BY <1>1, <1>12, <2>2 DEF Unopened, Types, Place
    <2> QED BY <2>1, <2>2
  <1>13. CASE SendBody
    <2>0. MaySend /\ HasBody /\ AtEntry
      BY <1>2, <1>13 DEF SendBody, MaySend
    <2>1. PICK n \in Nat : Piece(n)
      BY <1>13, Sending
    <2>2. Current \in Connection
      BY <2>0, CurrentType DEF Aligned
    <2>3. sent' \in [Connection -> Nat] /\ inbox' = inbox
      <3>1. sent' = [sent EXCEPT ![Current] = @ + n] /\ inbox' = inbox
        BY <2>1 DEF Piece
      <3> QED BY <2>2, <3>1 DEF Types
    <2>4. CASE n = conn[Current].BytesRemaining
      <3>1. TerminateConnection /\ AfterTermination
        BY <2>1, <2>4 DEF Piece
      <3> QED BY <2>0, <2>3, <3>1, TerminationTypes
    <2>5. CASE n # conn[Current].BytesRemaining
      <3>1. conn' \in [Connection -> ConnType]
        <4>1. \E r \in ConnType : conn' = [conn EXCEPT ![Current] = r]
          BY <2>0, <2>1, <2>5, PieceKept
        <4> QED BY <2>2, <4>1 DEF Types
      <3>2. peer' \in [Connection -> PeerType]
        <4>1. \E p \in PeerType : peer' = [peer EXCEPT ![Current] = p]
          BY <2>0, <2>1, <2>5, PieceKept
        <4> QED BY <2>2, <4>1 DEF Types
      <3>3. /\ pc' = "idle"
            /\ UNCHANGED <<ConnectionListIterator, ConnectionList, PollStruct, localConnections,
                           reply, visited, missed>>
        BY <2>1, <2>5 DEF Piece
      <3> QED BY <1>1, <2>3, <3>1, <3>2, <3>3 DEF Types, Place
    <2> QED BY <2>4, <2>5
  <1> QED
    BY <1>3, <1>4, <1>5, <1>6, <1>7, <1>8, <1>9, <1>10, <1>11, <1>12, <1>13 DEF Pass

LEMMA OutsideTypes ==
  ASSUME Types, UNCHANGED load,
         Tick \/ ShutdownServer \/ \E c \in Connection : Client(c)
  PROVE  Types'
  <1>1. ConnType' = ConnType /\ PeerType' = PeerType /\ ReplyType' = ReplyType /\ EntryType' = EntryType
    BY DEF ConnType, PeerType, ReplyType, EntryType, MaxBandwidth
  <1>2. /\ MaxBandwidth \in Nat /\ load.pieces \in Nat /\ IdleLimit \in Nat /\ MaxSize \in Nat
    BY LoadType, NetworkAssumption DEF Types
  <1>3. CASE Tick
    <2>1. ASSUME NEW c \in Connection PROVE conn'[c] \in ConnType
      <3> DEFINE r == conn[c]
                 age == Min({r.idle + 1, IdleLimit + 1})
      <3>1. r \in ConnType
        BY DEF Types
      <3>2. CASE Connected(c)
        <4>1. age \in 0 .. IdleLimit + 1
          <5>1. r.idle + 1 \in Int /\ r.idle \in 0 .. IdleLimit + 1
            BY <1>2, <3>1 DEF ConnType
          <5> QED BY <1>2, <5>1, MinTwo
        <4>2. conn'[c] = [r EXCEPT !.idle = age, !.bandReset = FALSE, !.BandwidthLeft = 0]
          BY <1>3, <3>2 DEF Tick
        <4> HIDE DEF r, age
        <4>3. [r EXCEPT !.idle = age, !.bandReset = FALSE, !.BandwidthLeft = 0] \in ConnType
          <5> DEFINE q == [r EXCEPT !.idle = age]
                     s == [q EXCEPT !.bandReset = FALSE]
          <5>1. q \in ConnType
            BY <1>2, <3>1, <4>1 DEF ConnType
          <5>2. s \in ConnType
            <6> HIDE DEF q
            <6> QED BY <1>2, <5>1 DEF ConnType
          <5>3. 0 \in 0 .. MaxBandwidth
            BY <1>2
          <5>4. [s EXCEPT !.BandwidthLeft = 0] \in ConnType
            <6> HIDE DEF s
            <6> QED BY <1>2, <5>2, <5>3 DEF ConnType
          <5> QED BY <5>4
        <4> QED BY <4>2, <4>3
      <3>3. CASE ~Connected(c)
        BY <1>3, <3>1, <3>3 DEF Tick
      <3> QED BY <3>2, <3>3
    <2>2. conn' \in [Connection -> ConnType]
      <3>1. conn' = [c \in Connection |-> conn'[c]]
        BY <1>3 DEF Tick
      <3> QED BY <2>1, <3>1
    <2>3. sent' \in [Connection -> Nat] /\ UNCHANGED <<thread, inbox, peer, reply, visited, missed>>
      BY <1>3 DEF Tick
    <2> QED BY <1>1, <2>2, <2>3 DEF thread, Types
  <1>4. CASE ShutdownServer
    <2>1. inbox' \in Seq(Connection \cup {Shutdown})
      BY <1>4, AppendProperties DEF ShutdownServer, Types
    <2> QED BY <1>1, <1>4, <2>1 DEF ShutdownServer, thread, past, Types
  <1>5. ASSUME NEW c \in Connection, Client(c) PROVE Types'
    <2> DEFINE p == peer[c]
    <2>0. p \in PeerType /\ conn[c] \in ConnType
      BY DEF Types
    <2>1. CASE Arrive(c)
      <3>1. conn' \in [Connection -> ConnType]
        <4>1. PICK fd \in Fd : conn' = [conn EXCEPT ![c] = [conn[c] EXCEPT !.fd = fd]]
          BY <2>1 DEF Arrive
        <4>2. [conn[c] EXCEPT !.fd = fd] \in ConnType
          BY <1>2, <2>0 DEF ConnType
        <4> QED BY <4>1, <4>2 DEF Types
      <3>2. peer' \in [Connection -> PeerType]
        <4>1. peer' = [peer EXCEPT ![c] = [p EXCEPT !.state = "up"]]
          BY <2>1 DEF Arrive
        <4>2. [p EXCEPT !.state = "up"] \in PeerType
          BY <2>0, FieldTypes DEF Types
        <4> QED BY <4>1, <4>2 DEF Types
      <3>3. inbox' \in Seq(Connection \cup {Shutdown})
        BY <2>1, AppendProperties DEF Arrive, Types
      <3> QED BY <1>1, <2>1, <3>1, <3>2, <3>3 DEF Arrive, thread, past, Types
    <2>2. CASE SendRequest(c)
      <3> PICK partial \in BOOLEAN :
            peer' = [peer EXCEPT ![c].unread = TRUE, ![c].partial = partial, ![c].pieces = @ + 1]
        BY <2>2 DEF SendRequest
      <3> DEFINE n == p.pieces
                 q == [[p EXCEPT !.unread = TRUE] EXCEPT !.partial = partial]
      <3>1. q \in PeerType
        <4>1. [p EXCEPT !.unread = TRUE] \in PeerType
          BY <2>0, FieldTypes DEF Types
        <4> QED BY <4>1, FieldTypes DEF Types
      <3>2. n + 1 \in 0 .. load.pieces
        <4>1. n \in 0 .. load.pieces /\ n < load.pieces
          BY <1>2, <2>0, <2>2 DEF SendRequest, PeerType
        <4> QED BY <1>2, <4>1
      <3>3. peer' = [peer EXCEPT ![c] = [q EXCEPT !.pieces = n + 1]]
        OBVIOUS
      <3> DEFINE to == n + 1
                 top == load.pieces
      <3>4. to \in 0 .. top /\ PeerType =
              [state : {"away", "up", "closed", "reset", "gone"}, unread : BOOLEAN, partial : BOOLEAN,
               pieces : 0 .. top, full : BOOLEAN, body : Seq(1 .. MaxSize)]
        BY <3>2 DEF PeerType
      <3> HIDE DEF q, to, top
      <3>5. [q EXCEPT !.pieces = to] \in PeerType
        BY <3>1, <3>4
      <3>6. peer' \in [Connection -> PeerType]
        BY <3>3, <3>5 DEF to, Types
      <3>7. UNCHANGED <<thread, inbox, conn, reply, past>>
        BY <2>2 DEF SendRequest
      <3> QED BY <1>1, <3>6, <3>7 DEF thread, past, Types
    <2>3. CASE ReadAnswer(c)
      <3>1. peer' = [peer EXCEPT ![c] = [p EXCEPT !.full = FALSE]]
        BY <2>3 DEF ReadAnswer
      <3>2. [p EXCEPT !.full = FALSE] \in PeerType
        BY <2>0, FieldTypes DEF Types
      <3>3. peer' \in [Connection -> PeerType]
        BY <3>1, <3>2 DEF Types
      <3> QED BY <1>1, <2>3, <3>3 DEF ReadAnswer, thread, past, Types
    <2>4. CASE HangUp(c)
      <3> DEFINE q(s, b) == [[[[p EXCEPT !.state = s] EXCEPT !.unread = b]
                                EXCEPT !.partial = FALSE] EXCEPT !.full = FALSE]
      <3>1. ASSUME NEW s \in {"closed", "reset"}, NEW b \in BOOLEAN
            PROVE  q(s, b) \in PeerType
        <4>1. [p EXCEPT !.state = s] \in PeerType
          BY <2>0, FieldTypes DEF Types
        <4>2. [[p EXCEPT !.state = s] EXCEPT !.unread = b] \in PeerType
          BY <4>1, FieldTypes DEF Types
        <4>3. [[[p EXCEPT !.state = s] EXCEPT !.unread = b] EXCEPT !.partial = FALSE] \in PeerType
          BY <4>2, FieldTypes DEF Types
        <4> QED BY <4>3, FieldTypes DEF Types
      <3>2. PICK s \in {"closed", "reset"}, b \in BOOLEAN :
              peer' = [peer EXCEPT ![c].state = s, ![c].unread = b, ![c].partial = FALSE, ![c].full = FALSE]
        BY <2>4 DEF HangUp
      <3>3. peer' = [peer EXCEPT ![c] = q(s, b)]
        BY <3>2
      <3> HIDE DEF q
      <3>4. peer' \in [Connection -> PeerType]
        BY <3>1, <3>3 DEF Types
      <3> QED BY <1>1, <2>4, <3>4 DEF HangUp, thread, past, Types
    <2>5. CASE SendRest(c)
      <3>1. peer' = [peer EXCEPT ![c] = [p EXCEPT !.partial = FALSE]]
        BY <2>5 DEF SendRest
      <3>2. [p EXCEPT !.partial = FALSE] \in PeerType
        BY <2>0, FieldTypes DEF Types
      <3>3. peer' \in [Connection -> PeerType]
        BY <3>1, <3>2 DEF Types
      <3> QED BY <1>1, <2>5, <3>3 DEF SendRest, thread, past, Types
    <2> QED BY <1>5, <2>1, <2>2, <2>3, <2>4, <2>5 DEF Client
  <1> QED BY <1>3, <1>4, <1>5

--------------------------------------------------------------------------------
(* Every step keeps the sockets and the places *)

Sockets == OwnSockets /\ Places /\ Aligned

\* Nothing moves: the clients keep their sockets and the connections their places.
Unmoved ==
  /\ \A c \in Connection :
       /\ conn'[c].fd = conn[c].fd
       /\ peer'[c].state = "away" => conn'[c] = conn[c] /\ peer[c].state = "away"
  /\ UNCHANGED <<ConnectionList, localConnections>>
  /\ Len(PollStruct') = Len(PollStruct)
  /\ \A j \in 1 .. Len(PollStruct) : PollStruct'[j].fd = PollStruct[j].fd

LEMMA UnmovedSockets ==
  ASSUME Types, Sockets, Unmoved, inbox' = inbox \/ inbox' = Append(inbox, Shutdown)
  PROVE  Sockets'
  <1>1. OwnSockets'
    BY DEF Sockets, OwnSockets, Unmoved
  <1>2. /\ \A j \in 1 .. Len(ConnectionList) :
             ConnectionList[j] \in Connection /\ conn'[ConnectionList[j]].fd = conn[ConnectionList[j]].fd
        /\ Len(ConnectionList) \in Nat /\ Len(inbox) \in Nat
        /\ \A j \in 1 .. Len(inbox) : inbox[j] \in Connection \cup {Shutdown}
    BY ListedType DEF Unmoved
  <1>3. Aligned'
    BY <1>2 DEF Sockets, Aligned, Unmoved
  <1>4. \/ inbox' = inbox
        \/ /\ Len(inbox') = Len(inbox) + 1 /\ inbox'[Len(inbox) + 1] = Shutdown
           /\ \A j \in 1 .. Len(inbox) : inbox'[j] = inbox[j]
    <2>1. inbox \in Seq(Connection \cup {Shutdown}) /\ Shutdown \in Connection \cup {Shutdown}
      BY DEF Types
    <2>2. /\ Len(Append(inbox, Shutdown)) = Len(inbox) + 1
          /\ Append(inbox, Shutdown)[Len(inbox) + 1] = Shutdown
          /\ \A j \in 1 .. Len(inbox) : Append(inbox, Shutdown)[j] = inbox[j]
      BY <2>1, AppendProperties
    <2> QED BY <2>2
  <1>5. \A j \in 1 .. Len(inbox') :
          \/ j \in 1 .. Len(inbox) /\ inbox'[j] = inbox[j]
          \/ inbox'[j] = Shutdown
    BY <1>2, <1>4
  <1>6. Shutdown \notin Connection
    BY NetworkAssumption
  <1>7. \A j \in 1 .. Len(inbox') : inbox'[j] # Shutdown => conn'[inbox'[j]].fd # NoFd
    <2> TAKE j \in 1 .. Len(inbox')
    <2> HAVE inbox'[j] # Shutdown
    <2>1. j \in 1 .. Len(inbox) /\ inbox'[j] = inbox[j] /\ inbox[j] \in Connection
      BY <1>2, <1>5
    <2> QED BY <2>1 DEF Sockets, Places, Unmoved
  <1>8. \A j, k \in 1 .. Len(inbox') : inbox'[j] = inbox'[k] => j = k \/ inbox'[j] = Shutdown
    <2> TAKE j, k \in 1 .. Len(inbox')
    <2> QED BY <1>5 DEF Sockets, Places
  <1>9. \A j \in 1 .. Len(inbox'), k \in 1 .. Len(ConnectionList) : inbox'[j] # ConnectionList[k]
    BY <1>2, <1>5, <1>6 DEF Sockets, Places
  <1>10. Places'
    BY <1>2, <1>7, <1>8, <1>9 DEF Sockets, Places, Unmoved
  <1> QED BY <1>1, <1>3, <1>10 DEF Sockets

\* A deleted connection has no socket, the others keep theirs.
LEMMA DeletedSockets ==
  ASSUME Types, OwnSockets, NEW gone \in SUBSET Connection, Delete(gone)
  PROVE  /\ OwnSockets'
         /\ \A c \in Connection \ gone : conn'[c] = conn[c] /\ peer'[c] = peer[c]
         /\ \A c \in gone : conn'[c] = NewConnection /\ peer'[c] = Peer("gone")
  <1>1. /\ \A c \in Connection \ gone : conn'[c] = conn[c] /\ peer'[c] = peer[c]
        /\ \A c \in gone : conn'[c] = NewConnection /\ peer'[c] = Peer("gone")
    BY DEF Delete
  <1>2. NewConnection.fd = NoFd /\ Peer("gone").state # "away"
    BY DEF NewConnection, Peer
  <1>3. \A c, d \in Connection : conn'[c].fd = conn'[d].fd => c = d \/ conn'[c].fd = NoFd
    BY <1>1, <1>2 DEF OwnSockets
  <1>4. \A c \in Connection : peer'[c].state = "away" => conn'[c] = NewConnection
    BY <1>1, <1>2 DEF OwnSockets
  <1> QED BY <1>1, <1>3, <1>4 DEF OwnSockets

LEMMA TerminationSockets ==
  ASSUME Types, Sockets, AtEntry, inbox' = inbox, TerminateConnection
  PROVE  Sockets'
  <1>1. Shortened
    BY Terminated DEF Sockets
  <1>2. Current \in Connection /\ Delete({Current})
    BY CurrentType DEF Sockets, Aligned, TerminateConnection
  <1>3. /\ OwnSockets'
        /\ \A c \in Connection \ {Current} : conn'[c] = conn[c]
    BY <1>2, DeletedSockets DEF Sockets
  <1>4. /\ Len(ConnectionList) \in Nat /\ Len(PollStruct) = Len(ConnectionList)
        /\ Len(ConnectionList') = Len(ConnectionList) - 1
        /\ \A j \in 1 .. Len(ConnectionList) : ConnectionList[j] \in Connection
        /\ \A j \in 1 .. Len(inbox) : inbox[j] \in Connection \cup {Shutdown}
    BY <1>1, ListedType DEF Shortened, Sockets, Aligned
  <1>5. \A j \in 1 .. Len(ConnectionList') :
          /\ Formerly(j) \in 1 .. Len(ConnectionList)
          /\ ConnectionList'[j] = ConnectionList[Formerly(j)]
          /\ PollStruct'[j] = PollStruct[Formerly(j)]
          /\ Formerly(j) # ConnectionListIterator
    BY <1>1, <1>4 DEF Shortened, Formerly, AtEntry
  <1>6. \A j, k \in 1 .. Len(ConnectionList') : Formerly(j) = Formerly(k) => j = k
    BY <1>4 DEF Formerly, AtEntry
  <1>7. \A j \in 1 .. Len(ConnectionList') : ConnectionList'[j] \in Connection \ {Current}
    <2> TAKE j \in 1 .. Len(ConnectionList')
    <2>1. ConnectionList[Formerly(j)] # Current
      BY <1>5 DEF Sockets, Places, Current, AtEntry
    <2> QED BY <1>4, <1>5, <2>1
  <1>8. Aligned'
    <2>1. \A j \in 1 .. Len(ConnectionList') : PollStruct'[j].fd = conn'[ConnectionList'[j]].fd
      BY <1>3, <1>5, <1>7 DEF Sockets, Aligned
    <2> QED BY <1>1, <1>4, <2>1 DEF Aligned, Shortened
  <1>9. Places'
    <2>1. \A j \in 1 .. Len(inbox) : inbox[j] # Shutdown => conn'[inbox[j]].fd # NoFd
      <3> TAKE j \in 1 .. Len(inbox)
      <3> HAVE inbox[j] # Shutdown
      <3>1. inbox[j] \in Connection /\ inbox[j] # Current
        BY <1>4 DEF Sockets, Places, Current, AtEntry
      <3> QED BY <1>3, <3>1 DEF Sockets, Places
    <2>2. \A j \in 1 .. Len(ConnectionList') : conn'[ConnectionList'[j]].fd # NoFd
      BY <1>3, <1>5, <1>7 DEF Sockets, Places
    <2>3. \A j, k \in 1 .. Len(ConnectionList') : ConnectionList'[j] = ConnectionList'[k] => j = k
      BY <1>5, <1>6 DEF Sockets, Places
    <2>4. \A j \in 1 .. Len(inbox), k \in 1 .. Len(ConnectionList') : inbox[j] # ConnectionList'[k]
      BY <1>5 DEF Sockets, Places
    <2> QED BY <2>1, <2>2, <2>3, <2>4 DEF Sockets, Places
  <1> QED BY <1>3, <1>8, <1>9 DEF Sockets

\* A connection leaves the inbox, for the list or for good.
LEMMA TakenSockets ==
  ASSUME Types, Sockets, TakeConnection \/ TakenElsewhere \/ ReceiveShutdown
  PROVE  Sockets'
  <1>1. /\ Head(inbox) = inbox[1] /\ inbox' = Tail(inbox)
        /\ Len(inbox) \in Nat \ {0} /\ Len(inbox') = Len(inbox) - 1
        /\ \A j \in 1 .. Len(inbox') : inbox'[j] = inbox[j + 1]
        /\ Head(inbox) \in Connection \cup {Shutdown}
    BY InboxType DEF TakeConnection, TakenElsewhere, ReceiveShutdown
  <1>2. /\ Len(ConnectionList) \in Nat /\ Len(PollStruct) = Len(ConnectionList)
        /\ \A j \in 1 .. Len(ConnectionList) : ConnectionList[j] \in Connection
        /\ \A j \in 1 .. Len(inbox) : inbox[j] \in Connection \cup {Shutdown}
    BY ListedType DEF Sockets, Aligned
  <1>3. \A j \in 1 .. Len(inbox') :
          /\ j + 1 \in 1 .. Len(inbox) /\ inbox'[j] = inbox[j + 1]
          /\ inbox'[j] # Shutdown => inbox'[j] # inbox[1]
    <2> TAKE j \in 1 .. Len(inbox')
    <2>1. j + 1 \in 1 .. Len(inbox) /\ inbox'[j] = inbox[j + 1] /\ 1 \in 1 .. Len(inbox) /\ j + 1 # 1
      BY <1>1
    <2> QED BY <2>1 DEF Sockets, Places
  <1>4. \A j, k \in 1 .. Len(inbox') : inbox'[j] = inbox'[k] => j = k \/ inbox'[j] = Shutdown
    <2> TAKE j, k \in 1 .. Len(inbox')
    <2>1. inbox[j + 1] = inbox[k + 1] => j + 1 = k + 1 \/ inbox[j + 1] = Shutdown
      BY <1>3 DEF Sockets, Places
    <2> QED BY <1>1, <1>3, <2>1
  <1>5. CASE TakeConnection
    <2> DEFINE c == Head(inbox)
               n == Len(ConnectionList)
    <2>1. /\ c \in Connection /\ conn' = conn /\ peer' = peer
          /\ ConnectionList' = Append(ConnectionList, c)
          /\ PollStruct' = Append(PollStruct, Entry(conn[c].fd))
          /\ localConnections' = localConnections + 1
      BY <1>1, <1>5 DEF TakeConnection
    <2>2. /\ Len(ConnectionList') = n + 1 /\ ConnectionList'[n + 1] = c
          /\ \A j \in 1 .. n : ConnectionList'[j] = ConnectionList[j]
      BY <2>1, AppendProperties DEF Types
    <2>3. /\ Len(PollStruct') = n + 1 /\ PollStruct'[n + 1].fd = conn[c].fd
          /\ \A j \in 1 .. n : PollStruct'[j] = PollStruct[j]
      <3>1. conn[c].fd \in Fd
        <4>1. conn[c].fd # NoFd
          BY <1>1, <1>5, <2>1, NetworkAssumption DEF Sockets, Places, TakeConnection
        <4> QED BY <2>1, <4>1 DEF Types, ConnType
      <3>2. Entry(conn[c].fd) \in EntryType
        BY <3>1 DEF Entry, EntryType
      <3>3. Entry(conn[c].fd).fd = conn[c].fd
        BY DEF Entry
      <3> QED BY <1>2, <2>1, <3>2, <3>3, AppendProperties DEF Types
    <2>4. c = inbox[1] /\ c # Shutdown /\ 1 \in 1 .. Len(inbox)
      BY <1>1, <1>5 DEF TakeConnection
    <2>5. \A j \in 1 .. n + 1 : j \in 1 .. n \/ j = n + 1
      BY <1>2
    <2>6. Aligned'
      <3>1. localConnections' = n + 1
        BY <2>1 DEF Sockets, Aligned
      <3>2. \A j \in 1 .. n + 1 : PollStruct'[j].fd = conn'[ConnectionList'[j]].fd
        BY <2>1, <2>2, <2>3, <2>5 DEF Sockets, Aligned
      <3> QED BY <2>2, <2>3, <3>1, <3>2 DEF Aligned
    <2>7. Places'
      <3>1. \A j \in 1 .. Len(inbox') : inbox'[j] # Shutdown => conn'[inbox'[j]].fd # NoFd
        BY <1>3, <2>1 DEF Sockets, Places
      <3>2. \A j \in 1 .. n + 1 : conn'[ConnectionList'[j]].fd # NoFd
        BY <2>1, <2>2, <2>4, <2>5 DEF Sockets, Places
      <3>3. \A j \in 1 .. n : ConnectionList[j] # c
        BY <2>4 DEF Sockets, Places
      <3>4. \A j, k \in 1 .. n + 1 : ConnectionList'[j] = ConnectionList'[k] => j = k
        BY <2>2, <2>5, <3>3 DEF Sockets, Places
      <3>5. \A j \in 1 .. Len(inbox'), k \in 1 .. n + 1 : inbox'[j] # ConnectionList'[k]
        <4> TAKE j \in 1 .. Len(inbox'), k \in 1 .. n + 1
        <4>1. CASE k \in 1 .. n
          BY <1>3, <2>2, <4>1 DEF Sockets, Places
        <4>2. CASE k = n + 1
          BY <1>3, <2>2, <2>4, <4>2
        <4> QED BY <2>5, <4>1, <4>2
      <3> QED BY <1>4, <2>2, <3>1, <3>2, <3>4, <3>5 DEF Places
    <2>8. OwnSockets'
      BY <2>1 DEF Sockets, OwnSockets
    <2> QED BY <2>6, <2>7, <2>8 DEF Sockets
  <1>6. CASE TakenElsewhere
    <2> DEFINE c == Head(inbox)
    <2>1. /\ c \in Connection /\ Delete({c}) /\ c = inbox[1] /\ 1 \in 1 .. Len(inbox)
          /\ UNCHANGED <<ConnectionList, PollStruct, localConnections>>
      BY <1>1, <1>6 DEF TakenElsewhere, thread
    <2>2. OwnSockets' /\ \A d \in Connection \ {c} : conn'[d] = conn[d]
      BY <2>1, DeletedSockets DEF Sockets
    <2>3. \A j \in 1 .. Len(ConnectionList) : ConnectionList[j] \in Connection \ {c}
      BY <1>2, <2>1 DEF Sockets, Places
    <2>4. Aligned'
      BY <2>1, <2>2, <2>3 DEF Sockets, Aligned
    <2>5. \A j \in 1 .. Len(inbox') : inbox'[j] # Shutdown => conn'[inbox'[j]].fd # NoFd
      <3> TAKE j \in 1 .. Len(inbox')
      <3> HAVE inbox'[j] # Shutdown
      <3>1. inbox'[j] \in Connection \ {c}
        BY <1>2, <1>3, <2>1
      <3> QED BY <1>3, <2>2, <3>1 DEF Sockets, Places
    <2>6. \A j \in 1 .. Len(inbox'), k \in 1 .. Len(ConnectionList) : inbox'[j] # ConnectionList[k]
      BY <1>3 DEF Sockets, Places
    <2>7. \A j \in 1 .. Len(ConnectionList) : conn'[ConnectionList[j]].fd # NoFd
      BY <2>2, <2>3 DEF Sockets, Places
    <2>8. Places'
      BY <1>4, <2>1, <2>5, <2>6, <2>7 DEF Sockets, Places
    <2> QED BY <2>2, <2>4, <2>8 DEF Sockets
  <1>7. CASE ReceiveShutdown
    <2>1. /\ Delete(Listed) /\ localConnections' = 0
          /\ ConnectionList' = <<>> /\ PollStruct' = <<>>
      BY <1>7 DEF ReceiveShutdown
    <2>2. Len(ConnectionList') = 0 /\ Len(PollStruct') = 0
      BY <2>1, EmptySeq
    <2>3. Listed = {ConnectionList[k] : k \in 1 .. Len(ConnectionList)}
      BY LenProperties DEF Listed, Range, Types
    <2>4. OwnSockets' /\ \A d \in Connection \ Listed : conn'[d] = conn[d]
      BY <1>2, <2>1, <2>3, DeletedSockets DEF Sockets
    <2>5. \A j \in 1 .. Len(inbox') : inbox'[j] # Shutdown => conn'[inbox'[j]].fd # NoFd
      <3> TAKE j \in 1 .. Len(inbox')
      <3> HAVE inbox'[j] # Shutdown
      <3>1. inbox'[j] \in Connection \ Listed
        BY <1>2, <1>3, <2>3 DEF Sockets, Places
      <3> QED BY <1>3, <2>4, <3>1 DEF Sockets, Places
    <2>6. Places'
      BY <1>4, <2>2, <2>5 DEF Places
    <2>7. Aligned'
      BY <2>1, <2>2 DEF Aligned
    <2> QED BY <2>4, <2>6, <2>7 DEF Sockets
  <1> QED BY <1>5, <1>6, <1>7

\* A client that comes gets a socket that nobody has, and waits in the inbox.
LEMMA ArrivalSockets ==
  ASSUME Types, Sockets, NEW c \in Connection, Arrive(c)
  PROVE  Sockets'
  <1>1. /\ Len(ConnectionList) \in Nat /\ Len(inbox) \in Nat
        /\ \A j \in 1 .. Len(ConnectionList) : ConnectionList[j] \in Connection
        /\ \A j \in 1 .. Len(inbox) : inbox[j] \in Connection \cup {Shutdown}
    BY ListedType
  <1>2. conn[c].fd = NoFd /\ conn[c] \in ConnType
    BY DEF Arrive, Sockets, OwnSockets, NewConnection, Types
  <1>3. PICK fd \in Fd \ {conn[d].fd : d \in Connection} : conn' = [conn EXCEPT ![c].fd = fd]
    BY DEF Arrive
  <1>4. conn'[c].fd = fd /\ \A d \in Connection \ {c} : conn'[d] = conn[d]
    BY <1>2, <1>3 DEF Types, ConnType
  <1>5. fd # NoFd /\ \A d \in Connection : conn[d].fd # fd
    BY <1>3, NetworkAssumption
  <1>6. /\ \A d \in Connection \ {c} : peer'[d] = peer[d]
        /\ peer'[c].state = "up"
    BY DEF Arrive, Types, PeerType
  <1>7. OwnSockets'
    <2>1. \A d, e \in Connection : conn'[d].fd = conn'[e].fd => d = e \/ conn'[d].fd = NoFd
      BY <1>4, <1>5 DEF Sockets, OwnSockets
    <2>2. \A d \in Connection : peer'[d].state = "away" => conn'[d] = NewConnection
      BY <1>4, <1>6 DEF Sockets, OwnSockets
    <2> QED BY <2>1, <2>2 DEF OwnSockets
  <1>8. UNCHANGED <<ConnectionList, PollStruct, localConnections>> /\ inbox' = Append(inbox, c)
    BY DEF Arrive, thread
  <1>9. \A j \in 1 .. Len(ConnectionList) : ConnectionList[j] \in Connection \ {c}
    BY <1>1, <1>2 DEF Sockets, Places
  <1>10. Aligned'
    BY <1>4, <1>8, <1>9 DEF Sockets, Aligned
  <1>11. /\ Len(inbox') = Len(inbox) + 1 /\ inbox'[Len(inbox) + 1] = c
         /\ \A j \in 1 .. Len(inbox) : inbox'[j] = inbox[j]
    BY <1>8, AppendProperties DEF Types
  <1>12. \A j \in 1 .. Len(inbox') :
           \/ j \in 1 .. Len(inbox) /\ inbox'[j] = inbox[j] /\ inbox[j] # c
           \/ j = Len(inbox) + 1 /\ inbox'[j] = c
    <2>1. \A j \in 1 .. Len(inbox) : inbox[j] # c
      BY <1>2, NetworkAssumption DEF Sockets, Places
    <2> QED BY <1>1, <1>11, <2>1
  <1>13. Places'
    <2>1. \A j \in 1 .. Len(inbox') : inbox'[j] # Shutdown => conn'[inbox'[j]].fd # NoFd
      <3> TAKE j \in 1 .. Len(inbox')
      <3> HAVE inbox'[j] # Shutdown
      <3>1. CASE inbox'[j] = c
        BY <1>4, <1>5, <3>1
      <3>2. CASE inbox'[j] # c
        <4>1. j \in 1 .. Len(inbox) /\ inbox'[j] = inbox[j] /\ inbox[j] \in Connection \ {c}
          BY <1>1, <1>12, <3>2
        <4> QED BY <1>4, <4>1 DEF Sockets, Places
      <3> QED BY <3>1, <3>2
    <2>2. \A j, k \in 1 .. Len(inbox') : inbox'[j] = inbox'[k] => j = k \/ inbox'[j] = Shutdown
      BY <1>12 DEF Sockets, Places
    <2>3. \A j \in 1 .. Len(inbox'), k \in 1 .. Len(ConnectionList) : inbox'[j] # ConnectionList[k]
      BY <1>9, <1>12 DEF Sockets, Places
    <2>4. \A j \in 1 .. Len(ConnectionList) : conn'[ConnectionList[j]].fd # NoFd
      BY <1>4, <1>9 DEF Sockets, Places
    <2> QED BY <1>8, <2>1, <2>2, <2>3, <2>4 DEF Sockets, Places
  <1> QED BY <1>7, <1>10, <1>13 DEF Sockets

\* The kinds of steps.
Terminates ==
  /\ pc \in {"visit", "out", "idle", "unopened"} /\ AtEntry
  /\ TerminateConnection /\ AfterTermination
  /\ inbox' = inbox
Takes == TakeConnection \/ TakenElsewhere \/ ReceiveShutdown
Answering == Receive \/ ReceiveError \/ Unresolvable \/ Answer \/ OpenFails
Moves ==
  \/ LoopHead \/ NoConnections \/ Poll \/ EndOfPass \/ NothingToRead
  \/ NothingToSend \/ BrokenPipe \/ KeepConnection
  \/ Unopened /\ pc' = "crashed"
Outside == Tick \/ ShutdownServer \/ \E c \in Connection : Client(c)

LEMMA EndsAtEntry ==
  ASSUME Types, AtAnEntry, ReceiveEnd \/ TerminateIdle \/ (Unopened /\ pc' # "crashed")
  PROVE  Terminates /\ sent' = sent
  <1>1. CASE ReceiveEnd
    BY <1>1, ListedType DEF ReceiveEnd, Visiting, Terminates, AtEntry, Types
  <1>2. CASE TerminateIdle
    BY <1>2 DEF TerminateIdle, Terminates, AtEntry, AtAnEntry
  <1>3. CASE Unopened /\ pc' # "crashed"
    BY <1>3 DEF Unopened, Terminates, AtEntry, AtAnEntry
  <1> QED BY <1>1, <1>2, <1>3

\* What sending is: the last piece, which ends the connection, or another one.
LEMMA SendKinds ==
  ASSUME Types, Aligned, AtAnEntry, SendBody
  PROVE  /\ MaySend /\ HasBody /\ AtEntry
         /\ \E n \in Nat :
              /\ Piece(n)
              /\ n # conn[Current].BytesRemaining \/ Terminates
  <1>1. MaySend /\ HasBody /\ AtEntry
    BY DEF SendBody, MaySend, AtAnEntry, AtEntry
  <1>2. PICK n \in Nat : Piece(n)
    BY Sending
  <1>3. n # conn[Current].BytesRemaining \/ Terminates
    BY <1>1, <1>2 DEF Piece, Terminates, MaySend
  <1> QED BY <1>1, <1>2, <1>3

\* Poll and the end of a pass leave the sockets in PollStruct.
LEMMA PolledSockets ==
  ASSUME Types, Poll \/ EndOfPass
  PROVE  /\ Len(PollStruct') = Len(PollStruct)
         /\ \A j \in 1 .. Len(PollStruct) : PollStruct'[j].fd = PollStruct[j].fd
  <1>1. /\ DOMAIN PollStruct = 1 .. Len(PollStruct) /\ Len(PollStruct) \in Nat
        /\ \A j \in 1 .. Len(PollStruct) : PollStruct[j] \in EntryType
    BY LenProperties, ListedType DEF Types
  <1>2. ASSUME NEW j \in 1 .. Len(PollStruct) PROVE PollStruct'[j].fd = PollStruct[j].fd
    <2> DEFINE c == Owner(PollStruct[j].fd)
               e == PollStruct[j]
    <2>1. CASE Poll
      <3> DEFINE a == HasInput(c)
                 b == ~peer[c].full
      <3>1. PollStruct'[j] = [e EXCEPT !.in = a, !.out = b]
        BY <1>1, <2>1 DEF Poll
      <3> HIDE DEF a, b
      <3>2. [e EXCEPT !.in = a, !.out = b].fd = e.fd
        BY <1>1 DEF EntryType
      <3> QED BY <3>1, <3>2
    <2>2. CASE EndOfPass
      BY <1>1, <2>2 DEF EndOfPass, Entry
    <2> QED BY <2>1, <2>2
  <1>3. DOMAIN PollStruct' = DOMAIN PollStruct
    BY DEF Poll, EndOfPass
  <1>4. Len(PollStruct') = Len(PollStruct)
    BY <1>1, <1>3
  <1> QED BY <1>2, <1>4

\* A visited connection keeps its socket.
LEMMA AnsweringUnmoved ==
  ASSUME Types, Sockets, AtAnEntry, Streaming, Answering
  PROVE  Unmoved /\ inbox' = inbox
  <1>1. AtEntry
    <2>1. Visiting => AtEntry
      BY ListedType DEF Visiting, AtEntry, Types
    <2>2. MaySend => AtEntry
      BY DEF MaySend, AtAnEntry, AtEntry
    <2> QED BY <2>1, <2>2 DEF Answering, Receive, ReceiveError, Unresolvable, Answer, OpenFails
  <1>2. Current \in Connection /\ conn[Current] \in ConnType /\ peer[Current] \in PeerType
    BY <1>1, CurrentType DEF Sockets, Aligned
  <1>3. UNCHANGED <<inbox, ConnectionList, PollStruct, localConnections>>
    BY DEF Answering, Receive, ReceiveError, Received, Unresolvable, Answer, OpenFails
  <1>4. peer[Current].state # "away"
    <2>1. conn[Current].fd # NoFd
      BY <1>1 DEF Sockets, Places, Current, AtEntry
    <2> QED BY <1>2, <2>1 DEF Sockets, OwnSockets, NewConnection
  <1>5. /\ \A c \in Connection \ {Current} : peer'[c] = peer[c]
        /\ peer'[Current].state # "away"
    <2>1. CASE Receive
      BY <1>2, <1>4, <2>1 DEF Receive, Types, PeerType
    <2>2. CASE ReceiveError
      BY <1>2, <2>2 DEF ReceiveError, Types, PeerType
    <2>3. CASE Unresolvable \/ OpenFails
      BY <1>4, <2>3 DEF Unresolvable, OpenFails
    <2>4. CASE Answer
      BY <1>2, <1>4, <2>4 DEF Answer, Types, PeerType
    <2> QED BY <2>1, <2>2, <2>3, <2>4 DEF Answering
  <1>6. /\ \A c \in Connection \ {Current} : conn'[c] = conn[c]
        /\ conn'[Current].fd = conn[Current].fd
    <2>1. CASE Receive \/ ReceiveError
      <3>1. PICK path \in {TRUE, conn[Current].Resource} :
              conn' = [conn EXCEPT ![Current].Resource = path, ![Current].idle = 0]
        BY <2>1 DEF Receive, ReceiveError, Received
      <3> QED BY <1>2, <3>1 DEF Types, ConnType
    <2>2. CASE Unresolvable
      <3>1. PICK size \in 1 .. MaxSize :
              conn' = [conn EXCEPT ![Current] = Prepared(conn[Current], Reply("404", size))]
        BY <2>2 DEF Unresolvable
      <3> QED BY <1>2, <3>1 DEF Types, ConnType, Prepared
    <2>3. CASE Answer
      <3>1. PICK answer \in Answers, idle \in 0 .. IdleLimit + 1 :
              conn' = [conn EXCEPT ![Current] = [Prepared(conn[Current], answer) EXCEPT !.idle = idle]]
        <4>1. conn[Current].idle \in 0 .. IdleLimit + 1 /\ 0 \in 0 .. IdleLimit + 1
          BY <1>2, NetworkAssumption DEF ConnType
        <4>2. \A ok : IdleAfter(ok, conn[Current].idle) \subseteq 0 .. IdleLimit + 1
          BY <4>1 DEF IdleAfter
        <4> QED BY <2>3, <4>2 DEF Answer
      <3> DEFINE q == Prepared(conn[Current], answer)
      <3>2. q \in ConnType /\ q.fd = conn[Current].fd
        <4>1. answer \in ReplyType
          BY <3>1, AnswersType
        <4>2. q \in ConnType
          BY <1>2, <4>1, PreparedType DEF Types
        <4>3. q.fd = conn[Current].fd
          BY <1>2 DEF Prepared, ConnType
        <4> QED BY <4>2, <4>3
      <3> HIDE DEF q
      <3>3. [q EXCEPT !.idle = idle].fd = q.fd
        BY <3>2 DEF ConnType
      <3> QED BY <1>2, <3>1, <3>2, <3>3, Zenon DEF Types, q
    <2>4. CASE OpenFails
      BY <1>2, <2>4 DEF OpenFails, Types, ConnType
    <2> QED BY <2>1, <2>2, <2>3, <2>4 DEF Answering
  <1> QED BY <1>2, <1>3, <1>4, <1>5, <1>6 DEF Unmoved

\* A piece that is not the last, and the connection it is sent to afterwards.
LEMMA PieceUnmoved ==
  ASSUME Types, Sockets, AtAnEntry, Streaming, MaySend, HasBody,
         NEW n \in Nat, Piece(n), n # conn[Current].BytesRemaining
  PROVE  /\ Unmoved /\ inbox' = inbox
         /\ \A c \in Connection \ {Current} : conn'[c] = conn[c] /\ peer'[c] = peer[c]
         /\ peer'[Current].state = peer[Current].state
         /\ peer'[Current].body = [k \in 1 .. conn[Current].position + n |-> k]
         /\ Len(peer'[Current].body) = conn[Current].position + n
         /\ conn'[Current].position = conn[Current].position + n
         /\ conn'[Current].BytesRemaining = conn[Current].BytesRemaining - n
         /\ conn'[Current].FileStream = conn[Current].FileStream
         /\ conn'[Current].SendBuffer = conn[Current].SendBuffer
         /\ conn'[Current].bandReset = Charged(conn[Current]).bandReset
         /\ conn'[Current].BandwidthLeft = Charged(conn[Current]).BandwidthLeft
  <1> DEFINE r == conn[Current]
             q == Charged(r)
             to == r.position + n
             rest == r.BytesRemaining - n
             whole == [k \in 1 .. to |-> k]
  <1>1. AtEntry
    BY DEF MaySend, AtAnEntry, AtEntry
  <1>2. Current \in Connection /\ r \in ConnType /\ peer[Current] \in PeerType
    BY <1>1, CurrentType DEF Sockets, Aligned
  <1>3. UNCHANGED <<inbox, ConnectionList, PollStruct, localConnections>>
    BY DEF Piece
  <1>4. /\ q \in ConnType
        /\ q.fd = r.fd /\ q.FileStream = r.FileStream /\ q.SendBuffer = r.SendBuffer
    <2>1. /\ q \in ConnType
          /\ q = [r EXCEPT !.bandReset = q.bandReset, !.BandwidthLeft = q.BandwidthLeft]
      BY <1>1, Charging DEF Sockets
    <2> HIDE DEF q
    <2> QED BY <1>2, <2>1 DEF ConnType
  <1>5. /\ to \in 0 .. MaxSize
        /\ \E full \in BOOLEAN :
             /\ [peer[Current] EXCEPT !.full = full, !.body = whole] \in PeerType
             /\ peer' = [peer EXCEPT ![Current] =
                          [peer[Current] EXCEPT !.full = full, !.body = whole]]
        /\ \E idle \in 0 .. IdleLimit + 1 :
             conn' = [conn EXCEPT ![Current] =
               [q EXCEPT !.position = to, !.BytesRemaining = rest, !.idle = idle]]
    BY PieceKept DEF Sockets
  <1>6. Len(whole) = to
    <2>1. /\ to \in Nat /\ MaxSize \in Nat
          /\ whole \in [1 .. to -> 1 .. MaxSize]
      BY <1>5, NetworkAssumption
    <2>2. whole \in Seq(1 .. MaxSize) /\ DOMAIN whole = 1 .. to
      BY <2>1, SeqDef
    <2> HIDE DEF whole
    <2> QED BY <2>1, <2>2, LenProperties
  <1> HIDE DEF q, to, rest, whole
  <1>7. /\ \A c \in Connection \ {Current} : peer'[c] = peer[c]
        /\ peer'[Current].state = peer[Current].state
        /\ peer'[Current].body = whole
    <2>1. PICK full \in BOOLEAN :
            peer' = [peer EXCEPT ![Current] =
                      [peer[Current] EXCEPT !.full = full, !.body = whole]]
      BY <1>5
    <2> DEFINE p == peer[Current]
    <2>2. /\ [p EXCEPT !.full = full, !.body = whole].state = p.state
          /\ [p EXCEPT !.full = full, !.body = whole].body = whole
      BY <1>2 DEF PeerType
    <2> HIDE DEF p
    <2>3. peer' = [peer EXCEPT ![Current] = [p EXCEPT !.full = full, !.body = whole]]
      BY <2>1 DEF p
    <2>4. /\ peer'[Current] = [p EXCEPT !.full = full, !.body = whole]
          /\ \A c \in Connection \ {Current} : peer'[c] = peer[c]
      BY <1>2, <2>3 DEF Types
    <2> QED BY <2>2, <2>4 DEF p
  <1>8. /\ \A c \in Connection \ {Current} : conn'[c] = conn[c]
        /\ conn'[Current].fd = q.fd /\ conn'[Current].FileStream = q.FileStream
        /\ conn'[Current].SendBuffer = q.SendBuffer
        /\ conn'[Current].position = to /\ conn'[Current].BytesRemaining = rest
        /\ conn'[Current].bandReset = q.bandReset
        /\ conn'[Current].BandwidthLeft = q.BandwidthLeft
    <2>1. PICK idle \in 0 .. IdleLimit + 1 :
            conn' = [conn EXCEPT ![Current] =
              [q EXCEPT !.position = to, !.BytesRemaining = rest, !.idle = idle]]
      BY <1>5
    <2> DEFINE s == [q EXCEPT !.position = to, !.BytesRemaining = rest, !.idle = idle]
    <2>2. /\ s.fd = q.fd /\ s.FileStream = q.FileStream /\ s.SendBuffer = q.SendBuffer
          /\ s.position = to /\ s.BytesRemaining = rest
          /\ s.bandReset = q.bandReset /\ s.BandwidthLeft = q.BandwidthLeft
      BY <1>4 DEF ConnType
    <2>3. conn' = [conn EXCEPT ![Current] = s]
      BY <2>1
    <2> HIDE DEF s
    <2>4. conn'[Current] = s /\ \A c \in Connection \ {Current} : conn'[c] = conn[c]
      BY <1>2, <2>3 DEF Types
    <2> QED BY <2>2, <2>4
  <1>9. peer[Current].state # "away"
    <2>1. conn[Current].fd # NoFd
      BY <1>1 DEF Sockets, Places, Current, AtEntry
    <2> QED BY <1>2, <2>1 DEF Sockets, OwnSockets, NewConnection
  <1>10. Unmoved
    BY <1>3, <1>4, <1>7, <1>8, <1>9 DEF Unmoved
  <1> QED BY <1>3, <1>4, <1>6, <1>7, <1>8, <1>10 DEF q, to, rest, whole

\* Steps that only move the thread on.
LEMMA MovesUnmoved ==
  ASSUME Types, Moves
  PROVE  /\ Unmoved /\ inbox' = inbox
         /\ UNCHANGED <<conn, peer, reply, sent>>
  <1>1. UNCHANGED <<inbox, conn, peer, reply, sent, ConnectionList, localConnections>>
    BY DEF Moves, LoopHead, NoConnections, Poll, EndOfPass, NothingToRead, NothingToSend,
           BrokenPipe, KeepConnection, NextConnection, Unopened, TerminateConnection,
           AfterTermination, past
  <1>2. /\ Len(PollStruct') = Len(PollStruct)
        /\ \A j \in 1 .. Len(PollStruct) : PollStruct'[j].fd = PollStruct[j].fd
    <2>1. CASE Poll \/ EndOfPass
      BY <2>1, PolledSockets
    <2>2. CASE ~(Poll \/ EndOfPass)
      BY <2>2
      DEF Moves, LoopHead, NoConnections, NothingToRead, NothingToSend,
          BrokenPipe, KeepConnection, NextConnection, Unopened, TerminateConnection,
          AfterTermination, past
    <2> QED BY <2>1, <2>2
  <1> QED BY <1>1, <1>2 DEF Unmoved

\* The clock and the clients move no connection, but for the one that comes.
LEMMA OutsideUnmoved ==
  ASSUME Types, Sockets, Outside, \A c \in Connection : ~Arrive(c)
  PROVE  /\ Unmoved /\ (inbox' = inbox \/ inbox' = Append(inbox, Shutdown))
         /\ \A c \in Connection :
              /\ peer'[c].state = "away" => peer[c].state = "away"
              /\ peer'[c].body = peer[c].body
              /\ conn'[c].FileStream = conn[c].FileStream
              /\ conn'[c].SendBuffer = conn[c].SendBuffer
              /\ conn'[c].position = conn[c].position
              /\ conn'[c].BytesRemaining = conn[c].BytesRemaining
         /\ UNCHANGED <<pc, ConnectionListIterator, ConnectionList, reply, visited, missed>>
  <1>1. UNCHANGED <<thread, reply, visited, missed>>
    BY DEF Outside, Tick, ShutdownServer, Client, SendRequest, SendRest, ReadAnswer, HangUp, past
  <1>2. UNCHANGED <<pc, ConnectionListIterator, ConnectionList, PollStruct, localConnections,
                    reply, visited, missed>>
    BY <1>1 DEF thread
  <1>3. inbox' = inbox \/ inbox' = Append(inbox, Shutdown)
    BY DEF Outside, Tick, ShutdownServer, Client, SendRequest, SendRest, ReadAnswer, HangUp
  <1>4. \A c \in Connection :
          /\ peer'[c].state = "away" => peer[c].state = "away"
          /\ peer'[c].body = peer[c].body
    <2>1. CASE Tick \/ ShutdownServer
      BY <2>1 DEF Tick, ShutdownServer
    <2>2. ASSUME NEW d \in Connection, SendRequest(d) \/ SendRest(d) \/ ReadAnswer(d) \/ HangUp(d)
          PROVE  \A c \in Connection :
                   /\ peer'[c].state = "away" => peer[c].state = "away"
                   /\ peer'[c].body = peer[c].body
      <3>1. peer[d] \in PeerType
        BY DEF Types
      <3>2. peer'[d].body = peer[d].body /\ peer'[d].state # "away"
        <4> DEFINE p == peer[d]
        <4>1. CASE SendRequest(d)
          <5> PICK partial \in BOOLEAN :
                peer' = [peer EXCEPT ![d].unread = TRUE, ![d].partial = partial, ![d].pieces = @ + 1]
            BY <4>1 DEF SendRequest
          <5> DEFINE q == [p EXCEPT !.unread = TRUE, !.partial = partial, !.pieces = p.pieces + 1]
          <5>1. peer' = [peer EXCEPT ![d] = q] /\ p.state = "up"
            BY <4>1 DEF SendRequest
          <5>2. q.state = p.state /\ q.body = p.body
            BY <3>1 DEF PeerType
          <5> HIDE DEF q
          <5> QED BY <5>1, <5>2, Zenon DEF Types
        <4>2. CASE ReadAnswer(d)
          <5>1. peer' = [peer EXCEPT ![d] = [p EXCEPT !.full = FALSE]] /\ p.state = "up"
            BY <4>2 DEF ReadAnswer
          <5>2. /\ [p EXCEPT !.full = FALSE].state = p.state
                /\ [p EXCEPT !.full = FALSE].body = p.body
            BY <3>1 DEF PeerType
          <5> QED BY <5>1, <5>2, Zenon DEF Types
        <4>3. CASE HangUp(d)
          <5> PICK s \in {"closed", "reset"}, b \in BOOLEAN :
                peer' = [peer EXCEPT ![d].state = s, ![d].unread = b, ![d].partial = FALSE, ![d].full = FALSE]
            BY <4>3 DEF HangUp
          <5> DEFINE q == [p EXCEPT !.state = s, !.unread = b, !.partial = FALSE, !.full = FALSE]
          <5>1. peer' = [peer EXCEPT ![d] = q]
            OBVIOUS
          <5>2. q.state = s /\ q.body = p.body /\ s # "away"
            BY <3>1 DEF PeerType
          <5> HIDE DEF q
          <5> QED BY <5>1, <5>2, Zenon DEF Types
        <4>4. CASE SendRest(d)
          <5>1. peer' = [peer EXCEPT ![d] = [p EXCEPT !.partial = FALSE]] /\ p.state = "up"
            BY <4>4 DEF SendRest
          <5>2. /\ [p EXCEPT !.partial = FALSE].state = p.state
                /\ [p EXCEPT !.partial = FALSE].body = p.body
            BY <3>1 DEF PeerType
          <5> QED BY <5>1, <5>2, Zenon DEF Types
        <4> QED BY <2>2, <4>1, <4>2, <4>3, <4>4
      <3>3. \A c \in Connection \ {d} : peer'[c] = peer[c]
        BY <2>2 DEF SendRequest, SendRest, ReadAnswer, HangUp, Types
      <3> QED BY <3>2, <3>3
    <2> QED BY <2>1, <2>2 DEF Outside, Client
  <1>5. \A c \in Connection :
          /\ conn'[c].fd = conn[c].fd /\ (conn[c].fd = NoFd => conn'[c] = conn[c])
          /\ conn'[c].FileStream = conn[c].FileStream
          /\ conn'[c].SendBuffer = conn[c].SendBuffer
          /\ conn'[c].position = conn[c].position
          /\ conn'[c].BytesRemaining = conn[c].BytesRemaining
    <2>1. CASE Tick
      <3> TAKE c \in Connection
      <3> DEFINE r == conn[c]
                 age == Min({r.idle + 1, IdleLimit + 1})
      <3>1. r \in ConnType
        BY DEF Types
      <3>2. CASE Connected(c)
        <4>1. conn'[c] = [r EXCEPT !.idle = age, !.bandReset = FALSE, !.BandwidthLeft = 0]
          BY <2>1, <3>2 DEF Tick
        <4> HIDE DEF age
        <4>2. conn[c].fd # NoFd
          BY <3>2 DEF Connected
        <4> QED BY <3>1, <4>1, <4>2 DEF ConnType
      <3>3. CASE ~Connected(c)
        BY <2>1, <3>3 DEF Tick
      <3> QED BY <3>2, <3>3
    <2>2. CASE ~Tick
      <3>1. conn' = conn
        BY <2>2 DEF Outside, ShutdownServer, Client, SendRequest, SendRest, ReadAnswer, HangUp
      <3> QED BY <3>1
    <2> QED BY <2>1, <2>2
  <1>6. Unmoved
    <2>1. \A c \in Connection : peer'[c].state = "away" => conn'[c] = conn[c]
      <3> TAKE c \in Connection
      <3> HAVE peer'[c].state = "away"
      <3>1. conn[c] = NewConnection
        BY <1>4 DEF Sockets, OwnSockets
      <3> QED BY <1>5, <3>1 DEF NewConnection
    <2> QED BY <1>2, <1>4, <1>5, <2>1 DEF Unmoved
  <1> QED BY <1>2, <1>3, <1>4, <1>5, <1>6

\* Every step of the thread is of one of the kinds.
LEMMA PassKinds ==
  ASSUME Types, AtAnEntry, Pass
  PROVE  Moves \/ Takes \/ Answering \/ SendBody \/ (Terminates /\ sent' = sent)
  BY EndsAtEntry DEF Pass, Moves, Takes, Answering

LEMMA SocketsStep ==
  ASSUME Types, Sockets, AtAnEntry, Streaming, Pass \/ Outside
  PROVE  Sockets'
  <1>1. CASE Moves
    BY <1>1, MovesUnmoved, UnmovedSockets
  <1>2. CASE Takes
    BY <1>2, TakenSockets DEF Takes
  <1>3. CASE Answering
    BY <1>3, AnsweringUnmoved, UnmovedSockets
  <1>4. CASE SendBody
    <2>1. PICK n \in Nat : Piece(n) /\ (n # conn[Current].BytesRemaining \/ Terminates)
      BY <1>4, SendKinds DEF Sockets
    <2>2. MaySend /\ HasBody
      BY <1>4 DEF SendBody
    <2>3. CASE n # conn[Current].BytesRemaining
      BY <2>1, <2>2, <2>3, PieceUnmoved, UnmovedSockets
    <2>4. CASE Terminates
      BY <2>4, TerminationSockets DEF Terminates
    <2> QED BY <2>1, <2>3, <2>4
  <1>5. CASE Terminates
    BY <1>5, TerminationSockets DEF Terminates
  <1>6. CASE Outside
    <2>1. ASSUME NEW c \in Connection, Arrive(c) PROVE Sockets'
      BY <2>1, ArrivalSockets
    <2>2. CASE \A c \in Connection : ~Arrive(c)
      BY <1>6, <2>2, OutsideUnmoved, UnmovedSockets
    <2> QED BY <2>1, <2>2
  <1> QED BY <1>1, <1>2, <1>3, <1>4, <1>5, <1>6, PassKinds

--------------------------------------------------------------------------------
(* What the steps of a visit change *)

\* A piece of the request is read, an answer is chosen, or a file cannot be opened.
Requested ==
  /\ UNCHANGED reply
  /\ conn'[Current].FileStream = conn[Current].FileStream
  /\ conn'[Current].SendBuffer = conn[Current].SendBuffer
  /\ conn'[Current].position = conn[Current].position
  /\ conn'[Current].BytesRemaining = conn[Current].BytesRemaining
  /\ pc = "visit"

Chosen ==
  /\ pc = "out" /\ ~HasBody
  /\ \E answer \in ReplyType \ {NoReply} :
       /\ reply' = [reply EXCEPT ![Current] = answer]
       /\ conn'[Current].position = 0 /\ conn'[Current].BytesRemaining = answer.size
  /\ conn'[Current].FileStream = "open" \/ conn'[Current].SendBuffer
  /\ conn'[Current].FileStream # "deleted"

Refused ==
  /\ pc = "out" /\ ~HasBody /\ pc' = "unopened"
  /\ UNCHANGED <<ConnectionListIterator, ConnectionList, reply>>
  /\ conn'[Current].FileStream = "deleted"
  /\ conn'[Current].SendBuffer = conn[Current].SendBuffer

\* Every answer is a file or a page.
LEMMA PreparedBody ==
  ASSUME load \in Loads, NEW r \in ConnType,
         NEW answer \in Answers \cup {Reply("404", size) : size \in 1 .. MaxSize}
  PROVE  LET q == Prepared(r, answer)
         IN /\ answer \in ReplyType \ {NoReply}
            /\ q \in ConnType
            /\ q.fd = r.fd /\ q.bandReset = r.bandReset /\ q.BandwidthLeft = r.BandwidthLeft
            /\ q.position = 0 /\ q.BytesRemaining = answer.size
            /\ q.FileStream = "open" \/ q.SendBuffer
            /\ q.FileStream # "deleted"
  <1> DEFINE q == Prepared(r, answer)
             stream == IF answer.body = "file" THEN "open" ELSE "null"
             buffer == answer.body \in Pages
             size == answer.size
  <1>1. answer \in ReplyType \ {NoReply} /\ answer.body \in {"file"} \cup Pages
    <2>1. Answers \cup {Reply("404", k) : k \in 1 .. MaxSize} = Answers
      <3>1. ASSUME NEW k \in 1 .. MaxSize PROVE Reply("404", k) \in Answers
        <4>1. Reply("404", k) \in {Reply(body, n) : body \in {"index", "404"}, n \in 1 .. MaxSize}
          OBVIOUS
        <4> QED BY <4>1 DEF Answers
      <3> QED BY <3>1
    <2>2. answer \in Answers
      BY <2>1
    <2>3. answer.body \in {"file"} \cup Pages
      <3>1. CASE answer \in {Reply("file", n) : n \in 0 .. MaxSize}
        BY <3>1 DEF Reply
      <3>2. CASE answer \in {Reply(body, n) : body \in {"index", "404"}, n \in 1 .. MaxSize}
        BY <3>2 DEF Reply, Pages
      <3>3. CASE answer \in {Reply("401", n) : n \in IF RequireAuth THEN 1 .. MaxSize ELSE {}}
        BY <3>3 DEF Reply, Pages
      <3> QED BY <2>2, <3>1, <3>2, <3>3 DEF Answers
    <2> QED BY <2>2, <2>3, AnswersType
  <1>2. stream = "open" \/ buffer
    BY <1>1
  <1>3. stream # "deleted"
    OBVIOUS
  <1>4. q = [r EXCEPT !.FileStream = stream, !.SendBuffer = buffer,
                      !.position = 0, !.BytesRemaining = size]
    BY DEF Prepared
  <1>5. q \in ConnType
    BY <1>1, PreparedType
  <1> HIDE DEF stream, buffer, size, q
  <1>6. /\ q.fd = r.fd /\ q.bandReset = r.bandReset /\ q.BandwidthLeft = r.BandwidthLeft
        /\ q.position = 0 /\ q.BytesRemaining = size
        /\ q.FileStream = stream /\ q.SendBuffer = buffer
    BY <1>4 DEF ConnType
  <1> QED BY <1>1, <1>2, <1>3, <1>5, <1>6 DEF q, size

LEMMA AnsweringEffect ==
  ASSUME Types, Sockets, AtAnEntry, Streaming, Answering
  PROVE  /\ AtEntry /\ sent' = sent
         /\ \A c \in Connection \ {Current} : conn'[c] = conn[c] /\ peer'[c] = peer[c]
         /\ conn'[Current].bandReset = conn[Current].bandReset
         /\ conn'[Current].BandwidthLeft = conn[Current].BandwidthLeft
         /\ peer'[Current].body = peer[Current].body
         /\ peer[Current].state # "away" /\ peer'[Current].state # "away"
         /\ Requested \/ Chosen \/ Refused
  <1>1. AtEntry
    <2>1. Visiting => AtEntry
      BY ListedType DEF Visiting, AtEntry, Types
    <2>2. MaySend => AtEntry
      BY DEF MaySend, AtAnEntry, AtEntry
    <2> QED BY <2>1, <2>2 DEF Answering, Receive, ReceiveError, Unresolvable, Answer, OpenFails
  <1> DEFINE r == conn[Current]
             p == peer[Current]
  <1>2. Current \in Connection /\ r \in ConnType /\ p \in PeerType
    BY <1>1, CurrentType DEF Sockets, Aligned
  <1>3. sent' = sent
    BY DEF Answering, Receive, ReceiveError, Received, Unresolvable, Answer, OpenFails, past
  <1>4. p.state # "away"
    <2>1. conn[Current].fd # NoFd
      BY <1>1 DEF Sockets, Places, Current, AtEntry
    <2> QED BY <1>2, <2>1 DEF Sockets, OwnSockets, NewConnection
  <1>5. /\ \A c \in Connection \ {Current} : peer'[c] = peer[c]
        /\ peer'[Current].body = p.body /\ peer'[Current].state # "away"
    <2>1. CASE Receive
      <3>1. peer' = [peer EXCEPT ![Current] = [p EXCEPT !.unread = FALSE]]
        BY <2>1 DEF Receive
      <3>2. [p EXCEPT !.unread = FALSE].body = p.body /\ [p EXCEPT !.unread = FALSE].state = p.state
        BY <1>2 DEF PeerType
      <3> QED BY <1>2, <1>4, <3>1, <3>2, Zenon DEF Types
    <2>2. CASE ReceiveError
      <3>1. peer' = [peer EXCEPT ![Current] = [p EXCEPT !.state = "closed"]]
        BY <2>2 DEF ReceiveError
      <3>2. /\ [p EXCEPT !.state = "closed"].body = p.body
            /\ [p EXCEPT !.state = "closed"].state # "away"
        BY <1>2 DEF PeerType
      <3> QED BY <1>2, <3>1, <3>2, Zenon DEF Types
    <2>3. CASE Unresolvable \/ OpenFails
      BY <1>4, <2>3 DEF Unresolvable, OpenFails
    <2>4. CASE Answer
      <3>1. PICK full \in BOOLEAN : peer' = [peer EXCEPT ![Current] = [p EXCEPT !.full = full]]
        BY <2>4 DEF Answer
      <3>2. [p EXCEPT !.full = full].body = p.body /\ [p EXCEPT !.full = full].state = p.state
        BY <1>2 DEF PeerType
      <3> QED BY <1>2, <1>4, <3>1, <3>2, Zenon DEF Types
    <2> QED BY <2>1, <2>2, <2>3, <2>4 DEF Answering
  <1> DEFINE Goal ==
        /\ \A c \in Connection \ {Current} : conn'[c] = conn[c]
        /\ conn'[Current].bandReset = r.bandReset
        /\ conn'[Current].BandwidthLeft = r.BandwidthLeft
        /\ Requested \/ Chosen \/ Refused
  <1>6. Goal
    <2>1. CASE Receive \/ ReceiveError
      <3>1. PICK path \in {TRUE, conn[Current].Resource} :
              conn' = [conn EXCEPT ![Current] = [r EXCEPT !.Resource = path, !.idle = 0]]
        BY <2>1 DEF Receive, ReceiveError, Received
      <3> DEFINE q == [r EXCEPT !.Resource = path, !.idle = 0]
      <3>2. /\ q.bandReset = r.bandReset /\ q.BandwidthLeft = r.BandwidthLeft
            /\ q.FileStream = r.FileStream /\ q.SendBuffer = r.SendBuffer
            /\ q.position = r.position /\ q.BytesRemaining = r.BytesRemaining
        BY <1>2 DEF ConnType
      <3>3. conn' = [conn EXCEPT ![Current] = q]
        BY <3>1
      <3> HIDE DEF q
      <3>4. conn'[Current] = q /\ \A c \in Connection \ {Current} : conn'[c] = conn[c]
        BY <1>2, <3>3 DEF Types
      <3>5. UNCHANGED reply /\ pc = "visit"
        BY <2>1 DEF Receive, ReceiveError, Received, Visiting
      <3> QED BY <3>2, <3>4, <3>5 DEF Requested
    <2>2. CASE Unresolvable \/ Answer
      <3>1. PICK answer \in Answers \cup {Reply("404", size) : size \in 1 .. MaxSize},
                 idle \in 0 .. IdleLimit + 1 :
              /\ reply' = [reply EXCEPT ![Current] = answer]
              /\ \/ conn' = [conn EXCEPT ![Current] = Prepared(r, answer)]
                 \/ conn' = [conn EXCEPT ![Current] = [Prepared(r, answer) EXCEPT !.idle = idle]]
        <4>1. r.idle \in 0 .. IdleLimit + 1 /\ 0 \in 0 .. IdleLimit + 1
          BY <1>2, NetworkAssumption DEF ConnType
        <4>2. CASE Unresolvable
          BY <4>1, <4>2 DEF Unresolvable
        <4>3. CASE Answer
          <5>1. PICK answer \in Answers, ok \in {TRUE, peer[Current].state = "up"} :
                  /\ reply' = [reply EXCEPT ![Current] = answer]
                  /\ \E idle \in IdleAfter(ok, r.idle) :
                       conn' = [conn EXCEPT ![Current] = [Prepared(r, answer) EXCEPT !.idle = idle]]
            BY <4>3 DEF Answer
          <5>2. PICK idle \in IdleAfter(ok, r.idle) :
                  conn' = [conn EXCEPT ![Current] = [Prepared(r, answer) EXCEPT !.idle = idle]]
            BY <5>1
          <5>3. idle \in 0 .. IdleLimit + 1
            BY <4>1 DEF IdleAfter
          <5> QED BY <5>1, <5>2, <5>3
        <4> QED BY <2>2, <4>2, <4>3
      <3> DEFINE q == Prepared(r, answer)
                 s == [q EXCEPT !.idle = idle]
      <3>2. /\ answer \in ReplyType \ {NoReply}
            /\ q \in ConnType
            /\ q.bandReset = r.bandReset /\ q.BandwidthLeft = r.BandwidthLeft
            /\ q.position = 0 /\ q.BytesRemaining = answer.size
            /\ q.FileStream = "open" \/ q.SendBuffer
            /\ q.FileStream # "deleted"
        BY <1>2, PreparedBody DEF Types
      <3> HIDE DEF q
      <3>3. /\ s.bandReset = q.bandReset /\ s.BandwidthLeft = q.BandwidthLeft
            /\ s.position = q.position /\ s.BytesRemaining = q.BytesRemaining
            /\ s.FileStream = q.FileStream /\ s.SendBuffer = q.SendBuffer
        BY <3>2 DEF ConnType
      <3>4. conn' = [conn EXCEPT ![Current] = q] \/ conn' = [conn EXCEPT ![Current] = s]
        BY <3>1 DEF q
      <3> HIDE DEF s
      <3>5. /\ conn'[Current] = q \/ conn'[Current] = s
            /\ \A c \in Connection \ {Current} : conn'[c] = conn[c]
        BY <1>2, <3>4 DEF Types
      <3>6. pc = "out" /\ ~HasBody
        BY <2>2 DEF Unresolvable, Answer, MaySend
      <3> QED BY <3>1, <3>2, <3>3, <3>5, <3>6 DEF Chosen
    <2>3. CASE OpenFails
      <3> DEFINE q == [r EXCEPT !.FileStream = "deleted"]
      <3>1. conn' = [conn EXCEPT ![Current] = q]
        BY <2>3 DEF OpenFails
      <3>2. /\ q.bandReset = r.bandReset /\ q.BandwidthLeft = r.BandwidthLeft
            /\ q.FileStream = "deleted" /\ q.SendBuffer = r.SendBuffer
        BY <1>2 DEF ConnType
      <3> HIDE DEF q
      <3>3. conn'[Current] = q /\ \A c \in Connection \ {Current} : conn'[c] = conn[c]
        BY <1>2, <3>1 DEF Types
      <3>4. /\ pc = "out" /\ ~HasBody /\ pc' = "unopened"
            /\ UNCHANGED <<ConnectionListIterator, ConnectionList, reply>>
        BY <2>3 DEF OpenFails, MaySend
      <3> QED BY <3>2, <3>3, <3>4 DEF Refused
    <2> QED BY <2>1, <2>2, <2>3 DEF Answering
  <1> QED BY <1>1, <1>3, <1>4, <1>5, <1>6

--------------------------------------------------------------------------------
(* Every step keeps what is streamed *)

\* Nothing is left of a deleted connection.
LEMMA DeletedStreams ==
  ASSUME Types, NEW gone \in SUBSET Connection, Delete(gone)
  PROVE  /\ \A c \in gone :
              /\ peer'[c].body = <<>> /\ peer'[c].state # "away"
              /\ conn'[c].FileStream = "null" /\ conn'[c].SendBuffer = FALSE
              /\ conn'[c].fd = NoFd /\ reply'[c] = NoReply
         /\ \A c \in Connection \ gone :
              conn'[c] = conn[c] /\ peer'[c] = peer[c] /\ reply'[c] = reply[c]
  BY DEF Delete, NewConnection, Peer

LEMMA EmptyBody == ASSUME NEW s, s = <<>> PROVE s = [k \in 1 .. Len(s) |-> k]
  <1>1. Len(s) = 0
    BY EmptySeq
  <1>2. [k \in 1 .. 0 |-> k] \in Seq(Nat) /\ s \in Seq(Nat)
    <2>1. [k \in 1 .. 0 |-> k] \in [1 .. 0 -> Nat]
      OBVIOUS
    <2> QED BY <2>1, SeqDef, EmptySeq
  <1>3. DOMAIN [k \in 1 .. 0 |-> k] = 1 .. 0
    OBVIOUS
  <1>4. Len([k \in 1 .. 0 |-> k]) = 0
    BY <1>2, <1>3, LenProperties
  <1>5. [k \in 1 .. 0 |-> k] = <<>>
    BY <1>2, <1>4, EmptySeq
  <1> QED BY <1>1, <1>5

\* The streaming of one connection.
StreamOf(c) ==
  /\ peer[c].body = [k \in 1 .. Len(peer[c].body) |-> k]
  /\ conn[c].FileStream = "deleted" => pc = "crashed" \/ (pc = "unopened" /\ c = Current)
  /\ reply[c] = NoReply =>
       /\ peer[c].body = <<>>
       /\ conn[c].FileStream # "open" /\ ~conn[c].SendBuffer
  /\ reply[c] # NoReply =>
       /\ conn[c].FileStream = "open" \/ conn[c].SendBuffer
       /\ conn[c].position = Len(peer[c].body)
       /\ conn[c].BytesRemaining = reply[c].size - Len(peer[c].body)
  /\ peer[c].state = "away" => reply[c] = NoReply

LEMMA StreamingIsStreams == Streaming <=> \A c \in Connection : StreamOf(c)
  BY DEF Streaming, StreamOf

LEMMA StreamingStep ==
  ASSUME Types, Sockets, AtAnEntry, Streaming, Pass \/ Outside
  PROVE  Streaming'
  <1>0. \A c \in Connection : StreamOf(c)
    BY StreamingIsStreams
  <1> SUFFICES ASSUME NEW c \in Connection PROVE StreamOf(c)'
    BY DEF Streaming, StreamOf
  <1>1. StreamOf(c)
    BY <1>0
  <1>2. CASE Moves
    <2>1. UNCHANGED <<conn, peer, reply>>
      BY <1>2, MovesUnmoved
    <2>2. pc = "crashed" \/ (pc = "unopened" /\ c = Current) => pc' = "crashed"
      BY <1>2 DEF Moves, LoopHead, NoConnections, Poll, EndOfPass, NothingToRead, NothingToSend,
                  BrokenPipe, KeepConnection, Visiting, MaySend
    <2> QED BY <1>1, <2>1, <2>2 DEF StreamOf
  <1>3. CASE Takes
    <2>1. pc = "drain"
      BY <1>3 DEF Takes, TakeConnection, TakenElsewhere, ReceiveShutdown
    <2>2. CASE TakeConnection
      BY <1>1, <2>1, <2>2 DEF TakeConnection, StreamOf
    <2>3. CASE TakenElsewhere \/ ReceiveShutdown
      <3>1. PICK gone \in SUBSET Connection : Delete(gone)
        <4>1. Listed \in SUBSET Connection
          BY LenProperties, ListedType DEF Listed, Range, Types
        <4>2. CASE TakenElsewhere
          <5>1. Head(inbox) \in Connection
            BY <4>2, InboxType DEF TakenElsewhere
          <5> QED BY <4>2, <5>1 DEF TakenElsewhere
        <4>3. CASE ReceiveShutdown
          BY <4>1, <4>3 DEF ReceiveShutdown
        <4> QED BY <2>3, <4>2, <4>3
      <3>2. CASE c \in gone
        BY <3>1, <3>2, DeletedStreams, EmptyBody DEF StreamOf
      <3>3. CASE c \notin gone
        <4>1. conn'[c] = conn[c] /\ peer'[c] = peer[c] /\ reply'[c] = reply[c]
          BY <3>1, <3>3, DeletedStreams
        <4> QED BY <1>1, <2>1, <4>1 DEF StreamOf
      <3> QED BY <3>2, <3>3
    <2> QED BY <1>3, <2>2, <2>3 DEF Takes
  <1>4. CASE Answering
    <2>1. /\ AtEntry
          /\ \A d \in Connection \ {Current} : conn'[d] = conn[d] /\ peer'[d] = peer[d]
          /\ peer'[Current].body = peer[Current].body
          /\ peer'[Current].state # "away"
          /\ Requested \/ Chosen \/ Refused
      BY <1>4, AnsweringEffect
    <2>2. Current \in Connection
      BY <2>1, CurrentType DEF Sockets, Aligned
    <2>3. pc \in {"visit", "out"}
      BY <2>1 DEF Requested, Chosen, Refused
    <2>4. CASE c # Current
      <3>1. conn'[c] = conn[c] /\ peer'[c] = peer[c]
        BY <2>1, <2>4
      <3>2. reply'[c] = reply[c]
        BY <2>1, <2>2, <2>4 DEF Requested, Chosen, Refused, Types
      <3>3. conn[c].FileStream # "deleted"
        BY <1>1, <2>3 DEF StreamOf
      <3> QED BY <1>1, <3>1, <3>2, <3>3 DEF StreamOf
    <2>5. CASE c = Current
      <3>1. CASE Requested
        BY <1>1, <2>1, <2>3, <2>5, <3>1 DEF StreamOf, Requested
      <3>2. ~HasBody => reply[c] = NoReply /\ peer[c].body = <<>>
        BY <1>1, <2>5 DEF HasBody, StreamOf
      <3>3. CASE Chosen
        <4>1. PICK answer \in ReplyType \ {NoReply} :
                /\ reply' = [reply EXCEPT ![Current] = answer]
                /\ conn'[Current].position = 0 /\ conn'[Current].BytesRemaining = answer.size
          BY <3>3 DEF Chosen
        <4>2. reply'[c] = answer
          BY <2>2, <2>5, <4>1 DEF Types
        <4>3. peer'[c].body = <<>> /\ Len(peer'[c].body) = 0
          BY <2>1, <2>5, <3>2, <3>3, EmptySeq DEF Chosen
        <4>4. answer.size \in Nat
          BY <4>1, NetworkAssumption DEF ReplyType
        <4>5. conn'[c].BytesRemaining = reply'[c].size - Len(peer'[c].body)
          BY <2>5, <4>1, <4>2, <4>3, <4>4
        <4>6. /\ conn'[c].FileStream = "open" \/ conn'[c].SendBuffer
              /\ conn'[c].FileStream # "deleted"
          BY <2>5, <3>3 DEF Chosen
        <4>7. peer'[c].body = [k \in 1 .. Len(peer'[c].body) |-> k]
          BY <4>3, EmptyBody
        <4> QED BY <2>1, <2>5, <4>1, <4>2, <4>3, <4>5, <4>6, <4>7 DEF StreamOf
      <3>4. CASE Refused
        <4>1. /\ pc' = "unopened" /\ Current' = Current /\ reply'[c] = NoReply
              /\ conn'[c].FileStream = "deleted" /\ conn'[c].SendBuffer = conn[c].SendBuffer
              /\ peer'[c].body = <<>>
          BY <2>1, <2>5, <3>2, <3>4 DEF Refused, Current
        <4>2. ~conn[c].SendBuffer
          BY <2>5, <3>4 DEF Refused, HasBody
        <4>3. peer'[c].body = [k \in 1 .. Len(peer'[c].body) |-> k]
          BY <4>1, EmptyBody
        <4> QED BY <2>5, <4>1, <4>2, <4>3 DEF StreamOf
      <3> QED BY <2>1, <3>1, <3>3, <3>4
    <2> QED BY <2>4, <2>5
  <1>5. CASE SendBody /\ ~Terminates
    <2>1. PICK n \in Nat : Piece(n) /\ n # conn[Current].BytesRemaining
      BY <1>5, SendKinds DEF Sockets
    <2>2. MaySend /\ HasBody /\ AtEntry
      BY <1>5, SendKinds DEF Sockets
    <2>3. Current \in Connection /\ conn[Current] \in ConnType
      BY <2>2, CurrentType DEF Sockets, Aligned
    <2>4. /\ \A d \in Connection \ {Current} : conn'[d] = conn[d] /\ peer'[d] = peer[d]
          /\ peer'[Current].state = peer[Current].state
          /\ peer'[Current].body = [k \in 1 .. conn[Current].position + n |-> k]
          /\ Len(peer'[Current].body) = conn[Current].position + n
          /\ conn'[Current].position = conn[Current].position + n
          /\ conn'[Current].BytesRemaining = conn[Current].BytesRemaining - n
          /\ conn'[Current].FileStream = conn[Current].FileStream
          /\ conn'[Current].SendBuffer = conn[Current].SendBuffer
      BY <2>1, <2>2, PieceUnmoved
    <2>5. reply' = reply
      BY <2>1 DEF Piece
    <2>6. conn[c].FileStream # "deleted"
      BY <1>1, <2>2 DEF StreamOf, MaySend
    <2>7. CASE c # Current
      <3>1. conn'[c] = conn[c] /\ peer'[c] = peer[c] /\ reply'[c] = reply[c]
        BY <2>4, <2>5, <2>7
      <3> QED BY <1>1, <2>6, <3>1 DEF StreamOf
    <2>8. CASE c = Current
      <3> DEFINE m == conn[c].position
                 b == conn[c].BytesRemaining
      <3>1. /\ reply[c] # NoReply /\ m = Len(peer[c].body) /\ b = reply[c].size - Len(peer[c].body)
        BY <2>2, <2>8, WithinBody DEF Sockets
      <3>2. m \in Nat /\ b \in Int /\ reply[c].size \in Int
        BY <2>3, <2>8, NetworkAssumption DEF ConnType, Types, ReplyType
      <3>3. conn'[c].BytesRemaining = reply'[c].size - Len(peer'[c].body)
        <4>1. b - n = reply[c].size - (m + n)
          BY <3>1, <3>2
        <4> QED BY <2>4, <2>5, <2>8, <4>1
      <3>4. peer'[c].body = [k \in 1 .. Len(peer'[c].body) |-> k]
        BY <2>4, <2>8
      <3>5. conn'[c].FileStream = "open" \/ conn'[c].SendBuffer
        BY <1>1, <2>4, <2>8, <3>1 DEF StreamOf
      <3>6. peer[c].state # "away"
        BY <1>1, <3>1 DEF StreamOf
      <3> QED BY <2>4, <2>5, <2>6, <2>8, <3>1, <3>3, <3>4, <3>5, <3>6 DEF StreamOf
    <2> QED BY <2>7, <2>8
  <1>6. CASE Terminates
    <2>1. Delete({Current}) /\ {Current} \in SUBSET Connection
      BY <1>6, CurrentType DEF Terminates, TerminateConnection, Sockets, Aligned
    <2>2. CASE c = Current
      BY <2>1, <2>2, DeletedStreams, EmptyBody DEF StreamOf
    <2>3. CASE c # Current
      <3>1. conn'[c] = conn[c] /\ peer'[c] = peer[c] /\ reply'[c] = reply[c]
        BY <2>1, <2>3, DeletedStreams
      <3>2. conn[c].FileStream # "deleted"
        <4>1. pc # "crashed"
          BY <1>6 DEF Terminates
        <4> QED BY <1>1, <2>3, <4>1 DEF StreamOf
      <3> QED BY <1>1, <3>1, <3>2 DEF StreamOf
    <2> QED BY <2>2, <2>3
  <1>7. CASE Outside
    <2>1. ASSUME NEW d \in Connection, Arrive(d) PROVE StreamOf(c)'
      <3>1. peer[d] \in PeerType /\ conn[d] \in ConnType
        BY DEF Types
      <3>2. PICK fd \in Fd : conn' = [conn EXCEPT ![d] = [conn[d] EXCEPT !.fd = fd]]
        BY <2>1 DEF Arrive
      <3>3. peer' = [peer EXCEPT ![d] = [peer[d] EXCEPT !.state = "up"]]
        BY <2>1 DEF Arrive
      <3>4. UNCHANGED <<pc, ConnectionListIterator, ConnectionList, reply>>
        BY <2>1 DEF Arrive, thread
      <3>5. CASE c = d
        <4> DEFINE r == conn[d]
                   p == peer[d]
        <4>1. /\ [r EXCEPT !.fd = fd].FileStream = r.FileStream
              /\ [r EXCEPT !.fd = fd].SendBuffer = r.SendBuffer
              /\ [r EXCEPT !.fd = fd].position = r.position
              /\ [r EXCEPT !.fd = fd].BytesRemaining = r.BytesRemaining
          BY <3>1 DEF ConnType
        <4>2. /\ [p EXCEPT !.state = "up"].body = p.body
              /\ [p EXCEPT !.state = "up"].state = "up"
          BY <3>1 DEF PeerType
        <4>3. conn'[c] = [r EXCEPT !.fd = fd] /\ peer'[c] = [p EXCEPT !.state = "up"]
          BY <3>2, <3>3, <3>5, Zenon DEF Types
        <4> QED BY <1>1, <3>4, <3>5, <4>1, <4>2, <4>3 DEF StreamOf, Current
      <3>6. CASE c # d
        <4>1. conn'[c] = conn[c] /\ peer'[c] = peer[c]
          BY <3>2, <3>3, <3>6 DEF Types
        <4> QED BY <1>1, <3>4, <4>1 DEF StreamOf, Current
      <3> QED BY <3>5, <3>6
    <2>2. CASE \A d \in Connection : ~Arrive(d)
      <3>1. /\ peer'[c].state = "away" => peer[c].state = "away"
            /\ peer'[c].body = peer[c].body
            /\ conn'[c].FileStream = conn[c].FileStream
            /\ conn'[c].SendBuffer = conn[c].SendBuffer
            /\ conn'[c].position = conn[c].position
            /\ conn'[c].BytesRemaining = conn[c].BytesRemaining
            /\ UNCHANGED <<pc, ConnectionListIterator, ConnectionList, reply>>
        BY <1>7, <2>2, OutsideUnmoved
      <3> QED BY <1>1, <3>1 DEF StreamOf, Current
    <2> QED BY <2>1, <2>2
  <1> QED BY <1>2, <1>3, <1>4, <1>5, <1>6, <1>7, PassKinds

--------------------------------------------------------------------------------
(* Every step keeps the shares *)

ShareOf(c) ==
  /\ sent[c] <= MaxBandwidth
  /\ peer[c].state = "away" => sent[c] = 0
  /\ conn[c].fd # NoFd =>
       IF conn[c].bandReset THEN sent[c] + conn[c].BandwidthLeft <= MaxBandwidth
       ELSE sent[c] = 0

\* Sending a piece takes it from the share that is left.
LEMMA ShareTaken ==
  ASSUME Types, Sockets, AtEntry, MaxBandwidth # 0, ShareOf(Current), NEW n \in Nat, Piece(n)
  PROVE  /\ sent'[Current] + Charged(conn[Current]).BandwidthLeft <= MaxBandwidth
         /\ sent'[Current] <= MaxBandwidth
         /\ \A c \in Connection \ {Current} : sent'[c] = sent[c]
  <1> DEFINE r == conn[Current]
  <1>1. Current \in Connection /\ r \in ConnType /\ sent[Current] \in Nat /\ MaxBandwidth \in Nat
    BY CurrentType, LoadType DEF Sockets, Aligned, Types
  <1>2. n <= BytesAllowed(r) /\ sent' = [sent EXCEPT ![Current] = @ + n]
    BY DEF Piece
  <1>3. /\ BandwidthLeft(r) \in 0 .. MaxBandwidth /\ BytesAllowed(r) \in Nat
        /\ BytesAllowed(r) <= BandwidthLeft(r)
        /\ Charged(r).BandwidthLeft = BandwidthLeft(r) - BytesAllowed(r)
    BY Allowance, Charging DEF Sockets
  <1>4. r.fd # NoFd
    BY DEF Sockets, Places, Current, AtEntry
  <1>5. sent[Current] + BandwidthLeft(r) <= MaxBandwidth
    <2>1. CASE r.bandReset
      BY <1>4, <2>1 DEF ShareOf, BandwidthLeft
    <2>2. CASE ~r.bandReset
      BY <1>1, <1>3, <1>4, <2>2 DEF ShareOf
    <2> QED BY <2>1, <2>2
  <1>6. sent'[Current] = sent[Current] + n /\ \A c \in Connection \ {Current} : sent'[c] = sent[c]
    BY <1>1, <1>2 DEF Types
  <1> DEFINE s == sent[Current]
             left == BandwidthLeft(r)
             b == BytesAllowed(r)
  <1>7. s \in Nat /\ left \in Nat /\ b \in Nat /\ MaxBandwidth \in Nat
        /\ s + left <= MaxBandwidth /\ n <= b /\ b <= left
    BY <1>1, <1>2, <1>3, <1>5
  <1> HIDE DEF s, left, b
  <1>8. (s + n) + (left - b) <= MaxBandwidth /\ s + n <= MaxBandwidth
    BY <1>7
  <1> QED BY <1>3, <1>6, <1>8 DEF s, left, b

LEMMA SharesStep ==
  ASSUME Types, Sockets, AtAnEntry, Streaming, Shares, UNCHANGED load, Pass \/ Outside
  PROVE  Shares'
  <1>0. MaxBandwidth' = MaxBandwidth
    BY DEF MaxBandwidth
  <1> SUFFICES ASSUME MaxBandwidth # 0, NEW c \in Connection PROVE ShareOf(c)'
    BY <1>0 DEF Shares, ShareOf
  <1>1. \A d \in Connection : ShareOf(d)
    BY DEF Shares, ShareOf
  <1>2. ShareOf(c)
    BY <1>1
  <1>3. CASE Moves
    <2>1. UNCHANGED <<conn, peer, sent>>
      BY <1>3, MovesUnmoved
    <2> QED BY <1>0, <1>2, <2>1 DEF ShareOf
  <1>4. ASSUME NEW gone \in SUBSET Connection, Delete(gone), c \notin gone => sent'[c] = sent[c],
               sent'[c] <= MaxBandwidth
        PROVE  ShareOf(c)'
    <2>1. CASE c \in gone
      BY <1>0, <1>4, <2>1, DeletedStreams DEF ShareOf
    <2>2. CASE c \notin gone
      <3>1. conn'[c] = conn[c] /\ peer'[c] = peer[c] /\ sent'[c] = sent[c]
        BY <1>4, <2>2, DeletedStreams
      <3> QED BY <1>0, <1>2, <3>1 DEF ShareOf
    <2> QED BY <2>1, <2>2
  <1>5. CASE Takes
    <2>1. CASE TakeConnection
      BY <1>0, <1>2, <2>1 DEF TakeConnection, past, ShareOf
    <2>2. CASE TakenElsewhere
      <3>1. {Head(inbox)} \in SUBSET Connection
        BY <2>2, InboxType DEF TakenElsewhere
      <3>2. Delete({Head(inbox)}) /\ sent' = sent
        BY <2>2 DEF TakenElsewhere
      <3> QED BY <1>2, <1>4, <3>1, <3>2 DEF ShareOf
    <2>3. CASE ReceiveShutdown
      <3>1. Listed \in SUBSET Connection
        BY LenProperties, ListedType DEF Listed, Range, Types
      <3>2. Delete(Listed) /\ sent' = sent
        BY <2>3 DEF ReceiveShutdown
      <3> QED BY <1>2, <1>4, <3>1, <3>2 DEF ShareOf
    <2> QED BY <1>5, <2>1, <2>2, <2>3 DEF Takes
  <1>6. CASE Answering
    <2>1. /\ sent' = sent
          /\ \A d \in Connection \ {Current} : conn'[d] = conn[d] /\ peer'[d] = peer[d]
          /\ conn'[Current].bandReset = conn[Current].bandReset
          /\ conn'[Current].BandwidthLeft = conn[Current].BandwidthLeft
          /\ peer'[Current].state # "away"
          /\ Unmoved
      BY <1>6, AnsweringEffect, AnsweringUnmoved
    <2>2. conn'[c].fd = conn[c].fd
      BY <2>1 DEF Unmoved
    <2>3. CASE c = Current
      BY <1>0, <1>2, <2>1, <2>2, <2>3 DEF ShareOf
    <2>4. CASE c # Current
      <3>1. conn'[c] = conn[c] /\ peer'[c] = peer[c] /\ sent'[c] = sent[c]
        BY <2>1, <2>4
      <3> QED BY <1>0, <1>2, <3>1 DEF ShareOf
    <2> QED BY <2>3, <2>4
  <1>7. CASE SendBody
    <2>0. MaySend /\ HasBody /\ AtEntry
      BY <1>7, SendKinds DEF Sockets
    <2>1. PICK n \in Nat : Piece(n) /\ (n # conn[Current].BytesRemaining \/ Terminates)
      BY <1>7, SendKinds DEF Sockets
    <2>2. Current \in Connection /\ conn[Current] \in ConnType
      BY <2>0, CurrentType DEF Sockets, Aligned
    <2>3. /\ sent'[Current] + Charged(conn[Current]).BandwidthLeft <= MaxBandwidth
          /\ sent'[Current] <= MaxBandwidth
          /\ \A d \in Connection \ {Current} : sent'[d] = sent[d]
      BY <1>1, <2>0, <2>1, <2>2, ShareTaken
    <2>4. CASE Terminates
      <3>1. Delete({Current}) /\ {Current} \in SUBSET Connection
        BY <2>2, <2>4 DEF Terminates, TerminateConnection
      <3>2. sent'[c] <= MaxBandwidth
        BY <1>2, <2>3 DEF ShareOf
      <3>3. c \notin {Current} => sent'[c] = sent[c]
        BY <2>3
      <3> QED BY <1>4, <3>1, <3>2, <3>3
    <2>5. CASE n # conn[Current].BytesRemaining
      <3>1. /\ Unmoved
            /\ \A d \in Connection \ {Current} : conn'[d] = conn[d] /\ peer'[d] = peer[d]
            /\ peer'[Current].state = peer[Current].state
            /\ conn'[Current].bandReset = Charged(conn[Current]).bandReset
            /\ conn'[Current].BandwidthLeft = Charged(conn[Current]).BandwidthLeft
        BY <2>0, <2>1, <2>5, PieceUnmoved
      <3>2. CASE c # Current
        <4>1. conn'[c] = conn[c] /\ peer'[c] = peer[c] /\ sent'[c] = sent[c]
          BY <2>3, <3>1, <3>2
        <4> QED BY <1>0, <1>2, <4>1 DEF ShareOf
      <3>3. CASE c = Current
        <4>1. Charged(conn[Current]).bandReset
          BY <2>0, Charging DEF Sockets
        <4>2. peer[Current].state # "away"
          <5>1. conn[Current].fd # NoFd
            BY <2>0 DEF Sockets, Places, Current, AtEntry
          <5> QED BY <2>2, <5>1 DEF Sockets, OwnSockets, NewConnection
        <4> QED BY <1>0, <2>3, <3>1, <3>3, <4>1, <4>2 DEF ShareOf
      <3> QED BY <3>2, <3>3
    <2> QED BY <2>1, <2>4, <2>5
  <1>8. CASE Terminates /\ sent' = sent
    <2>1. Delete({Current}) /\ {Current} \in SUBSET Connection
      BY <1>8, CurrentType DEF Terminates, TerminateConnection, Sockets, Aligned
    <2> QED BY <1>2, <1>4, <1>8, <2>1 DEF ShareOf
  <1>9. CASE Outside
    <2>1. CASE Tick
      <3>1. sent'[c] = 0 /\ peer' = peer
        BY <2>1 DEF Tick
      <3>2. conn'[c].fd # NoFd => ~conn'[c].bandReset
        <4> DEFINE r == conn[c]
                   age == Min({r.idle + 1, IdleLimit + 1})
        <4>1. r \in ConnType
          BY DEF Types
        <4>2. CASE Connected(c)
          <5>1. conn'[c] = [r EXCEPT !.idle = age, !.bandReset = FALSE, !.BandwidthLeft = 0]
            BY <2>1, <4>2 DEF Tick
          <5> HIDE DEF age
          <5> QED BY <4>1, <5>1 DEF ConnType
        <4>3. CASE ~Connected(c)
          BY <2>1, <4>3 DEF Tick, Connected
        <4> QED BY <4>2, <4>3
      <3>3. MaxBandwidth \in Nat
        BY LoadType DEF Types
      <3> QED BY <1>0, <3>1, <3>2, <3>3 DEF ShareOf
    <2>2. ASSUME NEW d \in Connection, Arrive(d) PROVE ShareOf(c)'
      <3>1. peer[d] \in PeerType /\ conn[d] \in ConnType /\ peer[d].state = "away"
        BY <2>2 DEF Types, Arrive
      <3>2. PICK fd \in Fd : conn' = [conn EXCEPT ![d] = [conn[d] EXCEPT !.fd = fd]]
        BY <2>2 DEF Arrive
      <3>3. sent' = sent /\ peer' = [peer EXCEPT ![d] = [peer[d] EXCEPT !.state = "up"]]
        BY <2>2 DEF Arrive, past
      <3>4. CASE c = d
        <4>1. ~conn[d].bandReset /\ sent[d] = 0
          BY <1>1, <3>1 DEF Sockets, OwnSockets, NewConnection, ShareOf
        <4>2. [conn[d] EXCEPT !.fd = fd].bandReset = conn[d].bandReset
          BY <3>1 DEF ConnType
        <4>3. conn'[c] = [conn[d] EXCEPT !.fd = fd]
          BY <3>2, <3>4, Zenon DEF Types
        <4>4. ~conn'[c].bandReset /\ sent'[c] = 0
          BY <3>3, <3>4, <4>1, <4>2, <4>3
        <4>5. MaxBandwidth \in Nat
          BY LoadType DEF Types
        <4> QED BY <1>0, <4>4, <4>5 DEF ShareOf
      <3>5. CASE c # d
        <4>1. conn'[c] = conn[c] /\ peer'[c] = peer[c] /\ sent'[c] = sent[c]
          BY <3>2, <3>3, <3>5 DEF Types
        <4> QED BY <1>0, <1>2, <4>1 DEF ShareOf
      <3> QED BY <3>4, <3>5
    <2>3. CASE ~Tick /\ \A d \in Connection : ~Arrive(d)
      <3>1. UNCHANGED <<conn, sent>>
        BY <1>9, <2>3
        DEF Outside, ShutdownServer, Client, SendRequest, SendRest, ReadAnswer, HangUp, past
      <3>2. peer'[c].state = "away" => peer[c].state = "away"
        BY <1>9, <2>3, OutsideUnmoved
      <3> QED BY <1>0, <1>2, <3>1, <3>2 DEF ShareOf
    <2> QED BY <2>1, <2>2, <2>3
  <1> QED BY <1>3, <1>5, <1>6, <1>7, <1>8, <1>9, PassKinds

--------------------------------------------------------------------------------
(* Every step keeps the place of the iterator and what was visited *)

LEMMA EntryStep ==
  ASSUME Types, Sockets, AtAnEntry, Streaming, Pass \/ Outside
  PROVE  AtAnEntry'
  <1>1. CASE Moves
    <2>1. UNCHANGED ConnectionList
      BY <1>1, MovesUnmoved DEF Unmoved
    <2>2. pc' \in {"out", "idle", "unopened"} =>
            ConnectionListIterator' = ConnectionListIterator /\ AtEntry
      <3>1. CASE NothingToRead
        BY <3>1, ListedType DEF NothingToRead, Visiting, AtEntry, Types
      <3>2. CASE NothingToSend
        BY <3>2 DEF NothingToSend, AtAnEntry, AtEntry
      <3>3. CASE ~NothingToRead /\ ~NothingToSend
        BY <1>1, <3>3
        DEF Moves, LoopHead, NoConnections, Poll, EndOfPass, BrokenPipe, KeepConnection, NextConnection
      <3> QED BY <3>1, <3>2, <3>3
    <2> QED BY <2>1, <2>2 DEF AtAnEntry, AtEntry
  <1>2. CASE Takes
    BY <1>2 DEF Takes, TakeConnection, TakenElsewhere, ReceiveShutdown, thread, AtAnEntry
  <1>3. CASE Answering
    <2>1. AtEntry
      BY <1>3, AnsweringEffect
    <2>2. /\ UNCHANGED ConnectionList
          /\ pc' = "visit" \/ UNCHANGED ConnectionListIterator
      BY <1>3
      DEF Answering, Receive, ReceiveError, Received, Unresolvable, NextConnection, Answer, OpenFails
    <2> QED BY <2>1, <2>2 DEF AtAnEntry, AtEntry
  <1>4. CASE SendBody /\ ~Terminates
    <2>1. PICK n \in Nat : Piece(n) /\ n # conn[Current].BytesRemaining
      BY <1>4, SendKinds DEF Sockets
    <2>2. AtEntry
      BY <1>4, SendKinds DEF Sockets
    <2>3. UNCHANGED <<ConnectionListIterator, ConnectionList>>
      BY <2>1 DEF Piece
    <2> QED BY <2>2, <2>3 DEF AtAnEntry, AtEntry
  <1>5. CASE Terminates
    BY <1>5 DEF Terminates, AfterTermination, AtAnEntry
  <1>6. CASE Outside
    <2>1. UNCHANGED <<pc, ConnectionListIterator, ConnectionList>>
      BY <1>6
      DEF Outside, Tick, ShutdownServer, Client, Arrive, SendRequest, SendRest, ReadAnswer, HangUp, thread
    <2> QED BY <2>1 DEF AtAnEntry
  <1> QED BY <1>1, <1>2, <1>3, <1>4, <1>5, <1>6, PassKinds

\* The connection that the last pass passed over is the first one now.
OnlyFirst == pc # "crashed" => \A c \in missed : Len(ConnectionList) > 0 /\ c = ConnectionList[1]

Progress ==
  /\ ConnectionListIterator > 1 => missed \subseteq visited
  /\ \A j \in 2 .. Len(ConnectionList) : j < ConnectionListIterator => ConnectionList[j] \in visited
  /\ pc # "visit" => ConnectionList[ConnectionListIterator] \in visited

\* The thread goes on to the next entry.
LEMMA NextProgress ==
  ASSUME Types, AtEntry, OnlyFirst, pc # "crashed", InPass, Progress, Current \in visited,
         NextConnection, UNCHANGED <<ConnectionList, visited, missed>>
  PROVE  Progress'
  <1>1. ConnectionListIterator \in Nat \ {0}
    BY DEF Types
  <1>2. missed \subseteq visited
    <2>1. CASE ConnectionListIterator = 1
      BY <2>1 DEF OnlyFirst, Current
    <2>2. CASE ConnectionListIterator # 1
      BY <1>1, <2>2 DEF Progress
    <2> QED BY <2>1, <2>2
  <1>3. ConnectionListIterator' = ConnectionListIterator + 1 /\ pc' = "visit"
    BY DEF NextConnection
  <1>4. ASSUME NEW j \in 2 .. Len(ConnectionList), j < ConnectionListIterator + 1
        PROVE  ConnectionList[j] \in visited
    <2>1. j < ConnectionListIterator \/ j = ConnectionListIterator
      BY <1>1, <1>4
    <2> QED BY <1>4, <2>1 DEF Progress, Current
  <1> QED BY <1>2, <1>3, <1>4 DEF Progress

LEMMA TerminationPasses ==
  ASSUME Types, Sockets, Passes, Terminates
  PROVE  Passes'
  <1>1. AtEntry /\ pc # "crashed" /\ InPass /\ TerminateConnection /\ AfterTermination
    BY DEF Terminates, InPass
  <1>2. Shortened
    BY <1>1, Terminated DEF Sockets
  <1>3. visited' = visited \ {Current} /\ missed' = missed \ {Current}
    BY <1>1 DEF TerminateConnection, Delete
  <1>4. OnlyFirst /\ Progress
    BY <1>1 DEF Passes, OnlyFirst, Progress
  <1>5. /\ Len(ConnectionList) \in Nat /\ ConnectionListIterator \in 1 .. Len(ConnectionList)
        /\ Len(ConnectionList') = Len(ConnectionList) - 1
        /\ pc' = "visit"
        /\ ConnectionListIterator' = IF ConnectionListIterator = 1 THEN 2 ELSE ConnectionListIterator
    BY <1>1, <1>2, ListedType DEF AtEntry, AfterTermination, Shortened
  <1>6. CASE ConnectionListIterator = 1
    <2>1. missed' = {}
      BY <1>1, <1>3, <1>4, <1>6 DEF OnlyFirst, Current
    <2>2. ConnectionListIterator' = 2
      BY <1>5, <1>6
    <2> QED BY <1>5, <2>1, <2>2 DEF Passes
  <1>7. CASE ConnectionListIterator # 1
    <2>1. ConnectionListIterator' = ConnectionListIterator /\ ConnectionListIterator > 1
      BY <1>5, <1>7
    <2>2. \A j \in 1 .. Len(ConnectionList') : j < ConnectionListIterator =>
            ConnectionList'[j] = ConnectionList[j]
      BY <1>2, <1>5 DEF Shortened, Formerly
    <2>3. Len(ConnectionList') > 0 /\ 1 \in 1 .. Len(ConnectionList')
      BY <1>5, <1>7
    <2>4. \A c \in missed' : Len(ConnectionList') > 0 /\ c = ConnectionList'[1]
      BY <1>1, <1>3, <1>4, <2>1, <2>2, <2>3 DEF OnlyFirst
    <2>5. missed' \subseteq visited'
      BY <1>3, <1>4, <2>1 DEF Progress
    <2>6. ASSUME NEW j \in 2 .. Len(ConnectionList'), j < ConnectionListIterator
          PROVE  ConnectionList'[j] \in visited'
      <3>1. /\ j \in 2 .. Len(ConnectionList) /\ j \in 1 .. Len(ConnectionList)
            /\ j \in 1 .. Len(ConnectionList') /\ j # ConnectionListIterator
        BY <1>5, <2>6
      <3>2. ConnectionList'[j] = ConnectionList[j]
        BY <2>2, <2>6, <3>1
      <3>3. ConnectionList[j] \in visited
        BY <1>4, <2>6, <3>1 DEF Progress
      <3>4. ConnectionList[j] # Current
        BY <1>5, <3>1 DEF Sockets, Places, Current
      <3> QED BY <1>3, <3>2, <3>3, <3>4
    <2> QED BY <1>5, <2>1, <2>4, <2>5, <2>6 DEF Passes
  <1> QED BY <1>6, <1>7

LEMMA PassesStep ==
  ASSUME Types, Sockets, AtAnEntry, Streaming, Passes, Pass \/ Outside
  PROVE  Passes'
  <1>0. /\ Len(ConnectionList) \in Nat /\ ConnectionListIterator \in Nat \ {0}
        /\ InPass => OnlyFirst /\ Progress
        /\ pc # "crashed" => OnlyFirst
        /\ pc \in {"out", "idle", "unopened"} => AtEntry /\ Current \in visited
    BY ListedType DEF Types, Passes, OnlyFirst, Progress, InPass, AtAnEntry, AtEntry, Current
  <1>1. CASE LoopHead \/ NoConnections
    BY <1>0, <1>1 DEF LoopHead, NoConnections, past, Passes, OnlyFirst, InPass
  <1>2. CASE BrokenPipe \/ (Unopened /\ pc' = "crashed")
    BY <1>2 DEF BrokenPipe, Unopened, Passes, InPass
  <1>3. CASE Poll
    <2>1. /\ ConnectionListIterator' = 1 /\ pc' = "visit" /\ pc = "drain"
          /\ UNCHANGED <<ConnectionList, missed>>
      BY <1>3 DEF Poll
    <2> QED BY <1>0, <2>1 DEF Passes, OnlyFirst
  <1>4. CASE EndOfPass
    <2>1. /\ missed' = Listed \ visited /\ pc' = "head" /\ pc = "visit"
          /\ ConnectionListIterator > Len(ConnectionList) /\ ConnectionList' = ConnectionList
      BY <1>4 DEF EndOfPass
    <2>2. Listed = {ConnectionList[k] : k \in 1 .. Len(ConnectionList)}
      BY LenProperties DEF Listed, Range, Types
    <2>3. Progress
      BY <1>0, <2>1 DEF InPass
    <2>4. ASSUME NEW c \in missed' PROVE Len(ConnectionList) > 0 /\ c = ConnectionList[1]
      <3>1. PICK k \in 1 .. Len(ConnectionList) : c = ConnectionList[k]
        BY <2>1, <2>2, <2>4
      <3>2. c \notin visited
        BY <2>1, <2>4
      <3>3. k \in 2 .. Len(ConnectionList) => k < ConnectionListIterator
        BY <1>0, <2>1
      <3>4. k = 1
        BY <1>0, <2>3, <3>1, <3>2, <3>3 DEF Progress
      <3> QED BY <1>0, <3>1, <3>4
    <2> QED BY <2>1, <2>4 DEF Passes, InPass
  <1>5. CASE NothingToRead \/ (Answering /\ Requested)
    <2>1. /\ pc = "visit" /\ AtEntry /\ pc' = "out"
          /\ visited' = visited \cup {Current}
          /\ UNCHANGED <<ConnectionList, ConnectionListIterator, missed>>
      <3>1. Visiting => AtEntry
        BY ListedType DEF Visiting, AtEntry, Types
      <3> QED BY <1>5, <3>1
          DEF NothingToRead, Answering, Requested, Receive, ReceiveError, Received, Visiting,
              Unresolvable, Answer, OpenFails, MaySend
    <2>2. OnlyFirst /\ Progress
      BY <1>0, <2>1 DEF InPass
    <2> QED BY <2>1, <2>2 DEF Passes, OnlyFirst, Progress, Current
  <1>6. CASE NothingToSend \/ Answer \/ OpenFails \/ (SendBody /\ ~Terminates)
    <2>1. /\ pc = "out" /\ pc' \in {"idle", "unopened"}
          /\ UNCHANGED <<ConnectionList, ConnectionListIterator, visited, missed>>
      <3>1. CASE NothingToSend \/ Answer \/ OpenFails
        BY <3>1 DEF NothingToSend, Answer, OpenFails, MaySend, past
      <3>2. CASE SendBody /\ ~Terminates
        <4>1. PICK n \in Nat : Piece(n) /\ n # conn[Current].BytesRemaining
          BY <3>2, SendKinds DEF Sockets
        <4>2. pc = "out"
          BY <3>2 DEF SendBody, MaySend
        <4> QED BY <4>1, <4>2 DEF Piece
      <3> QED BY <1>6, <3>1, <3>2
    <2> QED BY <1>0, <2>1 DEF Passes, InPass, OnlyFirst, Progress
  <1>7. CASE KeepConnection \/ Unresolvable
    <2>1. /\ pc \in {"out", "idle"} /\ NextConnection
          /\ UNCHANGED <<ConnectionList, visited, missed>>
      BY <1>7 DEF KeepConnection, Unresolvable, MaySend, past
    <2>2. OnlyFirst /\ InPass /\ Progress /\ AtEntry /\ Current \in visited
      BY <1>0, <2>1 DEF InPass
    <2>3. Progress'
      BY <2>1, <2>2, NextProgress
    <2> QED BY <2>1, <2>2, <2>3 DEF Passes, OnlyFirst, Progress
  <1>8. CASE Takes
    <2>1. pc = "drain" /\ pc' \in {"drain", "gone"} /\ OnlyFirst
      BY <1>0, <1>8 DEF Takes, TakeConnection, TakenElsewhere, ReceiveShutdown, thread
    <2>2. CASE TakeConnection
      <3>1. Head(inbox) \in Connection
        BY <2>2, InboxType DEF TakeConnection
      <3>2. /\ Len(ConnectionList') = Len(ConnectionList) + 1
            /\ \A j \in 1 .. Len(ConnectionList) : ConnectionList'[j] = ConnectionList[j]
        <4>1. ConnectionList' = Append(ConnectionList, Head(inbox))
          BY <2>2 DEF TakeConnection
        <4> QED BY <3>1, <4>1, AppendProperties DEF Types
      <3>3. missed' = missed
        BY <2>2 DEF TakeConnection, past
      <3> QED BY <1>0, <2>1, <3>2, <3>3 DEF Passes, OnlyFirst, InPass
    <2>3. CASE TakenElsewhere
      <3>1. missed' \subseteq missed /\ ConnectionList' = ConnectionList
        BY <2>3 DEF TakenElsewhere, thread, Delete
      <3> QED BY <2>1, <3>1 DEF Passes, OnlyFirst, InPass
    <2>4. CASE ReceiveShutdown
      <3>1. missed' = missed \ Listed
        BY <2>4 DEF ReceiveShutdown, Delete
      <3>2. Listed = {ConnectionList[k] : k \in 1 .. Len(ConnectionList)}
        BY LenProperties DEF Listed, Range, Types
      <3>3. missed' = {}
        BY <1>0, <2>1, <3>1, <3>2 DEF OnlyFirst
      <3> QED BY <2>1, <3>3 DEF Passes, InPass
    <2> QED BY <1>8, <2>2, <2>3, <2>4 DEF Takes
  <1>9. CASE Terminates
    BY <1>9, TerminationPasses
  <1>10. CASE Outside
    <2>1. UNCHANGED <<pc, ConnectionListIterator, ConnectionList, visited, missed>>
      BY <1>10
      DEF Outside, Tick, ShutdownServer, Client, Arrive, SendRequest, SendRest, ReadAnswer, HangUp, thread, past
    <2> QED BY <2>1 DEF Passes, InPass
  <1>11. CASE Answering
    <2>1. Requested \/ Chosen \/ Refused
      BY <1>11, AnsweringEffect
    <2>2. CASE Receive \/ ReceiveError
      BY <1>5, <1>11, <2>1, <2>2 DEF Receive, ReceiveError, Visiting, Chosen, Refused
    <2> QED BY <1>6, <1>7, <1>11, <2>2 DEF Answering
  <1> QED
    BY <1>1, <1>2, <1>3, <1>4, <1>5, <1>6, <1>7, <1>8, <1>9, <1>10, <1>11, PassKinds DEF Moves

--------------------------------------------------------------------------------
(* The theorems *)

LEMMA InvParts ==
  Inv <=> Types /\ Sockets /\ AtAnEntry /\ Streaming /\ Shares /\ Passes
  BY TypesAreTypes DEF Inv, Sockets

LEMMA InvInit == Init => Inv
  <1> SUFFICES ASSUME Init PROVE Inv
    OBVIOUS
  <1>1. /\ NewConnection \in ConnType /\ NoReply \in ReplyType /\ Peer("away") \in PeerType
        /\ load \in Loads /\ MaxBandwidth \in Nat
    BY FreshTypes, LoadType DEF Init
  <1>2. /\ inbox = <<>> /\ ConnectionList = <<>> /\ PollStruct = <<>> /\ localConnections = 0
        /\ Len(inbox) = 0 /\ Len(ConnectionList) = 0 /\ Len(PollStruct) = 0
    BY EmptySeq DEF Init
  <1>3. Types
    <2>1. /\ inbox \in Seq(Connection \cup {Shutdown}) /\ ConnectionList \in Seq(Connection)
          /\ PollStruct \in Seq(EntryType)
      BY <1>2, EmptySeq
    <2> QED BY <1>1, <2>1 DEF Init, Types, Place
  <1>4. \A c \in Connection :
          /\ conn[c] = NewConnection /\ conn[c].fd = NoFd /\ conn[c].FileStream = "null"
          /\ conn[c].SendBuffer = FALSE
          /\ peer[c].state = "away" /\ peer[c].body = <<>>
          /\ reply[c] = NoReply /\ sent[c] = 0
    BY DEF Init, NewConnection, Peer
  <1>5. Sockets
    BY <1>2, <1>4 DEF Sockets, OwnSockets, Places, Aligned
  <1>6. AtAnEntry
    BY DEF Init, AtAnEntry
  <1>7. Streaming
    <2> SUFFICES ASSUME NEW c \in Connection PROVE StreamOf(c)
      BY StreamingIsStreams
    <2>1. peer[c].body = [k \in 1 .. Len(peer[c].body) |-> k]
      BY <1>4, EmptyBody
    <2> QED BY <1>4, <2>1 DEF StreamOf
  <1>8. Shares
    BY <1>1, <1>4 DEF Shares
  <1>9. Passes
    BY DEF Init, Passes, InPass
  <1> QED BY <1>3, <1>5, <1>6, <1>7, <1>8, <1>9, InvParts

LEMMA InvNext == Inv /\ [Next]_vars => Inv'
  <1> SUFFICES ASSUME Inv, [Next]_vars PROVE Inv'
    OBVIOUS
  <1>1. Types /\ Sockets /\ AtAnEntry /\ Streaming /\ Shares /\ Passes
    BY InvParts
  <1>2. CASE Next
    <2>1. UNCHANGED load /\ (Pass \/ Outside)
      BY <1>2 DEF Next, Outside
    <2>2. Types'
      BY <1>1, <2>1, PassTypes, OutsideTypes DEF Sockets, Outside
    <2>3. Sockets' /\ AtAnEntry' /\ Streaming' /\ Shares' /\ Passes'
      BY <1>1, <2>1, SocketsStep, EntryStep, StreamingStep, SharesStep, PassesStep
    <2>4. (Types /\ Sockets /\ AtAnEntry /\ Streaming /\ Shares /\ Passes)'
      BY <2>2, <2>3
    <2> QED BY <2>4, InvParts, PTL
  <1>3. CASE UNCHANGED vars
    <2>1. /\ UNCHANGED <<load, pc, inbox, ConnectionListIterator, ConnectionList, PollStruct>>
          /\ UNCHANGED <<localConnections, conn, peer, reply, sent, visited, missed>>
      BY <1>3 DEF vars, thread, past
    <2>2. Types'
      BY <1>1, <2>1 DEF Types, EntryType, ConnType, PeerType, ReplyType, MaxBandwidth
    <2>3. Sockets'
      BY <1>1, <2>1 DEF Sockets, OwnSockets, Places, Aligned
    <2>4. AtAnEntry' /\ Passes'
      BY <1>1, <2>1 DEF AtAnEntry, Passes, InPass
    <2>5. Streaming'
      BY <1>1, <2>1 DEF Streaming, Current
    <2>6. Shares'
      BY <1>1, <2>1 DEF Shares, MaxBandwidth
    <2>7. (Types /\ Sockets /\ AtAnEntry /\ Streaming /\ Shares /\ Passes)'
      BY <2>2, <2>3, <2>4, <2>5, <2>6
    <2> QED BY <2>7, InvParts, PTL
  <1> QED BY <1>2, <1>3

LEMMA Invariant == Spec => []Inv
  BY InvInit, InvNext, PTL DEF Spec

\* Every variable keeps its type: no share is overdrawn, and what remains of a body
\* never passes below zero.
THEOREM NetworkTypeCorrect == Spec => []NetworkTypeOK
  <1>1. Inv => NetworkTypeOK
    BY DEF Inv
  <1> QED BY <1>1, Invariant, PTL

\* The two vectors of a thread stay aligned, however descriptors are reused.
THEOREM SameOrderCorrect == Spec => []SameOrder
  <1>1. Inv => SameOrder
    <2> SUFFICES ASSUME Inv PROVE SameOrder
      OBVIOUS
    <2>1. DOMAIN ConnectionList = 1 .. Len(ConnectionList)
      BY InvParts, LenProperties DEF Types
    <2> QED BY <2>1 DEF Inv, Aligned, SameOrder
  <1> QED BY <1>1, Invariant, PTL

\* However the sends are cut, a client has the beginning of its body, and what is left
\* to send is the rest.
THEOREM StreamedCorrect == Spec => []Streamed
  <1>1. Inv => Streamed
    BY DEF Inv, Streaming, Streamed
  <1> QED BY <1>1, Invariant, PTL

\* No connection is sent more than the limit in a second.
THEOREM ShareKeptCorrect == Spec => []ShareKept
  <1>1. Inv => ShareKept
    BY DEF Inv, Shares, ShareKept
  <1> QED BY <1>1, Invariant, PTL

\* A connection that ends as complete was sent its whole body.
THEOREM WholeBodySent == Spec => WholeBody
  <1> DEFINE A == SendBody => \A c \in Listed \ Listed' :
                    Len(peer[c].body) + sent'[c] - sent[c] = reply[c].size
  <1>1. Inv /\ [Next]_vars => [A]_vars
    <2> SUFFICES ASSUME Inv, SendBody, NEW c \in Listed \ Listed'
                 PROVE  Len(peer[c].body) + sent'[c] - sent[c] = reply[c].size
      OBVIOUS
    <2>1. Types /\ Sockets /\ AtAnEntry /\ Streaming
      BY InvParts
    <2>2. MaySend /\ HasBody /\ AtEntry
      BY <2>1, SendKinds DEF Sockets
    <2>3. PICK n \in Nat : Piece(n) /\ (n # conn[Current].BytesRemaining \/ Terminates)
      BY <2>1, SendKinds DEF Sockets
    <2>4. Listed = {ConnectionList[k] : k \in 1 .. Len(ConnectionList)}
      BY <2>1, LenProperties DEF Listed, Range, Types
    <2>5. Terminates /\ n = conn[Current].BytesRemaining
      <3>1. ConnectionList' # ConnectionList
        BY DEF Listed
      <3>2. n = conn[Current].BytesRemaining
        BY <2>3, <3>1 DEF Piece
      <3> QED BY <2>3, <3>2
    <2>6. Shortened /\ Len(ConnectionList) \in Nat
      BY <2>1, <2>5, Terminated, ListedType DEF Sockets, Terminates
    <2>7. Listed' = {ConnectionList'[k] : k \in 1 .. Len(ConnectionList')}
      BY <2>6, LenProperties DEF Listed, Range, Shortened
    <2>8. c = Current
      <3>1. PICK k \in 1 .. Len(ConnectionList) : c = ConnectionList[k]
        BY <2>4
      <3>2. CASE k < ConnectionListIterator
        <4>1. k \in 1 .. Len(ConnectionList) - 1 /\ Formerly(k) = k
          BY <2>2, <2>6, <3>2 DEF AtEntry, Formerly
        <4> QED BY <2>6, <2>7, <3>1, <4>1 DEF Shortened
      <3>3. CASE k > ConnectionListIterator
        <4>1. k - 1 \in 1 .. Len(ConnectionList) - 1 /\ Formerly(k - 1) = k
          BY <2>2, <2>6, <3>3 DEF AtEntry, Formerly
        <4> QED BY <2>6, <2>7, <3>1, <4>1 DEF Shortened
      <3>4. CASE k = ConnectionListIterator
        BY <3>1, <3>4 DEF Current
      <3> QED BY <2>2, <2>6, <3>2, <3>3, <3>4 DEF AtEntry
    <2>9. Current \in Connection /\ sent[Current] \in Nat
      BY <2>1, <2>2, CurrentType DEF Sockets, Aligned, Types
    <2>10. sent'[Current] = sent[Current] + n
      BY <2>1, <2>3, <2>9 DEF Piece, Types
    <2>11. /\ conn[Current].position = Len(peer[Current].body)
           /\ conn[Current].BytesRemaining = reply[Current].size - Len(peer[Current].body)
      BY <2>1, <2>2, WithinBody DEF Sockets
    <2>12. conn[Current].position \in Nat /\ reply[Current].size \in Nat
      BY <2>1, <2>9, NetworkAssumption DEF Types, ConnType, ReplyType
    <2> QED BY <2>5, <2>8, <2>9, <2>10, <2>11, <2>12
  <1> QED BY <1>1, Invariant, PTL DEF Spec, WholeBody

\* No connection is passed over in two passes in a row.
THEOREM NeverMissedTwice == Spec => NotMissedTwice
  <1> DEFINE A == EndOfPass => missed \cap missed' = {}
  <1>1. Inv /\ [Next]_vars => [A]_vars
    <2> SUFFICES ASSUME Inv, EndOfPass PROVE missed \cap missed' = {}
      OBVIOUS
    <2>1. /\ pc = "visit" /\ ConnectionListIterator > Len(ConnectionList)
          /\ missed' = Listed \ visited
      BY DEF EndOfPass
    <2>2. Types /\ Passes
      BY InvParts
    <2>3. Len(ConnectionList) \in Nat /\ ConnectionListIterator \in Nat \ {0}
      BY <2>2, ListedType DEF Types
    <2>4. CASE ConnectionListIterator > 1
      BY <2>1, <2>2, <2>4 DEF Passes, InPass
    <2>5. CASE ~(ConnectionListIterator > 1)
      <3>1. missed = {}
        BY <2>1, <2>2, <2>3, <2>5 DEF Passes
      <3> QED BY <3>1
    <2> QED BY <2>4, <2>5
  <1> QED BY <1>1, Invariant, PTL DEF Spec, NotMissedTwice
================================================================================
