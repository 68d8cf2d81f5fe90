-------------------- MODULE UnixDomainSocketClient_proofs --------------------
(***************************************************************************)
(* Theorems about UnixDomainSocketClient, for every capacity of a socket,  *)
(* every number and size of messages and any number of server processes.   *)
(***************************************************************************)
EXTENDS UnixDomainSocketClient, SequenceTheorems, TLAPS

USE WriterAssumption, FdAssumption, CapacityAssumption, BoundAssumption

-----------------------------------------------------------------------------
(* Streams.                                                                *)

\* The ids of both sides are ids of units.
LEMMA Ids == MaxId \in Nat /\ 0..MaxMessages \subseteq 0..MaxId /\ 0..MaxSent \subseteq 0..MaxId
  BY DEF MaxId

\* Message::Message builds a sequence of units of the sender.
LEMMA NewMessageType ==
  ASSUME NEW s \in {Server, App, Handler}, NEW i \in 0..MaxId, NEW n \in 1..MaxSize
  PROVE  NewMessage(s, i, n) \in Seq(Units)
<1> DEFINE e(j) == [from |-> s, id |-> i, size |-> n, part |-> j]
<1>1. \A j \in 1..n : e(j) \in Units
  BY DEF Units, Unit
<1>2. NewMessage(s, i, n) \in [1..n -> Units]
  BY <1>1 DEF NewMessage
<1> QED
  BY <1>2, SeqDef

LEMMA ProductUnitType == ProductUnit(Handler) \in Units
  BY Ids DEF ProductUnit, Units, Unit, ProductPart

\* A sequence of units that is not empty begins with a unit, and the rest of
\* it is a sequence of units.
LEMMA HeadTailType ==
  ASSUME NEW s \in Seq(Units), s # << >>
  PROVE  Head(s) \in Units /\ Tail(s) \in Seq(Units)
  BY HeadTailProperties

\* What write() takes of a sequence of units is one of the stream.
LEMMA WriteType ==
  ASSUME TypeOK, NEW f, NEW u \in Units, WriteTaken(f, u) \/ WriteKills(f)
  PROVE  /\ to_server' \in Seq(Units) /\ Len(to_server') <= Capacity
         /\ to_client' = to_client
         /\ announced' \in BOOLEAN /\ alive' \in BOOLEAN /\ error' \in BOOLEAN
<1>1. CASE WriteTaken(f, u)
  <2>1. /\ Append(to_server, u) \in Seq(Units)
        /\ Len(Append(to_server, u)) = Len(to_server) + 1
        /\ Len(to_server) \in Nat
    BY AppendProperties, LenProperties DEF TypeOK
  <2> QED
    BY <1>1, <2>1 DEF WriteTaken, TypeOK
<1>2. CASE WriteKills(f)
  BY <1>2 DEF WriteKills, streams, TypeOK
<1> QED
  BY <1>1, <1>2

\* The message in the header of a unit has an id that NewMessage may use.
LEMMA MessageIdType ==
  ASSUME NEW s \in Seq(Units), s # << >>
  PROVE  GetMessageId(s) \in 0..MaxId
<1>1. s[1] \in Units
  BY HeadTailProperties, ElementOfSeq, LenProperties, EmptySeq
<1> QED
  BY <1>1 DEF GetMessageId, Units, Unit

-----------------------------------------------------------------------------
(* Types.                                                                  *)

\* The callback that answers has something to write: without it the types are
\* not inductive, because WriteMessage takes the head of what is left.
ReplyBegun == pc = "reply" => reply # << >>

LEMMA InitTyped == Init => TypeOK /\ ReplyBegun
<1> SUFFICES ASSUME Init PROVE TypeOK /\ ReplyBegun
  OBVIOUS
<1>1. << >> \in Seq(Units) /\ Len(<< >>) <= Capacity /\ << >> \in Seq(Seq(Units))
  BY EmptySeq
<1>2. message_map_ \in [{ServerCode} -> Seq(Units)]
  BY <1>1 DEF Init, NoMessage
<1>3. to_client = << >> /\ to_server = << >> /\ server_sending = << >>
      /\ reply = << >> /\ sending = << >> /\ delivered = << >>
  BY DEF Init
<1>4. /\ listening \in BOOLEAN /\ announced \in BOOLEAN /\ edge \in BOOLEAN
      /\ accepted \in BOOLEAN /\ error \in BOOLEAN
      /\ alive \in BOOLEAN /\ isConnected_ \in BOOLEAN /\ isEpollAdded_ \in BOOLEAN
  BY Zenon DEF Init
<1>5. /\ server_id \in 0..MaxMessages /\ message_id \in 0..MaxSent
      /\ client_socket_fd_ \in {NoFd, Fd} /\ write_fd \in {NoFd, Fd}
      /\ socket = "created" /\ pc = "top"
  BY DEF Init
<1> QED
  BY <1>1, <1>2, <1>3, <1>4, <1>5 DEF TypeOK, PCs, ReplyBegun

\* The two halves of the type invariant: server and connection, and the client.
SidesTyped ==
  /\ listening \in BOOLEAN /\ accepted \in BOOLEAN /\ server_id \in 0..MaxMessages
  /\ server_sending \in Seq(Units)
  /\ announced \in BOOLEAN /\ error \in BOOLEAN
  /\ socket \in {"none", "created", "connected", "hung_up"}
  /\ to_client \in Seq(Units) /\ Len(to_client) <= Capacity
  /\ to_server \in Seq(Units) /\ Len(to_server) <= Capacity

ProcessTyped ==
  /\ edge \in BOOLEAN /\ alive \in BOOLEAN
  /\ pc \in PCs
  /\ client_socket_fd_ \in {NoFd, Fd}
  /\ isConnected_ \in BOOLEAN /\ isEpollAdded_ \in BOOLEAN
  /\ message_map_ \in [{ServerCode} -> Seq(Units)]
  /\ reply \in Seq(Units)
  /\ message_id \in 0..MaxSent
  /\ write_fd \in {NoFd, Fd}
  /\ sending \in Seq(Units)
  /\ delivered \in Seq(Seq(Units))

LEMMA SplitTyped == SidesTyped' /\ ProcessTyped' => TypeOK'
  BY DEF SidesTyped, ProcessTyped, TypeOK

LEMMA ServerTyped ==
  ASSUME TypeOK, ServerProcess
  PROVE  TypeOK'
<1> USE DEF Client, flags, parseVars, appVars, streams, serverVars
<1>0. << >> \in Seq(Units) /\ Len(<< >>) <= Capacity
  BY EmptySeq
<1>1. CASE ServerStarts
  BY <1>1 DEF ServerStarts, TypeOK
<1>2. CASE ServerEnds
  BY <1>0, <1>2 DEF ServerEnds, Watched, TypeOK
<1>3. CASE ServerSends
  <2>1. server_id' \in 0..MaxMessages
    BY <1>3 DEF ServerSends, TypeOK
  <2>2. server_sending' \in Seq(Units)
    BY <1>3, <2>1, Ids, NewMessageType DEF ServerSends
  <2> QED
    BY <1>3, <2>1, <2>2 DEF ServerSends, TypeOK
<1>4. CASE ServerWrites
  <2>1. Head(server_sending) \in Units /\ Tail(server_sending) \in Seq(Units)
    BY <1>4, HeadTailType DEF ServerWrites, TypeOK
  <2>2. /\ Append(to_client, Head(server_sending)) \in Seq(Units)
        /\ Len(Append(to_client, Head(server_sending))) = Len(to_client) + 1
        /\ Len(to_client) \in Nat
    BY <2>1, AppendProperties, LenProperties DEF TypeOK
  <2>3. to_client' \in Seq(Units) /\ Len(to_client') <= Capacity
    BY <1>4, <2>2 DEF ServerWrites
  <2> QED
    BY <1>4, <2>1, <2>3 DEF ServerWrites, Watched, TypeOK
<1>5. CASE ServerReads
  BY <1>0, <1>5 DEF ServerReads, ReadInput, TypeOK
<1>6. CASE ServerAccepts
  BY <1>6 DEF ServerAccepts, TypeOK
<1> QED
  BY <1>1, <1>2, <1>3, <1>4, <1>5, <1>6 DEF ServerProcess

\* The end of the read loop keeps the parser's members well typed.
LEMMA DeliverTyped ==
  ASSUME TypeOK, NEW map \in [{ServerCode} -> Seq(Units)], Deliver(map)
  PROVE  /\ message_map_' \in [{ServerCode} -> Seq(Units)]
         /\ delivered' \in Seq(Seq(Units))
         /\ reply' \in Seq(Units)
         /\ pc' \in PCs
<1>1. CASE IsPerfectMessage(map, ServerCode)
  <2>1. map[ServerCode] \in Seq(Units) /\ map[ServerCode] # << >>
    BY <1>1 DEF IsPerfectMessage, IsExistMessage, NoMessage
  <2>2. MessagePop(map, ServerCode) \in [{ServerCode} -> Seq(Units)]
    BY EmptySeq DEF MessagePop, NoMessage
  <2>3. Append(delivered, map[ServerCode]) \in Seq(Seq(Units))
    BY <2>1, AppendProperties DEF TypeOK
  <2>4. NewMessage(Handler, GetMessageId(map[ServerCode]), MaxSize) \in Seq(Units)
    BY <2>1, MessageIdType, NewMessageType
  <2> QED
    BY <1>1, <2>2, <2>3, <2>4 DEF Deliver, TypeOK, PCs
<1>2. CASE ~IsPerfectMessage(map, ServerCode)
  BY <1>2 DEF Deliver, TypeOK, PCs
<1> QED
  BY <1>1, <1>2

LEMMA ReadTyped ==
  ASSUME TypeOK, Read
  PROVE  TypeOK'
<1>1. PICK map \in [{ServerCode} -> Seq(Units)] : Deliver(map)
  <2>1. /\ message_map_ \in [{ServerCode} -> Seq(Units)]
        /\ message_map_[ServerCode] \in Seq(Units)
        /\ to_client \in Seq(Units)
    BY DEF TypeOK
  <2>2. AppendData(message_map_[ServerCode], to_client) \in Seq(Units)
    BY <2>1, ConcatProperties DEF AppendData
  <2>3. /\ Add(message_map_, ServerCode, to_client) \in [{ServerCode} -> Seq(Units)]
        /\ Add(message_map_, ServerCode, AppendData(message_map_[ServerCode], to_client))
             \in [{ServerCode} -> Seq(Units)]
    BY <2>1, <2>2 DEF Add
  <2> QED
    BY <2>1, <2>3 DEF Read
<1>2. << >> \in Seq(Units) /\ Len(<< >>) <= Capacity
  BY EmptySeq
<1>3. /\ to_client' = << >> /\ error' = FALSE
      /\ UNCHANGED << serverVars, socket, to_server, announced, edge, alive, flags, appVars >>
  BY DEF Read
<1>4. SidesTyped'
  BY <1>2, <1>3 DEF TypeOK, SidesTyped, serverVars
<1>5. ProcessTyped'
  BY <1>1, <1>3, DeliverTyped DEF TypeOK, ProcessTyped, flags, appVars
<1> QED
  BY <1>4, <1>5, SplitTyped

LEMMA HandlerTyped ==
  ASSUME TypeOK, ReplyBegun, MainHandler
  PROVE  TypeOK'
<1> USE DEF flags, parseVars, appVars, streams, serverVars, PCs, Goto
<1>1. CASE Top
  BY <1>1 DEF Top, TypeOK
<1>2. CASE Created \/ Connected
  <2>1. CASE Created
    BY <2>1 DEF Created, SetConnected, TypeOK
  <2>2. CASE Connected
    BY <2>2 DEF Connected, SetConnected, TypeOK
  <2> QED
    BY <1>2, <2>1, <2>2
<1>3. CASE Connect
  BY <1>3 DEF Connect, TypeOK
<1>4. CASE Greet
  <2>1. CASE WriteTaken(client_socket_fd_, ProductUnit(Handler)) \/ WriteKills(client_socket_fd_)
    <3>1. /\ pc' = "add"
          /\ UNCHANGED << serverVars, socket, edge, flags, parseVars, appVars >>
      BY <1>4 DEF Greet
    <3>2. SidesTyped'
      BY <2>1, <3>1, WriteType, ProductUnitType DEF TypeOK, SidesTyped
    <3>3. ProcessTyped'
      BY <2>1, <3>1, WriteType, ProductUnitType DEF TypeOK, ProcessTyped
    <3> QED
      BY <3>2, <3>3, SplitTyped
  <2>2. CASE UNCHANGED << alive, streams >>
    BY <1>4, <2>2 DEF Greet, TypeOK
  <2> QED
    BY <1>4, <2>1, <2>2 DEF Greet
<1>5. CASE AddToEpoll
  BY <1>5 DEF AddToEpoll, EventOnAdd, TypeOK
<1>6. CASE EpollWait
  <2>1. pc' \in PCs /\ edge' \in BOOLEAN
    BY <1>6 DEF EpollWait, TypeOK
  <2> QED
    BY <1>6, <2>1 DEF EpollWait, TypeOK
<1>7. CASE NothingToRead
  <2>1. SidesTyped'
    BY <1>7 DEF NothingToRead, TypeOK, SidesTyped
  <2>2. ProcessTyped'
    BY <1>7 DEF NothingToRead, EndOfStream, NothingNow, TypeOK, ProcessTyped
  <2> QED
    BY <2>1, <2>2, SplitTyped
<1>8. CASE Read
  BY <1>8, ReadTyped
<1>9. CASE Reply
  <2>1. Head(reply) \in Units /\ Tail(reply) \in Seq(Units)
    BY <1>9, HeadTailType DEF Reply, ReplyBegun, TypeOK
  <2>2. CASE WriteTaken(client_socket_fd_, Head(reply))
    <3>0. socket = "connected" /\ socket # "hung_up"
      BY <2>2 DEF WriteTaken
    <3>1. pc' \in PCs /\ reply' = Tail(reply)
      BY <1>9, <3>0 DEF Reply, WriteKills
    <3> QED
      BY <1>9, <2>1, <2>2, <3>1, WriteType DEF Reply, TypeOK
  <2>3. CASE WriteKills(client_socket_fd_)
    <3>1. /\ UNCHANGED << reply, pc >>
          /\ UNCHANGED << serverVars, socket, edge, flags, message_map_, delivered, appVars >>
      BY <1>9, <2>3 DEF Reply, WriteTaken, WriteKills
    <3>2. SidesTyped'
      BY <2>1, <2>3, <3>1, WriteType DEF TypeOK, SidesTyped
    <3>3. ProcessTyped'
      BY <2>1, <2>3, <3>1, WriteType DEF TypeOK, ProcessTyped
    <3> QED
      BY <3>2, <3>3, SplitTyped
  <2> QED
    BY <1>9, <2>2, <2>3 DEF Reply
<1>10. CASE DeleteFromEpoll \/ Forget
  <2>1. CASE DeleteFromEpoll
    <3>1. SidesTyped'
      BY <2>1 DEF DeleteFromEpoll, TypeOK, SidesTyped
    <3>2. ProcessTyped'
      BY <2>1 DEF DeleteFromEpoll, TypeOK, ProcessTyped
    <3> QED
      BY <3>1, <3>2, SplitTyped
  <2>2. CASE Forget
    BY <2>2 DEF Forget, TypeOK
  <2> QED
    BY <1>10, <2>1, <2>2
<1>11. CASE Close
  <2>1. << >> \in Seq(Units) /\ Len(<< >>) <= Capacity
    BY EmptySeq
  <2> QED
    BY <1>11, <2>1 DEF Close, Unset, TypeOK
<1> QED
  BY <1>1, <1>2, <1>3, <1>4, <1>5, <1>6, <1>7, <1>8, <1>9, <1>10, <1>11 DEF MainHandler

LEMMA AppTyped ==
  ASSUME TypeOK, SendMessage \/ WriteMessage
  PROVE  TypeOK'
<1> USE DEF flags, parseVars, streams, serverVars
<1>1. CASE SendMessage
  <2>1. message_id + 1 \in 0..MaxSent /\ MaxSize \in 1..MaxSize
    BY <1>1 DEF SendMessage, TypeOK
  <2>2. sending' \in Seq(Units)
    BY <1>1, <2>1, Ids, NewMessageType DEF SendMessage
  <2> QED
    BY <1>1, <2>1, <2>2 DEF SendMessage, TypeOK
<1>2. CASE WriteMessage
  <2>1. Head(sending) \in Units /\ Tail(sending) \in Seq(Units)
    BY <1>2, HeadTailType DEF WriteMessage, TypeOK
  <2>2. /\ sending' \in Seq(Units)
        /\ UNCHANGED << serverVars, socket, edge, pc, flags, parseVars, message_id, write_fd >>
    BY <1>2, <2>1 DEF WriteMessage, TypeOK
  <2>3. WriteTaken(write_fd, Head(sending)) \/ WriteKills(write_fd)
    BY <1>2 DEF WriteMessage
  <2>4. SidesTyped'
    BY <2>1, <2>2, <2>3, WriteType DEF TypeOK, SidesTyped
  <2>5. ProcessTyped'
    BY <2>1, <2>2, <2>3, WriteType DEF TypeOK, ProcessTyped
  <2> QED
    BY <2>4, <2>5, SplitTyped
<1> QED
  BY <1>1, <1>2

\* Deliver starts an answer with at least its header, and Reply leaves when
\* nothing is left.
LEMMA ReplyStep ==
  ASSUME TypeOK, ReplyBegun, [Next]_vars
  PROVE  ReplyBegun'
<1> USE DEF ReplyBegun, Client, flags, parseVars, appVars, streams, serverVars, Goto
<1>1. CASE ServerProcess
  BY <1>1
  DEF ServerProcess, ServerStarts, ServerAccepts, ServerEnds, ServerSends, ServerWrites,
      ServerReads
<1>2. CASE MainHandler /\ ~Read /\ ~Reply
  BY <1>2
  DEF MainHandler, Top, Created, Connected, SetConnected, Connect, Greet, AddToEpoll,
      EpollWait, NothingToRead, EndOfStream, NothingNow, DeleteFromEpoll, Close, Forget
<1>3. CASE Read
  <2>1. \A i : NewMessage(Handler, i, MaxSize) # << >>
    <3> TAKE i
    <3>1. 1 \in DOMAIN NewMessage(Handler, i, MaxSize)
      BY DEF NewMessage
    <3> QED
      BY <3>1
  <2> QED
    BY <1>3, <2>1 DEF Read, Deliver
<1>4. CASE Reply
  BY <1>4 DEF Reply
<1>5. CASE SendMessage \/ WriteMessage
  BY <1>5 DEF SendMessage, WriteMessage
<1>6. CASE UNCHANGED vars
  BY <1>6 DEF vars
<1> QED
  BY <1>1, <1>2, <1>3, <1>4, <1>5, <1>6 DEF Next

\* Every variable has its type in every reachable state; in particular a full
\* socket never holds more than it takes, and the id that the callback answers
\* is always the id of a header.
THEOREM TypeCorrect == Spec => []TypeOK
<1>1. TypeOK /\ ReplyBegun /\ [Next]_vars => TypeOK' /\ ReplyBegun'
  <2> SUFFICES ASSUME TypeOK, ReplyBegun, [Next]_vars PROVE TypeOK'
    BY ReplyStep
  <2>1. CASE UNCHANGED vars
    BY <2>1 DEF vars, TypeOK, serverVars, streams, flags, parseVars, appVars
  <2> QED
    BY <2>1, ServerTyped, HandlerTyped, AppTyped DEF Next
<1> QED
  BY <1>1, InitTyped, PTL DEF Spec

-----------------------------------------------------------------------------
(* Edges.                                                                  *)

\* EPOLLET loses no input, wherever the server's writes fall between the steps
\* of MainHandler and its callback, on whatever socket it has by then.
THEOREM EdgesKept == Spec => []NoLostEdge
<1> USE DEF NoLostEdge, Client, flags, parseVars, appVars, streams, serverVars, Goto
<1>1. Init => NoLostEdge
  BY DEF Init
<1>2. NoLostEdge /\ [Next]_vars => NoLostEdge'
  <2> SUFFICES ASSUME NoLostEdge, [Next]_vars PROVE NoLostEdge'
    OBVIOUS
  <2>1. CASE ServerProcess
    BY <2>1
    DEF ServerProcess, ServerStarts, ServerAccepts, ServerEnds, ServerSends, ServerWrites,
        ServerReads, Watched
  <2>2. CASE Top \/ Created \/ Connect \/ Connected
    BY <2>2 DEF Top, Created, Connect, Connected, SetConnected
  <2>3. CASE Greet \/ AddToEpoll
    BY <2>3 DEF Greet, WriteTaken, WriteKills, AddToEpoll, EventOnAdd
  <2>4. CASE EpollWait \/ NothingToRead
    BY <2>4 DEF EpollWait, NothingToRead, EndOfStream, NothingNow
  <2>5. CASE Read \/ Reply
    BY <2>5 DEF Read, Deliver, Reply, WriteTaken, WriteKills
  <2>6. CASE DeleteFromEpoll \/ Close \/ Forget
    BY <2>6 DEF DeleteFromEpoll, Close, Forget
  <2>7. CASE SendMessage \/ WriteMessage
    BY <2>7 DEF SendMessage, WriteMessage, WriteTaken, WriteKills
  <2>8. CASE UNCHANGED vars
    BY <2>8 DEF vars
  <2> QED
    BY <2>1, <2>2, <2>3, <2>4, <2>5, <2>6, <2>7, <2>8 DEF Next, MainHandler
<1> QED
  BY <1>1, <1>2, PTL DEF Spec

-----------------------------------------------------------------------------
(* The callback: what a message is put together from.                      *)

Stored == message_map_[ServerCode]

\* The units a server may write.
Sent == [from : {Server}, id : 1..MaxMessages, size : 1..MaxSize, part : 1..MaxSize]

Elements(s) == {s[i] : i \in 1..Len(s)}

\* v is the k-th unit of the message of u.
Part(u, k, v) == v.id = u.id /\ v.size = u.size /\ v.part = k

\* From its first unit on, s holds the units of one message up to its last.
Runs(s) ==
  \A i \in 1..Len(s) : s[1].part + i - 1 <= s[1].size =>
                         Part(s[1], s[1].part + i - 1, s[i])

LastOf(s) == s[Len(s)]

\* What follows s is a header, or the next unit of the same message.
Follows(s, t) ==
  s # << >> /\ t # << >> =>
    \/ t[1].part = HeaderPart
    \/ Part(LastOf(s), LastOf(s).part + 1, t[1])

Ended(s) == LastOf(s).part = LastOf(s).size

\* What is stored begins with a header and is followed by what is to be read;
\* what is to be read is followed by what is to be written, the rest of one
\* message.
Pieces ==
  /\ Stored \in Seq(Sent) /\ to_client \in Seq(Sent) /\ server_sending \in Seq(Sent)
  /\ Runs(Stored) /\ Runs(to_client) /\ Runs(server_sending)
  /\ Stored # << >> => Stored[1].part = HeaderPart
  /\ server_sending # << >> =>
       server_sending[1].part + Len(server_sending) - 1 = server_sending[1].size

Junctions ==
  /\ Follows(Stored, to_client)
  /\ to_client = << >> => Follows(Stored, server_sending)
  /\ Follows(to_client, server_sending)
  /\ to_client # << >> /\ server_sending # << >> =>
       Ended(to_client) \/ server_sending[1].part # HeaderPart
  /\ socket = "connected" /\ to_client # << >> /\ server_sending = << >> => Ended(to_client)

Connection ==
  /\ socket # "connected" => server_sending = << >>
  /\ socket \in {"none", "created"} => to_client = << >>
  /\ client_socket_fd_ = NoFd => socket = "none"
  /\ socket = "connected" => listening

\* Units come in the order of their messages, after those of what was delivered.
Ordered ==
  /\ \A u \in Elements(Stored) \cup Elements(to_client), v \in Elements(server_sending) :
       u.id <= v.id /\ (server_sending[1].part = HeaderPart => u.id < v.id)
  /\ \A i \in DOMAIN delivered :
       \A u \in Elements(Stored) \cup Elements(to_client) \cup Elements(server_sending) :
         GetMessageId(delivered[i]) < u.id

\* What a connected client has got is older than what its server sends next.
\* (Not so without a connection: a server that starts numbers from 1 again.)
Bounded ==
  socket = "connected" =>
    /\ \A u \in Elements(Stored) \cup Elements(to_client) \cup Elements(server_sending) :
         u.id <= server_id
    /\ \A i \in DOMAIN delivered : GetMessageId(delivered[i]) <= server_id

\* A client connects once: isConnected_ is set from then on, except between
\* Forget and Created, where there is no socket to connect.
Once ==
  /\ ~isConnected_ /\ client_socket_fd_ # NoFd /\ pc \in {"top", "connect"} =>
       Stored = << >> /\ delivered = << >>
  /\ pc \in {"greet", "add", "wait", "read", "reply", "delete", "close"} => isConnected_
  /\ pc = "forget" => client_socket_fd_ = NoFd

Reassembly ==
  Pieces /\ Junctions /\ Connection /\ Ordered /\ Bounded /\ CallbackIntact

LEMMA UnitFields ==
  ASSUME NEW u \in Sent
  PROVE  /\ u.from = Server /\ u.id \in Nat /\ u.size \in Nat /\ u.part \in Nat
         /\ u.id \in 1..MaxMessages /\ u.size \in 1..MaxSize
  BY DEF Sent

\* The first unit of a sequence, the last one and those between.
LEMMA Elems ==
  ASSUME NEW S, NEW s \in Seq(S)
  PROVE  /\ Len(s) \in Nat
         /\ \A i \in 1..Len(s) : s[i] \in S /\ s[i] \in Elements(s)
         /\ Elements(s) \subseteq S
         /\ s # << >> => /\ Len(s) > 0 /\ s[1] \in S /\ LastOf(s) \in S
                         /\ s[1] \in Elements(s) /\ LastOf(s) \in Elements(s)
         /\ s = << >> => Len(s) = 0 /\ Elements(s) = {}
<1>1. Len(s) \in Nat /\ \A i \in 1..Len(s) : s[i] \in S
  BY ElementOfSeq, LenProperties
<1>2. s # << >> => Len(s) > 0
  BY <1>1, EmptySeq
<1>3. s = << >> => Len(s) = 0
  BY EmptySeq
<1> QED
  BY <1>1, <1>2, <1>3 DEF Elements, LastOf

\* In a run whose message is not at its end the last unit is the one it stands for.
LEMMA LastOfRun ==
  ASSUME NEW s \in Seq(Sent), s # << >>, Runs(s), s[1].part + Len(s) - 1 <= s[1].size
  PROVE  Part(s[1], s[1].part + Len(s) - 1, LastOf(s))
  BY Elems DEF Runs, LastOf

\* One more unit is written.
LEMMA RunsAppend ==
  ASSUME NEW s \in Seq(Sent), NEW e \in Sent, Runs(s),
         s # << >> => (e.part = HeaderPart /\ Ended(s)) \/ Part(LastOf(s), LastOf(s).part + 1, e)
  PROVE  Runs(Append(s, e))
<1> DEFINE a == Append(s, e)
<1>1. /\ a \in Seq(Sent) /\ Len(a) = Len(s) + 1 /\ Len(s) \in Nat
      /\ \A i \in 1..Len(s) : a[i] = s[i]
      /\ a[Len(s) + 1] = e
  BY AppendProperties, LenProperties
<1> HIDE DEF a
<1>2. CASE s = << >>
  <2>1. Len(a) = 1 /\ a[1] = e
    BY <1>1, <1>2, Elems
  <2>2. e.part \in Nat
    BY UnitFields
  <2> QED
    BY <2>1, <2>2 DEF Runs, Part, a
<1>3. CASE s # << >>
  <2>1. a[1] = s[1] /\ Len(s) > 0 /\ s[1] \in Sent /\ LastOf(s) \in Sent
    BY <1>1, <1>3, Elems
  <2>2. /\ s[1].part \in Nat /\ s[1].size \in Nat
        /\ LastOf(s).part \in Nat /\ LastOf(s).size \in Nat
    BY <2>1, UnitFields
  <2>3. ASSUME s[1].part + (Len(s) + 1) - 1 <= s[1].size
        PROVE  Part(s[1], s[1].part + (Len(s) + 1) - 1, e)
    <3>1. Part(s[1], s[1].part + Len(s) - 1, LastOf(s))
      BY <1>1, <1>3, <2>2, <2>3, LastOfRun
    <3>2. ~Ended(s)
      BY <1>1, <2>2, <2>3, <3>1 DEF Ended, Part
    <3> QED
      BY <1>1, <1>3, <2>2, <3>1, <3>2 DEF Part
  <2>4. \A i \in 1..Len(s) : s[1].part + i - 1 <= s[1].size => Part(s[1], s[1].part + i - 1, a[i])
    BY <1>1 DEF Runs
  <2>5. \A i \in 1..Len(a) : i \in 1..Len(s) \/ i = Len(s) + 1
    BY <1>1
  <2> QED
    BY <1>1, <2>1, <2>3, <2>4, <2>5 DEF Runs, a
<1> QED
  BY <1>2, <1>3

\* What is left of a message when its first unit is written.
LEMMA RunsTail ==
  ASSUME NEW t \in Seq(Sent), t # << >>, Runs(t), t[1].part + Len(t) - 1 = t[1].size
  PROVE  /\ Runs(Tail(t))
         /\ Tail(t) # << >> => /\ Part(t[1], t[1].part + 1, Tail(t)[1])
                               /\ Tail(t)[1].part + Len(Tail(t)) - 1 = Tail(t)[1].size
         /\ Tail(t) = << >> => t[1].part = t[1].size
<1> DEFINE r == Tail(t)
<1>1. /\ r \in Seq(Sent) /\ Len(r) = Len(t) - 1 /\ Len(t) \in Nat /\ Len(t) > 0
      /\ \A i \in 1..Len(r) : r[i] = t[i + 1]
      /\ t[1] \in Sent
  BY HeadTailProperties, Elems
<1> HIDE DEF r
<1>2. t[1].part \in Nat /\ t[1].size \in Nat
  BY <1>1, UnitFields
<1>3. CASE r = << >>
  <2>1. Len(r) = 0
    BY <1>3, EmptySeq
  <2>2. Runs(r)
    BY <2>1 DEF Runs
  <2>3. Len(t) = 1
    BY <1>1, <2>1
  <2>4. t[1].part = t[1].size
    BY <1>2, <2>3
  <2> QED
    BY <1>3, <2>2, <2>4 DEF r
<1>4. CASE r # << >>
  <2>1. Len(r) > 0 /\ r[1] = t[2]
    BY <1>1, <1>4, Elems
  <2>2. Part(t[1], t[1].part + 1, r[1])
    BY <1>1, <1>2, <2>1 DEF Runs
  <2>3. \A i \in 1..Len(r) : Part(t[1], t[1].part + i, r[i])
    <3> SUFFICES ASSUME NEW i \in 1..Len(r) PROVE Part(t[1], t[1].part + i, r[i])
      OBVIOUS
    <3>1. i + 1 \in 1..Len(t) /\ r[i] = t[i + 1] /\ t[1].part + (i + 1) - 1 = t[1].part + i
      BY <1>1, <1>2
    <3>2. t[1].part + (i + 1) - 1 <= t[1].size
      BY <1>1, <1>2
    <3> QED
      BY <3>1, <3>2 DEF Runs
  <2>4. Runs(r)
    BY <1>1, <1>2, <2>2, <2>3 DEF Runs, Part
  <2> QED
    BY <1>1, <1>2, <1>4, <2>2, <2>4 DEF Part, r
<1> QED
  BY <1>3, <1>4

\* The next part is stored behind the first ones.
LEMMA RunsConcat ==
  ASSUME NEW s \in Seq(Sent), NEW t \in Seq(Sent), s # << >>, t # << >>,
         Runs(s), Runs(t), s[1].part = HeaderPart,
         Part(LastOf(s), LastOf(s).part + 1, t[1])
  PROVE  Runs(s \o t) /\ (s \o t)[1] = s[1]
<1> DEFINE c == s \o t
<1>1. /\ c \in Seq(Sent) /\ Len(c) = Len(s) + Len(t)
      /\ \A i \in 1..Len(c) : c[i] = IF i <= Len(s) THEN s[i] ELSE t[i - Len(s)]
  BY ConcatProperties
<1>2. /\ Len(s) \in Nat /\ Len(s) > 0 /\ Len(t) \in Nat /\ Len(t) > 0
      /\ s[1] \in Sent /\ t[1] \in Sent /\ LastOf(s) \in Sent
  BY Elems
<1>3. /\ s[1].size \in Nat /\ s[1].part = 1
      /\ LastOf(s).part \in Nat /\ LastOf(s).size \in Nat /\ t[1].part \in Nat
  BY <1>2, UnitFields DEF HeaderPart
<1> HIDE DEF c
<1>4. c[1] = s[1]
  BY <1>1, <1>2
<1>5. ASSUME NEW i \in 1..Len(c), i <= s[1].size
      PROVE  Part(s[1], i, c[i])
  <2>1. CASE i <= Len(s)
    <3>1. s[1].part + i - 1 = i /\ i \in 1..Len(s) /\ c[i] = s[i]
      BY <1>1, <1>2, <1>3, <2>1
    <3> QED
      BY <1>5, <3>1 DEF Runs
  <2>2. CASE i > Len(s)
    <3>1. s[1].part + Len(s) - 1 = Len(s) /\ Len(s) <= s[1].size
      BY <1>2, <1>3, <1>5, <2>2
    <3>2. Part(s[1], Len(s), LastOf(s))
      BY <3>1, LastOfRun
    <3>3. Part(s[1], Len(s) + 1, t[1])
      BY <1>2, <1>3, <3>2 DEF Part
    <3>4. i - Len(s) \in 1..Len(t) /\ c[i] = t[i - Len(s)]
      BY <1>1, <1>2, <2>2
    <3>5. t[1].part + (i - Len(s)) - 1 = i /\ t[1].size = s[1].size /\ t[1].id = s[1].id
      BY <1>2, <1>3, <3>3 DEF Part
    <3>6. Part(t[1], i, t[i - Len(s)])
      BY <1>5, <3>4, <3>5 DEF Runs
    <3> QED
      BY <3>4, <3>5, <3>6 DEF Part
  <2> QED
    BY <1>1, <1>2, <2>1, <2>2
<1>6. Runs(c)
  <2> SUFFICES ASSUME NEW i \in 1..Len(c), c[1].part + i - 1 <= c[1].size
               PROVE  Part(c[1], c[1].part + i - 1, c[i])
    BY DEF Runs
  <2>1. c[1].part + i - 1 = i
    BY <1>1, <1>2, <1>3, <1>4
  <2> QED
    BY <1>4, <1>5, <2>1
<1> QED
  BY <1>4, <1>6 DEF c

\* A run that begins with a header and is as long as it says is a message.
LEMMA WholeMessage ==
  ASSUME NEW s \in Seq(Sent), s # << >>, Runs(s), s[1].part = HeaderPart, s[1].size = Len(s)
  PROVE  s = NewMessage(Server, s[1].id, s[1].size)
<1>1. /\ Len(s) \in Nat /\ Len(s) > 0 /\ s[1] \in Sent
      /\ \A i \in 1..Len(s) : s[i] \in Sent
  BY Elems
<1>2. s[1].part = 1 /\ s[1].size \in Nat
  BY <1>1, UnitFields DEF HeaderPart
<1>3. ASSUME NEW i \in 1..Len(s)
      PROVE  s[i] = [from |-> Server, id |-> s[1].id, size |-> s[1].size, part |-> i]
  <2>1. s[1].part + i - 1 = i /\ i <= s[1].size
    BY <1>1, <1>2
  <2>2. s[i].id = s[1].id /\ s[i].size = s[1].size /\ s[i].part = i
    BY <2>1 DEF Runs, Part
  <2>3. s[i] \in Sent
    BY <1>1
  <2> QED
    BY <2>2, <2>3 DEF Sent
<1>4. s \in [1..Len(s) -> Sent]
  BY LenProperties
<1> QED
  BY <1>3, <1>4 DEF NewMessage

LEMMA NewMessageRuns ==
  \A i \in Nat, n \in 1..MaxSize :
    LET t == NewMessage(Server, i, n)
    IN  /\ t # << >> /\ Len(t) = n /\ Runs(t)
        /\ t[1].part = HeaderPart /\ t[1].size = n
        /\ \A j \in 1..n : t[j] = [from |-> Server, id |-> i, size |-> n, part |-> j]
<1> TAKE i \in Nat, n \in 1..MaxSize
<1> DEFINE t == NewMessage(Server, i, n)
<1>1. \A j \in 1..n : t[j] = [from |-> Server, id |-> i, size |-> n, part |-> j]
  BY DEF NewMessage
<1>2. t \in Seq([from : {Server}, id : {i}, size : {n}, part : 1..n])
  <2> DEFINE U == [from : {Server}, id : {i}, size : {n}, part : 1..n]
  <2>1. t \in [1..n -> U]
    BY <1>1 DEF NewMessage
  <2> HIDE DEF U
  <2>2. t \in Seq(U)
    BY <2>1, SeqDef
  <2> QED
    BY <2>2 DEF U
<1>3. Len(t) = n
  <2>1. DOMAIN t = 1..n
    BY DEF NewMessage
  <2> QED
    BY <1>2, <2>1, LenProperties
<1>4. t # << >> /\ t[1].part = HeaderPart /\ t[1].size = n
  BY <1>1, <1>3, EmptySeq DEF HeaderPart
<1>5. Runs(t)
  BY <1>1, <1>3 DEF Runs, Part
<1> QED
  BY <1>1, <1>3, <1>4, <1>5

LEMMA NoUnits ==
  /\ << >> \in Seq(Sent) /\ Runs(<< >>) /\ Elements(<< >>) = {}
  /\ \A s : Follows(s, << >>) /\ Follows(<< >>, s)
<1>1. << >> \in Seq(Sent) /\ Len(<< >>) = 0
  BY EmptySeq
<1> QED
  BY <1>1 DEF Runs, Elements, Follows

\* What the callback was given stays as it should be while more is sent.
LEMMA IntactStays ==
  ASSUME CallbackIntact, delivered' = delivered
  PROVE  CallbackIntact'
  BY DEF CallbackIntact

\* A connection comes or goes; what is on its way stays.
LEMMA SocketOnly ==
  ASSUME Reassembly,
         UNCHANGED << message_map_, to_client, server_sending, delivered >>,
         Connection', Bounded', socket' = "connected" => socket = "connected" \/ to_client = << >>
  PROVE  Reassembly'
<1>1. Pieces' /\ Ordered'
  BY DEF Reassembly, Pieces, Ordered, Stored, Sent
<1>2. Junctions'
  BY DEF Reassembly, Junctions, Stored
<1>3. CallbackIntact'
  BY IntactStays DEF Reassembly
<1> QED
  BY <1>1, <1>2, <1>3 DEF Reassembly

\* What was on its way is lost with the connection.
LEMMA Dropped ==
  ASSUME Reassembly,
         UNCHANGED << message_map_, delivered >>,
         server_sending' = << >>, to_client' \in {to_client, << >>},
         socket' # "connected", Connection'
  PROVE  Reassembly'
<1>1. UNCHANGED << Stored, Sent >>
  BY DEF Stored, Sent
<1>2. Pieces'
  BY <1>1, NoUnits DEF Reassembly, Pieces
<1>3. Junctions'
  BY <1>1, NoUnits DEF Reassembly, Junctions
<1>4. Ordered'
  <2>1. /\ Elements(server_sending') = {} /\ Elements(to_client') \subseteq Elements(to_client)
        /\ Stored' = Stored
    BY <1>1, NoUnits
  <2> QED
    BY <2>1 DEF Reassembly, Ordered
<1>5. CallbackIntact' /\ Bounded'
  BY IntactStays DEF Reassembly, Bounded
<1> QED
  BY <1>2, <1>3, <1>4, <1>5 DEF Reassembly

LEMMA SendsStep ==
  ASSUME TypeOK, Reassembly, ServerSends
  PROVE  Reassembly'
<1>1. /\ server_id \in Nat /\ server_id' = server_id + 1 /\ server_id' \in Nat
      /\ server_id' \in 1..MaxMessages
      /\ socket = "connected" /\ server_sending = << >>
      /\ UNCHANGED << message_map_, delivered, to_client, socket, client_socket_fd_, listening >>
  BY DEF ServerSends, TypeOK, Client, streams, parseVars, flags
<1>2. PICK n \in 1..MaxSize : server_sending' = NewMessage(Server, server_id', n)
  BY <1>1 DEF ServerSends
<1>3. /\ server_sending' # << >> /\ Len(server_sending') = n /\ Runs(server_sending')
      /\ server_sending'[1].part = HeaderPart /\ server_sending'[1].size = n
      /\ \A j \in 1..n : server_sending'[j] =
                           [from |-> Server, id |-> server_id', size |-> n, part |-> j]
  <2>1. PICK k \in Nat : k = server_id'
    BY <1>1
  <2>2. LET t == NewMessage(Server, k, n)
        IN  /\ t # << >> /\ Len(t) = n /\ Runs(t)
            /\ t[1].part = HeaderPart /\ t[1].size = n
            /\ \A j \in 1..n : t[j] = [from |-> Server, id |-> k, size |-> n, part |-> j]
    BY NewMessageRuns
  <2> QED
    BY <1>2, <2>1, <2>2
<1>4. Sent' = Sent
  BY DEF Sent
<1>5. server_sending' \in Seq(Sent')
  <2>1. server_sending' \in [1..n -> Sent']
    BY <1>1, <1>2 DEF NewMessage, Sent
  <2> QED
    BY <2>1, SeqDef
<1>6. Stored' = Stored
  BY <1>1 DEF Stored
<1>7. Pieces'
  <2>1. server_sending'[1].part + Len(server_sending') - 1 = server_sending'[1].size
    BY <1>3 DEF HeaderPart
  <2>2. /\ Stored' \in Seq(Sent') /\ to_client' \in Seq(Sent') /\ Runs(Stored') /\ Runs(to_client')
        /\ Stored' # << >> => Stored'[1].part = HeaderPart
    BY <1>1, <1>4, <1>6 DEF Reassembly, Pieces
  <2> QED
    BY <1>3, <1>5, <2>1, <2>2 DEF Pieces
<1>8. Junctions'
  <2>1. to_client # << >> => Ended(to_client)
    BY <1>1 DEF Reassembly, Junctions
  <2>2. Follows(Stored, to_client)
    BY DEF Reassembly, Junctions
  <2>3. \A s : Follows(s, server_sending')
    BY <1>3 DEF Follows
  <2> QED
    BY <1>1, <1>3, <1>6, <2>1, <2>2, <2>3 DEF Junctions
<1>9. Connection'
  BY <1>1 DEF Reassembly, Connection
<1>10. Ordered'
  <2>1. \A v \in Elements(server_sending') : v.id = server_id + 1
    BY <1>1, <1>3 DEF Elements
  <2>2. \A u \in Elements(Stored) \cup Elements(to_client) : u.id \in 1..server_id
    <3>1. Elements(Stored) \subseteq Sent /\ Elements(to_client) \subseteq Sent
      BY Elems DEF Reassembly, Pieces
    <3>2. \A u \in Elements(Stored) \cup Elements(to_client) : u.id <= server_id
      BY <1>1 DEF Reassembly, Bounded
    <3> QED
      BY <1>1, <3>1, <3>2, UnitFields
  <2>3. \A i \in DOMAIN delivered : GetMessageId(delivered[i]) \in 1..server_id
    <3> SUFFICES ASSUME NEW i \in DOMAIN delivered
                 PROVE  GetMessageId(delivered[i]) \in 1..server_id
      OBVIOUS
    <3>1. PICK id \in 1..MaxMessages, k \in 1..MaxSize : delivered[i] = NewMessage(Server, id, k)
      BY DEF Reassembly, CallbackIntact
    <3>2. GetMessageId(delivered[i]) = id
      BY <3>1 DEF NewMessage, GetMessageId
    <3> QED
      BY <1>1, <3>2 DEF Reassembly, Bounded
  <2>4. \A i \in DOMAIN delivered, u \in Elements(Stored) \cup Elements(to_client) :
          GetMessageId(delivered[i]) < u.id
    BY DEF Reassembly, Ordered
  <2>5. \A i \in DOMAIN delivered, u \in Elements(server_sending') :
          GetMessageId(delivered[i]) < u.id
    BY <1>1, <2>1, <2>3
  <2>6. \A u \in Elements(Stored) \cup Elements(to_client), v \in Elements(server_sending') :
          u.id < v.id /\ u.id <= v.id
    BY <1>1, <2>1, <2>2
  <2> QED
    BY <1>1, <1>6, <2>4, <2>5, <2>6 DEF Ordered
<1>11. CallbackIntact'
  BY <1>1, IntactStays DEF Reassembly
<1>12. Bounded'
  <2>1. \A v \in Elements(server_sending') : v.id = server_id + 1
    BY <1>1, <1>3 DEF Elements
  <2>2. Elements(Stored) \subseteq Sent /\ Elements(to_client) \subseteq Sent
    BY Elems DEF Reassembly, Pieces
  <2>3. \A u \in Elements(Stored) \cup Elements(to_client) : u.id <= server_id /\ u.id \in Nat
    BY <1>1, <2>2, UnitFields DEF Reassembly, Bounded
  <2>4. \A u \in Elements(Stored) \cup Elements(to_client) \cup Elements(server_sending') :
          u.id <= server_id + 1
    BY <1>1, <2>1, <2>3
  <2>5. \A i \in DOMAIN delivered :
          GetMessageId(delivered[i]) <= server_id /\ GetMessageId(delivered[i]) \in Nat
    <3> SUFFICES ASSUME NEW i \in DOMAIN delivered
                 PROVE  GetMessageId(delivered[i]) <= server_id /\ GetMessageId(delivered[i]) \in Nat
      OBVIOUS
    <3>1. PICK id \in 1..MaxMessages, k \in 1..MaxSize : delivered[i] = NewMessage(Server, id, k)
      BY DEF Reassembly, CallbackIntact
    <3>2. GetMessageId(delivered[i]) = id
      BY <3>1 DEF NewMessage, GetMessageId
    <3> QED
      BY <1>1, <3>2 DEF Reassembly, Bounded
  <2>6. \A i \in DOMAIN delivered : GetMessageId(delivered[i]) <= server_id + 1
    BY <1>1, <2>5
  <2> QED
    BY <1>1, <1>6, <2>4, <2>6 DEF Bounded
<1> QED
  BY <1>7, <1>8, <1>9, <1>10, <1>11, <1>12 DEF Reassembly

LEMMA WritesStep ==
  ASSUME TypeOK, Reassembly, ServerWrites
  PROVE  Reassembly'
<1> DEFINE e == Head(server_sending)
           r == Tail(server_sending)
           c == Append(to_client, Head(server_sending))
<1>1. /\ server_sending # << >> /\ socket = "connected" /\ server_id \in Nat
      /\ to_client' = c /\ server_sending' = r
      /\ UNCHANGED << message_map_, delivered, server_id, socket, client_socket_fd_, listening >>
  BY DEF ServerWrites, TypeOK, Client, parseVars, flags
<1>2. /\ Stored \in Seq(Sent) /\ to_client \in Seq(Sent) /\ server_sending \in Seq(Sent)
      /\ Runs(to_client) /\ Runs(server_sending)
      /\ server_sending[1].part + Len(server_sending) - 1 = server_sending[1].size
  BY <1>1 DEF Reassembly, Pieces
<1>3. /\ e = server_sending[1] /\ e \in Sent /\ e \in Elements(server_sending)
      /\ r \in Seq(Sent) /\ Elements(r) \subseteq Elements(server_sending)
      /\ e.part \in Nat /\ e.size \in Nat
  <2>1. e = server_sending[1] /\ e \in Sent /\ e \in Elements(server_sending)
    BY <1>1, <1>2, Elems
  <2>2. /\ r \in Seq(Sent) /\ Len(r) = Len(server_sending) - 1
        /\ \A i \in 1..Len(r) : r[i] = server_sending[i + 1]
    BY <1>1, <1>2, HeadTailProperties
  <2>3. Elements(r) \subseteq Elements(server_sending)
    BY <1>2, <2>2, LenProperties DEF Elements
  <2> QED
    BY <2>1, <2>2, <2>3, UnitFields
<1>4. /\ Runs(r)
      /\ r # << >> => /\ Part(e, e.part + 1, r[1]) /\ r[1].part + Len(r) - 1 = r[1].size
                     /\ r[1].part # HeaderPart
      /\ r = << >> => e.part = e.size
  <2>1. /\ Runs(r)
        /\ r # << >> => Part(e, e.part + 1, r[1]) /\ r[1].part + Len(r) - 1 = r[1].size
        /\ r = << >> => e.part = e.size
    BY <1>1, <1>2, <1>3, RunsTail
  <2> HIDE DEF e, r
  <2>2. e.part \in 1..MaxSize
    BY <1>3 DEF Sent
  <2>3. r # << >> => r[1].part # HeaderPart
    BY <2>1, <2>2 DEF Part, HeaderPart
  <2> QED
    BY <2>1, <2>3
<1>5. /\ c \in Seq(Sent) /\ c # << >> /\ LastOf(c) = e
      /\ Elements(c) = Elements(to_client) \cup {e}
      /\ c[1] = IF to_client = << >> THEN e ELSE to_client[1]
  <2>1. /\ c \in Seq(Sent) /\ c # << >> /\ Len(c) = Len(to_client) + 1 /\ Len(to_client) \in Nat
        /\ \A i \in 1..Len(to_client) : c[i] = to_client[i]
        /\ c[Len(to_client) + 1] = e
    BY <1>2, <1>3, AppendProperties, LenProperties
  <2>2. to_client # << >> => Len(to_client) > 0
    BY <1>2, Elems
  <2>3. to_client = << >> => Len(to_client) = 0
    BY <1>2, Elems
  <2> HIDE DEF c, e
  <2>4. LastOf(c) = e /\ Elements(c) = Elements(to_client) \cup {e}
    BY <2>1 DEF LastOf, Elements
  <2>5. c[1] = IF to_client = << >> THEN e ELSE to_client[1]
    BY <2>1, <2>2, <2>3
  <2> QED
    BY <2>1, <2>4, <2>5
<1>6. to_client # << >> =>
        (e.part = HeaderPart /\ Ended(to_client)) \/ Part(LastOf(to_client), LastOf(to_client).part + 1, e)
  BY <1>1, <1>3 DEF Reassembly, Junctions, Follows
<1>7. Runs(c)
  BY <1>2, <1>3, <1>6, RunsAppend
<1>8. Stored' = Stored /\ Sent' = Sent
  BY <1>1 DEF Stored, Sent
<1> HIDE DEF e, r, c
<1>9. Pieces'
  BY <1>1, <1>3, <1>4, <1>5, <1>7, <1>8 DEF Reassembly, Pieces
<1>10. Junctions'
  <2>1. Follows(Stored, c)
    <3>1. Stored # << >> => c[1].part = HeaderPart \/ Part(LastOf(Stored), LastOf(Stored).part + 1, c[1])
      BY <1>1, <1>3, <1>5 DEF Reassembly, Junctions, Follows
    <3> QED
      BY <3>1 DEF Follows
  <2>2. Follows(c, r)
    BY <1>4, <1>5 DEF Follows
  <2>3. r = << >> => Ended(c)
    BY <1>4, <1>5 DEF Ended
  <2> QED
    BY <1>1, <1>4, <1>5, <1>8, <2>1, <2>2, <2>3 DEF Junctions
<1>11. Connection'
  BY <1>1 DEF Reassembly, Connection
<1>12. Ordered'
  <2>1. \A v \in Elements(r) : e.id <= v.id
    <3> SUFFICES ASSUME NEW v \in Elements(r) PROVE e.id <= v.id
      OBVIOUS
    <3>1. PICK i \in 1..Len(r) : v = r[i]
      BY DEF Elements
    <3>2. r # << >> /\ Len(r) \in Nat /\ r[1] \in Sent
      BY <1>3, <3>1, Elems
    <3>3. r[1].part \in Nat /\ r[1].part + i - 1 <= r[1].size
      BY <1>4, <3>1, <3>2, UnitFields
    <3>4. v.id = e.id
      BY <1>4, <3>1, <3>2, <3>3 DEF Runs, Part
    <3>5. e.id \in Nat
      BY <1>3, UnitFields
    <3> QED
      BY <3>4, <3>5
  <2>2. \A u \in Elements(Stored) \cup Elements(to_client), v \in Elements(server_sending) : u.id <= v.id
    BY DEF Reassembly, Ordered
  <2>3. \A u \in Elements(Stored) \cup Elements(c), v \in Elements(r) : u.id <= v.id
    BY <1>3, <1>5, <2>1, <2>2
  <2>4. Elements(r) # {} => r # << >>
    BY NoUnits
  <2>5. \A i \in DOMAIN delivered :
          \A u \in Elements(Stored) \cup Elements(c) \cup Elements(r) : GetMessageId(delivered[i]) < u.id
    BY <1>3, <1>5 DEF Reassembly, Ordered
  <2> QED
    BY <1>1, <1>4, <1>8, <2>3, <2>4, <2>5 DEF Ordered
<1>13. CallbackIntact'
  BY <1>1, IntactStays DEF Reassembly
<1>14. Bounded'
  BY <1>1, <1>3, <1>5, <1>8 DEF Reassembly, Bounded
<1> QED
  BY <1>9, <1>10, <1>11, <1>12, <1>13, <1>14 DEF Reassembly

\* A chunk c that begins with a header is put in place of what was stored.
LEMMA DeliverStep ==
  ASSUME TypeOK, Reassembly, NEW map, NEW c \in Seq(Sent), map \in [{ServerCode} -> Seq(Sent)],
         map[ServerCode] = c, c # << >>, Runs(c), c[1].part = HeaderPart,
         to_client # << >>, LastOf(c) = LastOf(to_client),
         Elements(c) \subseteq Elements(Stored) \cup Elements(to_client),
         Deliver(map), to_client' = << >>,
         UNCHANGED << server_sending, server_id, socket, client_socket_fd_, listening >>
  PROVE  Reassembly'
<1>1. Sent' = Sent /\ server_id \in Nat
  BY DEF Sent, TypeOK
<1>2. Connection'
  BY DEF Reassembly, Connection
<1>3. c[1] \in Sent /\ c[1] \in Elements(c) /\ LastOf(c) \in Sent /\ Len(c) \in Nat /\ Len(c) > 0
  BY Elems
<1>4. /\ server_sending \in Seq(Sent) /\ Runs(server_sending)
      /\ server_sending # << >> =>
           server_sending[1].part + Len(server_sending) - 1 = server_sending[1].size
      /\ Follows(c, server_sending)
  BY DEF Reassembly, Pieces, Junctions, Follows
<1>5. CASE ~IsPerfectMessage(map, ServerCode)
  <2>1. Stored' = c /\ delivered' = delivered
    BY <1>5 DEF Deliver, Stored
  <2>2. Pieces'
    BY <1>1, <1>4, <2>1, NoUnits DEF Pieces
  <2>3. Junctions'
    BY <1>4, <2>1, NoUnits DEF Junctions
  <2>4. Elements(to_client') = {}
    BY NoUnits
  <2>5. Ordered'
    BY <2>1, <2>4 DEF Reassembly, Ordered
  <2>6. CallbackIntact'
    BY <1>1, <2>1, IntactStays DEF Reassembly
  <2>7. Bounded'
    BY <2>1, <2>4 DEF Reassembly, Bounded
  <2> QED
    BY <1>2, <2>2, <2>3, <2>5, <2>6, <2>7 DEF Reassembly
<1>6. CASE IsPerfectMessage(map, ServerCode)
  <2>1. c[1].size = Len(c)
    BY <1>6 DEF IsPerfectMessage, GetMessageFullSize
  <2>2. Stored' = << >> /\ delivered' = Append(delivered, c)
    BY <1>6 DEF Deliver, Stored, MessagePop, NoMessage
  <2>3. c = NewMessage(Server, c[1].id, c[1].size)
    BY <2>1, WholeMessage
  <2>4. Pieces'
    BY <1>1, <1>4, <2>2, NoUnits DEF Pieces
  <2>5. Junctions'
    BY <2>2, NoUnits DEF Junctions
  <2>6. \A i \in DOMAIN delivered : GetMessageId(delivered[i]) < GetMessageId(c)
    BY <1>3 DEF Reassembly, Ordered, GetMessageId
  <2>7. delivered \in Seq(Seq(Units))
    BY DEF TypeOK
  <2>8. /\ Len(delivered) \in Nat /\ DOMAIN delivered = 1..Len(delivered)
        /\ DOMAIN delivered' = 1..(Len(delivered) + 1)
        /\ \A i \in DOMAIN delivered : delivered'[i] = delivered[i]
        /\ delivered'[Len(delivered) + 1] = c
    <3>1. c \in Seq(Units)
      <4>1. Sent \subseteq Units
        <5>1. 1..MaxMessages \subseteq 0..MaxId
          BY Ids
        <5> QED
          BY <5>1 DEF Sent, Units, Unit
      <4> QED
        BY <4>1, SeqMonotonic
    <3> QED
      BY <2>2, <2>7, <3>1, AppendProperties, LenProperties
  <2>9. \A v \in Elements(server_sending) : GetMessageId(c) < v.id
    <3> SUFFICES ASSUME NEW v \in Elements(server_sending) PROVE c[1].id < v.id
      BY DEF GetMessageId
    <3>1. server_sending # << >>
      BY NoUnits
    <3>2. server_sending[1].part = HeaderPart
      <4>1. /\ server_sending[1] \in Sent /\ Len(server_sending) \in Nat /\ Len(server_sending) > 0
        BY <1>4, <3>1, Elems
      <4>2. /\ c[1].part = 1 /\ c[1].size \in Nat /\ LastOf(c).part \in Nat
            /\ server_sending[1].part \in Nat /\ server_sending[1].size \in Nat
        BY <1>3, <4>1, UnitFields DEF HeaderPart
      <4>3. Part(c[1], Len(c), LastOf(c))
        <5>1. c[1].part + Len(c) - 1 = Len(c)
          BY <1>3, <4>2
        <5> QED
          BY <2>1, <5>1, <1>3, LastOfRun
      <4>4. ~Part(LastOf(c), LastOf(c).part + 1, server_sending[1])
        BY <1>3, <1>4, <2>1, <3>1, <4>1, <4>2, <4>3 DEF Part
      <4> QED
        BY <1>4, <3>1, <4>4 DEF Follows
    <3> QED
      BY <1>3, <3>2 DEF Reassembly, Ordered
  <2>10. Ordered'
    <3>1. Elements(Stored') = {} /\ Elements(to_client') = {}
      BY <2>2, NoUnits
    <3>2. \A i \in DOMAIN delivered' : \A u \in Elements(server_sending) : GetMessageId(delivered'[i]) < u.id
      BY <2>8, <2>9 DEF Reassembly, Ordered
    <3> QED
      BY <3>1, <3>2 DEF Ordered
  <2>11. CallbackIntact'
    <3>1. ASSUME NEW i \in DOMAIN delivered'
          PROVE  /\ \E id \in 1..MaxMessages, n \in 1..MaxSize : delivered'[i] = NewMessage(Server, id, n)
                 /\ \A j \in 1..(i - 1) : GetMessageId(delivered'[j]) < GetMessageId(delivered'[i])
      <4>1. CASE i \in DOMAIN delivered
        <5>1. \A j \in 1..(i - 1) : j \in DOMAIN delivered
          BY <2>8, <4>1
        <5> QED
          BY <2>8, <4>1, <5>1 DEF Reassembly, CallbackIntact
      <4>2. CASE i = Len(delivered) + 1
        <5>1. \A j \in 1..(i - 1) : j \in DOMAIN delivered
          BY <2>8, <4>2
        <5>2. c[1].id \in 1..MaxMessages /\ c[1].size \in 1..MaxSize
          BY <1>3, UnitFields
        <5> QED
          BY <2>3, <2>6, <2>8, <4>2, <5>1, <5>2
      <4> QED
        BY <2>8, <3>1, <4>1, <4>2
    <3> QED
      BY <3>1 DEF CallbackIntact
  <2>12. Bounded'
    <3>1. socket = "connected" => GetMessageId(c) <= server_id
      BY <1>3 DEF Reassembly, Bounded, GetMessageId
    <3>2. Elements(Stored') = {} /\ Elements(to_client') = {}
      BY <2>2, NoUnits
    <3>3. socket = "connected" => \A i \in DOMAIN delivered' : GetMessageId(delivered'[i]) <= server_id
      BY <2>8, <3>1 DEF Reassembly, Bounded
    <3> QED
      BY <3>2, <3>3 DEF Reassembly, Bounded
  <2> QED
    BY <1>2, <2>4, <2>5, <2>10, <2>11, <2>12 DEF Reassembly
<1> QED
  BY <1>5, <1>6

LEMMA ReadStep ==
  ASSUME TypeOK, Reassembly, Read
  PROVE  Reassembly'
<1>1. /\ to_client # << >> /\ to_client' = << >> /\ server_id \in Nat
      /\ UNCHANGED << server_sending, server_id, socket, client_socket_fd_, listening >>
  BY DEF Read, TypeOK, serverVars, flags
<1>2. /\ Stored \in Seq(Sent) /\ to_client \in Seq(Sent) /\ Runs(Stored) /\ Runs(to_client)
      /\ Stored # << >> => Stored[1].part = HeaderPart
      /\ Follows(Stored, to_client)
      /\ message_map_ \in [{ServerCode} -> Seq(Sent)]
  <2>1. message_map_ = [k \in {ServerCode} |-> Stored]
    BY DEF TypeOK, Stored
  <2> QED
    BY <2>1 DEF Reassembly, Pieces, Junctions
<1>3. CASE IsHeader(to_client)
  <2>1. /\ Add(message_map_, ServerCode, to_client) \in [{ServerCode} -> Seq(Sent)]
        /\ Add(message_map_, ServerCode, to_client)[ServerCode] = to_client
    BY <1>2 DEF Add
  <2>2. Deliver(Add(message_map_, ServerCode, to_client))
    BY <1>3 DEF Read
  <2>3. to_client[1].part = HeaderPart
    BY <1>3 DEF IsHeader
  <2> QED
    BY <1>1, <1>2, <2>1, <2>2, <2>3, DeliverStep
<1>4. CASE ~IsHeader(to_client) /\ Stored # << >>
  <2> DEFINE c == Stored \o to_client
  <2>1. to_client[1].part # HeaderPart
    BY <1>4 DEF IsHeader
  <2>2. Runs(c) /\ c[1] = Stored[1]
    BY <1>1, <1>2, <1>4, <2>1, RunsConcat DEF Follows
  <2>3. /\ c \in Seq(Sent) /\ c # << >> /\ LastOf(c) = LastOf(to_client)
        /\ Elements(c) \subseteq Elements(Stored) \cup Elements(to_client)
    <3>1. /\ c \in Seq(Sent) /\ Len(c) = Len(Stored) + Len(to_client)
          /\ \A i \in 1..Len(c) : c[i] = IF i <= Len(Stored) THEN Stored[i] ELSE to_client[i - Len(Stored)]
      BY <1>2, ConcatProperties
    <3>2. Len(Stored) \in Nat /\ Len(to_client) \in Nat /\ Len(to_client) > 0
      BY <1>1, <1>2, Elems
    <3> HIDE DEF c
    <3>3. Len(c) > 0 /\ c[Len(c)] = to_client[Len(to_client)]
      BY <3>1, <3>2
    <3>4. Elements(c) \subseteq Elements(Stored) \cup Elements(to_client)
      BY <3>1, <3>2 DEF Elements
    <3>5. c # << >>
      BY <3>3, EmptySeq
    <3> QED
      BY <3>1, <3>3, <3>4, <3>5 DEF LastOf
  <2>4. /\ Add(message_map_, ServerCode, c) \in [{ServerCode} -> Seq(Sent)]
        /\ Add(message_map_, ServerCode, c)[ServerCode] = c
    BY <1>2, <2>3 DEF Add
  <2>5. Deliver(Add(message_map_, ServerCode, c))
    BY <1>4 DEF Read, IsExistMessage, NoMessage, AppendData, Stored
  <2>6. c[1].part = HeaderPart
    BY <1>2, <1>4, <2>2
  <2> HIDE DEF c
  <2> QED
    BY <1>1, <2>2, <2>3, <2>4, <2>5, <2>6, DeliverStep
<1>5. CASE ~IsHeader(to_client) /\ Stored = << >>
  <2>1. Deliver(message_map_) /\ ~IsPerfectMessage(message_map_, ServerCode)
    BY <1>5 DEF Read, IsExistMessage, NoMessage, Stored, IsPerfectMessage
  <2>2. message_map_' = message_map_ /\ delivered' = delivered /\ Stored' = << >>
    BY <1>5, <2>1 DEF Deliver, Stored
  <2>3. Sent' = Sent
    BY <1>1 DEF Sent
  <2>4. Pieces'
    BY <1>1, <2>2, <2>3, NoUnits DEF Reassembly, Pieces
  <2>5. Junctions'
    BY <1>1, <2>2, NoUnits DEF Junctions
  <2>6. Elements(to_client') = {} /\ Elements(Stored') = {}
    BY <1>1, <2>2, NoUnits
  <2>7. Ordered' /\ Connection' /\ Bounded'
    BY <1>1, <2>2, <2>6 DEF Reassembly, Ordered, Connection, Bounded
  <2>8. CallbackIntact'
    BY <1>1, <2>2, IntactStays DEF Reassembly
  <2> QED
    BY <2>4, <2>5, <2>7, <2>8 DEF Reassembly
<1> QED
  BY <1>3, <1>4, <1>5

LEMMA InitReassembly == Init => Reassembly /\ Once
<1> SUFFICES ASSUME Init PROVE Reassembly /\ Once
  OBVIOUS
<1>1. /\ Stored = << >> /\ to_client = << >> /\ server_sending = << >> /\ delivered = << >>
      /\ socket = "created" /\ client_socket_fd_ = Fd
  BY DEF Init, Stored, NoMessage
<1>2. Pieces /\ Junctions
  BY <1>1, NoUnits DEF Pieces, Junctions
<1>3. Connection
  BY <1>1 DEF Connection, NoFd
<1>4. Ordered /\ CallbackIntact /\ Bounded /\ Once
  <2>1. Elements(Stored) = {} /\ Elements(to_client) = {} /\ Elements(server_sending) = {}
    BY <1>1, NoUnits
  <2>2. DOMAIN delivered = {}
    BY <1>1
  <2> QED
    BY <1>1, <2>1, <2>2 DEF Ordered, CallbackIntact, Bounded, Once, Init
<1> QED
  BY <1>2, <1>3, <1>4 DEF Reassembly

\* A client connects only before it has read anything: only Read changes what
\* is stored or delivered, and it runs with isConnected_ set.
LEMMA OnceStep ==
  ASSUME Once, Connection, [Next]_vars
  PROVE  Once'
<1> USE DEF Client, flags, parseVars, appVars, streams, serverVars, Goto, Once
<1>1. CASE ServerProcess
  BY <1>1
  DEF ServerProcess, ServerStarts, ServerAccepts, ServerEnds, ServerSends, ServerWrites,
      ServerReads, Stored
<1>2. CASE Top \/ Created \/ Connect \/ Connected
  <2>1. CASE Top
    BY <2>1 DEF Top, Stored
  <2>2. CASE Created
    BY <2>2 DEF Created, SetConnected, Stored
  <2>3. CASE Connect
    BY <2>3 DEF Connect, Stored
  <2>4. CASE Connected
    BY <2>4 DEF Connected, SetConnected, Stored
  <2> QED
    BY <1>2, <2>1, <2>2, <2>3, <2>4
<1>3. CASE Greet \/ AddToEpoll \/ EpollWait \/ NothingToRead
  BY <1>3 DEF Greet, AddToEpoll, EpollWait, NothingToRead, EndOfStream, NothingNow, Stored
<1>4. CASE Read
  BY <1>4 DEF Read, Deliver
<1>5. CASE Reply \/ DeleteFromEpoll
  BY <1>5 DEF Reply, DeleteFromEpoll, Stored
<1>6. CASE Close \/ Forget
  BY <1>6 DEF Close, Forget, Unset
<1>7. CASE SendMessage \/ WriteMessage
  BY <1>7 DEF SendMessage, WriteMessage, Stored
<1>8. CASE UNCHANGED vars
  BY <1>8 DEF vars, Stored
<1> QED
  BY <1>1, <1>2, <1>3, <1>4, <1>5, <1>6, <1>7, <1>8 DEF Next, MainHandler

\* The steps that neither read, write to the client, nor close its socket.
LEMMA OtherSteps ==
  ASSUME TypeOK, Reassembly, Once, [Next]_vars,
         ~(ServerEnds \/ ServerSends \/ ServerWrites \/ Read \/ Close)
  PROVE  Reassembly'
<1> USE DEF Client, flags, parseVars, appVars, streams, serverVars
<1>1. UNCHANGED << message_map_, to_client, server_sending, delivered >>
  <2>1. CASE ServerStarts \/ ServerAccepts \/ ServerReads
    BY <2>1 DEF ServerStarts, ServerAccepts, ServerReads
  <2>2. CASE Top \/ Created \/ Connect \/ Connected
    BY <2>2 DEF Top, Created, Connect, Connected, SetConnected
  <2>3. CASE Greet \/ AddToEpoll \/ EpollWait \/ NothingToRead
    BY <2>3 DEF Greet, WriteTaken, WriteKills, AddToEpoll, EpollWait, NothingToRead
  <2>4. CASE Reply \/ DeleteFromEpoll \/ Forget
    BY <2>4 DEF Reply, WriteTaken, WriteKills, DeleteFromEpoll, Forget
  <2>5. CASE SendMessage \/ WriteMessage
    BY <2>5 DEF SendMessage, WriteMessage, WriteTaken, WriteKills
  <2>6. CASE UNCHANGED vars
    BY <2>6 DEF vars
  <2> QED
    BY <2>1, <2>2, <2>3, <2>4, <2>5, <2>6 DEF Next, ServerProcess, MainHandler
<1>2. UNCHANGED Stored
  BY <1>1 DEF Stored
<1>3. CASE UNCHANGED << socket, client_socket_fd_, listening, server_id >>
  <2>1. Connection' /\ Bounded'
    BY <1>1, <1>2, <1>3 DEF Reassembly, Connection, Bounded
  <2> QED
    BY <1>1, <1>3, <2>1, SocketOnly
<1>4. CASE ServerStarts
  <2>1. socket # "connected" /\ UNCHANGED << socket, client_socket_fd_ >>
    BY <1>4 DEF ServerStarts, Reassembly, Connection
  <2>2. Connection' /\ Bounded'
    BY <1>1, <2>1 DEF Reassembly, Connection, Bounded
  <2> QED
    BY <1>1, <2>1, <2>2, SocketOnly
<1>5. CASE Top
  <2>1. /\ UNCHANGED << listening, server_id >>
        /\ \/ UNCHANGED << socket, client_socket_fd_ >>
           \/ socket = "none" /\ socket' = "created" /\ client_socket_fd_' = Fd
    BY <1>5 DEF Top, Reassembly, Connection
  <2>2. CASE socket = "none" /\ socket' = "created" /\ client_socket_fd_' = Fd
    <3>1. Connection' /\ Bounded'
      BY <1>1, <2>2 DEF Reassembly, Connection, Bounded, NoFd
    <3> QED
      BY <1>1, <2>2, <3>1, SocketOnly
  <2> QED
    BY <1>3, <2>1, <2>2
<1>6. CASE Connect
  <2>1. /\ UNCHANGED << client_socket_fd_, listening, server_id >>
        /\ \/ UNCHANGED socket
           \/ /\ pc = "connect" /\ ~isConnected_ /\ listening
              /\ socket = "created" /\ socket' = "connected"
    BY <1>6 DEF Connect, Goto
  <2>2. CASE pc = "connect" /\ ~isConnected_ /\ listening
             /\ socket = "created" /\ socket' = "connected"
    <3>1. to_client = << >> /\ server_sending = << >> /\ client_socket_fd_ # NoFd
      BY <2>2 DEF Reassembly, Connection
    <3>2. Stored = << >> /\ delivered = << >>
      BY <2>2, <3>1 DEF Once
    <3>3. Connection'
      BY <1>1, <2>1, <2>2, <3>1 DEF Connection
    <3>4. /\ Elements(Stored') = {} /\ Elements(to_client') = {}
          /\ Elements(server_sending') = {} /\ DOMAIN delivered' = {}
      BY <1>1, <1>2, <3>1, <3>2, NoUnits
    <3>5. Bounded'
      BY <3>4 DEF Bounded
    <3> QED
      BY <1>1, <3>1, <3>3, <3>5, SocketOnly
  <2> QED
    BY <1>3, <2>1, <2>2
<1>7. \/ ServerStarts \/ Top \/ Connect
      \/ UNCHANGED << socket, client_socket_fd_, listening, server_id >>
  <2>1. CASE ServerAccepts \/ ServerReads
    BY <2>1 DEF ServerAccepts, ServerReads
  <2>2. CASE Created \/ Connected \/ Greet \/ AddToEpoll \/ EpollWait \/ NothingToRead
    BY <2>2 DEF Created, Connected, SetConnected, Greet, AddToEpoll, EpollWait, NothingToRead
  <2>3. CASE Reply \/ DeleteFromEpoll \/ Forget \/ SendMessage \/ WriteMessage
    BY <2>3 DEF Reply, DeleteFromEpoll, Forget, SendMessage, WriteMessage
  <2>4. CASE UNCHANGED vars
    BY <2>4 DEF vars
  <2> QED
    BY <2>1, <2>2, <2>3, <2>4 DEF Next, ServerProcess, MainHandler
<1> QED
  BY <1>3, <1>4, <1>5, <1>6, <1>7

LEMMA ReassemblyStep ==
  ASSUME TypeOK, Reassembly, Once, [Next]_vars
  PROVE  Reassembly' /\ Once'
<1>1. CASE ServerEnds
  <2>1. /\ UNCHANGED << message_map_, delivered, to_client, client_socket_fd_ >>
        /\ server_sending' = << >> /\ socket' # "connected"
        /\ socket' = IF socket = "connected" THEN "hung_up" ELSE socket
    BY <1>1 DEF ServerEnds, Client, parseVars, flags
  <2>2. Connection'
    BY <2>1 DEF Reassembly, Connection
  <2> QED
    BY <2>1, <2>2, Dropped, OnceStep DEF Reassembly
<1>2. CASE Close
  <2>1. /\ UNCHANGED << message_map_, delivered >>
        /\ to_client' = << >> /\ server_sending' = << >> /\ socket' = "none"
    BY <1>2 DEF Close, parseVars
  <2>2. Connection'
    BY <2>1 DEF Connection
  <2> QED
    BY <2>1, <2>2, Dropped, OnceStep DEF Reassembly
<1> QED
  BY <1>1, <1>2, SendsStep, WritesStep, ReadStep, OtherSteps, OnceStep DEF Reassembly

\* However the kernel cuts the stream and wherever MainHandler stands when the
\* server writes or ends: the callback gets messages the server sent, each
\* whole, in order and once.  The proof needs that a client connects only once
\* (Once): a later server numbers from 1 again, and what the lost connection
\* left in message_map_ is not dropped.
THEOREM CallbackGetsMessages == Spec => []CallbackIntact
<1>1. TypeOK /\ Reassembly /\ Once /\ [Next]_vars => Reassembly' /\ Once'
  BY ReassemblyStep
<1>2. Reassembly => CallbackIntact
  BY DEF Reassembly
<1> QED
  BY <1>1, <1>2, InitReassembly, TypeCorrect, PTL DEF Spec
=============================================================================
