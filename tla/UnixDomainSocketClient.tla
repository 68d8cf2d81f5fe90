----------------------- MODULE UnixDomainSocketClient -----------------------
(***************************************************************************)
(* UnixDomainSocketClient with the server at the other end: the detached   *)
(* thread running MainHandler, whose callback answers in the same thread,  *)
(* an application thread that sends, and a server process that comes and   *)
(* goes, with a thread that sends and a handler that reads.  MainHandler   *)
(* makes one step per change of a member or system call the other side may *)
(* see; the member functions of the application thread run concurrently    *)
(* with it and share isConnected_ and client_socket_fd_.                   *)
(*                                                                         *)
(* A socket holds Capacity units in each direction; write() takes none     *)
(* when it is full, and every WriteMessage tries again until it does.      *)
(*                                                                         *)
(* No thread waits for a response, so response_msg_id is empty and the     *)
(* search of it (166-172) finds nothing.                                   *)
(*                                                                         *)
(* The lowest free descriptor is the one just closed, so every socket the  *)
(* client creates has the number Fd.                                       *)
(***************************************************************************)
EXTENDS Integers, Message

CONSTANTS
  Server, App, Handler,  \* who wrote a unit: the server process, the
                         \* application thread, or MainHandler
  Fd,                    \* the number of the client's socket
  Capacity,              \* units a socket holds in one direction
  MaxSent,               \* bound: messages of the application thread
  MaxMessages,           \* bound: messages of the server
  MaxSize                \* bound: units of one message

ASSUME WriterAssumption ==
  Server # App /\ Server # Handler /\ App # Handler
ASSUME FdAssumption       == Fd \in Nat
ASSUME CapacityAssumption == Capacity \in Nat \ {0}
ASSUME BoundAssumption    ==
  MaxSent \in Nat /\ MaxMessages \in Nat /\ MaxSize \in Nat \ {0}

NoFd       == -1
ServerCode == 0      \* server_code, the only key of message_manager_
MaxId      == IF MaxSent < MaxMessages THEN MaxMessages ELSE MaxSent
Units      == Unit({Server, App, Handler}, 0..MaxId, 1..MaxSize)

VARIABLES
  \* server process
  listening,         \* is there a server behind the socket's path?
  accepted,          \* has it taken the connection from its backlog?
  server_id,         \* messages this server process has begun to send
  server_sending,    \* what it has still to write
  \* kernel
  socket,            \* "none", "created", "connected", "hung_up"
  to_client,         \* units from the server the client has not read
  to_server,         \* units from the client the server has not read
  announced,         \* was a product code written to the server that listens?
  error,             \* ECONNRESET, which the next read() at the end returns
  edge,              \* an event epoll_wait has not reported
  \* client
  alive,             \* FALSE once SIGPIPE has ended the process
  pc,                \* where MainHandler is
  client_socket_fd_, isConnected_, isEpollAdded_,
  message_map_,
  reply,             \* what the callback's SendMessage has still to write
  message_id,
  write_fd, sending, \* the application thread inside WriteMessage
  delivered          \* history: what the callback was given

serverVars == << listening, accepted, server_id, server_sending >>
streams    == << to_client, to_server, announced, error >>
flags      == << client_socket_fd_, isConnected_, isEpollAdded_ >>
parseVars  == << message_map_, reply, delivered >>
appVars    == << message_id, write_fd, sending >>
vars == << serverVars, socket, streams, edge, alive, pc, flags, parseVars, appVars >>

PCs == {"top", "created", "connect", "connected", "greet", "add", "wait", "read",
        "reply", "delete", "close", "forget"}

TypeOK ==
  /\ listening \in BOOLEAN
  /\ accepted \in BOOLEAN
  /\ server_id \in 0..MaxMessages
  /\ server_sending \in Seq(Units)
  /\ announced \in BOOLEAN
  /\ error \in BOOLEAN
  /\ socket \in {"none", "created", "connected", "hung_up"}
  /\ to_client \in Seq(Units) /\ Len(to_client) <= Capacity
  /\ to_server \in Seq(Units) /\ Len(to_server) <= Capacity
  /\ edge \in BOOLEAN
  /\ alive \in BOOLEAN
  /\ pc \in PCs
  /\ client_socket_fd_ \in {NoFd, Fd}
  /\ isConnected_ \in BOOLEAN
  /\ isEpollAdded_ \in BOOLEAN
  /\ message_map_ \in [{ServerCode} -> Seq(Units)]
  /\ reply \in Seq(Units)
  /\ message_id \in 0..MaxSent
  /\ write_fd \in {NoFd, Fd}
  /\ sending \in Seq(Units)
  /\ delivered \in Seq(Seq(Units))

\* After Initialize: a socket exists and MainHandler is about to start.
Init ==
  /\ listening \in BOOLEAN
  /\ accepted = FALSE
  /\ server_id = 0
  /\ server_sending = << >>
  /\ announced = FALSE
  /\ error = FALSE
  /\ socket = "created"
  /\ to_client = << >>
  /\ to_server = << >>
  /\ edge = FALSE
  /\ alive = TRUE
  /\ pc = "top"
  /\ client_socket_fd_ = Fd
  /\ isConnected_ = FALSE
  /\ isEpollAdded_ = FALSE
  /\ message_map_ = [k \in {ServerCode} |-> NoMessage]
  /\ reply = << >>
  /\ message_id = 0
  /\ write_fd = NoFd
  /\ sending = << >>
  /\ delivered = << >>

-----------------------------------------------------------------------------
(* Server process.                                                         *)

Client == << alive, pc, flags, parseVars, appVars >>

\* Is the socket in the epoll set?  EPOLL_CTL_DEL comes before the flag.
Watched == isEpollAdded_ /\ pc \notin {"close", "forget"}

\* A server process numbers its messages from the beginning.
ServerStarts ==
  /\ ~listening
  /\ listening' = TRUE
  /\ server_id' = 0
  /\ UNCHANGED << accepted, server_sending, socket, streams, edge, Client >>

ServerAccepts ==
  /\ ~accepted
  /\ socket = "connected" \/ to_server # << >>
  /\ accepted' = TRUE
  /\ UNCHANGED << listening, server_id, server_sending, socket, streams, edge, Client >>

\* The server process ends: its end of a connection is closed.  A connection
\* it has not accepted, or from which it has not read everything, is reset.
ServerEnds ==
  /\ listening
  /\ listening' = FALSE
  /\ accepted' = FALSE
  /\ server_sending' = << >>
  /\ to_server' = << >>
  /\ announced' = FALSE
  /\ socket' = IF socket = "connected" THEN "hung_up" ELSE socket
  /\ error' = (error \/ (socket = "connected" /\ (~accepted \/ to_server # << >>)))
  /\ edge' = (edge \/ (Watched /\ socket = "connected"))
  /\ UNCHANGED << server_id, to_client, Client >>

Registered == announced /\ \A i \in DOMAIN to_server : to_server[i].part # ProductPart

\* SendMessage of a thread of the server, which finds a registered client.
ServerSends ==
  /\ socket = "connected" /\ Registered
  /\ server_sending = << >>
  /\ server_id < MaxMessages
  /\ server_id' = server_id + 1
  /\ \E n \in 1..MaxSize : server_sending' = NewMessage(Server, server_id + 1, n)
  /\ UNCHANGED << listening, accepted, socket, streams, edge, Client >>

\* One write() of its WriteMessage.
ServerWrites ==
  /\ socket = "connected"
  /\ server_sending # << >>
  /\ Len(to_client) < Capacity
  /\ to_client' = Append(to_client, Head(server_sending))
  /\ server_sending' = Tail(server_sending)
  /\ edge' = (edge \/ Watched)
  /\ UNCHANGED << listening, accepted, server_id, announced, error, socket, to_server,
                  Client >>

\* mutant: the thread that sends is the one that reads
ReadWhenIdle == server_sending = << >> /\ to_server # << >> /\ to_server' = << >>

ReadInput == to_server # << >> /\ to_server' = << >>

\* Its handler reads all there is; it calls no SendMessage and so never waits
\* for the client.
ServerReads ==
  /\ accepted
  /\ ReadInput
  /\ UNCHANGED << serverVars, announced, error, socket, to_client, edge, Client >>

-----------------------------------------------------------------------------
(* write() on the client's socket.                                         *)

\* The kernel takes some bytes of a connected stream.
WriteTaken(fd, u) ==
  /\ fd = Fd /\ socket = "connected"
  /\ Len(to_server) < Capacity
  /\ to_server' = Append(to_server, u)
  /\ announced' = (announced \/ u.part = ProductPart)
  /\ UNCHANGED << alive, to_client, error >>

\* The peer is gone: SIGPIPE, which no code handles, ends the process.
WriteKills(fd) ==
  /\ fd = Fd /\ socket = "hung_up"
  /\ alive' = FALSE
  /\ UNCHANGED streams

\* Otherwise (EBADF, ENOTCONN, EAGAIN) WriteMessage sleeps and tries again,
\* which changes nothing.

-----------------------------------------------------------------------------
(* MainHandler.  A step from one pc to the next.                           *)

Goto(from, to) == alive /\ pc = from /\ pc' = to

\* 74-75: without a socket, a new one is created.
Top ==
  /\ \/ /\ Goto("top", "created")
        /\ client_socket_fd_ = NoFd
        /\ socket' = "created"
        /\ client_socket_fd_' = Fd
     \/ /\ Goto("top", "connect")
        /\ client_socket_fd_ # NoFd
        /\ UNCHANGED << socket, client_socket_fd_ >>
  /\ UNCHANGED << serverVars, streams, edge, alive, isConnected_, isEpollAdded_,
                  parseVars, appVars >>

\* 76, 88
SetConnected(from, to) ==
  /\ Goto(from, to)
  /\ isConnected_' = TRUE
  /\ UNCHANGED << serverVars, socket, streams, edge, alive, client_socket_fd_,
                  isEpollAdded_, parseVars, appVars >>

Created == SetConnected("created", "connect")

\* 86-87, 95-98: a failed connect is tried again after a second.
Connect ==
  /\ \/ /\ Goto("connect", "add")
        /\ isConnected_
        /\ UNCHANGED socket
     \/ /\ Goto("connect", "connected")
        /\ ~isConnected_ /\ listening /\ socket = "created"
        /\ socket' = "connected"
     \/ /\ Goto("connect", "top")
        /\ ~isConnected_ /\ ~(listening /\ socket = "created")
        /\ UNCHANGED socket
  /\ UNCHANGED << serverVars, streams, edge, alive, flags, parseVars, appVars >>

ConnectedSilently == SetConnected("connected", "add")   \* mutant: no product code

Connected == SetConnected("connected", "greet")

\* 90-93: one write() of "product:<d>".  Its result is not looked at: when the
\* application thread has filled the socket, the product code is not written.
Greet ==
  /\ Goto("greet", "add")
  /\ \/ WriteTaken(client_socket_fd_, ProductUnit(Handler))
     \/ WriteKills(client_socket_fd_)
     \/ /\ socket = "connected" /\ Len(to_server) = Capacity
        /\ UNCHANGED << alive, streams >>
  /\ UNCHANGED << serverVars, socket, edge, flags, parseVars, appVars >>

EventMissing == edge   \* mutant: only what changes after the registration counts

\* A socket is writable or hung up when it is added, which is an event.
EventOnAdd == edge \/ ~isEpollAdded_

\* 101-114
AddToEpoll ==
  /\ Goto("add", "wait")
  /\ isEpollAdded_' = TRUE
  /\ edge' = EventOnAdd
  /\ UNCHANGED << serverVars, socket, streams, alive, client_socket_fd_,
                  isConnected_, parseVars, appVars >>

\* 116-119, 183: an event, a timeout, or EINTR, which restarts.
EpollWait ==
  /\ \/ Goto("wait", "read") /\ edge /\ edge' = FALSE
     \/ Goto("wait", "top") /\ ~edge /\ UNCHANGED edge
     \/ Goto("wait", "delete") /\ UNCHANGED edge
  /\ UNCHANGED << serverVars, socket, streams, alive, flags, parseVars, appVars >>

EndIgnored == Goto("read", "top")   \* mutant: read() = 0 is treated like -1

\* 130-134: the first read() reports the end of the stream.
EndOfStream == Goto("read", "delete")

\* 127-128: it returns -1, EAGAIN or ECONNRESET: back to epoll_wait.
NothingNow == Goto("read", "top")

\* 124-134: an error is returned once, before the end of the stream.
NothingToRead ==
  /\ to_client = << >>
  /\ \/ EndOfStream /\ socket = "hung_up" /\ ~error
     \/ NothingNow /\ (socket # "hung_up" \/ error)
  /\ error' = FALSE
  /\ UNCHANGED << serverVars, socket, to_client, to_server, announced, edge, alive,
                  flags, parseVars, appVars >>

\* 137-178: read on until read() returns 0 or -1 (an error or an end met here
\* goes unnoticed), parse, and call the callback with a complete message.  The callback of client/main.cpp
\* answers some messages, by their id.
Deliver(map) ==
  IF IsPerfectMessage(map, ServerCode)
  THEN LET msg == map[ServerCode]
       IN  /\ message_map_' = MessagePop(map, ServerCode)
           /\ delivered' = Append(delivered, msg)
           /\ \/ /\ pc' = "reply"
                 /\ reply' = NewMessage(Handler, GetMessageId(msg), MaxSize)
              \/ pc' = "top" /\ UNCHANGED reply
  ELSE /\ message_map_' = map
       /\ pc' = "top"
       /\ UNCHANGED << reply, delivered >>

Read ==
  /\ alive /\ pc = "read"
  /\ to_client # << >>
  /\ to_client' = << >>
  /\ error' = FALSE
  /\ IF IsHeader(to_client)
     THEN Deliver(Add(message_map_, ServerCode, to_client))
     ELSE IF IsExistMessage(message_map_, ServerCode)
          THEN Deliver(Add(message_map_, ServerCode,
                           AppendData(message_map_[ServerCode], to_client)))
          ELSE Deliver(message_map_)
  /\ UNCHANGED << serverVars, socket, to_server, announced, edge, alive, flags, appVars >>

\* The callback's SendMessage(msg_id, ..) runs WriteMessage in this thread.
Reply ==
  /\ alive /\ pc = "reply"
  /\ \/ /\ WriteTaken(client_socket_fd_, Head(reply))
        /\ reply' = Tail(reply)
        /\ pc' = IF Tail(reply) = << >> THEN "top" ELSE "reply"
     \/ WriteKills(client_socket_fd_) /\ UNCHANGED << reply, pc >>
  /\ UNCHANGED << serverVars, socket, edge, flags, message_map_, delivered, appVars >>

\* 185-195: EPOLL_CTL_DEL, close(), and the members reset one by one.
DeleteFromEpoll ==
  /\ Goto("delete", "close")
  /\ edge' = FALSE
  /\ UNCHANGED << serverVars, socket, streams, alive, flags, parseVars, appVars >>

Zero == 0   \* mutant: the member is reset to 0

Unset == NoFd   \* client_socket_fd_ = -1

Close ==
  /\ Goto("close", "forget")
  /\ socket' = "none"
  /\ to_client' = << >>
  /\ error' = FALSE
  /\ server_sending' = << >>
  /\ client_socket_fd_' = Unset
  /\ UNCHANGED << listening, accepted, server_id, announced, to_server, edge, alive,
                  isConnected_, isEpollAdded_, parseVars, appVars >>

Forget ==
  /\ Goto("forget", "top")
  /\ isEpollAdded_' = FALSE
  /\ isConnected_' = FALSE
  /\ UNCHANGED << serverVars, socket, streams, edge, alive, client_socket_fd_,
                  parseVars, appVars >>

MainHandler ==
  \/ Top \/ Created \/ Connect \/ Connected \/ Greet
  \/ AddToEpoll \/ EpollWait \/ NothingToRead \/ Read \/ Reply
  \/ DeleteFromEpoll \/ Close \/ Forget

-----------------------------------------------------------------------------
(* Application thread.                                                     *)

\* SendMessage(send_string): the descriptor is read once.
SendMessage ==
  /\ alive
  /\ sending = << >>
  /\ message_id < MaxSent
  /\ isConnected_
  /\ message_id' = message_id + 1
  /\ write_fd' = client_socket_fd_
  /\ sending' = NewMessage(App, message_id + 1, MaxSize)
  /\ UNCHANGED << serverVars, socket, streams, edge, alive, pc, flags, parseVars >>

\* One write() of WriteMessage.
WriteMessage ==
  /\ alive
  /\ sending # << >>
  /\ \/ WriteTaken(write_fd, Head(sending)) /\ sending' = Tail(sending)
     \/ WriteKills(write_fd) /\ UNCHANGED sending
  /\ UNCHANGED << serverVars, socket, edge, pc, flags, parseVars, message_id, write_fd >>

ServerProcess ==
  \/ ServerStarts \/ ServerAccepts \/ ServerEnds
  \/ ServerSends \/ ServerWrites \/ ServerReads

Next == ServerProcess \/ MainHandler \/ SendMessage \/ WriteMessage

Spec == Init /\ [][Next]_vars

\* The handlers of both sides loop for ever (that of the server accepts the
\* connection and reads it) and a WriteMessage that cannot write tries again.
\* Nobody has to call SendMessage, start or end a server.
FairSpec ==
  /\ Spec
  /\ WF_vars(MainHandler) /\ WF_vars(WriteMessage)
  /\ WF_vars(ServerAccepts) /\ WF_vars(ServerReads) /\ WF_vars(ServerWrites)

-----------------------------------------------------------------------------
(* Properties.                                                             *)

\* EPOLLET loses no input: what the server wrote and the client has not read
\* has an event that is pending or being handled, whether it was written
\* before the socket was added (101), during the read loop (138-146) or
\* while the callback blocks the thread (175).
NoLostEdge ==
  isEpollAdded_ /\ to_client # << >> =>
    edge \/ pc \in {"read", "delete", "close", "forget"}

\* However the stream is cut into reads, the callback gets only messages the
\* server sent, each whole and in the order sent: messages that share a read
\* are lost (149-160), never mixed.
CallbackIntact ==
  \A i \in DOMAIN delivered :
    /\ \E id \in 1..MaxMessages, n \in 1..MaxSize :
         delivered[i] = NewMessage(Server, id, n)
    /\ \A j \in 1..(i - 1) : GetMessageId(delivered[j]) < GetMessageId(delivered[i])

\* The application thread sent so much between isConnected_ (88) and the
\* write of the product code (93) that the socket is full.
Overtaken == pc = "greet" /\ Len(to_server) = Capacity

\* Connecting is retried (95-98): a client that still has its first socket and
\* has not lost a server announces its product to the server that stays, unless
\* the application thread kept the product code from being written.  (With any
\* later socket it never connects: ConnectedMeansConnected.)
Announces ==
  <>[]listening /\ [](socket \in {"created", "connected"}) =>
    <>[]announced \/ <>Overtaken

\* Full sockets do not stop the two processes: while the connection lasts,
\* every WriteMessage of either side returns, although the callback writes
\* from the thread that reads.  (Were the server's callback to answer as well,
\* each handler could wait for the other to read.)
WritesReturn ==
  <>[](socket = "connected" /\ alive) =>
    /\ []<>(server_sending = << >>)
    /\ []<>(sending = << >>)
    /\ []<>(reply = << >>)

\* The client notices the end of its server (130) if an event is pending once
\* everything is read and the connection was not reset.  An end that the
\* read-more loop (146) meets behind data has no event and is not noticed, nor
\* is one that comes with ECONNRESET: EveryEndNoticed.
EndNoticed ==
  (socket = "hung_up" /\ edge /\ to_client = << >> /\ ~error) ~>
    (socket # "hung_up" \/ ~alive)

\* "Error or Disconnect" (130): once the server of a client that waits for
\* events is gone, the client closes its socket and starts again.
EveryEndNoticed ==
  (socket = "hung_up" /\ pc = "wait" /\ to_client = << >>) ~>
    (socket # "hung_up" \/ ~alive)

\* "creates the socket and connects it" (74): when MainHandler comes to wait
\* for events with isConnected_ set, a connection has been made.
ConnectedMeansConnected ==
  pc = "wait" /\ isConnected_ => socket \in {"connected", "hung_up"}
=============================================================================
