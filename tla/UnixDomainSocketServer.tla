----------------------- MODULE UnixDomainSocketServer -----------------------
(***************************************************************************)
(* The receive path of UnixDomainSocketServer: the detached thread running *)
(* EpollHandler, the kernel objects it drives (listening socket, streams,  *)
(* edge-triggered epoll set) and the clients that connect and write.       *)
(*                                                                         *)
(* One element of Conns is one connection made by a client process; a      *)
(* client that restarts is a second connection with the same product code. *)
(* The session tables are touched only by this thread here, so each call   *)
(* of the session manager is part of the step that makes it; the threads   *)
(* that share it are in UnixDomainSocketSessionManager.  No application    *)
(* thread waits for a response, so response_msg_id is empty and the search *)
(* of it (181-187) finds nothing.                                          *)
(***************************************************************************)
EXTENDS Integers, FiniteSets, Message

CONSTANTS
  Conns,         \* connections
  Listener,      \* accept_checker_fd_ as it appears in epoll events
  product_code,  \* the product code of the client behind each connection
  MaxEventCount, \* kMAX_EVENT_COUNT: events one epoll_wait reports, 3
  FirstFd,       \* the descriptor number accept returns first
  MaxFd,         \* the process's descriptor limit
  MaxMessages,   \* bound: messages one client sends on one connection
  quota,         \* bound: how many of them each client sends
  MaxSize        \* bound: units of one message

ASSUME ListenerAssumption == Listener \notin Conns
ASSUME ProductAssumption  == product_code \in [Conns -> 0..9]
ASSUME FdAssumption       == FirstFd \in Nat /\ MaxFd \in Nat /\ 0 < FirstFd
ASSUME BoundAssumption    == /\ MaxMessages \in Nat /\ MaxSize \in Nat \ {0}
                             /\ quota \in [Conns -> 0..MaxMessages]

ListenBacklog == 5   \* SocketWrapper::Listen(accept_checker_fd_, 5)

Fds       == FirstFd..MaxFd
NoFd      == -1
Products  == {product_code[c] : c \in Conns}
NoProduct == -1
Keys      == Products \cup {0}
Units     == Unit(Conns, 0..MaxMessages, 1..MaxSize)

VARIABLES
  \* client processes
  peer,          \* "idle", "open", "closed", or "reset": closed with unread input
  greeted,       \* has the client written its product code?
  message_id,    \* UnixDomainSocketClient::message_id
  sending,       \* what WriteMessage has still to write
  \* kernel
  written,       \* all units written so far, per connection
  consumed,      \* how many of them the server has read
  backlog,       \* connections waiting for accept
  fd,            \* the server's descriptor of a connection
  next_fd,       \* the lowest free descriptor (the server closes none)
  watched,       \* connections in the epoll set
  ready,         \* edges epoll_wait has not reported yet
  \* server
  batch,         \* events epoll_wait reported and the loop has not handled
  socket_list_, reverse_socket_list_,
  message_map_,
  delivered      \* history: what the listener callback was given

clientVars  == << peer, greeted, message_id, sending >>
sessionVars == << socket_list_, reverse_socket_list_ >>
parseVars   == << message_map_, delivered >>
acceptVars  == << backlog, fd, next_fd, watched >>
vars == << clientVars, written, consumed, acceptVars, ready, batch,
           sessionVars, parseVars >>

TypeOK ==
  /\ peer \in [Conns -> {"idle", "open", "closed", "reset"}]
  /\ greeted \in [Conns -> BOOLEAN]
  /\ message_id \in [Conns -> 0..MaxMessages]
  /\ sending \in [Conns -> Seq(Units)]
  /\ written \in [Conns -> Seq(Units)]
  /\ consumed \in [Conns -> Nat]
  /\ backlog \in Seq(Conns)
  /\ fd \in [Conns -> Fds \cup {NoFd}]
  /\ next_fd \in Nat
  /\ watched \subseteq Conns
  /\ ready \subseteq Conns \cup {Listener}
  /\ batch \subseteq Conns \cup {Listener}
  /\ socket_list_ \in [Products -> Fds \cup {NoFd}]
  /\ reverse_socket_list_ \in [Fds -> Products \cup {NoProduct}]
  /\ message_map_ \in [Keys -> Seq(Units)]
  /\ delivered \in Seq([product : Keys, msg : Seq(Units)])

\* Initialize: the listening socket is in the epoll set and the thread runs.
Init ==
  /\ peer = [c \in Conns |-> "idle"]
  /\ greeted = [c \in Conns |-> FALSE]
  /\ message_id = [c \in Conns |-> 0]
  /\ sending = [c \in Conns |-> << >>]
  /\ written = [c \in Conns |-> << >>]
  /\ consumed = [c \in Conns |-> 0]
  /\ backlog = << >>
  /\ fd = [c \in Conns |-> NoFd]
  /\ next_fd = FirstFd
  /\ watched = {}
  /\ ready = {}
  /\ batch = {}
  /\ socket_list_ = [p \in Products |-> NoFd]
  /\ reverse_socket_list_ = [f \in Fds |-> NoProduct]
  /\ message_map_ = [k \in Keys |-> NoMessage]
  /\ delivered = << >>

-----------------------------------------------------------------------------
(* Kernel: an edge is remembered once, and only for a watched descriptor.  *)

EdgeWhileIdle(c) ==   \* mutant: an edge while a batch is handled is lost
  IF c \in watched /\ batch = {} THEN ready \cup {c} ELSE ready

Edge(c) == IF c \in watched THEN ready \cup {c} ELSE ready

OneRead(c) == consumed[c] + 1   \* mutant: no read-more loop

Deliverable(c) == Len(written[c])   \* a read loop stops where the stream ends

-----------------------------------------------------------------------------
(* Clients.                                                                *)

\* MainHandler connects: isConnected_ is true from here, before the
\* product code is written.
Connect(c) ==
  /\ peer[c] = "idle"
  /\ Len(backlog) <= ListenBacklog
  /\ peer' = [peer EXCEPT ![c] = "open"]
  /\ backlog' = Append(backlog, c)
  /\ ready' = ready \cup {Listener}
  /\ UNCHANGED << greeted, message_id, sending, written, consumed, fd, next_fd,
                  watched, batch, sessionVars, parseVars >>

Write(c, u) ==
  /\ written' = [written EXCEPT ![c] = Append(@, u)]
  /\ ready' = Edge(c)
  /\ UNCHANGED << peer, consumed, acceptVars, batch, sessionVars, parseVars >>

\* MainHandler writes "product:<d>"; an application thread may be writing.
WriteProduct(c) ==
  /\ peer[c] = "open"
  /\ ~greeted[c]
  /\ Write(c, ProductUnit(c))
  /\ greeted' = [greeted EXCEPT ![c] = TRUE]
  /\ UNCHANGED << message_id, sending >>

\* SendMessage by the application thread, once the previous one is written;
\* nothing is visible before the first write() of WriteMessage, which may
\* take any part of the message.
SendMessage(c) ==
  /\ peer[c] = "open"
  /\ sending[c] = << >>
  /\ message_id[c] < quota[c]
  /\ message_id' = [message_id EXCEPT ![c] = @ + 1]
  /\ \E n \in 1..MaxSize :
       LET msg == NewMessage(c, message_id[c] + 1, n)
       IN  /\ Write(c, Head(msg))
           /\ sending' = [sending EXCEPT ![c] = Tail(msg)]
  /\ UNCHANGED greeted

\* A later write() of WriteMessage.
WriteMessage(c) ==
  /\ peer[c] = "open"
  /\ sending[c] # << >>
  /\ Write(c, Head(sending[c]))
  /\ sending' = [sending EXCEPT ![c] = Tail(@)]
  /\ UNCHANGED << greeted, message_id >>

\* The client process ends.  If it had input left unread (only a registered
\* client is ever written to), the server's next read at the end of the
\* stream fails once with ECONNRESET before it reports end of file.
CloseClient(c) ==
  /\ peer[c] = "open"
  /\ \/ peer' = [peer EXCEPT ![c] = "closed"]
     \/ /\ \E p \in Products : socket_list_[p] = fd[c] /\ fd[c] # NoFd
        /\ peer' = [peer EXCEPT ![c] = "reset"]
  /\ sending' = [sending EXCEPT ![c] = << >>]
  /\ ready' = Edge(c)
  /\ UNCHANGED << greeted, message_id, written, consumed, acceptVars, batch,
                  sessionVars, parseVars >>

-----------------------------------------------------------------------------
(* EpollHandler.                                                           *)

\* epoll_wait reports up to kMAX_EVENT_COUNT edges and forgets them.  The
\* order inside a batch is left open.
EpollWait ==
  /\ batch = {}
  /\ ready # {}
  /\ \E events \in SUBSET ready :
       /\ \/ events = ready /\ Cardinality(ready) <= MaxEventCount
          \/ Cardinality(events) = MaxEventCount
       /\ batch' = events
       /\ ready' = ready \ events
  /\ UNCHANGED << clientVars, written, consumed, acceptVars,
                  sessionVars, parseVars >>

\* The listening socket is blocking: with an empty backlog accept waits.
AcceptEvent ==
  /\ Listener \in batch
  /\ backlog # << >>
  /\ batch' = batch \ {Listener}

DescriptorLeft == next_fd <= MaxFd

NoneWaiting == << >>   \* mutant: accept in a loop, without a further event

StillWaiting == Tail(backlog)

\* One accept per event, then SetNonBlock and EPOLL_CTL_ADD, which may be
\* refused.  A new socket is writable, so adding it raises an edge.
Accept ==
  /\ AcceptEvent
  /\ DescriptorLeft
  /\ backlog' = StillWaiting
  /\ fd' = [fd EXCEPT ![Head(backlog)] = next_fd]
  /\ next_fd' = next_fd + 1
  /\ \/ /\ watched' = watched \cup {Head(backlog)}
        /\ ready' = ready \cup {Head(backlog)}
     \/ UNCHANGED << watched, ready >>
  /\ UNCHANGED << clientVars, written, consumed, sessionVars, parseVars >>

\* No descriptor is left: the connection stays in the backlog.
AcceptFails ==
  /\ AcceptEvent
  /\ ~DescriptorLeft
  /\ UNCHANGED << clientVars, written, consumed, acceptVars, ready,
                  sessionVars, parseVars >>

Drained(c) == consumed[c] = Len(written[c])

\* A failing read reports a pending error once.
TakeError(c) ==
  peer' = [peer EXCEPT ![c] = IF @ = "reset" THEN "closed" ELSE @]

\* The first read returns -1: EAGAIN, or the pending ECONNRESET.
NothingToRead(c) ==
  /\ c \in batch
  /\ Drained(c)
  /\ peer[c] # "closed"
  /\ batch' = batch \ {c}
  /\ TakeError(c)
  /\ UNCHANGED << greeted, message_id, sending, written, consumed, acceptVars,
                  ready, sessionVars, parseVars >>

RemoveOneWay(p) ==   \* mutant: the reverse entry is forgotten
  /\ socket_list_' = IF p \in Products THEN [socket_list_ EXCEPT ![p] = NoFd]
                                       ELSE socket_list_
  /\ UNCHANGED reverse_socket_list_

\* UnixDomainSocketSessionManager::Remove(product_code)
RemoveSession(p) ==
  IF p \in Products /\ socket_list_[p] # NoFd
  THEN /\ reverse_socket_list_' =
            [reverse_socket_list_ EXCEPT ![socket_list_[p]] = NoProduct]
       /\ socket_list_' = [socket_list_ EXCEPT ![p] = NoFd]
  ELSE UNCHANGED sessionVars

\* The first read returns 0: the connection leaves the epoll set (its
\* descriptor is not closed) and its descriptor number is what Remove gets.
Disconnect(c) ==
  /\ c \in batch
  /\ Drained(c)
  /\ peer[c] = "closed"
  /\ batch' = batch \ {c}
  /\ watched' = watched \ {c}
  /\ ready' = ready \ {c}
  /\ RemoveSession(fd[c])
  /\ UNCHANGED << clientVars, written, consumed, backlog, fd, next_fd,
                  parseVars >>

\* The first read returns data: read on until read() returns 0 or -1, which
\* also takes a pending ECONNRESET.
Chunk(c) == SubSeq(written[c], consumed[c] + 1, Deliverable(c))

ReadAll(c) ==
  /\ c \in batch
  /\ ~Drained(c)
  /\ batch' = batch \ {c}
  /\ consumed' = [consumed EXCEPT ![c] = Deliverable(c)]
  /\ TakeError(c)
  /\ UNCHANGED << greeted, message_id, sending, written, acceptVars, ready >>

\* GetSocketFdSize() and GetProductCode()
HasSessions == \E p \in Products : socket_list_[p] # NoFd
Identified(c) == reverse_socket_list_[fd[c]] # NoProduct

NeverIgnored(c) == FALSE   \* mutant: the test for product information is gone

\* Sessions exist and this connection has none: its bytes are dropped.
Ignored(c) == HasSessions /\ ~Identified(c)

\* The product code its data is filed under: 0 while there is no session.
Key(c) == IF HasSessions /\ Identified(c) THEN reverse_socket_list_[fd[c]] ELSE 0

\* mutant: the text of the read must be the product code and nothing else
IsProduct(chunk, n) == \A i \in DOMAIN chunk : chunk[i].part = ProductPart

\* buff.find("product:"): buff is the text of the first read (the first n
\* units) up to a zero byte, and every header contains zero bytes.
AnnouncesProduct(chunk, n) ==
  \E i \in 1..n : /\ chunk[i].part = ProductPart
                  /\ \A j \in 1..(i - 1) : chunk[j].part # HeaderPart

\* The end of the handler: a complete message goes to the callback.
Deliver(map, k) ==
  IF IsPerfectMessage(map, k)
  THEN /\ message_map_' = MessagePop(map, k)
       /\ delivered' = Append(delivered, [product |-> k, msg |-> map[k]])
  ELSE /\ message_map_' = map
       /\ UNCHANGED delivered

AddSwapped(p, f) ==   \* mutant: keys and values confused
  /\ reverse_socket_list_' = [reverse_socket_list_ EXCEPT ![f] = f]
  /\ socket_list_' = [socket_list_ EXCEPT ![p] = p]

\* UnixDomainSocketSessionManager::Add(product_code, socket_fd)
AddSession(p, f) ==
  IF socket_list_[p] # NoFd
  THEN UNCHANGED sessionVars
  ELSE /\ reverse_socket_list_' = [reverse_socket_list_ EXCEPT ![f] = p]
       /\ socket_list_' = [socket_list_ EXCEPT ![p] = f]

DropData(c) ==
  /\ ReadAll(c)
  /\ Ignored(c)
  /\ UNCHANGED << sessionVars, parseVars >>

StoreHeader(c) ==
  /\ ReadAll(c)
  /\ ~Ignored(c)
  /\ IsHeader(Chunk(c))
  /\ Deliver(Add(message_map_, Key(c), Chunk(c)), Key(c))
  /\ UNCHANGED sessionVars

RegisterProduct(c) ==
  /\ ReadAll(c)
  /\ ~Ignored(c)
  /\ ~IsHeader(Chunk(c))
  /\ \E n \in 1..Len(Chunk(c)) : AnnouncesProduct(Chunk(c), n)
  /\ AddSession(product_code[c], fd[c])
  /\ Deliver(message_map_, Key(c))

AppendToMessage(c) ==
  /\ ReadAll(c)
  /\ ~Ignored(c)
  /\ ~IsHeader(Chunk(c))
  /\ \E n \in 1..Len(Chunk(c)) : ~AnnouncesProduct(Chunk(c), n)
  /\ LET k == Key(c)
     IN  IF IsExistMessage(message_map_, k)
         THEN Deliver(Add(message_map_, k,
                          AppendData(message_map_[k], Chunk(c))), k)
         ELSE Deliver(message_map_, k)
  /\ UNCHANGED sessionVars

-----------------------------------------------------------------------------
ClientStep(c) ==
  \/ Connect(c)
  \/ WriteProduct(c)
  \/ SendMessage(c)
  \/ WriteMessage(c)
  \/ CloseClient(c)

HandleConnEvent(c) ==
  \/ NothingToRead(c)
  \/ Disconnect(c)
  \/ DropData(c)
  \/ StoreHeader(c)
  \/ RegisterProduct(c)
  \/ AppendToMessage(c)

ServerStep ==
  \/ EpollWait
  \/ Accept
  \/ AcceptFails
  \/ \E c \in Conns : HandleConnEvent(c)

Next == ServerStep \/ \E c \in Conns : ClientStep(c)

Spec == Init /\ [][Next]_vars

\* The handler thread loops for ever and epoll_wait never blocks past 10 ms.
FairSpec == Spec /\ WF_vars(ServerStep)

-----------------------------------------------------------------------------
(* Safety.                                                                 *)

\* EPOLLET loses no input: bytes of a watched connection that are still
\* unread have an event that is pending or about to be handled, whatever
\* the client writes while the handler is inside its read loop (137-149).
NoLostEdge ==
  \A c \in watched :
    consumed[c] < Len(written[c]) => c \in ready \cup batch

\* The listening socket is blocking, so an accept (106) without a waiting
\* connection would stop the whole handler: there are never more pending
\* accept events than connections in the backlog.
AcceptNeverBlocks ==
  /\ Listener \in ready \cup batch => backlog # << >>
  /\ Listener \in ready \cap batch => Len(backlog) > 1

\* A connection without a session is ignored as soon as one session exists
\* (151-155), so the server never holds two sessions, whatever the order in
\* which clients connect, register, disconnect and come back.
AtMostOneSession ==
  \A p, q \in Products :
    socket_list_[p] # NoFd /\ socket_list_[q] # NoFd => p = q

\* The two tables of the session manager stay inverse to each other, and a
\* session is the descriptor of a connection that announced that product,
\* across stale sessions, refused registrations and removals by number.
SessionSound ==
  /\ \A f \in Fds : LET p == reverse_socket_list_[f]
                    IN  p # NoProduct => socket_list_[p] = f
  /\ \A p \in Products :
       socket_list_[p] # NoFd =>
         /\ reverse_socket_list_[socket_list_[p]] = p
         /\ \E c \in Conns : /\ fd[c] = socket_list_[p]
                             /\ product_code[c] = p
                             /\ greeted[c]

Announced(c) == \E i \in 1..consumed[c] : written[c][i].part = ProductPart

\* "after the first connection the promised product code is thrown, which
\* identifies the client" (162), in the cases where the code does it: a client
\* that writes its product code before anything else, with no other client
\* announced, has a session as soon as its first bytes are read and until it
\* leaves, whatever follows in the same read and whoever else connects.  (If
\* its application thread gets ahead, UnixDomainSocketClient.cpp:88, the
\* product code may come behind a message and be lost; and Remove must not
\* get another client's descriptor that is its product code by accident.)
GreetingFirstRegisters ==
  \A c \in watched :
    /\ consumed[c] > 0 /\ written[c][1].part = ProductPart
    /\ \A d \in Conns \ {c} : ~Announced(d) /\ fd[d] # product_code[c]
    => socket_list_[product_code[c]] = fd[c]

Sent(c, msg) == \E i \in 1..quota[c], n \in 1..MaxSize : msg = NewMessage(c, i, n)

\* While no product code is also a descriptor number, what the callback gets
\* for a registered product is exactly a message its client sent, and
\* messages of one product arrive in the order sent: lost or merged chunks
\* cost whole messages (158-172), never produce a wrong one.
DeliveredIntact ==
  \A i \in DOMAIN delivered :
    delivered[i].product # 0 =>
      /\ \E c \in Conns : /\ product_code[c] = delivered[i].product
                          /\ Sent(c, delivered[i].msg)
      /\ \A j \in 1..(i - 1) :
           delivered[j].product = delivered[i].product =>
             GetMessageId(delivered[j].msg) < GetMessageId(delivered[i].msg)

-----------------------------------------------------------------------------
(* Liveness.                                                               *)

\* Every unit a watched client wrote is read although each edge is reported
\* only once: the handler implements a level-triggered reader.
Reader == INSTANCE LevelReader

ImplementsReader == Reader!Spec

-----------------------------------------------------------------------------
(* What comments and declarations of the code say, and it does not do.      *)

\* "Disconnect" (127-134): a connection that was taken out of the epoll set
\* has no session any more.
DisconnectEndsSession ==
  \A c \in Conns :
    fd[c] # NoFd /\ peer[c] = "closed" /\ Drained(c) /\ c \notin watched
    => reverse_socket_list_[fd[c]] = NoProduct

\* "accept" (101): an event of the listening socket means that clients are to
\* be accepted, so a client that waits in the backlog and stays is accepted.
WaitingAccepted ==
  \A c \in Conns :
    (peer[c] = "open" /\ \E i \in DOMAIN backlog : backlog[i] = c) ~>
      (fd[c] # NoFd \/ peer[c] # "open")

\* "if (read_size == 0) // Disconnect" (127): the end of a watched
\* connection is noticed.
DisconnectNoticed ==
  \A c \in Conns : (c \in watched /\ peer[c] = "closed") ~> (c \notin watched)
=============================================================================
