-------------------- MODULE UnixDomainSocketServer_proofs --------------------
(***************************************************************************)
(* Theorems about UnixDomainSocketServer, for every set of connections,    *)
(* every assignment of product codes, every descriptor range and every     *)
(* bound.                                                                  *)
(***************************************************************************)
EXTENDS UnixDomainSocketServer, SequenceTheorems, TLAPS

USE ListenerAssumption, ProductAssumption, FdAssumption, BoundAssumption

-----------------------------------------------------------------------------
(* Framing: what the operators of Message return.                          *)

\* Message::Message builds a sequence of units of the sender.
LEMMA NewMessageType ==
  ASSUME NEW c \in Conns, NEW i \in 0..MaxMessages, NEW n \in 1..MaxSize
  PROVE  /\ NewMessage(c, i, n) \in Seq(Units)
         /\ NewMessage(c, i, n) # << >>
         /\ Len(NewMessage(c, i, n)) = n
         /\ \A j \in 1..n : NewMessage(c, i, n)[j].part # ProductPart
<1> DEFINE e(j) == [from |-> c, id |-> i, size |-> n, part |-> j]
<1>1. \A j \in 1..n : e(j) \in Units
  BY DEF Units, Unit
<1>2. NewMessage(c, i, n) = [j \in 1..n |-> e(j)]
  BY DEF NewMessage
<1>3. NewMessage(c, i, n) \in [1..n -> Units]
  BY <1>1, <1>2
<1>4. NewMessage(c, i, n) \in Seq(Units) /\ n \in Nat
  BY <1>3, SeqDef
<1>5. Len(NewMessage(c, i, n)) = n
  BY <1>3, <1>4
<1>6. \A j \in 1..n : NewMessage(c, i, n)[j].part # ProductPart
  BY <1>2 DEF ProductPart
<1> QED
  BY <1>4, <1>5, <1>6

\* The handshake is one unit.
LEMMA ProductUnitType == \A c \in Conns : ProductUnit(c) \in Units
  BY DEF ProductUnit, Units, Unit, ProductPart

\* What a read loop returns are the unread units, in order.
LEMMA ChunkProperties ==
  ASSUME NEW c \in Conns, written[c] \in Seq(Units), consumed[c] \in Nat
  PROVE  /\ Chunk(c) \in Seq(Units)
         /\ \A i \in DOMAIN Chunk(c) :
              /\ consumed[c] + i \in DOMAIN written[c]
              /\ Chunk(c)[i] = written[c][consumed[c] + i]
<1> DEFINE s == written[c]
           m == consumed[c] + 1
           n == Len(s)
<1>1. m \in Int /\ n \in Int /\ n \in Nat
  BY LenProperties
<1>2. \A i \in m..n : s[i] \in Units
  BY <1>1, ElementOfSeq
<1>3. /\ SubSeq(s, m, n) \in Seq(Units)
      /\ Len(SubSeq(s, m, n)) = IF m <= n THEN n - m + 1 ELSE 0
      /\ \A i \in 1 .. n-m+1 : SubSeq(s,m,n)[i] = s[m+i-1]
  <2> HIDE DEF s, m, n
  <2> QED BY <1>1, <1>2, SubSeqProperties
<1>4. Chunk(c) = SubSeq(s, m, n)
  BY DEF Chunk, Deliverable
<1>5. DOMAIN Chunk(c) = 1..Len(Chunk(c)) /\ DOMAIN s = 1..n
  BY <1>3, <1>4, LenProperties
<1>6. ASSUME NEW i \in DOMAIN Chunk(c)
      PROVE  consumed[c] + i \in DOMAIN s /\ Chunk(c)[i] = s[consumed[c] + i]
  <2>1. i \in 1..Len(SubSeq(s, m, n))
    BY <1>4, <1>5
  <2>2. i \in 1 .. n-m+1 /\ m <= n
    <3> HIDE DEF m, n
    <3> QED BY <1>1, <1>3, <2>1
  <2>3. \A k, l \in Nat, j \in Int :
          1 <= j /\ j <= l - (k + 1) + 1 => k + j \in 1..l /\ k + 1 + j - 1 = k + j
    OBVIOUS
  <2>4. i \in Int /\ 1 <= i /\ i <= n - m + 1
    BY <1>1, <2>2
  <2>5. consumed[c] + i \in 1..n /\ m+i-1 = consumed[c] + i
    BY <1>1, <2>3, <2>4
  <2> QED
    BY <1>3, <1>4, <1>5, <2>2, <2>5
<1> QED
  BY <1>3, <1>4, <1>6

\* The end of the handler keeps the message map and the history well typed.
LEMMA DeliverType ==
  ASSUME NEW map \in [Keys -> Seq(Units)], NEW k \in Keys,
         delivered \in Seq([product : Keys, msg : Seq(Units)]),
         Deliver(map, k)
  PROVE  /\ message_map_' \in [Keys -> Seq(Units)]
         /\ delivered' \in Seq([product : Keys, msg : Seq(Units)])
<1>1. CASE IsPerfectMessage(map, k)
  <2>1. MessagePop(map, k) \in [Keys -> Seq(Units)]
    BY EmptySeq DEF MessagePop, NoMessage
  <2>2. [product |-> k, msg |-> map[k]] \in [product : Keys, msg : Seq(Units)]
    OBVIOUS
  <2>3. Append(delivered, [product |-> k, msg |-> map[k]])
          \in Seq([product : Keys, msg : Seq(Units)])
    BY <2>2, AppendProperties
  <2> QED
    BY <1>1, <2>1, <2>3 DEF Deliver
<1>2. CASE ~IsPerfectMessage(map, k)
  BY <1>2 DEF Deliver
<1> QED
  BY <1>1, <1>2

-----------------------------------------------------------------------------
(* Steps the actions share.                                                *)

\* A write keeps the stream well typed and raises an edge of the connection.
LEMMA WriteType ==
  ASSUME TypeOK, NEW c \in Conns, NEW u \in Units, Write(c, u)
  PROVE  /\ written' \in [Conns -> Seq(Units)]
         /\ ready' \subseteq Conns \cup {Listener}
<1>1. Append(written[c], u) \in Seq(Units)
  BY AppendProperties DEF TypeOK
<1> QED
  BY <1>1 DEF Write, Edge, TypeOK

\* Add and Remove keep the two tables well typed.
LEMMA AddSessionType ==
  ASSUME TypeOK, NEW p \in Products, NEW f \in Fds, AddSession(p, f)
  PROVE  /\ socket_list_' \in [Products -> Fds \cup {NoFd}]
         /\ reverse_socket_list_' \in [Fds -> Products \cup {NoProduct}]
  BY DEF TypeOK, AddSession, sessionVars

\* Remove does too, whatever number it is given.
LEMMA RemoveSessionType ==
  ASSUME TypeOK, NEW p, RemoveSession(p)
  PROVE  /\ socket_list_' \in [Products -> Fds \cup {NoFd}]
         /\ reverse_socket_list_' \in [Fds -> Products \cup {NoProduct}]
  BY DEF TypeOK, RemoveSession, sessionVars

-----------------------------------------------------------------------------
(* Connections and descriptors.                                            *)

\* A connection that waits in the backlog has no descriptor yet and waits
\* once.
BacklogFresh ==
  /\ \A i \in DOMAIN backlog : /\ fd[backlog[i]] = NoFd
                              /\ peer[backlog[i]] # "idle"
  /\ \A i, j \in DOMAIN backlog : backlog[i] = backlog[j] => i = j

\* Descriptors are given out once.
FdsUnique ==
  /\ next_fd >= FirstFd
  /\ \A c \in Conns : /\ peer[c] = "idle" => fd[c] = NoFd
                      /\ fd[c] < next_fd
  /\ \A c, d \in Conns : fd[c] = fd[d] /\ fd[c] # NoFd => c = d

\* Events come from watched connections, which were accepted.
EventsWatched ==
  /\ (ready \cup batch) \ {Listener} \subseteq watched
  /\ \A c \in watched : fd[c] # NoFd

\* No more is read than was written.
ReadBounded == \A c \in Conns : consumed[c] <= Len(written[c])

Inv == TypeOK /\ BacklogFresh /\ FdsUnique /\ EventsWatched /\ ReadBounded

\* When Initialize has returned, nothing is connected and nothing is queued.
LEMMA InitInv == Init => Inv
<1> SUFFICES ASSUME Init PROVE Inv
  OBVIOUS
<1>1. TypeOK
  BY EmptySeq DEF Init, TypeOK, NoMessage
<1>2. BacklogFresh /\ FdsUnique /\ EventsWatched
  BY DEF Init, BacklogFresh, FdsUnique, EventsWatched, NoFd
<1>3. ReadBounded
  BY EmptySeq DEF Init, ReadBounded
<1> QED
  BY <1>1, <1>2, <1>3 DEF Inv

-----------------------------------------------------------------------------
(* Type correctness.                                                       *)

\* What a client process does to its stream and its connection.
LEMMA ClientStepType ==
  ASSUME Inv, NEW c \in Conns, ClientStep(c)
  PROVE  TypeOK'
<1> USE DEF Inv
<1>1. CASE Connect(c)
  <2>1. backlog' \in Seq(Conns)
    BY <1>1, AppendProperties DEF Connect, TypeOK
  <2> QED
    BY <1>1, <2>1 DEF Connect, TypeOK, sessionVars, parseVars
<1>2. CASE WriteProduct(c)
  <2>1. /\ written' \in [Conns -> Seq(Units)]
        /\ ready' \subseteq Conns \cup {Listener}
    BY <1>2, WriteType, ProductUnitType DEF WriteProduct
  <2> QED
    BY <1>2, <2>1 DEF WriteProduct, Write, TypeOK, acceptVars, sessionVars, parseVars
<1>3. CASE SendMessage(c)
  <2>1. PICK n \in 1..MaxSize :
          LET msg == NewMessage(c, message_id[c] + 1, n)
          IN  /\ Write(c, Head(msg))
              /\ sending' = [sending EXCEPT ![c] = Tail(msg)]
    BY <1>3 DEF SendMessage
  <2> DEFINE msg == NewMessage(c, message_id[c] + 1, n)
  <2>2. message_id[c] + 1 \in 0..MaxMessages
    BY <1>3 DEF SendMessage, TypeOK
  <2>3. msg \in Seq(Units) /\ msg # << >>
    BY <2>2, NewMessageType
  <2>4. Head(msg) \in Units /\ Tail(msg) \in Seq(Units)
    BY <2>3, HeadTailProperties
  <2>5. /\ written' \in [Conns -> Seq(Units)]
        /\ ready' \subseteq Conns \cup {Listener}
    BY <2>1, <2>4, WriteType
  <2> HIDE DEF msg
  <2> QED
    BY <1>3, <2>1, <2>2, <2>4, <2>5
    DEF msg, SendMessage, Write, TypeOK, acceptVars, sessionVars, parseVars
<1>4. CASE WriteMessage(c)
  <2>1. Head(sending[c]) \in Units /\ Tail(sending[c]) \in Seq(Units)
    BY <1>4, HeadTailProperties DEF WriteMessage, TypeOK
  <2>2. /\ written' \in [Conns -> Seq(Units)]
        /\ ready' \subseteq Conns \cup {Listener}
    BY <1>4, <2>1, WriteType DEF WriteMessage
  <2> QED
    BY <1>4, <2>1, <2>2
    DEF WriteMessage, Write, TypeOK, acceptVars, sessionVars, parseVars
<1>5. CASE CloseClient(c)
  <2>1. sending' \in [Conns -> Seq(Units)]
    BY <1>5, EmptySeq DEF CloseClient, TypeOK
  <2>2. peer' \in [Conns -> {"idle", "open", "closed", "reset"}]
    BY <1>5 DEF CloseClient, TypeOK
  <2> QED
    BY <1>5, <2>1, <2>2
    DEF CloseClient, Edge, TypeOK, acceptVars, sessionVars, parseVars
<1> QED
  BY <1>1, <1>2, <1>3, <1>4, <1>5 DEF ClientStep

\* The read loop, whatever is done with the chunk.
LEMMA ReadAllType ==
  ASSUME TypeOK, EventsWatched, NEW c \in Conns, ReadAll(c)
  PROVE  /\ fd[c] \in Fds
         /\ Key(c) \in Keys
         /\ Chunk(c) \in Seq(Units)
         /\ consumed' \in [Conns -> Nat]
         /\ peer' \in [Conns -> {"idle", "open", "closed", "reset"}]
         /\ batch' \subseteq Conns \cup {Listener}
<1>1. c \in watched
  BY DEF ReadAll, EventsWatched
<1>2. fd[c] \in Fds
  BY <1>1 DEF EventsWatched, TypeOK
<1>3. Key(c) \in Keys
  BY <1>2 DEF Key, Identified, Keys, TypeOK
<1>4. Deliverable(c) \in Nat
  BY LenProperties DEF TypeOK, Deliverable
<1>5. consumed' \in [Conns -> Nat] /\ peer' \in [Conns -> {"idle", "open", "closed", "reset"}]
  BY <1>4 DEF ReadAll, TakeError, TypeOK
<1>6. Chunk(c) \in Seq(Units)
  <2>1. written[c] \in Seq(Units) /\ consumed[c] \in Nat
    BY DEF TypeOK
  <2> QED
    BY <2>1, ChunkProperties
<1>7. batch' \subseteq Conns \cup {Listener}
  BY DEF ReadAll, TypeOK
<1> QED
  BY <1>2, <1>3, <1>5, <1>6, <1>7

\* Each branch of the event handler of a connection (120-194).
LEMMA HandleConnEventType ==
  ASSUME Inv, NEW c \in Conns, HandleConnEvent(c)
  PROVE  TypeOK'
<1> USE DEF Inv
<1>1. CASE NothingToRead(c)
  BY <1>1 DEF NothingToRead, TakeError, TypeOK, acceptVars, sessionVars, parseVars
<1>2. CASE Disconnect(c)
  <2>1. /\ socket_list_' \in [Products -> Fds \cup {NoFd}]
        /\ reverse_socket_list_' \in [Fds -> Products \cup {NoProduct}]
    BY <1>2, RemoveSessionType DEF Disconnect
  <2> QED
    BY <1>2, <2>1 DEF Disconnect, TypeOK, clientVars, parseVars
<1>3. CASE DropData(c)
  <2>1. ReadAll(c)
    BY <1>3 DEF DropData
  <2> QED
    BY <1>3, <2>1, ReadAllType
    DEF DropData, ReadAll, TypeOK, acceptVars, sessionVars, parseVars
<1>4. CASE StoreHeader(c)
  <2>1. ReadAll(c)
    BY <1>4 DEF StoreHeader
  <2>2. Add(message_map_, Key(c), Chunk(c)) \in [Keys -> Seq(Units)]
    BY <2>1, ReadAllType DEF Add, TypeOK
  <2>3. /\ message_map_' \in [Keys -> Seq(Units)]
        /\ delivered' \in Seq([product : Keys, msg : Seq(Units)])
    BY <1>4, <2>1, <2>2, ReadAllType, DeliverType DEF StoreHeader, TypeOK
  <2> QED
    BY <1>4, <2>1, <2>3, ReadAllType
    DEF StoreHeader, ReadAll, TypeOK, acceptVars, sessionVars
<1>5. CASE RegisterProduct(c)
  <2>1. ReadAll(c)
    BY <1>5 DEF RegisterProduct
  <2>2. product_code[c] \in Products
    BY DEF Products
  <2>3. /\ socket_list_' \in [Products -> Fds \cup {NoFd}]
        /\ reverse_socket_list_' \in [Fds -> Products \cup {NoProduct}]
    BY <1>5, <2>1, <2>2, ReadAllType, AddSessionType DEF RegisterProduct
  <2>4. /\ message_map_' \in [Keys -> Seq(Units)]
        /\ delivered' \in Seq([product : Keys, msg : Seq(Units)])
    BY <1>5, <2>1, ReadAllType, DeliverType DEF RegisterProduct, TypeOK
  <2> QED
    BY <1>5, <2>1, <2>3, <2>4, ReadAllType
    DEF RegisterProduct, ReadAll, TypeOK, acceptVars
<1>6. CASE AppendToMessage(c)
  <2>1. ReadAll(c)
    BY <1>6 DEF AppendToMessage
  <2> DEFINE longer == AppendData(message_map_[Key(c)], Chunk(c))
  <2>2. longer \in Seq(Units)
    BY <2>1, ReadAllType, ConcatProperties DEF AppendData, TypeOK
  <2>3. Add(message_map_, Key(c), longer) \in [Keys -> Seq(Units)]
    BY <2>1, <2>2, ReadAllType DEF Add, TypeOK
  <2>4. \/ Deliver(Add(message_map_, Key(c), longer), Key(c))
        \/ Deliver(message_map_, Key(c))
    BY <1>6 DEF AppendToMessage
  <2>5. /\ message_map_' \in [Keys -> Seq(Units)]
        /\ delivered' \in Seq([product : Keys, msg : Seq(Units)])
    <3> HIDE DEF longer
    <3> QED
      BY <2>1, <2>3, <2>4, ReadAllType, DeliverType DEF TypeOK
  <2> QED
    BY <1>6, <2>1, <2>5, ReadAllType
    DEF AppendToMessage, ReadAll, TypeOK, acceptVars, sessionVars
<1> QED
  BY <1>1, <1>2, <1>3, <1>4, <1>5, <1>6 DEF HandleConnEvent

\* Every step of the handler thread and of the clients.
LEMMA TypeStep == Inv /\ [Next]_vars => TypeOK'
<1> SUFFICES ASSUME Inv, [Next]_vars PROVE TypeOK'
  OBVIOUS
<1> USE DEF Inv
<1>1. CASE EpollWait
  BY <1>1 DEF EpollWait, TypeOK, clientVars, acceptVars, sessionVars, parseVars
<1>2. CASE Accept
  <2>1. Head(backlog) \in Conns /\ Tail(backlog) \in Seq(Conns)
    BY <1>2, HeadTailProperties DEF Accept, AcceptEvent, TypeOK
  <2>2. next_fd \in Fds
    BY <1>2 DEF Accept, DescriptorLeft, Fds, FdsUnique, TypeOK
  <2>3. /\ fd' \in [Conns -> Fds \cup {NoFd}]
        /\ next_fd' \in Nat
        /\ backlog' \in Seq(Conns)
    BY <1>2, <2>1, <2>2 DEF Accept, StillWaiting, TypeOK
  <2>4. /\ watched' \subseteq Conns
        /\ ready' \subseteq Conns \cup {Listener}
        /\ batch' \subseteq Conns \cup {Listener}
    BY <1>2, <2>1 DEF Accept, AcceptEvent, TypeOK
  <2> QED
    BY <1>2, <2>3, <2>4 DEF Accept, TypeOK, clientVars, sessionVars, parseVars
<1>3. CASE AcceptFails
  BY <1>3 DEF AcceptFails, AcceptEvent, TypeOK, clientVars, acceptVars, sessionVars, parseVars
<1>4. CASE \E c \in Conns : HandleConnEvent(c)
  BY <1>4, HandleConnEventType
<1>5. CASE \E c \in Conns : ClientStep(c)
  BY <1>5, ClientStepType
<1>6. CASE UNCHANGED vars
  BY <1>6 DEF vars, TypeOK, clientVars, acceptVars, sessionVars, parseVars
<1> QED
  BY <1>1, <1>2, <1>3, <1>4, <1>5, <1>6 DEF Next, ServerStep

-----------------------------------------------------------------------------
(* The inductive invariant.                                                *)

\* What all event handlers of a connection have in common.
LEMMA HandlerFrame ==
  ASSUME NEW c \in Conns, HandleConnEvent(c)
  PROVE  /\ batch' = batch \ {c}
         /\ watched' \subseteq watched
         /\ ready' \subseteq ready
         /\ \/ watched' = watched /\ ready' = ready
            \/ watched' = watched \ {c} /\ ready' = ready \ {c}
         /\ UNCHANGED << backlog, fd, next_fd, greeted, written >>
         /\ \/ UNCHANGED peer
            \/ TakeError(c)
<1>1. CASE NothingToRead(c)
  BY <1>1 DEF NothingToRead, acceptVars
<1>2. CASE Disconnect(c)
  BY <1>2 DEF Disconnect, clientVars
<1>3. CASE ReadAll(c)
  BY <1>3 DEF ReadAll, acceptVars
<1> QED
  BY <1>1, <1>2, <1>3
  DEF HandleConnEvent, DropData, StoreHeader, RegisterProduct, AppendToMessage

\* What all client steps but Connect have in common.
LEMMA ClientFrame ==
  ASSUME TypeOK, NEW c \in Conns, ClientStep(c)
  PROVE  \/ Connect(c)
         \/ /\ UNCHANGED << backlog, fd, next_fd, watched, batch, consumed,
                            sessionVars, parseVars >>
            /\ ready' = Edge(c)
            /\ peer[c] = "open"
            /\ \/ UNCHANGED peer
               \/ peer' = [peer EXCEPT ![c] = "closed"]
               \/ peer' = [peer EXCEPT ![c] = "reset"]
            /\ \/ UNCHANGED written
               \/ \E u \in Units : written' = [written EXCEPT ![c] = Append(@, u)]
<1>1. CASE WriteProduct(c)
  BY <1>1, ProductUnitType DEF WriteProduct, Write, acceptVars
<1>2. CASE SendMessage(c)
  <2>1. PICK n \in 1..MaxSize : Write(c, Head(NewMessage(c, message_id[c] + 1, n)))
    BY <1>2 DEF SendMessage
  <2>2. message_id[c] + 1 \in 0..MaxMessages
    BY <1>2 DEF SendMessage, TypeOK
  <2>3. Head(NewMessage(c, message_id[c] + 1, n)) \in Units
    BY <2>2, NewMessageType, HeadTailProperties
  <2> QED
    BY <1>2, <2>1, <2>3 DEF SendMessage, Write, acceptVars
<1>3. CASE WriteMessage(c)
  <2>1. Head(sending[c]) \in Units
    BY <1>3, HeadTailProperties DEF WriteMessage, TypeOK
  <2> QED
    BY <1>3, <2>1 DEF WriteMessage, Write, acceptVars
<1>4. CASE CloseClient(c)
  BY <1>4 DEF CloseClient, acceptVars
<1> QED
  BY <1>1, <1>2, <1>3, <1>4 DEF ClientStep

\* After its handler a connection is drained; the others are as before.
LEMMA ConsumedFrame ==
  ASSUME TypeOK, NEW c \in Conns, HandleConnEvent(c)
  PROVE  /\ \A d \in Conns : d # c => consumed'[d] = consumed[d]
         /\ consumed'[c] = Len(written[c])
<1>1. CASE ReadAll(c)
  BY <1>1 DEF ReadAll, TypeOK, Deliverable
<1>2. CASE NothingToRead(c) \/ Disconnect(c)
  BY <1>2 DEF NothingToRead, Disconnect, Drained
<1> QED
  BY <1>1, <1>2
  DEF HandleConnEvent, DropData, StoreHeader, RegisterProduct, AppendToMessage

\* A client changes its own stream only, and only lengthens it.
LEMMA WrittenFrame ==
  ASSUME TypeOK, NEW c \in Conns, ClientStep(c), NEW d \in Conns
  PROVE  /\ d # c => written'[d] = written[d]
         /\ Len(written'[d]) \in Nat
         /\ Len(written[d]) \in Nat
         /\ Len(written[d]) <= Len(written'[d])
<1>1. written[d] \in Seq(Units) /\ Len(written[d]) \in Nat
  BY LenProperties DEF TypeOK
<1>2. CASE UNCHANGED written
  BY <1>1, <1>2
<1>3. CASE \E u \in Units : written' = [written EXCEPT ![c] = Append(@, u)]
  <2>1. PICK u \in Units : written' = [written EXCEPT ![c] = Append(@, u)]
    BY <1>3
  <2>2. written'[d] = IF d = c THEN Append(written[d], u) ELSE written[d]
    BY <2>1 DEF TypeOK
  <2>3. Len(Append(written[d], u)) = Len(written[d]) + 1
    BY <1>1, AppendProperties
  <2> QED
    BY <1>1, <2>2, <2>3
<1> QED
  BY <1>2, <1>3, ClientFrame DEF Connect

\* accept (106) takes a connection that has no descriptor and gives it a
\* number no other connection has.
LEMMA BacklogStep == Inv /\ [Next]_vars => BacklogFresh' /\ FdsUnique'
<1> SUFFICES ASSUME Inv, [Next]_vars PROVE BacklogFresh' /\ FdsUnique'
  OBVIOUS
<1> USE DEF Inv
<1>1. CASE EpollWait \/ AcceptFails \/ UNCHANGED vars
  <2>1. UNCHANGED << peer, backlog, fd, next_fd >>
    BY <1>1 DEF EpollWait, AcceptFails, vars, clientVars, acceptVars
  <2> QED
    BY <2>1 DEF BacklogFresh, FdsUnique
<1>2. CASE Accept
  <2> DEFINE h == Head(backlog)
  <2>1. /\ backlog # << >> /\ backlog \in Seq(Conns)
        /\ backlog' = Tail(backlog)
        /\ fd' = [fd EXCEPT ![h] = next_fd]
        /\ next_fd' = next_fd + 1
        /\ UNCHANGED peer
    BY <1>2 DEF Accept, AcceptEvent, StillWaiting, clientVars, TypeOK
  <2>2. /\ Len(backlog) \in Nat \ {0}
        /\ DOMAIN backlog = 1..Len(backlog)
        /\ h = backlog[1]
    BY <2>1, LenProperties, EmptySeq
  <2>3. /\ Tail(backlog) \in Seq(Conns)
        /\ Len(Tail(backlog)) = Len(backlog) - 1
        /\ \A i \in 1..Len(Tail(backlog)) : Tail(backlog)[i] = backlog[i+1]
    BY <2>1, HeadTailProperties
  <2>4. DOMAIN backlog' = 1..(Len(backlog) - 1)
    BY <2>1, <2>3, LenProperties
  <2>5. \A i \in DOMAIN backlog' : i + 1 \in DOMAIN backlog /\ backlog'[i] = backlog[i+1]
    BY <2>1, <2>2, <2>3, <2>4
  <2>6. \A i \in DOMAIN backlog' : backlog'[i] # h
    BY <2>2, <2>4, <2>5 DEF BacklogFresh
  <2>7. BacklogFresh'
    <3>1. ASSUME NEW i \in DOMAIN backlog'
          PROVE  fd'[backlog'[i]] = NoFd /\ peer'[backlog'[i]] # "idle"
      BY <2>1, <2>5, <2>6 DEF BacklogFresh, TypeOK
    <3>2. ASSUME NEW i \in DOMAIN backlog', NEW j \in DOMAIN backlog',
                 backlog'[i] = backlog'[j]
          PROVE  i = j
      <4>1. i + 1 = j + 1
        BY <2>5, <3>2 DEF BacklogFresh
      <4> QED
        BY <2>2, <2>4, <4>1
    <3> QED
      BY <3>1, <3>2 DEF BacklogFresh
  <2>8. FdsUnique'
    <3>1. h \in Conns /\ peer[h] # "idle"
      <4>1. 1 \in DOMAIN backlog
        BY <2>2
      <4>2. h \in Conns
        BY <2>1, HeadTailProperties
      <4> QED
        BY <2>2, <4>1, <4>2 DEF BacklogFresh
    <3>2. next_fd \in Nat /\ next_fd >= FirstFd /\ NoFd < next_fd
      BY DEF FdsUnique, NoFd, TypeOK
    <3>3. \A c \in Conns : fd[c] \in Int
      BY DEF TypeOK, Fds, NoFd
    <3>4. \A c \in Conns : fd'[c] = IF c = h THEN next_fd ELSE fd[c]
      BY <2>1, <3>1 DEF TypeOK
    <3>5. \A c \in Conns : fd[c] < next_fd /\ fd[c] # next_fd
      BY <3>2, <3>3 DEF FdsUnique
    <3>6. next_fd' >= FirstFd /\ \A c \in Conns : fd'[c] < next_fd'
      BY <2>1, <3>2, <3>3, <3>4, <3>5
    <3>7. \A c \in Conns : peer'[c] = "idle" => fd'[c] = NoFd
      BY <2>1, <3>1, <3>4 DEF FdsUnique
    <3>8. \A c, d \in Conns : fd'[c] = fd'[d] /\ fd'[c] # NoFd => c = d
      BY <3>4, <3>5 DEF FdsUnique
    <3> QED
      BY <3>6, <3>7, <3>8 DEF FdsUnique
  <2> QED
    BY <2>7, <2>8
<1>3. ASSUME NEW c \in Conns, HandleConnEvent(c)
      PROVE  BacklogFresh' /\ FdsUnique'
  <2>1. UNCHANGED << backlog, fd, next_fd >>
    BY <1>3, HandlerFrame
  <2>2. \A d \in Conns : peer'[d] = "idle" <=> peer[d] = "idle"
    <3>1. peer' = peer \/ TakeError(c)
      BY <1>3, HandlerFrame
    <3>2. CASE TakeError(c)
      <4>1. \A d \in Conns : peer'[d] = peer[d] \/ (peer[d] = "reset" /\ peer'[d] = "closed")
        BY <3>2 DEF TakeError, TypeOK
      <4> QED
        BY <4>1
    <3> QED
      BY <3>1, <3>2
  <2>3. \A i \in DOMAIN backlog : backlog[i] \in Conns
    BY LenProperties, ElementOfSeq DEF TypeOK
  <2> QED
    BY <2>1, <2>2, <2>3 DEF BacklogFresh, FdsUnique
<1>4. ASSUME NEW c \in Conns, ClientStep(c)
      PROVE  BacklogFresh' /\ FdsUnique'
  <2>1. CASE Connect(c)
    <3>1. /\ backlog' = Append(backlog, c) /\ peer[c] = "idle"
          /\ peer' = [peer EXCEPT ![c] = "open"]
          /\ UNCHANGED << fd, next_fd >>
      BY <2>1 DEF Connect
    <3>2. \A d \in Conns : peer'[d] = "idle" => peer[d] = "idle" /\ d # c
      BY <3>1 DEF TypeOK
    <3>3. backlog \in Seq(Conns) /\ Len(backlog) \in Nat /\ DOMAIN backlog = 1..Len(backlog)
      BY LenProperties DEF TypeOK
    <3>4. /\ backlog' \in Seq(Conns)
          /\ Len(backlog') = Len(backlog) + 1
          /\ \A i \in 1..Len(backlog) : backlog'[i] = backlog[i]
          /\ backlog'[Len(backlog) + 1] = c
      BY <3>1, <3>3, AppendProperties
    <3>5. DOMAIN backlog' = 1..(Len(backlog) + 1)
      BY <3>4, LenProperties
    <3>6. \A i \in DOMAIN backlog : backlog[i] \in Conns /\ backlog[i] # c
      BY <3>1, <3>3, ElementOfSeq DEF BacklogFresh
    <3>7. \A i \in DOMAIN backlog' : i \in DOMAIN backlog \/ i = Len(backlog) + 1
      BY <3>3, <3>5
    <3>8. BacklogFresh'
      <4>1. ASSUME NEW i \in DOMAIN backlog'
            PROVE  fd'[backlog'[i]] = NoFd /\ peer'[backlog'[i]] # "idle"
        <5>1. CASE i \in DOMAIN backlog
          BY <5>1, <3>1, <3>2, <3>3, <3>4, <3>6 DEF BacklogFresh
        <5>2. CASE i = Len(backlog) + 1
          BY <5>2, <3>1, <3>2, <3>4 DEF FdsUnique
        <5> QED
          BY <5>1, <5>2, <3>7
      <4>2. ASSUME NEW i \in DOMAIN backlog', NEW j \in DOMAIN backlog',
                   backlog'[i] = backlog'[j]
            PROVE  i = j
        BY <4>2, <3>3, <3>4, <3>6, <3>7 DEF BacklogFresh
      <4> QED
        BY <4>1, <4>2 DEF BacklogFresh
    <3>9. FdsUnique'
      BY <3>1, <3>2 DEF FdsUnique
    <3> QED
      BY <3>8, <3>9
  <2>2. CASE ~Connect(c)
    <3>1. UNCHANGED << backlog, fd, next_fd >>
      BY <1>4, <2>2, ClientFrame
    <3>2. \A d \in Conns : peer'[d] = "idle" <=> peer[d] = "idle"
      BY <1>4, <2>2, ClientFrame DEF TypeOK
    <3>3. \A i \in DOMAIN backlog : backlog[i] \in Conns
      BY LenProperties, ElementOfSeq DEF TypeOK
    <3> QED
      BY <3>1, <3>2, <3>3 DEF BacklogFresh, FdsUnique
  <2> QED
    BY <2>1, <2>2
<1> QED
  BY <1>1, <1>2, <1>3, <1>4 DEF Next, ServerStep

\* Only EPOLL_CTL_ADD (112) makes a connection report events, and
\* EPOLL_CTL_DEL (129) ends them.
LEMMA EventsStep == Inv /\ [Next]_vars => EventsWatched'
<1> SUFFICES ASSUME Inv, [Next]_vars PROVE EventsWatched'
  OBVIOUS
<1> USE DEF Inv
<1>1. CASE EpollWait
  BY <1>1 DEF EpollWait, EventsWatched, acceptVars
<1>2. CASE Accept
  <2>1. Head(backlog) \in Conns
    BY <1>2, HeadTailProperties DEF Accept, AcceptEvent, TypeOK
  <2>2. next_fd # NoFd
    BY DEF FdsUnique, NoFd, TypeOK
  <2>3. \A c \in Conns : fd'[c] = IF c = Head(backlog) THEN next_fd ELSE fd[c]
    BY <1>2, <2>1 DEF Accept, TypeOK
  <2>4. watched \subseteq Conns
    BY DEF TypeOK
  <2>5. /\ batch' = batch \ {Listener}
        /\ \/ watched' = watched \cup {Head(backlog)} /\ ready' = ready \cup {Head(backlog)}
           \/ UNCHANGED << watched, ready >>
    BY <1>2 DEF Accept, AcceptEvent
  <2> QED
    BY <2>1, <2>2, <2>3, <2>4, <2>5 DEF EventsWatched
<1>3. CASE AcceptFails
  BY <1>3 DEF AcceptFails, AcceptEvent, EventsWatched, acceptVars
<1>4. ASSUME NEW c \in Conns, HandleConnEvent(c)
      PROVE  EventsWatched'
  BY <1>4, HandlerFrame DEF EventsWatched
<1>5. ASSUME NEW c \in Conns, ClientStep(c)
      PROVE  EventsWatched'
  <2>1. CASE Connect(c)
    BY <2>1 DEF Connect, EventsWatched
  <2>2. CASE ~Connect(c)
    BY <1>5, <2>2, ClientFrame DEF Edge, EventsWatched
  <2> QED
    BY <2>1, <2>2
<1>6. CASE UNCHANGED vars
  BY <1>6 DEF vars, acceptVars, EventsWatched
<1> QED
  BY <1>1, <1>2, <1>3, <1>4, <1>5, <1>6 DEF Next, ServerStep

\* The read loop (137-149) stops where the stream ends.
LEMMA ReadBoundedStep == Inv /\ [Next]_vars => ReadBounded'
<1> SUFFICES ASSUME Inv, [Next]_vars PROVE ReadBounded'
  OBVIOUS
<1> USE DEF Inv
<1>0. \A d \in Conns : Len(written[d]) \in Nat /\ consumed[d] \in Nat
  BY LenProperties DEF TypeOK
<1>1. CASE EpollWait \/ Accept \/ AcceptFails \/ UNCHANGED vars
  BY <1>1 DEF EpollWait, Accept, AcceptFails, vars, ReadBounded
<1>2. ASSUME NEW c \in Conns, HandleConnEvent(c)
      PROVE  ReadBounded'
  <2>1. written' = written
    BY <1>2, HandlerFrame
  <2> QED
    BY <1>0, <1>2, <2>1, ConsumedFrame DEF ReadBounded
<1>3. ASSUME NEW c \in Conns, ClientStep(c)
      PROVE  ReadBounded'
  <2>1. consumed' = consumed
    BY <1>3, ClientFrame DEF Connect
  <2>2. \A d \in Conns : /\ Len(written'[d]) \in Nat
                         /\ Len(written[d]) <= Len(written'[d])
    BY <1>3, WrittenFrame
  <2> QED
    BY <1>0, <2>1, <2>2 DEF ReadBounded
<1> QED
  BY <1>1, <1>2, <1>3 DEF Next, ServerStep

\* The inductive invariant: types, the backlog and the descriptors accept has
\* given out, which connections can report events, and how far each is read.
THEOREM Invariance == Spec => []Inv
<1>1. Inv /\ [Next]_vars => Inv'
  BY TypeStep, BacklogStep, EventsStep, ReadBoundedStep DEF Inv
<1> QED
  BY InitInv, <1>1, PTL DEF Spec

\* Every variable of the server stays within its type: in particular data is
\* only ever filed under a product code that was announced, or under 0, and
\* the session tables hold no other descriptors than accepted ones.
THEOREM TypeCorrect == Spec => []TypeOK
<1>1. Inv => TypeOK
  BY DEF Inv
<1> QED
  BY <1>1, Invariance, PTL

-----------------------------------------------------------------------------
(* Edges.                                                                  *)

\* A write raises an edge, also one that comes while the handler is reading;
\* the handler forgets an edge only together with all the input there is.
LEMMA NoLostEdgeStep == Inv /\ NoLostEdge /\ [Next]_vars => NoLostEdge'
<1> SUFFICES ASSUME Inv, NoLostEdge, [Next]_vars PROVE NoLostEdge'
  OBVIOUS
<1> USE DEF Inv
<1>1. CASE EpollWait
  BY <1>1 DEF EpollWait, NoLostEdge, acceptVars
<1>2. CASE Accept
  <2>1. Head(backlog) \in Conns
    BY <1>2, HeadTailProperties DEF Accept, AcceptEvent, TypeOK
  <2>2. \A c \in watched : c \in Conns /\ c # Listener
    BY DEF TypeOK
  <2> QED
    BY <1>2, <2>1, <2>2 DEF Accept, AcceptEvent, NoLostEdge
<1>3. CASE AcceptFails
  <2>1. \A c \in watched : c # Listener
    BY DEF TypeOK
  <2> QED
    BY <1>3, <2>1 DEF AcceptFails, AcceptEvent, NoLostEdge, acceptVars
<1>4. ASSUME NEW c \in Conns, HandleConnEvent(c)
      PROVE  NoLostEdge'
  <2>1. \A d \in watched' : d \in watched /\ (d # c => (d \in ready \cup batch => d \in ready' \cup batch'))
    BY <1>4, HandlerFrame
  <2>2. written' = written
    BY <1>4, HandlerFrame
  <2>3. \A d \in Conns : d # c => consumed'[d] = consumed[d]
    BY <1>4, ConsumedFrame
  <2>4. consumed'[c] = Len(written'[c])
    BY <1>4, <2>2, ConsumedFrame
  <2>5. Len(written'[c]) \in Nat
    BY <2>2, LenProperties DEF TypeOK
  <2>6. ASSUME NEW d \in watched', consumed'[d] < Len(written'[d])
        PROVE  d \in ready' \cup batch'
    <3>1. d # c
      BY <2>4, <2>5, <2>6
    <3>2. d \in Conns
      BY <2>1 DEF TypeOK
    <3> QED
      BY <2>1, <2>2, <2>3, <2>6, <3>1, <3>2 DEF NoLostEdge
  <2> QED
    BY <2>6 DEF NoLostEdge
<1>5. ASSUME NEW c \in Conns, ClientStep(c)
      PROVE  NoLostEdge'
  <2>1. CASE Connect(c)
    BY <2>1 DEF Connect, NoLostEdge
  <2>2. CASE ~Connect(c)
    <3>1. /\ UNCHANGED << watched, batch, consumed >>
          /\ ready' = Edge(c)
      BY <1>5, <2>2, ClientFrame
    <3>2. \A d \in Conns : d # c => written'[d] = written[d]
      BY <1>5, WrittenFrame
    <3>3. ASSUME NEW d \in watched, consumed[d] < Len(written'[d])
          PROVE  d \in Edge(c) \cup batch
      BY <3>2, <3>3 DEF Edge, NoLostEdge, TypeOK
    <3> QED
      BY <3>1, <3>3 DEF NoLostEdge
  <2> QED
    BY <2>1, <2>2
<1>6. CASE UNCHANGED vars
  BY <1>6 DEF vars, acceptVars, NoLostEdge
<1> QED
  BY <1>1, <1>2, <1>3, <1>4, <1>5, <1>6 DEF Next, ServerStep

\* Unread input of a watched connection always has an event on its way to
\* the handler: the edge-triggered loop (86-149) loses no bytes.
THEOREM EdgesKept == Spec => []NoLostEdge
<1>1. Init => NoLostEdge
  BY DEF Init, NoLostEdge
<1> QED
  BY <1>1, NoLostEdgeStep, Invariance, PTL DEF Spec

\* Each connect adds a connection and at most one accept event; each accept
\* takes one of both.
LEMMA AcceptStep == Inv /\ AcceptNeverBlocks /\ [Next]_vars => AcceptNeverBlocks'
<1> SUFFICES ASSUME Inv, AcceptNeverBlocks, [Next]_vars PROVE AcceptNeverBlocks'
  OBVIOUS
<1> USE DEF Inv
<1>0. backlog \in Seq(Conns) /\ Len(backlog) \in Nat
  BY LenProperties DEF TypeOK
<1>1. CASE EpollWait
  BY <1>1 DEF EpollWait, AcceptNeverBlocks, acceptVars
<1>2. CASE Accept
  <2>1. /\ Listener \in batch /\ backlog # << >>
        /\ batch' = batch \ {Listener} /\ backlog' = Tail(backlog)
        /\ Listener \in ready' => Listener \in ready
    <3>1. Head(backlog) # Listener
      BY <1>2, <1>0, HeadTailProperties DEF Accept, AcceptEvent
    <3> QED
      BY <1>2, <3>1 DEF Accept, AcceptEvent, StillWaiting
  <2>2. Len(backlog') = Len(backlog) - 1
    BY <1>0, <2>1, HeadTailProperties
  <2>3. Listener \in ready => backlog' # << >>
    <3>1. Listener \in ready => Len(backlog') > 0
      BY <1>0, <2>1, <2>2 DEF AcceptNeverBlocks
    <3> QED
      BY <3>1, EmptySeq
  <2> QED
    BY <2>1, <2>3 DEF AcceptNeverBlocks
<1>3. CASE AcceptFails
  BY <1>3 DEF AcceptFails, AcceptEvent, AcceptNeverBlocks, acceptVars
<1>4. ASSUME NEW c \in Conns, HandleConnEvent(c)
      PROVE  AcceptNeverBlocks'
  BY <1>4, HandlerFrame DEF AcceptNeverBlocks
<1>5. ASSUME NEW c \in Conns, ClientStep(c)
      PROVE  AcceptNeverBlocks'
  <2>1. CASE Connect(c)
    <3>1. backlog' = Append(backlog, c) /\ batch' = batch
      BY <2>1 DEF Connect
    <3>2. backlog' # << >> /\ Len(backlog') = Len(backlog) + 1
      BY <1>0, <3>1, AppendProperties
    <3>3. Listener \in batch => Len(backlog) > 0
      BY <1>0, EmptySeq DEF AcceptNeverBlocks
    <3> QED
      BY <1>0, <3>1, <3>2, <3>3 DEF AcceptNeverBlocks
  <2>2. CASE ~Connect(c)
    BY <1>5, <2>2, ClientFrame DEF Edge, AcceptNeverBlocks
  <2> QED
    BY <2>1, <2>2
<1>6. CASE UNCHANGED vars
  BY <1>6 DEF vars, acceptVars, AcceptNeverBlocks
<1> QED
  BY <1>1, <1>2, <1>3, <1>4, <1>5, <1>6 DEF Next, ServerStep

\* The blocking accept (106) is called only when a connection waits.
THEOREM HandlerNeverBlocks == Spec => []AcceptNeverBlocks
<1>1. Init => AcceptNeverBlocks
  BY DEF Init, AcceptNeverBlocks
<1> QED
  BY <1>1, AcceptStep, Invariance, PTL DEF Spec

-----------------------------------------------------------------------------
(* Refinement.                                                             *)

\* Without its fairness, the level-triggered reader is what the server does:
\* each read takes everything there is, from a watched connection, and only
\* drained connections are given up.
THEOREM ReaderRefined == Spec => Reader!SafeSpec
<1> USE DEF Inv
<1>1. Init => Reader!Init
  BY DEF Init, Reader!Init
<1>2. Inv /\ [Next]_vars => [Reader!Next]_(Reader!vars)
  <2> SUFFICES ASSUME Inv, [Next]_vars PROVE [Reader!Next]_(Reader!vars)
    OBVIOUS
  <2> USE DEF Reader!vars
  <2>1. CASE EpollWait \/ AcceptFails \/ UNCHANGED vars
    BY <2>1 DEF EpollWait, AcceptFails, vars, acceptVars
  <2>2. CASE Accept
    <3>1. Head(backlog) \in Conns
      BY <2>2, HeadTailProperties DEF Accept, AcceptEvent, TypeOK
    <3> QED
      BY <2>2, <3>1 DEF Accept, Reader!Next, Reader!Watch
  <2>3. ASSUME NEW c \in Conns, HandleConnEvent(c)
        PROVE  [Reader!Next]_(Reader!vars)
    <3>1. CASE NothingToRead(c)
      BY <3>1 DEF NothingToRead, acceptVars
    <3>2. CASE Disconnect(c)
      <4>1. Len(written[c]) \in Nat
        BY LenProperties DEF TypeOK
      <4>2. c \in watched
        BY <3>2 DEF Disconnect, EventsWatched
      <4>3. Reader!Unwatch(c)
        BY <3>2, <4>1, <4>2
        DEF Disconnect, Drained, clientVars, Reader!Unwatch, Reader!Unread
      <4> QED
        BY <4>3 DEF Reader!Next
    <3>3. CASE ReadAll(c)
      <4>1. c \in watched
        BY <3>3 DEF ReadAll, EventsWatched
      <4>2. Reader!Unread(c)
        <5>1. consumed[c] \in Nat /\ Len(written[c]) \in Nat
          BY LenProperties DEF TypeOK
        <5> QED
          BY <3>3, <5>1 DEF ReadAll, Drained, ReadBounded, Reader!Unread
      <4>3. Reader!ReadAll(c)
        BY <3>3, <4>1, <4>2 DEF ReadAll, Deliverable, acceptVars, Reader!ReadAll
      <4> QED
        BY <4>3 DEF Reader!Next
    <3> QED
      BY <2>3, <3>1, <3>2, <3>3
      DEF HandleConnEvent, DropData, StoreHeader, RegisterProduct, AppendToMessage
  <2>4. ASSUME NEW c \in Conns, ClientStep(c)
        PROVE  [Reader!Next]_(Reader!vars)
    <3>1. UNCHANGED << consumed, watched >>
      BY <2>4, ClientFrame DEF Connect
    <3>2. UNCHANGED written \/ \E u \in Units : written' = [written EXCEPT ![c] = Append(@, u)]
      BY <2>4, ClientFrame DEF Connect
    <3> QED
      BY <3>1, <3>2 DEF Reader!Next, Reader!Write
  <2> QED
    BY <2>1, <2>2, <2>3, <2>4 DEF Next, ServerStep
<1> QED
  BY <1>1, <1>2, Invariance, PTL DEF Spec, Reader!SafeSpec

-----------------------------------------------------------------------------
(* Sessions.                                                               *)

\* Only the handshake puts a product code into a stream.
OnlyGreetingNames ==
  \A c \in Conns :
    /\ \A i \in DOMAIN written[c] : written[c][i].part = ProductPart => greeted[c]
    /\ \A i \in DOMAIN sending[c] : sending[c][i].part # ProductPart

SessionInv == OnlyGreetingNames /\ SessionSound /\ AtMostOneSession

\* Clients write their product code in MainHandler only, and remember it.
LEMMA GreetingClientStep ==
  ASSUME Inv, OnlyGreetingNames, NEW c \in Conns, ClientStep(c)
  PROVE  OnlyGreetingNames'
<1> USE DEF Inv
<1>0. \A d \in Conns : /\ written[d] \in Seq(Units) /\ Len(written[d]) \in Nat
                       /\ sending[d] \in Seq(Units) /\ Len(sending[d]) \in Nat
                       /\ DOMAIN written[d] = 1..Len(written[d])
                       /\ DOMAIN sending[d] = 1..Len(sending[d])
  BY LenProperties DEF TypeOK
\* A write appends one unit.
<1>1. ASSUME NEW u \in Units, Write(c, u), NEW d \in Conns, NEW i \in DOMAIN written'[d]
      PROVE  \/ i \in DOMAIN written[d] /\ written'[d][i] = written[d][i]
             \/ d = c /\ written'[d][i] = u
  <2>1. written'[d] = IF d = c THEN Append(written[d], u) ELSE written[d]
    BY <1>1 DEF Write, TypeOK
  <2>2. CASE d = c
    <3>1. /\ Append(written[c], u) \in Seq(Units)
          /\ Len(Append(written[c], u)) = Len(written[c]) + 1
          /\ \A j \in 1..Len(written[c]) : Append(written[c], u)[j] = written[c][j]
          /\ Append(written[c], u)[Len(written[c]) + 1] = u
      BY <1>0, AppendProperties
    <3>2. DOMAIN written'[d] = 1..(Len(written[c]) + 1)
      BY <2>1, <2>2, <3>1, LenProperties
    <3>3. i \in 1..Len(written[c]) \/ i = Len(written[c]) + 1
      BY <1>0, <3>2
    <3> QED
      BY <1>0, <2>1, <2>2, <3>1, <3>3
  <2> QED
    BY <1>1, <2>1, <2>2
\* The rest of a message has no product code in it either.
<1>2. ASSUME NEW m \in Seq(Units), m # << >>,
             \A j \in DOMAIN m : m[j].part # ProductPart
      PROVE  /\ Head(m) \in Units /\ Head(m).part # ProductPart
             /\ \A j \in DOMAIN Tail(m) : Tail(m)[j].part # ProductPart
  <2>1. /\ Len(m) \in Nat \ {0} /\ DOMAIN m = 1..Len(m)
        /\ Head(m) \in Units /\ Tail(m) \in Seq(Units)
        /\ Len(Tail(m)) = Len(m) - 1
        /\ \A j \in 1..Len(Tail(m)) : Tail(m)[j] = m[j+1]
    BY <1>2, LenProperties, EmptySeq, HeadTailProperties
  <2>2. DOMAIN Tail(m) = 1..(Len(m) - 1)
    BY <2>1, LenProperties
  <2>3. Head(m) = m[1] /\ 1 \in DOMAIN m
    BY <2>1
  <2>4. \A j \in DOMAIN Tail(m) : j + 1 \in DOMAIN m /\ Tail(m)[j] = m[j+1]
    BY <2>1, <2>2
  <2> QED
    BY <1>2, <2>1, <2>3, <2>4
<1>3. CASE Connect(c)
  BY <1>3 DEF Connect, OnlyGreetingNames
<1>4. CASE WriteProduct(c)
  <2>1. Write(c, ProductUnit(c)) /\ ProductUnit(c) \in Units
    BY <1>4, ProductUnitType DEF WriteProduct
  <2>2. sending' = sending /\ \A d \in Conns : greeted'[d] = (greeted[d] \/ d = c)
    BY <1>4 DEF WriteProduct, TypeOK
  <2>3. ASSUME NEW d \in Conns, NEW i \in DOMAIN written'[d],
               written'[d][i].part = ProductPart
        PROVE  greeted'[d]
    <3>1. \/ i \in DOMAIN written[d] /\ written'[d][i] = written[d][i]
          \/ d = c
      BY <1>1, <2>1
    <3> QED
      BY <2>2, <2>3, <3>1 DEF OnlyGreetingNames
  <2> QED
    BY <2>2, <2>3 DEF OnlyGreetingNames
<1>5. CASE SendMessage(c) \/ WriteMessage(c)
  <2>1. PICK m \in Seq(Units) :
          /\ m # << >>
          /\ \A j \in DOMAIN m : m[j].part # ProductPart
          /\ Write(c, Head(m))
          /\ sending' = [sending EXCEPT ![c] = Tail(m)]
    <3>1. CASE SendMessage(c)
      <4>1. PICK n \in 1..MaxSize :
              /\ Write(c, Head(NewMessage(c, message_id[c] + 1, n)))
              /\ sending' = [sending EXCEPT ![c] = Tail(NewMessage(c, message_id[c] + 1, n))]
        BY <3>1 DEF SendMessage
      <4> DEFINE m == NewMessage(c, message_id[c] + 1, n)
      <4>2. message_id[c] + 1 \in 0..MaxMessages
        BY <3>1 DEF SendMessage, TypeOK
      <4>3. /\ m \in Seq(Units) /\ m # << >> /\ Len(m) = n
            /\ \A j \in 1..n : m[j].part # ProductPart
        BY <4>2, NewMessageType
      <4>4. DOMAIN m = 1..n
        BY <4>3, LenProperties
      <4> QED
        BY <4>1, <4>3, <4>4
    <3>2. CASE WriteMessage(c)
      <4>1. sending[c] \in Seq(Units)
        BY <1>0
      <4>2. /\ sending[c] # << >>
            /\ \A j \in DOMAIN sending[c] : sending[c][j].part # ProductPart
            /\ Write(c, Head(sending[c]))
            /\ sending' = [sending EXCEPT ![c] = Tail(sending[c])]
        BY <3>2 DEF WriteMessage, OnlyGreetingNames
      <4> QED
        BY <4>1, <4>2
    <3> QED
      BY <1>5, <3>1, <3>2
  <2>2. /\ Head(m) \in Units /\ Head(m).part # ProductPart
        /\ \A j \in DOMAIN Tail(m) : Tail(m)[j].part # ProductPart
    BY <1>2, <2>1
  <2>3. greeted' = greeted
    BY <1>5 DEF SendMessage, WriteMessage
  <2>4. \A d \in Conns : sending'[d] = IF d = c THEN Tail(m) ELSE sending[d]
    BY <2>1 DEF TypeOK
  <2>5. ASSUME NEW d \in Conns, NEW i \in DOMAIN written'[d],
               written'[d][i].part = ProductPart
        PROVE  greeted[d]
    <3>1. \/ i \in DOMAIN written[d] /\ written'[d][i] = written[d][i]
          \/ written'[d][i] = Head(m)
      BY <1>1, <2>1, <2>2
    <3> QED
      BY <2>2, <2>5, <3>1 DEF OnlyGreetingNames
  <2> QED
    BY <2>2, <2>3, <2>4, <2>5 DEF OnlyGreetingNames
<1>6. CASE CloseClient(c)
  <2>1. /\ written' = written /\ greeted' = greeted
        /\ \A d \in Conns : sending'[d] = IF d = c THEN << >> ELSE sending[d]
    BY <1>6 DEF CloseClient, TypeOK
  <2> QED
    BY <2>1 DEF OnlyGreetingNames
<1> QED
  BY <1>3, <1>4, <1>5, <1>6 DEF ClientStep

\* Two connections never share a descriptor, so an entry of either table
\* speaks of one connection.
LEMMA SessionOwner ==
  ASSUME Inv, SessionSound, NEW c \in Conns, fd[c] \in Fds
  PROVE  \A p \in Products : \/ socket_list_[p] = fd[c]
                             \/ reverse_socket_list_[fd[c]] = p
                             => p = product_code[c] /\ socket_list_[p] = fd[c]
<1> TAKE p \in Products
<1>1. NoFd \notin Fds /\ p # NoProduct
  BY DEF NoFd, Fds, NoProduct, Products
<1>2. ASSUME socket_list_[p] = fd[c]
      PROVE  p = product_code[c]
  <2>1. PICK d \in Conns : fd[d] = socket_list_[p] /\ product_code[d] = p
    BY <1>1, <1>2 DEF SessionSound
  <2> QED
    BY <1>1, <1>2, <2>1 DEF Inv, FdsUnique
<1>3. ASSUME reverse_socket_list_[fd[c]] = p
      PROVE  socket_list_[p] = fd[c]
  BY <1>1, <1>3 DEF SessionSound
<1> QED
  BY <1>2, <1>3

\* Add is reached only while no session exists: with one, the connection
\* would be ignored, or be the session's own and be refused.
LEMMA AddSessionStep ==
  ASSUME Inv, SessionSound, AtMostOneSession, NEW c \in Conns, fd[c] \in Fds,
         greeted[c], ~Ignored(c), AddSession(product_code[c], fd[c]),
         UNCHANGED << fd, greeted >>
  PROVE  SessionSound' /\ AtMostOneSession'
<1> DEFINE p == product_code[c]
           f == fd[c]
<1>1. NoFd \notin Fds /\ p \in Products /\ NoProduct \notin Products
  BY DEF NoFd, Fds, NoProduct, Products
<1>2. CASE socket_list_[p] # NoFd
  BY <1>2 DEF AddSession, sessionVars, SessionSound, AtMostOneSession
<1>3. CASE socket_list_[p] = NoFd
  <2>1. /\ reverse_socket_list_' = [reverse_socket_list_ EXCEPT ![f] = p]
        /\ socket_list_' = [socket_list_ EXCEPT ![p] = f]
    BY <1>3 DEF AddSession
  <2>2. /\ \A q \in Products : socket_list_'[q] = IF q = p THEN f ELSE socket_list_[q]
        /\ \A g \in Fds : reverse_socket_list_'[g] = IF g = f THEN p ELSE reverse_socket_list_[g]
    BY <1>1, <2>1 DEF Inv, TypeOK
  <2>3. \A q \in Products : socket_list_[q] # f /\ reverse_socket_list_[f] # q
    BY <1>1, <1>3, SessionOwner
  <2>4. \A q \in Products : socket_list_[q] = NoFd
    <3>1. reverse_socket_list_[f] \in Products \cup {NoProduct}
      BY DEF Inv, TypeOK
    <3>2. ~Identified(c)
      BY <2>3, <3>1 DEF Identified
    <3> QED
      BY <3>2 DEF Ignored, HasSessions
  <2>5. AtMostOneSession'
    BY <2>2, <2>4 DEF AtMostOneSession
  <2>6. \A g \in Fds : reverse_socket_list_[g] = NoProduct
    <3>1. \A g \in Fds : reverse_socket_list_[g] \in Products \cup {NoProduct}
      BY DEF Inv, TypeOK
    <3>2. \A g \in Fds : reverse_socket_list_[g] # NoProduct =>
                          socket_list_[reverse_socket_list_[g]] = g
      BY DEF SessionSound
    <3> QED
      BY <1>1, <2>4, <3>1, <3>2
  <2>7. SessionSound'
    <3>1. ASSUME NEW g \in Fds, reverse_socket_list_'[g] # NoProduct
          PROVE  socket_list_'[reverse_socket_list_'[g]] = g
      BY <1>1, <2>2, <2>6, <3>1
    <3>2. ASSUME NEW q \in Products, socket_list_'[q] # NoFd
          PROVE  /\ reverse_socket_list_'[socket_list_'[q]] = q
                 /\ \E d \in Conns : /\ fd'[d] = socket_list_'[q]
                                     /\ product_code[d] = q
                                     /\ greeted'[d]
      <4>1. q = p /\ socket_list_'[q] = f
        BY <2>2, <2>4, <3>2
      <4> QED
        BY <2>2, <4>1
    <3> QED
      BY <3>1, <3>2 DEF SessionSound
  <2> QED
    BY <2>5, <2>7
<1> QED
  BY <1>2, <1>3

\* Remove takes the one session there is out of both tables, or does nothing.
LEMMA RemoveSessionStep ==
  ASSUME Inv, SessionSound, AtMostOneSession, NEW k, RemoveSession(k),
         UNCHANGED << fd, greeted >>
  PROVE  SessionSound' /\ AtMostOneSession'
<1>1. CASE k \in Products /\ socket_list_[k] # NoFd
  <2> DEFINE f == socket_list_[k]
  <2>1. f \in Fds
    BY <1>1 DEF Inv, TypeOK
  <2>2. /\ \A q \in Products : socket_list_'[q] = IF q = k THEN NoFd ELSE socket_list_[q]
        /\ \A g \in Fds : reverse_socket_list_'[g] =
                             IF g = f THEN NoProduct ELSE reverse_socket_list_[g]
    BY <1>1 DEF RemoveSession, Inv, TypeOK
  <2>3. \A q \in Products : socket_list_'[q] = NoFd
    BY <1>1, <2>2 DEF AtMostOneSession
  <2>4. \A g \in Fds : reverse_socket_list_'[g] = NoProduct
    <3>1. \A g \in Fds : reverse_socket_list_[g] \in Products \cup {NoProduct}
      BY DEF Inv, TypeOK
    <3>2. \A g \in Fds : reverse_socket_list_[g] # NoProduct =>
                          socket_list_[reverse_socket_list_[g]] = g
      BY DEF SessionSound
    <3>3. NoFd \notin Fds
      BY DEF NoFd, Fds
    <3>4. ASSUME NEW g \in Fds, g # f
          PROVE  reverse_socket_list_[g] = NoProduct
      BY <1>1, <3>1, <3>2, <3>3, <3>4 DEF AtMostOneSession
    <3> QED
      BY <2>2, <3>4
  <2> QED
    BY <2>3, <2>4 DEF SessionSound, AtMostOneSession
<1>2. CASE ~(k \in Products /\ socket_list_[k] # NoFd)
  BY <1>2 DEF RemoveSession, sessionVars, SessionSound, AtMostOneSession
<1> QED
  BY <1>1, <1>2

\* Only Disconnect and RegisterProduct touch the tables.
LEMMA SessionStep == Inv /\ SessionInv /\ [Next]_vars => SessionInv'
<1> SUFFICES ASSUME Inv, SessionInv, [Next]_vars PROVE SessionInv'
  OBVIOUS
<1> USE DEF Inv, SessionInv
<1>1. CASE EpollWait \/ AcceptFails \/ UNCHANGED vars
  <2>1. UNCHANGED << written, sending, greeted, fd, socket_list_, reverse_socket_list_ >>
    BY <1>1 DEF EpollWait, AcceptFails, vars, clientVars, acceptVars, sessionVars
  <2> QED
    BY <2>1 DEF OnlyGreetingNames, SessionSound, AtMostOneSession
<1>2. CASE Accept
  <2>1. UNCHANGED << written, sending, greeted, socket_list_, reverse_socket_list_ >>
    BY <1>2 DEF Accept, clientVars, sessionVars
  <2>2. \A d \in Conns : fd[d] # NoFd => fd'[d] = fd[d]
    <3>1. backlog \in Seq(Conns) /\ backlog # << >>
      BY <1>2 DEF Accept, AcceptEvent, TypeOK
    <3>2. Head(backlog) = backlog[1] /\ 1 \in DOMAIN backlog /\ Head(backlog) \in Conns
      BY <3>1, HeadTailProperties, LenProperties, EmptySeq
    <3>3. fd[Head(backlog)] = NoFd
      BY <3>2 DEF BacklogFresh
    <3> QED
      BY <1>2, <3>2, <3>3 DEF Accept, TypeOK
  <2>3. SessionSound'
    BY <2>1, <2>2 DEF SessionSound
  <2> QED
    BY <2>1, <2>3 DEF OnlyGreetingNames, AtMostOneSession
<1>3. ASSUME NEW c \in Conns, HandleConnEvent(c)
      PROVE  SessionInv'
  <2>1. UNCHANGED << written, greeted, fd, sending >>
    <3>1. UNCHANGED sending
      BY <1>3
      DEF HandleConnEvent, NothingToRead, Disconnect, DropData, StoreHeader,
          RegisterProduct, AppendToMessage, ReadAll, clientVars
    <3> QED
      BY <1>3, <3>1, HandlerFrame
  <2>2. OnlyGreetingNames'
    BY <2>1 DEF OnlyGreetingNames
  <2>3. CASE UNCHANGED sessionVars
    BY <2>1, <2>2, <2>3 DEF sessionVars, SessionSound, AtMostOneSession
  <2>4. CASE Disconnect(c)
    BY <2>1, <2>2, <2>4, RemoveSessionStep DEF Disconnect
  <2>5. CASE RegisterProduct(c)
    <3>1. fd[c] \in Fds
      BY <2>5, ReadAllType DEF RegisterProduct
    <3>2. greeted[c]
      <4>1. PICK i \in DOMAIN Chunk(c) : Chunk(c)[i].part = ProductPart
        <5>1. Chunk(c) \in Seq(Units)
          BY <2>5, ReadAllType DEF RegisterProduct
        <5>2. DOMAIN Chunk(c) = 1..Len(Chunk(c)) /\ Len(Chunk(c)) \in Nat
          BY <5>1, LenProperties
        <5>3. PICK n \in 1..Len(Chunk(c)) : AnnouncesProduct(Chunk(c), n)
          BY <2>5 DEF RegisterProduct
        <5>4. PICK i \in 1..n : Chunk(c)[i].part = ProductPart
          BY <5>3 DEF AnnouncesProduct
        <5>5. i \in 1..Len(Chunk(c))
          BY <5>2
        <5> QED
          BY <5>2, <5>4, <5>5
      <4>2. written[c] \in Seq(Units) /\ consumed[c] \in Nat
        BY DEF TypeOK
      <4>3. /\ consumed[c] + i \in DOMAIN written[c]
            /\ Chunk(c)[i] = written[c][consumed[c] + i]
        BY <4>2, ChunkProperties
      <4> QED
        BY <4>1, <4>3 DEF OnlyGreetingNames
    <3> QED
      BY <2>1, <2>2, <2>5, <3>1, <3>2, AddSessionStep DEF RegisterProduct
  <2> QED
    BY <1>3, <2>3, <2>4, <2>5
    DEF HandleConnEvent, NothingToRead, DropData, StoreHeader, AppendToMessage
<1>4. ASSUME NEW c \in Conns, ClientStep(c)
      PROVE  SessionInv'
  <2>1. OnlyGreetingNames'
    BY <1>4, GreetingClientStep
  <2>2. UNCHANGED << fd, socket_list_, reverse_socket_list_ >>
    BY <1>4, ClientFrame DEF Connect, sessionVars
  <2>3. \A d \in Conns : greeted[d] => greeted'[d]
    BY <1>4 DEF ClientStep, Connect, WriteProduct, SendMessage, WriteMessage,
                CloseClient, TypeOK
  <2> QED
    BY <2>1, <2>2, <2>3 DEF SessionSound, AtMostOneSession
<1> QED
  BY <1>1, <1>2, <1>3, <1>4 DEF Next, ServerStep

\* The inductive invariant of the sessions, on top of Inv: a product code in
\* a stream was written by its client, and the tables are sound and hold at
\* most one session.
THEOREM SessionInvariance == Spec => []SessionInv
<1>1. Init => SessionInv
  BY EmptySeq DEF Init, SessionInv, OnlyGreetingNames, SessionSound, AtMostOneSession
<1> QED
  BY <1>1, SessionStep, Invariance, PTL DEF Spec

\* The session tables are inverse to each other, and a session belongs to a
\* connection whose client announced that product, also where product codes
\* are descriptor numbers and Remove (133) ends a stranger's session.
THEOREM SessionsSound == Spec => []SessionSound
<1>1. SessionInv => SessionSound
  BY DEF SessionInv
<1> QED
  BY <1>1, SessionInvariance, PTL

\* However many clients connect, the server never has two sessions: the test
\* for product information (151-155) also stops the handshake of the second.
THEOREM OneSession == Spec => []AtMostOneSession
<1>1. SessionInv => AtMostOneSession
  BY DEF SessionInv
<1> QED
  BY <1>1, SessionInvariance, PTL
-----------------------------------------------------------------------------
(* A client that announces itself first, and alone, is registered.         *)

\* Nothing is read from a connection before it was accepted.
ReadAccepted == \A c \in Conns : consumed[c] > 0 => fd[c] # NoFd

\* A session belongs to a connection whose product code was read, and not
\* only written (SessionSound): while nobody's was, there is no session.
SessionsAnnounced ==
  \A p \in Products :
    socket_list_[p] # NoFd =>
      \E c \in Conns : /\ fd[c] = socket_list_[p]
                       /\ product_code[c] = p
                       /\ Announced(c)

GreetingInv == ReadAccepted /\ SessionsAnnounced /\ GreetingFirstRegisters

\* What was read stays read, whatever is written or read next.
LEMMA ReadStays ==
  ASSUME Inv, [Next]_vars, NEW d \in Conns
  PROVE  /\ consumed[d] \in Nat /\ consumed'[d] \in Nat
         /\ consumed[d] <= consumed'[d]
         /\ \A i \in 1..consumed[d] : written'[d][i] = written[d][i]
         /\ Announced(d) => Announced(d)'
<1> USE DEF Inv
<1>1. /\ consumed[d] \in Nat /\ consumed[d] <= Len(written[d])
      /\ written[d] \in Seq(Units) /\ Len(written[d]) \in Nat
  BY LenProperties DEF TypeOK, ReadBounded
<1>2. consumed'[d] \in Nat
  BY TypeStep DEF TypeOK
<1>3. /\ consumed[d] <= consumed'[d]
      /\ \A i \in 1..consumed[d] : written'[d][i] = written[d][i]
  <2>1. CASE EpollWait \/ Accept \/ AcceptFails \/ UNCHANGED vars
    <3>1. UNCHANGED << consumed, written >>
      BY <2>1 DEF EpollWait, Accept, AcceptFails, vars
    <3> QED
      BY <1>1, <3>1
  <2>2. ASSUME NEW c \in Conns, HandleConnEvent(c)
        PROVE  <1>3!1 /\ <1>3!2
    <3>1. written' = written
      BY <2>2, HandlerFrame
    <3>2. consumed'[d] = consumed[d] \/ consumed'[d] = Len(written[d])
      BY <2>2, ConsumedFrame
    <3> QED
      BY <1>1, <3>1, <3>2
  <2>3. ASSUME NEW c \in Conns, ClientStep(c)
        PROVE  <1>3!1 /\ <1>3!2
    <3>1. consumed' = consumed
      BY <2>3, ClientFrame DEF Connect
    <3>2. CASE UNCHANGED written
      BY <1>1, <3>1, <3>2
    <3>3. CASE \E u \in Units : written' = [written EXCEPT ![c] = Append(@, u)]
      <4>1. PICK u \in Units : written' = [written EXCEPT ![c] = Append(@, u)]
        BY <3>3
      <4>2. written'[d] = written[d] \/ written'[d] = Append(written[d], u)
        BY <4>1 DEF TypeOK
      <4>3. \A i \in 1..Len(written[d]) : Append(written[d], u)[i] = written[d][i]
        BY <1>1, AppendProperties
      <4>4. \A i \in 1..consumed[d] : i \in 1..Len(written[d])
        BY <1>1
      <4> QED
        BY <1>1, <3>1, <4>2, <4>3, <4>4
    <3> QED
      BY <2>3, <3>2, <3>3, ClientFrame DEF Connect
  <2> QED
    BY <2>1, <2>2, <2>3 DEF Next, ServerStep
<1>4. \A i \in 1..consumed[d] : i \in 1..consumed'[d]
  BY <1>1, <1>2, <1>3
<1>5. Announced(d) => Announced(d)'
  BY <1>3, <1>4 DEF Announced
<1> QED
  BY <1>1, <1>2, <1>3, <1>5

\* accept (106) is the only step that gives a descriptor, to a connection
\* that has none.
LEMMA FdStays ==
  ASSUME Inv, [Next]_vars, NEW d \in Conns
  PROVE  fd[d] # NoFd => fd'[d] = fd[d]
<1> USE DEF Inv
<1>1. CASE Accept
  <2>1. backlog \in Seq(Conns) /\ backlog # << >>
    BY <1>1 DEF Accept, AcceptEvent, TypeOK
  <2>2. Head(backlog) = backlog[1] /\ 1 \in DOMAIN backlog /\ Head(backlog) \in Conns
    BY <2>1, HeadTailProperties, LenProperties, EmptySeq
  <2>3. fd[Head(backlog)] = NoFd
    BY <2>2 DEF BacklogFresh
  <2> QED
    BY <1>1, <2>2, <2>3 DEF Accept, TypeOK
<1>2. CASE EpollWait \/ AcceptFails \/ UNCHANGED vars
  BY <1>2 DEF EpollWait, AcceptFails, vars, acceptVars
<1>3. ASSUME NEW c \in Conns, HandleConnEvent(c)
      PROVE  fd' = fd
  BY <1>3, HandlerFrame
<1>4. ASSUME NEW c \in Conns, ClientStep(c)
      PROVE  fd' = fd
  BY <1>4, ClientFrame DEF Connect
<1> QED
  BY <1>1, <1>2, <1>3, <1>4 DEF Next, ServerStep

\* Only accepted connections report the events that make the handler read.
LEMMA ReadAcceptedStep == Inv /\ ReadAccepted /\ [Next]_vars => ReadAccepted'
<1> SUFFICES ASSUME Inv, ReadAccepted, [Next]_vars,
                    NEW d \in Conns, consumed'[d] > 0
             PROVE  fd'[d] # NoFd
  BY DEF ReadAccepted
<1> USE DEF Inv
<1>1. CASE consumed'[d] = consumed[d]
  BY <1>1, FdStays DEF ReadAccepted
<1>2. ASSUME NEW c \in Conns, HandleConnEvent(c), consumed'[d] # consumed[d]
      PROVE  fd[d] # NoFd
  <2>1. d = c
    BY <1>2, ConsumedFrame
  <2>2. c \in batch
    BY <1>2 DEF HandleConnEvent, NothingToRead, Disconnect, DropData, StoreHeader,
                RegisterProduct, AppendToMessage, ReadAll
  <2>3. c # Listener
    OBVIOUS
  <2> QED
    BY <2>1, <2>2, <2>3 DEF EventsWatched
<1>3. ASSUME NEW c \in Conns, ClientStep(c)
      PROVE  consumed' = consumed
  BY <1>3, ClientFrame DEF Connect
<1>4. CASE EpollWait \/ Accept \/ AcceptFails \/ UNCHANGED vars
  BY <1>1, <1>4 DEF EpollWait, Accept, AcceptFails, vars
<1> QED
  BY <1>1, <1>2, <1>3, <1>4, FdStays DEF Next, ServerStep
\* A registration has just read the product code.
LEMMA RegisteredAnnounced ==
  ASSUME Inv, NEW c \in Conns, RegisterProduct(c)
  PROVE  Announced(c)'
<1> USE DEF Inv
<1>1. ReadAll(c)
  BY DEF RegisterProduct
<1>2. Chunk(c) \in Seq(Units) /\ written[c] \in Seq(Units) /\ consumed[c] \in Nat
  BY <1>1, ReadAllType DEF TypeOK
<1>3. DOMAIN Chunk(c) = 1..Len(Chunk(c)) /\ Len(Chunk(c)) \in Nat
  BY <1>2, LenProperties
<1>4. PICK n \in 1..Len(Chunk(c)) : AnnouncesProduct(Chunk(c), n)
  BY DEF RegisterProduct
<1>5. PICK i \in 1..n : Chunk(c)[i].part = ProductPart
  BY <1>4 DEF AnnouncesProduct
<1>6. i \in DOMAIN Chunk(c) /\ i \in Nat
  BY <1>3
<1>7. consumed[c] + i \in DOMAIN written[c] /\ Chunk(c)[i] = written[c][consumed[c] + i]
  BY <1>2, <1>6, ChunkProperties
<1>8. written' = written /\ consumed'[c] = Len(written[c])
  BY <1>1 DEF ReadAll, TypeOK, Deliverable
<1>9. consumed[c] + i \in 1..consumed'[c]
  BY <1>2, <1>7, <1>8, LenProperties
<1> QED
  BY <1>5, <1>7, <1>8, <1>9 DEF Announced

\* What a step does to the session tables: a registration enters the
\* connection it read from, a disconnect takes the entry of a number out.
LEMMA SessionFrame ==
  ASSUME Inv, [Next]_vars
  PROVE  \/ UNCHANGED sessionVars
         \/ \E c \in Conns : /\ RegisterProduct(c)
                             /\ fd[c] \in Fds
                             /\ socket_list_[product_code[c]] = NoFd
                             /\ socket_list_' = [socket_list_ EXCEPT ![product_code[c]] = fd[c]]
         \/ \E c \in Conns : /\ Disconnect(c)
                             /\ fd[c] \in Products
                             /\ socket_list_' = [socket_list_ EXCEPT ![fd[c]] = NoFd]
<1> USE DEF Inv
<1>1. CASE EpollWait \/ Accept \/ AcceptFails \/ UNCHANGED vars
  BY <1>1 DEF EpollWait, Accept, AcceptFails, vars
<1>2. ASSUME NEW c \in Conns, ClientStep(c)
      PROVE  UNCHANGED sessionVars
  BY <1>2, ClientFrame DEF Connect
<1>3. ASSUME NEW c \in Conns, HandleConnEvent(c)
      PROVE  \/ UNCHANGED sessionVars
             \/ /\ RegisterProduct(c)
                /\ fd[c] \in Fds
                /\ socket_list_[product_code[c]] = NoFd
                /\ socket_list_' = [socket_list_ EXCEPT ![product_code[c]] = fd[c]]
             \/ /\ Disconnect(c)
                /\ fd[c] \in Products
                /\ socket_list_' = [socket_list_ EXCEPT ![fd[c]] = NoFd]
  <2>1. CASE RegisterProduct(c)
    <3>1. fd[c] \in Fds
      BY <2>1, ReadAllType DEF RegisterProduct
    <3> QED
      BY <2>1, <3>1 DEF RegisterProduct, AddSession
  <2>2. CASE Disconnect(c)
    BY <2>2 DEF Disconnect, RemoveSession
  <2> QED
    BY <1>3, <2>1, <2>2
    DEF HandleConnEvent, NothingToRead, DropData, StoreHeader, AppendToMessage
<1> QED
  BY <1>1, <1>2, <1>3 DEF Next, ServerStep

\* The owner of a session stays announced and keeps its descriptor.
LEMMA SessionsAnnouncedStep ==
  Inv /\ SessionsAnnounced /\ [Next]_vars => SessionsAnnounced'
<1> SUFFICES ASSUME Inv, SessionsAnnounced, [Next]_vars,
                    NEW p \in Products, socket_list_'[p] # NoFd
             PROVE  \E c \in Conns : /\ fd'[c] = socket_list_'[p]
                                     /\ product_code[c] = p
                                     /\ Announced(c)'
  BY DEF SessionsAnnounced
<1>0. socket_list_ \in [Products -> Fds \cup {NoFd}]
  BY DEF Inv, TypeOK
<1>1. CASE socket_list_'[p] = socket_list_[p]
  <2>1. PICK c \in Conns : /\ fd[c] = socket_list_[p]
                           /\ product_code[c] = p
                           /\ Announced(c)
    BY <1>1 DEF SessionsAnnounced
  <2>2. fd'[c] = fd[c] /\ Announced(c)'
    BY <1>1, <2>1, FdStays, ReadStays
  <2> QED
    BY <1>1, <2>1, <2>2
<1>2. ASSUME NEW c \in Conns, RegisterProduct(c), fd[c] \in Fds,
             socket_list_' = [socket_list_ EXCEPT ![product_code[c]] = fd[c]],
             socket_list_'[p] # socket_list_[p]
      PROVE  fd'[c] = socket_list_'[p] /\ product_code[c] = p /\ Announced(c)'
  <2>1. p = product_code[c] /\ socket_list_'[p] = fd[c]
    BY <1>0, <1>2
  <2>2. fd' = fd
    BY <1>2 DEF RegisterProduct, ReadAll, acceptVars
  <2> QED
    BY <1>2, <2>1, <2>2, RegisteredAnnounced
<1>3. ASSUME NEW c \in Conns, socket_list_' = [socket_list_ EXCEPT ![fd[c]] = NoFd]
      PROVE  socket_list_'[p] = socket_list_[p]
  BY <1>0, <1>3
<1> QED
  BY <1>1, <1>2, <1>3, SessionFrame DEF sessionVars

\* The first read of a client that greets first, while no client is
\* announced: there is no session, so the connection is not ignored; the
\* text begins with the product code, so it is neither a header nor data.
LEMMA FirstRead ==
  ASSUME Inv, SessionsAnnounced, NEW c \in Conns, HandleConnEvent(c),
         consumed[c] = 0, consumed'[c] > 0,
         written[c][1].part = ProductPart,
         \A d \in Conns \ {c} : ~Announced(d)
  PROVE  socket_list_'[product_code[c]] = fd[c]
<1> USE DEF Inv
<1>1. ReadAll(c)
  BY DEF HandleConnEvent, NothingToRead, Disconnect, DropData, StoreHeader,
         RegisterProduct, AppendToMessage
<1>2. /\ Chunk(c) \in Seq(Units) /\ written[c] \in Seq(Units)
      /\ Len(written[c]) \in Nat /\ consumed'[c] = Len(written[c])
      /\ fd[c] \in Fds
  BY <1>1, ReadAllType, ConsumedFrame, LenProperties DEF TypeOK
<1>3. Chunk(c) = written[c]
  <2>1. Chunk(c) = SubSeq(written[c], 1, Len(written[c]))
    BY DEF Chunk, Deliverable
  <2> QED
    BY <1>2, <2>1, SubSeqFull
<1>4. 1 \in 1..Len(Chunk(c)) /\ Chunk(c)[1].part = ProductPart
  BY <1>2, <1>3
<1>5. ~HasSessions
  <2>1. ~Announced(c)
    BY DEF Announced
  <2> QED
    BY <2>1 DEF HasSessions, SessionsAnnounced
<1>6. ~DropData(c)
  BY <1>5 DEF DropData, Ignored
<1>7. ~StoreHeader(c)
  BY <1>4 DEF StoreHeader, IsHeader, ProductPart, HeaderPart
<1>8. ~AppendToMessage(c)
  <2>1. \A n \in 1..Len(Chunk(c)) : AnnouncesProduct(Chunk(c), n)
    <3>1. TAKE n \in 1..Len(Chunk(c))
    <3>2. 1 \in 1..n /\ 1..(1 - 1) = {}
      OBVIOUS
    <3> QED
      BY <1>4, <3>2 DEF AnnouncesProduct
  <2> QED
    BY <2>1 DEF AppendToMessage
<1>9. RegisterProduct(c)
  BY <1>6, <1>7, <1>8
  DEF HandleConnEvent, NothingToRead, Disconnect, clientVars, parseVars
<1>10. socket_list_[product_code[c]] = NoFd /\ product_code[c] \in Products
  BY <1>5 DEF HasSessions, Products
<1> QED
  BY <1>2, <1>9, <1>10 DEF RegisterProduct, AddSession, TypeOK

\* From then on only its own disconnect takes the session away, because no
\* other connection has its product code for a descriptor number.
LEMMA GreetingStep ==
  Inv /\ GreetingInv /\ [Next]_vars => GreetingFirstRegisters'
<1> SUFFICES ASSUME Inv, GreetingInv, [Next]_vars,
                    NEW c \in watched',
                    consumed'[c] > 0, written'[c][1].part = ProductPart,
                    \A d \in Conns \ {c} : ~Announced(d)' /\ fd'[d] # product_code[c]
             PROVE  socket_list_'[product_code[c]] = fd'[c]
  BY DEF GreetingFirstRegisters
<1> USE DEF Inv, GreetingInv
<1>1. c \in Conns /\ product_code[c] \in Products /\ NoFd \notin Products
  <2>1. TypeOK'
    BY TypeStep
  <2>2. c \in Conns
    BY <2>1 DEF TypeOK
  <2>3. \A d \in Conns : product_code[d] # -1
    OBVIOUS
  <2> QED
    BY <2>2, <2>3 DEF Products, NoFd
<1>2. \A d \in Conns \ {c} : ~Announced(d) /\ fd[d] # product_code[c]
  <2>1. TAKE d \in Conns \ {c}
  <2>2. ~Announced(d)
    BY ReadStays
  <2>3. CASE fd[d] = NoFd
    BY <1>1, <2>2, <2>3
  <2>4. CASE fd[d] # NoFd
    BY <2>2, <2>4, FdStays
  <2> QED
    BY <2>3, <2>4
<1>3. consumed[c] \in Nat /\ socket_list_ \in [Products -> Fds \cup {NoFd}]
  BY <1>1 DEF TypeOK
<1>4. CASE consumed[c] = 0
  <2>1. ASSUME NEW d \in Conns, HandleConnEvent(d)
        PROVE  /\ d = c /\ written' = written /\ fd' = fd
    BY <1>1, <1>4, <2>1, ConsumedFrame, HandlerFrame
  <2>2. ASSUME NEW d \in Conns, HandleConnEvent(d)
        PROVE  socket_list_'[product_code[c]] = fd'[c]
    BY <1>1, <1>2, <1>4, <2>1, <2>2, FirstRead
  <2>3. ASSUME NEW d \in Conns, ClientStep(d)
        PROVE  consumed' = consumed
    BY <2>3, ClientFrame DEF Connect
  <2>4. EpollWait \/ Accept \/ AcceptFails \/ UNCHANGED vars => consumed' = consumed
    BY DEF EpollWait, Accept, AcceptFails, vars
  <2> QED
    BY <1>1, <1>4, <2>2, <2>3, <2>4 DEF Next, ServerStep
<1>5. CASE consumed[c] > 0
  <2>1. fd[c] # NoFd /\ fd'[c] = fd[c]
    BY <1>1, <1>5, FdStays DEF ReadAccepted
  <2>2. written[c][1].part = ProductPart
    <3>1. 1 \in 1..consumed[c]
      BY <1>3, <1>5
    <3> QED
      BY <1>1, <3>1, ReadStays
  <2>3. c \in watched
    <3>1. ASSUME Accept PROVE c \in watched
      <4>1. backlog \in Seq(Conns) /\ backlog # << >>
        BY <3>1 DEF Accept, AcceptEvent, TypeOK
      <4>2. Head(backlog) = backlog[1] /\ 1 \in DOMAIN backlog
        BY <4>1, HeadTailProperties, LenProperties, EmptySeq
      <4>3. c # Head(backlog)
        BY <2>1, <4>2 DEF BacklogFresh
      <4> QED
        BY <3>1, <4>3 DEF Accept
    <3>2. EpollWait \/ AcceptFails \/ UNCHANGED vars => watched' = watched
      BY DEF EpollWait, AcceptFails, vars, acceptVars
    <3>3. ASSUME NEW d \in Conns, HandleConnEvent(d)
          PROVE  watched' \subseteq watched
      BY <3>3, HandlerFrame
    <3>4. ASSUME NEW d \in Conns, ClientStep(d)
          PROVE  watched' = watched
      BY <3>4, ClientFrame DEF Connect
    <3> QED
      BY <3>1, <3>2, <3>3, <3>4 DEF Next, ServerStep
  <2>4. socket_list_[product_code[c]] = fd[c]
    BY <1>2, <1>5, <2>2, <2>3 DEF GreetingFirstRegisters
  <2>5. socket_list_'[product_code[c]] = socket_list_[product_code[c]]
    <3>1. ASSUME NEW d \in Conns, socket_list_[product_code[d]] = NoFd,
                 socket_list_' = [socket_list_ EXCEPT ![product_code[d]] = fd[d]]
          PROVE  <2>5
      BY <1>1, <1>3, <2>1, <2>4, <3>1
    <3>2. ASSUME NEW d \in Conns, Disconnect(d),
                 socket_list_' = [socket_list_ EXCEPT ![fd[d]] = NoFd]
          PROVE  <2>5
      <4>1. d # c
        BY <3>2 DEF Disconnect
      <4> QED
        BY <1>1, <1>2, <1>3, <3>2, <4>1
    <3> QED
      BY <3>1, <3>2, SessionFrame DEF sessionVars
  <2> QED
    BY <2>1, <2>4, <2>5
<1> QED
  BY <1>3, <1>4, <1>5

\* "after the first connection the promised product code is thrown" (162): a
\* client that announces itself first, and alone, has a session from the
\* handler's first read until it leaves, whatever it sends behind the product
\* code and however many others connect and send without an announcement.
THEOREM GreetingRegisters == Spec => []GreetingFirstRegisters
<1>1. Init => GreetingInv
  BY DEF Init, GreetingInv, ReadAccepted, SessionsAnnounced, GreetingFirstRegisters
<1>2. Inv /\ GreetingInv /\ [Next]_vars => GreetingInv'
  BY ReadAcceptedStep, SessionsAnnouncedStep, GreetingStep DEF GreetingInv
<1>3. GreetingInv => GreetingFirstRegisters
  BY DEF GreetingInv
<1> QED
  BY <1>1, <1>2, <1>3, Invariance, PTL DEF Spec
=============================================================================
