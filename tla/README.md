# Verification of the IPC prototypes in this repository

The repository tries several ways of connecting processes on one machine and
settles on unix domain sockets (`README.md` l. 3). This directory holds TLA+
models of that library and of the named pipes with threads it was tried against,
the TLC runs that check them and theorems about them with proofs for TLAPS.

    tlc -workers 2 -config ServerSessions.cfg MCServer
    tlc -workers 2 -config NamedPipes.cfg NamedPipeManager
    tlapm UnixDomainSocketServer_proofs.tla

The modules use the community modules' `TLC`/`FiniteSets` companions only; the
proofs need `SequenceTheorems`, `FiniteSetTheorems` and `TLAPS`.

## The system

| Part | Source | State | Operations |
|---|---|---|---|
| Message framing | `unixdomainsocket/include/Message.{h,cpp}` | `message_map_`: one unfinished message per product | build, append, parse; `Add`, `MessagePop`, `IsPerfectMessage`, `IsExistMessage` |
| Server, receive path | `UnixDomainSocketServer.cpp` 86-215 | listening socket, epoll set, `message_map_` local to the thread | accept, read, disconnect, handshake, reassemble, callback |
| Server, send path | `UnixDomainSocketServer.cpp` 217-294 | `message_id`, `response_msg_id`, `need_response_message_` | `SendMessage` (three), `SendMessageBroadcast`, `WriteMessage` |
| Session manager | `UnixDomainSocketSessionManager.cpp` | `socket_list_` (product to descriptor), `reverse_socket_list_`, `mutex_` | `Add`, `Remove`, `GetProductCode`, `GetSocketFd`, `GetSocketFdAll`, `GetSocketFdSize`, `RemoveAll` |
| Client | `UnixDomainSocketClient.cpp` | `client_socket_fd_`, `isConnected_`, `isEpollAdded_`, `message_manager_`, the same three as the send path | `MainHandler`, `SendMessage` (three), `WriteMessage`, `Finalize` |
| Wrappers and tools | `SocketWrapper`, `EpollWrapper`, `FileDescriptorTool`, `StringTool`, `mutex.hpp` | none | one system call each |
| Interface, factory | `UnixDomainSocketInterface.cpp`, `UnixDomainSocketFactory.h` | none | allocate a server or a client |
| Test programs | `unixdomainsocket/{server,client}/main.cpp` | none | read a line, send it; the client's callback answers 5-byte messages |
| Named pipes, threads | `namedpipe_with_thread/include` | `m_pipe_list` per product: two descriptors, two paths, `work_thread`; the FIFOs and paths outside the process | `Initialize`, `SendData`, the destructor with `RemovePipeThreads`, the reader thread `PipeThreadProc`, the check thread `WritePipeCheckThreadProc` |
| Named pipes, epoll | `namedpipe_with_epoll/include` | `read_pipe`, `epollFd_` | `Initialize`, `EpollHandler` |
| TCP with boost::asio | `tcp_with_boost_asio/include/Asio*` | thread pool, acceptor | a stub: nothing calls `InitAccept`, so nothing is ever accepted |

How they interact. A client process connects, writes `product:<digit>` and from
then on writes messages: a 20-byte header (`MessageHeader`) with the full size
and an id, then the body. The server's detached `EpollHandler` thread accepts
one connection per event, reads each stream until `read()` returns 0 or -1, and
asks the session manager under which product the bytes are to be filed. Complete
messages go to a callback in the same thread. Application threads send to a
product or to all; they look the descriptor up in the session manager and write
to it from their own thread. The client runs the mirror image in `MainHandler`
and starts over with a new socket when its first `read()` of an event returns 0.
Threads share the session tables (`mutex_` protects updates, not the tests
before them), the client's flags and descriptor, and the maps of awaited
responses (unprotected).

With named pipes each process makes a FIFO under its own path, reads it in a
thread, and has a second thread that opens the peer's path once a second until
it exists. The two processes share nothing but the paths and the FIFOs under
them. A path outlives a killed process; a FIFO's content lives as long as
somebody has it open.

What is hard: both sides use edge-triggered epoll with a loop that reads to the
end, so an edge lost or an end of file swallowed is never reported again; a
stream is cut into reads anywhere; epoll reports at most three events at a time;
the listening socket is blocking; sessions are looked up by one kind of key and
removed by the other; two threads test, then lock, then act; every `write()` is
retried until a socket of bounded size takes it, in the client also by the
thread that should read; either process may die at any point, the client by
SIGPIPE. With named pipes: a reader that is woken by nothing but a message, a
flag it may read before it is written, and processes that are killed and started
again in any order around paths that stay.

What makes each part correct:
- framing: what reaches the callback is a message that was sent, whole, and in
  order, whatever was lost on the way;
- receive path: no input is lost with its edge, the handler never blocks, a
  waiting client is accepted (not so when two share an event: `ServerStranded`),
  the end of a connection is noticed (not so behind data: `ServerMissedEnd`);
- sessions: the tables are inverse to each other, a client that announced itself
  has a session and one that left has none, and the two kinds of threads never
  see or produce half an update;
- client: it announces itself, is connected when it says so (not so after an end:
  `ClientRestart`), and notices that its server is gone (not so after a reset:
  `ClientMissedEnd`); full sockets stop neither process;
- waiting calls: what a call returns answers it (not so when the client says
  something under the same id: `WaitingSendMixUp`), and a call that waits shares
  nothing with another one (not so with two threads: `WaitingSendRace`);
- named pipes: who writes and who reads have the same FIFO across restarts, a
  path that can be found leads to a FIFO that is read, and `quit` ends a process
  as soon as something wakes its reader.

## Modules

- `Message`: framing. A message of size *n* is *n* units, the first one its
  header; the handshake is one unit. The operators have the names of the methods.
- `UnixDomainSocketServer`: the receive path with the kernel objects it drives
  and the clients at the other end. One action per branch of `EpollHandler`;
  each takes the whole read loop, the session manager's call and the delivery.
  `ReadAll` is what the data branches share, `Deliver` is their common end.
- `LevelReader`: what the receive path promises about input, without edges,
  batches or sessions. The server implements it under the identity mapping of
  `written`, `consumed` and `watched`.
- `UnixDomainSocketSessionManager`: the session tables between the epoll thread
  and application threads, one step per unlocked test, lock and table access.
- `UnixDomainSocketClient`: `MainHandler` one member or system call at a time,
  its callback, an application thread in `SendMessage`, and a server process
  that comes and goes, with a thread that sends and a handler that accepts and
  reads; the socket between them holds `Capacity` units in each direction. The
  client goes through all of `MainHandler` after an end, but never connects a
  second time (`ClientRestart`), so all it receives comes over one connection.
- `NamedPipeManager`: two processes with two FIFOs, each with a main thread, a
  reader thread and a check thread. The main thread's steps in `Initialize` are
  one each, because the reader may look at `work_thread` between two of them and
  the peer may look for the path. `Crash` ends a process anywhere, `Start` begins
  its next life.
- `WaitingSend`: the server's `SendMessage` that waits, next to the ones that do
  not, one step per access to `message_id`, `response_msg_id` and
  `need_response_message_`; the epoll thread's search and store; a client whose
  callback answers.
- `RequestReply`: what the waiting `SendMessage` of the server promises: a call
  returns, with its own answer, with nothing, or with what the other side said by
  itself under the call's number, never with the answer to another call. It
  translates no code; `WaitingSend` implements it. The mapping takes `send_id` for
  the numbers and `1..client_id` for what the client has said by itself, and
  shows a call's result when its thread has left the call.
- `MCServer`, `MCSessionManager`: the instances TLC checks.
- `UnixDomainSocketServer_proofs`, `UnixDomainSocketServerFraming_proofs`,
  `UnixDomainSocketSessionManager_proofs`, `UnixDomainSocketClient_proofs`,
  `NamedPipeManager_proofs`, `WaitingSend_proofs`: theorems and proofs.

The server and the session manager overlap on purpose: the first treats a call
of the session manager as atomic and shows what the handler makes of it, the
second opens the calls up and reduces the handler to the order in which it makes
them. In the first, no application thread waits for a response, so the search of
`response_msg_id` in the handler finds nothing; the same holds in the client.
`WaitingSend` takes that search up, with whole messages for the stream and, for
the session manager, a lookup that succeeds or not.

### State and code

| Variable | Code |
|---|---|
| `peer`, `greeted`, `message_id`, `sending` | the client process: open or ended, product code written, its `message_id`, the rest of the buffer of `WriteMessage` |
| `written`, `consumed` | the byte stream of a connection and how far `read()` has come |
| `backlog`, `fd`, `next_fd` | the listening socket's queue, what `accept` returned, the lowest free descriptor: the server never closes one |
| `watched`, `ready`, `batch` | the epoll set, edges not yet reported, the array `epoll_wait` filled less what the loop has handled |
| `socket_list_`, `reverse_socket_list_`, `message_map_` | the members of the same names |
| `delivered` | history: arguments of `async_message_callback_` |
| `socket`, `edge` | in the client module: the state of its socket, the one event it can have |
| `to_client`, `to_server` | in the client module: what either direction of the socket holds |
| `server_sending`, `sending`, `reply` | what `WriteMessage` has still to write: the server's thread, the client's application thread, the client's callback |
| `listening`, `accepted` | in the client module: is there a server, and has its handler accepted the connection? |
| `announced` | in the client module: has a product code been written to the server that listens? Its end resets it |
| `error` | in the client module: a pending `ECONNRESET` of the client's socket |
| `message_id`, `response_msg_id`, `need_response_message_` | the members of the same names; in a map, `Nothing` is "no entry" |
| `send_id`, `wait_time`, `result` | locals of `SendMessage`: the id in `send_msg`, the parameter, the message `result` was taken from |
| `handled`, `matched` | `msg_complete` in the epoll thread, and whether the search found its id |
| `to_client`, `to_server`, `client_id` | in `WaitingSend`: whole messages in the two streams; the client's own `message_id` |
| `proc[p]` | in `NamedPipeManager`: where the threads of process `p` are, and its entry of `m_pipe_list` (`work_thread`, the read and write descriptors, the reader thread's copy `st`) |
| `name[p]` | the FIFO under the path `p` reads, named by the life of `p` that made it; 0: none |
| `content[p][n]`, `life`, `sent` | what such a FIFO holds; how often a process was started; the lines it has sent |
| `unread`, `removed` | history: lines `write()` took that the peer has not read; has a reader thread removed a path? |
| `pc`, `app_pc` | where a thread is between two steps; values are named for what comes next |

### Abstractions

- Bytes are units. A header is not split between two reads, which a writer that
  takes at least 20 bytes at its first `write()` guarantees; a body contains no
  text `product:` and no 2048 bytes without a zero.
- Product codes are 0..9: the client's buffer holds one digit and the server
  reads the last character. Other codes are listed as a hazard.
- A data race on a `std::map` is modelled by its benign outcomes: each access
  sees the table before or after the other thread's. `GetSocketFdAll` copies the
  tables and changes nothing; it is left out.
- A pending `ECONNRESET` is `peer = "reset"` in the server module (the client left
  with unread input) and `error` in the client module (the server left with unread
  input or before it accepted): the first `read()` that finds no data takes it.
- `epoll_wait` fails only with `EINTR`; the re-creation of the epoll set
  (196-212) and `Finalize` are left out, with `RemoveAll`, which only the
  destructor of a static object calls.
- A new descriptor is writable at once, so `EPOLL_CTL_ADD` raises an edge.
- `EPOLL_CTL_ADD` may fail in the server, which then forgets the connection; in
  the client it succeeds.
- The client module's server reads all there is whenever it reads, and its thread
  finds the session as soon as a product code has been read: the receive path is
  the subject of the other module.
- `connect` of the client succeeds when a server listens; the backlog is in the
  server module.
- A FIFO holds whole messages, and a `read()` takes all of them: together they
  are shorter than the 2048 bytes of the buffer. `PIPE_BUF` makes a `write()` of one whole.
- The check thread opens the path and stores the descriptor in one step. A FIFO
  that loses its path in between is one that a later step could lose as well.
- `Initialize` has no `return` on its last path; `main()` does not look at the
  value. The branch of `PipeThreadProc` for a `read()` of 0 (234-241) has no
  action: `connect()` opens with `O_RDWR`, so the reader is a writer of its own
  FIFO and never sees its end. `send_wait_response` has no caller.
- In `WaitingSend` messages travel whole; the messages that share a read are lost
  together, which is what the framing makes of them (`Message`). A message that
  is lost alone is one the client does not answer.
- `++message_id` is a read and a write. `need_response_message_[id]` without an
  entry makes an empty `Message`; the parser reads its header at address 0, and
  the process ends (`alive`).

## Runs

Bounds are constants of the modules: `Conns`, `quota` and `MaxMessages`
(messages a client, or in the client module the server, sends), `MaxSent`
(messages of the client's application thread), `MaxSize` (units of a message), `MaxFd`, `MaxEventCount`, `MaxCalls`
(messages one server thread sends), `MaxOwn` (messages the client sends that
answer nothing), `MaxWait` (polls of a wait), `ServerLives`, `ClientLives`,
`ServerLines` and `ClientLines` (how often a named-pipe process is started and how
many lines it sends). `Capacity` is the size of a socket
or FIFO, not a bound of the model.

| Run | Shows | Bounds and why they suffice |
|---|---|---|
| `ServerSessions` | `TypeOK`, `AtMostOneSession`, `NoLostEdge`, `SessionSound`, `GreetingFirstRegisters`, `DeliveredIntact` | two connections, products 5 and 1, descriptors from 5: `Remove(5)` may hit the session of either connection. The client of product 5 sends three messages of up to two units: a partial message, one that overwrites it and one that follows; reads fall before, between and after units, and the product code comes before, behind or together with a message. The other client only announces itself and leaves, which is enough to compete for the session and to free a descriptor. |
| `ServerReader` | `AcceptNeverBlocks`, `ImplementsReader` (fair) | three connections, two descriptors, so `accept` fails; batches of two, so that with the listening socket they overflow. |
| `SessionThreads` | `TypeOK`, `ReverseSound`, `CheckThenAct`, `AtMostOneSession`, `LookupWhole` | two application threads, three descriptors, product codes that are descriptors in both directions; deadlock is checked. |
| `ClientServer` | `TypeOK`, `NoLostEdge`, `CallbackIntact`, `Announces`, `WritesReturn`, `EndNoticed` (fair) | sockets of two units, messages of up to three: no message fits at once, and an answer waits behind the application's message. Two server messages, one of which may be cut off by the server's end; the server starts and ends without limit. |
| `NamedPipes` | `TypeOK`, `SameFifo`, `FoundOnlyIfRead`, `Delivers`, `Connects`, `JoinReturns` (fair) | one life of the server, two of the client: the client's second life meets a path, a FIFO and a server of its first. FIFOs of two messages and three lines from the client: one `read()` takes two, and a third may find the FIFO full and be lost. One line from the server is enough to wake a reader that is being joined. |
| `WaitingSend` | `TypeOK`, `AwaitedIsUnderWay`, `ImplementsRequestReply` (fair) | one sending thread, three calls of at most two polls: a late response meets the next call and the one after. The client sends two messages of its own, with the ids of the first two calls. |
| `WaitingSendMixUp` | violates `ReturnsResponse` | one message of the client's own |
| `WaitingSendRace` | violates `NeverParsesNull` | two threads with one call each of one poll; the client only answers |
| `ServerStaleSession` | violates `DisconnectEndsSession` | a client that comes back |
| `ServerMissedEnd` | violates `DisconnectNoticed` (fair) | one connection |
| `SessionPhantom` | violates `EverySessionHasSocket` | one application thread |
| `ClientRestart` | violates `ConnectedMeansConnected` | no messages |

Two more configurations show a counterexample each; they are kept beside the runs:
`ServerStranded.cfg` (`MCServer`, fair, two connections and more descriptors than
they need) violates `WaitingAccepted`, and `ClientMissedEnd.cfg`
(`UnixDomainSocketClient`, fair, no messages: the product code is all that is
written) violates `EveryEndNoticed`.

The runs but `SessionThreads` and `SessionPhantom` do not check for deadlock:
when every client has left or every message is sent there is nothing more to do. Each passing property has a mutant in
`PROJECT.json`, an operator in the module that stands next to the one it
replaces and is marked as a mutant.

What the violations say about the code:

- `ServerStaleSession`: `Remove(client_fd)` (133) passes a descriptor where a
  product code is expected. The session of a client that left stays, and because
  there is at most one session (`AtMostOneSession`) nobody else can register.
- `ServerMissedEnd`: the read-more loop does not tell end of file from "nothing
  more". Data followed at once by a close leaves a dead connection in the set.
- `SessionPhantom`: `GetSocketFd` reads with `operator[]` after an unlocked
  test. A disconnect in between leaves an entry with descriptor 0.
- `ServerStranded`: the listening socket is edge-triggered as well, and the handler
  accepts once per event (106). Of two clients that connect before `epoll_wait`
  returns, the second waits in the backlog until a third one comes.
- `ClientMissedEnd`: a `read()` that fails is taken for one with nothing to read
  (127-128). A server that ends without having read all, or before it accepted,
  resets the connection; the read takes the error, the event is used up, and the
  client waits for events of a dead socket.
- `WaitingSendRace`: `message_id` is shared and read again after the wait. A thread
  that starts a call between another one's `count()` (279) and access (280) moves
  the access to an id without a response, and the process ends in the parser.
- `WaitingSendMixUp`: both processes number their messages from 1, and nothing but
  the number marks a response. The client's first line of input is returned as
  the answer to the server's first request.
- `ClientRestart`: after a disconnect `isConnected_` is set when the socket is
  created (76), so `connect` and the handshake are skipped for good.

What the passing properties had to except says as much:

- `AtMostOneSession` is the positive side of a limit: once a session exists, the
  product code of any other connection is dropped with the rest of its input
  (151-155). The library serves one client. `GreetingFirstRegisters` says who is
  served: a client whose product code comes first in its stream and that has no
  competitor.
- That the product code comes first is not given: `isConnected_` is set before
  it is written (88-93), so a message may overtake it. The write of the product
  code is not looked at either: `Announces` excepts a socket the application
  thread has filled in between (`Overtaken`), where the product code is lost for
  good, and a process that SIGPIPE ended.
- `Announces` speaks of a client that still has the socket it was started with:
  with any later one it never connects (`ClientRestart`).
- `EndNoticed` holds for an end that comes alone and without a reset. Behind data
  the client's read-more loop (138-146) swallows it like the server's, and a reset
  is `ClientMissedEnd`.
- `ImplementsRequestReply` lets a call return the client's own message that has
  the id of the call; that it is never an answer to an earlier call, however late
  that was filed, is what remains. `AwaitedIsUnderWay` holds while one thread
  sends.
- `WritesReturn`: the client answers from the thread that reads, which could wait
  for a server that waits for it. It does not, because the server's handler calls
  no `SendMessage` (`server/main.cpp` sets no callback): were one to
  answer as well, both handlers could wait for each other. The mutant of the
  property is such a server.
- While no session exists the data of all connections is filed under product 0,
  where messages of different clients may mix; `DeliveredIntact` speaks of
  registered products.
- `FoundOnlyIfRead`: the reader thread may look at `work_thread` before
  `Initialize` stores it (61-62, 227). It then closes its FIFO, removes the path
  and ends; the process runs on, can send, and hears nothing. The peer finds no
  path rather than a FIFO nobody reads.
- `JoinReturns` needs a message in the FIFO. `quit` sends one to the peer and
  then joins a reader that only the peer can wake. Of two processes that quit,
  the second wakes the first, which ends, and nobody is left to wake the second.
  That is the price of a FIFO opened read-write: its reader never sees the peer's
  end.
- `SameFifo`, `Delivers` and `Connects` except what follows a removal. The reader
  thread that ends removes both paths (248, 252), its own and the peer's, also
  when the peer has been started again since; a running peer then reads a FIFO
  without a name, and a process started later makes a new one next to it.

## Fairness

`FairSpec` of the server is weak fairness of `ServerStep` as a whole: the
handler loops for ever and `epoll_wait` returns after 10 ms at the latest. No
fairness of a particular event is assumed. `ImplementsReader` follows from it all
the same because a batch is finite and
the next `epoll_wait` reports up to `MaxEventCount` of finitely many edges; that
clients write a bounded amount matters here, since an unbounded writer could
keep its own edge in every batch of a kernel that is unfair (Linux queues ready
descriptors first in, first out). Clients owe nothing: they may stop at any
point. `WaitingAccepted` is violated under the same fairness: the handler runs
on, and nothing ever reports the waiting connection.

`FairSpec` of the client is weak fairness of five threads or steps of them:
`MainHandler`, whose calls return within a second; an application thread inside
`WriteMessage`, which sleeps a millisecond and tries again; the same of the
server's thread; and the server's handler, which accepts the connection (there is
one, so its event is not shared) and reads what there is. Nobody has
to call `SendMessage`, and a server need neither start nor end: `Announces`
assumes in its statement that one stays up and that the client keeps its socket, `WritesReturn` that the connection
lasts. `WritesReturn` needs weak fairness only, because the receiving side takes
all there is and the writers of one direction are two with bounded messages.

`FairSpec` of `NamedPipeManager` is weak fairness of each thread of a living
process: the main thread in `Initialize` and in the destructor, the reader
thread, the check thread, whose `sleep(1)` and `open()` both return. The user may
stop typing, and nobody has to start or kill a process. The number of lives is
bounded, so a process that is killed for ever and ever is not considered;
`Delivers` and `Connects` would say nothing of it.

`FairSpec` of `WaitingSend` is weak fairness of a
thread inside a call: each turn of the loop sleeps a millisecond, and
`WriteMessage` ends as long as the client reads its socket, which the module
assumes. Nothing is assumed of the epoll thread and the client.

## Proofs

`UnixDomainSocketServer_proofs` proves, for every set of connections, every
assignment of product codes, every descriptor range and all bounds:

- `TypeCorrect`: `Spec => []TypeOK`
- `EdgesKept`: `Spec => []NoLostEdge`
- `HandlerNeverBlocks`: `Spec => []AcceptNeverBlocks`
- `ReaderRefined`: `Spec => Reader!SafeSpec`, the safety part of the refinement
- `SessionsSound`: `Spec => []SessionSound`
- `OneSession`: `Spec => []AtMostOneSession`
- `GreetingRegisters`: `Spec => []GreetingFirstRegisters`

The assumptions are those of the module: the listening socket is no connection,
product codes are digits, descriptors are positive, batches are not empty.

The inductive invariant `Inv` adds to `TypeOK`: a connection in the backlog has
no descriptor and is there once (`BacklogFresh`); descriptors are given out once
and below `next_fd` (`FdsUnique`); only watched connections have events and they
were accepted (`EventsWatched`); no more is read than was written
(`ReadBounded`). `TypeOK` alone is not inductive: that the descriptor of a
connection being handled is a descriptor, and not `NoFd`, needs `EventsWatched`,
which needs the order in which `Accept` fills the fields. `NoLostEdge` and
`AcceptNeverBlocks` are inductive on top of `Inv`.

The sessions need `SessionInv`: in addition, a product code in a stream was
written by a client that remembers it (`OnlyGreetingNames`), and `SessionSound`
and `AtMostOneSession` are proved together, because each needs the other: `Add`
is reached either with no session at all, when both tables are empty by
`SessionSound`, or from the one registered connection, when it is refused by
`SessionOwner`; and `Remove` of the one session leaves both tables empty by
`AtMostOneSession`.

`GreetingFirstRegisters` needs to know that there is no session when the first
client's product code is read, or its input would be dropped. `SessionSound`
says too little: the owner of a session wrote its product code, but so may have
a client that was not read yet. `SessionsAnnounced` says that it was read, and
`ReadAccepted` that nothing is read before `accept`. `FirstRead` then excludes
every other branch of the handler, and `SessionFrame` shows that only a
connection whose descriptor is the product code could end the session.

`UnixDomainSocketServerFraming_proofs` proves for all of these constants

- `MessagesIntact`: `Spec => []DeliveredIntact`, if no product code is also a
  descriptor number (`CodesApart`).

`CodesApart` is in the statement because the property fails without it: when
`Remove` does end a session, a second connection with the same product code may
continue the first one's unfinished message, and its ids start again from 1. The
code does not ensure it; a program does that gives its clients codes below the
first descriptor `accept` returns. Under it a session is never removed (`OwnerStays`),
so all that is filed under a product comes from one connection, its owner; this
holds also for several connections with one product code, which the run does not
have. The proof has two halves. `Streams` is how a client writes: ids grow with
the position of their headers, the product code occurs once, behind a header
come the other units of its message unless the product code comes in between
(`BodyFollows`), and what is missing of the last message is what `WriteMessage`
holds (`RestPending`). `FramingInv` is how the server files: what is stored is
what was read last, from some header on (`Filed`), so if its length is the one
announced it is the message of that header (`PerfectIsSent`); and what was
delivered lies before it in the stream (`DeliveredBefore`), so the ids grow.

`UnixDomainSocketSessionManager_proofs` proves, for every set of descriptors,
every assignment of product codes, and any number of application threads:

- `TypeCorrect`: `Spec => []TypeOK`
- `ReverseMatchesSession`: `Spec => []ReverseSound`
- `TestsStillHold`: `Spec => []CheckThenAct`
- `OneSession`: `Spec => []AtMostOneSession`
- `LookupsSeeWholeSessions`: `Spec => LookupWhole`

They assume that descriptors are positive, product codes are digits, and threads
are distinct. Application threads do change `socket_list_` between the unlocked
tests of the epoll thread and its updates, but a lookup only inserts `NullFd`
under an absent key (`LookupStep`). What the epoll thread has learnt therefore
has to be stated so that such an insertion keeps it: not "the table is empty"
but "no product has a descriptor" (`NoSession`, in `AddReached`). From it
follows that the first update of `Add` finds no other reverse entry and the
second makes the only session. For `Remove`, `AtMostOneSession` says that the
reverse entry it erases belongs to no other session. `ReverseMatched` and
`SessionMatched` each make an exception for the moment between two updates, and
`LockHeld` keeps lookups out of that moment.

`UnixDomainSocketClient_proofs` proves, for every socket size and every number and
size of messages, with a server that is started and ends as often as it likes:

- `TypeCorrect`: `Spec => []TypeOK`
- `EdgesKept`: `Spec => []NoLostEdge`
- `CallbackGetsMessages`: `Spec => []CallbackIntact`

`TypeOK` needs one fact besides (`ReplyBegun`): while the callback writes there is
something to write, which holds because a message has at least its header.
`NoLostEdge` is inductive alone; it rests on `EPOLL_CTL_ADD` raising an event
when the flag was not set (`EventOnAdd`), which covers what was written before.

`CallbackIntact` is proved with `Reassembly`: what is stored, what is in the
socket and what the server has still to write are pieces of messages (`Pieces`)
that fit together (`Junctions`), their ids are above those of what was delivered
(`Ordered`) and at most those the server has begun to send (`Bounded`). A new
server counts from 1 again, which would break `Ordered` if the client connected to
it. It does not (`Once`): after its first connection `isConnected_` is set with
each new socket before `connect` would be called, which is then skipped; so all
messages are those of one server process.

Both proofs about framing speak of a stream unit by unit, each unit relative to
the header before it (`Runs`, `BodyFollows`). "The stream is a concatenation of
messages" would say the same, but it is a recursive definition and would need an
induction that is beyond the prover.

`NamedPipeManager_proofs` proves, for every capacity, every number of lines and
any number of lives of either process:

- `TypeCorrect`: `Spec => []TypeOK`
- `SameFifoKept`: `Spec => []SameFifo`
- `FoundIsRead`: `Spec => []FoundOnlyIfRead`

`SameFifo` follows from `OpenUnderPath`: until a path is removed, each open
descriptor is of the FIFO now under its path, because `mkfifo` leaves an existing
path alone and so the only change of a path is from nothing to a new FIFO, which
nobody has open. `FoundOnlyIfRead` needs `ReaderCreated`: no reader thread is
left when `Initialize` opens the FIFO. Both assume that the two processes are
different, a FIFO takes at least one message and bounds are numbers.

`WaitingSend_proofs` proves, for every number of threads, calls, polls and
messages of the client:

- `TypeCorrect`: `Spec => []TypeOK`
- `AwaitedUnderWay`: `Spec /\ []OneCallAtATime => []AwaitedIsUnderWay`
- `ReturnsItsNumber`: `Spec /\ []OneCallAtATime => []ItsNumber`
- `ReplyRefined`: `Spec /\ []OneCallAtATime => Promise!SafeSpec`

The types hold however the threads race on `message_id`; that ids stay within
their bound is a count: `message_id` is never more than the number of calls that
took one (`IdsCounted`, over the set `Numbered`). The other theorems have a
condition the code does not ensure, and they are false without it.
`OneCallAtATime`: the threads may be many but take turns, because a call reads
`message_id` again to find its own answer; a program with one sending thread,
which is what `server/main.cpp` is and what the run checks, satisfies it
(`OneThread`). `WaitingSendRace` is what happens without. Nothing is assumed of
the client, which counts its messages from 1 as the server does.

`ItsNumber` is what is left of `ReturnsResponse`, which the client's own messages
violate: a result is the answer to the call, or a message the client sent by
itself under the id of the call. `Traced` follows what can be on its way or filed
under an id: answers that were given to earlier calls, to this one (`Asked`), or
the client's own messages, each under the id the client counted (`Told`). That an
answer to an earlier call is not among what a call can find is due to
`message_id` having grown since, which `Asked` says.

Only model-checked: everything with fairness (`Announces`,
`WritesReturn`, `EndNoticed`, `Delivers`, `Connects`, `JoinReturns`, and the
liveness halves of `ImplementsReader` and `ImplementsRequestReply`), which is
beyond the prover. Each invariant and each safety half of a refinement that a
run checks is also a theorem.

## Not modelled, and the plan

Nearly all of the repository is a copy of boost 1.66, which is neither the
program's own code nor called by anything but a stub; no share of it is
modelled. Of the repository's own code these parts are left out:

- `namedpipe_with_epoll`: the experiment before the one with threads. It has one
  thread and no shared state; it makes one `read()` per edge, so what does not
  fit into its buffer waits for the next write.
- The boost::asio variant: nothing calls `InitAccept` and the client is empty, so
  no operation changes state but the start and stop of a thread pool.
- `Finalize` of server and client: no program calls them. Were it called, the
  server's thread could set `stopped_` back (88) after `Finalize` set it.
- The server's epoll error branch (196-212): `epoll_wait` fails only with `EINTR`.
- Two application threads in `WriteMessage` on one descriptor, whose messages mix:
  nothing in the code prevents it, and there is no property to state. A broadcast
  to several sessions: there is at most one.
- The client's waiting `SendMessage` (238-262): the same code as the server's.
- Product codes of two digits and bodies that look like a product code or fill
  the read buffer with text, which the abstraction to units does not have.
- The interface, the factory and the test programs, which keep no state.

What could be added: the conditions under which `Delivers` and `Connects` hold are
safety facts (a path that leads to a FIFO with a living reader) and could be
proved apart from the fairness; and `GreetingFirstRegisters` as a refinement of a
register of one client.
