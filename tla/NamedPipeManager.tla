-------------------------- MODULE NamedPipeManager --------------------------
(***************************************************************************)
(* namedpipe_with_thread: two processes that talk through two FIFOs.       *)
(*                                                                         *)
(* Each process has a NamedPipeManager with one product.  It reads the     *)
(* FIFO under its own path ("svr<type>" or "cli<type>") in a reader thread *)
(* and writes the other one, which a check thread opens as soon as it      *)
(* exists.  The main thread runs Initialize, sends what the user types,    *)
(* and on "quit" runs the destructor, which joins the reader thread.       *)
(*                                                                         *)
(* A process may be killed at any point and be started again: a path       *)
(* outlives the processes, a descriptor does not.  A FIFO is named by the  *)
(* process that reads it and the life of that process which created it;    *)
(* the paths of both are indexed by the reader.                            *)
(*                                                                         *)
(* connect() opens every FIFO O_RDWR, so a reader is a writer of its own   *)
(* FIFO and read() never returns 0: the branch that would notice that the  *)
(* peer is gone and start another check thread (234-241) is unreachable.   *)
(***************************************************************************)
EXTENDS Integers, Sequences

CONSTANTS
  Server, Client,   \* the two processes
  Capacity,         \* messages a FIFO takes before write() fails
  ServerLines, ClientLines,  \* bound: lines they send in all their lives
  ServerLives, ClientLives   \* bound: how often they are started

ASSUME ProcessAssumption  == Server # Client
ASSUME CapacityAssumption == Capacity \in Nat \ {0}
ASSUME BoundAssumption    == {ServerLines, ClientLines, ServerLives, ClientLives} \subseteq Nat

Procs   == {Server, Client}
Peer(p) == IF p = Server THEN Client ELSE Server
MaxLives(p) == IF p = Server THEN ServerLives ELSE ClientLives
MaxSent(p)  == IF p = Server THEN ServerLines ELSE ClientLines
Larger(m, n) == IF m < n THEN n ELSE m
Lives   == 1..Larger(ServerLives, ClientLives)
Fifos   == Lives \cup {0}     \* 0: none
Lines   == 1..Larger(ServerLines, ClientLines)

VARIABLES
  proc,       \* per process: threads, m_pipe_list[type] and descriptors
  name,       \* per process: the FIFO under the path it reads; 0: none
  content,    \* per process and life: unread messages of that FIFO
  life,       \* how often a process has been started
  sent,       \* lines a process has given to SendData
  unread,     \* history: those write() took in this life of the sender
              \* and the peer has not read
  removed     \* history: has a reader thread ended and removed a path?

vars == << proc, name, content, life, sent, unread, removed >>

MainPCs   == {"down", "create", "open", "thread", "store", "check", "run",
              "destroy", "join"}
ReaderPCs == {"none", "test", "read", "close_read", "remove_read",
              "close_write", "remove_write", "ended"}

\* read_fd and write_fd are open descriptors: the FIFO they refer to, or 0.
\* st is write.pipe_fd in the reader's copy of the entry.
Process == [main : MainPCs, reader : ReaderPCs, checker : BOOLEAN,
            work_thread : BOOLEAN, read_fd : Fifos, write_fd : Fifos, st : Fifos]

Down == [main |-> "down", reader |-> "none", checker |-> FALSE,
         work_thread |-> FALSE, read_fd |-> 0, write_fd |-> 0, st |-> 0]

TypeOK ==
  /\ proc \in [Procs -> Process]
  /\ name \in [Procs -> Fifos]
  /\ content \in [Procs -> [Lives -> Seq(Lines)]]
  /\ life \in [Procs -> Fifos]
  /\ sent \in [Procs -> Lines \cup {0}]
  /\ unread \in [Procs -> SUBSET Lines]
  /\ removed \in BOOLEAN
  /\ \A p \in Procs : \A n \in Lives : Len(content[p][n]) <= Capacity

Init ==
  /\ proc = [p \in Procs |-> Down]
  /\ name = [p \in Procs |-> 0]
  /\ content = [p \in Procs |-> [n \in Lives |-> << >>]]
  /\ life = [p \in Procs |-> 0]
  /\ sent = [p \in Procs |-> 0]
  /\ unread = [p \in Procs |-> {}]
  /\ removed = FALSE

\* The threads of p go on with these fields of its state.
Main(p, from, to) == proc[p].main = from /\ proc' = [proc EXCEPT ![p].main = to]
AtReader(p, pc)   == proc[p].reader = pc

\* The kernel drops what is in a FIFO that nobody has open.
Release ==
  content' = [q \in Procs |-> [n \in Lives |->
                IF n \in {proc'[q].read_fd, proc'[Peer(q)].write_fd}
                THEN content[q][n] ELSE << >>]]

Paths     == << name, removed >>
Histories == << life, sent, unread >>

-----------------------------------------------------------------------------
(* Initialize, in the main thread.                                         *)

Start(p) ==
  /\ life[p] < MaxLives(p)
  /\ life' = [life EXCEPT ![p] = @ + 1]
  /\ Main(p, "down", "create")
  /\ UNCHANGED << Paths, content, sent, unread >>

MakeAnew(p) ==   \* mutant: a path that exists is removed first
  name' = [name EXCEPT ![p] = life[p]]

\* 44: mkfifo.  That the path exists is an error nobody looks at.
MakeFifo(p) ==
  name' = [name EXCEPT ![p] = IF @ = 0 THEN life[p] ELSE @]

Create(p) ==
  /\ MakeFifo(p)
  /\ Main(p, "create", "open")
  /\ UNCHANGED << removed, content, Histories >>

Stored(p) == IF name[p] = 0 THEN -1 ELSE name[p]   \* mutant: the error is stored

Opened(p) == name[p]

\* 45-51: open() fails when the peer removed the path meanwhile; Initialize
\* then returns false, and main() goes on without an entry.
Open(p) ==
  /\ proc[p].main = "open"
  /\ proc' = [proc EXCEPT ![p].read_fd = Opened(p),
                          ![p].main = IF name[p] = 0 THEN "run" ELSE "thread"]
  /\ UNCHANGED << Paths, content, Histories >>

\* 61
CreateReader(p) ==
  /\ proc[p].main = "thread"
  /\ proc' = [proc EXCEPT ![p].main = "store", ![p].reader = "test"]
  /\ UNCHANGED << Paths, content, Histories >>

\* 62
StoreThread(p) ==
  /\ proc[p].main = "store"
  /\ proc' = [proc EXCEPT ![p].main = "check", ![p].work_thread = TRUE]
  /\ UNCHANGED << Paths, content, Histories >>

\* 66-71
CreateChecker(p) ==
  /\ proc[p].main = "check"
  /\ proc' = [proc EXCEPT ![p].main = "run", ![p].write_fd = 0, ![p].checker = TRUE]
  /\ UNCHANGED << Paths, content, Histories >>

Initialize(p) ==
  Create(p) \/ Open(p) \/ CreateReader(p) \/ StoreThread(p) \/ CreateChecker(p)

-----------------------------------------------------------------------------
(* main() and the destructor.                                              *)

\* A line from the user.  write() does not block and does not wait for a
\* reader: it fails only when the FIFO is full.
SendData(p) ==
  LET q  == Peer(p)
      fd == proc[p].write_fd
  IN  /\ sent[p] < MaxSent(p)
      /\ Main(p, "run", "run") \/ Main(p, "run", "destroy")   \* any line, "quit"
      /\ sent' = [sent EXCEPT ![p] = @ + 1]
      /\ IF fd # 0 /\ Len(content[q][fd]) < Capacity
         THEN /\ content' = [content EXCEPT ![q][fd] = Append(@, sent'[p])]
              /\ unread' = [unread EXCEPT ![p] = @ \cup {sent'[p]}]
         ELSE UNCHANGED << content, unread >>
      /\ UNCHANGED << Paths, life >>

KeepsRunning(p) == proc[p].work_thread   \* mutant: work_thread keeps its value

ToldToEnd(p) == FALSE

\* 85-87
RemovePipeThreads(p) ==
  /\ proc[p].main = "destroy"
  /\ proc' = [proc EXCEPT ![p].main = "join", ![p].work_thread = ToldToEnd(p)]
  /\ UNCHANGED << Paths, content, Histories >>

\* The process is gone, and with it its descriptors and its check thread.
Gone(p) ==
  /\ proc' = [proc EXCEPT ![p] = Down]
  /\ unread' = [unread EXCEPT ![p] = {}]
  /\ Release
  /\ UNCHANGED << Paths, life, sent >>

\* 88: pthread_join returns, and so do the destructor and main().
Join(p) ==
  /\ proc[p].main = "join"
  /\ proc[p].reader \in {"none", "ended"}
  /\ Gone(p)

Crash(p) == proc[p].main # "down" /\ Gone(p)

-----------------------------------------------------------------------------
(* The reader thread (PipeThreadProc).                                     *)

\* 227: the entry is copied, and its work_thread decides.
Test(p) ==
  /\ AtReader(p, "test")
  /\ proc' = [proc EXCEPT ![p].st = proc[p].write_fd,
                          ![p].reader = IF proc[p].work_thread THEN "read"
                                                               ELSE "close_read"]
  /\ UNCHANGED << Paths, content, Histories >>

FirstOf(s) == {s[1]}   \* mutant: the string ends with the first message

\* The lines in the string made of the buffer a read() filled (231).
Text(s) == {s[i] : i \in DOMAIN s}

\* 228-233: read() blocks until there is something and takes all of it.
Read(p) ==
  LET fd == proc[p].read_fd
  IN  /\ AtReader(p, "read")
      /\ content[p][fd] # << >>
      /\ unread' = [unread EXCEPT ![Peer(p)] = @ \ Text(content[p][fd])]
      /\ content' = [content EXCEPT ![p][fd] = << >>]
      /\ proc' = [proc EXCEPT ![p].reader = "test"]
      /\ UNCHANGED << Paths, life, sent >>

\* 247
CloseRead(p) ==
  /\ AtReader(p, "close_read")
  /\ proc' = [proc EXCEPT ![p].reader = "remove_read", ![p].read_fd = 0]
  /\ Release
  /\ UNCHANGED << Paths, Histories >>

LeavePath(p) == UNCHANGED Paths   \* mutant: the path stays

\* unlink() of the path p reads or of the one it writes.
Remove(p) == name' = [name EXCEPT ![p] = 0] /\ removed' = TRUE

\* 248, 250
RemoveRead(p) ==
  /\ AtReader(p, "remove_read")
  /\ Remove(p)
  /\ proc' = [proc EXCEPT ![p].reader = IF proc[p].st # 0 THEN "close_write"
                                                          ELSE "ended"]
  /\ UNCHANGED << content, Histories >>

\* 251
CloseWrite(p) ==
  /\ AtReader(p, "close_write")
  /\ proc' = [proc EXCEPT ![p].reader = "remove_write", ![p].write_fd = 0]
  /\ Release
  /\ UNCHANGED << Paths, Histories >>

\* 252
RemoveWrite(p) ==
  /\ AtReader(p, "remove_write")
  /\ Remove(Peer(p))
  /\ proc' = [proc EXCEPT ![p].reader = "ended"]
  /\ UNCHANGED << content, Histories >>

PipeThreadProc(p) ==
  Test(p) \/ Read(p) \/ CloseRead(p) \/ RemoveRead(p) \/ CloseWrite(p) \/ RemoveWrite(p)

-----------------------------------------------------------------------------
(* The check thread (WritePipeCheckThreadProc).                            *)

Attempted(p) == TRUE   \* mutant: the thread ends after its first attempt

Found(p) == name[Peer(p)] # 0

\* Each second open() of the peer's path; as long as there is none the thread
\* sleeps and tries again, which changes nothing.
CheckWritePipe(p) ==
  /\ proc[p].checker
  /\ Found(p)
  /\ proc' = [proc EXCEPT ![p].write_fd = name[Peer(p)], ![p].checker = FALSE]
  /\ UNCHANGED << Paths, content, Histories >>

Next ==
  \E p \in Procs :
    \/ Start(p) \/ Initialize(p) \/ SendData(p) \/ RemovePipeThreads(p)
    \/ Join(p) \/ Crash(p) \/ PipeThreadProc(p) \/ CheckWritePipe(p)

Spec == Init /\ [][Next]_vars

\* Every thread of a living process runs; users and kills owe nothing.
FairSpec ==
  /\ Spec
  /\ \A p \in Procs : /\ WF_vars(Initialize(p) \/ RemovePipeThreads(p) \/ Join(p))
                      /\ WF_vars(PipeThreadProc(p))
                      /\ WF_vars(CheckWritePipe(p))

-----------------------------------------------------------------------------
(* Properties.                                                             *)

\* Kills and restarts do not part the two processes: mkfifo on an existing
\* path (44) leaves it alone, so as long as no reader thread has removed a
\* path, who writes and who reads have the same FIFO.
SameFifo ==
  \A p \in Procs :
    LET w == proc[p].write_fd
        r == proc[Peer(p)].read_fd
    IN  ~removed /\ w # 0 /\ r # 0 => w = r

\* A peer finds only FIFOs that are read: while a process is up, the FIFO under
\* its path is the one its reader thread reads, also when that thread ended
\* because it looked at work_thread before Initialize stored it (227, 62).
FoundOnlyIfRead ==
  \A p \in Procs :
    proc[p].main \notin {"down", "create", "open"} =>
      name[p] = proc[p].read_fd \/ name[p] = 0 \/ AtReader(p, "remove_read")

\* What write() took is read, also by a reader that was killed and started
\* again, unless the sender ended, the FIFO lost its path, or no reader is
\* ever started.
Delivers ==
  \A p \in Procs :
    LET q == Peer(p)
    IN  \/ []<>(unread[p] = {} \/ proc[p].write_fd # name[q])
        \/ <>[](proc[q].main = "down")

\* Two processes that stay up are connected in both directions in the end,
\* whichever was started first and however often either was killed before.
Connects ==
  <>[](~removed /\ \A p \in Procs : proc[p].main = "run")
    => <>(\A p \in Procs : proc[p].write_fd # 0 /\ proc[p].write_fd = proc[Peer(p)].read_fd)

\* The destructor ends once a message is there to wake the reader thread (88).
\* Without one it waits for ever: nobody else closes the FIFO.
JoinReturns ==
  \A p \in Procs :
    (/\ proc[p].main = "join" /\ AtReader(p, "read")
     /\ content[p][proc[p].read_fd] # << >>) ~> (proc[p].main = "down")
=============================================================================
