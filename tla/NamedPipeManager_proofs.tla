----------------------- MODULE NamedPipeManager_proofs -----------------------
(***************************************************************************)
(* Theorems about NamedPipeManager, for every capacity of a FIFO, every    *)
(* number of lines and any number of restarts of either process.           *)
(***************************************************************************)
EXTENDS NamedPipeManager, TLAPS

USE ProcessAssumption, CapacityAssumption, BoundAssumption

-----------------------------------------------------------------------------
(* The inductive invariant.                                                *)

\* A process has no reader thread before Initialize creates it.
ReaderCreated ==
  \A p \in Procs :
    proc[p].main \in {"down", "create", "open", "thread"} => proc[p].reader = "none"

\* Until a path is removed, a descriptor that is open is of the FIFO under its
\* path.
OpenUnderPath ==
  ~removed =>
    \A p \in Procs : /\ proc[p].read_fd \in {0, name[p]}
                     /\ proc[p].write_fd \in {0, name[Peer(p)]}

Inv == TypeOK /\ ReaderCreated /\ OpenUnderPath /\ FoundOnlyIfRead

-----------------------------------------------------------------------------
(* Types.                                                                  *)

\* A process has a peer, which is another one; it is started, and sends lines,
\* as often as its bounds allow.
LEMMA Peers ==
  ASSUME NEW p \in Procs
  PROVE  Peer(p) \in Procs /\ Peer(p) # p /\ Peer(Peer(p)) = p
  BY DEF Procs, Peer

LEMMA LinesCounted ==
  ASSUME NEW p \in Procs, NEW n \in Lines \cup {0}, n < MaxSent(p)
  PROVE  n + 1 \in Lines
  BY DEF Procs, MaxSent, Lines, Larger

LEMMA LivesCounted ==
  ASSUME NEW p \in Procs, NEW n \in Fifos, n < MaxLives(p)
  PROVE  n + 1 \in Fifos
  BY DEF Procs, MaxLives, Fifos, Lives, Larger

\* A process record stays one when a step gives some of its fields new values.
LEMMA Fields ==
  \A r \in Process, m \in MainPCs, n \in ReaderPCs, f \in Fifos, b \in BOOLEAN :
    /\ [r EXCEPT !.main = m] \in Process
    /\ [r EXCEPT !.main = m, !.reader = n] \in Process
    /\ [r EXCEPT !.main = m, !.work_thread = b] \in Process
    /\ [r EXCEPT !.main = m, !.write_fd = f, !.checker = b] \in Process
    /\ [r EXCEPT !.read_fd = f, !.main = m] \in Process
    /\ [r EXCEPT !.reader = n] \in Process
    /\ [r EXCEPT !.reader = n, !.read_fd = f] \in Process
    /\ [r EXCEPT !.reader = n, !.write_fd = f] \in Process
    /\ [r EXCEPT !.st = f, !.reader = n] \in Process
    /\ [r EXCEPT !.write_fd = f, !.checker = b] \in Process
<1> TAKE r \in Process, m \in MainPCs, n \in ReaderPCs, f \in Fifos, b \in BOOLEAN
<1> QED
  BY DEF Process

LEMMA Constants == 0 \in Fifos /\ MainPCs # {} /\ ReaderPCs # {}
<1>1. "run" \in MainPCs /\ "none" \in ReaderPCs
  BY DEF MainPCs, ReaderPCs
<1> QED
  BY <1>1 DEF Fifos

LEMMA InitTyped == Init => TypeOK
<1> SUFFICES ASSUME Init PROVE TypeOK
  OBVIOUS
<1>1. Down \in Process
  BY DEF Fifos, Down, Process, MainPCs, ReaderPCs
<1>2. proc \in [Procs -> Process] /\ removed \in BOOLEAN
  BY <1>1 DEF Init
<1>3. name \in [Procs -> Fifos] /\ life \in [Procs -> Fifos]
  BY Constants DEF Init
<1>4. sent \in [Procs -> Lines \cup {0}] /\ unread \in [Procs -> SUBSET Lines]
  BY DEF Init
<1>5. << >> \in Seq(Lines) /\ Len(<< >>) <= Capacity
  OBVIOUS
<1>6. content \in [Procs -> [Lives -> Seq(Lines)]]
  BY <1>5 DEF Init
<1>7. \A p \in Procs : \A n \in Lives : content[p][n] = << >>
  BY DEF Init
<1> QED
  BY <1>2, <1>3, <1>4, <1>5, <1>6, <1>7 DEF TypeOK

\* What the kernel drops leaves a content that is one.
LEMMA ReleaseTyped ==
  ASSUME TypeOK, Release
  PROVE  /\ content' \in [Procs -> [Lives -> Seq(Lines)]]
         /\ \A p \in Procs : \A n \in Lives : Len(content'[p][n]) <= Capacity
<1>1. << >> \in Seq(Lines) /\ Len(<< >>) <= Capacity
  OBVIOUS
<1>2. /\ content \in [Procs -> [Lives -> Seq(Lines)]]
      /\ \A p \in Procs : \A n \in Lives : Len(content[p][n]) <= Capacity
  BY DEF TypeOK
<1> QED
  BY <1>1, <1>2 DEF Release

\* Every step that keeps the contents and the histories, and changes no more
\* than the record of p and a path, keeps the types.
LEMMA QuietTyped ==
  ASSUME TypeOK, proc' \in [Procs -> Process], name' \in [Procs -> Fifos],
         removed' \in BOOLEAN, UNCHANGED << content, Histories >>
  PROVE  TypeOK'
  BY DEF TypeOK, Histories

LEMMA InitializeTyped ==
  ASSUME TypeOK, NEW p \in Procs, Initialize(p)
  PROVE  TypeOK'
<1> USE DEF Paths
<1>0. proc \in [Procs -> Process] /\ proc[p] \in Process /\ 0 \in Fifos
  BY DEF TypeOK, Fifos
<1>1. CASE Create(p)
  <2>1. [proc[p] EXCEPT !.main = "open"] \in Process
    BY <1>0, Constants, Fields DEF MainPCs
  <2>2. name' \in [Procs -> Fifos]
    BY <1>1 DEF Create, MakeFifo, TypeOK
  <2> QED
    BY <1>0, <1>1, <2>1, <2>2, QuietTyped DEF Create, Main, TypeOK
<1>2. CASE Open(p)
  <2> DEFINE m == IF name[p] = 0 THEN "run" ELSE "thread"
  <2>1. m \in MainPCs /\ Opened(p) \in Fifos
    BY DEF MainPCs, Opened, TypeOK
  <2>2. [proc[p] EXCEPT !.read_fd = Opened(p), !.main = m] \in Process
    BY <1>0, <2>1, Constants, Fields
  <2> QED
    BY <1>0, <1>2, <2>2, QuietTyped DEF Open, TypeOK
<1>3. CASE CreateReader(p)
  <2>1. [proc[p] EXCEPT !.main = "store", !.reader = "test"] \in Process
    BY <1>0, Constants, Fields DEF MainPCs, ReaderPCs
  <2> QED
    BY <1>0, <1>3, <2>1, QuietTyped DEF CreateReader, TypeOK
<1>4. CASE StoreThread(p)
  <2>1. [proc[p] EXCEPT !.main = "check", !.work_thread = TRUE] \in Process
    BY <1>0, Constants, Fields DEF MainPCs
  <2> QED
    BY <1>0, <1>4, <2>1, QuietTyped DEF StoreThread, TypeOK
<1>5. CASE CreateChecker(p)
  <2>1. [proc[p] EXCEPT !.main = "run", !.write_fd = 0, !.checker = TRUE] \in Process
    BY <1>0, Constants, Fields DEF MainPCs
  <2> QED
    BY <1>0, <1>5, <2>1, QuietTyped DEF CreateChecker, TypeOK
<1> QED
  BY <1>1, <1>2, <1>3, <1>4, <1>5 DEF Initialize

LEMMA StartTyped ==
  ASSUME TypeOK, NEW p \in Procs, Start(p)
  PROVE  TypeOK'
<1>1. [proc[p] EXCEPT !.main = "create"] \in Process
  BY Constants, Fields DEF TypeOK, MainPCs, Fifos, ReaderPCs
<1>2. proc' \in [Procs -> Process]
  BY <1>1 DEF Start, Main, TypeOK
<1>3. life' \in [Procs -> Fifos]
  BY LivesCounted DEF Start, TypeOK
<1> QED
  BY <1>2, <1>3 DEF Start, Paths, TypeOK

LEMMA SendDataTyped ==
  ASSUME TypeOK, NEW p \in Procs, SendData(p)
  PROVE  TypeOK'
<1> DEFINE q  == Peer(p)
           fd == proc[p].write_fd
<1>0. proc[p] \in Process /\ 0 \in Fifos
  BY DEF TypeOK, Fifos
<1>1. proc' \in [Procs -> Process]
  <2>1. /\ [proc[p] EXCEPT !.main = "run"] \in Process
        /\ [proc[p] EXCEPT !.main = "destroy"] \in Process
    BY <1>0, Constants, Fields DEF MainPCs
  <2> QED
    BY <2>1 DEF SendData, Main, TypeOK
<1>2. sent' \in [Procs -> Lines \cup {0}] /\ sent'[p] \in Lines
  BY LinesCounted DEF SendData, TypeOK
<1>3. CASE fd # 0 /\ Len(content[q][fd]) < Capacity
  <2>1. q \in Procs /\ fd \in Lives
    <3>1. fd \in Fifos
      BY <1>0 DEF Process
    <3> QED
      BY <1>3, <3>1, Peers DEF Fifos
  <2>2. /\ content' = [content EXCEPT ![q][fd] = Append(@, sent'[p])]
        /\ unread' = [unread EXCEPT ![p] = @ \cup {sent'[p]}]
    BY <1>3 DEF SendData
  <2> DEFINE s == Append(content[q][fd], sent'[p])
  <2>3. content[q][fd] \in Seq(Lines) /\ Len(content[q][fd]) \in Nat
    BY <2>1 DEF TypeOK
  <2>4. s \in Seq(Lines) /\ Len(s) <= Capacity
    BY <1>2, <1>3, <2>3
  <2>5. /\ content' \in [Procs -> [Lives -> Seq(Lines)]]
        /\ \A r \in Procs : \A n \in Lives : Len(content'[r][n]) <= Capacity
    <3> HIDE DEF s, q, fd
    <3>1. content' = [content EXCEPT ![q] = [content[q] EXCEPT ![fd] = s]]
      BY <2>2 DEF s, q, fd
    <3> QED
      BY <2>1, <2>4, <3>1 DEF TypeOK
  <2>6. unread' \in [Procs -> SUBSET Lines]
    BY <1>2, <2>2 DEF TypeOK
  <2> QED
    BY <1>1, <1>2, <2>5, <2>6 DEF SendData, TypeOK, Paths
<1>4. CASE ~(fd # 0 /\ Len(content[q][fd]) < Capacity)
  BY <1>1, <1>2, <1>4 DEF SendData, TypeOK, Paths
<1> QED
  BY <1>3, <1>4

LEMMA GoneTyped ==
  ASSUME TypeOK, NEW p \in Procs, Gone(p)
  PROVE  TypeOK'
<1>1. Down \in Process
  BY DEF Down, Process, MainPCs, ReaderPCs, Fifos
<1>2. proc' \in [Procs -> Process]
  BY <1>1 DEF Gone, TypeOK
<1>3. unread' \in [Procs -> SUBSET Lines]
  BY DEF Gone, TypeOK
<1>4. /\ content' \in [Procs -> [Lives -> Seq(Lines)]]
      /\ \A q \in Procs : \A n \in Lives : Len(content'[q][n]) <= Capacity
  BY ReleaseTyped DEF Gone
<1> QED
  BY <1>2, <1>3, <1>4 DEF Gone, TypeOK, Paths

LEMMA ReaderTyped ==
  ASSUME TypeOK, NEW p \in Procs, PipeThreadProc(p)
  PROVE  TypeOK'
<1> USE DEF Paths
<1>0. /\ proc \in [Procs -> Process] /\ proc[p] \in Process
      /\ 0 \in Fifos /\ proc[p].write_fd \in Fifos
  BY DEF TypeOK, Fifos, Process
<1>1. CASE Test(p)
  <2> DEFINE n == IF proc[p].work_thread THEN "read" ELSE "close_read"
  <2>1. n \in ReaderPCs
    BY DEF ReaderPCs
  <2>2. [proc[p] EXCEPT !.st = proc[p].write_fd, !.reader = n] \in Process
    BY <1>0, <2>1, Constants, Fields
  <2> QED
    BY <1>0, <1>1, <2>2, QuietTyped DEF Test, TypeOK
<1>2. CASE Read(p)
  <2>1. [proc[p] EXCEPT !.reader = "test"] \in Process
    BY <1>0, Constants, Fields DEF ReaderPCs
  <2>2. proc' \in [Procs -> Process]
    BY <1>0, <1>2, <2>1 DEF Read
  <2>3. << >> \in Seq(Lines) /\ Len(<< >>) <= Capacity
    OBVIOUS
  <2>4. content' = [content EXCEPT ![p] = [content[p] EXCEPT ![proc[p].read_fd] = << >>]]
    BY <1>2 DEF Read
  <2>5. /\ content' \in [Procs -> [Lives -> Seq(Lines)]]
        /\ \A q \in Procs : \A n \in Lives : Len(content'[q][n]) <= Capacity
    BY <2>3, <2>4 DEF TypeOK
  <2>6. unread' \in [Procs -> SUBSET Lines]
    BY <1>2 DEF Read, TypeOK
  <2> QED
    BY <1>2, <2>2, <2>5, <2>6 DEF Read, TypeOK
<1>3. CASE CloseRead(p) \/ CloseWrite(p)
  <2>1. /\ [proc[p] EXCEPT !.reader = "remove_read", !.read_fd = 0] \in Process
        /\ [proc[p] EXCEPT !.reader = "remove_write", !.write_fd = 0] \in Process
    BY <1>0, Constants, Fields DEF ReaderPCs
  <2>2. proc' \in [Procs -> Process]
    BY <1>0, <1>3, <2>1 DEF CloseRead, CloseWrite
  <2>3. /\ content' \in [Procs -> [Lives -> Seq(Lines)]]
        /\ \A q \in Procs : \A n \in Lives : Len(content'[q][n]) <= Capacity
    BY <1>3, ReleaseTyped DEF CloseRead, CloseWrite
  <2> QED
    BY <1>3, <2>2, <2>3 DEF CloseRead, CloseWrite, TypeOK, Histories
<1>4. CASE RemoveRead(p)
  <2> DEFINE n == IF proc[p].st # 0 THEN "close_write" ELSE "ended"
  <2>1. n \in ReaderPCs
    BY DEF ReaderPCs
  <2>2. [proc[p] EXCEPT !.reader = n] \in Process
    BY <1>0, <2>1, Constants, Fields
  <2>3. name' \in [Procs -> Fifos] /\ removed' \in BOOLEAN
    BY <1>0, <1>4 DEF RemoveRead, Remove, TypeOK
  <2> QED
    BY <1>0, <1>4, <2>2, <2>3, QuietTyped DEF RemoveRead
<1>5. CASE RemoveWrite(p)
  <2>1. [proc[p] EXCEPT !.reader = "ended"] \in Process
    BY <1>0, Constants, Fields DEF ReaderPCs
  <2>2. name' \in [Procs -> Fifos] /\ removed' \in BOOLEAN
    BY <1>0, <1>5 DEF RemoveWrite, Remove, TypeOK
  <2> QED
    BY <1>0, <1>5, <2>1, <2>2, QuietTyped DEF RemoveWrite
<1> QED
  BY <1>1, <1>2, <1>3, <1>4, <1>5 DEF PipeThreadProc

LEMMA CheckerTyped ==
  ASSUME TypeOK, NEW p \in Procs, CheckWritePipe(p)
  PROVE  TypeOK'
<1>1. name[Peer(p)] \in Fifos /\ proc[p] \in Process
  BY Peers DEF TypeOK
<1>2. [proc[p] EXCEPT !.write_fd = name[Peer(p)], !.checker = FALSE] \in Process
  BY <1>1, Constants, Fields
<1> QED
  BY <1>2, QuietTyped DEF CheckWritePipe, Paths, TypeOK

LEMMA RemovePipeThreadsTyped ==
  ASSUME TypeOK, NEW p \in Procs, RemovePipeThreads(p)
  PROVE  TypeOK'
<1>1. [proc[p] EXCEPT !.main = "join", !.work_thread = ToldToEnd(p)] \in Process
  BY Constants, Fields DEF TypeOK, MainPCs, ToldToEnd, Fifos, ReaderPCs
<1> QED
  BY <1>1, QuietTyped DEF RemovePipeThreads, Paths, TypeOK

LEMMA TypePreserved == TypeOK /\ [Next]_vars => TypeOK'
<1> SUFFICES ASSUME TypeOK, [Next]_vars PROVE TypeOK'
  OBVIOUS
<1>1. ASSUME NEW p \in Procs, Start(p) \/ Initialize(p) PROVE TypeOK'
  BY <1>1, StartTyped, InitializeTyped
<1>2. ASSUME NEW p \in Procs, SendData(p) \/ RemovePipeThreads(p) PROVE TypeOK'
  BY <1>2, SendDataTyped, RemovePipeThreadsTyped
<1>3. ASSUME NEW p \in Procs, Join(p) \/ Crash(p) PROVE TypeOK'
  BY <1>3, GoneTyped DEF Join, Crash
<1>4. ASSUME NEW p \in Procs, PipeThreadProc(p) \/ CheckWritePipe(p) PROVE TypeOK'
  BY <1>4, ReaderTyped, CheckerTyped
<1>5. CASE UNCHANGED vars
  BY <1>5 DEF vars, TypeOK
<1> QED
  BY <1>1, <1>2, <1>3, <1>4, <1>5 DEF Next

\* Every variable has its type in every reachable state: no step stores a life
\* a process has not had, and no FIFO holds more than it takes.
THEOREM TypeCorrect == Spec => []TypeOK
  BY InitTyped, TypePreserved, PTL DEF Spec

-----------------------------------------------------------------------------
(* Paths and descriptors.                                                  *)

LEMMA InitInv == Init => Inv
<1> SUFFICES ASSUME Init PROVE Inv
  OBVIOUS
<1>1. \A p \in Procs : proc[p] = Down /\ name[p] = 0
  BY DEF Init
<1> QED
  BY <1>1, InitTyped
  DEF Inv, ReaderCreated, OpenUnderPath, FoundOnlyIfRead, Down

\* Create is the one step of a running process that puts a FIFO under a path,
\* and Open the one that opens a FIFO to read.
LEMMA InitializeStep ==
  ASSUME Inv, NEW p \in Procs, Start(p) \/ Initialize(p)
  PROVE  ReaderCreated' /\ OpenUnderPath' /\ FoundOnlyIfRead'
<1> USE DEF Inv, Paths, Histories
<1>1. proc \in [Procs -> Process] /\ proc[p] \in Process
  BY DEF TypeOK
<1>2. CASE Start(p)
  BY <1>1, <1>2 DEF Start, Main, Process, ReaderCreated, OpenUnderPath, FoundOnlyIfRead, AtReader
<1>3. CASE Create(p)
  <2>1. ReaderCreated'
    BY <1>1, <1>3 DEF Create, Main, Process, ReaderCreated
  <2>2. OpenUnderPath'
    BY <1>1, <1>3, Peers DEF Create, MakeFifo, Main, Process, OpenUnderPath, TypeOK
  <2>3. FoundOnlyIfRead'
    BY <1>1, <1>3 DEF Create, MakeFifo, Main, Process, FoundOnlyIfRead, AtReader, TypeOK
  <2> QED
    BY <2>1, <2>2, <2>3
<1>4. CASE Open(p)
  BY <1>1, <1>4 DEF Open, Opened, Process, ReaderCreated, OpenUnderPath, FoundOnlyIfRead, AtReader
<1>5. CASE CreateReader(p)
  BY <1>1, <1>5 DEF CreateReader, Process, ReaderCreated, OpenUnderPath, FoundOnlyIfRead, AtReader
<1>6. CASE StoreThread(p)
  BY <1>1, <1>6 DEF StoreThread, Process, ReaderCreated, OpenUnderPath, FoundOnlyIfRead, AtReader
<1>7. CASE CreateChecker(p)
  BY <1>1, <1>7 DEF CreateChecker, Process, ReaderCreated, OpenUnderPath, FoundOnlyIfRead, AtReader
<1> QED
  BY <1>2, <1>3, <1>4, <1>5, <1>6, <1>7 DEF Initialize

\* The main thread after Initialize, and the end of a process.
LEMMA MainStep ==
  ASSUME Inv, NEW p \in Procs,
         SendData(p) \/ RemovePipeThreads(p) \/ Join(p) \/ Crash(p)
  PROVE  ReaderCreated' /\ OpenUnderPath' /\ FoundOnlyIfRead'
<1> USE DEF Inv, Paths, Histories, Process, ReaderCreated, OpenUnderPath,
            FoundOnlyIfRead, AtReader
<1>1. proc \in [Procs -> Process] /\ proc[p] \in Process
  BY DEF TypeOK
<1>2. CASE SendData(p)
  BY <1>1, <1>2 DEF SendData, Main
<1>3. CASE RemovePipeThreads(p)
  BY <1>1, <1>3 DEF RemovePipeThreads
<1>4. CASE Join(p) \/ Crash(p)
  BY <1>1, <1>4 DEF Join, Crash, Gone, Down
<1> QED
  BY <1>2, <1>3, <1>4

\* The reader thread closes a descriptor before it removes the path of it.
LEMMA ReaderStep ==
  ASSUME Inv, NEW p \in Procs, PipeThreadProc(p)
  PROVE  ReaderCreated' /\ OpenUnderPath' /\ FoundOnlyIfRead'
<1> USE DEF Inv, Paths, Histories, Process, ReaderCreated, OpenUnderPath,
            FoundOnlyIfRead, AtReader
<1>1. proc \in [Procs -> Process] /\ proc[p] \in Process
  BY DEF TypeOK
<1>2. CASE Test(p)
  BY <1>1, <1>2 DEF Test
<1>3. CASE Read(p)
  BY <1>1, <1>3 DEF Read
<1>4. CASE CloseRead(p)
  BY <1>1, <1>4 DEF CloseRead
<1>5. CASE RemoveRead(p)
  BY <1>1, <1>5 DEF RemoveRead, Remove, TypeOK
<1>6. CASE CloseWrite(p)
  BY <1>1, <1>6 DEF CloseWrite
<1>7. CASE RemoveWrite(p)
  BY <1>1, <1>7, Peers DEF RemoveWrite, Remove, TypeOK
<1> QED
  BY <1>2, <1>3, <1>4, <1>5, <1>6, <1>7 DEF PipeThreadProc

\* The check thread opens what is under the peer's path.
LEMMA CheckerStep ==
  ASSUME Inv, NEW p \in Procs, CheckWritePipe(p)
  PROVE  ReaderCreated' /\ OpenUnderPath' /\ FoundOnlyIfRead'
<1>1. proc \in [Procs -> Process] /\ proc[p] \in Process
  BY DEF Inv, TypeOK
<1> QED
  BY <1>1
  DEF Inv, CheckWritePipe, Paths, Histories, Process, ReaderCreated, OpenUnderPath,
      FoundOnlyIfRead, AtReader

LEMMA InvPreserved == Inv /\ [Next]_vars => Inv'
<1> SUFFICES ASSUME Inv, [Next]_vars PROVE Inv'
  OBVIOUS
<1>1. TypeOK'
  BY TypePreserved DEF Inv
<1>2. ASSUME NEW p \in Procs, Start(p) \/ Initialize(p) PROVE Inv'
  BY <1>1, <1>2, InitializeStep DEF Inv
<1>3. ASSUME NEW p \in Procs,
             SendData(p) \/ RemovePipeThreads(p) \/ Join(p) \/ Crash(p)
      PROVE  Inv'
  BY <1>1, <1>3, MainStep DEF Inv
<1>4. ASSUME NEW p \in Procs, PipeThreadProc(p) \/ CheckWritePipe(p) PROVE Inv'
  BY <1>1, <1>4, ReaderStep, CheckerStep DEF Inv
<1>5. CASE UNCHANGED vars
  BY <1>1, <1>5
  DEF Inv, vars, ReaderCreated, OpenUnderPath, FoundOnlyIfRead, AtReader
<1> QED
  BY <1>2, <1>3, <1>4, <1>5 DEF Next

\* Kills and restarts do not part the two processes: as long as no path was
\* removed, who writes and who reads have the same FIFO, whatever was opened
\* in which life.
THEOREM SameFifoKept == Spec => []SameFifo
<1>1. Inv => SameFifo
  BY Peers DEF Inv, OpenUnderPath, SameFifo
<1> QED
  BY <1>1, InitInv, InvPreserved, PTL DEF Spec

\* A peer finds only FIFOs that are read, also when the reader thread ended at
\* the start because work_thread was not stored yet.
THEOREM FoundIsRead == Spec => []FoundOnlyIfRead
<1>1. Inv => FoundOnlyIfRead
  BY DEF Inv
<1> QED
  BY <1>1, InitInv, InvPreserved, PTL DEF Spec
=============================================================================
