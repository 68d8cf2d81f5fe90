---------------- MODULE UnixDomainSocketSessionManager_proofs ----------------
(***************************************************************************)
(* Theorems about UnixDomainSocketSessionManager, for every set of         *)
(* descriptors, every assignment of product codes, also to descriptor      *)
(* numbers, and any number of application threads.                         *)
(***************************************************************************)
EXTENDS UnixDomainSocketSessionManager, TLAPS

USE FdAssumption, ProductAssumption, AppAssumption

-----------------------------------------------------------------------------
(* The inductive invariant.                                                *)

Updating == {"add_reverse", "add_list", "remove_reverse", "remove_list"}

\* mutex_ is held by the thread that is between its lock and its unlock.
LockHeld ==
  /\ mutex_ = Epoll <=> pc \in Updating \cup {"code_read"}
  /\ \A a \in Apps : mutex_ = a <=> app_pc[a] = "read"

\* The descriptor being handled is one, and Remove has found its entry.
Handling ==
  /\ pc # "idle" => client_fd \in Fds
  /\ pc \in {"remove_lock", "remove_reverse", "remove_list"} =>
       RemoveKey \in Products /\ Exists(RemoveKey)

\* A reverse entry names the product its own client announced, and is matched
\* by the session, save between the two updates of Add.
ReverseMatched ==
  \A f \in Fds :
    reverse_socket_list_[f] # Absent =>
      /\ reverse_socket_list_[f] = product_code[f]
      /\ \/ socket_list_[product_code[f]] = f
         \/ pc = "add_list" /\ f = client_fd

\* A session is matched by its reverse entry, save between the two updates
\* of Remove.
SessionMatched ==
  \A p \in Products :
    socket_list_[p] \in Fds =>
      \/ reverse_socket_list_[socket_list_[p]] = p
      \/ pc = "remove_list" /\ p = RemoveKey

NoSession == \A p \in Products : socket_list_[p] \notin Fds

\* What the epoll thread has learnt about its descriptor on the way to Add:
\* there is no session, or the descriptor has the only one.
AddReached ==
  /\ pc \in {"code_lock", "code_read"} => reverse_socket_list_[client_fd] # Absent
  /\ pc = "add" => NoSession \/ socket_list_[product_code[client_fd]] = client_fd
  /\ pc \in {"add_lock", "add_reverse", "add_list"} => NoSession

\* What the first update of Add leaves for the second.
AddHalf ==
  pc = "add_list" => reverse_socket_list_[client_fd] = product_code[client_fd]

\* What Remove leaves for its last step.
RemoveHalf ==
  pc = "remove_list" =>
    \A f \in Fds : socket_list_[RemoveKey] = f => reverse_socket_list_[f] = Absent

Inv ==
  /\ TypeOK /\ LockHeld /\ Handling
  /\ ReverseMatched /\ SessionMatched
  /\ AddReached /\ AddHalf /\ RemoveHalf /\ AtMostOneSession

\* An announced product code is a key, and no descriptor or product is one of
\* the two values that stand for nothing.
LEMMA Keys ==
  /\ \A f \in Fds : product_code[f] \in Products
  /\ Absent \notin Fds /\ NullFd \notin Fds /\ Absent \notin Products
  /\ Absent # NullFd
  BY DEF Products, Absent, NullFd

\* The tables start empty and no thread is inside them.
LEMMA InitInv == Init => Inv
<1> SUFFICES ASSUME Init PROVE Inv
  OBVIOUS
<1>1. TypeOK
  <2>1. Products # {}
    BY Keys
  <2>2. (CHOOSE p \in Products : TRUE) \in Products
    BY <2>1
  <2> QED
    BY <2>2 DEF Init, TypeOK, EpollPCs, AppPCs
<1>2. LockHeld
  BY DEF Init, LockHeld, Updating
<1>3. Handling /\ AddReached /\ AddHalf /\ RemoveHalf
  BY DEF Init, Handling, AddReached, AddHalf, RemoveHalf
<1>4. ReverseMatched /\ SessionMatched /\ AtMostOneSession
  BY Keys DEF Init, ReverseMatched, SessionMatched, AtMostOneSession
<1> QED
  BY <1>1, <1>2, <1>3, <1>4 DEF Inv

-----------------------------------------------------------------------------
(* Steps that leave the tables alone.                                      *)

\* What Inv says of the tables survives a step that changes none of them,
\* keeps the descriptor, and neither starts nor ends an update.
LEMMA TablesKept ==
  ASSUME Inv, UNCHANGED tables,
         pc' \in {"add_list", "remove_list"} \/ pc \in {"add_list", "remove_list"}
           => pc' = pc /\ UNCHANGED client_fd
  PROVE  /\ ReverseMatched' /\ SessionMatched'
         /\ AddHalf' /\ RemoveHalf' /\ AtMostOneSession'
<1>1. ReverseMatched'
  BY DEF Inv, tables, ReverseMatched
<1>2. SessionMatched'
  BY DEF Inv, tables, SessionMatched, RemoveKey
<1>3. AddHalf' /\ RemoveHalf'
  BY DEF Inv, tables, AddHalf, RemoveHalf, RemoveKey
<1>4. AtMostOneSession'
  BY DEF Inv, tables, AtMostOneSession
<1> QED
  BY <1>1, <1>2, <1>3, <1>4

\* Receive and Disconnect pick a descriptor.
LEMMA EventStep ==
  ASSUME Inv, NEW f \in Fds, Receive(f) \/ Disconnect(f)
  PROVE  Inv'
<1> USE DEF Inv, Goto
<1>1. TypeOK'
  BY DEF TypeOK, Receive, Disconnect, tables, event, apps, EpollPCs
<1>2. LockHeld'
  BY DEF LockHeld, Updating, Receive, Disconnect, apps
<1>3. Handling' /\ AddReached'
  BY DEF Handling, AddReached, Receive, Disconnect
<1>4. /\ ReverseMatched' /\ SessionMatched'
      /\ AddHalf' /\ RemoveHalf' /\ AtMostOneSession'
  BY TablesKept DEF Receive, Disconnect
<1> QED
  BY <1>1, <1>2, <1>3, <1>4

\* The tests and locks of the epoll thread.
LEMMA EpollReadStep ==
  ASSUME Inv,
         \/ GetSocketFdSize
         \/ GetProductCode \/ GetProductCodeLock \/ GetProductCodeRead
         \/ AddCount \/ AddLock \/ RemoveCount \/ RemoveLock
  PROVE  Inv'
<1> DEFINE step == \/ GetSocketFdSize
                   \/ GetProductCode \/ GetProductCodeLock \/ GetProductCodeRead
                   \/ AddCount \/ AddLock \/ RemoveCount \/ RemoveLock
<1> USE DEF Inv, Goto, Acquire, Release
<1>0. UNCHANGED << tables, event, apps >>
  BY DEF GetSocketFdSize, GetProductCode, GetProductCodeLock, GetProductCodeRead,
         AddCount, AddLock, RemoveCount, RemoveLock
<1>1. TypeOK'
  <2>1. pc' \in EpollPCs /\ mutex_' \in Apps \cup {Epoll, NoThread}
    BY DEF GetSocketFdSize, GetProductCode, GetProductCodeLock, GetProductCodeRead,
           AddCount, AddLock, RemoveCount, RemoveLock, TypeOK, EpollPCs
  <2> QED
    BY <1>0, <2>1 DEF TypeOK, tables, event, apps
<1>2. LockHeld'
  <2>1. UNCHANGED app_pc
    BY <1>0 DEF apps
  <2> QED
    BY <2>1
    DEF GetSocketFdSize, GetProductCode, GetProductCodeLock, GetProductCodeRead,
        AddCount, AddLock, RemoveCount, RemoveLock, LockHeld, Updating
<1>3. Handling'
  BY <1>0
  DEF GetSocketFdSize, GetProductCode, GetProductCodeLock, GetProductCodeRead,
      AddCount, AddLock, RemoveCount, RemoveLock, Handling, tables, event,
      RemoveKey, Exists
<1>4. AddReached'
  <2>1. CASE GetSocketFdSize
    BY <1>0, <2>1, Keys
    DEF GetSocketFdSize, AddReached, NoSession, Empty, Exists, tables, event
  <2>2. CASE GetProductCode \/ GetProductCodeLock
    BY <1>0, <2>2 DEF GetProductCode, GetProductCodeLock, AddReached, tables, event
  <2>3. CASE GetProductCodeRead
    <3>1. /\ client_fd \in Fds /\ pc = "code_read" /\ pc' = "add"
          /\ reverse_socket_list_[client_fd] # Absent
      BY <2>3 DEF GetProductCodeRead, Handling, AddReached
    <3>2. socket_list_[product_code[client_fd]] = client_fd
      BY <3>1 DEF ReverseMatched
    <3> QED
      BY <1>0, <3>1, <3>2 DEF AddReached, tables, event
  <2>4. CASE AddCount
    <3>1. pc = "add" /\ pc' \in {"idle", "add_lock"}
      BY <2>4 DEF AddCount
    <3>2. pc' = "add_lock" => ~Exists(product_code[client_fd])
      BY <2>4, <3>1 DEF AddCount
    <3>3. client_fd \in Fds
      BY <3>1 DEF Handling
    <3>4. pc' = "add_lock" => NoSession
      BY <3>1, <3>2, <3>3, Keys DEF AddReached, Exists
    <3> QED
      BY <1>0, <3>1, <3>4 DEF AddReached, NoSession, tables
  <2>5. CASE AddLock
    BY <1>0, <2>5 DEF AddLock, AddReached, NoSession, tables
  <2>6. CASE RemoveCount \/ RemoveLock
    BY <2>6 DEF RemoveCount, RemoveLock, AddReached
  <2> QED
    BY <2>1, <2>2, <2>3, <2>4, <2>5, <2>6
<1>5. /\ ReverseMatched' /\ SessionMatched'
      /\ AddHalf' /\ RemoveHalf' /\ AtMostOneSession'
  <2>1. pc \notin {"add_list", "remove_list"} /\ pc' \notin {"add_list", "remove_list"}
    BY DEF GetSocketFdSize, GetProductCode, GetProductCodeLock, GetProductCodeRead,
           AddCount, AddLock, RemoveCount, RemoveLock
  <2> QED
    BY <1>0, <2>1, TablesKept
<1> QED
  BY <1>1, <1>2, <1>3, <1>4, <1>5

-----------------------------------------------------------------------------
(* The updates of the epoll thread.                                        *)

\* What Inv needs of the variables that no update touches.
LEMMA UpdateFrame ==
  ASSUME Inv, AddReverse \/ AddList \/ RemoveReverse \/ RemoveList
  PROVE  TypeOK' /\ LockHeld'
<1> USE DEF Inv, Goto, Release
<1>1. client_fd \in Fds /\ UNCHANGED << event, apps >>
  BY DEF AddReverse, AddList, RemoveReverse, RemoveList, Handling
<1>2. socket_list_' \in [Products -> Fds \cup {NullFd, Absent}]
  BY <1>1, Keys
  DEF AddReverse, AddList, RemoveReverse, RemoveList, TypeOK
<1>3. reverse_socket_list_' \in [Fds -> Products \cup {Absent}]
  BY <1>1, Keys
  DEF AddReverse, AddList, RemoveReverse, RemoveList, TypeOK
<1>4. pc' \in EpollPCs /\ mutex_' \in Apps \cup {Epoll, NoThread}
  BY DEF AddReverse, AddList, RemoveReverse, RemoveList, TypeOK, EpollPCs
<1>5. TypeOK'
  BY <1>1, <1>2, <1>3, <1>4 DEF TypeOK, event, apps
<1>6. LockHeld'
  <2>1. UNCHANGED app_pc
    BY <1>1 DEF apps
  <2> QED
    BY <2>1 DEF AddReverse, AddList, RemoveReverse, RemoveList, LockHeld, Updating
<1> QED
  BY <1>5, <1>6

\* Add's first update: with no session there is no other reverse entry.
LEMMA AddReverseStep == Inv /\ AddReverse => Inv'
<1> SUFFICES ASSUME Inv, AddReverse PROVE Inv'
  OBVIOUS
<1> USE DEF Inv, Goto
<1>1. /\ pc = "add_reverse" /\ pc' = "add_list" /\ client_fd \in Fds
      /\ UNCHANGED << socket_list_, client_fd >>
      /\ product_code[client_fd] \in Products
  BY Keys DEF AddReverse, Handling, event
<1>2. \A f \in Fds : reverse_socket_list_'[f] =
        IF f = client_fd THEN product_code[f] ELSE reverse_socket_list_[f]
  BY <1>1 DEF AddReverse, TypeOK
<1>3. NoSession /\ NoSession'
  BY <1>1 DEF AddReached, NoSession
<1>4. \A f \in Fds : reverse_socket_list_[f] = Absent
  BY <1>1, <1>3, Keys DEF ReverseMatched, NoSession
<1>5. ReverseMatched'
  BY <1>1, <1>2, <1>4 DEF ReverseMatched
<1>6. SessionMatched' /\ AtMostOneSession'
  BY <1>3 DEF NoSession, SessionMatched, AtMostOneSession
<1>7. Handling' /\ AddReached' /\ AddHalf' /\ RemoveHalf'
  BY <1>1, <1>2, <1>3 DEF Handling, AddReached, AddHalf, RemoveHalf
<1> QED
  BY <1>5, <1>6, <1>7, UpdateFrame

\* Add's second update makes the only session.
LEMMA AddListStep == Inv /\ AddList => Inv'
<1> SUFFICES ASSUME Inv, AddList PROVE Inv'
  OBVIOUS
<1> USE DEF Inv, Goto
<1>1. /\ pc = "add_list" /\ pc' = "idle" /\ client_fd \in Fds
      /\ UNCHANGED reverse_socket_list_
      /\ product_code[client_fd] \in Products
  BY Keys DEF AddList, Handling
<1>2. \A p \in Products : socket_list_'[p] =
        IF p = product_code[client_fd] THEN client_fd ELSE socket_list_[p]
  BY <1>1 DEF AddList, TypeOK
<1>3. NoSession /\ reverse_socket_list_[client_fd] = product_code[client_fd]
  BY <1>1 DEF AddReached, AddHalf
<1>4. ReverseMatched'
  <2> SUFFICES ASSUME NEW f \in Fds, reverse_socket_list_[f] # Absent
               PROVE  /\ reverse_socket_list_[f] = product_code[f]
                      /\ socket_list_'[product_code[f]] = f
    BY <1>1 DEF ReverseMatched
  <2>1. f = client_fd
    BY <1>3, Keys DEF ReverseMatched, NoSession
  <2> QED
    BY <1>1, <1>2, <1>3, <2>1
<1>5. SessionMatched' /\ AtMostOneSession'
  <2>1. \A p \in Products : socket_list_'[p] \in Fds => p = product_code[client_fd]
    BY <1>2, <1>3 DEF NoSession
  <2> QED
    BY <1>1, <1>2, <1>3, <2>1 DEF SessionMatched, AtMostOneSession
<1>6. Handling' /\ AddReached' /\ AddHalf' /\ RemoveHalf'
  BY <1>1 DEF Handling, AddReached, AddHalf, RemoveHalf
<1> QED
  BY <1>4, <1>5, <1>6, UpdateFrame

\* Remove's first update: the session being removed is the only one, so no
\* other session loses its reverse entry.
LEMMA RemoveReverseStep == Inv /\ RemoveReverse => Inv'
<1> SUFFICES ASSUME Inv, RemoveReverse PROVE Inv'
  OBVIOUS
<1> USE DEF Inv, Goto
<1>1. /\ pc = "remove_reverse" /\ pc' = "remove_list"
      /\ UNCHANGED << socket_list_, client_fd >>
      /\ RemoveKey' = RemoveKey
      /\ client_fd \in Fds /\ RemoveKey \in Products /\ Exists(RemoveKey)
  BY DEF RemoveReverse, Handling, event, RemoveKey
<1>2. \A f \in Fds : reverse_socket_list_'[f] =
        IF f = socket_list_[RemoveKey] THEN Absent ELSE reverse_socket_list_[f]
  BY DEF RemoveReverse
<1>3. ReverseMatched'
  BY <1>1, <1>2 DEF ReverseMatched
<1>4. SessionMatched'
  <2> SUFFICES ASSUME NEW p \in Products, socket_list_[p] \in Fds, p # RemoveKey
               PROVE  reverse_socket_list_'[socket_list_[p]] = p
    BY <1>1 DEF SessionMatched
  <2>1. socket_list_[p] # socket_list_[RemoveKey]
    BY <1>1 DEF AtMostOneSession
  <2> QED
    BY <1>1, <1>2, <2>1 DEF SessionMatched
<1>5. RemoveHalf' /\ AtMostOneSession'
  BY <1>1, <1>2 DEF RemoveHalf, AtMostOneSession
<1>6. Handling' /\ AddReached' /\ AddHalf'
  BY <1>1 DEF Handling, AddReached, AddHalf, Exists
<1> QED
  BY <1>3, <1>4, <1>5, <1>6, UpdateFrame

\* Remove's last update: no reverse entry names the session it erases.
LEMMA RemoveListStep == Inv /\ RemoveList => Inv'
<1> SUFFICES ASSUME Inv, RemoveList PROVE Inv'
  OBVIOUS
<1> USE DEF Inv, Goto
<1>1. /\ pc = "remove_list" /\ pc' = "idle" /\ RemoveKey \in Products
      /\ UNCHANGED reverse_socket_list_
  BY DEF RemoveList, Handling
<1>2. \A p \in Products : socket_list_'[p] =
        IF p = RemoveKey THEN Absent ELSE socket_list_[p]
  BY <1>1 DEF RemoveList, TypeOK
<1>3. ReverseMatched'
  <2> SUFFICES ASSUME NEW f \in Fds, reverse_socket_list_[f] # Absent
               PROVE  /\ reverse_socket_list_[f] = product_code[f]
                      /\ socket_list_'[product_code[f]] = f
    BY <1>1 DEF ReverseMatched
  <2>1. /\ reverse_socket_list_[f] = product_code[f]
        /\ socket_list_[product_code[f]] = f
    BY <1>1 DEF ReverseMatched
  <2>2. product_code[f] # RemoveKey
    BY <1>1, <2>1 DEF RemoveHalf
  <2> QED
    BY <1>2, <2>1, <2>2, Keys
<1>4. SessionMatched' /\ AtMostOneSession'
  BY <1>1, <1>2, Keys DEF SessionMatched, AtMostOneSession
<1>5. Handling' /\ AddReached' /\ AddHalf' /\ RemoveHalf'
  BY <1>1 DEF Handling, AddReached, AddHalf, RemoveHalf
<1> QED
  BY <1>3, <1>4, <1>5, UpdateFrame

-----------------------------------------------------------------------------
(* The application threads.                                                *)

\* A step that leaves the tables, the descriptor and the epoll thread's place
\* alone keeps all that Inv says of them.
LEMMA AppIdleStep ==
  ASSUME Inv, NEW a \in Apps,
         SendMessage(a) \/ GetSocketFdCount(a) \/ GetSocketFdLock(a) \/ Return(a)
  PROVE  Inv'
<1> USE DEF Inv, AppGoto, Acquire
<1>1. UNCHANGED << tables, pc, event >>
  BY DEF SendMessage, GetSocketFdCount, GetSocketFdLock, Return
<1>2. TypeOK'
  <2>1. /\ app_pc' \in [Apps -> AppPCs] /\ mutex_' \in Apps \cup {Epoll, NoThread}
        /\ app_key' \in [Apps -> Products]
        /\ result' \in [Apps -> Fds \cup {NullFd, Absent}]
    BY DEF SendMessage, GetSocketFdCount, GetSocketFdLock, Return, TypeOK, AppPCs
  <2> QED
    BY <1>1, <2>1 DEF TypeOK, tables, event
<1>3. LockHeld'
  <2>1. app_pc \in [Apps -> AppPCs]
    BY DEF TypeOK
  <2> QED
    BY <1>1, <2>1
    DEF SendMessage, GetSocketFdCount, GetSocketFdLock, Return, LockHeld, Updating
<1>4. Handling' /\ AddReached'
  BY <1>1 DEF Handling, AddReached, NoSession, tables, event, RemoveKey, Exists
<1>5. /\ ReverseMatched' /\ SessionMatched'
      /\ AddHalf' /\ RemoveHalf' /\ AtMostOneSession'
  BY <1>1, TablesKept DEF event
<1> QED
  BY <1>2, <1>3, <1>4, <1>5

\* A lookup inserts no descriptor and keeps every entry there is.
LEMMA LookupStep ==
  ASSUME Inv, NEW a \in Apps, GetSocketFdRead(a)
  PROVE  /\ pc \notin Updating /\ UNCHANGED << pc, client_fd, reverse_socket_list_ >>
         /\ app_key[a] \in Products
         /\ \A p \in Products :
              socket_list_'[p] = IF p = app_key[a] /\ socket_list_[p] = Absent
                                 THEN NullFd ELSE socket_list_[p]
         /\ result' = [result EXCEPT ![a] = socket_list_'[app_key[a]]]
         /\ Inv'
<1> USE DEF Inv, AppGoto, Release
<1>1. pc \notin Updating
  BY DEF GetSocketFdRead, LockHeld
<1>2. UNCHANGED << pc, client_fd, reverse_socket_list_, event, app_key >>
  BY DEF GetSocketFdRead, event
<1>3. app_key[a] \in Products
  BY DEF TypeOK
<1>4. \A p \in Products :
        socket_list_'[p] = IF p = app_key[a] /\ socket_list_[p] = Absent
                           THEN NullFd ELSE socket_list_[p]
  BY <1>3 DEF GetSocketFdRead, TypeOK
<1>5. result' = [result EXCEPT ![a] = socket_list_'[app_key[a]]]
  BY DEF GetSocketFdRead
<1>6. socket_list_' \in [Products -> Fds \cup {NullFd, Absent}]
  BY <1>3 DEF GetSocketFdRead, TypeOK
<1>7. TypeOK'
  <2>1. result' \in [Apps -> Fds \cup {NullFd, Absent}]
    BY <1>3, <1>5, <1>6 DEF TypeOK
  <2>2. app_pc' \in [Apps -> AppPCs] /\ mutex_' \in Apps \cup {Epoll, NoThread}
    BY DEF GetSocketFdRead, TypeOK, AppPCs
  <2> QED
    BY <1>2, <1>6, <2>1, <2>2 DEF TypeOK, event
<1>8. LockHeld'
  <2>1. app_pc \in [Apps -> AppPCs]
    BY DEF TypeOK
  <2> QED
    BY <1>2, <2>1 DEF GetSocketFdRead, LockHeld, Updating
<1>9. \A p \in Products : socket_list_'[p] \in Fds <=> socket_list_[p] \in Fds
  BY <1>4, Keys
<1>10. \A p \in Products : socket_list_[p] # Absent => socket_list_'[p] = socket_list_[p]
  BY <1>4
<1>11. Handling'
  BY <1>2, <1>10, Keys, <1>4 DEF Handling, RemoveKey, Exists
<1>12. AddReached'
  <2>1. NoSession => NoSession'
    BY <1>9 DEF NoSession
  <2>2. pc = "add" /\ socket_list_[product_code[client_fd]] = client_fd
          => socket_list_'[product_code[client_fd]] = client_fd
    BY <1>10, Keys DEF Handling
  <2> QED
    BY <1>2, <2>1, <2>2 DEF AddReached
<1>13. ReverseMatched'
  BY <1>1, <1>2, <1>10, Keys DEF ReverseMatched, Updating
<1>14. SessionMatched' /\ AtMostOneSession'
  <2>1. \A p \in Products : socket_list_'[p] \in Fds => socket_list_'[p] = socket_list_[p]
    BY <1>9, <1>10, Keys
  <2> QED
    BY <1>1, <1>2, <2>1 DEF SessionMatched, AtMostOneSession, Updating
<1>15. AddHalf' /\ RemoveHalf'
  BY <1>1, <1>2 DEF AddHalf, RemoveHalf, Updating
<1> QED
  BY <1>1, <1>2, <1>3, <1>4, <1>5, <1>7, <1>8, <1>11, <1>12, <1>13, <1>14, <1>15

-----------------------------------------------------------------------------
(* The theorems.                                                           *)

\* Every step of every thread keeps the invariant.
LEMMA InvStep == Inv /\ [Next]_vars => Inv'
<1> SUFFICES ASSUME Inv, [Next]_vars PROVE Inv'
  OBVIOUS
<1>1. CASE \E f \in Fds : Receive(f) \/ Disconnect(f)
  BY <1>1, EventStep
<1>2. CASE \/ GetSocketFdSize
           \/ GetProductCode \/ GetProductCodeLock \/ GetProductCodeRead
           \/ AddCount \/ AddLock \/ RemoveCount \/ RemoveLock
  BY <1>2, EpollReadStep
<1>3. CASE AddReverse \/ AddList \/ RemoveReverse \/ RemoveList
  BY <1>3, AddReverseStep, AddListStep, RemoveReverseStep, RemoveListStep
<1>4. CASE \E a \in Apps : AppStep(a)
  <2>1. PICK a \in Apps : AppStep(a)
    BY <1>4
  <2>2. CASE GetSocketFdRead(a)
    BY <2>2, LookupStep
  <2>3. CASE SendMessage(a) \/ GetSocketFdCount(a) \/ GetSocketFdLock(a) \/ Return(a)
    BY <2>3, AppIdleStep
  <2> QED
    BY <2>1, <2>2, <2>3 DEF AppStep
<1>5. CASE UNCHANGED vars
  <2>1. UNCHANGED << tables, mutex_, pc, event, apps, socket_list_, reverse_socket_list_,
                     client_fd, names_product, announced, closed, app_pc, app_key, result >>
    BY <1>5 DEF vars, tables, event, apps
  <2> QED
    BY <2>1 DEF Inv, TypeOK, LockHeld, Handling, ReverseMatched, SessionMatched,
                AddReached, AddHalf, RemoveHalf, AtMostOneSession, NoSession,
                RemoveKey, Exists
<1> QED
  BY <1>1, <1>2, <1>3, <1>4, <1>5 DEF Next, EpollStep

\* The two tables, the lock and what the threads have learnt agree, always.
THEOREM Invariance == Spec => []Inv
<1>1. Init => Inv
  BY InitInv
<1>2. Inv /\ [Next]_vars => Inv'
  BY InvStep
<1> QED
  BY <1>1, <1>2, PTL DEF Spec

\* Every variable of the tables and of the threads keeps its type; a lookup
\* may insert a null descriptor (int()) but nothing else.
THEOREM TypeCorrect == Spec => []TypeOK
<1>1. Inv => TypeOK
  BY DEF Inv
<1> QED
  BY <1>1, Invariance, PTL

\* Whenever the epoll thread is outside Add and Remove, the reverse entry of a
\* descriptor (GetProductCode, 64-72) is matched by the session of its product.
THEOREM ReverseMatchesSession == Spec => []ReverseSound
<1>1. Inv => ReverseSound
  BY DEF Inv, ReverseSound, ReverseMatched, LockHeld, Updating
<1> QED
  BY <1>1, Invariance, PTL

\* What count() answered before the lock was taken (23, 50) still holds when
\* Add and Remove change the tables.
THEOREM TestsStillHold == Spec => []CheckThenAct
<1>1. Inv => CheckThenAct
  <2> SUFFICES ASSUME Inv PROVE CheckThenAct
    OBVIOUS
  <2>1. ASSUME pc \in {"add_lock", "add_reverse", "add_list"}
        PROVE  socket_list_[product_code[client_fd]] \in {Absent, NullFd}
    <3>1. NoSession /\ client_fd \in Fds
      BY <2>1 DEF Inv, AddReached, Handling
    <3> QED
      BY <3>1, Keys DEF Inv, TypeOK, NoSession
  <2> QED
    BY <2>1 DEF Inv, CheckThenAct, Handling
<1> QED
  BY <1>1, Invariance, PTL

\* However lookups interleave with the unlocked reads of EpollHandler
\* (151-152), no two products have a session at once.
THEOREM OneSession == Spec => []AtMostOneSession
<1>1. Inv => AtMostOneSession
  BY DEF Inv
<1> QED
  BY <1>1, Invariance, PTL

\* A descriptor GetSocketFd returns is that of a whole session: its reverse
\* entry names the product that was asked for.
THEOREM LookupsSeeWholeSessions == Spec => LookupWhole
<1>1. Inv /\ [Next]_vars =>
        \A a \in Apps : result'[a] # result[a] /\ result'[a] \in Fds =>
          reverse_socket_list_[result'[a]] = app_key[a]
  <2> SUFFICES ASSUME Inv, [Next]_vars, NEW a \in Apps,
                      result'[a] # result[a], result'[a] \in Fds
               PROVE  reverse_socket_list_[result'[a]] = app_key[a]
    OBVIOUS
  <2>1. result \in [Apps -> Fds \cup {NullFd, Absent}]
    BY DEF Inv, TypeOK
  <2>2. PICK b \in Apps : GetSocketFdRead(b) \/ Return(b)
    BY DEF Next, EpollStep, AppStep, vars, apps, event, tables,
           Receive, Disconnect, GetSocketFdSize, GetProductCode, GetProductCodeLock,
           GetProductCodeRead, AddCount, AddLock, AddReverse, AddList, RemoveCount,
           RemoveLock, RemoveReverse, RemoveList, SendMessage, GetSocketFdCount,
           GetSocketFdLock
  <2>3. GetSocketFdRead(b) /\ b = a
    <3>1. \A v : result' = [result EXCEPT ![b] = v] =>
                   result'[a] = IF a = b THEN v ELSE result[a]
      BY <2>1
    <3> QED
      BY <2>2, <3>1, Keys DEF GetSocketFdRead, Return
  <2>4. /\ pc \notin Updating /\ app_key[a] \in Products
        /\ socket_list_'[app_key[a]] \in {NullFd, socket_list_[app_key[a]]}
        /\ result' = [result EXCEPT ![a] = socket_list_'[app_key[a]]]
    BY <2>3, LookupStep
  <2>5. result'[a] = socket_list_[app_key[a]]
    BY <2>1, <2>4, Keys
  <2> QED
    BY <2>4, <2>5 DEF Inv, SessionMatched, Updating
<1> QED
  BY <1>1, Invariance, PTL DEF Spec, LookupWhole
=============================================================================
