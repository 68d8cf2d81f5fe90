------------------- MODULE UnixDomainSocketSessionManager -------------------
(***************************************************************************)
(* The session tables shared by two kinds of threads.  The epoll thread    *)
(* files and removes sessions while it handles input and disconnects       *)
(* (UnixDomainSocketServer::EpollHandler); application threads look        *)
(* descriptors up to send.  Every method tests count() before it takes     *)
(* mutex_, so the steps are: the unlocked test, the lock, and each access  *)
(* of a table under the lock.  Two threads inside a std::map at once, one  *)
(* of them writing, is undefined behaviour of which the model keeps the    *)
(* outcomes in which each access sees the table before or after the other. *)
(* RemoveAll runs in the destructor at process exit and is left out, and   *)
(* so is GetSocketFdAll, which reads the tables and changes nothing.       *)
(***************************************************************************)
EXTENDS Integers, FiniteSets

CONSTANTS
  Fds,           \* descriptors of accepted connections
  product_code,  \* the product code the client behind a descriptor announces
  Epoll,         \* the epoll thread
  Apps           \* application threads

NoThread  == "none"

ASSUME FdAssumption      == Fds \subseteq Nat \ {0} /\ Fds # {}
ASSUME ProductAssumption == product_code \in [Fds -> 0..9]
ASSUME AppAssumption     == Epoll \notin Apps /\ NoThread \notin Apps \cup {Epoll}

Products  == {product_code[f] : f \in Fds}
Absent    == -1            \* no entry under this key
NullFd    == 0             \* int(): what operator[] stores under a new key

VARIABLES
  socket_list_, reverse_socket_list_,
  mutex_,          \* the thread that holds it
  \* epoll thread
  pc,              \* where it is
  client_fd,       \* the descriptor whose event it handles
  names_product,   \* is its input the product code?
  announced,       \* descriptors whose product code it has read
  closed,          \* descriptors whose end it has seen
  \* application threads
  app_pc, app_key, \* where each is, the product it looks up
  result           \* the descriptor GetSocketFd returned

tables  == << socket_list_, reverse_socket_list_ >>
event   == << client_fd, names_product, announced, closed >>
apps    == << app_pc, app_key, result >>
vars    == << tables, mutex_, pc, event, apps >>

EpollPCs == {"idle", "size", "code", "code_lock", "code_read",
             "add", "add_lock", "add_reverse", "add_list",
             "remove", "remove_lock", "remove_reverse", "remove_list"}
AppPCs   == {"idle", "count", "lock", "read", "returned"}

TypeOK ==
  /\ socket_list_ \in [Products -> Fds \cup {NullFd, Absent}]
  /\ reverse_socket_list_ \in [Fds -> Products \cup {Absent}]
  /\ mutex_ \in Apps \cup {Epoll, NoThread}
  /\ pc \in EpollPCs
  /\ client_fd \in Fds \cup {Absent}
  /\ names_product \in BOOLEAN
  /\ announced \subseteq Fds
  /\ closed \subseteq Fds
  /\ app_pc \in [Apps -> AppPCs]
  /\ app_key \in [Apps -> Products]
  /\ result \in [Apps -> Fds \cup {NullFd, Absent}]

Init ==
  /\ socket_list_ = [p \in Products |-> Absent]
  /\ reverse_socket_list_ = [f \in Fds |-> Absent]
  /\ mutex_ = NoThread
  /\ pc = "idle"
  /\ client_fd = Absent
  /\ names_product = FALSE
  /\ announced = {}
  /\ closed = {}
  /\ app_pc = [a \in Apps |-> "idle"]
  /\ app_key = [a \in Apps |-> CHOOSE p \in Products : TRUE]
  /\ result = [a \in Apps |-> Absent]

-----------------------------------------------------------------------------
(* Tables.                                                                 *)

Exists(p) == socket_list_[p] # Absent        \* socket_list_.count(p)
Empty     == \A p \in Products : ~Exists(p)

Acquire(t) == mutex_ = NoThread /\ mutex_' = t
Release(t) == mutex_ = t /\ mutex_' = NoThread

-----------------------------------------------------------------------------
(* Epoll thread.  A step from one pc to the next.                          *)

Goto(from, to) == pc = from /\ pc' = to

\* Input of f arrives: its product code, written once, or other data.
Receive(f) ==
  /\ Goto("idle", "size")
  /\ f \notin closed
  /\ client_fd' = f
  /\ \/ names_product' = FALSE /\ UNCHANGED announced
     \/ /\ f \notin announced
        /\ announced' = announced \cup {f}
        /\ names_product' = TRUE
  /\ UNCHANGED << tables, mutex_, closed, apps >>

\* GetSocketFdSize: with no entry at all the next test is skipped.
GetSocketFdSize ==
  /\ \/ Goto("size", "add") /\ Empty
     \/ Goto("size", "code") /\ ~Empty
  /\ UNCHANGED << tables, mutex_, event, apps >>

GetProductCodeAny ==   \* mutant: the test for an entry is gone
  /\ Goto("code", "code_lock")
  /\ UNCHANGED << tables, mutex_, event, apps >>

\* GetProductCode: a descriptor without an entry ends the handler.
GetProductCode ==
  /\ \/ Goto("code", "code_lock") /\ reverse_socket_list_[client_fd] # Absent
     \/ Goto("code", "idle") /\ reverse_socket_list_[client_fd] = Absent
  /\ UNCHANGED << tables, mutex_, event, apps >>

GetProductCodeLock ==
  /\ Goto("code_lock", "code_read")
  /\ Acquire(Epoll)
  /\ UNCHANGED << tables, event, apps >>

GetProductCodeRead ==
  /\ Goto("code_read", "add")
  /\ Release(Epoll)
  /\ UNCHANGED << tables, event, apps >>

\* Data ends here for the tables; for a product code, Add tests for an entry.
AddCount ==
  LET refused == ~names_product \/ Exists(product_code[client_fd])
  IN  /\ \/ Goto("add", "idle") /\ refused
         \/ Goto("add", "add_lock") /\ ~refused
      /\ UNCHANGED << tables, mutex_, event, apps >>

AddLock ==
  /\ Goto("add_lock", "add_reverse")
  /\ Acquire(Epoll)
  /\ UNCHANGED << tables, event, apps >>

AddReverseSwapped ==   \* mutant: the descriptor stored as its own product
  /\ Goto("add_reverse", "add_list")
  /\ reverse_socket_list_' = [reverse_socket_list_ EXCEPT ![client_fd] = client_fd]
  /\ UNCHANGED << socket_list_, mutex_, event, apps >>

AddReverse ==
  /\ Goto("add_reverse", "add_list")
  /\ reverse_socket_list_' =
       [reverse_socket_list_ EXCEPT ![client_fd] = product_code[client_fd]]
  /\ UNCHANGED << socket_list_, mutex_, event, apps >>

AddList ==
  /\ Goto("add_list", "idle")
  /\ socket_list_' = [socket_list_ EXCEPT ![product_code[client_fd]] = client_fd]
  /\ Release(Epoll)
  /\ UNCHANGED << reverse_socket_list_, event, apps >>

\* A disconnect: Remove gets the descriptor as its product code.
Disconnect(f) ==
  /\ Goto("idle", "remove")
  /\ f \notin closed
  /\ closed' = closed \cup {f}
  /\ client_fd' = f
  /\ UNCHANGED << tables, mutex_, names_product, announced, apps >>

RemoveKey == client_fd

RemoveUnchecked ==   \* mutant: the test for an entry is gone
  /\ \/ Goto("remove", "remove_lock") /\ RemoveKey \in Products
     \/ Goto("remove", "idle") /\ RemoveKey \notin Products
  /\ UNCHANGED << tables, mutex_, event, apps >>

RemoveCount ==
  /\ \/ Goto("remove", "remove_lock") /\ RemoveKey \in Products /\ Exists(RemoveKey)
     \/ Goto("remove", "idle") /\ ~(RemoveKey \in Products /\ Exists(RemoveKey))
  /\ UNCHANGED << tables, mutex_, event, apps >>

RemoveNoLock ==   \* mutant: the tables are changed without the lock
  /\ Goto("remove_lock", "remove_reverse")
  /\ UNCHANGED << tables, mutex_, event, apps >>

RemoveLock ==
  /\ Goto("remove_lock", "remove_reverse")
  /\ Acquire(Epoll)
  /\ UNCHANGED << tables, event, apps >>

RemoveReverseByProduct ==   \* mutant: erases under the wrong key
  /\ Goto("remove_reverse", "remove_list")
  /\ reverse_socket_list_' = [f \in Fds |->
       IF f = RemoveKey THEN Absent ELSE reverse_socket_list_[f]]
  /\ UNCHANGED << socket_list_, mutex_, event, apps >>

RemoveReverse ==
  /\ Goto("remove_reverse", "remove_list")
  /\ reverse_socket_list_' = [f \in Fds |->
       IF f = socket_list_[RemoveKey] THEN Absent ELSE reverse_socket_list_[f]]
  /\ UNCHANGED << socket_list_, mutex_, event, apps >>

RemoveList ==
  /\ Goto("remove_list", "idle")
  /\ socket_list_' = [socket_list_ EXCEPT ![RemoveKey] = Absent]
  /\ Release(Epoll)
  /\ UNCHANGED << reverse_socket_list_, event, apps >>

EpollStep ==
  \/ \E f \in Fds : Receive(f) \/ Disconnect(f)
  \/ GetSocketFdSize
  \/ GetProductCode \/ GetProductCodeLock \/ GetProductCodeRead
  \/ AddCount \/ AddLock \/ AddReverse \/ AddList
  \/ RemoveCount \/ RemoveLock \/ RemoveReverse \/ RemoveList

-----------------------------------------------------------------------------
(* Application threads.                                                    *)

AppGoto(a, from, to) == app_pc[a] = from /\ app_pc' = [app_pc EXCEPT ![a] = to]

\* SendMessage(.., product_code) calls GetSocketFd.
SendMessage(a) ==
  /\ AppGoto(a, "idle", "count")
  /\ \E p \in Products : app_key' = [app_key EXCEPT ![a] = p]
  /\ UNCHANGED << tables, mutex_, pc, event, result >>

GetSocketFdCount(a) ==
  /\ \/ AppGoto(a, "count", "lock") /\ Exists(app_key[a])
     \/ AppGoto(a, "count", "idle") /\ ~Exists(app_key[a])
  /\ UNCHANGED << tables, mutex_, pc, event, app_key, result >>

GetSocketFdLock(a) ==
  /\ AppGoto(a, "lock", "read")
  /\ Acquire(a)
  /\ UNCHANGED << tables, pc, event, app_key, result >>

\* socket_list_[product_code]: operator[] inserts a missing key.
GetSocketFdRead(a) ==
  /\ AppGoto(a, "read", "returned")
  /\ socket_list_' = [socket_list_ EXCEPT ![app_key[a]] =
                         IF @ = Absent THEN NullFd ELSE @]
  /\ result' = [result EXCEPT ![a] = socket_list_'[app_key[a]]]
  /\ Release(a)
  /\ UNCHANGED << reverse_socket_list_, pc, event, app_key >>

Return(a) ==
  /\ AppGoto(a, "returned", "idle")
  /\ result' = [result EXCEPT ![a] = Absent]
  /\ UNCHANGED << tables, mutex_, pc, event, app_key >>

AppStep(a) ==
  \/ SendMessage(a)
  \/ GetSocketFdCount(a) \/ GetSocketFdLock(a) \/ GetSocketFdRead(a)
  \/ Return(a)

Next == EpollStep \/ \E a \in Apps : AppStep(a)

Spec == Init /\ [][Next]_vars

-----------------------------------------------------------------------------
(* Properties.                                                             *)

\* Outside Add and Remove every reverse entry is matched by its session, so
\* a descriptor GetProductCode identifies (64-72) is the one the product is
\* sent to, also when lookups insert entries of their own.
ReverseSound ==
  mutex_ # Epoll =>
    \A f \in Fds : LET p == reverse_socket_list_[f]
                   IN  p # Absent => socket_list_[p] = f

\* Add and Remove test count() before they lock (23, 50).  What they found
\* still holds when they act, although other threads insert in between: Add
\* overwrites no session and Remove finds the entry it erases.
CheckThenAct ==
  /\ pc \in {"add_lock", "add_reverse", "add_list"} =>
       socket_list_[product_code[client_fd]] \in {Absent, NullFd}
  /\ pc \in {"remove_lock", "remove_reverse", "remove_list"} =>
       Exists(RemoveKey)

\* The size and the reverse table are read in separate calls without a lock
\* (EpollHandler 151-152); still no two products have a session at once.
AtMostOneSession ==
  \A p, q \in Products :
    socket_list_[p] \in Fds /\ socket_list_[q] \in Fds => p = q

\* GetSocketFd never returns the descriptor of a session that is only half
\* entered or half removed.
LookupWhole ==
  [][\A a \in Apps :
       result'[a] # result[a] /\ result'[a] \in Fds =>
         reverse_socket_list_[result'[a]] = app_key[a]]_vars

\* "/*product, socket_fd*/" (UnixDomainSocketSessionManager.h:30): what
\* socket_list_ maps a product to is the descriptor of a socket.
EverySessionHasSocket ==
  \A p \in Products : Exists(p) => socket_list_[p] \in Fds
=============================================================================
