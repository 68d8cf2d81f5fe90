------------------------- MODULE WaitingSend_proofs -------------------------
(***************************************************************************)
(* Theorems about WaitingSend, for every number of threads, calls, polls   *)
(* and messages of the client.                                             *)
(*                                                                         *)
(* The types hold for threads that call as they like.  The rest holds when *)
(* the application makes one call at a time, as it must: message_id, which *)
(* all threads share, is read again and again during a call.  Nothing is   *)
(* assumed of the ids of the client: it counts from 1, as the server does. *)
(***************************************************************************)
EXTENDS WaitingSend, SequenceTheorems, FiniteSetTheorems, TLAPS

\* The threads take turns: a call ends before another begins.
OneCallAtATime ==
  \A s, t \in Callers : pc[s] # "idle" /\ pc[t] # "idle" => s = t

-----------------------------------------------------------------------------
(* The inductive invariants.                                               *)

AllCalls == Callers \X (1..MaxCalls)

\* The calls that took their id, or ended without one.
Numbered ==
  {c \in AllCalls : \/ c[2] < calls[c[1]]
                    \/ c[2] = calls[c[1]] /\ pc[c[1]] \notin {"lookup", "load", "store"}}

\* No id is ahead of the number of calls that took one.
IdsCounted ==
  /\ message_id <= Cardinality(Numbered)
  /\ \A t \in Callers : pc[t] = "store" => send_id[t] <= Cardinality(Numbered) + 1
  /\ \A t \in Callers : pc[t] # "idle" => calls[t] > 0

\* The call under way is the one that message_id speaks of.
Sent     == {"poll", "fetch", "erase"}
HasId    == {"await", "write"} \cup Sent
OneId ==
  \A t \in Callers : /\ pc[t] = "store" => send_id[t] = message_id + 1
                     /\ pc[t] \in HasId => send_id[t] = message_id
                     /\ pc[t] \in {"await"} \cup Sent => waits[t]

\* A message that is looked at is one; what is fetched is there.
NothingNull ==
  /\ matched => handled # Idle
  /\ \A t \in Callers : pc[t] = "fetch" => need_response_message_[message_id] # Nothing
  /\ alive

Elements(s) == {s[k] : k \in 1..Len(s)}

\* The messages of the server, and the answers to them: under the id of the call
\* that is under way there is only that call.
Asked ==
  {m \in Messages :
     /\ m.says \in AllCalls
     /\ m.id <= message_id
     /\ m.says[2] <= calls[m.says[1]]
     /\ \A t \in Callers : pc[t] \in HasId /\ m.id = message_id =>
                            pc[t] \in Sent /\ m.says = << t, calls[t] >>}

\* The messages of the client: answers, and those of its own, as many as it sent,
\* each under the id it counts.
Told ==
  {m \in Messages : \/ m.id \in 1..client_id /\ m.says = << Client, m.id >>
                    \/ m \in Asked /\ m.says \in answered}

Traced ==
  /\ Elements(to_client) \subseteq Asked
  /\ Elements(to_server) \subseteq Told
  /\ handled \in Told \cup {Idle}
  /\ \A i \in Ids : need_response_message_[i] # Nothing =>
                     [id |-> i, says |-> need_response_message_[i]] \in Told

\* What a call may return that is not nothing: the answer to its message, or the
\* message that the client sent by itself under the same id.
Answers(t) ==
  (answered \cap {<< t, calls[t] >>}) \cup ({Client} \X ((1..client_id) \cap {send_id[t]}))

Results ==
  \A t \in Callers :
    /\ result[t] # Nothing => result[t] \in Answers(t)
    /\ pc[t] \notin {"erase", "idle"} => result[t] = Nothing

-----------------------------------------------------------------------------
(* Types, and the ids counted.                                             *)

USE CallerAssumption, BoundAssumption

LEMMA Counts ==
  /\ IsFiniteSet(AllCalls)
  /\ MaxCalls * Cardinality(Callers) \in Nat
  /\ Cardinality(AllCalls) = MaxCalls * Cardinality(Callers)
<1>1. IsFiniteSet(1..MaxCalls) /\ Cardinality(1..MaxCalls) = MaxCalls
  BY FS_Interval
<1>2. Cardinality(Callers) \in Nat
  BY FS_CardinalityType
<1>3. IsFiniteSet(AllCalls) /\ Cardinality(AllCalls) = Cardinality(Callers) * MaxCalls
  BY <1>1, FS_Product DEF AllCalls
<1> QED
  BY <1>2, <1>3

LEMMA IdFacts ==
  /\ MaxOwn \in Nat
  /\ \A i : i \in Ids <=> i \in Nat /\ i <= Cardinality(AllCalls) + MaxOwn
  /\ Cardinality(AllCalls) \in Nat
  BY Counts DEF Ids

LEMMA SaysFacts ==
  /\ Nothing \notin Says
  /\ \A t \in Callers, n \in 1..MaxCalls : << t, n >> \in Says
  /\ \A n \in 1..MaxOwn : << Client, n >> \in Says
  /\ AllCalls \subseteq Says
  /\ \A s \in Says : s[1] = Client <=> s \notin AllCalls
  BY IdFacts DEF Nothing, Says, AllCalls

LEMMA NumberedFacts ==
  /\ IsFiniteSet(Numbered)
  /\ Cardinality(Numbered) \in Nat
  /\ Cardinality(Numbered) <= Cardinality(AllCalls)
<1>1. Numbered \in SUBSET AllCalls
  BY DEF Numbered
<1>2. IsFiniteSet(Numbered) /\ Cardinality(Numbered) <= Cardinality(AllCalls)
  BY <1>1, Counts, FS_Subset
<1> QED
  BY <1>2, FS_CardinalityType

\* Where a thread's place stays on one side of its id, the count stays.
LEMMA CountStays ==
  ASSUME \A t \in Callers :
           /\ calls'[t] = calls[t]
           /\ pc'[t] \in {"lookup", "load", "store"} <=> pc[t] \in {"lookup", "load", "store"}
  PROVE  Numbered' = Numbered
  BY DEF Numbered, AllCalls

\* A call that takes its id, or ends without one, is one more.
LEMMA CountGrows ==
  ASSUME TypeOK, NEW t \in Callers, calls' = calls, calls[t] > 0,
         pc[t] \in {"lookup", "load", "store"},
         NEW place \in PCs \ {"lookup", "load", "store"}, pc' = [pc EXCEPT ![t] = place]
  PROVE  /\ Cardinality(Numbered') = Cardinality(Numbered) + 1
         /\ Cardinality(Numbered) < Cardinality(AllCalls)
<1>1. << t, calls[t] >> \in AllCalls /\ << t, calls[t] >> \notin Numbered
  BY DEF TypeOK, AllCalls, Numbered
<1>2. Numbered' = Numbered \cup {<< t, calls[t] >>}
  <2>1. pc \in [Callers -> PCs] /\ calls \in [Callers -> 0..MaxCalls]
    BY DEF TypeOK
  <2>2. \A c \in AllCalls : c[1] \in Callers /\ c[2] \in 1..MaxCalls /\ c = << c[1], c[2] >>
    BY DEF AllCalls
  <2>3. ASSUME NEW c \in AllCalls, c # << t, calls[t] >>
        PROVE  c \in Numbered' <=> c \in Numbered
    <3>1. CASE c[1] = t
      BY <2>1, <2>2, <2>3, <3>1 DEF Numbered
    <3>2. CASE c[1] # t
      BY <2>1, <2>2, <2>3, <3>2 DEF Numbered
    <3> QED
      BY <3>1, <3>2
  <2>4. << t, calls[t] >> \in Numbered'
    BY <1>1, <2>1 DEF Numbered
  <2>5. Numbered \subseteq AllCalls /\ Numbered' \subseteq AllCalls
    BY DEF Numbered
  <2> QED
    BY <1>1, <2>3, <2>4, <2>5
<1>3. Cardinality(Numbered') = Cardinality(Numbered) + 1
  BY <1>1, <1>2, NumberedFacts, FS_AddElement
<1>4. Numbered' \in SUBSET AllCalls
  BY DEF Numbered
<1>5. Cardinality(Numbered') <= Cardinality(AllCalls)
  BY <1>4, Counts, FS_Subset
<1> QED
  BY <1>3, <1>5, NumberedFacts, IdFacts

\* What is left of a connection after a read is part of what was on it.
LEMMA RestOfSeq ==
  ASSUME NEW S, NEW s \in Seq(S), NEW k \in 1..Len(s)
  PROVE  /\ SubSeq(s, k + 1, Len(s)) \in Seq(S)
         /\ Elements(SubSeq(s, k + 1, Len(s))) \subseteq Elements(s)
<1>1. Len(s) \in Nat /\ \A i \in 1..Len(s) : s[i] \in S
  BY LenProperties, ElementOfSeq
<1> DEFINE r == SubSeq(s, k + 1, Len(s))
<1>2. /\ r \in Seq(S)
      /\ Len(r) = IF k + 1 <= Len(s) THEN Len(s) - (k + 1) + 1 ELSE 0
      /\ \A i \in 1..(Len(s) - (k + 1) + 1) : r[i] = s[(k + 1) + i - 1]
  <2>1. \A i \in (k + 1)..Len(s) : s[i] \in S
    BY <1>1
  <2> QED
    BY <1>1, <2>1, SubSeqProperties
<1>3. \A i \in 1..Len(r) : r[i] = s[k + i] /\ k + i \in 1..Len(s)
  BY <1>1, <1>2
<1> HIDE DEF r
<1>4. Elements(r) \subseteq Elements(s)
  BY <1>1, <1>3 DEF Elements
<1> QED
  BY <1>2, <1>4 DEF r

LEMMA HeadTail ==
  ASSUME NEW S, NEW s \in Seq(S), s # << >>
  PROVE  /\ Head(s) \in S /\ Head(s) \in Elements(s)
         /\ Tail(s) \in Seq(S) /\ Elements(Tail(s)) \subseteq Elements(s)
<1>1. /\ Head(s) \in S /\ Tail(s) \in Seq(S) /\ Len(Tail(s)) = Len(s) - 1
      /\ \A i \in 1..Len(Tail(s)) : Tail(s)[i] = s[i + 1]
  BY HeadTailProperties
<1>2. Len(s) \in Nat /\ Len(s) > 0 /\ Head(s) = s[1]
  BY LenProperties, EmptySeq
<1> QED
  BY <1>1, <1>2 DEF Elements

LEMMA Appended ==
  ASSUME NEW S, NEW s \in Seq(S), NEW e \in S
  PROVE  /\ Append(s, e) \in Seq(S)
         /\ Elements(Append(s, e)) = Elements(s) \cup {e}
<1>1. /\ Append(s, e) \in Seq(S)
      /\ Len(Append(s, e)) = Len(s) + 1
      /\ \A i \in 1..Len(s) : Append(s, e)[i] = s[i]
      /\ Append(s, e)[Len(s) + 1] = e
  BY AppendProperties
<1>2. Len(s) \in Nat
  BY LenProperties
<1> QED
  BY <1>1, <1>2 DEF Elements

LEMMA ElementsTyped ==
  ASSUME NEW S, NEW s \in Seq(S)
  PROVE  Elements(s) \subseteq S
  BY ElementOfSeq DEF Elements

LEMMA InitTyped == Init => TypeOK /\ IdsCounted
<1> SUFFICES ASSUME Init PROVE TypeOK /\ IdsCounted
  OBVIOUS
<1>1. 0 \in Ids /\ "idle" \in PCs
  BY IdFacts DEF PCs
<1>2. /\ message_id \in Ids /\ response_msg_id \subseteq Ids
      /\ need_response_message_ \in [Ids -> Says \cup {Nothing}]
      /\ alive \in BOOLEAN /\ matched \in BOOLEAN
  BY <1>1 DEF Init
<1>3. /\ pc \in [Callers -> PCs] /\ waits \in [Callers -> BOOLEAN]
      /\ wait_time \in [Callers -> 0..MaxWait] /\ send_id \in [Callers -> Ids]
      /\ result \in [Callers -> Says \cup {Nothing}] /\ calls \in [Callers -> 0..MaxCalls]
  BY <1>1 DEF Init
<1>4. /\ to_client \in Seq(Messages) /\ to_server \in Seq(Messages)
      /\ client_id \in 0..MaxOwn
  BY EmptySeq, IdFacts DEF Init
<1>5. handled \in Messages \cup {Idle} /\ answered \subseteq Callers \X (1..MaxCalls)
  BY DEF Init
<1>6. IdsCounted
  BY NumberedFacts DEF Init, IdsCounted
<1> QED
  BY <1>2, <1>3, <1>4, <1>5, <1>6 DEF TypeOK

\* The count where a step moves the thread t from one place to another.
LEMMA Moves ==
  ASSUME TypeOK, NEW t \in Callers, NEW from, NEW to \in PCs, Goto(t, from, to)
  PROVE  /\ pc[t] = from /\ pc' = [pc EXCEPT ![t] = to]
         /\ pc' \in [Callers -> PCs] /\ pc'[t] = to
         /\ \A u \in Callers : u # t => pc'[u] = pc[u]
  BY DEF Goto, TypeOK

\* A step of a call that is before, or behind, StoreId.
LEMMA CountsKept ==
  ASSUME TypeOK, IdsCounted, NEW t \in Callers, NEW from, NEW to \in PCs,
         Goto(t, from, to), from # "idle", calls' = calls, message_id' = message_id,
         from \in {"lookup", "load", "store"} <=> to \in {"lookup", "load", "store"},
         \A u \in Callers : pc'[u] = "store" => send_id'[u] = send_id[u] /\ pc[u] = "store"
  PROVE  IdsCounted'
<1>1. /\ pc[t] = from /\ pc'[t] = to
      /\ \A u \in Callers : u # t => pc'[u] = pc[u]
  BY Moves
<1>2. Numbered' = Numbered
  BY <1>1, CountStays
<1> QED
  BY <1>1, <1>2 DEF IdsCounted

LEMMA PlacesNamed ==
  \A p \in {"idle", "lookup", "load", "store", "await", "write", "poll", "fetch", "erase"} :
    p \in PCs
  BY DEF PCs

LEMMA SendMessageTyped ==
  ASSUME TypeOK, IdsCounted, NEW t \in Callers, SendMessage(t)
  PROVE  TypeOK' /\ IdsCounted'
<1>1. /\ pc[t] = "idle" /\ pc' \in [Callers -> PCs] /\ pc'[t] = "lookup"
      /\ \A u \in Callers : u # t => pc'[u] = pc[u]
  BY Moves, PlacesNamed DEF SendMessage
<1>2. /\ waits' \in [Callers -> BOOLEAN] /\ wait_time' \in [Callers -> 0..MaxWait]
      /\ result' \in [Callers -> Says \cup {Nothing}]
  <2>1. \A w \in 0..MaxWait : [wait_time EXCEPT ![t] = w] \in [Callers -> 0..MaxWait]
    BY DEF TypeOK
  <2>2. wait_time' \in [Callers -> 0..MaxWait]
    BY <2>1, Zenon DEF SendMessage, TypeOK
  <2>3. result' \in [Callers -> Says \cup {Nothing}] /\ waits' \in [Callers -> BOOLEAN]
    BY DEF SendMessage, TypeOK
  <2> QED
    BY <2>2, <2>3
<1>3. /\ calls' \in [Callers -> 0..MaxCalls] /\ calls'[t] = calls[t] + 1
      /\ \A u \in Callers : u # t => calls'[u] = calls[u]
  BY DEF SendMessage, TypeOK
<1>4. TypeOK'
  BY <1>1, <1>2, <1>3 DEF SendMessage, TypeOK, members, epoll, clientVars
<1>5. Numbered' = Numbered
  <2>1. calls[t] \in 0..MaxCalls
    BY DEF TypeOK
  <2>2. ASSUME NEW c \in AllCalls PROVE c \in Numbered' <=> c \in Numbered
    <3>1. c[1] \in Callers /\ c[2] \in 1..MaxCalls
      BY DEF AllCalls
    <3>2. CASE c[1] = t
      BY <1>1, <1>3, <2>1, <3>1, <3>2 DEF Numbered
    <3>3. CASE c[1] # t
      BY <1>1, <1>3, <3>1, <3>3 DEF Numbered
    <3> QED
      BY <3>2, <3>3
  <2> QED
    BY <2>2 DEF Numbered
<1>6. IdsCounted'
  <2>1. message_id' = message_id /\ send_id' = send_id /\ calls[t] \in Nat
    BY DEF SendMessage, members, TypeOK
  <2> QED
    BY <1>1, <1>3, <1>5, <2>1 DEF IdsCounted
<1> QED
  BY <1>4, <1>6

LEMMA GetSocketFdTyped ==
  ASSUME TypeOK, IdsCounted, NEW t \in Callers, GetSocketFd(t)
  PROVE  TypeOK' /\ IdsCounted'
<1>1. PICK to \in {"load", "idle"} : Goto(t, "lookup", to)
  BY DEF GetSocketFd
<1>2. /\ pc[t] = "lookup" /\ pc' = [pc EXCEPT ![t] = to] /\ pc' \in [Callers -> PCs]
      /\ pc'[t] = to /\ \A u \in Callers : u # t => pc'[u] = pc[u]
  BY <1>1, Moves, PlacesNamed
<1>3. calls' = calls /\ message_id' = message_id /\ send_id' = send_id
  BY DEF GetSocketFd, request, members
<1>4. TypeOK'
  BY <1>2 DEF GetSocketFd, TypeOK, members, request, epoll, clientVars
<1>5. CASE to = "load"
  <2>1. IdsCounted'
    BY <1>1, <1>2, <1>3, <1>5, CountsKept, PlacesNamed
  <2> QED
    BY <1>4, <2>1
<1>6. CASE to = "idle"
  <2>1. calls[t] > 0
    BY <1>2 DEF IdsCounted
  <2>2. Cardinality(Numbered') = Cardinality(Numbered) + 1
    BY <1>2, <1>3, <1>6, <2>1, CountGrows, PlacesNamed
  <2>3. message_id \in Nat /\ send_id \in [Callers -> Nat]
    BY IdFacts DEF TypeOK
  <2>4. \A u \in Callers : pc'[u] # "idle" => calls'[u] > 0
    BY <1>2, <1>3, <1>6 DEF IdsCounted
  <2>5. message_id' <= Cardinality(Numbered')
    BY <1>3, <2>2, <2>3, NumberedFacts DEF IdsCounted
  <2>6. \A u \in Callers : pc'[u] = "store" => send_id'[u] <= Cardinality(Numbered') + 1
    <3> SUFFICES ASSUME NEW u \in Callers, pc'[u] = "store"
                 PROVE  send_id[u] <= Cardinality(Numbered) + 2
      BY <1>3, <2>2, NumberedFacts
    <3>1. pc[u] = "store"
      BY <1>2, <1>6
    <3>2. send_id[u] <= Cardinality(Numbered) + 1
      BY <3>1 DEF IdsCounted
    <3> QED
      BY <2>3, <3>2, NumberedFacts
  <2>7. IdsCounted'
    BY <2>4, <2>5, <2>6 DEF IdsCounted
  <2> QED
    BY <1>4, <2>7
<1> QED
  BY <1>1, <1>5, <1>6

LEMMA LoadIdTyped ==
  ASSUME TypeOK, IdsCounted, NEW t \in Callers, LoadId(t)
  PROVE  TypeOK' /\ IdsCounted'
<1>1. /\ pc[t] = "load" /\ pc' = [pc EXCEPT ![t] = "store"] /\ pc' \in [Callers -> PCs]
      /\ pc'[t] = "store" /\ \A u \in Callers : u # t => pc'[u] = pc[u]
  BY Moves, PlacesNamed DEF LoadId
<1>2. message_id \in Nat /\ message_id <= Cardinality(Numbered)
  BY IdFacts DEF IdsCounted, TypeOK
<1>3. Cardinality(Numbered) < Cardinality(AllCalls)
  <2>1. calls[t] \in 1..MaxCalls
    <3>1. calls[t] \in 0..MaxCalls
      BY DEF TypeOK
    <3>2. calls[t] > 0
      BY <1>1 DEF IdsCounted
    <3> QED
      BY <3>1, <3>2
  <2>2. << t, calls[t] >> \in AllCalls /\ << t, calls[t] >> \notin Numbered
    BY <1>1, <2>1 DEF AllCalls, Numbered
  <2>3. Numbered \in SUBSET AllCalls
    BY DEF Numbered
  <2>4. Cardinality(Numbered) # Cardinality(AllCalls)
    BY <2>2, <2>3, Counts, FS_Subset
  <2> QED
    BY <2>4, NumberedFacts, IdFacts
<1>4. message_id + 1 \in Ids
  BY <1>2, <1>3, IdFacts, NumberedFacts
<1>5. /\ send_id' \in [Callers -> Ids] /\ send_id'[t] = message_id + 1
      /\ \A u \in Callers : u # t => send_id'[u] = send_id[u]
  BY <1>4 DEF LoadId, NextId, TypeOK
<1>6. TypeOK'
  BY <1>1, <1>5 DEF LoadId, TypeOK, members, epoll, clientVars
<1>7. Numbered' = Numbered /\ calls' = calls /\ message_id' = message_id
  BY <1>1, CountStays DEF LoadId, members
<1>8. IdsCounted'
  <2>1. send_id'[t] <= Cardinality(Numbered) + 1
    BY <1>2, <1>5, NumberedFacts
  <2> QED
    BY <1>1, <1>5, <1>7, <2>1 DEF IdsCounted
<1> QED
  BY <1>6, <1>8

LEMMA StoreIdTyped ==
  ASSUME TypeOK, IdsCounted, NEW t \in Callers, StoreId(t)
  PROVE  TypeOK' /\ IdsCounted'
<1>1. PICK to \in {"await", "write"} : Goto(t, "store", to)
  BY DEF StoreId
<1>2. /\ pc[t] = "store" /\ pc' = [pc EXCEPT ![t] = to] /\ pc' \in [Callers -> PCs]
      /\ pc'[t] = to /\ \A u \in Callers : u # t => pc'[u] = pc[u]
  BY <1>1, Moves, PlacesNamed
<1>3. calls' = calls /\ send_id' = send_id /\ message_id' = send_id[t]
  BY DEF StoreId, request
<1>4. TypeOK'
  BY <1>2, <1>3 DEF StoreId, TypeOK, request, epoll, clientVars
<1>5. Cardinality(Numbered') = Cardinality(Numbered) + 1
  BY <1>2, <1>3, CountGrows, PlacesNamed DEF IdsCounted
<1>6. send_id \in [Callers -> Nat]
  BY IdFacts DEF TypeOK
<1>7. IdsCounted'
  <2>1. send_id[t] <= Cardinality(Numbered) + 1
    BY <1>2 DEF IdsCounted
  <2>2. \A u \in Callers : pc'[u] = "store" => send_id[u] <= Cardinality(Numbered) + 2
    <3> SUFFICES ASSUME NEW u \in Callers, pc'[u] = "store"
                 PROVE  send_id[u] <= Cardinality(Numbered) + 2
      OBVIOUS
    <3>1. pc[u] = "store"
      BY <1>1, <1>2
    <3>2. send_id[u] <= Cardinality(Numbered) + 1
      BY <3>1 DEF IdsCounted
    <3> QED
      BY <1>6, <3>2, NumberedFacts
  <2>3. \A u \in Callers : pc'[u] # "idle" => calls[u] > 0
    BY <1>2 DEF IdsCounted
  <2> QED
    BY <1>3, <1>5, <2>1, <2>2, <2>3, NumberedFacts DEF IdsCounted
<1> QED
  BY <1>4, <1>7

LEMMA AwaitResponseTyped ==
  ASSUME TypeOK, IdsCounted, NEW t \in Callers, AwaitResponse(t)
  PROVE  TypeOK' /\ IdsCounted'
<1>1. /\ pc' \in [Callers -> PCs] /\ pc'[t] = "write"
      /\ \A u \in Callers : u # t => pc'[u] = pc[u]
  BY Moves, PlacesNamed DEF AwaitResponse
<1>2. response_msg_id' \subseteq Ids
  BY DEF AwaitResponse, TypeOK
<1>3. TypeOK'
  BY <1>1, <1>2 DEF AwaitResponse, TypeOK, request, epoll, clientVars
<1>4. calls' = calls /\ message_id' = message_id /\ send_id' = send_id
  BY DEF AwaitResponse, request
<1>5. Goto(t, "await", "write")
  BY DEF AwaitResponse
<1>6. IdsCounted'
  BY <1>1, <1>4, <1>5, CountsKept, PlacesNamed
<1> QED
  BY <1>3, <1>6

LEMMA WriteMessageTyped ==
  ASSUME TypeOK, IdsCounted, NEW t \in Callers, WriteMessage(t)
  PROVE  TypeOK' /\ IdsCounted'
<1>1. PICK to \in {"poll", "idle"} : Goto(t, "write", to)
  BY DEF WriteMessage
<1>2. /\ pc[t] = "write" /\ pc' \in [Callers -> PCs] /\ pc'[t] = to
      /\ \A u \in Callers : u # t => pc'[u] = pc[u]
  BY <1>1, Moves, PlacesNamed
<1>3. [id |-> send_id[t], says |-> << t, calls[t] >>] \in Messages
  <2>1. send_id[t] \in Ids /\ calls[t] \in 0..MaxCalls
    BY DEF TypeOK
  <2>2. calls[t] > 0
    BY <1>2 DEF IdsCounted
  <2>3. << t, calls[t] >> \in Says
    BY <2>1, <2>2, SaysFacts
  <2> QED
    BY <2>1, <2>3 DEF Messages
<1>4. to_client' \in Seq(Messages)
  BY <1>3, Appended DEF WriteMessage, TypeOK
<1>5. TypeOK'
  BY <1>2, <1>4 DEF WriteMessage, TypeOK, members, request, epoll, clientVars
<1>6. calls' = calls /\ message_id' = message_id /\ send_id' = send_id
  BY DEF WriteMessage, request, members
<1>7. IdsCounted'
  BY <1>1, <1>2, <1>6, CountsKept, PlacesNamed
<1> QED
  BY <1>5, <1>7

LEMMA PollTyped ==
  ASSUME TypeOK, IdsCounted, NEW t \in Callers, Poll(t)
  PROVE  TypeOK' /\ IdsCounted'
<1>1. PICK to \in {"erase", "fetch", "poll"} : Goto(t, "poll", to)
  BY DEF Poll
<1>2. /\ pc' \in [Callers -> PCs] /\ pc'[t] = to
      /\ \A u \in Callers : u # t => pc'[u] = pc[u]
  BY <1>1, Moves, PlacesNamed
<1>3. wait_time' \in [Callers -> 0..MaxWait]
  <2>1. wait_time[t] \in 0..MaxWait
    BY DEF TypeOK
  <2>2. TimeLeft(t) => wait_time[t] - 1 \in 0..MaxWait
    BY <2>1 DEF TimeLeft
  <2> QED
    BY <2>2 DEF Poll, TypeOK
<1>4. TypeOK'
  BY <1>2, <1>3 DEF Poll, TypeOK, members, request, epoll, clientVars
<1>5. calls' = calls /\ message_id' = message_id /\ send_id' = send_id
  BY DEF Poll, request, members
<1>6. IdsCounted'
  BY <1>1, <1>2, <1>5, CountsKept, PlacesNamed
<1> QED
  BY <1>4, <1>6

LEMMA FetchTyped ==
  ASSUME TypeOK, IdsCounted, NEW t \in Callers, Fetch(t)
  PROVE  TypeOK' /\ IdsCounted'
<1>1. Goto(t, "fetch", "erase")
  BY DEF Fetch
<1>2. /\ pc' \in [Callers -> PCs] /\ pc'[t] = "erase"
      /\ \A u \in Callers : u # t => pc'[u] = pc[u]
  BY <1>1, Moves, PlacesNamed
<1>3. result' \in [Callers -> Says \cup {Nothing}] /\ alive' \in BOOLEAN
  BY DEF Fetch, TypeOK
<1>4. TypeOK'
  BY <1>2, <1>3 DEF Fetch, TypeOK, members, request, epoll, clientVars
<1>5. calls' = calls /\ message_id' = message_id /\ send_id' = send_id
  BY DEF Fetch, request, members
<1>6. IdsCounted'
  BY <1>1, <1>2, <1>5, CountsKept, PlacesNamed
<1> QED
  BY <1>4, <1>6

LEMMA EraseTyped ==
  ASSUME TypeOK, IdsCounted, NEW t \in Callers, Erase(t)
  PROVE  TypeOK' /\ IdsCounted'
<1>1. Goto(t, "erase", "idle")
  BY DEF Erase
<1>2. /\ pc' \in [Callers -> PCs] /\ pc'[t] = "idle"
      /\ \A u \in Callers : u # t => pc'[u] = pc[u]
  BY <1>1, Moves, PlacesNamed
<1>3. TypeOK'
  BY <1>2 DEF Erase, Erased, TypeOK, request, epoll, clientVars
<1>4. calls' = calls /\ message_id' = message_id /\ send_id' = send_id
  BY DEF Erase, request
<1>5. IdsCounted'
  BY <1>1, <1>2, <1>4, CountsKept, PlacesNamed
<1> QED
  BY <1>3, <1>5

\* What the epoll thread and the client do leaves the callers alone.
callers == << message_id, pc, waits, wait_time, send_id, result, calls >>

LEMMA OthersCount ==
  ASSUME IdsCounted, UNCHANGED callers
  PROVE  IdsCounted'
<1>1. Numbered' = Numbered
  BY DEF callers, Numbered
<1> QED
  BY <1>1 DEF callers, IdsCounted

LEMMA EpollTyped ==
  ASSUME TypeOK, IdsCounted, Receive \/ Match \/ File
  PROVE  TypeOK' /\ IdsCounted' /\ UNCHANGED callers
<1>1. UNCHANGED callers
  BY DEF Receive, Match, File, callers, members, request
<1>2. IdsCounted'
  BY <1>1, OthersCount
<1>3. CASE Receive
  <2>1. /\ to_server' \in Seq(Messages)
        /\ handled' \in Messages \cup {Idle}
    <3>1. to_server \in Seq(Messages) /\ handled \in Messages \cup {Idle}
      BY DEF TypeOK
    <3>2. CASE to_server # << >> /\ handled' = Head(to_server) /\ to_server' = Tail(to_server)
      BY <3>1, <3>2, HeadTail
    <3>3. CASE /\ \E k \in 2..Len(to_server) :
                    to_server' = SubSeq(to_server, k + 1, Len(to_server))
               /\ UNCHANGED handled
      <4>1. PICK k \in 2..Len(to_server) :
                   to_server' = SubSeq(to_server, k + 1, Len(to_server))
        BY <3>3
      <4>2. k \in 1..Len(to_server)
        BY <3>1, LenProperties
      <4> QED
        BY <3>1, <3>3, <4>1, <4>2, RestOfSeq
    <3> QED
      BY <1>3, <3>2, <3>3 DEF Receive
  <2>2. TypeOK'
    BY <1>3, <2>1 DEF Receive, TypeOK, members, request, clientVars
  <2> QED
    BY <1>1, <1>2, <2>2
<1>4. CASE Match
  <2>1. TypeOK'
    BY <1>4 DEF Match, TypeOK, members, request, clientVars
  <2> QED
    BY <1>1, <1>2, <2>1
<1>5. CASE File
  <2>1. handled.says \in Says \cup {Nothing}
    BY DEF TypeOK, Messages, Idle
  <2>2. need_response_message_' \in [Ids -> Says \cup {Nothing}]
    BY <1>5, <2>1 DEF File, TypeOK
  <2>3. TypeOK'
    BY <1>5, <2>2 DEF File, TypeOK, request, clientVars
  <2> QED
    BY <1>1, <1>2, <2>3
<1> QED
  BY <1>3, <1>4, <1>5

\* The messages that reach the client are calls of the server's threads.
OnlyCalls == \A m \in Elements(to_client) : m.says \in AllCalls

LEMMA ClientReceiveTyped ==
  ASSUME TypeOK, IdsCounted, OnlyCalls, ClientReceive
  PROVE  TypeOK' /\ IdsCounted' /\ OnlyCalls' /\ UNCHANGED callers
<1>1. UNCHANGED callers
  BY DEF ClientReceive, callers, members, request
<1>2. IdsCounted'
  BY <1>1, OthersCount
<1>3. to_client \in Seq(Messages) /\ to_server \in Seq(Messages) /\ answered \subseteq AllCalls
  BY DEF TypeOK, AllCalls
<1>4. /\ to_client' \in Seq(Messages) /\ to_server' \in Seq(Messages)
      /\ Elements(to_client') \subseteq Elements(to_client)
      /\ answered' \subseteq AllCalls
  <2>1. CASE /\ \E k \in 1..Len(to_client) :
                  to_client' = SubSeq(to_client, k + 1, Len(to_client))
             /\ UNCHANGED << to_server, answered >>
    BY <1>3, <2>1, RestOfSeq
  <2>2. CASE /\ to_client # << >> /\ to_client' = Tail(to_client)
             /\ to_server' = Append(to_server, Head(to_client))
             /\ answered' = answered \cup {Head(to_client).says}
    <3>1. /\ Head(to_client) \in Messages /\ Head(to_client) \in Elements(to_client)
          /\ Tail(to_client) \in Seq(Messages)
          /\ Elements(Tail(to_client)) \subseteq Elements(to_client)
      BY <1>3, <2>2, HeadTail
    <3>2. to_server' \in Seq(Messages)
      BY <1>3, <2>2, <3>1, Appended
    <3>3. Head(to_client).says \in AllCalls
      BY <3>1 DEF OnlyCalls
    <3> QED
      BY <1>3, <2>2, <3>1, <3>2, <3>3
  <2> QED
    BY <2>1, <2>2 DEF ClientReceive
<1>5. TypeOK'
  BY <1>4 DEF ClientReceive, TypeOK, members, request, AllCalls
<1>6. OnlyCalls'
  BY <1>4 DEF OnlyCalls
<1> QED
  BY <1>1, <1>2, <1>5, <1>6

LEMMA ClientSendTyped ==
  ASSUME TypeOK, IdsCounted, ClientSend
  PROVE  /\ TypeOK' /\ IdsCounted' /\ UNCHANGED callers /\ UNCHANGED to_client
         /\ Elements(to_server') =
              Elements(to_server) \cup {[id |-> client_id', says |-> << Client, client_id' >>]}
<1>1. UNCHANGED callers /\ UNCHANGED to_client
  BY DEF ClientSend, callers, members, request
<1>2. IdsCounted'
  BY <1>1, OthersCount
<1>3. client_id' \in 1..MaxOwn /\ client_id' \in Ids
  <2>1. client_id \in 0..MaxOwn /\ client_id < MaxOwn /\ client_id' = client_id + 1
    BY DEF ClientSend, TypeOK
  <2>2. client_id' \in 1..MaxOwn
    BY <2>1, IdFacts
  <2> QED
    BY <2>2, IdFacts
<1>4. [id |-> client_id', says |-> << Client, client_id' >>] \in Messages
  BY <1>3, SaysFacts DEF Messages
<1>5. to_server \in Seq(Messages)
  BY DEF TypeOK
<1>6. /\ to_server' \in Seq(Messages)
      /\ Elements(to_server') =
           Elements(to_server) \cup {[id |-> client_id', says |-> << Client, client_id' >>]}
  <2> DEFINE m == [id |-> client_id', says |-> << Client, client_id' >>]
  <2>1. to_server' = Append(to_server, m)
    BY DEF ClientSend
  <2>2. m \in Messages
    BY <1>4
  <2> HIDE DEF m
  <2>3. to_server' \in Seq(Messages) /\ Elements(Append(to_server, m)) = Elements(to_server) \cup {m}
    BY <1>5, <2>1, <2>2, Appended
  <2>4. Elements(to_server') = Elements(to_server) \cup {m}
    BY <2>1, <2>3
  <2> QED
    BY <2>3, <2>4 DEF m
<1>7. TypeOK'
  BY <1>3, <1>6 DEF ClientSend, TypeOK, members, request
<1> QED
  BY <1>1, <1>2, <1>6, <1>7

\* Each step of a thread keeps the types.
LEMMA CallerTyped ==
  ASSUME TypeOK, IdsCounted, OnlyCalls, NEW t \in Callers, SendMessage(t) \/ CallStep(t)
  PROVE  TypeOK' /\ IdsCounted' /\ OnlyCalls'
<1>1. CASE SendMessage(t)
  BY <1>1, SendMessageTyped DEF SendMessage, OnlyCalls
<1>2. CASE GetSocketFd(t)
  BY <1>2, GetSocketFdTyped DEF GetSocketFd, OnlyCalls
<1>3. CASE LoadId(t)
  BY <1>3, LoadIdTyped DEF LoadId, OnlyCalls
<1>4. CASE StoreId(t)
  BY <1>4, StoreIdTyped DEF StoreId, OnlyCalls
<1>5. CASE AwaitResponse(t)
  BY <1>5, AwaitResponseTyped DEF AwaitResponse, OnlyCalls
<1>6. CASE WriteMessage(t)
  <2>1. TypeOK' /\ IdsCounted'
    BY <1>6, WriteMessageTyped
  <2>2. to_client \in Seq(Messages) /\ send_id[t] \in Ids /\ calls[t] \in 0..MaxCalls
    BY DEF TypeOK
  <2>3. << t, calls[t] >> \in AllCalls
    <3>1. calls[t] > 0
      BY <1>6 DEF WriteMessage, Goto, IdsCounted
    <3> QED
      BY <2>2, <3>1 DEF AllCalls
  <2>4. [id |-> send_id[t], says |-> << t, calls[t] >>] \in Messages
    BY <2>2, <2>3, SaysFacts DEF Messages
  <2>5. Elements(to_client') =
          Elements(to_client) \cup {[id |-> send_id[t], says |-> << t, calls[t] >>]}
    BY <1>6, <2>2, <2>4, Appended DEF WriteMessage
  <2>6. OnlyCalls'
    BY <2>3, <2>5 DEF OnlyCalls
  <2> QED
    BY <2>1, <2>6
<1>7. CASE Poll(t)
  BY <1>7, PollTyped DEF Poll, OnlyCalls
<1>8. CASE Fetch(t)
  BY <1>8, FetchTyped DEF Fetch, OnlyCalls
<1>9. CASE Erase(t)
  BY <1>9, EraseTyped DEF Erase, OnlyCalls
<1> QED
  BY <1>1, <1>2, <1>3, <1>4, <1>5, <1>6, <1>7, <1>8, <1>9 DEF CallStep

Typed == TypeOK /\ IdsCounted /\ OnlyCalls

LEMMA TypePreserved ==
  ASSUME Typed, [Next]_vars
  PROVE  Typed'
<1>1. CASE \E t \in Callers : (alive /\ SendMessage(t)) \/ CallStep(t)
  BY <1>1, CallerTyped DEF Typed
<1>2. CASE Receive \/ Match \/ File
  <2>1. to_client' = to_client
    BY <1>2 DEF Receive, Match, File
  <2>2. TypeOK' /\ IdsCounted'
    BY <1>2, EpollTyped DEF Typed
  <2> QED
    BY <2>1, <2>2 DEF Typed, OnlyCalls
<1>3. CASE ClientReceive
  BY <1>3, ClientReceiveTyped DEF Typed
<1>4. CASE ClientSend
  BY <1>4, ClientSendTyped DEF Typed, OnlyCalls
<1>5. CASE UNCHANGED vars
  <2>1. TypeOK' /\ OnlyCalls'
    BY <1>5 DEF Typed, TypeOK, OnlyCalls, vars, members, request, epoll, clientVars
  <2>2. IdsCounted'
    BY <1>5, OthersCount DEF Typed, vars, members, request, callers
  <2> QED
    BY <2>1, <2>2 DEF Typed
<1> QED
  BY <1>1, <1>2, <1>3, <1>4, <1>5 DEF Next

LEMMA InitTypes == Init => Typed
<1>1. Init => OnlyCalls
  BY DEF Init, OnlyCalls, Elements
<1> QED
  BY <1>1, InitTyped DEF Typed

LEMMA TypeInvariance == Spec => []Typed
  BY InitTypes, TypePreserved, PTL DEF Spec

\* However the threads interleave on message_id, every id, message, place and
\* result stays within its type: ids count no higher than the calls made.
THEOREM TypeCorrect == Spec => []TypeOK
<1>1. Typed => TypeOK
  BY DEF Typed
<1> QED
  BY <1>1, TypeInvariance, PTL

-----------------------------------------------------------------------------
(* One call at a time: the id, and what is filed under it.                 *)

UnderWay == Typed /\ OneId /\ NothingNull /\ AwaitedIsUnderWay

\* The thread that takes a step is alone.
LEMMA Alone ==
  ASSUME TypeOK, OneCallAtATime, OneCallAtATime', NEW t \in Callers,
         SendMessage(t) \/ CallStep(t)
  PROVE  \A u \in Callers : u # t => pc[u] = "idle" /\ pc'[u] = "idle"
<1>1. PICK from \in PCs, to \in PCs : Goto(t, from, to) /\ (from = "idle" => to = "lookup")
  BY PlacesNamed
     DEF SendMessage, CallStep, GetSocketFd, LoadId, StoreId, AwaitResponse, WriteMessage,
         Poll, Fetch, Erase
<1>2. /\ pc[t] = from /\ pc'[t] = to
      /\ \A u \in Callers : u # t => pc'[u] = pc[u]
  BY <1>1, Moves
<1>3. CASE from = "idle"
  BY <1>1, <1>2, <1>3 DEF OneCallAtATime
<1>4. CASE from # "idle"
  BY <1>1, <1>2, <1>4 DEF OneCallAtATime
<1> QED
  BY <1>3, <1>4

\* What is awaited is then its own id.
LEMMA AwaitedMine ==
  ASSUME NEW t \in Callers, \A u \in Callers : u # t => pc[u] = "idle"
  PROVE  AwaitedIsUnderWay <=>
           \A i \in response_msg_id :
             waits[t] /\ send_id[t] = i /\ pc[t] \in {"write", "poll", "fetch", "erase"}
  BY DEF AwaitedIsUnderWay

LEMMA MineAwaited ==
  ASSUME NEW t \in Callers,
         \A i \in response_msg_id' :
           waits'[t] /\ send_id'[t] = i /\ pc'[t] \in {"write", "poll", "fetch", "erase"}
  PROVE  AwaitedIsUnderWay'
  BY DEF AwaitedIsUnderWay

\* A step of a thread that is alone keeps what its own place says.
LEMMA OwnPlace ==
  ASSUME NEW t \in Callers, \A u \in Callers : u # t => pc'[u] = "idle",
         pc'[t] = "store" => send_id'[t] = message_id' + 1,
         pc'[t] \in HasId => send_id'[t] = message_id',
         pc'[t] \in {"await"} \cup Sent => waits'[t]
  PROVE  OneId'
  BY DEF OneId, HasId, Sent

LEMMA NoneNull ==
  ASSUME NothingNull, NEW t \in Callers, \A u \in Callers : u # t => pc'[u] = "idle",
         UNCHANGED << handled, matched, alive >>,
         pc'[t] = "fetch" => need_response_message_'[message_id'] # Nothing
  PROVE  NothingNull'
  BY DEF NothingNull

LEMMA EarlySteps ==
  ASSUME UnderWay, OneCallAtATime, OneCallAtATime', NEW t \in Callers,
         SendMessage(t) \/ (alive /\ (GetSocketFd(t) \/ LoadId(t) \/ StoreId(t)))
  PROVE  OneId' /\ NothingNull' /\ AwaitedIsUnderWay'
<1> USE DEF UnderWay
<1>1. TypeOK /\ \A u \in Callers : u # t => pc[u] = "idle" /\ pc'[u] = "idle"
  <2>1. SendMessage(t) \/ CallStep(t)
    BY DEF CallStep
  <2> QED
    BY <2>1, Alone DEF Typed
<1>2. PICK from \in {"idle", "lookup", "load", "store"}, to \in PCs \ {"poll", "fetch", "erase"} :
        Goto(t, from, to)
  BY PlacesNamed DEF SendMessage, GetSocketFd, LoadId, StoreId
<1>3. pc[t] = from /\ pc'[t] = to
  BY <1>1, <1>2, Moves
<1>4. response_msg_id = {}
  BY <1>1, <1>2, <1>3, AwaitedMine
<1>5. AwaitedIsUnderWay'
  <2>1. response_msg_id' = response_msg_id
    BY DEF SendMessage, GetSocketFd, LoadId, StoreId, members
  <2> QED
    BY <1>4, <2>1 DEF AwaitedIsUnderWay
<1>6. NothingNull'
  <2>1. UNCHANGED << handled, matched, alive >> /\ pc'[t] # "fetch"
    BY <1>2, <1>3 DEF SendMessage, GetSocketFd, LoadId, StoreId, epoll
  <2> QED
    BY <1>1, <2>1, NoneNull
<1>7. CASE SendMessage(t) \/ GetSocketFd(t)
  <2>1. pc'[t] \in {"lookup", "load", "idle"}
    BY <1>1, <1>7, Moves, PlacesNamed DEF SendMessage, GetSocketFd
  <2>2. OneId'
    BY <1>1, <2>1, OwnPlace DEF HasId, Sent
  <2> QED
    BY <1>5, <1>6, <2>2
<1>8. CASE LoadId(t)
  <2>1. pc'[t] = "store"
    BY <1>1, <1>8, Moves, PlacesNamed DEF LoadId
  <2>2. send_id'[t] = message_id' + 1
    BY <1>1, <1>8 DEF LoadId, NextId, TypeOK, members
  <2>3. OneId'
    BY <1>1, <2>1, <2>2, OwnPlace DEF HasId, Sent
  <2> QED
    BY <1>5, <1>6, <2>3
<1>9. CASE StoreId(t)
  <2>1. pc'[t] = IF waits[t] THEN "await" ELSE "write"
    BY <1>1, <1>9, Moves, PlacesNamed DEF StoreId
  <2>2. send_id'[t] = message_id' /\ waits' = waits
    BY <1>9 DEF StoreId, request
  <2>3. OneId'
    BY <1>1, <2>1, <2>2, OwnPlace DEF HasId, Sent
  <2> QED
    BY <1>5, <1>6, <2>3
<1> QED
  BY <1>7, <1>8, <1>9

LEMMA LateSteps ==
  ASSUME UnderWay, OneCallAtATime, OneCallAtATime', NEW t \in Callers, alive,
         AwaitResponse(t) \/ WriteMessage(t) \/ Poll(t) \/ Fetch(t) \/ Erase(t)
  PROVE  OneId' /\ NothingNull' /\ AwaitedIsUnderWay'
<1> USE DEF UnderWay
<1>1. TypeOK /\ \A u \in Callers : u # t => pc[u] = "idle" /\ pc'[u] = "idle"
  <2>1. SendMessage(t) \/ CallStep(t)
    BY DEF CallStep
  <2> QED
    BY <2>1, Alone DEF Typed
<1>2. pc[t] \in HasId /\ send_id[t] = message_id
  <2>1. pc[t] \in HasId
    BY DEF AwaitResponse, WriteMessage, Poll, Fetch, Erase, Goto, HasId, Sent
  <2> QED
    BY <2>1 DEF OneId
<1>3. \A i \in response_msg_id : waits[t] /\ message_id = i
  BY <1>1, <1>2, AwaitedMine
<1>4. send_id' = send_id /\ message_id' = message_id /\ waits' = waits
  BY DEF AwaitResponse, WriteMessage, Poll, Fetch, Erase, request, members
<1>5. CASE AwaitResponse(t)
  <2>1. pc[t] = "await" /\ pc'[t] = "write" /\ waits[t]
    BY <1>1, <1>5, Moves, PlacesNamed DEF AwaitResponse, OneId
  <2>2. OneId'
    BY <1>1, <1>2, <1>4, <2>1, OwnPlace DEF HasId, Sent
  <2>3. NothingNull'
    BY <1>1, <1>5, <2>1, NoneNull DEF AwaitResponse, epoll
  <2>4. AwaitedIsUnderWay'
    BY <1>2, <1>3, <1>4, <1>5, <2>1, MineAwaited DEF AwaitResponse
  <2> QED
    BY <2>2, <2>3, <2>4
<1>6. CASE WriteMessage(t)
  <2>1. pc[t] = "write" /\ pc'[t] = IF waits[t] THEN "poll" ELSE "idle"
    BY <1>1, <1>6, Moves, PlacesNamed DEF WriteMessage
  <2>2. OneId'
    BY <1>1, <1>2, <1>4, <2>1, OwnPlace DEF HasId, Sent
  <2>3. NothingNull'
    BY <1>1, <1>6, <2>1, NoneNull DEF WriteMessage, epoll
  <2>4. response_msg_id' = response_msg_id
    BY <1>6 DEF WriteMessage, members
  <2>5. AwaitedIsUnderWay'
    BY <1>2, <1>3, <1>4, <2>1, <2>4, MineAwaited
  <2> QED
    BY <2>2, <2>3, <2>5
<1>7. CASE Poll(t)
  <2>1. /\ pc[t] = "poll" /\ pc'[t] \in {"poll", "fetch", "erase"} /\ waits[t]
        /\ pc'[t] = "fetch" => need_response_message_[message_id] # Nothing
    BY <1>1, <1>7, Moves, PlacesNamed DEF Poll, OneId, Sent, Responded
  <2>2. OneId'
    BY <1>1, <1>2, <1>4, <2>1, OwnPlace DEF HasId, Sent
  <2>3. NothingNull'
    BY <1>1, <1>7, <2>1, NoneNull DEF Poll, epoll, members
  <2>4. response_msg_id' = response_msg_id
    BY <1>7 DEF Poll, members
  <2>5. AwaitedIsUnderWay'
    BY <1>2, <1>3, <1>4, <2>1, <2>4, MineAwaited
  <2> QED
    BY <2>2, <2>3, <2>5
<1>8. CASE Fetch(t)
  <2>1. pc[t] = "fetch" /\ pc'[t] = "erase" /\ waits[t]
    BY <1>1, <1>8, Moves, PlacesNamed DEF Fetch, OneId, Sent
  <2>2. OneId'
    BY <1>1, <1>2, <1>4, <2>1, OwnPlace DEF HasId, Sent
  <2>3. need_response_message_[message_id] # Nothing
    BY <2>1 DEF NothingNull
  <2>4. NothingNull'
    BY <1>1, <1>8, <2>1, <2>3, NoneNull DEF Fetch, epoll
  <2>5. response_msg_id' = response_msg_id
    BY <1>8 DEF Fetch, members
  <2>6. AwaitedIsUnderWay'
    BY <1>2, <1>3, <1>4, <2>1, <2>5, MineAwaited
  <2> QED
    BY <2>2, <2>4, <2>6
<1>9. CASE Erase(t)
  <2>1. pc'[t] = "idle"
    BY <1>1, <1>9, Moves, PlacesNamed DEF Erase
  <2>2. OneId'
    BY <1>1, <2>1, OwnPlace DEF HasId, Sent
  <2>3. NothingNull'
    BY <1>1, <1>9, <2>1, NoneNull DEF Erase, epoll
  <2>4. response_msg_id' = {}
    BY <1>3, <1>9 DEF Erase, Erased
  <2>5. AwaitedIsUnderWay'
    BY <2>4 DEF AwaitedIsUnderWay
  <2> QED
    BY <2>2, <2>3, <2>5
<1> QED
  BY <1>5, <1>6, <1>7, <1>8, <1>9

LEMMA OtherSteps ==
  ASSUME UnderWay, \/ Receive \/ Match \/ File \/ ClientReceive \/ ClientSend
                   \/ UNCHANGED vars
  PROVE  OneId' /\ NothingNull' /\ AwaitedIsUnderWay'
<1>1. UNCHANGED callers /\ response_msg_id' = response_msg_id /\ alive' = alive
  BY DEF Receive, Match, File, ClientReceive, ClientSend, vars, callers, members, request
<1>2. OneId' /\ AwaitedIsUnderWay'
  BY <1>1 DEF UnderWay, callers, OneId, AwaitedIsUnderWay
<1>3. handled \in Messages \cup {Idle} /\ need_response_message_ \in [Ids -> Says \cup {Nothing}]
  BY DEF UnderWay, Typed, TypeOK
<1>4. matched' => handled' # Idle
  BY DEF Receive, Match, File, ClientReceive, ClientSend, vars, epoll, UnderWay, NothingNull
<1>5. CASE need_response_message_' = need_response_message_
  BY <1>1, <1>2, <1>4, <1>5 DEF callers, UnderWay, NothingNull
<1>6. CASE File
  <2>1. handled.says \in Says
    BY <1>3, <1>6 DEF UnderWay, NothingNull, File, Messages
  <2>2. \A i \in Ids : need_response_message_[i] # Nothing => need_response_message_'[i] # Nothing
    BY <1>3, <1>6, <2>1, SaysFacts DEF File
  <2>3. message_id \in Ids
    BY DEF UnderWay, Typed, TypeOK
  <2> QED
    BY <1>1, <1>2, <1>4, <2>2, <2>3 DEF callers, UnderWay, NothingNull
<1>7. File \/ need_response_message_' = need_response_message_
  BY DEF Receive, Match, ClientReceive, ClientSend, vars, members
<1> QED
  BY <1>2, <1>5, <1>6, <1>7

LEMMA UnderWayStep ==
  ASSUME UnderWay, OneCallAtATime, OneCallAtATime', [Next]_vars
  PROVE  UnderWay'
<1>1. Typed'
  BY TypePreserved DEF UnderWay
<1>2. CASE \E t \in Callers : (alive /\ SendMessage(t)) \/ CallStep(t)
  <2>1. PICK t \in Callers : (alive /\ SendMessage(t)) \/ CallStep(t)
    BY <1>2
  <2>2. CASE SendMessage(t) \/ (alive /\ (GetSocketFd(t) \/ LoadId(t) \/ StoreId(t)))
    BY <1>1, <2>2, EarlySteps DEF UnderWay
  <2>3. CASE /\ alive
             /\ AwaitResponse(t) \/ WriteMessage(t) \/ Poll(t) \/ Fetch(t) \/ Erase(t)
    BY <1>1, <2>3, LateSteps DEF UnderWay
  <2> QED
    BY <2>1, <2>2, <2>3 DEF CallStep
<1>3. CASE \/ Receive \/ Match \/ File \/ ClientReceive \/ ClientSend \/ UNCHANGED vars
  BY <1>1, <1>3, OtherSteps DEF UnderWay
<1> QED
  BY <1>2, <1>3 DEF Next

LEMMA InitUnderWay == Init => UnderWay
<1>1. Init => OneId
  BY DEF Init, OneId, HasId, Sent
<1>2. Init => NothingNull
  BY DEF Init, NothingNull
<1>3. Init => AwaitedIsUnderWay
  BY DEF Init, AwaitedIsUnderWay
<1> QED
  BY <1>1, <1>2, <1>3, InitTypes DEF UnderWay

LEMMA UnderWayInvariance == Spec /\ []OneCallAtATime => []UnderWay
  BY InitUnderWay, UnderWayStep, PTL DEF Spec

\* If the application makes its calls one at a time, response_msg_id holds the id
\* of the call that is under way and waits, or nothing: every way out of the
\* wait erases what it inserted (290).
THEOREM AwaitedUnderWay == Spec /\ []OneCallAtATime => []AwaitedIsUnderWay
<1>1. UnderWay => AwaitedIsUnderWay
  BY DEF UnderWay
<1> QED
  BY <1>1, UnderWayInvariance, PTL

\* A single thread makes one call at a time.
LEMMA OneThread ==
  ASSUME \A s, t \in Callers : s = t
  PROVE  Spec => []OneCallAtATime
<1>1. OneCallAtATime
  BY DEF OneCallAtATime
<1> QED
  BY <1>1, PTL

-----------------------------------------------------------------------------
(* One call at a time: what a message, and a result, goes back to.         *)

Replies == UnderWay /\ Traced /\ Results

LEMMA InitReplies == Init => Replies
<1>1. Init => Traced
  BY DEF Init, Traced, Elements
<1>2. Init => Results
  BY DEF Init, Results
<1> QED
  BY <1>1, <1>2, InitUnderWay DEF Replies

\* What was asked stays so: a new call takes a new id.
LEMMA AskedStays ==
  ASSUME UnderWay, OneCallAtATime, OneCallAtATime', [Next]_vars
  PROVE  Asked \subseteq Asked'
<1> SUFFICES ASSUME NEW m \in Asked PROVE m \in Asked'
  OBVIOUS
<1>1. /\ m \in Messages /\ m.says \in AllCalls /\ m.id <= message_id
      /\ m.says[2] <= calls[m.says[1]]
      /\ \A t \in Callers : pc[t] \in HasId /\ m.id = message_id =>
                              pc[t] \in Sent /\ m.says = << t, calls[t] >>
  BY DEF Asked
<1>2. /\ TypeOK /\ m.id \in Nat /\ message_id \in Nat
      /\ m.says[1] \in Callers /\ m.says[2] \in Nat
  <2>1. TypeOK
    BY DEF UnderWay, Typed
  <2>2. m.id \in Ids /\ message_id \in Ids
    BY <1>1, <2>1 DEF TypeOK, Messages
  <2>3. m.says[1] \in Callers /\ m.says[2] \in Nat
    BY <1>1 DEF AllCalls
  <2> QED
    BY <2>1, <2>2, <2>3, IdFacts
<1>3. ASSUME NEW t \in Callers, (alive /\ SendMessage(t)) \/ CallStep(t)
      PROVE  m \in Asked'
  <2>1. \A u \in Callers : u # t => pc[u] = "idle" /\ pc'[u] = "idle"
    BY <1>2, <1>3, Alone
  <2>2. ASSUME message_id' \in Nat, m.id <= message_id', m.says[2] <= calls'[m.says[1]],
               pc'[t] \in HasId /\ m.id = message_id' =>
                 pc'[t] \in Sent /\ m.says = << t, calls'[t] >>
        PROVE  m \in Asked'
    BY <1>1, <2>1, <2>2 DEF Asked, HasId, Sent
  <2>3. CASE SendMessage(t) \/ GetSocketFd(t) \/ LoadId(t)
    <3>1. pc'[t] \in {"lookup", "load", "idle", "store"}
      BY <1>2, <2>3, Moves, PlacesNamed DEF SendMessage, GetSocketFd, LoadId
    <3>2. message_id' = message_id
      BY <2>3 DEF SendMessage, GetSocketFd, LoadId, members
    <3>3. calls[m.says[1]] <= calls'[m.says[1]] /\ calls'[m.says[1]] \in Nat /\ calls[m.says[1]] \in Nat
      <4>1. calls \in [Callers -> Nat] /\ calls[m.says[1]] \in Nat
        BY <1>2 DEF TypeOK
      <4>2. calls' = calls \/ calls' = [calls EXCEPT ![t] = @ + 1]
        BY <2>3 DEF SendMessage, GetSocketFd, LoadId, request
      <4> QED
        BY <1>2, <4>1, <4>2
    <3>4. m.says[2] <= calls'[m.says[1]]
      BY <1>1, <1>2, <3>3
    <3> QED
      BY <1>1, <1>2, <2>2, <3>1, <3>2, <3>4 DEF HasId, Sent
  <2>4. CASE StoreId(t)
    <3>1. message_id' = message_id + 1 /\ calls' = calls
      BY <2>4 DEF StoreId, UnderWay, OneId, Goto, request
    <3> QED
      BY <1>1, <1>2, <2>2, <3>1
  <2>5. CASE AwaitResponse(t) \/ WriteMessage(t)
    <3>1. pc[t] \in {"await", "write"}
      BY <2>5 DEF AwaitResponse, WriteMessage, Goto
    <3>2. message_id' = message_id /\ calls' = calls
      BY <2>5 DEF AwaitResponse, WriteMessage, members, request
    <3>3. m.id # message_id
      BY <1>1, <3>1 DEF HasId, Sent
    <3> QED
      BY <1>1, <1>2, <2>2, <3>2, <3>3
  <2>6. CASE Poll(t) \/ Fetch(t) \/ Erase(t)
    <3>1. pc[t] \in Sent /\ pc'[t] \in Sent \cup {"idle"}
      BY <1>2, <2>6, Moves, PlacesNamed DEF Poll, Fetch, Erase, Sent
    <3>2. message_id' = message_id /\ calls' = calls
      BY <2>6 DEF Poll, Fetch, Erase, members, request
    <3> QED
      BY <1>1, <1>2, <2>2, <3>1, <3>2 DEF HasId, Sent
  <2> QED
    BY <1>3, <2>3, <2>4, <2>5, <2>6 DEF CallStep
<1>4. CASE Receive \/ Match \/ File \/ ClientReceive \/ ClientSend \/ UNCHANGED vars
  <2>1. UNCHANGED callers
    BY <1>4 DEF Receive, Match, File, ClientReceive, ClientSend, vars, callers, members, request
  <2> QED
    BY <2>1 DEF Asked, callers
<1> QED
  BY <1>3, <1>4 DEF Next

LEMMA ToldStays ==
  ASSUME UnderWay, OneCallAtATime, OneCallAtATime', [Next]_vars
  PROVE  /\ Told \subseteq Told' /\ answered \subseteq answered'
         /\ 1..client_id \subseteq 1..client_id'
<1>1. answered \subseteq answered'
  BY DEF Next, CallStep, SendMessage, GetSocketFd, LoadId, StoreId, AwaitResponse, WriteMessage,
         Poll, Fetch, Erase, Receive, Match, File, ClientReceive, ClientSend, vars, clientVars
<1>2. Asked \subseteq Asked'
  BY AskedStays
<1>3. 1..client_id \subseteq 1..client_id'
  <2>1. client_id \in Nat
    BY IdFacts DEF UnderWay, Typed, TypeOK
  <2>2. client_id' = client_id \/ client_id' = client_id + 1
    BY DEF Next, CallStep, SendMessage, GetSocketFd, LoadId, StoreId, AwaitResponse, WriteMessage,
           Poll, Fetch, Erase, Receive, Match, File, ClientReceive, ClientSend, vars, clientVars
  <2> QED
    BY <2>1, <2>2
<1> QED
  BY <1>1, <1>2, <1>3 DEF Told

\* A message that the server has sent, under the id of its call.
LEMMA WriteTraced ==
  ASSUME UnderWay, OneCallAtATime, OneCallAtATime', Traced, NEW t \in Callers,
         alive, WriteMessage(t)
  PROVE  Elements(to_client') \subseteq Asked'
<1> DEFINE m == [id |-> send_id[t], says |-> << t, calls[t] >>]
<1>1. TypeOK /\ UNCHANGED << message_id, calls >>
  BY DEF UnderWay, Typed, WriteMessage, members, request
<1>2. /\ pc[t] = "write" /\ pc'[t] \in Sent \cup {"idle"}
      /\ \A u \in Callers : u # t => pc'[u] = "idle"
  <2>1. \A u \in Callers : u # t => pc'[u] = "idle"
    BY <1>1, Alone DEF CallStep
  <2> QED
    BY <1>1, <2>1, Moves, PlacesNamed DEF WriteMessage, Sent
<1>3. /\ send_id[t] = message_id /\ message_id \in Ids
      /\ calls[t] \in 1..MaxCalls
  <2>1. calls[t] \in 0..MaxCalls /\ message_id \in Ids
    BY <1>1 DEF TypeOK
  <2>2. calls[t] > 0 /\ send_id[t] = message_id
    BY <1>2 DEF UnderWay, Typed, IdsCounted, OneId, HasId
  <2> QED
    BY <2>1, <2>2
<1>4. m \in Messages /\ m.says \in AllCalls
  BY <1>3, SaysFacts DEF Messages, AllCalls
<1>5. m \in Asked'
  <2>1. \A u \in Callers : pc'[u] \in HasId => pc'[u] \in Sent /\ u = t
    BY <1>2 DEF HasId, Sent
  <2>2. m.id <= message_id' /\ m.says[2] <= calls'[m.says[1]]
    BY <1>1, <1>3, IdFacts
  <2> QED
    BY <1>1, <1>4, <2>1, <2>2 DEF Asked
<1>6. Elements(to_client') = Elements(to_client) \cup {m}
  <2>1. to_client \in Seq(Messages) /\ to_client' = Append(to_client, m)
    BY <1>1 DEF TypeOK, WriteMessage
  <2> HIDE DEF m
  <2> QED
    BY <1>4, <2>1, Appended
<1>7. Asked \subseteq Asked'
  <2>1. Next
    BY DEF Next, CallStep
  <2> QED
    BY <2>1, AskedStays
<1> QED
  BY <1>5, <1>6, <1>7 DEF Traced

\* The other steps of a thread send and receive nothing.
LEMMA CallerTraced ==
  ASSUME UnderWay, OneCallAtATime, OneCallAtATime', Traced, NEW t \in Callers,
         (alive /\ SendMessage(t)) \/ CallStep(t)
  PROVE  Traced'
<1>1. Next
  BY DEF Next
<1>2. Asked \subseteq Asked' /\ Told \subseteq Told'
  BY <1>1, AskedStays, ToldStays
<1>3. UNCHANGED << client_id, to_server, handled, need_response_message_ >>
  BY DEF SendMessage, CallStep, GetSocketFd, LoadId, StoreId, AwaitResponse, WriteMessage, Poll,
         Fetch, Erase, clientVars, epoll, members
<1>4. Elements(to_client') \subseteq Asked'
  <2>1. CASE alive /\ WriteMessage(t)
    BY <2>1, WriteTraced
  <2>2. CASE to_client' = to_client
    BY <1>2, <2>2 DEF Traced
  <2> QED
    BY <2>1, <2>2
       DEF SendMessage, CallStep, GetSocketFd, LoadId, StoreId, AwaitResponse, Poll, Fetch, Erase
<1>5. Elements(to_server') \subseteq Told' /\ handled' \in Told' \cup {Idle}
  BY <1>2, <1>3 DEF Traced
<1>6. \A i \in Ids : need_response_message_'[i] # Nothing =>
                       [id |-> i, says |-> need_response_message_'[i]] \in Told'
  BY <1>2, <1>3 DEF Traced
<1> QED
  BY <1>4, <1>5, <1>6 DEF Traced

LEMMA OthersTraced ==
  ASSUME UnderWay, OneCallAtATime, OneCallAtATime', Traced,
         \/ alive /\ (Receive \/ Match \/ File)
         \/ ClientReceive \/ ClientSend \/ UNCHANGED vars
  PROVE  Traced'
<1>1. [Next]_vars
  BY DEF Next
<1>2. Asked \subseteq Asked' /\ Told \subseteq Told'
  BY <1>1, AskedStays, ToldStays
<1>3. /\ to_client \in Seq(Messages) /\ to_server \in Seq(Messages)
      /\ handled \in Messages \cup {Idle} /\ client_id \in Nat
      /\ need_response_message_ \in [Ids -> Says \cup {Nothing}]
  BY IdFacts DEF UnderWay, Typed, TypeOK
<1>4. Elements(to_client') \subseteq Asked'
  <2>1. Elements(to_client') \subseteq Elements(to_client)
    <3>1. CASE ClientReceive
      BY <1>3, <3>1, RestOfSeq, HeadTail DEF ClientReceive
    <3>2. CASE to_client' = to_client
      BY <3>2
    <3> QED
      BY <3>1, <3>2 DEF Receive, Match, File, ClientSend, vars
  <2> QED
    BY <1>2, <2>1 DEF Traced
<1>5. Elements(to_server') \subseteq Told'
  <2>1. CASE Receive
    <3>1. Elements(to_server') \subseteq Elements(to_server)
      <4>1. CASE to_server # << >> /\ to_server' = Tail(to_server)
        BY <1>3, <4>1, HeadTail
      <4>2. CASE \E k \in 2..Len(to_server) : to_server' = SubSeq(to_server, k + 1, Len(to_server))
        <5>1. PICK k \in 2..Len(to_server) : to_server' = SubSeq(to_server, k + 1, Len(to_server))
          BY <4>2
        <5>2. k \in 1..Len(to_server)
          BY <1>3, LenProperties
        <5> QED
          BY <1>3, <5>1, <5>2, RestOfSeq
      <4> QED
        BY <2>1, <4>1, <4>2 DEF Receive
    <3> QED
      BY <1>2, <2>1, <3>1 DEF Traced, Receive, clientVars
  <2>2. CASE ClientSend
    <3> DEFINE m == [id |-> client_id', says |-> << Client, client_id' >>]
    <3>1. Elements(to_server') = Elements(to_server) \cup {m} /\ TypeOK'
      BY <2>2, ClientSendTyped DEF UnderWay, Typed
    <3>3. client_id' \in 1..MaxOwn /\ client_id' \in Ids /\ client_id' \in 1..client_id'
      <4>1. client_id' \in 0..MaxOwn /\ client_id' = client_id + 1
        BY <2>2, <3>1 DEF TypeOK, ClientSend
      <4>2. client_id' \in 1..MaxOwn
        BY <1>3, <4>1
      <4> QED
        BY <4>2, IdFacts
    <3>4. m \in Messages
      BY <3>3, SaysFacts DEF Messages
    <3>5. m \in Told'
      BY <3>3, <3>4 DEF Told
    <3> QED
      BY <1>2, <3>1, <3>5 DEF Traced
  <2>3. CASE ClientReceive
    <3>1. CASE UNCHANGED to_server
      BY <1>2, <2>3, <3>1 DEF Traced, ClientReceive
    <3>2. CASE /\ to_client # << >>
               /\ to_server' = Append(to_server, Head(to_client))
               /\ answered' = answered \cup {Head(to_client).says}
      <4>1. Head(to_client) \in Messages /\ Head(to_client) \in Elements(to_client)
        BY <1>3, <3>2, HeadTail
      <4>2. Head(to_client) \in Asked'
        BY <1>2, <4>1 DEF Traced
      <4>3. Head(to_client) \in Told'
        BY <3>2, <4>1, <4>2 DEF Told
      <4>4. Elements(to_server') = Elements(to_server) \cup {Head(to_client)}
        BY <1>3, <3>2, <4>1, Appended
      <4> QED
        BY <1>2, <2>3, <4>3, <4>4 DEF Traced, ClientReceive
    <3> QED
      BY <2>3, <3>1, <3>2 DEF ClientReceive
  <2>4. CASE UNCHANGED << to_server, client_id >>
    BY <1>2, <2>4 DEF Traced
  <2> QED
    BY <2>1, <2>2, <2>3, <2>4 DEF Match, File, vars, clientVars, epoll
<1>6. handled' \in Told' \cup {Idle}
  <2>1. CASE Receive
    <3>1. handled' = handled \/ handled' \in Elements(to_server)
      BY <1>3, <2>1, HeadTail DEF Receive
    <3> QED
      BY <1>2, <3>1 DEF Traced
  <2>2. CASE handled' \in {handled, Idle}
    BY <1>2, <2>2 DEF Traced
  <2> QED
    BY <2>1, <2>2 DEF Match, File, ClientReceive, ClientSend, vars, epoll
<1>7. \A i \in Ids : need_response_message_'[i] # Nothing =>
                       [id |-> i, says |-> need_response_message_'[i]] \in Told'
  <2>1. CASE File
    <3>1. handled \in Messages /\ handled \in Told
      BY <1>3, <2>1 DEF File, UnderWay, NothingNull, Traced
    <3>2. handled = [id |-> handled.id, says |-> handled.says] /\ handled.id \in Ids
      BY <3>1 DEF Messages
    <3>3. need_response_message_' = [need_response_message_ EXCEPT ![handled.id] = handled.says]
      BY <2>1 DEF File
    <3> QED
      BY <1>2, <1>3, <3>1, <3>2, <3>3 DEF Traced
  <2>2. CASE need_response_message_' = need_response_message_
    BY <1>2, <2>2 DEF Traced
  <2> QED
    BY <2>1, <2>2 DEF Receive, Match, ClientReceive, ClientSend, vars, members
<1> QED
  BY <1>4, <1>5, <1>6, <1>7 DEF Traced

\* What a thread fetches under its id answers its call, or has the id by itself.
LEMMA FetchedIsAnswer ==
  ASSUME Replies, NEW t \in Callers, pc[t] = "fetch"
  PROVE  need_response_message_[message_id] \in Answers(t)
<1>1. /\ need_response_message_[message_id] # Nothing /\ message_id \in Ids
      /\ send_id[t] = message_id
  BY DEF Replies, UnderWay, NothingNull, OneId, HasId, Sent, Typed, TypeOK
<1>2. [id |-> message_id, says |-> need_response_message_[message_id]] \in Told
  BY <1>1 DEF Replies, Traced
<1>3. CASE /\ message_id \in 1..client_id
           /\ need_response_message_[message_id] = << Client, message_id >>
  BY <1>1, <1>3 DEF Answers
<1>4. CASE /\ [id |-> message_id, says |-> need_response_message_[message_id]] \in Asked
           /\ need_response_message_[message_id] \in answered
  <2>1. need_response_message_[message_id] = << t, calls[t] >>
    BY <1>4 DEF Asked, HasId, Sent
  <2> QED
    BY <1>4, <2>1 DEF Answers
<1> QED
  BY <1>2, <1>3, <1>4 DEF Told

LEMMA CallerResults ==
  ASSUME Replies, OneCallAtATime, OneCallAtATime', NEW t \in Callers,
         (alive /\ SendMessage(t)) \/ CallStep(t)
  PROVE  Results'
<1>1. /\ TypeOK /\ result \in [Callers -> Says \cup {Nothing}]
      /\ calls \in [Callers -> 0..MaxCalls] /\ send_id \in [Callers -> Ids]
  BY DEF Replies, UnderWay, Typed, TypeOK
<1>2. \A u \in Callers : u # t => pc'[u] = pc[u]
  BY <1>1, Alone
<1>3. /\ answered' = answered /\ client_id' = client_id
      /\ \A u \in Callers : u # t => result'[u] = result[u] /\ Answers(u)' = Answers(u)
  <2>1. answered' = answered /\ client_id' = client_id
    BY DEF SendMessage, CallStep, GetSocketFd, LoadId, StoreId, AwaitResponse, WriteMessage,
           Poll, Fetch, Erase, clientVars
  <2>2. \A u \in Callers : u # t => /\ result'[u] = result[u] /\ calls'[u] = calls[u]
                                    /\ send_id'[u] = send_id[u]
    BY <1>1 DEF SendMessage, CallStep, GetSocketFd, LoadId, StoreId, AwaitResponse, WriteMessage,
                Poll, Fetch, Erase, request
  <2> QED
    BY <2>1, <2>2 DEF Answers
<1>4. ASSUME \/ result'[t] = Nothing
             \/ result'[t] \in Answers(t)' /\ pc'[t] \in {"erase", "idle"}
      PROVE  Results'
  BY <1>2, <1>3, <1>4 DEF Replies, Results
<1>5. CASE SendMessage(t)
  BY <1>1, <1>4, <1>5 DEF SendMessage
<1>6. CASE Fetch(t)
  <2>1. pc[t] = "fetch" /\ pc'[t] = "erase"
    BY <1>1, <1>6, Moves, PlacesNamed DEF Fetch
  <2>2. result'[t] = need_response_message_[message_id] /\ calls' = calls /\ send_id' = send_id
    BY <1>1, <1>6 DEF Fetch, request
  <2>3. Answers(t)' = Answers(t)
    BY <1>3, <2>2 DEF Answers
  <2> QED
    BY <1>4, <2>1, <2>2, <2>3, FetchedIsAnswer
<1>7. CASE Erase(t)
  <2>1. /\ pc'[t] = "idle" /\ result' = result /\ calls' = calls /\ send_id' = send_id
    BY <1>1, <1>7, Moves, PlacesNamed DEF Erase, request
  <2>2. Answers(t)' = Answers(t)
    BY <1>3, <2>1 DEF Answers
  <2> QED
    BY <1>4, <2>1, <2>2 DEF Replies, Results
<1>8. CASE GetSocketFd(t) \/ LoadId(t) \/ StoreId(t) \/ AwaitResponse(t) \/ WriteMessage(t) \/ Poll(t)
  <2>1. pc[t] \notin {"erase", "idle"} /\ result' = result
    BY <1>8 DEF GetSocketFd, LoadId, StoreId, AwaitResponse, WriteMessage, Poll, Goto
  <2>2. result[t] = Nothing
    BY <2>1 DEF Replies, Results
  <2> QED
    BY <1>4, <2>1, <2>2
<1> QED
  BY <1>5, <1>6, <1>7, <1>8 DEF CallStep

LEMMA RepliesStep ==
  ASSUME Replies, OneCallAtATime, OneCallAtATime', [Next]_vars
  PROVE  Replies'
<1>1. UnderWay'
  BY UnderWayStep DEF Replies
<1>2. CASE \E t \in Callers : (alive /\ SendMessage(t)) \/ CallStep(t)
  BY <1>1, <1>2, CallerTraced, CallerResults DEF Replies
<1>3. CASE \/ alive /\ (Receive \/ Match \/ File)
           \/ ClientReceive \/ ClientSend \/ UNCHANGED vars
  <2>1. UNCHANGED callers
    BY <1>3 DEF Receive, Match, File, ClientReceive, ClientSend, vars, callers, members, request
  <2>2. [Next]_vars
    BY <1>3 DEF Next
  <2>3. answered \subseteq answered' /\ 1..client_id \subseteq 1..client_id'
    BY <2>2, ToldStays DEF Replies
  <2>4. \A t \in Callers : Answers(t) \subseteq Answers(t)'
    BY <2>1, <2>3 DEF Answers, callers
  <2>5. Results'
    BY <2>1, <2>4 DEF Replies, Results, callers
  <2> QED
    BY <1>1, <1>3, <2>5, OthersTraced DEF Replies
<1> QED
  BY <1>2, <1>3 DEF Next

LEMMA RepliesInvariance == Spec /\ []OneCallAtATime => []Replies
  BY InitReplies, RepliesStep, PTL DEF Spec

\* What a call may have for its result: nothing, the answer to its own message, or
\* the message of the client's own that has the id of the call.
ItsNumber ==
  \A t \in Callers : result[t] \in {Nothing, << t, calls[t] >>, << Client, send_id[t] >>}

\* If the application makes its calls one at a time, whichever responses are lost
\* and however late the others are filed, what a call returns came back under its
\* own id (280): the response to its message, or a message that the client sent
\* by itself under the same id, which 181-182 take for one. It is never the
\* response to another call.
THEOREM ReturnsItsNumber == Spec /\ []OneCallAtATime => []ItsNumber
<1>1. Replies => ItsNumber
  BY DEF Replies, Results, Answers, ItsNumber
<1> QED
  BY <1>1, RepliesInvariance, PTL

-----------------------------------------------------------------------------
(* It does what RequestReply promises.                                     *)

Returned == [t \in Callers |-> IF t \in Calling THEN Nothing ELSE result[t]]

Own      == 1..client_id

LEMMA InitPromise == Init => Promise!Init
  BY DEF Init, Promise!Init, Calling

\* A call begins.
LEMMA CallRefined ==
  ASSUME Typed, NEW t \in Callers, SendMessage(t)
  PROVE  Promise!Call(t)
<1>1. /\ pc[t] = "idle" /\ pc'[t] = "lookup"
      /\ \A u \in Callers : u # t => pc'[u] = pc[u]
  BY Moves, PlacesNamed DEF SendMessage, Typed
<1>2. t \notin Calling /\ Calling' = Calling \cup {t}
  BY <1>1 DEF Calling
<1>3. Returned' = [Returned EXCEPT ![t] = Nothing]
  <2>1. result' = [result EXCEPT ![t] = Nothing] /\ result \in [Callers -> Says \cup {Nothing}]
    BY DEF SendMessage, Typed, TypeOK
  <2> QED
    BY <1>2, <2>1 DEF Returned
<1>4. UNCHANGED << send_id, client_id, answered >>
  BY DEF SendMessage, clientVars
<1> QED
  BY <1>2, <1>3, <1>4 DEF Promise!Call, SendMessage, Returned

\* A call ends with what is its result by then.
LEMMA ReturnRefined ==
  ASSUME Replies, NEW t \in Callers,
         \/ Goto(t, "lookup", "idle") \/ Goto(t, "write", "idle") \/ Goto(t, "erase", "idle"),
         UNCHANGED << calls, send_id, clientVars, result >>
  PROVE  Promise!Return(t)
<1>1. /\ pc[t] # "idle" /\ pc'[t] = "idle"
      /\ \A u \in Callers : u # t => pc'[u] = pc[u]
  BY Moves, PlacesNamed DEF Replies, UnderWay, Typed
<1>2. t \in Calling /\ Calling' = Calling \ {t}
  BY <1>1 DEF Calling
<1>3. Returned' = [Returned EXCEPT ![t] = result[t]]
  BY <1>2 DEF Returned
<1>4. result[t] \in Promise!Returnable(t)
  BY DEF Replies, Results, Answers, Promise!Returnable
<1> QED
  BY <1>2, <1>3, <1>4 DEF Promise!Return, Returned, clientVars

\* What a thread does in between is not seen by its caller.
LEMMA InsideRefined ==
  ASSUME Typed, NEW t \in Callers, NEW from \in PCs \ {"idle"}, NEW to \in PCs \ {"idle"},
         Goto(t, from, to), UNCHANGED << calls, clientVars >>,
         \A u \in Callers : u # t => result'[u] = result[u]
  PROVE  /\ t \in Calling /\ UNCHANGED << calls, Calling, answered, client_id, Returned >>
         /\ UNCHANGED send_id => UNCHANGED Promise!vars
<1>1. /\ pc[t] # "idle" /\ pc'[t] # "idle"
      /\ \A u \in Callers : u # t => pc'[u] = pc[u]
  BY Moves DEF Typed
<1>2. Calling' = Calling /\ t \in Calling
  BY <1>1 DEF Calling
<1>3. Returned' = Returned
  BY <1>2 DEF Returned
<1> QED
  BY <1>2, <1>3 DEF Promise!vars, Returned, clientVars

\* It takes a number.
LEMMA NumberRefined ==
  ASSUME Replies, Typed', NEW t \in Callers, LoadId(t)
  PROVE  Promise!Next
<1>1. UNCHANGED << calls, clientVars, result >> /\ Goto(t, "load", "store")
  BY DEF LoadId
<1>2. t \in Calling /\ UNCHANGED << calls, Calling, answered, client_id, Returned >>
  BY <1>1, InsideRefined, PlacesNamed DEF Replies, UnderWay
<1>3. send_id' = [send_id EXCEPT ![t] = NextId]
  BY DEF LoadId
<1>4. NextId \in Ids
  <2>1. send_id \in [Callers -> Ids] /\ send_id' \in [Callers -> Ids]
    BY DEF Replies, UnderWay, Typed, TypeOK
  <2>2. send_id'[t] = NextId
    BY <1>3, <2>1
  <2> QED
    BY <2>1, <2>2
<1>5. Promise!Number(t, NextId)
  BY <1>2, <1>3 DEF Promise!Number, Returned
<1> QED
  BY <1>4, <1>5 DEF Promise!Next

LEMMA CallerRefined ==
  ASSUME Replies, Typed', NEW t \in Callers, (alive /\ SendMessage(t)) \/ CallStep(t)
  PROVE  [Promise!Next]_(Promise!vars)
<1>1. Typed /\ TypeOK
  BY DEF Replies, UnderWay, Typed
<1>2. CASE SendMessage(t)
  BY <1>1, <1>2, CallRefined DEF Promise!Next
<1>3. ASSUME \/ Goto(t, "lookup", "idle") \/ Goto(t, "write", "idle") \/ Goto(t, "erase", "idle"),
             UNCHANGED << calls, send_id, clientVars, result >>
      PROVE  Promise!Next
  BY <1>3, ReturnRefined DEF Promise!Next
<1>4. ASSUME NEW from \in PCs \ {"idle"}, NEW to \in PCs \ {"idle"}, Goto(t, from, to),
             UNCHANGED << calls, send_id, clientVars >>,
             \A u \in Callers : u # t => result'[u] = result[u]
      PROVE  UNCHANGED Promise!vars
  BY <1>1, <1>4, InsideRefined
<1>5. CASE GetSocketFd(t)
  <2>1. UNCHANGED << calls, send_id, clientVars, result >>
    BY <1>5 DEF GetSocketFd, request
  <2>2. Goto(t, "lookup", "load") \/ Goto(t, "lookup", "idle")
    BY <1>5 DEF GetSocketFd
  <2> QED
    BY <1>3, <1>4, <2>1, <2>2, PlacesNamed
<1>6. CASE LoadId(t)
  BY <1>6, NumberRefined
<1>7. CASE StoreId(t) \/ AwaitResponse(t) \/ Poll(t)
  <2>1. UNCHANGED << calls, send_id, clientVars, result >>
    BY <1>7 DEF StoreId, AwaitResponse, Poll, request
  <2>2. PICK from \in PCs \ {"idle"}, to \in PCs \ {"idle"} : Goto(t, from, to)
    BY <1>7, PlacesNamed DEF StoreId, AwaitResponse, Poll
  <2> QED
    BY <1>4, <2>1, <2>2
<1>8. CASE WriteMessage(t)
  <2>1. UNCHANGED << calls, send_id, clientVars, result >>
    BY <1>8 DEF WriteMessage, request
  <2>2. Goto(t, "write", "poll") \/ Goto(t, "write", "idle")
    BY <1>8 DEF WriteMessage
  <2> QED
    BY <1>3, <1>4, <2>1, <2>2, PlacesNamed
<1>9. CASE Fetch(t)
  <2>1. /\ UNCHANGED << calls, send_id, clientVars >>
        /\ \A u \in Callers : u # t => result'[u] = result[u]
    BY <1>1, <1>9 DEF Fetch, request, TypeOK
  <2>2. Goto(t, "fetch", "erase")
    BY <1>9 DEF Fetch
  <2> QED
    BY <1>4, <2>1, <2>2, PlacesNamed
<1>10. CASE Erase(t)
  <2>1. UNCHANGED << calls, send_id, clientVars, result >> /\ Goto(t, "erase", "idle")
    BY <1>10 DEF Erase, request
  <2> QED
    BY <1>3, <2>1
<1> QED
  BY <1>2, <1>5, <1>6, <1>7, <1>8, <1>9, <1>10 DEF CallStep

\* An answer that leaves the client answers a call that was made.
LEMMA AnswerRefined ==
  ASSUME Replies, ClientReceive
  PROVE  [Promise!Next]_(Promise!vars)
<1>1. UNCHANGED << calls, Calling, send_id, client_id, Returned >>
  BY DEF ClientReceive, request, Calling, Returned
<1>2. CASE answered' = answered
  BY <1>1, <1>2 DEF Promise!vars, Returned
<1>3. CASE to_client # << >> /\ answered' = answered \cup {Head(to_client).says}
  <2> DEFINE s == Head(to_client).says
  <2>1. to_client \in Seq(Messages)
    BY DEF Replies, UnderWay, Typed, TypeOK
  <2>2. Head(to_client) \in Asked
    BY <1>3, <2>1, HeadTail DEF Replies, Traced
  <2>3. /\ s \in AllCalls /\ s[2] <= calls[s[1]]
        /\ calls \in [Callers -> 0..MaxCalls]
    BY <2>2 DEF Asked, Replies, UnderWay, Typed, TypeOK
  <2> HIDE DEF s
  <2>4. PICK t \in Callers, n \in 1..MaxCalls : s = << t, n >>
    BY <2>3 DEF AllCalls
  <2>5. n \in 1..calls[t]
    BY <2>3, <2>4
  <2>6. CASE << t, n >> \in answered
    BY <1>2, <1>3, <2>4, <2>6 DEF s
  <2>7. CASE << t, n >> \notin answered
    <3>1. Promise!Answer(t, n)
      BY <1>1, <1>3, <2>4, <2>5, <2>7 DEF s, Promise!Answer, Returned
    <3> QED
      BY <3>1 DEF Promise!Next
  <2> QED
    BY <2>6, <2>7
<1> QED
  BY <1>2, <1>3 DEF ClientReceive

\* A message of the client's own is told.
LEMMA TellRefined ==
  ASSUME Replies, Typed', ClientSend
  PROVE  Promise!Next
<1>1. UNCHANGED << calls, Calling, send_id, answered, Returned >>
  BY DEF ClientSend, request, Calling, Returned
<1>2. client_id \in Nat /\ client_id' = client_id + 1 /\ client_id' \in Ids
  <2>1. client_id \in 0..MaxOwn /\ client_id' \in 0..MaxOwn
    BY DEF Replies, UnderWay, Typed, TypeOK
  <2>2. client_id' = client_id + 1
    BY DEF ClientSend
  <2> QED
    BY <2>1, <2>2, IdFacts
<1>3. client_id' \notin Own /\ Own' = Own \cup {client_id'}
  BY <1>2 DEF Own
<1>4. Promise!Tell(client_id')
  BY <1>1, <1>3 DEF Promise!Tell, Returned, Own
<1> QED
  BY <1>2, <1>4 DEF Promise!Next

LEMMA PromiseStep ==
  ASSUME Replies, Typed', [Next]_vars
  PROVE  [Promise!Next]_(Promise!vars)
<1>1. CASE \E t \in Callers : (alive /\ SendMessage(t)) \/ CallStep(t)
  BY <1>1, CallerRefined
<1>2. CASE ClientReceive
  BY <1>2, AnswerRefined
<1>3. CASE ClientSend
  BY <1>3, TellRefined
<1>4. CASE Receive \/ Match \/ File \/ UNCHANGED vars
  <2>1. UNCHANGED << calls, send_id, answered, client_id, pc, result >>
    BY <1>4 DEF Receive, Match, File, vars, request, clientVars
  <2> QED
    BY <2>1 DEF Promise!vars, Calling
<1> QED
  BY <1>1, <1>2, <1>3, <1>4 DEF Next

\* If the application makes its calls one at a time, they do what RequestReply
\* allows: a call returns its own answer, given by then, or nothing, or what the
\* client has by then sent under the id of the call by itself.
THEOREM ReplyRefined == Spec /\ []OneCallAtATime => Promise!SafeSpec
<1>1. Replies /\ Typed' /\ [Next]_vars => [Promise!Next]_(Promise!vars)
  BY PromiseStep
<1>2. Replies => Typed
  BY DEF Replies, UnderWay
<1> QED
  BY <1>1, <1>2, InitPromise, RepliesInvariance, PTL DEF Spec, Promise!SafeSpec
=============================================================================
