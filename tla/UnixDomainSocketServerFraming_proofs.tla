----------------- MODULE UnixDomainSocketServerFraming_proofs -----------------
(***************************************************************************)
(* What the callback of UnixDomainSocketServer is given, for every set of  *)
(* connections and every bound: messages the clients sent, whole and in    *)
(* order.  The proof follows one stream at a time: how a client writes it  *)
(* (Streams), and which part of it the message map holds (Filed).          *)
(***************************************************************************)
EXTENDS UnixDomainSocketServer_proofs

USE ListenerAssumption, ProductAssumption, FdAssumption, BoundAssumption

-----------------------------------------------------------------------------
(* What a client writes.                                                   *)

\* Every header was built by the client, with an id it has given out.
HeadersNumbered(c) ==
  /\ \A i \in DOMAIN written[c] :
       written[c][i].part = HeaderPart =>
         /\ written[c][i].from = c
         /\ written[c][i].id \in 1..message_id[c]
         /\ written[c][i].size \in 1..MaxSize
  /\ message_id[c] <= quota[c]

HeadersOrdered(c) ==
  \A i, j \in DOMAIN written[c] :
    /\ i < j
    /\ written[c][i].part = HeaderPart /\ written[c][j].part = HeaderPart
    => written[c][i].id < written[c][j].id

\* The product code is written once.
GreetedOnce(c) ==
  \A i, j \in DOMAIN written[c] :
    written[c][i].part = ProductPart /\ written[c][j].part = ProductPart => i = j

Part(u, k) == [u EXCEPT !.part = k]

\* No product code among the units i to j of a stream.
Unbroken(c, i, j) == \A k \in i..j : written[c][k].part # ProductPart

\* Behind a header come the other units of its message, unless the product
\* code came in between.  (Said of each unit and the header before it, and
\* not as "the stream is a concatenation of messages", it needs no induction
\* over the stream.)
BodyFollows(c) ==
  \A i, j \in DOMAIN written[c] :
    /\ written[c][i].part = HeaderPart
    /\ i <= j /\ j - i < written[c][i].size
    /\ Unbroken(c, i, j)
    => written[c][j] = Part(written[c][i], j - i + 1)

\* The stream ends with the first r units of the message whose header is
\* unit i, and more of them are to come.
Open(c, i, r) ==
  /\ written[c][i].part = HeaderPart
  /\ r < written[c][i].size
  /\ Unbroken(c, i, Len(written[c]))

\* WriteMessage holds the units of that message from the one after r on.
HoldsRest(c, i, r) ==
  /\ Len(sending[c]) = written[c][i].size - r
  /\ \A k \in 1..Len(sending[c]) : sending[c][k] = Part(written[c][i], r + k)

\* What is missing of the last message is what WriteMessage still holds.
RestPending(c) ==
  \A i \in DOMAIN written[c] :
    LET r == Len(written[c]) - i + 1
    IN  peer[c] \in {"idle", "open"} /\ Open(c, i, r) => HoldsRest(c, i, r)

RestHasNoHeader(c) == \A k \in DOMAIN sending[c] : sending[c][k].part # HeaderPart

Stream(c) ==
  /\ HeadersNumbered(c) /\ HeadersOrdered(c) /\ GreetedOnce(c)
  /\ BodyFollows(c) /\ RestPending(c) /\ RestHasNoHeader(c)

Streams == \A c \in Conns : Stream(c)

\* The units of a message differ in their place only.
LEMMA UnitParts ==
  ASSUME NEW f, NEW i, NEW n, NEW x, NEW k,
         NEW u, u = [from |-> f, id |-> i, size |-> n, part |-> x]
  PROVE  Part(u, k) = [from |-> f, id |-> i, size |-> n, part |-> k]
  BY DEF Part

\* The rest of a message in a stream that has M units.
LEMMA RestPendingNext ==
  ASSUME NEW c \in Conns, NEW M, M = Len(written'[c]),
         \A i \in DOMAIN written'[c] :
           Open(c, i, M - i + 1)' => HoldsRest(c, i, M - i + 1)'
  PROVE  RestPending(c)'
  BY DEF RestPending

\* A stream nobody writes to stays as it is, also when its client leaves.
LEMMA StreamStays ==
  ASSUME NEW c \in Conns, Stream(c),
         written'[c] = written[c], message_id'[c] = message_id[c],
         \/ sending'[c] = sending[c]
         \/ sending'[c] = << >> /\ peer'[c] \notin {"idle", "open"},
         peer'[c] \in {"idle", "open"} => peer[c] \in {"idle", "open"}
  PROVE  Stream(c)'
<1>1. /\ HeadersNumbered(c)' /\ HeadersOrdered(c)' /\ GreetedOnce(c)'
  BY DEF Stream, HeadersNumbered, HeadersOrdered, GreetedOnce
<1>2. BodyFollows(c)'
  BY DEF Stream, BodyFollows, Unbroken
<1>3. RestPending(c)'
  <2>1. CASE peer'[c] \notin {"idle", "open"}
    BY <2>1 DEF RestPending
  <2>2. CASE peer'[c] \in {"idle", "open"}
    BY <2>2 DEF Stream, RestPending, Open, HoldsRest, Unbroken
  <2> QED
    BY <2>1, <2>2
<1>4. RestHasNoHeader(c)'
  <2>1. CASE sending'[c] = << >>
    BY <2>1 DEF RestHasNoHeader
  <2>2. CASE sending'[c] = sending[c]
    BY <2>2 DEF Stream, RestHasNoHeader
  <2> QED
    BY <2>1, <2>2
<1> QED
  BY <1>1, <1>2, <1>3, <1>4 DEF Stream

\* A write puts one unit behind the others.
LEMMA LastUnit ==
  ASSUME TypeOK, NEW c \in Conns, NEW u \in Units, Write(c, u)
  PROVE  /\ Len(written[c]) \in Nat
         /\ DOMAIN written[c] = 1..Len(written[c])
         /\ Len(written'[c]) = Len(written[c]) + 1
         /\ DOMAIN written'[c] = 1..(Len(written[c]) + 1)
         /\ \A i \in 1..Len(written[c]) : written'[c][i] = written[c][i]
         /\ written'[c][Len(written[c]) + 1] = u
         /\ \A d \in Conns \ {c} : written'[d] = written[d]
         /\ peer' = peer
<1>1. written[c] \in Seq(Units)
  BY DEF TypeOK
<1>2. /\ written'[c] = Append(written[c], u)
      /\ \A d \in Conns \ {c} : written'[d] = written[d]
      /\ peer' = peer
  BY DEF Write, TypeOK
<1>3. /\ Append(written[c], u) \in Seq(Units)
      /\ Len(Append(written[c], u)) = Len(written[c]) + 1
      /\ \A j \in 1..Len(written[c]) : Append(written[c], u)[j] = written[c][j]
      /\ Append(written[c], u)[Len(written[c]) + 1] = u
  BY <1>1, AppendProperties
<1>4. Len(written[c]) \in Nat /\ DOMAIN written[c] = 1..Len(written[c])
  BY <1>1, LenProperties
<1>5. DOMAIN Append(written[c], u) = 1..(Len(written[c]) + 1)
  BY <1>3, LenProperties
<1> QED
  BY <1>2, <1>3, <1>4, <1>5

\* An unbroken piece of the longer stream is one of the shorter.
LEMMA UnbrokenBefore ==
  ASSUME TypeOK, NEW c \in Conns, NEW u \in Units, Write(c, u),
         NEW i \in 1..Len(written[c]), NEW j \in Int, i <= j, Unbroken(c, i, j)'
  PROVE  /\ j <= Len(written[c]) => Unbroken(c, i, j)
         /\ j = Len(written[c]) + 1 => Unbroken(c, i, Len(written[c])) /\ u.part # ProductPart
<1>1. PICK N \in Nat : N = Len(written[c])
  BY LastUnit
<1>2. /\ \A k \in 1..N : written'[c][k] = written[c][k]
      /\ written'[c][N + 1] = u
  BY <1>1, LastUnit
<1>3. \A k \in i..j : written'[c][k].part # ProductPart
  BY DEF Unbroken
<1>4. i \in 1..N
  BY <1>1
<1>5. ASSUME j <= N PROVE Unbroken(c, i, j)
  <2>1. \A k \in i..j : k \in 1..N
    BY <1>4, <1>5
  <2> QED
    BY <1>2, <1>3, <2>1 DEF Unbroken
<1>6. ASSUME j = N + 1 PROVE Unbroken(c, i, N) /\ u.part # ProductPart
  <2>1. \A k \in i..N : k \in i..j /\ k \in 1..N
    BY <1>4, <1>6
  <2>2. N + 1 \in i..j
    BY <1>4, <1>6
  <2>3. Unbroken(c, i, N)
    BY <1>2, <1>3, <2>1 DEF Unbroken
  <2> QED
    BY <1>2, <1>3, <2>2, <2>3
<1> QED
  BY <1>1, <1>5, <1>6

\* Bodies still follow their headers if the new unit continues the message
\* it is written behind.
LEMMA BodyStep ==
  ASSUME TypeOK, NEW c \in Conns, NEW u \in Units, Write(c, u), BodyFollows(c),
         \A i \in 1..Len(written[c]) :
           /\ written[c][i].part = HeaderPart
           /\ Len(written[c]) - i + 1 < written[c][i].size
           /\ Unbroken(c, i, Len(written[c]))
           /\ u.part # ProductPart
           => u = Part(written[c][i], Len(written[c]) - i + 2)
  PROVE  BodyFollows(c)'
<1> DEFINE N == Len(written[c])
<1>0. /\ N \in Nat /\ DOMAIN written[c] = 1..N /\ DOMAIN written'[c] = 1..(N + 1)
      /\ \A k \in 1..N : written'[c][k] = written[c][k]
      /\ written'[c][N + 1] = u
  BY LastUnit
<1> SUFFICES ASSUME NEW i \in DOMAIN written'[c], NEW j \in DOMAIN written'[c],
                    written'[c][i].part = HeaderPart,
                    i <= j, j - i < written'[c][i].size,
                    Unbroken(c, i, j)'
             PROVE  written'[c][j] = Part(written'[c][i], j - i + 1)
  BY DEF BodyFollows
<1>1. i \in 1..(N + 1) /\ j \in 1..(N + 1)
  BY <1>0
<1>2. CASE j <= N
  <2>1. i \in 1..N /\ j \in 1..N
    BY <1>0, <1>1, <1>2
  <2>2. Unbroken(c, i, j)
    BY <1>2, <2>1, UnbrokenBefore
  <2> QED
    BY <1>0, <2>1, <2>2 DEF BodyFollows
<1>3. CASE j = N + 1 /\ i = N + 1
  <2>1. Part(u, 1) = u
    BY <1>0, <1>3 DEF Part, Units, Unit, HeaderPart
  <2> QED
    BY <1>0, <1>3, <2>1
<1>4. CASE j = N + 1 /\ i <= N
  <2>1. i \in 1..N
    BY <1>0, <1>1, <1>4
  <2>2. Unbroken(c, i, N) /\ u.part # ProductPart
    BY <1>0, <1>1, <1>4, <2>1, UnbrokenBefore
  <2>3. N - i + 1 = j - i /\ N - i + 2 = j - i + 1
    <3>1. N \in Nat
      BY <1>0
    <3> QED
      BY <1>4, <2>1, <3>1
  <2>4. written'[c][i] = written[c][i] /\ written'[c][j] = u
    BY <1>0, <1>4, <2>1
  <2>5. N - i + 1 < written[c][i].size /\ written[c][i].part = HeaderPart
    BY <2>3, <2>4
  <2>6. u = Part(written[c][i], N - i + 2)
    BY <2>1, <2>2, <2>5
  <2> QED
    BY <2>3, <2>4, <2>6
<1> QED
  BY <1>0, <1>1, <1>2, <1>3, <1>4

\* MainHandler's product code is a unit of its own between two writes.
LEMMA GreetingStream ==
  ASSUME TypeOK, OnlyGreetingNames, NEW c \in Conns, Stream(c), WriteProduct(c)
  PROVE  Stream(c)'
<1>1. PICK u \in Units : u = ProductUnit(c)
  BY ProductUnitType
<1>2. /\ Write(c, u) /\ sending' = sending /\ message_id' = message_id
      /\ u.part = ProductPart /\ ProductPart # HeaderPart
  BY <1>1 DEF WriteProduct, ProductUnit, ProductPart, HeaderPart
<1>0. PICK N \in Nat :
        /\ N = Len(written[c])
        /\ DOMAIN written[c] = 1..N /\ DOMAIN written'[c] = 1..(N + 1)
        /\ \A k \in 1..N : written'[c][k] = written[c][k]
        /\ written'[c][N + 1] = u /\ Len(written'[c]) = N + 1
  BY <1>2, LastUnit
<1>8. \A i \in DOMAIN written'[c] :
        \/ i \in DOMAIN written[c] /\ i \in 1..N /\ written'[c][i] = written[c][i]
        \/ i = N + 1 /\ written'[c][i].part = ProductPart
  BY <1>0, <1>2
<1>3. HeadersNumbered(c)' /\ HeadersOrdered(c)'
  <2>1. HeadersNumbered(c)'
    BY <1>2, <1>8 DEF Stream, HeadersNumbered
  <2>2. HeadersOrdered(c)'
    BY <1>2, <1>8 DEF Stream, HeadersOrdered
  <2> QED
    BY <2>1, <2>2
<1>4. GreetedOnce(c)'
  <2>1. \A i \in 1..N : written[c][i].part # ProductPart
    BY <1>0 DEF OnlyGreetingNames, WriteProduct
  <2>2. \A i \in DOMAIN written'[c] : written'[c][i].part = ProductPart => i = N + 1
    BY <1>8, <2>1
  <2> QED
    BY <2>2 DEF GreetedOnce
<1>5. BodyFollows(c)'
  BY <1>2, BodyStep DEF Stream
<1>6. RestPending(c)'
  <2>1. \A i \in DOMAIN written'[c] : N + 1 \in i..Len(written'[c])
    BY <1>0
  <2>2. \A i \in DOMAIN written'[c] : ~Unbroken(c, i, Len(written[c]))'
    BY <1>0, <1>2, <2>1 DEF Unbroken
  <2> QED
    BY <2>2 DEF RestPending, Open
<1>7. RestHasNoHeader(c)'
  BY <1>2 DEF Stream, RestHasNoHeader
<1> QED
  BY <1>3, <1>4, <1>5, <1>6, <1>7 DEF Stream
\* A header announces a number.
LEMMA HeaderSize ==
  ASSUME NEW c \in Conns, Stream(c), NEW i \in DOMAIN written[c],
         written[c][i].part = HeaderPart
  PROVE  written[c][i].size \in Int
<1>1. written[c][i].size \in 1..MaxSize
  BY DEF Stream, HeadersNumbered
<1> QED
  BY <1>1

\* SendMessage begins a message: its header is written only when nothing of
\* the message before it is pending.
LEMMA HeaderStream ==
  ASSUME TypeOK, NEW c \in Conns, Stream(c), SendMessage(c)
  PROVE  Stream(c)'
<1>1. PICK n \in 1..MaxSize :
        /\ Write(c, Head(NewMessage(c, message_id[c] + 1, n)))
        /\ sending' = [sending EXCEPT ![c] = Tail(NewMessage(c, message_id[c] + 1, n))]
  BY DEF SendMessage
<1>2. PICK m \in Nat : m = message_id[c]
  BY DEF TypeOK
<1>3. /\ m < quota[c] /\ quota[c] \in 0..MaxMessages /\ m + 1 \in 0..MaxMessages
      /\ message_id'[c] = m + 1 /\ sending[c] = << >>
  BY <1>2 DEF SendMessage, TypeOK
<1>4. PICK msg \in Seq(Units) : msg = NewMessage(c, m + 1, n)
  BY <1>3, NewMessageType
<1>5. /\ msg # << >> /\ Len(msg) = n /\ n \in Nat
      /\ \A k \in 1..n : msg[k] = [from |-> c, id |-> m + 1, size |-> n, part |-> k]
  <2>1. msg # << >> /\ Len(msg) = n
    BY <1>3, <1>4, NewMessageType
  <2>2. msg = [k \in 1..n |-> [from |-> c, id |-> m + 1, size |-> n, part |-> k]]
    BY <1>4 DEF NewMessage
  <2>3. n \in Nat
    OBVIOUS
  <2> QED
    BY <2>1, <2>2, <2>3
<1>6. /\ Head(msg) = msg[1] /\ Tail(msg) \in Seq(Units) /\ Len(Tail(msg)) = n - 1
      /\ \A k \in 1..(n - 1) : Tail(msg)[k] = msg[k + 1]
  BY <1>5, HeadTailProperties
<1>7. PICK u \in Units : u = [from |-> c, id |-> m + 1, size |-> n, part |-> 1]
  <2>1. 1 \in 1..MaxSize
    OBVIOUS
  <2>2. [from |-> c, id |-> m + 1, size |-> n, part |-> 1] \in Units
    BY <1>3, <2>1 DEF Units, Unit
  <2> QED
    BY <2>2
<1>8. /\ Write(c, u) /\ sending'[c] = Tail(msg)
      /\ u.part = HeaderPart /\ u.part # ProductPart
  <2>1. 1 \in 1..n
    OBVIOUS
  <2>2. Head(msg) = u
    BY <1>5, <1>6, <1>7, <2>1
  <2>3. Write(c, u)
    BY <1>1, <1>2, <1>4, <2>2
  <2>4. sending'[c] = Tail(msg)
    BY <1>1, <1>2, <1>4 DEF TypeOK
  <2> QED
    BY <1>7, <2>3, <2>4 DEF HeaderPart, ProductPart
<1>9. PICK N \in Nat :
        /\ N = Len(written[c]) /\ N + 1 = Len(written'[c])
        /\ DOMAIN written[c] = 1..N /\ DOMAIN written'[c] = 1..(N + 1)
        /\ \A k \in 1..N : written'[c][k] = written[c][k]
        /\ written'[c][N + 1] = u /\ peer' = peer /\ peer[c] = "open"
  BY <1>8, LastUnit DEF SendMessage
<1>10. \A i \in DOMAIN written'[c] :
         \/ i \in DOMAIN written[c] /\ i \in 1..N /\ written'[c][i] = written[c][i]
         \/ i = N + 1 /\ written'[c][i] = u
  BY <1>9
<1>11. HeadersNumbered(c)'
  <2>1. \A i \in DOMAIN written[c] :
          written[c][i].part = HeaderPart =>
            /\ written[c][i].from = c
            /\ written[c][i].id \in 1..(m + 1)
            /\ written[c][i].size \in 1..MaxSize
    BY <1>2 DEF Stream, HeadersNumbered
  <2>2. u.from = c /\ u.id \in 1..(m + 1) /\ u.size \in 1..MaxSize
    BY <1>7
  <2>3. m + 1 <= quota[c]
    BY <1>3
  <2> QED
    BY <1>3, <1>10, <2>1, <2>2, <2>3 DEF HeadersNumbered
<1>12. HeadersOrdered(c)'
  <2>1. \A i \in DOMAIN written[c] :
          written[c][i].part = HeaderPart => written[c][i].id < u.id
    BY <1>2, <1>7 DEF Stream, HeadersNumbered
  <2>2. ASSUME NEW i \in DOMAIN written'[c], NEW j \in DOMAIN written'[c],
               i < j,
               written'[c][i].part = HeaderPart, written'[c][j].part = HeaderPart
        PROVE  written'[c][i].id < written'[c][j].id
    <3>1. i \in DOMAIN written[c] /\ written'[c][i] = written[c][i]
      <4>1. i \in 1..(N + 1) /\ j \in 1..(N + 1)
        BY <1>9
      <4>2. i \in 1..N
        BY <2>2, <4>1
      <4> QED
        BY <1>9, <4>2
    <3>2. CASE j \in DOMAIN written[c] /\ written'[c][j] = written[c][j]
      BY <2>2, <3>1, <3>2 DEF Stream, HeadersOrdered
    <3>3. CASE written'[c][j] = u
      BY <2>1, <2>2, <3>1, <3>3
    <3> QED
      BY <1>10, <3>2, <3>3
  <2> QED
    BY <2>2 DEF HeadersOrdered
<1>13. GreetedOnce(c)'
  BY <1>8, <1>10 DEF Stream, GreetedOnce
\* No header is left without its whole message.
<1>14. \A i \in 1..N :
         ~ (/\ written[c][i].part = HeaderPart
            /\ N - i + 1 < written[c][i].size
            /\ Unbroken(c, i, N))
  <2>1. SUFFICES ASSUME NEW i \in 1..N,
                        written[c][i].part = HeaderPart,
                        N - i + 1 < written[c][i].size,
                        Unbroken(c, i, N)
                 PROVE  FALSE
    OBVIOUS
  <2>2. Len(sending[c]) = written[c][i].size - (N - i + 1)
    BY <1>9, <2>1 DEF Stream, RestPending, Open, HoldsRest
  <2>3. written[c][i].size \in Int
    BY <1>9, <2>1, HeaderSize
  <2>4. Len(sending[c]) = 0
    BY <1>3, EmptySeq
  <2> QED
    BY <2>1, <2>2, <2>3, <2>4
<1>15. BodyFollows(c)'
  BY <1>8, <1>9, <1>14, BodyStep DEF Stream
<1>16. RestPending(c)'
  <2>0. SUFFICES ASSUME NEW i \in DOMAIN written'[c], Open(c, i, (N + 1) - i + 1)'
                 PROVE  HoldsRest(c, i, (N + 1) - i + 1)'
    BY <1>9, RestPendingNext
  <2>1. /\ written'[c][i].part = HeaderPart
        /\ (N + 1) - i + 1 < written'[c][i].size
        /\ Unbroken(c, i, Len(written[c]))'
    BY <2>0 DEF Open
  <2>2. CASE i \in 1..N
    <3>1. Unbroken(c, i, N)
      <4>1. Unbroken(c, i, N + 1)'
        <5>1. \A k \in i..(N + 1) : written'[c][k].part # ProductPart
          BY <1>9, <2>1 DEF Unbroken
        <5> QED
          BY <5>1 DEF Unbroken
      <4> QED
        BY <1>8, <1>9, <2>2, <4>1, UnbrokenBefore
    <3>2. i \in DOMAIN written[c] /\ written[c][i].part = HeaderPart
      BY <1>9, <2>1, <2>2
    <3>3. written[c][i].size \in Int /\ written'[c][i] = written[c][i]
      BY <1>9, <2>2, <3>2, HeaderSize
    <3>4. N - i + 1 < written[c][i].size
      BY <2>1, <2>2, <3>3
    <3> QED
      BY <1>14, <2>2, <3>1, <3>2, <3>4
  <2>3. CASE i = N + 1
    <3>1. written'[c][i] = u /\ (N + 1) - i + 1 = 1
      BY <1>9, <2>3
    <3>2. Len(sending'[c]) = n - 1 /\ u.size = n
      BY <1>6, <1>7, <1>8
    <3>3. \A k \in 1..(n - 1) : sending'[c][k] = Part(u, 1 + k)
      <4>1. TAKE k \in 1..(n - 1)
      <4>2. k + 1 \in 1..n /\ k + 1 = 1 + k
        BY <1>5
      <4>3. sending'[c][k] = msg[k + 1]
        BY <1>6, <1>8
      <4>4. msg[k + 1] = [from |-> c, id |-> m + 1, size |-> n, part |-> k + 1]
        BY <1>5, <4>2
      <4>5. Part(u, k + 1) = [from |-> c, id |-> m + 1, size |-> n, part |-> k + 1]
        BY <1>7, UnitParts
      <4> QED
        BY <4>2, <4>3, <4>4, <4>5
    <3>4. Len(sending'[c]) = n - 1 /\ \A k \in 1..Len(sending'[c]) : sending'[c][k] = Part(u, 1 + k)
      BY <3>2, <3>3
    <3>5. HoldsRest(c, i, 1)'
      BY <3>1, <3>2, <3>4 DEF HoldsRest
    <3> QED
      BY <3>1, <3>5
  <2>4. i \in 1..(N + 1)
    BY <1>9
  <2> QED
    BY <2>2, <2>3, <2>4
<1>17. RestHasNoHeader(c)'
  <2>1. DOMAIN Tail(msg) = 1..(n - 1)
    BY <1>6, LenProperties
  <2>2. \A k \in 1..(n - 1) : k + 1 \in 1..n /\ k + 1 # 1
    BY <1>5
  <2>3. \A k \in 1..(n - 1) : Tail(msg)[k].part = k + 1
    BY <1>5, <1>6, <2>2
  <2> QED
    BY <1>8, <2>1, <2>2, <2>3 DEF RestHasNoHeader, HeaderPart
<1> QED
  BY <1>11, <1>12, <1>13, <1>15, <1>16, <1>17 DEF Stream

\* A later write() of WriteMessage continues the message it belongs to.
LEMMA BodyStream ==
  ASSUME TypeOK, OnlyGreetingNames, NEW c \in Conns, Stream(c), WriteMessage(c)
  PROVE  Stream(c)'
<1>1. PICK s \in Seq(Units) : s = sending[c]
  BY DEF TypeOK
<1>2. /\ s # << >> /\ Len(s) \in Nat \ {0} /\ DOMAIN s = 1..Len(s)
  BY <1>1, EmptySeq, LenProperties DEF WriteMessage
<1>3. /\ Head(s) = s[1] /\ Head(s) \in Units
      /\ Tail(s) \in Seq(Units) /\ Len(Tail(s)) = Len(s) - 1
      /\ \A k \in 1..(Len(s) - 1) : Tail(s)[k] = s[k + 1]
  BY <1>2, HeadTailProperties
<1>4. PICK u \in Units : u = s[1]
  BY <1>3
<1>5. /\ Write(c, u) /\ sending'[c] = Tail(s) /\ message_id' = message_id
  BY <1>1, <1>3, <1>4 DEF WriteMessage, TypeOK
<1>6. u.part # HeaderPart /\ u.part # ProductPart
  <2>1. 1 \in DOMAIN sending[c]
    BY <1>1, <1>2
  <2> QED
    BY <1>1, <1>4, <2>1 DEF Stream, RestHasNoHeader, OnlyGreetingNames
<1>9. PICK N \in Nat :
        /\ N = Len(written[c]) /\ N + 1 = Len(written'[c])
        /\ DOMAIN written[c] = 1..N /\ DOMAIN written'[c] = 1..(N + 1)
        /\ \A k \in 1..N : written'[c][k] = written[c][k]
        /\ written'[c][N + 1] = u /\ peer' = peer /\ peer[c] = "open"
  BY <1>5, LastUnit DEF WriteMessage
<1>10. \A i \in DOMAIN written'[c] :
         \/ i \in DOMAIN written[c] /\ i \in 1..N /\ written'[c][i] = written[c][i]
         \/ i = N + 1 /\ written'[c][i] = u
  BY <1>9
<1>11. HeadersNumbered(c)'
  BY <1>5, <1>6, <1>10 DEF Stream, HeadersNumbered
<1>12. HeadersOrdered(c)'
  BY <1>6, <1>10 DEF Stream, HeadersOrdered
<1>13. GreetedOnce(c)'
  BY <1>6, <1>10 DEF Stream, GreetedOnce
\* The message that is not complete is the one sending belongs to.
<1>14. ASSUME NEW i \in 1..N,
              written[c][i].part = HeaderPart,
              N - i + 1 < written[c][i].size,
              Unbroken(c, i, N)
       PROVE  /\ written[c][i].size \in Int
              /\ Len(s) = written[c][i].size - (N - i + 1)
              /\ \A k \in 1..Len(s) : s[k] = Part(written[c][i], (N - i + 1) + k)
  <2>1. written[c][i].size \in Int
    BY <1>9, <1>14, HeaderSize
  <2> QED
    BY <1>1, <1>9, <1>14, <2>1 DEF Stream, RestPending, Open, HoldsRest
<1>15. BodyFollows(c)'
  <2>1. ASSUME NEW i \in 1..N,
               written[c][i].part = HeaderPart,
               N - i + 1 < written[c][i].size,
               Unbroken(c, i, N)
        PROVE  u = Part(written[c][i], N - i + 2)
    <3>1. 1 \in 1..Len(s) /\ (N - i + 1) + 1 = N - i + 2
      BY <1>2
    <3> QED
      BY <1>4, <1>14, <2>1, <3>1
  <2> QED
    BY <1>5, <1>9, <2>1, BodyStep DEF Stream
<1>16. RestPending(c)'
  <2>0. SUFFICES ASSUME NEW i \in DOMAIN written'[c], Open(c, i, (N + 1) - i + 1)'
                 PROVE  HoldsRest(c, i, (N + 1) - i + 1)'
    BY <1>9, RestPendingNext
  <2>1. /\ written'[c][i].part = HeaderPart
        /\ (N + 1) - i + 1 < written'[c][i].size
        /\ Unbroken(c, i, Len(written[c]))'
    BY <2>0 DEF Open
  <2>2. i \in 1..N /\ written'[c][i] = written[c][i]
    BY <1>6, <1>10, <2>1
  <2>3. Unbroken(c, i, N)
    <3>1. Unbroken(c, i, N + 1)'
      <4>1. \A k \in i..(N + 1) : written'[c][k].part # ProductPart
        BY <1>9, <2>1 DEF Unbroken
      <4> QED
        BY <4>1 DEF Unbroken
    <3> QED
      BY <1>5, <1>9, <2>2, <3>1, UnbrokenBefore
  <2>4. written[c][i].size \in Int
    BY <1>9, <2>1, <2>2, HeaderSize
  <2>5. N - i + 1 < written[c][i].size /\ written[c][i].part = HeaderPart
    BY <2>1, <2>2, <2>4
  <2>6. /\ Len(s) = written[c][i].size - (N - i + 1)
        /\ \A k \in 1..Len(s) : s[k] = Part(written[c][i], (N - i + 1) + k)
    BY <1>14, <2>2, <2>3, <2>5
  <2>7. Len(sending'[c]) = written'[c][i].size - ((N + 1) - i + 1)
    BY <1>3, <1>5, <2>2, <2>4, <2>6
  <2>8. \A k \in 1..(Len(s) - 1) : sending'[c][k] = Part(written'[c][i], ((N + 1) - i + 1) + k)
    <3>1. TAKE k \in 1..(Len(s) - 1)
    <3>2. k + 1 \in 1..Len(s) /\ (N - i + 1) + (k + 1) = ((N + 1) - i + 1) + k
      BY <1>2, <2>2
    <3>3. sending'[c][k] = s[k + 1]
      BY <1>3, <1>5
    <3> QED
      BY <2>2, <2>6, <3>2, <3>3
  <2>9. Len(sending'[c]) = Len(s) - 1
    BY <1>3, <1>5
  <2> QED
    BY <2>7, <2>8, <2>9 DEF HoldsRest
<1>17. RestHasNoHeader(c)'
  <2>1. DOMAIN Tail(s) = 1..(Len(s) - 1)
    BY <1>3, LenProperties
  <2>2. \A k \in 1..(Len(s) - 1) : k + 1 \in DOMAIN s
    BY <1>2
  <2> QED
    BY <1>1, <1>3, <1>5, <2>1, <2>2 DEF Stream, RestHasNoHeader
<1> QED
  BY <1>11, <1>12, <1>13, <1>15, <1>16, <1>17 DEF Stream

\* Every stream is written the way Streams says, whoever takes a step.
LEMMA StreamsStep ==
  Inv /\ OnlyGreetingNames /\ Streams /\ [Next]_vars => Streams'
<1> SUFFICES ASSUME Inv, OnlyGreetingNames, Streams, [Next]_vars, NEW d \in Conns
             PROVE  Stream(d)'
  BY DEF Streams
<1>0. TypeOK /\ Stream(d)
  BY DEF Inv, Streams
<1>1. CASE EpollWait \/ Accept \/ AcceptFails \/ UNCHANGED vars
  <2>1. UNCHANGED << written, message_id, sending, peer >>
    BY <1>1 DEF EpollWait, Accept, AcceptFails, vars, clientVars
  <2> QED
    BY <1>0, <2>1, StreamStays
<1>2. ASSUME NEW c \in Conns, HandleConnEvent(c)
      PROVE  Stream(d)'
  <2>1. UNCHANGED << written, message_id, sending >>
    BY <1>2
    DEF HandleConnEvent, NothingToRead, Disconnect, DropData, StoreHeader,
        RegisterProduct, AppendToMessage, ReadAll, clientVars
  <2>2. peer'[d] \in {"idle", "open"} => peer[d] \in {"idle", "open"}
    <3>1. peer' = peer \/ TakeError(c)
      BY <1>2, HandlerFrame
    <3>2. TakeError(c) => peer'[d] = peer[d] \/ peer'[d] = "closed"
      BY <1>0 DEF TakeError, TypeOK
    <3> QED
      BY <3>1, <3>2
  <2> QED
    BY <1>0, <2>1, <2>2, StreamStays
<1>3. ASSUME NEW c \in Conns, ClientStep(c)
      PROVE  Stream(d)'
  <2>1. CASE c = d /\ (WriteProduct(c) \/ SendMessage(c) \/ WriteMessage(c))
    BY <1>0, <2>1, GreetingStream, HeaderStream, BodyStream
  <2>2. CASE Connect(c)
    <3>1. /\ UNCHANGED << written, message_id, sending >>
          /\ peer'[d] = peer[d] \/ peer[d] = "idle"
      BY <1>0, <2>2 DEF Connect, TypeOK
    <3> QED
      BY <1>0, <3>1, StreamStays
  <2>3. CASE CloseClient(c)
    <3>1. /\ UNCHANGED << written, message_id >>
          /\ \/ sending'[d] = sending[d] /\ peer'[d] = peer[d]
             \/ sending'[d] = << >> /\ peer'[d] \notin {"idle", "open"}
      BY <1>0, <2>3 DEF CloseClient, TypeOK
    <3> QED
      BY <1>0, <3>1, StreamStays
  <2>4. CASE c # d /\ (WriteProduct(c) \/ SendMessage(c) \/ WriteMessage(c))
    <3>1. /\ message_id'[d] = message_id[d] /\ sending'[d] = sending[d]
          /\ peer' = peer
      BY <1>0, <2>4 DEF WriteProduct, SendMessage, WriteMessage, Write, TypeOK
    <3>2. written'[d] = written[d]
      BY <1>0, <1>3, <2>4, WrittenFrame
    <3> QED
      BY <1>0, <3>1, <3>2, StreamStays
  <2> QED
    BY <1>3, <2>1, <2>2, <2>3, <2>4 DEF ClientStep
<1> QED
  BY <1>1, <1>2, <1>3 DEF Next, ServerStep

-----------------------------------------------------------------------------
(* What the server files.                                                  *)

\* The connection whose session the product has.
Owner(c, p) == socket_list_[p] # NoFd /\ fd[c] = socket_list_[p]

\* m is the last part of the first e units of a stream; it begins with a
\* header and has no product code in it.
Segment(c, m, e) ==
  m # << >> =>
    /\ Len(m) <= e
    /\ m[1].part = HeaderPart
    /\ \A k \in 1..Len(m) : /\ m[k] = written[c][e - Len(m) + k]
                            /\ m[k].part # ProductPart

\* Nothing is filed under a product, or delivered for it, before it has a
\* session: until then everything goes under product 0 (151-157).
SessionFirst ==
  \A p \in Products \ {0} :
    /\ message_map_[p] # << >> => socket_list_[p] # NoFd
    /\ \A i \in DOMAIN delivered :
         delivered[i].product = p => socket_list_[p] # NoFd

\* What is stored for a product is what was read last from its connection,
\* from some header on.
Filed ==
  \A p \in Products \ {0}, c \in Conns :
    Owner(c, p) => Segment(c, message_map_[p], consumed[c])

\* What was delivered is a message of the owner, and its header came before
\* everything that is stored.
DeliveredBefore ==
  \A p \in Products \ {0}, c \in Conns, i \in DOMAIN delivered :
    Owner(c, p) /\ delivered[i].product = p =>
      /\ Sent(c, delivered[i].msg)
      /\ \E h \in 1..(consumed[c] - Len(message_map_[p])) :
           written[c][h] = delivered[i].msg[1]

\* Messages of one product in the order of their ids.
DeliveredInOrder ==
  \A i \in DOMAIN delivered :
    delivered[i].product # 0 =>
      \A j \in 1..(i - 1) :
        delivered[j].product = delivered[i].product =>
          GetMessageId(delivered[j].msg) < GetMessageId(delivered[i].msg)

FramingInv == SessionFirst /\ Filed /\ DeliveredBefore /\ DeliveredInOrder

Sessions == Inv /\ SessionInv /\ SessionsAnnounced

\* No product code is the number of a descriptor.
CodesApart == Products \cap Fds = {}

\* The owner of a session: its data is filed under its product.
LEMMA OwnerProperties ==
  ASSUME Sessions, NEW p \in Products, NEW c \in Conns, Owner(c, p)
  PROVE  /\ Key(c) = p /\ ~Ignored(c)
         /\ product_code[c] = p /\ Announced(c)
         /\ \A d \in Conns, q \in Products : Owner(d, q) => d = c /\ q = p
<1>1. NoProduct \notin Products
  BY DEF NoProduct, Products
<1>2. reverse_socket_list_[fd[c]] = p
  BY DEF Sessions, SessionInv, SessionSound, Owner
<1>3. HasSessions /\ Identified(c)
  BY <1>1, <1>2 DEF HasSessions, Identified, Owner
<1>4. \A d \in Conns, q \in Products : Owner(d, q) => d = c /\ q = p
  BY DEF Sessions, SessionInv, AtMostOneSession, Inv, FdsUnique, Owner
<1>5. product_code[c] = p /\ Announced(c)
  <2>1. PICK d \in Conns : /\ fd[d] = socket_list_[p]
                           /\ product_code[d] = p
                           /\ Announced(d)
    BY DEF Sessions, SessionsAnnounced, Owner
  <2> QED
    BY <1>4, <2>1 DEF Owner
<1> QED
  BY <1>2, <1>3, <1>4, <1>5 DEF Key, Ignored

\* As long as product codes are no descriptor numbers, Remove (133) finds
\* nothing to remove: a session stays for ever.
LEMMA OwnerStays ==
  ASSUME CodesApart, Sessions, [Next]_vars, NEW p \in Products
  PROVE  /\ socket_list_[p] # NoFd => socket_list_'[p] = socket_list_[p]
         /\ \A c \in Conns : Owner(c, p)' => Owner(c, p) \/ socket_list_[p] = NoFd
<1>0. Inv /\ socket_list_ \in [Products -> Fds \cup {NoFd}]
  BY DEF Sessions, Inv, TypeOK
<1>1. socket_list_[p] # NoFd => socket_list_'[p] = socket_list_[p]
  <2>1. ASSUME NEW c \in Conns, socket_list_[product_code[c]] = NoFd,
               socket_list_' = [socket_list_ EXCEPT ![product_code[c]] = fd[c]]
        PROVE  <1>1
    BY <1>0, <2>1
  <2>2. ASSUME NEW c \in Conns, Disconnect(c), fd[c] \in Products
        PROVE  FALSE
    <3>1. c \in watched
      BY <1>0, <2>2 DEF Disconnect, Inv, EventsWatched
    <3>2. fd[c] \in Fds
      BY <1>0, <3>1 DEF Inv, EventsWatched, TypeOK
    <3> QED
      BY <2>2, <3>2 DEF CodesApart
  <2> QED
    BY <1>0, <2>1, <2>2, SessionFrame DEF sessionVars
<1>2. ASSUME NEW c \in Conns, Owner(c, p)', socket_list_[p] # NoFd
      PROVE  Owner(c, p)
  <2>1. PICK d \in Conns : fd[d] = socket_list_[p]
    BY <1>2 DEF Sessions, SessionsAnnounced
  <2>2. fd'[d] = fd[d] /\ fd'[c] = fd[d] /\ fd[d] # NoFd
    BY <1>0, <1>1, <1>2, <2>1, FdStays DEF Owner
  <2>3. FdsUnique'
    BY <1>0, BacklogStep
  <2>4. d = c
    BY <2>2, <2>3 DEF FdsUnique
  <2> QED
    BY <1>2, <2>1, <2>4 DEF Owner
<1> QED
  BY <1>1, <1>2

\* A stored segment of exactly the announced length is the message.
LEMMA PerfectIsSent ==
  ASSUME TypeOK, NEW c \in Conns, Stream(c),
         NEW m \in Seq(Units), NEW e \in Nat, e <= Len(written[c]),
         Segment(c, m, e), m # << >>, GetMessageFullSize(m) = Len(m)
  PROVE  /\ Sent(c, m)
         /\ e - Len(m) + 1 \in 1..e
         /\ written[c][e - Len(m) + 1] = m[1]
         /\ m[1].part = HeaderPart
<1>1. PICK n \in Nat : n = Len(m)
  BY LenProperties
<1>2. PICK N \in Nat : N = Len(written[c]) /\ DOMAIN written[c] = 1..N
  <2>1. written[c] \in Seq(Units)
    BY DEF TypeOK
  <2> QED
    BY <2>1, LenProperties
<1>3. n >= 1 /\ m \in [1..n -> Units]
  BY <1>1, EmptySeq, LenProperties
<1>4. PICK h \in Int : h = e - n + 1
  OBVIOUS
<1>5. /\ n <= e /\ m[1].part = HeaderPart /\ m[1].size = n
      /\ \A k \in 1..n : m[k] = written[c][e - n + k] /\ m[k].part # ProductPart
  BY <1>1 DEF Segment, GetMessageFullSize
<1>6. h \in 1..e /\ h \in DOMAIN written[c]
  BY <1>2, <1>3, <1>4, <1>5
<1>7. written[c][h] = m[1]
  <2>1. 1 \in 1..n /\ e - n + 1 = h
    BY <1>3, <1>4
  <2> QED
    BY <1>5, <2>1
<1>8. /\ m[1].from = c /\ m[1].id \in 1..quota[c] /\ n \in 1..MaxSize
  <2>1. /\ m[1].from = c /\ m[1].id \in 1..message_id[c] /\ n \in 1..MaxSize
        /\ message_id[c] <= quota[c]
    BY <1>5, <1>6, <1>7 DEF Stream, HeadersNumbered
  <2>2. message_id[c] \in Nat /\ quota[c] \in Nat
    BY DEF TypeOK
  <2> QED
    BY <2>1, <2>2
<1>9. ASSUME NEW k \in 1..n
      PROVE  m[k] = Part(m[1], k)
  <2>1. PICK j \in Int : j = h + k - 1
    BY <1>4
  <2>2. j \in DOMAIN written[c] /\ h <= j /\ j - h < n /\ j - h + 1 = k /\ e - n + k = j
    BY <1>2, <1>3, <1>4, <1>5, <2>1
  <2>3. Unbroken(c, h, j)
    <3>1. ASSUME NEW l \in h..j
          PROVE  written[c][l].part # ProductPart
      <4>1. PICK q \in Int : q = l - h + 1
        BY <1>4
      <4>2. q \in 1..n /\ e - n + q = l
        BY <1>4, <2>1, <4>1
      <4> QED
        BY <1>5, <4>2
    <3> QED
      BY <3>1 DEF Unbroken
  <2>4. written[c][j] = Part(written[c][h], j - h + 1)
    BY <1>5, <1>6, <1>7, <2>2, <2>3 DEF Stream, BodyFollows
  <2> QED
    BY <1>5, <1>7, <2>2, <2>4
<1>10. m = NewMessage(c, m[1].id, n)
  <2>1. PICK u \in Units : u = m[1]
    BY <1>3
  <2>0. u.from = c /\ u.size = n
    BY <1>5, <1>8, <2>1
  <2>2. \A k \in 1..n : Part(m[1], k) = [from |-> c, id |-> m[1].id, size |-> n, part |-> k]
    <3>1. TAKE k \in 1..n
    <3>2. u = [from |-> u.from, id |-> u.id, size |-> u.size, part |-> u.part]
      BY DEF Units, Unit
    <3>3. Part(u, k) = [from |-> u.from, id |-> u.id, size |-> u.size, part |-> k]
      BY <3>2, UnitParts
    <3> QED
      BY <2>0, <2>1, <3>3
  <2>3. m = [k \in 1..n |-> [from |-> c, id |-> m[1].id, size |-> n, part |-> k]]
    BY <1>3, <1>9, <2>2
  <2> QED
    BY <2>3 DEF NewMessage
<1> QED
  BY <1>1, <1>4, <1>5, <1>6, <1>7, <1>8, <1>10 DEF Sent

\* What an owner writes after it was registered has no product code in it.
LEMMA OwnerChunk ==
  ASSUME Sessions, NEW c \in Conns, Stream(c), Announced(c), ReadAll(c)
  PROVE  /\ Chunk(c) \in Seq(Units)
         /\ consumed[c] \in Nat /\ Len(written[c]) \in Nat
         /\ consumed'[c] = Len(written[c])
         /\ Len(Chunk(c)) = Len(written[c]) - consumed[c]
         /\ Len(Chunk(c)) > 0
         /\ \A k \in 1..Len(Chunk(c)) : /\ Chunk(c)[k] = written[c][consumed[c] + k]
                                        /\ Chunk(c)[k].part # ProductPart
<1>1. /\ written[c] \in Seq(Units) /\ consumed[c] \in Nat /\ Len(written[c]) \in Nat
      /\ consumed[c] <= Len(written[c]) /\ TypeOK /\ EventsWatched
      /\ DOMAIN written[c] = 1..Len(written[c])
  BY LenProperties DEF Sessions, Inv, TypeOK, ReadBounded
<1>2. PICK N \in Nat : N = Len(written[c])
  BY <1>1
<1>3. PICK q \in Nat : q = consumed[c]
  BY <1>1
<1>4. q < N /\ consumed'[c] = N
  <2>1. consumed'[c] = Len(written[c])
    BY <1>1 DEF ReadAll, Deliverable, TypeOK
  <2>2. consumed[c] # Len(written[c])
    BY DEF ReadAll, Drained
  <2> QED
    BY <1>1, <1>2, <1>3, <2>1, <2>2
<1>5. Chunk(c) \in Seq(Units) /\ DOMAIN Chunk(c) = 1..Len(Chunk(c))
  BY <1>1, ReadAllType, LenProperties
<1>6. Len(Chunk(c)) = N - q
  <2>1. PICK s \in Seq(Units) : s = written[c]
    BY <1>1
  <2>2. q + 1 \in Int /\ N \in Int /\ \A i \in (q + 1)..N : s[i] \in Units
    BY <1>2, <1>3, <2>1, ElementOfSeq
  <2>3. Len(SubSeq(s, q + 1, N)) = IF q + 1 <= N THEN N - (q + 1) + 1 ELSE 0
    BY <2>2, SubSeqProperties
  <2>4. Chunk(c) = SubSeq(s, q + 1, N)
    BY <1>2, <1>3, <2>1 DEF Chunk, Deliverable
  <2>5. q + 1 <= N /\ N - (q + 1) + 1 = N - q
    BY <1>4
  <2> QED
    BY <2>3, <2>4, <2>5
<1>7. ASSUME NEW k \in 1..Len(Chunk(c))
      PROVE  Chunk(c)[k] = written[c][q + k] /\ Chunk(c)[k].part # ProductPart
  <2>1. q + k \in DOMAIN written[c] /\ Chunk(c)[k] = written[c][q + k]
    BY <1>1, <1>3, <1>5, <1>7, ChunkProperties
  <2>2. PICK i \in 1..q : written[c][i].part = ProductPart
    BY <1>3 DEF Announced
  <2>3. i \in DOMAIN written[c] /\ i # q + k
    BY <1>1, <1>2, <1>3, <1>4, <1>6, <1>7
  <2> QED
    BY <2>1, <2>2, <2>3 DEF Stream, GreetedOnce
<1> QED
  BY <1>1, <1>2, <1>3, <1>4, <1>5, <1>6, <1>7

\* A read of an owner leaves a segment again: a header that begins a chunk
\* starts it anew (174), other data prolongs it (165-172).
LEMMA OwnerReads ==
  ASSUME Sessions, Streams, FramingInv,
         NEW p \in Products \ {0}, NEW c \in Conns, Owner(c, p), HandleConnEvent(c),
         ReadAll(c)
  PROVE  /\ UNCHANGED << sessionVars, written, fd >>
         /\ consumed'[c] = Len(written[c])
         /\ \E m \in Seq(Units) :
              /\ Segment(c, m, Len(written[c]))
              /\ consumed[c] - Len(message_map_[p]) <= Len(written[c]) - Len(m)
              /\ Deliver([message_map_ EXCEPT ![p] = m], p)
<1>1. /\ Key(c) = p /\ ~Ignored(c) /\ Announced(c) /\ Stream(c)
  BY OwnerProperties DEF Streams
<1>2. PICK q \in Nat : q = consumed[c]
  BY <1>1, OwnerChunk
<1>3. PICK N \in Nat : N = Len(written[c]) /\ consumed'[c] = N
  BY <1>1, OwnerChunk
<1>4. PICK ch \in Seq(Units) : ch = Chunk(c)
  BY <1>1, OwnerChunk
<1>5. PICK l \in Nat : l = Len(ch)
  BY LenProperties
<1>6. /\ l = N - q /\ l > 0
      /\ \A k \in 1..l : ch[k] = written[c][q + k] /\ ch[k].part # ProductPart
  BY <1>1, <1>2, <1>3, <1>4, <1>5, OwnerChunk
<1>7. PICK old \in Seq(Units) : old = message_map_[p]
  BY DEF Sessions, Inv, TypeOK, Keys
<1>8. PICK o \in Nat : o = Len(old) /\ DOMAIN old = 1..o
  BY LenProperties
<1>9. p \in Keys /\ message_map_ \in [Keys -> Seq(Units)]
  BY DEF Sessions, Inv, TypeOK, Keys
<1>10. written' = written /\ fd' = fd
  BY HandlerFrame
\* The product code is read already, so this is no registration.
<1>11. ~RegisterProduct(c)
  <2>1. SUFFICES ASSUME NEW n \in 1..l, NEW i \in 1..n, ch[i].part = ProductPart
                 PROVE  FALSE
    BY <1>4, <1>5 DEF RegisterProduct, AnnouncesProduct
  <2>2. i \in 1..l
    BY <1>5
  <2> QED
    BY <1>6, <2>1, <2>2
<1>12. StoreHeader(c) \/ AppendToMessage(c)
  <2>1. ~DropData(c)
    BY <1>1 DEF DropData
  <2>2. ~NothingToRead(c) /\ ~Disconnect(c)
    BY DEF ReadAll, NothingToRead, Disconnect
  <2> QED
    BY <1>11, <2>1, <2>2 DEF HandleConnEvent
<1>13. UNCHANGED sessionVars
  BY <1>12 DEF StoreHeader, AppendToMessage
<1>14. CASE StoreHeader(c)
  <2>1. Deliver([message_map_ EXCEPT ![p] = ch], p) /\ ch[1].part = HeaderPart
    BY <1>1, <1>4, <1>14 DEF StoreHeader, IsHeader, Add
  <2>2. Segment(c, ch, N)
    <3>1. N - l = q /\ l <= N
      <4>1. l = N - q
        BY <1>6
      <4> QED
        BY <4>1
    <3> QED
      BY <1>5, <1>6, <2>1, <3>1 DEF Segment
  <2>3. q - o <= N - l
    BY <1>6
  <2> QED
    BY <1>2, <1>3, <1>5, <1>7, <1>8, <1>10, <1>13, <2>1, <2>2, <2>3
<1>15. CASE AppendToMessage(c) /\ old = << >>
  <2>1. Deliver(message_map_, p)
    BY <1>1, <1>7, <1>15 DEF AppendToMessage, IsExistMessage, NoMessage
  <2>2. message_map_ = [message_map_ EXCEPT ![p] = old]
    BY <1>7, <1>9
  <2>3. Segment(c, old, N)
    BY <1>15 DEF Segment
  <2>4. q - o <= N - o
    BY <1>6
  <2> QED
    BY <1>2, <1>3, <1>7, <1>8, <1>10, <1>13, <2>1, <2>2, <2>3, <2>4
<1>16. CASE AppendToMessage(c) /\ old # << >>
  <2>1. PICK m \in Seq(Units) : m = old \o ch
    BY ConcatProperties
  <2>2. Deliver([message_map_ EXCEPT ![p] = m], p)
    BY <1>1, <1>4, <1>7, <1>16, <2>1
    DEF AppendToMessage, IsExistMessage, NoMessage, AppendData, Add
  <2>3. PICK n \in Nat : n = Len(m)
    BY LenProperties
  <2>4. /\ n = o + l
        /\ \A k \in 1..n : m[k] = IF k <= o THEN old[k] ELSE ch[k - o]
    BY <1>5, <1>8, <2>1, <2>3, ConcatProperties
  <2>5. /\ o <= q /\ old[1].part = HeaderPart
        /\ \A k \in 1..o : old[k] = written[c][q - o + k] /\ old[k].part # ProductPart
    BY <1>2, <1>7, <1>8, <1>16 DEF FramingInv, Filed, Segment
  <2>6. o >= 1
    BY <1>8, <1>16, EmptySeq
  <2>7. n <= N /\ N - n = q - o
    BY <1>6, <2>4, <2>5
  <2>8. m[1].part = HeaderPart
    <3>1. 1 \in 1..n /\ 1 <= o
      BY <2>4, <2>6
    <3> QED
      BY <2>4, <2>5, <3>1
  <2>9. ASSUME NEW k \in 1..n
        PROVE  m[k] = written[c][N - n + k] /\ m[k].part # ProductPart
    <3>1. CASE k <= o
      <4>1. k \in 1..o
        BY <3>1
      <4> QED
        BY <2>4, <2>5, <2>7, <3>1, <4>1
    <3>2. CASE ~(k <= o)
      <4>1. PICK j \in 1..l : j = k - o
        BY <2>4, <3>2
      <4>2. N - n + k = q + j
        BY <2>7, <4>1
      <4> QED
        BY <1>6, <2>4, <3>2, <4>1, <4>2
    <3> QED
      BY <3>1, <3>2
  <2>10. Segment(c, m, N)
    BY <2>3, <2>7, <2>8, <2>9 DEF Segment
  <2>11. q - o <= N - n
    BY <2>7
  <2> QED
    BY <1>2, <1>3, <1>7, <1>8, <1>10, <1>13, <2>2, <2>3, <2>10, <2>11
<1> QED
  BY <1>12, <1>14, <1>15, <1>16

\* A step that files nothing under a product with a session, and reads
\* nothing from an owner.
LEMMA FramingStays ==
  ASSUME CodesApart, Sessions, [Next]_vars, FramingInv,
         \A p \in Products \ {0} : message_map_'[p] = message_map_[p],
         \/ delivered' = delivered
         \/ \E e \in [product : Keys, msg : Seq(Units)] :
              e.product = 0 /\ delivered' = Append(delivered, e),
         \A p \in Products \ {0}, c \in Conns : Owner(c, p) => consumed'[c] = consumed[c]
  PROVE  FramingInv'
<1>0. Inv
  BY DEF Sessions
<1>1. PICK n \in Nat : n = Len(delivered) /\ DOMAIN delivered = 1..n
  <2>1. delivered \in Seq([product : Keys, msg : Seq(Units)])
    BY <1>0 DEF Inv, TypeOK
  <2> QED
    BY <2>1, LenProperties
<1>2. /\ \A i \in DOMAIN delivered' :
           \/ delivered'[i].product = 0
           \/ i \in 1..n /\ i \in DOMAIN delivered /\ delivered'[i] = delivered[i]
      /\ \A j \in 1..n : delivered'[j] = delivered[j]
  <2>1. CASE delivered' = delivered
    BY <1>1, <2>1
  <2>2. ASSUME NEW e \in [product : Keys, msg : Seq(Units)], e.product = 0,
               delivered' = Append(delivered, e)
        PROVE  <1>2
    <3>1. delivered \in Seq([product : Keys, msg : Seq(Units)])
      BY <1>0 DEF Inv, TypeOK
    <3>2. /\ delivered' \in Seq([product : Keys, msg : Seq(Units)])
          /\ Len(delivered') = n + 1
          /\ \A j \in 1..n : delivered'[j] = delivered[j]
          /\ delivered'[n + 1] = e
      BY <1>1, <2>2, <3>1, AppendProperties
    <3>3. DOMAIN delivered' = 1..(n + 1)
      BY <3>2, LenProperties
    <3>4. \A i \in 1..(n + 1) : i \in 1..n \/ i = n + 1
      OBVIOUS
    <3> QED
      BY <1>1, <2>2, <3>2, <3>3, <3>4
  <2> QED
    BY <2>1, <2>2
<1>3. \A i \in 1..n : \A j \in 1..(i - 1) : delivered'[j] = delivered[j]
  <2>1. \A i \in 1..n : \A j \in 1..(i - 1) : j \in 1..n
    BY <1>1
  <2> QED
    BY <1>2, <2>1
<1>4. SessionFirst'
  <2>1. \A p \in Products : socket_list_[p] # NoFd => socket_list_'[p] # NoFd
    BY OwnerStays
  <2> QED
    BY <1>2, <2>1 DEF FramingInv, SessionFirst
\* An owner was one before, or its product has nothing filed yet.
<1>5. ASSUME NEW p \in Products \ {0}, NEW c \in Conns, Owner(c, p)'
      PROVE  \/ Owner(c, p) /\ consumed'[c] = consumed[c]
             \/ /\ message_map_[p] = << >>
                /\ \A i \in DOMAIN delivered : delivered[i].product # p
  BY <1>5, OwnerStays DEF FramingInv, SessionFirst
<1>6. Filed'
  <2>1. SUFFICES ASSUME NEW p \in Products \ {0}, NEW c \in Conns, Owner(c, p)'
                 PROVE  Segment(c, message_map_[p], consumed[c])'
    BY DEF Filed
  <2>2. CASE message_map_[p] = << >>
    BY <2>2 DEF Segment
  <2>3. CASE Owner(c, p) /\ consumed'[c] = consumed[c] /\ message_map_[p] # << >>
    <3>1. PICK m \in Seq(Units) : m = message_map_[p]
      BY <1>0 DEF Inv, TypeOK, Keys
    <3>2. PICK e \in Nat : e = consumed[c]
      BY <1>0 DEF Inv, TypeOK
    <3>3. PICK k \in Nat : k = Len(m)
      BY LenProperties
    <3>4. /\ k <= e /\ m[1].part = HeaderPart
          /\ \A j \in 1..k : m[j] = written[c][e - k + j] /\ m[j].part # ProductPart
      BY <2>3, <3>1, <3>2, <3>3 DEF FramingInv, Filed, Segment
    <3>5. \A j \in 1..k : e - k + j \in 1..e
      BY <3>4
    <3>6. \A j \in 1..k : m[j] = written'[c][e - k + j]
      BY <1>0, <3>2, <3>4, <3>5, ReadStays
    <3> QED
      BY <2>3, <3>1, <3>2, <3>3, <3>4, <3>6 DEF Segment
  <2> QED
    BY <1>5, <2>1, <2>2, <2>3
<1>7. DeliveredBefore'
  <2>1. SUFFICES ASSUME NEW p \in Products \ {0}, NEW c \in Conns,
                        NEW i \in DOMAIN delivered',
                        Owner(c, p)', delivered'[i].product = p
                 PROVE  /\ Sent(c, delivered'[i].msg)
                        /\ \E h \in 1..(consumed'[c] - Len(message_map_'[p])) :
                             written'[c][h] = delivered'[i].msg[1]
    BY DEF DeliveredBefore, Sent
  <2>2. i \in DOMAIN delivered /\ delivered'[i] = delivered[i]
    BY <1>2, <2>1
  <2>3. Owner(c, p) /\ consumed'[c] = consumed[c]
    BY <1>5, <2>1, <2>2
  <2>4. PICK h \in 1..(consumed[c] - Len(message_map_[p])) :
          written[c][h] = delivered[i].msg[1]
    BY <2>1, <2>2, <2>3 DEF FramingInv, DeliveredBefore
  <2>5. Sent(c, delivered[i].msg)
    BY <2>1, <2>2, <2>3 DEF FramingInv, DeliveredBefore
  <2>6. h \in 1..consumed[c]
    <3>1. Len(message_map_[p]) \in Nat /\ consumed[c] \in Nat
      BY <1>0, LenProperties DEF Inv, TypeOK, Keys
    <3> QED
      BY <3>1
  <2>7. written'[c][h] = written[c][h]
    BY <1>0, <2>6, ReadStays
  <2> QED
    BY <2>2, <2>3, <2>4, <2>5, <2>7
<1>8. DeliveredInOrder'
  <2>1. SUFFICES ASSUME NEW i \in DOMAIN delivered', delivered'[i].product # 0,
                        NEW j \in 1..(i - 1),
                        delivered'[j].product = delivered'[i].product
                 PROVE  GetMessageId(delivered'[j].msg) < GetMessageId(delivered'[i].msg)
    BY DEF DeliveredInOrder, GetMessageId
  <2>2. i \in 1..n /\ i \in DOMAIN delivered /\ delivered'[i] = delivered[i]
    BY <1>2, <2>1
  <2>3. delivered'[j] = delivered[j]
    BY <1>3, <2>1, <2>2
  <2> QED
    BY <2>1, <2>2, <2>3 DEF FramingInv, DeliveredInOrder
<1> QED
  BY <1>4, <1>6, <1>7, <1>8 DEF FramingInv

\* A read of an owner: what it stores may be complete, and is delivered.
LEMMA OwnerReadsStep ==
  ASSUME Sessions, Streams, FramingInv, [Next]_vars,
         NEW p \in Products \ {0}, NEW c \in Conns, Owner(c, p), HandleConnEvent(c),
         ReadAll(c)
  PROVE  FramingInv'
<1>0. /\ Inv /\ TypeOK /\ Stream(c)
      /\ p \in Keys /\ message_map_ \in [Keys -> Seq(Units)]
      /\ delivered \in Seq([product : Keys, msg : Seq(Units)])
  BY DEF Sessions, Streams, Inv, TypeOK, Keys
<1>1. /\ UNCHANGED << sessionVars, written, fd >>
      /\ consumed'[c] = Len(written[c])
  BY OwnerReads
<1>2. PICK m \in Seq(Units) :
        /\ Segment(c, m, Len(written[c]))
        /\ consumed[c] - Len(message_map_[p]) <= Len(written[c]) - Len(m)
        /\ Deliver([message_map_ EXCEPT ![p] = m], p)
  BY OwnerReads
<1>3. PICK N \in Nat : N = Len(written[c]) /\ N = consumed'[c]
  <2>1. written[c] \in Seq(Units)
    BY <1>0 DEF TypeOK
  <2> QED
    BY <1>1, <2>1, LenProperties
<1>4. PICK q \in Nat : q = consumed[c]
  BY <1>0 DEF TypeOK
<1>5. PICK o \in Nat : o = Len(message_map_[p])
  BY <1>0, LenProperties
<1>6. PICK l \in Nat : l = Len(m)
  BY LenProperties
<1>7. q - o <= N - l
  BY <1>2, <1>3, <1>4, <1>5, <1>6
<1>8. PICK n \in Nat : n = Len(delivered) /\ DOMAIN delivered = 1..n
  BY <1>0, LenProperties
\* Nobody else owns a session.
<1>9. \A d \in Conns, r \in Products : Owner(d, r)' => d = c /\ r = p
  <2>1. \A d \in Conns, r \in Products : Owner(d, r)' => Owner(d, r)
    BY <1>1 DEF Owner, sessionVars
  <2> QED
    BY <2>1, OwnerProperties
<1>10. \A r \in Products : socket_list_[r] # NoFd => socket_list_'[r] # NoFd
  BY <1>1 DEF sessionVars
<1>11. socket_list_'[p] # NoFd
  BY <1>10 DEF Owner
<1>12. ASSUME NEW i \in DOMAIN delivered, delivered[i].product = p
       PROVE  /\ Sent(c, delivered[i].msg)
              /\ delivered[i].msg[1].part = HeaderPart
              /\ \E h \in 1..(q - o) : written[c][h] = delivered[i].msg[1]
  <2>1. /\ Sent(c, delivered[i].msg)
        /\ \E h \in 1..(q - o) : written[c][h] = delivered[i].msg[1]
    BY <1>4, <1>5, <1>12 DEF FramingInv, DeliveredBefore
  <2>2. PICK id \in 1..quota[c], s \in 1..MaxSize : delivered[i].msg = NewMessage(c, id, s)
    BY <2>1 DEF Sent
  <2>3. 1 \in 1..s
    OBVIOUS
  <2>4. delivered[i].msg[1].part = 1
    BY <2>2, <2>3 DEF NewMessage
  <2> QED
    BY <2>1, <2>4 DEF HeaderPart
<1>13. CASE ~IsPerfectMessage([message_map_ EXCEPT ![p] = m], p)
  <2>1. message_map_' = [message_map_ EXCEPT ![p] = m] /\ delivered' = delivered
    BY <1>2, <1>13 DEF Deliver
  <2>2. message_map_'[p] = m /\ \A r \in Products \ {p} : message_map_'[r] = message_map_[r]
    BY <1>0, <2>1 DEF Keys
  <2>3. SessionFirst'
    BY <1>10, <1>11, <2>1, <2>2 DEF FramingInv, SessionFirst
  <2>4. Filed'
    <3>1. Segment(c, message_map_[p], consumed[c])'
      BY <1>1, <1>2, <1>3, <2>2 DEF Segment
    <3> QED
      BY <1>9, <3>1 DEF Filed
  <2>5. DeliveredBefore'
    <3>1. \A i \in DOMAIN delivered :
            delivered[i].product = p =>
              /\ Sent(c, delivered[i].msg)
              /\ \E h \in 1..(N - l) : written[c][h] = delivered[i].msg[1]
      <4>1. \A h \in 1..(q - o) : h \in 1..(N - l)
        BY <1>7
      <4> QED
        BY <1>12, <4>1
    <3>2. consumed'[c] - Len(message_map_'[p]) = N - l /\ written' = written
      BY <1>1, <1>3, <1>6, <2>2
    <3>3. ASSUME NEW r \in Products \ {0}, NEW d \in Conns, NEW i \in DOMAIN delivered',
                 Owner(d, r)', delivered'[i].product = r
          PROVE  /\ Sent(d, delivered'[i].msg)
                 /\ \E j \in 1..(consumed'[d] - Len(message_map_'[r])) :
                      written'[d][j] = delivered'[i].msg[1]
      <4>1. d = c /\ r = p
        BY <1>9, <3>3
      <4> QED
        BY <2>1, <3>1, <3>2, <3>3, <4>1
    <3> QED
      BY <3>3 DEF DeliveredBefore, Sent
  <2>6. DeliveredInOrder'
    BY <2>1 DEF FramingInv, DeliveredInOrder
  <2> QED
    BY <2>3, <2>4, <2>5, <2>6 DEF FramingInv
<1>14. CASE IsPerfectMessage([message_map_ EXCEPT ![p] = m], p)
  <2>1. m # << >> /\ GetMessageFullSize(m) = Len(m)
    BY <1>0, <1>14 DEF IsPerfectMessage, IsExistMessage, NoMessage
  <2>2. PICK e \in [product : Keys, msg : Seq(Units)] : e = [product |-> p, msg |-> m]
    BY <1>0
  <2>3. /\ message_map_' = [message_map_ EXCEPT ![p] = << >>]
        /\ delivered' = Append(delivered, e)
    <3>1. /\ message_map_' = MessagePop([message_map_ EXCEPT ![p] = m], p)
          /\ delivered' = Append(delivered,
                 [product |-> p, msg |-> [message_map_ EXCEPT ![p] = m][p]])
      BY <1>2, <1>14 DEF Deliver
    <3>2. [message_map_ EXCEPT ![p] = m][p] = m
      BY <1>0
    <3>3. MessagePop([message_map_ EXCEPT ![p] = m], p) = [message_map_ EXCEPT ![p] = << >>]
      BY <1>0 DEF MessagePop, NoMessage
    <3> QED
      BY <2>2, <3>1, <3>2, <3>3
  <2>4. /\ message_map_'[p] = << >>
        /\ \A r \in Products \ {p} : message_map_'[r] = message_map_[r]
    BY <1>0, <2>3 DEF Keys
  <2>5. /\ DOMAIN delivered' = 1..(n + 1)
        /\ \A i \in 1..n : delivered'[i] = delivered[i]
        /\ delivered'[n + 1] = e
    <3>1. /\ delivered' \in Seq([product : Keys, msg : Seq(Units)])
          /\ Len(delivered') = n + 1
          /\ \A j \in 1..n : delivered'[j] = delivered[j]
          /\ delivered'[n + 1] = e
      BY <1>0, <1>8, <2>2, <2>3, AppendProperties
    <3> QED
      BY <3>1, LenProperties
  <2>6. \A i \in DOMAIN delivered' :
          \/ i \in DOMAIN delivered /\ i \in 1..n /\ delivered'[i] = delivered[i]
          \/ i = n + 1 /\ delivered'[i] = e
    BY <1>8, <2>5
  <2>7. PICK h \in 1..N : /\ h = N - l + 1 /\ written[c][h] = m[1]
                          /\ Sent(c, m) /\ m[1].part = HeaderPart
    <3>1. Segment(c, m, N) /\ N <= Len(written[c])
      BY <1>2, <1>3
    <3>2. /\ Sent(c, m) /\ N - Len(m) + 1 \in 1..N
          /\ written[c][N - Len(m) + 1] = m[1] /\ m[1].part = HeaderPart
      BY <1>0, <2>1, <3>1, PerfectIsSent
    <3>3. PICK h \in 1..N : h = N - l + 1
      BY <1>6, <3>2
    <3>4. N - Len(m) + 1 = h
      BY <1>6, <3>3
    <3> QED
      BY <3>2, <3>3, <3>4
  <2>8. SessionFirst'
    <3>1. \A r \in Products \ {0} : message_map_'[r] # << >> => socket_list_'[r] # NoFd
      BY <1>10, <2>4 DEF FramingInv, SessionFirst
    <3>2. ASSUME NEW r \in Products \ {0}, NEW i \in DOMAIN delivered', delivered'[i].product = r
          PROVE  socket_list_'[r] # NoFd
      <4>1. CASE i \in DOMAIN delivered /\ delivered'[i] = delivered[i]
        BY <1>10, <3>2, <4>1 DEF FramingInv, SessionFirst
      <4>2. CASE delivered'[i] = e
        BY <1>11, <2>2, <3>2, <4>2
      <4> QED
        BY <2>6, <4>1, <4>2
    <3> QED
      BY <3>1, <3>2 DEF SessionFirst
  <2>9. Filed'
    BY <1>9, <2>4 DEF Filed, Segment
  <2>10. DeliveredBefore'
    <3>1. Len(message_map_'[p]) = 0
      BY <2>4, EmptySeq
    <3>2. ASSUME NEW i \in DOMAIN delivered', delivered'[i].product = p
          PROVE  /\ Sent(c, delivered'[i].msg)
                 /\ \E j \in 1..N : written[c][j] = delivered'[i].msg[1]
      <4>1. CASE i \in DOMAIN delivered /\ delivered'[i] = delivered[i]
        <5>1. \A j \in 1..(q - o) : j \in 1..N
          BY <1>7
        <5> QED
          BY <1>12, <3>2, <4>1, <5>1
      <4>2. CASE delivered'[i] = e
        BY <2>2, <2>7, <4>2
      <4> QED
        BY <2>6, <4>1, <4>2
    <3>3. consumed'[c] - Len(message_map_'[p]) = N /\ written' = written
      BY <1>1, <1>3, <3>1
    <3>4. ASSUME NEW r \in Products \ {0}, NEW d \in Conns, NEW i \in DOMAIN delivered',
                 Owner(d, r)', delivered'[i].product = r
          PROVE  /\ Sent(d, delivered'[i].msg)
                 /\ \E j \in 1..(consumed'[d] - Len(message_map_'[r])) :
                      written'[d][j] = delivered'[i].msg[1]
      <4>1. d = c /\ r = p
        BY <1>9, <3>4
      <4> QED
        BY <3>2, <3>3, <3>4, <4>1
    <3> QED
      BY <3>4 DEF DeliveredBefore, Sent
  <2>11. DeliveredInOrder'
    <3>1. SUFFICES ASSUME NEW i \in DOMAIN delivered', delivered'[i].product # 0,
                          NEW j \in 1..(i - 1),
                          delivered'[j].product = delivered'[i].product
                   PROVE  delivered'[j].msg[1].id < delivered'[i].msg[1].id
      BY DEF DeliveredInOrder, GetMessageId
    <3>2. j \in 1..n /\ j \in DOMAIN delivered /\ delivered'[j] = delivered[j]
      BY <1>8, <2>5, <3>1
    <3>3. CASE i \in DOMAIN delivered /\ delivered'[i] = delivered[i]
      BY <3>1, <3>2, <3>3 DEF FramingInv, DeliveredInOrder, GetMessageId
    <3>4. CASE delivered'[i] = e
      <4>1. delivered[j].product = p /\ delivered'[i].msg = m
        BY <2>2, <3>1, <3>2, <3>4
      <4>2. PICK g \in 1..(q - o) : written[c][g] = delivered[j].msg[1]
        BY <1>12, <3>2, <4>1
      <4>3. g < h /\ g \in 1..N
        BY <1>7, <2>7, <4>2
      <4>4. DOMAIN written[c] = 1..N
        <5>1. written[c] \in Seq(Units)
          BY <1>0 DEF TypeOK
        <5> QED
          BY <1>3, <5>1, LenProperties
      <4>5. written[c][g].id < written[c][h].id
        BY <1>0, <1>12, <2>7, <3>2, <4>1, <4>2, <4>3, <4>4 DEF Stream, HeadersOrdered
      <4> QED
        BY <2>7, <3>2, <4>1, <4>2, <4>5
    <3> QED
      BY <2>6, <3>3, <3>4
  <2> QED
    BY <2>8, <2>9, <2>10, <2>11 DEF FramingInv
<1> QED
  BY <1>13, <1>14

\* A read of a connection without a session of its own is dropped or filed
\* under product 0.
LEMMA OthersRead ==
  ASSUME Sessions, NEW c \in Conns, HandleConnEvent(c), ReadAll(c),
         \A p \in Products \ {0} : ~Owner(c, p)
  PROVE  /\ \A p \in Products \ {0} : message_map_'[p] = message_map_[p]
         /\ \/ delivered' = delivered
            \/ \E e \in [product : Keys, msg : Seq(Units)] :
                 e.product = 0 /\ delivered' = Append(delivered, e)
<1>0. Inv /\ message_map_ \in [Keys -> Seq(Units)] /\ 0 \in Keys
  BY DEF Sessions, Inv, TypeOK, Keys
<1>1. fd[c] \in Fds /\ Key(c) \in Keys /\ Chunk(c) \in Seq(Units)
  BY <1>0, ReadAllType DEF Inv
<1>2. Key(c) = 0
  <2>1. SUFFICES ASSUME Key(c) # 0 PROVE FALSE
    OBVIOUS
  <2>2. Identified(c) /\ Key(c) = reverse_socket_list_[fd[c]]
    BY <2>1 DEF Key
  <2>3. Key(c) \in Products /\ socket_list_[Key(c)] = fd[c]
    BY <1>1, <2>1, <2>2 DEF Identified, Sessions, SessionInv, SessionSound, Keys
  <2>4. fd[c] # NoFd
    BY <1>1 DEF Fds, NoFd
  <2> QED
    BY <2>1, <2>3, <2>4 DEF Owner
<1>3. CASE UNCHANGED parseVars
  BY <1>3 DEF parseVars
<1>4. ASSUME NEW m \in Seq(Units), Deliver([message_map_ EXCEPT ![0] = m], 0)
      PROVE  /\ \A p \in Products \ {0} : message_map_'[p] = message_map_[p]
             /\ \/ delivered' = delivered
                \/ \E e \in [product : Keys, msg : Seq(Units)] :
                     e.product = 0 /\ delivered' = Append(delivered, e)
  <2>1. PICK map \in [Keys -> Seq(Units)] : map = [message_map_ EXCEPT ![0] = m]
    BY <1>0
  <2>2. \A p \in Products \ {0} : p \in Keys /\ map[p] = message_map_[p]
    BY <1>0, <2>1 DEF Keys
  <2>3. Deliver(map, 0)
    BY <1>4, <2>1
  <2>4. CASE IsPerfectMessage(map, 0)
    <3>1. /\ message_map_' = [map EXCEPT ![0] = << >>]
          /\ delivered' = Append(delivered, [product |-> 0, msg |-> map[0]])
      BY <2>3, <2>4 DEF Deliver, MessagePop, NoMessage
    <3>2. [product |-> 0, msg |-> map[0]] \in [product : Keys, msg : Seq(Units)]
      BY <1>0
    <3> QED
      BY <2>2, <3>1, <3>2
  <2>5. CASE ~IsPerfectMessage(map, 0)
    BY <2>2, <2>3, <2>5 DEF Deliver
  <2> QED
    BY <2>4, <2>5
<1>5. Deliver(message_map_, 0) => Deliver([message_map_ EXCEPT ![0] = message_map_[0]], 0)
  <2>1. message_map_ = [message_map_ EXCEPT ![0] = message_map_[0]]
    BY <1>0
  <2> QED
    BY <2>1
<1>6. message_map_[0] \in Seq(Units)
  BY <1>0
<1>7. CASE StoreHeader(c)
  BY <1>1, <1>2, <1>4, <1>7 DEF StoreHeader, Add
<1>8. CASE RegisterProduct(c)
  BY <1>2, <1>4, <1>5, <1>6, <1>8 DEF RegisterProduct
<1>9. CASE AppendToMessage(c)
  <2>1. PICK m \in Seq(Units) : m = message_map_[0] \o Chunk(c)
    BY <1>1, <1>6, ConcatProperties
  <2>2. \/ Deliver([message_map_ EXCEPT ![0] = m], 0)
        \/ Deliver(message_map_, 0)
    BY <1>2, <1>9, <2>1 DEF AppendToMessage, Add, AppendData
  <2> QED
    BY <1>4, <1>5, <1>6, <2>2
<1>10. ~NothingToRead(c) /\ ~Disconnect(c)
  BY DEF ReadAll, NothingToRead, Disconnect
<1> QED
  BY <1>3, <1>7, <1>8, <1>9, <1>10 DEF HandleConnEvent, DropData

\* Every step of the handler and of the clients.
LEMMA FramingStep ==
  ASSUME CodesApart
  PROVE  Sessions /\ Streams /\ FramingInv /\ [Next]_vars => FramingInv'
<1> SUFFICES ASSUME Sessions, Streams, FramingInv, [Next]_vars PROVE FramingInv'
  OBVIOUS
<1>0. TypeOK
  BY DEF Sessions, Inv
<1>1. ASSUME UNCHANGED << parseVars, consumed >>
      PROVE  FramingInv'
  BY <1>1, FramingStays DEF parseVars
<1>2. ASSUME NEW c \in Conns, HandleConnEvent(c)
      PROVE  FramingInv'
  <2>1. CASE NothingToRead(c) \/ Disconnect(c)
    BY <1>1, <2>1 DEF NothingToRead, Disconnect
  <2>2. ASSUME ReadAll(c), NEW p \in Products \ {0}, Owner(c, p)
        PROVE  FramingInv'
    BY <1>2, <2>2, OwnerReadsStep
  <2>3. CASE ReadAll(c) /\ \A p \in Products \ {0} : ~Owner(c, p)
    <3>1. \A p \in Products \ {0}, d \in Conns : Owner(d, p) => consumed'[d] = consumed[d]
      BY <1>0, <1>2, <2>3, ConsumedFrame
    <3> QED
      BY <1>2, <2>3, <3>1, OthersRead, FramingStays
  <2> QED
    BY <1>2, <2>1, <2>2, <2>3
    DEF HandleConnEvent, DropData, StoreHeader, RegisterProduct, AppendToMessage
<1>3. ASSUME NEW c \in Conns, ClientStep(c)
      PROVE  FramingInv'
  BY <1>0, <1>1, <1>3, ClientFrame DEF Connect
<1>4. CASE EpollWait \/ Accept \/ AcceptFails \/ UNCHANGED vars
  BY <1>1, <1>4 DEF EpollWait, Accept, AcceptFails, vars
<1> QED
  BY <1>2, <1>3, <1>4 DEF Next, ServerStep

\* Before anything is written or read.
LEMMA FramingInit == Init => Streams /\ FramingInv
<1> SUFFICES ASSUME Init PROVE Streams /\ FramingInv
  OBVIOUS
<1>1. \A c \in Conns : /\ DOMAIN written[c] = {} /\ DOMAIN sending[c] = {}
                       /\ message_id[c] <= quota[c]
  BY DEF Init
<1>2. Streams
  BY <1>1
  DEF Streams, Stream, HeadersNumbered, HeadersOrdered, GreetedOnce, BodyFollows,
      RestPending, RestHasNoHeader
<1>3. DOMAIN delivered = {} /\ \A p \in Products : message_map_[p] = << >>
  BY DEF Init, Keys, NoMessage
<1> QED
  BY <1>2, <1>3
  DEF FramingInv, SessionFirst, Filed, Segment, DeliveredBefore, DeliveredInOrder

\* While no product code is the number of a descriptor, what the callback is
\* given for a registered product is exactly a message its client sent, and
\* the messages of one product come in the order sent: data that shares a read
\* with other data is lost in whole messages (158-172), never a wrong message
\* made of it, also when several connections have the same product code.
THEOREM MessagesIntact ==
  ASSUME CodesApart
  PROVE  Spec => []DeliveredIntact
<1>1. Sessions /\ FramingInv => DeliveredIntact
  <2> SUFFICES ASSUME Sessions, FramingInv, NEW i \in DOMAIN delivered,
                      delivered[i].product # 0
               PROVE  /\ \E c \in Conns : /\ product_code[c] = delivered[i].product
                                          /\ Sent(c, delivered[i].msg)
                      /\ \A j \in 1..(i - 1) :
                           delivered[j].product = delivered[i].product =>
                             GetMessageId(delivered[j].msg) < GetMessageId(delivered[i].msg)
    BY DEF DeliveredIntact
  <2>1. delivered[i].product \in Products \ {0}
    <3>1. delivered \in Seq([product : Keys, msg : Seq(Units)])
      BY DEF Sessions, Inv, TypeOK
    <3>2. delivered[i] \in [product : Keys, msg : Seq(Units)]
      BY <3>1, ElementOfSeq, LenProperties
    <3> QED
      BY <3>2 DEF Keys
  <2>2. socket_list_[delivered[i].product] # NoFd
    BY <2>1 DEF FramingInv, SessionFirst
  <2>3. PICK c \in Conns : /\ fd[c] = socket_list_[delivered[i].product]
                           /\ product_code[c] = delivered[i].product
    BY <2>1, <2>2 DEF Sessions, SessionsAnnounced
  <2>4. Sent(c, delivered[i].msg)
    BY <2>1, <2>2, <2>3 DEF FramingInv, DeliveredBefore, Owner
  <2> QED
    BY <2>3, <2>4 DEF FramingInv, DeliveredInOrder
<1>2. Init => Sessions /\ Streams /\ FramingInv
  BY InitInv, FramingInit, EmptySeq
  DEF Init, Sessions, SessionInv, OnlyGreetingNames, SessionSound,
      AtMostOneSession, SessionsAnnounced
<1>3. Sessions /\ Streams /\ FramingInv /\ [Next]_vars => (Sessions /\ Streams /\ FramingInv)'
  <2>1. Inv /\ [Next]_vars => Inv'
    BY TypeStep, BacklogStep, EventsStep, ReadBoundedStep DEF Inv
  <2> QED
    BY <2>1, SessionStep, SessionsAnnouncedStep, StreamsStep, FramingStep
    DEF Sessions, SessionInv
<1> QED
  BY <1>1, <1>2, <1>3, PTL DEF Spec
=============================================================================
