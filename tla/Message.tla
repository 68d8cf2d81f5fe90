------------------------------- MODULE Message -------------------------------
(***************************************************************************)
(* Framing of the unix-domain-socket variant (Message.h, Message.cpp).     *)
(*                                                                         *)
(* A socket carries bytes.  What the framing code tells apart is where a   *)
(* 20-byte header starts and how many bytes that header announces, so the  *)
(* bytes are abstracted to units: a message of size n is n units, the      *)
(* first of which is its header and announces n.  The 10-byte handshake    *)
(* "product:<d>" a client writes is one unit of its own.  The fields       *)
(* from, id and part identify the bytes; the code reads only whether a     *)
(* unit is a header (part 1), its size and its id.                         *)
(***************************************************************************)
EXTENDS Naturals, Sequences

ProductPart == 0
HeaderPart  == 1

Unit(Senders, Ids, Sizes) ==
  [from : Senders, id : Ids, size : Sizes, part : {ProductPart} \cup Sizes]

\* The bytes "product:<d>" of one sender.
ProductUnit(s) == [from |-> s, id |-> 0, size |-> 1, part |-> ProductPart]

\* Message::Message(data, length, type, id): header followed by the body.
NewMessage(s, id, size) ==
  [i \in 1..size |-> [from |-> s, id |-> id, size |-> size, part |-> i]]

AppendData(msg, data) == msg \o data

\* MessageParser on bytes that begin with the first unit of msg.
IsHeader(msg)           == msg[1].part = HeaderPart
GetMessageFullSize(msg) == msg[1].size
GetMessageId(msg)       == msg[1].id

(***************************************************************************)
(* MessageManager: message_map_ holds at most one unfinished message per   *)
(* product code.  A stored message is never empty, so <<>> is "no entry".  *)
(***************************************************************************)
NoMessage == << >>

Add(map, product, msg) == [map EXCEPT ![product] = msg]

IsExistMessage(map, product) == map[product] # NoMessage

IsLongEnough(map, product) ==   \* mutant: more bytes than announced will do
  /\ IsExistMessage(map, product)
  /\ GetMessageFullSize(map[product]) <= Len(map[product])

IsPerfectMessage(map, product) ==
  /\ IsExistMessage(map, product)
  /\ GetMessageFullSize(map[product]) = Len(map[product])

MessagePop(map, product) == [map EXCEPT ![product] = NoMessage]
=============================================================================
