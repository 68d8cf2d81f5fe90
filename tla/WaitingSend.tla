---------------------------- MODULE WaitingSend ----------------------------
(***************************************************************************)
(* The server's SendMessage that waits for a response, and the two that do *)
(* not, between application threads, the epoll thread that files responses *)
(* (181-187) and a client that answers under the id it was sent.           *)
(*                                                                         *)
(* Calls on both sides count ids for themselves, in a message_id that the  *)
(* threads of one process share.  ++message_id is a read and a write; every *)
(* later mention of message_id is a read of its own.  The maps are used    *)
(* without a lock; each access sees them before or after another's.  The   *)
(* messages travel whole; where the framing joins the messages of one read *)
(* they are lost together.                                                 *)
(***************************************************************************)
EXTENDS Integers, Sequences, FiniteSets

CONSTANTS
  Callers,     \* application threads of the server
  Client,      \* the client process
  MaxCalls,    \* bound: messages one thread of the server sends
  MaxOwn,      \* bound: messages the client sends that answer nothing
  MaxWait      \* bound: wait_time, in polls

ASSUME CallerAssumption == IsFiniteSet(Callers) /\ Client \notin Callers
ASSUME BoundAssumption  ==
  MaxCalls \in Nat /\ MaxOwn \in Nat /\ MaxWait \in Nat

VARIABLES
  \* server process
  message_id, response_msg_id, need_response_message_,
  alive,                \* FALSE after a null Message was parsed
  pc, waits, wait_time, \* of each caller: its place, does it wait, how long
  send_id,              \* the id in its send_msg
  result,               \* the message its result was taken from
  calls,                \* messages it has begun to send
  handled, matched,     \* the message the epoll thread looks at; is it awaited?
  \* connection
  to_client, to_server,
  \* client process
  client_id,            \* its message_id
  answered              \* history: calls it has answered

members    == << message_id, response_msg_id, need_response_message_ >>
request    == << waits, send_id, calls >>
epoll      == << handled, matched, to_server >>
clientVars == << client_id, answered >>
vars == << members, alive, pc, request, wait_time, result, epoll, to_client,
           clientVars >>

Ids     == 0..(MaxCalls * Cardinality(Callers) + MaxOwn)
Nothing == << Client, 0 >>      \* no message

\* A message is what it says (<<t, n>>: it is, or answers, the n-th message of
\* thread t; <<Client, n>>: the n-th the client sends by itself) under an id.
Says     == (Callers \X (1..MaxCalls)) \cup ({Client} \X (1..MaxOwn))
Messages == [id : Ids, says : Says]
Idle     == [id |-> 0, says |-> Nothing]    \* the epoll thread has no message

PCs == {"idle", "lookup", "load", "store", "await", "write", "poll", "fetch", "erase"}

TypeOK ==
  /\ message_id \in Ids
  /\ response_msg_id \subseteq Ids
  /\ need_response_message_ \in [Ids -> Says \cup {Nothing}]
  /\ alive \in BOOLEAN
  /\ pc \in [Callers -> PCs]
  /\ waits \in [Callers -> BOOLEAN]
  /\ wait_time \in [Callers -> 0..MaxWait]
  /\ send_id \in [Callers -> Ids]
  /\ result \in [Callers -> Says \cup {Nothing}]
  /\ calls \in [Callers -> 0..MaxCalls]
  /\ handled \in Messages \cup {Idle}
  /\ matched \in BOOLEAN
  /\ to_client \in Seq(Messages)
  /\ to_server \in Seq(Messages)
  /\ client_id \in 0..MaxOwn
  /\ answered \subseteq Callers \X (1..MaxCalls)

Init ==
  /\ message_id = 0
  /\ response_msg_id = {}
  /\ need_response_message_ = [i \in Ids |-> Nothing]
  /\ alive = TRUE
  /\ pc = [t \in Callers |-> "idle"]
  /\ waits = [t \in Callers |-> FALSE]
  /\ wait_time = [t \in Callers |-> 0]
  /\ send_id = [t \in Callers |-> 0]
  /\ result = [t \in Callers |-> Nothing]
  /\ calls = [t \in Callers |-> 0]
  /\ handled = Idle
  /\ matched = FALSE
  /\ to_client = << >>
  /\ to_server = << >>
  /\ client_id = 0
  /\ answered = {}

-----------------------------------------------------------------------------
(* Application threads of the server.                                      *)

Goto(t, from, to) == pc[t] = from /\ pc' = [pc EXCEPT ![t] = to]

\* need_response_message_.count(id)
Responded(id) == need_response_message_[id] # Nothing

\* SendMessage with a wait_time, which may be 0, or without, or a broadcast.
SendMessage(t) ==
  /\ Goto(t, "idle", "lookup")
  /\ calls[t] < MaxCalls
  /\ calls' = [calls EXCEPT ![t] = @ + 1]
  /\ \/ /\ waits' = [waits EXCEPT ![t] = TRUE]
        /\ \E w \in 0..MaxWait : wait_time' = [wait_time EXCEPT ![t] = w]
     \/ waits' = [waits EXCEPT ![t] = FALSE] /\ UNCHANGED wait_time
  /\ result' = [result EXCEPT ![t] = Nothing]
  /\ UNCHANGED << members, alive, send_id, epoll, to_client, clientVars >>

\* GetSocketFd finds a session or not.
GetSocketFd(t) ==
  /\ Goto(t, "lookup", "load") \/ Goto(t, "lookup", "idle")
  /\ UNCHANGED << members, alive, request, wait_time, result, epoll, to_client, clientVars >>

SameId == message_id   \* mutant: message_id in place of ++message_id

NextId == message_id + 1

LoadId(t) ==
  /\ Goto(t, "load", "store")
  /\ send_id' = [send_id EXCEPT ![t] = NextId]
  /\ UNCHANGED << members, alive, waits, calls, wait_time, result, epoll, to_client, clientVars >>

StoreId(t) ==
  /\ Goto(t, "store", IF waits[t] THEN "await" ELSE "write")
  /\ message_id' = send_id[t]
  /\ UNCHANGED << response_msg_id, need_response_message_, alive, request, wait_time,
                  result, epoll, to_client, clientVars >>

AwaitResponse(t) ==
  /\ Goto(t, "await", "write")
  /\ response_msg_id' = response_msg_id \cup {message_id}
  /\ UNCHANGED << message_id, need_response_message_, alive, request, wait_time,
                  result, epoll, to_client, clientVars >>

WriteMessage(t) ==
  /\ Goto(t, "write", IF waits[t] THEN "poll" ELSE "idle")
  /\ to_client' = Append(to_client, [id |-> send_id[t], says |-> << t, calls[t] >>])
  /\ UNCHANGED << members, alive, request, wait_time, result, epoll, clientVars >>

TimeLeftAtZero(t) == wait_time[t] >= 0   \* mutant: off by one

TimeLeft(t) == wait_time[t] > 0

\* One turn of the loop: the time is up, there is a response, or it sleeps.
Poll(t) ==
  /\ \/ Goto(t, "poll", "erase") /\ ~TimeLeft(t) /\ UNCHANGED wait_time
     \/ /\ TimeLeft(t) /\ Responded(message_id)
        /\ Goto(t, "poll", "fetch")
        /\ UNCHANGED wait_time
     \/ /\ TimeLeft(t) /\ ~Responded(message_id)
        /\ Goto(t, "poll", "poll")
        /\ wait_time' = [wait_time EXCEPT ![t] = @ - 1]
  /\ UNCHANGED << members, alive, request, result, epoll, to_client, clientVars >>

\* need_response_message_[message_id]: under an id without a response the access
\* makes a Message without data, whose header is then read at address 0.
Fetch(t) ==
  /\ Goto(t, "fetch", "erase")
  /\ result' = [result EXCEPT ![t] = need_response_message_[message_id]]
  /\ alive' = (need_response_message_[message_id] # Nothing)
  /\ UNCHANGED << members, request, wait_time, epoll, to_client, clientVars >>

\* mutant: the break on a response leaves the function
ErasedIfUnanswered(t) ==
  IF result[t] = Nothing THEN response_msg_id \ {message_id} ELSE response_msg_id

Erased(t) == response_msg_id \ {message_id}

Erase(t) ==
  /\ Goto(t, "erase", "idle")
  /\ response_msg_id' = Erased(t)
  /\ UNCHANGED << message_id, need_response_message_, alive, request, wait_time,
                  result, epoll, to_client, clientVars >>

\* What a thread does inside a call.
CallStep(t) ==
  /\ alive
  /\ \/ GetSocketFd(t) \/ LoadId(t) \/ StoreId(t) \/ AwaitResponse(t)
     \/ WriteMessage(t) \/ Poll(t) \/ Fetch(t) \/ Erase(t)

-----------------------------------------------------------------------------
(* The epoll thread of the server.                                         *)

\* A read takes one message, or several, which the framing loses.
Receive ==
  /\ handled = Idle
  /\ \/ /\ to_server # << >>
        /\ handled' = Head(to_server)
        /\ to_server' = Tail(to_server)
     \/ /\ \E k \in 2..Len(to_server) : to_server' = SubSeq(to_server, k + 1, Len(to_server))
        /\ UNCHANGED handled
  /\ UNCHANGED << members, alive, pc, request, wait_time, result, matched, to_client, clientVars >>

\* The search of response_msg_id.
Match ==
  /\ handled # Idle /\ ~matched
  /\ \/ handled.id \in response_msg_id /\ matched' = TRUE /\ UNCHANGED handled
     \/ handled.id \notin response_msg_id /\ handled' = Idle /\ UNCHANGED matched
  /\ UNCHANGED << members, alive, pc, request, wait_time, result, to_server, to_client, clientVars >>

File ==
  /\ matched
  /\ need_response_message_' = [need_response_message_ EXCEPT ![handled.id] = handled.says]
  /\ handled' = Idle /\ matched' = FALSE
  /\ UNCHANGED << message_id, response_msg_id, alive, pc, request, wait_time, result,
                  to_server, to_client, clientVars >>

-----------------------------------------------------------------------------
(* The client process: its callback answers messages of a certain length   *)
(* under their id, its application sends messages with ids of its own.     *)

ClientReceive ==
  /\ \/ \E k \in 1..Len(to_client) : to_client' = SubSeq(to_client, k + 1, Len(to_client))
        /\ UNCHANGED << to_server, answered >>
     \/ /\ to_client # << >>
        /\ to_client' = Tail(to_client)
        /\ to_server' = Append(to_server, Head(to_client))
        /\ answered' = answered \cup {Head(to_client).says}
  /\ UNCHANGED << members, alive, pc, request, wait_time, result, handled, matched, client_id >>

ClientSend ==
  /\ client_id < MaxOwn
  /\ client_id' = client_id + 1
  /\ to_server' = Append(to_server, [id |-> client_id', says |-> << Client, client_id' >>])
  /\ UNCHANGED << members, alive, pc, request, wait_time, result, handled, matched,
                  to_client, answered >>

Next ==
  \/ \E t \in Callers : (alive /\ SendMessage(t)) \/ CallStep(t)
  \/ alive /\ (Receive \/ Match \/ File)
  \/ ClientReceive \/ ClientSend

Spec == Init /\ [][Next]_vars

\* A thread inside a call keeps running: each turn of its loop sleeps 1 ms.
FairSpec == Spec /\ \A t \in Callers : WF_vars(CallStep(t))

-----------------------------------------------------------------------------
(* Properties.                                                             *)

\* std::map<int, Message /* msg id, Message*/> need_response_message_
\* (UnixDomainSocketServer.h:49) holds a message under each of its ids: what the
\* count() of 279 finds is what the access of 280 parses, also when another
\* thread sends in between and message_id is another.
NeverParsesNull == alive

\* The ids the epoll thread matches responses against are those of calls that
\* are under way; a late response finds none (181-187, 290).
AwaitedIsUnderWay ==
  \A i \in response_msg_id :
    \E t \in Callers : /\ waits[t] /\ send_id[t] = i
                       /\ pc[t] \in {"write", "poll", "fetch", "erase"}

\* Every call returns: with the answer to the message it sent, with nothing, or
\* with the message that the client sent by itself under the id of the call.
\* The call of a thread is over, for its caller, when it is idle again.
Calling == {t \in Callers : pc[t] # "idle"}

Promise == INSTANCE RequestReply WITH
  Other <- Client,
  Numbers <- Ids,
  busy <- Calling,
  number <- send_id,
  own <- 1..client_id,
  returned <- [t \in Callers |-> IF t \in Calling THEN Nothing ELSE result[t]]

ImplementsRequestReply == Promise!Spec

\* "response 를 기다려야 하는 메세지들" (UnixDomainSocketServer.cpp:181, messages that
\* must wait for a response): what a call returns is a response to its message.
ReturnsResponse ==
  \A t \in Callers : result[t] \in {Nothing, << t, calls[t] >>}
=============================================================================
