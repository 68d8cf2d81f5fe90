---------------------------- MODULE RequestReply ----------------------------
(***************************************************************************)
(* What the waiting SendMessage of the server promises.  A call is named   *)
(* by the thread that makes it and a count; it travels under a number.  The *)
(* other side may answer a call once it was made, at any time or never,    *)
(* and tells things by itself, under numbers of its own.  A call returns   *)
(* its own answer, if there is one by then, or nothing; or, because the    *)
(* two sides number alike, what the other side told under the same number. *)
(* Never the answer to another call.                                       *)
(***************************************************************************)
EXTENDS Integers

CONSTANTS
  Callers,     \* application threads
  Other,       \* the other side
  MaxCalls,    \* bound: calls of one thread
  Numbers,     \* what calls, and the other side, may number with
  Nothing      \* the empty result

VARIABLES
  calls,       \* the calls each thread has begun
  busy,        \* threads inside a call
  number,      \* the number of each thread's last call
  answered,    \* calls the other side has answered
  own,         \* the numbers under which it has told something by itself
  returned     \* what the last call of a thread returned

vars == << calls, busy, number, answered, own, returned >>

Init ==
  /\ calls = [t \in Callers |-> 0]
  /\ busy = {}
  /\ number = [t \in Callers |-> 0]
  /\ answered = {}
  /\ own = {}
  /\ returned = [t \in Callers |-> Nothing]

Call(t) ==
  /\ t \notin busy
  /\ calls[t] < MaxCalls
  /\ calls' = [calls EXCEPT ![t] = @ + 1]
  /\ busy' = busy \cup {t}
  /\ returned' = [returned EXCEPT ![t] = Nothing]
  /\ UNCHANGED << number, answered, own >>

Number(t, n) ==
  /\ t \in busy
  /\ number' = [number EXCEPT ![t] = n]
  /\ UNCHANGED << calls, busy, answered, own, returned >>

Answer(t, n) ==
  /\ n \in 1..calls[t]
  /\ << t, n >> \notin answered
  /\ answered' = answered \cup {<< t, n >>}
  /\ UNCHANGED << calls, busy, number, own, returned >>

Tell(n) ==
  /\ n \notin own
  /\ own' = own \cup {n}
  /\ UNCHANGED << calls, busy, number, answered, returned >>

Returnable(t) ==
  {Nothing} \cup (answered \cap {<< t, calls[t] >>}) \cup ({Other} \X (own \cap {number[t]}))

Return(t) ==
  /\ t \in busy
  /\ busy' = busy \ {t}
  /\ \E r \in Returnable(t) : returned' = [returned EXCEPT ![t] = r]
  /\ UNCHANGED << calls, number, answered, own >>

Next ==
  \/ \E t \in Callers : \/ Call(t) \/ Return(t)
                        \/ \E n \in Numbers : Number(t, n)
                        \/ \E n \in 1..MaxCalls : Answer(t, n)
  \/ \E n \in Numbers : Tell(n)

\* The safety part, and with it: a call returns.
SafeSpec == Init /\ [][Next]_vars
Spec     == SafeSpec /\ \A t \in Callers : WF_vars(Return(t))
=============================================================================
