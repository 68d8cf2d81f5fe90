---------------------------- MODULE LevelReader ----------------------------
(***************************************************************************)
(* What the epoll handler promises about input, without edges, batches or  *)
(* sessions: a writer appends units to the stream of a connection, and     *)
(* whatever a watched connection has unread is read, all of it at once, in *)
(* a step that may always be taken and is eventually taken.  A connection  *)
(* is given up only after everything in it was read.                       *)
(***************************************************************************)
EXTENDS Naturals, Sequences

CONSTANTS Conns, Units

VARIABLES written, consumed, watched

vars == << written, consumed, watched >>

Init ==
  /\ written = [c \in Conns |-> << >>]
  /\ consumed = [c \in Conns |-> 0]
  /\ watched = {}

Unread(c) == consumed[c] < Len(written[c])

Write(c) ==
  /\ \E u \in Units : written' = [written EXCEPT ![c] = Append(@, u)]
  /\ UNCHANGED << consumed, watched >>

Watch(c) ==
  /\ watched' = watched \cup {c}
  /\ UNCHANGED << written, consumed >>

ReadAll(c) ==
  /\ c \in watched
  /\ Unread(c)
  /\ consumed' = [consumed EXCEPT ![c] = Len(written[c])]
  /\ UNCHANGED << written, watched >>

Unwatch(c) ==
  /\ c \in watched
  /\ ~Unread(c)
  /\ watched' = watched \ {c}
  /\ UNCHANGED << written, consumed >>

Next == \E c \in Conns : Write(c) \/ Watch(c) \/ ReadAll(c) \/ Unwatch(c)

SafeSpec == Init /\ [][Next]_vars

Spec == SafeSpec /\ \A c \in Conns : WF_vars(ReadAll(c))
=============================================================================
