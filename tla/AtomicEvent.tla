---------------------------- MODULE AtomicEvent ----------------------------
(***************************************************************************)
(* What an event promises its users: a counter of pending events on which  *)
(* every call is one atomic step.  A send adds its increment; a wait takes *)
(* one pending event and blocks while there is none (the comments of       *)
(* val_send_event, val_send_event_to and val_wait_for_event).              *)
(***************************************************************************)
EXTENDS Integers, Sequences

CONSTANTS CPU, Increments, Scripts

VARIABLES
  cnt,  \* the number of pending events
  todo  \* the calls each processor has still to make

Init ==
  /\ cnt = 0
  /\ todo \in Scripts

Send(c) ==
  /\ todo[c] # << >> /\ Head(todo[c]).op = "send"
  /\ cnt' = cnt + Head(todo[c]).inc
  /\ todo' = [todo EXCEPT ![c] = Tail(@)]

Wait(c) ==
  /\ todo[c] # << >> /\ Head(todo[c]).op = "wait"
  /\ cnt > 0
  /\ cnt' = cnt - 1
  /\ todo' = [todo EXCEPT ![c] = Tail(@)]

Next == \E c \in CPU : Send(c) \/ Wait(c)

Spec == Init /\ [][Next]_<<cnt, todo>>
=============================================================================
