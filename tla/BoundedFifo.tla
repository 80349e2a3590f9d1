---------------------------- MODULE BoundedFifo -----------------------------
(***************************************************************************)
(* What an offline queue promises: records leave it in the order in which  *)
(* they were accepted, none is lost or duplicated once accepted, and it is *)
(* known for good when one was refused for lack of room.                   *)
(***************************************************************************)
EXTENDS Naturals, Sequences

CONSTANT Capacity

VARIABLES queue, refused

Init == queue = << >> /\ refused = FALSE

(* The record put in is any value: the last one of queue'. *)
Put ==
  /\ Len(queue) < Capacity
  /\ queue' # << >> /\ queue' = Append(queue, queue'[Len(queue')])
  /\ refused' = refused

Get ==
  /\ queue # << >>
  /\ queue' = Tail(queue)
  /\ refused' = refused

Refuse ==
  /\ Len(queue) = Capacity
  /\ refused' = TRUE
  /\ queue' = queue

Next == Put \/ Get \/ Refuse

Spec == Init /\ [][Next]_<< queue, refused >>
=============================================================================
