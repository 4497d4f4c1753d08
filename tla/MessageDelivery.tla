--------------------------- MODULE MessageDelivery ---------------------------
(***************************************************************************)
(* What the messenger promises the message processor: messages are atomic. *)
(* A message is handed over whole, only after its sender has published all *)
(* of it, possibly more than once (the server redelivers) and possibly     *)
(* never.                                                                  *)
(***************************************************************************)
EXTENDS Naturals

CONSTANT Messages

VARIABLES
  published,   \* messages their senders have published completely
  delivered    \* how often each message was handed to the processor

vars == <<published, delivered>>

Init ==
  /\ published = {}
  /\ delivered = [m \in Messages |-> 0]

Publish(m) ==
  /\ m \notin published
  /\ published' = published \cup {m}
  /\ UNCHANGED delivered

Deliver(m) ==
  /\ m \in published
  /\ delivered' = [delivered EXCEPT ![m] = @ + 1]
  /\ UNCHANGED published

Next == \E m \in Messages : Publish(m) \/ Deliver(m)

Spec == Init /\ [][Next]_vars
=============================================================================
