---------------------------- MODULE RequestReply ----------------------------
(***************************************************************************)
(* What the message processors of two bots promise the gRPC client of the  *)
(* distributor's bot: a call returns once; it returns a response only if   *)
(* the supplier has served the request; and a call that failed may still   *)
(* have been served, before or after it failed.  Nothing is said about how *)
(* often a request is served: the messenger may deliver it twice.          *)
(***************************************************************************)
EXTENDS Naturals

CONSTANT Requests

VARIABLES
  call,     \* "idle", "calling", "answered" or "failed"
  served    \* requests the supplier's bot has served at least once

vars == <<call, served>>

Init ==
  /\ call = [r \in Requests |-> "idle"]
  /\ served = {}

Call(r) ==
  /\ call[r] = "idle"
  /\ call' = [call EXCEPT ![r] = "calling"]
  /\ UNCHANGED served

Serve(r) ==
  /\ call[r] # "idle"
  /\ served' = served \cup {r}
  /\ UNCHANGED call

Answer(r) ==
  /\ call[r] = "calling" /\ r \in served
  /\ call' = [call EXCEPT ![r] = "answered"]
  /\ UNCHANGED served

Fail(r) ==
  /\ call[r] = "calling"
  /\ call' = [call EXCEPT ![r] = "failed"]
  /\ UNCHANGED served

Next == \E r \in Requests : Call(r) \/ Serve(r) \/ Answer(r) \/ Fail(r)

Spec == Init /\ [][Next]_vars
=============================================================================
