-------------------------- MODULE CancellationCalls --------------------------
(***************************************************************************)
(* What the cancellation service of the two bots promises its callers: a   *)
(* call is applied to the proposal at most once and at one instant, while  *)
(* it is open or after it has failed; a call that succeeds has been        *)
(* applied; a call that was refused never is.                              *)
(***************************************************************************)
CONSTANT Calls

VARIABLES
  state,      \* "idle", "open", "refused", "failed" or "succeeded"
  applied     \* calls whose operation took effect

vars == <<state, applied>>

Init ==
  /\ state = [c \in Calls |-> "idle"]
  /\ applied = {}

Open(c) ==
  /\ state[c] = "idle"
  /\ state' = [state EXCEPT ![c] = "open"]
  /\ UNCHANGED applied

Refuse(c) ==
  /\ state[c] = "idle"
  /\ state' = [state EXCEPT ![c] = "refused"]
  /\ UNCHANGED applied

Apply(c) ==
  /\ c \notin applied /\ state[c] \in {"open", "failed"}
  /\ applied' = applied \cup {c}
  /\ UNCHANGED state

Fail(c) ==
  /\ state[c] = "open"
  /\ state' = [state EXCEPT ![c] = "failed"]
  /\ UNCHANGED applied

Succeed(c) ==
  /\ state[c] = "open" /\ c \in applied
  /\ state' = [state EXCEPT ![c] = "succeeded"]
  /\ UNCHANGED applied

Next == \E c \in Calls : Open(c) \/ Refuse(c) \/ Apply(c) \/ Fail(c) \/ Succeed(c)

Spec == Init /\ [][Next]_vars
=============================================================================
