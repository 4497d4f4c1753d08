--------------------------- MODULE ServicesProofs ---------------------------
(***************************************************************************)
(* The services around the messages: the cancellation proposals            *)
(* (CancellationProposal), the life cycle of the application (AppLifecycle)*)
(* and its scheduler of jobs (JobScheduler).                               *)
(***************************************************************************)
EXTENDS CancellationProposal, AppLifecycle, JobScheduler, TLAPS

(***************************************************************************)
(* AppliedIsReported, and that the cancellation services implement         *)
(* CancellationCalls, for any calls and any requests.  The invariant says, *)
(* call by call, which transactions go with which stage: a call that was   *)
(* refused has none, one that waits has one, and one that has returned     *)
(* leaves a transaction on its way only if its wait was cut off, or the    *)
(* node's answer to sending it was lost.                                   *)
(***************************************************************************)

\* What a call's stage says about its request, its transaction and its reply.
CallAgrees(c) ==
  /\ pc[c] \in {"idle", "sending"} => tx[c] = "none" /\ reply[c] = Nil
  /\ pc[c] = "waiting" => tx[c] # "none" /\ reply[c] = Nil
  /\ pc[c] \in {"sending", "waiting"} => Checked(request[c]) = Nil
  /\ pc[c] \in {"sending", "waiting"} => request[c] \in Requests
  /\ tx[c] # "none" => Checked(request[c]) = Nil /\ request[c] \in Requests
  /\ reply[c] = "success" => tx[c] = "mined"
  /\ pc[c] = "returned" /\ tx[c] = "pending" => c \in cutOff \cup lost
  /\ pc[c] = "returned" /\ tx[c] = "mined" => reply[c] = "success" \/ c \in cutOff \cup lost

CallsAgree == \A c \in Calls : CallAgrees(c)

ProposalInv == ProposalTypeOK /\ CallsAgree

-----------------------------------------------------------------------------
\* A check lets a call go on or gives it one of the codes.
LEMMA CheckedIsCode == \A q : Checked(q) \in Codes \cup {Nil}
BY DEF Checked, ByVersion, Codes, ProposeV1, ProposeV2, ProposeV3, AcceptV1, AcceptV2, AcceptV3,
       DeclineV1, DeclineV2, DeclineV3, FinalizeV1, FinalizeV2, FinalizeV3

\* A failed transaction gives one of the codes.
LEMMA ErrorIsCode == \A q : errResponse(q) \in Codes
BY DEF errResponse, ByVersion, Codes, errResponseV1, errResponseV2, errResponseV3

\* No code is a success or nothing.
LEMMA CodesDiffer == "success" \notin Codes /\ Nil \notin Codes /\ Nil # "success"
BY CallsAssumption DEF Codes

\* Before the first call nothing is under way.
LEMMA ProposalInitInv == ProposalInit => ProposalInv
<1> SUFFICES ASSUME ProposalInit PROVE ProposalInv
  OBVIOUS
<1>1. ProposalTypeOK
  BY DEF ProposalInit, ProposalTypeOK, NoProposal, Proposals, NoRequest
<1>2. CallsAgree
  BY CodesDiffer DEF ProposalInit, CallsAgree, CallAgrees
<1> QED BY <1>1, <1>2 DEF ProposalInv

\* A step that changes one call keeps what holds of the others.
LEMMA OneCall ==
  ASSUME ProposalInv, NEW c \in Calls,
         \A d \in Calls \ {c} : /\ pc'[d] = pc[d] /\ request'[d] = request[d]
                                /\ tx'[d] = tx[d] /\ reply'[d] = reply[d],
         cutOff \subseteq cutOff', lost \subseteq lost',
         CallAgrees(c)'
  PROVE  CallsAgree'
<1> SUFFICES ASSUME NEW d \in Calls \ {c} PROVE CallAgrees(d)'
  BY DEF CallsAgree
<1>1. CallAgrees(d)
  BY DEF ProposalInv, CallsAgree
<1> QED BY <1>1 DEF CallAgrees

\* A call arrives.
LEMMA HandleKeeps ==
  ASSUME ProposalInv, NEW c \in Calls, NEW q \in Asked[c], Handle(c, q)
  PROVE  ProposalInv'
<1>0. UNCHANGED <<tx, cutOff, lost, proposal>> /\ q \in Requests
  BY CallsAssumption DEF Handle
<1>1. pc[c] = "idle" /\ tx[c] = "none" /\ reply[c] = Nil
  BY DEF Handle, ProposalInv, CallsAgree, CallAgrees
<1>2. PICK p \in {"sending", "returned"}, r \in Codes \cup {Nil} :
        /\ pc' = [pc EXCEPT ![c] = p] /\ reply' = [reply EXCEPT ![c] = r]
        /\ (p = "sending" => Checked(q) = Nil /\ r = Nil)
        /\ (p = "returned" => r \in Codes)
  <2>1. CASE Checked(q) # Nil /\ Return(c, Checked(q))
    BY <2>1, CheckedIsCode DEF Return
  <2>2. CASE Checked(q) = Nil /\ pc' = [pc EXCEPT ![c] = "sending"] /\ UNCHANGED reply
    <3>1. reply' = [reply EXCEPT ![c] = Nil]
      BY <1>1, <2>2 DEF ProposalInv, ProposalTypeOK
    <3> QED BY <2>2, <3>1
  <2> QED BY <2>1, <2>2 DEF Handle
<1>3. request' = [request EXCEPT ![c] = q]
  BY DEF Handle
<1>4. ProposalTypeOK'
  BY <1>0, <1>2, <1>3 DEF ProposalInv, ProposalTypeOK
<1>5. /\ pc'[c] = p /\ reply'[c] = r /\ request'[c] = q /\ tx'[c] = "none"
      /\ \A d \in Calls \ {c} : /\ pc'[d] = pc[d] /\ request'[d] = request[d]
                                /\ tx'[d] = tx[d] /\ reply'[d] = reply[d]
  BY <1>0, <1>1, <1>2, <1>3 DEF ProposalInv, ProposalTypeOK
<1>6. CallAgrees(c)'
  BY <1>0, <1>2, <1>5, CodesDiffer DEF CallAgrees
<1> QED BY <1>0, <1>4, <1>5, <1>6, OneCall DEF ProposalInv

\* A call's transaction is sent or fails.
LEMMA TransactKeeps ==
  ASSUME ProposalInv, NEW c \in Calls, Transact(c)
  PROVE  ProposalInv'
<1>0. /\ UNCHANGED <<request, cutOff, proposal>> /\ pc[c] = "sending"
      /\ Send(c)
  BY DEF Transact, SendProposal, SendAccept, SendDecline, SendFinalize, SendOp
<1>1. /\ tx[c] = "none" /\ reply[c] = Nil /\ Checked(request[c]) = Nil
      /\ request[c] \in Requests
  BY <1>0 DEF ProposalInv, CallsAgree, CallAgrees
<1>2. CASE /\ tx' = [tx EXCEPT ![c] = "pending"]
           /\ pc' = [pc EXCEPT ![c] = "waiting"]
           /\ UNCHANGED <<reply, lost>>
  <2>1. ProposalTypeOK'
    BY <1>0, <1>2 DEF ProposalInv, ProposalTypeOK
  <2>2. /\ pc'[c] = "waiting" /\ tx'[c] = "pending" /\ reply'[c] = Nil
        /\ \A d \in Calls \ {c} : pc'[d] = pc[d] /\ tx'[d] = tx[d] /\ reply'[d] = reply[d]
    BY <1>1, <1>2 DEF ProposalInv, ProposalTypeOK
  <2>3. CallAgrees(c)'
    BY <1>0, <1>1, <2>2, CodesDiffer DEF CallAgrees
  <2> QED BY <1>0, <1>2, <2>1, <2>2, <2>3, OneCall DEF ProposalInv
<1>3. ASSUME NEW t \in {"none", "pending"}, tx' = [tx EXCEPT ![c] = t],
             Return(c, errResponse(request[c])), lost \subseteq lost', lost' \subseteq Calls,
             t = "pending" => c \in lost'
      PROVE  ProposalInv'
  <2> DEFINE r == errResponse(request[c])
  <2>0. r \in Codes
    BY ErrorIsCode
  <2> HIDE DEF r
  <2>1. pc' = [pc EXCEPT ![c] = "returned"] /\ reply' = [reply EXCEPT ![c] = r]
    BY <1>3 DEF Return, r
  <2>2. ProposalTypeOK'
    BY <1>0, <1>3, <2>0, <2>1 DEF ProposalInv, ProposalTypeOK
  <2>3. /\ pc'[c] = "returned" /\ tx'[c] = t /\ reply'[c] = r
        /\ \A d \in Calls \ {c} : pc'[d] = pc[d] /\ tx'[d] = tx[d] /\ reply'[d] = reply[d]
    BY <1>1, <1>3, <2>1 DEF ProposalInv, ProposalTypeOK
  <2>4. CallAgrees(c)'
    BY <1>0, <1>1, <1>3, <2>0, <2>3, CodesDiffer DEF CallAgrees
  <2> QED BY <1>0, <1>3, <2>2, <2>3, <2>4, OneCall DEF ProposalInv
<1>4. tx = [tx EXCEPT ![c] = "none"] /\ lost \subseteq Calls
  BY <1>1 DEF ProposalInv, ProposalTypeOK
<1> QED BY <1>0, <1>2, <1>3, <1>4 DEF Send

\* A call returns from its wait: what it replies is what became of its
\* transaction, unless it was cut off.
LEMMA ReturnKeeps ==
  ASSUME ProposalInv, NEW c \in Calls, Mined(c) \/ WaitCutOff(c)
  PROVE  /\ ProposalInv'
         /\ pc[c] = "waiting" /\ Checked(request[c]) = Nil /\ UNCHANGED <<request, tx>>
         /\ pc' = [pc EXCEPT ![c] = "returned"]
         /\ \A d \in Calls \ {c} : reply'[d] = reply[d]
         /\ reply'[c] = "success" => tx[c] = "mined"
<1>0. UNCHANGED <<request, tx, lost, proposal>> /\ pc[c] = "waiting"
  BY DEF Mined, WaitCutOff
<1>1. /\ tx[c] # "none" /\ Checked(request[c]) = Nil /\ request[c] \in Requests
  BY <1>0 DEF ProposalInv, CallsAgree, CallAgrees
<1>2. PICK r \in Codes \cup {"success"} :
        /\ pc' = [pc EXCEPT ![c] = "returned"] /\ reply' = [reply EXCEPT ![c] = r]
        /\ r = "success" => tx[c] = "mined"
        /\ (tx[c] \in {"pending", "mined"} => r = "success" \/ c \in cutOff')
        /\ cutOff \subseteq cutOff' /\ cutOff' \subseteq Calls
  <2> DEFINE e == errResponse(request[c])
  <2>0. e \in Codes /\ e # "success"
    BY ErrorIsCode, CodesDiffer
  <2> HIDE DEF e
  <2>1. CASE Mined(c)
    <3>1. /\ tx[c] \in {"mined", "reverted"} /\ cutOff' = cutOff
          /\ pc' = [pc EXCEPT ![c] = "returned"]
          /\ reply' = [reply EXCEPT ![c] = IF tx[c] = "mined" THEN "success" ELSE e]
      BY <2>1 DEF Mined, Return, e
    <3> QED BY <2>0, <3>1 DEF ProposalInv, ProposalTypeOK
  <2>2. CASE WaitCutOff(c)
    <3>1. /\ cutOff' = cutOff \cup {c}
          /\ pc' = [pc EXCEPT ![c] = "returned"]
          /\ reply' = [reply EXCEPT ![c] = e]
      BY <2>2 DEF WaitCutOff, Return, e
    <3> QED BY <2>0, <3>1 DEF ProposalInv, ProposalTypeOK
  <2> QED BY <2>1, <2>2
<1>3. ProposalTypeOK'
  BY <1>0, <1>2 DEF ProposalInv, ProposalTypeOK
<1>4. /\ pc'[c] = "returned" /\ reply'[c] = r
      /\ \A d \in Calls \ {c} : pc'[d] = pc[d] /\ reply'[d] = reply[d]
  BY <1>2 DEF ProposalInv, ProposalTypeOK
<1>5. CallAgrees(c)'
  BY <1>0, <1>1, <1>2, <1>4 DEF CallAgrees
<1>6. ProposalInv'
  BY <1>0, <1>2, <1>3, <1>4, <1>5, OneCall DEF ProposalInv
<1> QED BY <1>0, <1>1, <1>2, <1>4, <1>6

\* What the contract does to the proposal leaves it well formed.
LEMMA OutcomeType ==
  ASSUME NEW c \in Calls, NEW q \in Requests, proposal \in Proposals
  PROVE  Outcome(c, q) \in Proposals
<1>0. By[c] \in {"owner", "supplier"} /\ q.refund \in Amounts \cup {Nil}
  BY CallsAssumption DEF Requests
<1> QED BY <1>0 DEF Outcome, Proposals

\* A transaction is mined, or reverts, once.
LEMMA MineKeeps ==
  ASSUME ProposalInv, NEW c \in Calls, Mine(c)
  PROVE  ProposalInv'
<1>0. UNCHANGED <<pc, request, reply, cutOff, lost>> /\ tx[c] = "pending"
  BY DEF Mine
<1>1. Checked(request[c]) = Nil /\ request[c] \in Requests
  BY <1>0 DEF ProposalInv, CallsAgree, CallAgrees
<1>2. PICK t \in {"mined", "reverted"} : tx' = [tx EXCEPT ![c] = t]
  BY DEF Mine
<1>3. proposal' \in Proposals
  <2>1. proposal \in Proposals
    BY DEF ProposalInv, ProposalTypeOK
  <2>2. Outcome(c, request[c]) \in Proposals
    BY <1>1, <2>1, OutcomeType
  <2> QED BY <2>1, <2>2 DEF Mine
<1>4. ProposalTypeOK'
  BY <1>0, <1>2, <1>3 DEF ProposalInv, ProposalTypeOK
<1>5. tx'[c] = t /\ \A d \in Calls \ {c} : tx'[d] = tx[d]
  BY <1>2 DEF ProposalInv, ProposalTypeOK
<1>6. CallAgrees(c)
  BY DEF ProposalInv, CallsAgree
<1>7. CallAgrees(c)'
  <2>1. /\ reply[c] # "success" /\ pc[c] \notin {"idle", "sending"}
        /\ pc[c] = "returned" => c \in cutOff \cup lost
    BY <1>0, <1>6 DEF CallAgrees
  <2> QED BY <1>0, <1>1, <1>5, <1>6, <2>1 DEF CallAgrees
<1> QED BY <1>0, <1>4, <1>5, <1>7, OneCall DEF ProposalInv

\* Every step of a call and of the contract keeps the agreement.
LEMMA ProposalNextInv == ProposalInv /\ [ProposalNext]_proposalVars => ProposalInv'
<1> SUFFICES ASSUME ProposalInv, [ProposalNext]_proposalVars PROVE ProposalInv'
  OBVIOUS
<1>1. CASE UNCHANGED proposalVars
  BY <1>1 DEF proposalVars, ProposalInv, ProposalTypeOK, CallsAgree, CallAgrees
<1>2. CASE ProposalNext
  <2>1. PICK c \in Calls : \/ \E q \in Asked[c] : Handle(c, q)
                           \/ Transact(c) \/ Mined(c) \/ WaitCutOff(c) \/ Mine(c)
    BY <1>2 DEF ProposalNext
  <2> QED BY <2>1, HandleKeeps, TransactKeeps, ReturnKeeps, MineKeeps
<1> QED BY <1>1, <1>2

\* The calls and the proposal keep their types.
THEOREM ProposalTypeCorrect == ProposalSpec => []ProposalTypeOK
<1>1. ProposalInv => ProposalTypeOK
  BY DEF ProposalInv
<1> QED BY <1>1, ProposalInitInv, ProposalNextInv, PTL DEF ProposalSpec

\* A proposal changes behind an error reply only if the call's context ended
\* while its transaction was on its way, or the node's answer to sending it was
\* lost, and never for a refused call.
THEOREM AppliedIsReportedHolds == ProposalSpec => []AppliedIsReported
<1>1. ProposalInv => AppliedIsReported
  <2> SUFFICES ASSUME ProposalInv, NEW c \in Calls, tx[c] = "mined"
               PROVE  /\ pc[c] = "waiting" \/ reply[c] = "success" \/ c \in cutOff \cup lost
                      /\ Checked(request[c]) = Nil
    BY DEF AppliedIsReported, Applied
  <2>1. CallAgrees(c) /\ pc[c] \in {"idle", "sending", "waiting", "returned"}
    BY DEF ProposalInv, CallsAgree, ProposalTypeOK
  <2> QED BY <2>1 DEF CallAgrees
<1> QED BY <1>1, ProposalInitInv, ProposalNextInv, PTL DEF ProposalSpec

-----------------------------------------------------------------------------
(* The refinement: every step maps to a step of CancellationCalls or to a  *)
(* stutter.                                                                *)

\* What a caller sees of one call.
StateOf(c) ==
  IF pc[c] = "idle" THEN "idle"
  ELSE IF pc[c] # "returned" THEN "open"
  ELSE IF Checked(request[c]) # Nil THEN "refused"
  ELSE IF reply[c] = "success" THEN "succeeded" ELSE "failed"

\* Calls that a step leaves alone are seen as before.
LEMMA StateChanges ==
  ASSUME NEW c \in Calls, NEW v, StateOf(c)' = v,
         \A d \in Calls \ {c} : /\ pc'[d] = pc[d] /\ request'[d] = request[d]
                                /\ reply'[d] = reply[d]
  PROVE  State' = [State EXCEPT ![c] = v]
<1>1. State = [d \in Calls |-> StateOf(d)] /\ State' = [d \in Calls |-> StateOf(d)']
  BY DEF State, StateOf
<1>2. \A d \in Calls \ {c} : StateOf(d)' = StateOf(d)
  BY DEF StateOf
<1> QED BY <1>1, <1>2

\* A call seen as it was before leaves what its callers see unchanged.
LEMMA StateStays ==
  ASSUME \A d \in Calls : StateOf(d)' = StateOf(d)
  PROVE  UNCHANGED State
<1>1. State = [d \in Calls |-> StateOf(d)] /\ State' = [d \in Calls |-> StateOf(d)']
  BY DEF State, StateOf
<1> QED BY <1>1

\* The arrival of a call opens it or refuses it.
LEMMA HandleMaps ==
  ASSUME ProposalInv, NEW c \in Calls, NEW q \in Asked[c], Handle(c, q)
  PROVE  Abstract!Open(c) \/ Abstract!Refuse(c)
<1>1. pc[c] = "idle" /\ State[c] = "idle" /\ UNCHANGED Applied
  BY DEF Handle, State, Applied
<1>2. /\ request'[c] = q
      /\ \A d \in Calls \ {c} : /\ pc'[d] = pc[d] /\ request'[d] = request[d]
                                /\ reply'[d] = reply[d]
  BY DEF Handle, Return, ProposalInv, ProposalTypeOK
<1>3. CASE Checked(q) # Nil /\ pc' = [pc EXCEPT ![c] = "returned"]
  <2>1. StateOf(c)' = "refused"
    BY <1>2, <1>3 DEF StateOf, ProposalInv, ProposalTypeOK
  <2> QED BY <1>1, <1>2, <2>1, StateChanges DEF Abstract!Refuse
<1>4. CASE pc' = [pc EXCEPT ![c] = "sending"]
  <2>1. StateOf(c)' = "open"
    BY <1>4 DEF StateOf, ProposalInv, ProposalTypeOK
  <2> QED BY <1>1, <1>2, <2>1, StateChanges DEF Abstract!Open
<1> QED BY <1>3, <1>4 DEF Handle, Return

\* Sending is not seen, unless it fails.
LEMMA TransactMaps ==
  ASSUME ProposalInv, NEW c \in Calls, Transact(c)
  PROVE  Abstract!Fail(c) \/ UNCHANGED Abstract!vars
<1>0. UNCHANGED request /\ pc[c] = "sending" /\ Send(c) /\ State[c] = "open"
  BY DEF Transact, SendProposal, SendAccept, SendDecline, SendFinalize, SendOp, State
<1>1. tx[c] = "none" /\ Checked(request[c]) = Nil
  BY <1>0 DEF ProposalInv, CallsAgree, CallAgrees
<1>2. UNCHANGED Applied
  <2>1. \A d \in Calls : tx'[d] = "mined" <=> tx[d] = "mined"
    BY <1>0, <1>1 DEF Send, ProposalInv, ProposalTypeOK
  <2> QED BY <2>1 DEF Applied
<1>3. CASE pc' = [pc EXCEPT ![c] = "waiting"] /\ UNCHANGED reply
  <2>1. \A d \in Calls : StateOf(d)' = StateOf(d)
    BY <1>0, <1>3 DEF StateOf, ProposalInv, ProposalTypeOK
  <2> QED BY <1>2, <2>1, StateStays DEF Abstract!vars
<1>4. CASE Return(c, errResponse(request[c]))
  <2>1. /\ pc'[c] = "returned" /\ reply'[c] # "success"
        /\ \A d \in Calls \ {c} : pc'[d] = pc[d] /\ reply'[d] = reply[d]
    BY <1>4, ErrorIsCode, CodesDiffer DEF Return, ProposalInv, ProposalTypeOK
  <2>2. StateOf(c)' = "failed"
    BY <1>0, <1>1, <2>1 DEF StateOf
  <2> QED BY <1>0, <1>2, <2>1, <2>2, StateChanges DEF Abstract!Fail
<1> QED BY <1>0, <1>3, <1>4 DEF Send

\* A call that returns from its wait fails, or succeeds after it was applied.
LEMMA ReturnMaps ==
  ASSUME ProposalInv, NEW c \in Calls, Mined(c) \/ WaitCutOff(c)
  PROVE  Abstract!Fail(c) \/ Abstract!Succeed(c)
<1>1. /\ pc[c] = "waiting" /\ Checked(request[c]) = Nil /\ UNCHANGED <<request, tx>>
      /\ pc' = [pc EXCEPT ![c] = "returned"]
      /\ \A d \in Calls \ {c} : reply'[d] = reply[d]
      /\ reply'[c] = "success" => tx[c] = "mined"
  BY ReturnKeeps
<1>2. State[c] = "open" /\ UNCHANGED Applied
  BY <1>1 DEF State, Applied
<1>3. pc'[c] = "returned" /\ \A d \in Calls \ {c} : pc'[d] = pc[d]
  BY <1>1 DEF ProposalInv, ProposalTypeOK
<1>4. CASE reply'[c] = "success"
  <2>1. StateOf(c)' = "succeeded" /\ c \in Applied
    BY <1>1, <1>3, <1>4 DEF StateOf, Applied
  <2> QED BY <1>1, <1>2, <1>3, <2>1, StateChanges DEF Abstract!Succeed
<1>5. CASE reply'[c] # "success"
  <2>1. StateOf(c)' = "failed"
    BY <1>1, <1>3, <1>5 DEF StateOf
  <2> QED BY <1>1, <1>2, <1>3, <2>1, StateChanges DEF Abstract!Fail
<1> QED BY <1>4, <1>5

\* A mined transaction is applied while its call is open or has failed.
LEMMA MineMaps ==
  ASSUME ProposalInv, NEW c \in Calls, Mine(c)
  PROVE  Abstract!Apply(c) \/ UNCHANGED Abstract!vars
<1>0. tx[c] = "pending" /\ UNCHANGED State /\ UNCHANGED <<pc, request, reply>>
  BY DEF Mine, State
<1>1. State[c] \in {"open", "failed"}
  <2>1. CallAgrees(c)
    BY DEF ProposalInv, CallsAgree
  <2>2. pc[c] # "idle" /\ Checked(request[c]) = Nil /\ reply[c] # "success"
    BY <1>0, <2>1 DEF CallAgrees
  <2> QED BY <2>2 DEF State
<1>2. CASE tx' = [tx EXCEPT ![c] = "mined"]
  <2>1. Applied' = Applied \cup {c} /\ c \notin Applied
    BY <1>0, <1>2 DEF Applied, ProposalInv, ProposalTypeOK
  <2> QED BY <1>0, <1>1, <2>1 DEF Abstract!Apply
<1>3. CASE tx' = [tx EXCEPT ![c] = "reverted"]
  <2>1. UNCHANGED Applied
    BY <1>0, <1>3 DEF Applied, ProposalInv, ProposalTypeOK
  <2> QED BY <1>0, <2>1 DEF Abstract!vars
<1> QED BY <1>2, <1>3 DEF Mine

\* The cancellation services of both bots implement what CancellationCalls
\* promises: a call is applied at most once, at one instant, never after it was
\* refused, and always before it succeeds.
THEOREM CallsRefined == ProposalSpec => CallsSpec
<1>1. ProposalInit => Abstract!Init
  BY DEF ProposalInit, State, Applied, Abstract!Init
<1>2. ProposalInv /\ [ProposalNext]_proposalVars => [Abstract!Next]_(Abstract!vars)
  <2> SUFFICES ASSUME ProposalInv, [ProposalNext]_proposalVars
               PROVE  [Abstract!Next]_(Abstract!vars)
    OBVIOUS
  <2>1. CASE UNCHANGED proposalVars
    BY <2>1 DEF proposalVars, State, Applied, Abstract!vars
  <2>2. CASE ProposalNext
    <3>1. PICK c \in Calls : \/ \E q \in Asked[c] : Handle(c, q)
                             \/ Transact(c) \/ Mined(c) \/ WaitCutOff(c) \/ Mine(c)
      BY <2>2 DEF ProposalNext
    <3>2. \/ Abstract!Open(c) \/ Abstract!Refuse(c) \/ Abstract!Apply(c)
          \/ Abstract!Fail(c) \/ Abstract!Succeed(c) \/ UNCHANGED Abstract!vars
      BY <3>1, HandleMaps, TransactMaps, ReturnMaps, MineMaps
    <3> QED BY <3>2 DEF Abstract!Next
  <2> QED BY <2>1, <2>2
<1> QED BY <1>1, <1>2, ProposalInitInv, ProposalNextInv, PTL
        DEF ProposalSpec, CallsSpec, Abstract!Spec

-----------------------------------------------------------------------------
(***************************************************************************)
(* FailureSurfaces, for every configuration.  Once something has failed,   *)
(* the error is in the group or still on its way: with a handler that has  *)
(* panicked and can yet hand it over, with the goroutine that forwards it, *)
(* with the syncer or with the server.  The invariant ties each of these   *)
(* to a goroutine of the group that has not returned.                      *)
(***************************************************************************)

JobStages ==
  {"start", "token", "checked", "cancellation", "wait", "rooms", "chan", "listen", "close",
   "drain", "nilChan", "done"}

\* Every variable holds a value of the shape the code declares for it.
AppTypeOK ==
  /\ result \in {"none", "nil", "error", "crash"}
  /\ ctx \in BOOLEAN /\ err \in BOOLEAN /\ failed \in BOOLEAN
  /\ handler \in [Kinds -> {"none", "running", "panicked", "gone"}]
  /\ stored \subseteq Kinds /\ unsubscribed \subseteq Kinds
  /\ subErr \in BOOLEAN /\ stopChan \in BOOLEAN
  /\ forward \in {"none", "waiting", "error", "nil", "forwarded", "done"}
  /\ sync \in {"none", "syncing", "offering", "failing", "closing", "closed", "done"}
  /\ grpc \in {"none", "serving", "failing", "closed"}
  /\ life = "running" =>
       job \in [Group -> JobStages]

\* Before Run there are no goroutines.
NotStarted ==
  /\ ~failed /\ ~err /\ ~subErr /\ ~stopChan
  /\ \A k \in Kinds : handler[k] = "none"
  /\ unsubscribed = {} /\ forward = "none" /\ sync = "none" /\ grpc = "none"

\* The listener, its subscriber and the goroutine between them.
ListenerAgrees ==
  /\ job["listener"] \in {"start", "token", "checked", "cancellation"} =>
       forward = "none" /\ handler["cancellation"] = "none"
  /\ job["listener"] \in {"start", "token"} => handler["token"] = "none"
  /\ forward \in {"waiting", "error", "nil"} => job["listener"] = "wait"
  /\ forward \in {"forwarded", "done"} => job["listener"] = "done"
  /\ job["listener"] = "done" => err \/ subErr
  /\ forward = "nil" => subErr
  /\ stopChan => err \/ subErr
  /\ unsubscribed # {} => ctx
  /\ \A k \in Kinds : handler[k] = "gone" => ctx \/ forward = "error"
  /\ subErr => ctx \/ forward = "error"

\* The syncer and the server, each with the goroutine that waits for it.
WaitersAgree ==
  /\ sync # "none" => job["messenger"] \in {"wait", "done"}
  /\ sync \in {"syncing", "offering", "failing"} => job["messenger"] = "wait"
  /\ grpc # "none" => "server" \in Group /\ job["server"] \in {"wait", "done"}
  /\ grpc \in {"serving", "failing"} => job["server"] = "wait"

\* An error that the group does not hold yet is on its way to it.
OnItsWay ==
  failed => \/ err
            \/ \E k \in Kinds : handler[k] = "panicked" /\ ~subErr
            \/ forward = "error" \/ sync = "failing" \/ grpc = "failing"

AppInv ==
  /\ AppTypeOK
  /\ life # "returned" => result = "none" /\ (err => ctx)
  /\ life \notin {"running", "returned"} => NotStarted
  /\ life = "running" => ListenerAgrees /\ WaitersAgree /\ OnItsWay
  /\ FailureSurfaces

\* At first nothing is started.
LEMMA AppInitInv == AppInit => AppInv
<1> SUFFICES ASSUME AppInit PROVE AppInv
  OBVIOUS
<1>1. /\ result = "none" /\ life = "chain" /\ forward = "none" /\ sync = "none" /\ grpc = "none"
      /\ handler \in [Kinds -> {"none", "running", "panicked", "gone"}]
      /\ \A k \in Kinds : handler[k] = "none"
      /\ stored = {} /\ unsubscribed = {}
  BY DEF AppInit
<1>2. /\ ctx = FALSE /\ err = FALSE /\ failed = FALSE /\ subErr = FALSE /\ stopChan = FALSE
  BY DEF AppInit
<1>3. AppTypeOK
  BY <1>1, <1>2 DEF AppTypeOK
<1>4. NotStarted
  BY <1>1, <1>2 DEF NotStarted
<1> QED BY <1>1, <1>2, <1>3, <1>4 DEF AppInv, FailureSurfaces

-----------------------------------------------------------------------------
\* A signal ends the context and changes nothing else.
LEMMA SignalKeeps ==
  ASSUME AppInv, Signal
  PROVE  AppInv'
<1>1. /\ UNCHANGED <<life, result, config, failed>> /\ UNCHANGED <<err, job>>
      /\ UNCHANGED <<handler, stored, unsubscribed, subErr, stopChan, forward>>
      /\ UNCHANGED <<sync, grpc>> /\ ctx' = TRUE
  BY DEF Signal, core, listener, messenger, server
<1>2. AppTypeOK'
  <2>1. Group' = Group
    BY <1>1 DEF Group
  <2> QED BY <1>1, <2>1 DEF AppInv, AppTypeOK
<1>3. NotStarted => NotStarted'
  BY <1>1 DEF NotStarted
<1>4. ListenerAgrees => ListenerAgrees'
  BY <1>1 DEF ListenerAgrees
<1>5. (WaitersAgree => WaitersAgree') /\ (OnItsWay => OnItsWay')
  BY <1>1 DEF WaitersAgree, OnItsWay, Group
<1> QED BY <1>1, <1>2, <1>3, <1>4, <1>5 DEF AppInv, FailureSurfaces

\* NewApp goes on, or ends the program: nothing has failed that ran.
LEMMA ConstructKeeps ==
  ASSUME AppInv, Construct
  PROVE  AppInv'
<1>1. life \notin {"running", "returned"}
  BY DEF Construct, DialChain, NewClient, NewServices, NewListenerStorage, NewListener,
         NewMatrixClient, NewStores, NewMessenger, NewServer, Build, BuildLocal, Leave
<1>2. NotStarted /\ AppTypeOK /\ result = "none"
  BY <1>1 DEF AppInv
<1>3. \/ rootFunc
      \/ \E to \in {"client", "services", "listenerStorage", "listener", "matrix", "stores",
                     "messenger", "server"} : Leave(life, to)
      \/ NewServer /\ ~rootFunc
  BY DEF Construct, DialChain, NewClient, NewServices, NewListenerStorage, NewListener,
         NewMatrixClient, NewStores, NewMessenger, NewServer, Build, BuildLocal, Leave
<1>4. /\ UNCHANGED <<config, failed, ctx, err>>
      /\ UNCHANGED <<handler, stored, unsubscribed, subErr, stopChan, forward>>
      /\ UNCHANGED <<sync, grpc>>
  BY <1>3 DEF NewServer, rootFunc, Leave, group, listener, messenger, server
<1>5. NotStarted'
  BY <1>2, <1>4 DEF NotStarted
<1>6. CASE rootFunc
  <2>1. life' = "returned" /\ result' \in {"nil", "error"}
    BY <1>6 DEF rootFunc
  <2>2. AppTypeOK'
    BY <1>2, <1>4, <2>1 DEF AppTypeOK
  <2> QED BY <1>5, <2>1, <2>2 DEF AppInv, FailureSurfaces, NotStarted
<1>7. CASE \E to \in {"client", "services", "listenerStorage", "listener", "matrix", "stores",
                      "messenger", "server"} : Leave(life, to)
  <2>1. life' \notin {"running", "returned"} /\ result' = result
    BY <1>7 DEF Leave
  <2>2. AppTypeOK'
    BY <1>2, <1>4, <2>1 DEF AppTypeOK
  <2> QED BY <1>2, <1>5, <2>1, <2>2 DEF AppInv, FailureSurfaces, NotStarted
<1>8. CASE NewServer /\ ~rootFunc
  <2>1. life' = "running" /\ job' = [g \in Group |-> "start"] /\ result' = result
    BY <1>8 DEF NewServer
  <2>2. Group' = Group /\ {"listener", "messenger"} \subseteq Group
    BY <1>4 DEF Group, Runs
  <2>3. job' \in [Group' -> JobStages]
    BY <2>1, <2>2 DEF JobStages
  <2>4. AppTypeOK'
    BY <1>2, <1>4, <2>1, <2>3 DEF AppTypeOK
  <2>5. ListenerAgrees' /\ WaitersAgree' /\ OnItsWay'
    BY <1>5, <2>1, <2>2 DEF NotStarted, ListenerAgrees, WaitersAgree, OnItsWay, Kinds
  <2> QED BY <1>2, <1>5, <2>1, <2>4, <2>5 DEF AppInv, FailureSurfaces, NotStarted
<1> QED BY <1>3, <1>6, <1>7, <1>8

-----------------------------------------------------------------------------
\* What is known while Run is at work.
LEMMA AtWork ==
  ASSUME AppInv, life = "running"
  PROVE  /\ AppTypeOK /\ ListenerAgrees /\ WaitersAgree /\ OnItsWay /\ result = "none"
         /\ err => ctx
         /\ job \in [Group -> JobStages] /\ DOMAIN job = Group
         /\ {"listener", "processor", "messenger", "stopMessenger", "stopListener"} \subseteq Group
BY DEF AppInv, AppTypeOK, Group, Runs, Stops

\* The invariant of the next state, put together.
LEMMA RunningStep ==
  ASSUME AppInv, life = "running", UNCHANGED <<life, result, config>>,
         AppTypeOK', err' => ctx', ListenerAgrees', WaitersAgree', OnItsWay'
  PROVE  AppInv'
BY DEF AppInv, FailureSurfaces

\* A goroutine of the group that goes on leaves the others where they are.
LEMMA JobMoves ==
  ASSUME AppInv, life = "running", NEW g \in Group, NEW s \in JobStages, config' = config,
         job' = [job EXCEPT ![g] = s]
  PROVE  /\ job' \in [Group -> JobStages] /\ Group' = Group
         /\ job'[g] = s /\ \A h \in Group \ {g} : job'[h] = job[h]
<1>1. job \in [Group -> JobStages]
  BY AtWork
<1> QED BY <1>1 DEF Group

\* safeGo: the first error ends the context, and neither is taken back.
LEMMA safeGoGrows ==
  ASSUME AppInv, life = "running", NEW g \in Group, NEW e \in BOOLEAN, config' = config,
         safeGo(g, e)
  PROVE  /\ err' \in BOOLEAN /\ ctx' \in BOOLEAN /\ (err => err') /\ (ctx => ctx') /\ (err' => ctx')
         /\ e => err'
         /\ job' \in [Group -> JobStages] /\ Group' = Group
         /\ job'[g] = "done" /\ \A h \in Group \ {g} : job'[h] = job[h]
<1>1. err \in BOOLEAN /\ ctx \in BOOLEAN /\ (err => ctx)
  BY AtWork DEF AppTypeOK
<1>2. err' = (err \/ e) /\ ctx' = (ctx \/ e) /\ job' = [job EXCEPT ![g] = "done"]
  BY DEF safeGo
<1>3. /\ err' \in BOOLEAN /\ ctx' \in BOOLEAN /\ (err => err') /\ (ctx => ctx') /\ (err' => ctx')
      /\ e => err'
  BY <1>1, <1>2
<1>4. "done" \in JobStages
  BY DEF JobStages
<1> QED BY <1>2, <1>3, <1>4, JobMoves

\* What leaves the listener alone keeps what is known of it.
LEMMA KeepsListener ==
  ASSUME AppInv, life = "running",
         UNCHANGED <<handler, unsubscribed, subErr, stopChan, forward>>,
         job'["listener"] = job["listener"], err => err', ctx => ctx'
  PROVE  ListenerAgrees'
BY AtWork DEF ListenerAgrees

\* What leaves the syncer and the server alone keeps what is known of them.
LEMMA KeepsWaiters ==
  ASSUME AppInv, life = "running", UNCHANGED <<sync, grpc>>, Group' = Group,
         job'["messenger"] = job["messenger"],
         "server" \in Group => job'["server"] = job["server"]
  PROVE  WaitersAgree'
BY AtWork DEF WaitersAgree

\* What hands no error on leaves it on its way.
LEMMA KeepsOnItsWay ==
  ASSUME AppInv, life = "running", UNCHANGED <<handler, subErr, forward, sync, grpc>>,
         failed' => failed \/ err', err => err'
  PROVE  OnItsWay'
BY AtWork DEF OnItsWay

\* Steps of goroutines on which nothing else waits for an error.
LEMMA QuietStep ==
  ASSUME AppInv, life = "running", UNCHANGED <<life, result, config, failed>>,
         UNCHANGED <<handler, stored, unsubscribed, subErr, stopChan, forward>>,
         UNCHANGED <<sync, grpc>>,
         job' \in [Group -> JobStages], err' \in BOOLEAN, ctx' \in BOOLEAN,
         err => err', ctx => ctx', err' => ctx',
         \A h \in Group \cap {"listener", "messenger", "server"} : job'[h] = job[h]
  PROVE  AppInv'
<1>1. Group' = Group
  BY DEF Group
<1>2. /\ job'["listener"] = job["listener"] /\ job'["messenger"] = job["messenger"]
      /\ "server" \in Group => job'["server"] = job["server"]
  BY AtWork
<1>3. AppTypeOK'
  BY <1>1, AtWork DEF AppTypeOK
<1> QED BY <1>1, <1>2, <1>3, KeepsListener, KeepsWaiters, KeepsOnItsWay, RunningStep

\* The processor, the stop goroutines and the client.
LEMMA QuietStepsKeep ==
  ASSUME AppInv,
         \/ StartProcessor \/ StopProcessor \/ StopSyncer \/ CloseClient
         \/ StopServer \/ Shutdown
  PROVE  AppInv'
<1>0. /\ life = "running" /\ UNCHANGED <<life, result, config, failed>>
      /\ UNCHANGED <<handler, stored, unsubscribed, subErr, stopChan, forward>>
      /\ UNCHANGED <<sync, grpc>>
  BY DEF StartProcessor, StopProcessor, StopSyncer, CloseClient, StopServer, Shutdown, At,
         core, listener, messenger, server
<1>1. CASE StopProcessor
  <2>1. UNCHANGED <<job, err, ctx>>
    BY <1>1 DEF StopProcessor, group
  <2> QED BY <1>0, <2>1, AtWork, QuietStep DEF AppTypeOK
<1>2. CASE StopSyncer
  <2>1. PICK s \in {"close", "drain", "nilChan"} : job' = [job EXCEPT !["stopMessenger"] = s]
    BY <1>2 DEF StopSyncer, Step
  <2>2. UNCHANGED <<err, ctx>> /\ s \in JobStages
    BY <1>2 DEF StopSyncer, Step, JobStages
  <2>3. /\ job' \in [Group -> JobStages]
        /\ \A h \in Group \cap {"listener", "messenger", "server"} : job'[h] = job[h]
    BY <1>0, <2>1, <2>2, AtWork, JobMoves
  <2> QED BY <1>0, <2>2, <2>3, AtWork, QuietStep DEF AppTypeOK
<1>3. CASE StartProcessor \/ CloseClient \/ StopServer \/ Shutdown
  <2>1. PICK g \in Group \ {"listener", "messenger", "server"}, e \in BOOLEAN : safeGo(g, e)
    BY <1>0, <1>3, AtWork DEF StartProcessor, CloseClient, StopServer, Shutdown, At
  <2> QED BY <1>0, <2>1, safeGoGrows, QuietStep
<1> QED BY <1>1, <1>2, <1>3

-----------------------------------------------------------------------------
\* A step around the syncer or the server: the listener is left alone.
LEMMA WaiterStep ==
  ASSUME AppInv, life = "running", UNCHANGED <<life, result, config>>,
         UNCHANGED <<handler, stored, unsubscribed, subErr, stopChan, forward>>,
         job' \in [Group -> JobStages], job'["listener"] = job["listener"],
         err' \in BOOLEAN, ctx' \in BOOLEAN, err => err', ctx => ctx', err' => ctx',
         failed' \in BOOLEAN,
         sync' \in {"none", "syncing", "offering", "failing", "closing", "closed", "done"},
         grpc' \in {"none", "serving", "failing", "closed"},
         WaitersAgree', OnItsWay'
  PROVE  AppInv'
<1>1. Group' = Group
  BY DEF Group
<1>2. AppTypeOK'
  BY <1>1, AtWork DEF AppTypeOK
<1> QED BY <1>1, <1>2, KeepsListener, RunningStep

\* awaitChans: the messenger and the server go on, or leave when the context ends.
LEMMA AwaitKeeps ==
  ASSUME AppInv, AwaitStarted \/ AwaitMessenger
  PROVE  AppInv'
<1>0. PICK g \in {"messenger", "server"}, next \in {"rooms", "listen"} :
        /\ At(g, "start")
        /\ Step(g, next) \/ safeGo(g, FALSE)
        /\ UNCHANGED <<core, listener, messenger, server>>
  BY DEF AwaitStarted, AwaitMessenger, Await
<1>1. /\ life = "running" /\ UNCHANGED <<life, result, config, failed>>
      /\ UNCHANGED <<handler, stored, unsubscribed, subErr, stopChan, forward>>
      /\ UNCHANGED <<sync, grpc>> /\ g \in Group /\ job[g] = "start"
  BY <1>0, AtWork DEF At, core, listener, messenger, server
<1>2. next \in JobStages
  BY DEF JobStages
<1>3. /\ job' \in [Group -> JobStages] /\ \A h \in Group \ {g} : job'[h] = job[h]
      /\ err' \in BOOLEAN /\ ctx' \in BOOLEAN /\ (err => err') /\ (ctx => ctx') /\ (err' => ctx')
  <2>1. CASE Step(g, next)
    BY <1>1, <1>2, <2>1, JobMoves, AtWork DEF Step, AppTypeOK
  <2>2. CASE safeGo(g, FALSE)
    BY <1>1, <2>2, safeGoGrows
  <2> QED BY <1>0, <2>1, <2>2
<1>4. WaitersAgree'
  <2>1. WaitersAgree /\ Group' = Group /\ "messenger" \in Group
    BY <1>1, AtWork DEF Group
  <2>2. CASE g = "messenger"
    BY <1>1, <1>3, <2>1, <2>2 DEF WaitersAgree
  <2>3. CASE g = "server"
    BY <1>1, <1>3, <2>1, <2>3 DEF WaitersAgree
  <2> QED BY <2>2, <2>3
<1>5. OnItsWay'
  BY <1>1, <1>3, KeepsOnItsWay
<1>6. job'["listener"] = job["listener"]
  BY <1>1, <1>3, AtWork
<1> QED BY <1>1, <1>3, <1>4, <1>5, <1>6, AtWork, WaiterStep DEF AppTypeOK

\* StartMessenger and StartSyncer: the syncer runs once the messenger waits.
LEMMA StartMessengerKeeps ==
  ASSUME AppInv, StartMessenger \/ StartSyncer
  PROVE  AppInv'
<1>0. /\ life = "running" /\ UNCHANGED <<life, result, config>>
      /\ UNCHANGED <<handler, stored, unsubscribed, subErr, stopChan, forward>>
      /\ grpc' = grpc /\ job["messenger"] \in {"rooms", "chan"}
  BY DEF StartMessenger, StartSyncer, At, Fails, core, listener, server
<1>1. /\ AppTypeOK /\ WaitersAgree /\ OnItsWay /\ Group' = Group /\ (err => ctx)
      /\ {"messenger", "listener"} \subseteq Group /\ sync = "none"
  BY <1>0, AtWork DEF Group, WaitersAgree
<1>2. CASE StartMessenger /\ Step("messenger", "chan") /\ UNCHANGED core
  <2>1. sync' = sync /\ UNCHANGED <<ctx, err, failed>> /\ job' = [job EXCEPT !["messenger"] = "chan"]
    BY <1>2 DEF StartMessenger, Step, core
  <2>2. /\ job' \in [Group -> JobStages] /\ job'["messenger"] = "chan"
        /\ \A h \in Group \ {"messenger"} : job'[h] = job[h]
    BY <1>0, <1>1, <2>1, JobMoves DEF JobStages
  <2>3. WaitersAgree'
    BY <1>0, <1>1, <2>1, <2>2 DEF WaitersAgree
  <2>4. OnItsWay'
    BY <1>0, <2>1, KeepsOnItsWay
  <2> QED BY <1>0, <1>1, <2>1, <2>2, <2>3, <2>4, WaiterStep DEF AppTypeOK
<1>3. CASE StartMessenger /\ safeGo("messenger", TRUE) /\ Fails
  <2>1. sync' = sync /\ failed' = (failed \/ ~ctx)
    BY <1>3 DEF StartMessenger, Fails
  <2>2. failed' \in BOOLEAN
    BY <1>1, <2>1 DEF AppTypeOK
  <2>3. /\ job' \in [Group -> JobStages] /\ job'["messenger"] = "done"
        /\ \A h \in Group \ {"messenger"} : job'[h] = job[h]
        /\ err' \in BOOLEAN /\ ctx' \in BOOLEAN /\ (ctx => ctx') /\ err' /\ (err' => ctx')
    BY <1>0, <1>1, <1>3, safeGoGrows
  <2>4. WaitersAgree'
    BY <1>0, <1>1, <2>1, <2>3 DEF WaitersAgree
  <2>5. OnItsWay'
    BY <2>3 DEF OnItsWay
  <2> QED BY <1>0, <1>1, <2>1, <2>2, <2>3, <2>4, <2>5, WaiterStep DEF AppTypeOK
<1>4. CASE StartSyncer
  <2>1. /\ sync' = "syncing" /\ UNCHANGED <<ctx, err, failed>>
        /\ job' = [job EXCEPT !["messenger"] = "wait"]
    BY <1>4 DEF StartSyncer, Step, core
  <2>2. /\ job' \in [Group -> JobStages] /\ job'["messenger"] = "wait"
        /\ \A h \in Group \ {"messenger"} : job'[h] = job[h]
    BY <1>0, <1>1, <2>1, JobMoves DEF JobStages
  <2>3. WaitersAgree' /\ OnItsWay'
    BY <1>0, <1>1, <2>1, <2>2 DEF WaitersAgree, OnItsWay
  <2> QED BY <1>0, <1>1, <2>1, <2>2, <2>3, WaiterStep DEF AppTypeOK
<1> QED BY <1>2, <1>3, <1>4 DEF StartMessenger

\* The syncer: a failure of it waits for the messenger's goroutine.
LEMMA SyncerKeeps ==
  ASSUME AppInv, Syncer \/ SyncMessage \/ SyncFails
  PROVE  AppInv'
<1>0. /\ life = "running" /\ UNCHANGED <<life, result, config>> /\ UNCHANGED <<ctx, err, job>>
      /\ UNCHANGED <<handler, stored, unsubscribed, subErr, stopChan, forward>>
      /\ grpc' = grpc
      /\ \/ /\ sync \in {"syncing", "offering", "closing", "closed"} /\ failed' = failed
            /\ \/ sync' \in {"closing", "closed", "done"}
               \/ sync \in {"syncing", "offering"} /\ sync' \in {"syncing", "offering"}
         \/ /\ sync = "syncing" /\ sync' = "failing" /\ failed' = (failed \/ ~ctx)
  BY DEF Syncer, TakeMessage, SyncCancelled, CloseSyncChans, SyncMessage, SyncFails, SyncGoes,
         Fails, core, group, listener, server
<1>1. /\ AppTypeOK /\ WaitersAgree /\ OnItsWay /\ Group' = Group /\ (err => ctx)
      /\ job \in [Group -> JobStages]
  BY <1>0, AtWork DEF Group
<1>2. failed' \in BOOLEAN
  BY <1>0, <1>1 DEF AppTypeOK
<1>3. /\ sync' \in {"none", "syncing", "offering", "failing", "closing", "closed", "done"}
      /\ err' \in BOOLEAN /\ ctx' \in BOOLEAN /\ grpc' \in {"none", "serving", "failing", "closed"}
  BY <1>0, <1>1 DEF AppTypeOK
<1>4. WaitersAgree'
  BY <1>0, <1>1 DEF WaitersAgree
<1>5. OnItsWay'
  BY <1>0, <1>1 DEF OnItsWay
<1> QED BY <1>0, <1>1, <1>2, <1>3, <1>4, <1>5, WaiterStep

\* MessengerFailed: the syncer's failure becomes an error of the group.
LEMMA MessengerFailedKeeps ==
  ASSUME AppInv, MessengerFailed
  PROVE  AppInv'
<1>0. PICK e \in BOOLEAN :
      /\ life = "running" /\ UNCHANGED <<life, result, config, failed>>
      /\ UNCHANGED <<handler, stored, unsubscribed, subErr, stopChan, forward>>
      /\ grpc' = grpc /\ safeGo("messenger", e)
      /\ \/ sync = "failing" /\ sync' = "closing" /\ e
         \/ sync \in {"closed", "done"} /\ sync' = sync
  BY DEF MessengerFailed, At, core, listener, server
<1>1. /\ AppTypeOK /\ WaitersAgree /\ OnItsWay /\ Group' = Group
      /\ {"messenger", "listener"} \subseteq Group
  BY <1>0, AtWork DEF Group
<1>2. /\ err' \in BOOLEAN /\ ctx' \in BOOLEAN /\ (err => err') /\ (ctx => ctx') /\ (err' => ctx')
      /\ e => err'
      /\ job' \in [Group -> JobStages] /\ job'["messenger"] = "done"
      /\ \A h \in Group \ {"messenger"} : job'[h] = job[h]
  BY <1>0, <1>1, safeGoGrows
<1>3. WaitersAgree'
  BY <1>0, <1>1, <1>2 DEF WaitersAgree
<1>4. OnItsWay'
  BY <1>0, <1>1, <1>2 DEF OnItsWay
<1> QED BY <1>0, <1>1, <1>2, <1>3, <1>4, WaiterStep DEF AppTypeOK

\* The server: what Serve returns waits for the server's goroutine.
LEMMA ServerKeeps ==
  ASSUME AppInv, StartServer \/ Serve \/ ServerFailed
  PROVE  AppInv'
<1>0. /\ life = "running" /\ UNCHANGED <<life, result, config>>
      /\ UNCHANGED <<handler, stored, unsubscribed, subErr, stopChan, forward>>
      /\ sync' = sync
  BY DEF StartServer, Serve, ServerFailed, At, Fails, core, listener, messenger
<1>1. /\ AppTypeOK /\ WaitersAgree /\ OnItsWay /\ Group' = Group /\ (err => ctx)
      /\ job \in [Group -> JobStages] /\ {"messenger", "listener"} \subseteq Group
  BY <1>0, AtWork DEF Group
<1>2. CASE Serve
  <2>1. /\ UNCHANGED <<ctx, err, job>> /\ grpc = "serving"
        /\ \/ grpc' = "closed" /\ failed' = failed
           \/ grpc' = "failing" /\ failed' = (failed \/ ~ctx)
    BY <1>2 DEF Serve, Fails, core, group
  <2>2. failed' \in BOOLEAN
    BY <1>1, <2>1 DEF AppTypeOK
  <2>3. WaitersAgree' /\ OnItsWay'
    BY <1>0, <1>1, <2>1 DEF WaitersAgree, OnItsWay
  <2> QED BY <1>0, <1>1, <2>1, <2>2, <2>3, WaiterStep DEF AppTypeOK
<1>3. CASE StartServer /\ grpc' = "serving" /\ Step("server", "wait") /\ UNCHANGED core
  <2>1. /\ job["server"] = "listen" /\ "server" \in Group /\ failed' = failed
    BY <1>0, <1>3, AtWork DEF StartServer, At, core
  <2>2. /\ UNCHANGED <<ctx, err>> /\ job' = [job EXCEPT !["server"] = "wait"]
    BY <1>3 DEF Step
  <2>3. /\ job' \in [Group -> JobStages] /\ job'["server"] = "wait"
        /\ \A h \in Group \ {"server"} : job'[h] = job[h]
    BY <1>0, <2>1, <2>2, JobMoves DEF JobStages
  <2>4. grpc = "none"
    BY <1>1, <2>1 DEF WaitersAgree
  <2>5. WaitersAgree' /\ OnItsWay'
    BY <1>0, <1>1, <1>3, <2>1, <2>2, <2>3, <2>4 DEF WaitersAgree, OnItsWay
  <2> QED BY <1>0, <1>1, <1>3, <2>1, <2>2, <2>3, <2>5, WaiterStep DEF AppTypeOK
<1>4. CASE StartServer /\ safeGo("server", TRUE) /\ Fails /\ grpc' = grpc
  <2>1. /\ failed' = (failed \/ ~ctx) /\ job["server"] = "listen" /\ "server" \in Group
    BY <1>0, <1>4, AtWork DEF StartServer, Fails, At
  <2>2. failed' \in BOOLEAN
    BY <1>1, <2>1 DEF AppTypeOK
  <2>3. /\ job' \in [Group -> JobStages] /\ job'["server"] = "done"
        /\ \A h \in Group \ {"server"} : job'[h] = job[h]
        /\ err' \in BOOLEAN /\ ctx' \in BOOLEAN /\ (ctx => ctx') /\ err' /\ (err' => ctx')
    BY <1>0, <1>4, <2>1, safeGoGrows
  <2>4. grpc = "none"
    BY <1>1, <2>1 DEF WaitersAgree
  <2>5. WaitersAgree' /\ OnItsWay'
    BY <1>0, <1>1, <1>4, <2>1, <2>3, <2>4 DEF WaitersAgree, OnItsWay
  <2> QED BY <1>0, <1>1, <1>4, <2>2, <2>3, <2>5, WaiterStep DEF AppTypeOK
<1>5. CASE ServerFailed
  <2>1. PICK e \in BOOLEAN : /\ grpc \in {"failing", "closed"} /\ grpc' = "closed"
                             /\ safeGo("server", e) /\ e = (grpc = "failing")
                             /\ failed' = failed /\ "server" \in Group
    BY <1>0, <1>5, AtWork DEF ServerFailed, At, core
  <2>2. /\ err' \in BOOLEAN /\ ctx' \in BOOLEAN /\ (err => err') /\ (ctx => ctx') /\ (err' => ctx')
        /\ e => err'
        /\ job' \in [Group -> JobStages] /\ job'["server"] = "done"
        /\ \A h \in Group \ {"server"} : job'[h] = job[h]
    BY <1>0, <2>1, safeGoGrows
  <2>3. WaitersAgree'
    BY <1>0, <1>1, <2>1, <2>2 DEF WaitersAgree
  <2>4. OnItsWay'
    BY <1>0, <1>1, <2>1, <2>2 DEF OnItsWay
  <2> QED BY <1>0, <1>1, <2>1, <2>2, <2>3, <2>4, WaiterStep DEF AppTypeOK
<1> QED BY <1>2, <1>3, <1>4, <1>5 DEF StartServer

-----------------------------------------------------------------------------
\* A step of the listener's goroutines: the syncer and the server are left alone.
LEMMA ListenerStep ==
  ASSUME AppInv, life = "running", UNCHANGED <<life, result, config, sync, grpc>>,
         job' \in [Group -> JobStages], \A h \in Group \ {"listener"} : job'[h] = job[h],
         err' \in BOOLEAN, ctx' \in BOOLEAN, err' => ctx', failed' \in BOOLEAN,
         handler' \in [Kinds -> {"none", "running", "panicked", "gone"}],
         stored' \subseteq Kinds, unsubscribed' \subseteq Kinds,
         subErr' \in BOOLEAN, stopChan' \in BOOLEAN,
         forward' \in {"none", "waiting", "error", "nil", "forwarded", "done"},
         ListenerAgrees', OnItsWay'
  PROVE  AppInv'
<1>1. Group' = Group
  BY DEF Group
<1>2. AppTypeOK'
  BY <1>1, AtWork DEF AppTypeOK
<1>3. WaitersAgree'
  BY <1>1, AtWork, KeepsWaiters
<1> QED BY <1>2, <1>3, RunningStep

\* The listener's start: its checks fail, or it goes on and subscribes.
LEMMA RunListenerStartKeeps ==
  ASSUME AppInv,
         \/ StartupChecks("start", "token") \/ StartTokenBought
         \/ StartupChecks("checked", "cancellation") \/ StartCancellation
  PROVE  AppInv'
<1>0. /\ life = "running" /\ UNCHANGED <<life, result, config, sync, grpc>>
      /\ UNCHANGED <<unsubscribed, subErr, stopChan>>
      /\ job["listener"] \in {"start", "token", "checked", "cancellation"}
  BY DEF StartupChecks, StartTokenBought, StartCancellation, Subscribe, At, Fails,
         core, listener, messenger, server
<1>1. /\ AppTypeOK /\ ListenerAgrees /\ OnItsWay /\ "listener" \in Group /\ forward = "none"
      /\ (err => ctx)
  BY <1>0, AtWork DEF ListenerAgrees
<1>2. CASE \E stage, next : /\ StartupChecks(stage, next)
                            /\ safeGo("listener", TRUE) /\ Fails
  <2>1. UNCHANGED <<handler, stored, forward>> /\ failed' = (failed \/ ~ctx)
    BY <1>2 DEF StartupChecks, Fails, listener
  <2>2. failed' \in BOOLEAN
    BY <1>1, <2>1 DEF AppTypeOK
  <2>3. safeGo("listener", TRUE)
    BY <1>2
  <2>4. /\ err' \in BOOLEAN /\ ctx' \in BOOLEAN /\ err' /\ ctx'
        /\ job' \in [Group -> JobStages] /\ job'["listener"] = "done"
        /\ \A h \in Group \ {"listener"} : job'[h] = job[h]
    BY <1>0, <1>1, <2>3, safeGoGrows
  <2>5. ListenerAgrees' /\ OnItsWay'
    BY <1>0, <1>1, <2>1, <2>4 DEF ListenerAgrees, OnItsWay
  <2> QED BY <1>0, <1>1, <2>1, <2>2, <2>4, <2>5, ListenerStep DEF AppTypeOK
<1>3. CASE \E next \in {"token", "cancellation"} :
             /\ Step("listener", next) /\ UNCHANGED <<core, listener>>
             /\ next = "token" => job["listener"] = "start"
  <2>0. PICK next \in {"token", "cancellation"} :
          /\ Step("listener", next) /\ UNCHANGED <<core, listener>>
          /\ next = "token" => job["listener"] = "start"
    BY <1>3
  <2>1. /\ UNCHANGED <<handler, stored, forward, failed, ctx, err>>
        /\ job' = [job EXCEPT !["listener"] = next] /\ next \in JobStages
    BY <2>0 DEF Step, core, listener, JobStages
  <2>2. /\ job' \in [Group -> JobStages] /\ job'["listener"] = next
        /\ \A h \in Group \ {"listener"} : job'[h] = job[h]
    BY <1>0, <1>1, <2>1, JobMoves
  <2>3. ListenerAgrees' /\ OnItsWay'
    BY <1>0, <1>1, <2>0, <2>1, <2>2 DEF ListenerAgrees, OnItsWay
  <2> QED BY <1>0, <1>1, <2>1, <2>2, <2>3, ListenerStep DEF AppTypeOK
<1>4. CASE StartTokenBought \/ StartCancellation
  <2>0. PICK k \in Kinds, next \in {"checked", "wait"} :
          /\ Subscribe(k) /\ Step("listener", next)
          /\ forward' = (IF next = "wait" THEN "waiting" ELSE "none")
          /\ handler[k] = "none" /\ (next = "checked" => k # "cancellation")
    BY <1>1, <1>4, AtWork DEF StartTokenBought, StartCancellation, ListenerAgrees, At, Kinds
  <2>1. /\ failed' = failed /\ UNCHANGED <<ctx, err>> /\ next \in JobStages
        /\ job' = [job EXCEPT !["listener"] = next]
        /\ handler' = [handler EXCEPT ![k] = "running"] /\ stored' = stored \cup {k}
    BY <1>4, <2>0 DEF StartTokenBought, StartCancellation, Subscribe, Step, core, JobStages
  <2>2. /\ job' \in [Group -> JobStages] /\ job'["listener"] = next
        /\ \A h \in Group \ {"listener"} : job'[h] = job[h]
    BY <1>0, <1>1, <2>1, JobMoves
  <2>3. /\ handler' \in [Kinds -> {"none", "running", "panicked", "gone"}]
        /\ handler'[k] = "running" /\ \A h \in Kinds \ {k} : handler'[h] = handler[h]
        /\ stored' \subseteq Kinds
    BY <1>1, <2>1 DEF AppTypeOK
  <2>4. ListenerAgrees'
    BY <1>0, <1>1, <2>0, <2>1, <2>2, <2>3 DEF ListenerAgrees, Kinds
  <2>5. OnItsWay'
    BY <1>0, <1>1, <2>0, <2>1, <2>3 DEF OnItsWay
  <2> QED BY <1>0, <1>1, <2>0, <2>1, <2>2, <2>3, <2>4, <2>5, ListenerStep DEF AppTypeOK
<1> QED BY <1>2, <1>3, <1>4 DEF StartupChecks, At

\* The handlers' goroutines: a panic is offered until it is taken, or until the
\* subscriber has been stopped for another error.
LEMMA HandlersKeep ==
  ASSUME AppInv, NEW k \in Kinds, HandlerPanics(k) \/ OfferError(k) \/ HandlerEnds(k)
  PROVE  AppInv'
<1>0. /\ life = "running" /\ UNCHANGED <<config, sync, grpc>> /\ UNCHANGED <<ctx, err, job>>
      /\ UNCHANGED <<stored, unsubscribed, subErr, stopChan>>
  BY DEF HandlerPanics, OfferError, HandlerEnds, Fails, core, group, messenger, server
<1>1. /\ AppTypeOK /\ ListenerAgrees /\ OnItsWay /\ (err => ctx) /\ result = "none"
      /\ job \in [Group -> JobStages]
  BY <1>0, AtWork
<1>2. CASE HandlerPanics(k)
  <2>1. /\ UNCHANGED <<life, result, forward>> /\ failed' = (failed \/ ~ctx)
        /\ handler[k] = "running" /\ handler' = [handler EXCEPT ![k] = "panicked"]
    BY <1>2 DEF HandlerPanics, Fails
  <2>2. /\ handler' \in [Kinds -> {"none", "running", "panicked", "gone"}]
        /\ handler'[k] = "panicked" /\ \A h \in Kinds \ {k} : handler'[h] = handler[h]
    BY <1>1, <2>1 DEF AppTypeOK
  <2>3. failed' \in BOOLEAN
    BY <1>1, <2>1 DEF AppTypeOK
  <2>4. ListenerAgrees'
    BY <1>0, <1>1, <2>1, <2>2 DEF ListenerAgrees, Kinds
  <2>5. OnItsWay'
    <3>1. CASE ctx
      BY <1>0, <1>1, <2>1, <2>2, <3>1 DEF OnItsWay
    <3>2. CASE ~ctx
      BY <1>0, <1>1, <2>1, <2>2, <3>2 DEF OnItsWay, ListenerAgrees
    <3> QED BY <3>1, <3>2
  <2> QED BY <1>0, <1>1, <2>1, <2>2, <2>3, <2>4, <2>5, ListenerStep DEF AppTypeOK
<1>3. CASE HandlerEnds(k)
  <2>1. /\ UNCHANGED <<life, result, forward, failed>> /\ ctx
        /\ handler[k] = "running" /\ handler' = [handler EXCEPT ![k] = "gone"]
    BY <1>1, <1>3 DEF HandlerEnds, core, ListenerAgrees
  <2>2. /\ handler' \in [Kinds -> {"none", "running", "panicked", "gone"}]
        /\ handler'[k] = "gone" /\ \A h \in Kinds \ {k} : handler'[h] = handler[h]
    BY <1>1, <2>1 DEF AppTypeOK
  <2>3. ListenerAgrees'
    BY <1>0, <1>1, <2>1, <2>2 DEF ListenerAgrees, Kinds
  <2>4. OnItsWay'
    BY <1>0, <1>1, <2>1, <2>2 DEF OnItsWay
  <2> QED BY <1>0, <1>1, <2>1, <2>2, <2>3, <2>4, ListenerStep DEF AppTypeOK
<1>4. CASE OfferError(k)
  <2>1. /\ failed' = failed /\ handler[k] = "panicked"
        /\ handler' = [handler EXCEPT ![k] = "gone"]
    BY <1>4 DEF OfferError
  <2>2. /\ handler' \in [Kinds -> {"none", "running", "panicked", "gone"}]
        /\ handler'[k] = "gone" /\ \A h \in Kinds \ {k} : handler'[h] = handler[h]
    BY <1>1, <2>1 DEF AppTypeOK
  <2>3. CASE forward = "waiting" /\ forward' = "error" /\ UNCHANGED <<life, result>>
    <3>1. ListenerAgrees'
      BY <1>0, <1>1, <2>1, <2>2, <2>3 DEF ListenerAgrees, Kinds
    <3>2. OnItsWay'
      BY <2>3 DEF OnItsWay
    <3> QED BY <1>0, <1>1, <2>1, <2>2, <2>3, <3>1, <3>2, ListenerStep DEF AppTypeOK
  <2>4. CASE stopChan /\ UNCHANGED <<forward, life, result>>
    <3>1. (err \/ subErr) /\ (ctx \/ forward = "error")
      BY <1>1, <2>4 DEF ListenerAgrees
    <3>2. ListenerAgrees'
      BY <1>0, <1>1, <2>1, <2>2, <2>4, <3>1 DEF ListenerAgrees, Kinds
    <3>3. OnItsWay'
      BY <1>0, <1>1, <2>1, <2>2, <2>4, <3>1 DEF OnItsWay
    <3> QED BY <1>0, <1>1, <2>1, <2>2, <2>4, <3>2, <3>3, ListenerStep DEF AppTypeOK
  <2>5. CASE life' = "returned" /\ result' = "crash" /\ UNCHANGED forward
    <3>1. AppTypeOK'
      BY <1>0, <1>1, <2>1, <2>2, <2>5 DEF AppTypeOK
    <3> QED BY <2>5, <3>1 DEF AppInv, FailureSurfaces
  <2> QED BY <1>4, <2>3, <2>4, <2>5 DEF OfferError
<1> QED BY <1>2, <1>3, <1>4

\* The error channel closes once the handlers are gone, and is passed on.
LEMMA ForwardKeeps ==
  ASSUME AppInv, CloseErrChan \/ Forward \/ ListenerFailed \/ StopListener
  PROVE  AppInv'
<1>0. /\ life = "running" /\ UNCHANGED <<life, result, config, failed, sync, grpc>>
      /\ UNCHANGED <<handler, stored>>
  BY DEF CloseErrChan, Forward, ListenerFailed, StopListener, At, core, group, messenger, server
<1>1. /\ AppTypeOK /\ ListenerAgrees /\ OnItsWay /\ (err => ctx)
      /\ job \in [Group -> JobStages] /\ {"listener", "stopListener"} \subseteq Group
  BY <1>0, AtWork
<1>2. CASE CloseErrChan
  <2>1. /\ UNCHANGED <<ctx, err, job>> /\ UNCHANGED <<unsubscribed, stopChan, forward>>
        /\ subErr' = TRUE /\ \A k \in Kinds : handler[k] \in {"none", "gone"}
        /\ \E k \in Kinds : handler[k] = "gone"
    BY <1>2 DEF CloseErrChan, group
  <2>2. ListenerAgrees'
    BY <1>0, <1>1, <2>1 DEF ListenerAgrees
  <2>3. OnItsWay'
    BY <1>0, <1>1, <2>1 DEF OnItsWay
  <2> QED BY <1>0, <1>1, <2>1, <2>2, <2>3, ListenerStep DEF AppTypeOK
<1>3. CASE Forward
  <2>1. /\ UNCHANGED <<ctx, err, job>> /\ UNCHANGED <<unsubscribed, subErr>>
        /\ \/ forward = "waiting" /\ subErr /\ forward' = "nil" /\ stopChan' = stopChan
           \/ forward = "forwarded" /\ forward' = "done" /\ stopChan' = TRUE
    BY <1>3 DEF Forward, group
  <2>2. stopChan' \in BOOLEAN
    BY <1>1, <2>1 DEF AppTypeOK
  <2>3. ListenerAgrees'
    BY <1>0, <1>1, <2>1 DEF ListenerAgrees
  <2>4. OnItsWay'
    BY <1>0, <1>1, <2>1 DEF OnItsWay
  <2> QED BY <1>0, <1>1, <2>1, <2>2, <2>3, <2>4, ListenerStep DEF AppTypeOK
<1>4. CASE ListenerFailed
  <2>1. PICK e \in BOOLEAN : /\ safeGo("listener", e) /\ e = (forward = "error")
                             /\ forward \in {"error", "nil"} /\ forward' = "forwarded"
                             /\ UNCHANGED <<unsubscribed, subErr, stopChan>>
    BY <1>4 DEF ListenerFailed
  <2>2. /\ err' \in BOOLEAN /\ ctx' \in BOOLEAN /\ (err => err') /\ (ctx => ctx') /\ (err' => ctx')
        /\ e => err'
        /\ job' \in [Group -> JobStages] /\ job'["listener"] = "done"
        /\ \A h \in Group \ {"listener"} : job'[h] = job[h]
    BY <1>0, <1>1, <2>1, safeGoGrows
  <2>3. ListenerAgrees'
    <3>1. CASE forward = "error"
      BY <1>0, <1>1, <2>1, <2>2, <3>1 DEF ListenerAgrees
    <3>2. CASE forward = "nil"
      BY <1>0, <1>1, <2>1, <2>2, <3>2 DEF ListenerAgrees
    <3> QED BY <2>1, <3>1, <3>2
  <2>4. OnItsWay'
    BY <1>0, <1>1, <2>1, <2>2 DEF OnItsWay
  <2> QED BY <1>0, <1>1, <2>1, <2>2, <2>3, <2>4, ListenerStep DEF AppTypeOK
<1>5. CASE StopListener
  <2>1. /\ ctx /\ unsubscribed' = stored /\ safeGo("stopListener", FALSE)
        /\ UNCHANGED <<subErr, stopChan, forward>>
    BY <1>5 DEF StopListener
  <2>2. /\ err' \in BOOLEAN /\ ctx' \in BOOLEAN /\ (err => err') /\ (ctx => ctx') /\ (err' => ctx')
        /\ job' \in [Group -> JobStages]
        /\ \A h \in Group \ {"stopListener"} : job'[h] = job[h]
    BY <1>0, <1>1, <2>1, safeGoGrows
  <2>3. Group' = Group
    BY <1>0 DEF Group
  <2>4. ListenerAgrees'
    BY <1>0, <1>1, <2>1, <2>2 DEF ListenerAgrees
  <2>5. WaitersAgree' /\ OnItsWay'
    BY <1>0, <2>1, <2>2, <2>3, AtWork, KeepsWaiters, KeepsOnItsWay
  <2>6. AppTypeOK'
    BY <1>0, <1>1, <2>1, <2>2, <2>3 DEF AppTypeOK
  <2> QED BY <1>0, <2>2, <2>4, <2>5, <2>6, RunningStep
<1> QED BY <1>2, <1>3, <1>4, <1>5

\* Wait: when every goroutine of the group has returned, no error is on its way.
LEMMA WaitKeeps ==
  ASSUME AppInv, Wait
  PROVE  AppInv'
<1>0. /\ life = "running" /\ life' = "returned" /\ result' = (IF err THEN "error" ELSE "nil")
      /\ UNCHANGED <<config, failed, ctx, err, job>> /\ UNCHANGED <<sync, grpc>>
      /\ UNCHANGED <<handler, stored, unsubscribed, subErr, stopChan, forward>>
      /\ \A g \in DOMAIN job : job[g] = "done"
  BY DEF Wait, group, listener, messenger, server
<1>1. /\ AppTypeOK /\ ListenerAgrees /\ WaitersAgree /\ OnItsWay /\ DOMAIN job = Group
      /\ {"listener", "messenger"} \subseteq Group
  BY <1>0, AtWork
<1>2. failed => err
  BY <1>0, <1>1 DEF ListenerAgrees, WaitersAgree, OnItsWay
<1>3. AppTypeOK'
  BY <1>0, <1>1 DEF AppTypeOK
<1> QED BY <1>0, <1>2, <1>3 DEF AppInv, FailureSurfaces

\* AppInv holds in every reachable state of the application.
THEOREM AppInvariance == AppSpec => []AppInv
<1>1. AppInv /\ [AppNext]_appVars => AppInv'
  <2> SUFFICES ASSUME AppInv, [AppNext]_appVars PROVE AppInv'
    OBVIOUS
  <2>1. CASE Construct \/ Signal \/ Wait
    BY <2>1, ConstructKeeps, SignalKeeps, WaitKeeps
  <2>2. CASE RunListener
    BY <2>2, RunListenerStartKeeps, ForwardKeeps DEF RunListener
  <2>3. CASE StopListener \/ CloseErrChan \/ Forward
    BY <2>3, ForwardKeeps
  <2>4. CASE \E k \in Kinds : HandlerPanics(k) \/ OfferError(k) \/ HandlerEnds(k)
    BY <2>4, HandlersKeep
  <2>5. CASE \/ StartProcessor \/ StopProcessor \/ StopSyncer \/ CloseClient
             \/ StopServer \/ Shutdown
    BY <2>5, QuietStepsKeep
  <2>6. CASE RunMessenger
    BY <2>6, AwaitKeeps, StartMessengerKeeps, MessengerFailedKeeps DEF RunMessenger
  <2>7. CASE Syncer \/ SyncMessage \/ SyncFails
    BY <2>7, SyncerKeeps
  <2>8. CASE RunServer \/ Serve
    BY <2>8, AwaitKeeps, ServerKeeps DEF RunServer
  <2>9. CASE UNCHANGED appVars
    <3>1. /\ UNCHANGED <<life, result, config, failed, ctx, err, job>> /\ UNCHANGED <<sync, grpc>>
          /\ UNCHANGED <<handler, stored, unsubscribed, subErr, stopChan, forward>>
      BY <2>9 DEF appVars, core, group, listener, messenger, server
    <3>2. AppTypeOK' /\ (NotStarted => NotStarted')
      BY <3>1 DEF AppInv, AppTypeOK, NotStarted, Group
    <3>3. /\ ListenerAgrees => ListenerAgrees'
          /\ WaitersAgree => WaitersAgree'
          /\ OnItsWay => OnItsWay'
      BY <3>1 DEF ListenerAgrees, WaitersAgree, OnItsWay, Group
    <3> QED BY <3>1, <3>2, <3>3 DEF AppInv, FailureSurfaces
  <2> QED BY <2>1, <2>2, <2>3, <2>4, <2>5, <2>6, <2>7, <2>8, <2>9 DEF AppNext
<1> QED BY <1>1, AppInitInv, PTL DEF AppSpec

\* The goroutines, channels and errors of the application stay well formed.
THEOREM AppTypeCorrect == AppSpec => []AppTypeOK
<1>1. AppInv => AppTypeOK
  BY DEF AppInv
<1> QED BY <1>1, AppInvariance, PTL

\* rootFunc: what failed while the context was alive is an error of the program.
THEOREM FailureSurfacesHolds == AppSpec => []FailureSurfaces
<1>1. AppInv => FailureSurfaces
  BY DEF AppInv
<1> QED BY <1>1, AppInvariance, PTL

-----------------------------------------------------------------------------
(* Run comes to its end, but for the states of Stranded.                   *)

\* Where the listener can be, what it has stored by then, and what Stop has found.
ListenerStages ==
  /\ job["listener"] \in {"start", "token", "checked", "cancellation", "wait", "done"}
  /\ job["stopListener"] \in {"start", "done"}
  /\ job["listener"] \in {"start", "token"} => stored = {}
  /\ job["listener"] \in {"checked", "cancellation"} =>
       stored = {"token"} /\ handler["token"] # "none"
  /\ job["listener"] = "wait" =>
       /\ stored = Kinds /\ forward \in {"waiting", "error", "nil"}
       /\ \A k \in Kinds : handler[k] # "none"
  /\ stored \in {{}, {"token"}, Kinds}
  /\ job["stopListener"] = "done" => unsubscribed \in {{}, {"token"}, Kinds}

\* The processor, the messenger and its Stop.
MessengerStages ==
  /\ job["processor"] \in {"start", "done"}
  /\ job["messenger"] \in {"start", "rooms", "chan", "wait", "done"}
  /\ job["stopMessenger"] \in {"start", "close", "drain", "nilChan", "done"}
  /\ loop \in {"none", "running", "stopped"}
  /\ loop = "none" => job["processor"] = "start"
  /\ doneChan => sync # "none"
  /\ job["messenger"] = "wait" => sync # "none"
  /\ job["stopMessenger"] = "drain" => doneChan

\* The server and the client, as far as they are enabled.
ServerStages ==
  /\ "server" \in config =>
       /\ job["server"] \in {"start", "listen", "wait", "done"}
       /\ job["stopServer"] \in {"start", "done"}
       /\ job["server"] = "wait" => grpc # "none"
       /\ job["stopServer"] = "done" => grpcStopped
  /\ "client" \in config => job["stopClient"] \in {"start", "done"}

\* The stages of a program that runs; before Run nothing has been started.
StagesAgree ==
  /\ life \notin {"running", "returned"} =>
       stored = {} /\ loop = "none" /\ doneChan = FALSE
  /\ life = "running" => ListenerStages /\ MessengerStages /\ ServerStages

\* When a step is possible, goroutine by goroutine: first the listener and its Stop.
ListenerGoesOn ==
  \/ \E stage \in {"start", "token", "checked", "cancellation"} : At("listener", stage)
  \/ At("listener", "wait") /\ forward \in {"error", "nil"}
  \/ At("stopListener", "start") /\ ctx

\* The goroutines of the event subscriptions and of the forwarded error: a panic is
\* offered, a handler is unsubscribed, the channel is closed or the error is taken.
SubscriberGoesOn ==
  /\ life = "running"
  /\ \/ \E k \in Kinds : \/ handler[k] = "panicked" /\ forward = "waiting" /\ ~subErr
                         \/ handler[k] = "running" /\ k \in unsubscribed
     \/ /\ ~subErr /\ \E k \in Kinds : handler[k] # "none"
        /\ \A k \in Kinds : handler[k] \in {"none", "gone"}
     \/ forward = "waiting" /\ subErr

\* The processor, the messenger and its Stop.
MessengerGoesOn ==
  \/ At("processor", "start")
  \/ At("messenger", "start") /\ ctx
  \/ At("messenger", "rooms") \/ At("messenger", "chan")
  \/ At("messenger", "wait") /\ sync \in {"failing", "closed", "done"}
  \/ At("stopMessenger", "start") /\ ctx
  \/ At("stopMessenger", "close") \/ (At("stopMessenger", "drain") /\ sync = "done")

\* The goroutine that syncs with the homeserver.
SyncerGoesOn ==
  /\ life = "running"
  /\ \/ sync = "offering" /\ loop = "running"
     \/ sync = "syncing" /\ ctx
     \/ sync \in {"closing", "closed"}

\* The server, the client, and what stops them.
ServerGoesOn ==
  \/ At("server", "start") /\ ctx
  \/ At("server", "listen")
  \/ At("server", "wait") /\ grpc \in {"failing", "closed"}
  \/ life = "running" /\ grpc = "serving" /\ grpcStopped
  \/ At("stopServer", "start") /\ ctx
  \/ At("stopClient", "start") /\ ctx

\* NewApp goes on in any case, and so does Run when all of the group have returned.
MainGoesOn ==
  \/ life \notin {"running", "returned"}
  \/ life = "running" /\ \A g \in DOMAIN job : job[g] = "done"

\* The safety side of RunReturns: once the context has ended, some goroutine can take
\* a step that does not need a message, a panic or a failure to come, until Run has
\* returned or is left in one of the states of Stranded.
EndsOrStranded ==
  ctx => \/ life = "returned" \/ Stranded
         \/ MainGoesOn \/ ListenerGoesOn \/ SubscriberGoesOn
         \/ MessengerGoesOn \/ SyncerGoesOn \/ ServerGoesOn

-----------------------------------------------------------------------------
\* NewApp starts nothing; Run starts with every goroutine at its first stage.
LEMMA ConstructStages ==
  ASSUME AppInv, StagesAgree, Construct
  PROVE  StagesAgree'
<1>1. life \notin {"running", "returned"}
  BY DEF Construct, DialChain, NewClient, NewServices, NewListenerStorage, NewListener,
         NewMatrixClient, NewStores, NewMessenger, NewServer, Build, BuildLocal, Leave
<1>2. /\ UNCHANGED <<config, stored, loop, doneChan, sync, grpc, unsubscribed>>
      /\ \/ life' # "running"
         \/ life' = "running" /\ job' = [g \in Group |-> "start"]
  BY <1>1 DEF Construct, DialChain, NewClient, NewServices, NewListenerStorage, NewListener,
         NewMatrixClient, NewStores, NewMessenger, NewServer, Build, BuildLocal, Leave, rootFunc,
         group, listener, messenger, server
<1>3. stored = {} /\ loop = "none" /\ doneChan = FALSE
  BY <1>1 DEF StagesAgree
<1>4. CASE life' # "running"
  BY <1>2, <1>3, <1>4 DEF StagesAgree
<1>5. CASE life' = "running" /\ job' = [g \in Group |-> "start"]
  <2>1. /\ {"listener", "processor", "messenger", "stopMessenger", "stopListener"} \subseteq Group
        /\ "server" \in config => "server" \in Group /\ "stopServer" \in Group
        /\ "client" \in config => "stopClient" \in Group
    BY DEF Group, Runs, Stops
  <2>2. \A g \in Group : job'[g] = "start"
    BY <1>5
  <2>3. ListenerStages' /\ MessengerStages'
    BY <1>2, <1>3, <2>1, <2>2 DEF ListenerStages, MessengerStages
  <2>4. ServerStages'
    BY <1>2, <2>1, <2>2 DEF ServerStages
  <2> QED BY <1>5, <2>3, <2>4 DEF StagesAgree
<1> QED BY <1>2, <1>4, <1>5

\* The goroutines of the group are told apart.
LEMMA GroupNames ==
  ASSUME AppInv, life = "running"
  PROVE  /\ {"listener", "processor", "messenger", "stopMessenger", "stopListener"} \subseteq Group
         /\ "server" \in Group <=> "server" \in config
         /\ "stopServer" \in Group <=> "server" \in config
         /\ "stopClient" \in Group <=> "client" \in config
         /\ DOMAIN job = Group /\ job \in [Group -> JobStages]
BY AtWork DEF Group, Runs, Stops

\* A step of one goroutine of the group, or of none.
LEMMA OthersStay ==
  ASSUME AppInv, life = "running", NEW g \in Group, NEW stage,
         job' = [job EXCEPT ![g] = stage]
  PROVE  job'[g] = stage /\ \A h \in Group \ {g} : job'[h] = job[h]
BY GroupNames

\* What does not touch the listener keeps its stages.
LEMMA ListenerStagesStay ==
  ASSUME AppInv, life = "running", ListenerStages,
         UNCHANGED <<handler, stored, unsubscribed, forward>>,
         job'["listener"] = job["listener"], job'["stopListener"] = job["stopListener"]
  PROVE  ListenerStages'
BY DEF ListenerStages

\* What does not touch the messenger keeps its stages.
LEMMA MessengerStagesStay ==
  ASSUME AppInv, life = "running", MessengerStages, UNCHANGED <<loop, doneChan, sync>>,
         job'["processor"] = job["processor"], job'["messenger"] = job["messenger"],
         job'["stopMessenger"] = job["stopMessenger"]
  PROVE  MessengerStages'
BY DEF MessengerStages

\* What does not touch the server keeps its stages.
LEMMA ServerStagesStay ==
  ASSUME AppInv, life = "running", ServerStages, UNCHANGED <<config, grpc, grpcStopped>>,
         \A h \in {"server", "stopServer", "stopClient"} : h \in Group => job'[h] = job[h]
  PROVE  ServerStages'
BY GroupNames DEF ServerStages

\* The steps of the listener and of its subscriber.
LEMMA ListenerStepStages ==
  ASSUME AppInv, life = "running", StagesAgree,
         \/ RunListener \/ StopListener \/ CloseErrChan \/ Forward
         \/ \E k \in Kinds : HandlerPanics(k) \/ OfferError(k) \/ HandlerEnds(k)
  PROVE  StagesAgree'
<1>1. ListenerStages /\ MessengerStages /\ ServerStages
  BY DEF StagesAgree
<1>2. /\ UNCHANGED <<config, loop, doneChan, sync>> /\ UNCHANGED <<grpc, grpcStopped>>
      /\ life' \in {"running", "returned"}
  BY DEF RunListener, StartupChecks, StartTokenBought, StartCancellation, ListenerFailed, Fails,
         StopListener, CloseErrChan, Forward, HandlerPanics, OfferError, HandlerEnds, core, messenger,
         server
<1>3. \/ job' = job
      \/ \E g \in {"listener", "stopListener"}, stage \in JobStages :
           job' = [job EXCEPT ![g] = stage]
  BY DEF RunListener, StartupChecks, StartTokenBought, StartCancellation, ListenerFailed, Step, safeGo,
         StopListener, CloseErrChan, Forward, HandlerPanics, OfferError, HandlerEnds, group, JobStages
<1>4. \A h \in Group \ {"listener", "stopListener"} : job'[h] = job[h]
  BY <1>3, OthersStay, GroupNames
<1>5. MessengerStages' /\ ServerStages'
  BY <1>1, <1>2, <1>4, GroupNames, MessengerStagesStay, ServerStagesStay
<1>6. ASSUME NEW g \in {"listener", "stopListener"}, NEW stage, job' = [job EXCEPT ![g] = stage]
      PROVE  /\ job'[g] = stage
             /\ g = "listener" => job'["stopListener"] = job["stopListener"]
             /\ g = "stopListener" => job'["listener"] = job["listener"]
  BY <1>6, OthersStay, GroupNames
<1>7. handler \in [Kinds -> {"none", "running", "panicked", "gone"}] /\ stored \subseteq Kinds
  BY AtWork DEF AppTypeOK
<1>8. ListenerStages'
  <2>1. CASE StartupChecks("start", "token") \/ StartupChecks("checked", "cancellation")
    <3>1. /\ UNCHANGED <<handler, stored, unsubscribed, forward>>
          /\ \/ job["listener"] = "start" /\ job' = [job EXCEPT !["listener"] = "token"]
             \/ job["listener"] = "checked" /\ job' = [job EXCEPT !["listener"] = "cancellation"]
             \/ job' = [job EXCEPT !["listener"] = "done"]
      BY <2>1 DEF StartupChecks, listener, At, Step, safeGo
    <3> QED BY <1>1, <1>6, <3>1 DEF ListenerStages
  <2>2. CASE StartTokenBought
    <3>1. /\ handler' = [handler EXCEPT !["token"] = "running"] /\ stored' = stored \cup {"token"}
          /\ UNCHANGED <<unsubscribed, forward>> /\ job["listener"] = "token"
          /\ job' = [job EXCEPT !["listener"] = "checked"]
      BY <2>2 DEF StartTokenBought, Subscribe, At, Step
    <3>2. stored' = {"token"} /\ handler'["token"] = "running"
      BY <1>1, <1>7, <3>1 DEF ListenerStages, Kinds
    <3> QED BY <1>1, <1>6, <3>1, <3>2 DEF ListenerStages
  <2>3. CASE StartCancellation
    <3>1. /\ handler' = [handler EXCEPT !["cancellation"] = "running"]
          /\ stored' = stored \cup {"cancellation"} /\ forward' = "waiting"
          /\ unsubscribed' = unsubscribed /\ job["listener"] = "cancellation"
          /\ job' = [job EXCEPT !["listener"] = "wait"]
      BY <2>3 DEF StartCancellation, Subscribe, At, Step
    <3>2. stored' = Kinds
      BY <1>1, <3>1 DEF ListenerStages, Kinds
    <3>3. \A k \in Kinds : handler'[k] # "none"
      BY <1>1, <1>7, <3>1 DEF ListenerStages, Kinds
    <3> QED BY <1>1, <1>6, <3>1, <3>2, <3>3 DEF ListenerStages
  <2>4. CASE ListenerFailed
    <3>1. /\ UNCHANGED <<handler, stored, unsubscribed>>
          /\ job' = [job EXCEPT !["listener"] = "done"]
      BY <2>4 DEF ListenerFailed, safeGo
    <3>2. job'["listener"] = "done" /\ job'["stopListener"] = job["stopListener"]
      BY <1>6, <3>1
    <3> QED BY <1>1, <3>1, <3>2 DEF ListenerStages
  <2>5. CASE StopListener
    <3>1. /\ UNCHANGED <<handler, stored, forward>> /\ unsubscribed' = stored
          /\ job' = [job EXCEPT !["stopListener"] = "done"]
      BY <2>5 DEF StopListener, safeGo
    <3> QED BY <1>1, <1>6, <3>1 DEF ListenerStages
  <2>6. CASE CloseErrChan
    <3>1. UNCHANGED <<handler, stored, unsubscribed, forward, job>>
      BY <2>6 DEF CloseErrChan, group
    <3> QED BY <1>1, <3>1, ListenerStagesStay
  <2>7. CASE Forward
    <3>1. /\ UNCHANGED <<handler, stored, unsubscribed, job>>
          /\ \/ forward' = "nil"
             \/ forward = "forwarded" /\ forward' = "done"
      BY <2>7 DEF Forward, group
    <3> QED BY <1>1, <3>1 DEF ListenerStages
  <2>8. CASE \E k \in Kinds : HandlerPanics(k) \/ OfferError(k) \/ HandlerEnds(k)
    <3>1. PICK k \in Kinds, new \in {"panicked", "gone"} :
            /\ handler' = [handler EXCEPT ![k] = new] /\ UNCHANGED <<stored, unsubscribed, job>>
            /\ forward' \in {forward, "error"}
      BY <2>8 DEF HandlerPanics, OfferError, HandlerEnds, group
    <3>2. \A x \in Kinds : handler[x] # "none" => handler'[x] # "none"
      BY <1>7, <3>1
    <3> QED BY <1>1, <3>1, <3>2 DEF ListenerStages, Kinds
  <2> QED BY <2>1, <2>2, <2>3, <2>4, <2>5, <2>6, <2>7, <2>8 DEF RunListener
<1> QED BY <1>2, <1>5, <1>8 DEF StagesAgree

\* The steps of the processor, of the messenger and of its syncer.
LEMMA MessengerStepStages ==
  ASSUME AppInv, life = "running", StagesAgree,
         \/ StartProcessor \/ StopProcessor \/ RunMessenger \/ StopSyncer \/ CloseClient
         \/ Syncer \/ SyncMessage \/ SyncFails
  PROVE  StagesAgree'
<1>1. ListenerStages /\ MessengerStages /\ ServerStages
  BY DEF StagesAgree
<1>2. /\ UNCHANGED <<life, config, handler, stored, unsubscribed, forward>>
      /\ UNCHANGED <<grpc, grpcStopped>>
  BY DEF StartProcessor, StopProcessor, RunMessenger, AwaitStarted, Await, StartMessenger,
         StartSyncer, MessengerFailed, StopSyncer, CloseClient, Syncer, TakeMessage, SyncCancelled,
         CloseSyncChans, SyncMessage, SyncFails, SyncGoes, Fails, core, listener, server
<1>3. \/ job' = job
      \/ \E g \in {"processor", "messenger", "stopMessenger"}, stage \in JobStages :
           job' = [job EXCEPT ![g] = stage]
  BY DEF StartProcessor, StopProcessor, RunMessenger, AwaitStarted, Await, StartMessenger,
         StartSyncer, MessengerFailed, StopSyncer, CloseClient, Syncer, TakeMessage, SyncCancelled,
         CloseSyncChans, SyncMessage, SyncFails, SyncGoes, Step, safeGo, group, JobStages
<1>4. \A h \in Group \ {"processor", "messenger", "stopMessenger"} : job'[h] = job[h]
  BY <1>3, OthersStay, GroupNames
<1>5. ListenerStages' /\ ServerStages'
  BY <1>1, <1>2, <1>4, GroupNames, ListenerStagesStay, ServerStagesStay
<1>6. ASSUME NEW g \in {"processor", "messenger", "stopMessenger"}, NEW stage,
             job' = [job EXCEPT ![g] = stage]
      PROVE  /\ job'[g] = stage
             /\ \A h \in {"processor", "messenger", "stopMessenger"} \ {g} : job'[h] = job[h]
  BY <1>6, OthersStay, GroupNames
<1>7. MessengerStages'
  <2>1. CASE StartProcessor
    <3>1. /\ loop' = "running" /\ UNCHANGED <<doneChan, sync>>
          /\ job' = [job EXCEPT !["processor"] = "done"]
      BY <2>1 DEF StartProcessor, safeGo, messenger
    <3> QED BY <1>1, <1>6, <3>1 DEF MessengerStages
  <2>2. CASE StopProcessor
    <3>1. loop = "running" /\ loop' = "stopped" /\ UNCHANGED <<doneChan, sync, job>>
      BY <2>2 DEF StopProcessor, group, messenger
    <3> QED BY <1>1, <3>1 DEF MessengerStages
  <2>3. CASE AwaitStarted \/ StartMessenger
    <3>1. /\ UNCHANGED <<loop, doneChan, sync>>
          /\ \E stage \in {"rooms", "chan", "done"} : job' = [job EXCEPT !["messenger"] = stage]
      BY <2>3 DEF AwaitStarted, Await, StartMessenger, Step, safeGo, messenger
    <3> QED BY <1>1, <1>6, <3>1 DEF MessengerStages
  <2>4. CASE StartSyncer
    <3>1. /\ loop' = loop /\ doneChan' = TRUE /\ sync' = "syncing"
          /\ job' = [job EXCEPT !["messenger"] = "wait"]
      BY <2>4 DEF StartSyncer, Step
    <3> QED BY <1>1, <1>6, <3>1 DEF MessengerStages
  <2>5. CASE MessengerFailed
    <3>1. /\ UNCHANGED <<loop, doneChan>> /\ job' = [job EXCEPT !["messenger"] = "done"]
          /\ sync' \in {"closing", "closed", "done"}
      BY <2>5 DEF MessengerFailed, safeGo
    <3> QED BY <1>1, <1>6, <3>1 DEF MessengerStages
  <2>6. CASE StopSyncer
    <3>1. /\ UNCHANGED <<loop, doneChan, sync>>
          /\ \E stage \in {"close", "drain", "nilChan"} :
               job' = [job EXCEPT !["stopMessenger"] = stage] /\ (stage = "drain" => doneChan)
      BY <2>6 DEF StopSyncer, Step, messenger
    <3> QED BY <1>1, <1>6, <3>1 DEF MessengerStages
  <2>7. CASE CloseClient
    <3>1. UNCHANGED <<loop, doneChan, sync>> /\ job' = [job EXCEPT !["stopMessenger"] = "done"]
      BY <2>7 DEF CloseClient, safeGo
    <3> QED BY <1>1, <1>6, <3>1 DEF MessengerStages
  <2>8. CASE Syncer \/ SyncMessage \/ SyncFails
    <3>1. UNCHANGED <<loop, doneChan, job>> /\ sync' # "none"
      BY <2>8 DEF Syncer, TakeMessage, SyncCancelled, CloseSyncChans, SyncMessage, SyncFails,
                  SyncGoes, group
    <3> QED BY <1>1, <3>1 DEF MessengerStages
  <2> QED BY <2>1, <2>2, <2>3, <2>4, <2>5, <2>6, <2>7, <2>8 DEF RunMessenger
<1> QED BY <1>2, <1>5, <1>7 DEF StagesAgree

\* The steps of the server, of the client and of their stop goroutines.
LEMMA ServerStepStages ==
  ASSUME AppInv, life = "running", StagesAgree,
         RunServer \/ Serve \/ StopServer \/ Shutdown
  PROVE  StagesAgree'
<1>1. ListenerStages /\ MessengerStages /\ ServerStages
  BY DEF StagesAgree
<1>2. /\ UNCHANGED <<life, config, handler, stored, unsubscribed, forward>>
      /\ UNCHANGED <<loop, doneChan, sync>>
  BY DEF RunServer, AwaitMessenger, Await, StartServer, ServerFailed, Serve, StopServer, Shutdown,
         Fails, core, listener, messenger
<1>3. \/ job' = job
      \/ \E g \in Group \cap {"server", "stopServer", "stopClient"}, stage \in JobStages :
           job' = [job EXCEPT ![g] = stage]
  BY GroupNames
     DEF RunServer, AwaitMessenger, Await, StartServer, ServerFailed, Serve, StopServer, Shutdown,
         At, Step, safeGo, group, JobStages
<1>4. \A h \in Group \ {"server", "stopServer", "stopClient"} : job'[h] = job[h]
  BY <1>3, OthersStay
<1>5. ListenerStages' /\ MessengerStages'
  BY <1>1, <1>2, <1>4, GroupNames, ListenerStagesStay, MessengerStagesStay
<1>6. ASSUME NEW g \in {"server", "stopServer", "stopClient"}, NEW stage, g \in Group,
             job' = [job EXCEPT ![g] = stage]
      PROVE  /\ job'[g] = stage
             /\ \A h \in {"server", "stopServer", "stopClient"} \ {g} :
                  h \in Group => job'[h] = job[h]
  BY <1>6, OthersStay, GroupNames
<1>7. ServerStages'
  <2>1. CASE RunServer
    <3>1. /\ grpcStopped' = grpcStopped /\ "server" \in Group
          /\ \E stage \in {"listen", "wait", "done"} :
               /\ job' = [job EXCEPT !["server"] = stage]
               /\ stage = "wait" => grpc' # "none"
      BY <2>1, GroupNames DEF RunServer, AwaitMessenger, Await, StartServer, ServerFailed, At, Step,
                              safeGo, server
    <3> QED BY <1>1, <1>2, <1>6, <3>1, GroupNames DEF ServerStages
  <2>2. CASE Serve
    <3>1. UNCHANGED <<job, grpcStopped>> /\ grpc' # "none"
      BY <2>2 DEF Serve, group
    <3> QED BY <1>1, <1>2, <3>1 DEF ServerStages
  <2>3. CASE StopServer
    <3>1. /\ grpcStopped' = TRUE /\ grpc' = grpc /\ "stopServer" \in Group
          /\ job' = [job EXCEPT !["stopServer"] = "done"]
      BY <2>3, GroupNames DEF StopServer, At, safeGo
    <3> QED BY <1>1, <1>2, <1>6, <3>1, GroupNames DEF ServerStages
  <2>4. CASE Shutdown
    <3>1. /\ UNCHANGED <<grpc, grpcStopped>> /\ "stopClient" \in Group
          /\ job' = [job EXCEPT !["stopClient"] = "done"]
      BY <2>4, GroupNames DEF Shutdown, At, safeGo, server
    <3> QED BY <1>1, <1>2, <1>6, <3>1, GroupNames DEF ServerStages
  <2> QED BY <2>1, <2>2, <2>3, <2>4
<1> QED BY <1>2, <1>5, <1>7 DEF StagesAgree

\* Every step keeps the stages.
LEMMA StagesKept ==
  ASSUME AppInv, StagesAgree, [AppNext]_appVars
  PROVE  StagesAgree'
<1>1. CASE Construct
  BY <1>1, ConstructStages
<1>2. CASE Signal \/ UNCHANGED appVars
  <2>1. /\ UNCHANGED <<life, config, job, loop, handler, stored, unsubscribed, forward>>
        /\ UNCHANGED <<doneChan, sync, grpc, grpcStopped>>
    BY <1>2 DEF Signal, appVars, core, group, listener, messenger, server
  <2>2. /\ ListenerStages => ListenerStages'
        /\ MessengerStages => MessengerStages'
        /\ ServerStages => ServerStages'
    BY <2>1 DEF ListenerStages, MessengerStages, ServerStages
  <2> QED BY <2>1, <2>2 DEF StagesAgree
<1>3. CASE Wait
  <2>1. life' = "returned"
    BY <1>3 DEF Wait
  <2> QED BY <2>1 DEF StagesAgree
<1>4. CASE \/ RunListener \/ StopListener \/ CloseErrChan \/ Forward
           \/ \E k \in Kinds : HandlerPanics(k) \/ OfferError(k) \/ HandlerEnds(k)
  <2>1. life = "running"
    BY <1>4 DEF RunListener, StartupChecks, StartTokenBought, StartCancellation, ListenerFailed, At,
         StopListener, CloseErrChan, Forward, HandlerPanics, OfferError, HandlerEnds
  <2> QED BY <1>4, <2>1, ListenerStepStages
<1>5. CASE \/ StartProcessor \/ StopProcessor \/ RunMessenger \/ StopSyncer \/ CloseClient
           \/ Syncer \/ SyncMessage \/ SyncFails
  <2>1. life = "running"
    BY <1>5 DEF StartProcessor, StopProcessor, RunMessenger, AwaitStarted, Await, StartMessenger, At,
         StartSyncer, MessengerFailed, StopSyncer, CloseClient, Syncer, TakeMessage, SyncCancelled,
         CloseSyncChans, SyncMessage, SyncFails, SyncGoes
  <2> QED BY <1>5, <2>1, MessengerStepStages
<1>6. CASE RunServer \/ Serve \/ StopServer \/ Shutdown
  <2>1. life = "running"
    BY <1>6 DEF RunServer, AwaitMessenger, Await, StartServer, ServerFailed, Serve, StopServer,
         Shutdown, At
  <2> QED BY <1>6, <2>1, ServerStepStages
<1> QED BY <1>1, <1>2, <1>3, <1>4, <1>5, <1>6 DEF AppNext

-----------------------------------------------------------------------------
\* A listener that waits, and whose Stop has run, goes on or is stranded.
LEMMA ListenerComes ==
  ASSUME AppInv, StagesAgree, life = "running", ctx, ~Stranded,
         ~ListenerGoesOn, ~SubscriberGoesOn
  PROVE  job["listener"] = "done" /\ job["stopListener"] = "done"
<1>1. ListenerStages /\ AppTypeOK
  BY AtWork DEF StagesAgree
<1>2. job["stopListener"] = "done"
  BY <1>1, GroupNames DEF ListenerStages, ListenerGoesOn, At
<1>3. job["listener"] \in {"wait", "done"}
  BY <1>1, GroupNames DEF ListenerStages, ListenerGoesOn, At
<1>4. ASSUME job["listener"] = "wait" PROVE FALSE
  <2>1. /\ forward = "waiting" /\ stored = Kinds /\ \A k \in Kinds : handler[k] # "none"
        /\ ~subErr
    BY <1>1, <1>4, GroupNames DEF ListenerStages, ListenerGoesOn, SubscriberGoesOn, At
  <2>2. unsubscribed = Kinds
    <3>1. unsubscribed \in {{}, {"token"}, Kinds}
      BY <1>1, <1>2 DEF ListenerStages
    <3>2. "cancellation" \in unsubscribed
      BY <1>2, <2>1, GroupNames DEF Stranded, At, Kinds
    <3> QED BY <3>1, <3>2
  <2>3. \A k \in Kinds : handler[k] = "gone"
    BY <1>1, <2>1, <2>2 DEF SubscriberGoesOn, AppTypeOK
  <2> QED BY <2>1, <2>3 DEF SubscriberGoesOn, Kinds
<1> QED BY <1>2, <1>3, <1>4

\* A messenger that waits goes on, for its syncer does.
LEMMA MessengerComes ==
  ASSUME AppInv, StagesAgree, life = "running", ctx, ~Stranded,
         ~MessengerGoesOn, ~SyncerGoesOn
  PROVE  job["processor"] = "done" /\ job["messenger"] = "done" /\ job["stopMessenger"] = "done"
<1>1. MessengerStages /\ AppTypeOK /\ WaitersAgree
  BY AtWork DEF StagesAgree
<1>2. job["processor"] = "done" /\ loop \in {"running", "stopped"}
  BY <1>1, GroupNames DEF MessengerStages, MessengerGoesOn, At
<1>3. sync \in {"none", "failing", "done"}
  BY <1>1, <1>2 DEF SyncerGoesOn, Stranded, AppTypeOK
<1>4. job["messenger"] \in {"wait", "done"}
  BY <1>1, GroupNames DEF MessengerStages, MessengerGoesOn, At
<1>5. job["messenger"] = "done" /\ sync # "failing"
  BY <1>1, <1>3, <1>4, GroupNames DEF MessengerStages, MessengerGoesOn, WaitersAgree, At
<1>6. job["stopMessenger"] \in {"drain", "done"}
  BY <1>1, GroupNames DEF MessengerStages, MessengerGoesOn, Stranded, At
<1>7. job["stopMessenger"] # "drain"
  BY <1>1, <1>3, <1>5, GroupNames DEF MessengerStages, MessengerGoesOn, At
<1> QED BY <1>2, <1>5, <1>6, <1>7

\* A server that waits goes on, for it is stopped.
LEMMA ServerComes ==
  ASSUME AppInv, StagesAgree, life = "running", ctx, ~ServerGoesOn
  PROVE  \A g \in Group \cap {"server", "stopServer", "stopClient"} : job[g] = "done"
<1>1. ServerStages /\ AppTypeOK
  BY AtWork DEF StagesAgree
<1>2. "client" \in config => job["stopClient"] = "done"
  BY <1>1, GroupNames DEF ServerStages, ServerGoesOn, At
<1>3. ASSUME "server" \in config PROVE job["server"] = "done" /\ job["stopServer"] = "done"
  <2>1. job["stopServer"] = "done" /\ grpcStopped
    BY <1>1, <1>3, GroupNames DEF ServerStages, ServerGoesOn, At
  <2>2. job["server"] \in {"wait", "done"}
    BY <1>1, <1>3, GroupNames DEF ServerStages, ServerGoesOn, At
  <2>3. job["server"] # "wait"
    BY <1>1, <1>3, <2>1, GroupNames DEF ServerStages, ServerGoesOn, AppTypeOK, At
  <2> QED BY <2>1, <2>2, <2>3
<1> QED BY <1>2, <1>3, GroupNames

\* The application can always come to its end, but for the states of Stranded.
THEOREM EndsOrStrandedHolds == AppSpec => []EndsOrStranded
<1>1. AppInit => StagesAgree
  BY DEF AppInit, StagesAgree
<1>2. AppInv /\ StagesAgree /\ [AppNext]_appVars => StagesAgree'
  BY StagesKept
<1>3. AppInv /\ StagesAgree => EndsOrStranded
  <2> SUFFICES ASSUME AppInv, StagesAgree, ctx, life # "returned", ~Stranded,
                      ~MainGoesOn, ~ListenerGoesOn, ~SubscriberGoesOn, ~MessengerGoesOn,
                      ~SyncerGoesOn, ~ServerGoesOn
               PROVE  FALSE
    BY DEF EndsOrStranded
  <2>1. life = "running"
    BY DEF MainGoesOn
  <2>2. /\ job["listener"] = "done" /\ job["stopListener"] = "done"
        /\ job["processor"] = "done" /\ job["messenger"] = "done" /\ job["stopMessenger"] = "done"
        /\ \A g \in Group \cap {"server", "stopServer", "stopClient"} : job[g] = "done"
    BY <2>1, ListenerComes, MessengerComes, ServerComes
  <2>3. \A g \in Group : job[g] = "done"
    BY <2>2 DEF Group, Runs, Stops
  <2> QED BY <2>1, <2>3, GroupNames DEF MainGoesOn
<1> QED BY <1>1, <1>2, <1>3, AppInvariance, PTL DEF AppSpec

-----------------------------------------------------------------------------
(***************************************************************************)
(* RunsAreSpaced, for any jobs, periods, seconds, restarts and calls of    *)
(* Schedule.  The times at which a worker may run next (its tick, the tick *)
(* it has taken, the next time its timer is due) are spaced from the last  *)
(* run; where it starts they come from the table, which loses less than a  *)
(* second of the last run and less than a second of the period.  Neither   *)
(* is lost twice, for a time in whole seconds stays as it is, and no       *)
(* session writes a row over another's, for it commits only when no other  *)
(* has read.                                                               *)
(***************************************************************************)

JobRows == [lastExecutedAt : Nat, period : Nat]
Ticks == Nat \cup {NoTick}
NoWorkers == [kind : {"none", "ended"}, step : {"select"}]
Selecting == [kind : {"once", "ticker"}, step : {"select"}, period : Nat, due : Nat, tick : Ticks]
Reading == [kind : {"once", "ticker"}, step : {"read"}, period : Nat, due : Nat, tick : Ticks,
            at : Nat, row : JobRows]
Running == [kind : {"once", "ticker"}, step : {"run", "running"}, period : Nat, due : Nat, tick : Ticks,
            at : Nat]
Workers == NoWorkers \cup Selecting \cup Reading \cup Running
Schedulings ==
  [stage : {"idle"}]
  \cup [stage : {"read", "done"}, job : Jobs, period : Nat, row : JobRows \cup {NoRow}]

\* Every variable holds a value of the shape the code declares for it.
SchedulerTypeOK ==
  /\ jobs \in [Jobs -> JobRows \cup {NoRow}]
  /\ scheduling \in [ScheduleCalls -> Schedulings]
  /\ phase \in {"new", "starting", "started", "stopping", "stopped"}
  /\ worker \in [Jobs -> Workers]
  /\ jobTime \in Nat
  /\ runTicks \in [Jobs -> Seq(Nat)]
  /\ runTimes \in [Jobs -> Seq(Nat)]
  /\ shortest \in [Jobs -> Nat]

\* What a session has read is what the table holds.
SessionsAgree ==
  /\ \A c \in ScheduleCalls :
       scheduling[c].stage = "read" => scheduling[c].row = jobs[scheduling[c].job]
  /\ \A j \in Jobs : worker[j].step = "read" => worker[j].row = jobs[j]
  /\ phase = "starting" =>
       \A j \in DOMAIN toStart : j \in Jobs /\ toStart[j] = jobs[j] /\ jobs[j] # NoRow

\* A period of the table or of a worker falls less than a second short of the
\* shortest one that was asked for.
LongEnough(j, period) == period + (Second - 1) >= shortest[j]

LastRun(j) == runTicks[j][Len(runTicks[j])]

\* A time at which the job may run again.
Spaced(j, t) ==
  runTicks[j] # <<>> => t >= LastRun(j) /\ t + 2 * (Second - 1) >= LastRun(j) + shortest[j]

\* The row of a job: in whole seconds, and not behind the last run.
RowAgrees(j) ==
  /\ jobs[j] # NoRow =>
       /\ WholeSeconds(jobs[j].lastExecutedAt) = jobs[j].lastExecutedAt
       /\ WholeSeconds(jobs[j].period) = jobs[j].period
       /\ LongEnough(j, jobs[j].period)
  /\ runTicks[j] # <<>> =>
       /\ jobs[j] # NoRow /\ jobs[j].lastExecutedAt + (Second - 1) >= LastRun(j)
       /\ LastRun(j) <= jobTime

\* A worker w of a job: when it may run next.
WorkerAgrees(j, w) ==
  w.kind \in {"once", "ticker"} =>
    /\ jobs[j] # NoRow /\ LongEnough(j, w.period)
    /\ w.due > jobTime => Spaced(j, w.due)
    /\ w.tick # NoTick => w.tick <= jobTime /\ Spaced(j, w.tick)
    /\ w.kind = "ticker" /\ w.tick # NoTick => w.due >= w.tick + w.period
    /\ w.step # "select" =>
         /\ w.at <= jobTime
         /\ w.step # "running" => Spaced(j, w.at)
         /\ w.kind = "ticker" =>
              /\ w.due >= w.at + w.period
              /\ w.tick # NoTick => w.tick >= w.at + w.period
    /\ w.kind = "once" =>
         /\ w.tick # NoTick \/ w.step # "select" => w.due <= jobTime
         /\ w.step # "select" => w.tick = NoTick
    /\ w.step = "run" => jobs[j].lastExecutedAt + (Second - 1) >= w.at

\* The ticks of two runs are a period apart.
TicksAreSpaced ==
  \A j \in Jobs : \A i \in 1..(Len(runTicks[j]) - 1) :
    runTicks[j][i + 1] + 2 * (Second - 1) >= runTicks[j][i] + shortest[j]

SchedulerInv ==
  /\ SchedulerTypeOK /\ SessionsAgree
  /\ \A j \in Jobs : RowAgrees(j) /\ WorkerAgrees(j, worker[j])
  /\ TicksAreSpaced

\* Whole seconds: less than a second is lost, and nothing of whole ones.
LEMMA WholeSecondsLoss ==
  ASSUME NEW t \in Nat
  PROVE  /\ WholeSeconds(t) \in Nat /\ WholeSeconds(t) <= t /\ t <= WholeSeconds(t) + (Second - 1)
         /\ WholeSeconds(WholeSeconds(t)) = WholeSeconds(t)
<1>0. Second \in Nat /\ Second > 0
  BY SchedulerAssumption
<1>1. PICK q \in Nat : q = t \div Second
  BY <1>0
<1>2. q * Second <= t /\ t < (q + 1) * Second
  BY <1>0, <1>1
<1>3. (q * Second) \div Second = q
  BY <1>0, <1>1
<1> QED BY <1>0, <1>1, <1>2, <1>3 DEF WholeSeconds

\* What jobFromModel stores is a row in whole seconds.
LEMMA jobFromModelRow ==
  ASSUME NEW last \in Nat, NEW period \in Nat
  PROVE  /\ jobFromModel(last, period) \in JobRows /\ jobFromModel(last, period) # NoRow
         /\ jobFromModel(last, period).lastExecutedAt = WholeSeconds(last)
         /\ jobFromModel(last, period).period = WholeSeconds(period)
<1>1. WholeSeconds(last) \in Nat /\ WholeSeconds(period) \in Nat
  BY WholeSecondsLoss
<1> HIDE DEF WholeSeconds
<1>2. jobFromModel(last, period) \in JobRows
  BY <1>1 DEF jobFromModel, JobRows
<1> QED BY <1>2, RowAssumption DEF jobFromModel, JobRows

\* The fields of a worker that waits for its timer, or is at work.
LEMMA WorkerShape ==
  ASSUME NEW w \in Workers
  PROVE  /\ w.kind \in {"once", "ticker"} =>
              /\ w \in Selecting \cup Reading \cup Running
              /\ w.period \in Nat /\ w.due \in Nat /\ w.tick \in Ticks
         /\ w.step \in {"select", "read", "run", "running"}
         /\ w.step # "select" => w.kind \in {"once", "ticker"} /\ w.at \in Nat
         /\ w.step = "select" /\ w.kind \in {"once", "ticker"} => w \in Selecting
         /\ w.step = "read" => w \in Reading
         /\ w.step \in {"run", "running"} => w \in Running
BY DEF Workers, NoWorkers, Selecting, Reading, Running

\* No job has a worker, a row or a run at first.
LEMMA SchedulerInitInv == SchedulerInit => SchedulerInv
<1> SUFFICES ASSUME SchedulerInit PROVE SchedulerInv
  OBVIOUS
<1>1. NoWorker \in NoWorkers /\ NoWorker.kind = "none" /\ NoWorker.step = "select"
  BY DEF NoWorker, NoWorkers
<1>2. SchedulerTypeOK
  <2>1. jobs \in [Jobs -> JobRows \cup {NoRow}] /\ scheduling \in [ScheduleCalls -> Schedulings]
    BY DEF SchedulerInit, Schedulings
  <2>2. worker \in [Jobs -> Workers]
    BY <1>1 DEF SchedulerInit, Workers
  <2>3. phase \in {"new", "starting", "started", "stopping", "stopped"} /\ jobTime \in Nat
    BY SchedulerAssumption DEF SchedulerInit
  <2>4. /\ runTicks \in [Jobs -> Seq(Nat)] /\ runTimes \in [Jobs -> Seq(Nat)]
        /\ shortest \in [Jobs -> Nat]
    BY SchedulerAssumption DEF SchedulerInit
  <2> QED BY <2>1, <2>2, <2>3, <2>4 DEF SchedulerTypeOK
<1>3. SessionsAgree
  BY <1>1 DEF SchedulerInit, SessionsAgree
<1>4. ASSUME NEW j \in Jobs PROVE RowAgrees(j) /\ WorkerAgrees(j, worker[j])
  <2>1. jobs[j] = NoRow /\ runTicks[j] = <<>> /\ worker[j] = NoWorker
    BY DEF SchedulerInit
  <2> QED BY <1>1, <2>1 DEF RowAgrees, WorkerAgrees
<1>5. TicksAreSpaced
  BY DEF SchedulerInit, TicksAreSpaced
<1> QED BY <1>2, <1>3, <1>4, <1>5 DEF SchedulerInv

\* The facts about one job.
LEMMA JobFacts ==
  ASSUME SchedulerInv, NEW j \in Jobs
  PROVE  /\ worker[j] \in Workers /\ WorkerAgrees(j, worker[j]) /\ RowAgrees(j)
         /\ runTicks[j] \in Seq(Nat) /\ shortest[j] \in Nat /\ jobTime \in Nat
         /\ runTicks[j] # <<>> => LastRun(j) \in Nat /\ LastRun(j) <= jobTime
         /\ jobs[j] \in JobRows \cup {NoRow}
         /\ jobs[j] # NoRow => jobs[j].lastExecutedAt \in Nat /\ jobs[j].period \in Nat
<1>1. /\ worker[j] \in Workers /\ WorkerAgrees(j, worker[j]) /\ RowAgrees(j)
      /\ runTicks[j] \in Seq(Nat) /\ shortest[j] \in Nat /\ jobTime \in Nat
      /\ jobs[j] \in JobRows \cup {NoRow}
  BY DEF SchedulerInv, SchedulerTypeOK
<1>2. runTicks[j] # <<>> => LastRun(j) \in Nat
  <2>1. runTicks[j] # <<>> => Len(runTicks[j]) \in 1..Len(runTicks[j])
    BY <1>1
  <2> QED BY <1>1, <2>1 DEF LastRun
<1> QED BY <1>1, <1>2 DEF RowAgrees, JobRows

\* A period from now on the job may run again.
LEMMA SpacedAhead ==
  ASSUME SchedulerInv, NEW j \in Jobs, NEW p \in Nat, LongEnough(j, p)
  PROVE  Spaced(j, jobTime + p)
<1>1. Second \in Nat /\ Second > 0
  BY SchedulerAssumption
<1> QED BY <1>1, JobFacts DEF Spaced, LongEnough

\* A ticker that is started, and one that goes on, keep their distance.
LEMMA NextSelectAgrees ==
  ASSUME SchedulerInv, NEW j \in Jobs, NEW w \in Selecting, jobs[j] # NoRow,
         LongEnough(j, w.period), w.kind = "ticker" => WorkerAgrees(j, w)
  PROVE  NextSelect(w) \in NoWorkers \cup Selecting /\ WorkerAgrees(j, NextSelect(w))
<1>1. w.period \in Nat /\ w.kind \in {"once", "ticker"} /\ w.step = "select"
  BY DEF Selecting
<1>2. CASE w.kind = "ticker"
  <2>1. NextSelect(w) = w
    BY <1>1, <1>2 DEF NextSelect, Selecting
  <2> QED BY <1>2, <2>1
<1>3. CASE w.kind = "once" /\ w.period = 0
  <2>1. NextSelect(w) = EndedWorker /\ EndedWorker \in NoWorkers /\ EndedWorker.kind = "ended"
    BY <1>3 DEF NextSelect, EndedWorker, NoWorkers
  <2> QED BY <2>1 DEF WorkerAgrees
<1>4. CASE w.kind = "once" /\ w.period # 0
  <2>1. jobTime \in Nat
    BY JobFacts
  <2>2. NextSelect(w) = [kind |-> "ticker", step |-> "select", period |-> w.period,
                         due |-> jobTime + w.period, tick |-> NoTick]
    BY <1>4 DEF NextSelect
  <2>3. NextSelect(w) \in Selecting
    BY <1>1, <2>1, <2>2 DEF Selecting, Ticks
  <2>4. Spaced(j, jobTime + w.period)
    BY <1>1, SpacedAhead
  <2> QED BY <2>2, <2>3, <2>4 DEF WorkerAgrees
<1> QED BY <1>1, <1>2, <1>3, <1>4

\* A step of one worker that writes no row and runs no handler.
LEMMA WorkerStep ==
  ASSUME SchedulerInv, NEW j \in Jobs, NEW w \in Workers,
         worker' = [worker EXCEPT ![j] = w], WorkerAgrees(j, w),
         w.step = "read" => w.row = jobs[j],
         UNCHANGED <<jobs, scheduling, jobTime, runTicks, runTimes, shortest>>,
         phase' \in {"new", "starting", "started", "stopping", "stopped"},
         phase' = "starting" =>
           /\ phase = "starting" /\ DOMAIN toStart' \subseteq DOMAIN toStart
           /\ \A x \in DOMAIN toStart' : toStart'[x] = toStart[x]
  PROVE  SchedulerInv'
<1>1. /\ worker' \in [Jobs -> Workers] /\ worker'[j] = w
      /\ \A k \in Jobs \ {j} : worker'[k] = worker[k]
  BY DEF SchedulerInv, SchedulerTypeOK
<1>2. SchedulerTypeOK'
  BY <1>1 DEF SchedulerInv, SchedulerTypeOK
<1>3. SessionsAgree'
  BY <1>1 DEF SchedulerInv, SessionsAgree
<1>4. TicksAreSpaced'
  BY DEF SchedulerInv, TicksAreSpaced
<1>5. ASSUME NEW k \in Jobs PROVE (RowAgrees(k) /\ WorkerAgrees(k, worker[k]))'
  <2>1. RowAgrees(k)'
    BY JobFacts DEF RowAgrees, LongEnough, LastRun
  <2>2. WorkerAgrees(k, worker'[k])
    BY <1>1, JobFacts
  <2>3. WorkerAgrees(k, worker[k])'
    BY <2>2 DEF WorkerAgrees, LongEnough, Spaced, LastRun
  <2> QED BY <2>1, <2>3
<1> QED BY <1>2, <1>3, <1>4, <1>5 DEF SchedulerInv

\* TakeTick: the tick is taken for a run, or the end of the context is.
LEMMA TakeTickKeeps ==
  ASSUME SchedulerInv, NEW j \in Jobs, TakeTick(j)
  PROVE  SchedulerInv'
<1> DEFINE w == worker[j]
<1>1. /\ w.kind \in {"once", "ticker"} /\ w.step = "select" /\ w.tick # NoTick
      /\ UNCHANGED <<jobs, scheduling, jobTime, runTicks, runTimes, shortest, phase, toStart>>
  BY DEF TakeTick, WorkerGoes
<1>2. /\ w \in Selecting /\ w.period \in Nat /\ w.due \in Nat /\ w.tick \in Nat
      /\ WorkerAgrees(j, w) /\ jobs[j] # NoRow /\ jobs[j] \in JobRows
  BY <1>1, JobFacts, WorkerShape DEF Ticks, WorkerAgrees
<1>3. /\ phase \in {"new", "starting", "started", "stopping", "stopped"}
      /\ phase' = phase /\ toStart' = toStart
  BY <1>1 DEF SchedulerInv, SchedulerTypeOK
<1>4. CASE WorkerGoes(j, [kind |-> w.kind, step |-> "read", period |-> w.period, due |-> w.due,
                          tick |-> NoTick, at |-> w.tick, row |-> jobs[j]])
  <2>1. PICK v : v = [kind |-> w.kind, step |-> "read", period |-> w.period, due |-> w.due,
                      tick |-> NoTick, at |-> w.tick, row |-> jobs[j]]
    OBVIOUS
  <2>2. /\ v.kind = w.kind /\ v.step = "read" /\ v.period = w.period /\ v.due = w.due
        /\ v.tick = NoTick /\ v.at = w.tick /\ v.row = jobs[j]
    BY <2>1
  <2>3. v \in Reading
    BY <1>1, <1>2, <2>1 DEF Reading, Ticks
  <2>4. WorkerAgrees(j, v)
    BY <1>1, <1>2, <2>2 DEF WorkerAgrees
  <2>5. v \in Workers /\ worker' = [worker EXCEPT ![j] = v]
    BY <1>4, <2>1, <2>3 DEF Workers, WorkerGoes
  <2> QED BY <1>1, <1>3, <2>2, <2>4, <2>5, WorkerStep
<1>5. CASE WorkerGoes(j, NextSelect([w EXCEPT !.tick = NoTick]))
  <2>1. PICK v : v = [w EXCEPT !.tick = NoTick]
    OBVIOUS
  <2>2. /\ v \in Selecting /\ v.kind = w.kind /\ v.step = "select" /\ v.period = w.period
        /\ v.due = w.due /\ v.tick = NoTick
    BY <1>2, <1>1, <2>1 DEF Selecting, Ticks
  <2>3. WorkerAgrees(j, v) /\ LongEnough(j, v.period)
    BY <1>1, <1>2, <2>2 DEF WorkerAgrees
  <2>4. NextSelect(v) \in NoWorkers \cup Selecting /\ WorkerAgrees(j, NextSelect(v))
    BY <1>2, <2>2, <2>3, NextSelectAgrees
  <2>5. /\ NextSelect(v) \in Workers /\ NextSelect(v).step # "read"
        /\ worker' = [worker EXCEPT ![j] = NextSelect(v)]
    BY <1>5, <2>1, <2>4 DEF Workers, WorkerGoes, NoWorkers, Selecting
  <2> QED BY <1>1, <1>3, <2>4, <2>5, WorkerStep
<1> QED BY <1>4, <1>5 DEF TakeTick

\* TimersDone: a worker that waits ends.
LEMMA TimersDoneKeeps ==
  ASSUME SchedulerInv, NEW j \in Jobs, TimersDone(j)
  PROVE  SchedulerInv'
<1>1. /\ UNCHANGED <<jobs, scheduling, jobTime, runTicks, runTimes, shortest, phase, toStart>>
      /\ worker' = [worker EXCEPT ![j] = EndedWorker]
  BY DEF TimersDone, WorkerGoes
<1>2. EndedWorker \in Workers /\ EndedWorker.step = "select" /\ EndedWorker.kind = "ended"
  BY DEF EndedWorker, Workers, NoWorkers
<1>3. /\ phase \in {"new", "starting", "started", "stopping", "stopped"}
      /\ phase' = phase /\ toStart' = toStart
  BY <1>1 DEF SchedulerInv, SchedulerTypeOK
<1>4. WorkerAgrees(j, EndedWorker)
  BY <1>2 DEF WorkerAgrees
<1> QED BY <1>1, <1>2, <1>3, <1>4, WorkerStep

\* A commit finds no other session that has read.
LEMMA SoleReader ==
  ASSUME NEW x, JobReaders = {x}
  PROVE  /\ x \in Jobs => /\ \A k \in Jobs \ {x} : worker[k].step # "read"
                          /\ \A c \in ScheduleCalls : scheduling[c].stage # "read"
         /\ x \in ScheduleCalls => /\ \A k \in Jobs : worker[k].step # "read"
                                   /\ \A c \in ScheduleCalls \ {x} : scheduling[c].stage # "read"
         /\ x \in Jobs \cup ScheduleCalls => phase # "starting"
BY SessionAssumption DEF JobReaders

\* updateJobExecutionTime: the execution is in the table before the handler runs.
LEMMA updateJobExecutionTimeKeeps ==
  ASSUME SchedulerInv, NEW j \in Jobs, updateJobExecutionTime(j)
  PROVE  SchedulerInv'
<1> DEFINE w == worker[j]
<1>1. w.step = "read" /\ UNCHANGED <<scheduling, jobTime, runTicks, runTimes, shortest, phase, toStart>>
  BY DEF updateJobExecutionTime, WorkerGoes
<1>2. /\ w \in Reading /\ w.kind \in {"once", "ticker"} /\ w.period \in Nat /\ w.due \in Nat
      /\ w.tick \in Ticks /\ w.at \in Nat /\ WorkerAgrees(j, w)
  BY <1>1, JobFacts, WorkerShape
<1>3. /\ w.row = jobs[j] /\ jobs[j] # NoRow /\ jobs[j] \in JobRows
      /\ jobs[j].period \in Nat /\ Spaced(j, w.at) /\ LongEnough(j, w.period)
  BY <1>1, <1>2, JobFacts DEF SchedulerInv, SessionsAgree, WorkerAgrees
<1>4. /\ phase \in {"new", "starting", "started", "stopping", "stopped"}
      /\ phase' = phase /\ toStart' = toStart
  BY <1>1 DEF SchedulerInv, SchedulerTypeOK
<1>5. CASE jobs' = jobs /\ WorkerGoes(j, NextSelect([kind |-> w.kind, step |-> "select",
                             period |-> w.period, due |-> w.due, tick |-> w.tick]))
  <2>1. PICK v : v = [kind |-> w.kind, step |-> "select", period |-> w.period, due |-> w.due,
                      tick |-> w.tick]
    OBVIOUS
  <2>2. /\ v \in Selecting /\ v.kind = w.kind /\ v.step = "select" /\ v.period = w.period
        /\ v.due = w.due /\ v.tick = w.tick
    BY <1>2, <2>1 DEF Selecting
  <2>3. WorkerAgrees(j, v)
    BY <1>2, <2>2 DEF WorkerAgrees
  <2>4. NextSelect(v) \in NoWorkers \cup Selecting /\ WorkerAgrees(j, NextSelect(v))
    BY <1>3, <2>2, <2>3, NextSelectAgrees
  <2>5. /\ NextSelect(v) \in Workers /\ NextSelect(v).step # "read"
        /\ worker' = [worker EXCEPT ![j] = NextSelect(v)]
    BY <1>5, <2>1, <2>4 DEF Workers, WorkerGoes, NoWorkers, Selecting
  <2> QED BY <1>1, <1>4, <1>5, <2>4, <2>5, WorkerStep
<1>6. CASE /\ JobReaders = {j} /\ jobs' = [jobs EXCEPT ![j] = jobFromModel(w.at, w.row.period)]
           /\ WorkerGoes(j, Unread(w, "run"))
  <2>1. PICK v : v = Unread(w, "run")
    OBVIOUS
  <2>2. /\ v \in Running /\ v.kind = w.kind /\ v.step = "run" /\ v.period = w.period
        /\ v.due = w.due /\ v.tick = w.tick /\ v.at = w.at
    BY <1>2, <2>1 DEF Unread, Running
  <2>3. /\ worker' = [worker EXCEPT ![j] = v] /\ v \in Workers
        /\ worker' \in [Jobs -> Workers] /\ worker'[j] = v
        /\ \A k \in Jobs \ {j} : worker'[k] = worker[k]
    BY <1>6, <2>1, <2>2 DEF WorkerGoes, Workers, SchedulerInv, SchedulerTypeOK
  <2>4. PICK row : row = jobFromModel(w.at, jobs[j].period)
    OBVIOUS
  <2>5. /\ row \in JobRows /\ row # NoRow /\ row.lastExecutedAt = WholeSeconds(w.at)
        /\ row.period = WholeSeconds(jobs[j].period)
    BY <1>2, <1>3, <2>4, jobFromModelRow
  <2>6. /\ jobs' \in [Jobs -> JobRows \cup {NoRow}] /\ jobs'[j] = row
        /\ \A k \in Jobs \ {j} : jobs'[k] = jobs[k]
    BY <1>3, <1>6, <2>4, <2>5 DEF SchedulerInv, SchedulerTypeOK
  <2>7. SchedulerTypeOK'
    BY <1>1, <2>3, <2>6 DEF SchedulerInv, SchedulerTypeOK
  <2>8. SessionsAgree'
    <3>1. /\ \A k \in Jobs : worker'[k].step # "read"
          /\ \A c \in ScheduleCalls : scheduling[c].stage # "read"
          /\ phase # "starting"
      BY <1>6, <2>2, <2>3, SoleReader
    <3> QED BY <1>1, <3>1 DEF SessionsAgree
  <2>9. TicksAreSpaced'
    BY <1>1 DEF SchedulerInv, TicksAreSpaced
  <2>10. /\ WholeSeconds(w.at) \in Nat /\ w.at <= WholeSeconds(w.at) + (Second - 1)
         /\ WholeSeconds(WholeSeconds(w.at)) = WholeSeconds(w.at)
         /\ WholeSeconds(jobs[j].period) = jobs[j].period /\ LongEnough(j, jobs[j].period)
    BY <1>2, <1>3, WholeSecondsLoss, JobFacts DEF RowAgrees
  <2>11. ASSUME NEW k \in Jobs PROVE RowAgrees(k)'
    <3>1. CASE k # j
      BY <1>1, <2>6, <3>1, JobFacts DEF RowAgrees, LongEnough, LastRun
    <3>2. CASE k = j
      <4>1. Second \in Nat /\ Second > 0
        BY SchedulerAssumption
      <4>2. runTicks[j] # <<>> => WholeSeconds(w.at) + (Second - 1) >= LastRun(j)
        BY <1>2, <1>3, <2>10, <4>1, JobFacts DEF Spaced
      <4>3. runTicks[j] # <<>> => LastRun(j) <= jobTime
        BY JobFacts
      <4> QED BY <1>1, <2>5, <2>6, <2>10, <3>2, <4>2, <4>3 DEF RowAgrees, LongEnough, LastRun
    <3> QED BY <3>1, <3>2
  <2>12. ASSUME NEW k \in Jobs PROVE WorkerAgrees(k, worker[k])'
    <3>1. CASE k # j
      BY <1>1, <2>3, <2>6, <3>1, JobFacts DEF WorkerAgrees, LongEnough, Spaced, LastRun
    <3>2. CASE k = j
      BY <1>1, <1>2, <2>2, <2>3, <2>5, <2>6, <2>10, <3>2
         DEF WorkerAgrees, LongEnough, Spaced, LastRun
    <3> QED BY <3>1, <3>2
  <2> QED BY <2>7, <2>8, <2>9, <2>11, <2>12 DEF SchedulerInv
<1> QED BY <1>5, <1>6 DEF updateJobExecutionTime

\* What Append leaves and adds.
LEMMA AppendFacts ==
  ASSUME NEW seq \in Seq(Nat), NEW a \in Nat
  PROVE  /\ Len(seq) \in Nat /\ Len(Append(seq, a)) = Len(seq) + 1
         /\ Append(seq, a)[Len(seq) + 1] = a /\ Append(seq, a) # <<>>
         /\ \A i \in 1..Len(seq) : Append(seq, a)[i] = seq[i]
<1>1. /\ Len(seq) \in Nat /\ Len(Append(seq, a)) = Len(seq) + 1
      /\ Append(seq, a)[Len(seq) + 1] = a
      /\ \A i \in 1..Len(seq) : Append(seq, a)[i] = seq[i]
  OBVIOUS
<1>2. Append(seq, a) # <<>>
  BY <1>1
<1> QED BY <1>1, <1>2

\* RunJob: the run is spaced from the one before, and the next from it.
LEMMA RunJobKeeps ==
  ASSUME SchedulerInv, NEW j \in Jobs, RunJob(j)
  PROVE  SchedulerInv'
<1>w. PICK w \in Workers : w = worker[j]
  BY JobFacts
<1>0. Second \in Nat /\ Second > 0
  BY SchedulerAssumption
<1>1. /\ w.step = "run" /\ UNCHANGED <<jobs, scheduling, jobTime, shortest, phase, toStart>>
      /\ runTicks' = [runTicks EXCEPT ![j] = Append(@, w.at)]
      /\ runTimes' = [runTimes EXCEPT ![j] = Append(@, jobTime)]
      /\ worker' = [worker EXCEPT ![j] = Unread(w, "running")]
  BY <1>w DEF RunJob, WorkerGoes
<1>2. /\ w \in Running /\ w.kind \in {"once", "ticker"} /\ w.period \in Nat /\ w.due \in Nat
      /\ w.tick \in Ticks /\ w.at \in Nat /\ WorkerAgrees(j, w)
  BY <1>w, <1>1, JobFacts, WorkerShape
<1>3. /\ jobs[j] # NoRow /\ w.at <= jobTime /\ Spaced(j, w.at) /\ LongEnough(j, w.period)
      /\ jobs[j].lastExecutedAt + (Second - 1) >= w.at
      /\ jobTime \in Nat /\ shortest[j] \in Nat /\ runTicks[j] \in Seq(Nat)
  BY <1>1, <1>2, JobFacts DEF WorkerAgrees
<1>4. /\ runTicks' \in [Jobs -> Seq(Nat)] /\ runTicks'[j] = Append(runTicks[j], w.at)
      /\ \A k \in Jobs \ {j} : runTicks'[k] = runTicks[k]
      /\ runTimes' \in [Jobs -> Seq(Nat)]
  BY <1>1, <1>2, <1>3 DEF SchedulerInv, SchedulerTypeOK
<1>5. LastRun(j)' = w.at /\ runTicks'[j] # <<>>
  <2>1. PICK seq \in Seq(Nat), a \in Nat : seq = runTicks[j] /\ a = w.at
    BY <1>2, <1>3
  <2>2. runTicks'[j] = Append(seq, a)
    BY <1>4, <2>1
  <2> QED BY <2>1, <2>2, AppendFacts DEF LastRun
<1>6. PICK v : v = Unread(w, "running")
  OBVIOUS
<1>7. /\ v \in Running /\ v.kind = w.kind /\ v.step = "running" /\ v.period = w.period
      /\ v.due = w.due /\ v.tick = w.tick /\ v.at = w.at
  BY <1>2, <1>6 DEF Unread, Running
<1>8. \A t \in Nat : t >= w.at + w.period => Spaced(j, t)'
  <2>1. ASSUME NEW t \in Nat, t >= w.at + w.period
        PROVE  t >= w.at /\ t + 2 * (Second - 1) >= w.at + shortest[j]
    BY <1>0, <1>2, <1>3, <2>1 DEF LongEnough
  <2> QED BY <1>1, <1>5, <2>1 DEF Spaced
<1>9. WorkerAgrees(j, v)'
  <2>1. /\ w.kind = "ticker" =>
             /\ w.due >= w.at + w.period
             /\ w.tick # NoTick => w.tick \in Nat /\ w.tick >= w.at + w.period
        /\ w.kind = "once" => w.due <= jobTime /\ w.tick = NoTick
        /\ w.tick # NoTick => w.tick <= jobTime
        /\ w.kind = "ticker" /\ w.tick # NoTick => w.due >= w.tick + w.period
    BY <1>1, <1>2 DEF WorkerAgrees, Ticks
  <2>2. w.due > jobTime => Spaced(j, w.due)'
    BY <1>2, <1>3, <1>8, <2>1
  <2>3. w.tick # NoTick => Spaced(j, w.tick)'
    BY <1>2, <1>8, <2>1
  <2>4. LongEnough(j, w.period)' /\ jobs'[j] # NoRow /\ jobTime' = jobTime
    BY <1>1, <1>3 DEF LongEnough
  <2> QED BY <1>2, <1>3, <1>7, <2>1, <2>2, <2>3, <2>4 DEF WorkerAgrees
<1>10. /\ worker' \in [Jobs -> Workers] /\ worker'[j] = v
       /\ \A k \in Jobs \ {j} : worker'[k] = worker[k]
  BY <1>1, <1>6, <1>7 DEF Workers, SchedulerInv, SchedulerTypeOK
<1>11. SchedulerTypeOK'
  BY <1>1, <1>4, <1>10 DEF SchedulerInv, SchedulerTypeOK
<1>12. SessionsAgree'
  BY <1>1, <1>7, <1>10 DEF SchedulerInv, SessionsAgree
<1>13. ASSUME NEW k \in Jobs PROVE RowAgrees(k)'
  <2>1. CASE k # j
    BY <1>1, <1>4, <2>1, JobFacts DEF RowAgrees, LongEnough, LastRun
  <2>2. CASE k = j
    <3>1. RowAgrees(j)
      BY JobFacts
    <3> QED BY <1>1, <1>3, <1>5, <2>2, <3>1 DEF RowAgrees, LongEnough
  <2> QED BY <2>1, <2>2
<1>14. ASSUME NEW k \in Jobs PROVE WorkerAgrees(k, worker[k])'
  <2>1. CASE k # j
    BY <1>1, <1>4, <1>10, <2>1, JobFacts DEF WorkerAgrees, LongEnough, Spaced, LastRun
  <2>2. CASE k = j
    BY <1>9, <1>10, <2>2
  <2> QED BY <2>1, <2>2
<1>15. TicksAreSpaced'
  <2> SUFFICES ASSUME NEW k \in Jobs, NEW i \in 1..(Len(runTicks'[k]) - 1)
               PROVE  runTicks'[k][i + 1] + 2 * (Second - 1) >= runTicks'[k][i] + shortest'[k]
    BY DEF TicksAreSpaced
  <2>1. CASE k # j
    BY <1>1, <1>4, <2>1 DEF SchedulerInv, TicksAreSpaced
  <2>2. CASE k = j /\ i < Len(runTicks[j])
    <3>0. /\ Len(runTicks[j]) \in Nat /\ i \in 1..(Len(runTicks[j]) - 1)
          /\ {i, i + 1} \subseteq 1..Len(runTicks[j])
      BY <1>3, <2>2
    <3>1. runTicks'[j][i] = runTicks[j][i] /\ runTicks'[j][i + 1] = runTicks[j][i + 1]
      BY <1>2, <1>3, <1>4, <3>0, AppendFacts
    <3> QED BY <1>1, <2>2, <3>0, <3>1 DEF SchedulerInv, TicksAreSpaced
  <2>3. CASE k = j /\ i >= Len(runTicks[j])
    <3>1. i = Len(runTicks[j]) /\ runTicks[j] # <<>>
      BY <1>2, <1>3, <1>4, <2>3, AppendFacts
    <3>2. runTicks'[j][i] = LastRun(j) /\ runTicks'[j][i + 1] = w.at
      BY <1>2, <1>3, <1>4, <3>1, AppendFacts DEF LastRun
    <3> QED BY <1>1, <1>3, <2>3, <3>1, <3>2 DEF Spaced
  <2>4. Len(runTicks[j]) \in Nat /\ i \in Nat
    BY <1>3
  <2> QED BY <2>1, <2>2, <2>3, <2>4
<1> QED BY <1>11, <1>12, <1>13, <1>14, <1>15 DEF SchedulerInv

\* JobReturns: the worker waits for its next tick, or ends.
LEMMA JobReturnsKeeps ==
  ASSUME SchedulerInv, NEW j \in Jobs, JobReturns(j)
  PROVE  SchedulerInv'
<1>1. PICK w \in Workers : w = worker[j]
  BY JobFacts
<1>2. /\ w.step = "running"
      /\ UNCHANGED <<jobs, scheduling, jobTime, runTicks, runTimes, shortest, phase, toStart>>
  BY <1>1 DEF JobReturns, WorkerGoes
<1>3. /\ w \in Running /\ w.kind \in {"once", "ticker"} /\ w.period \in Nat /\ w.due \in Nat
      /\ w.tick \in Ticks /\ w.at \in Nat /\ WorkerAgrees(j, w)
      /\ jobs[j] # NoRow /\ LongEnough(j, w.period)
  BY <1>1, <1>2, JobFacts, WorkerShape DEF WorkerAgrees
<1>4. /\ phase \in {"new", "starting", "started", "stopping", "stopped"}
      /\ phase' = phase /\ toStart' = toStart
  BY <1>2 DEF SchedulerInv, SchedulerTypeOK
<1>5. CASE worker' = [worker EXCEPT ![j] =
             NextSelect([kind |-> w.kind, step |-> "select", period |-> w.period,
                         due |-> w.due, tick |-> w.tick])]
  <2>1. PICK v : v = [kind |-> w.kind, step |-> "select", period |-> w.period,
                      due |-> w.due, tick |-> w.tick]
    OBVIOUS
  <2>2. /\ v \in Selecting /\ v.kind = w.kind /\ v.step = "select" /\ v.period = w.period
        /\ v.due = w.due /\ v.tick = w.tick
    BY <1>3, <2>1 DEF Selecting
  <2>3. WorkerAgrees(j, v)
    BY <1>3, <2>2 DEF WorkerAgrees
  <2>4. NextSelect(v) \in NoWorkers \cup Selecting /\ WorkerAgrees(j, NextSelect(v))
    BY <1>3, <2>2, <2>3, NextSelectAgrees
  <2>5. NextSelect(v) \in Workers /\ NextSelect(v).step # "read"
    BY <2>4 DEF Workers, NoWorkers, Selecting
  <2> QED BY <1>2, <1>4, <1>5, <2>1, <2>4, <2>5, WorkerStep
<1>6. CASE worker' = [worker EXCEPT ![j] = EndedWorker]
  <2>1. EndedWorker \in Workers /\ EndedWorker.step = "select" /\ WorkerAgrees(j, EndedWorker)
    BY DEF EndedWorker, Workers, NoWorkers, WorkerAgrees
  <2> QED BY <1>2, <1>4, <1>6, <2>1, WorkerStep
<1> QED BY <1>1, <1>5, <1>6 DEF JobReturns, WorkerGoes

-----------------------------------------------------------------------------
\* FirstExecution: the timer of a job starts from its row.
LEMMA FirstExecutionAgrees ==
  ASSUME SchedulerInv, NEW j \in Jobs, jobs[j] # NoRow
  PROVE  /\ FirstExecution(jobs[j]) \in Selecting
         /\ WorkerAgrees(j, FirstExecution(jobs[j]))
<1>0. Second \in Nat /\ Second > 0
  BY SchedulerAssumption
<1>1. /\ jobs[j].lastExecutedAt \in Nat /\ jobs[j].period \in Nat /\ LongEnough(j, jobs[j].period)
      /\ jobTime \in Nat /\ shortest[j] \in Nat
      /\ runTicks[j] # <<>> => /\ jobs[j].lastExecutedAt + (Second - 1) >= LastRun(j)
                           /\ LastRun(j) <= jobTime /\ LastRun(j) \in Nat
  BY JobFacts DEF RowAgrees
<1>2. PICK next \in Nat : next = jobs[j].lastExecutedAt + jobs[j].period
  BY <1>1
<1>3. PICK w : w = FirstExecution(jobs[j])
  OBVIOUS
<1>4. w = [kind |-> "once", step |-> "select", period |-> jobs[j].period, due |-> next,
           tick |-> IF next <= jobTime THEN jobTime ELSE NoTick]
  BY <1>2, <1>3 DEF FirstExecution
<1>5. /\ w.kind = "once" /\ w.step = "select" /\ w.period = jobs[j].period /\ w.due = next
      /\ w.tick = IF next <= jobTime THEN jobTime ELSE NoTick
  BY <1>4
<1>6. w \in Selecting
  BY <1>1, <1>4 DEF Selecting, Ticks
<1>7. ASSUME NEW t \in Nat, t >= next, t >= jobTime PROVE Spaced(j, t)
  <2>1. SUFFICES ASSUME runTicks[j] # <<>>
                 PROVE  t >= LastRun(j) /\ t + 2 * (Second - 1) >= LastRun(j) + shortest[j]
    BY DEF Spaced
  <2>2. PICK l \in Nat, p \in Nat, r \in Nat, s \in Nat :
          l = jobs[j].lastExecutedAt /\ p = jobs[j].period /\ r = LastRun(j) /\ s = shortest[j]
    BY <1>1, <2>1
  <2>3. l + (Second - 1) >= r /\ p + (Second - 1) >= s /\ r <= jobTime /\ next = l + p
    BY <1>1, <1>2, <2>1, <2>2 DEF LongEnough
  <2>4. t >= next /\ t >= jobTime /\ jobTime \in Nat
    BY <1>1, <1>7
  <2>5. t >= r /\ t + 2 * (Second - 1) >= r + s
    BY <1>0, <2>3, <2>4
  <2> QED BY <2>2, <2>5
<1>8. /\ w.due > jobTime => Spaced(j, w.due)
      /\ w.tick # NoTick => w.tick = jobTime /\ Spaced(j, w.tick)
  BY <1>1, <1>5, <1>7
<1>9. WorkerAgrees(j, w)
  BY <1>1, <1>5, <1>8 DEF WorkerAgrees
<1> QED BY <1>3, <1>6, <1>9

\* StartJob: a job is started from the row that Start has read, or Start ends.
LEMMA StartJobKeeps ==
  ASSUME SchedulerInv, NEW j \in Jobs, StartJob(j)
  PROVE  SchedulerInv'
<1>1. /\ UNCHANGED <<jobs, scheduling, jobTime, runTicks, runTimes, shortest>> /\ phase = "starting"
      /\ j \in DOMAIN toStart
  BY DEF StartJob
<1>2. toStart[j] = jobs[j] /\ jobs[j] # NoRow
  BY <1>1 DEF SchedulerInv, SessionsAgree
<1>3. CASE /\ worker' = [worker EXCEPT ![j] = FirstExecution(toStart[j])]
           /\ toStart' = [x \in DOMAIN toStart \ {j} |-> toStart[x]] /\ phase' = phase
  <2>1. PICK w : w = FirstExecution(jobs[j])
    OBVIOUS
  <2>2. w \in Workers /\ w.step = "select" /\ WorkerAgrees(j, w)
    BY <1>2, <2>1, FirstExecutionAgrees DEF Workers, Selecting
  <2>3. worker' = [worker EXCEPT ![j] = w]
    BY <1>2, <1>3, <2>1
  <2>4. /\ DOMAIN toStart' \subseteq DOMAIN toStart
        /\ \A x \in DOMAIN toStart' : toStart'[x] = toStart[x]
    BY <1>3
  <2> QED BY <1>1, <1>3, <2>2, <2>3, <2>4, WorkerStep
<1>4. CASE phase' = "started" /\ worker' = worker
  <2>1. /\ worker' = [worker EXCEPT ![j] = worker[j]] /\ worker[j] \in Workers
        /\ WorkerAgrees(j, worker[j])
        /\ worker[j].step = "read" => worker[j].row = jobs[j]
    BY <1>4, JobFacts DEF SchedulerInv, SchedulerTypeOK, SessionsAgree
  <2> QED BY <1>1, <1>4, <2>1, WorkerStep
<1> QED BY <1>3, <1>4 DEF StartJob

\* Steps that leave rows, runs and workers alone.
LEMMA TableKept ==
  ASSUME SchedulerInv, UNCHANGED <<jobs, worker, jobTime, runTicks, runTimes, shortest>>,
         scheduling' \in [ScheduleCalls -> Schedulings],
         phase' \in {"new", "starting", "started", "stopping", "stopped"},
         SessionsAgree'
  PROVE  SchedulerInv'
<1>1. SchedulerTypeOK' /\ TicksAreSpaced'
  BY DEF SchedulerInv, SchedulerTypeOK, TicksAreSpaced
<1>2. ASSUME NEW k \in Jobs PROVE (RowAgrees(k) /\ WorkerAgrees(k, worker[k]))'
  <2>1. RowAgrees(k) /\ WorkerAgrees(k, worker[k])
    BY JobFacts
  <2>2. RowAgrees(k)'
    BY <2>1 DEF RowAgrees, LongEnough, LastRun
  <2>3. WorkerAgrees(k, worker[k])'
    BY <2>1 DEF WorkerAgrees, LongEnough, Spaced, LastRun
  <2> QED BY <2>2, <2>3
<1> QED BY <1>1, <1>2 DEF SchedulerInv

\* Schedule reads the row, and a call of it may fail.
LEMMA ScheduleKeeps ==
  ASSUME SchedulerInv, NEW c \in ScheduleCalls,
         (\E j \in Jobs : \E p \in JobPeriods[j] : Schedule(c, j, p)) \/ ScheduleFails(c)
  PROVE  SchedulerInv'
<1>1. UNCHANGED <<jobs, worker, jobTime, runTicks, runTimes, shortest, phase, toStart>>
  BY DEF Schedule, ScheduleFails
<1>2. /\ phase \in {"new", "starting", "started", "stopping", "stopped"} /\ phase' = phase
      /\ scheduling \in [ScheduleCalls -> Schedulings] /\ toStart' = toStart
      /\ jobs \in [Jobs -> JobRows \cup {NoRow}]
  BY <1>1 DEF SchedulerInv, SchedulerTypeOK
<1>3. PICK call \in Schedulings : /\ scheduling' = [scheduling EXCEPT ![c] = call]
                                  /\ call.stage = "read" => call.row = jobs[call.job]
  <2>1. CASE \E j \in Jobs : \E p \in JobPeriods[j] : Schedule(c, j, p)
    <3>1. PICK j \in Jobs : \E p \in JobPeriods[j] : Schedule(c, j, p)
      BY <2>1
    <3>2. PICK p \in JobPeriods[j] : Schedule(c, j, p)
      BY <3>1
    <3>3. p \in Nat
      BY SchedulerAssumption
    <3>4. PICK call : call = [stage |-> "read", job |-> j, period |-> p, row |-> jobs[j]]
      OBVIOUS
    <3>5. call \in Schedulings /\ call.row = jobs[call.job]
      BY <1>2, <3>3, <3>4 DEF Schedulings
    <3> QED BY <3>2, <3>4, <3>5 DEF Schedule
  <2>2. CASE ScheduleFails(c)
    <3>1. scheduling[c].stage = "read" /\ scheduling' = [scheduling EXCEPT ![c].stage = "done"]
      BY <2>2 DEF ScheduleFails
    <3>2. PICK call : call = [scheduling[c] EXCEPT !.stage = "done"]
      OBVIOUS
    <3>3. scheduling[c] \in [stage : {"read", "done"}, job : Jobs, period : Nat,
                             row : JobRows \cup {NoRow}]
      BY <1>2, <3>1 DEF Schedulings
    <3>4. call \in Schedulings /\ call.stage = "done"
      BY <3>2, <3>3 DEF Schedulings
    <3> QED BY <1>2, <3>1, <3>2, <3>4
  <2> QED BY <2>1, <2>2
<1>4. /\ scheduling' \in [ScheduleCalls -> Schedulings] /\ scheduling'[c] = call
      /\ \A d \in ScheduleCalls \ {c} : scheduling'[d] = scheduling[d]
  BY <1>2, <1>3
<1>5. SessionsAgree'
  BY <1>1, <1>3, <1>4 DEF SchedulerInv, SessionsAgree
<1> QED BY <1>1, <1>2, <1>4, <1>5, TableKept

\* UpsertJob: the row gets the new period and keeps its last execution.
LEMMA UpsertJobKeeps ==
  ASSUME SchedulerInv, NEW c \in ScheduleCalls, UpsertJob(c)
  PROVE  SchedulerInv'
<1>0. Second \in Nat /\ Second > 0
  BY SchedulerAssumption
<1>1. PICK call : call = scheduling[c]
  OBVIOUS
<1>2. /\ call.stage = "read" /\ JobReaders = {c}
      /\ jobs' = [jobs EXCEPT ![call.job] = jobFromModel(LastExecuted(call.row), call.period)]
      /\ shortest' = [shortest EXCEPT ![call.job] = IF call.period < @ THEN call.period ELSE @]
      /\ scheduling' = [scheduling EXCEPT ![c].stage = "done"]
      /\ UNCHANGED <<phase, toStart, worker, jobTime, runTicks, runTimes>>
  BY <1>1 DEF UpsertJob
<1>3. call \in [stage : {"read", "done"}, job : Jobs, period : Nat, row : JobRows \cup {NoRow}]
  <2>1. call \in Schedulings
    BY <1>1 DEF SchedulerInv, SchedulerTypeOK
  <2> QED BY <1>2, <2>1 DEF Schedulings
<1>4. PICK j \in Jobs : j = call.job
  BY <1>3
<1>5. PICK p \in Nat : p = call.period
  BY <1>3
<1>6. call.row = jobs[j]
  BY <1>1, <1>2, <1>4 DEF SchedulerInv, SessionsAgree
<1>7. PICK last \in Nat :
        /\ last = LastExecuted(jobs[j])
        /\ jobs[j] # NoRow => last = jobs[j].lastExecutedAt
        /\ WholeSeconds(last) = last
  <2>1. CASE jobs[j] # NoRow
    BY <2>1, JobFacts DEF LastExecuted, RowAgrees
  <2>2. CASE jobs[j] = NoRow
    <3>1. WholeSeconds(0) = 0
      <4>1. WholeSeconds(0) \in Nat /\ WholeSeconds(0) <= 0
        BY WholeSecondsLoss
      <4> QED BY <4>1
    <3> QED BY <2>2, <3>1 DEF LastExecuted, ZeroTime
  <2> QED BY <2>1, <2>2
<1>8. PICK row : row = jobFromModel(last, p)
  OBVIOUS
<1>9. /\ row \in JobRows /\ row # NoRow /\ row.lastExecutedAt = last /\ row.period = WholeSeconds(p)
      /\ WholeSeconds(p) \in Nat /\ p <= WholeSeconds(p) + (Second - 1)
      /\ WholeSeconds(WholeSeconds(p)) = WholeSeconds(p)
  BY <1>7, <1>8, jobFromModelRow, WholeSecondsLoss
<1>10. jobs' = [jobs EXCEPT ![j] = row]
  BY <1>2, <1>4, <1>5, <1>6, <1>7, <1>8
<1>11. /\ jobs' \in [Jobs -> JobRows \cup {NoRow}] /\ jobs'[j] = row
       /\ \A k \in Jobs \ {j} : jobs'[k] = jobs[k]
  BY <1>9, <1>10 DEF SchedulerInv, SchedulerTypeOK
<1>12. /\ shortest' \in [Jobs -> Nat] /\ shortest'[j] <= p
       /\ \A k \in Jobs : shortest'[k] <= shortest[k]
       /\ shortest \in [Jobs -> Nat]
  <2>1. shortest \in [Jobs -> Nat]
    BY DEF SchedulerInv, SchedulerTypeOK
  <2>2. shortest' = [shortest EXCEPT ![j] = IF p < shortest[j] THEN p ELSE shortest[j]]
    BY <1>2, <1>4, <1>5
  <2> QED BY <2>1, <2>2
<1>13. scheduling' \in [ScheduleCalls -> Schedulings]
  <2>1. PICK done : done = [call EXCEPT !.stage = "done"]
    OBVIOUS
  <2>2. done \in Schedulings
    BY <1>3, <2>1 DEF Schedulings
  <2>3. scheduling \in [ScheduleCalls -> Schedulings]
    BY DEF SchedulerInv, SchedulerTypeOK
  <2>4. scheduling' = [scheduling EXCEPT ![c] = done]
    BY <1>1, <1>2, <2>1, <2>3
  <2> QED BY <2>2, <2>3, <2>4
<1>14. SchedulerTypeOK'
  BY <1>2, <1>11, <1>12, <1>13 DEF SchedulerInv, SchedulerTypeOK
<1>15. SessionsAgree'
  <2>1. /\ \A k \in Jobs : worker[k].step # "read"
        /\ \A d \in ScheduleCalls \ {c} : scheduling[d].stage # "read"
        /\ phase # "starting"
    BY <1>2, SoleReader
  <2>2. scheduling'[c].stage = "done"
    <3>1. scheduling \in [ScheduleCalls -> Schedulings]
      BY DEF SchedulerInv, SchedulerTypeOK
    <3>2. scheduling'[c] = [call EXCEPT !.stage = "done"]
      BY <1>1, <1>2, <3>1
    <3> QED BY <1>3, <3>2
  <2>3. \A d \in ScheduleCalls \ {c} : scheduling'[d] = scheduling[d]
    BY <1>2 DEF SchedulerInv, SchedulerTypeOK
  <2> QED BY <1>2, <2>1, <2>2, <2>3 DEF SessionsAgree
<1>16. ASSUME NEW k \in Jobs
       PROVE  /\ \A q \in Nat : LongEnough(k, q) => LongEnough(k, q)'
              /\ \A t \in Nat : Spaced(k, t) => Spaced(k, t)'
  <2>1. /\ shortest'[k] \in Nat /\ shortest[k] \in Nat /\ shortest'[k] <= shortest[k]
        /\ runTicks' = runTicks /\ (runTicks[k] # <<>> => LastRun(k) \in Nat)
    BY <1>2, <1>12, JobFacts
  <2>2. \A q \in Nat : LongEnough(k, q) => LongEnough(k, q)'
    BY <1>0, <2>1 DEF LongEnough
  <2>3. LastRun(k)' = LastRun(k)
    BY <2>1 DEF LastRun
  <2>4. \A t \in Nat : Spaced(k, t) => Spaced(k, t)'
    BY <1>0, <2>1, <2>3 DEF Spaced
  <2> QED BY <2>2, <2>4
<1>17. ASSUME NEW k \in Jobs PROVE RowAgrees(k)'
  <2>0. RowAgrees(k) /\ LastRun(k)' = LastRun(k) /\ runTicks' = runTicks /\ jobTime' = jobTime
    BY <1>2, JobFacts DEF LastRun
  <2>1. CASE k # j
    <3>1. jobs'[k] = jobs[k] /\ (jobs[k] # NoRow => jobs[k].period \in Nat)
      BY <1>11, <2>1, JobFacts
    <3> QED BY <1>16, <2>0, <3>1 DEF RowAgrees
  <2>2. CASE k = j
    <3>1. LongEnough(j, row.period)'
      <4>1. WholeSeconds(p) + (Second - 1) >= shortest'[j]
        BY <1>0, <1>9, <1>12
      <4> QED BY <1>9, <4>1 DEF LongEnough
    <3>2. runTicks[j] # <<>> => jobs[j] # NoRow /\ last + (Second - 1) >= LastRun(j)
      BY <1>7, <2>0, <2>2 DEF RowAgrees
    <3>3. jobs'[j] = row /\ WholeSeconds(row.lastExecutedAt) = row.lastExecutedAt
          /\ WholeSeconds(row.period) = row.period
      BY <1>7, <1>9, <1>11
    <3> QED BY <1>9, <2>0, <2>2, <3>1, <3>2, <3>3 DEF RowAgrees
  <2> QED BY <2>1, <2>2
<1>18. ASSUME NEW k \in Jobs PROVE WorkerAgrees(k, worker[k])'
  <2>0. PICK w \in Workers : w = worker[k]
    BY JobFacts
  <2>1. /\ WorkerAgrees(k, w) /\ worker'[k] = w /\ jobTime' = jobTime
        /\ jobs[k] # NoRow => /\ jobs'[k] # NoRow
                              /\ jobs'[k].lastExecutedAt = jobs[k].lastExecutedAt
    BY <1>2, <1>7, <1>9, <1>11, <2>0, JobFacts
  <2>2. /\ w.kind \in {"once", "ticker"} => w.period \in Nat /\ w.due \in Nat /\ w.tick \in Ticks
        /\ w.step # "select" => w.at \in Nat
    BY WorkerShape
  <2>3. WorkerAgrees(k, w)'
    BY <1>16, <2>1, <2>2 DEF WorkerAgrees, Ticks
  <2> QED BY <2>1, <2>3
<1>19. TicksAreSpaced'
  <2> SUFFICES ASSUME NEW k \in Jobs, NEW i \in 1..(Len(runTicks[k]) - 1)
               PROVE  runTicks[k][i + 1] + 2 * (Second - 1) >= runTicks[k][i] + shortest'[k]
    BY <1>2 DEF TicksAreSpaced
  <2>1. runTicks[k] \in Seq(Nat) /\ i \in 1..Len(runTicks[k]) /\ i + 1 \in 1..Len(runTicks[k])
    BY JobFacts
  <2>2. runTicks[k][i] \in Nat /\ runTicks[k][i + 1] \in Nat
    BY <2>1
  <2>3. runTicks[k][i + 1] + 2 * (Second - 1) >= runTicks[k][i] + shortest[k]
    BY DEF SchedulerInv, TicksAreSpaced
  <2>4. shortest'[k] <= shortest[k] /\ shortest'[k] \in Nat /\ shortest[k] \in Nat
    BY <1>12
  <2> QED BY <1>0, <2>2, <2>3, <2>4
<1> QED BY <1>14, <1>15, <1>17, <1>18, <1>19 DEF SchedulerInv

-----------------------------------------------------------------------------
\* GetAllJobs: Start has read what the table holds.
LEMMA GetAllJobsKeeps ==
  ASSUME SchedulerInv, GetAllJobs
  PROVE  SchedulerInv'
<1>1. /\ UNCHANGED <<jobs, scheduling, worker, jobTime, runTicks, runTimes, shortest>> /\ phase' = "starting"
      /\ toStart' = [j \in {x \in Jobs : jobs[x] # NoRow} |-> jobs[j]]
  BY DEF GetAllJobs
<1>2. \A j \in DOMAIN toStart' : j \in Jobs /\ toStart'[j] = jobs[j] /\ jobs[j] # NoRow
  BY <1>1
<1>3. SessionsAgree'
  BY <1>1, <1>2 DEF SchedulerInv, SessionsAgree
<1>4. scheduling' \in [ScheduleCalls -> Schedulings]
  BY <1>1 DEF SchedulerInv, SchedulerTypeOK
<1> QED BY <1>1, <1>3, <1>4, TableKept

\* RegisterJobHandler, the end of Start and the beginning of Stop.
LEMMA PhaseStepKeeps ==
  ASSUME SchedulerInv, (\E j \in Jobs : RegisterJobHandler(j)) \/ StartEnds \/ stopTimers
  PROVE  SchedulerInv'
<1>1. /\ UNCHANGED <<jobs, scheduling, toStart, worker, jobTime, runTicks, runTimes, shortest>>
      /\ phase' \in {phase, "started", "stopping"}
  BY DEF RegisterJobHandler, StartEnds, stopTimers
<1>2. /\ phase' \in {"new", "starting", "started", "stopping", "stopped"}
      /\ scheduling' \in [ScheduleCalls -> Schedulings]
  BY <1>1 DEF SchedulerInv, SchedulerTypeOK
<1>3. SessionsAgree'
  BY <1>1 DEF SchedulerInv, SessionsAgree
<1> QED BY <1>1, <1>2, <1>3, TableKept

\* Steps after which no worker is left.
LEMMA WorkersGone ==
  ASSUME SchedulerInv, UNCHANGED <<jobs, jobTime, runTicks, runTimes, shortest>>,
         worker' = [j \in Jobs |-> NoWorker], phase' \in {"new", "stopped"},
         scheduling' \in [ScheduleCalls -> Schedulings],
         \A c \in ScheduleCalls :
           scheduling'[c].stage = "read" => scheduling'[c] = scheduling[c]
  PROVE  SchedulerInv'
<1>1. NoWorker \in Workers /\ NoWorker.kind = "none" /\ NoWorker.step = "select"
  BY DEF NoWorker, Workers, NoWorkers
<1>2. worker' \in [Jobs -> Workers] /\ \A j \in Jobs : worker'[j] = NoWorker
  BY <1>1
<1>3. SchedulerTypeOK' /\ TicksAreSpaced'
  BY <1>2 DEF SchedulerInv, SchedulerTypeOK, TicksAreSpaced
<1>4. SessionsAgree'
  BY <1>1, <1>2 DEF SchedulerInv, SessionsAgree
<1>5. ASSUME NEW k \in Jobs PROVE (RowAgrees(k) /\ WorkerAgrees(k, worker[k]))'
  <2>1. RowAgrees(k)
    BY JobFacts
  <2>2. RowAgrees(k)'
    BY <2>1 DEF RowAgrees, LongEnough, LastRun
  <2>3. WorkerAgrees(k, worker[k])'
    BY <1>1, <1>2 DEF WorkerAgrees
  <2> QED BY <2>2, <2>3
<1> QED BY <1>3, <1>4, <1>5 DEF SchedulerInv

\* StopEnds: all workers have ended.
LEMMA StopEndsKeeps ==
  ASSUME SchedulerInv, StopEnds
  PROVE  SchedulerInv'
<1>1. /\ UNCHANGED <<jobs, scheduling, jobTime, runTicks, runTimes, shortest>> /\ phase' = "stopped"
      /\ worker' = [j \in Jobs |-> NoWorker]
  BY DEF StopEnds
<1>2. scheduling' \in [ScheduleCalls -> Schedulings]
  BY <1>1 DEF SchedulerInv, SchedulerTypeOK
<1> QED BY <1>1, <1>2, WorkersGone

\* KillScheduler: sessions that have not committed leave no trace.
LEMMA KillSchedulerKeeps ==
  ASSUME SchedulerInv, KillScheduler
  PROVE  SchedulerInv'
<1>1. /\ UNCHANGED <<jobs, jobTime, runTicks, runTimes, shortest>> /\ phase' = "new"
      /\ worker' = [j \in Jobs |-> NoWorker]
      /\ scheduling' = [c \in ScheduleCalls |->
           IF scheduling[c].stage = "read" THEN [scheduling[c] EXCEPT !.stage = "done"]
                                           ELSE scheduling[c]]
  BY DEF KillScheduler
<1>2. ASSUME NEW c \in ScheduleCalls
      PROVE  /\ scheduling'[c] \in Schedulings
             /\ scheduling'[c].stage = "read" => scheduling'[c] = scheduling[c]
  <2>1. PICK call \in Schedulings : call = scheduling[c]
    BY DEF SchedulerInv, SchedulerTypeOK
  <2>2. CASE call.stage = "read"
    <3>1. call \in [stage : {"read", "done"}, job : Jobs, period : Nat, row : JobRows \cup {NoRow}]
      BY <2>2 DEF Schedulings
    <3>2. scheduling'[c] = [call EXCEPT !.stage = "done"]
      BY <1>1, <2>1, <2>2
    <3> QED BY <3>1, <3>2 DEF Schedulings
  <2>3. CASE call.stage # "read"
    BY <1>1, <2>1, <2>3
  <2> QED BY <2>2, <2>3
<1>3. scheduling' \in [ScheduleCalls -> Schedulings]
  BY <1>1, <1>2
<1> QED BY <1>1, <1>2, <1>3, WorkersGone

\* PassTime: a timer that fires gives the time it was due at, and a ticker is
\* next due a period later.
LEMMA PassTimeKeeps ==
  ASSUME SchedulerInv, PassTime
  PROVE  SchedulerInv'
<1>0. Second \in Nat /\ Second > 0 /\ NoTick \notin Nat
  BY SchedulerAssumption
<1>1. /\ UNCHANGED <<jobs, scheduling, phase, toStart, runTicks, runTimes, shortest>>
      /\ jobTime' = jobTime + 1 /\ jobTime \in Nat
  BY DEF PassTime, SchedulerInv, SchedulerTypeOK
<1>2. ASSUME NEW k \in Jobs
      PROVE  /\ worker'[k] \in Workers /\ WorkerAgrees(k, worker[k])'
             /\ worker'[k].step = worker[k].step
             /\ worker[k].step = "read" => worker'[k].row = worker[k].row
  <2>1. PICK w \in Workers : w = worker[k]
    BY JobFacts
  <2>2. PICK v : v = worker'[k]
    OBVIOUS
  <2>3. /\ WorkerAgrees(k, w)
        /\ \A q : LongEnough(k, q)' <=> LongEnough(k, q)
        /\ \A t : Spaced(k, t)' <=> Spaced(k, t)
    BY <1>1, <2>1, JobFacts DEF LongEnough, Spaced, LastRun
  <2>4. CASE w.kind \notin {"once", "ticker"}
    <3>1. v = w
      BY <2>1, <2>2, <2>4 DEF PassTime
    <3> QED BY <2>1, <2>2, <2>4, <3>1 DEF WorkerAgrees
  <2>5. CASE w.kind \in {"once", "ticker"} /\ w.due # jobTime'
    <3>1. v = w
      BY <2>1, <2>2, <2>5 DEF PassTime
    <3>2. /\ w.due \in Nat /\ w.tick \in Ticks /\ (w.step # "select" => w.at \in Nat)
      BY <2>5, WorkerShape
    <3>3. /\ jobs[k] # NoRow /\ LongEnough(k, w.period)
          /\ w.due > jobTime => Spaced(k, w.due)
          /\ w.tick # NoTick => w.tick <= jobTime /\ Spaced(k, w.tick)
      BY <2>3, <2>5 DEF WorkerAgrees
    <3>4. /\ w.due > jobTime' => w.due > jobTime
          /\ w.tick # NoTick /\ w.tick <= jobTime => w.tick <= jobTime'
          /\ w.step # "select" /\ w.at <= jobTime => w.at <= jobTime'
          /\ w.due <= jobTime => w.due <= jobTime'
      BY <1>1, <3>2 DEF Ticks
    <3>5. WorkerAgrees(k, w)'
      BY <1>1, <2>3, <2>5, <3>3, <3>4 DEF WorkerAgrees
    <3> QED BY <2>1, <2>2, <3>1, <3>5
  <2>6. CASE w.kind \in {"once", "ticker"} /\ w.due = jobTime'
    <3>1. v = [w EXCEPT !.tick = IF @ = NoTick THEN jobTime' ELSE @,
                        !.due = IF w.kind = "ticker" THEN @ + w.period ELSE @]
      BY <2>1, <2>2, <2>6 DEF PassTime
    <3>2. /\ w \in Selecting \cup Reading \cup Running
          /\ w.period \in Nat /\ w.due \in Nat /\ w.tick \in Ticks
          /\ w.step # "select" => w.at \in Nat
      BY <2>6, WorkerShape
    <3>3. PICK tick \in Nat : tick = IF w.tick = NoTick THEN jobTime' ELSE w.tick
      BY <1>1, <3>2 DEF Ticks
    <3>4. PICK due \in Nat : due = IF w.kind = "ticker" THEN w.due + w.period ELSE w.due
      BY <3>2
    <3>5. v = [w EXCEPT !.tick = tick, !.due = due]
      <4>1. CASE w \in Selecting
        BY <3>1, <3>3, <3>4, <4>1 DEF Selecting
      <4>2. CASE w \in Reading
        BY <3>1, <3>3, <3>4, <4>2 DEF Reading
      <4>3. CASE w \in Running
        BY <3>1, <3>3, <3>4, <4>3 DEF Running
      <4> QED BY <3>2, <4>1, <4>2, <4>3
    <3>6. /\ v \in Workers /\ v.kind = w.kind /\ v.step = w.step /\ v.period = w.period
          /\ v.tick = tick /\ v.due = due
          /\ w.step # "select" => v.at = w.at
          /\ w.step = "read" => v.row = w.row
      <4>1. CASE w \in Selecting
        BY <3>5, <4>1 DEF Selecting, Workers, Ticks
      <4>2. CASE w \in Reading
        BY <3>5, <4>2 DEF Reading, Workers, Ticks
      <4>3. CASE w \in Running
        BY <3>5, <4>3 DEF Running, Workers, Ticks
      <4> QED BY <3>2, <4>1, <4>2, <4>3
    <3>7. /\ jobs[k] # NoRow /\ LongEnough(k, w.period) /\ Spaced(k, w.due)
          /\ w.tick # NoTick => w.tick <= jobTime /\ Spaced(k, w.tick)
          /\ w.kind = "ticker" /\ w.tick # NoTick => w.due >= w.tick + w.period
      BY <1>1, <2>3, <2>6 DEF WorkerAgrees
    <3>8. tick <= jobTime' /\ Spaced(k, tick)
      BY <1>1, <2>6, <3>3, <3>7
    <3>9. due > jobTime' => Spaced(k, due)
      <4>1. \A t \in Nat : t >= w.due => Spaced(k, t)
        BY <1>0, <3>2, <3>7, JobFacts DEF Spaced
      <4>2. due >= w.due
        BY <3>2, <3>4
      <4> QED BY <4>1, <4>2
    <3>10. w.kind = "ticker" => due >= tick + w.period
      BY <2>6, <3>2, <3>3, <3>4, <3>7
    <3>11. w.step # "select" =>
             /\ w.at <= jobTime' /\ (w.step # "running" => Spaced(k, w.at))
             /\ w.kind = "ticker" => due >= w.at + w.period /\ tick >= w.at + w.period
      <4> SUFFICES ASSUME w.step # "select"
                   PROVE  /\ w.at <= jobTime' /\ (w.step # "running" => Spaced(k, w.at))
                          /\ w.kind = "ticker" => due >= w.at + w.period /\ tick >= w.at + w.period
        OBVIOUS
      <4>1. /\ w.at <= jobTime /\ (w.step # "running" => Spaced(k, w.at))
            /\ w.kind = "ticker" =>
                 /\ w.due >= w.at + w.period
                 /\ w.tick # NoTick => w.tick >= w.at + w.period
        BY <2>3, <2>6 DEF WorkerAgrees
      <4> QED BY <1>1, <2>6, <3>2, <3>3, <3>4, <4>1
    <3>12. w.step = "run" => jobs[k].lastExecutedAt + (Second - 1) >= w.at
      BY <2>3, <2>6 DEF WorkerAgrees
    <3>13. w.kind = "once" => w.step = "select" /\ due <= jobTime'
      BY <1>1, <2>3, <2>6, <3>2, <3>4 DEF WorkerAgrees
    <3>14. WorkerAgrees(k, v)'
      BY <1>1, <2>3, <3>6, <3>7, <3>8, <3>9, <3>10, <3>11, <3>12, <3>13 DEF WorkerAgrees
    <3> QED BY <2>1, <2>2, <3>6, <3>14
  <2> QED BY <2>4, <2>5, <2>6
<1>3. worker' \in [Jobs -> Workers]
  <2>1. worker' = [j \in Jobs |-> worker'[j]]
    BY DEF PassTime
  <2> QED BY <1>2, <2>1
<1>4. SchedulerTypeOK' /\ TicksAreSpaced'
  BY <1>1, <1>3 DEF SchedulerInv, SchedulerTypeOK, TicksAreSpaced
<1>5. SessionsAgree'
  BY <1>1, <1>2 DEF SchedulerInv, SessionsAgree
<1>6. ASSUME NEW k \in Jobs PROVE RowAgrees(k)'
  <2>1. RowAgrees(k) /\ (runTicks[k] # <<>> => LastRun(k) \in Nat)
    BY JobFacts
  <2>2. LastRun(k)' = LastRun(k)
    BY <1>1 DEF LastRun
  <2>3. runTicks[k] # <<>> /\ LastRun(k) <= jobTime => LastRun(k) <= jobTime'
    BY <1>1, <2>1
  <2> QED BY <1>1, <2>1, <2>2, <2>3 DEF RowAgrees, LongEnough
<1> QED BY <1>2, <1>4, <1>5, <1>6 DEF SchedulerInv

-----------------------------------------------------------------------------
\* SchedulerInv holds in every state: rows, sessions and workers agree.
THEOREM SchedulerInvariance == SchedulerSpec => []SchedulerInv
<1>1. SchedulerInit => SchedulerInv
  BY SchedulerInitInv
<1>2. SchedulerInv /\ [SchedulerNext]_schedulerVars => SchedulerInv'
  <2> SUFFICES ASSUME SchedulerInv, [SchedulerNext]_schedulerVars PROVE SchedulerInv'
    OBVIOUS
  <2>1. CASE UNCHANGED schedulerVars
    <3>1. UNCHANGED <<jobs, scheduling, phase, toStart, worker, jobTime, runTicks, runTimes, shortest>>
      BY <2>1 DEF schedulerVars
    <3>2. SessionsAgree'
      BY <3>1 DEF SchedulerInv, SessionsAgree
    <3>3. /\ phase' \in {"new", "starting", "started", "stopping", "stopped"}
          /\ scheduling' \in [ScheduleCalls -> Schedulings]
      BY <3>1 DEF SchedulerInv, SchedulerTypeOK
    <3> QED BY <3>1, <3>2, <3>3, TableKept
  <2>2. ASSUME NEW c \in ScheduleCalls,
               \/ \E j \in Jobs : \E p \in JobPeriods[j] : Schedule(c, j, p)
               \/ UpsertJob(c) \/ ScheduleFails(c)
        PROVE  SchedulerInv'
    BY <2>2, ScheduleKeeps, UpsertJobKeeps
  <2>3. ASSUME NEW j \in Jobs, RegisterJobHandler(j) \/ StartJob(j) PROVE SchedulerInv'
    BY <2>3, PhaseStepKeeps, StartJobKeeps
  <2>4. ASSUME NEW j \in Jobs,
               \/ TakeTick(j) \/ TimersDone(j) \/ updateJobExecutionTime(j)
               \/ RunJob(j) \/ JobReturns(j)
        PROVE  SchedulerInv'
    BY <2>4, TakeTickKeeps, TimersDoneKeeps, updateJobExecutionTimeKeeps, RunJobKeeps,
       JobReturnsKeeps
  <2>5. CASE GetAllJobs \/ StartEnds \/ stopTimers \/ StopEnds \/ PassTime \/ KillScheduler
    BY <2>5, GetAllJobsKeeps, PhaseStepKeeps, StopEndsKeeps, PassTimeKeeps, KillSchedulerKeeps
  <2> QED BY <2>1, <2>2, <2>3, <2>4, <2>5 DEF SchedulerNext
<1> QED BY <1>1, <1>2, PTL DEF SchedulerSpec

\* The table, the sessions and the workers keep their types: a worker has the
\* fields its step needs, and a row is a row or NoRow.
THEOREM SchedulerTypeCorrect == SchedulerSpec => []SchedulerTypeOK
<1>1. SchedulerInv => SchedulerTypeOK
  BY DEF SchedulerInv
<1> QED BY <1>1, SchedulerInvariance, PTL

-----------------------------------------------------------------------------
(* When the runs begin.  The ticker holds one tick: one that waits while a *)
(* run goes on is from after the run before, and one that came while no    *)
(* run went on is from after all of them.                                  *)

\* The first m runs of a job began by t.
BegunBy(j, m, t) == \A i \in 1..m : runTimes[j][i] <= t

TicksWait(j, w) ==
  w.kind \in {"once", "ticker"} =>
    /\ w.tick # NoTick => BegunBy(j, Len(runTimes[j]) - 1, w.tick)
    /\ w.step \in {"read", "run"} =>
         /\ BegunBy(j, Len(runTimes[j]) - 1, w.at)
         /\ w.tick # NoTick => BegunBy(j, Len(runTimes[j]), w.tick)

RunTimesAgree(j) ==
  /\ Len(runTimes[j]) = Len(runTicks[j])
  /\ BegunBy(j, Len(runTimes[j]), jobTime)
  /\ \A i \in 1..Len(runTimes[j]) : runTicks[j][i] <= runTimes[j][i]
  /\ \A i \in 1..(Len(runTimes[j]) - 2) : runTimes[j][i] <= runTicks[j][i + 2]

RunsAgree == \A j \in Jobs : RunTimesAgree(j) /\ TicksWait(j, worker[j])

\* The facts about the runs of one job.
LEMMA RunFacts ==
  ASSUME SchedulerInv, RunsAgree, NEW j \in Jobs
  PROVE  /\ RunTimesAgree(j) /\ TicksWait(j, worker[j])
         /\ runTimes[j] \in Seq(Nat) /\ Len(runTimes[j]) \in Nat /\ jobTime \in Nat
         /\ \A i \in 1..Len(runTimes[j]) : runTimes[j][i] \in Nat
<1>1. runTimes[j] \in Seq(Nat) /\ jobTime \in Nat
  BY DEF SchedulerInv, SchedulerTypeOK
<1>2. Len(runTimes[j]) \in Nat /\ \A i \in 1..Len(runTimes[j]) : runTimes[j][i] \in Nat
  BY <1>1
<1> QED BY <1>1, <1>2 DEF RunsAgree

\* A step of one worker in which no run begins.
LEMMA NoRunBegins ==
  ASSUME SchedulerInv, RunsAgree, NEW j \in Jobs, NEW w, TicksWait(j, w),
         worker' = [worker EXCEPT ![j] = w], UNCHANGED <<jobTime, runTicks, runTimes>>
  PROVE  RunsAgree'
<1>1. worker'[j] = w /\ \A k \in Jobs \ {j} : worker'[k] = worker[k]
  BY DEF SchedulerInv, SchedulerTypeOK
<1>2. ASSUME NEW k \in Jobs PROVE RunTimesAgree(k) /\ TicksWait(k, worker'[k])
  BY <1>1 DEF RunsAgree
<1> QED BY <1>2 DEF RunsAgree, RunTimesAgree, TicksWait, BegunBy

\* A worker that waits again has the tick it had, or none.
LEMMA NextSelectWaits ==
  ASSUME NEW j, NEW w \in Selecting, TicksWait(j, w)
  PROVE  TicksWait(j, NextSelect(w))
<1>1. CASE w.kind = "ticker"
  <2>1. NextSelect(w) = w
    BY <1>1 DEF NextSelect, Selecting
  <2> QED BY <2>1
<1>2. CASE w.kind # "ticker" /\ w.period = 0
  <2>1. NextSelect(w).kind = "ended"
    BY <1>2 DEF NextSelect, EndedWorker
  <2> QED BY <2>1 DEF TicksWait
<1>3. CASE w.kind # "ticker" /\ w.period # 0
  <2>1. NextSelect(w).tick = NoTick /\ NextSelect(w).step = "select"
    BY <1>3 DEF NextSelect
  <2> QED BY <2>1 DEF TicksWait
<1> QED BY <1>1, <1>2, <1>3

\* TakeTick: the tick that is taken was the one that waited.
LEMMA TakeTickWaits ==
  ASSUME SchedulerInv, RunsAgree, NEW j \in Jobs, TakeTick(j)
  PROVE  RunsAgree'
<1>1. PICK w \in Workers : w = worker[j]
  BY JobFacts
<1>2. /\ w.kind \in {"once", "ticker"} /\ w.step = "select" /\ w.tick # NoTick
      /\ UNCHANGED <<jobTime, runTicks, runTimes>>
  BY <1>1 DEF TakeTick, WorkerGoes
<1>3. w \in Selecting /\ TicksWait(j, w)
  BY <1>1, <1>2, WorkerShape, RunFacts
<1>4. CASE worker' = [worker EXCEPT ![j] =
             [kind |-> w.kind, step |-> "read", period |-> w.period, due |-> w.due,
              tick |-> NoTick, at |-> w.tick, row |-> jobs[j]]]
  <2>1. PICK v : v = [kind |-> w.kind, step |-> "read", period |-> w.period, due |-> w.due,
                      tick |-> NoTick, at |-> w.tick, row |-> jobs[j]]
    OBVIOUS
  <2>2. TicksWait(j, v)
    BY <1>2, <1>3, <2>1 DEF TicksWait
  <2> QED BY <1>2, <1>4, <2>1, <2>2, NoRunBegins
<1>5. CASE worker' = [worker EXCEPT ![j] = NextSelect([w EXCEPT !.tick = NoTick])]
  <2>1. PICK v : v = [w EXCEPT !.tick = NoTick]
    OBVIOUS
  <2>2. v \in Selecting
    BY <1>3, <2>1 DEF Selecting, Ticks
  <2>3. TicksWait(j, v)
    BY <1>3, <2>1 DEF TicksWait, Selecting
  <2> QED BY <1>2, <1>5, <2>1, <2>2, <2>3, NextSelectWaits, NoRunBegins
<1> QED BY <1>1, <1>4, <1>5 DEF TakeTick, WorkerGoes

\* A worker that waits again after a session or a run, with the tick it had.
LEMMA WaitsAgain ==
  ASSUME SchedulerInv, RunsAgree, NEW j \in Jobs, NEW w \in Workers, w = worker[j],
         w.step # "select", UNCHANGED <<jobTime, runTicks, runTimes>>,
         worker' = [worker EXCEPT ![j] =
           NextSelect([kind |-> w.kind, step |-> "select", period |-> w.period,
                       due |-> w.due, tick |-> w.tick])]
  PROVE  RunsAgree'
<1>1. PICK v : v = [kind |-> w.kind, step |-> "select", period |-> w.period,
                    due |-> w.due, tick |-> w.tick]
  OBVIOUS
<1>2. v \in Selecting
  BY <1>1, WorkerShape DEF Selecting
<1>3. TicksWait(j, v)
  BY <1>1, WorkerShape, RunFacts DEF TicksWait
<1> QED BY <1>1, <1>2, <1>3, NextSelectWaits, NoRunBegins

\* updateJobExecutionTime, JobReturns and TimersDone: no run begins.
LEMMA WorkerStepsWait ==
  ASSUME SchedulerInv, RunsAgree, NEW j \in Jobs,
         updateJobExecutionTime(j) \/ JobReturns(j) \/ TimersDone(j)
  PROVE  RunsAgree'
<1>1. PICK w \in Workers : w = worker[j]
  BY JobFacts
<1>2. UNCHANGED <<jobTime, runTicks, runTimes>>
  BY DEF updateJobExecutionTime, JobReturns, TimersDone, WorkerGoes
<1>3. CASE worker' = [worker EXCEPT ![j] = EndedWorker]
  <2>1. TicksWait(j, EndedWorker)
    BY DEF TicksWait, EndedWorker
  <2> QED BY <1>2, <1>3, <2>1, NoRunBegins
<1>4. CASE /\ w.step # "select"
           /\ worker' = [worker EXCEPT ![j] =
                NextSelect([kind |-> w.kind, step |-> "select", period |-> w.period,
                            due |-> w.due, tick |-> w.tick])]
  BY <1>1, <1>2, <1>4, WaitsAgain
<1>5. CASE w.step = "read" /\ worker' = [worker EXCEPT ![j] = Unread(w, "run")]
  <2>1. PICK v : v = Unread(w, "run")
    OBVIOUS
  <2>2. v.kind = w.kind /\ v.step = "run" /\ v.tick = w.tick /\ v.at = w.at
    BY <2>1 DEF Unread
  <2>3. TicksWait(j, v)
    BY <1>1, <1>5, <2>2, RunFacts DEF TicksWait
  <2> QED BY <1>2, <1>5, <2>1, <2>3, NoRunBegins
<1> QED BY <1>1, <1>3, <1>4, <1>5 DEF updateJobExecutionTime, JobReturns, TimersDone, WorkerGoes

\* RunJob: the tick of the run is from after the run before the last one, and a
\* tick that waits meanwhile from after the last one.
LEMMA RunJobBegins ==
  ASSUME SchedulerInv, RunsAgree, NEW j \in Jobs, RunJob(j)
  PROVE  RunsAgree'
<1>1. PICK w \in Workers : w = worker[j]
  BY JobFacts
<1>2. /\ w.step = "run" /\ jobTime' = jobTime
      /\ runTicks' = [runTicks EXCEPT ![j] = Append(@, w.at)]
      /\ runTimes' = [runTimes EXCEPT ![j] = Append(@, jobTime)]
      /\ worker' = [worker EXCEPT ![j] = Unread(w, "running")]
  BY <1>1 DEF RunJob, WorkerGoes
<1>3. /\ w.at \in Nat /\ w.kind \in {"once", "ticker"} /\ w.tick \in Ticks /\ w.at <= jobTime
      /\ TicksWait(j, w)
  BY <1>1, <1>2, WorkerShape, JobFacts, RunFacts DEF WorkerAgrees
<1>4. PICK n \in Nat : n = Len(runTimes[j]) /\ n = Len(runTicks[j])
  BY RunFacts DEF RunTimesAgree
<1>5. runTicks[j] \in Seq(Nat) /\ runTimes[j] \in Seq(Nat) /\ jobTime \in Nat
  BY JobFacts, RunFacts
<1>6. /\ runTicks'[j] = Append(runTicks[j], w.at) /\ runTimes'[j] = Append(runTimes[j], jobTime)
      /\ \A k \in Jobs \ {j} : /\ runTicks'[k] = runTicks[k] /\ runTimes'[k] = runTimes[k]
                               /\ worker'[k] = worker[k]
      /\ worker'[j] = Unread(w, "running")
  BY <1>2 DEF SchedulerInv, SchedulerTypeOK
<1>7. /\ Len(runTicks'[j]) = n + 1 /\ Len(runTimes'[j]) = n + 1
      /\ runTicks'[j][n + 1] = w.at /\ runTimes'[j][n + 1] = jobTime
      /\ \A i \in 1..n : runTicks'[j][i] = runTicks[j][i] /\ runTimes'[j][i] = runTimes[j][i]
  <2>1. PICK ticks \in Seq(Nat), times \in Seq(Nat), a \in Nat, b \in Nat :
          ticks = runTicks[j] /\ times = runTimes[j] /\ a = w.at /\ b = jobTime
    BY <1>3, <1>5
  <2>2. runTicks'[j] = Append(ticks, a) /\ runTimes'[j] = Append(times, b)
    BY <1>6, <2>1
  <2>3. n = Len(ticks)
    BY <1>4, <2>1
  <2>4. n = Len(times)
    BY <1>4, <2>1
  <2>5. /\ Len(Append(ticks, a)) = n + 1 /\ Append(ticks, a)[n + 1] = a
        /\ \A i \in 1..n : Append(ticks, a)[i] = ticks[i]
    BY <2>3, AppendFacts
  <2>6. /\ Len(Append(times, b)) = n + 1 /\ Append(times, b)[n + 1] = b
        /\ \A i \in 1..n : Append(times, b)[i] = times[i]
    BY <2>4, AppendFacts
  <2>7. PICK s, u : s = Append(ticks, a) /\ u = Append(times, b)
    OBVIOUS
  <2>8. runTicks'[j] = s /\ runTimes'[j] = u
    BY <2>2, <2>7
  <2>9. /\ Len(s) = n + 1 /\ s[n + 1] = w.at /\ Len(u) = n + 1 /\ u[n + 1] = jobTime
        /\ \A i \in 1..n : s[i] = runTicks[j][i] /\ u[i] = runTimes[j][i]
    BY <2>1, <2>5, <2>6, <2>7
  <2> QED BY <2>8, <2>9
<1>8. /\ \A i \in 1..n : runTimes[j][i] <= jobTime /\ runTicks[j][i] <= runTimes[j][i]
      /\ \A i \in 1..(n - 2) : runTimes[j][i] <= runTicks[j][i + 2]
      /\ \A i \in 1..(n - 1) : runTimes[j][i] <= w.at
      /\ w.tick # NoTick => \A i \in 1..n : runTimes[j][i] <= w.tick
  BY <1>2, <1>3, <1>4, RunFacts DEF RunTimesAgree, TicksWait, BegunBy
<1>9. RunTimesAgree(j)'
  <2>1. BegunBy(j, Len(runTimes[j]), jobTime)'
    <3>1. ASSUME NEW i \in 1..(n + 1) PROVE runTimes'[j][i] <= jobTime
      <4>1. CASE i = n + 1
        BY <1>5, <1>7, <4>1
      <4>2. CASE i # n + 1
        <5>1. i \in 1..n
          BY <4>2
        <5> QED BY <1>7, <1>8, <5>1
      <4> QED BY <4>1, <4>2
    <3> QED BY <1>2, <1>7, <3>1 DEF BegunBy
  <2>2. ASSUME NEW i \in 1..(n + 1) PROVE runTicks'[j][i] <= runTimes'[j][i]
    <3>1. CASE i = n + 1
      BY <1>3, <1>7, <3>1
    <3>2. CASE i # n + 1
      <4>1. i \in 1..n
        BY <3>2
      <4> QED BY <1>7, <1>8, <4>1
    <3> QED BY <3>1, <3>2
  <2>3. ASSUME NEW i \in 1..(n - 1) PROVE runTimes'[j][i] <= runTicks'[j][i + 2]
    <3>1. CASE i = n - 1
      <4>1. i \in 1..n /\ i + 2 = n + 1
        BY <3>1
      <4> QED BY <1>7, <1>8, <4>1
    <3>2. CASE i # n - 1
      <4>1. i \in 1..(n - 2) /\ i \in 1..n /\ i + 2 \in 1..n
        BY <3>2
      <4> QED BY <1>7, <1>8, <4>1
    <3> QED BY <3>1, <3>2
  <2>4. (n + 1) - 2 = n - 1
    OBVIOUS
  <2> QED BY <1>7, <2>1, <2>2, <2>3, <2>4 DEF RunTimesAgree
<1>10. TicksWait(j, worker[j])'
  <2>1. worker'[j].step = "running" /\ worker'[j].tick = w.tick
    BY <1>6 DEF Unread
  <2>2. w.tick # NoTick => BegunBy(j, Len(runTimes[j]) - 1, w.tick)'
    <3>1. (n + 1) - 1 = n
      OBVIOUS
    <3> QED BY <1>7, <1>8, <3>1 DEF BegunBy
  <2> QED BY <2>1, <2>2 DEF TicksWait
<1>11. ASSUME NEW k \in Jobs \ {j} PROVE (RunTimesAgree(k) /\ TicksWait(k, worker[k]))'
  <2>1. RunTimesAgree(k) /\ TicksWait(k, worker[k])
    BY RunFacts
  <2> QED BY <1>2, <1>6, <2>1 DEF RunTimesAgree, TicksWait, BegunBy
<1> QED BY <1>9, <1>10, <1>11 DEF RunsAgree

\* PassTime: a tick that fires is from after all runs.
LEMMA PassTimeWaits ==
  ASSUME SchedulerInv, RunsAgree, PassTime
  PROVE  RunsAgree'
<1>1. /\ UNCHANGED <<runTicks, runTimes>> /\ jobTime' = jobTime + 1 /\ jobTime \in Nat
      /\ NoTick \notin Nat
  BY SchedulerAssumption DEF PassTime, SchedulerInv, SchedulerTypeOK
<1>2. ASSUME NEW k \in Jobs PROVE (RunTimesAgree(k) /\ TicksWait(k, worker[k]))'
  <2>1. PICK w \in Workers : w = worker[k] /\ TicksWait(k, w)
    BY JobFacts, RunFacts
  <2>2. PICK v : v = worker'[k]
    OBVIOUS
  <2>3. PICK n \in Nat : n = Len(runTimes[k])
    BY RunFacts
  <2>4. \A i \in 1..n : runTimes[k][i] \in Nat /\ runTimes[k][i] <= jobTime
    BY <2>3, RunFacts DEF RunTimesAgree, BegunBy
  <2>5. \A i \in 1..n : runTimes[k][i] <= jobTime'
    BY <1>1, <2>4
  <2>6. RunTimesAgree(k)'
    BY <1>1, <2>3, <2>5, RunFacts DEF RunTimesAgree, BegunBy
  <2>7. CASE v = w
    BY <1>1, <2>1, <2>2, <2>6, <2>7 DEF TicksWait, BegunBy
  <2>8. CASE /\ w.kind \in {"once", "ticker"}
             /\ v = [w EXCEPT !.tick = IF @ = NoTick THEN jobTime' ELSE @,
                              !.due = IF w.kind = "ticker" THEN @ + w.period ELSE @]
    <3>1. /\ v.step = w.step /\ v.kind = w.kind /\ (w.step \in {"read", "run"} => v.at = w.at)
          /\ v.tick = IF w.tick = NoTick THEN jobTime' ELSE w.tick
      BY <2>8, WorkerShape DEF Selecting, Reading, Running
    <3>2. BegunBy(k, n, jobTime') /\ BegunBy(k, n - 1, jobTime')
      BY <2>3, <2>5 DEF BegunBy
    <3>3. TicksWait(k, v)
      BY <2>1, <2>3, <2>8, <3>1, <3>2 DEF TicksWait
    <3>4. TicksWait(k, worker[k])'
      BY <1>1, <2>2, <3>3 DEF TicksWait, BegunBy
    <3> QED BY <2>6, <3>4
  <2> QED BY <2>1, <2>2, <2>7, <2>8 DEF PassTime
<1> QED BY <1>2 DEF RunsAgree

\* StartJob: a job that is due runs at the time of the start.
LEMMA StartJobWaits ==
  ASSUME SchedulerInv, RunsAgree, NEW j \in Jobs, StartJob(j)
  PROVE  RunsAgree'
<1>1. UNCHANGED <<jobTime, runTicks, runTimes>>
  BY DEF StartJob
<1>2. CASE worker' = worker
  BY <1>1, <1>2 DEF RunsAgree, RunTimesAgree, TicksWait, BegunBy
<1>3. CASE worker' = [worker EXCEPT ![j] = FirstExecution(toStart[j])]
  <2>1. PICK v : v = FirstExecution(toStart[j])
    OBVIOUS
  <2>2. v.step = "select" /\ v.tick \in {jobTime, NoTick}
    BY <2>1 DEF FirstExecution
  <2>3. TicksWait(j, v)
    BY <2>2, RunFacts DEF TicksWait, RunTimesAgree, BegunBy
  <2> QED BY <1>1, <1>3, <2>1, <2>3, NoRunBegins
<1> QED BY <1>2, <1>3 DEF StartJob

\* Steps after which there is no worker, or the same ones.
LEMMA OtherStepsWait ==
  ASSUME SchedulerInv, RunsAgree, UNCHANGED <<jobTime, runTicks, runTimes>>,
         worker' = worker \/ worker' = [j \in Jobs |-> NoWorker]
  PROVE  RunsAgree'
<1>1. \A j \in Jobs : TicksWait(j, worker'[j])
  BY DEF RunsAgree, TicksWait, NoWorker
<1> QED BY <1>1 DEF RunsAgree, RunTimesAgree, TicksWait, BegunBy

\* Runs begin no earlier than their ticks, and no later than the tick of the run
\* after next, in every state.
THEOREM RunsAgreeInvariance == SchedulerSpec => []RunsAgree
<1>1. SchedulerInit => RunsAgree
  BY DEF SchedulerInit, RunsAgree, RunTimesAgree, TicksWait, BegunBy, NoWorker
<1>2. SchedulerInv /\ RunsAgree /\ [SchedulerNext]_schedulerVars => RunsAgree'
  <2> SUFFICES ASSUME SchedulerInv, RunsAgree, [SchedulerNext]_schedulerVars PROVE RunsAgree'
    OBVIOUS
  <2>1. CASE UNCHANGED schedulerVars
    BY <2>1, OtherStepsWait DEF schedulerVars
  <2>2. ASSUME NEW c \in ScheduleCalls,
               \/ \E j \in Jobs : \E p \in JobPeriods[j] : Schedule(c, j, p)
               \/ UpsertJob(c) \/ ScheduleFails(c)
        PROVE  RunsAgree'
    BY <2>2, OtherStepsWait DEF Schedule, UpsertJob, ScheduleFails
  <2>3. ASSUME NEW j \in Jobs,
               \/ RegisterJobHandler(j) \/ StartJob(j)
               \/ TakeTick(j) \/ TimersDone(j) \/ updateJobExecutionTime(j)
               \/ RunJob(j) \/ JobReturns(j)
        PROVE  RunsAgree'
    BY <2>3, StartJobWaits, TakeTickWaits, WorkerStepsWait, RunJobBegins, OtherStepsWait
       DEF RegisterJobHandler
  <2>4. CASE GetAllJobs \/ StartEnds \/ stopTimers \/ StopEnds \/ PassTime \/ KillScheduler
    BY <2>4, PassTimeWaits, OtherStepsWait
       DEF GetAllJobs, StartEnds, stopTimers, StopEnds, KillScheduler
  <2> QED BY <2>1, <2>2, <2>3, <2>4 DEF SchedulerNext
<1> QED BY <1>1, <1>2, SchedulerInvariance, PTL DEF SchedulerSpec

\* The ticks that a job runs for are never closer than its shortest period, less the
\* fractions of two seconds, and no run is put off beyond the tick of the run after
\* next, for any number of jobs, calls of Schedule, starts, stops, kills and failing
\* sessions.
THEOREM RunsAreSpacedHolds == SchedulerSpec => []RunsAreSpaced
<1>1. SchedulerInv /\ RunsAgree => RunsAreSpaced
  <2> SUFFICES ASSUME SchedulerInv, RunsAgree, NEW j \in Jobs
               PROVE  /\ \A i \in 1..(Len(runTicks[j]) - 1) :
                           runTicks[j][i + 1] + 2 * (Second - 1) >= runTicks[j][i] + shortest[j]
                      /\ \A i \in 1..Len(runTimes[j]) : runTicks[j][i] <= runTimes[j][i]
                      /\ \A i \in 1..(Len(runTimes[j]) - 2) : runTimes[j][i] <= runTicks[j][i + 2]
    BY DEF RunsAreSpaced
  <2> QED BY DEF SchedulerInv, TicksAreSpaced, RunsAgree, RunTimesAgree
<1> QED BY <1>1, SchedulerInvariance, RunsAgreeInvariance, PTL

\* Of four runs of a job the last one begins at least its shortest period after the
\* first, less the fractions of two seconds.
FourRunsTakeAPeriod ==
  \A j \in Jobs : \A i \in 1..(Len(runTimes[j]) - 3) :
    runTimes[j][i + 3] + 2 * (Second - 1) >= runTimes[j][i] + shortest[j]

\* However late the runs of a job are, four of them take a period: the buffer of the
\* ticker and the run that is going on make up for no more.
THEOREM FourRunsTakeAPeriodHolds == SchedulerSpec => []FourRunsTakeAPeriod
<1>1. SchedulerInv /\ RunsAgree => FourRunsTakeAPeriod
  <2> SUFFICES ASSUME SchedulerInv, RunsAgree, NEW j \in Jobs,
                      NEW i \in 1..(Len(runTimes[j]) - 3)
               PROVE  runTimes[j][i + 3] + 2 * (Second - 1) >= runTimes[j][i] + shortest[j]
    BY DEF FourRunsTakeAPeriod
  <2>1. PICK n \in Nat : n = Len(runTimes[j]) /\ n = Len(runTicks[j])
    BY RunFacts DEF RunTimesAgree
  <2>2. i \in 1..(n - 2) /\ i + 2 \in 1..(n - 1) /\ {i, i + 3, i + 2} \subseteq 1..n
    BY <2>1
  <2>3. /\ runTimes[j][i] \in Nat /\ runTimes[j][i + 3] \in Nat
        /\ runTicks[j][i + 2] \in Nat /\ runTicks[j][i + 3] \in Nat
        /\ shortest[j] \in Nat /\ Second \in Nat
    <3>1. /\ runTicks[j] \in Seq(Nat) /\ runTimes[j] \in Seq(Nat)
          /\ shortest[j] \in Nat /\ Second \in Nat
      BY JobFacts, RunFacts, SchedulerAssumption
    <3>2. \A seq \in Seq(Nat) : \A m \in 1..Len(seq) : seq[m] \in Nat
      OBVIOUS
    <3> QED BY <2>1, <2>2, <3>1, <3>2
  <2>4. runTimes[j][i] <= runTicks[j][i + 2] /\ runTicks[j][i + 3] <= runTimes[j][i + 3]
    BY <2>1, <2>2, RunFacts DEF RunTimesAgree
  <2>5. (i + 2) + 1 = i + 3
    OBVIOUS
  <2>6. runTicks[j][i + 3] + 2 * (Second - 1) >= runTicks[j][i + 2] + shortest[j]
    BY <2>1, <2>2, <2>5 DEF SchedulerInv, TicksAreSpaced
  <2>7. \A a, b, c, d, s, k \in Nat :
          a <= b /\ c <= d /\ c + 2 * (k - 1) >= b + s => d + 2 * (k - 1) >= a + s
    OBVIOUS
  <2> QED BY <2>3, <2>4, <2>6, <2>7
<1> QED BY <1>1, SchedulerInvariance, RunsAgreeInvariance, PTL

-----------------------------------------------------------------------------
(* The executions in the table.                                            *)

\* The table never takes back an execution: no step lowers the time of a job's last
\* execution or removes its row, whichever of a late tick, a call of Schedule, a
\* restart or a kill comes in between.
LastExecutionStays ==
  \A j \in Jobs : jobs[j] # NoRow =>
    jobs'[j] # NoRow /\ jobs'[j].lastExecutedAt >= jobs[j].lastExecutedAt

\* No tick of a worker, taken or waiting, is from before the execution in the table,
\* and a waiting one is not from before the one that was taken.
NotBehind(j, w) ==
  w.kind \in {"once", "ticker"} =>
    /\ w.tick # NoTick => w.tick >= jobs[j].lastExecutedAt
    /\ w.step = "read" =>
         /\ w.at >= jobs[j].lastExecutedAt
         /\ w.tick # NoTick => w.tick >= w.at

\* No execution in the table is ahead of the time, and no worker is behind the table.
TimesAgree ==
  \A j \in Jobs :
    /\ jobs[j] # NoRow => jobs[j].lastExecutedAt <= jobTime
    /\ NotBehind(j, worker[j])

\* A later time is not behind in whole seconds either.
LEMMA WholeSecondsGrow ==
  ASSUME NEW s \in Nat, NEW t \in Nat, s <= t, WholeSeconds(s) = s
  PROVE  s <= WholeSeconds(t)
<1>0. Second \in Nat /\ Second > 0
  BY SchedulerAssumption
<1>1. PICK p \in Nat, q \in Nat : p = s \div Second /\ q = t \div Second
  BY <1>0
<1>2. p * Second = s
  BY <1>1 DEF WholeSeconds
<1>3. q * Second <= t /\ t < (q + 1) * Second
  BY <1>0, <1>1
<1>4. p < q + 1
  <2> SUFFICES ASSUME p >= q + 1 PROVE FALSE
    BY <1>1
  <2>1. \A a, b, c \in Nat : a >= b => a * c >= b * c
    OBVIOUS
  <2>2. p * Second >= (q + 1) * Second
    BY <1>0, <2>1
  <2>3. p * Second \in Nat /\ (q + 1) * Second \in Nat
    BY <1>0
  <2> QED BY <1>2, <1>3, <2>2, <2>3
<1>5. \A a, b, c \in Nat : a <= b => a * c <= b * c
  OBVIOUS
<1>6. p * Second <= q * Second
  BY <1>0, <1>4, <1>5
<1> QED BY <1>1, <1>2, <1>6 DEF WholeSeconds

\* A worker that waits again has the tick it had, or none.
LEMMA NextSelectNotBehind ==
  ASSUME NEW j, NEW w \in Selecting, NotBehind(j, w)
  PROVE  NotBehind(j, NextSelect(w))
<1>1. CASE w.kind = "ticker"
  <2>1. NextSelect(w) = w
    BY <1>1 DEF NextSelect, Selecting
  <2> QED BY <2>1
<1>2. CASE w.kind # "ticker" /\ w.period = 0
  <2>1. NextSelect(w).kind = "ended"
    BY <1>2 DEF NextSelect, EndedWorker
  <2> QED BY <2>1 DEF NotBehind
<1>3. CASE w.kind # "ticker" /\ w.period # 0
  <2>1. NextSelect(w).tick = NoTick /\ NextSelect(w).step = "select"
    BY <1>3 DEF NextSelect
  <2> QED BY <2>1 DEF NotBehind
<1> QED BY <1>1, <1>2, <1>3

\* A step of one worker that leaves the table alone.
LEMMA WorkerNotBehind ==
  ASSUME SchedulerInv, TimesAgree, NEW j \in Jobs, NEW w, NotBehind(j, w),
         worker' = [worker EXCEPT ![j] = w], UNCHANGED <<jobs, jobTime>>
  PROVE  TimesAgree' /\ LastExecutionStays
<1>1. worker'[j] = w /\ \A k \in Jobs \ {j} : worker'[k] = worker[k]
  BY DEF SchedulerInv, SchedulerTypeOK
<1>2. \A k \in Jobs : NotBehind(k, worker'[k])
  BY <1>1 DEF TimesAgree
<1>3. TimesAgree'
  BY <1>2 DEF TimesAgree, NotBehind
<1>4. LastExecutionStays
  BY JobFacts DEF LastExecutionStays
<1> QED BY <1>3, <1>4

\* TakeTick: the tick that was not behind becomes the one that is taken.
LEMMA TakeTickInTime ==
  ASSUME SchedulerInv, TimesAgree, NEW j \in Jobs, TakeTick(j)
  PROVE  TimesAgree' /\ LastExecutionStays
<1>1. PICK w \in Workers : w = worker[j]
  BY JobFacts
<1>2. /\ w.kind \in {"once", "ticker"} /\ w.step = "select" /\ w.tick # NoTick
      /\ UNCHANGED <<jobs, jobTime>>
  BY <1>1 DEF TakeTick, WorkerGoes
<1>3. w \in Selecting /\ NotBehind(j, w)
  BY <1>1, <1>2, WorkerShape DEF TimesAgree
<1>4. CASE worker' = [worker EXCEPT ![j] =
             [kind |-> w.kind, step |-> "read", period |-> w.period, due |-> w.due,
              tick |-> NoTick, at |-> w.tick, row |-> jobs[j]]]
  <2>1. PICK v : v = [kind |-> w.kind, step |-> "read", period |-> w.period, due |-> w.due,
                      tick |-> NoTick, at |-> w.tick, row |-> jobs[j]]
    OBVIOUS
  <2>2. NotBehind(j, v)
    BY <1>2, <1>3, <2>1 DEF NotBehind
  <2> QED BY <1>2, <1>4, <2>1, <2>2, WorkerNotBehind
<1>5. CASE worker' = [worker EXCEPT ![j] = NextSelect([w EXCEPT !.tick = NoTick])]
  <2>1. PICK v : v = [w EXCEPT !.tick = NoTick]
    OBVIOUS
  <2>2. v \in Selecting
    BY <1>3, <2>1 DEF Selecting, Ticks
  <2>3. NotBehind(j, v)
    BY <1>3, <2>1 DEF NotBehind, Selecting
  <2> QED BY <1>2, <1>5, <2>1, <2>2, <2>3, NextSelectNotBehind, WorkerNotBehind
<1> QED BY <1>1, <1>4, <1>5 DEF TakeTick, WorkerGoes

\* updateJobExecutionTime: what is written is the tick that was taken, in whole seconds.
LEMMA updateJobExecutionTimeInTime ==
  ASSUME SchedulerInv, TimesAgree, NEW j \in Jobs, updateJobExecutionTime(j)
  PROVE  TimesAgree' /\ LastExecutionStays
<1>1. PICK w \in Workers : w = worker[j]
  BY JobFacts
<1>2. w.step = "read" /\ jobTime' = jobTime
  BY <1>1 DEF updateJobExecutionTime, WorkerGoes
<1>3. /\ w \in Reading /\ w.kind \in {"once", "ticker"} /\ w.at \in Nat /\ w.tick \in Ticks
      /\ NotBehind(j, w) /\ WorkerAgrees(j, w)
  BY <1>1, <1>2, WorkerShape, JobFacts DEF TimesAgree
<1>4. /\ jobs[j] # NoRow /\ w.row = jobs[j] /\ w.at <= jobTime /\ w.at >= jobs[j].lastExecutedAt
      /\ w.tick # NoTick => w.tick >= w.at
  BY <1>1, <1>2, <1>3 DEF WorkerAgrees, NotBehind, SchedulerInv, SessionsAgree
<1>5. PICK last \in Nat, period \in Nat :
        /\ last = jobs[j].lastExecutedAt /\ period = jobs[j].period /\ WholeSeconds(last) = last
  BY <1>4, JobFacts DEF RowAgrees
<1>6. CASE jobs' = jobs /\ worker' = [worker EXCEPT ![j] =
             NextSelect([kind |-> w.kind, step |-> "select", period |-> w.period,
                         due |-> w.due, tick |-> w.tick])]
  <2>1. PICK v : v = [kind |-> w.kind, step |-> "select", period |-> w.period,
                      due |-> w.due, tick |-> w.tick]
    OBVIOUS
  <2>2. v \in Selecting
    BY <1>3, <2>1 DEF Selecting, Reading
  <2>3. NotBehind(j, v)
    BY <1>3, <2>1 DEF NotBehind
  <2> QED BY <1>2, <1>6, <2>1, <2>2, <2>3, NextSelectNotBehind, WorkerNotBehind
<1>7. CASE /\ jobs' = [jobs EXCEPT ![j] = jobFromModel(w.at, w.row.period)]
           /\ worker' = [worker EXCEPT ![j] = Unread(w, "run")]
  <2>1. PICK row : row = jobFromModel(w.at, period)
    OBVIOUS
  <2>2. row # NoRow /\ row.lastExecutedAt = WholeSeconds(w.at)
    BY <1>3, <2>1, jobFromModelRow
  <2>3. PICK new \in Nat : new = WholeSeconds(w.at) /\ new <= w.at /\ last <= new
    BY <1>3, <1>4, <1>5, WholeSecondsLoss, WholeSecondsGrow
  <2>4. /\ jobs'[j] = row /\ \A k \in Jobs \ {j} : jobs'[k] = jobs[k]
        /\ worker'[j] = Unread(w, "run") /\ \A k \in Jobs \ {j} : worker'[k] = worker[k]
    BY <1>4, <1>5, <1>7, <2>1 DEF SchedulerInv, SchedulerTypeOK
  <2>5. Unread(w, "run").tick = w.tick /\ Unread(w, "run").step = "run"
    BY DEF Unread
  <2>6. (jobs[j] # NoRow => jobs[j].lastExecutedAt <= jobTime)'
    <3>1. jobTime \in Nat
      BY JobFacts
    <3> QED BY <1>2, <1>3, <1>4, <2>2, <2>3, <2>4, <3>1
  <2>7. NotBehind(j, worker[j])'
    <3>1. w.tick # NoTick => w.tick \in Nat /\ w.tick >= new
      BY <1>3, <1>4, <2>3 DEF Ticks
    <3> QED BY <2>2, <2>3, <2>4, <2>5, <3>1 DEF NotBehind
  <2>8. ASSUME NEW k \in Jobs \ {j}
        PROVE  /\ (jobs[k] # NoRow => jobs[k].lastExecutedAt <= jobTime)'
               /\ NotBehind(k, worker[k])'
    BY <1>2, <2>4 DEF TimesAgree, NotBehind
  <2>9. TimesAgree'
    BY <2>6, <2>7, <2>8 DEF TimesAgree
  <2>10. LastExecutionStays
    BY <1>5, <2>2, <2>3, <2>4, JobFacts DEF LastExecutionStays
  <2> QED BY <2>9, <2>10
<1> QED BY <1>1, <1>6, <1>7 DEF updateJobExecutionTime, WorkerGoes

\* RunJob, JobReturns and TimersDone: a tick that waits goes on waiting, or the
\* worker ends.
LEMMA RunJobInTime ==
  ASSUME SchedulerInv, TimesAgree, NEW j \in Jobs, RunJob(j) \/ JobReturns(j) \/ TimersDone(j)
  PROVE  TimesAgree' /\ LastExecutionStays
<1>1. PICK w \in Workers : w = worker[j]
  BY JobFacts
<1>2. UNCHANGED <<jobs, jobTime>>
  BY DEF RunJob, JobReturns, TimersDone, WorkerGoes
<1>3. CASE worker' = [worker EXCEPT ![j] = EndedWorker]
  <2>1. NotBehind(j, EndedWorker)
    BY DEF NotBehind, EndedWorker
  <2> QED BY <1>2, <1>3, <2>1, WorkerNotBehind
<1>4. CASE /\ w.step = "running"
           /\ worker' = [worker EXCEPT ![j] =
                NextSelect([kind |-> w.kind, step |-> "select", period |-> w.period,
                            due |-> w.due, tick |-> w.tick])]
  <2>1. PICK v : v = [kind |-> w.kind, step |-> "select", period |-> w.period,
                      due |-> w.due, tick |-> w.tick]
    OBVIOUS
  <2>2. w \in Running /\ NotBehind(j, w)
    BY <1>1, <1>4, WorkerShape DEF TimesAgree
  <2>3. v \in Selecting
    BY <2>1, <2>2 DEF Selecting, Running
  <2>4. NotBehind(j, v)
    BY <2>1, <2>2 DEF NotBehind
  <2> QED BY <1>2, <1>4, <2>1, <2>3, <2>4, NextSelectNotBehind, WorkerNotBehind
<1>5. CASE w.step = "run" /\ worker' = [worker EXCEPT ![j] = Unread(w, "running")]
  <2>1. PICK v : v = Unread(w, "running")
    OBVIOUS
  <2>2. v.kind = w.kind /\ v.step = "running" /\ v.tick = w.tick
    BY <2>1 DEF Unread
  <2>3. NotBehind(j, v)
    BY <1>1, <1>5, <2>2, WorkerShape DEF TimesAgree, NotBehind
  <2> QED BY <1>2, <1>5, <2>1, <2>3, WorkerNotBehind
<1> QED BY <1>1, <1>3, <1>4, <1>5 DEF RunJob, JobReturns, TimersDone, WorkerGoes

\* StartJob: a job that is due is run at the time of the start.
LEMMA StartJobInTime ==
  ASSUME SchedulerInv, TimesAgree, NEW j \in Jobs, StartJob(j)
  PROVE  TimesAgree' /\ LastExecutionStays
<1>1. UNCHANGED <<jobs, jobTime>>
  BY DEF StartJob
<1>2. CASE worker' = worker
  BY <1>1, <1>2, JobFacts DEF TimesAgree, NotBehind, LastExecutionStays
<1>3. CASE worker' = [worker EXCEPT ![j] = FirstExecution(toStart[j])]
  <2>1. jobs[j] # NoRow /\ jobTime \in Nat /\ jobs[j].lastExecutedAt <= jobTime
    BY JobFacts DEF StartJob, SchedulerInv, SessionsAgree, TimesAgree
  <2>2. PICK v : v = FirstExecution(toStart[j])
    OBVIOUS
  <2>3. v.step = "select" /\ v.tick \in {jobTime, NoTick}
    BY <2>2 DEF FirstExecution
  <2>4. NotBehind(j, v)
    BY <2>1, <2>3 DEF NotBehind
  <2> QED BY <1>1, <1>3, <2>2, <2>4, WorkerNotBehind
<1> QED BY <1>2, <1>3 DEF StartJob

\* UpsertJob: a job that is scheduled again keeps its last execution.
LEMMA UpsertJobInTime ==
  ASSUME SchedulerInv, TimesAgree, NEW c \in ScheduleCalls, UpsertJob(c)
  PROVE  TimesAgree' /\ LastExecutionStays
<1>1. PICK call : call = scheduling[c]
  OBVIOUS
<1>2. /\ call.stage = "read" /\ UNCHANGED <<worker, jobTime>>
      /\ jobs' = [jobs EXCEPT ![call.job] = jobFromModel(LastExecuted(call.row), call.period)]
  BY <1>1 DEF UpsertJob
<1>3. call \in [stage : {"read", "done"}, job : Jobs, period : Nat, row : JobRows \cup {NoRow}]
  <2>1. call \in Schedulings
    BY <1>1 DEF SchedulerInv, SchedulerTypeOK
  <2> QED BY <1>2, <2>1 DEF Schedulings
<1>4. PICK j \in Jobs, p \in Nat : j = call.job /\ p = call.period
  BY <1>3
<1>5. call.row = jobs[j]
  BY <1>1, <1>2, <1>4 DEF SchedulerInv, SessionsAgree
<1>6. PICK last \in Nat :
        /\ last = LastExecuted(jobs[j]) /\ WholeSeconds(last) = last /\ last <= jobTime
        /\ jobs[j] # NoRow => last = jobs[j].lastExecutedAt
  <2>1. CASE jobs[j] # NoRow
    BY <2>1, JobFacts DEF LastExecuted, RowAgrees, TimesAgree
  <2>2. CASE jobs[j] = NoRow
    <3>1. WholeSeconds(0) <= 0 /\ WholeSeconds(0) \in Nat
      BY WholeSecondsLoss
    <3> QED BY <2>2, <3>1, JobFacts DEF LastExecuted, ZeroTime
  <2> QED BY <2>1, <2>2
<1>7. PICK row : row = jobFromModel(last, p) /\ row # NoRow /\ row.lastExecutedAt = last
  BY <1>6, jobFromModelRow
<1>8. jobs'[j] = row /\ \A k \in Jobs \ {j} : jobs'[k] = jobs[k]
  BY <1>2, <1>4, <1>5, <1>6, <1>7 DEF SchedulerInv, SchedulerTypeOK
<1>9. ASSUME NEW k \in Jobs
      PROVE  /\ jobs[k] # NoRow => jobs'[k].lastExecutedAt = jobs[k].lastExecutedAt
             /\ worker[k].kind \in {"once", "ticker"} => jobs[k] # NoRow
             /\ jobs'[k] # NoRow => jobs'[k].lastExecutedAt <= jobTime
             /\ jobs[k] # NoRow => jobs'[k] # NoRow
  BY <1>6, <1>7, <1>8, JobFacts DEF WorkerAgrees, TimesAgree
<1>10. TimesAgree'
  BY <1>2, <1>9 DEF TimesAgree, NotBehind
<1>11. LastExecutionStays
  BY <1>9, JobFacts DEF LastExecutionStays
<1> QED BY <1>10, <1>11

\* PassTime: a tick that fires is of the present.
LEMMA PassTimeInTime ==
  ASSUME SchedulerInv, TimesAgree, PassTime
  PROVE  TimesAgree' /\ LastExecutionStays
<1>1. jobs' = jobs /\ jobTime' = jobTime + 1 /\ jobTime \in Nat /\ NoTick \notin Nat
  BY SchedulerAssumption DEF PassTime, SchedulerInv, SchedulerTypeOK
<1>2. ASSUME NEW k \in Jobs PROVE NotBehind(k, worker'[k])
  <2>1. PICK w \in Workers : w = worker[k] /\ NotBehind(k, w) /\ WorkerAgrees(k, w)
    BY JobFacts DEF TimesAgree
  <2>2. PICK v : v = worker'[k]
    OBVIOUS
  <2>3. CASE v = w
    BY <2>1, <2>2, <2>3
  <2>4. CASE /\ w.kind \in {"once", "ticker"}
             /\ v = [w EXCEPT !.tick = IF @ = NoTick THEN jobTime' ELSE @,
                              !.due = IF w.kind = "ticker" THEN @ + w.period ELSE @]
    <3>1. /\ v.step = w.step /\ (w.step = "read" => v.at = w.at)
          /\ v.tick = IF w.tick = NoTick THEN jobTime' ELSE w.tick
      BY <2>4, WorkerShape DEF Selecting, Reading, Running
    <3>2. /\ jobs[k].lastExecutedAt \in Nat /\ jobs[k].lastExecutedAt <= jobTime
          /\ w.step = "read" => w.at \in Nat /\ w.at <= jobTime
      BY <2>1, <2>4, WorkerShape, JobFacts DEF WorkerAgrees, TimesAgree
    <3>3. NotBehind(k, v)
      BY <1>1, <2>1, <2>4, <3>1, <3>2 DEF NotBehind
    <3> QED BY <2>2, <3>3
  <2> QED BY <2>1, <2>2, <2>3, <2>4 DEF PassTime
<1>3. TimesAgree'
  BY <1>1, <1>2, JobFacts DEF TimesAgree, NotBehind
<1> QED BY <1>1, <1>3, JobFacts DEF LastExecutionStays

\* Steps after which there is no worker, or the same ones.
LEMMA OtherStepsInTime ==
  ASSUME SchedulerInv, TimesAgree, UNCHANGED <<jobs, jobTime>>,
         worker' = worker \/ worker' = [j \in Jobs |-> NoWorker]
  PROVE  TimesAgree' /\ LastExecutionStays
<1>1. \A j \in Jobs : NotBehind(j, worker'[j])
  BY DEF TimesAgree, NotBehind, NoWorker
<1> QED BY <1>1, JobFacts DEF TimesAgree, NotBehind, LastExecutionStays

\* Every step leaves times that agree, and takes no execution back.
LEMMA TimesKept ==
  ASSUME SchedulerInv, TimesAgree, [SchedulerNext]_schedulerVars
  PROVE  TimesAgree' /\ LastExecutionStays
<1>1. CASE UNCHANGED schedulerVars
  BY <1>1, OtherStepsInTime DEF schedulerVars
<1>2. ASSUME NEW c \in ScheduleCalls,
             \/ \E j \in Jobs : \E p \in JobPeriods[j] : Schedule(c, j, p)
             \/ UpsertJob(c) \/ ScheduleFails(c)
      PROVE  TimesAgree' /\ LastExecutionStays
  BY <1>2, UpsertJobInTime, OtherStepsInTime DEF Schedule, ScheduleFails
<1>3. ASSUME NEW j \in Jobs,
             \/ RegisterJobHandler(j) \/ StartJob(j)
             \/ TakeTick(j) \/ TimersDone(j) \/ updateJobExecutionTime(j) \/ RunJob(j)
             \/ JobReturns(j)
      PROVE  TimesAgree' /\ LastExecutionStays
  BY <1>3, StartJobInTime, TakeTickInTime, updateJobExecutionTimeInTime, RunJobInTime,
     OtherStepsInTime DEF RegisterJobHandler
<1>4. CASE GetAllJobs \/ StartEnds \/ stopTimers \/ StopEnds \/ PassTime \/ KillScheduler
  BY <1>4, PassTimeInTime, OtherStepsInTime
     DEF GetAllJobs, StartEnds, stopTimers, StopEnds, KillScheduler
<1> QED BY <1>1, <1>2, <1>3, <1>4 DEF SchedulerNext

\* No execution is taken back, for any jobs, periods, calls of Schedule, starts,
\* stops, kills and failing sessions.
THEOREM LastExecutionStaysHolds == SchedulerSpec => [][LastExecutionStays]_schedulerVars
<1>1. SchedulerInit => TimesAgree
  BY DEF SchedulerInit, TimesAgree, NotBehind, NoWorker
<1>2. SchedulerInv /\ TimesAgree /\ [SchedulerNext]_schedulerVars => TimesAgree'
  BY TimesKept
<1>3. SchedulerInv /\ TimesAgree /\ [SchedulerNext]_schedulerVars =>
        [LastExecutionStays]_schedulerVars
  BY TimesKept
<1> QED BY <1>1, <1>2, <1>3, SchedulerInvariance, PTL DEF SchedulerSpec
=============================================================================
