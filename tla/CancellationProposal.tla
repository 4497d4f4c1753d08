------------------------ MODULE CancellationProposal ------------------------
(***************************************************************************)
(* The cancellation services (internal/cancellation/v1, v2, v3) of the     *)
(* bots of a booking's owner and of its supplier, over one booking token.  *)
(* A call is checked, turned into a transaction of the bot's account       *)
(* (pkg/ttm_accounts/cancellation.go), waited for, and answered.  Calls    *)
(* run concurrently, at both bots.  The proposal in the contract is        *)
(* external: its states are those booking.GetCancellationProposal reads.   *)
(***************************************************************************)
EXTENDS Naturals

CONSTANTS
  Calls,         \* calls of the cancellation services
  By,            \* whose bot serves a call: "owner" or "supplier"
  Amounts,       \* refund amounts
  Asked,         \* the requests a call may come with
  MaxReason,     \* the largest number a reason is stored as (65535)
  Nil            \* a price that has no amount; no reply yet

Operations == {"initiate", "counter", "accept", "reject", "withdraw", "finalize"}

\* A request: its version, whether it passes protovalidate, its refund (Nil if
\* the price handler fails on it) and the number of its reason.
Requests ==
  [op : Operations, version : 1..3, valid : BOOLEAN,
   refund : Amounts \cup {Nil}, reason : Nat]

ASSUME CallsAssumption ==
  /\ By \in [Calls -> {"owner", "supplier"}]
  /\ \A c \in Calls : \A q \in Asked[c] : q \in Requests
  /\ MaxReason \in Nat
  /\ Nil \notin Amounts /\ Nil \notin {"INVALID_PROTO", "INTERNAL",
       "BLOCKCHAIN_ERROR", "FAILURE", "success", "owner", "supplier"}

VARIABLES
  pc,         \* stage of a call
  request,    \* what it was called with
  tx,         \* its transaction
  reply,      \* "success", an error code, or Nil
  cutOff,     \* history: calls whose wait ended with their context
  lost,       \* history: calls whose transaction was sent behind an error
  proposal    \* the proposal in the contract

proposalVars == <<pc, request, tx, reply, cutOff, lost, proposal>>

Codes == {"INVALID_PROTO", "INTERNAL", "BLOCKCHAIN_ERROR", "FAILURE"}
NoRequest == [op |-> Nil]

Proposals ==
  [status : {"no proposal", "pending", "rejected", "withdrawn", "finalized"},
   refund : Amounts \cup {Nil}, proposer : {"owner", "supplier", Nil},
   accepted : SUBSET {"owner", "supplier"}]

\* Every variable holds a value of the shape the code declares for it.
ProposalTypeOK ==
  /\ pc \in [Calls -> {"idle", "sending", "waiting", "returned"}]
  /\ request \in [Calls -> Requests \cup {NoRequest}]
  /\ tx \in [Calls -> {"none", "pending", "mined", "reverted"}]
  /\ reply \in [Calls -> Codes \cup {"success", Nil}]
  /\ cutOff \in SUBSET Calls /\ lost \in SUBSET Calls
  /\ proposal \in Proposals

NoProposal ==
  [status |-> "no proposal", refund |-> Nil, proposer |-> Nil, accepted |-> {}]

ProposalInit ==
  /\ pc = [c \in Calls |-> "idle"]
  /\ request = [c \in Calls |-> NoRequest]
  /\ tx = [c \in Calls |-> "none"]
  /\ reply = [c \in Calls |-> Nil]
  /\ cutOff = {} /\ lost = {}
  /\ proposal = NoProposal

-----------------------------------------------------------------------------
(* The handlers' checks, in their order: Nil lets the call go on.          *)

PriceError(q) == q.refund = Nil
\* ProtoEnumNumberToUInt16.
ReasonError(q) == q.reason > MaxReason

\* Initiate and Counter carry a refund and a reason.
ProposeV1(q) == IF PriceError(q) \/ ReasonError(q) THEN "FAILURE" ELSE Nil
ProposeV2(q) ==
  IF ~ q.valid THEN "INVALID_PROTO"
  ELSE IF PriceError(q) \/ ReasonError(q) THEN "INTERNAL" ELSE Nil
ProposeV3(q) ==
  IF ~ q.valid THEN "INVALID_PROTO"
  ELSE IF PriceError(q) \/ ReasonError(q) THEN "INTERNAL" ELSE Nil

\* Accept carries a refund.
AcceptV1(q) == IF PriceError(q) THEN "FAILURE" ELSE Nil
AcceptV2(q) ==
  IF ~ q.valid THEN "INVALID_PROTO" ELSE IF PriceError(q) THEN "INTERNAL" ELSE Nil
AcceptV3(q) ==
  IF ~ q.valid THEN "INVALID_PROTO" ELSE IF PriceError(q) THEN "INTERNAL" ELSE Nil

\* Reject and Withdraw carry a reason.
DeclineV1(q) == IF ReasonError(q) THEN "FAILURE" ELSE Nil
DeclineV2(q) ==
  IF ~ q.valid THEN "INVALID_PROTO" ELSE IF ReasonError(q) THEN "INTERNAL" ELSE Nil
DeclineV3(q) ==
  IF ~ q.valid THEN "INVALID_PROTO" ELSE IF ReasonError(q) THEN "INTERNAL" ELSE Nil

\* Finalize carries a refund.
FinalizeV1(q) == IF PriceError(q) THEN "FAILURE" ELSE Nil
FinalizeV2(q) ==
  IF ~ q.valid THEN "INVALID_PROTO" ELSE IF PriceError(q) THEN "INTERNAL" ELSE Nil
FinalizeV3(q) ==
  IF ~ q.valid THEN "INVALID_PROTO" ELSE IF PriceError(q) THEN "INTERNAL" ELSE Nil

ByVersion(q, v1, v2, v3) ==
  IF q.version = 1 THEN v1 ELSE IF q.version = 2 THEN v2 ELSE v3

Checked(q) ==
  IF q.op \in {"initiate", "counter"}
    THEN ByVersion(q, ProposeV1(q), ProposeV2(q), ProposeV3(q))
  ELSE IF q.op = "accept" THEN ByVersion(q, AcceptV1(q), AcceptV2(q), AcceptV3(q))
  ELSE IF q.op = "finalize"
    THEN ByVersion(q, FinalizeV1(q), FinalizeV2(q), FinalizeV3(q))
  ELSE ByVersion(q, DeclineV1(q), DeclineV2(q), DeclineV3(q))

\* The code a failed transaction is answered with; version 1 has no codes.
errResponseV1 == "FAILURE"
errResponseV2 == "BLOCKCHAIN_ERROR"
errResponseV3 == "BLOCKCHAIN_ERROR"
errResponse(q) == ByVersion(q, errResponseV1, errResponseV2, errResponseV3)

-----------------------------------------------------------------------------
(* The calls.                                                              *)

Return(c, r) ==
  /\ pc' = [pc EXCEPT ![c] = "returned"]
  /\ reply' = [reply EXCEPT ![c] = r]

\* A call arrives and is checked.
Handle(c, q) ==
  /\ pc[c] = "idle"
  /\ request' = [request EXCEPT ![c] = q]
  /\ \/ Checked(q) # Nil /\ Return(c, Checked(q))
     \/ /\ Checked(q) = Nil
        /\ pc' = [pc EXCEPT ![c] = "sending"]
        /\ UNCHANGED reply
  /\ UNCHANGED <<tx, cutOff, lost, proposal>>

\* Mutant: the call is answered once its transaction is sent.
SendAndAnswer(c) ==
  /\ \/ tx' = [tx EXCEPT ![c] = "pending"] /\ Return(c, "success")
     \/ UNCHANGED tx /\ Return(c, errResponse(request[c]))
  /\ UNCHANGED lost

\* The transaction is sent; or binding, transactor, gas estimate or sending fail.
\* Sending also fails when the node has taken the transaction and its answer is lost.
Send(c) ==
  \/ /\ tx' = [tx EXCEPT ![c] = "pending"]
     /\ pc' = [pc EXCEPT ![c] = "waiting"]
     /\ UNCHANGED <<reply, lost>>
  \/ /\ Return(c, errResponse(request[c]))
     /\ UNCHANGED <<tx, lost>>
  \/ /\ tx' = [tx EXCEPT ![c] = "pending"]
     /\ Return(c, errResponse(request[c]))
     /\ lost' = lost \cup {c}

SendOp(c, ops) ==
  /\ pc[c] = "sending" /\ request[c].op \in ops
  /\ Send(c)
  /\ UNCHANGED <<request, cutOff, proposal>>

SendProposal(c) == SendOp(c, {"initiate", "counter"})
SendAccept(c) == SendOp(c, {"accept"})
SendDecline(c) == SendOp(c, {"reject", "withdraw"})
SendFinalize(c) == SendOp(c, {"finalize"})

\* Mutant: the status of the receipt is read the wrong way round.
StatusMisread(c) ==
  /\ pc[c] = "waiting" /\ tx[c] \in {"mined", "reverted"}
  /\ Return(c, IF tx[c] = "reverted" THEN "success" ELSE errResponse(request[c]))
  /\ UNCHANGED <<request, tx, cutOff, lost, proposal>>

\* WaitMined and the status of the receipt.
Mined(c) ==
  /\ pc[c] = "waiting" /\ tx[c] \in {"mined", "reverted"}
  /\ Return(c, IF tx[c] = "mined" THEN "success" ELSE errResponse(request[c]))
  /\ UNCHANGED <<request, tx, cutOff, lost, proposal>>

\* The caller's context ends during the wait.
WaitCutOff(c) ==
  /\ pc[c] = "waiting"
  /\ Return(c, errResponse(request[c]))
  /\ cutOff' = cutOff \cup {c}
  /\ UNCHANGED <<request, tx, lost, proposal>>

-----------------------------------------------------------------------------
(* The contract (external).                                                *)

Allowed(c, q) ==
  \/ /\ q.op = "initiate"
     /\ proposal.status \notin {"pending", "finalized"}
  \/ /\ q.op \in {"counter", "reject"}
     /\ proposal.status = "pending" /\ proposal.proposer # By[c]
  \/ /\ q.op = "accept"
     /\ proposal.status = "pending" /\ By[c] \notin proposal.accepted
     /\ proposal.refund = q.refund
  \/ /\ q.op = "withdraw"
     /\ proposal.status = "pending" /\ proposal.proposer = By[c]
  \/ /\ q.op = "finalize"
     /\ proposal.status = "pending" /\ proposal.accepted = {"owner", "supplier"}
     /\ proposal.refund = q.refund

Outcome(c, q) ==
  IF q.op \in {"initiate", "counter"}
    THEN [status |-> "pending", refund |-> q.refund, proposer |-> By[c],
          accepted |-> {By[c]}]
  ELSE IF q.op = "accept"
    THEN [proposal EXCEPT !.accepted = @ \cup {By[c]}]
  ELSE IF q.op = "reject" THEN [proposal EXCEPT !.status = "rejected"]
  ELSE IF q.op = "withdraw" THEN [proposal EXCEPT !.status = "withdrawn"]
  ELSE [proposal EXCEPT !.status = "finalized"]

Mine(c) ==
  /\ tx[c] = "pending"
  /\ \/ /\ Allowed(c, request[c])
        /\ tx' = [tx EXCEPT ![c] = "mined"]
        /\ proposal' = Outcome(c, request[c])
     \/ /\ tx' = [tx EXCEPT ![c] = "reverted"]
        /\ UNCHANGED proposal
  /\ UNCHANGED <<pc, request, reply, cutOff, lost>>

-----------------------------------------------------------------------------
Transact(c) == SendProposal(c) \/ SendAccept(c) \/ SendDecline(c) \/ SendFinalize(c)

ProposalNext ==
  \E c \in Calls :
    \/ \E q \in Asked[c] : Handle(c, q)
    \/ Transact(c) \/ Mined(c) \/ WaitCutOff(c) \/ Mine(c)

ProposalSpec == ProposalInit /\ [][ProposalNext]_proposalVars

-----------------------------------------------------------------------------
Applied == {c \in Calls : tx[c] = "mined"}

\* The proposal changes behind an error reply only if the caller's context ended
\* while the transaction was on its way, or the node's answer to sending it was
\* lost, and never for a call that was refused by a check.
AppliedIsReported ==
  \A c \in Applied :
    /\ pc[c] = "waiting" \/ reply[c] = "success" \/ c \in cutOff \cup lost
    /\ Checked(request[c]) = Nil

State ==
  [c \in Calls |->
     IF pc[c] = "idle" THEN "idle"
     ELSE IF pc[c] # "returned" THEN "open"
     ELSE IF Checked(request[c]) # Nil THEN "refused"
     ELSE IF reply[c] = "success" THEN "succeeded" ELSE "failed"]

Abstract == INSTANCE CancellationCalls WITH state <- State, applied <- Applied

\* Every call takes effect at most once and at one instant, one that succeeds
\* has taken effect, one that a check refused never does.
CallsSpec == Abstract!Spec
=============================================================================
