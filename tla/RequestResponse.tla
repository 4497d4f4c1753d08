--------------------------- MODULE RequestResponse ---------------------------
(***************************************************************************)
(* The message processors (internal/messaging/processor.go) of a           *)
(* distributor's and of a supplier's bot.  Every gRPC call runs            *)
(* SendRequestMessage in a goroutine of its own: it registers an           *)
(* unbuffered channel under the request id, sends the request, and waits   *)
(* for the channel or for its context.  Every message that arrives gets a  *)
(* goroutine too: the supplier's answers the request, the distributor's    *)
(* looks the channel up, sends the response on it and closes it.           *)
(*                                                                         *)
(* Request ids are fresh UUIDs (rpc/server/server.go), so a call, its id   *)
(* and its channel have the same name here.  Messages may be lost, delayed *)
(* and delivered several times.  SetBotStatus and the token purchase in    *)
(* ProcessResponseMessage touch none of this module's state but take time: *)
(* they are stages of the call.                                            *)
(***************************************************************************)
EXTENDS Naturals, FiniteSets

CONSTANTS
  Requests,    \* the gRPC calls, each with its request id
  MaxCopies,   \* how often the messenger delivers one message (bound)
  Nil          \* no result yet, no response taken

ASSUME CopiesAssumption == MaxCopies \in Nat \ {0}
Copies == 1..MaxCopies

\* What SendRequestMessage goes through before it waits, in this order:
\* GetBotAddress, IsServiceSupported, NewKey and EncodeMessage, SendMessage.
Preparing == {"resolving", "checking", "encoding", "sending"}

AfterStage ==
  [s \in Preparing |->
     CASE s = "resolving" -> "checking"
       [] s = "checking"  -> "encoding"
       [] s = "encoding"  -> "sending"
       [] s = "sending"   -> "select"]

\* ... and after it: SetBotStatus of either kind, then validation of the
\* response and ProcessResponseMessage.
Finishing == {"reachable", "validating", "processing", "unreachable"}
Stages == Preparing \cup {"select"} \cup Finishing

Results == {"response", "invalid response", "timeout", "error"}

ASSUME NilAssumption == Nil \notin Requests \cup Results

VARIABLES
  pc,                \* stage of each call: "idle", a stage, "returned"
  result,            \* what the call returned
  response,          \* the id of the response the call has taken, or Nil
  responseChannels,  \* ids registered in the map
  closed,            \* channels that were closed
  requestsSent,      \* requests that are on the wire
  responsesSent,     \* responses that are on the wire
  responder,         \* goroutine for each copy of a request (supplier)
  forwarder,         \* goroutine for each copy of a response (distributor)
  served             \* history: requests validateAndRespond has run for

vars == <<pc, result, response, responseChannels, closed, requestsSent,
          responsesSent, responder, forwarder, served>>

ResponderStates == {"none", "decoding", "responding", "replying", "done", "dropped"}
ForwarderStates ==
  {"none", "decoding", "forwarding", "blocked", "closing", "done", "dropped",
   "panicked"}

\* Every variable holds a value of the shape the code declares for it.
TypeOK ==
  /\ pc \in [Requests -> Stages \cup {"idle", "returned"}]
  /\ result \in [Requests -> Results \cup {Nil}]
  /\ response \in [Requests -> Requests \cup {Nil}]
  /\ responseChannels \in SUBSET Requests
  /\ closed \in SUBSET Requests
  /\ requestsSent \in SUBSET Requests
  /\ responsesSent \in SUBSET Requests
  /\ responder \in [Requests \X Copies -> ResponderStates]
  /\ forwarder \in [Requests \X Copies -> ForwarderStates]
  /\ served \in SUBSET Requests

Init ==
  /\ pc = [r \in Requests |-> "idle"]
  /\ result = [r \in Requests |-> Nil]
  /\ response = [r \in Requests |-> Nil]
  /\ responseChannels = {}
  /\ closed = {}
  /\ requestsSent = {}
  /\ responsesSent = {}
  /\ responder = [g \in Requests \X Copies |-> "none"]
  /\ forwarder = [g \in Requests \X Copies |-> "none"]
  /\ served = {}

-----------------------------------------------------------------------------
(* SendRequestMessage.                                                     *)

\* The call makes its channel and registers it before anything else.
StartCall(r) ==
  /\ pc[r] = "idle"
  /\ pc' = [pc EXCEPT ![r] = "resolving"]
  /\ responseChannels' = responseChannels \cup {r}
  /\ UNCHANGED <<result, response, closed, requestsSent, responsesSent,
                 responder, forwarder, served>>

\* Every return runs the deferred deleteResponseChannel.
Return(r, res) ==
  /\ pc' = [pc EXCEPT ![r] = "returned"]
  /\ result' = [result EXCEPT ![r] = res]
  /\ responseChannels' = responseChannels \ {r}

\* A stage before the select succeeds; SendMessage puts the request on the
\* wire.
Prepare(r) ==
  /\ pc[r] \in Preparing
  /\ pc' = [pc EXCEPT ![r] = AfterStage[pc[r]]]
  /\ requestsSent' = IF pc[r] = "sending" THEN requestsSent \cup {r}
                                          ELSE requestsSent
  /\ UNCHANGED <<result, response, responseChannels, closed, responsesSent,
                 responder, forwarder, served>>

\* A stage before the select fails, its context done included.  A SendMessage
\* that returns an error may have posted the whole message all the same.
PrepareFails(r) ==
  /\ pc[r] \in Preparing
  /\ Return(r, "error")
  /\ \/ UNCHANGED requestsSent
     \/ pc[r] = "sending" /\ requestsSent' = requestsSent \cup {r}
  /\ UNCHANGED <<response, closed, responsesSent, responder, forwarder, served>>

\* Mutant: the select has no case for the context.
ContextIgnored(r) == pc[r] = "select" /\ FALSE /\ UNCHANGED vars

\* select, case <-ctx.Done(): the response timeout, or the gRPC client gave
\* up.
ContextDone(r) ==
  /\ pc[r] = "select"
  /\ pc' = [pc EXCEPT ![r] = "unreachable"]
  /\ UNCHANGED <<result, response, responseChannels, closed, requestsSent,
                 responsesSent, responder, forwarder, served>>

\* Mutant: a failed SetBotStatus(reachable) fails the call.
FinishFailsOnStatus(r) ==
  /\ \/ /\ pc[r] = "reachable"
        /\ \/ /\ pc' = [pc EXCEPT ![r] = "validating"]
              /\ UNCHANGED <<result, responseChannels>>
           \/ Return(r, "error")
     \/ pc[r] = "validating" /\ Return(r, "response")
     \/ pc[r] = "unreachable" /\ Return(r, "timeout")
  /\ UNCHANGED <<response, closed, requestsSent, responsesSent, responder,
                 forwarder, served>>

\* After the select.  A failed SetBotStatus is only logged.
Finish(r) ==
  /\ \/ /\ pc[r] = "reachable"
        /\ pc' = [pc EXCEPT ![r] = "validating"]
        /\ UNCHANGED <<result, responseChannels>>
     \/ /\ pc[r] = "validating"
        /\ \/ /\ pc' = [pc EXCEPT ![r] = "processing"]
              /\ UNCHANGED <<result, responseChannels>>
           \/ Return(r, "invalid response")
     \/ pc[r] = "processing" /\ Return(r, "response")
     \/ pc[r] = "unreachable" /\ Return(r, "timeout")
  /\ UNCHANGED <<response, closed, requestsSent, responsesSent, responder,
                 forwarder, served>>

-----------------------------------------------------------------------------
(* The processor loop and the goroutine of a received message.             *)

\* Start: the loop takes a message and starts its goroutine.
ReceiveRequest(r, c) ==
  /\ r \in requestsSent
  /\ responder[<<r, c>>] = "none"
  /\ responder' = [responder EXCEPT ![<<r, c>>] = "decoding"]
  /\ UNCHANGED <<pc, result, response, responseChannels, closed, requestsSent,
                 responsesSent, forwarder, served>>

ReceiveResponse(r, c) ==
  /\ r \in responsesSent
  /\ forwarder[<<r, c>>] = "none"
  /\ forwarder' = [forwarder EXCEPT ![<<r, c>>] = "decoding"]
  /\ UNCHANGED <<pc, result, response, responseChannels, closed, requestsSent,
                 responsesSent, responder, served>>

\* Decoding, signature check and IsBotAllowed: the message is processed or
\* dropped.
DecodeRequest(r, c) ==
  /\ responder[<<r, c>>] = "decoding"
  /\ \E next \in {"responding", "dropped"} :
       responder' = [responder EXCEPT ![<<r, c>>] = next]
  /\ UNCHANGED <<pc, result, response, responseChannels, closed, requestsSent,
                 responsesSent, forwarder, served>>

DecodeResponse(r, c) ==
  /\ forwarder[<<r, c>>] = "decoding"
  /\ \E next \in {"forwarding", "dropped"} :
       forwarder' = [forwarder EXCEPT ![<<r, c>>] = next]
  /\ UNCHANGED <<pc, result, response, responseChannels, closed, requestsSent,
                 responsesSent, responder, served>>

\* Mutant: a request of an unsupported service is answered without being
\* served.
RespondUnserved(r, c) ==
  /\ responder[<<r, c>>] = "responding"
  /\ responder' = [responder EXCEPT ![<<r, c>>] = "replying"]
  /\ served' \in {served, served \cup {r}}
  /\ UNCHANGED <<pc, result, response, responseChannels, closed, requestsSent,
                 responsesSent, forwarder>>

\* respond: without a service for the message type the request is dropped;
\* otherwise validateAndRespond produces a response, of the partner plugin or
\* a validation error.
Respond(r, c) ==
  /\ responder[<<r, c>>] = "responding"
  /\ \/ /\ responder' = [responder EXCEPT ![<<r, c>>] = "replying"]
        /\ served' = served \cup {r}
     \/ /\ responder' = [responder EXCEPT ![<<r, c>>] = "dropped"]
        /\ UNCHANGED served
  /\ UNCHANGED <<pc, result, response, responseChannels, closed, requestsSent,
                 responsesSent, forwarder>>

\* respond: the response is encoded and sent, or one of the two fails.
Reply(r, c) ==
  /\ responder[<<r, c>>] = "replying"
  /\ \/ /\ responder' = [responder EXCEPT ![<<r, c>>] = "done"]
        /\ responsesSent' = responsesSent \cup {r}
     \/ /\ responder' = [responder EXCEPT ![<<r, c>>] = "dropped"]
        /\ responsesSent' \in {responsesSent, responsesSent \cup {r}}
  /\ UNCHANGED <<pc, result, response, responseChannels, closed, requestsSent,
                 forwarder, served>>

-----------------------------------------------------------------------------
(* forwardToHandler.                                                       *)

\* getResponseChannel: the goroutine keeps the channel it found, whatever
\* happens to the map afterwards.
getResponseChannel(r, c) ==
  /\ forwarder[<<r, c>>] = "forwarding"
  /\ forwarder' = [forwarder EXCEPT ![<<r, c>>] =
       IF r \in responseChannels THEN "blocked" ELSE "dropped"]
  /\ UNCHANGED <<pc, result, response, responseChannels, closed, requestsSent,
                 responsesSent, responder, served>>

\* Mutant: the channel is closed as soon as there is a response for it.
ForwardClosesFirst(r, c) ==
  /\ forwarder[<<r, c>>] = "blocked"
  /\ forwarder' = [forwarder EXCEPT ![<<r, c>>] = "closing"]
  /\ closed' = closed \cup {r}
  /\ UNCHANGED <<pc, response, result, responseChannels, requestsSent,
                 responsesSent, responder, served>>

\* responseChan <- msg meets the select: both goroutines go on.
HandOver(r, c) ==
  /\ forwarder[<<r, c>>] = "blocked" /\ r \notin closed
  /\ pc[r] = "select"
  /\ forwarder' = [forwarder EXCEPT ![<<r, c>>] = "closing"]
  /\ pc' = [pc EXCEPT ![r] = "reachable"]
  /\ response' = [response EXCEPT ![r] = r]
  /\ UNCHANGED <<result, responseChannels, closed, requestsSent,
                 responsesSent, responder, served>>

\* Mutant: the goroutine leaves the channel open.
CloseForgotten(r, c) ==
  /\ forwarder[<<r, c>>] = "closing"
  /\ forwarder' = [forwarder EXCEPT ![<<r, c>>] = "done"]
  /\ UNCHANGED <<pc, result, response, responseChannels, closed, requestsSent,
                 responsesSent, responder, served>>

\* close(responseChan); on a closed channel it would panic.
CloseChannel(r, c) ==
  /\ forwarder[<<r, c>>] = "closing"
  /\ forwarder' = [forwarder EXCEPT ![<<r, c>>] =
       IF r \in closed THEN "panicked" ELSE "done"]
  /\ closed' = closed \cup {r}
  /\ UNCHANGED <<pc, result, response, responseChannels, requestsSent,
                 responsesSent, responder, served>>

\* A send on a closed channel panics; the goroutine recovers and ends.
SendPanics(r, c) ==
  /\ forwarder[<<r, c>>] = "blocked" /\ r \in closed
  /\ forwarder' = [forwarder EXCEPT ![<<r, c>>] = "panicked"]
  /\ UNCHANGED <<pc, result, response, responseChannels, closed, requestsSent,
                 responsesSent, responder, served>>

-----------------------------------------------------------------------------
(* Specification.                                                          *)

CallStep(r) == Prepare(r) \/ PrepareFails(r) \/ ContextDone(r) \/ Finish(r)

ResponderStep(r, c) == DecodeRequest(r, c) \/ Respond(r, c) \/ Reply(r, c)

ForwarderStep(r, c) ==
  \/ DecodeResponse(r, c)
  \/ getResponseChannel(r, c)
  \/ HandOver(r, c)
  \/ CloseChannel(r, c)
  \/ SendPanics(r, c)

Next ==
  \E r \in Requests :
    \/ StartCall(r)
    \/ CallStep(r)
    \/ \E c \in Copies :
         \/ ReceiveRequest(r, c)
         \/ ReceiveResponse(r, c)
         \/ ResponderStep(r, c)
         \/ ForwarderStep(r, c)

Spec == Init /\ [][Next]_vars

\* The Go scheduler runs every goroutine that can run, and a context with a
\* timeout is done eventually.  Nothing is assumed of the messenger, nor of
\* the supplier's bot.
Fairness ==
  \A r \in Requests :
    /\ WF_vars(CallStep(r))
    /\ \A c \in Copies : WF_vars(ForwarderStep(r, c))

FairSpec == Spec /\ Fairness

-----------------------------------------------------------------------------
(* Properties.                                                             *)

\* A call that waits in its select never finds its channel closed: it would
\* receive nil and dereference it (SendRequestMessage, protovalidate of
\* responseMsg.Content).  forwardToHandler closes only after a hand-over.
NoNilResponse == \A r \in Requests : pc[r] = "select" => r \notin closed

\* However many copies of a response arrive, one goroutine at most gets past
\* the send of forwardToHandler, so no channel is closed twice.
HandedOver(r) == {c \in Copies : forwarder[<<r, c>>] \in {"closing", "done"}}
SingleHandOver ==
  \A r \in Requests :
    /\ \A c, d \in HandedOver(r) : c = d
    /\ \A c \in Copies : forwarder[<<r, c>>] = "closing" => r \notin closed

\* The map holds a channel exactly for the calls in progress: no return path
\* of SendRequestMessage leaves an entry behind.
ChannelsOfLiveCalls ==
  responseChannels = {r \in Requests : pc[r] \in Stages}

\* A goroutine that is stuck for good in the send of forwardToHandler belongs
\* to a call that has left its select without a response: the lookup came
\* before the timeout and the send after it.  If the call took a response,
\* the channel is closed or about to be, which wakes every other sender.
StuckOnlyAfterTimeout ==
  \A r \in Requests, c \in Copies :
    forwarder[<<r, c>>] = "blocked" /\ pc[r] \in Finishing \cup {"returned"} =>
      \/ response[r] = Nil
      \/ r \in closed
      \/ \E d \in Copies : forwarder[<<r, d>>] = "closing"

\* A response reaches the client only if the supplier's bot has served that
\* very request, and a call whose select saw the context done never reports
\* one.
AnswersAreServed ==
  \A r \in Requests :
    /\ result[r] \in {"response", "invalid response"} =>
         response[r] = r /\ r \in served
    /\ result[r] \in {"timeout", "error"} => response[r] = Nil

\* What the two processors promise the gRPC client (module RequestReply).
Outcome(r) ==
  IF pc[r] = "returned"
  THEN IF result[r] = "response" THEN "answered" ELSE "failed"
  ELSE IF pc[r] = "idle" THEN "idle" ELSE "calling"

Abstract == INSTANCE RequestReply WITH
            call <- [r \in Requests |-> Outcome(r)]

ReplySpec == Abstract!Spec

\* Every call returns, whatever the messenger, the supplier and the other
\* goroutines do.
CallsReturn == \A r \in Requests : pc[r] \in Stages ~> pc[r] = "returned"

=============================================================================
