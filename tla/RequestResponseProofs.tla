------------------------ MODULE RequestResponseProofs ------------------------
(***************************************************************************)
(* Proofs about RequestResponse, for every set of requests and every       *)
(* number of message copies.                                               *)
(***************************************************************************)
EXTENDS RequestResponse, TLAPS

(* The inductive invariant.  Answered(r) is the set of states in which the *)
(* call has taken its response, and Progress relates the stage of a call   *)
(* to what it holds; Channel relates the channel to the goroutines that    *)
(* hold it; Causality follows a response back to the call.                 *)

Answered(r) ==
  \/ pc[r] \in {"reachable", "validating", "processing"}
  \/ pc[r] = "returned" /\ result[r] \in {"response", "invalid response"}

Progress(r) ==
  /\ response[r] \in {Nil, r}
  /\ response[r] # Nil <=> Answered(r)
  /\ pc[r] = "returned" <=> result[r] # Nil

Channel(r) ==
  /\ r \in closed => response[r] # Nil
  /\ response[r] # Nil => r \in closed \/ \E c \in Copies : forwarder[<<r, c>>] = "closing"
  /\ \A c \in Copies : forwarder[<<r, c>>] = "closing" => r \notin closed /\ response[r] # Nil
  /\ \A c \in Copies : forwarder[<<r, c>>] = "done" => r \in closed
  /\ \A c, d \in Copies :
       forwarder[<<r, c>>] \in {"closing", "done"} /\ forwarder[<<r, d>>] \in {"closing", "done"}
         => c = d

Causality(r) ==
  /\ r \in requestsSent => pc[r] # "idle"
  /\ r \in served => r \in requestsSent
  /\ r \in responsesSent => r \in served
  /\ response[r] # Nil => r \in served
  /\ \A c \in Copies :
       /\ responder[<<r, c>>] # "none" => r \in requestsSent
       /\ responder[<<r, c>>] = "replying" => r \in served
       /\ forwarder[<<r, c>>] # "none" => r \in responsesSent

Inv ==
  /\ TypeOK
  /\ ChannelsOfLiveCalls
  /\ \A r \in Requests : Progress(r) /\ Channel(r) /\ Causality(r)

\* The invariant holds initially.
LEMMA InitInv == Init => Inv
BY NilAssumption DEF Init, Inv, TypeOK, ChannelsOfLiveCalls, Progress, Channel, Causality,
   Answered, ResponderStates, ForwarderStates, Stages, Preparing, Finishing, Results

\* The stage after a stage of the preparation is a stage, and the last one is
\* the select.
LEMMA AfterStageType ==
  ASSUME NEW s \in Preparing
  PROVE  AfterStage[s] \in {"checking", "encoding", "sending", "select"}
BY DEF AfterStage, Preparing

\* A new call registers its channel.
LEMMA StartCallInv ==
  ASSUME Inv, NEW r \in Requests, StartCall(r)
  PROVE  Inv'
<1>1. TypeOK'
  BY NilAssumption DEF Inv, TypeOK, StartCall, Stages, Preparing, Finishing, Results,
     ResponderStates, ForwarderStates
<1>2. ChannelsOfLiveCalls'
  BY NilAssumption DEF Inv, TypeOK, ChannelsOfLiveCalls, StartCall, Stages, Preparing,
     Finishing
<1>3. ASSUME NEW q \in Requests
      PROVE  (Progress(q) /\ Channel(q) /\ Causality(q))'
  <2>1. Progress(q) /\ Channel(q) /\ Causality(q)
    BY DEF Inv
  <2>2. Progress(q)'
    BY <2>1, NilAssumption DEF Inv, TypeOK, Progress, Channel, Answered, StartCall, Stages,
       Preparing, Finishing, Results
  <2>3. Channel(q)'
    BY <2>1, NilAssumption DEF Inv, TypeOK, Progress, Channel, Answered, StartCall, Preparing
  <2>4. Causality(q)'
    BY <2>1, NilAssumption DEF Inv, TypeOK, Causality, StartCall, Preparing
  <2> QED  BY <2>2, <2>3, <2>4
<1> QED  BY <1>1, <1>2, <1>3 DEF Inv

\* A stage before the select succeeds.
LEMMA PrepareInv ==
  ASSUME Inv, NEW r \in Requests, Prepare(r)
  PROVE  Inv'
<1>1. TypeOK'
  BY AfterStageType, NilAssumption DEF Inv, TypeOK, Prepare, Stages, Preparing, Finishing, Results,
     ResponderStates, ForwarderStates
<1>2. ChannelsOfLiveCalls'
  BY AfterStageType, NilAssumption DEF Inv, TypeOK, ChannelsOfLiveCalls, Prepare, Stages, Preparing,
     Finishing
<1>3. ASSUME NEW q \in Requests
      PROVE  (Progress(q) /\ Channel(q) /\ Causality(q))'
  <2>1. Progress(q) /\ Channel(q) /\ Causality(q)
    BY DEF Inv
  <2>2. Progress(q)'
    BY <2>1, AfterStageType, NilAssumption DEF Inv, TypeOK, Progress, Channel, Answered, Prepare, Stages,
       Preparing, Finishing, Results
  <2>3. Channel(q)'
    BY <2>1, AfterStageType, NilAssumption DEF Inv, TypeOK, Progress, Channel, Answered, Prepare, Preparing
  <2>4. Causality(q)'
    BY <2>1, AfterStageType, NilAssumption DEF Inv, TypeOK, Causality, Prepare, Preparing
  <2> QED  BY <2>2, <2>3, <2>4
<1> QED  BY <1>1, <1>2, <1>3 DEF Inv

\* A stage before the select fails.
LEMMA PrepareFailsInv ==
  ASSUME Inv, NEW r \in Requests, PrepareFails(r)
  PROVE  Inv'
<1>1. TypeOK'
  BY NilAssumption DEF Inv, TypeOK, PrepareFails, Return, Stages, Preparing, Finishing, Results,
     ResponderStates, ForwarderStates
<1>2. ChannelsOfLiveCalls'
  BY NilAssumption DEF Inv, TypeOK, ChannelsOfLiveCalls, PrepareFails, Return, Stages, Preparing,
     Finishing
<1>3. ASSUME NEW q \in Requests
      PROVE  (Progress(q) /\ Channel(q) /\ Causality(q))'
  <2>1. Progress(q) /\ Channel(q) /\ Causality(q)
    BY DEF Inv
  <2>2. Progress(q)'
    BY <2>1, NilAssumption DEF Inv, TypeOK, Progress, Channel, Answered, PrepareFails, Return, Stages,
       Preparing, Finishing, Results
  <2>3. Channel(q)'
    BY <2>1, NilAssumption DEF Inv, TypeOK, Progress, Channel, Answered, PrepareFails, Return, Preparing
  <2>4. Causality(q)'
    BY <2>1, NilAssumption DEF Inv, TypeOK, Causality, PrepareFails, Return, Preparing
  <2> QED  BY <2>2, <2>3, <2>4
<1> QED  BY <1>1, <1>2, <1>3 DEF Inv

\* The context is done.
LEMMA ContextDoneInv ==
  ASSUME Inv, NEW r \in Requests, ContextDone(r)
  PROVE  Inv'
<1>1. TypeOK'
  BY NilAssumption DEF Inv, TypeOK, ContextDone, Stages, Preparing, Finishing, Results,
     ResponderStates, ForwarderStates
<1>2. ChannelsOfLiveCalls'
  BY NilAssumption DEF Inv, TypeOK, ChannelsOfLiveCalls, ContextDone, Stages, Preparing,
     Finishing
<1>3. ASSUME NEW q \in Requests
      PROVE  (Progress(q) /\ Channel(q) /\ Causality(q))'
  <2>1. Progress(q) /\ Channel(q) /\ Causality(q)
    BY DEF Inv
  <2>2. Progress(q)'
    BY <2>1, NilAssumption DEF Inv, TypeOK, Progress, Channel, Answered, ContextDone, Stages,
       Preparing, Finishing, Results
  <2>3. Channel(q)'
    BY <2>1, NilAssumption DEF Inv, TypeOK, Progress, Channel, Answered, ContextDone, Preparing
  <2>4. Causality(q)'
    BY <2>1, NilAssumption DEF Inv, TypeOK, Causality, ContextDone, Preparing
  <2> QED  BY <2>2, <2>3, <2>4
<1> QED  BY <1>1, <1>2, <1>3 DEF Inv

\* A stage after the select.
LEMMA FinishInv ==
  ASSUME Inv, NEW r \in Requests, Finish(r)
  PROVE  Inv'
<1>1. TypeOK'
  BY NilAssumption DEF Inv, TypeOK, Finish, Return, Stages, Preparing, Finishing, Results,
     ResponderStates, ForwarderStates
<1>2. ChannelsOfLiveCalls'
  BY NilAssumption DEF Inv, TypeOK, ChannelsOfLiveCalls, Finish, Return, Stages, Preparing,
     Finishing
<1>3. ASSUME NEW q \in Requests
      PROVE  (Progress(q) /\ Channel(q) /\ Causality(q))'
  <2>1. Progress(q) /\ Channel(q) /\ Causality(q)
    BY DEF Inv
  <2>2. Progress(q)'
    <3>1. Nil \notin {"response", "invalid response", "timeout"}
      BY NilAssumption DEF Results
    <3>2. UNCHANGED response
      BY DEF Finish
    <3>3. CASE q # r
      <4>1. pc'[q] = pc[q] /\ result'[q] = result[q]
        BY <3>3 DEF Finish, Return, Inv, TypeOK
      <4> QED  BY <2>1, <3>2, <4>1 DEF Progress, Answered
    <3>4. CASE q = r /\ pc[r] = "reachable"
      <4>1. pc'[r] = "validating" /\ result'[r] = result[r]
        BY <3>4 DEF Finish, Return, Inv, TypeOK
      <4> QED  BY <2>1, <3>2, <3>4, <4>1 DEF Progress, Answered
    <3>5. CASE q = r /\ pc[r] = "validating"
      <4>1. \/ pc'[r] = "processing" /\ result'[r] = result[r]
            \/ pc'[r] = "returned" /\ result'[r] = "invalid response"
        BY <3>5 DEF Finish, Return, Inv, TypeOK
      <4> QED  BY <2>1, <3>1, <3>2, <3>5, <4>1 DEF Progress, Answered
    <3>6. CASE q = r /\ pc[r] = "processing"
      <4>1. pc'[r] = "returned" /\ result'[r] = "response"
        BY <3>6 DEF Finish, Return, Inv, TypeOK
      <4> QED  BY <2>1, <3>1, <3>2, <3>6, <4>1 DEF Progress, Answered
    <3>7. CASE q = r /\ pc[r] = "unreachable"
      <4>1. pc'[r] = "returned" /\ result'[r] = "timeout"
        BY <3>7 DEF Finish, Return, Inv, TypeOK
      <4> QED  BY <2>1, <3>1, <3>2, <3>7, <4>1 DEF Progress, Answered
    <3> QED  BY <3>3, <3>4, <3>5, <3>6, <3>7 DEF Finish
  <2>3. Channel(q)'
    BY <2>1, NilAssumption DEF Inv, TypeOK, Progress, Channel, Answered, Finish, Return, Preparing
  <2>4. Causality(q)'
    BY <2>1, NilAssumption DEF Inv, TypeOK, Causality, Finish, Return, Preparing
  <2> QED  BY <2>2, <2>3, <2>4
<1> QED  BY <1>1, <1>2, <1>3 DEF Inv

\* A copy of a request arrives.
LEMMA ReceiveRequestInv ==
  ASSUME Inv, NEW r \in Requests, NEW c \in Copies, ReceiveRequest(r, c)
  PROVE  Inv'
<1>1. TypeOK'
  BY NilAssumption DEF Inv, TypeOK, ReceiveRequest, Stages, Preparing, Finishing, Results,
     ResponderStates, ForwarderStates
<1>2. ChannelsOfLiveCalls'
  BY NilAssumption DEF Inv, TypeOK, ChannelsOfLiveCalls, ReceiveRequest, Stages, Preparing,
     Finishing
<1>3. ASSUME NEW q \in Requests
      PROVE  (Progress(q) /\ Channel(q) /\ Causality(q))'
  <2>1. Progress(q) /\ Channel(q) /\ Causality(q)
    BY DEF Inv
  <2>2. Progress(q)'
    BY <2>1, NilAssumption DEF Inv, TypeOK, Progress, Channel, Answered, ReceiveRequest, Stages,
       Preparing, Finishing, Results
  <2>3. Channel(q)'
    BY <2>1, NilAssumption DEF Inv, TypeOK, Progress, Channel, Answered, ReceiveRequest, Preparing
  <2>4. Causality(q)'
    BY <2>1, NilAssumption DEF Inv, TypeOK, Causality, ReceiveRequest, Preparing
  <2> QED  BY <2>2, <2>3, <2>4
<1> QED  BY <1>1, <1>2, <1>3 DEF Inv

\* A copy of a response arrives.
LEMMA ReceiveResponseInv ==
  ASSUME Inv, NEW r \in Requests, NEW c \in Copies, ReceiveResponse(r, c)
  PROVE  Inv'
<1>1. TypeOK'
  BY NilAssumption DEF Inv, TypeOK, ReceiveResponse, Stages, Preparing, Finishing, Results,
     ResponderStates, ForwarderStates
<1>2. ChannelsOfLiveCalls'
  BY NilAssumption DEF Inv, TypeOK, ChannelsOfLiveCalls, ReceiveResponse, Stages, Preparing,
     Finishing
<1>3. ASSUME NEW q \in Requests
      PROVE  (Progress(q) /\ Channel(q) /\ Causality(q))'
  <2>1. Progress(q) /\ Channel(q) /\ Causality(q)
    BY DEF Inv
  <2>2. Progress(q)'
    BY <2>1, NilAssumption DEF Inv, TypeOK, Progress, Channel, Answered, ReceiveResponse, Stages,
       Preparing, Finishing, Results
  <2>3. Channel(q)'
    BY <2>1, NilAssumption DEF Inv, TypeOK, Progress, Channel, Answered, ReceiveResponse, Preparing
  <2>4. Causality(q)'
    BY <2>1, NilAssumption DEF Inv, TypeOK, Causality, ReceiveResponse, Preparing
  <2> QED  BY <2>2, <2>3, <2>4
<1> QED  BY <1>1, <1>2, <1>3 DEF Inv

\* A request is decoded.
LEMMA DecodeRequestInv ==
  ASSUME Inv, NEW r \in Requests, NEW c \in Copies, DecodeRequest(r, c)
  PROVE  Inv'
<1>1. TypeOK'
  BY NilAssumption DEF Inv, TypeOK, DecodeRequest, Stages, Preparing, Finishing, Results,
     ResponderStates, ForwarderStates
<1>2. ChannelsOfLiveCalls'
  BY NilAssumption DEF Inv, TypeOK, ChannelsOfLiveCalls, DecodeRequest, Stages, Preparing,
     Finishing
<1>3. ASSUME NEW q \in Requests
      PROVE  (Progress(q) /\ Channel(q) /\ Causality(q))'
  <2>1. Progress(q) /\ Channel(q) /\ Causality(q)
    BY DEF Inv
  <2>2. Progress(q)'
    BY <2>1, NilAssumption DEF Inv, TypeOK, Progress, Channel, Answered, DecodeRequest, Stages,
       Preparing, Finishing, Results
  <2>3. Channel(q)'
    BY <2>1, NilAssumption DEF Inv, TypeOK, Progress, Channel, Answered, DecodeRequest, Preparing
  <2>4. Causality(q)'
    BY <2>1, NilAssumption DEF Inv, TypeOK, Causality, DecodeRequest, Preparing
  <2> QED  BY <2>2, <2>3, <2>4
<1> QED  BY <1>1, <1>2, <1>3 DEF Inv

\* The supplier serves a request.
LEMMA RespondInv ==
  ASSUME Inv, NEW r \in Requests, NEW c \in Copies, Respond(r, c)
  PROVE  Inv'
<1>1. TypeOK'
  BY NilAssumption DEF Inv, TypeOK, Respond, Stages, Preparing, Finishing, Results,
     ResponderStates, ForwarderStates
<1>2. ChannelsOfLiveCalls'
  BY NilAssumption DEF Inv, TypeOK, ChannelsOfLiveCalls, Respond, Stages, Preparing,
     Finishing
<1>3. ASSUME NEW q \in Requests
      PROVE  (Progress(q) /\ Channel(q) /\ Causality(q))'
  <2>1. Progress(q) /\ Channel(q) /\ Causality(q)
    BY DEF Inv
  <2>2. Progress(q)'
    BY <2>1, NilAssumption DEF Inv, TypeOK, Progress, Channel, Answered, Respond, Stages,
       Preparing, Finishing, Results
  <2>3. Channel(q)'
    BY <2>1, NilAssumption DEF Inv, TypeOK, Progress, Channel, Answered, Respond, Preparing
  <2>4. Causality(q)'
    BY <2>1, NilAssumption DEF Inv, TypeOK, Causality, Respond, Preparing
  <2> QED  BY <2>2, <2>3, <2>4
<1> QED  BY <1>1, <1>2, <1>3 DEF Inv

\* The supplier sends the response.
LEMMA ReplyInv ==
  ASSUME Inv, NEW r \in Requests, NEW c \in Copies, Reply(r, c)
  PROVE  Inv'
<1>1. TypeOK'
  BY NilAssumption DEF Inv, TypeOK, Reply, Stages, Preparing, Finishing, Results,
     ResponderStates, ForwarderStates
<1>2. ChannelsOfLiveCalls'
  BY NilAssumption DEF Inv, TypeOK, ChannelsOfLiveCalls, Reply, Stages, Preparing,
     Finishing
<1>3. ASSUME NEW q \in Requests
      PROVE  (Progress(q) /\ Channel(q) /\ Causality(q))'
  <2>1. Progress(q) /\ Channel(q) /\ Causality(q)
    BY DEF Inv
  <2>2. Progress(q)'
    BY <2>1, NilAssumption DEF Inv, TypeOK, Progress, Channel, Answered, Reply, Stages,
       Preparing, Finishing, Results
  <2>3. Channel(q)'
    BY <2>1, NilAssumption DEF Inv, TypeOK, Progress, Channel, Answered, Reply, Preparing
  <2>4. Causality(q)'
    BY <2>1, NilAssumption DEF Inv, TypeOK, Causality, Reply, Preparing
  <2> QED  BY <2>2, <2>3, <2>4
<1> QED  BY <1>1, <1>2, <1>3 DEF Inv

\* A response is decoded.
LEMMA DecodeResponseInv ==
  ASSUME Inv, NEW r \in Requests, NEW c \in Copies, DecodeResponse(r, c)
  PROVE  Inv'
<1>1. TypeOK'
  BY NilAssumption DEF Inv, TypeOK, DecodeResponse, Stages, Preparing, Finishing, Results,
     ResponderStates, ForwarderStates
<1>2. ChannelsOfLiveCalls'
  BY NilAssumption DEF Inv, TypeOK, ChannelsOfLiveCalls, DecodeResponse, Stages, Preparing,
     Finishing
<1>3. ASSUME NEW q \in Requests
      PROVE  (Progress(q) /\ Channel(q) /\ Causality(q))'
  <2>1. Progress(q) /\ Channel(q) /\ Causality(q)
    BY DEF Inv
  <2>2. Progress(q)'
    BY <2>1, NilAssumption DEF Inv, TypeOK, Progress, Channel, Answered, DecodeResponse, Stages,
       Preparing, Finishing, Results
  <2>3. Channel(q)'
    <3>1. PICK next \in {"forwarding", "dropped"} :
            forwarder' = [forwarder EXCEPT ![<<r, c>>] = next]
      BY DEF DecodeResponse
    <3>2. \A d \in Copies :
            forwarder'[<<q, d>>] = IF q = r /\ d = c THEN next ELSE forwarder[<<q, d>>]
      BY <3>1 DEF Inv, TypeOK
    <3>3. forwarder[<<r, c>>] = "decoding"
      BY DEF DecodeResponse
    <3>4. UNCHANGED <<closed, response>>
      BY DEF DecodeResponse
    <3> QED  BY <2>1, <3>2, <3>3, <3>4 DEF Channel
  <2>4. Causality(q)'
    BY <2>1, NilAssumption DEF Inv, TypeOK, Causality, DecodeResponse, Preparing
  <2> QED  BY <2>2, <2>3, <2>4
<1> QED  BY <1>1, <1>2, <1>3 DEF Inv

\* The channel is looked up.
LEMMA getResponseChannelInv ==
  ASSUME Inv, NEW r \in Requests, NEW c \in Copies, getResponseChannel(r, c)
  PROVE  Inv'
<1>1. TypeOK'
  BY NilAssumption DEF Inv, TypeOK, getResponseChannel, Stages, Preparing, Finishing, Results,
     ResponderStates, ForwarderStates
<1>2. ChannelsOfLiveCalls'
  BY NilAssumption DEF Inv, TypeOK, ChannelsOfLiveCalls, getResponseChannel, Stages, Preparing,
     Finishing
<1>3. ASSUME NEW q \in Requests
      PROVE  (Progress(q) /\ Channel(q) /\ Causality(q))'
  <2>1. Progress(q) /\ Channel(q) /\ Causality(q)
    BY DEF Inv
  <2>2. Progress(q)'
    BY <2>1, NilAssumption DEF Inv, TypeOK, Progress, Channel, Answered, getResponseChannel, Stages,
       Preparing, Finishing, Results
  <2>3. Channel(q)'
    BY <2>1, NilAssumption DEF Inv, TypeOK, Progress, Channel, Answered, getResponseChannel, Preparing
  <2>4. Causality(q)'
    BY <2>1, NilAssumption DEF Inv, TypeOK, Causality, getResponseChannel, Preparing
  <2> QED  BY <2>2, <2>3, <2>4
<1> QED  BY <1>1, <1>2, <1>3 DEF Inv

\* A response is handed over: the interesting step, since it is the one that
\* makes Answered true and needs the channel to be open.
LEMMA HandOverInv ==
  ASSUME Inv, NEW r \in Requests, NEW c \in Copies, HandOver(r, c)
  PROVE  Inv'
<1>1. TypeOK'
  BY NilAssumption DEF Inv, TypeOK, HandOver, Stages, Preparing, Finishing, Results,
     ResponderStates, ForwarderStates
<1>2. ChannelsOfLiveCalls'
  BY NilAssumption DEF Inv, TypeOK, ChannelsOfLiveCalls, HandOver, Stages, Preparing,
     Finishing
<1>3. ASSUME NEW q \in Requests
      PROVE  (Progress(q) /\ Channel(q) /\ Causality(q))'
  <2>1. Progress(q) /\ Channel(q) /\ Causality(q)
    BY DEF Inv
  <2>2. Progress(q)'
    BY <2>1, NilAssumption DEF Inv, TypeOK, Progress, Channel, Answered, HandOver, Stages,
       Preparing, Finishing, Results
  <2>3. Channel(q)'
    <3>1. /\ response[r] = Nil /\ r \notin closed /\ UNCHANGED closed
          /\ \A p \in Requests : response'[p] = IF p = r THEN r ELSE response[p]
      BY DEF Inv, TypeOK, Progress, Answered, HandOver
    <3>2. \A d \in Copies :
            forwarder'[<<q, d>>] = IF q = r /\ d = c THEN "closing" ELSE forwarder[<<q, d>>]
      BY DEF Inv, TypeOK, HandOver
    <3>3. CASE q = r
      <4>1. \A d \in Copies : forwarder[<<q, d>>] \notin {"closing", "done"}
        BY <2>1, <3>1, <3>3 DEF Channel
      <4> QED  BY <3>1, <3>2, <3>3, <4>1, NilAssumption DEF Channel
    <3>4. CASE q # r
      <4>1. /\ \A d \in Copies : forwarder'[<<q, d>>] = forwarder[<<q, d>>]
            /\ response'[q] = response[q]
        BY <3>1, <3>2, <3>4
      <4> QED  BY <2>1, <3>1, <4>1 DEF Channel
    <3> QED  BY <3>3, <3>4
  <2>4. Causality(q)'
    BY <2>1, NilAssumption DEF Inv, TypeOK, Causality, HandOver, Preparing
  <2> QED  BY <2>2, <2>3, <2>4
<1> QED  BY <1>1, <1>2, <1>3 DEF Inv

\* The channel is closed; only the goroutine that handed over does it.
LEMMA CloseChannelInv ==
  ASSUME Inv, NEW r \in Requests, NEW c \in Copies, CloseChannel(r, c)
  PROVE  Inv'
<1>1. TypeOK'
  BY NilAssumption DEF Inv, TypeOK, CloseChannel, Stages, Preparing, Finishing, Results,
     ResponderStates, ForwarderStates
<1>2. ChannelsOfLiveCalls'
  BY NilAssumption DEF Inv, TypeOK, ChannelsOfLiveCalls, CloseChannel, Stages, Preparing,
     Finishing
<1>3. ASSUME NEW q \in Requests
      PROVE  (Progress(q) /\ Channel(q) /\ Causality(q))'
  <2>1. Progress(q) /\ Channel(q) /\ Causality(q)
    BY DEF Inv
  <2>2. Progress(q)'
    BY <2>1, NilAssumption DEF Inv, TypeOK, Progress, Channel, Answered, CloseChannel, Stages,
       Preparing, Finishing, Results
  <2>3. Channel(q)'
    <3>1. /\ forwarder[<<r, c>>] = "closing" /\ r \notin closed /\ response[r] # Nil
          /\ closed' = closed \cup {r}
          /\ UNCHANGED response
      BY DEF Inv, Channel, CloseChannel
    <3>2. \A d \in Copies :
            forwarder'[<<q, d>>] = IF q = r /\ d = c THEN "done" ELSE forwarder[<<q, d>>]
      BY <3>1 DEF Inv, TypeOK, CloseChannel
    <3>3. CASE q = r
      <4>1. \A d \in Copies : d # c => forwarder[<<q, d>>] \notin {"closing", "done"}
        BY <2>1, <3>1, <3>3 DEF Channel
      <4> QED  BY <3>1, <3>2, <3>3, <4>1 DEF Channel
    <3>4. CASE q # r
      <4>1. /\ \A d \in Copies : forwarder'[<<q, d>>] = forwarder[<<q, d>>]
            /\ q \in closed' <=> q \in closed
        BY <3>1, <3>2, <3>4
      <4> QED  BY <2>1, <3>1, <4>1 DEF Channel
    <3> QED  BY <3>3, <3>4
  <2>4. Causality(q)'
    BY <2>1, NilAssumption DEF Inv, TypeOK, Causality, CloseChannel, Preparing
  <2> QED  BY <2>2, <2>3, <2>4
<1> QED  BY <1>1, <1>2, <1>3 DEF Inv

\* A send on the closed channel.
LEMMA SendPanicsInv ==
  ASSUME Inv, NEW r \in Requests, NEW c \in Copies, SendPanics(r, c)
  PROVE  Inv'
<1>1. TypeOK'
  BY NilAssumption DEF Inv, TypeOK, SendPanics, Stages, Preparing, Finishing, Results,
     ResponderStates, ForwarderStates
<1>2. ChannelsOfLiveCalls'
  BY NilAssumption DEF Inv, TypeOK, ChannelsOfLiveCalls, SendPanics, Stages, Preparing,
     Finishing
<1>3. ASSUME NEW q \in Requests
      PROVE  (Progress(q) /\ Channel(q) /\ Causality(q))'
  <2>1. Progress(q) /\ Channel(q) /\ Causality(q)
    BY DEF Inv
  <2>2. Progress(q)'
    BY <2>1, NilAssumption DEF Inv, TypeOK, Progress, Channel, Answered, SendPanics, Stages,
       Preparing, Finishing, Results
  <2>3. Channel(q)'
    BY <2>1, NilAssumption DEF Inv, TypeOK, Progress, Channel, Answered, SendPanics, Preparing
  <2>4. Causality(q)'
    BY <2>1, NilAssumption DEF Inv, TypeOK, Causality, SendPanics, Preparing
  <2> QED  BY <2>2, <2>3, <2>4
<1> QED  BY <1>1, <1>2, <1>3 DEF Inv
\* Every step preserves the invariant.
LEMMA NextInv == Inv /\ [Next]_vars => Inv'
<1> SUFFICES ASSUME Inv, [Next]_vars  PROVE Inv'
  OBVIOUS
<1>1. CASE UNCHANGED vars
  <2>1. TypeOK' /\ ChannelsOfLiveCalls'
    BY <1>1 DEF vars, Inv, TypeOK, ChannelsOfLiveCalls
  <2>2. ASSUME NEW q \in Requests  PROVE (Progress(q) /\ Channel(q) /\ Causality(q))'
    <3>1. Progress(q) /\ Channel(q) /\ Causality(q)  BY DEF Inv
    <3>2. Progress(q)'   BY <1>1, <3>1 DEF vars, Progress, Answered
    <3>3. Channel(q)'    BY <1>1, <3>1 DEF vars, Channel
    <3>4. Causality(q)'  BY <1>1, <3>1 DEF vars, Causality
    <3> QED  BY <3>2, <3>3, <3>4
  <2> QED  BY <2>1, <2>2 DEF Inv
<1>2. CASE Next
  <2>1. PICK r \in Requests :
          \/ StartCall(r) \/ CallStep(r)
          \/ \E c \in Copies : \/ ReceiveRequest(r, c) \/ ReceiveResponse(r, c)
                              \/ ResponderStep(r, c) \/ ForwarderStep(r, c)
    BY <1>2 DEF Next
  <2>2. CASE StartCall(r) \/ CallStep(r)
    BY <2>2, StartCallInv, PrepareInv, PrepareFailsInv, ContextDoneInv, FinishInv DEF CallStep
  <2>3. ASSUME NEW c \in Copies,
               ReceiveRequest(r, c) \/ ReceiveResponse(r, c) \/ ResponderStep(r, c)
        PROVE  Inv'
    BY <2>3, ReceiveRequestInv, ReceiveResponseInv, DecodeRequestInv, RespondInv, ReplyInv
       DEF ResponderStep
  <2>4. ASSUME NEW c \in Copies, ForwarderStep(r, c)  PROVE Inv'
    BY <2>4, DecodeResponseInv, getResponseChannelInv, HandOverInv, CloseChannelInv,
       SendPanicsInv DEF ForwarderStep
  <2> QED  BY <2>1, <2>2, <2>3, <2>4
<1> QED  BY <1>1, <1>2 DEF Next

\* The inductive invariant is an invariant of the two processors.
THEOREM Invariance == Spec => []Inv
<1>1. Init => Inv              BY InitInv
<1>2. Inv /\ [Next]_vars => Inv'  BY NextInv
<1> QED  BY <1>1, <1>2, PTL DEF Spec

\* SendRequestMessage, the channel map and the goroutines keep their types.
THEOREM TypeCorrect == Spec => []TypeOK
<1>1. Inv => TypeOK  BY DEF Inv
<1> QED  BY <1>1, Invariance, PTL

\* A call that waits never reads nil from a closed channel, for any number of
\* calls and of copies of a response.
THEOREM NoNilResponseHolds == Spec => []NoNilResponse
<1>1. Inv => NoNilResponse
  BY DEF Inv, NoNilResponse, Progress, Channel, Answered
<1> QED  BY <1>1, Invariance, PTL

\* At most one goroutine hands a response over, and no channel is closed
\* twice.
THEOREM SingleHandOverHolds == Spec => []SingleHandOver
<1>1. Inv => SingleHandOver
  BY DEF Inv, SingleHandOver, HandedOver, Channel
<1> QED  BY <1>1, Invariance, PTL

\* No return path of SendRequestMessage leaves its channel in the map.
THEOREM ChannelsOfLiveCallsHolds == Spec => []ChannelsOfLiveCalls
<1>1. Inv => ChannelsOfLiveCalls  BY DEF Inv
<1> QED  BY <1>1, Invariance, PTL

\* A goroutine is stuck in forwardToHandler only if its call left without a
\* response.
THEOREM StuckOnlyAfterTimeoutHolds == Spec => []StuckOnlyAfterTimeout
<1>1. Inv => StuckOnlyAfterTimeout
  BY DEF Inv, StuckOnlyAfterTimeout, Channel
<1> QED  BY <1>1, Invariance, PTL

\* A client gets a response only to a request the supplier has served.
THEOREM AnswersAreServedHolds == Spec => []AnswersAreServed
<1>1. Inv => AnswersAreServed
  <2> SUFFICES ASSUME Inv, NEW r \in Requests
               PROVE  /\ result[r] \in {"response", "invalid response"} =>
                           response[r] = r /\ r \in served
                      /\ result[r] \in {"timeout", "error"} => response[r] = Nil
    BY DEF AnswersAreServed
  <2>1. Progress(r) /\ Causality(r)  BY DEF Inv
  <2>2. Nil \notin {"response", "invalid response", "timeout", "error"}
    BY NilAssumption DEF Results
  <2> QED  BY <2>1, <2>2 DEF Progress, Causality, Answered
<1> QED  BY <1>1, Invariance, PTL
-----------------------------------------------------------------------------
(* Refinement: the goroutines and the wire implement RequestReply.         *)

Calls == [r \in Requests |-> Outcome(r)]

\* Only StartCall and Return change the outcome of a call.
LEMMA OutcomeOf ==
  ASSUME NEW r \in Requests
  PROVE  /\ pc[r] = "idle" => Outcome(r) = "idle"
         /\ pc[r] \in Stages => Outcome(r) = "calling"
BY DEF Outcome, Stages, Preparing, Finishing

\* Starting a call is Call.
LEMMA StartCallRefines ==
  ASSUME Inv, NEW r \in Requests, StartCall(r)
  PROVE  Abstract!Call(r)
<1>1. \A q \in Requests : pc'[q] = IF q = r THEN "resolving" ELSE pc[q]
  BY DEF StartCall, Inv, TypeOK
<1>2. UNCHANGED <<result, served>>
  BY DEF StartCall
<1>3. pc[r] = "idle"
  BY DEF StartCall
<1>4. \A q \in Requests : Outcome(q)' = IF q = r THEN "calling" ELSE Outcome(q)
  BY <1>1, <1>2 DEF Outcome
<1>5. Calls[r] = "idle"
  BY <1>3 DEF Calls, Outcome
<1>6. Calls' = [Calls EXCEPT ![r] = "calling"]
  BY <1>4 DEF Calls
<1> QED  BY <1>2, <1>5, <1>6 DEF Abstract!Call, Calls

\* A return is Answer or Fail.
LEMMA ReturnRefines ==
  ASSUME Inv, NEW r \in Requests, NEW res \in Results, pc[r] \in Stages,
         Return(r, res), UNCHANGED served, res = "response" => r \in served
  PROVE  Abstract!Answer(r) \/ Abstract!Fail(r)
<1> DEFINE out == IF res = "response" THEN "answered" ELSE "failed"
<1>1. \A q \in Requests : /\ pc'[q] = IF q = r THEN "returned" ELSE pc[q]
                          /\ result'[q] = IF q = r THEN res ELSE result[q]
  BY DEF Return, Inv, TypeOK
<1>2. \A q \in Requests : Outcome(q)' = IF q = r THEN out ELSE Outcome(q)
  BY <1>1 DEF Outcome
<1>3. Calls[r] = "calling"
  BY OutcomeOf DEF Calls
<1>4. Calls' = [Calls EXCEPT ![r] = out]
  BY <1>2 DEF Calls
<1> QED  BY <1>3, <1>4 DEF Abstract!Answer, Abstract!Fail, Calls

\* A step that keeps every call among the stages keeps the outcomes.
LEMMA StageRefines ==
  ASSUME Inv, NEW r \in Requests, NEW s \in Stages, pc[r] \in Stages,
         pc' = [pc EXCEPT ![r] = s], UNCHANGED <<result, served>>
  PROVE  UNCHANGED Abstract!vars
<1>1. \A q \in Requests : pc'[q] = IF q = r THEN s ELSE pc[q]
  BY DEF Inv, TypeOK
<1>2. \A q \in Requests : Outcome(q)' = Outcome(q)
  BY <1>1 DEF Outcome, Stages, Preparing, Finishing
<1> QED  BY <1>2 DEF Abstract!vars, Calls

\* A step of another goroutine keeps the outcomes.
LEMMA OutcomeUnchanged ==
  ASSUME UNCHANGED <<pc, result, served>>
  PROVE  UNCHANGED Abstract!vars
BY DEF Abstract!vars, Outcome

\* The supplier serving a request is Serve.
LEMMA ServeRefines ==
  ASSUME Inv, NEW r \in Requests, NEW c \in Copies, Respond(r, c)
  PROVE  Abstract!Serve(r) \/ UNCHANGED Abstract!vars
<1>1. UNCHANGED <<pc, result>>
  BY DEF Respond
<1>2. CASE UNCHANGED served
  BY <1>1, <1>2, OutcomeUnchanged
<1>3. CASE served' = served \cup {r}
  <2>1. pc[r] # "idle"
    BY DEF Respond, Inv, Causality
  <2>2. Calls[r] # "idle"
    BY <2>1 DEF Calls, Outcome
  <2>3. UNCHANGED Calls
    BY <1>1 DEF Calls, Outcome
  <2> QED  BY <1>3, <2>2, <2>3 DEF Abstract!Serve, Calls
<1> QED  BY <1>2, <1>3 DEF Respond

\* Every step of the processors is a step of RequestReply or invisible.
LEMMA StepRefines ==
  ASSUME Inv, [Next]_vars
  PROVE  [Abstract!Next]_(Abstract!vars)
<1>1. CASE UNCHANGED vars
  BY <1>1, OutcomeUnchanged DEF vars
<1>2. ASSUME NEW r \in Requests, StartCall(r)  PROVE Abstract!Next
  BY <1>2, StartCallRefines DEF Abstract!Next
<1>3. ASSUME NEW r \in Requests, CallStep(r)
      PROVE  Abstract!Next \/ UNCHANGED Abstract!vars
  <2>1. CASE Prepare(r)
    <3>1. AfterStage[pc[r]] \in Stages
      BY <2>1, AfterStageType DEF Prepare, Stages, Preparing
    <3> QED  BY <2>1, <3>1, StageRefines DEF Prepare, Stages
  <2>2. CASE PrepareFails(r)
    BY <2>2, ReturnRefines DEF PrepareFails, Stages, Results, Abstract!Next
  <2>3. CASE ContextDone(r)
    BY <2>3, StageRefines DEF ContextDone, Stages, Finishing
  <2>4. CASE Finish(r)
    <3>1. pc[r] \in {"reachable", "validating", "processing"} => r \in served
      BY DEF Inv, Progress, Causality, Answered
    <3>2. pc[r] \in Stages /\ UNCHANGED served
      BY <2>4 DEF Finish, Stages, Finishing
    <3>3. CASE \E s \in Stages : pc' = [pc EXCEPT ![r] = s] /\ UNCHANGED result
      BY <3>2, <3>3, StageRefines
    <3>4. CASE \E res \in Results : Return(r, res) /\ (res = "response" => r \in served)
      BY <3>2, <3>4, ReturnRefines DEF Abstract!Next
    <3>5. "validating" \in Stages /\ "processing" \in Stages
      BY DEF Stages, Finishing
    <3>6. {"response", "invalid response", "timeout"} \subseteq Results
      BY DEF Results
    <3> QED  BY <2>4, <3>1, <3>3, <3>4, <3>5, <3>6 DEF Finish
  <2> QED  BY <1>3, <2>1, <2>2, <2>3, <2>4 DEF CallStep
<1>4. ASSUME NEW r \in Requests, NEW c \in Copies,
             ReceiveRequest(r, c) \/ ReceiveResponse(r, c) \/ ResponderStep(r, c)
      PROVE  Abstract!Next \/ UNCHANGED Abstract!vars
  <2>1. CASE Respond(r, c)
    BY <2>1, ServeRefines DEF Abstract!Next
  <2>2. CASE ~Respond(r, c)
    <3>1. UNCHANGED <<pc, result, served>>
      BY <1>4, <2>2 DEF ReceiveRequest, ReceiveResponse, ResponderStep, DecodeRequest, Reply
    <3> QED  BY <3>1, OutcomeUnchanged
  <2> QED  BY <2>1, <2>2
<1>5. ASSUME NEW r \in Requests, NEW c \in Copies, ForwarderStep(r, c)
      PROVE  UNCHANGED Abstract!vars
  <2>1. CASE HandOver(r, c)
    <3>1. "select" \in Stages /\ "reachable" \in Stages
      BY DEF Stages, Finishing
    <3> QED  BY <2>1, <3>1, StageRefines DEF HandOver
  <2>2. CASE ~HandOver(r, c)
    <3>1. UNCHANGED <<pc, result, served>>
      BY <1>5, <2>2 DEF ForwarderStep, DecodeResponse, getResponseChannel, CloseChannel,
         SendPanics
    <3> QED  BY <3>1, OutcomeUnchanged
  <2> QED  BY <2>1, <2>2
<1> QED  BY <1>1, <1>2, <1>3, <1>4, <1>5 DEF Next

\* The processors of the two bots, their channel map and the wire between them
\* implement calls that return once and answer only what was served.
THEOREM Refinement == Spec => ReplySpec
<1>1. Init => Abstract!Init
  BY DEF Init, Abstract!Init, Outcome
<1>2. Inv /\ [Next]_vars => [Abstract!Next]_(Abstract!vars)
  BY StepRefines
<1> QED  BY <1>1, <1>2, Invariance, PTL DEF Spec, ReplySpec, Abstract!Spec
=============================================================================
