--------------------------- MODULE MintFlowProofs ---------------------------
(***************************************************************************)
(* AnsweredIsBought, PurchaseReported and MintedIsWatched, for any number  *)
(* of delivered copies and of nodes, any prices and any answers of the     *)
(* partner plugin.  The invariant says of each copy which transaction,     *)
(* reservation and response go with the stage of its handler, and of the   *)
(* call that a purchase is under way only from "buy wait" on, for the      *)
(* token of the one response it has taken, whose price no longer changes.  *)
(***************************************************************************)
EXTENDS MintFlow, TLAPS

\* What the handlers and the contract store is a function of the copy.
Tables ==
  /\ order = [c \in Copies |-> order[c]]
  /\ answer = [c \in Copies |-> answer[c]]
  /\ reservation = [c \in Copies |-> reservation[c]]

\* The window that verifyAndFixBuyableUntil leaves an offer.
InWindow(until) == until \in (1 + Minimal)..(now + Maximal)

\* A copy: its stage, its transaction, and what the contract holds for it.
CopyAgrees(c) ==
  /\ sup[c] \in {"idle", "minting"} => mintTx[c] = "none"
  /\ sup[c] = "subscribing" => mintTx[c] = "mined"
  /\ sup[c] # "answered" => answer[c] = Nil
  /\ sup[c] = "minting" \/ mintTx[c] # "none" => InWindow(order[c].until)
  /\ mintTx[c] # "mined" => reservation[c] = Nil
  /\ mintTx[c] = "mined" => reservation[c].until = order[c].until

\* A copy that is answered and whose token exists or may come to exist.
CopyWatched(c) ==
  /\ sup[c] = "answered" /\ mintTx[c] \in {"pending", "mined"}
       => c \in watched \/ unwatched[c] # Nil
  /\ answer[c] # Nil /\ answer[c].status = "success"
       => c \in watched \/ unwatched[c] = "not subscribed"

CopiesAgree == \A c \in Copies : CopyAgrees(c) /\ CopyWatched(c)

\* The call: its stage and its purchase.
CallAgrees ==
  /\ bought = IF buyTx = "mined" THEN {taken} ELSE {}
  /\ buyTx # "none" => dist \in {"buy wait", "watching", "returned"}
  /\ buyTx = "pending" => dist = "buy wait" \/ cutOff \/ lostReply
  /\ buyTx = "mined" =>
       dist \in {"buy wait", "watching"} \/ result = "bought" \/ cutOff \/ lostReply
  /\ result = "bought" \/ dist = "watching" => buyTx = "mined"

\* The response the call has taken, and the price it buys at.
TakenAgrees ==
  /\ dist \in {"polling", "buying", "buy wait", "watching"} \/ buyTx # "none" =>
       /\ taken \in Copies /\ answer[taken] # Nil
       /\ version # 3 => answer[taken].price = request.expected
  /\ buyTx = "mined" =>
       /\ mintTx[taken] = "mined"
       /\ reservation[taken].amount = Wanted.amount
       /\ reservation[taken].paymentToken = Wanted.paymentToken

\* pollTokenVisible starts from nothing and stops at the bound.
AttemptsLeft ==
  /\ dist \in {"idle", "waiting"} => attempt = 0
  /\ dist = "polling" => attempt < MaxAttempts

MintInv ==
  TypeOK /\ Tables /\ now >= 1 /\ CopiesAgree /\ CallAgrees /\ TakenAgrees /\ AttemptsLeft

-----------------------------------------------------------------------------
\* What is minted is offered for a time within the window.
LEMMA OrderInWindow ==
  ASSUME NEW p \in PluginResponses, now \in Nat, now >= 1,
         PrepareResponseMessage(p).kind = "mint"
  PROVE  InWindow(PrepareResponseMessage(p).until)
<1> DEFINE until == verifyAndFixBuyableUntil(p.until, now)
<1>1. /\ p.until \in Nat
      /\ Default \in Nat /\ Minimal \in Nat /\ Maximal \in Nat
      /\ Minimal <= Default /\ Default <= Maximal
  BY MintAssumption, AnswerAssumption
<1>2. until # Nil => InWindow(until)
  BY <1>1 DEF verifyAndFixBuyableUntil, InWindow
<1>3. ASSUME NEW v, NEW uri, Order(v, p, uri).kind = "mint"
      PROVE  InWindow(Order(v, p, uri).until)
  <2> HIDE DEF until
  <2>1. until # Nil /\ Order(v, p, uri).until = until
    BY <1>3 DEF Order, Refused, until
  <2> QED BY <1>2, <2>1
<1> QED
  BY <1>3 DEF PrepareResponseMessage, prepareMintResponseV3, prepareMintResponseV4,
              prepareMintResponseV5, NoMint, Refused

\* An answer that reports a success is not passed on as it is.
LEMMA PassedIsNoSuccess ==
  ASSUME NEW p \in PluginResponses, PrepareResponseMessage(p).kind = "pass"
  PROVE  p.status # "success"
<1>1. ASSUME NEW v, NEW uri
      PROVE  Order(v, p, uri).kind # "pass"
  BY DEF Order, Refused
<1> QED
  BY <1>1 DEF PrepareResponseMessage, prepareMintResponseV3, prepareMintResponseV4,
              prepareMintResponseV5, NoMint, Refused

\* An error response is no success.
LEMMA ErrIsNoSuccess == mintErrResponse.status # "success"
BY DEF mintErrResponse

\* Before the call nothing is minted and nothing bought.
LEMMA MintInitInv == Init => MintInv
<1> SUFFICES ASSUME Init PROVE MintInv
  OBVIOUS
<1>1. TypeOK
  <2>1. request \in [buyer : {Nil, "own account"}, expected : ExpectedPrices]
    <3>1. [buyer : {Nil}, expected : ExpectedPrices]
            \subseteq [buyer : {Nil, "own account"}, expected : ExpectedPrices]
      OBVIOUS
    <3> QED BY <3>1 DEF Init
  <2>2. version \in MintVersions /\ now = 1 /\ attempt = 0
    BY DEF Init
  <2>3. 0 \in 0..MaxAttempts
    BY MintAssumption
  <2>4. cutOff \in BOOLEAN /\ lostReply \in BOOLEAN
    BY DEF Init
  <2>5. /\ sup \in [Copies -> {"idle", "minting", "mint wait", "subscribing", "answered"}]
        /\ mintTx \in [Copies -> TxStates] /\ visible \in [Copies -> SUBSET Backends]
        /\ unwatched \in [Copies -> {Nil} \cup Reasons]
    BY DEF Init, TxStates
  <2>6. /\ watched \subseteq Copies /\ bought \subseteq Copies
        /\ dist \in {"idle", "waiting", "polling", "buying", "buy wait", "watching", "returned"}
        /\ taken \in Copies \cup {Nil} /\ buyTx \in TxStates /\ result \in Results
    BY DEF Init, TxStates, Results
  <2> QED BY <2>1, <2>2, <2>3, <2>4, <2>5, <2>6 DEF TypeOK
<1>2. Tables /\ now >= 1
  BY DEF Init, Tables
<1>3. CopiesAgree
  BY DEF Init, CopiesAgree, CopyAgrees, CopyWatched
<1>4. CallAgrees /\ TakenAgrees /\ AttemptsLeft
  BY NilAssumption DEF Init, CallAgrees, TakenAgrees, AttemptsLeft
<1> QED BY <1>1, <1>2, <1>3, <1>4 DEF MintInv

-----------------------------------------------------------------------------
\* A step of the supplier's handlers that changes neither the response the call
\* has taken nor a reservation leaves the call as it is.
LEMMA CallKept ==
  ASSUME MintInv, UNCHANGED <<callVars, buyTx, bought, reservation, distVars>>,
         \A c \in Copies : mintTx[c] = "mined" => mintTx'[c] = "mined",
         \A c \in Copies : answer[c] # Nil => answer'[c] = answer[c]
  PROVE  CallAgrees' /\ TakenAgrees' /\ AttemptsLeft'
<1>1. CallAgrees' /\ AttemptsLeft'
  BY DEF MintInv, CallAgrees, AttemptsLeft, distVars
<1>2. TakenAgrees'
  <2>1. ASSUME dist \in {"polling", "buying", "buy wait", "watching"} \/ buyTx # "none"
        PROVE  taken \in Copies /\ answer[taken] # Nil /\ answer'[taken] = answer[taken]
    BY <2>1 DEF MintInv, TakenAgrees
  <2>2. version' = version /\ request' = request /\ taken' = taken /\ dist' = dist
        /\ buyTx' = buyTx /\ reservation' = reservation
    BY DEF callVars, distVars
  <2>3. ASSUME buyTx # "none" PROVE Wanted' = Wanted
    BY <2>1, <2>2, <2>3 DEF Wanted
  <2> QED BY <2>1, <2>2, <2>3 DEF MintInv, TakenAgrees
<1> QED BY <1>1, <1>2

\* PluginAnswers: a copy that was idle is answered, or is to be minted.
LEMMA PluginAnswersKeeps ==
  ASSUME MintInv, NEW c \in Copies, NEW p \in PluginResponses, PluginAnswers(c, p)
  PROVE  MintInv'
<1> DEFINE o == PrepareResponseMessage(p)
<1>0. UNCHANGED <<callVars, now, chainVars, watched, unwatched, distVars>> /\ sup[c] = "idle"
  BY DEF PluginAnswers
<1>1. \A d \in Copies \ {c} : sup'[d] = sup[d] /\ answer'[d] = answer[d] /\ order'[d] = order[d]
  BY DEF PluginAnswers, MintInv, TypeOK, Tables
<1>2. \/ sup'[c] = "answered" /\ answer'[c].status # "success" /\ order'[c] = order[c]
      \/ sup'[c] = "minting" /\ answer'[c] = answer[c] /\ InWindow(order'[c].until)
  <2>1. CASE o.kind = "pass"
    <3>1. sup' = [sup EXCEPT ![c] = "answered"] /\ order' = order
          /\ answer' = [answer EXCEPT ![c] = PassedOn(p)]
      BY <2>1 DEF PluginAnswers
    <3>2. answer'[c] = PassedOn(p) /\ sup'[c] = "answered"
      BY <3>1 DEF MintInv, TypeOK, Tables
    <3>3. PassedOn(p).status # "success"
      BY <2>1, PassedIsNoSuccess DEF PassedOn
    <3> QED BY <3>1, <3>2, <3>3
  <2>2. CASE o.kind = "error"
    <3>1. sup' = [sup EXCEPT ![c] = "answered"] /\ order' = order
          /\ answer' = [answer EXCEPT ![c] = mintErrResponse]
      BY <2>2 DEF PluginAnswers
    <3>2. answer'[c] = mintErrResponse /\ sup'[c] = "answered"
      BY <3>1 DEF MintInv, TypeOK, Tables
    <3>3. mintErrResponse.status # "success"
      BY DEF mintErrResponse
    <3> QED BY <3>1, <3>2, <3>3
  <2>3. CASE o.kind = "mint"
    BY <2>3, OrderInWindow DEF PluginAnswers, MintInv, TypeOK, Tables
  <2> QED BY <2>1, <2>2, <2>3 DEF PluginAnswers
<1>3. TypeOK' /\ Tables' /\ now' >= 1
  <2>1. sup' \in [Copies -> {"idle", "minting", "mint wait", "subscribing", "answered"}]
    BY DEF PluginAnswers, MintInv, TypeOK
  <2>2. Tables'
    BY DEF PluginAnswers, MintInv, Tables, chainVars
  <2> QED BY <1>0, <2>1, <2>2 DEF MintInv, TypeOK, callVars, chainVars, distVars
<1>4. CopiesAgree'
  <2> SUFFICES ASSUME NEW d \in Copies PROVE (CopyAgrees(d) /\ CopyWatched(d))'
    BY DEF CopiesAgree
  <2>0. CopyAgrees(d) /\ CopyWatched(d) /\ CopyAgrees(c)
    BY DEF MintInv, CopiesAgree
  <2>1. CASE d # c
    BY <1>0, <1>1, <2>0, <2>1 DEF CopyAgrees, CopyWatched, chainVars, InWindow
  <2>2. CASE d = c
    BY <1>0, <1>2, <2>0, <2>2 DEF CopyAgrees, CopyWatched, chainVars, InWindow
  <2> QED BY <2>1, <2>2
<1>5. \A d \in Copies : answer[d] # Nil => answer'[d] = answer[d]
  BY <1>0, <1>1 DEF MintInv, CopiesAgree, CopyAgrees
<1>6. CallAgrees' /\ TakenAgrees' /\ AttemptsLeft'
  BY <1>0, <1>5, CallKept DEF chainVars
<1> QED BY <1>3, <1>4, <1>6 DEF MintInv

\* A step of the handler of c that leaves the chain alone, but for its own
\* transaction, and answers with an error or goes on, keeps the others.
LEMMA OthersKept ==
  ASSUME MintInv, NEW c \in Copies,
         UNCHANGED <<callVars, now, order, reservation, visible, buyTx, bought, distVars>>,
         \A d \in Copies \ {c} : sup'[d] = sup[d] /\ answer'[d] = answer[d],
         \A d \in Copies \ {c} : mintTx'[d] = mintTx[d] /\ unwatched'[d] = unwatched[d],
         watched \subseteq watched',
         sup[c] # "answered", mintTx[c] = "mined" => mintTx'[c] = "mined",
         TypeOK', answer' = [d \in Copies |-> answer'[d]],
         (CopyAgrees(c) /\ CopyWatched(c))'
  PROVE  MintInv'
<1>0. answer[c] = Nil
  BY DEF MintInv, CopiesAgree, CopyAgrees
<1>1. \A d \in Copies : answer[d] # Nil => answer'[d] = answer[d]
  BY <1>0
<1>2. CallAgrees' /\ TakenAgrees' /\ AttemptsLeft'
  BY <1>1, CallKept
<1>3. CopiesAgree'
  <2> SUFFICES ASSUME NEW d \in Copies \ {c} PROVE (CopyAgrees(d) /\ CopyWatched(d))'
    BY DEF CopiesAgree
  <2>1. CopyAgrees(d) /\ CopyWatched(d)
    BY DEF MintInv, CopiesAgree
  <2> QED BY <2>1 DEF CopyAgrees, CopyWatched, InWindow
<1>4. Tables' /\ now' >= 1
  BY DEF MintInv, Tables
<1> QED BY <1>2, <1>3, <1>4 DEF MintInv

\* SendMint: the transaction is sent, or its gas estimate fails, or the node
\* takes it and its answer is lost.
LEMMA SendMintKeeps ==
  ASSUME MintInv, NEW c \in Copies, SendMint(c)
  PROVE  MintInv'
<1>0. /\ UNCHANGED <<callVars, now, order, reservation, visible, buyTx, bought, watched,
                      distVars>>
      /\ sup[c] = "minting"
  BY DEF SendMint
<1>1. CopyAgrees(c) /\ CopyWatched(c) /\ mintTx[c] = "none"
  BY <1>0 DEF MintInv, CopiesAgree, CopyAgrees
<1>2. /\ \A d \in Copies \ {c} : sup'[d] = sup[d] /\ answer'[d] = answer[d]
      /\ \A d \in Copies \ {c} : mintTx'[d] = mintTx[d] /\ unwatched'[d] = unwatched[d]
      /\ answer' = [d \in Copies |-> answer'[d]]
  BY DEF SendMint, Fails, MintInv, TypeOK, Tables
<1>3. \/ mintTx'[c] = "pending" /\ sup'[c] = "mint wait" /\ answer'[c] = answer[c]
      \/ mintTx'[c] = "none" /\ sup'[c] = "answered" /\ answer'[c] = mintErrResponse
      \/ /\ mintTx'[c] = "pending" /\ sup'[c] = "answered" /\ answer'[c] = mintErrResponse
         /\ unwatched'[c] = "reply lost"
  BY <1>1 DEF SendMint, Fails, MintInv, TypeOK, Tables
<1>4. TypeOK'
  <2>1. /\ sup' \in [Copies -> {"idle", "minting", "mint wait", "subscribing", "answered"}]
        /\ mintTx' \in [Copies -> TxStates]
        /\ unwatched' \in [Copies -> {Nil} \cup Reasons]
    BY DEF SendMint, Fails, MintInv, TypeOK, TxStates, Reasons
  <2> QED BY <1>0, <2>1 DEF MintInv, TypeOK, callVars, distVars
<1>5. (CopyAgrees(c) /\ CopyWatched(c))'
  BY <1>0, <1>1, <1>3, NilAssumption, ErrIsNoSuccess
     DEF CopyAgrees, CopyWatched, InWindow, Reasons
<1> QED BY <1>0, <1>1, <1>2, <1>4, <1>5, OthersKept

\* MintMined: the receipt is read, or not, or tells of a revert.
LEMMA MintMinedKeeps ==
  ASSUME MintInv, NEW c \in Copies, MintMined(c)
  PROVE  MintInv'
<1>0. /\ UNCHANGED <<callVars, now, order, chainVars, watched, distVars>>
      /\ sup[c] = "mint wait" /\ mintTx[c] \in {"mined", "reverted"}
  BY DEF MintMined
<1>1. CopyAgrees(c) /\ CopyWatched(c)
  BY DEF MintInv, CopiesAgree
<1>2. /\ \A d \in Copies \ {c} : sup'[d] = sup[d] /\ answer'[d] = answer[d]
      /\ \A d \in Copies \ {c} : unwatched'[d] = unwatched[d]
      /\ answer' = [d \in Copies |-> answer'[d]]
  BY DEF MintMined, Fails, MintInv, TypeOK, Tables
<1>3. \/ mintTx[c] = "mined" /\ sup'[c] = "subscribing" /\ answer'[c] = answer[c]
      \/ sup'[c] = "answered" /\ answer'[c] = mintErrResponse /\ unwatched'[c] = "not parsed"
      \/ mintTx[c] = "reverted" /\ sup'[c] = "answered" /\ answer'[c] = mintErrResponse
  BY DEF MintMined, Fails, MintInv, TypeOK, Tables
<1>4. TypeOK'
  <2>1. /\ sup' \in [Copies -> {"idle", "minting", "mint wait", "subscribing", "answered"}]
        /\ unwatched' \in [Copies -> {Nil} \cup Reasons]
    BY DEF MintMined, Fails, MintInv, TypeOK, Reasons
  <2> QED BY <1>0, <2>1 DEF MintInv, TypeOK, callVars, chainVars, distVars
<1>5. (CopyAgrees(c) /\ CopyWatched(c))'
  BY <1>0, <1>1, <1>3, NilAssumption, ErrIsNoSuccess
     DEF CopyAgrees, CopyWatched, InWindow, chainVars, Reasons
<1> QED BY <1>0, <1>2, <1>4, <1>5, OthersKept DEF chainVars

\* MintWaitCutOff: the context ends, and the transaction may still be mined.
LEMMA MintWaitCutOffKeeps ==
  ASSUME MintInv, NEW c \in Copies, MintWaitCutOff(c)
  PROVE  MintInv'
<1>0. UNCHANGED <<callVars, now, order, chainVars, watched, distVars>> /\ sup[c] = "mint wait"
  BY DEF MintWaitCutOff
<1>1. CopyAgrees(c) /\ CopyWatched(c)
  BY DEF MintInv, CopiesAgree
<1>2. /\ \A d \in Copies \ {c} : sup'[d] = sup[d] /\ answer'[d] = answer[d]
      /\ \A d \in Copies \ {c} : unwatched'[d] = unwatched[d]
      /\ answer' = [d \in Copies |-> answer'[d]]
  BY DEF MintWaitCutOff, Fails, MintInv, TypeOK, Tables
<1>3. sup'[c] = "answered" /\ answer'[c] = mintErrResponse /\ unwatched'[c] = "wait cut off"
  BY DEF MintWaitCutOff, Fails, MintInv, TypeOK, Tables
<1>4. TypeOK'
  <2>1. /\ sup' \in [Copies -> {"idle", "minting", "mint wait", "subscribing", "answered"}]
        /\ unwatched' \in [Copies -> {Nil} \cup Reasons]
    BY DEF MintWaitCutOff, Fails, MintInv, TypeOK, Reasons
  <2> QED BY <1>0, <2>1 DEF MintInv, TypeOK, callVars, chainVars, distVars
<1>5. (CopyAgrees(c) /\ CopyWatched(c))'
  BY <1>0, <1>1, <1>3, NilAssumption, ErrIsNoSuccess
     DEF CopyAgrees, CopyWatched, InWindow, chainVars, Reasons
<1> QED BY <1>0, <1>2, <1>4, <1>5, OthersKept DEF chainVars

\* SubscribeAndAnswer: the token is watched, or the failure is on record.
LEMMA SubscribeAndAnswerKeeps ==
  ASSUME MintInv, NEW c \in Copies, SubscribeAndAnswer(c)
  PROVE  MintInv'
<1>0. UNCHANGED <<callVars, now, order, chainVars, distVars>> /\ sup[c] = "subscribing"
  BY DEF SubscribeAndAnswer
<1>1. CopyAgrees(c) /\ CopyWatched(c)
  BY DEF MintInv, CopiesAgree
<1>2. /\ \A d \in Copies \ {c} : sup'[d] = sup[d] /\ answer'[d] = answer[d]
      /\ \A d \in Copies \ {c} : unwatched'[d] = unwatched[d]
      /\ watched \subseteq watched'
      /\ answer' = [d \in Copies |-> answer'[d]]
  BY DEF SubscribeAndAnswer, subscribeForTokenBoughtEvent, MintInv, TypeOK, Tables
<1>3. sup'[c] = "answered" /\ (c \in watched' \/ unwatched'[c] = "not subscribed")
  BY DEF SubscribeAndAnswer, subscribeForTokenBoughtEvent, MintInv, TypeOK
<1>4. TypeOK'
  <2>1. /\ sup' \in [Copies -> {"idle", "minting", "mint wait", "subscribing", "answered"}]
        /\ unwatched' \in [Copies -> {Nil} \cup Reasons]
        /\ watched' \subseteq Copies
    BY DEF SubscribeAndAnswer, subscribeForTokenBoughtEvent, MintInv, TypeOK, Reasons
  <2> QED BY <1>0, <2>1 DEF MintInv, TypeOK, callVars, chainVars, distVars
<1>5. (CopyAgrees(c) /\ CopyWatched(c))'
  BY <1>0, <1>1, <1>3, NilAssumption DEF CopyAgrees, CopyWatched, InWindow, chainVars, Reasons
<1> QED BY <1>0, <1>2, <1>4, <1>5, OthersKept DEF chainVars

-----------------------------------------------------------------------------
\* A step that leaves the handlers and the chain alone keeps the copies.
LEMMA CopiesKept ==
  ASSUME MintInv, UNCHANGED <<now, supVars, mintTx, reservation>>
  PROVE  Tables' /\ now' >= 1 /\ CopiesAgree'
<1>1. Tables' /\ now' >= 1
  BY DEF MintInv, Tables, supVars
<1>2. CopiesAgree'
  <2> SUFFICES ASSUME NEW d \in Copies PROVE (CopyAgrees(d) /\ CopyWatched(d))'
    BY DEF CopiesAgree
  <2>1. CopyAgrees(d) /\ CopyWatched(d)
    BY DEF MintInv, CopiesAgree
  <2> QED BY <2>1 DEF CopyAgrees, CopyWatched, InWindow, supVars
<1> QED BY <1>1, <1>2

\* Before and while a response is taken no purchase is on its way.
LEMMA PrepareRequestKeeps ==
  ASSUME MintInv, PrepareRequest
  PROVE  MintInv'
<1>0. /\ UNCHANGED <<version, now, supVars, chainVars, taken, attempt, result,
                      cutOff, lostReply>>
      /\ dist = "idle" /\ dist' = "waiting"
  BY DEF PrepareRequest
<1>1. Tables' /\ now' >= 1 /\ CopiesAgree'
  BY <1>0, CopiesKept DEF chainVars
<1>2. TypeOK'
  <2>1. request' \in [buyer : {Nil, "own account"}, expected : ExpectedPrices]
    BY DEF PrepareRequest, MintInv, TypeOK
  <2> QED BY <1>0, <2>1 DEF MintInv, TypeOK, supVars, chainVars
<1>3. CallAgrees' /\ TakenAgrees' /\ AttemptsLeft'
  BY <1>0 DEF MintInv, CallAgrees, TakenAgrees, AttemptsLeft, chainVars
<1> QED BY <1>1, <1>2, <1>3 DEF MintInv

\* TakeResponse: from version 4 on only a response at the expected price is bought.
LEMMA TakeResponseKeeps ==
  ASSUME MintInv, NEW c \in Copies, TakeResponse(c)
  PROVE  MintInv'
<1>0. /\ UNCHANGED <<callVars, now, supVars, chainVars, attempt, cutOff, lostReply>>
      /\ dist = "waiting" /\ taken' = c /\ answer[c] # Nil
  BY DEF TakeResponse
<1>1. Tables' /\ now' >= 1 /\ CopiesAgree'
  BY <1>0, CopiesKept DEF chainVars
<1>2. \/ dist' = "returned" /\ result' \in {"passed on", "error"}
      \/ /\ dist' = "polling" /\ result' = result
         /\ ProcessResponseMessage(answer[c]) = "buy"
  BY DEF TakeResponse, Return
<1>3. ProcessResponseMessage(answer[c]) = "buy" /\ version # 3
        => answer[c].price = request.expected
  BY DEF ProcessResponseMessage, processMintResponseV4, processMintResponseV5
<1>4. TypeOK'
  BY <1>0, <1>2 DEF MintInv, TypeOK, Results, callVars, supVars, chainVars
<1>5. buyTx = "none" /\ result # "bought"
  BY <1>0 DEF MintInv, CallAgrees
<1>6. CallAgrees'
  BY <1>0, <1>2, <1>5 DEF MintInv, CallAgrees, chainVars
<1>7. TakenAgrees'
  BY <1>0, <1>2, <1>3, <1>5 DEF MintInv, TakenAgrees, callVars, supVars, chainVars
<1>8. AttemptsLeft'
  <2>1. attempt' = 0 /\ 0 < MaxAttempts
    BY <1>0, MintAssumption DEF MintInv, AttemptsLeft
  <2> QED BY <1>2, <2>1 DEF AttemptsLeft
<1> QED BY <1>1, <1>4, <1>6, <1>7, <1>8 DEF MintInv

\* A step of the call after it has taken a response: the purchase is not sent.
LEMMA CallStep ==
  ASSUME MintInv, UNCHANGED <<callVars, now, supVars, chainVars, taken>>,
         attempt' \in 0..MaxAttempts, AttemptsLeft', cutOff' \in BOOLEAN, cutOff => cutOff',
         lostReply' = lostReply,
         \/ dist' = dist /\ result' = result
         \/ /\ dist \in {"waiting", "polling", "buying"} \/ cutOff' \/ buyTx = "reverted"
            /\ dist' = "returned" /\ result' = "error"
         \/ dist = "polling" /\ dist' = "buying" /\ result' = result
         \/ dist = "buy wait" /\ buyTx = "mined" /\ dist' = "watching" /\ result' = result
         \/ buyTx = "mined" /\ dist' = "returned" /\ result' = "bought"
  PROVE  MintInv'
<1>1. Tables' /\ now' >= 1 /\ CopiesAgree'
  BY CopiesKept DEF chainVars
<1>2. /\ dist' \in {"idle", "waiting", "polling", "buying", "buy wait", "watching", "returned"}
      /\ result' \in Results
  BY DEF MintInv, TypeOK, Results
<1>3. TypeOK'
  BY <1>2 DEF MintInv, TypeOK, callVars, supVars, chainVars
<1>4. buyTx' = buyTx /\ bought' = bought /\ taken' = taken
  BY DEF chainVars
<1>5. CallAgrees'
  BY <1>4 DEF MintInv, CallAgrees, TypeOK, TxStates
<1>6. TakenAgrees'
  <2>1. Wanted' = Wanted /\ answer' = answer /\ version' = version /\ request' = request
        /\ mintTx' = mintTx /\ reservation' = reservation
    BY <1>4 DEF Wanted, callVars, supVars, chainVars
  <2>2. dist' \in {"polling", "buying", "buy wait", "watching"}
          => dist \in {"polling", "buying", "buy wait", "watching"}
    OBVIOUS
  <2> QED BY <1>4, <2>1, <2>2 DEF MintInv, TakenAgrees
<1> QED BY <1>1, <1>3, <1>5, <1>6 DEF MintInv

\* NoResponse, the rounds of pollTokenVisible, and what follows the purchase.
LEMMA CallStepsKeep ==
  ASSUME MintInv,
         NoResponse \/ Poll \/ BuyMined \/ BuyWaitCutOff \/ SubscribeCancellationEvents
  PROVE  MintInv'
<1>0. attempt \in 0..MaxAttempts /\ cutOff \in BOOLEAN /\ MaxAttempts \in Nat
  BY MintAssumption DEF MintInv, TypeOK
<1>1. CASE NoResponse
  <2>1. AttemptsLeft'
    BY <1>1 DEF NoResponse, Return, AttemptsLeft
  <2> QED BY <1>0, <1>1, <2>1, CallStep DEF NoResponse, Return
<1>2. CASE Poll
  <2>1. PICK b \in Backends : pollTokenVisible(b)
    BY <1>2 DEF Poll
  <2>2. UNCHANGED <<callVars, now, supVars, chainVars, taken, cutOff, lostReply>>
        /\ dist = "polling"
    BY <2>1 DEF pollTokenVisible
  <2>3. attempt < MaxAttempts /\ attempt' = attempt + 1
    BY <2>1, <2>2 DEF pollTokenVisible, MintInv, AttemptsLeft
  <2>4. \/ dist' = "buying" /\ result' = result
        \/ dist' = "returned" /\ result' = "error"
        \/ dist' = dist /\ result' = result /\ attempt + 1 < MaxAttempts
    BY <2>1 DEF pollTokenVisible, Return
  <2>5. attempt' \in 0..MaxAttempts /\ AttemptsLeft'
    BY <1>0, <2>2, <2>3, <2>4 DEF AttemptsLeft
  <2> QED BY <1>0, <2>2, <2>4, <2>5, CallStep
<1>3. CASE BuyMined
  <2>1. /\ UNCHANGED <<callVars, now, supVars, chainVars, taken, attempt, cutOff, lostReply>>
        /\ dist = "buy wait" /\ buyTx \in {"mined", "reverted"}
    BY <1>3 DEF BuyMined
  <2>2. \/ buyTx = "reverted" /\ dist' = "returned" /\ result' = "error"
        \/ buyTx = "mined" /\ dist' = "watching" /\ result' = result
        \/ buyTx = "mined" /\ dist' = "returned" /\ result' = "bought"
    BY <1>3 DEF BuyMined, Return
  <2>3. AttemptsLeft'
    BY <2>2 DEF AttemptsLeft
  <2> QED BY <1>0, <2>1, <2>2, <2>3, CallStep
<1>4. CASE BuyWaitCutOff
  <2>1. AttemptsLeft'
    BY <1>4 DEF BuyWaitCutOff, Return, AttemptsLeft
  <2> QED BY <1>0, <1>4, <2>1, CallStep DEF BuyWaitCutOff, Return
<1>5. CASE SubscribeCancellationEvents
  <2>1. buyTx = "mined"
    BY <1>5 DEF SubscribeCancellationEvents, MintInv, CallAgrees
  <2>2. AttemptsLeft'
    BY <1>5 DEF SubscribeCancellationEvents, Return, AttemptsLeft
  <2> QED BY <1>0, <1>5, <2>1, <2>2, CallStep DEF SubscribeCancellationEvents, Return
<1> QED BY <1>1, <1>2, <1>3, <1>4, <1>5

\* SendBuy: the purchase is sent for the response that was taken, with or
\* without the node's answer, or fails.
LEMMA BuyKeeps ==
  ASSUME MintInv, Buy
  PROVE  MintInv'
<1>0. PICK b \in Backends : SendBuy(b)
  BY DEF Buy
<1>1. /\ UNCHANGED <<callVars, now, supVars, mintTx, reservation, visible, bought,
                      taken, attempt, cutOff>>
      /\ dist = "buying"
  BY <1>0 DEF SendBuy
<1>2. \/ /\ buyTx' = "pending" /\ dist' = "buy wait" /\ result' = result
         /\ lostReply' = lostReply
      \/ buyTx' = "pending" /\ dist' = "returned" /\ result' = "error" /\ lostReply' = TRUE
      \/ /\ buyTx' = buyTx /\ dist' = "returned" /\ result' = "error"
         /\ lostReply' = lostReply
  BY <1>0 DEF SendBuy, Return
<1>3. buyTx = "none" /\ bought = {} /\ result # "bought"
  BY <1>1 DEF MintInv, CallAgrees
<1>4. Tables' /\ now' >= 1 /\ CopiesAgree'
  BY <1>1, CopiesKept
<1>5. TypeOK'
  BY <1>1, <1>2 DEF MintInv, TypeOK, TxStates, Results, callVars, supVars
<1>6. CallAgrees' /\ AttemptsLeft'
  BY <1>1, <1>2, <1>3 DEF CallAgrees, AttemptsLeft
<1>7. TakenAgrees'
  BY <1>1, <1>2, <1>3 DEF MintInv, TakenAgrees, callVars, supVars
<1> QED BY <1>4, <1>5, <1>6, <1>7 DEF MintInv

-----------------------------------------------------------------------------
\* MineMint: the contract stores the order as it was sent, or reverts.
LEMMA MineMintKeeps ==
  ASSUME MintInv, NEW c \in Copies, MineMint(c)
  PROVE  MintInv'
<1>0. /\ UNCHANGED <<callVars, now, supVars, visible, buyTx, bought, distVars>>
      /\ mintTx[c] = "pending"
  BY DEF MineMint
<1>1. CopyAgrees(c) /\ CopyWatched(c)
  BY DEF MintInv, CopiesAgree
<1>2. /\ \A d \in Copies \ {c} : mintTx'[d] = mintTx[d] /\ reservation'[d] = reservation[d]
      /\ reservation' = [d \in Copies |-> reservation'[d]]
      /\ mintTx' \in [Copies -> TxStates]
  BY DEF MineMint, MintInv, TypeOK, Tables, TxStates
<1>3. \/ mintTx'[c] = "mined" /\ reservation'[c].until = order[c].until
      \/ mintTx'[c] = "reverted" /\ reservation'[c] = reservation[c]
  <2>1. mintTx \in [Copies -> TxStates] /\ reservation = [d \in Copies |-> reservation[d]]
    BY DEF MintInv, TypeOK, Tables
  <2>2. CASE mintTx' = [mintTx EXCEPT ![c] = "reverted"] /\ reservation' = reservation
    BY <2>1, <2>2
  <2>3. CASE /\ mintTx' = [mintTx EXCEPT ![c] = "mined"]
             /\ reservation' = [reservation EXCEPT ![c] =
                  [buyer |-> request.buyer, amount |-> order[c].amount,
                   paymentToken |-> order[c].paymentToken, until |-> order[c].until]]
    <3>1. reservation'[c] = [buyer |-> request.buyer, amount |-> order[c].amount,
                             paymentToken |-> order[c].paymentToken, until |-> order[c].until]
      BY <2>1, <2>3
    <3> QED BY <2>1, <2>3, <3>1
  <2> QED BY <2>2, <2>3 DEF MineMint
<1>4. TypeOK'
  BY <1>0, <1>2 DEF MintInv, TypeOK, callVars, supVars, distVars
<1>5. Tables' /\ now' >= 1
  BY <1>0, <1>2 DEF MintInv, Tables, supVars
<1>6. CopiesAgree'
  <2> SUFFICES ASSUME NEW d \in Copies PROVE (CopyAgrees(d) /\ CopyWatched(d))'
    BY DEF CopiesAgree
  <2>0. CopyAgrees(d) /\ CopyWatched(d)
    BY DEF MintInv, CopiesAgree
  <2>1. CASE d # c
    BY <1>0, <1>2, <2>0, <2>1 DEF CopyAgrees, CopyWatched, InWindow, supVars
  <2>2. CASE d = c
    BY <1>0, <1>1, <1>3, <2>2 DEF CopyAgrees, CopyWatched, InWindow, supVars
  <2> QED BY <2>1, <2>2
<1>7. CallAgrees' /\ AttemptsLeft'
  BY <1>0 DEF MintInv, CallAgrees, AttemptsLeft, distVars
<1>8. TakenAgrees'
  <2>1. buyTx = "mined" => taken \in Copies \ {c}
    BY <1>0 DEF MintInv, TakenAgrees
  <2>2. Wanted' = Wanted /\ taken' = taken /\ dist' = dist /\ buyTx' = buyTx
        /\ version' = version /\ request' = request /\ answer' = answer
    BY <1>0 DEF Wanted, callVars, supVars, distVars
  <2> QED BY <1>2, <2>1, <2>2 DEF MintInv, TakenAgrees
<1> QED BY <1>4, <1>5, <1>6, <1>7, <1>8 DEF MintInv

\* MineBuy: the contract transfers only a token that is reserved at the price
\* the call wants.
LEMMA MineBuyKeeps ==
  ASSUME MintInv, MineBuy
  PROVE  MintInv'
<1>0. /\ UNCHANGED <<callVars, now, supVars, mintTx, reservation, visible, distVars>>
      /\ buyTx = "pending"
  BY DEF MineBuy
<1>1. taken \in Copies /\ bought = {} /\ Wanted' = Wanted
  BY <1>0 DEF MintInv, CallAgrees, TakenAgrees, Wanted, callVars, supVars, distVars
<1>2. \/ /\ buyTx' = "mined" /\ bought' = {taken}
         /\ reservation[taken] # Nil
         /\ reservation[taken].amount = Wanted.amount
         /\ reservation[taken].paymentToken = Wanted.paymentToken
      \/ buyTx' = "reverted" /\ bought' = {}
  BY <1>1 DEF MineBuy, Buyable
<1>3. buyTx' = "mined" => mintTx[taken] = "mined"
  BY <1>1, <1>2 DEF MintInv, CopiesAgree, CopyAgrees
<1>4. Tables' /\ now' >= 1 /\ CopiesAgree'
  BY <1>0, CopiesKept
<1>5. TypeOK'
  BY <1>0, <1>1, <1>2 DEF MintInv, TypeOK, TxStates, callVars, supVars, distVars
<1>6. CallAgrees' /\ AttemptsLeft'
  BY <1>0, <1>2 DEF MintInv, CallAgrees, AttemptsLeft, distVars
<1>7. TakenAgrees'
  <2>1. taken' = taken /\ version' = version /\ request' = request /\ answer' = answer
        /\ mintTx' = mintTx /\ reservation' = reservation
    BY <1>0 DEF callVars, supVars, distVars
  <2>2. answer[taken] # Nil /\ (version # 3 => answer[taken].price = request.expected)
    BY <1>0 DEF MintInv, TakenAgrees
  <2> QED BY <1>1, <1>2, <1>3, <2>1, <2>2 DEF TakenAgrees
<1> QED BY <1>4, <1>5, <1>6, <1>7 DEF MintInv

\* A node that learns of a token changes what is read, and nothing else.
LEMMA SyncBackendKeeps ==
  ASSUME MintInv, NEW c \in Copies, NEW b \in Backends, SyncBackend(c, b)
  PROVE  MintInv'
<1>0. UNCHANGED <<callVars, now, supVars, mintTx, reservation, buyTx, bought, distVars>>
  BY DEF SyncBackend
<1>1. visible' \in [Copies -> SUBSET Backends]
  BY DEF SyncBackend, MintInv, TypeOK
<1>2. TypeOK'
  BY <1>0, <1>1 DEF MintInv, TypeOK, callVars, supVars, distVars
<1>3. Tables' /\ now' >= 1 /\ CopiesAgree'
  BY <1>0, CopiesKept
<1>4. CallAgrees' /\ TakenAgrees' /\ AttemptsLeft'
  BY <1>0, CallKept DEF supVars
<1> QED BY <1>2, <1>3, <1>4 DEF MintInv

\* As time passes the end of the window only moves away.
LEMMA MintTickKeeps ==
  ASSUME MintInv, Tick
  PROVE  MintInv'
<1>0. UNCHANGED <<callVars, supVars, chainVars, distVars>> /\ now' = now + 1 /\ now \in Nat
  BY DEF Tick, MintInv, TypeOK
<1>1. TypeOK'
  <2>1. now' \in Nat
    BY <1>0
  <2>2. /\ version' = version /\ request' = request /\ sup' = sup /\ mintTx' = mintTx
        /\ visible' = visible /\ watched' = watched /\ unwatched' = unwatched
        /\ dist' = dist /\ taken' = taken /\ attempt' = attempt /\ buyTx' = buyTx
        /\ bought' = bought /\ result' = result /\ cutOff' = cutOff
        /\ lostReply' = lostReply
    BY <1>0 DEF callVars, supVars, chainVars, distVars
  <2> QED BY <2>1, <2>2 DEF MintInv, TypeOK
<1>2. Tables' /\ now' >= 1
  BY <1>0 DEF MintInv, Tables, supVars, chainVars
<1>3. \A t : InWindow(t) => InWindow(t)'
  BY <1>0, MintAssumption DEF InWindow
<1>4. CopiesAgree'
  <2> SUFFICES ASSUME NEW d \in Copies PROVE (CopyAgrees(d) /\ CopyWatched(d))'
    BY DEF CopiesAgree
  <2>0. CopyAgrees(d) /\ CopyWatched(d)
    BY DEF MintInv, CopiesAgree
  <2> QED BY <1>0, <1>3, <2>0 DEF CopyAgrees, CopyWatched, supVars, chainVars
<1>5. CallAgrees' /\ TakenAgrees' /\ AttemptsLeft'
  BY <1>0, CallKept DEF chainVars, supVars
<1> QED BY <1>1, <1>2, <1>4, <1>5 DEF MintInv

-----------------------------------------------------------------------------
\* MintInv holds in every reachable state: every handler, every stage of the
\* call, every transaction and the clock keep it.
THEOREM MintInvariance == Spec => []MintInv
<1>1. MintInv /\ [Next]_vars => MintInv'
  <2> SUFFICES ASSUME MintInv, [Next]_vars PROVE MintInv'
    OBVIOUS
  <2>1. CASE \E c \in Copies : Supplier(c)
    BY <2>1, PluginAnswersKeeps, SendMintKeeps, MintMinedKeeps, MintWaitCutOffKeeps,
       SubscribeAndAnswerKeeps DEF Supplier
  <2>2. CASE Distributor
    BY <2>2, PrepareRequestKeeps, TakeResponseKeeps, CallStepsKeep, BuyKeeps DEF Distributor
  <2>3. CASE Chain
    BY <2>3, MineMintKeeps, MineBuyKeeps, SyncBackendKeeps DEF Chain
  <2>4. CASE Tick
    BY <2>4, MintTickKeeps
  <2>5. CASE UNCHANGED vars
    <3>1. TypeOK'
      BY <2>5 DEF vars, MintInv, TypeOK
    <3>2. Tables' /\ now' >= 1 /\ CopiesAgree'
      BY <2>5, CopiesKept DEF vars, supVars
    <3>3. CallAgrees' /\ TakenAgrees' /\ AttemptsLeft'
      BY <2>5, CallKept DEF vars, callVars, distVars
    <3> QED BY <3>1, <3>2, <3>3 DEF MintInv
  <2> QED BY <2>1, <2>2, <2>3, <2>4, <2>5 DEF Next
<1> QED BY <1>1, MintInitInv, PTL DEF Spec

\* The state of the handlers, of the call and of the chain stays well formed.
THEOREM MintTypeCorrect == Spec => []TypeOK
<1>1. MintInv => TypeOK
  BY DEF MintInv
<1> QED BY <1>1, MintInvariance, PTL

\* processMintResponse: who is told that a booking is bought owns the token of
\* the response, at the expected price, and nothing else was bought.
THEOREM AnsweredIsBoughtHolds == Spec => []AnsweredIsBought
<1>1. MintInv => AnsweredIsBought
  <2> SUFFICES ASSUME MintInv PROVE AnsweredIsBought
    OBVIOUS
  <2>1. bought \subseteq {taken} /\ (result = "bought" => taken \in bought)
    BY DEF MintInv, CallAgrees
  <2>2. ASSUME NEW t \in bought, version # 3
        PROVE  LET e == GetPriceAndToken(version, request.expected) IN
                 /\ reservation[t].amount = e.amount
                 /\ reservation[t].paymentToken = e.paymentToken
    <3>1. buyTx = "mined" /\ t = taken
      BY <2>2 DEF MintInv, CallAgrees
    <3>2. Wanted = GetPriceAndToken(version, request.expected)
      BY <2>2, <3>1 DEF MintInv, TakenAgrees, Wanted
    <3> QED BY <3>1, <3>2 DEF MintInv, TakenAgrees
  <2> QED BY <2>1, <2>2 DEF AnsweredIsBought
<1> QED BY <1>1, MintInvariance, PTL

\* processMintResponse: a token is paid for behind an error only where the
\* node's answer to the sending was lost or the context ended during the wait.
THEOREM PurchaseReportedHolds == Spec => []PurchaseReported
<1>1. MintInv => PurchaseReported
  BY DEF MintInv, CallAgrees, PurchaseReported
<1> QED BY <1>1, MintInvariance, PTL

\* prepareMintResponse: a token of a request that is answered is watched, or
\* its failure is on record, and it is offered within the window only.
THEOREM MintedIsWatchedHolds == Spec => []MintedIsWatched
<1>1. MintInv => MintedIsWatched
  <2> SUFFICES ASSUME MintInv, NEW c \in Copies, reservation[c] # Nil
               PROVE  /\ sup[c] = "answered" => c \in watched \/ unwatched[c] # Nil
                      /\ answer[c] # Nil /\ answer[c].status = "success"
                           => c \in watched \/ unwatched[c] = "not subscribed"
                      /\ reservation[c].until \in (1 + Minimal)..(now + Maximal)
    BY DEF MintedIsWatched
  <2>1. CopyAgrees(c) /\ CopyWatched(c)
    BY DEF MintInv, CopiesAgree
  <2> QED BY <2>1 DEF CopyAgrees, CopyWatched, InWindow
<1> QED BY <1>1, MintInvariance, PTL
=============================================================================
