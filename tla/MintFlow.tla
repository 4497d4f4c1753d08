------------------------------ MODULE MintFlow ------------------------------
(***************************************************************************)
(* A booking bought with a Mint call (book v3, v4, v5): the distributor's  *)
(* bot puts its account into the request; the supplier's bot turns the     *)
(* partner plugin's answer into a booking token reserved for the buyer     *)
(* (prepareMintResponse), watches it, and answers; the distributor's bot   *)
(* checks the answer, waits until its node sees the token, buys it and     *)
(* watches it for cancellations (processMintResponse).                     *)
(*                                                                         *)
(* The messenger may deliver the request several times, and every copy is  *)
(* handled, so every copy may mint: the token minted for copy c is named   *)
(* c.  A transaction is sent, mined or reverted, and waited for; the wait  *)
(* ends with its context, whatever becomes of the transaction.  The chain  *)
(* is external: the booking token contract as the calls of                 *)
(* pkg/ttm_accounts use it, read through backends of which each learns of  *)
(* a token in its own time.                                                *)
(***************************************************************************)
EXTENDS Naturals, FiniteSets

CONSTANTS
  Copies,          \* deliveries of the request at the supplier
  Backends,        \* nodes behind the distributor's RPC endpoint
  MintVersions,    \* versions of the Mint service, a subset of 3..5
  ExpectedPrices,  \* prices the caller may expect
  PluginResponses, \* what the partner plugin may answer
  Default, Minimal, Maximal,  \* tokenBuyableUntil
  MaxAttempts,     \* tokenVisibleMaxAttempts
  NativeTokenDecimals, ISODecimals, TokenDecimals,
  MaxTime,         \* bound of the clock
  Nil

ASSUME MintAssumption ==
  /\ MintVersions \subseteq 3..5
  /\ Default \in Nat /\ Minimal \in Nat /\ Maximal \in Nat
  /\ Minimal <= Default /\ Default <= Maximal
  /\ MaxAttempts \in Nat \ {0}
  /\ MaxTime \in Nat

ASSUME AnswerAssumption == \A p \in PluginResponses : p.until \in Nat

\* Why the supplier may have given up on a token that was minted.
Reasons == {"reply lost", "wait cut off", "not parsed", "not subscribed"}

ASSUME NilAssumption == Nil \notin Copies \cup {"bought"} \cup Reasons

-----------------------------------------------------------------------------
(* Prices: internal/price, pkg/price.                                      *)

\* The integer amount, or Nil: more decimals than the currency has, or a
\* value that is no number.
ToBigInt(value, decimals, totalDecimals) ==
  IF decimals > totalDecimals \/ value = Nil
    THEN Nil
    ELSE value * 10 ^ (totalDecimals - decimals)

\* The decimals of an ERC20 contract; an address without one fails.
Decimals(contract) == IF contract = "token" THEN TokenDecimals ELSE Nil

\* Amount and payment token of a price, or Nil on an error.  An ISO currency
\* is paid off chain: its payment token is a marker, and the currency travels
\* beside it.
GetPriceAndTokenV3(p) ==
  LET total == IF p.currency = "native" THEN NativeTokenDecimals
               ELSE IF p.currency = "iso" THEN ISODecimals
               ELSE Decimals(p.currency)
      amount == ToBigInt(p.value, p.decimals, total)
  IN IF p = Nil THEN Nil
     ELSE IF total = Nil THEN Nil
     ELSE IF amount = Nil THEN Nil
     ELSE [amount |-> amount, paymentToken |-> p.currency]

\* The later types differ in the width of decimals only: a value past int32
\* panics, and validated prices are far below it.
GetPriceAndTokenV4(p) == GetPriceAndTokenV3(p)
GetPriceAndTokenV5(p) == GetPriceAndTokenV3(p)

GetPriceAndToken(v, p) ==
  IF v = 3 THEN GetPriceAndTokenV3(p)
  ELSE IF v = 4 THEN GetPriceAndTokenV4(p) ELSE GetPriceAndTokenV5(p)

-----------------------------------------------------------------------------
VARIABLES
  version,      \* version of the Mint service that is called
  request,      \* the request: the buyer's account and the expected price
  now,
  sup,          \* stage of the supplier's handler of each copy
  order,        \* what the handler is about to mint
  answer,       \* its response, or Nil
  mintTx,       \* the mint transaction
  reservation,  \* what the contract stores for a token, or Nil
  visible,      \* backends that know the token
  watched,      \* tokens whose TokenBought subscription was stored
  unwatched,    \* tokens the supplier gave up on, and why
  dist,         \* stage of the distributor's call
  taken,        \* the copy whose response it has taken
  attempt,      \* reads of the reservation so far
  buyTx,        \* the buy transaction
  bought,       \* tokens the contract has transferred to the buyer
  result,       \* what the caller gets
  cutOff,       \* the wait for the buy transaction ended with its context
  lostReply     \* the node took the buy transaction and its answer was lost

supVars == <<sup, order, answer, watched, unwatched>>
distVars == <<dist, taken, attempt, result, cutOff, lostReply>>
chainVars == <<mintTx, reservation, visible, buyTx, bought>>
callVars == <<version, request>>
vars == <<version, request, now, sup, order, answer, mintTx, reservation,
          visible, watched, unwatched, dist, taken, attempt, buyTx, bought,
          result, cutOff, lostReply>>

TxStates == {"none", "pending", "mined", "reverted"}
Results == {Nil, "bought", "passed on", "error"}

\* Every variable holds a value of the shape the code declares for it.
TypeOK ==
  /\ version \in MintVersions
  /\ request \in [buyer : {Nil, "own account"}, expected : ExpectedPrices]
  /\ now \in Nat
  /\ sup \in [Copies -> {"idle", "minting", "mint wait", "subscribing", "answered"}]
  /\ mintTx \in [Copies -> TxStates]
  /\ visible \in [Copies -> SUBSET Backends]
  /\ watched \subseteq Copies
  /\ unwatched \in [Copies -> {Nil} \cup Reasons]
  /\ dist \in {"idle", "waiting", "polling", "buying", "buy wait", "watching",
               "returned"}
  /\ taken \in Copies \cup {Nil}
  /\ attempt \in 0..MaxAttempts
  /\ buyTx \in TxStates
  /\ bought \subseteq Copies
  /\ result \in Results
  /\ cutOff \in BOOLEAN /\ lostReply \in BOOLEAN

Init ==
  /\ version \in MintVersions
  /\ request \in [buyer : {Nil}, expected : ExpectedPrices]
  /\ now = 1
  /\ sup = [c \in Copies |-> "idle"]
  /\ order = [c \in Copies |-> Nil]
  /\ answer = [c \in Copies |-> Nil]
  /\ mintTx = [c \in Copies |-> "none"]
  /\ reservation = [c \in Copies |-> Nil]
  /\ visible = [c \in Copies |-> {}]
  /\ watched = {}
  /\ unwatched = [c \in Copies |-> Nil]
  /\ dist = "idle" /\ taken = Nil /\ attempt = 0
  /\ buyTx = "none" /\ bought = {}
  /\ result = Nil /\ cutOff = FALSE /\ lostReply = FALSE

-----------------------------------------------------------------------------
(* The supplier: prepareMintResponse.                                      *)

\* An absent time becomes the default, a past one is an error, any other is
\* moved into the window.
verifyAndFixBuyableUntil(until, t) ==
  IF until = 0 THEN t + Default
  ELSE IF until < t THEN Nil
  ELSE IF until < t + Minimal THEN t + Minimal
  ELSE IF until > t + Maximal THEN t + Maximal ELSE until

\* What is to be minted for a plugin's answer: nothing where the answer is
\* passed on as it is or is replaced by an error response.
NoMint == [kind |-> "pass"]
Refused == [kind |-> "error"]
Order(v, p, uri) ==
  LET until == verifyAndFixBuyableUntil(p.until, now)
      price == GetPriceAndToken(v, p.price)
  IN IF until = Nil THEN Refused
     ELSE IF price = Nil THEN Refused
     ELSE IF uri = "" THEN Refused   \* errEmptyURI of MintBookingToken
     ELSE [kind |-> "mint", until |-> until, amount |-> price.amount,
           paymentToken |-> price.paymentToken, cancellable |-> p.cancellable,
           price |-> p.price]

\* The data URI with the mint id and the booking reference.
createTokenURIforMintResponse == "data:application/json;base64"

\* Version 3 has a status, checks the address and fills in a missing URI.
prepareMintResponseV3(p) ==
  IF p.status # "success" THEN NoMint
  ELSE IF request.buyer = Nil THEN Refused
  ELSE Order(3, p, IF p.uri = "" THEN createTokenURIforMintResponse ELSE p.uri)

\* Versions 4 and 5 have a success or an error response.
prepareMintResponseV4(p) ==
  IF p.status # "success" THEN NoMint ELSE Order(4, p, p.uri)
prepareMintResponseV5(p) ==
  IF p.status # "success" THEN NoMint ELSE Order(5, p, p.uri)

PrepareResponseMessage(p) ==
  IF version = 3 THEN prepareMintResponseV3(p)
  ELSE IF version = 4 THEN prepareMintResponseV4(p) ELSE prepareMintResponseV5(p)

\* A status that is neither success nor failure exists in version 3 only.
mintErrResponse == [status |-> "failure"]
PassedOn(p) == [status |-> p.status]

\* A copy of the request is served: the plugin answers p.
PluginAnswers(c, p) ==
  /\ dist # "idle" /\ sup[c] = "idle"
  /\ p.status = "unspecified" => version = 3
  /\ LET o == PrepareResponseMessage(p) IN
       \/ /\ o.kind = "pass"
          /\ sup' = [sup EXCEPT ![c] = "answered"]
          /\ answer' = [answer EXCEPT ![c] = PassedOn(p)]
          /\ UNCHANGED order
       \/ /\ o.kind = "error"
          /\ sup' = [sup EXCEPT ![c] = "answered"]
          /\ answer' = [answer EXCEPT ![c] = mintErrResponse]
          /\ UNCHANGED order
       \/ /\ o.kind = "mint"
          /\ sup' = [sup EXCEPT ![c] = "minting"]
          /\ order' = [order EXCEPT ![c] = o]
          /\ UNCHANGED answer
  /\ UNCHANGED <<callVars, now, chainVars, watched, unwatched, distVars>>

Fails(c) ==
  /\ sup' = [sup EXCEPT ![c] = "answered"]
  /\ answer' = [answer EXCEPT ![c] = mintErrResponse]

\* MintBookingToken sends the transaction, or its gas estimate fails and the
\* revert is decoded into the error.  The node may also take the transaction
\* and its answer be lost: that is the same error, and nobody waits.
SendMint(c) ==
  /\ sup[c] = "minting"
  /\ \/ /\ mintTx' = [mintTx EXCEPT ![c] = "pending"]
        /\ sup' = [sup EXCEPT ![c] = "mint wait"]
        /\ UNCHANGED <<answer, unwatched>>
     \/ Fails(c) /\ UNCHANGED <<mintTx, unwatched>>
     \/ /\ mintTx' = [mintTx EXCEPT ![c] = "pending"]
        /\ Fails(c)
        /\ unwatched' = [unwatched EXCEPT ![c] = "reply lost"]
  /\ UNCHANGED <<callVars, now, order, reservation, visible, buyTx, bought,
                 watched, distVars>>

\* WaitMined, the receipt's status and its TokenReserved event.
MintMined(c) ==
  /\ sup[c] = "mint wait" /\ mintTx[c] \in {"mined", "reverted"}
  /\ \/ /\ mintTx[c] = "mined"
        /\ sup' = [sup EXCEPT ![c] = "subscribing"]
        /\ UNCHANGED <<answer, unwatched>>
     \/ /\ mintTx[c] = "mined"
        /\ Fails(c)
        /\ unwatched' = [unwatched EXCEPT ![c] = "not parsed"]
     \/ mintTx[c] = "reverted" /\ Fails(c) /\ UNCHANGED unwatched
  /\ UNCHANGED <<callVars, now, order, chainVars, watched, distVars>>

\* The context ends while the transaction is not mined: it may be mined later.
MintWaitCutOff(c) ==
  /\ sup[c] = "mint wait"
  /\ Fails(c)
  /\ unwatched' = [unwatched EXCEPT ![c] = "wait cut off"]
  /\ UNCHANGED <<callVars, now, order, chainVars, watched, distVars>>

\* Mutant: only a token that can be cancelled is subscribed for, which is what
\* the distributor does after its purchase.
SubscribeCancellableOnly(c) ==
  \/ /\ watched' = IF order[c].cancellable THEN watched \cup {c} ELSE watched
     /\ UNCHANGED unwatched
  \/ /\ unwatched' = [unwatched EXCEPT ![c] = "not subscribed"]
     /\ UNCHANGED watched

\* An error is logged and otherwise ignored.
subscribeForTokenBoughtEvent(c) ==
  \/ /\ watched' = watched \cup {c}
     /\ UNCHANGED unwatched
  \/ /\ unwatched' = [unwatched EXCEPT ![c] = "not subscribed"]
     /\ UNCHANGED watched

\* The response gets the token, the transaction and the fixed time.
SubscribeAndAnswer(c) ==
  /\ sup[c] = "subscribing"
  /\ subscribeForTokenBoughtEvent(c)
  /\ sup' = [sup EXCEPT ![c] = "answered"]
  /\ answer' = [answer EXCEPT ![c] =
                  [status |-> "success", price |-> order[c].price,
                   cancellable |-> order[c].cancellable]]
  /\ UNCHANGED <<callVars, now, order, chainVars, distVars>>

-----------------------------------------------------------------------------
(* The distributor: PrepareRequest, processMintResponse, BuyBookingToken.  *)

PrepareRequest ==
  /\ dist = "idle"
  /\ dist' = "waiting"
  /\ request' = [request EXCEPT !.buyer = "own account"]
  /\ UNCHANGED <<version, now, supVars, chainVars, taken, attempt, result,
                 cutOff, lostReply>>

\* Whether a response goes on to the purchase; "pass" returns it unchanged.
\* A version 3 response that is neither success nor failure has no mint
\* transaction, and version 3 has no expected price.
processMintResponseV3(r) ==
  IF r.status = "failure" THEN "pass"
  ELSE IF r.status = "unspecified" THEN "error"
  ELSE IF GetPriceAndTokenV3(r.price) = Nil THEN "error" ELSE "buy"

\* The prices are compared as messages: an equal amount with other decimals
\* does not match.
processMintResponseV4(r) ==
  IF r.status # "success" THEN "pass"
  ELSE IF request.expected # r.price THEN "error"
  ELSE IF GetPriceAndTokenV4(r.price) = Nil THEN "error" ELSE "buy"

\* Mutant: only the currency is compared.
ProcessCurrencyOnlyV5(r) ==
  IF r.status # "success" THEN "pass"
  ELSE IF request.expected.currency # r.price.currency THEN "error"
  ELSE IF GetPriceAndTokenV5(r.price) = Nil THEN "error" ELSE "buy"

processMintResponseV5(r) ==
  IF r.status # "success" THEN "pass"
  ELSE IF request.expected # r.price THEN "error"
  ELSE IF GetPriceAndTokenV5(r.price) = Nil THEN "error" ELSE "buy"

ProcessResponseMessage(r) ==
  IF version = 3 THEN processMintResponseV3(r)
  ELSE IF version = 4 THEN processMintResponseV4(r) ELSE processMintResponseV5(r)

Return(res) == dist' = "returned" /\ result' = res

\* The call takes the first response that is handed to it.
TakeResponse(c) ==
  /\ dist = "waiting" /\ answer[c] # Nil
  /\ taken' = c
  /\ \/ ProcessResponseMessage(answer[c]) = "pass" /\ Return("passed on")
     \/ ProcessResponseMessage(answer[c]) = "error" /\ Return("error")
     \/ /\ ProcessResponseMessage(answer[c]) = "buy"
        /\ dist' = "polling"
        /\ UNCHANGED result
  /\ UNCHANGED <<callVars, now, supVars, chainVars, attempt, cutOff, lostReply>>

\* No response in time.
NoResponse ==
  /\ dist = "waiting"
  /\ Return("error")
  /\ UNCHANGED <<callVars, now, supVars, chainVars, taken, attempt, cutOff, lostReply>>

Wanted == GetPriceAndToken(version, answer[taken].price)

\* One read of getReservationPrice on backend b: an unknown token reads as
\* nothing, and so does one reserved for nothing in native coin.
Present(b) ==
  /\ b \in visible[taken]
  /\ ~ (reservation[taken].amount = 0 /\ reservation[taken].paymentToken = "native")
Matches ==
  /\ reservation[taken].amount = Wanted.amount
  /\ reservation[taken].paymentToken = Wanted.paymentToken

\* Mutant: the retries have no bound.
PollForever(b) ==
  /\ dist = "polling"
  /\ \/ Present(b) /\ Matches /\ dist' = "buying" /\ UNCHANGED <<result, attempt>>
     \/ ~ Present(b) /\ UNCHANGED <<dist, result, attempt>>
  /\ UNCHANGED <<callVars, now, supVars, chainVars, taken, cutOff, lostReply>>

\* One round of pollTokenVisible: a match goes on to the purchase, a mismatch
\* ends it, an error or an absent token is tried again up to the bound, and
\* the context is looked at between two reads.
pollTokenVisible(b) ==
  /\ dist = "polling"
  /\ attempt' = attempt + 1
  /\ \/ Present(b) /\ Matches /\ dist' = "buying" /\ UNCHANGED result
     \/ Present(b) /\ ~ Matches /\ Return("error")
     \/ attempt + 1 < MaxAttempts /\ UNCHANGED <<dist, result>>
     \/ Return("error")  \* the attempts are used up or the context is done
  /\ UNCHANGED <<callVars, now, supVars, chainVars, taken, cutOff, lostReply>>

\* What the contract asks of a purchase.
Buyable(t, want) ==
  /\ reservation[t] # Nil /\ t \notin bought
  /\ reservation[t].buyer = "own account"
  /\ reservation[t].amount = want.amount
  /\ reservation[t].paymentToken = want.paymentToken
  /\ now <= reservation[t].until

\* BuyBookingToken of the account service; the backend that estimates the gas
\* need not be the one that was polled.  As for SendMint, the node may have
\* taken the transaction behind the error.
SendBuy(b) ==
  /\ dist = "buying"
  /\ \/ /\ b \in visible[taken] /\ Buyable(taken, Wanted)
        /\ buyTx' = "pending"
        /\ \/ dist' = "buy wait" /\ UNCHANGED <<result, lostReply>>
           \/ Return("error") /\ lostReply' = TRUE
     \/ Return("error") /\ UNCHANGED <<buyTx, lostReply>>
  /\ UNCHANGED <<callVars, now, supVars, mintTx, reservation, visible, bought,
                 taken, attempt, cutOff>>

\* The receipt counts only with its status.
BuyMined ==
  /\ dist = "buy wait" /\ buyTx \in {"mined", "reverted"}
  /\ IF buyTx = "reverted" THEN Return("error")
     ELSE IF answer[taken].cancellable THEN dist' = "watching" /\ UNCHANGED result
     ELSE Return("bought")
  /\ UNCHANGED <<callVars, now, supVars, chainVars, taken, attempt, cutOff, lostReply>>

\* The caller's deadline passes while the purchase is on its way.
BuyWaitCutOff ==
  /\ dist = "buy wait"
  /\ Return("error") /\ cutOff' = TRUE
  /\ UNCHANGED <<callVars, now, supVars, chainVars, taken, attempt, lostReply>>

\* Mutant: a failed subscription turns the purchase into an error.
SubscribeOrFail ==
  /\ dist = "watching"
  /\ Return("bought") \/ Return("error")
  /\ UNCHANGED <<callVars, now, supVars, chainVars, taken, attempt, cutOff, lostReply>>

\* A failed subscription for cancellations adds an alert and no more.
SubscribeCancellationEvents ==
  /\ dist = "watching"
  /\ Return("bought")
  /\ UNCHANGED <<callVars, now, supVars, chainVars, taken, attempt, cutOff, lostReply>>

-----------------------------------------------------------------------------
(* The chain (external) and time.                                          *)

MineMint(c) ==
  /\ mintTx[c] = "pending"
  /\ \/ /\ mintTx' = [mintTx EXCEPT ![c] = "mined"]
        /\ reservation' = [reservation EXCEPT ![c] =
             [buyer |-> request.buyer, amount |-> order[c].amount,
              paymentToken |-> order[c].paymentToken, until |-> order[c].until]]
     \/ /\ mintTx' = [mintTx EXCEPT ![c] = "reverted"]
        /\ UNCHANGED reservation
  /\ UNCHANGED <<callVars, now, supVars, visible, buyTx, bought, distVars>>

SyncBackend(c, b) ==
  /\ reservation[c] # Nil /\ b \notin visible[c]
  /\ visible' = [visible EXCEPT ![c] = @ \cup {b}]
  /\ UNCHANGED <<callVars, now, supVars, mintTx, reservation, buyTx, bought, distVars>>

MineBuy ==
  /\ buyTx = "pending"
  /\ IF Buyable(taken, Wanted)
       THEN buyTx' = "mined" /\ bought' = bought \cup {taken}
       ELSE buyTx' = "reverted" /\ UNCHANGED bought
  /\ UNCHANGED <<callVars, now, supVars, mintTx, reservation, visible, distVars>>

Tick ==
  /\ now < MaxTime
  /\ now' = now + 1
  /\ UNCHANGED <<callVars, supVars, chainVars, distVars>>

-----------------------------------------------------------------------------
Supplier(c) ==
  \/ \E p \in PluginResponses : PluginAnswers(c, p)
  \/ SendMint(c) \/ MintMined(c) \/ MintWaitCutOff(c) \/ SubscribeAndAnswer(c)
Poll == \E b \in Backends : pollTokenVisible(b)
Buy == \E b \in Backends : SendBuy(b)
Distributor ==
  \/ PrepareRequest \/ NoResponse \/ Poll \/ Buy
  \/ \E c \in Copies : TakeResponse(c)
  \/ BuyMined \/ BuyWaitCutOff \/ SubscribeCancellationEvents
Chain ==
  \/ \E c \in Copies : MineMint(c) \/ \E b \in Backends : SyncBackend(c, b)
  \/ MineBuy

Next == (\E c \in Copies : Supplier(c)) \/ Distributor \/ Chain \/ Tick

Spec == Init /\ [][Next]_vars

\* The caller's context ends at some time, and the goroutine of the call runs.
FairSpec ==
  /\ Spec
  /\ WF_vars(NoResponse) /\ WF_vars(Poll) /\ WF_vars(Buy)
  /\ WF_vars(BuyWaitCutOff) /\ WF_vars(SubscribeCancellationEvents)

-----------------------------------------------------------------------------
\* A caller who is told that the booking is bought owns the token named in the
\* response; from version 4 on at the amount and in the currency it expected,
\* and nothing else is bought for it, however many tokens were minted.
AnsweredIsBought ==
  /\ bought \subseteq {taken}
  /\ result = "bought" => taken \in bought
  /\ \A t \in bought :
       version # 3 =>
         LET e == GetPriceAndToken(version, request.expected) IN
           /\ reservation[t].amount = e.amount
           /\ reservation[t].paymentToken = e.paymentToken

\* A token is paid for while the caller gets an error in two cases only: the
\* node took the transaction and its answer was lost, or the context ended
\* during the wait for it.  An error before or after the sending, that of the
\* subscription for cancellations too, never stands over a purchase.
PurchaseReported ==
  bought # {} =>
    dist \in {"buy wait", "watching"} \/ result = "bought" \/ cutOff \/ lostReply

\* A token that exists for a request whose handling is over is watched by the
\* supplier, unless the node's answer to the sending was lost, the wait was cut
\* off, the receipt could not be read or the subscription failed, and of these
\* only the last goes with a success; and it never can be bought outside the
\* window.
MintedIsWatched ==
  \A c \in Copies :
    reservation[c] # Nil =>
      /\ sup[c] = "answered" => c \in watched \/ unwatched[c] # Nil
      /\ answer[c] # Nil /\ answer[c].status = "success"
           => c \in watched \/ unwatched[c] = "not subscribed"
      /\ reservation[c].until \in (1 + Minimal)..(now + Maximal)

\* Every Mint call returns: neither an unsynced node nor a transaction that is
\* never mined holds it.
FlowReturns == dist = "waiting" ~> dist = "returned"
=============================================================================
