--------------------- MODULE CancellationListenerProofs ---------------------
(***************************************************************************)
(* Proofs about CancellationListener, for every set of tokens, length of   *)
(* chain and number of failures and kills.                                 *)
(*                                                                         *)
(* That a handler's row stays until its session ends rests on three facts  *)
(* beside the read lock: a handler holds an event of its own kind, no      *)
(* cancellation handler runs while the startup check does, and the check   *)
(* looks at stored rows only.  The check's own removal is committed in a   *)
(* later step than its notification; it is that token's session which has  *)
(* the write lock in between.                                              *)
(***************************************************************************)
EXTENDS CancellationListener, SequenceTheorems, TLAPS

\* A handler that is not idle holds an event of its kind.
HoldsEvent ==
  \A k \in Kinds : stage[k] # "idle" =>
    cur[k] \in 1..Len(log) /\ log[cur[k]].kind = k

\* Before the watches are asked for, no cancellation event is handled.
QuietStart ==
  proc # "up" => \A k \in Cancellation : watch[k] = 0 /\ stage[k] = "idle"

\* A token's session that has written is that of a purchase, which needs a bot that
\* is up, or of the startup check, which has reported the token's end before.
TokenWriters ==
  /\ proc # "up" => buying = {}
  /\ writer \in Tokens => writer \in buying \cup toCheck
  /\ writer \in toCheck => "finalized" \in notified[writer]

\* The startup check looks at stored rows, and only it does.
ChecksRows ==
  /\ toCheck \subseteq subs
  /\ proc # "checking" => toCheck = {}

\* Only the handlers that write get to their write.
OnlyWriters == \A k \in Kinds : stage[k] \in {"commit", "written"} => k \in Writers

\* When the handler of a final cancellation writes, it has been accepted.
FinalAccepted ==
  stage["finalized"] \in {"commit", "written"} =>
    "finalized" \in notified[Token("finalized")]

\* What has been reported happened.
ReportedHappened ==
  \A t \in Tokens : \A k \in notified[t] :
    \E i \in 1..Len(log) : log[i] = Event(k, t)

\* What has been reported is of a token with a row, or whose row has ended.
ReportedHadRow ==
  \A t \in Tokens : notified[t] # {} => t \in subs \/ "finalized" \in notified[t]

IInv ==
  /\ TypeOK /\ HoldsEvent /\ QuietStart /\ TokenWriters /\ ChecksRows /\ OnlyWriters
  /\ ReportsStoredRows /\ FinalAccepted /\ ReportedHappened /\ ReportedHadRow

-----------------------------------------------------------------------------

\* The kinds of events, spelled out.
LEMMA KindFacts ==
  /\ "finalized" \in Cancellation /\ "pending" \in Cancellation
  /\ "bought" \in Kinds /\ "bought" \notin Cancellation
  /\ Cancellation \subseteq Kinds
  /\ Cancellation = Kinds \ {"bought"}
  /\ Writers \subseteq Kinds
  BY CancellationAssumption DEF Cancellation, Kinds, Writers

\* Appending an event to the chain keeps the earlier ones.
LEMMA AppendFacts ==
  ASSUME NEW S, NEW s \in Seq(S), NEW e \in S
  PROVE  /\ Append(s, e) \in Seq(S)
         /\ Len(Append(s, e)) = Len(s) + 1
         /\ Len(s) \in Nat
         /\ \A i \in 1..Len(s) : Append(s, e)[i] = s[i]
  OBVIOUS

\* Every event of the chain is of some kind and some token.
LEMMA LogFacts ==
  ASSUME TypeOK, NEW i \in 1..Len(log)
  PROVE  log[i].kind \in Kinds /\ log[i].token \in Tokens
  <1>1. log[i] \in [kind : Kinds, token : Tokens]
    BY ElementOfSeq DEF TypeOK
  <1> QED
    BY <1>1

\* The initial state satisfies the invariant.
LEMMA InitIInv == Init => IInv
  <1> SUFFICES ASSUME Init PROVE IInv
    OBVIOUS
  <1> USE CancellationAssumption, KindFacts
  <1>1. TypeOK
    BY DEF Init, TypeOK, Stages
  <1>2. HoldsEvent /\ QuietStart /\ TokenWriters /\ ChecksRows /\ OnlyWriters
        /\ ReportsStoredRows
    BY DEF Init, HoldsEvent, QuietStart, TokenWriters, ChecksRows, OnlyWriters,
           ReportsStoredRows, Reading
  <1>3. FinalAccepted /\ ReportedHappened /\ ReportedHadRow
    BY DEF Init, FinalAccepted, ReportedHappened, ReportedHadRow
  <1> QED
    BY <1>1, <1>2, <1>3 DEF IInv

\* An event of the chain disturbs nothing that has been said of earlier ones.
LEMMA ChainStep ==
  ASSUME IInv, NEW e \in [kind : Kinds, token : Tokens],
         log' = Append(log, e), buying' \in SUBSET Tokens, buying \subseteq buying',
         buying' = buying \/ proc = "up",
         UNCHANGED <<rowVars, startVars, handlerVars, notified, lockVars, failures,
                     kills>>
  PROVE  IInv'
  <1>u. UNCHANGED <<offers, subs, proc, startBlock, toCheck, watch, stage, cur,
                    blockNumber, notified, writer, refused, failures, kills>>
    BY DEF rowVars, startVars, handlerVars, lockVars
  <1>1. /\ log' \in Seq([kind : Kinds, token : Tokens])
        /\ Len(log') = Len(log) + 1
        /\ Len(log) \in Nat
        /\ \A i \in 1..Len(log) : log'[i] = log[i]
    BY AppendFacts DEF IInv, TypeOK
  <1>2. TypeOK'
    BY <1>1, <1>u DEF IInv, TypeOK
  <1>3. HoldsEvent'
    BY <1>1, <1>u DEF IInv, HoldsEvent
  <1>4. QuietStart' /\ ChecksRows'
    BY <1>u DEF IInv, QuietStart, ChecksRows
  <1>5. \A k \in Kinds : stage[k] # "idle" => Token(k)' = Token(k)
    BY <1>1, <1>u DEF IInv, HoldsEvent, Token
  <1>6. ReportsStoredRows'
    BY <1>5, <1>u, KindFacts DEF IInv, ReportsStoredRows, Reading
  <1>7. FinalAccepted'
    BY <1>5, <1>u, KindFacts DEF IInv, FinalAccepted
  <1>8. ReportedHappened'
    BY <1>1, <1>u DEF IInv, ReportedHappened, Event
  <1>9. ReportedHadRow'
    BY <1>u DEF IInv, ReportedHadRow
  <1>w. OnlyWriters' /\ TokenWriters'
    BY <1>u DEF IInv, OnlyWriters, TokenWriters
  <1> QED
    BY <1>w, <1>2, <1>3, <1>4, <1>6, <1>7, <1>8, <1>9 DEF IInv

\* Steps of the chain.
LEMMA ChainSteps ==
  ASSUME IInv, NEW t \in Tokens,
         Proposal(t) \/ TokenSold(t) \/ BuyBookingToken(t)
  PROVE  IInv'
  <1>1. \A k \in Kinds : Event(k, t) \in [kind : Kinds, token : Tokens]
    BY DEF Event
  <1>t. buying \in SUBSET Tokens
    BY DEF IInv, TypeOK
  <1>2. CASE Proposal(t)
    <2>1. PICK k \in Kinds : log' = Append(log, Event(k, t))
      BY <1>2, KindFacts DEF Proposal
    <2> QED
      BY <1>1, <1>2, <1>t, <2>1, ChainStep DEF Proposal
  <1>3. CASE TokenSold(t)
    BY <1>1, <1>3, <1>t, KindFacts, ChainStep DEF TokenSold
  <1>4. CASE BuyBookingToken(t)
    BY <1>1, <1>4, <1>t, KindFacts, ChainStep DEF BuyBookingToken
  <1> QED
    BY <1>2, <1>3, <1>4

\* The session of a purchase writes its row and commits it, or fails.
LEMMA RowStep ==
  ASSUME IInv, NEW t \in Tokens, SubscribeCancellationEvents(t) \/ CommitSubscribed(t)
  PROVE  IInv'
  <1>u. UNCHANGED <<log, offers, proc, startBlock, toCheck, watch, stage, cur,
                    blockNumber, notified, refused, kills>>
    BY DEF SubscribeCancellationEvents, CommitSubscribed, startVars, handlerVars, rowVars
  <1>1. /\ subs \subseteq subs' /\ subs' \subseteq subs \cup {t}
        /\ t \in buying /\ buying' \subseteq buying /\ buying \ {t} \subseteq buying'
        /\ \/ writer' = t /\ buying' = buying
           \/ writer' = writer /\ writer # t
           \/ writer' = "none"
    BY DEF SubscribeCancellationEvents, CommitSubscribed, AddCancellationSubscription,
           rowVars
  <1>f. failures' \in 0..MaxFailures
    BY CancellationAssumption
    DEF SubscribeCancellationEvents, CommitSubscribed, CallWorks, CallFails, IInv, TypeOK
  <1>2. TypeOK'
    BY <1>u, <1>1, <1>f DEF IInv, TypeOK
  <1>3. HoldsEvent' /\ QuietStart' /\ ChecksRows'
    BY <1>u, <1>1 DEF IInv, HoldsEvent, QuietStart, ChecksRows
  <1>4. ReportsStoredRows' /\ FinalAccepted'
    BY <1>u, <1>1 DEF IInv, ReportsStoredRows, FinalAccepted, Token
  <1>5. ReportedHappened' /\ ReportedHadRow'
    BY <1>u, <1>1 DEF IInv, ReportedHappened, ReportedHadRow
  <1>6. TokenWriters'
    <2>1. "none" \notin Tokens
      BY CancellationAssumption
    <2>2. proc = "up" /\ toCheck = {}
      BY <1>1 DEF IInv, TokenWriters, ChecksRows
    <2> QED
      BY <1>u, <1>1, <2>1, <2>2 DEF IInv, TokenWriters
  <1>w. OnlyWriters'
    BY <1>u DEF IInv, OnlyWriters
  <1> QED
    BY <1>w, <1>2, <1>3, <1>4, <1>5, <1>6 DEF IInv

\* A session of token_bought_subscriptions takes and releases the write lock.
LEMMA OtherStep ==
  ASSUME IInv, OtherWrites \/ OtherCommits
  PROVE  IInv'
  <1>u. UNCHANGED <<log, offers, subs, buying, proc, startBlock, toCheck, watch, stage,
                    cur, blockNumber, notified, refused, failures, kills>>
    BY DEF OtherWrites, OtherCommits, startVars, handlerVars, rowVars
  <1>1. writer' \in {"none", "other"}
    BY DEF OtherWrites, OtherCommits
  <1>2. TypeOK'
    BY <1>u, <1>1 DEF IInv, TypeOK
  <1>3. HoldsEvent' /\ QuietStart' /\ ChecksRows' /\ OnlyWriters'
    BY <1>u DEF IInv, HoldsEvent, QuietStart, ChecksRows, OnlyWriters
  <1>4. ReportsStoredRows' /\ FinalAccepted'
    BY <1>u DEF IInv, ReportsStoredRows, FinalAccepted, Token
  <1>5. ReportedHappened' /\ ReportedHadRow'
    BY <1>u DEF IInv, ReportedHappened, ReportedHadRow
  <1>6. TokenWriters'
    <2>1. writer' \notin Tokens /\ toCheck \subseteq Tokens
      BY <1>1, CancellationAssumption DEF IInv, TypeOK
    <2> QED
      BY <1>u, <2>1 DEF IInv, TokenWriters
  <1> QED
    BY <1>2, <1>3, <1>4, <1>5, <1>6 DEF IInv

\* A watch starts or ends.
LEMMA WatchStep ==
  ASSUME IInv, NEW k \in Kinds, Subscribe(k) \/ WatchBreaks(k)
  PROVE  IInv'
  <1>u. UNCHANGED <<log, offers, subs, buying, proc, startBlock, toCheck, stage,
                    cur, blockNumber, notified, writer, refused, kills>>
    BY DEF Subscribe, WatchBreaks, rowVars, startVars, lockVars
  <1>f. failures' \in 0..MaxFailures
    BY CancellationAssumption DEF Subscribe, WatchBreaks, CallFails, IInv, TypeOK
  <1>l. Len(log) \in Nat
    BY DEF IInv, TypeOK
  <1>b. blockNumber \in Nat
    BY <1>l DEF IInv, TypeOK
  <1>w. watch' \in [Kinds -> Nat]
    <2>1. \E w \in Nat : watch' = [watch EXCEPT ![k] = w]
      BY <1>b DEF Subscribe, WatchBreaks
    <2>2. watch \in [Kinds -> Nat]
      BY DEF IInv, TypeOK
    <2> QED
      BY <2>1, <2>2
  <1>1. TypeOK'
    BY <1>u, <1>f, <1>w DEF IInv, TypeOK
  <1>2. HoldsEvent' /\ ChecksRows'
    BY <1>u DEF IInv, HoldsEvent, ChecksRows
  <1>3. QuietStart'
    BY <1>u, KindFacts DEF IInv, TypeOK, QuietStart, Subscribe, WatchBreaks, Wanted
  <1>4. ReportsStoredRows' /\ FinalAccepted'
    BY <1>u DEF IInv, ReportsStoredRows, FinalAccepted, Token
  <1>5. ReportedHappened' /\ ReportedHadRow'
    BY <1>u DEF IInv, ReportedHappened, ReportedHadRow
  <1>y. OnlyWriters' /\ TokenWriters'
    BY <1>u DEF IInv, OnlyWriters, TokenWriters
  <1> QED
    BY <1>y, <1>1, <1>2, <1>3, <1>4, <1>5 DEF IInv

\* An event is delivered.
LEMMA DeliverStep ==
  ASSUME IInv, NEW k \in Kinds, Deliver(k)
  PROVE  IInv'
  <1>u. UNCHANGED <<log, offers, subs, buying, proc, startBlock, toCheck,
                    blockNumber, notified, writer, refused, failures, kills>>
    BY DEF Deliver, rowVars, startVars, lockVars
  <1>l. Len(log) \in Nat /\ watch[k] \in Nat
    BY DEF IInv, TypeOK
  <1>0. watch[k] # 0
    BY DEF Deliver
  <1>p. PICK i \in watch[k]..Len(log) :
          /\ log[i].kind = k
          /\ cur' = [cur EXCEPT ![k] = i]
          /\ watch' = [watch EXCEPT ![k] = i + 1]
    BY DEF Deliver
  <1>1. /\ i \in 1..Len(log)
        /\ log[i].kind = k
        /\ cur' = [cur EXCEPT ![k] = i]
        /\ watch' = [watch EXCEPT ![k] = i + 1]
    BY <1>l, <1>p, <1>0
  <1>2. stage' = [stage EXCEPT ![k] = "lookup"]
    BY DEF Deliver
  <1>t. stage \in [Kinds -> Stages] /\ cur \in [Kinds -> 0..Len(log)]
    BY DEF IInv, TypeOK
  <1>3. TypeOK'
    BY <1>u, <1>l, <1>1, <1>2 DEF IInv, TypeOK, Stages
  <1>4. HoldsEvent'
    BY <1>u, <1>1, <1>2, <1>t DEF IInv, HoldsEvent
  <1>5. QuietStart'
    BY <1>u, <1>1, <1>2, <1>t, KindFacts
    DEF IInv, TypeOK, QuietStart, Deliver
  <1>6. ChecksRows' /\ ReportedHappened' /\ ReportedHadRow'
    BY <1>u DEF IInv, ChecksRows, ReportedHappened, ReportedHadRow
  <1>7. ReportsStoredRows'
    BY <1>u, <1>1, <1>2, <1>t, KindFacts DEF IInv, ReportsStoredRows, Reading, Token
  <1>8. FinalAccepted'
    BY <1>u, <1>1, <1>2, <1>t, KindFacts DEF IInv, FinalAccepted, Token
  <1>w. OnlyWriters' /\ TokenWriters'
    BY <1>u, <1>2, <1>t DEF IInv, OnlyWriters, TokenWriters
  <1> QED
    BY <1>w, <1>3, <1>4, <1>5, <1>6, <1>7, <1>8 DEF IInv

\* The token a handler is at.
LEMMA TokenFacts ==
  ASSUME IInv, NEW k \in Kinds, stage[k] # "idle"
  PROVE  /\ cur[k] \in 1..Len(log)
         /\ log[cur[k]].kind = k
         /\ Token(k) \in Tokens
  BY LogFacts DEF IInv, HoldsEvent, Token

\* What a step of handler k leaves alone, and where it can take the handler.
LEMMA HandlerFrame ==
  ASSUME IInv, NEW k \in Kinds, HandlerStep(k)
  PROVE  /\ UNCHANGED <<log, buying, proc, startBlock, toCheck, watch, kills>>
         /\ failures' \in 0..MaxFailures
         /\ stage[k] # "idle"
         /\ \E s \in Stages : stage' = [stage EXCEPT ![k] = s]
         /\ \/ cur' = cur
            \/ cur' = [cur EXCEPT ![k] = 0] /\ stage'[k] = "idle"
         /\ blockNumber' \in 0..Len(log)
         /\ writer' \in {writer, k, "none"}
         /\ refused' \in SUBSET Tokens
  <1>t. stage \in [Kinds -> Stages] /\ cur \in [Kinds -> 0..Len(log)]
        /\ blockNumber \in 0..Len(log) /\ failures \in 0..MaxFailures
        /\ refused \in SUBSET Tokens
    BY DEF IInv, TypeOK
  <1>k. stage[k] # "idle" => Token(k) \in Tokens
    BY TokenFacts
  <1> USE CancellationAssumption DEF startVars, lockVars, CallWorks, CallFails,
          Continues, Fails, Goes, Stages
  <1>1. CASE Lookup(k)
    BY <1>1, <1>t DEF Lookup
  <1>2. CASE Notify(k)
    BY <1>2, <1>t DEF Notify
  <1>3. CASE CommitRow(k)
    BY <1>3, <1>t DEF CommitRow
  <1>4. CASE Return(k)
    BY <1>4, <1>t DEF Return
  <1>5. CASE WriteRow(k)
    <2>1. stage[k] = "commit" /\ UNCHANGED <<log, buying, startVars, watch, blockNumber, kills>>
      BY <1>5 DEF WriteRow
    <2>2. /\ failures' \in 0..MaxFailures
          /\ \/ cur' = cur /\ stage' = [stage EXCEPT ![k] = "written"]
             \/ cur' = [cur EXCEPT ![k] = 0] /\ stage' = [stage EXCEPT ![k] = "idle"]
      BY <1>5, <1>t DEF WriteRow
    <2>3. writer' \in {writer, k} /\ refused' \in {refused, refused \cup {Token(k)}}
      BY <1>5 DEF WriteRow
    <2> QED
      BY <1>k, <1>t, <2>1, <2>2, <2>3
  <1> QED
    BY <1>1, <1>2, <1>3, <1>4, <1>5 DEF HandlerStep

\* An event is a record of its kind and its token.
LEMMA EventOf ==
  ASSUME TypeOK, NEW i \in 1..Len(log)
  PROVE  log[i] = Event(log[i].kind, log[i].token)
  <1>1. log[i] \in [kind : Kinds, token : Tokens]
    BY ElementOfSeq DEF TypeOK
  <1> QED
    BY <1>1 DEF Event

\* The parts of the invariant that a handler step does not reach into.
LEMMA HandlerShape ==
  ASSUME IInv, NEW k \in Kinds, HandlerStep(k)
  PROVE  HoldsEvent' /\ QuietStart' /\ TokenWriters'
  <1>f. /\ UNCHANGED <<log, proc, watch>>
        /\ stage[k] # "idle"
        /\ \E s \in Stages : stage' = [stage EXCEPT ![k] = s]
        /\ \/ cur' = cur
           \/ cur' = [cur EXCEPT ![k] = 0] /\ stage'[k] = "idle"
    BY HandlerFrame
  <1>t. stage \in [Kinds -> Stages] /\ cur \in [Kinds -> 0..Len(log)]
    BY DEF IInv, TypeOK
  <1>1. \A j \in Kinds \ {k} : stage'[j] = stage[j] /\ cur'[j] = cur[j]
    BY <1>f, <1>t
  <1>2. HoldsEvent'
    <2>1. ASSUME NEW j \in Kinds, stage'[j] # "idle"
          PROVE  cur'[j] \in 1..Len(log) /\ log[cur'[j]].kind = j
      <3>1. CASE j = k
        BY <1>f, <2>1, <3>1 DEF IInv, HoldsEvent
      <3>2. CASE j # k
        BY <1>1, <2>1, <3>2 DEF IInv, HoldsEvent
      <3> QED
        BY <3>1, <3>2
    <2> QED
      BY <1>f, <2>1 DEF HoldsEvent
  <1>3. QuietStart'
    <2>1. proc # "up" => k = "bought"
      BY <1>f, KindFacts DEF IInv, QuietStart
    <2> QED
      BY <1>f, <1>1, <2>1, KindFacts DEF IInv, QuietStart
  <1>4. TokenWriters'
    <2>1. /\ UNCHANGED <<buying, proc, toCheck>>
          /\ writer' = writer \/ writer' \notin Tokens
      BY HandlerFrame, CancellationAssumption
    <2>2. notified \in [Tokens -> SUBSET Cancellation] /\ toCheck \subseteq Tokens
      BY DEF IInv, TypeOK
    <2>3. \A t \in Tokens : notified[t] \subseteq notified'[t]
      <3>1. UNCHANGED notified \/ Accepted(k)
        BY DEF HandlerStep, Lookup, Notify, WriteRow, CommitRow, Return
      <3>2. \/ UNCHANGED notified
            \/ notified' = [notified EXCEPT ![Token(k)] = @ \cup {k}]
        BY <3>1 DEF Accepted
      <3> QED
        BY <2>2, <3>2
    <2> QED
      BY <2>1, <2>2, <2>3 DEF IInv, TokenWriters
  <1> QED
    BY <1>2, <1>3, <1>4

\* The lookup: a handler goes on only with a row.
LEMMA LookupStep ==
  ASSUME IInv, NEW k \in Kinds, Lookup(k)
  PROVE  IInv'
  <1>f. /\ UNCHANGED <<log, buying, proc, startBlock, toCheck, watch, kills>>
        /\ failures' \in 0..MaxFailures
        /\ stage[k] # "idle"
        /\ \E s \in Stages : stage' = [stage EXCEPT ![k] = s]
        /\ \/ cur' = cur
           \/ cur' = [cur EXCEPT ![k] = 0] /\ stage'[k] = "idle"
        /\ blockNumber' \in 0..Len(log)
        /\ writer' \in {writer, k, "none"} /\ refused' \in SUBSET Tokens
    BY HandlerFrame DEF HandlerStep
  <1>t. stage \in [Kinds -> Stages] /\ cur \in [Kinds -> 0..Len(log)]
    BY DEF IInv, TypeOK
  <1>o. \A j \in Kinds \ {k} :
          stage'[j] = stage[j] /\ cur'[j] = cur[j] /\ Token(j)' = Token(j)
    BY <1>f, <1>t DEF Token
  <1>k. stage'[k] # "idle" => Token(k)' = Token(k)
    BY <1>f DEF Token
  <1>z. Len(log) \in Nat /\ 0 \in 0..Len(log)
    BY DEF IInv, TypeOK
  <1>c. stage' \in [Kinds -> Stages] /\ cur' \in [Kinds -> 0..Len(log)]
    BY <1>f, <1>t, <1>z
  <1>s. HoldsEvent' /\ QuietStart' /\ TokenWriters'
    BY HandlerShape DEF HandlerStep
  <1>u. UNCHANGED <<offers, subs, notified>>
    BY DEF Lookup, rowVars
  <1>1. TypeOK'
    BY <1>f, <1>u, <1>c DEF IInv, TypeOK
  <1>2. ChecksRows' /\ ReportedHappened' /\ ReportedHadRow'
    BY <1>f, <1>u DEF IInv, ChecksRows, ReportedHappened, ReportedHadRow
  <1>3. /\ stage'[k] \in {"idle", "notify", "done"}
        /\ stage'[k] = "notify" => HasRow(k)
    BY <1>t DEF Lookup, Continues, Fails, Goes
  <1>4. ReportsStoredRows'
    <2>1. ASSUME NEW j \in Cancellation, stage'[j] \in Reading
          PROVE  Token(j)' \in subs
      <3>1. CASE j = k
        BY <1>3, <1>k, <2>1, <3>1, KindFacts
        DEF HasRow, IsCancellationSubscriptionExist, Reading
      <3>2. CASE j # k
        BY <1>o, <2>1, <3>2, KindFacts DEF IInv, ReportsStoredRows
      <3> QED
        BY <3>1, <3>2
    <2> QED
      BY <1>u, <2>1 DEF ReportsStoredRows
  <1>5. FinalAccepted'
    BY <1>3, <1>o, <1>u, KindFacts DEF IInv, FinalAccepted
  <1>w. OnlyWriters'
    BY <1>3, <1>o DEF IInv, OnlyWriters
  <1> QED
    BY <1>w, <1>s, <1>1, <1>2, <1>4, <1>5 DEF IInv

\* The notification: what is accepted is an event of the chain, of a token with
\* a row.
LEMMA NotifyStep ==
  ASSUME IInv, NEW k \in Kinds, Notify(k)
  PROVE  IInv'
  <1>f. /\ UNCHANGED <<log, buying, proc, startBlock, toCheck, watch, kills>>
        /\ failures' \in 0..MaxFailures
        /\ stage[k] # "idle"
        /\ \E s \in Stages : stage' = [stage EXCEPT ![k] = s]
        /\ \/ cur' = cur
           \/ cur' = [cur EXCEPT ![k] = 0] /\ stage'[k] = "idle"
        /\ blockNumber' \in 0..Len(log)
        /\ writer' \in {writer, k, "none"} /\ refused' \in SUBSET Tokens
    BY HandlerFrame DEF HandlerStep
  <1>t. stage \in [Kinds -> Stages] /\ cur \in [Kinds -> 0..Len(log)]
    BY DEF IInv, TypeOK
  <1>o. \A j \in Kinds \ {k} :
          stage'[j] = stage[j] /\ cur'[j] = cur[j] /\ Token(j)' = Token(j)
    BY <1>f, <1>t DEF Token
  <1>k. stage'[k] # "idle" => Token(k)' = Token(k)
    BY <1>f DEF Token
  <1>z. Len(log) \in Nat /\ 0 \in 0..Len(log)
    BY DEF IInv, TypeOK
  <1>c. stage' \in [Kinds -> Stages] /\ cur' \in [Kinds -> 0..Len(log)]
    BY <1>f, <1>t, <1>z
  <1>s. HoldsEvent' /\ QuietStart' /\ TokenWriters'
    BY HandlerShape DEF HandlerStep
  <1>u. UNCHANGED <<offers, subs>>
    BY DEF Notify, rowVars
  <1>e. /\ cur[k] \in 1..Len(log)
        /\ Token(k) \in Tokens
        /\ log[cur[k]] = Event(k, Token(k))
    BY <1>f, TokenFacts, EventOf DEF IInv, Token
  <1>n. notified \in [Tokens -> SUBSET Cancellation]
    BY DEF IInv, TypeOK
  <1>1. \/ UNCHANGED notified /\ (k = "bought" \/ stage'[k] = "idle")
        \/ /\ k \in Cancellation
           /\ notified' = [notified EXCEPT ![Token(k)] = @ \cup {k}]
    BY <1>t, KindFacts DEF Notify, Accepted, Continues, Fails, Goes
  <1>2. /\ notified' \in [Tokens -> SUBSET Cancellation]
        /\ \A t \in Tokens : notified[t] \subseteq notified'[t]
        /\ \A t \in Tokens : notified'[t] # notified[t] =>
             t = Token(k) /\ k \in Cancellation
        /\ \A t \in Tokens : notified'[t] \subseteq notified[t] \cup {k}
    BY <1>1, <1>e, <1>n
  <1>3. TypeOK'
    BY <1>f, <1>u, <1>c, <1>2 DEF IInv, TypeOK
  <1>4. ChecksRows'
    BY <1>f, <1>u DEF IInv, ChecksRows
  <1>5. ReportedHappened'
    <2>1. ASSUME NEW t \in Tokens, NEW r \in notified'[t]
          PROVE  \E i \in 1..Len(log) : log[i] = Event(r, t)
      <3>1. CASE r \in notified[t]
        BY <3>1 DEF IInv, ReportedHappened
      <3>2. CASE r \notin notified[t]
        <4>1. t = Token(k) /\ r = k
          BY <1>2, <2>1, <3>2
        <4> QED
          BY <1>e, <4>1
      <3> QED
        BY <3>1, <3>2
    <2> QED
      BY <1>f, <2>1 DEF ReportedHappened, Event
  <1>6. k \in Cancellation => Token(k) \in subs
    BY DEF IInv, ReportsStoredRows, Reading, Notify
  <1>7. ReportedHadRow'
    BY <1>u, <1>2, <1>6 DEF IInv, ReportedHadRow
  <1>8. ReportsStoredRows'
    <2>1. ASSUME NEW j \in Cancellation, stage'[j] \in Reading
          PROVE  Token(j)' \in subs
      <3>1. CASE j = k
        BY <1>6, <1>k, <2>1, <3>1 DEF Reading
      <3>2. CASE j # k
        BY <1>o, <2>1, <3>2, KindFacts DEF IInv, ReportsStoredRows
      <3> QED
        BY <3>1, <3>2
    <2> QED
      BY <1>u, <2>1 DEF ReportsStoredRows
  <1>9. FinalAccepted'
    <2>1. CASE k = "finalized"
      <3>1. stage'[k] # "idle" => k \in notified'[Token(k)]
        BY <1>1, <1>e, <1>n, <2>1
      <3> QED
        BY <1>k, <2>1, <3>1 DEF FinalAccepted
    <2>2. CASE k # "finalized"
      <3>0. "finalized" \in Kinds \ {k}
        BY <2>2, KindFacts
      <3>1. stage'["finalized"] = stage["finalized"]
            /\ Token("finalized")' = Token("finalized")
        BY <1>o, <3>0
      <3>2. stage["finalized"] \in {"commit", "written"} => Token("finalized") \in Tokens
        BY TokenFacts, KindFacts
      <3> QED
        BY <1>2, <3>1, <3>2 DEF IInv, FinalAccepted
    <2> QED
      BY <2>1, <2>2
  <1>w. OnlyWriters'
    BY <1>t, <1>o DEF IInv, OnlyWriters, Notify, Continues, Fails, Goes
  <1> QED
    BY <1>w, <1>s, <1>3, <1>4, <1>5, <1>7, <1>8, <1>9 DEF IInv

\* The handler writes, or is refused.
LEMMA WriteStep ==
  ASSUME IInv, NEW k \in Kinds, WriteRow(k)
  PROVE  IInv'
  <1>f. /\ UNCHANGED <<log, buying, proc, startBlock, toCheck, watch, kills>>
        /\ failures' \in 0..MaxFailures
        /\ stage[k] # "idle"
        /\ \E s \in Stages : stage' = [stage EXCEPT ![k] = s]
        /\ \/ cur' = cur
           \/ cur' = [cur EXCEPT ![k] = 0] /\ stage'[k] = "idle"
        /\ blockNumber' \in 0..Len(log)
        /\ writer' \in {writer, k, "none"} /\ refused' \in SUBSET Tokens
    BY HandlerFrame DEF HandlerStep
  <1>t. stage \in [Kinds -> Stages] /\ cur \in [Kinds -> 0..Len(log)]
    BY DEF IInv, TypeOK
  <1>o. \A j \in Kinds \ {k} :
          stage'[j] = stage[j] /\ cur'[j] = cur[j] /\ Token(j)' = Token(j)
    BY <1>f, <1>t DEF Token
  <1>k. stage'[k] # "idle" => Token(k)' = Token(k)
    BY <1>f DEF Token
  <1>z. Len(log) \in Nat /\ 0 \in 0..Len(log)
    BY DEF IInv, TypeOK
  <1>c. stage' \in [Kinds -> Stages] /\ cur' \in [Kinds -> 0..Len(log)]
    BY <1>f, <1>t, <1>z
  <1>s. HoldsEvent' /\ QuietStart' /\ TokenWriters'
    BY HandlerShape DEF HandlerStep
  <1>u. UNCHANGED <<offers, subs, notified>>
    BY DEF WriteRow, rowVars
  <1>1. stage[k] = "commit" /\ stage'[k] \in {"idle", "written"}
    BY <1>t DEF WriteRow, Continues, Fails, Goes
  <1>2. TypeOK'
    BY <1>f, <1>u, <1>c DEF IInv, TypeOK
  <1>w. OnlyWriters'
    BY <1>1, <1>o DEF IInv, OnlyWriters
  <1>3. ChecksRows' /\ ReportedHappened' /\ ReportedHadRow'
    BY <1>f, <1>u DEF IInv, ChecksRows, ReportedHappened, ReportedHadRow
  <1>4. FinalAccepted'
    BY <1>u, <1>1, <1>o, <1>k, KindFacts DEF IInv, FinalAccepted
  <1>5. ReportsStoredRows'
    BY <1>u, <1>1, <1>o, <1>k, KindFacts DEF IInv, ReportsStoredRows, Reading
  <1> QED
    BY <1>s, <1>w, <1>2, <1>3, <1>4, <1>5 DEF IInv

\* The commit: a row is added, or the row of a final cancellation goes while no
\* other handler has a session open.
LEMMA CommitStep ==
  ASSUME IInv, NEW k \in Kinds, CommitRow(k)
  PROVE  IInv'
  <1>f. /\ UNCHANGED <<log, buying, proc, startBlock, toCheck, watch, kills>>
        /\ failures' \in 0..MaxFailures
        /\ stage[k] # "idle"
        /\ \E s \in Stages : stage' = [stage EXCEPT ![k] = s]
        /\ \/ cur' = cur
           \/ cur' = [cur EXCEPT ![k] = 0] /\ stage'[k] = "idle"
        /\ blockNumber' \in 0..Len(log)
        /\ writer' \in {writer, k, "none"} /\ refused' \in SUBSET Tokens
    BY HandlerFrame DEF HandlerStep
  <1>t. stage \in [Kinds -> Stages] /\ cur \in [Kinds -> 0..Len(log)]
    BY DEF IInv, TypeOK
  <1>o. \A j \in Kinds \ {k} :
          stage'[j] = stage[j] /\ cur'[j] = cur[j] /\ Token(j)' = Token(j)
    BY <1>f, <1>t DEF Token
  <1>k. stage'[k] # "idle" => Token(k)' = Token(k)
    BY <1>f DEF Token
  <1>z. Len(log) \in Nat /\ 0 \in 0..Len(log)
    BY DEF IInv, TypeOK
  <1>c. stage' \in [Kinds -> Stages] /\ cur' \in [Kinds -> 0..Len(log)]
    BY <1>f, <1>t, <1>z
  <1>s. HoldsEvent' /\ QuietStart' /\ TokenWriters'
    BY HandlerShape DEF HandlerStep
  <1>u. UNCHANGED notified
    BY DEF CommitRow
  <1>e. Token(k) \in Tokens /\ stage[k] = "written"
    BY <1>f, TokenFacts DEF CommitRow
  <1>1. stage'[k] \in {"idle", "done"}
    BY <1>t DEF CommitRow, Continues, Fails, Goes
  <1>2. /\ offers' \subseteq offers
        /\ \/ subs \subseteq subs' /\ subs' \subseteq subs \cup {Token(k)}
           \/ /\ k = "finalized" /\ NoOtherReader(k)
              /\ subs' = subs \ {Token(k)}
    <2>1. k \in {"bought", "finalized"}
      BY <1>e DEF IInv, OnlyWriters, Writers
    <2> QED
      BY <2>1 DEF CommitRow, AddCancellationSubscription,
                  RemoveCancellationSubscription, rowVars
  <1>3. TypeOK'
    BY <1>f, <1>u, <1>c, <1>e, <1>2 DEF IInv, TypeOK
  <1>w. OnlyWriters'
    BY <1>1, <1>o DEF IInv, OnlyWriters
  <1>4. ChecksRows'
    <2>1. k = "finalized" => toCheck = {}
      BY <1>e, KindFacts DEF IInv, QuietStart, ChecksRows
    <2> QED
      BY <1>f, <1>2, <2>1 DEF IInv, ChecksRows
  <1>5. ReportedHappened'
    BY <1>f, <1>u DEF IInv, ReportedHappened, Event
  <1>6. ReportedHadRow'
    BY <1>u, <1>e, <1>2 DEF IInv, ReportedHadRow, FinalAccepted
  <1>7. FinalAccepted'
    BY <1>u, <1>1, <1>o, KindFacts DEF IInv, FinalAccepted
  <1>8. ReportsStoredRows'
    <2>1. ASSUME NEW j \in Cancellation, stage'[j] \in Reading
          PROVE  Token(j)' \in subs'
      <3>1. j \in Kinds \ {k}
        BY <1>1, <2>1, KindFacts DEF Reading
      <3>2. stage[j] \in Reading /\ Token(j)' = Token(j)
        BY <1>o, <2>1, <3>1
      <3>3. Token(j) \in subs
        BY <2>1, <3>2 DEF IInv, ReportsStoredRows
      <3>4. ~NoOtherReader(k)
        BY <3>1, <3>2 DEF NoOtherReader
      <3> QED
        BY <1>2, <3>2, <3>3, <3>4
    <2> QED
      BY <2>1 DEF ReportsStoredRows
  <1> QED
    BY <1>s, <1>w, <1>3, <1>4, <1>5, <1>6, <1>7, <1>8 DEF IInv

\* The handler returns.
LEMMA ReturnStep ==
  ASSUME IInv, NEW k \in Kinds, Return(k)
  PROVE  IInv'
  <1>f. /\ UNCHANGED <<log, buying, proc, startBlock, toCheck, watch, kills>>
        /\ failures' \in 0..MaxFailures
        /\ stage[k] # "idle"
        /\ \E s \in Stages : stage' = [stage EXCEPT ![k] = s]
        /\ \/ cur' = cur
           \/ cur' = [cur EXCEPT ![k] = 0] /\ stage'[k] = "idle"
        /\ blockNumber' \in 0..Len(log)
        /\ writer' \in {writer, k, "none"} /\ refused' \in SUBSET Tokens
    BY HandlerFrame DEF HandlerStep
  <1>t. stage \in [Kinds -> Stages] /\ cur \in [Kinds -> 0..Len(log)]
    BY DEF IInv, TypeOK
  <1>o. \A j \in Kinds \ {k} :
          stage'[j] = stage[j] /\ cur'[j] = cur[j] /\ Token(j)' = Token(j)
    BY <1>f, <1>t DEF Token
  <1>k. stage'[k] # "idle" => Token(k)' = Token(k)
    BY <1>f DEF Token
  <1>z. Len(log) \in Nat /\ 0 \in 0..Len(log)
    BY DEF IInv, TypeOK
  <1>c. stage' \in [Kinds -> Stages] /\ cur' \in [Kinds -> 0..Len(log)]
    BY <1>f, <1>t, <1>z
  <1>s. HoldsEvent' /\ QuietStart' /\ TokenWriters'
    BY HandlerShape DEF HandlerStep
  <1>u. UNCHANGED <<offers, subs, notified>>
    BY DEF Return, rowVars
  <1>1. stage'[k] = "idle"
    BY <1>t DEF Return, Goes
  <1>2. TypeOK'
    BY <1>f, <1>u, <1>c DEF IInv, TypeOK
  <1>w. OnlyWriters'
    BY <1>1, <1>o DEF IInv, OnlyWriters
  <1>3. ChecksRows' /\ ReportedHappened' /\ ReportedHadRow'
    BY <1>f, <1>u DEF IInv, ChecksRows, ReportedHappened, ReportedHadRow
  <1>4. FinalAccepted'
    BY <1>u, <1>1, <1>o, KindFacts DEF IInv, FinalAccepted
  <1>5. ReportsStoredRows'
    BY <1>u, <1>1, <1>o, KindFacts DEF IInv, ReportsStoredRows, Reading
  <1> QED
    BY <1>s, <1>w, <1>2, <1>3, <1>4, <1>5 DEF IInv

\* Start gets on without touching a row or reporting anything.
LEMMA StartSteps ==
  ASSUME IInv,
         \/ New \/ startTokenBoughtSubscriptions
         \/ getAllCancellationSubscriptionTokenIDs
         \/ startCancellationSubscriptions
         \/ \E t \in Tokens : CheckNoProposal(t)
  PROVE  IInv'
  <1>u. UNCHANGED <<log, subs, buying, watch, stage, cur, notified, writer, refused,
                    failures, kills>>
    BY DEF New, startTokenBoughtSubscriptions, startCancellationSubscriptions,
           getAllCancellationSubscriptionTokenIDs, CheckNoProposal, rowVars,
           handlerVars, lockVars
  <1>1. /\ offers' \subseteq offers
        /\ proc' \in {"new", "watching", "checking", "up"}
        /\ proc = "up" => proc' = "up"
        /\ startBlock' \in {startBlock, Len(log)}
        /\ blockNumber' \in {blockNumber, Len(log)}
        /\ toCheck' \subseteq subs
        /\ proc' # "checking" => toCheck' = {}
    BY DEF New, startTokenBoughtSubscriptions, startCancellationSubscriptions,
           getAllCancellationSubscriptionTokenIDs, CheckNoProposal, Checks,
           rowVars, handlerVars, IInv, ChecksRows
  <1>w. TokenWriters'
    <2>1. CASE \E t \in Tokens : CheckNoProposal(t)
      <3>1. writer \notin toCheck /\ toCheck' \subseteq toCheck /\ proc' = proc
        BY <2>1 DEF CheckNoProposal, Checks
      <3> QED
        BY <1>u, <3>1 DEF IInv, TokenWriters
    <2>2. CASE ~\E t \in Tokens : CheckNoProposal(t)
      <3>1. proc # "up" /\ toCheck = {}
        BY <2>2 DEF New, startTokenBoughtSubscriptions, startCancellationSubscriptions,
           getAllCancellationSubscriptionTokenIDs, IInv, ChecksRows
      <3>2. buying = {} /\ writer \notin Tokens /\ toCheck' \subseteq Tokens
        BY <1>1, <3>1 DEF IInv, TokenWriters, TypeOK
      <3> QED
        BY <1>u, <3>2 DEF TokenWriters
    <2> QED
      BY <2>1, <2>2
  <1>z. Len(log) \in Nat /\ Len(log) \in 0..Len(log)
    BY DEF IInv, TypeOK
  <1>2. TypeOK'
    BY <1>u, <1>1, <1>z DEF IInv, TypeOK
  <1>3. HoldsEvent' /\ OnlyWriters' /\ FinalAccepted' /\ ReportsStoredRows'
    BY <1>u DEF IInv, HoldsEvent, OnlyWriters, FinalAccepted, ReportsStoredRows,
                Token
  <1>4. QuietStart' /\ ChecksRows'
    BY <1>u, <1>1 DEF IInv, QuietStart, ChecksRows
  <1>5. ReportedHappened' /\ ReportedHadRow'
    BY <1>u DEF IInv, ReportedHappened, ReportedHadRow
  <1> QED
    BY <1>w, <1>2, <1>3, <1>4, <1>5 DEF IInv

\* The startup check reports a proposal.
LEMMA CheckSteps ==
  ASSUME IInv, NEW t \in Tokens, CheckProposal(t) \/ CheckFinalized(t)
  PROVE  IInv'
  <1>u. UNCHANGED <<log, offers, subs, buying, proc, startBlock, watch, stage, cur,
                    blockNumber, refused, failures, kills>>
    BY DEF CheckProposal, CheckFinalized, rowVars, startVars, handlerVars, lockVars
  <1>1. /\ proc = "checking" /\ t \in toCheck
        /\ toCheck' \subseteq toCheck
    BY DEF CheckProposal, CheckFinalized, Checks, startVars
  <1>2. PICK k \in Cancellation :
          /\ LastIs(t, startBlock, k)
          /\ notified' = [notified EXCEPT ![t] = @ \cup {k}]
          /\ \/ writer' = writer /\ writer \notin toCheck
             \/ writer' = t /\ k = "finalized" /\ toCheck' = toCheck
    BY KindFacts DEF CheckProposal, CheckFinalized, Checks, startVars, lockVars
  <1>n. notified \in [Tokens -> SUBSET Cancellation]
    BY DEF IInv, TypeOK
  <1>3. /\ notified' \in [Tokens -> SUBSET Cancellation]
        /\ notified'[t] = notified[t] \cup {k}
        /\ \A r \in Tokens \ {t} : notified'[r] = notified[r]
    BY <1>2, <1>n
  <1>4. TypeOK'
    BY <1>u, <1>1, <1>2, <1>3 DEF IInv, TypeOK
  <1>5. HoldsEvent' /\ QuietStart' /\ OnlyWriters'
    BY <1>u DEF IInv, HoldsEvent, QuietStart, OnlyWriters
  <1>6. ChecksRows'
    BY <1>u, <1>1, <1>2 DEF IInv, ChecksRows
  <1>7. \A j \in Cancellation : stage'[j] = "idle"
    BY <1>u, <1>1 DEF IInv, QuietStart
  <1>8. ReportsStoredRows' /\ FinalAccepted'
    BY <1>7, KindFacts DEF ReportsStoredRows, FinalAccepted, Reading
  <1>9. \E i \in 1..Len(log) : log[i] = Event(k, t)
    <2>1. PICK i \in 1..startBlock : log[i] = Event(k, t)
      BY <1>2 DEF LastIs
    <2>2. startBlock \in 0..Len(log) /\ Len(log) \in Nat
      BY DEF IInv, TypeOK
    <2> QED
      BY <2>1, <2>2
  <1>10. ReportedHappened'
    BY <1>u, <1>3, <1>9 DEF IInv, ReportedHappened, Event
  <1>11. ReportedHadRow'
    BY <1>u, <1>1, <1>3 DEF IInv, ReportedHadRow, ChecksRows
  <1>12. TokenWriters'
    <2>1. CASE writer' = writer /\ writer \notin toCheck
      BY <1>u, <1>1, <2>1 DEF IInv, TokenWriters
    <2>2. CASE writer' = t /\ k = "finalized" /\ toCheck' = toCheck
      BY <1>u, <1>1, <1>3, <2>2 DEF IInv, TokenWriters
    <2> QED
      BY <1>2, <2>1, <2>2
  <1> QED
    BY <1>4, <1>5, <1>6, <1>8, <1>10, <1>11, <1>12 DEF IInv

\* It commits the removal of a row whose end it has reported.
LEMMA CommitCheckedStep ==
  ASSUME IInv, NEW t \in Tokens, CommitChecked(t)
  PROVE  IInv'
  <1>u. UNCHANGED <<log, offers, buying, proc, startBlock, watch, stage, cur,
                    blockNumber, notified, refused, failures, kills>>
    BY DEF CommitChecked, handlerVars
  <1>1. /\ proc = "checking" /\ t \in toCheck /\ toCheck' = toCheck \ {t}
        /\ writer = t /\ writer' = "none" /\ subs' = subs \ {t}
    BY DEF CommitChecked, RemoveCancellationSubscription
  <1>2. TypeOK'
    BY <1>u, <1>1 DEF IInv, TypeOK
  <1>3. HoldsEvent' /\ QuietStart' /\ OnlyWriters'
    BY <1>u DEF IInv, HoldsEvent, QuietStart, OnlyWriters
  <1>4. ChecksRows'
    BY <1>u, <1>1 DEF IInv, ChecksRows
  <1>5. TokenWriters'
    <2>1. "none" \notin Tokens /\ toCheck \subseteq Tokens
      BY CancellationAssumption DEF IInv, TypeOK
    <2> QED
      BY <1>u, <1>1, <2>1 DEF IInv, TokenWriters
  <1>6. \A j \in Cancellation : stage'[j] = "idle"
    BY <1>u, <1>1 DEF IInv, QuietStart
  <1>7. ReportsStoredRows' /\ FinalAccepted'
    BY <1>6, KindFacts DEF ReportsStoredRows, FinalAccepted, Reading
  <1>8. ReportedHappened' /\ ReportedHadRow'
    BY <1>u, <1>1 DEF IInv, ReportedHappened, ReportedHadRow, TokenWriters, Event
  <1> QED
    BY <1>2, <1>3, <1>4, <1>5, <1>7, <1>8 DEF IInv

\* The process ends, perhaps after a last notification of the startup check.
LEMMA EndSteps ==
  ASSUME IInv, Kill \/ StartFails \/ \E t \in Tokens : CheckFails(t)
  PROVE  IInv'
  <1>u. UNCHANGED <<log, offers, subs>>
    BY DEF Kill, StartFails, CheckFails, rowVars
  <1>1. ProcessEnds
    BY DEF Kill, StartFails, CheckFails
  <1>f. failures' \in 0..MaxFailures /\ kills' \in 0..MaxKills
    BY CancellationAssumption
    DEF Kill, StartFails, CheckFails, CallFails, IInv, TypeOK
  <1>n. notified \in [Tokens -> SUBSET Cancellation]
    BY DEF IInv, TypeOK
  <1>2. \/ UNCHANGED notified
        \/ \E t \in toCheck \cap Tokens :
             /\ LastIs(t, startBlock, "finalized")
             /\ notified' = [notified EXCEPT ![t] = @ \cup {"finalized"}]
    BY DEF Kill, StartFails, CheckFails
  <1>3. notified' \in [Tokens -> SUBSET Cancellation]
    BY <1>2, <1>n, KindFacts
  <1>z. Len(log) \in Nat /\ 0 \in 0..Len(log)
    BY DEF IInv, TypeOK
  <1>4. TypeOK'
    BY <1>u, <1>1, <1>f, <1>3, <1>z DEF IInv, TypeOK, ProcessEnds, Stages
  <1>5. HoldsEvent' /\ QuietStart' /\ OnlyWriters' /\ ChecksRows'
    BY <1>1, KindFacts
    DEF ProcessEnds, HoldsEvent, QuietStart, OnlyWriters, ChecksRows
  <1>w. TokenWriters'
    BY <1>1, CancellationAssumption DEF ProcessEnds, TokenWriters
  <1>6. ReportsStoredRows' /\ FinalAccepted'
    BY <1>1, KindFacts DEF ProcessEnds, ReportsStoredRows, FinalAccepted, Reading
  <1>7. ReportedHappened'
    <2>1. ASSUME NEW t \in Tokens, NEW r \in notified'[t]
          PROVE  \E i \in 1..Len(log) : log[i] = Event(r, t)
      <3>1. CASE r \in notified[t]
        BY <3>1 DEF IInv, ReportedHappened
      <3>2. CASE r \notin notified[t]
        <4>1. r = "finalized" /\ LastIs(t, startBlock, "finalized")
          BY <1>2, <1>n, <2>1, <3>2
        <4>2. startBlock \in 0..Len(log) /\ Len(log) \in Nat
          BY DEF IInv, TypeOK
        <4>3. PICK i \in 1..startBlock : log[i] = Event(r, t)
          BY <4>1 DEF LastIs
        <4> QED
          BY <4>2, <4>3
      <3> QED
        BY <3>1, <3>2
    <2> QED
      BY <1>u, <2>1 DEF ReportedHappened, Event
  <1>8. ReportedHadRow'
    BY <1>u, <1>2, <1>n DEF IInv, ReportedHadRow
  <1> QED
    BY <1>w, <1>4, <1>5, <1>6, <1>7, <1>8 DEF IInv

\* A stuttering step.
LEMMA StutterStep ==
  ASSUME IInv, UNCHANGED vars
  PROVE  IInv'
  BY DEF IInv, vars, TypeOK, HoldsEvent, QuietStart, TokenWriters, ChecksRows, OnlyWriters,
         ReportsStoredRows, FinalAccepted, ReportedHappened, ReportedHadRow, Token

-----------------------------------------------------------------------------

\* IInv is an invariant of the listener, whatever the handlers of the five
\* kinds, the startup check, failures and kills do to each other.
THEOREM Invariance == Spec => []IInv
  <1>1. IInv /\ [Next]_vars => IInv'
    <2> SUFFICES ASSUME IInv, [Next]_vars PROVE IInv'
      OBVIOUS
    <2>1. ASSUME NEW t \in Tokens,
                 Proposal(t) \/ TokenSold(t) \/ BuyBookingToken(t)
          PROVE  IInv'
      BY <2>1, ChainSteps
    <2>2. ASSUME NEW t \in Tokens, SubscribeCancellationEvents(t) \/ CommitSubscribed(t)
          PROVE  IInv'
      BY <2>2, RowStep
    <2>9. CASE OtherWrites \/ OtherCommits
      BY <2>9, OtherStep
    <2>3. ASSUME NEW k \in Kinds, Subscribe(k) \/ WatchBreaks(k)
          PROVE  IInv'
      BY <2>3, WatchStep
    <2>4. ASSUME NEW k \in Kinds, Deliver(k)
          PROVE  IInv'
      BY <2>4, DeliverStep
    <2>5. ASSUME NEW k \in Kinds, HandlerStep(k)
          PROVE  IInv'
      BY <2>5, LookupStep, NotifyStep, WriteStep, CommitStep, ReturnStep DEF HandlerStep
    <2>6. CASE StartStep
      BY <2>6, StartSteps, CheckSteps, CommitCheckedStep, EndSteps DEF StartStep, Check
    <2>7. CASE Kill
      BY <2>7, EndSteps
    <2>8. CASE UNCHANGED vars
      BY <2>8, StutterStep
    <2> QED
      BY <2>1, <2>2, <2>3, <2>4, <2>5, <2>6, <2>7, <2>8, <2>9 DEF Next
  <1> QED
    BY <1>1, InitIInv, PTL DEF Spec

\* The listener's variables keep the shapes the code gives them.
THEOREM TypeCorrect == Spec => []TypeOK
  <1>1. IInv => TypeOK
    BY DEF IInv
  <1> QED
    BY <1>1, Invariance, PTL

\* A handler reports only of tokens whose row is there until its session ends.
THEOREM ReportsStoredRowsHolds == Spec => []ReportsStoredRows
  <1>1. IInv => ReportsStoredRows
    BY DEF IInv
  <1> QED
    BY <1>1, Invariance, PTL

\* What the partner plugin hears has happened, to a token the bot has or had a
\* row for.
THEOREM ReportsAreTrueHolds == Spec => []ReportsAreTrue
  <1>1. IInv => ReportsAreTrue
    BY DEF IInv, ReportedHappened, ReportedHadRow, ReportsAreTrue
  <1> QED
    BY <1>1, Invariance, PTL

\* No subscription ends before the partner plugin has accepted the end.
THEOREM RemovedIsReportedHolds == Spec => RemovedIsReported
  <1>1. IInv /\ [Next]_vars =>
          [\A t \in subs \ subs' : "finalized" \in notified'[t]]_vars
    <2> SUFFICES ASSUME IInv, Next, NEW t \in subs \ subs'
                 PROVE  "finalized" \in notified'[t]
      OBVIOUS
    <2>t. t \in Tokens /\ notified \in [Tokens -> SUBSET Cancellation]
      BY DEF IInv, TypeOK
    <2>1. CASE \E k \in Kinds : CommitRow(k)
      <3>1. PICK k \in Kinds : CommitRow(k)
        BY <2>1
      <3>2. k # "bought" /\ t = Token(k) /\ UNCHANGED notified
            /\ stage[k] = "written"
        BY <3>1 DEF CommitRow, AddCancellationSubscription,
                    RemoveCancellationSubscription, rowVars
      <3>3. k = "finalized"
        BY <3>2 DEF IInv, OnlyWriters, Writers
      <3> QED
        BY <3>2, <3>3 DEF IInv, FinalAccepted
    <2>2. CASE \E r \in Tokens : CommitChecked(r)
      <3>1. PICK r \in Tokens : CommitChecked(r)
        BY <2>2
      <3>2. t = r /\ writer = r /\ r \in toCheck /\ UNCHANGED notified
        BY <3>1 DEF CommitChecked, RemoveCancellationSubscription
      <3> QED
        BY <3>2 DEF IInv, TokenWriters
    <2>3. ASSUME ~(\E k \in Kinds : CommitRow(k)),
                 ~(\E r \in Tokens : CommitChecked(r))
          PROVE  subs \subseteq subs'
      <3>1. ASSUME NEW r \in Tokens,
                   \/ Proposal(r) \/ TokenSold(r) \/ BuyBookingToken(r)
                   \/ SubscribeCancellationEvents(r) \/ CommitSubscribed(r)
                   \/ CheckNoProposal(r) \/ CheckProposal(r)
                   \/ CheckFinalized(r) \/ CheckFails(r)
            PROVE  subs \subseteq subs'
        BY <3>1 DEF Proposal, TokenSold, BuyBookingToken, CheckNoProposal,
                    SubscribeCancellationEvents, CommitSubscribed,
                    AddCancellationSubscription, CheckProposal, CheckFinalized,
                    CheckFails, rowVars
      <3>2. ASSUME NEW k \in Kinds,
                   \/ Subscribe(k) \/ WatchBreaks(k) \/ Deliver(k) \/ Lookup(k)
                   \/ Notify(k) \/ WriteRow(k) \/ Return(k)
            PROVE  subs \subseteq subs'
        BY <3>2 DEF Subscribe, WatchBreaks, Deliver, Lookup, Notify, WriteRow,
                    Return, rowVars
      <3>3. CASE \/ New \/ startTokenBoughtSubscriptions
                 \/ getAllCancellationSubscriptionTokenIDs \/ StartFails
                 \/ startCancellationSubscriptions \/ Kill
                 \/ OtherWrites \/ OtherCommits
        BY <3>3 DEF New, startTokenBoughtSubscriptions, StartFails,
                    OtherWrites, OtherCommits,
                    getAllCancellationSubscriptionTokenIDs,
                    startCancellationSubscriptions, Kill, rowVars
      <3> QED
        BY <2>3, <3>1, <3>2, <3>3 DEF Next, HandlerStep, StartStep, Check
    <2> QED
      BY <2>1, <2>2, <2>3
  <1> QED
    BY <1>1, Invariance, PTL DEF Spec, RemovedIsReported

-----------------------------------------------------------------------------
\* The block number is shared by five handlers and goes back when one of them returns
\* late.  It never goes back behind the block the process has started at, and neither
\* does a watch that starts from it or an event that is handled: what the startup
\* checks have dealt with by then is not handled again, but for that block's own events.
NothingBeforeStart ==
  /\ blockNumber >= startBlock
  /\ \A k \in Kinds : /\ watch[k] # 0 => watch[k] >= startBlock
                      /\ stage[k] # "idle" => cur[k] >= startBlock

\* A process that has not been started watches and handles nothing.
DownIsQuiet ==
  proc = "down" => \A k \in Kinds : watch[k] = 0 /\ stage[k] = "idle"

\* A start begins with nothing watched; later a watch begins at the block number, and
\* a handler stores the block of an event that its watch has delivered.
LEMMA StartKept ==
  ASSUME IInv, NothingBeforeStart, DownIsQuiet, [Next]_vars
  PROVE  NothingBeforeStart' /\ DownIsQuiet'
<1>0. /\ TypeOK /\ startBlock \in Nat /\ blockNumber \in Nat
      /\ \A k \in Kinds : watch[k] \in Nat /\ cur[k] \in Nat
      /\ DOMAIN watch = Kinds /\ DOMAIN stage = Kinds /\ DOMAIN cur = Kinds
  BY DEF IInv, TypeOK
<1>1. ASSUME UNCHANGED <<startBlock, handlerVars>>, proc' = "down" => proc = "down"
      PROVE  NothingBeforeStart' /\ DownIsQuiet'
  BY <1>1 DEF NothingBeforeStart, DownIsQuiet, handlerVars
<1>2. ASSUME UNCHANGED startVars, UNCHANGED blockNumber, proc # "down", NEW k \in Kinds,
             NEW w \in Nat, watch' = [watch EXCEPT ![k] = w], w # 0 => w >= startBlock,
             UNCHANGED <<stage, cur>>
      PROVE  NothingBeforeStart' /\ DownIsQuiet'
  BY <1>0, <1>2 DEF NothingBeforeStart, DownIsQuiet, startVars
<1>3. ASSUME NEW k \in Kinds, Subscribe(k) PROVE NothingBeforeStart' /\ DownIsQuiet'
  <2>1. PICK w \in Nat : w = IF blockNumber = 0 THEN 1 ELSE blockNumber
    BY <1>0
  <2>2. w >= startBlock
    BY <1>0, <2>1 DEF NothingBeforeStart
  <2>3. /\ watch' = [watch EXCEPT ![k] = w] /\ UNCHANGED <<startVars, blockNumber, stage, cur>>
        /\ proc # "down"
    BY <1>3, <2>1 DEF Subscribe, Wanted
  <2> QED BY <1>2, <2>2, <2>3
<1>4. ASSUME NEW k \in Kinds, WatchBreaks(k) PROVE NothingBeforeStart' /\ DownIsQuiet'
  <2>1. /\ watch' = [watch EXCEPT ![k] = 0] /\ UNCHANGED <<startVars, blockNumber, stage, cur>>
        /\ proc # "down"
    BY <1>4 DEF WatchBreaks, DownIsQuiet
  <2> QED BY <1>2, <2>1
<1>5. ASSUME NEW k \in Kinds, Deliver(k) PROVE NothingBeforeStart' /\ DownIsQuiet'
  <2>1. PICK i \in watch[k]..Len(log) :
          cur' = [cur EXCEPT ![k] = i] /\ watch' = [watch EXCEPT ![k] = i + 1]
    BY <1>5 DEF Deliver
  <2>2. /\ watch[k] # 0 /\ proc # "down" /\ i \in Nat /\ i >= startBlock
        /\ stage' = [stage EXCEPT ![k] = "lookup"] /\ UNCHANGED <<startVars, blockNumber>>
    <3>1. watch[k] # 0
      BY <1>5 DEF Deliver
    <3>2. Len(log) \in Nat
      BY <1>0 DEF TypeOK
    <3> QED BY <1>0, <1>5, <2>1, <3>1, <3>2 DEF Deliver, NothingBeforeStart, DownIsQuiet
  <2> QED BY <1>0, <2>1, <2>2 DEF NothingBeforeStart, DownIsQuiet, startVars
<1>6. ASSUME NEW k \in Kinds, HandlerStep(k) PROVE NothingBeforeStart' /\ DownIsQuiet'
  <2>1. stage[k] # "idle" /\ UNCHANGED <<startVars, watch>>
    BY <1>6 DEF HandlerStep, Lookup, Notify, WriteRow, CommitRow, Return
  <2>2. proc # "down" /\ cur[k] >= startBlock
    BY <2>1 DEF NothingBeforeStart, DownIsQuiet
  <2>3. CASE Return(k)
    <3>1. /\ blockNumber' = cur[k] /\ stage' = [stage EXCEPT ![k] = "idle"]
          /\ cur' = [cur EXCEPT ![k] = 0]
      BY <2>3 DEF Return, Goes
    <3> QED BY <1>0, <2>1, <2>2, <3>1 DEF NothingBeforeStart, DownIsQuiet, startVars
  <2>4. CASE Lookup(k) \/ Notify(k) \/ WriteRow(k) \/ CommitRow(k)
    <3>1. /\ blockNumber' = blockNumber
          /\ \/ cur' = cur /\ \E s \in Stages : stage' = [stage EXCEPT ![k] = s]
             \/ cur' = [cur EXCEPT ![k] = 0] /\ stage' = [stage EXCEPT ![k] = "idle"]
      BY <2>4 DEF Lookup, Notify, WriteRow, CommitRow, Continues, Fails, Goes, Stages
    <3> QED BY <1>0, <2>1, <2>2, <3>1 DEF NothingBeforeStart, DownIsQuiet, startVars
  <2> QED BY <1>6, <2>3, <2>4 DEF HandlerStep
<1>7. CASE New
  <2>1. /\ proc = "down" /\ proc' = "new" /\ startBlock' = blockNumber' /\ blockNumber' \in Nat
        /\ UNCHANGED <<watch, stage, cur>>
    BY <1>0, <1>7 DEF New, TypeOK
  <2> QED BY <2>1 DEF NothingBeforeStart, DownIsQuiet
<1>8. CASE ProcessEnds
  <2>1. /\ blockNumber' = 0 /\ startBlock' = 0
        /\ \A k \in Kinds : watch'[k] = 0 /\ stage'[k] = "idle"
    BY <1>8 DEF ProcessEnds
  <2> QED BY <2>1 DEF NothingBeforeStart, DownIsQuiet
<1>9. CASE UNCHANGED vars
  BY <1>1, <1>9 DEF vars, handlerVars
<1>10. CASE \/ startTokenBoughtSubscriptions \/ getAllCancellationSubscriptionTokenIDs
            \/ startCancellationSubscriptions
            \/ \E t \in Tokens : \/ CheckNoProposal(t) \/ CheckProposal(t)
                                 \/ CheckFinalized(t) \/ CommitChecked(t)
  BY <1>1, <1>10 DEF startTokenBoughtSubscriptions, getAllCancellationSubscriptionTokenIDs,
     startCancellationSubscriptions, CheckNoProposal, CheckProposal, CheckFinalized,
     CommitChecked, Checks, startVars
<1>11. CASE StartFails \/ Kill \/ \E t \in Tokens : CheckFails(t)
  BY <1>8, <1>11 DEF StartFails, Kill, CheckFails
<1>12. CASE \/ \E t \in Tokens : \/ Proposal(t) \/ TokenSold(t) \/ BuyBookingToken(t)
                                 \/ SubscribeCancellationEvents(t) \/ CommitSubscribed(t)
            \/ OtherWrites \/ OtherCommits
  BY <1>1, <1>12 DEF Proposal, TokenSold, BuyBookingToken, SubscribeCancellationEvents,
     CommitSubscribed, OtherWrites, OtherCommits, startVars
<1> QED BY <1>3, <1>4, <1>5, <1>6, <1>7, <1>9, <1>10, <1>11, <1>12 DEF Next, StartStep, Check

\* Nothing from before the start is handled, whatever the order in which handlers
\* return, watches break and the process is killed and started again.
THEOREM NothingBeforeStartHolds == Spec => []NothingBeforeStart
<1>1. Init => NothingBeforeStart /\ DownIsQuiet
  BY DEF Init, NothingBeforeStart, DownIsQuiet
<1>2. IInv /\ NothingBeforeStart /\ DownIsQuiet /\ [Next]_vars
        => NothingBeforeStart' /\ DownIsQuiet'
  BY StartKept
<1> QED BY <1>1, <1>2, Invariance, PTL DEF Spec
=============================================================================
