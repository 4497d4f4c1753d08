------------------------ MODULE CancellationListener ------------------------
(***************************************************************************)
(* The event listener's cancellation subscriptions.  The bot stores a row  *)
(* for each cancellable token it has sold or bought and reports to its     *)
(* partner plugin what happens to the token's cancellation proposal, until *)
(* the proposal is finalized.  Each kind of event has a watch and a        *)
(* goroutine of its own, which handles that kind's events one at a time;   *)
(* all of them share the rows and one number, subscriber.blockNumber, from *)
(* which a watch starts and starts again.                                  *)
(*                                                                         *)
(* The chain is external: a sequence of events, one in a block.            *)
(* TokenBoughtListener has the details of the "bought" handler, of which   *)
(* this module keeps what concerns cancellations.                          *)
(***************************************************************************)
EXTENDS Integers, Sequences

CONSTANTS
  Tokens,
  Sold,         \* tokens this bot sells; it buys the others as a distributor
  Answers,      \* ways to end a proposal short of finalizing it
  MaxEvents,    \* length of the chain (bound)
  MaxFailures,  \* calls and watches that fail from outside (bound)
  MaxKills      \* kills of the bot from outside (bound)

\* The kinds of events; but for "bought" they are the statuses of a proposal.
Cancellation == Answers \cup {"pending", "finalized"}
Kinds == Cancellation \cup {"bought"}
\* Kinds whose handler writes to the db after its notification.
Writers == {"bought", "finalized"}

ASSUME CancellationAssumption ==
  /\ Sold \subseteq Tokens
  /\ Answers \subseteq {"rejected", "withdrawn"}
  /\ MaxEvents \in Nat /\ MaxFailures \in Nat /\ MaxKills \in Nat
  /\ Tokens \cap (Kinds \cup {"none", "other"}) = {}

VARIABLES
  log,          \* events of the chain; the position of an event is its block
  offers,       \* rows of token_bought_subscriptions
  subs,         \* rows of cancellation_subscriptions
  buying,       \* purchases whose mint response is still being processed
  writer,       \* the session that has written and not committed yet: a handler's,
                \* that of a token being stored or checked, or one of another kind
  proc,         \* "down", "new", "watching", "checking" or "up"
  startBlock,   \* startingBlockNumber
  toCheck,      \* rows the startup check has read and not looked at yet
  watch,        \* first block each watch has not delivered; 0 without a watch
  stage,        \* where the handler of each kind is
  cur,          \* the block of the event it handles
  blockNumber,  \* subscriber.blockNumber
  notified,     \* what the partner plugin has accepted about each token
  refused,      \* tokens whose removal SQLite has refused since the start
  failures, kills

rowVars == <<offers, subs>>
startVars == <<proc, startBlock, toCheck>>
handlerVars == <<watch, stage, cur, blockNumber>>
lockVars == <<writer, refused>>
vars == <<log, offers, subs, buying, writer, proc, startBlock, toCheck, watch,
          stage, cur, blockNumber, notified, refused, failures, kills>>

Stages == {"idle", "lookup", "notify", "commit", "written", "done"}
\* Where a handler's session has read, and keeps its read lock.
Reading == {"notify", "commit", "written"}

\* Every variable holds a value of the shape the code declares for it.
TypeOK ==
  /\ log \in Seq([kind : Kinds, token : Tokens])
  /\ offers \in SUBSET Tokens
  /\ subs \in SUBSET Tokens
  /\ buying \in SUBSET Tokens
  /\ writer \in {"none", "other"} \cup Kinds \cup Tokens
  /\ proc \in {"down", "new", "watching", "checking", "up"}
  /\ startBlock \in 0..Len(log)
  /\ toCheck \in SUBSET Tokens
  /\ watch \in [Kinds -> Nat]
  /\ stage \in [Kinds -> Stages]
  /\ cur \in [Kinds -> 0..Len(log)]
  /\ blockNumber \in 0..Len(log)
  /\ notified \in [Tokens -> SUBSET Cancellation]
  /\ refused \in SUBSET Tokens
  /\ failures \in 0..MaxFailures
  /\ kills \in 0..MaxKills

Init ==
  /\ log = <<>>
  /\ offers = Sold /\ subs = {} /\ buying = {} /\ writer = "none"
  /\ proc = "down" /\ startBlock = 0 /\ toCheck = {}
  /\ watch = [k \in Kinds |-> 0]
  /\ stage = [k \in Kinds |-> "idle"]
  /\ cur = [k \in Kinds |-> 0]
  /\ blockNumber = 0
  /\ notified = [t \in Tokens |-> {}] /\ refused = {}
  /\ failures = 0 /\ kills = 0

\* A call to the db, the chain or the partner plugin works or returns an error.
CallWorks == UNCHANGED failures
CallFails == failures < MaxFailures /\ failures' = failures + 1

-----------------------------------------------------------------------------
(* The chain.                                                              *)

Event(k, t) == [kind |-> k, token |-> t]

\* The last event of token t up to block n is of kind k.
LastIs(t, n, k) ==
  \E i \in 1..n : log[i] = Event(k, t) /\ \A j \in (i + 1)..n : log[j].token # t

Unsold(t) == \A i \in 1..Len(log) : log[i].token # t

\* A proposal can be made, countered and accepted by one side (all of which
\* emit CancellationPending) until it is finalized; only a pending one can be
\* rejected, withdrawn or finalized.
Proposal(t) ==
  /\ Len(log) < MaxEvents
  /\ \/ /\ \E k \in Kinds \ {"finalized"} : LastIs(t, Len(log), k)
        /\ log' = Append(log, Event("pending", t))
     \/ \E k \in Cancellation \ {"pending"} :
          /\ LastIs(t, Len(log), "pending")
          /\ log' = Append(log, Event(k, t))
  /\ UNCHANGED <<rowVars, buying, startVars, handlerVars, notified, lockVars,
                 failures, kills>>

\* Somebody buys a token that this bot sells.
TokenSold(t) ==
  /\ Len(log) < MaxEvents
  /\ t \in Sold /\ Unsold(t)
  /\ log' = Append(log, Event("bought", t))
  /\ UNCHANGED <<rowVars, buying, startVars, handlerVars, notified, lockVars,
                 failures, kills>>

\* As a distributor the bot buys a token (BuyBookingToken in the flow of a mint
\* response) ...
BuyBookingToken(t) ==
  /\ Len(log) < MaxEvents
  /\ proc = "up"
  /\ t \notin Sold /\ Unsold(t)
  /\ log' = Append(log, Event("bought", t))
  /\ buying' = buying \cup {t}
  /\ UNCHANGED <<rowVars, startVars, handlerVars, notified, lockVars, failures,
                 kills>>

-----------------------------------------------------------------------------
(* Rows.                                                                   *)

\* Mutant: a read lock does not keep writers out.
ReadUncommitted(k) == TRUE

\* SQLite with a rollback journal: a session that has read keeps its read lock
\* until it ends, and nobody else commits meanwhile.
NoOtherReader(k) == \A j \in Kinds \ {k} : stage[j] \notin Reading

\* One session at a time has written and not committed.  Another that wants to
\* write waits for it, unless it has read: then SQLite refuses the write at once,
\* since the two would wait for each other.
NoWriter == writer = "none"

AddCancellationSubscription(t) == subs' = subs \cup {t}
RemoveCancellationSubscription(t) == subs' = subs \ {t}
IsCancellationSubscriptionExist(t) == t \in subs

\* ... and stores a row for it, in a session of its own that reads nothing.  A
\* failure is only logged and put in an alert.
SubscribeCancellationEvents(t) ==
  /\ t \in buying /\ writer # t
  /\ \/ CallWorks /\ NoWriter /\ writer' = t /\ UNCHANGED buying
     \/ CallFails /\ buying' = buying \ {t} /\ UNCHANGED writer
  /\ UNCHANGED <<log, rowVars, startVars, handlerVars, notified, refused, kills>>

CommitSubscribed(t) ==
  /\ t \in buying /\ writer = t
  /\ buying' = buying \ {t} /\ writer' = "none"
  /\ \/ CallWorks /\ NoOtherReader("none") /\ AddCancellationSubscription(t)
     \/ CallFails /\ UNCHANGED subs
  /\ UNCHANGED <<log, offers, startVars, handlerVars, notified, refused, kills>>

\* The sessions of token_bought_subscriptions that TokenBoughtListener has (a mint
\* stores its row, the timeout removes rows) write to the same file.
OtherWrites ==
  /\ proc \in {"watching", "checking", "up"}
  /\ NoWriter /\ writer' = "other"
  /\ UNCHANGED <<log, rowVars, buying, startVars, handlerVars, notified, refused,
                 failures, kills>>

OtherCommits ==
  /\ writer = "other" /\ NoOtherReader("none")
  /\ writer' = "none"
  /\ UNCHANGED <<log, rowVars, buying, startVars, handlerVars, notified, refused,
                 failures, kills>>

-----------------------------------------------------------------------------
(* Watches.                                                                *)

\* A watch for a kind of event is asked for once Start has got that far.
Wanted(k) ==
  proc = "up" \/ (proc \in {"watching", "checking"} /\ k = "bought")

\* The subscribe function of startResubscriber: from blockNumber on, as it is
\* now, that block included.
Subscribe(k) ==
  /\ Wanted(k) /\ watch[k] = 0
  /\ watch' = [watch EXCEPT ![k] = IF blockNumber = 0 THEN 1 ELSE blockNumber]
  /\ UNCHANGED <<log, rowVars, buying, startVars, stage, cur, blockNumber,
                 notified, lockVars, failures, kills>>

\* The watch ends with an error; ResubscribeErr will start another one.
WatchBreaks(k) ==
  /\ watch[k] # 0
  /\ watch' = [watch EXCEPT ![k] = 0]
  /\ CallFails
  /\ UNCHANGED <<log, rowVars, buying, startVars, stage, cur, blockNumber,
                 notified, lockVars, kills>>

\* The handler of kind k gets the next event of its kind.
Deliver(k) ==
  /\ watch[k] # 0 /\ stage[k] = "idle"
  /\ \E i \in watch[k]..Len(log) :
       /\ log[i].kind = k
       /\ \A j \in watch[k]..(i - 1) : log[j].kind # k
       /\ cur' = [cur EXCEPT ![k] = i]
       /\ watch' = [watch EXCEPT ![k] = i + 1]
  /\ stage' = [stage EXCEPT ![k] = "lookup"]
  /\ UNCHANGED <<log, rowVars, buying, startVars, blockNumber, notified,
                 lockVars, failures, kills>>

-----------------------------------------------------------------------------
(* Event handlers.                                                         *)

Token(k) == log[cur[k]].token
Goes(k, s) == stage' = [stage EXCEPT ![k] = s]

\* The handler returns 0, which leaves blockNumber alone.
Fails(k) == Goes(k, "idle") /\ cur' = [cur EXCEPT ![k] = 0]
Continues(k, s) == Goes(k, s) /\ UNCHANGED cur

HasRow(k) ==
  IF k = "bought" THEN Token(k) \in offers
                  ELSE IsCancellationSubscriptionExist(Token(k))

\* Mutant: the events of all tokens are reported.
LookupIgnoresRows(k) ==
  /\ stage[k] = "lookup"
  /\ CallWorks /\ Continues(k, "notify")
  /\ UNCHANGED <<log, rowVars, buying, startVars, watch, blockNumber, notified,
                 lockVars, kills>>

\* The handler opens a session and looks for the token's row.
Lookup(k) ==
  /\ stage[k] = "lookup"
  /\ \/ CallWorks /\ HasRow(k) /\ Continues(k, "notify")
     \/ CallWorks /\ ~HasRow(k) /\ Continues(k, "done")
     \/ CallFails /\ Fails(k)
  /\ UNCHANGED <<log, rowVars, buying, startVars, watch, blockNumber, notified,
                 lockVars, kills>>

Accepted(k) ==
  notified' = IF k = "bought" THEN notified
              ELSE [notified EXCEPT ![Token(k)] = @ \cup {k}]

\* Mutant: the row is removed whatever the partner plugin answers.
NotifyIgnoresFailure(k) ==
  /\ stage[k] = "notify"
  /\ Continues(k, IF k \in Writers THEN "commit" ELSE "done")
  /\ \/ CallWorks /\ Accepted(k)
     \/ CallFails /\ UNCHANGED notified
  /\ UNCHANGED <<log, rowVars, buying, startVars, watch, blockNumber, lockVars,
                 kills>>

\* It calls the partner plugin (before that, for a pending proposal, it asks the
\* chain for the reasons).
Notify(k) ==
  /\ stage[k] = "notify"
  /\ \/ /\ CallWorks /\ Accepted(k)
        /\ Continues(k, IF k \in Writers THEN "commit" ELSE "done")
     \/ CallFails /\ UNCHANGED notified /\ Fails(k)
  /\ UNCHANGED <<log, rowVars, buying, startVars, watch, blockNumber, lockVars,
                 kills>>

\* It writes, in the session it has read in.  A sold token's row moves to the
\* cancellation rows, the row of a finalized proposal goes ...
WriteRow(k) ==
  /\ stage[k] = "commit"
  /\ \/ /\ CallWorks /\ NoWriter
        /\ writer' = k /\ Continues(k, "written") /\ UNCHANGED refused
     \/ /\ CallWorks /\ ~NoWriter
        /\ Fails(k) /\ UNCHANGED writer
        /\ refused' = IF k = "finalized" THEN refused \cup {Token(k)} ELSE refused
     \/ CallFails /\ Fails(k) /\ UNCHANGED lockVars
  /\ UNCHANGED <<log, rowVars, buying, startVars, watch, blockNumber, notified,
                 kills>>

\* ... when it commits.
CommitRow(k) ==
  /\ stage[k] = "written"
  /\ writer' = "none"
  /\ \/ /\ CallWorks /\ NoOtherReader(k)
        /\ Continues(k, "done")
        /\ IF k = "bought"
           THEN /\ AddCancellationSubscription(Token(k))
                /\ offers' = offers \ {Token(k)}
           ELSE RemoveCancellationSubscription(Token(k)) /\ UNCHANGED offers
     \/ CallFails /\ Fails(k) /\ UNCHANGED rowVars
  /\ UNCHANGED <<log, buying, startVars, watch, blockNumber, notified, refused,
                 kills>>

\* The handler has returned its block, which is stored.
Return(k) ==
  /\ stage[k] = "done"
  /\ blockNumber' = cur[k]
  /\ Goes(k, "idle") /\ cur' = [cur EXCEPT ![k] = 0]
  /\ UNCHANGED <<log, rowVars, buying, startVars, watch, notified, lockVars,
                 failures, kills>>

HandlerStep(k) ==
  Lookup(k) \/ Notify(k) \/ WriteRow(k) \/ CommitRow(k) \/ Return(k)

-----------------------------------------------------------------------------
(* Start, crash and restart.                                               *)

\* New: events are watched, and statuses are read, from the present block on.
New ==
  /\ proc = "down"
  /\ proc' = "new"
  /\ startBlock' = Len(log) /\ blockNumber' = Len(log)
  /\ UNCHANGED <<log, rowVars, buying, toCheck, watch, stage, cur, notified,
                 lockVars, failures, kills>>

\* startTokenBoughtSubscriptions: the rows of tokens sold by the starting block
\* go, without a cancellation row in their place.  Then TokenBought is watched.
startTokenBoughtSubscriptions ==
  /\ proc = "new"
  /\ proc' = "watching"
  /\ offers' = {t \in offers : \A i \in 1..startBlock : log[i].token # t}
  /\ UNCHANGED <<log, subs, buying, startBlock, toCheck, handlerVars, notified,
                 lockVars, failures, kills>>

\* The startup check reads the cancellation rows.
getAllCancellationSubscriptionTokenIDs ==
  /\ proc = "watching"
  /\ proc' = "checking"
  /\ toCheck' = subs
  /\ UNCHANGED <<log, rowVars, buying, startBlock, handlerVars, notified,
                 lockVars, failures, kills>>

\* The check deals with one token after the other.
Checks(t) ==
  /\ proc = "checking" /\ t \in toCheck /\ toCheck' = toCheck \ {t}
  /\ writer \notin toCheck

\* cancellationSubscriptionsStartupCheck of a token: without a proposal there
\* is nothing to report ...
CheckNoProposal(t) ==
  /\ Checks(t) /\ \A k \in Cancellation : ~LastIs(t, startBlock, k)
  /\ UNCHANGED <<log, rowVars, buying, proc, startBlock, handlerVars, notified,
                 lockVars, failures, kills>>

\* ... the state of a proposal is reported ...
CheckProposal(t) ==
  /\ Checks(t)
  /\ \E k \in Cancellation \ {"finalized"} :
       /\ LastIs(t, startBlock, k)
       /\ notified' = [notified EXCEPT ![t] = @ \cup {k}]
  /\ UNCHANGED <<log, rowVars, buying, proc, startBlock, handlerVars, lockVars,
                 failures, kills>>

\* Mutant: the startup check does not deal with finalized proposals.
CheckFinalizedSkipped(t) ==
  /\ Checks(t) /\ LastIs(t, startBlock, "finalized")
  /\ UNCHANGED <<log, rowVars, buying, proc, startBlock, handlerVars, notified,
                 lockVars, failures, kills>>

\* ... and a finalized one is reported and its row removed, in a session that
\* reads nothing.
CheckFinalized(t) ==
  /\ proc = "checking" /\ t \in toCheck /\ LastIs(t, startBlock, "finalized")
  /\ NoWriter /\ writer' = t
  /\ notified' = [notified EXCEPT ![t] = @ \cup {"finalized"}]
  /\ UNCHANGED <<log, rowVars, buying, startVars, handlerVars, refused, failures,
                 kills>>

CommitChecked(t) ==
  /\ proc = "checking" /\ t \in toCheck /\ toCheck' = toCheck \ {t}
  /\ writer = t /\ NoOtherReader("none")
  /\ writer' = "none" /\ RemoveCancellationSubscription(t)
  /\ UNCHANGED <<log, offers, buying, proc, startBlock, handlerVars, notified,
                 refused, failures, kills>>

\* startCancellationSubscriptions asks for the four watches.
startCancellationSubscriptions ==
  /\ proc = "checking" /\ toCheck = {}
  /\ proc' = "up"
  /\ UNCHANGED <<log, rowVars, buying, startBlock, toCheck, handlerVars,
                 notified, lockVars, failures, kills>>

\* What the process loses when it ends.
ProcessEnds ==
  /\ proc' = "down"
  /\ buying' = {} /\ toCheck' = {} /\ startBlock' = 0
  /\ writer' = "none" /\ refused' = {}
  /\ watch' = [k \in Kinds |-> 0]
  /\ stage' = [k \in Kinds |-> "idle"]
  /\ cur' = [k \in Kinds |-> 0]
  /\ blockNumber' = 0

\* Start fails before the check, and with it the application.
StartFails ==
  /\ proc \in {"new", "watching"}
  /\ CallFails
  /\ ProcessEnds
  /\ UNCHANGED <<log, rowVars, notified, kills>>

\* A call of the startup check fails, perhaps after the notification that a
\* proposal is final.
CheckFails(t) ==
  /\ proc = "checking" /\ t \in toCheck /\ writer \notin toCheck \ {t}
  /\ CallFails
  /\ \/ UNCHANGED notified
     \/ /\ LastIs(t, startBlock, "finalized")
        /\ notified' = [notified EXCEPT ![t] = @ \cup {"finalized"}]
  /\ ProcessEnds
  /\ UNCHANGED <<log, rowVars, kills>>

Kill ==
  /\ proc # "down"
  /\ kills < MaxKills /\ kills' = kills + 1
  /\ ProcessEnds
  /\ UNCHANGED <<log, rowVars, notified, failures>>

-----------------------------------------------------------------------------
(* Specification.                                                          *)

Check(t) ==
  \/ CheckNoProposal(t) \/ CheckProposal(t)
  \/ CheckFinalized(t) \/ CommitChecked(t)
  \/ CheckFails(t)

StartStep ==
  \/ New
  \/ startTokenBoughtSubscriptions
  \/ getAllCancellationSubscriptionTokenIDs
  \/ StartFails
  \/ \E t \in Tokens : Check(t)
  \/ startCancellationSubscriptions

Next ==
  \/ \E t \in Tokens : Proposal(t) \/ TokenSold(t) \/ BuyBookingToken(t)
  \/ \E t \in Tokens : SubscribeCancellationEvents(t) \/ CommitSubscribed(t)
  \/ OtherWrites \/ OtherCommits
  \/ \E k \in Kinds :
       Subscribe(k) \/ WatchBreaks(k) \/ Deliver(k) \/ HandlerStep(k)
  \/ StartStep
  \/ Kill

Spec == Init /\ [][Next]_vars

\* The bot is started again after it has ended, and each of its goroutines goes
\* on; a session gets the write lock in the end if it is free again and again.  The
\* chain node accepts subscriptions and delivers its events.
Fairness ==
  /\ SF_vars(StartStep)
  /\ \A k \in Kinds :
       WF_vars(Subscribe(k)) /\ WF_vars(Deliver(k)) /\ WF_vars(HandlerStep(k))
  /\ \A t \in Tokens : WF_vars(CommitSubscribed(t))
  /\ WF_vars(OtherCommits)

FairSpec == Spec /\ Fairness

-----------------------------------------------------------------------------
(* Properties.                                                             *)

\* A handler notifies the partner plugin of a token only while the token's row
\* is there, to the end of its session: no other handler, and no startup check,
\* ends the subscription between the lookup and the notification, so nothing
\* is reported of a token whose subscription has ended.
ReportsStoredRows ==
  \A k \in Cancellation : stage[k] \in Reading => Token(k) \in subs

\* A subscription ends only after the partner plugin has accepted the
\* notification that the cancellation is final.
RemovedIsReported ==
  [][\A t \in subs \ subs' : "finalized" \in notified'[t]]_vars

\* The partner plugin hears only of what happened on the chain, and only of
\* tokens the bot has, or had until their end, a row for.
ReportsAreTrue ==
  \A t \in Tokens : \A k \in notified[t] :
    /\ \E i \in 1..Len(log) : log[i] = Event(k, t)
    /\ t \in subs \/ "finalized" \in notified[t]

\* A final cancellation ends the subscription in the end: if its event is still
\* ahead of a running watch, or if it happened while the bot was down.  Beside a
\* failing call, only another session that has written and not committed is in
\* its way: SQLite then refuses the removal at once, the event is not delivered
\* again, and the row stays until the next start.
Ahead(t) ==
  /\ watch["finalized"] # 0
  /\ \E i \in watch["finalized"]..Len(log) : log[i] = Event("finalized", t)
Missed(t) == proc = "down" /\ LastIs(t, Len(log), "finalized")
SubscriptionEnds ==
  \A t \in Tokens :
    t \in subs /\ (Ahead(t) \/ Missed(t)) ~>
      t \notin subs \/ failures > 0 \/ t \in refused

\* cancellationSubscriptionsStartupCheck, on a token without a proposal: "simply
\* waiting for a future proposal, so there is nothing to catch up on".  The
\* proposal of a token that had none at the starting block is then not behind
\* the watch for it when that is first started.
NothingToCatchUp ==
  [][\A t \in subs :
       /\ failures = 0 /\ LastIs(t, startBlock, "bought")
       /\ watch["pending"] = 0 /\ watch'["pending"] # 0
       => \A i \in (startBlock + 1)..(watch'["pending"] - 1) :
            log[i] # Event("pending", t)]_vars
=============================================================================
