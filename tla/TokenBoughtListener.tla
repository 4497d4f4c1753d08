------------------------ MODULE TokenBoughtListener ------------------------
(***************************************************************************)
(* The supplier's event listener for sold tokens (internal/eventlistener). *)
(* After a mint the bot stores a subscription; when the token is bought or *)
(* has expired it notifies the partner plugin and removes the row.  Three  *)
(* kinds of goroutines share the rows and one timer: the mint flow that    *)
(* adds a subscription, the handler of TokenBought events, and the         *)
(* handlers the timer starts.  The timer state is written under a mutex,   *)
(* but a timeout handler reads tokenBoughtTimerSubscription without it,    *)
(* afresh each time it needs the token.                                    *)
(*                                                                         *)
(* The chain is external: it accepts a purchase while the token is         *)
(* buyable, and its clock may lag behind the bot's by less than Delay.     *)
(***************************************************************************)
EXTENDS Integers, Sequences, FiniteSets

CONSTANTS
  Tokens,
  BuyableUntil,       \* the reservation's end, in clock ticks
  Cancellable,        \* tokens whose booking can be cancelled
  Delay,              \* timeCheckBlockchainDelay
  RecordExpirations,  \* the recordTokenExpiration setting
  Handlers,           \* goroutines for timer handlers running at once (bound)
  MaxTime,            \* last clock tick (bound)
  MaxFailures,        \* failing db, chain and partner plugin calls (bound)
  MaxKills,           \* kills of the bot from outside (bound)
  Nil

ASSUME ListenerAssumption ==
  /\ BuyableUntil \in [Tokens -> Nat]
  /\ Cancellable \subseteq Tokens
  /\ Delay \in Nat
  /\ RecordExpirations \in BOOLEAN
  /\ MaxTime \in Nat /\ MaxFailures \in Nat /\ MaxKills \in Nat
  /\ Nil \notin Tokens /\ Nil \notin Handlers
  /\ "event" \notin Handlers /\ Nil # "event"
  /\ "other" \notin Tokens /\ Nil # "other"

\* TokenBoughtSubscription.Timeout.
Timeout(t) == BuyableUntil[t] + Delay

VARIABLES
  now,            \* the bot's clock
  status,         \* booking status of each token on the chain
  log,            \* TokenBought events of the chain, in order
  db,             \* rows of token_bought_subscriptions
  cancellations,  \* rows of cancellation_subscriptions
  unsaved,        \* the token of a row that is written and not committed yet,
                  \* "other" for a row of a cancellation session, or Nil
  refused,        \* tokens whose event handler was refused its write since Start
  proc,           \* "down", "checking", "watching" or "up"
  loaded,         \* subscriptions the startup check has read
  toCheck,        \* the ones among them it has still to look at
  startStatus,    \* statuses at startingBlockNumber
  timer,          \* tokenBoughtTimer: "nil", "idle" or "armed"
  timerSub,       \* tokenBoughtTimerSubscription
  mutex,          \* holder of tokenBoughtTimerMutex within a reset from the db
  handler,        \* stage of each timeout handler
  ev,             \* the event being handled: stage, token, block, result
  nextEvent,      \* first event of log the subscription has not delivered
  blockNumber,    \* subscriber.blockNumber
  mint,           \* progress of the mint flow of each token
  notified,       \* notifications the partner plugin has accepted
  failures, kills

chainVars == <<now, status, log>>
tables == <<db, cancellations>>
dbVars == <<db, cancellations, unsaved, refused>>
startVars == <<proc, loaded, toCheck, startStatus>>
timerVars == <<timer, timerSub, mutex>>
eventVars == <<ev, nextEvent, blockNumber>>
vars == <<now, status, log, db, cancellations, unsaved, refused, proc, loaded,
          toCheck, startStatus, timer, timerSub, mutex, handler, ev, nextEvent,
          blockNumber, mint, notified, failures, kills>>

Status == {"none", "reserved", "bought", "expired"}
HandlerStages ==
  {"none", "checking", "notifying", "recording", "removing", "committing",
   "finished", "resetting"}
MintStages == {"none", "minted", "inserted", "added", "done", "lost"}
EventStages == {"lookup", "notify", "commit", "finished", "resetting", "dead"}
\* Block numbers; 0 is what a handler returns when it failed.
Blocks == 0..(MaxTime + 1)
Events == [stage : EventStages, token : Tokens, block : Blocks, result : Blocks]

ASSUME NilIsNoEvent == Nil \notin Events

\* Every variable holds a value of the shape the code declares for it.
TypeOK ==
  /\ now \in 0..MaxTime
  /\ status \in [Tokens -> Status]
  /\ log \in Seq([token : Tokens, block : Blocks])
  /\ db \in SUBSET Tokens
  /\ cancellations \in SUBSET Tokens
  /\ unsaved \in Tokens \cup {Nil, "other"}
  /\ refused \in SUBSET Tokens
  /\ proc \in {"down", "checking", "watching", "up"}
  /\ loaded \in SUBSET Tokens
  /\ toCheck \in SUBSET Tokens
  /\ startStatus \in [Tokens -> Status]
  /\ timer \in {"nil", "idle", "armed"}
  /\ timerSub \in Tokens \cup {Nil}
  /\ mutex \in Handlers \cup {Nil, "event"}
  /\ handler \in [Handlers -> HandlerStages]
  /\ ev \in Events \cup {Nil}
  /\ nextEvent \in Nat \ {0}
  /\ blockNumber \in Blocks
  /\ mint \in [Tokens -> MintStages]
  /\ notified \in [Tokens -> SUBSET {"bought", "expired"}]
  /\ failures \in 0..MaxFailures
  /\ kills \in 0..MaxKills

Init ==
  /\ now = 0
  /\ status = [t \in Tokens |-> "none"]
  /\ log = <<>>
  /\ db = {} /\ cancellations = {}
  /\ unsaved = Nil /\ refused = {}
  /\ proc = "down"
  /\ loaded = {} /\ toCheck = {}
  /\ startStatus = [t \in Tokens |-> "none"]
  /\ timer = "nil" /\ timerSub = Nil /\ mutex = Nil
  /\ handler = [h \in Handlers |-> "none"]
  /\ ev = Nil /\ nextEvent = 1 /\ blockNumber = 0
  /\ mint = [t \in Tokens |-> "none"]
  /\ notified = [t \in Tokens |-> {}]
  /\ failures = 0 /\ kills = 0

\* A call to the db, the chain or the partner plugin returns an error.
CallFails == failures < MaxFailures /\ failures' = failures + 1
CallWorks == UNCHANGED failures

\* SQLite with a rollback journal and deferred transactions.  One session at a
\* time may have written: another that has not read yet waits with its first
\* write until that one has ended, or gives up (CallFails).
NoWriter == unsaved = Nil

\* The session of an event handler that has read its row keeps its read lock
\* until it ends, and nobody commits a write meanwhile: a writer waits, or
\* gives up.
NoReader == ~(ev # Nil /\ ev.stage \in {"notify", "commit"})

\* AddTokenBoughtSubscription, RemoveTokenBoughtSubscription and
\* GetTokenBoughtSubscription of the storage.
AddRow(t) == db' = db \cup {t}
RemoveRow(t) == db' = db \ {t}
HasRow(t) == t \in db

-----------------------------------------------------------------------------
(* Time and chain.                                                         *)

\* A reservation does not end during its mint flow: verifyAndFixBuyableUntil
\* leaves a minute for it, and nothing waits between mint and subscription.
Tick ==
  /\ now < MaxTime
  /\ \A t \in Tokens : mint[t] \in {"minted", "inserted", "added"} => now < BuyableUntil[t]
  /\ now' = now + 1
  /\ UNCHANGED <<status, log, dbVars, startVars, timerVars, handler, eventVars,
                 mint, notified, failures, kills>>

\* The chain has a block for each tick.
LatestBlock == now + 1

\* The distributor buys a token it was offered.
Buy(t) ==
  /\ status[t] = "reserved" /\ mint[t] = "done"
  /\ now < Timeout(t)
  /\ status' = [status EXCEPT ![t] = "bought"]
  /\ log' = Append(log, [token |-> t, block |-> LatestBlock])
  /\ UNCHANGED <<now, dbVars, startVars, timerVars, handler, eventVars, mint,
                 notified, failures, kills>>

-----------------------------------------------------------------------------
(* The timer.                                                              *)

Earliest(subs) == {t \in subs : \A u \in subs : Timeout(t) <= Timeout(u)}

\* time.AfterFunc for subscription t.
Arm(t) == timer' = "armed" /\ timerSub' = t

\* resetTokenBoughtTimerFromDB, first half: Stop, and no subscription.
ResetBegins(who) ==
  /\ mutex = Nil
  /\ mutex' = who
  /\ timer' = "idle" /\ timerSub' = Nil

\* resetTokenBoughtTimerFromDB, second half: the row with the least timeout.
\* If the db cannot be read the timer stays off.
ResetEnds(who) ==
  /\ mutex = who
  /\ mutex' = Nil
  /\ \/ /\ CallWorks
        /\ \/ db = {} /\ UNCHANGED <<timer, timerSub>>
           \/ \E t \in Earliest(db) : Arm(t)
     \/ CallFails /\ UNCHANGED <<timer, timerSub>>

\* Mutant: an earlier subscription does not replace a later one.
ResetIfBefore(t) ==
  /\ mutex = Nil
  /\ IF timerSub # Nil /\ Timeout(timerSub) >= Timeout(t)
     THEN UNCHANGED <<timer, timerSub>>
     ELSE Arm(t)

\* resetTokenBoughtTimerIfAfter.
resetTokenBoughtTimerIfAfter(t) ==
  /\ mutex = Nil
  /\ IF timerSub # Nil /\ Timeout(timerSub) <= Timeout(t)
     THEN UNCHANGED <<timer, timerSub>>
     ELSE Arm(t)

-----------------------------------------------------------------------------
(* The mint flow.                                                          *)

Mint(t) ==
  /\ proc = "up" /\ mint[t] = "none"
  /\ now < BuyableUntil[t]
  /\ mint' = [mint EXCEPT ![t] = "minted"]
  /\ status' = [status EXCEPT ![t] = "reserved"]
  /\ UNCHANGED <<now, log, dbVars, startVars, timerVars, handler, eventVars,
                 notified, failures, kills>>

MintGoesTo(t, stage) == mint' = [mint EXCEPT ![t] = stage]

\* SubscribeTokenBoughtEvent inserts the row in a session of its own, or fails,
\* which the mint flow only logs before it offers the token ...
AddTokenBoughtSubscription(t) ==
  /\ proc = "up" /\ mint[t] = "minted"
  /\ \/ CallWorks /\ NoWriter /\ unsaved' = t /\ MintGoesTo(t, "inserted")
     \/ CallFails /\ MintGoesTo(t, "done") /\ UNCHANGED unsaved
  /\ UNCHANGED <<chainVars, tables, refused, startVars, timerVars, handler,
                 eventVars, notified, kills>>

\* ... commits it, and a commit that fails leaves nothing behind ...
CommitAdded(t) ==
  /\ proc = "up" /\ mint[t] = "inserted"
  /\ unsaved' = Nil
  /\ \/ CallWorks /\ NoReader /\ AddRow(t) /\ MintGoesTo(t, "added")
     \/ CallFails /\ UNCHANGED db /\ MintGoesTo(t, "done")
  /\ UNCHANGED <<chainVars, cancellations, refused, startVars, timerVars,
                 handler, eventVars, notified, kills>>

\* ... then resets the timer, and the token is offered.
SubscribeTokenBoughtEvent(t) ==
  /\ proc = "up" /\ mint[t] = "added"
  /\ resetTokenBoughtTimerIfAfter(t)
  /\ MintGoesTo(t, "done")
  /\ UNCHANGED <<chainVars, dbVars, startVars, mutex, handler, eventVars,
                 notified, failures, kills>>

-----------------------------------------------------------------------------
(* TokenBought events.  One goroutine handles them one at a time.          *)

\* The watch delivers the events of a block and of all later ones.
FirstFrom(block) == Cardinality({i \in 1..Len(log) : log[i].block < block}) + 1

Deliver ==
  /\ proc \in {"watching", "up"} /\ ev = Nil
  /\ nextEvent <= Len(log)
  /\ ev' = [stage |-> "lookup", token |-> log[nextEvent].token,
            block |-> log[nextEvent].block, result |-> 0]
  /\ nextEvent' = nextEvent + 1
  /\ UNCHANGED <<chainVars, dbVars, startVars, timerVars, handler, blockNumber,
                 mint, notified, failures, kills>>

\* The subscription breaks and is renewed from blockNumber on.
Resubscribe ==
  /\ proc \in {"watching", "up"}
  /\ CallFails
  /\ nextEvent' = FirstFrom(blockNumber)
  /\ UNCHANGED <<chainVars, dbVars, startVars, timerVars, handler, ev,
                 blockNumber, mint, notified, kills>>

EventGoesTo(stage) == ev' = [ev EXCEPT !.stage = stage]
EventEnds(result) == ev' = [ev EXCEPT !.stage = "finished", !.result = result]

\* GetTokenBoughtSubscription.
EventLookup ==
  /\ ev # Nil /\ ev.stage = "lookup"
  /\ \/ CallWorks /\ HasRow(ev.token) /\ EventGoesTo("notify")
     \/ CallWorks /\ ~HasRow(ev.token) /\ EventEnds(ev.block)
     \/ CallFails /\ EventEnds(0)
  /\ UNCHANGED <<chainVars, dbVars, startVars, timerVars, handler, nextEvent,
                 blockNumber, mint, notified, kills>>

\* TokenBoughtNotificationWithBuyTx.
EventNotify ==
  /\ ev # Nil /\ ev.stage = "notify"
  /\ \/ /\ CallWorks /\ EventGoesTo("commit")
        /\ notified' = [notified EXCEPT ![ev.token] = @ \cup {"bought"}]
     \/ CallFails /\ EventEnds(0) /\ UNCHANGED notified
  /\ UNCHANGED <<chainVars, dbVars, startVars, timerVars, handler, nextEvent,
                 blockNumber, mint, kills>>

\* Mutant: a failed commit is reported as a processed block.
EventCommitAlwaysCounts ==
  /\ ev # Nil /\ ev.stage = "commit"
  /\ \/ /\ CallWorks
        /\ RemoveRow(ev.token)
        /\ cancellations' = cancellations \cup (Cancellable \cap {ev.token})
     \/ CallFails /\ UNCHANGED tables
  /\ EventEnds(ev.block)
  /\ UNCHANGED <<chainVars, unsaved, refused, startVars, timerVars, handler,
                 nextEvent, blockNumber, mint, notified, kills>>

\* IsBookingCancellable, AddCancellationSubscription, Remove and Commit, in
\* the session the row was read in.  While another session has written, the
\* first write of one that has read is refused at once: both would wait for
\* each other.
EventCommit ==
  /\ ev # Nil /\ ev.stage = "commit"
  /\ \/ /\ CallWorks /\ NoWriter
        /\ RemoveRow(ev.token)
        /\ cancellations' = cancellations \cup (Cancellable \cap {ev.token})
        /\ EventEnds(ev.block) /\ UNCHANGED refused
     \/ /\ CallWorks /\ ~NoWriter
        /\ EventEnds(0)
        /\ refused' = refused \cup {ev.token} /\ UNCHANGED tables
     \/ CallFails /\ EventEnds(0) /\ UNCHANGED <<tables, refused>>
  /\ UNCHANGED <<chainVars, unsaved, startVars, timerVars, handler, nextEvent,
                 blockNumber, mint, notified, kills>>

\* The handler has returned: a block number other than 0 is stored.
EventReturns ==
  /\ ev' = Nil
  /\ blockNumber' = IF ev.result = 0 THEN blockNumber ELSE ev.result

\* The deferred resetTokenBoughtTimerIfMatch.
EventReset ==
  /\ ev # Nil /\ ev.stage = "finished" /\ mutex = Nil
  /\ timer # "nil"
  /\ IF timerSub \notin {Nil, ev.token}
     THEN EventReturns /\ UNCHANGED timerVars
     ELSE /\ ResetBegins("event") /\ EventGoesTo("resetting")
          /\ UNCHANGED blockNumber
  /\ UNCHANGED <<chainVars, dbVars, startVars, handler, nextEvent, mint,
                 notified, failures, kills>>

EventResetEnds ==
  /\ ev # Nil /\ ev.stage = "resetting"
  /\ ResetEnds("event") /\ EventReturns
  /\ UNCHANGED <<chainVars, dbVars, startVars, handler, nextEvent, mint,
                 notified, kills>>

-----------------------------------------------------------------------------
(* Timeout handlers.  Each stage reads timerSub anew.                      *)

Goes(h, stage) == handler' = [handler EXCEPT ![h] = stage]

\* The timer fires: its function runs in a goroutine of its own.
Fire(h) ==
  /\ proc = "up"
  /\ timer = "armed" /\ now >= Timeout(timerSub)
  /\ handler[h] = "none"
  /\ timer' = "idle"
  /\ Goes(h, "checking")
  /\ UNCHANGED <<chainVars, dbVars, startVars, timerSub, mutex, eventVars,
                 mint, notified, failures, kills>>

\* GetBookingStatus: anything but Reserved ends the handler.
TimeoutCheck(h) ==
  /\ handler[h] = "checking" /\ timerSub # Nil
  /\ \/ CallWorks /\ status[timerSub] = "reserved" /\ Goes(h, "notifying")
     \/ CallWorks /\ status[timerSub] # "reserved" /\ Goes(h, "finished")
     \/ CallFails /\ Goes(h, "finished")
  /\ UNCHANGED <<chainVars, dbVars, startVars, timerVars, eventVars, mint,
                 notified, kills>>

\* TokenExpiredNotification.
TimeoutNotify(h) ==
  /\ handler[h] = "notifying" /\ timerSub # Nil
  /\ \/ /\ CallWorks
        /\ notified' = [notified EXCEPT ![timerSub] = @ \cup {"expired"}]
        /\ Goes(h, IF RecordExpirations THEN "recording" ELSE "removing")
     \/ CallFails /\ Goes(h, "finished") /\ UNCHANGED notified
  /\ UNCHANGED <<chainVars, dbVars, startVars, timerVars, eventVars, mint,
                 kills>>

\* RecordExpiration: the chain refuses it for a token that is not reserved or
\* that can still be bought.
TimeoutRecord(h) ==
  /\ handler[h] = "recording" /\ timerSub # Nil
  /\ \/ /\ CallWorks /\ status[timerSub] = "reserved" /\ now >= Timeout(timerSub)
        /\ status' = [status EXCEPT ![timerSub] = "expired"]
        /\ Goes(h, "removing")
     \/ /\ CallWorks /\ ~(status[timerSub] = "reserved" /\ now >= Timeout(timerSub))
        /\ Goes(h, "finished") /\ UNCHANGED status
     \/ CallFails /\ Goes(h, "finished") /\ UNCHANGED status
  /\ UNCHANGED <<now, log, dbVars, startVars, timerVars, eventVars, mint,
                 notified, kills>>

\* RemoveTokenBoughtSubscription, an error for a row that has gone ...
TimeoutRemove(h) ==
  /\ handler[h] = "removing" /\ timerSub # Nil
  /\ \/ /\ CallWorks /\ NoWriter /\ HasRow(timerSub)
        /\ unsaved' = timerSub
        /\ Goes(h, "committing")
     \/ /\ CallWorks /\ NoWriter /\ ~HasRow(timerSub)
        /\ Goes(h, "finished") /\ UNCHANGED unsaved
     \/ CallFails /\ Goes(h, "finished") /\ UNCHANGED unsaved
  /\ UNCHANGED <<chainVars, tables, refused, startVars, timerVars, eventVars,
                 mint, notified, kills>>

\* ... and Commit.  Its error is logged with the token, read once more.
TimeoutCommit(h) ==
  /\ handler[h] = "committing"
  /\ unsaved' = Nil
  /\ Goes(h, "finished")
  /\ \/ CallWorks /\ NoReader /\ RemoveRow(unsaved)
     \/ CallFails /\ timerSub # Nil /\ UNCHANGED db
  /\ UNCHANGED <<chainVars, cancellations, refused, startVars, timerVars,
                 eventVars, mint, notified, kills>>

\* The deferred resetTokenBoughtTimer.
TimeoutReset(h) ==
  /\ handler[h] = "finished"
  /\ ResetBegins(h) /\ Goes(h, "resetting")
  /\ UNCHANGED <<chainVars, dbVars, startVars, eventVars, mint, notified,
                 failures, kills>>

TimeoutResetEnds(h) ==
  /\ handler[h] = "resetting"
  /\ ResetEnds(h) /\ Goes(h, "none")
  /\ UNCHANGED <<chainVars, dbVars, startVars, eventVars, mint, notified,
                 kills>>

-----------------------------------------------------------------------------
(* The handlers of cancellations (CancellationListener) keep their rows in *)
(* the same file.  Of their sessions only the write lock is seen here.     *)

OtherWrites ==
  /\ proc = "up" /\ NoWriter
  /\ unsaved' = "other"
  /\ UNCHANGED <<chainVars, tables, refused, startVars, timerVars, handler,
                 eventVars, mint, notified, failures, kills>>

\* Commit, or Abort.
OtherCommits ==
  /\ unsaved = "other" /\ NoReader
  /\ unsaved' = Nil
  /\ UNCHANGED <<chainVars, tables, refused, startVars, timerVars, handler,
                 eventVars, mint, notified, failures, kills>>

-----------------------------------------------------------------------------
(* Start, crash and restart.                                               *)

\* What the process loses when it ends, an open session included.  A mint flow
\* that has not got to its response is gone, and with it the offer.
ProcessEnds ==
  /\ proc' = "down"
  /\ unsaved' = Nil /\ refused' = {}
  /\ loaded' = {} /\ toCheck' = {}
  /\ startStatus' = [t \in Tokens |-> "none"]
  /\ timer' = "nil" /\ timerSub' = Nil /\ mutex' = Nil
  /\ handler' = [h \in Handlers |-> "none"]
  /\ ev' = Nil /\ nextEvent' = 1 /\ blockNumber' = 0
  /\ mint' = [t \in Tokens |-> IF mint[t] \in {"minted", "inserted", "added"}
                                  THEN "lost" ELSE mint[t]]

Kill ==
  /\ proc # "down"
  /\ kills < MaxKills /\ kills' = kills + 1
  /\ ProcessEnds
  /\ UNCHANGED <<chainVars, tables, notified, failures>>

\* A timeout handler dereferences tokenBoughtTimerSubscription while it is
\* nil.  Nothing recovers in a timer goroutine: the bot dies.
NilSubscription(h) ==
  /\ \/ handler[h] \in {"checking", "notifying", "recording", "removing"} /\ CallWorks
     \/ handler[h] = "committing" /\ CallFails
  /\ timerSub = Nil
  /\ ProcessEnds
  /\ UNCHANGED <<chainVars, tables, notified, kills>>

\* The event handler's deferred reset stops a timer that is not there yet.
\* The panic is recovered and no more events are handled ...
NilTimer ==
  /\ ev # Nil /\ ev.stage = "finished" /\ mutex = Nil
  /\ timer = "nil"
  /\ EventGoesTo("dead")
  /\ UNCHANGED <<chainVars, dbVars, startVars, timerVars, handler, nextEvent,
                 blockNumber, mint, notified, failures, kills>>

\* ... until Start has returned, the error is read and the application ends.
ListenerFails ==
  /\ ev # Nil /\ ev.stage = "dead" /\ proc = "up"
  /\ ProcessEnds
  /\ UNCHANGED <<chainVars, tables, notified, failures, kills>>

\* New: the statuses the startup check will see are those of the present
\* block, from which events will be watched.
New ==
  /\ proc = "down"
  /\ proc' = "checking"
  /\ loaded' = db /\ toCheck' = db
  /\ startStatus' = status
  /\ blockNumber' = LatestBlock
  /\ UNCHANGED <<chainVars, dbVars, timerVars, handler, ev, nextEvent, mint,
                 notified, failures, kills>>

\* Mutant: the startup check takes every stored token for a sold one.
StartupCheckReportsAll(t) ==
  /\ proc = "checking" /\ t \in toCheck
  /\ toCheck' = toCheck \ {t}
  /\ notified' = [notified EXCEPT ![t] = @ \cup {"bought"}]
  /\ RemoveRow(t)
  /\ UNCHANGED <<chainVars, cancellations, unsaved, refused, proc, loaded,
                 startStatus, timerVars, handler, eventVars, mint, failures, kills>>

\* tokenBoughtSubscriptionsStartupCheck, one subscription.
StartupCheck(t) ==
  /\ proc = "checking" /\ t \in toCheck
  /\ toCheck' = toCheck \ {t}
  /\ IF startStatus[t] = "reserved"
     THEN UNCHANGED <<db, notified>>
     ELSE /\ notified' = IF startStatus[t] = "bought"
                         THEN [notified EXCEPT ![t] = @ \cup {"bought"}]
                         ELSE notified
          /\ RemoveRow(t)
  /\ UNCHANGED <<chainVars, cancellations, unsaved, refused, proc, loaded,
                 startStatus, timerVars, handler, eventVars, mint, failures, kills>>

\* A call of the startup check fails: Start fails and the application ends.
\* The notification may have gone out before.
StartupCheckFails(t) ==
  /\ proc = "checking" /\ t \in toCheck
  /\ CallFails
  /\ \/ UNCHANGED notified
     \/ /\ startStatus[t] = "bought"
        /\ notified' = [notified EXCEPT ![t] = @ \cup {"bought"}]
  /\ ProcessEnds
  /\ UNCHANGED <<chainVars, tables, kills>>

\* Mutant: the watch starts after the block of the last event.
WatchMissesBlock ==
  /\ proc = "checking" /\ toCheck = {}
  /\ proc' = "watching"
  /\ nextEvent' = FirstFrom(blockNumber + 1)
  /\ UNCHANGED <<chainVars, dbVars, loaded, toCheck, startStatus, timerVars,
                 handler, ev, blockNumber, mint, notified, failures, kills>>

\* startTokenBoughtSubscriptions: events are watched from the starting block,
\* which is included ...
SubscribeTokenBought ==
  /\ proc = "checking" /\ toCheck = {}
  /\ proc' = "watching"
  /\ nextEvent' = FirstFrom(blockNumber)
  /\ UNCHANGED <<chainVars, dbVars, loaded, toCheck, startStatus, timerVars,
                 handler, ev, blockNumber, mint, notified, failures, kills>>

\* ... and the timer is started after that: for the earliest subscription the
\* check has found reserved, or as a dummy.
startTokenBoughtTimer ==
  /\ proc = "watching"
  /\ proc' = "up"
  /\ LET reserved == {t \in loaded : startStatus[t] = "reserved"} IN
     IF reserved = {} THEN timer' = "idle" /\ timerSub' = Nil
                      ELSE \E t \in Earliest(reserved) : Arm(t)
  /\ UNCHANGED <<chainVars, dbVars, loaded, toCheck, startStatus, mutex, handler,
                 eventVars, mint, notified, failures, kills>>

-----------------------------------------------------------------------------
(* Specification.                                                          *)

EventStep ==
  \/ EventLookup \/ EventNotify \/ EventCommit
  \/ EventReset \/ EventResetEnds \/ NilTimer \/ ListenerFails

TimeoutStep(h) ==
  \/ TimeoutCheck(h) \/ TimeoutNotify(h) \/ TimeoutRecord(h)
  \/ TimeoutRemove(h) \/ TimeoutCommit(h) \/ TimeoutReset(h)
  \/ TimeoutResetEnds(h) \/ NilSubscription(h)

MintStep(t) ==
  AddTokenBoughtSubscription(t) \/ CommitAdded(t) \/ SubscribeTokenBoughtEvent(t)

StartStep ==
  \/ New
  \/ \E t \in Tokens : StartupCheck(t) \/ StartupCheckFails(t)
  \/ SubscribeTokenBought
  \/ startTokenBoughtTimer

Next ==
  \/ Tick
  \/ \E t \in Tokens : Buy(t) \/ Mint(t) \/ MintStep(t)
  \/ Deliver \/ Resubscribe
  \/ EventStep
  \/ \E h \in Handlers : Fire(h) \/ TimeoutStep(h)
  \/ OtherWrites \/ OtherCommits
  \/ StartStep
  \/ Kill

Spec == Init /\ [][Next]_vars

\* Time passes, the chain node delivers its events, every goroutine goes on,
\* the timer fires, and the bot is started again after it has ended.  Strong
\* fairness where the mutex or the write lock is taken: sync.Mutex does not
\* starve a waiter, and a session that is not let in within SQLite's busy
\* timeout is a failing call.
Fairness ==
  /\ WF_vars(Tick)
  /\ WF_vars(Deliver)
  /\ SF_vars(EventStep)
  /\ WF_vars(StartStep)
  /\ \A t \in Tokens : SF_vars(MintStep(t))
  /\ \A h \in Handlers : SF_vars(TimeoutStep(h))
  /\ WF_vars(\E h \in Handlers : Fire(h))
  /\ SF_vars(OtherCommits)

FairSpec == Spec /\ Fairness

-----------------------------------------------------------------------------
(* Properties.                                                             *)

\* The partner plugin hears that a token was bought only if it was, on
\* whichever path: event, redelivered event, startup check.
BoughtIsTrue == \A t \in Tokens : "bought" \in notified[t] => status[t] = "bought"

Busy == {h \in Handlers : handler[h] # "none"}

\* No stored subscription is forgotten.  While the listener is up each one is
\* covered: by a timer armed for no later than its timeout, or by a goroutine
\* that is going to arm it (a timeout handler, a reset in progress, the
\* subscribing mint flow), however the handlers interleave.  Only a db that
\* could not be read when the timer was reset can undo this.
Covered(t) == timer = "armed" /\ Timeout(timerSub) <= Timeout(t)
SubscriptionsCovered ==
  proc = "up" /\ failures = 0 =>
    \A t \in db :
      Covered(t) \/ Busy # {} \/ mutex = "event" \/ mint[t] = "added"

\* A timer that has fired or was stopped holds a subscription only while the
\* handler that goes with it is still running.
NoDeadTimer == timerSub # Nil /\ timer # "armed" => Busy # {}

\* An event counts as processed (its block is stored as the one to resume
\* from) only when its token's subscription is gone.
ProcessedIsResolved ==
  ev # Nil /\ ev.result # 0 => ev.token \notin db

\* What an event handler tells the partner plugin about and then removes is a
\* row that is still there: no timeout handler resolves the same subscription
\* between the handler's read and its commit.
RowStays ==
  ev # Nil /\ ev.stage \in {"notify", "commit"} => ev.token \in db

\* Without failing calls every subscription is resolved in the end, through
\* crashes, kills and all races of the handlers, but for one case.  An event
\* handler whose write meets another session's is refused it; the event does
\* not come again, and the timeout handler does nothing for a token that is
\* bought, and arms the timer for it again.  Its row stays until the next
\* start, and those that time out after it stay with it.
Blocked(t) == \E u \in refused : Timeout(u) <= Timeout(t)
EventuallyResolved == \A t \in Tokens : t \in db ~> t \notin db \/ Blocked(t)

\* SubscribeTokenBoughtEvent adds a delay "to be more sure that we are not too
\* early, assuming timeout has already happened".
NeverTooEarly ==
  [][\A t \in Tokens :
       "expired" \in notified'[t] \ notified[t] => now >= Timeout(t)]_vars

=============================================================================
