# Verification of the travel token messenger bot

TLA+ models of the messenger bot, the TLC configurations that check them on
small instances, and TLAPS proofs of the properties that matter most. The code
under `src/` is the reference; `PROJECT.json` maps every definition that models
code to the lines it stands for.

Contents

1. The system
2. Inventory of components
3. Modules and how they correspond to the code
4. Runs: what is checked, with which bounds
5. Fairness
6. Proofs
7. Where the code and its comments disagree
8. What is not modelled, and why

## 1. The system

A messenger bot stands between a travel company's own software, the *partner
plugin*, and the other companies on the network. A distributor's client calls
its bot over gRPC; the bot looks up a bot of the supplier, sends it the request
as an encrypted Matrix message, waits for the response and returns it. The
supplier's bot passes the request to its partner plugin and sends back what
that answers. A *mint* response makes the supplier's bot mint a booking token
on chain and the distributor's bot buy it. From then on both bots follow the
token on chain: the supplier's bot waits for the purchase or the expiry of the
offer, and both watch for cancellation proposals and tell their partner plugins.

```
 client --gRPC--> RPC server --> message processor --> resolver (bots table, chain)
                                   |        ^
                                   v        |  message channel
                               messenger (Matrix rooms, chunks) <~~~~> peer bot
                                   |
   response handler (mint, buy) ---+--> booking and account contracts
         | rows                                 | events
         v                                      v
      SQLite  <------- event listener (sold tokens, cancellations) --> partner plugin
```

The parts share state in four ways: an unbuffered Go channel from the messenger
to the processor; the processor's map of response channels; the SQLite database,
each session of which holds SQLite's locks until it ends; and, in the event
listener, one timer under a mutex and one block number.

## 2. Inventory of components

| Component | State | Operations | What is hard | What makes it correct |
|---|---|---|---|---|
| Message transport (`internal/matrix/messenger/messages.go`) | map of partial messages, sweeper's ticker | `SendMessage`, two event handlers, `evictStalePartialMessages` | reordering, redelivery, partial sends, restart, sweep racing the last chunk | what the processor gets was sent, whole; the map is bounded; nothing young is dropped |
| Rooms and Matrix client (`rooms.go`, `client.go`) | room cache, memberships on the server | find or create a room, invites, leaving encrypted rooms at start | two senders create two rooms; a cached room is not looked at again; a join fails once and for all | messages are sent to a room the recipient reads |
| Message encoding (`internal/messaging/encoding`) | table and cache of public keys | encode, decode and verify | a racing read fills the cache with "not known"; evictions and restarts | once a peer's key is known no request goes to it in the clear |
| Message processor (`internal/messaging/processor.go`) | map from request to response channel; a goroutine per message | `SendRequestMessage`, `processMessage`, `forwardToHandler` | timeout racing the response, repeated responses, sends on closed channels | a call returns once, with the response to its own request or an error |
| Bot resolver (`internal/resolver`) | `bots` table, sessions | `GetBotAddress`, `SetBotStatus` | concurrent read-then-write sessions, stale rows | failover to a bot that answers; no lost update |
| Response handler (`response_handler.go`, `mint*.go`) | none of its own | mint, buy, price and time checks | one step of several failing | no offer without a token, no purchase at a wrong price |
| Event listener, sold tokens (`subscription_token_bought.go`) | rows, timer and its subscription, mutex | subscribe, event handler, timeout handler, startup check | four kinds of goroutines on one timer; crash between any two steps | every offer is resolved once, and truly |
| Event listener, cancellations (`subscription_cancellation.go`, `subscriber/`) | rows, five watches, shared block number | subscribe, four event handlers, startup check | handlers of different kinds running at once; a shared resume point | the plugin hears what happened, up to the end and no further |
| Cancellation services (`internal/cancellation`) | proposals on chain | initiate, counter, accept, reject, withdraw, finalize | two parties acting at once; a wait cut off while the transaction is on its way | a refused call changes nothing, a successful one took effect once |
| Contracts (`pkg/booking`, `pkg/ttm_accounts`, `pkg/erc20`) | cache of permissions | transactions and views | a new token not yet visible at every node; stale permissions | a transaction's result is read from its receipt; a permission is no older than the cache allows |
| Prices and conversion (`internal/price`, `pkg/price`, `pkg/conversion`) | none | big-integer and checked conversions | overflow, decimals | value kept or an error |
| Service registry (`service_registry.go`) and RPC stubs (`internal/rpc`) | services read at start | register, look up, answer or drop | the account changes while requests are on their way | what the account supported all along is served |
| Database sessions (`pkg/database/sqlite`) | SQLite locks | begin, commit, abort | lock upgrades | read locks until the end of the session |
| Application (`internal/app`, `cmd`) | contexts, error group, the parts' start and stop channels | construct, run, stop | a signal, failure or panic at any stage; shutdown with a message in hand | it stops, and a failure is its result |
| Scheduler (`pkg/scheduler`), a library the application does not use | table of jobs, timers | schedule, start, stop, run | schedule racing a recorded run; kill between record and run; a slow run | one run for a period, though perhaps late |
| Partner plugin mock (`pp-mock`) | store of searches, validations and mints; shared mock data; event streams | search, list, validate, mint, subscribe | shared data written in place; cleanup; a stream that leaves | prices hold from search to mint; nothing unexpired is lost; answers repeat |
| Partner plugin client, configuration, version, metadata, readiness, end-to-end tests | | plumbing | | |

## 3. Modules and how they correspond to the code

Definitions keep the code's names where TLA+ allows it; comments say which
function an action stands for. A definition introduced by "Mutant:" is a
deliberately wrong version of the one after it; no specification uses it. It
documents which mistake the properties would catch.

### MessageReassembly, MessageDelivery

`SendMessage` posts one signed event with chunk 0 and then one chunk event for
each further chunk, and stops at the first error (`PostEvent`, `PostFails`). The
server may deliver an accepted event in any order and again (`Receive`), and a
peer may post events this code never produces: an index past the end, a chunk
that claims index 0, a signed event that announces no chunks (`PostStray`). The
handlers are `signedMessageEventHandler` and `messageChunkEventHandler`, down to
`addMessageChunk` and `messageIndexSetComplete`. A handler blocks on the
unbuffered `msgChannel` until the processor takes the message (`pending`,
`HandOver`), and the syncer dispatches nothing else meanwhile. Time is in ticks;
an entry's `firstSeen` is kept as its age. A restart empties the map.

Payloads are pairs of a message and an index, so that a message put together
from the wrong chunks is told from the right one. A signature is the id of the
message it belongs to.

`MessageDelivery` is what the transport promises: a message is published, and
only a published message is delivered. `MessageReassembly` implements it
(`DeliverySpec`).

### RequestResponse, RequestReply

The processors of the two bots. A call of `SendRequestMessage` goes through the
stages of the function (`Stages`): it registers its channel, resolves the bot,
sends, waits in its select, then records the bot's status, validates and handles
the response. Each stage can fail and return. Each arriving copy of a request
or a response has a goroutine; the response's looks the channel up, blocks in the
send, and closes the channel after a successful send, or panics on a closed one
and recovers. Decoding and authorisation are an accept-or-drop choice.

`RequestReply` is the client's view: a call is answered or fails once, and is
answered only if its request was served. `RequestResponse` implements it
(`ReplySpec`).

### BotResolver

The `bots` table and the requests that use it. A request reads its account's
rows (`Lookup`) in a session; it picks a reachable bot or one of unknown status,
or, if there is none, asks the chain and replaces the rows (`SetBots`,
`SetBotsCommit`). When the response arrives or the context ends it stores the
status (`SetBotStatus`), an update that fails when it meets a number of rows
other than one. SQLite's locks are modelled: a session that has read
keeps a read lock, a session that has written excludes other writers and
commits only when no reader is left; a session waits for a lock or gives up.

### TokenBoughtListener

The supplier's side of a sale. Shared by the mint flow
(`AddTokenBoughtSubscription`, `SubscribeTokenBoughtEvent`), the goroutine of
TokenBought events (`EventLookup` to `EventResetEnds`), the timeout handlers the
timer starts (`TimeoutCheck` to `TimeoutResetEnds`) and the startup check
(`New`, `StartupCheck`, `SubscribeTokenBought`, `startTokenBoughtTimer`) are the rows
and the timer. A timeout handler reads `tokenBoughtTimerSubscription` without the
mutex, anew at every use; in the model each of its stages uses `timerSub` as
it is then. A panic of a handler, a listener error or a kill ends the process
and leaves rows and chain.

Sessions are SQLite's. One that writes without having read (a mint's, the timeout
handler's, those of `CancellationListener`, here `OtherWrites`) takes the write lock in
one step and commits in another, when no reader is left; `unsaved` is what it has
written. The event handler has read when it writes: while another session has written,
its write is refused at once, since the two would wait for each other. `refused` keeps
the tokens this has happened to since the start.

The chain is a clock, a status for each token and a log of events. Its clock may
lag behind the bot's by less than the listener's delay.

### CancellationListener

Rows of cancellable tokens, sold and bought, and a watch and a handler
goroutine for each kind of event. A watch starts at the shared block number and
advances it when it has handled an event; a broken watch starts again from there
(`Subscribe`, `Deliver`, `WatchBreaks`, `Return`). A handler looks its row up, notifies, and
for a purchase or a final cancellation writes and commits, in one session
(`Lookup`, `Notify`, `WriteRow`, `CommitRow`). The sessions of a purchase being stored
(`SubscribeCancellationEvents`), of the startup check (`CheckFinalized`, `CommitChecked`)
and of sold tokens (`OtherWrites`) write without having read, and wait for each other.
A handler has read: if any other session has written and not committed (`writer`),
SQLite refuses its write at once (`refused`). The startup check
reports the state of each stored token's proposal at the starting block. The
chain is a sequence of events, one in a block. Amounts and reasons of a proposal
are left out: nothing branches on them.

### MintFlow

One Mint call of any version, from the caller to the supplier's bot and back.
The caller's bot sends its request with the buyer's account and waits; each
delivered copy of it is handled on its own (`prepareMintResponseV3`, `V4`,
`V5` and the stages after it): the partner plugin answers, the time of the offer is
verified or set, the price is converted with the decimals of its currency, the
token is minted, its transaction waited for, the sale subscribed, the
response sent. The caller's bot (`processMintResponseV3`, `V4`, `V5`) compares the price from
version 4 on, polls until its node sees the token, buys it, waits and
subscribes to cancellations. Every stage has its error reply. An error of sending
means that the node has refused the transaction or that its answer was lost; in the
second case the transaction is on its way (`SendMint`, `SendBuy`, `lostReply`). A transaction
that is on its way is mined or reverted whatever the caller does; a wait may end
with its context. The contract is external and kept to what the calls use: a
reservation for each token, the tokens bought, and which backend has seen which
token.

### CancellationProposal, CancellationCalls

The six operations of the cancellation services in three versions, at the bots
of the owner and of the supplier. A call is checked as its version does
(`Checked`), sends its transaction, waits, and replies with a code of its
version. An error of sending may leave a transaction behind that the node has taken
(`lost`). The contract's proposal is external; its transitions are those
`booking.GetCancellationProposal` reads back and the revert reasons the code
decodes. `CancellationCalls` is what a caller may rely on: a call is applied at
most once, at one instant, while it is open or after it has failed; a successful
one has been applied, a refused one never is. `CancellationProposal` implements it
(`CallsSpec`).

### MessageCodec

Encodings look the recipient's public key up in the cache, then in the store, and
add what they found, also that there is none; decodings verify a message, store
the sender's key and add it. An encoding without the recipient's public key sends in the
clear. A request makes a shared key of its own; a response uses the one that its request
brought along, and goes out in the clear if there was none, whatever is known of the
recipient by then (`respond`). A
session that has read keeps its lock until it is closed, and a commit waits for
it: it is this lock, held until the cache is filled, that keeps a stale "not
known" out. The cache is bounded and evicts; a restart empties it.

### MatrixRooms

Several bots with a cache of rooms each, on a server that may fail every call. A
send uses the cached room, or looks for an unencrypted room it shares with the
recipient, or creates one and invites. A bot joins what it is invited to, once.
At its start it leaves the encrypted rooms that older versions have made.

### ServiceAccess

Requests of one sender at one supplier: the stubs of both templates, the
supplier's registry of services, the check that the account supports the
service, and the permission of the sender's bot with its cache. The
accounts on the chain change at any time; a chain read may be used up to
`MaxCall` later.

### AppLifecycle

Construction in stages, the goroutines of the error group, the channels by which
they start after one another (`started`), the processor's loop, the event
handlers' goroutines with their error and stop channels, the sync goroutine and
the gRPC server. A signal, a failure, a panic or a message can come at any stage.

### MockCatalogue, PartnerPluginMock, MockEvents

The partner plugin mock, which partners use as the model of their own plugin.
`MockCatalogue` has the filters, searches, lists, prices and cancellation penalties of
its three industries and three versions as functions of request and data; a
product that is the data's own object and not a copy is marked `shared`, and
what a handler writes to it is written to the data; the filters and lists are there
because each of them is a place where a copy could be missing. `PartnerPluginMock` adds the
store, its cleanup and the handlers. The notification of an expiry is taken as the code
takes it, whenever the bot sends it (`reported`): the bot can be too early, as
`token_too_early` shows. `MockEvents` is its event stream: unbuffered
channels, a mutex and a read-write lock.

### JobScheduler

The table of jobs, calls of `Schedule`, start and stop, and for each job the
goroutine of its first execution and that of its ticker, one worker here since
they follow each other. A run takes time: a tick that falls into it is buffered, and
run for when the run is over. `runTicks` has the ticks a job was run for, `runTimes` when
the runs began. The table holds whole seconds.

### MC modules

`MCMessageReassembly`, `MCTokenBoughtListener`, `MCBotResolver`, `MCMintFlow` and
`MCCancellationListener` name the sets and functions the configurations give to
the constants. `RequestResponse` and `AppLifecycle` need none. `MCServices` checks seven
components in one run: they share no variable, so a behaviour chooses one of them
at the start and takes its steps only, and the run is the sum, not the product,
of the seven state spaces.

## 4. Runs

Bounds are constants of the modules and named there.

| Run | Instance | Shows |
|---|---|---|
| `reassembly` | a two-chunk message with strays at index 0 and past the end, one own message, two copies of each event, one restart, under fairness | `Integrity`, `BoundedRetention`, `EventuallyDelivered`, `EventuallyDrained`, and that atomic delivery is implemented |
| `request_response` | one call, three copies of each message, failure at every stage | `NoNilResponse`, `StuckOnlyAfterTimeout`, `AnswersAreServed`, `CallsReturn`, and that a call with one outcome is implemented |
| `token_listener` | two tokens whose offers end at different times, two timeout handlers at once, two failing calls, one kill | `SubscriptionsCovered`, `BoughtIsTrue`, `ProcessedIsResolved` |
| `token_liveness` | the same with expiries recorded on chain, no failing call and a shorter clock, under fairness | `EventuallyResolved`: every subscription ends, unless the handler of its sale, or of one with an earlier timeout, was refused its write since the start |
| `token_too_early` | as above | violation, section 7 |
| `bot_resolver` | one account with two bots, two clients that keep calling, two changes of registrations or bots, one failing call, under fairness | `SnapshotStable`, `ReachableNotForgotten`, `CallsReturn`, `Failover` |
| `cancellation_listener` | a sold and a bought token, three events on chain, a failing call or watch, one kill | `ReportsStoredRows`, `ReportsAreTrue`, `RemovedIsReported` |
| `cancellation_ends` | a sold and a bought token, four events on chain, one kill, no failing call, under fairness | `SubscriptionEnds`: a final cancellation ends its subscription, unless its handler was refused the removal since the start |
| `cancellation_catch_up` | two sold tokens | violation, section 7 |
| `mint_flow` | one call of each version, its request delivered twice, two backends, nine answers of the partner plugin, under fairness | `AnsweredIsBought`: who is told so owns the token, at the expected price from version 4 on; `PurchaseReported`: a purchase behind an error needs a lost answer or a wait cut off; `MintedIsWatched`; `FlowReturns` |
| `app_lifecycle` | a bot without and one with gRPC client and server, under fairness | `FailureSurfaces`: what fails while the bot runs is the program's error; `RunReturns`: once the context ends Run returns, or is in one of three named states (`Stranded`) |
| `services` | four cancellation calls of two parties; two encodings and two decodings with two peers and a cache of one; two bots, three rooms, one of them encrypted, two sends; two requests, three services, one change on chain; one search with up to three ids of the mock; three calls and two streams of its events; two jobs and two calls of `Schedule` | `AppliedIsReported`, `CallsSpec`; `EncryptedOnceKnown`; `PostedIsReadable`; `ServedIsAuthorized`, `UnservedWasChanged`; `ShownPriceHolds`, `UnexpiredIsKept`, `AnswersRepeat`, `PenaltiesCoverStay`; `StuckOnlyByLeaver`; `RunsAreSpaced` |

Why the bounds are enough for the questions asked:

- A hole in a message needs two chunks and an index past the end that makes up
  the number; a phantom delivery needs a second copy of an event. Messages share nothing but the single
  handler, so one peer's message and an own one show what there is.
- Calls share only the channel map, which they use under different keys; three
  copies are one that is handed over, one that finds the channel closed and
  one that finds none.
- Two tokens are the least with an earlier and a later timeout; two
  timeout handlers run at once only if the timer is armed again while one
  runs. Two failures let one goroutine fail and the recovery fail too.
- One request that reads and one that writes are the least in which a writer
  waits for a reader that wants to write. Requests of two accounts meet only
  at the locks; the safety properties are proved for any number of both.
- Three events are a purchase, a proposal and its end; a fourth, of another
  token, puts that end before the block a restarted bot begins to watch at.
  `cancellation_ends` leaves rejections and withdrawals out (`Answers`): their
  handlers remove no row.
- One other session that writes is enough to refuse a handler: the lock is one. It may
  come back any number of times.
- Two copies of a Mint request give two tokens of which one is answered first; two
  backends are one that was polled and one that was not. The answers hold an equal
  price written differently, another one, a free one and each way to be wrong.
- A proposal, a counter, its acceptance and a finalization are four calls. A cache
  of one entry evicts with two peers. Two rooms that can be created beside the
  encrypted one let two sends create one each. A period that is no whole number of
  seconds and one below a second show what the table loses.

What is proved (section 6) does not depend on these bounds.

Deadlock is not checked where the modelled system may stop: a call that has
returned with nothing left on the wire, a chain at its last event, a clock at its
last tick with nothing stored, a program that has returned.

## 5. Fairness

| Module | Assumed | Because |
|---|---|---|
| MessageReassembly | a posting loop goes on; an event not yet dispatched is dispatched in the end (strong, since a blocked handler disables it again and again); the processor takes messages; ticks and sweeps happen | the sync works through the timeline in order; nothing in the loops waits for anyone else |
| RequestResponse | the calls' and the forwarders' goroutines run | Go's scheduler; every request's context has a timeout. Nothing is assumed of the messenger or of the supplier |
| BotResolver | a request goes on (strong, since it competes for locks); for `Failover`, clients keep calling | SQLite's busy wait; failover is about a client that tries again |
| TokenBoughtListener | handlers, timer, watch and start go on, strongly where they compete for the mutex or the database; the bot is started again after it ends | Go's mutex does not starve; a bot that stays down promises nothing |
| MintFlow | a call that can return for want of a response does; polling, purchase and subscription go on; a wait for a transaction ends with its context | every call's context has a timeout; nothing is assumed of the supplier, of the nodes or of the mining of a transaction |
| AppLifecycle | every goroutine that can take a step takes it | Go's scheduler; stopped gRPC serving returns |
| CancellationListener | watches, delivery, handlers and the commits of sessions go on (weak), and so does the start (strong, since it competes for the write lock) | each handler is a goroutine of its own; SQLite's busy wait. Kills and failures are bounded |

No fairness is assumed of failures, panics, signals, received messages, kills, strays, purchases or proposals. The seven
components of `services` are checked for safety only.

## 6. Proofs

Every component with a state machine has its proofs, in eight `...Proofs` modules; small
components that share no names share a module. In each part a theorem states that an
inductive invariant holds; the others follow from it. The only
assumptions are the named ASSUMEs on the constants (counts are naturals, `Nil`
is no other value, a second is not empty, the sessions of jobs and of calls are told
apart), which TLC evaluates for every run. Those of the mock say what its loader and
the protobuf messages guarantee: a product of the data has the fields that the handlers
read (`DataAssumption`), a request has the fields of its message, dates included
(`RequestAssumption`), and the amounts the mock computes with are not negative
(`AmountsAssumption`). The theorems hold for any
number of messages, chunks, copies, requests, accounts, bots, rooms, tokens, jobs,
handlers, calls, failures and kills.

**MessageReassemblyProofs** — `TypeCorrect`, `IntegrityHolds`,
`NoPhantomDeliveryHolds`, `CompletesOnLastChunkHolds`, `NoCompleteResidentHolds`,
`BoundedRetentionHolds`, `NoEarlyEvictionHolds`, `Refinement`. None of the properties is
inductive alone. The invariant says what the wire can hold (`WireInv`), what an
entry of the map can hold at the indices of its message (`GoodEntry`, in `MapInv`;
strays past the end are allowed for until the count is known), that a chunk in
the map has an arrival that no hand-over has used (`Paid`), and that a chunk that
arrived is still there unless something accounts for it (`Held`).

**RequestResponseProofs** — `TypeCorrect`, `NoNilResponseHolds`,
`SingleHandOverHolds`, `ChannelsOfLiveCallsHolds`, `StuckOnlyAfterTimeoutHolds`,
`AnswersAreServedHolds`, `Refinement`. The channel is open exactly until
the goroutine that handed over closes it, and there is at most one such
goroutine (`Channel`); a call has a response exactly in the stages after its
select (`Progress`); a response is traced back through the wire to the served
request (`Causality`).

**TokenBoughtListenerProofs** — `TypeCorrect`, `SubscriptionsCoveredHolds`,
`NoDeadTimerHolds`, `BoughtIsTrueHolds`, `ProcessedIsResolvedHolds`, `RowStaysHolds`. That no
subscription is forgotten needs the mutex tied to its holder (`Locks`), when the
timer may be off (`TimerShape`), what the startup check leaves for the timer
(`StartShape`), and events tied to purchases (`Sales`). A row that a mint has written
and not committed is not stored yet; its flow still has the commit and the reset of the
timer before it.

**BotResolverProofs** — `TypeCorrect`, `SnapshotStableHolds`, `OneWriterHolds`,
`ReachableNotForgottenHolds`. The lock rules make the two invariants inductive together;
that a status is written only with an outcome (`Marks`) is needed for the third.
`NoCircleHolds` is the safety side of `CallsReturn`: a reader that asks the chain waits
for nothing, one that stores is the writer, and a writer waits for readers only, so one
of the requests under way always goes on.

**CancellationListenerProofs** — `TypeCorrect`, `ReportsStoredRowsHolds`,
`ReportsAreTrueHolds`, `RemovedIsReportedHolds`, `NothingBeforeStartHolds`. A row stays under a handler because of the
read lock, because no cancellation handler runs before the startup check is over
(`QuietStart`), and because that check looks at stored rows only (`ChecksRows`). A token
whose session has the write lock is one being bought, or one that the check has reported
as final before (`TokenWriters`), which its commit relies on. A handler
holds an event of its own kind (`HoldsEvent`), only two kinds write (`OnlyWriters`),
and the final one writes after its report was accepted (`FinalAccepted`);
`ReportedHappened` and `ReportedHadRow` carry what was reported. The block number the
handlers share goes back when one returns late, but not behind the start: a watch begins
at it, and a handler stores the block of an event that its watch has delivered.

**MintFlowProofs** — `MintTypeCorrect`, `AnsweredIsBoughtHolds`, `PurchaseReportedHolds`,
`MintedIsWatchedHolds`. The three properties compare the end of a flow with what two bots
and the chain did on the way. The invariant says, for each copy of the request, which
stage of its handler goes with which transaction, reservation, answer and watch
(`CopyAgrees`, `CopyWatched`); which stages of the call go with a purchase (`CallAgrees`); and that the
response the call has taken names a reservation at the price it buys at
(`TakenAgrees`). The bound on the polls (`AttemptsLeft`) and that time has begun are
needed for the types and for the window.

**MessengerProofs**, in four parts.

- *MessageCodec*: `CodecTypeCorrect`, `KeysAgreeHolds`,
  `EncryptedOnceKnownHolds`. `EncryptedOnceKnown` speaks of the end of an encoding only; the
  invariant (`KeysAgree`) follows the key from the store: who has been decoded is
  stored, a cache entry of such a bot holds its key, and an encoding that has read
  "not known" is right until it has filled the cache, since no commit passes its
  lock. What is left in the clear is a response without a shared key.
- *MatrixRooms*: `RoomsTypeCorrect`, `PostedIsReadableHolds`. Since a cached room is not
  looked at again, the property has to hold of caches and sends under way
  (`UsedIsReadable`); it gets there because a running bot is in no encrypted room
  (`RunningIsClean`), and stays because only encrypted rooms are left.
- *ServiceAccess*: `AccessTypeCorrect`, `ServedIsAuthorizedHolds`, `UnservedWasChangedHolds`. A
  positive cache entry, and an answer of the chain on its way to it, go back to a time
  at which the bot was allowed (`CacheBacked`, `QueryAgrees`), whichever answer overwrites
  which; the registry is what the account supports but for what has changed since
  (`RegistryAgrees`).
- *The partner plugin mock*: `EventsInvariance` and `StuckOnlyByLeaverHolds`: the
  mutex is with the call that sends, and a stream that an event is passed on to has
  not left the map (`MutexAgrees`, `ChansAgree`). The property lists the guards of the
  steps by name (`SomeoneGoesOn`) and needs no ENABLED. `UnexpiredIsKeptHolds`: every entry of the store belongs to a
  response of its kind, has the seat map of the search behind it and was created no
  longer before its response expires than the cleanup waits (`StoreAgrees`); the assumption that
  tokens can be bought for less time than entries are kept is that of the comment in
  `pp-mock/handlers/state`. `AnswersRepeatHolds`: no handler writes to the data
  (`DataKeptAlways`), for what it changes is a copy, and then a request finds what it found
  first. `ShownPriceHoldsAlways`: the entry a search leaves in the store has, result by
  result, the prices its response has shown, and they survive the conversion there and
  back (`ShownInv`); `MintedAsValidatedHolds` is its second half. `PenaltiesCoverStayHolds` follows
  from `PenaltiesCoverAnyStay`, which is about the operator `CancelPenaltiesV4` for every stay,
  time of the day and price. What `SelectSeq` and `FlattenSeq` return for a list of any length
  is proved by induction in the form of a set without a least element outside
  (`SetInduction`), from the library's `WFMin`, which takes no operator.

**ServicesProofs**, in three parts.

- *CancellationProposal*: `ProposalTypeCorrect`, `AppliedIsReportedHolds`,
  `CallsRefined`. `CallsAgree` says, call by call, which transactions go with which stage:
  a refused call has none, a waiting one has one, and a call that has returned
  leaves one on its way only if its wait was cut off or the node's answer was lost. The refinement maps the
  stage and the reply to the abstract state and the mined transactions to the
  applied calls.
- *AppLifecycle*: `AppTypeCorrect`, `FailureSurfacesHolds`. Once something has failed, the error is in
  the group or on its way to it (`OnItsWay`): with a handler that has panicked, the
  goroutine that forwards its error, the syncer or the server, each of which a
  goroutine of the group waits for (`ListenerAgrees`, `WaitersAgree`). `EndsOrStrandedHolds` is the
  safety side of `RunReturns`: once the context has ended, some goroutine can take a step
  that is not a message, a panic or a failure, until Run returns, but in the states of
  `Stranded`. It needs which stages a goroutine can be in and what it has started by
  then (`StagesAgree`).
- *JobScheduler*: `SchedulerTypeCorrect`, `RunsAreSpacedHolds`, `FourRunsTakeAPeriodHolds`. Every
  tick a worker may run for next is spaced from that of the last run (`WorkerAgrees`); after a
  restart it comes from the table, whose row is less than a second behind the last tick run for
  and less than a second short of the shortest period (`RowAgrees`). A run begins after its tick,
  and before the tick of the run after next, since the ticker buffers one (`RunsAgree`); with
  the spacing of the ticks it follows that four runs take a period. No more is lost by writing a row
  again, for whole seconds stay as they are, and no session writes over what another has
  written, since what it has read is what the table holds (`SessionsAgree`).
  `LastExecutionStaysHolds`: no step takes an execution back, for no tick, taken or waiting, is
  from before the execution in the table (`TimesAgree`).

Some invariants are proved and not part of a run, because a stronger one of the
same module is, or because they say that a variable has its type: `NoPhantomDelivery`, `CompletesOnLastChunk`, `NoCompleteResident`, `NoEarlyEviction`,
`SingleHandOver`, `ChannelsOfLiveCalls`, `NoDeadTimer`, `RowStays`, `OneWriter` and the type invariants. Five
are stated with their proofs, as what those models promise beyond the runs: `EndsOrStranded`,
`LastExecutionStays`, `FourRunsTakeAPeriod`, `NoCircle` and `NothingBeforeStart`.

Every safety property of a passing run is stated by a theorem. Only model-checked are

- the liveness properties (`EventuallyDelivered`, `EventuallyDrained`, `CallsReturn`,
  `EventuallyResolved`, `Failover`, `SubscriptionEnds`, `FlowReturns`, `RunReturns`),
  since TLAPS does not handle fairness here. `NoCircleHolds` and `EndsOrStrandedHolds` are as
  far as a proof goes: somebody can always take a step;
- the two violations.

The proofs do not say what the mock's totals add up to (`TotalValue` is a fold).

## 7. Where the code and its comments disagree

Each is a run in which TLC finds a behaviour of the code that a comment rules
out. The comment is quoted in `PROJECT.json`.

- `token_too_early`: a timeout handler reads the timer's subscription several
  times. If an event handler resets the timer in between, the handler reports
  the *next* token as expired, before its timeout.
- `cancellation_catch_up`: the TokenBought handler may advance the shared block
  number while the startup check of cancellations runs; the watches started
  after it begin behind a proposal the check has not seen.

One more is within a model but not a run of its own: the comment in the messenger's Stop
(`messenger.go:129-133`) says that a set `cancelSync` means that the syncer is running, so that
somebody will close the channel Stop waits on. `StartReceiver` sets `cancelSync` first and
the channel after it; a Stop in between waits on a nil channel for ever. It is the second
state of `Stranded`, which `RunReturns` excepts.

Known and within the models, but not contradicted by any other statement of the
repository:

- a request delivered twice is served twice, and a Mint request mints two tokens, of
  which one is bought;
- a token may be bought, or a cancellation take effect, behind an error reply if
  the caller's context ends during the wait for the transaction, or if the node's answer
  to sending it is lost (`PurchaseReported` and `AppliedIsReported` say that these are the only
  cases);
- the response to a request that came without a shared key goes out in the clear,
  although the sender's public key has just been stored (`EncryptedOnceKnown` excepts it);
- a Mint of version 3 buys at whatever price the response has; a free token in
  the native currency cannot be bought, since its reservation reads like a
  missing one;
- a token may exist that nobody watches: the node's answer to the mint was lost, the wait
  was cut off, the receipt could not be read, or the subscription failed
  (`MintedIsWatched`);
- Run can be left waiting at shutdown in three states (`Stranded`): the syncer
  offers a message to a processor that has stopped; the messenger's Stop ran
  between two assignments of its start (above); the listener's Stop ran before the
  cancellation subscriptions were stored;
- TokenBought events are subscribed before the timer is made, so an early event
  finds a nil timer and the process ends; the next start finds the sale;
- a purchase whose handling failed is not delivered again while its watch
  lasts; the timeout handler takes it for handled, and the row stays until the
  next start. No call has to fail for it: SQLite refuses the handler's write if another
  session has written and not committed. The timer is armed for that row again and again,
  so rows with a later timeout wait too (`Blocked` in `EventuallyResolved`);
- the row of a final cancellation stays until the next start if any other session of the
  listener has written and not committed when its handler writes (`refused` in
  `SubscriptionEnds`);
- a mint that the bot reports as expired too early is removed from the mock's store while it
  can be bought (`UnexpiredIsKept` excepts it);
- a job whose run was late runs again at once for the tick that was buffered, and
  again when the next tick comes (`RunsAreSpaced` and `FourRunsTakeAPeriod` bound this);
- a bot stored for two accounts cannot change its status, and `Failover` is
  checked for one account;
- a token bought while the supplier's bot was down gets no cancellation
  subscription;
- a bot configured without a partner plugin panics at its first notification
  (`FailureSurfaces` says that the program then ends with an error);
- a goroutine stays blocked for ever if its call timed out between its lookup and
  its send (`StuckOnlyAfterTimeout` says that this is the only case);
- an invite whose join failed is not tried again (`PostedIsReadable` excepts it);
- the mock's calls wait for ever once an event is passed on to a stream that is
  leaving (`StuckOnlyByLeaver`); its Stop drains a channel that is closed only
  afterwards;
- a result number of one version of the mock may name the neighbouring result in
  another version, and a currency that names nothing gets lost on the way back
  (`ShownPriceHolds` excepts both);
- a job with a period below a second runs once; a panic ends its repetition until the
  next start.

## 8. What is not modelled, and why

- Cryptography, compression and the byte layout of a message: pure functions of
  byte strings. `MessageCodec` takes each as a choice between success and an
  error. The end of the public metadata is computed in 16 bits in the code and
  wraps near the limit; no model covers that.
- The Matrix library, SQLite, the chain and its contracts: external, modelled by how the
  code uses them.
- TLS and the RPC server's interceptors, the listening socket, logging and
  tracing: I/O.
- Configuration, commands, version, time stamps of the metadata, the readiness service: sequential
  code without state that lasts.
- Generated protobuf code and the generated stubs one by one: the two templates
  are in `ServiceAccess`.
- Mock objects for unit tests, and the end-to-end tests.
- Of the partner plugin mock: server set-up, the data files, and handlers that answer with a constant.
