-------------------------- MODULE MessageReassembly --------------------------
(***************************************************************************)
(* The Matrix messenger (internal/matrix/messenger).  A bot posts an       *)
(* encoded message to a room as one signed event, carrying chunk 0, and    *)
(* one chunk event for each further chunk.  The receiving bot keeps the    *)
(* chunks of incomplete messages in a map, hands a message to the message  *)
(* processor over an unbuffered channel once every index is there, and a   *)
(* sweeper drops messages that stay incomplete for too long.               *)
(*                                                                         *)
(* The Matrix server is external: events may be lost, redelivered and      *)
(* reordered, and a peer may post events that this code never produces.    *)
(***************************************************************************)
EXTENDS Integers, Sequences, FiniteSets

CONSTANTS
  MsgIDs,          \* message ids (UUIDs, one for each SendMessage call)
  OwnIDs,          \* the ones the receiving bot has itself sent
  ChunksOf,        \* number of chunks of each message
  MaxIndex,        \* largest chunk index that occurs on the wire
  TTL,             \* partialMessageTTL, in clock ticks
  SweepInterval,   \* partialMessageSweepInterval, in clock ticks
  MaxCopies,       \* how often the server delivers one event (bound)
  MaxRestarts,     \* how often the receiving process restarts (bound)
  Junk,            \* payload of an event no correct sender produces
  Nil              \* no signature yet; no completed message

ASSUME ReassemblyAssumption ==
  /\ OwnIDs \subseteq MsgIDs
  /\ MaxIndex \in Nat
  /\ ChunksOf \in [MsgIDs -> 1..(MaxIndex + 1)]
  /\ TTL \in Nat
  /\ SweepInterval \in Nat \ {0}
  /\ MaxCopies \in Nat \ {0}
  /\ MaxRestarts \in Nat

Index == 0..MaxIndex

\* The indices of message id: 0 .. len(ChunkedEncodedMessage)-1.
IndexOf(id) == {i \in Index : i < ChunksOf[id]}

\* Payloads: chunk i of message id, or bytes no sender produced.
ChunkData(id, i) == <<id, i>>
Data == (MsgIDs \X Index) \cup {Junk}

-----------------------------------------------------------------------------
(* Events on the wire.                                                     *)

Event == [type : {"signed", "chunk"}, id : MsgIDs, index : Index,
          chunksCount : 0..(MaxIndex + 1), data : Data]

SignedMessageEvent(id, n, data) ==
  [type |-> "signed", id |-> id, index |-> 0, chunksCount |-> n, data |-> data]

MessageChunkEvent(id, i, data) ==
  [type |-> "chunk", id |-> id, index |-> i, chunksCount |-> 0, data |-> data]

\* The event SendMessage posts for chunk i.
PostedEvent(id, i) ==
  IF i = 0 THEN SignedMessageEvent(id, ChunksOf[id], ChunkData(id, 0))
           ELSE MessageChunkEvent(id, i, ChunkData(id, i))

\* Events outside the protocol: an index past the end of the message, a chunk
\* event that claims index 0, a signed event that announces no chunks.
StrayEvents ==
  {e \in Event :
     /\ e.id \notin OwnIDs /\ e.data = Junk /\ e.chunksCount = 0
     /\ e.index = 0 \/ (e.type = "chunk" /\ e.index \notin IndexOf(e.id))}

\* Verify() of the two event contents.
Verify(e) ==
  IF e.type = "signed" THEN e.chunksCount # 0 ELSE e.index # 0

-----------------------------------------------------------------------------
(* Receiver state.                                                         *)

\* chunkedMessage.  The sender's account is set with the signature and is not
\* kept apart from it; firstSeen is kept as the age of the entry; chunks[i]
\* is Nil while index i is missing.
ChunkedMessage ==
  [chunksCount : 0..(MaxIndex + 1),
   signature   : MsgIDs \cup {Nil},
   chunks      : [Index -> Data \cup {Nil}],
   age         : Nat]

\* What a handler sends on msgChannel.
EncodedMessage == [chunks : Seq(Data), signature : MsgIDs \cup {Nil}]

ASSUME NilAssumption ==
  /\ Nil \notin Data /\ Nil \notin MsgIDs /\ Nil \notin EncodedMessage
  /\ Junk \notin MsgIDs \X Index

VARIABLES
  wire,             \* events the server has accepted
  posted,           \* posted[id]: events SendMessage has got through
  aborted,          \* ids whose SendMessage returned an error
  chunkedMessages,  \* the receiver's map of incomplete messages
  pending,          \* the message a handler is blocked on sending, or Nil
  sinceSweep,       \* ticks since the last sweep
  restarts,         \* restarts of the receiving process
  seen,             \* history: deliveries of each event of a message
  delivered,        \* history: hand-overs of each message
  evicted           \* history: ids dropped with some event still to come

senderVars == <<posted, aborted>>
historyVars == <<seen, delivered, evicted>>
vars == <<wire, posted, aborted, chunkedMessages, pending, sinceSweep,
          restarts, seen, delivered, evicted>>

\* Every variable holds a value of the shape the code declares for it.
TypeOK ==
  /\ wire \in SUBSET Event
  /\ posted \in [MsgIDs -> 0..(MaxIndex + 1)]
  /\ aborted \in SUBSET MsgIDs
  /\ DOMAIN chunkedMessages \in SUBSET MsgIDs
  /\ chunkedMessages \in [DOMAIN chunkedMessages -> ChunkedMessage]
  /\ pending \in EncodedMessage \cup {Nil}
  /\ sinceSweep \in 0..SweepInterval
  /\ restarts \in 0..MaxRestarts
  /\ seen \in [MsgIDs \X Index -> 0..MaxCopies]
  /\ delivered \in [MsgIDs -> Nat]
  /\ evicted \in SUBSET MsgIDs

EmptyMap == [x \in {} |-> Nil]

Init ==
  /\ wire = {}
  /\ posted = [id \in MsgIDs |-> 0]
  /\ aborted = {}
  /\ chunkedMessages = EmptyMap
  /\ pending = Nil
  /\ sinceSweep = 0
  /\ restarts = 0
  /\ seen = [c \in MsgIDs \X Index |-> 0]
  /\ delivered = [id \in MsgIDs |-> 0]
  /\ evicted = {}

-----------------------------------------------------------------------------
(* Sending.                                                                *)

\* SendMessage is still running and has events left to post.
Sending(id) == id \notin aborted /\ posted[id] < ChunksOf[id]

\* SendMessage gets its next event accepted: the signed event first, then the
\* chunk events in index order.
PostEvent(id) ==
  /\ Sending(id)
  /\ wire' = wire \cup {PostedEvent(id, posted[id])}
  /\ posted' = [posted EXCEPT ![id] = @ + 1]
  /\ UNCHANGED <<aborted, chunkedMessages, pending, sinceSweep, restarts,
                 seen, delivered, evicted>>

\* Posting fails: SendMessage returns the error at once and posts nothing
\* more.  The server may have accepted the event nevertheless.
PostFails(id) ==
  /\ Sending(id)
  /\ aborted' = aborted \cup {id}
  /\ wire' \in {wire, wire \cup {PostedEvent(id, posted[id])}}
  /\ UNCHANGED <<posted, chunkedMessages, pending, sinceSweep, restarts,
                 seen, delivered, evicted>>

\* A peer posts an event that SendMessage would not have produced.
PostStray(e) ==
  /\ e \in StrayEvents \ wire
  /\ wire' = wire \cup {e}
  /\ UNCHANGED <<posted, aborted, chunkedMessages, pending, sinceSweep,
                 restarts, seen, delivered, evicted>>

-----------------------------------------------------------------------------
(* Receiving: the syncer goroutine runs one handler at a time.             *)

\* Go map operations.
Store(map, k, v) == [x \in DOMAIN map \cup {k} |-> IF x = k THEN v ELSE map[x]]
Delete(map, k) == [x \in DOMAIN map \ {k} |-> map[x]]

NewChunkedMessage ==
  [chunksCount |-> 0, signature |-> Nil, chunks |-> [i \in Index |-> Nil],
   age |-> 0]

EntryOf(id) ==
  IF id \in DOMAIN chunkedMessages THEN chunkedMessages[id]
                                   ELSE NewChunkedMessage

\* Mutant: completion by the number of chunks held instead of by their indices.
CompleteByCount(m) ==
  /\ m.chunksCount # 0
  /\ Cardinality({i \in Index : m.chunks[i] # Nil}) >= m.chunksCount

\* Mutant: the walk over the indices stops one short.
CompleteButLast(m) ==
  /\ m.chunksCount # 0
  /\ \A i \in Index : i < m.chunksCount - 1 => m.chunks[i] # Nil

messageIndexSetComplete(m) ==
  /\ m.chunksCount # 0
  /\ \A i \in Index : i < m.chunksCount => m.chunks[i] # Nil

assembleEncodedMessage(m) ==
  [chunks |-> [n \in 1..m.chunksCount |-> m.chunks[n - 1]],
   signature |-> m.signature]

\* addMessageChunk: m is the entry of id, in the map by now.
addMessageChunk(m, id, i, data) ==
  LET stored == [m EXCEPT !.chunks[i] = data] IN
  IF m.chunksCount # 0 /\ i >= m.chunksCount
  THEN /\ chunkedMessages' = Store(chunkedMessages, id, m)
       /\ pending' = Nil
  ELSE IF messageIndexSetComplete(stored)
  THEN /\ chunkedMessages' = Delete(chunkedMessages, id)
       /\ pending' = assembleEncodedMessage(stored)
  ELSE /\ chunkedMessages' = Store(chunkedMessages, id, stored)
       /\ pending' = Nil

\* Mutant: the first chunk is stored without asking whether it was the last
\* one missing.
FirstChunkNeverCompletes(e) ==
  /\ chunkedMessages' =
       Store(chunkedMessages, e.id,
             [EntryOf(e.id) EXCEPT !.signature = e.id,
                                   !.chunksCount = e.chunksCount,
                                   !.chunks[0] = e.data])
  /\ pending' = Nil

addMessageFirstChunk(e) ==
  addMessageChunk([EntryOf(e.id) EXCEPT !.signature = e.id,
                                        !.chunksCount = e.chunksCount],
                  e.id, 0, e.data)

addMessageNextChunk(e) ==
  addMessageChunk(EntryOf(e.id), e.id, e.index, e.data)

\* A one-chunk message never enters the map.
tryCompleteMessageWithFirstChunk(e) ==
  IF e.chunksCount = 1
  THEN /\ pending' = [chunks |-> <<e.data>>, signature |-> e.id]
       /\ UNCHANGED chunkedMessages
  ELSE addMessageFirstChunk(e)

\* The handlers ignore the bot's own events and the ones Verify rejects.
Ignored(e) == e.id \in OwnIDs \/ ~Verify(e)

signedMessageEventHandler(e) ==
  /\ e.type = "signed"
  /\ IF Ignored(e) THEN UNCHANGED <<chunkedMessages, pending>>
                   ELSE tryCompleteMessageWithFirstChunk(e)

messageChunkEventHandler(e) ==
  /\ e.type = "chunk"
  /\ IF Ignored(e) THEN UNCHANGED <<chunkedMessages, pending>>
                   ELSE addMessageNextChunk(e)

\* The syncer dispatches an event; it dispatches no other before the handler
\* has returned, so not while a handler waits on msgChannel.
Receive(e) ==
  /\ pending = Nil
  /\ e \in wire
  /\ e.data # Junk => seen[<<e.id, e.index>>] < MaxCopies
  /\ signedMessageEventHandler(e) \/ messageChunkEventHandler(e)
  /\ seen' = IF e.data = Junk THEN seen
                              ELSE [seen EXCEPT ![<<e.id, e.index>>] = @ + 1]
  /\ UNCHANGED <<wire, posted, aborted, sinceSweep, restarts, delivered,
                 evicted>>

\* The processor loop takes the message from msgChannel; the handler returns.
HandOver ==
  /\ pending # Nil
  /\ delivered' = [delivered EXCEPT ![pending.signature] = @ + 1]
  /\ pending' = Nil
  /\ UNCHANGED <<wire, posted, aborted, chunkedMessages, sinceSweep, restarts,
                 seen, evicted>>

-----------------------------------------------------------------------------
(* The sweeper goroutine and the clock.                                    *)

\* An age past TTL + SweepInterval is not told from a greater one.
Older(age) == IF age > TTL + SweepInterval THEN age ELSE age + 1

\* The ticker fires every SweepInterval: time does not run past a due sweep.
Tick ==
  /\ sinceSweep < SweepInterval
  /\ sinceSweep' = sinceSweep + 1
  /\ chunkedMessages' = [id \in DOMAIN chunkedMessages |->
                           [chunkedMessages[id] EXCEPT !.age = Older(@)]]
  /\ UNCHANGED <<wire, posted, aborted, pending, restarts, seen, delivered,
                 evicted>>

\* Mutants: an entry is dropped a sweep too late; only once its signed event has
\* arrived.
StaleLate(id) == chunkedMessages[id].age > TTL + SweepInterval
StaleIfSigned(id) ==
  chunkedMessages[id].age > TTL /\ chunkedMessages[id].chunksCount # 0

Stale(id) == chunkedMessages[id].age > TTL

evictStalePartialMessages ==
  LET stale == {id \in DOMAIN chunkedMessages : Stale(id)} IN
  /\ sinceSweep = SweepInterval
  /\ sinceSweep' = 0
  /\ chunkedMessages' = [id \in DOMAIN chunkedMessages \ stale |->
                           chunkedMessages[id]]
  /\ evicted' = evicted \cup
       {id \in stale : \E i \in IndexOf(id) : seen[<<id, i>>] = 0}
  /\ UNCHANGED <<wire, posted, aborted, pending, restarts, seen, delivered>>

\* The process restarts: the map lives in memory only, and the new sync
\* replays the events of the last hour.
Restart ==
  /\ restarts < MaxRestarts
  /\ restarts' = restarts + 1
  /\ chunkedMessages' = EmptyMap
  /\ pending' = Nil
  /\ sinceSweep' = 0
  /\ UNCHANGED <<wire, posted, aborted, seen, delivered, evicted>>

Next ==
  \/ \E id \in MsgIDs : PostEvent(id) \/ PostFails(id)
  \/ \E e \in StrayEvents : PostStray(e)
  \/ \E e \in wire : Receive(e)
  \/ HandOver
  \/ Tick
  \/ evictStalePartialMessages
  \/ Restart

Spec == Init /\ [][Next]_vars

(***************************************************************************)
(* Fairness.  The Matrix sync works through a room's timeline in order, so *)
(* an event it has not dispatched yet is not overtaken for ever; SendMessage *)
(* loops without waiting; the processor loop takes messages as long as it  *)
(* runs; the ticker keeps firing.  Nothing obliges the server to deliver   *)
(* an event twice, a peer to post strays, or a post to fail.               *)
(***************************************************************************)
FirstReceive(id, i) ==
  seen[<<id, i>>] = 0 /\ Receive(PostedEvent(id, i))

Fairness ==
  /\ \A id \in MsgIDs : WF_vars(PostEvent(id) \/ PostFails(id))
  /\ \A id \in MsgIDs \ OwnIDs : \A i \in IndexOf(id) :
       SF_vars(FirstReceive(id, i))
  /\ WF_vars(HandOver)
  /\ WF_vars(Tick)
  /\ WF_vars(evictStalePartialMessages)

FairSpec == Spec /\ Fairness

-----------------------------------------------------------------------------
(* Properties.                                                             *)

\* The chunks of message id in index order.
WholeMessage(id) == [n \in 1..ChunksOf[id] |-> ChunkData(id, n - 1)]

\* A message a handler sends on msgChannel consists of exactly the chunks that
\* were sent under its signature, in order, whatever was reordered, repeated
\* or posted outside the protocol (assembleEncodedMessage never joins a set of
\* chunks with a hole or an index too many).
Integrity ==
  pending # Nil =>
    /\ pending.signature \in MsgIDs \ OwnIDs
    /\ pending.chunks = WholeMessage(pending.signature)

\* addMessageChunk decides completion on every arrival, so no entry of the map
\* is ever left complete: it would sit there until the sweeper drops it.
NoCompleteResident ==
  \A id \in DOMAIN chunkedMessages :
    ~messageIndexSetComplete(chunkedMessages[id])

InFlight(id) ==
  IF pending # Nil /\ pending.signature = id THEN 1 ELSE 0

\* A chunk that arrived k times serves at most k hand-overs of its message:
\* completing deletes the entry, so a redelivered chunk alone cannot make the
\* processor see a message again.
NoPhantomDelivery ==
  \A id \in MsgIDs : \A i \in IndexOf(id) :
    delivered[id] + InFlight(id) <= seen[<<id, i>>]

\* The last missing chunk completes its message at once, in whatever order the
\* chunks came and whatever strays came with them, unless the sweeper dropped
\* the message before or the process restarted.
CompletesOnLastChunk ==
  \A id \in MsgIDs \ OwnIDs :
    /\ \A i \in IndexOf(id) : seen[<<id, i>>] > 0
    /\ id \notin evicted /\ restarts = 0
    => delivered[id] + InFlight(id) > 0

\* The sweeper bounds the map: no entry outlives the TTL by more than one
\* sweep interval, however often its chunks are redelivered.
BoundedRetention ==
  \A id \in DOMAIN chunkedMessages :
    chunkedMessages[id].age <= TTL + SweepInterval

\* An incomplete message leaves the map only because it was completed, because
\* it is older than the TTL, or with the process: a delivery still in flight
\* is not dropped early.
NoEarlyEviction ==
  [][\A id \in DOMAIN chunkedMessages \ DOMAIN chunkedMessages' :
       \/ pending = Nil /\ pending' # Nil /\ pending'.signature = id
       \/ chunkedMessages[id].age > TTL
       \/ restarts' # restarts]_vars

\* All events of message id have been accepted by the server.
OnWire(id) == \A i \in IndexOf(id) : PostedEvent(id, i) \in wire

\* A message that is completely on the wire reaches the processor unless a
\* slow delivery lets the sweeper drop it before its last event arrives, or the
\* process restarts.
EventuallyDelivered ==
  \A id \in MsgIDs \ OwnIDs :
    OnWire(id) ~> (delivered[id] > 0 \/ id \in evicted \/ restarts > 0)

\* The map drains: every entry is eventually completed or evicted.
EventuallyDrained ==
  \A id \in MsgIDs :
    (id \in DOMAIN chunkedMessages) ~> (id \notin DOMAIN chunkedMessages)

\* The messenger implements atomic delivery of whole messages.
Delivery == INSTANCE MessageDelivery WITH
  Messages <- MsgIDs \ OwnIDs,
  published <- {id \in MsgIDs \ OwnIDs : OnWire(id)},
  delivered <- [id \in MsgIDs \ OwnIDs |-> delivered[id]]

DeliverySpec == Delivery!Spec

=============================================================================
