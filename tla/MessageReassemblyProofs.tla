----------------------- MODULE MessageReassemblyProofs -----------------------
(***************************************************************************)
(* Proofs about MessageReassembly for every set of messages, every number  *)
(* of chunks and every bound.  The invariant says what an entry of the map *)
(* may hold (GoodEntry), that every chunk held or handed over was paid for *)
(* by an arrival of its own (Paid), and that only events on the wire were  *)
(* dispatched.                                                             *)
(***************************************************************************)
EXTENDS MessageReassembly, TLAPS

\* The wire holds posted events and strays only.
Genuine(e) == \E id \in MsgIDs : \E i \in IndexOf(id) : e = PostedEvent(id, i)
WireInv == \A e \in wire : e \in StrayEvents \/ Genuine(e)

\* What an entry of message id may look like.
GoodEntry(m, id) ==
  /\ m.chunksCount \in {0, ChunksOf[id]}
  /\ m.chunksCount # 0 => m.signature = id
  /\ m.chunks[0] # Nil => m.chunksCount # 0
  /\ \A i \in IndexOf(id) : m.chunks[i] \in {Nil, ChunkData(id, i)}

MapInv ==
  \A id \in DOMAIN chunkedMessages :
    /\ id \notin OwnIDs
    /\ GoodEntry(chunkedMessages[id], id)
    /\ ~messageIndexSetComplete(chunkedMessages[id])
    /\ chunkedMessages[id].age <= TTL + sinceSweep

\* A chunk held in the map has an arrival to itself.
Paid ==
  \A id \in DOMAIN chunkedMessages : \A i \in IndexOf(id) :
    chunkedMessages[id].chunks[i] # Nil =>
      delivered[id] + InFlight(id) + 1 <= seen[<<id, i>>]

SeenOnWire ==
  \A id \in MsgIDs : \A i \in IndexOf(id) :
    seen[<<id, i>>] > 0 => PostedEvent(id, i) \in wire

\* A chunk that has arrived is still held, unless its message was handed
\* over, dropped too early or lost with the process.
Untouched(id) ==
  restarts = 0 /\ id \notin evicted /\ delivered[id] + InFlight(id) = 0
Held ==
  \A id \in MsgIDs \ OwnIDs : \A i \in IndexOf(id) :
    Untouched(id) /\ seen[<<id, i>>] > 0 =>
      id \in DOMAIN chunkedMessages /\ chunkedMessages[id].chunks[i] # Nil

IInv ==
  /\ TypeOK
  /\ WireInv
  /\ MapInv
  /\ Integrity
  /\ Paid
  /\ NoPhantomDelivery
  /\ SeenOnWire
  /\ Held

-----------------------------------------------------------------------------
(* Facts about events.                                                     *)

\* The positions of a message's chunks.
LEMMA IndexFacts ==
  ASSUME NEW id \in MsgIDs
  PROVE  /\ ChunksOf[id] \in 1..(MaxIndex + 1)
         /\ 0 \in IndexOf(id)
         /\ IndexOf(id) \subseteq Index
         /\ \A i \in Index : i \in IndexOf(id) <=> i < ChunksOf[id]
         /\ \A i \in 0..(ChunksOf[id] - 1) : i \in IndexOf(id)
  BY ReassemblyAssumption DEF IndexOf, Index

\* What SendMessage posts is an event, one for each chunk.
LEMMA PostedIsEvent ==
  ASSUME NEW id \in MsgIDs, NEW i \in IndexOf(id)
  PROVE  /\ PostedEvent(id, i) \in Event
         /\ PostedEvent(id, i).id = id
         /\ PostedEvent(id, i).index = i
         /\ PostedEvent(id, i).data = ChunkData(id, i)
         /\ PostedEvent(id, i).data # Junk
         /\ PostedEvent(id, i).type = "signed" => i = 0
         /\ PostedEvent(id, i).type = "signed"
              => PostedEvent(id, i).chunksCount = ChunksOf[id]
         /\ PostedEvent(id, i).type = "chunk" => i # 0
  <1>1. i \in Index /\ ChunksOf[id] \in 0..(MaxIndex + 1) /\ 0 \in Index
    BY IndexFacts, ReassemblyAssumption DEF Index
  <1>2. ChunkData(id, i) \in Data /\ ChunkData(id, i) # Junk
    BY <1>1, NilAssumption DEF ChunkData, Data
  <1>3. CASE i = 0
    BY <1>1, <1>2, <1>3 DEF PostedEvent, SignedMessageEvent, Event
  <1>4. CASE i # 0
    <2>1. 0 \in 0..(MaxIndex + 1)
      BY ReassemblyAssumption
    <2> QED BY <1>1, <1>2, <1>4, <2>1 DEF PostedEvent, MessageChunkEvent, Event
  <1> QED BY <1>3, <1>4

\* An event nobody sent as a chunk is an event too.
LEMMA StrayIsEvent ==
  ASSUME NEW e \in StrayEvents
  PROVE  /\ e \in Event
         /\ e.data = Junk
         /\ e.type = "signed" => e.chunksCount = 0
         /\ e.type = "chunk" => e.index = 0 \/ e.index \notin IndexOf(e.id)
  BY DEF StrayEvents, Event

\* What is on the wire is an event.
LEMMA WireFacts ==
  ASSUME TypeOK, WireInv, NEW e \in wire
  PROVE  /\ e \in Event
         /\ e.data # Junk => /\ e.index \in IndexOf(e.id)
                             /\ e = PostedEvent(e.id, e.index)
                             /\ e.data = ChunkData(e.id, e.index)
                             /\ e.type = "signed" =>
                                  e.index = 0 /\ e.chunksCount = ChunksOf[e.id]
         /\ Verify(e) /\ e.type = "signed" => e.data # Junk
         /\ Verify(e) /\ e.type = "chunk" /\ e.data = Junk
              => e.index \notin IndexOf(e.id)
  <1>1. CASE e \in StrayEvents
    BY <1>1, StrayIsEvent DEF Verify
  <1>2. CASE Genuine(e)
    BY <1>2, PostedIsEvent DEF Genuine
  <1> QED BY <1>1, <1>2 DEF WireInv

-----------------------------------------------------------------------------
(* Facts about entries.                                                    *)

\* The entry made for the first chunk of a message is sound.
LEMMA NewEntryGood ==
  ASSUME NEW id \in MsgIDs
  PROVE  /\ NewChunkedMessage \in ChunkedMessage
         /\ GoodEntry(NewChunkedMessage, id)
         /\ ~messageIndexSetComplete(NewChunkedMessage)
         /\ NewChunkedMessage.age = 0
         /\ \A i \in Index : NewChunkedMessage.chunks[i] = Nil
  <1>1. 0 \in 0..(MaxIndex + 1)
    BY ReassemblyAssumption
  <1> QED BY <1>1, IndexFacts DEF NewChunkedMessage, ChunkedMessage, GoodEntry,
                          messageIndexSetComplete

\* The entry addMessageChunk starts from, found or new, is sound.
LEMMA EntryOfGood ==
  ASSUME TypeOK, MapInv, NEW id \in MsgIDs
  PROVE  /\ EntryOf(id) \in ChunkedMessage
         /\ GoodEntry(EntryOf(id), id)
         /\ ~messageIndexSetComplete(EntryOf(id))
         /\ EntryOf(id).age <= TTL + sinceSweep
         /\ \A i \in Index : EntryOf(id).chunks[i] # Nil <=>
              id \in DOMAIN chunkedMessages /\ chunkedMessages[id].chunks[i] # Nil
  <1>1. CASE id \in DOMAIN chunkedMessages
    BY <1>1 DEF EntryOf, MapInv, TypeOK
  <1>2. CASE id \notin DOMAIN chunkedMessages
    <2>1. 0 <= TTL + sinceSweep
      BY ReassemblyAssumption DEF TypeOK
    <2> QED BY <1>2, <2>1, NewEntryGood DEF EntryOf
  <1> QED BY <1>1, <1>2

\* A complete entry is assembled into the message that was sent.
LEMMA AssembleWhole ==
  ASSUME NEW id \in MsgIDs, NEW m \in ChunkedMessage, GoodEntry(m, id),
         messageIndexSetComplete(m)
  PROVE  assembleEncodedMessage(m) =
           [chunks |-> WholeMessage(id), signature |-> id]
  <1>1. m.chunksCount = ChunksOf[id] /\ m.signature = id
    BY DEF GoodEntry, messageIndexSetComplete
  <1>2. ASSUME NEW n \in 1..ChunksOf[id]
        PROVE  m.chunks[n - 1] = ChunkData(id, n - 1)
    <2>1. n - 1 \in Index /\ n - 1 < ChunksOf[id] /\ n - 1 \in IndexOf(id)
      BY IndexFacts, ReassemblyAssumption DEF Index
    <2> QED BY <1>1, <2>1 DEF GoodEntry, messageIndexSetComplete
  <1> QED BY <1>1, <1>2 DEF assembleEncodedMessage, WholeMessage

\* A whole message is a message msgChannel can carry.
LEMMA WholeType ==
  ASSUME NEW id \in MsgIDs
  PROVE  [chunks |-> WholeMessage(id), signature |-> id] \in EncodedMessage
  <1>1. ASSUME NEW n \in 1..ChunksOf[id]
        PROVE  ChunkData(id, n - 1) \in Data
    <2>1. n - 1 \in Index
      BY IndexFacts, ReassemblyAssumption DEF Index
    <2> QED BY <2>1 DEF ChunkData, Data
  <1>2. ChunksOf[id] \in Nat
    BY IndexFacts
  <1>3. WholeMessage(id) \in Seq(Data)
    BY <1>1, <1>2 DEF WholeMessage
  <1> QED BY <1>3 DEF EncodedMessage

-----------------------------------------------------------------------------
(* One arrival.                                                            *)

\* The entry of id is completed: it leaves the map as the message sent.
Completes(id) ==
  /\ chunkedMessages' = Delete(chunkedMessages, id)
  /\ pending' = [chunks |-> WholeMessage(id), signature |-> id]

\* The entry of id is kept as m.
Keeps(id, m) ==
  /\ chunkedMessages' = Store(chunkedMessages, id, m)
  /\ pending' = Nil
  /\ m \in ChunkedMessage
  /\ GoodEntry(m, id)
  /\ ~messageIndexSetComplete(m)

\* addMessageChunk completes the message, with every index stored before or
\* just now, or keeps an incomplete entry that gained at most index i.
LEMMA AddChunk ==
  ASSUME NEW id \in MsgIDs, NEW m \in ChunkedMessage, GoodEntry(m, id),
         NEW i \in Index, NEW data \in Data,
         data = ChunkData(id, i) \/ i \notin IndexOf(id),
         i = 0 => m.chunksCount # 0,
         (m.chunksCount # 0 /\ i >= m.chunksCount)
           => ~messageIndexSetComplete(m),
         addMessageChunk(m, id, i, data)
  PROVE  \/ /\ Completes(id)
            /\ \A j \in IndexOf(id) : m.chunks[j] # Nil \/ j = i
         \/ \E k : /\ Keeps(id, k)
                  /\ k.age = m.age
                  /\ \A j \in IndexOf(id) :
                       k.chunks[j] # Nil <=> m.chunks[j] # Nil \/ j = i
  <1> DEFINE stored == [m EXCEPT !.chunks[i] = data]
  <1>1. /\ stored \in ChunkedMessage
        /\ stored.age = m.age
        /\ stored.chunksCount = m.chunksCount
        /\ stored.signature = m.signature
        /\ stored.chunks[i] = data
        /\ \A j \in Index : j # i => stored.chunks[j] = m.chunks[j]
    BY DEF ChunkedMessage
  <1>2. GoodEntry(stored, id)
    BY <1>1, IndexFacts DEF GoodEntry
  <1> HIDE DEF stored
  <1>3. CASE m.chunksCount # 0 /\ i >= m.chunksCount
    <2>1. Keeps(id, m)
      BY <1>3 DEF addMessageChunk, Keeps
    <2>2. \A j \in IndexOf(id) : j # i
      BY <1>3, IndexFacts DEF GoodEntry, Index
    <2> QED BY <2>1, <2>2
  <1>4. CASE ~(m.chunksCount # 0 /\ i >= m.chunksCount)
             /\ messageIndexSetComplete(stored)
    <2>1. /\ chunkedMessages' = Delete(chunkedMessages, id)
          /\ pending' = assembleEncodedMessage(stored)
      BY <1>4 DEF addMessageChunk, stored
    <2>2. Completes(id)
      BY <1>1, <1>2, <1>4, <2>1, AssembleWhole DEF Completes
    <2>3. ASSUME NEW j \in IndexOf(id), j # i
          PROVE  m.chunks[j] # Nil
      BY <1>1, <1>2, <1>4, <2>3, IndexFacts DEF messageIndexSetComplete, GoodEntry
    <2> QED BY <2>2, <2>3
  <1>5. CASE ~(m.chunksCount # 0 /\ i >= m.chunksCount)
             /\ ~messageIndexSetComplete(stored)
    <2>1. /\ chunkedMessages' = Store(chunkedMessages, id, stored)
          /\ pending' = Nil
      BY <1>5 DEF addMessageChunk, stored
    <2>2. Keeps(id, stored)
      BY <1>1, <1>2, <1>5, <2>1 DEF Keeps
    <2>3. data # Nil
      BY NilAssumption
    <2>4. \A j \in IndexOf(id) :
            stored.chunks[j] # Nil <=> m.chunks[j] # Nil \/ j = i
      BY <1>1, <2>3, IndexFacts
    <2> QED BY <1>1, <2>2, <2>4
  <1> QED BY <1>3, <1>4, <1>5

\* What dispatching an event can do to the map and to msgChannel.
LEMMA ReceiveCases ==
  ASSUME TypeOK, WireInv, MapInv, NEW e \in wire, Receive(e)
  PROVE  \/ /\ UNCHANGED <<chunkedMessages, pending>>
            /\ e.data = Junk \/ e.id \in OwnIDs
         \/ /\ e.id \notin OwnIDs
            /\ \/ /\ UNCHANGED chunkedMessages
                  /\ pending' = [chunks |-> WholeMessage(e.id), signature |-> e.id]
                  /\ e.data # Junk
                  /\ ChunksOf[e.id] = 1
                  /\ \A j \in IndexOf(e.id) : j = e.index
               \/ /\ Completes(e.id)
                  /\ \A j \in IndexOf(e.id) :
                       \/ /\ e.id \in DOMAIN chunkedMessages
                          /\ chunkedMessages[e.id].chunks[j] # Nil
                       \/ j = e.index /\ e.data # Junk
               \/ \E k : /\ Keeps(e.id, k)
                        /\ k.age <= TTL + sinceSweep
                        /\ \A j \in IndexOf(e.id) : k.chunks[j] # Nil <=>
                             \/ /\ e.id \in DOMAIN chunkedMessages
                                /\ chunkedMessages[e.id].chunks[j] # Nil
                             \/ j = e.index /\ e.data # Junk
  <1>1. /\ e \in Event /\ e.id \in MsgIDs /\ e.index \in Index /\ e.data \in Data
        /\ e.chunksCount \in 0..(MaxIndex + 1)
    BY WireFacts DEF Event
  <1>2. CASE Ignored(e)
    <2>1. e.data # Junk => Verify(e)
      BY <1>1, WireFacts, PostedIsEvent, IndexFacts DEF Verify, Event
    <2> QED BY <1>2, <2>1 DEF Ignored, Receive, signedMessageEventHandler,
                             messageChunkEventHandler
  <1>3. CASE ~Ignored(e) /\ e.type = "signed"
    <2>1. /\ e.id \notin OwnIDs /\ Verify(e)
          /\ e.data = ChunkData(e.id, 0) /\ e.index = 0 /\ e.data # Junk
          /\ e.chunksCount = ChunksOf[e.id]
          /\ tryCompleteMessageWithFirstChunk(e)
      BY <1>3, WireFacts DEF Ignored, Receive, signedMessageEventHandler,
                             messageChunkEventHandler
    <2>2. CASE e.chunksCount = 1
      <3>1. \A j \in IndexOf(e.id) : j = 0
        BY <1>1, <2>1, <2>2, ReassemblyAssumption DEF IndexOf, Index
      <3>2. <<e.data>> = WholeMessage(e.id)
        BY <2>1, <2>2 DEF WholeMessage
      <3> QED BY <2>1, <2>2, <3>1, <3>2 DEF tryCompleteMessageWithFirstChunk
    <2>3. CASE e.chunksCount # 1
      <3> DEFINE m == [EntryOf(e.id) EXCEPT !.signature = e.id,
                                           !.chunksCount = e.chunksCount]
      <3>1. addMessageChunk(m, e.id, 0, e.data)
        BY <2>1, <2>3 DEF tryCompleteMessageWithFirstChunk, addMessageFirstChunk
      <3>2. EntryOf(e.id) \in ChunkedMessage /\ GoodEntry(EntryOf(e.id), e.id)
        BY <1>1, EntryOfGood
      <3>3. /\ m \in ChunkedMessage /\ m.age = EntryOf(e.id).age
            /\ m.chunks = EntryOf(e.id).chunks
            /\ m.chunksCount = ChunksOf[e.id]
            /\ m.signature = e.id
        BY <1>1, <2>1, <3>2 DEF ChunkedMessage
      <3>4. GoodEntry(m, e.id)
        BY <3>2, <3>3 DEF GoodEntry
      <3> HIDE DEF m
      <3>5. ~(0 >= m.chunksCount) /\ 0 \in Index
        BY <1>1, <3>3, IndexFacts
      <3>6. \/ /\ Completes(e.id)
               /\ \A j \in IndexOf(e.id) : m.chunks[j] # Nil \/ j = 0
            \/ \E k : /\ Keeps(e.id, k)
                     /\ k.age = m.age
                     /\ \A j \in IndexOf(e.id) :
                          k.chunks[j] # Nil <=> m.chunks[j] # Nil \/ j = 0
        BY <1>1, <2>1, <3>1, <3>3, <3>4, <3>5, AddChunk
      <3> QED BY <1>1, <2>1, <3>3, <3>6, EntryOfGood, IndexFacts
    <2> QED BY <2>2, <2>3
  <1>4. CASE ~Ignored(e) /\ e.type = "chunk"
    <2>1. /\ e.id \notin OwnIDs /\ Verify(e) /\ addMessageNextChunk(e)
          /\ e.data = ChunkData(e.id, e.index) \/ e.index \notin IndexOf(e.id)
          /\ e.index # 0
      BY <1>4, WireFacts DEF Ignored, Receive, signedMessageEventHandler,
                             messageChunkEventHandler, Verify
    <2>2. e.data # Junk \/ e.index \notin IndexOf(e.id)
      BY <1>4, <2>1, WireFacts
    <2> DEFINE m == EntryOf(e.id)
    <2>3. /\ m \in ChunkedMessage /\ GoodEntry(m, e.id)
          /\ ~messageIndexSetComplete(m)
          /\ addMessageChunk(m, e.id, e.index, e.data)
      BY <1>1, <2>1, EntryOfGood DEF addMessageNextChunk
    <2> HIDE DEF m
    <2>4. \/ /\ Completes(e.id)
             /\ \A j \in IndexOf(e.id) : m.chunks[j] # Nil \/ j = e.index
          \/ \E k : /\ Keeps(e.id, k)
                   /\ k.age = m.age
                   /\ \A j \in IndexOf(e.id) :
                        k.chunks[j] # Nil <=> m.chunks[j] # Nil \/ j = e.index
      BY <1>1, <2>1, <2>3, AddChunk
    <2> QED BY <1>1, <2>1, <2>2, <2>4, EntryOfGood, IndexFacts DEF m
  <1> QED BY <1>2, <1>3, <1>4, <1>1 DEF Event

-----------------------------------------------------------------------------
(* The inductive invariant.                                                *)

\* The invariant holds initially.
LEMMA InitIInv == Init => IInv
  <1> SUFFICES ASSUME Init PROVE IInv
    OBVIOUS
  <1> USE ReassemblyAssumption DEF Init
  <1>1. TypeOK
    <2>1. EmptyMap \in [DOMAIN EmptyMap -> ChunkedMessage] /\ DOMAIN EmptyMap = {}
      BY DEF EmptyMap
    <2> QED BY <2>1 DEF TypeOK
  <1>2. MapInv /\ Paid
    BY DEF MapInv, Paid, EmptyMap
  <1>3. NoPhantomDelivery
    BY IndexFacts DEF NoPhantomDelivery, InFlight
  <1>4. SeenOnWire
    BY IndexFacts DEF SeenOnWire
  <1>5. Held
    BY IndexFacts DEF Held
  <1> QED BY <1>1, <1>2, <1>3, <1>4, <1>5 DEF IInv, WireInv, Integrity

\* Posting events only adds to the wire.
LEMMA PostStep ==
  ASSUME IInv, NEW w \in SUBSET Event, wire' = wire \cup w,
         \A e \in w : e \in StrayEvents \/ Genuine(e),
         UNCHANGED <<chunkedMessages, pending, sinceSweep, restarts, seen,
                     delivered, evicted>>,
         posted' \in [MsgIDs -> 0..(MaxIndex + 1)], aborted' \in SUBSET MsgIDs
  PROVE  IInv'
  <1> USE DEF IInv
  <1>1. TypeOK'
    BY DEF TypeOK
  <1>2. WireInv'
    BY DEF WireInv, Genuine
  <1>3. MapInv' /\ Paid' /\ NoPhantomDelivery' /\ Integrity'
    BY DEF MapInv, Paid, NoPhantomDelivery, Integrity, InFlight, GoodEntry,
           messageIndexSetComplete
  <1>4. SeenOnWire'
    BY DEF SeenOnWire
  <1>5. Held'
    BY DEF Held, Untouched, InFlight
  <1> QED BY <1>1, <1>2, <1>3, <1>4, <1>5

\* Receiving an event keeps the invariant, whether it completes a message,
\* adds to one or is dropped.
LEMMA ReceiveStep ==
  ASSUME IInv, NEW e \in wire, Receive(e)
  PROVE  IInv'
  <1> USE DEF IInv
  <1> DEFINE c == <<e.id, e.index>>
  <1>1. /\ e.id \in MsgIDs /\ e.index \in Index /\ c \in MsgIDs \X Index
        /\ pending = Nil
        /\ UNCHANGED <<wire, posted, aborted, sinceSweep, restarts, delivered,
                       evicted>>
    BY WireFacts DEF Event, Receive
  <1>2. /\ seen' \in [MsgIDs \X Index -> 0..MaxCopies]
        /\ \A d \in MsgIDs \X Index : seen[d] <= seen'[d]
        /\ \A d \in MsgIDs \X Index : d # c => seen'[d] = seen[d]
        /\ e.data # Junk => seen'[c] = seen[c] + 1
        /\ e.data = Junk => seen' = seen
    <2>1. CASE e.data = Junk
      BY <2>1, ReassemblyAssumption DEF Receive, TypeOK
    <2>2. CASE e.data # Junk
      <3>1. seen[c] \in 0..MaxCopies /\ seen[c] < MaxCopies
            /\ seen' = [seen EXCEPT ![c] = @ + 1]
        BY <1>1, <2>2 DEF Receive, TypeOK
      <3>2. seen[c] + 1 \in 0..MaxCopies
        BY <3>1, ReassemblyAssumption
      <3> QED BY <1>1, <2>2, <3>1, <3>2, ReassemblyAssumption DEF TypeOK
    <2> QED BY <2>1, <2>2
  <1> HIDE DEF c
  <1>3. WireInv'
    BY <1>1 DEF WireInv, Genuine
  <1>4. SeenOnWire'
    <2> SUFFICES ASSUME NEW id \in MsgIDs, NEW i \in IndexOf(id),
                        seen'[<<id, i>>] > 0
                 PROVE  PostedEvent(id, i) \in wire
      BY <1>1 DEF SeenOnWire
    <2>1. <<id, i>> \in MsgIDs \X Index
      BY IndexFacts
    <2>2. CASE <<id, i>> = c /\ e.data # Junk
      BY <2>2, WireFacts DEF c
    <2>3. CASE <<id, i>> # c \/ e.data = Junk
      BY <1>2, <2>1, <2>3 DEF SeenOnWire
    <2> QED BY <2>2, <2>3
  <1> DEFINE Arrived(j) ==
        \/ /\ e.id \in DOMAIN chunkedMessages
           /\ chunkedMessages[e.id].chunks[j] # Nil
        \/ j = e.index /\ e.data # Junk
  <1>5. ASSUME NEW j \in IndexOf(e.id), Arrived(j)
        PROVE  delivered[e.id] + 1 <= seen'[<<e.id, j>>]
    <2>1. <<e.id, j>> \in MsgIDs \X Index /\ delivered[e.id] \in Nat
          /\ seen[<<e.id, j>>] \in Nat /\ seen'[<<e.id, j>>] \in Nat
      BY <1>1, <1>2, IndexFacts, ReassemblyAssumption DEF TypeOK
    <2>2. InFlight(e.id) = 0
      BY <1>1 DEF InFlight
    <2>3. CASE j = e.index /\ e.data # Junk
      <3>1. delivered[e.id] <= seen[<<e.id, j>>]
        BY <1>1, <2>1, <2>2 DEF NoPhantomDelivery
      <3> QED BY <1>2, <2>1, <2>3, <3>1 DEF c
    <2>4. CASE e.id \in DOMAIN chunkedMessages
               /\ chunkedMessages[e.id].chunks[j] # Nil
      <3>1. delivered[e.id] + 1 <= seen[<<e.id, j>>]
        BY <2>1, <2>2, <2>4 DEF Paid
      <3> QED BY <1>2, <2>1, <3>1
    <2> QED BY <1>5, <2>3, <2>4
  <1>6. ASSUME NEW id \in MsgIDs, NEW i \in IndexOf(id)
        PROVE  /\ delivered[id] \in Nat /\ seen[<<id, i>>] \in Nat
               /\ seen'[<<id, i>>] \in Nat /\ seen[<<id, i>>] <= seen'[<<id, i>>]
               /\ delivered[id] <= seen[<<id, i>>]
               /\ InFlight(id) = 0
    <2>1. <<id, i>> \in MsgIDs \X Index /\ InFlight(id) = 0
      BY <1>1, IndexFacts DEF InFlight
    <2> QED BY <1>2, <2>1, ReassemblyAssumption DEF TypeOK, NoPhantomDelivery
  <1>7. CASE /\ UNCHANGED <<chunkedMessages, pending>>
             /\ e.data = Junk \/ e.id \in OwnIDs
    <2>1. TypeOK'
      BY <1>1, <1>2, <1>7 DEF TypeOK
    <2>2. MapInv' /\ Integrity'
      BY <1>1, <1>7 DEF MapInv, Integrity, GoodEntry, messageIndexSetComplete
    <2>3. Paid'
      <3> SUFFICES ASSUME NEW id \in DOMAIN chunkedMessages, NEW i \in IndexOf(id),
                          chunkedMessages[id].chunks[i] # Nil
                   PROVE  delivered[id] + InFlight(id)' + 1 <= seen'[<<id, i>>]
        BY <1>1, <1>7 DEF Paid
      <3>1. id \in MsgIDs /\ InFlight(id)' = 0
        BY <1>1, <1>7 DEF TypeOK, InFlight
      <3>2. delivered[id] + InFlight(id) + 1 <= seen[<<id, i>>]
        BY DEF Paid
      <3> QED BY <1>6, <3>1, <3>2
    <2>4. NoPhantomDelivery'
      <3> SUFFICES ASSUME NEW id \in MsgIDs, NEW i \in IndexOf(id)
                   PROVE  delivered[id] + InFlight(id)' <= seen'[<<id, i>>]
        BY <1>1 DEF NoPhantomDelivery
      <3>1. InFlight(id)' = 0
        BY <1>1, <1>7 DEF InFlight
      <3> QED BY <1>6, <3>1
    <2>5. Held'
      <3> SUFFICES ASSUME NEW id \in MsgIDs \ OwnIDs, NEW i \in IndexOf(id),
                          Untouched(id)', seen'[<<id, i>>] > 0
                   PROVE  id \in DOMAIN chunkedMessages
                          /\ chunkedMessages[id].chunks[i] # Nil
        BY <1>7 DEF Held
      <3>1. <<id, i>> \in MsgIDs \X Index
        BY IndexFacts
      <3>2. seen'[<<id, i>>] = seen[<<id, i>>]
        BY <1>2, <1>7, <3>1 DEF c
      <3>3. Untouched(id)
        BY <1>1, <1>7 DEF Untouched, InFlight
      <3> QED BY <3>2, <3>3 DEF Held
    <2> QED BY <1>3, <1>4, <2>1, <2>2, <2>3, <2>4, <2>5
  <1>8. CASE /\ e.id \notin OwnIDs
             /\ pending' = [chunks |-> WholeMessage(e.id), signature |-> e.id]
             /\ \A j \in IndexOf(e.id) : Arrived(j)
             /\ \/ /\ chunkedMessages' = chunkedMessages
                   /\ ChunksOf[e.id] = 1
                \/ chunkedMessages' = Delete(chunkedMessages, e.id)
    <2>1. /\ DOMAIN chunkedMessages' \subseteq DOMAIN chunkedMessages
          /\ chunkedMessages' \in [DOMAIN chunkedMessages' -> ChunkedMessage]
          /\ \A id \in DOMAIN chunkedMessages' :
               chunkedMessages'[id] = chunkedMessages[id]
          /\ e.id \in DOMAIN chunkedMessages' => ChunksOf[e.id] = 1
      BY <1>8 DEF Delete, TypeOK
    <2>2. pending' \in EncodedMessage /\ pending' # Nil
          /\ pending'.signature = e.id /\ pending'.chunks = WholeMessage(e.id)
      BY <1>1, <1>8, WholeType, NilAssumption
    <2>3. TypeOK'
      BY <1>1, <1>2, <2>1, <2>2 DEF TypeOK
    <2>4. MapInv'
      BY <1>1, <2>1 DEF MapInv, GoodEntry, messageIndexSetComplete
    <2>5. Integrity'
      BY <1>1, <1>8, <2>2 DEF Integrity, WholeMessage, ChunkData
    <2>6. Paid'
      <3> SUFFICES ASSUME NEW id \in DOMAIN chunkedMessages', NEW i \in IndexOf(id),
                          chunkedMessages'[id].chunks[i] # Nil
                   PROVE  delivered[id] + InFlight(id)' + 1 <= seen'[<<id, i>>]
        BY <1>1 DEF Paid
      <3>1. id \in MsgIDs /\ id \in DOMAIN chunkedMessages
        BY <2>1 DEF TypeOK
      <3>2. id # e.id
        <4> SUFFICES ASSUME id = e.id PROVE FALSE
          OBVIOUS
        <4>1. ChunksOf[id] = 1 /\ i = 0
          BY <2>1, <3>1, IndexFacts, ReassemblyAssumption DEF IndexOf, Index
        <4>2. GoodEntry(chunkedMessages[id], id)
              /\ chunkedMessages[id].chunks[0] # Nil
          BY <2>1, <3>1, <4>1 DEF MapInv
        <4>3. messageIndexSetComplete(chunkedMessages[id])
          BY <4>1, <4>2 DEF messageIndexSetComplete, GoodEntry, Index
        <4> QED BY <3>1, <4>3 DEF MapInv
      <3>3. InFlight(id)' = 0
        BY <2>2, <3>2 DEF InFlight
      <3>4. delivered[id] + InFlight(id) + 1 <= seen[<<id, i>>]
        BY <2>1, <3>1 DEF Paid
      <3> QED BY <1>6, <3>1, <3>3, <3>4
    <2>7. NoPhantomDelivery'
      <3> SUFFICES ASSUME NEW id \in MsgIDs, NEW i \in IndexOf(id)
                   PROVE  delivered[id] + InFlight(id)' <= seen'[<<id, i>>]
        BY <1>1 DEF NoPhantomDelivery
      <3>1. CASE id = e.id
        BY <1>5, <1>8, <2>2, <3>1 DEF InFlight
      <3>2. CASE id # e.id
        BY <1>6, <2>2, <3>2 DEF InFlight
      <3> QED BY <3>1, <3>2
    <2>8. Held'
      <3> SUFFICES ASSUME NEW id \in MsgIDs \ OwnIDs, NEW i \in IndexOf(id),
                          Untouched(id)', seen'[<<id, i>>] > 0
                   PROVE  id \in DOMAIN chunkedMessages'
                          /\ chunkedMessages'[id].chunks[i] # Nil
        BY DEF Held
      <3>1. id # e.id
        <4> SUFFICES ASSUME id = e.id PROVE FALSE
          OBVIOUS
        <4>1. InFlight(id)' = 1
          BY <2>2 DEF InFlight
        <4> QED BY <1>1, <1>6, <4>1 DEF Untouched
      <3>2. <<id, i>> \in MsgIDs \X Index /\ <<id, i>> # c
        BY <3>1, IndexFacts DEF c
      <3>3. Untouched(id)
        BY <1>1, <2>2, <3>1 DEF Untouched, InFlight
      <3>4. id \in DOMAIN chunkedMessages /\ chunkedMessages[id].chunks[i] # Nil
        BY <1>2, <3>2, <3>3 DEF Held
      <3> QED BY <1>8, <2>1, <3>1, <3>4 DEF Delete
    <2> QED BY <1>3, <1>4, <2>3, <2>4, <2>5, <2>6, <2>7, <2>8
  <1>9. ASSUME e.id \notin OwnIDs,
               NEW k, Keeps(e.id, k), k.age <= TTL + sinceSweep,
               \A j \in IndexOf(e.id) : k.chunks[j] # Nil <=> Arrived(j)
        PROVE  IInv'
    <2>1. /\ DOMAIN chunkedMessages' = DOMAIN chunkedMessages \cup {e.id}
          /\ chunkedMessages'[e.id] = k
          /\ \A id \in DOMAIN chunkedMessages :
               id # e.id => chunkedMessages'[id] = chunkedMessages[id]
          /\ chunkedMessages' \in [DOMAIN chunkedMessages' -> ChunkedMessage]
          /\ pending' = Nil
      BY <1>9 DEF Keeps, Store, TypeOK
    <2>2. TypeOK'
      BY <1>1, <1>2, <2>1 DEF TypeOK
    <2>3. MapInv'
      <3> SUFFICES ASSUME NEW id \in DOMAIN chunkedMessages'
                   PROVE  /\ id \notin OwnIDs
                          /\ GoodEntry(chunkedMessages'[id], id)
                          /\ ~messageIndexSetComplete(chunkedMessages'[id])
                          /\ chunkedMessages'[id].age <= TTL + sinceSweep
        BY <1>1 DEF MapInv, GoodEntry, messageIndexSetComplete
      <3>1. CASE id = e.id
        BY <1>9, <2>1, <3>1 DEF Keeps
      <3>2. CASE id # e.id
        BY <2>1, <3>2 DEF MapInv
      <3> QED BY <3>1, <3>2
    <2>4. Integrity'
      BY <2>1 DEF Integrity
    <2>5. \A id \in MsgIDs : InFlight(id)' = 0
      BY <2>1 DEF InFlight
    <2>6. Paid'
      <3> SUFFICES ASSUME NEW id \in DOMAIN chunkedMessages', NEW i \in IndexOf(id),
                          chunkedMessages'[id].chunks[i] # Nil
                   PROVE  delivered[id] + InFlight(id)' + 1 <= seen'[<<id, i>>]
        BY <1>1 DEF Paid
      <3>1. id \in MsgIDs
        BY <1>1, <2>1 DEF TypeOK
      <3>2. CASE id = e.id
        BY <1>5, <1>6, <1>9, <2>1, <2>5, <3>1, <3>2
      <3>3. CASE id # e.id
        <4>1. delivered[id] + InFlight(id) + 1 <= seen[<<id, i>>]
          BY <2>1, <3>3 DEF Paid
        <4> QED BY <1>6, <2>5, <3>1, <4>1
      <3> QED BY <3>2, <3>3
    <2>7. NoPhantomDelivery'
      <3> SUFFICES ASSUME NEW id \in MsgIDs, NEW i \in IndexOf(id)
                   PROVE  delivered[id] + InFlight(id)' <= seen'[<<id, i>>]
        BY <1>1 DEF NoPhantomDelivery
      <3> QED BY <1>6, <2>5
    <2>8. Held'
      <3> SUFFICES ASSUME NEW id \in MsgIDs \ OwnIDs, NEW i \in IndexOf(id),
                          Untouched(id)', seen'[<<id, i>>] > 0
                   PROVE  id \in DOMAIN chunkedMessages'
                          /\ chunkedMessages'[id].chunks[i] # Nil
        BY DEF Held
      <3>1. <<id, i>> \in MsgIDs \X Index
        BY IndexFacts
      <3>2. Untouched(id)
        BY <1>1, <2>1 DEF Untouched, InFlight
      <3>3. CASE <<id, i>> = c /\ e.data # Junk
        BY <1>9, <2>1, <3>3 DEF c
      <3>4. CASE <<id, i>> # c \/ e.data = Junk
        <4>1. id \in DOMAIN chunkedMessages /\ chunkedMessages[id].chunks[i] # Nil
          BY <1>2, <3>1, <3>2, <3>4 DEF Held
        <4> QED BY <1>9, <2>1, <4>1
      <3> QED BY <3>3, <3>4
    <2> QED BY <1>3, <1>4, <2>2, <2>3, <2>4, <2>6, <2>7, <2>8
  <1> QED BY <1>7, <1>8, <1>9, ReceiveCases DEF Completes

\* The processor takes a message off msgChannel.
LEMMA HandOverStep ==
  ASSUME IInv, HandOver
  PROVE  IInv'
  <1> USE DEF IInv
  <1> DEFINE sig == pending.signature
  <1>1. /\ sig \in MsgIDs /\ pending' = Nil /\ delivered[sig] \in Nat
        /\ delivered' = [delivered EXCEPT ![sig] = @ + 1]
        /\ UNCHANGED <<wire, posted, aborted, chunkedMessages, sinceSweep, restarts,
                       seen, evicted>>
    BY DEF HandOver, Integrity, TypeOK
  <1>2. ASSUME NEW id \in MsgIDs
        PROVE  delivered'[id] + InFlight(id)' = delivered[id] + InFlight(id)
               /\ delivered'[id] \in Nat
    <2>1. delivered[id] \in Nat /\ pending # Nil
      BY DEF TypeOK, HandOver
    <2>2. CASE id = sig
      BY <1>1, <2>1, <2>2 DEF InFlight, TypeOK
    <2>3. CASE id # sig
      BY <1>1, <2>1, <2>3 DEF InFlight, TypeOK
    <2> QED BY <2>2, <2>3
  <1> HIDE DEF sig
  <1>3. TypeOK'
    BY <1>1, <1>2 DEF TypeOK
  <1>4. WireInv' /\ MapInv' /\ Integrity' /\ SeenOnWire'
    BY <1>1 DEF WireInv, Genuine, MapInv, GoodEntry, messageIndexSetComplete,
                Integrity, SeenOnWire
  <1>5. NoPhantomDelivery'
    BY <1>1, <1>2 DEF NoPhantomDelivery
  <1>6. Paid'
    <2> SUFFICES ASSUME NEW id \in DOMAIN chunkedMessages, NEW i \in IndexOf(id),
                        chunkedMessages[id].chunks[i] # Nil
                 PROVE  delivered'[id] + InFlight(id)' + 1 <= seen[<<id, i>>]
      BY <1>1 DEF Paid
    <2>1. id \in MsgIDs /\ delivered[id] + InFlight(id) + 1 <= seen[<<id, i>>]
      BY DEF Paid, TypeOK
    <2> QED BY <1>2, <2>1
  <1>7. Held'
    BY <1>1, <1>2 DEF Held, Untouched
  <1> QED BY <1>3, <1>4, <1>5, <1>6, <1>7

\* Whatever only removes entries, or makes them older, keeps the invariant as
\* long as the ages keep within bounds.
LEMMA SweepStep ==
  ASSUME IInv,
         DOMAIN chunkedMessages' \subseteq DOMAIN chunkedMessages,
         chunkedMessages' \in [DOMAIN chunkedMessages' -> ChunkedMessage],
         \A id \in DOMAIN chunkedMessages' :
           /\ chunkedMessages'[id].chunksCount = chunkedMessages[id].chunksCount
           /\ chunkedMessages'[id].signature = chunkedMessages[id].signature
           /\ chunkedMessages'[id].chunks = chunkedMessages[id].chunks
           /\ chunkedMessages'[id].age <= TTL + sinceSweep',
         pending' \in {pending, Nil},
         sinceSweep' \in 0..SweepInterval, restarts' \in 0..MaxRestarts,
         evicted' \in SUBSET MsgIDs,
         UNCHANGED <<wire, posted, aborted, seen, delivered>>,
         Held'
  PROVE  IInv'
  <1> USE DEF IInv
  <1>1. TypeOK'
    BY DEF TypeOK
  <1>2. WireInv' /\ SeenOnWire' /\ Integrity'
    BY DEF WireInv, Genuine, SeenOnWire, Integrity
  <1>3. MapInv'
    BY DEF MapInv, GoodEntry, messageIndexSetComplete
  <1>4. ASSUME NEW id \in MsgIDs
        PROVE  /\ InFlight(id) \in {0, 1} /\ InFlight(id)' \in {0, 1}
               /\ InFlight(id)' <= InFlight(id)
               /\ delivered[id] \in Nat
    BY DEF InFlight, TypeOK
  <1>5. \A c \in MsgIDs \X Index : seen[c] \in Nat
    BY ReassemblyAssumption DEF TypeOK
  <1>6. NoPhantomDelivery'
    <2> SUFFICES ASSUME NEW id \in MsgIDs, NEW i \in IndexOf(id)
                 PROVE  delivered[id] + InFlight(id)' <= seen[<<id, i>>]
      BY DEF NoPhantomDelivery
    <2>1. <<id, i>> \in MsgIDs \X Index
      BY IndexFacts
    <2>2. delivered[id] + InFlight(id) <= seen[<<id, i>>]
      BY DEF NoPhantomDelivery
    <2> QED BY <1>4, <1>5, <2>1, <2>2
  <1>7. Paid'
    <2> SUFFICES ASSUME NEW id \in DOMAIN chunkedMessages', NEW i \in IndexOf(id),
                        chunkedMessages'[id].chunks[i] # Nil
                 PROVE  delivered[id] + InFlight(id)' + 1 <= seen[<<id, i>>]
      BY DEF Paid
    <2>1. id \in MsgIDs /\ <<id, i>> \in MsgIDs \X Index
      BY IndexFacts DEF TypeOK
    <2>2. delivered[id] + InFlight(id) + 1 <= seen[<<id, i>>]
      BY DEF Paid
    <2> QED BY <1>4, <1>5, <2>1, <2>2
  <1> QED BY <1>1, <1>2, <1>3, <1>6, <1>7

\* A message all of whose chunks are held would be complete, and no complete
\* entry stays in the map.
LEMMA LastChunk == IInv => CompletesOnLastChunk
  <1> SUFFICES ASSUME IInv, NEW id \in MsgIDs \ OwnIDs,
                      \A i \in IndexOf(id) : seen[<<id, i>>] > 0,
                      id \notin evicted, restarts = 0,
                      ~(delivered[id] + InFlight(id) > 0)
               PROVE  FALSE
    BY DEF CompletesOnLastChunk
  <1>1. Untouched(id)
    <2>1. delivered[id] \in Nat /\ InFlight(id) \in {0, 1}
      BY DEF IInv, TypeOK, InFlight
    <2> QED BY <2>1 DEF Untouched
  <1>2. \A i \in IndexOf(id) :
          id \in DOMAIN chunkedMessages /\ chunkedMessages[id].chunks[i] # Nil
    BY <1>1 DEF IInv, Held
  <1>3. id \in DOMAIN chunkedMessages /\ GoodEntry(chunkedMessages[id], id)
        /\ chunkedMessages[id].chunksCount = ChunksOf[id]
    BY <1>2, IndexFacts DEF IInv, MapInv, GoodEntry
  <1>4. messageIndexSetComplete(chunkedMessages[id])
    BY <1>2, <1>3, IndexFacts DEF messageIndexSetComplete
  <1> QED BY <1>3, <1>4 DEF IInv, MapInv

\* Every step keeps the invariant.
LEMMA NextIInv == IInv /\ [Next]_vars => IInv'
  <1> SUFFICES ASSUME IInv, [Next]_vars PROVE IInv'
    OBVIOUS
  <1>0. TypeOK /\ MapInv
    BY DEF IInv
  <1>1. ASSUME NEW id \in MsgIDs, PostEvent(id)
        PROVE  IInv'
    <2>1. posted[id] \in IndexOf(id)
      BY <1>0, <1>1, IndexFacts, ReassemblyAssumption
         DEF PostEvent, Sending, TypeOK, Index
    <2>2. posted' \in [MsgIDs -> 0..(MaxIndex + 1)]
      BY <1>0, <1>1, IndexFacts, ReassemblyAssumption DEF PostEvent, Sending, TypeOK
    <2>3. PostedEvent(id, posted[id]) \in Event /\ Genuine(PostedEvent(id, posted[id]))
      BY <2>1, PostedIsEvent DEF Genuine
    <2>4. PICK w \in {{PostedEvent(id, posted[id])}} : wire' = wire \cup w
      BY <1>1 DEF PostEvent
    <2> QED BY <1>0, <1>1, <2>2, <2>3, <2>4, PostStep DEF PostEvent, TypeOK
  <1>2. ASSUME NEW id \in MsgIDs, PostFails(id)
        PROVE  IInv'
    <2>1. posted[id] \in IndexOf(id)
      BY <1>0, <1>2, IndexFacts, ReassemblyAssumption
         DEF PostFails, Sending, TypeOK, Index
    <2>2. PostedEvent(id, posted[id]) \in Event /\ Genuine(PostedEvent(id, posted[id]))
      BY <2>1, PostedIsEvent DEF Genuine
    <2>3. PICK w \in {{}, {PostedEvent(id, posted[id])}} : wire' = wire \cup w
      BY <1>2 DEF PostFails
    <2> QED BY <1>0, <1>2, <2>2, <2>3, PostStep DEF PostFails, TypeOK
  <1>3. ASSUME NEW e \in StrayEvents, PostStray(e)
        PROVE  IInv'
    <2>1. PICK w \in {{e}} : wire' = wire \cup w
      BY <1>3 DEF PostStray
    <2> QED BY <1>0, <1>3, <2>1, StrayIsEvent, PostStep DEF PostStray, TypeOK
  <1>4. ASSUME NEW e \in wire, Receive(e)
        PROVE  IInv'
    BY <1>4, ReceiveStep
  <1>5. CASE HandOver
    BY <1>5, HandOverStep
  <1>6. CASE Tick
    <2>1. /\ sinceSweep \in Nat /\ sinceSweep' = sinceSweep + 1
          /\ sinceSweep' \in 0..SweepInterval
      BY <1>0, <1>6, ReassemblyAssumption DEF Tick, TypeOK
    <2>2. DOMAIN chunkedMessages' = DOMAIN chunkedMessages
      BY <1>6 DEF Tick
    <2>3. ASSUME NEW id \in DOMAIN chunkedMessages
          PROVE  /\ chunkedMessages'[id] =
                      [chunkedMessages[id] EXCEPT !.age = Older(@)]
                 /\ chunkedMessages[id] \in ChunkedMessage
                 /\ chunkedMessages[id].age <= TTL + sinceSweep
      BY <1>0, <1>6 DEF Tick, TypeOK, MapInv
    <2>4. ASSUME NEW id \in DOMAIN chunkedMessages
          PROVE  /\ chunkedMessages'[id] \in ChunkedMessage
                 /\ chunkedMessages'[id].chunksCount = chunkedMessages[id].chunksCount
                 /\ chunkedMessages'[id].signature = chunkedMessages[id].signature
                 /\ chunkedMessages'[id].chunks = chunkedMessages[id].chunks
                 /\ chunkedMessages'[id].age <= TTL + sinceSweep'
      <3>0. \A n \in Nat : Older(n) \in Nat /\ Older(n) <= n + 1
        BY DEF Older
      <3>1. /\ chunkedMessages[id].age \in Nat
            /\ Older(chunkedMessages[id].age) \in Nat
            /\ Older(chunkedMessages[id].age) <= chunkedMessages[id].age + 1
        BY <2>3, <3>0 DEF ChunkedMessage
      <3>2. /\ chunkedMessages'[id] \in ChunkedMessage
            /\ chunkedMessages'[id].age = Older(chunkedMessages[id].age)
            /\ chunkedMessages'[id].chunksCount = chunkedMessages[id].chunksCount
            /\ chunkedMessages'[id].signature = chunkedMessages[id].signature
            /\ chunkedMessages'[id].chunks = chunkedMessages[id].chunks
        BY <2>3, <3>1 DEF ChunkedMessage
      <3>3. Older(chunkedMessages[id].age) <= TTL + sinceSweep'
        <4>1. TTL \in Nat
          BY ReassemblyAssumption
        <4>2. chunkedMessages[id].age <= TTL + sinceSweep
          BY <2>3
        <4>3. \A a, b, s, t, u \in Nat :
                a <= t + s /\ b <= a + 1 /\ u = s + 1 => b <= t + u
          OBVIOUS
        <4>4. sinceSweep' \in Nat
          BY <2>1
        <4> QED BY <2>1, <3>1, <4>1, <4>2, <4>3, <4>4
      <3> QED BY <3>2, <3>3
    <2>5. chunkedMessages' \in [DOMAIN chunkedMessages' -> ChunkedMessage]
      BY <1>6, <2>2, <2>4 DEF Tick
    <2>6. Held'
      BY <1>0, <1>6, <2>2, <2>4 DEF IInv, Held, Untouched, InFlight, Tick
    <2> QED BY <1>0, <1>6, <2>1, <2>2, <2>4, <2>5, <2>6, SweepStep
           DEF Tick, TypeOK
  <1>7. CASE evictStalePartialMessages
    <2>1. 0 \in 0..SweepInterval
      BY ReassemblyAssumption
    <2>2. /\ DOMAIN chunkedMessages' \subseteq DOMAIN chunkedMessages
          /\ chunkedMessages' \in [DOMAIN chunkedMessages' -> ChunkedMessage]
          /\ \A id \in DOMAIN chunkedMessages' :
               chunkedMessages'[id] = chunkedMessages[id] /\ ~Stale(id)
      BY <1>0, <1>7 DEF evictStalePartialMessages, TypeOK
    <2>3. \A id \in DOMAIN chunkedMessages' :
            chunkedMessages'[id].age <= TTL + sinceSweep'
      BY <1>0, <1>7, <2>2, ReassemblyAssumption
         DEF evictStalePartialMessages, Stale, TypeOK, ChunkedMessage
    <2>4. evicted' \in SUBSET MsgIDs
      BY <1>0, <1>7 DEF evictStalePartialMessages, TypeOK
    <2>5. Held'
      <3> SUFFICES ASSUME NEW id \in MsgIDs \ OwnIDs, NEW i \in IndexOf(id),
                          Untouched(id)', seen[<<id, i>>] > 0
                   PROVE  id \in DOMAIN chunkedMessages'
                          /\ chunkedMessages'[id].chunks[i] # Nil
        BY <1>7 DEF Held, evictStalePartialMessages
      <3>1. Untouched(id)
        BY <1>7 DEF Untouched, InFlight, evictStalePartialMessages
      <3>2. id \in DOMAIN chunkedMessages /\ chunkedMessages[id].chunks[i] # Nil
        BY <3>1 DEF IInv, Held
      <3>3. ~Stale(id)
        <4> SUFFICES ASSUME Stale(id) PROVE FALSE
          OBVIOUS
        <4>1. ~\E j \in IndexOf(id) : seen[<<id, j>>] = 0
          BY <1>7, <3>2 DEF Untouched, evictStalePartialMessages
        <4>2. \A j \in IndexOf(id) : seen[<<id, j>>] > 0
          BY <1>0, <4>1, IndexFacts, ReassemblyAssumption DEF TypeOK
        <4>3. CompletesOnLastChunk
          BY LastChunk
        <4> QED BY <3>1, <4>2, <4>3 DEF CompletesOnLastChunk, Untouched
      <3> QED BY <1>7, <2>2, <3>2, <3>3 DEF evictStalePartialMessages
    <2> QED BY <1>0, <1>7, <2>1, <2>2, <2>3, <2>4, <2>5, SweepStep
           DEF evictStalePartialMessages, TypeOK
  <1>8. CASE Restart
    <2>1. 0 \in 0..SweepInterval /\ restarts' \in 0..MaxRestarts
      BY <1>0, <1>8, ReassemblyAssumption DEF Restart, TypeOK
    <2>2. DOMAIN chunkedMessages' = {}
          /\ chunkedMessages' \in [DOMAIN chunkedMessages' -> ChunkedMessage]
      BY <1>8 DEF Restart, EmptyMap
    <2>3. Held'
      BY <1>0, <1>8 DEF Held, Untouched, Restart, TypeOK
    <2> QED BY <1>0, <1>8, <2>1, <2>2, <2>3, SweepStep DEF Restart, TypeOK
  <1>9. CASE UNCHANGED vars
    <2>1. \A id \in DOMAIN chunkedMessages :
            chunkedMessages[id].age <= TTL + sinceSweep
      BY <1>0 DEF MapInv
    <2>2. Held'
      BY <1>9 DEF IInv, Held, Untouched, InFlight, vars
    <2> QED BY <1>0, <1>9, <2>1, <2>2, SweepStep DEF vars, TypeOK
  <1> QED BY <1>1, <1>2, <1>3, <1>4, <1>5, <1>6, <1>7, <1>8, <1>9 DEF Next

\* IInv is an invariant of the sender, the wire and the receiver's map: the
\* other theorems of this module are its consequences (messages.go).
THEOREM Invariance == Spec => []IInv
  BY InitIInv, NextIInv, PTL DEF Spec

-----------------------------------------------------------------------------
(* The properties of the runs, for every instance.                         *)

\* Every variable keeps the shape the code declares for it (messages.go).
THEOREM TypeCorrect == Spec => []TypeOK
  BY Invariance, PTL DEF IInv

\* What a handler sends on msgChannel is exactly one message that was sent,
\* whole and in order (assembleEncodedMessage).
THEOREM IntegrityHolds == Spec => []Integrity
  BY Invariance, PTL DEF IInv

\* A chunk serves at most as many hand-overs as it has arrivals
\* (addMessageChunk deletes the entry it completes).
THEOREM NoPhantomDeliveryHolds == Spec => []NoPhantomDelivery
  BY Invariance, PTL DEF IInv

\* The last missing chunk completes its message, whatever the order of arrival
\* and whatever strays came along (addMessageChunk).
THEOREM CompletesOnLastChunkHolds == Spec => []CompletesOnLastChunk
  BY Invariance, LastChunk, PTL

\* No entry of the map is complete (addMessageChunk asks on every arrival).
THEOREM NoCompleteResidentHolds == Spec => []NoCompleteResident
  <1>1. IInv => NoCompleteResident
    BY DEF IInv, MapInv, NoCompleteResident
  <1> QED BY <1>1, Invariance, PTL

\* No entry outlives the TTL by more than a sweep interval
\* (evictStalePartialMessages).
THEOREM BoundedRetentionHolds == Spec => []BoundedRetention
  <1>1. IInv => BoundedRetention
    <2> SUFFICES ASSUME IInv, NEW id \in DOMAIN chunkedMessages
                 PROVE  chunkedMessages[id].age <= TTL + SweepInterval
      BY DEF BoundedRetention
    <2>1. /\ chunkedMessages[id].age <= TTL + sinceSweep
          /\ chunkedMessages[id].age \in Nat
          /\ sinceSweep \in 0..SweepInterval
      BY DEF IInv, MapInv, TypeOK, ChunkedMessage
    <2> QED BY <2>1, ReassemblyAssumption
  <1> QED BY <1>1, Invariance, PTL

\* An incomplete message leaves the map completed, past its TTL, or with the
\* process (addMessageChunk, evictStalePartialMessages).
THEOREM NoEarlyEvictionHolds == Spec => NoEarlyEviction
  <1> DEFINE Leaves(id) ==
        \/ pending = Nil /\ pending' # Nil /\ pending'.signature = id
        \/ chunkedMessages[id].age > TTL
        \/ restarts' # restarts
  <1>1. IInv /\ [Next]_vars =>
          [\A id \in DOMAIN chunkedMessages \ DOMAIN chunkedMessages' : Leaves(id)]_vars
    <2> SUFFICES ASSUME IInv, Next,
                        NEW id \in DOMAIN chunkedMessages \ DOMAIN chunkedMessages'
                 PROVE  Leaves(id)
      BY DEF vars
    <2>1. ASSUME NEW e \in wire, Receive(e) PROVE Leaves(id)
      <3>1. TypeOK /\ WireInv /\ MapInv /\ pending = Nil
        BY <2>1 DEF IInv, Receive
      <3>2. CASE Completes(e.id)
        <4>1. id = e.id
          BY <3>2 DEF Completes, Delete
        <4>2. pending' # Nil /\ pending'.signature = e.id
          BY <3>1, <3>2, <2>1, WireFacts, WholeType, NilAssumption
             DEF Completes, Event
        <4> QED BY <3>1, <4>1, <4>2
      <3>3. CASE \E k : Keeps(e.id, k)
        BY <3>3 DEF Keeps, Store
      <3>4. CASE UNCHANGED chunkedMessages
        BY <3>4
      <3> QED BY <2>1, <3>1, <3>2, <3>3, <3>4, ReceiveCases
    <2>2. CASE evictStalePartialMessages
      BY <2>2 DEF evictStalePartialMessages, Stale
    <2>3. CASE Restart
      BY <2>3 DEF Restart, IInv, TypeOK
    <2>4. CASE Tick
      BY <2>4 DEF Tick
    <2>5. CASE HandOver
      BY <2>5 DEF HandOver
    <2>6. CASE \/ \E d \in MsgIDs : PostEvent(d) \/ PostFails(d)
               \/ \E e \in StrayEvents : PostStray(e)
      BY <2>6 DEF PostEvent, PostFails, PostStray
    <2> QED BY <2>1, <2>2, <2>3, <2>4, <2>5, <2>6 DEF Next
  <1> QED BY <1>1, Invariance, PTL DEF Spec, NoEarlyEviction

-----------------------------------------------------------------------------
(* The refinement.                                                         *)

\* Posting a message publishes it and nothing else.
LEMMA PublishOne ==
  ASSUME IInv, NEW id \in MsgIDs, NEW i \in IndexOf(id),
         wire' = wire \cup {PostedEvent(id, i)}, UNCHANGED delivered
  PROVE  [Delivery!Next]_Delivery!vars
  <1> DEFINE Published == {d \in MsgIDs \ OwnIDs : OnWire(d)}
             PublishedAfter == {d \in MsgIDs \ OwnIDs : OnWire(d)'}
  <1>1. ASSUME NEW d \in MsgIDs, d # id
        PROVE  OnWire(d)' <=> OnWire(d)
    BY <1>1, PostedIsEvent DEF OnWire
  <1>2. OnWire(id) => OnWire(id)'
    BY DEF OnWire
  <1>3. CASE PublishedAfter = Published
    BY <1>3 DEF Delivery!vars
  <1>4. CASE PublishedAfter # Published
    <2>1. id \in MsgIDs \ OwnIDs /\ id \notin Published
          /\ PublishedAfter = Published \cup {id}
      BY <1>1, <1>2, <1>4
    <2>2. Delivery!Publish(id)
      BY <2>1 DEF Delivery!Publish
    <2> QED BY <2>1, <2>2 DEF Delivery!Next
  <1> QED BY <1>3, <1>4

\* The chunked transport implements atomic delivery of whole messages: every
\* step publishes a message, hands a published message over, or changes
\* nothing the processor can see (messages.go as a whole).
THEOREM Refinement == Spec => DeliverySpec
  <1>1. Init => Delivery!Init
    <2> SUFFICES ASSUME Init PROVE Delivery!Init
      OBVIOUS
    <2>1. ASSUME NEW id \in MsgIDs PROVE ~OnWire(id)
      BY IndexFacts DEF OnWire, Init
    <2> QED BY <2>1 DEF Init, Delivery!Init
  <1>2. IInv /\ [Next]_vars => [Delivery!Next]_Delivery!vars
    <2> SUFFICES ASSUME IInv, [Next]_vars PROVE [Delivery!Next]_Delivery!vars
      OBVIOUS
    <2>1. ASSUME UNCHANGED <<wire, delivered>>
          PROVE  [Delivery!Next]_Delivery!vars
      BY <2>1 DEF Delivery!vars, OnWire
    <2>2. ASSUME NEW id \in MsgIDs, PostEvent(id) \/ PostFails(id)
          PROVE  [Delivery!Next]_Delivery!vars
      <3>1. posted[id] \in IndexOf(id)
        BY <2>2, IndexFacts, ReassemblyAssumption
           DEF PostEvent, PostFails, Sending, IInv, TypeOK, Index
      <3>2. \/ wire' = wire
            \/ wire' = wire \cup {PostedEvent(id, posted[id])}
        BY <2>2 DEF PostEvent, PostFails
      <3>3. UNCHANGED delivered
        BY <2>2 DEF PostEvent, PostFails
      <3> QED BY <2>1, <3>1, <3>2, <3>3, PublishOne
    <2>3. ASSUME NEW e \in StrayEvents, PostStray(e)
          PROVE  [Delivery!Next]_Delivery!vars
      <3>1. ASSUME NEW id \in MsgIDs PROVE OnWire(id)' <=> OnWire(id)
        BY <2>3, PostedIsEvent, StrayIsEvent DEF PostStray, OnWire
      <3> QED BY <2>3, <3>1 DEF PostStray, Delivery!vars
    <2>4. CASE HandOver
      <3>0. PICK sig \in MsgIDs \ OwnIDs : sig = pending.signature
        BY <2>4 DEF HandOver, IInv, Integrity
      <3>1. sig \in MsgIDs /\ delivered[sig] \in Nat
        BY DEF IInv, TypeOK
      <3>2. OnWire(sig)
        <4> SUFFICES ASSUME NEW i \in IndexOf(sig)
                     PROVE  PostedEvent(sig, i) \in wire
          BY DEF OnWire
        <4>0. InFlight(sig) = 1
          BY <2>4, <3>0 DEF HandOver, InFlight
        <4>1. delivered[sig] + 1 <= seen[<<sig, i>>]
          BY <3>1, <4>0 DEF IInv, NoPhantomDelivery
        <4>2. seen[<<sig, i>>] \in Nat
          BY <3>1, IndexFacts, ReassemblyAssumption DEF IInv, TypeOK
        <4>3. seen[<<sig, i>>] > 0
          BY <3>1, <4>1, <4>2
        <4> QED BY <3>1, <4>3 DEF IInv, SeenOnWire
      <3>3. UNCHANGED wire /\ delivered' = [delivered EXCEPT ![sig] = @ + 1]
        BY <2>4, <3>0 DEF HandOver
      <3>4. Delivery!Deliver(sig)
        BY <3>1, <3>2, <3>3 DEF Delivery!Deliver, OnWire, IInv, TypeOK
      <3> QED BY <3>4 DEF Delivery!Next
    <2>5. ASSUME NEW e \in wire, Receive(e)
          PROVE  [Delivery!Next]_Delivery!vars
      BY <2>1, <2>5 DEF Receive
    <2>6. CASE Tick \/ evictStalePartialMessages \/ Restart
      BY <2>1, <2>6 DEF Tick, evictStalePartialMessages, Restart
    <2>7. CASE UNCHANGED vars
      BY <2>1, <2>7 DEF vars
    <2> QED BY <2>2, <2>3, <2>4, <2>5, <2>6, <2>7 DEF Next
  <1> QED BY <1>1, <1>2, Invariance, PTL DEF Spec, DeliverySpec, Delivery!Spec

=============================================================================
