---------------------------- MODULE MessageCodec ----------------------------
(***************************************************************************)
(* The encoder and decoder of messages (internal/messaging/encoding) with  *)
(* the store of public keys behind it.  A bot learns the key of a peer     *)
(* from the signature of the peer's first message; until then it sends to  *)
(* that peer in the clear.  Encodings and decodings run concurrently; the  *)
(* cache of keys, which also holds that a key is not known, is filled by   *)
(* both.                                                                   *)
(*                                                                         *)
(* A request goes out with a new shared key; its response with the key     *)
(* that came with the request, which is none if the request was sent in    *)
(* the clear.                                                              *)
(*                                                                         *)
(* A session is a SQLite transaction in rollback-journal mode: a session   *)
(* that has read keeps its shared lock until it is aborted, and a commit   *)
(* waits for all of them.  An address is derived from its key, so the key  *)
(* of bot b is written b; a cache entry is the set of what it holds.       *)
(***************************************************************************)
EXTENDS Naturals, FiniteSets

CONSTANTS
  Bots,        \* peers
  Encodings,   \* calls of EncodeMessage
  Decodings,   \* calls of DecodeAndVerifyMessage
  CacheSize,   \* pubKeysCacheSize
  MaxRestarts, \* bound
  NoKey        \* the key of a bot is not in the store

ASSUME KeyAssumption == NoKey \notin Bots

VARIABLES
  pubKeys,       \* the table: bots whose key is stored
  pubKeysCache,  \* partial function from bots to their key or NoKey
  encoding,      \* [stage, msg, key, sent] of each encoding
  decoding,      \* [stage, from, type, shared] of each decoding
  known,         \* history: bots whose message was decoded by now
  restarts

codecVars == <<pubKeys, pubKeysCache, encoding, decoding, known, restarts>>

\* A message to encode: shared says that there is a shared key.
Outgoing == [of : {"request", "response"}, shared : BOOLEAN, to : Bots, knew : BOOLEAN]

EncodingStages ==
  [stage : {"idle", "failed"}]
  \cup [stage : {"read"}, msg : Outgoing, key : Bots \cup {NoKey}]
  \cup [stage : {"done"}, msg : Outgoing, sent : {"plain", "encrypted"}]

DecodingStages ==
  [stage : {"idle", "failed", "ended"}]
  \cup [stage : {"verified", "committed", "decoded"}, from : Bots,
        type : {"request", "response"}, shared : BOOLEAN]

\* Every variable holds a value of the shape the code declares for it; a cached
\* key is the key of its bot.
CodecTypeOK ==
  /\ pubKeys \subseteq Bots
  /\ DOMAIN pubKeysCache \subseteq Bots
  /\ \A b \in DOMAIN pubKeysCache : pubKeysCache[b] \in {b, NoKey}
  /\ encoding \in [Encodings -> EncodingStages]
  /\ decoding \in [Decodings -> DecodingStages]
  /\ known \subseteq Bots
  /\ restarts \in Nat

CodecInit ==
  /\ pubKeys = {}
  /\ pubKeysCache = [b \in {} |-> NoKey]
  /\ encoding = [e \in Encodings |-> [stage |-> "idle"]]
  /\ decoding = [d \in Decodings |-> [stage |-> "idle"]]
  /\ known = {}
  /\ restarts = 0

\* Add of the LRU cache: one other entry leaves a full cache.
CacheAdd(b, key) ==
  LET new == [x \in DOMAIN pubKeysCache \cup {b} |->
                IF x = b THEN key ELSE pubKeysCache[x]]
  IN IF Cardinality(DOMAIN new) <= CacheSize
       THEN pubKeysCache' = new
       ELSE \E out \in DOMAIN new \ {b} :
              pubKeysCache' = [x \in DOMAIN new \ {out} |-> new[x]]

-----------------------------------------------------------------------------
(* EncodeMessage.                                                          *)

\* Without the recipient's key or a shared key the data stays as it is:
\* compressed, signed and chunked.
Encode(e, msg, key) ==
  encoding' = [encoding EXCEPT ![e] =
    [stage |-> "done", msg |-> msg,
     sent |-> IF key # NoKey /\ msg.shared THEN "encrypted" ELSE "plain"]]

\* The key is cached, or a session reads it: the row may not be there.
EncodeMessage(e, msg) ==
  /\ encoding[e].stage = "idle"
  /\ \/ msg.to \in DOMAIN pubKeysCache /\ Encode(e, msg, pubKeysCache[msg.to])
     \/ /\ msg.to \notin DOMAIN pubKeysCache
        /\ encoding' = [encoding EXCEPT ![e] =
             [stage |-> "read", msg |-> msg, key |-> IF msg.to \in pubKeys THEN msg.to ELSE NoKey]]
     \/ /\ msg.to \notin DOMAIN pubKeysCache
        /\ encoding' = [encoding EXCEPT ![e] = [stage |-> "failed"]]
  /\ UNCHANGED <<pubKeys, pubKeysCache, known, restarts>>

\* A request has a shared key of its own.
SendRequestMessage(e, b) ==
  /\ EncodeMessage(e, [of |-> "request", shared |-> TRUE, to |-> b, knew |-> b \in known])
  /\ UNCHANGED decoding

\* A request that was decoded is answered once, with the shared key it came with.
respond(e, d) ==
  /\ decoding[d].stage = "decoded" /\ decoding[d].type = "request"
  /\ EncodeMessage(e, [of |-> "response", shared |-> decoding[d].shared, to |-> decoding[d].from,
                       knew |-> decoding[d].from \in known])
  /\ decoding' = [decoding EXCEPT ![d] = [stage |-> "ended"]]

\* Mutant: the session is closed before the cache is filled.
ReleasedEarly == {}

\* The sessions that hold a shared lock: from the read to the deferred Abort,
\* which runs after the cache is filled.
Readers == {e \in Encodings : encoding[e].stage = "read"}

getBotPubKey(e) ==
  /\ encoding[e].stage = "read"
  /\ CacheAdd(encoding[e].msg.to, encoding[e].key)
  /\ Encode(e, encoding[e].msg, encoding[e].key)
  /\ UNCHANGED <<pubKeys, decoding, known, restarts>>

-----------------------------------------------------------------------------
(* DecodeAndVerifyMessage.                                                 *)

\* The types of messages the bot was built with.
UnmarshalContent(type) == type \in {"request", "response"}

\* The checks of the body, in their order: its age, the shared key, the data
\* under it, the type.
decodeAndVerifyMessageV1(m) ==
  /\ ~ m.expired
  /\ m.sharedKey \in {"none", "ours"}
  /\ UnmarshalContent(m.type)

\* What may arrive.
Messages ==
  [version : {1, 2}, signer : {"sender", "other"}, expired : BOOLEAN,
   sharedKey : {"none", "ours", "not ours"}, type : {"request", "response", "unknown"}]

\* The version and the signer are checked before the body.
DecodeAndVerifyMessage(d, b, m) ==
  /\ decoding[d].stage = "idle"
  /\ decoding' = [decoding EXCEPT ![d] =
       IF m.version = 1 /\ m.signer = "sender" /\ decodeAndVerifyMessageV1(m)
         THEN [stage |-> "verified", from |-> b, type |-> m.type, shared |-> m.sharedKey # "none"]
         ELSE [stage |-> "failed"]]
  /\ UNCHANGED <<pubKeys, pubKeysCache, encoding, known, restarts>>

\* setBotPubKey: the row is written and committed, which waits for readers;
\* or the session fails and the message is lost.
CommitPubKey(d) ==
  /\ decoding[d].stage = "verified"
  /\ \/ /\ Readers = {}
        /\ pubKeys' = pubKeys \cup {decoding[d].from}
        /\ decoding' = [decoding EXCEPT ![d].stage = "committed"]
     \/ /\ decoding' = [decoding EXCEPT ![d] = [stage |-> "failed"]]
        /\ UNCHANGED pubKeys
  /\ UNCHANGED <<pubKeysCache, encoding, known, restarts>>

setBotPubKey(d) ==
  /\ decoding[d].stage = "committed"
  /\ CacheAdd(decoding[d].from, decoding[d].from)
  /\ decoding' = [decoding EXCEPT ![d].stage = "decoded"]
  /\ known' = known \cup {decoding[d].from}
  /\ UNCHANGED <<pubKeys, encoding, restarts>>

\* The process ends and starts again; the table is all that is left.
RestartCodec ==
  /\ restarts < MaxRestarts
  /\ restarts' = restarts + 1
  /\ pubKeysCache' = [b \in {} |-> NoKey]
  /\ encoding' = [e \in Encodings |->
       IF encoding[e].stage = "read" THEN [stage |-> "failed"] ELSE encoding[e]]
  /\ decoding' = [d \in Decodings |->
       IF decoding[d].stage = "idle" THEN decoding[d] ELSE [stage |-> "failed"]]
  /\ UNCHANGED <<pubKeys, known>>

CodecNext ==
  \/ \E e \in Encodings :
       \/ getBotPubKey(e)
       \/ \E b \in Bots : SendRequestMessage(e, b)
       \/ \E d \in Decodings : respond(e, d)
  \/ \E d \in Decodings :
       \/ \E b \in Bots, m \in Messages : DecodeAndVerifyMessage(d, b, m)
       \/ CommitPubKey(d) \/ setBotPubKey(d)
  \/ RestartCodec

CodecSpec == CodecInit /\ [][CodecNext]_codecVars

-----------------------------------------------------------------------------
\* Once a message of a peer has been decoded, no request to that peer goes out in
\* the clear any more, and a response does so only where the request it answers
\* came without a shared key: neither a racing read of the key, nor an eviction,
\* nor a restart brings back that the peer's key is not known.
EncryptedOnceKnown ==
  \A e \in Encodings :
    encoding[e].stage = "done" /\ encoding[e].msg.knew /\ encoding[e].sent = "plain" =>
      encoding[e].msg.of = "response" /\ ~encoding[e].msg.shared
=============================================================================
