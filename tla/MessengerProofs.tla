-------------------------- MODULE MessengerProofs ---------------------------
(***************************************************************************)
(* A message before it is handled, and the partner who handles it: its     *)
(* encryption (MessageCodec), the rooms it travels in (MatrixRooms),       *)
(* whether it is served (ServiceAccess), and the partner plugin mock       *)
(* (MockEvents, PartnerPluginMock).                                        *)
(***************************************************************************)
EXTENDS MessageCodec, MatrixRooms, ServiceAccess, PartnerPluginMock, MockEvents,
        SequenceTheorems, WellFoundedInduction, TLAPS

(***************************************************************************)
(* EncryptedOnceKnown, for any number of peers, encodings, decodings and   *)
(* restarts and any size of the cache.  The property speaks of finished    *)
(* encodings; what keeps it is the store: a peer that is known has its     *)
(* row, and neither the cache nor a reader that is about to fill it holds  *)
(* that a stored key is missing.  The last holds because a reader keeps    *)
(* its shared lock until it has filled the cache.                          *)
(***************************************************************************)

\* What the store, the cache and the running calls know agrees.
KeysAgree ==
  /\ known \subseteq pubKeys
  /\ \A b \in DOMAIN pubKeysCache : b \in known => pubKeysCache[b] = b
  /\ \A d \in Decodings : decoding[d].stage = "committed" => decoding[d].from \in pubKeys
  /\ \A e \in Encodings : encoding[e].stage = "read" =>
       /\ encoding[e].key \in {encoding[e].msg.to, NoKey}
       /\ encoding[e].key = NoKey => encoding[e].msg.to \notin pubKeys
       /\ encoding[e].msg.knew => encoding[e].key # NoKey
       /\ encoding[e].msg.of = "request" => encoding[e].msg.shared

CodecInv == CodecTypeOK /\ KeysAgree /\ EncryptedOnceKnown

-----------------------------------------------------------------------------
\* The LRU cache after Add holds the new entry and some of the old ones.
LEMMA CacheAddKeeps ==
  ASSUME NEW b, NEW key, CacheAdd(b, key)
  PROVE  /\ DOMAIN pubKeysCache' \subseteq DOMAIN pubKeysCache \cup {b}
         /\ \A x \in DOMAIN pubKeysCache' :
              pubKeysCache'[x] = IF x = b THEN key ELSE pubKeysCache[x]
<1> DEFINE new == [x \in DOMAIN pubKeysCache \cup {b} |->
                     IF x = b THEN key ELSE pubKeysCache[x]]
<1>1. CASE Cardinality(DOMAIN new) <= CacheSize
  <2>1. pubKeysCache' = new
    BY <1>1 DEF CacheAdd
  <2> QED BY <2>1
<1>2. CASE ~ (Cardinality(DOMAIN new) <= CacheSize)
  <2>1. PICK out \in DOMAIN new \ {b} :
          pubKeysCache' = [x \in DOMAIN new \ {out} |-> new[x]]
    BY <1>2 DEF CacheAdd
  <2> QED BY <2>1
<1> QED BY <1>1, <1>2

\* The empty store has nothing to disagree about.
LEMMA CodecInitInv == CodecInit => CodecInv
BY DEF CodecInit, CodecInv, CodecTypeOK, KeysAgree, EncryptedOnceKnown, EncodingStages,
       DecodingStages

\* What is in the clear for lack of a shared key is no request.
ClearIsResponse(msg, sent) ==
  msg.knew /\ sent = "plain" => msg.of = "response" /\ ~msg.shared

\* A message for a peer whose key is known is in the clear for lack of a shared key.
LEMMA SentAsKnown ==
  ASSUME NEW msg \in Outgoing, NEW key, msg.knew => key # NoKey,
         msg.of = "request" => msg.shared,
         NEW sent, sent = IF key # NoKey /\ msg.shared THEN "encrypted" ELSE "plain"
  PROVE  sent \in {"plain", "encrypted"} /\ ClearIsResponse(msg, sent)
BY DEF Outgoing, ClearIsResponse

\* An encoding that finds the key in the cache or reads it from the table knows
\* of every peer that is known.
LEMMA EncodeMessageKeeps ==
  ASSUME CodecInv, NEW e \in Encodings, NEW msg \in Outgoing, EncodeMessage(e, msg),
         msg.knew = (msg.to \in known), msg.of = "request" => msg.shared,
         decoding' \in [Decodings -> DecodingStages],
         \A d \in Decodings : decoding'[d] = decoding[d] \/ decoding'[d] = [stage |-> "ended"]
  PROVE  CodecInv'
<1> USE KeyAssumption
<1>0. UNCHANGED <<pubKeys, pubKeysCache, known, restarts>> /\ msg.to \in Bots
  BY DEF EncodeMessage, Outgoing
<1>1. PICK r \in EncodingStages :
        /\ encoding' = [encoding EXCEPT ![e] = r]
        /\ r.stage = "read" => /\ r.key \in {r.msg.to, NoKey}
                               /\ r.key = NoKey => r.msg.to \notin pubKeys
                               /\ r.msg.knew => r.key # NoKey
                               /\ r.msg.of = "request" => r.msg.shared
        /\ r.stage = "done" => ClearIsResponse(r.msg, r.sent)
  <2>1. CASE msg.to \in DOMAIN pubKeysCache /\ Encode(e, msg, pubKeysCache[msg.to])
    <3>1. PICK sent : sent = IF pubKeysCache[msg.to] # NoKey /\ msg.shared
                             THEN "encrypted" ELSE "plain"
      OBVIOUS
    <3> DEFINE r == [stage |-> "done", msg |-> msg, sent |-> sent]
    <3>2. encoding' = [encoding EXCEPT ![e] = r]
      BY <2>1, <3>1 DEF Encode
    <3>3. msg.knew => pubKeysCache[msg.to] # NoKey
      BY <2>1, <1>0 DEF CodecInv, KeysAgree
    <3>4. sent \in {"plain", "encrypted"} /\ ClearIsResponse(msg, sent)
      BY <3>1, <3>3, SentAsKnown
    <3>5. r \in EncodingStages /\ r.stage = "done" /\ r.msg = msg /\ r.sent = sent
      BY <3>4 DEF EncodingStages
    <3> HIDE DEF r
    <3> QED BY <3>2, <3>4, <3>5
  <2>2. CASE msg.to \notin DOMAIN pubKeysCache /\
             encoding' = [encoding EXCEPT ![e] =
               [stage |-> "read", msg |-> msg, key |-> IF msg.to \in pubKeys THEN msg.to ELSE NoKey]]
    <3>1. PICK key : key = IF msg.to \in pubKeys THEN msg.to ELSE NoKey
      OBVIOUS
    <3> DEFINE r == [stage |-> "read", msg |-> msg, key |-> key]
    <3>2. encoding' = [encoding EXCEPT ![e] = r]
      BY <2>2, <3>1
    <3>3. /\ key \in {msg.to, NoKey} /\ (key = NoKey => msg.to \notin pubKeys)
          /\ (msg.knew => key # NoKey)
      BY <1>0, <3>1 DEF CodecInv, KeysAgree
    <3>4. r \in EncodingStages /\ r.stage = "read" /\ r.msg = msg /\ r.key = key
      BY <1>0, <3>3 DEF EncodingStages
    <3> HIDE DEF r
    <3> QED BY <3>2, <3>3, <3>4
  <2>3. CASE encoding' = [encoding EXCEPT ![e] = [stage |-> "failed"]]
    <3> DEFINE r == [stage |-> "failed"]
    <3>1. r \in EncodingStages /\ r.stage = "failed"
      BY DEF EncodingStages
    <3>2. encoding' = [encoding EXCEPT ![e] = r]
      BY <2>3
    <3> HIDE DEF r
    <3> QED BY <3>1, <3>2
  <2> QED BY <2>1, <2>2, <2>3 DEF EncodeMessage
<1>2. /\ encoding' \in [Encodings -> EncodingStages]
      /\ \A x \in Encodings : encoding'[x] = IF x = e THEN r ELSE encoding[x]
  BY <1>1 DEF CodecInv, CodecTypeOK
<1>3. CodecTypeOK'
  BY <1>0, <1>2 DEF CodecInv, CodecTypeOK
<1>4. \A d \in Decodings : decoding'[d].stage = "committed" => decoding'[d] = decoding[d]
  OBVIOUS
<1>5. KeysAgree'
  BY <1>0, <1>1, <1>2, <1>4 DEF CodecInv, KeysAgree
<1>6. EncryptedOnceKnown'
  BY <1>1, <1>2 DEF CodecInv, EncryptedOnceKnown, ClearIsResponse
<1> QED BY <1>3, <1>5, <1>6 DEF CodecInv

\* A request has a shared key of its own.
LEMMA SendRequestMessageKeeps ==
  ASSUME CodecInv, NEW e \in Encodings, NEW b \in Bots, SendRequestMessage(e, b)
  PROVE  CodecInv'
<1>0. (b \in known) \in BOOLEAN
  OBVIOUS
<1>1. PICK knew \in BOOLEAN : knew = (b \in known)
  BY <1>0, Zenon
<1> DEFINE msg == [of |-> "request", shared |-> TRUE, to |-> b, knew |-> knew]
<1>2. EncodeMessage(e, msg) /\ decoding' = decoding
  BY <1>1 DEF SendRequestMessage
<1>3. msg \in Outgoing /\ msg.to = b /\ msg.knew = knew /\ msg.shared
  BY DEF Outgoing
<1>4. decoding' \in [Decodings -> DecodingStages]
  BY <1>2 DEF CodecInv, CodecTypeOK
<1> HIDE DEF msg
<1> QED BY <1>1, <1>2, <1>3, <1>4, EncodeMessageKeeps

\* A response has the shared key of its request, if any.
LEMMA respondKeeps ==
  ASSUME CodecInv, NEW e \in Encodings, NEW d \in Decodings, respond(e, d)
  PROVE  CodecInv'
<1>1. decoding[d] \in DecodingStages /\ decoding[d].stage = "decoded"
  BY DEF respond, CodecInv, CodecTypeOK
<1>2. PICK b \in Bots, shared \in BOOLEAN : b = decoding[d].from /\ shared = decoding[d].shared
  BY <1>1 DEF DecodingStages
<1>0. (b \in known) \in BOOLEAN
  OBVIOUS
<1>3. PICK knew \in BOOLEAN : knew = (b \in known)
  BY <1>0, Zenon
<1> DEFINE msg == [of |-> "response", shared |-> shared, to |-> b, knew |-> knew]
<1>4. EncodeMessage(e, msg) /\ decoding' = [decoding EXCEPT ![d] = [stage |-> "ended"]]
  BY <1>2, <1>3 DEF respond
<1>5. msg \in Outgoing /\ msg.to = b /\ msg.knew = knew /\ msg.of # "request"
  BY DEF Outgoing
<1>6. decoding' \in [Decodings -> DecodingStages]
  BY <1>4 DEF CodecInv, CodecTypeOK, DecodingStages
<1>7. \A x \in Decodings : decoding'[x] = decoding[x] \/ decoding'[x] = [stage |-> "ended"]
  BY <1>4 DEF CodecInv, CodecTypeOK
<1> HIDE DEF msg
<1> QED BY <1>3, <1>4, <1>5, <1>6, <1>7, EncodeMessageKeeps

\* The reader fills the cache with what still holds, as its lock has kept every
\* commit out.
LEMMA getBotPubKeyKeeps ==
  ASSUME CodecInv, NEW e \in Encodings, getBotPubKey(e)
  PROVE  CodecInv'
<1> USE KeyAssumption
<1> DEFINE to == encoding[e].msg.to
           key == encoding[e].key
<1>0. UNCHANGED <<pubKeys, decoding, known, restarts>>
  BY DEF getBotPubKey
<1>1. /\ encoding[e].stage = "read" /\ to \in Bots
      /\ key \in {to, NoKey} /\ (key = NoKey => to \notin pubKeys)
      /\ encoding[e].msg.knew => key # NoKey
      /\ encoding[e].msg.of = "request" => encoding[e].msg.shared
      /\ encoding[e].msg \in Outgoing
  <2>1. encoding[e].stage = "read" /\ encoding[e] \in EncodingStages
    BY DEF getBotPubKey, CodecInv, CodecTypeOK
  <2>2. encoding[e].msg \in Outgoing
    BY <2>1 DEF EncodingStages
  <2>3. to \in Bots
    BY <2>2 DEF Outgoing
  <2> QED BY <2>1, <2>2, <2>3 DEF CodecInv, KeysAgree
<1>2. PICK r \in EncodingStages :
        /\ encoding' = [encoding EXCEPT ![e] = r]
        /\ r.stage = "done" /\ ClearIsResponse(r.msg, r.sent)
  <2>1. PICK sent : sent = IF key # NoKey /\ encoding[e].msg.shared THEN "encrypted" ELSE "plain"
    OBVIOUS
  <2> DEFINE r == [stage |-> "done", msg |-> encoding[e].msg, sent |-> sent]
  <2>2. encoding' = [encoding EXCEPT ![e] = r]
    BY <2>1 DEF getBotPubKey, Encode
  <2>3. sent \in {"plain", "encrypted"} /\ ClearIsResponse(encoding[e].msg, sent)
    BY <1>1, <2>1, SentAsKnown
  <2>4. r \in EncodingStages /\ r.stage = "done" /\ r.msg = encoding[e].msg /\ r.sent = sent
    BY <1>1, <2>3 DEF EncodingStages
  <2> HIDE DEF r
  <2> QED BY <2>2, <2>3, <2>4
<1>3. /\ encoding' \in [Encodings -> EncodingStages]
      /\ \A x \in Encodings : encoding'[x] = IF x = e THEN r ELSE encoding[x]
  BY <1>2 DEF CodecInv, CodecTypeOK
<1>4. /\ DOMAIN pubKeysCache' \subseteq DOMAIN pubKeysCache \cup {to}
      /\ \A x \in DOMAIN pubKeysCache' :
           pubKeysCache'[x] = IF x = to THEN key ELSE pubKeysCache[x]
  <2>1. CacheAdd(to, key)
    BY DEF getBotPubKey
  <2> QED BY <2>1, CacheAddKeeps
<1>5. CodecTypeOK'
  BY <1>0, <1>1, <1>3, <1>4 DEF CodecInv, CodecTypeOK
<1>6. KeysAgree'
  BY <1>0, <1>1, <1>2, <1>3, <1>4 DEF CodecInv, KeysAgree
<1>7. EncryptedOnceKnown'
  BY <1>2, <1>3 DEF CodecInv, EncryptedOnceKnown, ClearIsResponse
<1> QED BY <1>5, <1>6, <1>7 DEF CodecInv

\* A decoding that has only checked its message touches no key.
LEMMA DecodeKeeps ==
  ASSUME CodecInv, NEW d \in Decodings, NEW b \in Bots, NEW m \in Messages,
         DecodeAndVerifyMessage(d, b, m)
  PROVE  CodecInv'
<1>0. UNCHANGED <<pubKeys, pubKeysCache, encoding, known, restarts>>
  BY DEF DecodeAndVerifyMessage
<1>1. PICK r \in DecodingStages :
        decoding' = [decoding EXCEPT ![d] = r] /\ r.stage # "committed"
  <2> DEFINE good == m.version = 1 /\ m.signer = "sender" /\ decodeAndVerifyMessageV1(m)
             shared == m.sharedKey # "none"
             r == IF good THEN [stage |-> "verified", from |-> b, type |-> m.type, shared |-> shared]
                  ELSE [stage |-> "failed"]
  <2>1. decoding' = [decoding EXCEPT ![d] = r]
    BY DEF DecodeAndVerifyMessage
  <2>2. r \in DecodingStages /\ r.stage # "committed"
    <3>1. good => m.type \in {"request", "response"}
      BY DEF decodeAndVerifyMessageV1, UnmarshalContent
    <3>2. shared \in BOOLEAN
      OBVIOUS
    <3> HIDE DEF good, shared
    <3> QED BY <3>1, <3>2 DEF DecodingStages
  <2> HIDE DEF r
  <2> QED BY <2>1, <2>2
<1>2. /\ decoding' \in [Decodings -> DecodingStages]
      /\ \A x \in Decodings : decoding'[x] = IF x = d THEN r ELSE decoding[x]
  BY <1>1 DEF CodecInv, CodecTypeOK
<1>3. CodecTypeOK'
  BY <1>0, <1>2 DEF CodecInv, CodecTypeOK
<1>4. KeysAgree'
  BY <1>0, <1>1, <1>2 DEF CodecInv, KeysAgree
<1>5. EncryptedOnceKnown'
  BY <1>0 DEF CodecInv, EncryptedOnceKnown
<1> QED BY <1>3, <1>4, <1>5 DEF CodecInv

\* A key is committed when nobody holds that it is missing.
LEMMA CommitPubKeyKeeps ==
  ASSUME CodecInv, NEW d \in Decodings, CommitPubKey(d)
  PROVE  CodecInv'
<1>0. UNCHANGED <<pubKeysCache, encoding, known, restarts>>
  BY DEF CommitPubKey
<1>1. decoding[d].from \in Bots /\ decoding[d] \in DecodingStages
  BY DEF CommitPubKey, CodecInv, CodecTypeOK, DecodingStages
<1>2. PICK r \in DecodingStages :
        /\ decoding' = [decoding EXCEPT ![d] = r]
        /\ \/ /\ r.stage = "committed" /\ r.from = decoding[d].from
              /\ pubKeys' = pubKeys \cup {decoding[d].from} /\ Readers = {}
           \/ r = [stage |-> "failed"] /\ UNCHANGED pubKeys
  <2>1. CASE /\ Readers = {} /\ pubKeys' = pubKeys \cup {decoding[d].from}
             /\ decoding' = [decoding EXCEPT ![d].stage = "committed"]
    <3> DEFINE r == [decoding[d] EXCEPT !.stage = "committed"]
    <3>1. r \in DecodingStages /\ r.stage = "committed" /\ r.from = decoding[d].from
      BY <1>1 DEF CommitPubKey, DecodingStages
    <3>2. decoding' = [decoding EXCEPT ![d] = r]
      BY <2>1
    <3> HIDE DEF r
    <3> QED BY <2>1, <3>1, <3>2
  <2>2. CASE decoding' = [decoding EXCEPT ![d] = [stage |-> "failed"]] /\ UNCHANGED pubKeys
    BY <2>2 DEF DecodingStages
  <2> QED BY <2>1, <2>2 DEF CommitPubKey
<1>3. /\ decoding' \in [Decodings -> DecodingStages]
      /\ \A x \in Decodings : decoding'[x] = IF x = d THEN r ELSE decoding[x]
  BY <1>2 DEF CodecInv, CodecTypeOK
<1>4. CodecTypeOK'
  BY <1>0, <1>1, <1>2, <1>3 DEF CodecInv, CodecTypeOK
<1>5. pubKeys \subseteq pubKeys' /\ (pubKeys' # pubKeys => Readers = {})
  BY <1>2
<1>6. KeysAgree'
  <2>1. \A x \in Decodings : decoding'[x].stage = "committed" => decoding'[x].from \in pubKeys'
    BY <1>2, <1>3, <1>5 DEF CodecInv, KeysAgree
  <2>2. \A x \in Encodings : encoding[x].stage = "read" /\ encoding[x].key = NoKey
                               => encoding[x].msg.to \notin pubKeys'
    BY <1>5 DEF CodecInv, KeysAgree, Readers
  <2> QED BY <1>0, <1>5, <2>1, <2>2 DEF CodecInv, KeysAgree
<1>7. EncryptedOnceKnown'
  BY <1>0 DEF CodecInv, EncryptedOnceKnown
<1> QED BY <1>4, <1>6, <1>7 DEF CodecInv

\* A peer becomes known with its row stored and its key, or nothing, cached.
LEMMA setBotPubKeyKeeps ==
  ASSUME CodecInv, NEW d \in Decodings, setBotPubKey(d)
  PROVE  CodecInv'
<1> USE KeyAssumption
<1> DEFINE b == decoding[d].from
<1>0. UNCHANGED <<pubKeys, encoding, restarts>> /\ known' = known \cup {b}
  BY DEF setBotPubKey
<1>1. b \in Bots /\ b \in pubKeys
  <2>1. decoding[d].stage = "committed" /\ decoding[d] \in DecodingStages
    BY DEF setBotPubKey, CodecInv, CodecTypeOK
  <2> QED BY <2>1 DEF CodecInv, KeysAgree, DecodingStages
<1>2. /\ decoding' \in [Decodings -> DecodingStages]
      /\ \A x \in Decodings : decoding'[x].stage = "committed" => decoding'[x] = decoding[x]
  <2>1. decoding[d].stage = "committed" /\ decoding[d] \in DecodingStages
    BY DEF setBotPubKey, CodecInv, CodecTypeOK
  <2>2. PICK r : r = [decoding[d] EXCEPT !.stage = "decoded"]
    OBVIOUS
  <2>3. r \in DecodingStages /\ r.stage = "decoded"
    BY <2>1, <2>2 DEF DecodingStages
  <2>4. decoding' = [decoding EXCEPT ![d] = r]
    BY <2>2 DEF setBotPubKey
  <2> QED BY <2>3, <2>4 DEF CodecInv, CodecTypeOK
<1>3. /\ DOMAIN pubKeysCache' \subseteq DOMAIN pubKeysCache \cup {b}
      /\ \A x \in DOMAIN pubKeysCache' :
           pubKeysCache'[x] = IF x = b THEN b ELSE pubKeysCache[x]
  <2>1. CacheAdd(b, b)
    BY DEF setBotPubKey
  <2> QED BY <2>1, CacheAddKeeps
<1>4. CodecTypeOK'
  BY <1>0, <1>1, <1>2, <1>3 DEF CodecInv, CodecTypeOK
<1>5. KeysAgree'
  BY <1>0, <1>1, <1>2, <1>3 DEF CodecInv, KeysAgree
<1>6. EncryptedOnceKnown'
  BY <1>0 DEF CodecInv, EncryptedOnceKnown
<1> QED BY <1>4, <1>5, <1>6 DEF CodecInv

\* A restart forgets the cache and the calls, not the table.
LEMMA RestartCodecKeeps ==
  ASSUME CodecInv, RestartCodec
  PROVE  CodecInv'
<1>1. /\ \A e \in Encodings : \/ encoding'[e] = encoding[e] /\ encoding[e].stage # "read"
                              \/ encoding'[e] = [stage |-> "failed"]
      /\ encoding' \in [Encodings -> EncodingStages]
  BY DEF RestartCodec, CodecInv, CodecTypeOK, EncodingStages
<1>2. /\ \A d \in Decodings : \/ decoding'[d] = decoding[d] /\ decoding[d].stage = "idle"
                              \/ decoding'[d] = [stage |-> "failed"]
      /\ decoding' \in [Decodings -> DecodingStages]
  BY DEF RestartCodec, CodecInv, CodecTypeOK, DecodingStages
<1>3. UNCHANGED <<pubKeys, known>> /\ DOMAIN pubKeysCache' = {} /\ restarts' = restarts + 1
  BY DEF RestartCodec
<1>4. CodecTypeOK'
  BY <1>1, <1>2, <1>3 DEF CodecInv, CodecTypeOK
<1>5. KeysAgree'
  BY <1>1, <1>2, <1>3 DEF CodecInv, KeysAgree
<1>6. EncryptedOnceKnown'
  BY <1>1 DEF CodecInv, EncryptedOnceKnown
<1> QED BY <1>4, <1>5, <1>6 DEF CodecInv

\* Every step of the codec keeps the agreement.
LEMMA CodecNextInv == CodecInv /\ [CodecNext]_codecVars => CodecInv'
<1> SUFFICES ASSUME CodecInv, [CodecNext]_codecVars PROVE CodecInv'
  OBVIOUS
<1>1. CASE \E e \in Encodings : getBotPubKey(e)
  BY <1>1, getBotPubKeyKeeps
<1>2. CASE \E e \in Encodings : \/ \E b \in Bots : SendRequestMessage(e, b)
                              \/ \E d \in Decodings : respond(e, d)
  BY <1>2, SendRequestMessageKeeps, respondKeeps
<1>3. CASE \E d \in Decodings, b \in Bots, m \in Messages : DecodeAndVerifyMessage(d, b, m)
  BY <1>3, DecodeKeeps
<1>4. CASE \E d \in Decodings : CommitPubKey(d)
  BY <1>4, CommitPubKeyKeeps
<1>5. CASE \E d \in Decodings : setBotPubKey(d)
  BY <1>5, setBotPubKeyKeeps
<1>6. CASE RestartCodec
  BY <1>6, RestartCodecKeeps
<1>7. CASE UNCHANGED codecVars
  BY <1>7 DEF codecVars, CodecInv, CodecTypeOK, KeysAgree, EncryptedOnceKnown
<1> QED BY <1>1, <1>2, <1>3, <1>4, <1>5, <1>6, <1>7 DEF CodecNext

\* The codec keeps its types, and a cached key is that of its bot.
THEOREM CodecTypeCorrect == CodecSpec => []CodecTypeOK
<1>1. CodecInv => CodecTypeOK
  BY DEF CodecInv
<1> QED BY <1>1, CodecInitInv, CodecNextInv, PTL DEF CodecSpec

\* The store of keys, its cache and the calls that use them agree in every state.
THEOREM KeysAgreeHolds == CodecSpec => []KeysAgree
<1>1. CodecInv => KeysAgree
  BY DEF CodecInv
<1> QED BY <1>1, CodecInitInv, CodecNextInv, PTL DEF CodecSpec

\* Once a message of a peer has been decoded, no request to it goes out in the
\* clear, and no response but to a request that came in the clear, whatever reads,
\* commits, evictions and restarts overlap.
THEOREM EncryptedOnceKnownHolds == CodecSpec => []EncryptedOnceKnown
<1>1. CodecInv => EncryptedOnceKnown
  BY DEF CodecInv
<1> QED BY <1>1, CodecInitInv, CodecNextInv, PTL DEF CodecSpec

-----------------------------------------------------------------------------
(***************************************************************************)
(* PostedIsReadable, for any bots, rooms, sends and restarts.  A room that *)
(* is cached is not looked at again, so that the property has to hold of   *)
(* the caches and of the sends under way too: each holds a room that its   *)
(* recipient reads.  It gets there because a bot that sends is running,    *)
(* and a running bot is in no encrypted room; it stays so because only     *)
(* encrypted rooms are left.                                               *)
(***************************************************************************)

SendStages ==
  [stage : {"idle", "done"}]
  \cup [stage : {"finding", "creating", "sending", "done"},
        by : Messengers, to : Messengers, room : Rooms \cup {NoRoom}]

\* Every variable holds a value of the shape the code declares for it.
RoomsTypeOK ==
  /\ joined \in [Rooms -> SUBSET Messengers]
  /\ invites \subseteq Messengers \X Rooms
  /\ unjoined \subseteq Messengers \X Rooms
  /\ running \subseteq Messengers
  /\ starts \in Nat
  /\ roomsCache \in [Messengers -> [Messengers -> Rooms \cup {NoRoom}]]
  /\ sending \in [Sends -> SendStages]
  /\ created \subseteq Rooms
  /\ posted \subseteq Rooms \X Messengers

\* An existing, unencrypted room that a bot is in, or is invited to, or has
\* failed to join.
Readable(r, to) ==
  /\ r \in created \ Encrypted
  /\ to \in joined[r] \/ <<to, r>> \in invites \/ <<to, r>> \in unjoined

\* A running bot is in no encrypted room, and only running bots send.
RunningIsClean ==
  /\ Encrypted \subseteq created
  /\ \A b \in running, r \in Encrypted : b \notin joined[r]
  /\ \A s \in Sends : sending[s].stage \in {"finding", "creating", "sending"} =>
                        sending[s].by \in running

\* The rooms in caches, in sends and of events are readable.
UsedIsReadable ==
  /\ \A b, to \in Messengers : roomsCache[b][to] # NoRoom => Readable(roomsCache[b][to], to)
  /\ \A s \in Sends : sending[s].stage = "sending" => Readable(sending[s].room, sending[s].to)
  /\ \A r \in Rooms, to \in Messengers : <<r, to>> \in posted => Readable(r, to)

RoomsInv == RoomsTypeOK /\ RunningIsClean /\ UsedIsReadable

-----------------------------------------------------------------------------
\* Before the first start nothing is cached, sent or posted.
LEMMA RoomsInitInv == RoomsInit => RoomsInv
<1> SUFFICES ASSUME RoomsInit PROVE RoomsInv
  OBVIOUS
<1> USE RoomsAssumption
<1>1. RoomsTypeOK
  BY DEF RoomsInit, RoomsTypeOK, SendStages, NewCache
<1>2. RunningIsClean
  BY DEF RoomsInit, RunningIsClean
<1>3. UsedIsReadable
  BY DEF RoomsInit, UsedIsReadable, NewCache
<1> QED BY <1>1, <1>2, <1>3 DEF RoomsInv

\* A start leaves encrypted rooms only, and succeeds when it has left them all.
LEMMA StartRoomsKeeps ==
  ASSUME RoomsInv, NEW b \in Messengers, StartRooms(b)
  PROVE  RoomsInv'
<1> USE RoomsAssumption
<1>0. /\ UNCHANGED <<invites, unjoined, sending, created, posted>> /\ starts' = starts + 1
      /\ roomsCache' = [roomsCache EXCEPT ![b] = NewCache]
  BY DEF StartRooms
<1>1. PICK left \in SUBSET {r \in JoinedRooms(b) : IsRoomEncrypted(r)} :
        /\ joined' = [r \in Rooms |-> IF r \in left THEN joined[r] \ {b} ELSE joined[r]]
        /\ \/ removeEncryptedRooms(b, left) /\ running' = running \cup {b}
           \/ UNCHANGED running
  BY DEF StartRooms
<1>2. RoomsTypeOK'
  BY <1>0, <1>1 DEF RoomsInv, RoomsTypeOK, NewCache
<1>3. \A r \in Rooms : /\ joined'[r] \subseteq joined[r]
                       /\ r \notin Encrypted => joined'[r] = joined[r]
  BY <1>1 DEF IsRoomEncrypted
<1>4. RunningIsClean'
  <2>1. \A r \in Encrypted : b \in running' /\ b \notin running => b \notin joined'[r]
    <3> SUFFICES ASSUME NEW r \in Encrypted, b \in running', b \notin running
                 PROVE  b \notin joined'[r]
      OBVIOUS
    <3>1. {x \in JoinedRooms(b) : IsRoomEncrypted(x)} = left
      BY <1>1 DEF removeEncryptedRooms
    <3>2. b \in joined[r] => r \in left
      BY <3>1 DEF JoinedRooms, IsRoomEncrypted, RoomsInv, RunningIsClean
    <3> QED BY <1>1, <3>2
  <2>2. \A x \in running : \A r \in Encrypted : x \notin joined'[r]
    BY <1>3 DEF RoomsInv, RunningIsClean
  <2>3. running \subseteq running' /\ running' \subseteq running \cup {b}
    BY <1>1
  <2> QED BY <1>0, <2>1, <2>2, <2>3 DEF RoomsInv, RunningIsClean
<1>5. \A r, to : Readable(r, to) => Readable(r, to)'
  BY <1>0, <1>3 DEF Readable, RoomsInv, RoomsTypeOK
<1>6. UsedIsReadable'
  <2>1. \A x, to \in Messengers : roomsCache'[x][to] \in {NoRoom, roomsCache[x][to]}
    BY <1>0 DEF RoomsInv, RoomsTypeOK, NewCache
  <2> QED BY <1>0, <1>5, <2>1 DEF RoomsInv, UsedIsReadable
<1> QED BY <1>2, <1>4, <1>6 DEF RoomsInv

\* The sends of a bot that stops are over.
LEMMA StopRoomsKeeps ==
  ASSUME RoomsInv, NEW b \in Messengers, StopRooms(b)
  PROVE  RoomsInv'
<1>0. /\ UNCHANGED <<joined, invites, unjoined, starts, roomsCache, created, posted>>
      /\ running' = running \ {b}
  BY DEF StopRooms
<1>1. /\ sending' \in [Sends -> SendStages]
      /\ \A s \in Sends : \/ sending'[s] = [stage |-> "done"]
                          \/ /\ sending'[s] = sending[s]
                             /\ sending[s].stage \in {"finding", "creating", "sending"} =>
                                  sending[s].by # b
  BY DEF StopRooms, RoomsInv, RoomsTypeOK, SendStages
<1>2. RoomsTypeOK'
  BY <1>0, <1>1 DEF RoomsInv, RoomsTypeOK
<1>3. RunningIsClean'
  BY <1>0, <1>1 DEF RoomsInv, RunningIsClean
<1>4. \A r, to : Readable(r, to) => Readable(r, to)'
  BY <1>0 DEF Readable
<1>5. UsedIsReadable'
  BY <1>0, <1>1, <1>4 DEF RoomsInv, UsedIsReadable
<1> QED BY <1>2, <1>3, <1>5 DEF RoomsInv

\* An invite is handled: the bot joins an unencrypted room, or never will.
LEMMA InviteKeeps ==
  ASSUME RoomsInv, NEW b \in Messengers, NEW r \in Rooms, stateMemberEventHandler(b, r)
  PROVE  RoomsInv'
<1>0. /\ UNCHANGED <<running, starts, roomsCache, sending, created, posted>>
      /\ invites' = invites \ {<<b, r>>} /\ AcceptInvite(b, r)
  BY DEF stateMemberEventHandler
<1>1. /\ RoomsTypeOK'
      /\ \A x \in Rooms : joined[x] \subseteq joined'[x]
      /\ \A x \in Encrypted : x \in Rooms => joined'[x] = joined[x]
      /\ unjoined \subseteq unjoined'
      /\ <<b, r>> \in unjoined' \/ b \in joined'[r]
  <2>1. CASE /\ ~IsRoomEncrypted(r) /\ joined' = [joined EXCEPT ![r] = @ \cup {b}]
             /\ UNCHANGED unjoined
    BY <1>0, <2>1 DEF RoomsInv, RoomsTypeOK, IsRoomEncrypted
  <2>2. CASE unjoined' = unjoined \cup {<<b, r>>} /\ UNCHANGED joined
    BY <1>0, <2>2 DEF RoomsInv, RoomsTypeOK
  <2> QED BY <1>0, <2>1, <2>2 DEF AcceptInvite
<1>2. RunningIsClean'
  BY <1>0, <1>1, RoomsAssumption DEF RoomsInv, RunningIsClean
<1>3. \A x, to : Readable(x, to) => Readable(x, to)'
  <2> SUFFICES ASSUME NEW x, NEW to, Readable(x, to) PROVE Readable(x, to)'
    OBVIOUS
  <2>1. <<to, x>> \in invites => <<to, x>> \in invites' \/ (to = b /\ x = r)
    BY <1>0
  <2> QED BY <1>0, <1>1, <2>1 DEF Readable, RoomsInv, RoomsTypeOK
<1>4. UsedIsReadable'
  BY <1>0, <1>3 DEF RoomsInv, UsedIsReadable
<1> QED BY <1>1, <1>2, <1>4 DEF RoomsInv

\* A send starts with the cached room, which is readable, or with none.
LEMMA SendMessageKeeps ==
  ASSUME RoomsInv, NEW s \in Sends, NEW b \in Messengers, NEW to \in Messengers,
         SendMessage(s, b, to)
  PROVE  RoomsInv'
<1>0. /\ UNCHANGED <<joined, invites, unjoined, running, starts, roomsCache, created, posted>>
      /\ b \in running
  BY DEF SendMessage
<1> DEFINE room == roomsCache[b][to]
           stage == IF room = NoRoom THEN "finding" ELSE "sending"
           rec == [stage |-> stage, by |-> b, to |-> to, room |-> room]
<1>1. /\ stage \in {"finding", "sending"} /\ (stage = "sending" => room # NoRoom)
      /\ room \in Rooms \cup {NoRoom}
  BY DEF RoomsInv, RoomsTypeOK
<1>2. sending' = [sending EXCEPT ![s] = rec]
  BY DEF SendMessage
<1> HIDE DEF stage, room
<1>3. /\ rec \in SendStages /\ rec.by = b /\ rec.to = to /\ rec.room = room
      /\ rec.stage = stage
  BY <1>1 DEF SendStages
<1> HIDE DEF rec
<1>4. /\ sending' \in [Sends -> SendStages]
      /\ \A x \in Sends : sending'[x] = IF x = s THEN rec ELSE sending[x]
  BY <1>2, <1>3 DEF RoomsInv, RoomsTypeOK
<1>5. RoomsTypeOK'
  BY <1>0, <1>4 DEF RoomsInv, RoomsTypeOK
<1>6. RunningIsClean'
  BY <1>0, <1>3, <1>4 DEF RoomsInv, RunningIsClean
<1>7. \A x, y : Readable(x, y) => Readable(x, y)'
  BY <1>0 DEF Readable
<1>8. stage = "sending" => Readable(room, to)
  BY <1>1 DEF RoomsInv, UsedIsReadable, room
<1>9. UsedIsReadable'
  BY <1>0, <1>3, <1>4, <1>7, <1>8 DEF RoomsInv, UsedIsReadable
<1> QED BY <1>5, <1>6, <1>9 DEF RoomsInv

\* A send that goes on has the stage and the room it is given.
LEMMA SendGoesOn ==
  ASSUME RoomsInv, NEW s \in Sends, sending[s].stage \in {"finding", "creating", "sending"},
         NEW stage \in {"creating", "sending", "done"}, NEW room \in Rooms \cup {NoRoom},
         SendGoes(s, stage, room)
  PROVE  /\ sending' \in [Sends -> SendStages]
         /\ \A x \in Sends \ {s} : sending'[x] = sending[x]
         /\ sending'[s].stage = stage /\ sending'[s].room = room
         /\ sending'[s].by = sending[s].by /\ sending'[s].to = sending[s].to
         /\ sending[s].by \in Messengers /\ sending[s].to \in Messengers
         /\ sending[s].room \in Rooms \cup {NoRoom}
<1> DEFINE was == sending[s]
           rec == [stage |-> stage, by |-> was.by, to |-> was.to, room |-> room]
<1>1. was \in [stage : {"finding", "creating", "sending", "done"},
               by : Messengers, to : Messengers, room : Rooms \cup {NoRoom}]
  BY DEF RoomsInv, RoomsTypeOK, SendStages
<1>2. [[was EXCEPT !.stage = stage] EXCEPT !.room = room] = rec
  <2> HIDE DEF was
  <2>1. was = [stage |-> was.stage, by |-> was.by, to |-> was.to, room |-> was.room]
    BY <1>1
  <2>2. [was EXCEPT !.stage = stage]
          = [stage |-> stage, by |-> was.by, to |-> was.to, room |-> was.room]
    BY <2>1
  <2>3. [[was EXCEPT !.stage = stage] EXCEPT !.room = room]
          = [[stage |-> stage, by |-> was.by, to |-> was.to, room |-> was.room]
               EXCEPT !.room = room]
    BY <2>2
  <2> QED BY <2>3
<1>3. sending' = [sending EXCEPT ![s] = rec]
  <2>1. sending \in [Sends -> SendStages]
    BY DEF RoomsInv, RoomsTypeOK
  <2>2. sending' = [sending EXCEPT ![s] = [[sending[s] EXCEPT !.stage = stage] EXCEPT !.room = room]]
    BY <2>1 DEF SendGoes
  <2> QED BY <1>2, <2>2
<1>4. rec \in SendStages
  BY <1>1 DEF SendStages
<1> QED BY <1>1, <1>3, <1>4 DEF RoomsInv, RoomsTypeOK

\* A running bot finds an unencrypted room that the recipient is in.
LEMMA FindKeeps ==
  ASSUME RoomsInv, NEW s \in Sends, findExistingRoomForRecipient(s)
  PROVE  RoomsInv'
<1> USE RoomsAssumption
<1>1. sending[s].by \in Messengers /\ sending[s].to \in Messengers
  BY DEF findExistingRoomForRecipient, getRoomForRecipient, RoomsInv, RoomsTypeOK, SendStages
<1>2. PICK b \in Messengers, to \in Messengers : b = sending[s].by /\ to = sending[s].to
  BY <1>1
<1>3. /\ UNCHANGED <<joined, invites, unjoined, running, starts, created, posted>>
      /\ sending[s].stage = "finding" /\ b \in running
  BY <1>2 DEF findExistingRoomForRecipient, RoomsInv, RunningIsClean
<1>4. \A x, y : Readable(x, y) => Readable(x, y)'
  BY <1>3 DEF Readable
<1>5. CASE \E r \in JoinedRooms(b) :
             /\ IsUserJoinedRoom(r, to)
             /\ CacheRoom(b, to, r) /\ SendGoes(s, "sending", r)
  <2>1. PICK r \in JoinedRooms(b) :
             /\ IsUserJoinedRoom(r, to)
             /\ CacheRoom(b, to, r) /\ SendGoes(s, "sending", r)
    BY <1>5
  <2>2. r \in Rooms /\ Readable(r, to)
    BY <1>3, <2>1 DEF JoinedRooms, IsUserJoinedRoom, Readable, RoomsInv, RoomsTypeOK, RunningIsClean
  <2>3. /\ sending' \in [Sends -> SendStages]
        /\ \A x \in Sends \ {s} : sending'[x] = sending[x]
        /\ sending'[s].stage = "sending" /\ sending'[s].room = r
        /\ sending'[s].by = b /\ sending'[s].to = to
        /\ b \in Messengers /\ to \in Messengers
    BY <1>3, <2>1, <2>2, <1>2, SendGoesOn
  <2>4. /\ roomsCache' \in [Messengers -> [Messengers -> Rooms \cup {NoRoom}]]
        /\ \A x, y \in Messengers : roomsCache'[x][y] = IF x = b /\ y = to THEN r ELSE roomsCache[x][y]
    BY <2>1, <2>2, <2>3 DEF CacheRoom, RoomsInv, RoomsTypeOK
  <2>5. RoomsTypeOK'
    BY <1>3, <2>3, <2>4 DEF RoomsInv, RoomsTypeOK
  <2>6. RunningIsClean'
    BY <1>3, <2>3 DEF RoomsInv, RunningIsClean
  <2>7. Readable(r, to)'
    BY <1>4, <2>2
  <2>8. UsedIsReadable'
    BY <1>3, <1>4, <2>3, <2>4, <2>7 DEF RoomsInv, UsedIsReadable
  <2> QED BY <2>5, <2>6, <2>8 DEF RoomsInv
<1>6. CASE SendGoes(s, "creating", NoRoom) /\ UNCHANGED roomsCache
  <2>1. /\ sending' \in [Sends -> SendStages]
        /\ \A x \in Sends \ {s} : sending'[x] = sending[x]
        /\ sending'[s].stage = "creating" /\ sending'[s].by = b
    BY <1>3, <1>6, <1>2, SendGoesOn
  <2>2. RoomsTypeOK'
    BY <1>3, <1>6, <2>1 DEF RoomsInv, RoomsTypeOK
  <2>3. RunningIsClean'
    BY <1>3, <2>1 DEF RoomsInv, RunningIsClean
  <2>4. UsedIsReadable'
    BY <1>3, <1>6, <1>4, <2>1 DEF RoomsInv, UsedIsReadable
  <2> QED BY <2>2, <2>3, <2>4 DEF RoomsInv
<1> QED BY <1>5, <1>6, <1>2 DEF findExistingRoomForRecipient

\* A created room is new, and its recipient is invited.
LEMMA CreateKeeps ==
  ASSUME RoomsInv, NEW s \in Sends, getRoomForRecipient(s)
  PROVE  RoomsInv'
<1> USE RoomsAssumption
<1>1. sending[s].by \in Messengers /\ sending[s].to \in Messengers
  BY DEF findExistingRoomForRecipient, getRoomForRecipient, RoomsInv, RoomsTypeOK, SendStages
<1>2. PICK b \in Messengers, to \in Messengers : b = sending[s].by /\ to = sending[s].to
  BY <1>1
<1>3. /\ UNCHANGED <<unjoined, running, starts, posted>>
      /\ sending[s].stage = "creating" /\ b \in running
  BY <1>2 DEF getRoomForRecipient, RoomsInv, RunningIsClean
<1>4. CASE \E r \in Rooms : /\ CreateRoomForUser(r, b, to) /\ CacheRoom(b, to, r)
                            /\ SendGoes(s, "sending", r)
  <2>1. PICK r \in Rooms : /\ CreateRoomForUser(r, b, to) /\ CacheRoom(b, to, r)
                           /\ SendGoes(s, "sending", r)
    BY <1>4
  <2>2. /\ sending' \in [Sends -> SendStages]
        /\ \A x \in Sends \ {s} : sending'[x] = sending[x]
        /\ sending'[s].stage = "sending" /\ sending'[s].room = r
        /\ sending'[s].by = b /\ sending'[s].to = to
        /\ b \in Messengers /\ to \in Messengers
    BY <1>3, <2>1, <1>2, SendGoesOn
  <2>3. /\ r \notin created /\ r \notin Encrypted /\ created' = created \cup {r}
        /\ joined' = [joined EXCEPT ![r] = {b}] /\ invites' = invites \cup {<<to, r>>}
    BY <2>1 DEF CreateRoomForUser, RoomsInv, RunningIsClean
  <2>4. /\ roomsCache' \in [Messengers -> [Messengers -> Rooms \cup {NoRoom}]]
        /\ \A x, y \in Messengers : roomsCache'[x][y] = IF x = b /\ y = to THEN r ELSE roomsCache[x][y]
    BY <2>1, <2>2 DEF CacheRoom, RoomsInv, RoomsTypeOK
  <2>5. \A x \in Rooms \ {r} : joined'[x] = joined[x]
    BY <2>3 DEF RoomsInv, RoomsTypeOK
  <2>6. RoomsTypeOK'
    BY <1>3, <2>2, <2>3, <2>4 DEF RoomsInv, RoomsTypeOK
  <2>7. RunningIsClean'
    BY <1>3, <2>2, <2>3, <2>5 DEF RoomsInv, RunningIsClean
  <2>8. \A x, y : Readable(x, y) => Readable(x, y)'
    BY <1>3, <2>3, <2>5 DEF Readable, RoomsInv, RoomsTypeOK
  <2>9. Readable(r, to)'
    BY <2>3 DEF Readable
  <2>10. UsedIsReadable'
    BY <1>3, <2>2, <2>4, <2>8, <2>9 DEF RoomsInv, UsedIsReadable
  <2> QED BY <2>6, <2>7, <2>10 DEF RoomsInv
<1>5. CASE SendGoes(s, "done", NoRoom) /\ UNCHANGED <<joined, invites, created, roomsCache>>
  <2>1. /\ sending' \in [Sends -> SendStages]
        /\ \A x \in Sends \ {s} : sending'[x] = sending[x]
        /\ sending'[s].stage = "done"
    BY <1>3, <1>5, <1>2, SendGoesOn
  <2>2. RoomsTypeOK'
    BY <1>3, <1>5, <2>1 DEF RoomsInv, RoomsTypeOK
  <2>3. RunningIsClean'
    BY <1>3, <1>5, <2>1 DEF RoomsInv, RunningIsClean
  <2>4. \A x, y : Readable(x, y) => Readable(x, y)'
    BY <1>3, <1>5 DEF Readable
  <2>5. UsedIsReadable'
    BY <1>3, <1>5, <2>1, <2>4 DEF RoomsInv, UsedIsReadable
  <2> QED BY <2>2, <2>3, <2>5 DEF RoomsInv
<1> QED BY <1>4, <1>5, <1>2 DEF getRoomForRecipient

\* Events go to the room the send has got.
LEMMA PostEventsKeeps ==
  ASSUME RoomsInv, NEW s \in Sends, PostEvents(s)
  PROVE  RoomsInv'
<1> USE RoomsAssumption
<1> DEFINE room == sending[s].room
           to == sending[s].to
<1>0. /\ UNCHANGED <<joined, invites, unjoined, running, starts, roomsCache, created>>
      /\ sending[s].stage = "sending" /\ Readable(room, to)
      /\ room \in Rooms \cup {NoRoom} /\ to \in Messengers
  BY DEF PostEvents, RoomsInv, RoomsTypeOK, SendStages, UsedIsReadable
<1>1. \A x, y : Readable(x, y) => Readable(x, y)'
  BY <1>0 DEF Readable
<1>2. CASE posted' = posted \cup {<<room, to>>} /\ UNCHANGED sending
  <2> HIDE DEF room, to
  <2>1. room \in Rooms
    BY <1>0 DEF Readable, RoomsInv, RoomsTypeOK
  <2>2. RoomsTypeOK'
    BY <1>0, <1>2, <2>1 DEF RoomsInv, RoomsTypeOK
  <2>3. RunningIsClean'
    BY <1>0, <1>2 DEF RoomsInv, RunningIsClean
  <2>4. \A x \in Rooms, y \in Messengers : <<x, y>> \in posted' => Readable(x, y)'
    BY <1>0, <1>1, <1>2 DEF RoomsInv, UsedIsReadable
  <2>5. UsedIsReadable'
    BY <1>0, <1>1, <1>2, <2>4 DEF RoomsInv, UsedIsReadable
  <2> QED BY <2>2, <2>3, <2>5 DEF RoomsInv
<1>3. CASE SendGoes(s, "done", NoRoom) /\ UNCHANGED posted
  <2>1. /\ sending' \in [Sends -> SendStages]
        /\ \A x \in Sends \ {s} : sending'[x] = sending[x]
        /\ sending'[s].stage = "done"
    BY <1>0, <1>3, SendGoesOn
  <2>2. RoomsTypeOK'
    BY <1>0, <1>3, <2>1 DEF RoomsInv, RoomsTypeOK
  <2>3. RunningIsClean'
    BY <1>0, <2>1 DEF RoomsInv, RunningIsClean
  <2>4. UsedIsReadable'
    BY <1>0, <1>1, <1>3, <2>1 DEF RoomsInv, UsedIsReadable
  <2> QED BY <2>2, <2>3, <2>4 DEF RoomsInv
<1> QED BY <1>2, <1>3 DEF PostEvents

\* An entry that leaves a cache is only looked for again.
LEMMA EvictRoomKeeps ==
  ASSUME RoomsInv, NEW b \in Messengers, NEW to \in Messengers, EvictRoom(b, to)
  PROVE  RoomsInv'
<1>0. UNCHANGED <<joined, invites, unjoined, running, starts, sending, created, posted>>
  BY DEF EvictRoom
<1>1. /\ roomsCache' \in [Messengers -> [Messengers -> Rooms \cup {NoRoom}]]
      /\ \A x, y \in Messengers : roomsCache'[x][y] \in {NoRoom, roomsCache[x][y]}
  BY DEF EvictRoom, CacheRoom, RoomsInv, RoomsTypeOK
<1>2. \A x, y : Readable(x, y) => Readable(x, y)'
  BY <1>0 DEF Readable
<1>3. RoomsTypeOK'
  BY <1>0, <1>1 DEF RoomsInv, RoomsTypeOK
<1>4. RunningIsClean'
  BY <1>0 DEF RoomsInv, RunningIsClean
<1>5. UsedIsReadable'
  BY <1>0, <1>1, <1>2 DEF RoomsInv, UsedIsReadable
<1> QED BY <1>3, <1>4, <1>5 DEF RoomsInv

\* Every step of a messenger keeps the rooms in use readable.
LEMMA RoomsNextInv == RoomsInv /\ [RoomsNext]_roomsVars => RoomsInv'
<1> SUFFICES ASSUME RoomsInv, [RoomsNext]_roomsVars PROVE RoomsInv'
  OBVIOUS
<1>1. CASE \E b \in Messengers : StartRooms(b) \/ StopRooms(b)
  BY <1>1, StartRoomsKeeps, StopRoomsKeeps
<1>2. CASE \E b \in Messengers, r \in Rooms : stateMemberEventHandler(b, r)
  BY <1>2, InviteKeeps
<1>3. CASE \E s \in Sends, b, to \in Messengers : SendMessage(s, b, to)
  BY <1>3, SendMessageKeeps
<1>4. CASE \E s \in Sends :
             findExistingRoomForRecipient(s) \/ getRoomForRecipient(s) \/ PostEvents(s)
  BY <1>4, FindKeeps, CreateKeeps, PostEventsKeeps
<1>5. CASE \E b, to \in Messengers : EvictRoom(b, to)
  BY <1>5, EvictRoomKeeps
<1>6. CASE UNCHANGED roomsVars
  BY <1>6 DEF roomsVars, RoomsInv, RoomsTypeOK, RunningIsClean, UsedIsReadable, Readable
<1> QED BY <1>1, <1>2, <1>3, <1>4, <1>5, <1>6 DEF RoomsNext

\* The messengers and their rooms keep their types.
THEOREM RoomsTypeCorrect == RoomsSpec => []RoomsTypeOK
<1>1. RoomsInv => RoomsTypeOK
  BY DEF RoomsInv
<1> QED BY <1>1, RoomsInitInv, RoomsNextInv, PTL DEF RoomsSpec

\* Everything sent is in an unencrypted room that its recipient reads, will
\* read once it handles its invite, or has failed to join, whatever rooms were
\* cached, created twice, left or joined meanwhile.
THEOREM PostedIsReadableHolds == RoomsSpec => []PostedIsReadable
<1>1. RoomsInv => PostedIsReadable
  <2> SUFFICES ASSUME RoomsInv, NEW p \in posted
               PROVE  /\ p[1] \notin Encrypted
                      /\ p[2] \in joined[p[1]] \/ <<p[2], p[1]>> \in invites
                           \/ <<p[2], p[1]>> \in unjoined
    BY DEF PostedIsReadable
  <2>1. p[1] \in Rooms /\ p[2] \in Messengers /\ p = <<p[1], p[2]>>
    BY DEF RoomsInv, RoomsTypeOK
  <2>2. Readable(p[1], p[2])
    BY <2>1 DEF RoomsInv, UsedIsReadable
  <2> QED BY <2>2 DEF Readable
<1> QED BY <1>1, RoomsInitInv, RoomsNextInv, PTL DEF RoomsSpec

-----------------------------------------------------------------------------
(***************************************************************************)
(* ServedIsAuthorized and UnservedWasChanged, for any services, requests   *)
(* and timeouts.  The first rests on what backs an entry of the cache and  *)
(* an answer of the chain that is on its way to it: a time at which the    *)
(* bot was allowed, not too long ago.  The second relates the registry,    *)
(* which is read once, to an account that changes under it.                *)
(***************************************************************************)

PlainQueries == [stage : {"checking", "refused", "sent", "fetching", "lost"}, ask : Asks]
DecidedQueries ==
  [stage : {"denied", "authorized", "answered", "unsupported", "lost"}, ask : Asks, at : Nat]
FetchedQueries == [stage : {"fetched", "lost"}, ask : Asks, at : Nat, allowed : BOOLEAN]
Answers ==
  {"none", "failure", "success", "invalid proto", "blockchain", "business process", "internal"}

\* Every variable holds a value of the shape the code declares for it.
AccessTypeOK ==
  /\ supported \subseteq ServiceNames /\ touched \subseteq ServiceNames
  /\ permitted \in BOOLEAN /\ plugin \in BOOLEAN /\ up \in BOOLEAN
  /\ time \in Nat /\ allowedAt \subseteq Nat /\ onChain \in Nat
  /\ services \subseteq ServiceNames
  /\ authCache \in [allowed : BOOLEAN, expiresAt : Nat]
  /\ query \in [Queries -> [stage : {"idle"}] \cup PlainQueries \cup DecidedQueries
                             \cup FetchedQueries]
  /\ answer \in [Queries -> Answers]

\* A positive entry of the cache goes back to a time at which the bot was allowed.
CacheBacked ==
  authCache.allowed =>
    \E t \in allowedAt : t <= time /\ authCache.expiresAt <= t + MaxCall + AuthTimeout

\* The registry is what the account supports, but for what has changed.
RegistryAgrees ==
  up => \A s \in ServiceNames \ touched : s \in services <=> s \in supported

\* A query: where it may be, what its service is and what its answer goes back to.
QueryAgrees(q) ==
  /\ query[q].stage \in AtSupplier => up
  /\ query[q].stage \in {"sent", "fetching", "fetched", "authorized"} =>
       query[q].ask.service \in supported \cup touched
  /\ query[q].stage = "fetched" =>
       /\ query[q].at <= time /\ time <= query[q].at + MaxCall
       /\ query[q].allowed => query[q].at \in allowedAt
  /\ query[q].stage \in {"authorized", "answered", "unsupported"} =>
       \E t \in allowedAt :
         t <= query[q].at /\ (query[q].at <= t + MaxCall \/ query[q].at < t + MaxCall + AuthTimeout)
  /\ query[q].stage = "unsupported" => query[q].ask.service \in touched

AccessInv ==
  /\ AccessTypeOK /\ CacheBacked /\ RegistryAgrees
  /\ permitted => time \in allowedAt
  /\ \A q \in Queries : QueryAgrees(q)

\* The chain and what the supplier keeps are well formed at first, and no query is made.
LEMMA AccessInitInv == AccessInit => AccessInv
<1> SUFFICES ASSUME AccessInit PROVE AccessInv
  OBVIOUS
<1>1. AccessTypeOK
  <2>1. /\ supported \subseteq ServiceNames /\ touched \subseteq ServiceNames
        /\ time \in Nat /\ onChain \in Nat /\ services \subseteq ServiceNames
    BY DEF AccessInit
  <2>2. permitted \in BOOLEAN /\ plugin \in BOOLEAN /\ up \in BOOLEAN
    BY DEF AccessInit
  <2>3. allowedAt \subseteq Nat
    BY DEF AccessInit
  <2>4. authCache \in [allowed : BOOLEAN, expiresAt : Nat]
    BY DEF AccessInit
  <2>5. query \in [Queries -> [stage : {"idle"}] \cup PlainQueries \cup DecidedQueries
                               \cup FetchedQueries]
    BY DEF AccessInit
  <2>6. answer \in [Queries -> Answers]
    BY DEF AccessInit, Answers
  <2> QED BY <2>1, <2>2, <2>3, <2>4, <2>5, <2>6 DEF AccessTypeOK
<1>2. CacheBacked
  BY DEF AccessInit, CacheBacked
<1>3. RegistryAgrees
  BY DEF AccessInit, RegistryAgrees
<1>4. permitted => time \in allowedAt
  BY DEF AccessInit
<1>5. ASSUME NEW q \in Queries PROVE QueryAgrees(q)
  <2>1. query[q].stage = "idle"
    BY DEF AccessInit
  <2> QED BY <2>1 DEF QueryAgrees, AtSupplier
<1> QED BY <1>1, <1>2, <1>3, <1>4, <1>5 DEF AccessInv

\* The checks of a caller's error give one of the answers.
LEMMA ErrorIsAnswer ==
  ASSUME NEW ask, NEW class
  PROVE  errorResponse(ask, class) \in Answers \ {"success", "none"}
BY DEF errorResponse, errorResponseV1, errorResponseV2, Answers

\* The supplier's response is one of the answers.
LEMMA ResponseIsAnswer ==
  ASSUME NEW ask, NEW r
  PROVE  validateAndRespond(ask, r) \in Answers
BY ErrorIsAnswer
   DEF validateAndRespond, DoServiceRequest, CallV1, CallV2, errorResponseV1, errorResponseV2, Answers

\* A query whose stage alone is changed keeps its other fields.
LEMMA StageSet ==
  ASSUME NEW r, NEW s
  PROVE  /\ r \in PlainQueries =>
              /\ [r EXCEPT !.stage = s].stage = s /\ [r EXCEPT !.stage = s].ask = r.ask
              /\ s \in {"checking", "refused", "sent", "fetching", "lost"} =>
                   [r EXCEPT !.stage = s] \in PlainQueries
         /\ r \in DecidedQueries =>
              /\ [r EXCEPT !.stage = s].stage = s /\ [r EXCEPT !.stage = s].ask = r.ask
              /\ [r EXCEPT !.stage = s].at = r.at
              /\ s \in {"denied", "authorized", "answered", "unsupported", "lost"} =>
                   [r EXCEPT !.stage = s] \in DecidedQueries
         /\ r \in FetchedQueries =>
              /\ [r EXCEPT !.stage = s].stage = s
              /\ s \in {"fetched", "lost"} => [r EXCEPT !.stage = s] \in FetchedQueries
<1>1. CASE r \in PlainQueries
  BY <1>1 DEF PlainQueries, DecidedQueries, FetchedQueries
<1>2. CASE r \in DecidedQueries
  BY <1>2 DEF PlainQueries, DecidedQueries, FetchedQueries
<1>3. CASE r \in FetchedQueries
  BY <1>3 DEF PlainQueries, DecidedQueries, FetchedQueries
<1> QED BY <1>1, <1>2, <1>3

\* A step of one query keeps the others.
LEMMA QueryStep ==
  ASSUME AccessInv, NEW q \in Queries, UNCHANGED <<chainVars, plugin, services, up>>,
         query'[q] \in [stage : {"idle"}] \cup PlainQueries \cup DecidedQueries \cup FetchedQueries,
         query' = [query EXCEPT ![q] = query'[q]],
         answer' \in [Queries -> Answers],
         authCache' \in [allowed : BOOLEAN, expiresAt : Nat],
         CacheBacked', QueryAgrees(q)'
  PROVE  AccessInv'
<1>1. /\ supported' = supported /\ permitted' = permitted /\ onChain' = onChain
      /\ touched' = touched /\ allowedAt' = allowedAt /\ time' = time
  BY DEF chainVars
<1>2. query' \in [Queries -> [stage : {"idle"}] \cup PlainQueries \cup DecidedQueries
                               \cup FetchedQueries]
  BY DEF AccessInv, AccessTypeOK
<1>3. AccessTypeOK'
  BY <1>1, <1>2 DEF AccessInv, AccessTypeOK
<1>4. RegistryAgrees' /\ (permitted => time \in allowedAt)'
  BY <1>1 DEF AccessInv, RegistryAgrees
<1>5. ASSUME NEW r \in Queries PROVE QueryAgrees(r)'
  <2>1. CASE r = q
    BY <2>1
  <2>2. CASE r # q
    <3>1. query'[r] = query[r]
      BY <2>2 DEF AccessInv, AccessTypeOK
    <3>2. QueryAgrees(r)
      BY DEF AccessInv
    <3> QED BY <1>1, <3>1, <3>2 DEF QueryAgrees
  <2> QED BY <2>1, <2>2
<1> QED BY <1>3, <1>4, <1>5 DEF AccessInv

\* The cache is kept by what changes neither it, nor the clock, nor the chain.
LEMMA CacheKept ==
  ASSUME AccessInv, UNCHANGED <<chainVars, authCache>>
  PROVE  authCache' \in [allowed : BOOLEAN, expiresAt : Nat] /\ CacheBacked'
BY DEF AccessInv, AccessTypeOK, CacheBacked, chainVars

\* The stage of a query tells its fields.
LEMMA QueryShape ==
  ASSUME AccessInv, NEW q \in Queries
  PROVE  /\ query[q].stage \in {"checking", "sent", "fetching"} => query[q] \in PlainQueries
         /\ query[q].stage = "authorized" => query[q] \in DecidedQueries
         /\ query[q].stage = "fetched" => query[q] \in FetchedQueries
         /\ query[q].stage \in AtSupplier =>
              query[q] \in PlainQueries \cup DecidedQueries \cup FetchedQueries
<1>1. query[q] \in [stage : {"idle"}] \cup PlainQueries \cup DecidedQueries \cup FetchedQueries
  BY DEF AccessInv, AccessTypeOK
<1> QED BY <1>1 DEF PlainQueries, DecidedQueries, FetchedQueries, AtSupplier

\* HandleMessageRequest: a call is refused or goes on to be checked.
LEMMA HandleMessageRequestKeeps ==
  ASSUME AccessInv, NEW q \in Queries, NEW ask \in Asks, HandleMessageRequest(q, ask)
  PROVE  AccessInv'
<1>1. UNCHANGED <<chainVars, plugin, services, up, authCache>>
  BY DEF HandleMessageRequest
<1>2. PICK s \in {"refused", "checking"} : query' = [query EXCEPT ![q] = [stage |-> s, ask |-> ask]]
  BY DEF HandleMessageRequest
<1>3. query'[q] = [stage |-> s, ask |-> ask] /\ query'[q] \in PlainQueries
  BY <1>2 DEF AccessInv, AccessTypeOK, PlainQueries
<1>4. answer' \in [Queries -> Answers]
  <2>1. answer' = answer \/ \E class : answer' = [answer EXCEPT ![q] = errorResponse(ask, class)]
    BY DEF HandleMessageRequest, GetAnswer
  <2> QED BY <2>1, ErrorIsAnswer DEF AccessInv, AccessTypeOK
<1>5. QueryAgrees(q)'
  BY <1>3 DEF QueryAgrees, AtSupplier
<1> QED BY <1>1, <1>2, <1>3, <1>4, <1>5, CacheKept, QueryStep

\* IsServiceSupported: only what the account supports now is sent.
LEMMA IsServiceSupportedKeeps ==
  ASSUME AccessInv, NEW q \in Queries, IsServiceSupported(q)
  PROVE  AccessInv'
<1>1. UNCHANGED <<chainVars, plugin, services, up, authCache>> /\ query[q].stage = "checking"
  BY DEF IsServiceSupported
<1>2. PICK s \in {"sent", "refused"} :
        /\ query' = [query EXCEPT ![q].stage = s]
        /\ s = "sent" => query[q].ask.service \in supported
  BY DEF IsServiceSupported
<1>3. /\ query'[q] = [query[q] EXCEPT !.stage = s]
      /\ query' = [query EXCEPT ![q] = query'[q]]
  BY <1>2 DEF AccessInv, AccessTypeOK
<1>4. query'[q] \in PlainQueries /\ query'[q].stage = s /\ query'[q].ask = query[q].ask
  BY <1>1, <1>3, QueryShape, StageSet
<1>5. answer' \in [Queries -> Answers]
  <2>1. \/ answer' = answer
        \/ \E class : answer' = [answer EXCEPT ![q] = errorResponse(query[q].ask, class)]
    BY DEF IsServiceSupported, GetAnswer
  <2> QED BY <2>1, ErrorIsAnswer DEF AccessInv, AccessTypeOK
<1>6. QueryAgrees(q)'
  BY <1>1, <1>2, <1>4 DEF QueryAgrees, AtSupplier, chainVars
<1> QED BY <1>1, <1>3, <1>4, <1>5, <1>6, CacheKept, QueryStep

\* ResponseTimeout: the caller gets an error, the query goes on at the supplier.
LEMMA ResponseTimeoutKeeps ==
  ASSUME AccessInv, NEW q \in Queries, ResponseTimeout(q)
  PROVE  AccessInv'
<1>1. UNCHANGED <<chainVars, plugin, services, up, authCache, query>>
  BY DEF ResponseTimeout
<1>2. answer' \in [Queries -> Answers]
  BY ErrorIsAnswer DEF ResponseTimeout, GetAnswer, AccessInv, AccessTypeOK
<1>3. /\ query' = [query EXCEPT ![q] = query'[q]]
      /\ query'[q] \in [stage : {"idle"}] \cup PlainQueries \cup DecidedQueries \cup FetchedQueries
  BY <1>1 DEF AccessInv, AccessTypeOK
<1>4. QueryAgrees(q)'
  BY <1>1 DEF AccessInv, QueryAgrees, chainVars
<1> QED BY <1>1, <1>2, <1>3, <1>4, CacheKept, QueryStep

\* A decision that is positive goes back to a time at which the bot was allowed.
LEMMA DecideKeeps ==
  ASSUME AccessInv, NEW q \in Queries, NEW allowed \in BOOLEAN, Decide(q, allowed),
         UNCHANGED <<chainVars, plugin, services, up, answer>>,
         query[q].stage \in {"sent", "fetching", "fetched"}, up,
         authCache' \in [allowed : BOOLEAN, expiresAt : Nat], CacheBacked',
         allowed => \E t \in allowedAt :
                      t <= time /\ (time <= t + MaxCall \/ time < t + MaxCall + AuthTimeout)
  PROVE  AccessInv'
<1> DEFINE s == IF allowed THEN "authorized" ELSE "denied"
<1>1. time \in Nat /\ answer \in [Queries -> Answers]
  BY DEF AccessInv, AccessTypeOK
<1>2. query[q].ask \in Asks
  BY QueryShape DEF PlainQueries, FetchedQueries
<1>3. /\ query'[q] = [stage |-> s, ask |-> query[q].ask, at |-> time]
      /\ query' = [query EXCEPT ![q] = query'[q]]
  BY DEF Decide, AccessInv, AccessTypeOK
<1>4. query'[q] \in DecidedQueries
  BY <1>1, <1>2, <1>3 DEF DecidedQueries
<1>5. QueryAgrees(q)'
  <2>1. query'[q].stage = s /\ query'[q].ask = query[q].ask /\ query'[q].at = time
    BY <1>3
  <2>2. query[q].ask.service \in supported \cup touched
    BY DEF AccessInv, QueryAgrees
  <2>3. supported' = supported /\ touched' = touched /\ allowedAt' = allowedAt /\ up'
    BY DEF chainVars
  <2> QED BY <2>1, <2>2, <2>3 DEF QueryAgrees, AtSupplier
<1> QED BY <1>1, <1>3, <1>4, <1>5, QueryStep

\* IsBotAllowed: an entry of the cache that has not expired decides, or the
\* chain is asked.
LEMMA IsBotAllowedKeeps ==
  ASSUME AccessInv, NEW q \in Queries, IsBotAllowed(q)
  PROVE  AccessInv'
<1>1. UNCHANGED <<chainVars, plugin, services, up, answer, authCache>> /\ up
      /\ query[q].stage = "sent"
  BY DEF IsBotAllowed, AuthCacheHit
<1>2. CASE AuthCacheHit(q)
  <2>1. /\ Decide(q, authCache.allowed) /\ time < authCache.expiresAt
        /\ time \in Nat /\ authCache.allowed \in BOOLEAN /\ authCache.expiresAt \in Nat
        /\ allowedAt \subseteq Nat
    BY <1>2 DEF AuthCacheHit, AccessInv, AccessTypeOK
  <2>2. ASSUME authCache.allowed
        PROVE  \E t \in allowedAt : t <= time /\ time < t + MaxCall + AuthTimeout
    <3>1. PICK t \in allowedAt : t <= time /\ authCache.expiresAt <= t + MaxCall + AuthTimeout
      BY <2>2 DEF AccessInv, CacheBacked
    <3>2. time < t + MaxCall + AuthTimeout
      BY <2>1, <3>1, AccessAssumption
    <3> QED BY <3>1, <3>2
  <2> QED BY <1>1, <2>1, <2>2, CacheKept, DecideKeeps
<1>3. CASE query' = [query EXCEPT ![q].stage = "fetching"]
  <2>1. /\ query'[q] = [query[q] EXCEPT !.stage = "fetching"]
        /\ query' = [query EXCEPT ![q] = query'[q]]
        /\ answer \in [Queries -> Answers]
    BY <1>3 DEF AccessInv, AccessTypeOK
  <2>2. /\ query'[q] \in PlainQueries /\ query'[q].stage = "fetching"
        /\ query'[q].ask = query[q].ask
    BY <1>1, <2>1, QueryShape, StageSet
  <2>3. QueryAgrees(q) /\ supported' = supported /\ touched' = touched /\ up'
    BY <1>1 DEF AccessInv, chainVars
  <2>4. QueryAgrees(q)'
    BY <1>1, <2>2, <2>3 DEF QueryAgrees
  <2> QED BY <1>1, <2>1, <2>2, <2>4, CacheKept, QueryStep
<1> QED BY <1>2, <1>3 DEF IsBotAllowed

\* FetchAllowed: the answer is the account's at this time.
LEMMA FetchAllowedKeeps ==
  ASSUME AccessInv, NEW q \in Queries, FetchAllowed(q)
  PROVE  AccessInv'
<1>1. UNCHANGED <<chainVars, plugin, services, up, authCache, answer>>
      /\ query[q].stage = "fetching"
  BY DEF FetchAllowed
<1>2. /\ time \in Nat /\ permitted \in BOOLEAN /\ answer \in [Queries -> Answers]
      /\ permitted => time \in allowedAt
      /\ QueryAgrees(q) /\ query[q].ask \in Asks
  BY <1>1, QueryShape DEF AccessInv, AccessTypeOK, PlainQueries
<1>3. /\ query'[q] = [stage |-> "fetched", ask |-> query[q].ask, at |-> time, allowed |-> permitted]
      /\ query' = [query EXCEPT ![q] = query'[q]]
  BY DEF FetchAllowed, AccessInv, AccessTypeOK
<1>4. query'[q] \in FetchedQueries
  BY <1>2, <1>3 DEF FetchedQueries
<1>5. QueryAgrees(q)'
  <2>1. /\ query'[q].stage = "fetched" /\ query'[q].ask = query[q].ask
        /\ query'[q].at = time /\ query'[q].allowed = permitted
    BY <1>3
  <2>2. /\ supported' = supported /\ touched' = touched /\ up' = up /\ time' = time
        /\ allowedAt' = allowedAt
    BY <1>1 DEF chainVars
  <2>3. time <= time /\ time <= time + MaxCall
    BY <1>2, AccessAssumption
  <2> QED BY <1>1, <1>2, <2>1, <2>2, <2>3 DEF QueryAgrees, AtSupplier
<1> QED BY <1>1, <1>2, <1>3, <1>4, <1>5, CacheKept, QueryStep

\* FetchFails: a request that cannot be checked is denied.
LEMMA FetchFailsKeeps ==
  ASSUME AccessInv, NEW q \in Queries, FetchFails(q)
  PROVE  AccessInv'
<1>1. UNCHANGED <<chainVars, plugin, services, up, authCache, answer>>
      /\ query[q].stage = "fetching" /\ Decide(q, FALSE)
  BY DEF FetchFails
<1>2. up
  BY <1>1 DEF AccessInv, QueryAgrees, AtSupplier
<1> QED BY <1>1, <1>2, CacheKept, DecideKeeps

\* StoreAllowed: the entry outlives the answer it was made from by the timeout
\* and the time the answer took.
LEMMA StoreAllowedKeeps ==
  ASSUME AccessInv, NEW q \in Queries, StoreAllowed(q)
  PROVE  AccessInv'
<1>1. /\ UNCHANGED <<chainVars, plugin, services, up, answer>>
      /\ query[q].stage = "fetched" /\ Decide(q, query[q].allowed)
  BY DEF StoreAllowed
<1>2. up /\ query[q] \in FetchedQueries /\ QueryAgrees(q)
  BY <1>1, QueryShape DEF AccessInv, QueryAgrees, AtSupplier
<1>3. /\ query[q].allowed \in BOOLEAN /\ query[q].at \in Nat /\ time \in Nat
      /\ query[q].at <= time /\ time <= query[q].at + MaxCall
      /\ query[q].allowed => query[q].at \in allowedAt
  BY <1>1, <1>2 DEF FetchedQueries, QueryAgrees, AccessInv, AccessTypeOK
<1>4. CASE authCache' = authCache
  BY <1>1, <1>2, <1>3, <1>4, CacheKept, DecideKeeps
<1>5. CASE authCache' = [allowed |-> query[q].allowed, expiresAt |-> time + AuthTimeout]
  <2>1. /\ authCache' \in [allowed : BOOLEAN, expiresAt : Nat]
        /\ authCache'.allowed = query[q].allowed /\ authCache'.expiresAt = time + AuthTimeout
    BY <1>3, <1>5, AccessAssumption
  <2>2. time + AuthTimeout <= query[q].at + MaxCall + AuthTimeout
    BY <1>3, AccessAssumption
  <2>3. time' = time /\ allowedAt' = allowedAt
    BY <1>1 DEF chainVars
  <2>4. CacheBacked'
    BY <1>3, <2>1, <2>2, <2>3 DEF CacheBacked
  <2> QED BY <1>1, <1>2, <1>3, <2>1, <2>4, DecideKeeps
<1> QED BY <1>4, <1>5 DEF StoreAllowed

\* RespondOrDrop: a request of an allowed bot is dropped only for a service that
\* the account did not have when the bot started.
LEMMA RespondOrDropKeeps ==
  ASSUME AccessInv, NEW q \in Queries, RespondOrDrop(q)
  PROVE  AccessInv'
<1>1. UNCHANGED <<chainVars, plugin, services, up, authCache>> /\ query[q].stage = "authorized"
  BY DEF RespondOrDrop
<1>2. PICK s \in {"answered", "unsupported"} :
        /\ query' = [query EXCEPT ![q].stage = s]
        /\ s = "unsupported" => query[q].ask.service \notin services
  BY DEF RespondOrDrop, GetService
<1>3. /\ query'[q] = [query[q] EXCEPT !.stage = s]
      /\ query' = [query EXCEPT ![q] = query'[q]]
  BY <1>2 DEF AccessInv, AccessTypeOK
<1>4. /\ query'[q] \in DecidedQueries /\ query'[q].stage = s
      /\ query'[q].ask = query[q].ask /\ query'[q].at = query[q].at
  BY <1>1, <1>3, QueryShape, StageSet
<1>5. answer' \in [Queries -> Answers]
  <2>1. \/ answer' = answer
        \/ \E r : answer' = [answer EXCEPT ![q] = validateAndRespond(query[q].ask, r)]
    BY DEF RespondOrDrop, GetAnswer
  <2> QED BY <2>1, ResponseIsAnswer DEF AccessInv, AccessTypeOK
<1>6. QueryAgrees(q) /\ up /\ supported \subseteq ServiceNames /\ RegistryAgrees
  BY <1>1 DEF AccessInv, AccessTypeOK, QueryAgrees, AtSupplier
<1>7. s = "unsupported" => query[q].ask.service \in touched
  BY <1>1, <1>2, <1>6 DEF QueryAgrees, RegistryAgrees
<1>8. QueryAgrees(q)'
  <2>1. touched' = touched /\ allowedAt' = allowedAt
    BY <1>1 DEF chainVars
  <2> QED BY <1>1, <1>4, <1>6, <1>7, <2>1 DEF QueryAgrees, AtSupplier
<1> QED BY <1>1, <1>3, <1>4, <1>5, <1>8, CacheKept, QueryStep

\* What the chain and the clock do keeps a query.
LEMMA QueriesOutlive ==
  ASSUME AccessInv, NEW q \in Queries, query' = query, up' = up, time' \in Nat,
         supported \cup touched \subseteq supported' \cup touched', touched \subseteq touched',
         allowedAt \subseteq allowedAt', time <= time',
         query[q].stage = "fetched" => time' <= query[q].at + MaxCall
  PROVE  QueryAgrees(q)'
<1>1. QueryAgrees(q) /\ time \in Nat
  BY DEF AccessInv, AccessTypeOK
<1>2. query[q].stage = "fetched" => query[q].at \in Nat
  BY QueryShape DEF FetchedQueries
<1>3. query[q].stage = "fetched" => query[q].at <= time'
  BY <1>1, <1>2 DEF QueryAgrees
<1> QED BY <1>1, <1>3 DEF QueryAgrees

\* The accounts change, time passes, the supplier's bot starts and stops.
LEMMA EnvironmentKeeps ==
  ASSUME AccessInv,
         \/ \E s \in ServiceNames : ChangeSupport(s)
         \/ ChangePermission \/ TickAccess \/ NewServiceRegistry \/ StopSupplier
  PROVE  AccessInv'
<1>0. /\ AccessTypeOK /\ CacheBacked /\ RegistryAgrees /\ (permitted => time \in allowedAt)
      /\ \A q \in Queries : QueryAgrees(q)
  BY DEF AccessInv
<1>1. CASE \E s \in ServiceNames : ChangeSupport(s)
  <2>0. PICK s \in ServiceNames : ChangeSupport(s)
    BY <1>1
  <2>1. /\ UNCHANGED <<permitted, allowedAt, time, plugin, services, up, authCache, query, answer>>
        /\ supported' = (IF s \in supported THEN supported \ {s} ELSE supported \cup {s})
        /\ touched' = touched \cup {s} /\ onChain' = onChain + 1
    BY <2>0 DEF ChangeSupport
  <2>2. supported' \subseteq ServiceNames /\ touched' \subseteq ServiceNames /\ onChain' \in Nat
    BY <1>0, <2>1 DEF AccessTypeOK
  <2>3. AccessTypeOK'
    BY <1>0, <2>1, <2>2 DEF AccessTypeOK
  <2>4. CacheBacked' /\ (permitted => time \in allowedAt)'
    BY <1>0, <2>1 DEF CacheBacked
  <2>5. RegistryAgrees'
    BY <1>0, <2>1 DEF RegistryAgrees
  <2>6. ASSUME NEW q \in Queries PROVE QueryAgrees(q)'
    <3>1. query[q].stage = "fetched" => time <= query[q].at + MaxCall
      BY <1>0 DEF QueryAgrees
    <3>2. supported \cup touched \subseteq supported' \cup touched' /\ time \in Nat
      BY <1>0, <2>1 DEF AccessTypeOK
    <3> QED BY <2>1, <3>1, <3>2, QueriesOutlive
  <2> QED BY <2>3, <2>4, <2>5, <2>6 DEF AccessInv
<1>2. CASE ChangePermission
  <2>1. /\ UNCHANGED <<supported, touched, time, plugin, services, up, authCache, query, answer>>
        /\ permitted' = ~permitted /\ allowedAt' = allowedAt \cup {time} /\ onChain' = onChain + 1
    BY <1>2 DEF ChangePermission
  <2>2. permitted' \in BOOLEAN /\ allowedAt' \subseteq Nat /\ onChain' \in Nat
    BY <1>0, <2>1 DEF AccessTypeOK
  <2>3. AccessTypeOK'
    BY <1>0, <2>1, <2>2 DEF AccessTypeOK
  <2>4. CacheBacked' /\ RegistryAgrees' /\ (permitted => time \in allowedAt)'
    BY <1>0, <2>1 DEF CacheBacked, RegistryAgrees
  <2>6. ASSUME NEW q \in Queries PROVE QueryAgrees(q)'
    <3>1. (query[q].stage = "fetched" => time <= query[q].at + MaxCall) /\ time \in Nat
      BY <1>0 DEF QueryAgrees, AccessTypeOK
    <3> QED BY <2>1, <3>1, QueriesOutlive
  <2> QED BY <2>3, <2>4, <2>6 DEF AccessInv
<1>3. CASE TickAccess
  <2>1. /\ UNCHANGED <<supported, permitted, onChain, touched, plugin, services, up, authCache,
                        query, answer>>
        /\ time' = time + 1
        /\ allowedAt' = (IF permitted THEN allowedAt \cup {time'} ELSE allowedAt)
        /\ \A q \in Queries : query[q].stage = "fetched" => time < query[q].at + MaxCall
    BY <1>3 DEF TickAccess
  <2>2. time \in Nat /\ time' \in Nat /\ time <= time' /\ allowedAt' \subseteq Nat
    BY <1>0, <2>1 DEF AccessTypeOK
  <2>3. AccessTypeOK'
    BY <1>0, <2>1, <2>2 DEF AccessTypeOK
  <2>4. RegistryAgrees' /\ (permitted => time \in allowedAt)'
    BY <1>0, <2>1 DEF RegistryAgrees
  <2>5. CacheBacked'
    <3>1. \A t \in allowedAt : t \in allowedAt' /\ (t <= time => t <= time')
      BY <1>0, <2>1, <2>2 DEF AccessTypeOK
    <3> QED BY <1>0, <2>1, <3>1 DEF CacheBacked
  <2>6. ASSUME NEW q \in Queries PROVE QueryAgrees(q)'
    <3>1. query[q].stage = "fetched" => time' <= query[q].at + MaxCall
      <4>1. query[q].stage = "fetched" => query[q].at \in Nat
        BY QueryShape DEF FetchedQueries
      <4> QED BY <2>1, <2>2, <4>1, AccessAssumption
    <3> QED BY <2>1, <2>2, <3>1, QueriesOutlive
  <2> QED BY <2>3, <2>4, <2>5, <2>6 DEF AccessInv
<1>4. CASE NewServiceRegistry
  <2>1. /\ UNCHANGED <<chainVars, plugin, query, answer>> /\ ~up /\ up' = TRUE
        /\ services' = supported
        /\ authCache' = [allowed |-> FALSE, expiresAt |-> 0]
    BY <1>4 DEF NewServiceRegistry, RegistryComplete, RegisterServiceClients
  <2>2. /\ supported' = supported /\ permitted' = permitted /\ onChain' = onChain
        /\ touched' = touched /\ allowedAt' = allowedAt /\ time' = time
    BY <2>1 DEF chainVars
  <2>3. AccessTypeOK'
    <3>1. authCache' \in [allowed : BOOLEAN, expiresAt : Nat] /\ up' \in BOOLEAN
      BY <2>1
    <3> QED BY <1>0, <2>1, <2>2, <3>1 DEF AccessTypeOK
  <2>4. CacheBacked' /\ RegistryAgrees' /\ (permitted => time \in allowedAt)'
    BY <1>0, <2>1, <2>2 DEF CacheBacked, RegistryAgrees
  <2>5. ASSUME NEW q \in Queries PROVE QueryAgrees(q)'
    <3>1. QueryAgrees(q)
      BY <1>0
    <3> QED BY <2>1, <2>2, <3>1 DEF QueryAgrees
  <2> QED BY <2>3, <2>4, <2>5 DEF AccessInv
<1>5. CASE StopSupplier
  <2>1. /\ UNCHANGED <<chainVars, plugin, services, authCache, answer>> /\ up' = FALSE
        /\ query' = [q \in Queries |-> IF query[q].stage \in AtSupplier
                                         THEN [query[q] EXCEPT !.stage = "lost"] ELSE query[q]]
    BY <1>5 DEF StopSupplier
  <2>2. /\ supported' = supported /\ permitted' = permitted /\ onChain' = onChain
        /\ touched' = touched /\ allowedAt' = allowedAt /\ time' = time
    BY <2>1 DEF chainVars
  <2>3. ASSUME NEW q \in Queries
        PROVE  /\ query'[q] \in [stage : {"idle"}] \cup PlainQueries \cup DecidedQueries
                                  \cup FetchedQueries
               /\ QueryAgrees(q)'
    <3>1. CASE query[q].stage \in AtSupplier
      <4>1. query'[q] = [query[q] EXCEPT !.stage = "lost"]
        BY <2>1, <3>1
      <4>2. /\ query'[q] \in PlainQueries \cup DecidedQueries \cup FetchedQueries
            /\ query'[q].stage = "lost"
        <5>1. query[q] \in PlainQueries \cup DecidedQueries \cup FetchedQueries
          BY <3>1, QueryShape
        <5>2. CASE query[q] \in PlainQueries
          BY <4>1, <5>2, StageSet
        <5>3. CASE query[q] \in DecidedQueries
          BY <4>1, <5>3, StageSet
        <5>4. CASE query[q] \in FetchedQueries
          BY <4>1, <5>4, StageSet
        <5> QED BY <5>1, <5>2, <5>3, <5>4
      <4> QED BY <4>2 DEF QueryAgrees, AtSupplier
    <3>2. CASE query[q].stage \notin AtSupplier
      <4>1. query'[q] = query[q]
        BY <2>1, <3>2
      <4>2. QueryAgrees(q)'
        BY <1>0, <2>2, <3>2, <4>1 DEF QueryAgrees, AtSupplier
      <4>3. query[q] \in [stage : {"idle"}] \cup PlainQueries \cup DecidedQueries
                            \cup FetchedQueries
        BY <1>0 DEF AccessTypeOK
      <4> QED BY <4>1, <4>2, <4>3
    <3> QED BY <3>1, <3>2
  <2>4. query' \in [Queries -> [stage : {"idle"}] \cup PlainQueries \cup DecidedQueries
                                 \cup FetchedQueries]
    BY <2>1, <2>3
  <2>5. AccessTypeOK'
    BY <1>0, <2>1, <2>2, <2>4 DEF AccessTypeOK
  <2>6. CacheBacked' /\ RegistryAgrees' /\ (permitted => time \in allowedAt)'
    BY <1>0, <2>1, <2>2 DEF CacheBacked, RegistryAgrees
  <2> QED BY <2>3, <2>5, <2>6 DEF AccessInv
<1> QED BY <1>1, <1>2, <1>3, <1>4, <1>5

\* AccessInv holds in every reachable state of accounts, bots and queries.
THEOREM AccessInvariance == AccessSpec => []AccessInv
<1>1. AccessInv /\ [AccessNext]_accessVars => AccessInv'
  <2> SUFFICES ASSUME AccessInv, [AccessNext]_accessVars PROVE AccessInv'
    OBVIOUS
  <2>1. CASE \E q \in Queries : \/ \E ask \in Asks : HandleMessageRequest(q, ask)
                                \/ IsServiceSupported(q) \/ ResponseTimeout(q)
    BY <2>1, HandleMessageRequestKeeps, IsServiceSupportedKeeps, ResponseTimeoutKeeps
  <2>2. CASE \E q \in Queries : IsBotAllowed(q) \/ FetchAllowed(q) \/ FetchFails(q)
    BY <2>2, IsBotAllowedKeeps, FetchAllowedKeeps, FetchFailsKeeps
  <2>3. CASE \E q \in Queries : StoreAllowed(q) \/ RespondOrDrop(q)
    BY <2>3, StoreAllowedKeeps, RespondOrDropKeeps
  <2>4. CASE \/ \E s \in ServiceNames : ChangeSupport(s)
             \/ ChangePermission \/ TickAccess \/ NewServiceRegistry \/ StopSupplier
    BY <2>4, EnvironmentKeeps
  <2>5. CASE UNCHANGED accessVars
    <3>1. /\ UNCHANGED <<supported, permitted, onChain, touched, allowedAt, time>>
          /\ UNCHANGED <<plugin, services, up, authCache, query, answer>>
      BY <2>5 DEF accessVars, chainVars
    <3>2. AccessTypeOK' /\ CacheBacked' /\ RegistryAgrees'
      BY <3>1 DEF AccessInv, AccessTypeOK, CacheBacked, RegistryAgrees
    <3>3. (permitted => time \in allowedAt)' /\ \A q \in Queries : QueryAgrees(q)'
      BY <3>1 DEF AccessInv, QueryAgrees
    <3> QED BY <3>2, <3>3 DEF AccessInv
  <2> QED BY <2>1, <2>2, <2>3, <2>4, <2>5 DEF AccessNext
<1> QED BY <1>1, AccessInitInv, PTL DEF AccessSpec

\* The accounts, the registry, the cache and the queries stay well formed.
THEOREM AccessTypeCorrect == AccessSpec => []AccessTypeOK
<1>1. AccessInv => AccessTypeOK
  BY DEF AccessInv
<1> QED BY <1>1, AccessInvariance, PTL

\* IsBotAllowed and its cache: a request reaches the plugin only for a bot that
\* its account allowed within the timeout and the time of a chain call.
THEOREM ServedIsAuthorizedHolds == AccessSpec => []ServedIsAuthorized
<1>1. AccessInv => ServedIsAuthorized
  BY DEF AccessInv, QueryAgrees, ServedIsAuthorized
<1> QED BY <1>1, AccessInvariance, PTL

\* NewServiceRegistry: a request that was free to be sent lacks its service only
\* where the account has changed since.
THEOREM UnservedWasChangedHolds == AccessSpec => []UnservedWasChanged
<1>1. AccessInv => UnservedWasChanged
  BY DEF AccessInv, QueryAgrees, UnservedWasChanged
<1> QED BY <1>1, AccessInvariance, PTL

-----------------------------------------------------------------------------
(***************************************************************************)
(* StuckOnlyByLeaver, for any number of calls and streams: if a call       *)
(* waits, then some goroutine can go on, or the one that passes events on  *)
(* waits for a stream that has left.                                       *)
(***************************************************************************)

\* Every variable holds a value of the shape the code declares for it.
EventsTypeOK ==
  /\ unary \in [UnaryCalls -> {"idle", "waiting", "sending", "handled"}]
  /\ stream \in [Streams -> {"idle", "selecting", "sending", "leaving", "left"}]
  /\ subscriptionChans \subseteq Streams
  /\ sendMutex \in UnaryCalls \cup {NoOne, "events"}
  /\ isStopped \in BOOLEAN /\ ending \in BOOLEAN
  /\ events \in [stage : {"select", "propagate", "draining"}, pending : SUBSET Streams,
                 next : Streams \cup {NoOne}]

\* The mutex is held by the call that sends, and by the goroutine once it has stopped.
MutexAgrees ==
  /\ \A u \in UnaryCalls : sendMutex = u <=> unary[u] = "sending"
  /\ sendMutex = "events" => ending

\* A stream that an event is passed on to is in the map and has not left it.
ChansAgree ==
  /\ \A s \in subscriptionChans : stream[s] \in {"selecting", "sending", "leaving"}
  /\ events.stage = "propagate" => events.pending \subseteq subscriptionChans
  /\ events.stage = "draining" => ending
  /\ events.next # NoOne => events.stage = "propagate" /\ events.next \in events.pending

EventsInv == EventsTypeOK /\ MutexAgrees /\ ChansAgree

\* Nobody waits, and no stream is subscribed at first.
LEMMA EventsInitInv == EventsInit => EventsInv
<1> SUFFICES ASSUME EventsInit PROVE EventsInv
  OBVIOUS
<1>1. EventsTypeOK
  BY DEF EventsInit, EventsTypeOK, Selecting
<1>2. MutexAgrees /\ ChansAgree
  BY EventsAssumption DEF EventsInit, MutexAgrees, ChansAgree, Selecting
<1> QED BY <1>1, <1>2 DEF EventsInv

\* The steps of unary calls, and of the goroutine that takes their events.
LEMMA UnaryStepKeeps ==
  ASSUME EventsInv, NEW u \in UnaryCalls,
         eventSenderInterceptor(u) \/ SendProtoEvent(u) \/ TakeEvent(u)
  PROVE  EventsInv'
<1>1. UNCHANGED <<stream, subscriptionChans, isStopped, ending>>
  BY DEF eventSenderInterceptor, SendProtoEvent, TakeEvent
<1>2. EventsTypeOK'
  <2>1. /\ unary' \in [UnaryCalls -> {"idle", "waiting", "sending", "handled"}]
        /\ sendMutex' \in UnaryCalls \cup {NoOne, "events"}
    BY DEF EventsInv, EventsTypeOK, eventSenderInterceptor, SendProtoEvent, TakeEvent
  <2>2. events' \in [stage : {"select", "propagate", "draining"}, pending : SUBSET Streams,
                     next : Streams \cup {NoOne}]
    BY DEF EventsInv, EventsTypeOK, eventSenderInterceptor, SendProtoEvent, TakeEvent
  <2> QED BY <1>1, <2>1, <2>2 DEF EventsInv, EventsTypeOK
<1>3. MutexAgrees'
  <2>1. unary \in [UnaryCalls -> {"idle", "waiting", "sending", "handled"}] /\ MutexAgrees
    BY DEF EventsInv, EventsTypeOK
  <2>2. CASE eventSenderInterceptor(u)
    BY <1>1, <2>1, <2>2 DEF MutexAgrees, eventSenderInterceptor
  <2>3. CASE SendProtoEvent(u)
    BY <1>1, <2>1, <2>3, EventsAssumption DEF MutexAgrees, SendProtoEvent, MutexFree
  <2>4. CASE TakeEvent(u)
    BY <1>1, <2>1, <2>4, EventsAssumption DEF MutexAgrees, TakeEvent, EventTaken
  <2> QED BY <2>2, <2>3, <2>4
<1>4. ChansAgree'
  <2>1. CASE events' = events
    BY <1>1, <2>1 DEF EventsInv, ChansAgree
  <2>2. CASE events' = [stage |-> "propagate", pending |-> subscriptionChans, next |-> NoOne]
    BY <1>1, <2>2 DEF EventsInv, ChansAgree
  <2> QED BY <2>1, <2>2 DEF eventSenderInterceptor, SendProtoEvent, TakeEvent
<1> QED BY <1>2, <1>3, <1>4 DEF EventsInv

\* The steps that pass an event on.
LEMMA PropagateKeeps ==
  ASSUME EventsInv, Propagated \/ \E s \in Streams : NextChan(s) \/ propagate(s)
  PROVE  EventsInv'
<1>1. /\ UNCHANGED <<unary, subscriptionChans, sendMutex, isStopped, ending>>
      /\ events.stage = "propagate"
  BY DEF Propagated, NextChan, propagate, ChanChosen,
         StreamReceives, AllPassedOn, ReadLocked
<1>2. PICK e : e = events
  OBVIOUS
<1>3. /\ e \in [stage : {"select", "propagate", "draining"}, pending : SUBSET Streams,
                next : Streams \cup {NoOne}]
      /\ stream \in [Streams -> {"idle", "selecting", "sending", "leaving", "left"}]
      /\ subscriptionChans \subseteq Streams
      /\ \A s \in subscriptionChans : stream[s] \in {"selecting", "sending", "leaving"}
      /\ e.pending \subseteq subscriptionChans
  BY <1>1, <1>2 DEF EventsInv, EventsTypeOK, ChansAgree
<1>4. /\ stream' \in [Streams -> {"idle", "selecting", "sending", "leaving", "left"}]
      /\ \A s \in subscriptionChans : stream'[s] \in {"selecting", "sending", "leaving"}
  BY <1>3 DEF Propagated, NextChan, propagate
<1>5. /\ events' \in [stage : {"select", "propagate", "draining"}, pending : SUBSET Streams,
                      next : Streams \cup {NoOne}]
      /\ events'.stage \in {"propagate", "select"} /\ events'.pending \subseteq e.pending
      /\ events'.next # NoOne => events'.stage = "propagate" /\ events'.next \in events'.pending
  <2>1. CASE Propagated
    BY <1>3, <2>1 DEF Propagated, Selecting
  <2>2. CASE \E s \in Streams : NextChan(s)
    <3>1. PICK s \in Streams : events' = [e EXCEPT !.next = s] /\ s \in e.pending
      BY <1>2, <2>2 DEF NextChan, ChanChosen
    <3> QED BY <1>1, <1>2, <1>3, <3>1
  <2>3. CASE \E s \in Streams : propagate(s)
    <3>1. PICK s \in Streams : events' = [e EXCEPT !.pending = @ \ {s}, !.next = NoOne]
      BY <1>2, <2>3 DEF propagate
    <3> QED BY <1>1, <1>2, <1>3, <3>1
  <2> QED BY <2>1, <2>2, <2>3
<1>6. EventsTypeOK'
  BY <1>1, <1>4, <1>5 DEF EventsInv, EventsTypeOK
<1>7. MutexAgrees'
  BY <1>1 DEF EventsInv, MutexAgrees
<1>8. ChansAgree'
  BY <1>1, <1>3, <1>4, <1>5 DEF ChansAgree
<1> QED BY <1>6, <1>7, <1>8 DEF EventsInv

\* The steps of subscribers: the map is changed only while nothing is passed on.
LEMMA StreamStepKeeps ==
  ASSUME EventsInv, NEW s \in Streams,
         SubscribeStream(s) \/ StreamSend(s) \/ StreamEnds(s) \/ unsubscribe(s)
  PROVE  EventsInv'
<1>1. UNCHANGED <<unary, sendMutex, isStopped, events, ending>>
  BY DEF SubscribeStream, StreamSend, StreamEnds, unsubscribe
<1>2. /\ stream \in [Streams -> {"idle", "selecting", "sending", "leaving", "left"}]
      /\ subscriptionChans \subseteq Streams
      /\ \A t \in subscriptionChans : stream[t] \in {"selecting", "sending", "leaving"}
  BY DEF EventsInv, EventsTypeOK, ChansAgree
<1>3. /\ stream' \in [Streams -> {"idle", "selecting", "sending", "leaving", "left"}]
      /\ subscriptionChans' \subseteq Streams
      /\ \A t \in subscriptionChans' : stream'[t] \in {"selecting", "sending", "leaving"}
      /\ ReadLocked => subscriptionChans' = subscriptionChans
  BY <1>2 DEF SubscribeStream, StreamSend, StreamEnds, unsubscribe, LeaverHasLock
<1>4. EventsTypeOK' /\ MutexAgrees'
  BY <1>1, <1>3 DEF EventsInv, EventsTypeOK, MutexAgrees
<1>5. ChansAgree'
  BY <1>1, <1>3 DEF EventsInv, ChansAgree, ReadLocked
<1> QED BY <1>4, <1>5 DEF EventsInv

\* The end of the context, and the goroutine that stops.
LEMMA StopEventsKeeps ==
  ASSUME EventsInv, Interrupt \/ StopEvents
  PROVE  EventsInv'
<1>1. UNCHANGED <<unary, stream, subscriptionChans>> /\ ending' = TRUE
  BY DEF Interrupt, StopEvents, EventsInv, EventsTypeOK
<1>2. PICK e \in [stage : {"select", "propagate", "draining"}, pending : SUBSET Streams,
                  next : Streams \cup {NoOne}] : e = events
  BY DEF EventsInv, EventsTypeOK
<1>3. CASE Interrupt
  BY <1>1, <1>3 DEF EventsInv, EventsTypeOK, MutexAgrees, ChansAgree, Interrupt
<1>4. CASE StopEvents
  <2>1. /\ events' = [e EXCEPT !.stage = "draining"] /\ e.stage = "select"
        /\ sendMutex = NoOne /\ sendMutex' = "events" /\ isStopped' = TRUE
    BY <1>2, <1>4 DEF StopEvents
  <2>2. EventsTypeOK'
    BY <1>1, <1>2, <2>1 DEF EventsInv, EventsTypeOK
  <2>3. MutexAgrees'
    BY <1>1, <2>1, EventsAssumption DEF EventsInv, MutexAgrees
  <2>4. e.next = NoOne
    BY <1>2, <2>1 DEF EventsInv, ChansAgree
  <2>5. ChansAgree'
    BY <1>1, <1>2, <2>1, <2>4 DEF EventsInv, ChansAgree
  <2> QED BY <2>2, <2>3, <2>5 DEF EventsInv
<1> QED BY <1>3, <1>4

\* The mutex, the map of streams and the event on its way agree in every state.
THEOREM EventsInvariance == EventsSpec => []EventsInv
<1>1. EventsInit => EventsInv
  BY EventsInitInv
<1>2. EventsInv /\ [EventsNext]_eventVars => EventsInv'
  <2> SUFFICES ASSUME EventsInv, [EventsNext]_eventVars PROVE EventsInv'
    OBVIOUS
  <2>1. CASE UNCHANGED eventVars
    BY <2>1 DEF EventsInv, EventsTypeOK, MutexAgrees, ChansAgree, eventVars
  <2>2. CASE EventsNext
    BY <2>2, UnaryStepKeeps, PropagateKeeps, StreamStepKeeps, StopEventsKeeps
       DEF EventsNext, EventSteps
  <2> QED BY <2>1, <2>2
<1> QED BY <1>1, <1>2, PTL DEF EventsSpec

\* A call that waits is stuck only behind an event for a stream that is leaving,
\* for any number of calls and streams: otherwise the guard of some step holds.
THEOREM StuckOnlyByLeaverHolds == EventsSpec => []StuckOnlyByLeaver
<1>1. EventsInv => StuckOnlyByLeaver
  <2> SUFFICES ASSUME EventsInv, ~ending,
                      NEW u \in UnaryCalls, unary[u] \in {"waiting", "sending"}
               PROVE  \/ SomeoneGoesOn
                      \/ ReadLocked /\ events.next \in Streams /\ stream[events.next] = "leaving"
    BY DEF StuckOnlyByLeaver
  <2>1. events.stage \in {"select", "propagate"}
    BY DEF EventsInv, EventsTypeOK, ChansAgree
  <2>2. CASE events.stage = "select"
    BY <2>2 DEF EventsInv, EventsTypeOK, MutexAgrees, SomeoneGoesOn, MutexFree, EventTaken
  <2>3. CASE events.stage = "propagate"
    <3>1. CASE events.next = NoOne
      BY <2>3, <3>1 DEF EventsInv, EventsTypeOK, SomeoneGoesOn, ChanChosen, AllPassedOn, ReadLocked
    <3>2. CASE events.next # NoOne
      <4>1. events.next \in Streams /\ stream[events.next] \in {"selecting", "sending", "leaving"}
        BY <2>3, <3>2 DEF EventsInv, EventsTypeOK, ChansAgree
      <4> QED BY <2>3, <4>1 DEF SomeoneGoesOn, StreamReceives, EventReceived, ReadLocked
    <3> QED BY <3>1, <3>2
  <2> QED BY <2>1, <2>2, <2>3
<1> QED BY <1>1, EventsInvariance, PTL

-----------------------------------------------------------------------------
(***************************************************************************)
(* AnswersRepeat, for any data, requests and numbers of calls.  Handlers   *)
(* write to what they found: a price, fewer languages.  The data stays as  *)
(* it is because every search and every information of every version has   *)
(* gone through a filter that copies.  What the filters and searches       *)
(* return is a joined sequence, so this takes induction over its length:   *)
(* a set of naturals that has no least element is empty (WFMin).           *)
(***************************************************************************)

\* The naturals, ordered.
Less == {pair \in Nat \X Nat : pair[1] < pair[2]}

\* Every set of naturals has a least one.
LEMMA LessWellFounded == IsWellFoundedOn(Less, Nat)
BY NatLessThanWellFounded DEF OpToRel, Less

\* Induction, for a set in the place of a formula.
LEMMA SetInduction ==
  ASSUME NEW T, 0 \in T, \A n \in Nat : n \in T => n + 1 \in T
  PROVE  Nat \subseteq T
<1> SUFFICES ASSUME Nat \ T # {} PROVE FALSE
  OBVIOUS
<1> DEFINE Missing == Nat \ T
<1>1. PICK x \in Missing : \A y \in Missing : ~(<<y, x>> \in Less)
  <2>1. Missing \subseteq Nat /\ Missing # {}
    OBVIOUS
  <2> HIDE DEF Missing
  <2> QED BY <2>1, WFMin, LessWellFounded
<1>2. x \in Nat /\ x # 0
  BY <1>1
<1>3. x - 1 \in Nat /\ x - 1 < x /\ x - 1 + 1 = x
  BY <1>2
<1>4. x - 1 \in T
  BY <1>1, <1>2, <1>3 DEF Less
<1> QED BY <1>1, <1>2, <1>3, <1>4

\* A sequence of anything.
IsSeq(s) == s \in Seq(Range(s))

\* A function on an interval from 1 on is a sequence.
LEMMA IntervalIsSeq ==
  ASSUME NEW n \in Nat, NEW s, s = [i \in 1..n |-> s[i]]
  PROVE  IsSeq(s) /\ Len(s) = n /\ DOMAIN s = 1..n
<1>1. s \in [1..n -> Range(s)]
  BY DEF Range
<1> QED BY <1>1 DEF IsSeq

\* What a sequence is as a function.
LEMMA SeqFacts ==
  ASSUME NEW s, IsSeq(s)
  PROVE  Len(s) \in Nat /\ DOMAIN s = 1..Len(s) /\ s = [i \in 1..Len(s) |-> s[i]]
BY DEF IsSeq

\* The prefixes that FlattenSeq joins, one from the other.
Flattened(s, f, i) == IF i = 1 THEN s[i] ELSE f[i - 1] \o s[i]
Flattening(s) == CHOOSE f : f = [i \in 1..Len(s) |-> Flattened(s, f, i)]

\* The recursive function that FlattenSeq chooses exists for any number of parts.
LEMMA FlatteningExists ==
  ASSUME NEW s, NEW n \in Nat
  PROVE  \E f : f = [i \in 1..n |-> Flattened(s, f, i)]
<1> DEFINE T == {k \in Nat : \E f : f = [i \in 1..k |-> Flattened(s, f, i)]}
<1>1. 0 \in T
  <2>1. [i \in 1..0 |-> s] = [i \in 1..0 |-> Flattened(s, [j \in 1..0 |-> s], i)]
    OBVIOUS
  <2> QED BY <2>1
<1>2. ASSUME NEW k \in Nat, k \in T PROVE k + 1 \in T
  <2>1. PICK f : f = [i \in 1..k |-> Flattened(s, f, i)]
    BY <1>2
  <2> DEFINE g == [i \in 1..(k + 1) |-> Flattened(s, f, i)]
  <2>2. \A i \in 1..(k + 1) : g[i] = Flattened(s, g, i)
    <3> TAKE i \in 1..(k + 1)
    <3>1. g[i] = Flattened(s, f, i)
      OBVIOUS
    <3>2. CASE i = 1
      BY <3>1, <3>2 DEF Flattened
    <3>3. CASE i # 1
      <4>1. i - 1 \in 1..k /\ i - 1 \in 1..(k + 1)
        BY <3>3
      <4>2. g[i - 1] = Flattened(s, f, i - 1)
        BY <4>1
      <4>3. f[i - 1] = Flattened(s, f, i - 1)
        BY <2>1, <4>1
      <4> QED BY <3>1, <3>3, <4>2, <4>3 DEF Flattened
    <3> QED BY <3>2, <3>3
  <2>3. g = [i \in 1..(k + 1) |-> g[i]]
    OBVIOUS
  <2> HIDE DEF g
  <2>4. g = [i \in 1..(k + 1) |-> Flattened(s, g, i)]
    BY <2>2, <2>3
  <2> QED BY <2>4
<1> HIDE DEF T
<1>3. n \in T
  BY <1>1, <1>2, SetInduction
<1> QED BY <1>3 DEF T

\* Joined sequences are a sequence over the same set.
LEMMA FlattenSeqType ==
  ASSUME NEW S, NEW s \in Seq(Seq(S))
  PROVE  FlattenSeq(s) \in Seq(S)
<1> DEFINE n == Len(s)
           f == Flattening(s)
<1>1. n \in Nat /\ \A i \in 1..n : s[i] \in Seq(S)
  OBVIOUS
<1>2. CASE n = 0
  BY <1>2 DEF FlattenSeq
<1>3. CASE n # 0
  <2>1. f = [i \in 1..n |-> Flattened(s, f, i)]
    BY <1>1, FlatteningExists DEF Flattening
  <2>2. FlattenSeq(s) = f[n]
    BY <1>3 DEF FlattenSeq, Flattening, Flattened
  <2> DEFINE T == {k \in Nat : k \in 1..n => f[k] \in Seq(S)}
  <2>3. 0 \in T
    OBVIOUS
  <2>4. ASSUME NEW k \in Nat, k \in T PROVE k + 1 \in T
    <3> HIDE DEF f, n
    <3> SUFFICES ASSUME k + 1 \in 1..n PROVE f[k + 1] \in Seq(S)
      OBVIOUS
    <3>1. f[k + 1] = Flattened(s, f, k + 1)
      BY <2>1
    <3>2. CASE k = 0
      BY <1>1, <3>1, <3>2 DEF Flattened
    <3>3. CASE k # 0
      <4>1. f[k] \in Seq(S)
        BY <1>1, <2>4, <3>3
      <4>2. k + 1 # 1 /\ (k + 1) - 1 = k
        BY <3>3
      <4>3. f[k + 1] = f[k] \o s[k + 1]
        BY <3>1, <4>2 DEF Flattened
      <4> QED BY <1>1, <4>1, <4>3
    <3> QED BY <3>2, <3>3
  <2> HIDE DEF T
  <2>5. n \in T
    BY <1>1, <2>3, <2>4, SetInduction
  <2> QED BY <1>1, <1>3, <2>2, <2>5 DEF T
<1> QED BY <1>2, <1>3

\* The parts are sequences.
LEMMA FlattenSeqParts ==
  ASSUME NEW s, IsSeq(s), \A i \in DOMAIN s : IsSeq(s[i])
  PROVE  /\ IsSeq(FlattenSeq(s))
         /\ \A k \in DOMAIN FlattenSeq(s) :
              \E i \in DOMAIN s : \E j \in DOMAIN s[i] : FlattenSeq(s)[k] = s[i][j]
<1> DEFINE S == UNION {Range(s[i]) : i \in DOMAIN s}
           flat == FlattenSeq(s)
<1>1. s \in Seq(Seq(S))
  <2>1. ASSUME NEW i \in DOMAIN s PROVE s[i] \in Seq(S)
    <3>1. s[i] \in Seq(Range(s[i])) /\ Range(s[i]) \subseteq S
      BY DEF IsSeq
    <3> HIDE DEF S
    <3> QED BY <3>1
  <2> HIDE DEF S
  <2>2. Len(s) \in Nat /\ DOMAIN s = 1..Len(s) /\ s = [i \in 1..Len(s) |-> s[i]]
    BY SeqFacts
  <2>3. s \in [1..Len(s) -> Seq(S)]
    BY <2>1, <2>2
  <2> QED BY <2>2, <2>3
<1>2. flat \in Seq(S)
  BY <1>1, FlattenSeqType
<1>3. IsSeq(flat)
  <2> HIDE DEF flat, S
  <2>1. Len(flat) \in Nat /\ flat = [k \in 1..Len(flat) |-> flat[k]]
    BY <1>2
  <2> QED BY <2>1, IntervalIsSeq
<1>4. ASSUME NEW k \in DOMAIN flat
      PROVE  \E i \in DOMAIN s : \E j \in DOMAIN s[i] : flat[k] = s[i][j]
  <2>1. flat[k] \in S
    <3> HIDE DEF flat, S
    <3> QED BY <1>2, <1>4
  <2> HIDE DEF flat
  <2> QED BY <2>1 DEF Range
<1> QED BY <1>3, <1>4

\* What is picked is a sequence of elements at the indices that are kept.
LEMMA PickedParts ==
  ASSUME NEW ps, IsSeq(ps), NEW kept
  PROVE  /\ IsSeq(Picked(ps, kept))
         /\ \A k \in DOMAIN Picked(ps, kept) :
              \E i \in DOMAIN ps : i \in kept /\ Picked(ps, kept)[k] = ps[i]
<1> DEFINE s == [i \in DOMAIN ps |-> IF i \in kept THEN <<ps[i]>> ELSE <<>>]
<1>1. IsSeq(s)
  <2>1. Len(ps) \in Nat /\ DOMAIN ps = 1..Len(ps)
    BY SeqFacts
  <2>2. s = [i \in 1..Len(ps) |-> s[i]]
    BY <2>1
  <2> HIDE DEF s
  <2> QED BY <2>1, <2>2, IntervalIsSeq
<1>2. ASSUME NEW i \in DOMAIN s PROVE IsSeq(s[i])
  <2>1. CASE i \in kept
    <3>1. s[i] = <<ps[i]>>
      BY <2>1
    <3>2. \A x : <<x>> \in Seq({x}) /\ x \in Range(<<x>>) /\ <<x>> \in Seq(Range(<<x>>))
      BY DEF Range
    <3> QED BY <3>1, <3>2 DEF IsSeq
  <2>2. CASE i \notin kept
    <3>1. s[i] = <<>> /\ \A S : <<>> \in Seq(S)
      BY <2>2
    <3> QED BY <3>1 DEF IsSeq
  <2> QED BY <2>1, <2>2
<1>3. /\ IsSeq(FlattenSeq(s))
      /\ \A k \in DOMAIN FlattenSeq(s) :
           \E i \in DOMAIN s : \E j \in DOMAIN s[i] : FlattenSeq(s)[k] = s[i][j]
  <2> HIDE DEF s
  <2> QED BY <1>1, <1>2, FlattenSeqParts
<1>4. \A i \in DOMAIN s : \A j \in DOMAIN s[i] : i \in kept /\ s[i][j] = ps[i]
  OBVIOUS
<1>5. DOMAIN s = DOMAIN ps /\ Picked(ps, kept) = FlattenSeq(s)
  BY DEF Picked
<1> HIDE DEF s
<1> QED BY <1>3, <1>4, <1>5

\* CloneProtoSlice copies every element and keeps its place.
LEMMA CloneProtoSliceParts ==
  ASSUME NEW ps, IsSeq(ps)
  PROVE  /\ IsSeq(CloneProtoSlice(ps)) /\ DOMAIN CloneProtoSlice(ps) = DOMAIN ps
         /\ \A i \in DOMAIN ps : CloneProtoSlice(ps)[i] = CloneProto(ps[i])
<1>1. Len(ps) \in Nat /\ DOMAIN ps = 1..Len(ps)
  BY SeqFacts
<1>2. CloneProtoSlice(ps) = [i \in 1..Len(ps) |-> CloneProtoSlice(ps)[i]]
  BY <1>1 DEF CloneProtoSlice
<1>3. IsSeq(CloneProtoSlice(ps))
  BY <1>1, <1>2, IntervalIsSeq
<1> QED BY <1>3 DEF CloneProtoSlice

-----------------------------------------------------------------------------
\* A product has the fields that a handler writes to and a whole price.
IsProduct(p) ==
  {"shared", "languages", "price"} \subseteq DOMAIN p /\ p.rooms \in Nat /\ IsPrice(p.price)

Products(ps) == IsSeq(ps) /\ \A i \in DOMAIN ps : IsProduct(ps[i])

\* What a filter keeps are copies.
LEMMA CopyFacts ==
  ASSUME NEW p, IsProduct(p)
  PROVE  /\ IsProduct(CloneProto(p)) /\ CloneProto(p).shared = FALSE
         /\ CloneProto(p).price = p.price
BY DEF IsProduct, CloneProto

\* Copies at the prices of some of the products.
CopiesOf(found, ps, kept) ==
  /\ Products(found)
  /\ \A k \in DOMAIN found :
       found[k].shared = FALSE /\ \E i \in kept : found[k].price = ps[i].price

\* Products that are picked and copied keep their prices.
LEMMA PickedCopies ==
  ASSUME NEW ps, Products(ps), NEW kept
  PROVE  CopiesOf(CloneProtoSlice(Picked(ps, kept)), ps, kept)
<1> DEFINE picked == Picked(ps, kept)
           found == CloneProtoSlice(picked)
<1>1. /\ IsSeq(picked)
      /\ \A k \in DOMAIN picked : \E i \in DOMAIN ps : i \in kept /\ picked[k] = ps[i]
  BY PickedParts DEF Products
<1>2. /\ IsSeq(found) /\ DOMAIN found = DOMAIN picked
      /\ \A k \in DOMAIN found : found[k] = CloneProto(picked[k])
  <2> HIDE DEF picked
  <2>1. /\ IsSeq(CloneProtoSlice(picked)) /\ DOMAIN CloneProtoSlice(picked) = DOMAIN picked
        /\ \A i \in DOMAIN picked : CloneProtoSlice(picked)[i] = CloneProto(picked[i])
    BY <1>1, CloneProtoSliceParts
  <2> QED BY <2>1
<1> HIDE DEF picked, found
<1>3. ASSUME NEW k \in DOMAIN found
      PROVE  /\ IsProduct(found[k]) /\ found[k].shared = FALSE
             /\ \E i \in kept : found[k].price = ps[i].price
  <2>1. PICK i \in DOMAIN ps : i \in kept /\ picked[k] = ps[i]
    BY <1>1, <1>2
  <2>2. IsProduct(picked[k])
    BY <2>1 DEF Products
  <2>3. found[k] = CloneProto(picked[k])
    BY <1>2
  <2>4. /\ IsProduct(CloneProto(picked[k])) /\ CloneProto(picked[k]).shared = FALSE
        /\ CloneProto(picked[k]).price = picked[k].price
    BY <2>2, CopyFacts
  <2> QED BY <2>1, <2>3, <2>4
<1>4. CopiesOf(found, ps, kept)
  BY <1>2, <1>3 DEF CopiesOf, Products
<1> QED BY <1>4 DEF found, picked

\* Products that are picked are products.
LEMMA PickedProducts ==
  ASSUME NEW ps, Products(ps), NEW kept
  PROVE  Products(Picked(ps, kept))
<1>1. /\ IsSeq(Picked(ps, kept))
      /\ \A k \in DOMAIN Picked(ps, kept) : \E i \in DOMAIN ps : Picked(ps, kept)[k] = ps[i]
  BY PickedParts DEF Products
<1> QED BY <1>1 DEF Products

\* Nothing of it is the data's own object.
Copies(ps) == Products(ps) /\ \A i \in DOMAIN ps : ps[i].shared = FALSE

\* Every filter of every version returns copies.
LEMMA FiltersCopy ==
  ASSUME NEW ps, Products(ps)
  PROVE  /\ \A q : Copies(AccommodationFiltersV3(ps, q))
         /\ \A q, c : Copies(TripFiltersV3(ps, q, c)) /\ Copies(TripFiltersV4(ps, q, c))
                      /\ Copies(TripFiltersV5(ps, q, c))
         /\ \A l : Copies(BySupplierCodes(ps, l)) /\ Copies(NotModifiedBefore(ps, l))
<1>1. ASSUME NEW base, Products(base), NEW kept PROVE Copies(CloneProtoSlice(Picked(base, kept)))
  <2>1. CopiesOf(CloneProtoSlice(Picked(base, kept)), base, kept)
    BY <1>1, PickedCopies
  <2> QED BY <2>1 DEF Copies, CopiesOf
<1>2. \A kept, more : Copies(CloneProtoSlice(Picked(Picked(ps, kept), more)))
  BY <1>1, PickedProducts
<1>3. \A q : Copies(AccommodationFiltersV3(ps, q))
  BY <1>1 DEF AccommodationFiltersV3
<1>4. \A q, c : Copies(TripFiltersV3(ps, q, c))
  BY <1>1 DEF TripFiltersV3
<1>5. \A q, c : Copies(TripFiltersV4(ps, q, c))
  BY <1>1 DEF TripFiltersV4
<1>6. \A q, c : Copies(TripFiltersV5(ps, q, c))
  BY <1>2 DEF TripFiltersV4, TripFiltersV5
<1>7. \A l : Copies(BySupplierCodes(ps, l)) /\ Copies(NotModifiedBefore(ps, l))
  BY <1>1 DEF BySupplierCodes, NotModifiedBefore
<1> QED BY <1>3, <1>4, <1>5, <1>6, <1>7

\* Results: copies at a price in the currency asked for.
Result(p, r) ==
  /\ p.shared = FALSE /\ IsPrice(p.price) /\ p.price.currency = r.currency
  /\ r.industry = "accommodation" /\ r.version # 3 => p.price.value \in Nat
Results(items, r) == IsSeq(items) /\ \A i \in DOMAIN items : Result(items[i], r)

\* Activities keep their prices, of which the filters see the currency.
LEMMA ActivityResults ==
  ASSUME NEW ps, Products(ps), NEW r, r.industry = "activity"
  PROVE  Results(ActivityFiltersV3(ps, r), r) /\ Results(ActivityFiltersV4(ps, r), r)
<1>1. ASSUME NEW kept, \A i \in kept : ps[i].price.currency = r.currency
      PROVE  Results(CloneProtoSlice(Picked(ps, kept)), r)
  <2>1. CopiesOf(CloneProtoSlice(Picked(ps, kept)), ps, kept)
    BY PickedCopies
  <2> QED BY <1>1, <2>1 DEF CopiesOf, Results, Result, Products, IsProduct
<1>2. Results(ActivityFiltersV3(ps, r), r)
  BY <1>1 DEF ActivityFiltersV3
<1>3. Results(ActivityFiltersV4(ps, r), r)
  BY <1>1 DEF ActivityFiltersV4
<1> QED BY <1>2, <1>3

\* A copy that is priced in the currency of the request.
LEMMA PricedIsResult ==
  ASSUME NEW p, IsProduct(p), p.shared = FALSE, NEW r, NEW price, IsPrice(price),
         price.currency = r.currency,
         r.industry = "accommodation" /\ r.version # 3 => price.value \in Nat
  PROVE  Result(Priced(p, price), r)
<1>1. Priced(p, price).price = price /\ Priced(p, price).shared = FALSE
  BY DEF Priced, IsProduct
<1> QED BY <1>1 DEF Result

\* The results of every query or property, one after the other.
LEMMA ResultsJoined ==
  ASSUME NEW s, IsSeq(s), NEW r, \A i \in DOMAIN s : Results(s[i], r)
  PROVE  Results(FlattenSeq(s), r)
<1>1. \A i \in DOMAIN s : IsSeq(s[i])
  BY DEF Results
<1>2. /\ IsSeq(FlattenSeq(s))
      /\ \A k \in DOMAIN FlattenSeq(s) :
           \E i \in DOMAIN s : \E j \in DOMAIN s[i] : FlattenSeq(s)[k] = s[i][j]
  BY <1>1, FlattenSeqParts
<1> QED BY <1>2 DEF Results

\* The price of a stay: so much for each night.
LEMMA StayPriceFacts ==
  ASSUME NEW r, NEW period, NEW decimals
  PROVE  /\ IsPrice(StayPrice(r, period, decimals))
         /\ StayPrice(r, period, decimals).currency = r.currency
         /\ period.start \in Int /\ period.end \in Int /\ IsTravelPeriodAllowed(period) =>
              StayPrice(r, period, decimals).value \in Nat
<1>1. \A a, b \in Nat : a * b \in Nat
  OBVIOUS
<1>2. period.start \in Int /\ period.end \in Int /\ IsTravelPeriodAllowed(period) =>
        Nights(period) \in Nat
  BY DEF IsTravelPeriodAllowed, Nights
<1>3. /\ StayPrice(r, period, decimals).value = PerNight * Nights(period)
      /\ IsPrice(StayPrice(r, period, decimals))
      /\ StayPrice(r, period, decimals).currency = r.currency
  BY DEF StayPrice, IsPrice
<1> QED BY <1>1, <1>2, <1>3, AmountsAssumption

\* The results for the rooms of a property.
LEMMA RoomsAreResults ==
  ASSUME NEW p, IsProduct(p), p.shared = FALSE, NEW r, NEW price, IsPrice(price),
         price.currency = r.currency, price.value \in Nat
  PROVE  Results(RoomResults(p, price), r)
<1>1. Result(Priced(p, price), r)
  BY PricedIsResult
<1>2. p.rooms \in Nat
  BY DEF IsProduct
<1>3. RoomResults(p, price) = [k \in 1..p.rooms |-> RoomResults(p, price)[k]]
  BY DEF RoomResults
<1>4. IsSeq(RoomResults(p, price)) /\ DOMAIN RoomResults(p, price) = 1..p.rooms
  BY <1>2, <1>3, IntervalIsSeq
<1>5. \A k \in 1..p.rooms : RoomResults(p, price)[k] = Priced(p, price)
  BY DEF RoomResults
<1> QED BY <1>1, <1>4, <1>5 DEF Results

\* The rooms of all properties that are found for a stay.
LEMMA RoomsOfStay ==
  ASSUME NEW ps, Products(ps), NEW r, r.period.start \in Int /\ r.period.end \in Int,
         IsTravelPeriodAllowed(r.period), NEW found, found = AccommodationFiltersV3(ps, r)
  PROVE  Results(FlattenSeq([j \in DOMAIN found |->
                               RoomResults(found[j], StayPrice(r, r.period, 0))]), r)
<1> DEFINE price == StayPrice(r, r.period, 0)
           s == [j \in DOMAIN found |-> RoomResults(found[j], price)]
<1>1. IsPrice(price) /\ price.currency = r.currency /\ price.value \in Nat
  BY StayPriceFacts
<1>2. Copies(found)
  BY FiltersCopy
<1>3. Len(found) \in Nat /\ DOMAIN found = 1..Len(found)
  BY <1>2, SeqFacts DEF Copies, Products
<1>4. s = [j \in 1..Len(found) |-> s[j]]
  BY <1>3
<1>5. IsSeq(s) /\ DOMAIN s = 1..Len(found)
  <2> HIDE DEF s
  <2> QED BY <1>3, <1>4, IntervalIsSeq
<1>6. ASSUME NEW j \in DOMAIN s PROVE Results(s[j], r)
  <2>1. s[j] = RoomResults(found[j], price)
    OBVIOUS
  <2> HIDE DEF s, price
  <2>2. IsProduct(found[j]) /\ found[j].shared = FALSE
    BY <1>2, <1>3, <1>5 DEF Copies, Products
  <2> QED BY <1>1, <2>1, <2>2, RoomsAreResults
<1>7. Results(FlattenSeq(s), r)
  <2> HIDE DEF s
  <2> QED BY <1>5, <1>6, ResultsJoined
<1> QED BY <1>7

\* Version 3 prices every property for every query.
LEMMA StaysOfQueries ==
  ASSUME NEW ps, Products(ps), NEW r, IsSeq(r.queries), r.version = 3,
         ~AccommodationSearchV3(ps, r).refused
  PROVE  Results(AccommodationSearchV3(ps, r).items, r)
<1> DEFINE found(i) == AccommodationFiltersV3(ps, r.queries[i])
           price(i) == StayPrice(r, r.queries[i].period, 2)
           s == [i \in DOMAIN r.queries |->
                   [j \in DOMAIN found(i) |-> Priced(found(i)[j], price(i))]]
<1>1. AccommodationSearchV3(ps, r).items = FlattenSeq(s)
  BY DEF AccommodationSearchV3, Found, Refused
<1>2. Len(r.queries) \in Nat /\ DOMAIN r.queries = 1..Len(r.queries)
  BY SeqFacts
<1>3. s = [i \in 1..Len(r.queries) |-> s[i]]
  BY <1>2
<1>4. IsSeq(s)
  <2> HIDE DEF s
  <2> QED BY <1>2, <1>3, IntervalIsSeq
<1>5. ASSUME NEW i \in DOMAIN s PROVE Results(s[i], r)
  <2>1. s[i] = [j \in DOMAIN found(i) |-> Priced(found(i)[j], price(i))]
    OBVIOUS
  <2>2. Copies(found(i))
    BY FiltersCopy
  <2>3. IsPrice(price(i)) /\ price(i).currency = r.currency
    BY StayPriceFacts
  <2> HIDE DEF s, found, price
  <2>4. Len(found(i)) \in Nat /\ DOMAIN found(i) = 1..Len(found(i))
    BY <2>2, SeqFacts DEF Copies, Products
  <2>5. IsSeq(s[i]) /\ DOMAIN s[i] = DOMAIN found(i)
    <3>1. s[i] = [j \in 1..Len(found(i)) |-> s[i][j]]
      BY <2>1, <2>4
    <3> QED BY <2>4, <3>1, IntervalIsSeq
  <2>6. ASSUME NEW j \in DOMAIN s[i] PROVE Result(s[i][j], r)
    <3>1. IsProduct(found(i)[j]) /\ found(i)[j].shared = FALSE
      BY <2>2, <2>5 DEF Copies, Products
    <3>2. s[i][j] = Priced(found(i)[j], price(i))
      BY <2>1, <2>5
    <3> QED BY <2>3, <3>1, <3>2, PricedIsResult
  <2> QED BY <2>5, <2>6 DEF Results
<1>6. Results(FlattenSeq(s), r)
  <2> HIDE DEF s
  <2> QED BY <1>4, <1>5, ResultsJoined
<1> QED BY <1>1, <1>6

\* Trips: the first one's copy, at the price of all.
LEMMA TripsAreResults ==
  ASSUME NEW trips, IsSeq(trips), \A i \in DOMAIN trips : Copies(trips[i]),
         NEW r, r.industry = "transport", ~TripResults(r, trips).refused
  PROVE  Results(TripResults(r, trips).items, r)
<1> DEFINE kept == {i \in DOMAIN trips : trips[i] # <<>>}
           found == Picked(trips, kept)
           items == [i \in DOMAIN found |-> Priced(found[i][1], TotalPrice(found[i], r.currency))]
<1>1. TripResults(r, trips).items = items
  BY DEF TripResults, Found, Refused
<1>2. IsSeq(found) /\ \A k \in DOMAIN found : Copies(found[k]) /\ found[k] # <<>>
  <2>1. /\ IsSeq(found)
        /\ \A k \in DOMAIN found : \E i \in DOMAIN trips : i \in kept /\ found[k] = trips[i]
    <3> HIDE DEF kept
    <3> QED BY PickedParts
  <2> HIDE DEF found
  <2> QED BY <2>1
<1> HIDE DEF found, kept
<1>3. Len(found) \in Nat /\ DOMAIN found = 1..Len(found)
  BY <1>2, SeqFacts
<1>4. IsSeq(items) /\ DOMAIN items = DOMAIN found
  <2>1. items = [i \in 1..Len(found) |-> items[i]]
    BY <1>3
  <2> HIDE DEF items
  <2> QED BY <1>3, <2>1, IntervalIsSeq
<1>5. ASSUME NEW k \in DOMAIN items PROVE Result(items[k], r)
  <2>1. items[k] = Priced(found[k][1], TotalPrice(found[k], r.currency))
    OBVIOUS
  <2> HIDE DEF items
  <2>2. Copies(found[k]) /\ found[k] # <<>>
    BY <1>2, <1>4
  <2>3. 1 \in DOMAIN found[k]
    <3>1. Len(found[k]) \in Nat /\ DOMAIN found[k] = 1..Len(found[k]) /\ IsSeq(found[k])
      BY <2>2, SeqFacts DEF Copies, Products
    <3>2. Len(found[k]) # 0
      BY <2>2, <3>1 DEF IsSeq
    <3> QED BY <3>1, <3>2
  <2>4. IsProduct(found[k][1]) /\ found[k][1].shared = FALSE
    BY <2>2, <2>3 DEF Copies, Products
  <2>5. /\ IsPrice(TotalPrice(found[k], r.currency))
        /\ TotalPrice(found[k], r.currency).currency = r.currency
    BY DEF TotalPrice, IsPrice
  <2> QED BY <2>1, <2>4, <2>5, PricedIsResult
<1>6. Results(items, r)
  BY <1>4, <1>5 DEF Results
<1> QED BY <1>1, <1>6

\* Searches of transports.
LEMMA TripSearchResults ==
  ASSUME NEW ps, Products(ps), NEW r, IsSeq(r.queries), r.industry = "transport"
  PROVE  /\ ~TransportSearchV3(ps, r).refused => Results(TransportSearchV3(ps, r).items, r)
         /\ ~TransportSearchV4(ps, r).refused => Results(TransportSearchV4(ps, r).items, r)
         /\ ~TransportSearchV5(ps, r).refused => Results(TransportSearchV5(ps, r).items, r)
<1> DEFINE trips3 == [i \in DOMAIN r.queries |-> TripFiltersV3(ps, r.queries[i], r.currency)]
           trips4 == [i \in DOMAIN r.queries |-> TripFiltersV4(ps, r.queries[i], r.currency)]
           trips5 == [i \in DOMAIN r.queries |-> TripFiltersV5(ps, r.queries[i], r.currency)]
<1>1. Len(r.queries) \in Nat /\ DOMAIN r.queries = 1..Len(r.queries)
  BY SeqFacts
<1>2. /\ \A i \in DOMAIN trips3 : Copies(trips3[i])
      /\ \A i \in DOMAIN trips4 : Copies(trips4[i])
      /\ \A i \in DOMAIN trips5 : Copies(trips5[i])
  BY FiltersCopy
<1>3. /\ trips3 = [i \in 1..Len(r.queries) |-> trips3[i]]
      /\ trips4 = [i \in 1..Len(r.queries) |-> trips4[i]]
      /\ trips5 = [i \in 1..Len(r.queries) |-> trips5[i]]
  BY <1>1
<1>4. /\ TransportSearchV3(ps, r) = Refused \/ TransportSearchV3(ps, r) = TripResults(r, trips3)
      /\ TransportSearchV4(ps, r) = Refused \/ TransportSearchV4(ps, r) = TripResults(r, trips4)
      /\ TransportSearchV5(ps, r) = Refused \/ TransportSearchV5(ps, r) = TripResults(r, trips5)
  BY DEF TransportSearchV3, TransportSearchV4, TransportSearchV5
<1> HIDE DEF trips3, trips4, trips5
<1>5. IsSeq(trips3) /\ IsSeq(trips4) /\ IsSeq(trips5)
  BY <1>1, <1>3, IntervalIsSeq
<1>6. Refused.refused = TRUE
  BY DEF Refused
<1> QED BY <1>2, <1>4, <1>5, <1>6, TripsAreResults

\* What a search of any industry and version returns.
LEMMA SearchReturnsResults ==
  ASSUME NEW ps, Products(ps), NEW r \in SearchRequests, protoValidateInterceptor(r),
         ~SearchOf(ps, r).refused
  PROVE  /\ Results(SearchOf(ps, r).items, r)
         /\ r.industry = "accommodation" /\ r.version # 3 =>
              IsTravelPeriodAllowed(r.period) /\ r.period.start \in Int /\ r.period.end \in Int
<1>1. /\ r.industry \in {"accommodation", "transport", "activity"} /\ r.version \in {3, 4, 5}
      /\ r.period = Unset \/ (r.period.start \in Int /\ r.period.end \in Int)
      /\ IsSeq(r.queries)
  <2>1. /\ r.industry \in Industries /\ r.version \in Versions /\ IsSeq(r.queries)
        /\ r.period = Unset \/ (r.period.start \in Int /\ r.period.end \in Int)
    BY RequestAssumption DEF IsSeq
  <2> QED BY <2>1 DEF Industries, Versions
<1>2. CASE r.industry = "accommodation"
  <2>1. CASE r.version = 3
    <3>1. SearchOf(ps, r) = AccommodationSearchV3(ps, r)
      BY <1>2, <2>1 DEF SearchOf
    <3> QED BY <1>1, <2>1, <3>1, StaysOfQueries
  <2>2. CASE r.version # 3
    <3>1. PICK found : found = AccommodationFiltersV3(ps, r)
      OBVIOUS
    <3> DEFINE rooms == FlattenSeq([j \in DOMAIN found |->
                                      RoomResults(found[j], StayPrice(r, r.period, 0))])
    <3>2. r.period.start \in Int /\ r.period.end \in Int
      BY <1>1, <1>2, <2>2 DEF protoValidateInterceptor
    <3>3. IsTravelPeriodAllowed(r.period) /\ SearchOf(ps, r).items = rooms
      <4> HIDE DEF rooms
      <4>1. CASE r.version = 4
        <5>1. SearchOf(ps, r) = AccommodationSearchV4(ps, r)
          BY <1>2, <4>1 DEF SearchOf
        <5>2. AccommodationSearchV4(ps, r) =
                IF ~IsTravelPeriodAllowed(r.period) THEN Refused ELSE Found(rooms)
          BY <3>1 DEF AccommodationSearchV4, AccommodationFiltersV4, rooms
        <5> QED BY <5>1, <5>2 DEF Refused, Found
      <4>2. CASE r.version = 5
        <5>1. SearchOf(ps, r) = AccommodationSearchV5(ps, r)
          BY <1>2, <4>2 DEF SearchOf
        <5>2. AccommodationSearchV5(ps, r) =
                IF r.currency = Unset \/ r.period = Unset \/ ~IsTravelPeriodAllowed(r.period)
                THEN Refused ELSE Found(rooms)
          BY <3>1 DEF AccommodationSearchV5, AccommodationFiltersV5, rooms
        <5> QED BY <5>1, <5>2 DEF Refused, Found
      <4> QED BY <1>1, <2>2, <4>1, <4>2
    <3>4. Results(rooms, r)
      BY <3>1, <3>2, <3>3, RoomsOfStay
    <3> HIDE DEF rooms
    <3> QED BY <3>2, <3>3, <3>4
  <2> QED BY <2>1, <2>2
<1>3. CASE r.industry = "transport"
  <2>1. \/ SearchOf(ps, r) = TransportSearchV3(ps, r)
        \/ SearchOf(ps, r) = TransportSearchV4(ps, r)
        \/ SearchOf(ps, r) = TransportSearchV5(ps, r)
    <3>1. CASE r.version = 3
      BY <1>3, <3>1 DEF SearchOf
    <3>2. CASE r.version = 4
      BY <1>3, <3>2 DEF SearchOf
    <3>3. CASE r.version = 5
      BY <1>3, <3>3 DEF SearchOf
    <3> QED BY <1>1, <3>1, <3>2, <3>3
  <2>2. r.industry # "accommodation"
    BY <1>3
  <2> QED BY <1>1, <1>3, <2>1, <2>2, TripSearchResults
<1>4. CASE r.industry = "activity"
  <2>1. \/ SearchOf(ps, r).items = ActivityFiltersV3(ps, r)
        \/ SearchOf(ps, r).items = ActivityFiltersV4(ps, r)
    <3>1. CASE r.version = 3
      BY <1>4, <3>1 DEF SearchOf, ActivitySearchV3, Found, Refused
    <3>2. CASE r.version = 4
      BY <1>4, <3>2 DEF SearchOf, ActivitySearchV4, Found, Refused
    <3>3. CASE r.version = 5
      BY <1>4, <3>3 DEF SearchOf, ActivitySearchV5, ActivityFiltersV5, Found, Refused
    <3> QED BY <1>1, <3>1, <3>2, <3>3
  <2>2. r.industry # "accommodation"
    BY <1>4
  <2> QED BY <1>4, <2>1, <2>2, ActivityResults
<1> QED BY <1>1, <1>2, <1>3, <1>4

-----------------------------------------------------------------------------
\* The mock data is as it was at first.
DataKept == catalogue = <<>> /\ seatMaps = MockSeatMaps

\* Data that nobody wrote to is what DataAssumption says.
LEMMA DataIsProducts ==
  ASSUME DataKept, NEW v, NEW industry \in Industries
  PROVE  Data(v, industry) = MockProducts[industry] /\ Products(Data(v, industry))
<1>1. Data(v, industry) = MockProducts[industry]
  BY DEF DataKept, Data
<1>2. /\ MockProducts[industry] \in Seq(Range(MockProducts[industry]))
      /\ \A p \in Range(MockProducts[industry]) : IsProduct(p)
  BY DataAssumption DEF IsProduct
<1>3. Products(MockProducts[industry])
  BY <1>2 DEF Products, IsSeq, Range
<1> QED BY <1>1, <1>3

\* Nothing is written through copies.
LEMMA NothingWritten ==
  ASSUME NEW products, NEW items, \A j \in DOMAIN items : items[j].shared = FALSE
  PROVE  Written(products, items) = {}
BY DEF Written

\* A product with fewer languages is still a copy.
LEMMA InLanguagesCopies ==
  ASSUME NEW ps, Copies(ps), NEW languages
  PROVE  \A k \in DOMAIN InLanguages(ps, languages) : InLanguages(ps, languages)[k].shared = FALSE
<1> DEFINE named == [i \in DOMAIN ps |->
             [ps[i] EXCEPT !.languages = IF languages = {} THEN @ ELSE @ \cap languages]]
           kept == {i \in DOMAIN ps : languages = {} \/ named[i].languages # {}}
<1>1. Len(ps) \in Nat /\ DOMAIN ps = 1..Len(ps)
  BY SeqFacts DEF Copies, Products
<1>2. \A i \in DOMAIN named : named[i].shared = FALSE
  BY DEF Copies, Products, IsProduct
<1>3. named = [i \in 1..Len(ps) |-> named[i]]
  BY <1>1
<1>4. InLanguages(ps, languages) = Picked(named, kept)
  BY DEF InLanguages
<1> HIDE DEF named, kept
<1>5. IsSeq(named)
  BY <1>1, <1>3, IntervalIsSeq
<1>6. \A k \in DOMAIN Picked(named, kept) :
        \E i \in DOMAIN named : Picked(named, kept)[k] = named[i]
  BY <1>5, PickedParts
<1> QED BY <1>2, <1>4, <1>6

\* Information is about copies.
LEMMA InfoCopies ==
  ASSUME NEW ps, Products(ps), NEW l \in ListRequests, l.list = "info"
  PROVE  \A k \in DOMAIN ListOf(ps, l) : ListOf(ps, l)[k].shared = FALSE
<1>1. l.industry \in {"accommodation", "activity"} /\ l.version \in {3, 4, 5}
  BY RequestAssumption DEF Industries, Versions
<1>2. Copies(BySupplierCodes(ps, l))
  BY FiltersCopy
<1>3. Copies(NotModifiedBefore(BySupplierCodes(ps, l), l))
  BY <1>2, FiltersCopy DEF Copies
<1>4. \/ ListOf(ps, l) = InLanguages(BySupplierCodes(ps, l), l.languages)
      \/ ListOf(ps, l) = InLanguages(NotModifiedBefore(BySupplierCodes(ps, l), l), l.languages)
  <2>1. CASE l.industry = "accommodation"
    BY <1>1, <2>1 DEF ListOf, AccommodationProductInfoV3, AccommodationProductInfoV4,
                      AccommodationProductInfoV5
  <2>2. CASE l.industry = "activity"
    BY <1>1, <2>2 DEF ListOf, ActivityProductInfoV3, ActivityProductInfoV4, ActivityProductInfoV5
  <2> QED BY <1>1, <2>1, <2>2
<1>5. PICK copies : Copies(copies) /\ ListOf(ps, l) = InLanguages(copies, l.languages)
  BY <1>2, <1>3, <1>4
<1>6. \A k \in DOMAIN InLanguages(copies, l.languages) :
        InLanguages(copies, l.languages)[k].shared = FALSE
  BY <1>5, InLanguagesCopies
<1> QED BY <1>5, <1>6

\* Every step leaves the mock data alone.
LEMMA DataKeptByStep == DataKept /\ [MockNext]_mockVars => DataKept'
<1> SUFFICES ASSUME DataKept, [MockNext]_mockVars PROVE DataKept'
  OBVIOUS
<1>1. CASE UNCHANGED <<catalogue, seatMaps>>
  BY <1>1 DEF DataKept
<1>2. ASSUME NEW r \in SearchRequests, Search(r) PROVE DataKept'
  <2> DEFINE old == Data(r.version, r.industry)
             items == SearchOf(old, r).items
  <2>1. r.industry \in Industries
    BY RequestAssumption
  <2>2. Products(old)
    BY <2>1, DataIsProducts
  <2>3. /\ protoValidateInterceptor(r) /\ ~SearchOf(old, r).refused /\ WriteResults(r, items)
        /\ seatMaps' = seatMaps
    BY <1>2 DEF Search
  <2>4. \A j \in DOMAIN items : items[j].shared = FALSE
    BY <2>2, <2>3, SearchReturnsResults DEF Results, Result
  <2>5. Written(old, items) = {}
    BY <2>4, NothingWritten
  <2>6. catalogue' = catalogue
    BY <2>3, <2>5 DEF WriteResults
  <2> QED BY <2>3, <2>6 DEF DataKept
<1>3. ASSUME NEW l \in ListRequests, BrowseProducts(l) PROVE DataKept'
  <2> DEFINE old == Data(l.version, l.industry)
  <2>1. Products(old)
    BY RequestAssumption, DataIsProducts
  <2>2. l.list = "info" => Written(old, ListOf(old, l)) = {}
    BY <2>1, InfoCopies, NothingWritten
  <2>3. catalogue' = catalogue /\ seatMaps' = seatMaps
    BY <1>3, <2>2 DEF BrowseProducts
  <2> QED BY <2>3 DEF DataKept
<1>4. ASSUME NEW id \in DOMAIN seatMaps, NEW languages \in {{}, {"en"}}, SeatMap(id, languages)
      PROVE  DataKept'
  <2>1. DOMAIN seatMaps[id] = {"shared", "sections"}
    BY DataAssumption DEF DataKept
  <2>2. filterSeatMapLocalization(CloneProto(seatMaps[id]), languages).shared = FALSE
    BY <2>1 DEF filterSeatMapLocalization, CloneProto
  <2>3. seatMaps' = seatMaps /\ catalogue' = catalogue
    BY <1>4, <2>2 DEF SeatMap
  <2> QED BY <2>3 DEF DataKept
<1>5. UNCHANGED mockVars => UNCHANGED <<catalogue, seatMaps>>
  BY DEF mockVars
<1>6. Elapse \/ cleanupExpiredEntries => UNCHANGED <<catalogue, seatMaps>>
  BY DEF Elapse, cleanupExpiredEntries
<1>7. \A version, id : MintMock(version, id) => UNCHANGED <<catalogue, seatMaps>>
  BY DEF MintMock
<1>8. \A version, id, result : Validation(version, id, result) => UNCHANGED <<catalogue, seatMaps>>
  BY DEF Validation
<1>9. \A id : TokenBoughtNotification(id) \/ TokenReservationExpiredNotification(id) =>
             UNCHANGED <<catalogue, seatMaps>>
  BY DEF TokenBoughtNotification, TokenReservationExpiredNotification
<1> QED BY <1>1, <1>2, <1>3, <1>4, <1>5, <1>6, <1>7, <1>8, <1>9 DEF MockNext

\* So the data is kept by any calls.
LEMMA DataKeptAlways == MockSpec => []DataKept
<1>1. MockInit => DataKept
  BY DEF MockInit, DataKept
<1> QED BY <1>1, DataKeptByStep, PTL DEF MockSpec

\* Whatever was asked before, in whatever order, a request finds what it would
\* have found first: no handler of any version writes to the mock data.
THEOREM AnswersRepeatHolds == MockSpec => []AnswersRepeat
<1>1. DataKept => AnswersRepeat
  BY DEF DataKept, AnswersRepeat
<1> QED BY <1>1, DataKeptAlways, PTL

-----------------------------------------------------------------------------
(***************************************************************************)
(* UnexpiredIsKept, for any requests, data and numbers of calls.  Every    *)
(* entry of the store belongs to a response of its kind, has the seat map  *)
(* of the search behind it, and was created no longer before its response  *)
(* expires than the cleanup waits.                                         *)
(***************************************************************************)

\* The seat map of the search that a response goes back to.
SeatMapBehind(id) ==
  IF issued[id].kind = "search" THEN issued[id].seatMap
  ELSE IF issued[id].kind = "validation" THEN issued[issued[id].search].seatMap
  ELSE issued[issued[issued[id].validation].search].seatMap

\* A response goes back to one of the kind before.
IssuedAgrees ==
  \A id \in DOMAIN issued :
    /\ issued[id].kind \in {"search", "validation", "mint"} /\ issued[id].expires \in Nat
    /\ issued[id].kind = "validation" =>
         issued[id].search \in DOMAIN issued /\ issued[issued[id].search].kind = "search"
    /\ issued[id].kind = "mint" =>
         /\ issued[id].validation \in DOMAIN issued
         /\ issued[issued[id].validation].kind = "validation"

\* The entry of a response.
Backed(id, kind, entry) ==
  /\ id \in DOMAIN issued /\ issued[id].kind = kind
  /\ entry.seatMap = SeatMapBehind(id)
  /\ entry.createdAt \in Nat /\ entry.createdAt <= clock
  /\ issued[id].expires <= entry.createdAt + EntryTimeout

StoreAgrees ==
  /\ \A id \in DOMAIN searchResults : Backed(id, "search", searchResults[id])
  /\ \A id \in DOMAIN validationResults : Backed(id, "validation", validationResults[id])
  /\ \A id \in DOMAIN mintResults : Backed(id, "mint", mintResults[id])

MintEntries ==
  \A id \in DOMAIN mintResults :
    {"seatMap", "createdAt", "bought"} \subseteq DOMAIN mintResults[id]

\* A response that has not expired has its entry, but for a mint that was reported.
Kept(id) ==
  clock < issued[id].expires =>
    /\ issued[id].kind = "search" => id \in DOMAIN searchResults
    /\ issued[id].kind = "validation" => id \in DOMAIN validationResults
    /\ issued[id].kind = "mint" => id \in DOMAIN mintResults \/ id \in reported

StoreInv ==
  /\ clock \in Nat /\ \E S : issued \in Seq(S)
  /\ IssuedAgrees /\ StoreAgrees /\ MintEntries
  /\ \A id \in DOMAIN issued : Kept(id)

\* Nothing is handed out at first.
LEMMA StoreInitInv == MockInit => StoreInv
<1> SUFFICES ASSUME MockInit PROVE StoreInv
  OBVIOUS
<1>1. issued = <<>> /\ searchResults = <<>> /\ validationResults = <<>> /\ mintResults = <<>>
      /\ clock = 0
  BY DEF MockInit
<1>2. issued \in Seq({}) /\ \A m : m = <<>> => DOMAIN m = {}
  BY <1>1
<1>3. IssuedAgrees /\ StoreAgrees /\ MintEntries /\ \A id \in DOMAIN issued : Kept(id)
  BY <1>1, <1>2 DEF IssuedAgrees, StoreAgrees, MintEntries
<1> QED BY <1>1, <1>2, <1>3 DEF StoreInv

\* A response is appended, and the ones before stay as they are.
LEMMA IssueFacts ==
  ASSUME NEW S, issued \in Seq(S), NEW e, Issue(e)
  PROVE  /\ DOMAIN issued' = DOMAIN issued \cup {NewID} /\ NewID \notin DOMAIN issued
         /\ issued'[NewID] = e /\ \A id \in DOMAIN issued : issued'[id] = issued[id]
         /\ issued' \in Seq(S \cup {e})
<1>1. issued \in Seq(S \cup {e})
  OBVIOUS
<1>2. /\ Len(issued) \in Nat /\ DOMAIN issued = 1..Len(issued)
  OBVIOUS
<1>3. issued' \in Seq(S \cup {e}) /\ Len(issued') = Len(issued) + 1
  BY <1>1 DEF Issue
<1>4. issued'[NewID] = e /\ \A id \in DOMAIN issued : issued'[id] = issued[id]
  BY <1>1, <1>2 DEF Issue, NewID
<1>5. DOMAIN issued' = 1..(Len(issued) + 1)
  BY <1>3
<1> QED BY <1>2, <1>3, <1>4, <1>5 DEF NewID

\* What a response goes back to stays, and the new id has no entry yet.
LEMMA BehindStays ==
  ASSUME StoreInv, NEW e, Issue(e)
  PROVE  /\ \E S : issued' \in Seq(S)
         /\ DOMAIN issued' = DOMAIN issued \cup {NewID} /\ NewID \notin DOMAIN issued
         /\ issued'[NewID] = e
         /\ \A id \in DOMAIN issued :
              issued'[id] = issued[id] /\ SeatMapBehind(id)' = SeatMapBehind(id)
         /\ reported' = reported
<1>1. PICK S : issued \in Seq(S)
  BY DEF StoreInv
<1>2. /\ DOMAIN issued' = DOMAIN issued \cup {NewID} /\ NewID \notin DOMAIN issued
      /\ issued'[NewID] = e /\ \A id \in DOMAIN issued : issued'[id] = issued[id]
      /\ issued' \in Seq(S \cup {e})
  BY <1>1, IssueFacts
<1>3. ASSUME NEW id \in DOMAIN issued PROVE SeatMapBehind(id)' = SeatMapBehind(id)
  <2>1. /\ issued[id].kind \in {"search", "validation", "mint"}
        /\ issued[id].kind = "validation" => issued[id].search \in DOMAIN issued
        /\ issued[id].kind = "mint" =>
             /\ issued[id].validation \in DOMAIN issued
             /\ issued[issued[id].validation].search \in DOMAIN issued
    BY DEF StoreInv, IssuedAgrees
  <2> QED BY <1>2, <2>1 DEF SeatMapBehind
<1>4. reported' = reported
  BY DEF Issue
<1> QED BY <1>2, <1>3, <1>4

\* The entries and responses that were there before a new response.
LEMMA OldResponsesKept ==
  ASSUME StoreInv, NEW e, Issue(e), clock' = clock
  PROVE  /\ \A kind, entry : \A id \in DOMAIN issued :
              Backed(id, kind, entry) => Backed(id, kind, entry)'
         /\ \A id \in DOMAIN issued :
              /\ issued'[id].kind \in {"search", "validation", "mint"}
              /\ issued'[id].expires \in Nat
              /\ issued'[id].kind = "validation" =>
                   /\ issued'[id].search \in DOMAIN issued'
                   /\ issued'[issued'[id].search].kind = "search"
              /\ issued'[id].kind = "mint" =>
                   /\ issued'[id].validation \in DOMAIN issued'
                   /\ issued'[issued'[id].validation].kind = "validation"
<1>1. /\ DOMAIN issued' = DOMAIN issued \cup {NewID} /\ NewID \notin DOMAIN issued
      /\ \A id \in DOMAIN issued :
           issued'[id] = issued[id] /\ SeatMapBehind(id)' = SeatMapBehind(id)
  BY BehindStays
<1>2. \A kind, entry : \A id \in DOMAIN issued : Backed(id, kind, entry) => Backed(id, kind, entry)'
  BY <1>1 DEF Backed
<1>3. IssuedAgrees
  BY DEF StoreInv
<1> QED BY <1>1, <1>2, <1>3 DEF IssuedAgrees

\* Search: the new search has its entry.
LEMMA SearchKeeps ==
  ASSUME StoreInv, NEW r \in SearchRequests, Search(r)
  PROVE  StoreInv'
<1>1. PICK e, entry, new :
        /\ Issue(e) /\ new = NewID /\ searchResults' = With(searchResults, new, entry)
        /\ e.kind = "search" /\ e.expires = NewExpiringUUID(r.version)
        /\ entry.seatMap = e.seatMap /\ entry.createdAt = clock
  <2>1. PICK out : /\ AddSearchResult(NewID,
                        [i \in DOMAIN out.items |-> Unified(out.items[i].price, realistic)],
                        SearchSeatMap(r, out.items))
                   /\ Issue([kind |-> "search", request |-> r,
                             expires |-> NewExpiringUUID(r.version),
                             results |-> ResultsShown(r, out.items),
                             seatMap |-> SearchSeatMap(r, out.items)])
    BY DEF Search
  <2>2. PICK results, seatMap, prices :
          /\ Issue([kind |-> "search", request |-> r, expires |-> NewExpiringUUID(r.version),
                    results |-> results, seatMap |-> seatMap])
          /\ searchResults' = With(searchResults, NewID,
               [prices |-> prices, seatMap |-> seatMap, createdAt |-> clock])
    BY <2>1 DEF AddSearchResult
  <2> QED BY <2>2
<1>2. /\ UNCHANGED <<clock, validationResults, mintResults>> /\ clock \in Nat
      /\ IssuedAgrees /\ StoreAgrees /\ MintEntries /\ \A id \in DOMAIN issued : Kept(id)
  BY DEF Search, StoreInv
<1>3. e.expires \in Nat /\ e.expires <= clock + EntryTimeout
  BY <1>1, <1>2, MockAssumption DEF NewExpiringUUID
<1>4. /\ \E S : issued' \in Seq(S)
      /\ DOMAIN issued' = DOMAIN issued \cup {new} /\ new \notin DOMAIN issued
      /\ issued'[new] = e
      /\ \A id \in DOMAIN issued : issued'[id] = issued[id]
      /\ reported' = reported
  BY <1>1, BehindStays
<1>5. /\ DOMAIN searchResults' = DOMAIN searchResults \cup {new} /\ searchResults'[new] = entry
      /\ \A id \in DOMAIN searchResults \ {new} : searchResults'[id] = searchResults[id]
  BY <1>1 DEF With
<1>6. IssuedAgrees'
  BY <1>1, <1>2, <1>3, <1>4, OldResponsesKept DEF IssuedAgrees
<1>7. StoreAgrees'
  <2>1. \A kind, old : \A id \in DOMAIN issued : Backed(id, kind, old) => Backed(id, kind, old)'
    BY <1>1, <1>2, OldResponsesKept
  <2>2. Backed(new, "search", entry)'
    BY <1>1, <1>2, <1>3, <1>4 DEF Backed, SeatMapBehind
  <2>3. \A kind, old, id : Backed(id, kind, old) => id \in DOMAIN issued
    BY DEF Backed
  <2> QED BY <1>2, <1>4, <1>5, <2>1, <2>2, <2>3 DEF StoreAgrees
<1>8. MintEntries'
  BY <1>2 DEF MintEntries
<1>9. ASSUME NEW id \in DOMAIN issued' PROVE Kept(id)'
  BY <1>1, <1>2, <1>4, <1>5 DEF Kept
<1> QED BY <1>2, <1>4, <1>6, <1>7, <1>8, <1>9 DEF StoreInv

\* Validation: the new validation goes back to a search that is still there.
LEMMA ValidationKeeps ==
  ASSUME StoreInv, NEW version \in Versions, NEW search, NEW result,
         Validation(version, search, result)
  PROVE  StoreInv'
<1>1. PICK e, entry, new :
        /\ Issue(e) /\ new = NewID /\ validationResults' = With(validationResults, new, entry)
        /\ e.kind = "validation" /\ e.search = search /\ e.expires = NewExpiringUUID(version)
        /\ entry.seatMap = searchResults[search].seatMap /\ entry.createdAt = clock
        /\ search \in DOMAIN searchResults
  <2>1. PICK price, first, shown :
          /\ Issue([kind |-> "validation", search |-> search, result |-> result, first |-> first,
                    expires |-> NewExpiringUUID(version), price |-> shown])
          /\ validationResults' = With(validationResults, NewID,
               [price |-> price, seatMap |-> searchResults[search].seatMap, createdAt |-> clock])
          /\ search \in DOMAIN searchResults
    BY DEF Validation, AddValidationResult, GetSearchResult
  <2> QED BY <2>1
<1>2. /\ UNCHANGED <<clock, searchResults, mintResults>> /\ clock \in Nat
      /\ IssuedAgrees /\ StoreAgrees /\ MintEntries /\ \A id \in DOMAIN issued : Kept(id)
  BY DEF Validation, StoreInv
<1>3. e.expires \in Nat /\ e.expires <= clock + EntryTimeout
  BY <1>1, <1>2, MockAssumption DEF NewExpiringUUID
<1>4. /\ \E S : issued' \in Seq(S)
      /\ DOMAIN issued' = DOMAIN issued \cup {new} /\ new \notin DOMAIN issued
      /\ issued'[new] = e
      /\ \A id \in DOMAIN issued : issued'[id] = issued[id]
      /\ reported' = reported
  BY <1>1, BehindStays
<1>5. /\ DOMAIN validationResults' = DOMAIN validationResults \cup {new}
      /\ validationResults'[new] = entry
      /\ \A id \in DOMAIN validationResults \ {new} : validationResults'[id] = validationResults[id]
  BY <1>1 DEF With
<1>6. /\ search \in DOMAIN issued /\ issued[search].kind = "search"
      /\ searchResults[search].seatMap = issued[search].seatMap
  BY <1>1, <1>2 DEF StoreAgrees, Backed, SeatMapBehind
<1>7. IssuedAgrees'
  BY <1>1, <1>2, <1>3, <1>4, <1>6, OldResponsesKept DEF IssuedAgrees
<1>8. StoreAgrees'
  <2>1. \A kind, old : \A id \in DOMAIN issued : Backed(id, kind, old) => Backed(id, kind, old)'
    BY <1>1, <1>2, OldResponsesKept
  <2>2. Backed(new, "validation", entry)'
    BY <1>1, <1>2, <1>3, <1>4, <1>6 DEF Backed, SeatMapBehind
  <2>3. \A kind, old, id : Backed(id, kind, old) => id \in DOMAIN issued
    BY DEF Backed
  <2> QED BY <1>2, <1>4, <1>5, <2>1, <2>2, <2>3 DEF StoreAgrees
<1>9. MintEntries'
  BY <1>2 DEF MintEntries
<1>10. ASSUME NEW id \in DOMAIN issued' PROVE Kept(id)'
  BY <1>1, <1>2, <1>4, <1>5 DEF Kept
<1> QED BY <1>2, <1>4, <1>7, <1>8, <1>9, <1>10 DEF StoreInv

\* MintMock: the new mint can be bought for less time than its entry is kept.
LEMMA MintMockKeeps ==
  ASSUME StoreInv, NEW version \in Versions, NEW v, MintMock(version, v)
  PROVE  StoreInv'
<1>1. PICK e, entry, new :
        /\ Issue(e) /\ new = NewID /\ mintResults' = With(mintResults, new, entry)
        /\ e.kind = "mint" /\ e.validation = v /\ e.expires = clock + BuyableFor
        /\ entry.seatMap = validationResults[v].seatMap /\ entry.createdAt = clock
        /\ {"seatMap", "createdAt", "bought"} \subseteq DOMAIN entry
        /\ v \in DOMAIN validationResults
  <2>1. PICK price :
          /\ Issue([kind |-> "mint", validation |-> v, expires |-> clock + BuyableFor,
                    price |-> price])
          /\ mintResults' = With(mintResults, NewID,
               [seatMap |-> validationResults[v].seatMap, createdAt |-> clock, bought |-> FALSE])
          /\ v \in DOMAIN validationResults
    BY DEF MintMock, AddMintResult, GetValidationResult
  <2> QED BY <2>1
<1>2. /\ UNCHANGED <<clock, searchResults, validationResults>> /\ clock \in Nat
      /\ IssuedAgrees /\ StoreAgrees /\ MintEntries /\ \A id \in DOMAIN issued : Kept(id)
  BY DEF MintMock, StoreInv
<1>3. e.expires \in Nat /\ e.expires <= clock + EntryTimeout
  BY <1>1, <1>2, MockAssumption
<1>4. /\ \E S : issued' \in Seq(S)
      /\ DOMAIN issued' = DOMAIN issued \cup {new} /\ new \notin DOMAIN issued
      /\ issued'[new] = e
      /\ \A id \in DOMAIN issued : issued'[id] = issued[id]
      /\ reported' = reported
  BY <1>1, BehindStays
<1>5. /\ DOMAIN mintResults' = DOMAIN mintResults \cup {new} /\ mintResults'[new] = entry
      /\ \A id \in DOMAIN mintResults \ {new} : mintResults'[id] = mintResults[id]
  BY <1>1 DEF With
<1>6. /\ v \in DOMAIN issued /\ issued[v].kind = "validation"
      /\ validationResults[v].seatMap = issued[issued[v].search].seatMap
      /\ issued[v].search \in DOMAIN issued
  BY <1>1, <1>2 DEF StoreAgrees, Backed, SeatMapBehind, IssuedAgrees
<1>7. IssuedAgrees'
  BY <1>1, <1>2, <1>3, <1>4, <1>6, OldResponsesKept DEF IssuedAgrees
<1>8. StoreAgrees'
  <2>1. \A kind, old : \A id \in DOMAIN issued : Backed(id, kind, old) => Backed(id, kind, old)'
    BY <1>1, <1>2, OldResponsesKept
  <2>2. Backed(new, "mint", entry)'
    BY <1>1, <1>2, <1>3, <1>4, <1>6 DEF Backed, SeatMapBehind
  <2>3. \A kind, old, id : Backed(id, kind, old) => id \in DOMAIN issued
    BY DEF Backed
  <2> QED BY <1>2, <1>4, <1>5, <2>1, <2>2, <2>3 DEF StoreAgrees
<1>9. MintEntries'
  BY <1>1, <1>2, <1>5 DEF MintEntries
<1>10. ASSUME NEW id \in DOMAIN issued' PROVE Kept(id)'
  BY <1>1, <1>2, <1>4, <1>5 DEF Kept
<1> QED BY <1>2, <1>4, <1>7, <1>8, <1>9, <1>10 DEF StoreInv

\* A step after which fewer entries are left, none of them missed yet.
LEMMA EntriesLeft ==
  ASSUME StoreInv, issued' = issued, clock' \in Nat, clock' >= clock,
         DOMAIN searchResults' \subseteq DOMAIN searchResults,
         \A id \in DOMAIN searchResults' : searchResults'[id] = searchResults[id],
         DOMAIN validationResults' \subseteq DOMAIN validationResults,
         \A id \in DOMAIN validationResults' : validationResults'[id] = validationResults[id],
         DOMAIN mintResults' \subseteq DOMAIN mintResults,
         \A id \in DOMAIN mintResults' :
           /\ mintResults'[id].seatMap = mintResults[id].seatMap
           /\ mintResults'[id].createdAt = mintResults[id].createdAt
           /\ {"seatMap", "createdAt", "bought"} \subseteq DOMAIN mintResults'[id],
         \A id \in DOMAIN searchResults \ DOMAIN searchResults' : issued[id].expires <= clock',
         \A id \in DOMAIN validationResults \ DOMAIN validationResults' :
           issued[id].expires <= clock',
         reported \subseteq reported',
         \A id \in DOMAIN mintResults \ DOMAIN mintResults' :
           issued[id].expires <= clock' \/ id \in reported'
  PROVE  StoreInv'
<1>1. /\ clock \in Nat /\ IssuedAgrees /\ StoreAgrees /\ \A id \in DOMAIN issued : Kept(id)
      /\ \E S : issued \in Seq(S)
  BY DEF StoreInv
<1>2. IssuedAgrees' /\ (\E S : issued' \in Seq(S)) /\ MintEntries'
  BY <1>1 DEF IssuedAgrees, MintEntries
<1>3. \A id : SeatMapBehind(id)' = SeatMapBehind(id)
  BY DEF SeatMapBehind
<1>4. \A kind, id, old, entry :
        /\ Backed(id, kind, old) /\ entry.seatMap = old.seatMap /\ entry.createdAt = old.createdAt
        => Backed(id, kind, entry)'
  BY <1>1, <1>3 DEF Backed
<1>5. StoreAgrees'
  BY <1>1, <1>4 DEF StoreAgrees
<1>6. ASSUME NEW id \in DOMAIN issued' PROVE Kept(id)'
  <2>1. issued[id].expires \in Nat
    BY <1>1 DEF IssuedAgrees
  <2>2. clock' < issued[id].expires => clock < issued[id].expires /\ ~(issued[id].expires <= clock')
    BY <1>1, <2>1
  <2> QED BY <1>1, <2>2 DEF Kept
<1> QED BY <1>2, <1>5, <1>6 DEF StoreInv

\* The cleanup removes no entry before its response has expired.
LEMMA CleanupKeeps ==
  ASSUME StoreInv, cleanupExpiredEntries
  PROVE  StoreInv'
<1>1. /\ issued' = issued /\ clock' = clock /\ reported' = reported
      /\ clock \in Nat /\ StoreAgrees /\ MintEntries
      /\ IssuedAgrees /\ EntryTimeout \in Nat
  BY MockAssumption DEF cleanupExpiredEntries, StoreInv
<1>2. PICK s, v, m :
        /\ s = {id \in DOMAIN searchResults : Expired(searchResults[id])}
        /\ v = {id \in DOMAIN validationResults : Expired(validationResults[id])}
        /\ m = {id \in DOMAIN mintResults : Expired(mintResults[id])}
        /\ searchResults' = Without(searchResults, s)
        /\ validationResults' = Without(validationResults, v)
        /\ mintResults' = Without(mintResults, m)
  BY DEF cleanupExpiredEntries
<1>3. /\ DOMAIN searchResults' = DOMAIN searchResults \ s
      /\ \A id \in DOMAIN searchResults' : searchResults'[id] = searchResults[id]
  BY <1>2 DEF Without
<1>4. /\ DOMAIN validationResults' = DOMAIN validationResults \ v
      /\ \A id \in DOMAIN validationResults' : validationResults'[id] = validationResults[id]
  BY <1>2 DEF Without
<1>5. /\ DOMAIN mintResults' = DOMAIN mintResults \ m
      /\ \A id \in DOMAIN mintResults' : mintResults'[id] = mintResults[id]
  BY <1>2 DEF Without
<1>6. ASSUME NEW id, NEW kind, NEW entry, Backed(id, kind, entry), Expired(entry)
      PROVE  issued[id].expires <= clock'
  <2>1. /\ issued[id].expires \in Nat /\ entry.createdAt \in Nat
        /\ issued[id].expires <= entry.createdAt + EntryTimeout
    BY <1>1, <1>6 DEF Backed, IssuedAgrees
  <2> QED BY <1>1, <1>6, <2>1 DEF Expired
<1>7. /\ \A id \in s : issued[id].expires <= clock'
      /\ \A id \in v : issued[id].expires <= clock'
      /\ \A id \in m : issued[id].expires <= clock'
  BY <1>1, <1>2, <1>6 DEF StoreAgrees
<1>8. clock' \in Nat /\ clock' >= clock
  BY <1>1
<1>9. \A id \in DOMAIN mintResults' :
        /\ mintResults'[id].seatMap = mintResults[id].seatMap
        /\ mintResults'[id].createdAt = mintResults[id].createdAt
        /\ {"seatMap", "createdAt", "bought"} \subseteq DOMAIN mintResults'[id]
  BY <1>1, <1>5 DEF MintEntries
<1> QED BY <1>1, <1>3, <1>4, <1>5, <1>7, <1>8, <1>9, EntriesLeft

\* Notifications: a report takes the entry and is remembered, a purchase marks it.
LEMMA NotificationKeeps ==
  ASSUME StoreInv, NEW id \in Minted,
         TokenBoughtNotification(id) \/ TokenReservationExpiredNotification(id)
  PROVE  StoreInv'
<1>1. /\ UNCHANGED <<clock, issued, searchResults, validationResults>> /\ clock \in Nat
      /\ MintEntries
  BY DEF TokenBoughtNotification, TokenReservationExpiredNotification, StoreInv
<1>2. clock' \in Nat /\ clock' >= clock
  BY <1>1
<1>3. CASE TokenReservationExpiredNotification(id)
  <2>1. mintResults' = Without(mintResults, {id}) /\ reported' = reported \cup {id}
    BY <1>3 DEF TokenReservationExpiredNotification, RemoveMintResult
  <2>2. /\ DOMAIN mintResults' = DOMAIN mintResults \ {id}
        /\ \A x \in DOMAIN mintResults' : mintResults'[x] = mintResults[x]
    BY <2>1 DEF Without
  <2>3. reported \subseteq reported' /\ id \in reported'
    BY <2>1
  <2>4. \A x \in DOMAIN mintResults' :
          /\ mintResults'[x].seatMap = mintResults[x].seatMap
          /\ mintResults'[x].createdAt = mintResults[x].createdAt
          /\ {"seatMap", "createdAt", "bought"} \subseteq DOMAIN mintResults'[x]
    BY <1>1, <2>2 DEF MintEntries
  <2> QED BY <1>1, <1>2, <2>2, <2>3, <2>4, EntriesLeft
<1>4. CASE TokenBoughtNotification(id)
  <2>1. /\ DOMAIN mintResults' = DOMAIN mintResults /\ reported' = reported
        /\ \A x \in DOMAIN mintResults :
             mintResults'[x] = IF x = id THEN [mintResults[x] EXCEPT !.bought = TRUE]
                                         ELSE mintResults[x]
    BY <1>4 DEF TokenBoughtNotification, SetMintBought
  <2>2. ASSUME NEW x \in DOMAIN mintResults
        PROVE  /\ mintResults'[x].seatMap = mintResults[x].seatMap
               /\ mintResults'[x].createdAt = mintResults[x].createdAt
               /\ {"seatMap", "createdAt", "bought"} \subseteq DOMAIN mintResults'[x]
    <3>1. {"seatMap", "createdAt", "bought"} \subseteq DOMAIN mintResults[x]
      BY <1>1 DEF MintEntries
    <3>2. CASE x = id
      <4>1. mintResults'[x] = [mintResults[x] EXCEPT !.bought = TRUE]
        BY <2>1, <3>2
      <4> QED BY <3>1, <4>1
    <3>3. CASE x # id
      BY <2>1, <3>1, <3>3
    <3> QED BY <3>2, <3>3
  <2> QED BY <1>1, <1>2, <2>1, <2>2, EntriesLeft
<1> QED BY <1>3, <1>4

\* Time passes, or a request only reads: every entry is still there.
LEMMA ReadingKeeps ==
  ASSUME StoreInv, UNCHANGED <<storeVars, issued, reported>>, clock' \in Nat, clock' >= clock
  PROVE  StoreInv'
<1>1. UNCHANGED <<searchResults, validationResults, mintResults, issued, reported>> /\ MintEntries
  BY DEF storeVars, StoreInv
<1> QED BY <1>1, EntriesLeft DEF MintEntries

\* The store and the responses handed out agree in every state.
THEOREM StoreInvariance == MockSpec => []StoreInv
<1>1. MockInit => StoreInv
  BY StoreInitInv
<1>2. StoreInv /\ [MockNext]_mockVars => StoreInv'
  <2> SUFFICES ASSUME StoreInv, [MockNext]_mockVars PROVE StoreInv'
    OBVIOUS
  <2>0. clock \in Nat /\ clock >= clock /\ clock + 1 \in Nat /\ clock + 1 >= clock
    BY DEF StoreInv
  <2>1. CASE UNCHANGED mockVars
    BY <2>0, <2>1, ReadingKeeps DEF mockVars
  <2>2. CASE Elapse
    BY <2>0, <2>2, ReadingKeeps DEF Elapse
  <2>3. ASSUME NEW l \in ListRequests, BrowseProducts(l) PROVE StoreInv'
    BY <2>0, <2>3, ReadingKeeps DEF BrowseProducts
  <2>4. ASSUME NEW id \in DOMAIN seatMaps, NEW languages \in {{}, {"en"}}, SeatMap(id, languages)
        PROVE  StoreInv'
    BY <2>0, <2>4, ReadingKeeps DEF SeatMap
  <2>5. ASSUME NEW version \in Versions, NEW id \in IssuedIDs,
               MintMock(version, id) \/ \E result \in 0..2 : Validation(version, id, result)
        PROVE  StoreInv'
    BY <2>5, MintMockKeeps, ValidationKeeps
  <2> QED BY <2>1, <2>2, <2>3, <2>4, <2>5, CleanupKeeps, SearchKeeps, NotificationKeeps DEF MockNext
<1> QED BY <1>1, <1>2, PTL DEF MockSpec

\* What was handed out and has not expired is in the store, a mint with the seat
\* map of its search unless the bot has reported it as expired, for any requests,
\* data and numbers of calls.
THEOREM UnexpiredIsKeptHolds == MockSpec => []UnexpiredIsKept
<1>1. StoreInv => UnexpiredIsKept
  <2> SUFFICES ASSUME StoreInv, NEW id \in IssuedIDs, clock < issued[id].expires
               PROVE  CASE issued[id].kind = "search" -> GetSearchResult(id)
                        [] issued[id].kind = "validation" -> GetValidationResult(id)
                        [] issued[id].kind = "mint" ->
                             id \notin reported =>
                             /\ GetMintResult(id)
                             /\ SeatMapAvailability(id)
                                  = issued[issued[issued[id].validation].search].seatMap
    BY DEF UnexpiredIsKept
  <2>1. Kept(id) /\ issued[id].kind \in {"search", "validation", "mint"} /\ StoreAgrees
    BY DEF StoreInv, IssuedAgrees, IssuedIDs
  <2>2. CASE issued[id].kind = "search"
    BY <2>1, <2>2 DEF Kept, GetSearchResult
  <2>3. CASE issued[id].kind = "validation"
    BY <2>1, <2>3 DEF Kept, GetValidationResult
  <2>4. CASE issued[id].kind = "mint" /\ id \notin reported
    <3>1. id \in DOMAIN mintResults /\ id \notin DOMAIN searchResults
      BY <2>1, <2>4 DEF Kept, StoreAgrees, Backed
    <3>2. mintResults[id].seatMap = issued[issued[issued[id].validation].search].seatMap
      BY <2>1, <2>4, <3>1 DEF StoreAgrees, Backed, SeatMapBehind
    <3> QED BY <2>4, <3>1, <3>2 DEF SeatMapAvailability, GetMintResult, GetSearchResult
  <2>5. CASE issued[id].kind = "mint" /\ id \in reported
    BY <2>5
  <2> QED BY <2>1, <2>2, <2>3, <2>4, <2>5
<1> QED BY <1>1, StoreInvariance, PTL

-----------------------------------------------------------------------------
\* The price of a validation's entry is the one its response has.
PriceInv ==
  /\ \A id \in DOMAIN validationResults : issued[id].price = ToPrice(validationResults[id].price)
  /\ MintedAsValidated

\* Steps that hand out nothing, and bring no new entry.
LEMMA PricesKept ==
  ASSUME PriceInv, UNCHANGED <<realistic, issued>>,
         DOMAIN validationResults' \subseteq DOMAIN validationResults,
         \A id \in DOMAIN validationResults' : validationResults'[id] = validationResults[id]
  PROVE  PriceInv'
BY DEF PriceInv, MintedAsValidated, IssuedIDs

\* Search, Validation and MintMock: a mint asks for what its validation was for.
LEMMA PricesHandedOut ==
  ASSUME StoreInv, PriceInv, NEW e, Issue(e), realistic' = realistic,
         \/ e.kind = "search" /\ validationResults' = validationResults
         \/ \E entry : /\ e.kind = "validation" /\ e.price = ToPrice(entry.price)
                       /\ validationResults' = With(validationResults, NewID, entry)
         \/ /\ e.kind = "mint" /\ validationResults' = validationResults
            /\ e.validation \in DOMAIN validationResults
            /\ realistic => e.price = ToPrice(validationResults[e.validation].price)
  PROVE  PriceInv'
<1>1. PICK new : new = NewID
  OBVIOUS
<1>2. /\ DOMAIN issued' = DOMAIN issued \cup {new} /\ new \notin DOMAIN issued
      /\ issued'[new] = e /\ \A id \in DOMAIN issued : issued'[id] = issued[id]
  BY <1>1, BehindStays
<1>3. \A id \in DOMAIN validationResults : id \in DOMAIN issued
  BY DEF StoreInv, StoreAgrees, Backed
<1>4. \A id \in DOMAIN validationResults' :
        issued'[id].price = ToPrice(validationResults'[id].price)
  <2>1. CASE validationResults' = validationResults
    BY <1>2, <1>3, <2>1 DEF PriceInv
  <2>2. CASE \E entry : /\ e.price = ToPrice(entry.price)
                        /\ validationResults' = With(validationResults, NewID, entry)
    <3>1. PICK entry : /\ e.price = ToPrice(entry.price)
                       /\ validationResults' = With(validationResults, NewID, entry)
      BY <2>2
    <3>2. /\ DOMAIN validationResults' = DOMAIN validationResults \cup {new}
          /\ validationResults'[new] = entry
          /\ \A id \in DOMAIN validationResults \ {new} :
               validationResults'[id] = validationResults[id]
      BY <1>1, <3>1 DEF With
    <3> QED BY <1>2, <1>3, <3>1, <3>2 DEF PriceInv
  <2> QED BY <2>1, <2>2
<1>5. MintedAsValidated'
  <2> SUFFICES ASSUME realistic, NEW id \in DOMAIN issued', issued'[id].kind = "mint"
               PROVE  issued'[id].price = issued'[issued'[id].validation].price
    BY DEF MintedAsValidated, IssuedIDs
  <2>1. CASE id = new
    BY <1>2, <1>3, <2>1 DEF PriceInv
  <2>2. CASE id # new
    <3>1. id \in DOMAIN issued /\ issued'[id] = issued[id]
      BY <1>2, <2>2
    <3>2. issued[id].validation \in DOMAIN issued
      BY <3>1 DEF StoreInv, IssuedAgrees
    <3> QED BY <1>2, <3>1, <3>2 DEF PriceInv, MintedAsValidated, IssuedIDs
  <2> QED BY <2>1, <2>2
<1> QED BY <1>4, <1>5 DEF PriceInv

\* A realistic mint asks for the price that its validation has returned, whatever
\* is removed from the store in between.
THEOREM MintedAsValidatedHolds == MockSpec => []MintedAsValidated
<1>1. MockInit => PriceInv
  <2> SUFFICES ASSUME MockInit PROVE PriceInv
    OBVIOUS
  <2>1. DOMAIN validationResults = {} /\ DOMAIN issued = {}
    BY DEF MockInit
  <2> QED BY <2>1 DEF PriceInv, MintedAsValidated, IssuedIDs
<1>2. StoreInv /\ PriceInv /\ [MockNext]_mockVars => PriceInv'
  <2> SUFFICES ASSUME StoreInv, PriceInv, [MockNext]_mockVars PROVE PriceInv'
    OBVIOUS
  <2>1. CASE UNCHANGED mockVars
    BY <2>1, PricesKept DEF mockVars, storeVars
  <2>2. CASE Elapse
    BY <2>2, PricesKept DEF Elapse, storeVars
  <2>3. ASSUME NEW l \in ListRequests, BrowseProducts(l) PROVE PriceInv'
    BY <2>3, PricesKept DEF BrowseProducts, storeVars
  <2>4. ASSUME NEW id \in DOMAIN seatMaps, NEW languages \in {{}, {"en"}}, SeatMap(id, languages)
        PROVE  PriceInv'
    BY <2>4, PricesKept DEF SeatMap, storeVars
  <2>5. CASE cleanupExpiredEntries
    <3>1. PICK old : validationResults' = Without(validationResults, old)
      BY <2>5 DEF cleanupExpiredEntries
    <3>2. /\ DOMAIN validationResults' \subseteq DOMAIN validationResults
          /\ \A id \in DOMAIN validationResults' : validationResults'[id] = validationResults[id]
      BY <3>1 DEF Without
    <3>3. UNCHANGED <<realistic, issued>>
      BY <2>5 DEF cleanupExpiredEntries
    <3> QED BY <3>2, <3>3, PricesKept
  <2>6. ASSUME NEW r \in SearchRequests, Search(r) PROVE PriceInv'
    <3>1. PICK results, seatMap :
            Issue([kind |-> "search", request |-> r, expires |-> NewExpiringUUID(r.version),
                   results |-> results, seatMap |-> seatMap])
      BY <2>6 DEF Search
    <3>2. UNCHANGED <<realistic, validationResults>>
      BY <2>6 DEF Search
    <3> QED BY <3>1, <3>2, PricesHandedOut
  <2>7. ASSUME NEW version \in Versions, NEW id \in IssuedIDs, NEW result \in 0..2,
               Validation(version, id, result)
        PROVE  PriceInv'
    <3>1. PICK price, first :
            /\ Issue([kind |-> "validation", search |-> id, result |-> result, first |-> first,
                      expires |-> NewExpiringUUID(version), price |-> ToPrice(price)])
            /\ validationResults' = With(validationResults, NewID,
                 [price |-> price, seatMap |-> searchResults[id].seatMap, createdAt |-> clock])
      BY <2>7 DEF Validation, AddValidationResult
    <3>2. realistic' = realistic
      BY <2>7 DEF Validation
    <3> QED BY <3>1, <3>2, PricesHandedOut
  <2>8. ASSUME NEW version \in Versions, NEW id \in IssuedIDs, MintMock(version, id) PROVE PriceInv'
    <3>1. PICK price :
            /\ Issue([kind |-> "mint", validation |-> id, expires |-> clock + BuyableFor,
                      price |-> price])
            /\ price = MintPrice(version, id)
      BY <2>8 DEF MintMock
    <3>2. /\ UNCHANGED <<realistic, validationResults>> /\ id \in DOMAIN validationResults
      BY <2>8 DEF MintMock, GetValidationResult
    <3>3. realistic => price = ToPrice(validationResults[id].price)
      BY <3>1 DEF MintPrice, MintV3, MintV4, MintV5
    <3> QED BY <3>1, <3>2, <3>3, PricesHandedOut
  <2>9. ASSUME NEW id \in Minted,
               TokenBoughtNotification(id) \/ TokenReservationExpiredNotification(id)
        PROVE  PriceInv'
    BY <2>9, PricesKept DEF TokenBoughtNotification, TokenReservationExpiredNotification
  <2> QED BY <2>1, <2>2, <2>3, <2>4, <2>5, <2>6, <2>7, <2>8, <2>9 DEF MockNext
<1>3. PriceInv => MintedAsValidated
  BY DEF PriceInv
<1> QED BY <1>1, <1>2, <1>3, StoreInvariance, PTL DEF MockSpec

\* The penalties of any stay that may be searched, at any time of the day and for
\* any price, follow each other without gap or overlap from the search to the end
\* of the stay, and never fall.
THEOREM PenaltiesCoverAnyStay ==
  ASSUME NEW now \in 0..(DayLength - 1), NEW period, period.start \in Int, period.end \in Int,
         IsTravelPeriodAllowed(period), NEW price, price.value \in Nat
  PROVE  Covers(CancelPenaltiesV4(now, period, price), now, period.end * DayLength)
<1>0. DayLength \in Nat /\ DayLength > 0 /\ FreeDays \in Nat /\ FreeDays > 0
  BY DaysAssumption
<1>1. PICK from \in Int, to \in Int : from = period.start /\ to = period.end
  OBVIOUS
<1>2. from >= 1 /\ from < to
  BY <1>1 DEF IsTravelPeriodAllowed
<1>3. PICK start \in Int, end \in Int, lead \in Int :
        start = from * DayLength /\ end = to * DayLength /\ lead = FreeDays * DayLength
  BY <1>0
<1>4. now \in Int /\ now >= 0 /\ now < start /\ start < end /\ lead > 0
  <2>1. start >= DayLength
    <3>1. start = DayLength + (from - 1) * DayLength
      BY <1>0, <1>3
    <3>2. \A a, b \in Int : a >= 0 /\ b >= 0 => a * b >= 0
      OBVIOUS
    <3>3. (from - 1) * DayLength >= 0
      BY <1>0, <1>2, <3>2
    <3> QED BY <1>0, <3>1, <3>3
  <2>2. \A a, b, c \in Int : a < b /\ c > 0 => a * c < b * c
    OBVIOUS
  <2>3. start < end
    BY <1>0, <1>2, <1>3, <2>2
  <2>4. lead > 0
    <3>1. 0 * DayLength < FreeDays * DayLength
      BY <1>0, <2>2
    <3> QED BY <1>0, <1>3, <3>1
  <2> QED BY <1>0, <2>1, <2>3, <2>4
<1>5. PICK value \in Nat, tenth \in Nat :
        value = price.value /\ tenth = value \div 10 /\ tenth <= value
  OBVIOUS
<1>6. PICK a, b, c :
        /\ a = [start |-> now, end |-> start - lead, value |-> 0]
        /\ b = [start |-> IF start - lead > now THEN start - lead ELSE now, end |-> start,
                value |-> tenth]
        /\ c = [start |-> start, end |-> end, value |-> value]
  OBVIOUS
<1>7. CancelPenaltiesV4(now, period, price)
        = (IF start > now + lead THEN <<a>> ELSE <<>>) \o <<b, c>>
  BY <1>1, <1>3, <1>5, <1>6 DEF CancelPenaltiesV4
<1>8. CASE start > now + lead
  <2>1. CancelPenaltiesV4(now, period, price) = <<a, b, c>>
    <3>1. <<a>> \in Seq({a, b, c}) /\ <<b, c>> \in Seq({a, b, c}) /\ <<a, b, c>> \in Seq({a, b, c})
      OBVIOUS
    <3>2. <<a>> \o <<b, c>> \in Seq({a, b, c}) /\ Len(<<a>> \o <<b, c>>) = 3
          /\ (<<a>> \o <<b, c>>)[1] = a /\ (<<a>> \o <<b, c>>)[2] = b /\ (<<a>> \o <<b, c>>)[3] = c
      BY <3>1
    <3>3. <<a>> \o <<b, c>> = <<a, b, c>>
      <4>1. PICK t : t = <<a>> \o <<b, c>>
        OBVIOUS
      <4>2. t \in Seq({a, b, c}) /\ Len(t) = 3 /\ t[1] = a /\ t[2] = b /\ t[3] = c
        BY <3>2, <4>1
      <4>3. Len(<<a, b, c>>) = Len(t) /\ \A i \in 1..Len(t) : t[i] = <<a, b, c>>[i]
        BY <4>2
      <4> QED BY <3>1, <4>1, <4>2, <4>3, SeqEqual
    <3> QED BY <1>7, <1>8, <3>3
  <2>2. /\ a.start = now /\ a.end = start - lead /\ a.value = 0 /\ b.start = start - lead
        /\ b.end = start /\ b.value = tenth /\ c.start = start /\ c.end = end /\ c.value = value
    BY <1>3, <1>4, <1>6, <1>8
  <2>3. a.start < a.end /\ b.start < b.end /\ c.start < c.end
    BY <1>3, <1>4, <1>8, <2>2
  <2>4. a.value <= b.value /\ b.value <= c.value
    BY <1>5, <2>2
  <2>5. Covers(<<a, b, c>>, now, end)
    BY <2>2, <2>3, <2>4 DEF Covers
  <2> QED BY <1>1, <1>3, <2>1, <2>5
<1>9. CASE ~(start > now + lead)
  <2>1. CancelPenaltiesV4(now, period, price) = <<b, c>>
    BY <1>7, <1>9
  <2>2. /\ b.start = now /\ b.end = start /\ b.value = tenth
        /\ c.start = start /\ c.end = end /\ c.value = value
    BY <1>3, <1>4, <1>6, <1>9
  <2>3. b.start < b.end /\ c.start < c.end /\ b.value <= c.value
    BY <1>3, <1>4, <1>5, <2>2
  <2>4. Covers(<<b, c>>, now, end)
    BY <2>2, <2>3 DEF Covers
  <2> QED BY <1>1, <1>3, <2>1, <2>4
<1> QED BY <1>8, <1>9

-----------------------------------------------------------------------------
\* A named price survives the way into the store and back.
LEMMA ShownIsStored ==
  ASSUME NEW p, IsPrice(p), Named(p.currency),
         p.currency = [kind |-> p.currency.kind, id |-> p.currency.id], NEW real \in BOOLEAN
  PROVE  ShownAs(p, real) = ToPrice(Unified(p, real))
<1>1. CASE real
  BY <1>1 DEF ShownAs
<1>2. CASE ~real
  <2>1. PICK u : u = PriceToUnifiedPrice(p)
    OBVIOUS
  <2>2. /\ u.price = p.value /\ u.decimals = p.decimals
        /\ u.isNative = (p.currency.kind = "native")
        /\ u.iso = IF p.currency.kind = "iso" THEN p.currency.id ELSE 0
        /\ u.token = IF p.currency.kind = "token" THEN p.currency.id ELSE 0
    BY <2>1 DEF PriceToUnifiedPrice
  <2>3. ExtractCurrency(u) = p.currency
    <3>1. CASE p.currency.kind = "native"
      <4>1. u.isNative /\ p.currency.id = 0
        BY <2>2, <3>1 DEF Named
      <4>2. ExtractCurrency(u) = [kind |-> "native", id |-> 0]
        BY <4>1 DEF ExtractCurrency
      <4>3. p.currency = [kind |-> "native", id |-> 0]
        BY <3>1, <4>1
      <4> QED BY <4>2, <4>3
    <3>2. CASE p.currency.kind = "iso"
      BY <2>2, <3>2 DEF Named, ExtractCurrency
    <3>3. CASE p.currency.kind = "token"
      BY <2>2, <3>3 DEF Named, ExtractCurrency
    <3> QED BY <3>1, <3>2, <3>3 DEF Named
  <2>4. ToPrice(u) = [value |-> p.value, decimals |-> p.decimals, currency |-> p.currency]
    BY <2>2, <2>3 DEF ToPrice
  <2>5. Unified(p, real) = u /\ ShownAs(p, real) = p
    BY <1>2, <2>1 DEF Unified, ShownAs
  <2> QED BY <2>4, <2>5 DEF IsPrice
<1> QED BY <1>1, <1>2

\* The prices of a search's entry are those that its response shows.
EntryShown(entry, response) ==
  /\ IsSeq(entry.prices) /\ IsSeq(response.results)
  /\ Len(response.results) = Len(entry.prices)
  /\ \A i \in 1..Len(entry.prices) :
       /\ response.results[i].id = FirstResultID(response.request) + i - 1
       /\ Named(response.request.currency) =>
            response.results[i].price = ToPrice(entry.prices[i])

\* Searches and validations agree on prices, whatever was asked in between.
ShownInv ==
  /\ realistic \in BOOLEAN
  /\ \A id \in DOMAIN searchResults : EntryShown(searchResults[id], issued[id])
  /\ ValidatedAsShown

\* Search: entry and response come from the same results.
LEMMA SearchShows ==
  ASSUME DataKept, realistic \in BOOLEAN, NEW r \in SearchRequests, Search(r)
  PROVE  \E e, entry :
           /\ Issue(e) /\ searchResults' = With(searchResults, NewID, entry)
           /\ e.kind = "search" /\ EntryShown(entry, e)
<1> DEFINE old == Data(r.version, r.industry)
           items == SearchOf(old, r).items
           prices == [i \in DOMAIN items |-> Unified(items[i].price, realistic)]
           results == ResultsShown(r, items)
<1>1. Products(old)
  BY RequestAssumption, DataIsProducts
<1>2. protoValidateInterceptor(r) /\ ~SearchOf(old, r).refused
  BY DEF Search
<1>3. Results(items, r)
  BY <1>1, <1>2, SearchReturnsResults
<1>4. PICK seatMap, expires :
        /\ Issue([kind |-> "search", request |-> r, expires |-> expires,
                  results |-> results, seatMap |-> seatMap])
        /\ searchResults' = With(searchResults, NewID,
             [prices |-> prices, seatMap |-> seatMap, createdAt |-> clock])
  BY DEF Search, AddSearchResult
<1> HIDE DEF items
<1>5. Len(items) \in Nat /\ DOMAIN items = 1..Len(items)
  BY <1>3, SeqFacts DEF Results
<1>6. IsSeq(prices) /\ Len(prices) = Len(items)
  <2>1. prices = [i \in 1..Len(items) |-> prices[i]]
    BY <1>5
  <2> HIDE DEF prices
  <2> QED BY <1>5, <2>1, IntervalIsSeq
<1>7. IsSeq(results) /\ Len(results) = Len(items)
  <2>1. results = [i \in 1..Len(items) |-> results[i]]
    BY <1>5 DEF ResultsShown
  <2> HIDE DEF results
  <2> QED BY <1>5, <2>1, IntervalIsSeq
<1>8. \A i \in 1..Len(items) :
        /\ prices[i] = Unified(items[i].price, realistic)
        /\ results[i].id = FirstResultID(r) + i - 1
        /\ results[i].price = ShownAs(items[i].price, realistic)
  BY <1>5 DEF ResultsShown
<1> HIDE DEF prices, results
<1>9. ASSUME NEW i \in 1..Len(items), Named(r.currency) PROVE results[i].price = ToPrice(prices[i])
  <2>1. IsPrice(items[i].price) /\ items[i].price.currency = r.currency
    BY <1>3, <1>5 DEF Results, Result
  <2>2. r.currency = [kind |-> r.currency.kind, id |-> r.currency.id]
    BY <1>9, RequestAssumption DEF Named
  <2>3. ShownAs(items[i].price, realistic) = ToPrice(Unified(items[i].price, realistic))
    BY <1>9, <2>1, <2>2, ShownIsStored
  <2> QED BY <1>8, <2>3
<1>10. PICK e, entry : /\ Issue(e) /\ searchResults' = With(searchResults, NewID, entry)
                       /\ e.kind = "search" /\ e.request = r /\ e.results = results
                       /\ entry.prices = prices
  BY <1>4
<1>11. EntryShown(entry, e)
  BY <1>6, <1>7, <1>8, <1>9, <1>10 DEF EntryShown
<1> QED BY <1>10, <1>11

\* The result that a validation of its version finds is the one with the number.
LEMMA ValidationFinds ==
  ASSUME NEW version \in Versions, NEW search, NEW result \in 0..2, NEW e,
         EntryShown(searchResults[search], e),
         ValidationIndex(version, search, result) # 0,
         FirstResultID(e.request) = (IF version = 3 THEN 1 ELSE 0)
  PROVE  LET index == ValidationIndex(version, search, result)
         IN /\ index \in 1..Len(searchResults[search].prices)
            /\ index \in DOMAIN e.results /\ e.results[index].id = result
<1> DEFINE n == Len(searchResults[search].prices)
<1>1. n \in Nat /\ DOMAIN e.results = 1..n
  BY SeqFacts DEF EntryShown
<1>2. version \in {3, 4, 5}
  BY DEF Versions
<1>3. PICK index : index = ValidationIndex(version, search, result)
  OBVIOUS
<1>4. CASE version = 3
  <2>1. index = result /\ index \in 1..n
    BY <1>1, <1>3, <1>4 DEF ValidationIndex, ValidationV3
  <2>2. e.results[index].id = result
    BY <1>4, <2>1 DEF EntryShown
  <2> QED BY <1>1, <1>3, <2>1, <2>2
<1>5. CASE version # 3
  <2>1. index = result + 1 /\ index \in 1..n
    BY <1>1, <1>2, <1>3, <1>5 DEF ValidationIndex, ValidationV4, ValidationV5
  <2>2. e.results[index].id = result
    <3>1. e.results[index].id = 0 + index - 1
      BY <1>1, <1>5, <2>1 DEF EntryShown
    <3> QED BY <2>1, <3>1
  <2> QED BY <1>1, <1>3, <2>1, <2>2
<1> QED BY <1>4, <1>5

\* What a validation returns was shown.
ShownBefore(v) ==
  LET search == issued[v.search]
  IN v.first = FirstResultID(search.request) /\ Named(search.request.currency) =>
       \E x \in Range(search.results) : x.id = v.result /\ x.price = v.price

\* The second part of the property, one validation at a time.
LEMMA ValidatedAsShownMeans ==
  ValidatedAsShown <=>
    \A id \in DOMAIN issued : issued[id].kind = "validation" => ShownBefore(issued[id])
BY DEF ValidatedAsShown, IssuedIDs, ShownBefore, ValidatedResult

\* Steps that hand out nothing, and bring no new search.
LEMMA ShownKept ==
  ASSUME ShownInv, UNCHANGED <<realistic, issued>>,
         DOMAIN searchResults' \subseteq DOMAIN searchResults,
         \A id \in DOMAIN searchResults' : searchResults'[id] = searchResults[id]
  PROVE  ShownInv'
<1>1. ValidatedAsShown'
  BY DEF ShownInv, ValidatedAsShown, IssuedIDs, ValidatedResult
<1>2. ASSUME NEW id \in DOMAIN searchResults' PROVE EntryShown(searchResults[id], issued[id])
  BY DEF ShownInv
<1> QED BY <1>1, <1>2 DEF ShownInv

\* Steps that hand out a response.
LEMMA ShownHandedOut ==
  ASSUME StoreInv, ShownInv, NEW e, Issue(e), realistic' = realistic,
         \/ /\ e.kind = "search"
            /\ \E entry : /\ searchResults' = With(searchResults, NewID, entry)
                          /\ EntryShown(entry, e)
         \/ /\ e.kind = "validation" /\ searchResults' = searchResults
            /\ e.search \in DOMAIN issued /\ ShownBefore(e)
         \/ e.kind = "mint" /\ searchResults' = searchResults
  PROVE  ShownInv'
<1>1. PICK new : new = NewID
  OBVIOUS
<1>2. /\ DOMAIN issued' = DOMAIN issued \cup {new} /\ new \notin DOMAIN issued
      /\ issued'[new] = e /\ \A id \in DOMAIN issued : issued'[id] = issued[id]
  BY <1>1, BehindStays
<1>3. \A id \in DOMAIN searchResults : id \in DOMAIN issued
  BY DEF StoreInv, StoreAgrees, Backed
<1>4. ASSUME NEW id \in DOMAIN searchResults' PROVE EntryShown(searchResults'[id], issued'[id])
  <2>1. CASE searchResults' = searchResults
    BY <1>2, <1>3, <2>1 DEF ShownInv
  <2>2. CASE \E entry : searchResults' = With(searchResults, NewID, entry) /\ EntryShown(entry, e)
    <3>1. PICK entry : searchResults' = With(searchResults, NewID, entry) /\ EntryShown(entry, e)
      BY <2>2
    <3>2. /\ DOMAIN searchResults' = DOMAIN searchResults \cup {new}
          /\ searchResults'[new] = entry
          /\ \A old \in DOMAIN searchResults \ {new} : searchResults'[old] = searchResults[old]
      BY <1>1, <3>1 DEF With
    <3>3. CASE id = new
      BY <1>2, <3>1, <3>2, <3>3
    <3>4. CASE id # new
      BY <1>2, <1>3, <3>2, <3>4 DEF ShownInv
    <3> QED BY <3>3, <3>4
  <2> QED BY <2>1, <2>2
<1>5. ASSUME NEW id \in DOMAIN issued', issued'[id].kind = "validation"
      PROVE  ShownBefore(issued[id])'
  <2>1. CASE id = new
    <3>1. e.search \in DOMAIN issued /\ ShownBefore(e)
      BY <1>2, <1>5, <2>1
    <3>2. issued'[id] = e /\ issued'[e.search] = issued[e.search]
      BY <1>2, <2>1, <3>1
    <3> QED BY <3>1, <3>2 DEF ShownBefore
  <2>2. CASE id # new
    <3>1. id \in DOMAIN issued /\ issued'[id] = issued[id]
      BY <1>2, <2>2
    <3>2. issued[id].search \in DOMAIN issued
      BY <1>5, <3>1 DEF StoreInv, IssuedAgrees
    <3>3. ShownBefore(issued[id])
      BY <1>5, <3>1, ValidatedAsShownMeans DEF ShownInv
    <3>4. issued'[issued[id].search] = issued[issued[id].search]
      BY <1>2, <3>2
    <3> QED BY <3>1, <3>3, <3>4 DEF ShownBefore
  <2> QED BY <2>1, <2>2
<1>6. ValidatedAsShown'
  <2>1. (\A id \in DOMAIN issued : issued[id].kind = "validation" => ShownBefore(issued[id]))'
    BY <1>5
  <2> QED BY <2>1 DEF ValidatedAsShown, IssuedIDs, ShownBefore, ValidatedResult
<1> QED BY <1>4, <1>6 DEF ShownInv

\* Validation: the price is the one of the result that was shown under the number.
LEMMA ValidationShown ==
  ASSUME StoreInv, ShownInv, NEW version \in Versions, NEW search \in IssuedIDs,
         NEW result \in 0..2, Validation(version, search, result)
  PROVE  ShownInv'
<1> DEFINE index == ValidationIndex(version, search, result)
           price == searchResults[search].prices[index]
           e == [kind |-> "validation", search |-> search, result |-> result,
                 first |-> IF version = 3 THEN 1 ELSE 0,
                 expires |-> NewExpiringUUID(version), price |-> ToPrice(price)]
<1>1. /\ Issue(e) /\ UNCHANGED <<realistic, searchResults>>
      /\ search \in DOMAIN searchResults /\ index # 0
  BY DEF Validation, GetSearchResult
<1>2. EntryShown(searchResults[search], issued[search])
  BY <1>1 DEF ShownInv
<1>3. ASSUME e.first = FirstResultID(issued[search].request), Named(issued[search].request.currency)
      PROVE  \E x \in Range(issued[search].results) : x.id = e.result /\ x.price = e.price
  <2> DEFINE x == issued[search].results[index]
  <2>1. /\ index \in 1..Len(searchResults[search].prices)
        /\ index \in DOMAIN issued[search].results /\ x.id = result
    BY <1>1, <1>2, <1>3, ValidationFinds
  <2>2. x.price = ToPrice(price)
    BY <1>2, <1>3, <2>1 DEF EntryShown
  <2>3. x \in Range(issued[search].results)
    BY <2>1 DEF Range
  <2> QED BY <2>1, <2>2, <2>3
<1>4. /\ e.kind = "validation" /\ e.search = search /\ search \in DOMAIN issued
  BY DEF IssuedIDs
<1>5. ShownBefore(e)
  BY <1>3, <1>4 DEF ShownBefore
<1> HIDE DEF e
<1> QED BY <1>1, <1>4, <1>5, ShownHandedOut

\* A price holds from search to mint, for any mock data, requests and versions and
\* whatever is removed in between: what a validation returns is what the search has
\* shown, and what a realistic mint asks for is what the validation has returned.
THEOREM ShownPriceHoldsAlways == MockSpec => []ShownPriceHolds
<1>1. MockInit => ShownInv
  <2> SUFFICES ASSUME MockInit PROVE ShownInv
    OBVIOUS
  <2>1. DOMAIN searchResults = {} /\ DOMAIN issued = {} /\ realistic \in BOOLEAN
    BY DEF MockInit
  <2> QED BY <2>1 DEF ShownInv, ValidatedAsShown, IssuedIDs
<1>2. StoreInv /\ DataKept /\ ShownInv /\ [MockNext]_mockVars => ShownInv'
  <2> SUFFICES ASSUME StoreInv, DataKept, ShownInv, [MockNext]_mockVars PROVE ShownInv'
    OBVIOUS
  <2>1. CASE UNCHANGED mockVars
    BY <2>1, ShownKept DEF mockVars, storeVars
  <2>2. CASE Elapse
    BY <2>2, ShownKept DEF Elapse, storeVars
  <2>3. ASSUME NEW l \in ListRequests, BrowseProducts(l) PROVE ShownInv'
    BY <2>3, ShownKept DEF BrowseProducts, storeVars
  <2>4. ASSUME NEW id \in DOMAIN seatMaps, NEW languages \in {{}, {"en"}}, SeatMap(id, languages)
        PROVE  ShownInv'
    BY <2>4, ShownKept DEF SeatMap, storeVars
  <2>5. CASE cleanupExpiredEntries
    <3>1. PICK old : searchResults' = Without(searchResults, old)
      BY <2>5 DEF cleanupExpiredEntries
    <3>2. /\ DOMAIN searchResults' \subseteq DOMAIN searchResults
          /\ \A id \in DOMAIN searchResults' : searchResults'[id] = searchResults[id]
      BY <3>1 DEF Without
    <3>3. UNCHANGED <<realistic, issued>>
      BY <2>5 DEF cleanupExpiredEntries
    <3> QED BY <3>2, <3>3, ShownKept
  <2>6. ASSUME NEW r \in SearchRequests, Search(r) PROVE ShownInv'
    <3>1. realistic' = realistic /\ realistic \in BOOLEAN
      BY <2>6 DEF Search, ShownInv
    <3>2. PICK e, entry :
            /\ Issue(e) /\ searchResults' = With(searchResults, NewID, entry)
            /\ e.kind = "search" /\ EntryShown(entry, e)
      BY <2>6, <3>1, SearchShows
    <3> QED BY <3>1, <3>2, ShownHandedOut
  <2>7. ASSUME NEW version \in Versions, NEW id \in IssuedIDs, NEW result \in 0..2,
               Validation(version, id, result)
        PROVE  ShownInv'
    BY <2>7, ValidationShown
  <2>8. ASSUME NEW version \in Versions, NEW id \in IssuedIDs, MintMock(version, id) PROVE ShownInv'
    <3>1. PICK price :
            Issue([kind |-> "mint", validation |-> id, expires |-> clock + BuyableFor,
                   price |-> price])
      BY <2>8 DEF MintMock
    <3>2. UNCHANGED <<realistic, searchResults>>
      BY <2>8 DEF MintMock
    <3> QED BY <3>1, <3>2, ShownHandedOut
  <2>9. ASSUME NEW id \in Minted,
               TokenBoughtNotification(id) \/ TokenReservationExpiredNotification(id)
        PROVE  ShownInv'
    BY <2>9, ShownKept DEF TokenBoughtNotification, TokenReservationExpiredNotification
  <2> QED BY <2>1, <2>2, <2>3, <2>4, <2>5, <2>6, <2>7, <2>8, <2>9 DEF MockNext
<1>3. ShownInv /\ MintedAsValidated => ShownPriceHolds
  BY DEF ShownInv, ShownPriceHolds
<1> QED BY <1>1, <1>2, <1>3, DataKeptAlways, StoreInvariance, MintedAsValidatedHolds, PTL
        DEF MockSpec

-----------------------------------------------------------------------------
\* The penalties that a search shows.
LEMMA SearchPenalties ==
  ASSUME DataKept, realistic \in BOOLEAN, moment \in 0..(DayLength - 1),
         NEW r \in SearchRequests, Search(r)
  PROVE  \E e : /\ Issue(e) /\ e.kind = "search"
                /\ \A x \in Range(e.results) :
                     x.penalties # <<>> =>
                       Covers(x.penalties, moment, e.request.period.end * DayLength)
<1> DEFINE old == Data(r.version, r.industry)
           items == SearchOf(old, r).items
           results == ResultsShown(r, items)
<1>1. Products(old)
  BY RequestAssumption, DataIsProducts
<1>2. protoValidateInterceptor(r) /\ ~SearchOf(old, r).refused
  BY DEF Search
<1>3. /\ Results(items, r)
      /\ r.industry = "accommodation" /\ r.version # 3 =>
           IsTravelPeriodAllowed(r.period) /\ r.period.start \in Int /\ r.period.end \in Int
  BY <1>1, <1>2, SearchReturnsResults
<1>4. PICK seatMap, expires :
        Issue([kind |-> "search", request |-> r, expires |-> expires,
               results |-> results, seatMap |-> seatMap])
  BY DEF Search
<1> HIDE DEF items
<1>5. ASSUME NEW i \in DOMAIN items, results[i].penalties # <<>>
      PROVE  Covers(results[i].penalties, moment, r.period.end * DayLength)
  <2>1. PICK price : price = ShownAs(items[i].price, realistic)
    OBVIOUS
  <2>2. /\ r.industry = "accommodation" /\ r.version # 3
        /\ results[i].penalties = CancelPenaltiesV4(moment, r.period, price)
    BY <1>5, <2>1 DEF ResultsShown, CancelPenaltiesV5
  <2>3. price.value \in Nat
    <3>1. items[i].price.value \in Nat
      BY <1>3, <2>2 DEF Results, Result
    <3>2. price.value \in {items[i].price.value, BaseUnits}
      BY <2>1 DEF ShownAs, ToPrice, Unified, NormalizeRealistic, PriceToUnifiedPrice
    <3> QED BY <3>1, <3>2, AmountsAssumption
  <2> QED BY <1>3, <2>2, <2>3, PenaltiesCoverAnyStay
<1>6. DOMAIN results = DOMAIN items
  BY DEF ResultsShown
<1> HIDE DEF results
<1>7. \A x \in Range(results) :
        x.penalties # <<>> => Covers(x.penalties, moment, r.period.end * DayLength)
  BY <1>5, <1>6 DEF Range
<1> QED BY <1>4, <1>7

\* The penalties of every stay that a search has shown.
THEOREM PenaltiesCoverStayHolds == MockSpec => []PenaltiesCoverStay
<1> DEFINE Inv == /\ realistic \in BOOLEAN /\ moment \in 0..(DayLength - 1)
                  /\ PenaltiesCoverStay
<1>1. MockInit => Inv
  <2> SUFFICES ASSUME MockInit PROVE Inv
    OBVIOUS
  <2>1. DOMAIN issued = {} /\ realistic \in BOOLEAN /\ moment \in 0..(DayLength - 1)
    BY DEF MockInit
  <2> QED BY <2>1 DEF PenaltiesCoverStay, IssuedIDs
<1>2. ASSUME StoreInv, DataKept, Inv, [MockNext]_mockVars PROVE Inv'
  <2>1. UNCHANGED <<realistic, moment>>
    BY <1>2 DEF mockVars, MockNext, Elapse, cleanupExpiredEntries, Search, BrowseProducts, SeatMap,
                MintMock, Validation, TokenBoughtNotification, TokenReservationExpiredNotification
  <2>2. CASE issued' = issued
    BY <1>2, <2>1, <2>2 DEF PenaltiesCoverStay, IssuedIDs
  <2>3. CASE \E e : /\ Issue(e)
                    /\ e.kind = "search" =>
                         \A x \in Range(e.results) :
                           x.penalties # <<>> =>
                             Covers(x.penalties, moment, e.request.period.end * DayLength)
    <3>1. PICK e : /\ Issue(e)
                   /\ e.kind = "search" =>
                        \A x \in Range(e.results) :
                          x.penalties # <<>> =>
                            Covers(x.penalties, moment, e.request.period.end * DayLength)
      BY <2>3
    <3>2. PICK new : new = NewID
      OBVIOUS
    <3>3. /\ DOMAIN issued' = DOMAIN issued \cup {new} /\ issued'[new] = e
          /\ \A id \in DOMAIN issued : issued'[id] = issued[id]
      BY <1>2, <3>1, <3>2, BehindStays
    <3>4. PenaltiesCoverStay'
      BY <1>2, <2>1, <3>1, <3>3 DEF PenaltiesCoverStay, IssuedIDs
    <3> QED BY <1>2, <2>1, <3>4
  <2>4. ASSUME NEW r \in SearchRequests, Search(r) PROVE Inv'
    BY <1>2, <2>3, <2>4, SearchPenalties
  <2>5. ASSUME NEW version \in Versions, NEW id \in IssuedIDs, NEW result \in 0..2,
               Validation(version, id, result)
        PROVE  Inv'
    <3>1. PICK first, expires, price :
            Issue([kind |-> "validation", search |-> id, result |-> result, first |-> first,
                   expires |-> expires, price |-> price])
      BY <2>5 DEF Validation
    <3> QED BY <2>3, <3>1
  <2>6. ASSUME NEW version \in Versions, NEW id \in IssuedIDs, MintMock(version, id) PROVE Inv'
    <3>1. PICK price :
            Issue([kind |-> "mint", validation |-> id, expires |-> clock + BuyableFor,
                   price |-> price])
      BY <2>6 DEF MintMock
    <3> QED BY <2>3, <3>1
  <2>7. CASE UNCHANGED mockVars \/ Elapse \/ cleanupExpiredEntries
    BY <2>2, <2>7 DEF mockVars, Elapse, cleanupExpiredEntries
  <2>8. ASSUME NEW l, NEW id, NEW languages,
               \/ BrowseProducts(l) \/ SeatMap(id, languages)
               \/ TokenBoughtNotification(id) \/ TokenReservationExpiredNotification(id)
        PROVE  Inv'
    BY <2>2, <2>8 DEF BrowseProducts, SeatMap, TokenBoughtNotification,
                      TokenReservationExpiredNotification
  <2> HIDE DEF Inv
  <2> QED BY <1>2, <2>4, <2>5, <2>6, <2>7, <2>8 DEF MockNext
<1>3. Inv => PenaltiesCoverStay
  OBVIOUS
<1> HIDE DEF Inv
<1> QED BY <1>1, <1>2, <1>3, DataKeptAlways, StoreInvariance, PTL DEF MockSpec

=============================================================================
