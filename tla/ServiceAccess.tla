--------------------------- MODULE ServiceAccess ---------------------------
(***************************************************************************)
(* Which requests a supplier's bot serves: the RPC stubs of both bots      *)
(* (internal/rpc), the registry of services that the supplier builds at    *)
(* start (internal/messaging/service_registry.go), the check that the      *)
(* account supports the service, and the check that the sender's bot is    *)
(* allowed, with its cache (pkg/ttm_accounts).  The accounts on the chain  *)
(* change while bots run and requests are on their way.                    *)
(*                                                                         *)
(* Stubs of template 1 (generated for services of version 3) report every  *)
(* error as a failure; those of template 2 (from version 4 on) have codes. *)
(* One sender and one supplier; the messages between them are those of     *)
(* RequestResponse.                                                        *)
(***************************************************************************)
EXTENDS Naturals

CONSTANTS
  ServiceNames,  \* names of services
  Generated,     \* those the bot was built with
  Asks,          \* requests that may be made: [service, template, body, addressed]
  Queries,       \* calls of the sender's RPC server
  AuthTimeout,   \* botAuthCacheTimeout
  MaxCall,       \* bound on the time between a chain read and its use
  MaxTime,       \* bound on the clock
  MaxOnChain     \* bound on the changes of the accounts

ASSUME AccessAssumption ==
  /\ Generated \subseteq ServiceNames
  /\ AuthTimeout \in Nat /\ MaxCall \in Nat /\ MaxTime \in Nat /\ MaxOnChain \in Nat

VARIABLES
  supported,   \* services of the supplier's account
  permitted,   \* TRUE while the sender's account allows its bot
  onChain,     \* number of changes of the two
  touched,     \* history: services whose support was changed
  allowedAt,   \* history: times at which the bot was allowed
  time,
  plugin,      \* TRUE if the supplier's bot has a partner plugin
  services,    \* the supplier's registry, when its bot runs
  up,          \* TRUE while the supplier's bot runs
  authCache,   \* botAuthCache[sender]: [allowed, expiresAt]
  query,       \* [stage, ask, ...] of each call, at the supplier's end
  answer       \* what the caller got, or "none"

chainVars == <<supported, permitted, onChain, touched, allowedAt, time>>
accessVars == <<chainVars, plugin, services, up, authCache, query, answer>>

AccessInit ==
  /\ supported \in SUBSET ServiceNames
  /\ permitted \in BOOLEAN
  /\ onChain = 0 /\ touched = {} /\ time = 0
  /\ allowedAt = (IF permitted THEN {0} ELSE {})
  /\ plugin \in BOOLEAN
  /\ services = {} /\ up = FALSE
  /\ authCache = [allowed |-> FALSE, expiresAt |-> 0]
  /\ query = [q \in Queries |-> [stage |-> "idle"]]
  /\ answer = [q \in Queries |-> "none"]

-----------------------------------------------------------------------------
(* The chain and the clock, external.                                      *)

ChangeSupport(s) ==
  /\ onChain < MaxOnChain /\ onChain' = onChain + 1
  /\ supported' = (IF s \in supported THEN supported \ {s} ELSE supported \cup {s})
  /\ touched' = touched \cup {s}
  /\ UNCHANGED <<permitted, allowedAt, time, plugin, services, up, authCache, query, answer>>

ChangePermission ==
  /\ onChain < MaxOnChain /\ onChain' = onChain + 1
  /\ permitted' = ~permitted
  /\ allowedAt' = allowedAt \cup {time}
  /\ UNCHANGED <<supported, touched, time, plugin, services, up, authCache, query, answer>>

\* A chain call does not take longer than MaxCall.
TickAccess ==
  /\ time < MaxTime /\ time' = time + 1
  /\ \A q \in Queries : query[q].stage = "fetched" => time < query[q].at + MaxCall
  /\ allowedAt' = (IF permitted THEN allowedAt \cup {time'} ELSE allowedAt)
  /\ UNCHANGED <<supported, permitted, onChain, touched, plugin, services, up, authCache,
                 query, answer>>

-----------------------------------------------------------------------------
(* The supplier's start and stop.                                          *)

\* The clients that were generated for the names; these are deleted from the set.
RegisterServiceClients(names) == names \cap Generated

\* Mutant: services the bot does not know are only warned about.
RegistryWarns(names) == TRUE

\* What makes NewServiceRegistry fail: services without a plugin to serve them,
\* or a name that no client was generated for.
RegistryComplete(names) ==
  /\ names # {} => plugin
  /\ names \ RegisterServiceClients(names) = {}

\* The account's services are read with their names; or a call fails.
NewServiceRegistry ==
  /\ ~up
  /\ RegistryComplete(supported)
  /\ up' = TRUE
  /\ services' = IF plugin THEN RegisterServiceClients(supported) ELSE {}
  /\ authCache' = [allowed |-> FALSE, expiresAt |-> 0]
  /\ UNCHANGED <<chainVars, plugin, query, answer>>

AtSupplier == {"fetching", "fetched", "authorized"}

StopSupplier ==
  /\ up /\ up' = FALSE
  /\ query' = [q \in Queries |-> IF query[q].stage \in AtSupplier
                                   THEN [query[q] EXCEPT !.stage = "lost"] ELSE query[q]]
  /\ UNCHANGED <<chainVars, plugin, services, authCache, answer>>

-----------------------------------------------------------------------------
(* The sender: RPC server, stub and the checks before a message is sent.   *)

\* The error of a call as the caller sees it.
errorResponseV1 == "failure"
errorResponseV2(class) ==
  IF class \in {"invalid proto", "blockchain", "business process"} THEN class
                                                                ELSE "internal"
errorResponse(ask, class) ==
  IF ask.template = 1 THEN errorResponseV1 ELSE errorResponseV2(class)

\* The checks of the stubs: template 1 wants a header, template 2 validates.
ServerMethodV1(ask) == ask.body # "no header"
ServerMethodV2(ask) == ask.body = "valid"
ServerMethod(ask) ==
  IF ask.template = 1 THEN ServerMethodV1(ask) ELSE ServerMethodV2(ask)

\* One recipient's address in the metadata of the call.
getRecipientAddress(ask) == ask.addressed

GetAnswer(q, a) == answer' = [answer EXCEPT ![q] = a]

HandleMessageRequest(q, ask) ==
  /\ query[q].stage = "idle"
  /\ LET refusal == IF ~ServerMethod(ask) THEN "invalid proto"
                    ELSE IF ~getRecipientAddress(ask) THEN "other" ELSE "none"
     IN \/ /\ refusal # "none"
           /\ GetAnswer(q, errorResponse(ask, refusal))
           /\ query' = [query EXCEPT ![q] = [stage |-> "refused", ask |-> ask]]
        \/ /\ refusal = "none"
           /\ query' = [query EXCEPT ![q] = [stage |-> "checking", ask |-> ask]]
           /\ UNCHANGED answer
  /\ UNCHANGED <<chainVars, plugin, services, up, authCache>>

\* The service is looked up in the recipient's account; a bot that cannot be
\* resolved, a failing call, and a message that cannot be sent are errors too.
IsServiceSupported(q) ==
  /\ query[q].stage = "checking"
  /\ \/ /\ query[q].ask.service \in supported
        /\ query' = [query EXCEPT ![q].stage = "sent"]
        /\ UNCHANGED answer
     \/ \E class \in {"business process", "blockchain", "other"} :
          /\ GetAnswer(q, errorResponse(query[q].ask, class))
          /\ query' = [query EXCEPT ![q].stage = "refused"]
  /\ UNCHANGED <<chainVars, plugin, services, up, authCache>>

\* The response does not come in time.
ResponseTimeout(q) ==
  /\ query[q].stage \notin {"idle", "checking", "refused"} /\ answer[q] = "none"
  /\ GetAnswer(q, errorResponse(query[q].ask, "other"))
  /\ UNCHANGED <<chainVars, plugin, services, up, authCache, query>>

-----------------------------------------------------------------------------
(* The supplier: is the bot allowed.                                       *)

\* The request is handed on, or dropped without a response.
Decide(q, allowed) ==
  query' = [query EXCEPT ![q] =
    [stage |-> IF allowed THEN "authorized" ELSE "denied",
     ask |-> query[q].ask, at |-> time]]

\* Mutant: an entry is still used at the time it expires.
HitAtExpiry(q) ==
  /\ time <= authCache.expiresAt /\ authCache.expiresAt > 0
  /\ Decide(q, authCache.allowed)
  /\ UNCHANGED authCache

AuthCacheHit(q) ==
  /\ time < authCache.expiresAt
  /\ Decide(q, authCache.allowed)
  /\ UNCHANGED authCache

\* A message arrives and the cache is read.
IsBotAllowed(q) ==
  /\ up /\ query[q].stage = "sent"
  /\ \/ AuthCacheHit(q)
     \/ /\ time >= authCache.expiresAt
        /\ query' = [query EXCEPT ![q].stage = "fetching"]
        /\ UNCHANGED authCache
  /\ UNCHANGED <<chainVars, plugin, services, up, answer>>

\* The chain is asked, without a lock: two requests may ask at the same time.
FetchAllowed(q) ==
  /\ query[q].stage = "fetching"
  /\ query' = [query EXCEPT ![q] =
       [stage |-> "fetched", ask |-> query[q].ask, at |-> time, allowed |-> permitted]]
  /\ UNCHANGED <<chainVars, plugin, services, up, authCache, answer>>

FetchFails(q) ==
  /\ query[q].stage = "fetching"
  /\ Decide(q, FALSE)
  /\ UNCHANGED <<chainVars, plugin, services, up, authCache, answer>>

\* The answer is stored with the time of the store, over what is there.
StoreAllowed(q) ==
  /\ query[q].stage = "fetched"
  /\ authCache' = IF AuthTimeout > 0
                  THEN [allowed |-> query[q].allowed, expiresAt |-> time + AuthTimeout]
                  ELSE authCache
  /\ Decide(q, query[q].allowed)
  /\ UNCHANGED <<chainVars, plugin, services, up, answer>>

-----------------------------------------------------------------------------
(* The supplier: the response.                                             *)

GetService(s) == s \in services

\* The generated client: what the plugin returns, or an error.  An error of the
\* call has no class here; template 1 wants a header, template 2 validates.
CallV1(ask, pluginResult) == IF pluginResult = "response" THEN "success" ELSE errorResponseV1
CallV2(ask, pluginResult) ==
  IF pluginResult = "response" THEN "success"
  ELSE IF pluginResult = "malformed" THEN errorResponseV2("invalid proto")
  ELSE errorResponseV2("other")

\* DoServiceRequest calls the plugin through the client of the service.
DoServiceRequest(ask, pluginResult) ==
  IF ask.template = 1 THEN CallV1(ask, pluginResult) ELSE CallV2(ask, pluginResult)

validateAndRespond(ask, pluginResult) ==
  IF ask.body # "valid" THEN errorResponse(ask, "invalid proto")
                        ELSE DoServiceRequest(ask, pluginResult)

\* A request for a service that is not registered is dropped.  A response that
\* comes too late, or not at all, is not seen by the caller.
RespondOrDrop(q) ==
  /\ query[q].stage = "authorized"
  /\ \/ /\ GetService(query[q].ask.service)
        /\ query' = [query EXCEPT ![q].stage = "answered"]
        /\ \/ /\ answer[q] = "none"
              /\ \E r \in {"response", "malformed", "error"} :
                   GetAnswer(q, validateAndRespond(query[q].ask, r))
           \/ UNCHANGED answer
     \/ /\ ~GetService(query[q].ask.service)
        /\ query' = [query EXCEPT ![q].stage = "unsupported"]
        /\ UNCHANGED answer
  /\ UNCHANGED <<chainVars, plugin, services, up, authCache>>

-----------------------------------------------------------------------------
AccessNext ==
  \/ \E s \in ServiceNames : ChangeSupport(s)
  \/ ChangePermission \/ TickAccess \/ NewServiceRegistry \/ StopSupplier
  \/ \E q \in Queries :
       \/ \E ask \in Asks : HandleMessageRequest(q, ask)
       \/ IsServiceSupported(q) \/ ResponseTimeout(q)
       \/ IsBotAllowed(q) \/ FetchAllowed(q) \/ FetchFails(q) \/ StoreAllowed(q)
       \/ RespondOrDrop(q)

AccessSpec == AccessInit /\ [][AccessNext]_accessVars

-----------------------------------------------------------------------------
\* A request is handed to the partner plugin only for a bot that its account
\* allowed not longer ago than the cache may keep an answer and a chain call may
\* take, whichever answers overwrote each other in the cache meanwhile.
ServedIsAuthorized ==
  \A q \in Queries :
    query[q].stage \in {"authorized", "answered", "unsupported"} =>
      \E t \in allowedAt :
        t <= query[q].at /\ (query[q].at <= t + MaxCall \/ query[q].at < t + MaxCall + AuthTimeout)

\* An allowed request that the sender was free to send goes unanswered for want
\* of its service only if the account has changed its services: a bot that starts
\* serves all its account supports, or does not start.
UnservedWasChanged ==
  \A q \in Queries :
    query[q].stage = "unsupported" => query[q].ask.service \in touched
=============================================================================
