---------------------------- MODULE BotResolver ----------------------------
(***************************************************************************)
(* How a request finds a messenger bot of the recipient's account          *)
(* (internal/resolver) and what the outcome of the request does to the     *)
(* bot's status.  Requests run concurrently and share the table of bots    *)
(* in SQLite, in rollback-journal mode: a session that has read keeps a    *)
(* read lock until it ends, one session at a time may have written, and a  *)
(* commit waits until no other session holds a read lock.  A session that  *)
(* has read and wants to write while another has written fails at once;    *)
(* every other wait ends with an error after the busy timeout.             *)
(*                                                                         *)
(* A writer is taken to bar new readers from its first write on.  In the   *)
(* database it does so from its commit on; a read in between sees the old  *)
(* rows, so it may as well come before the write.                          *)
(***************************************************************************)
EXTENDS Integers, FiniteSets

CONSTANTS
  Accounts,     \* TTM accounts of recipients
  Bots,         \* addresses of messenger bots
  Calls,        \* requests in flight at once (bound)
  To,           \* the account each of them is for
  Registered,   \* bots of each account on the chain at first
  MaxChanges,   \* changes of the chain's registrations and of bots (bound)
  MaxFailures,  \* failing or slow calls and expired waits (bound)
  Nil

ASSUME ResolverAssumption ==
  /\ To \in [Calls -> Accounts]
  /\ Registered \in [Accounts -> SUBSET Bots]
  /\ MaxChanges \in Nat /\ MaxFailures \in Nat
  /\ Nil \notin Bots /\ Nil \notin Calls

VARIABLES
  rows,        \* table bots: status of each (account, bot), "none" if no row
  registered,  \* GetAllMessengerBots of each account
  alive,       \* bots that answer
  stage,       \* where each request is in SendRequestMessage
  bot,         \* recipientBotAddr
  fetched,     \* recipientBots
  outcome,     \* the status the request is going to set
  writer,      \* the request whose session has written
  changes, failures

callVars == <<stage, bot, fetched, outcome, writer>>
vars == <<rows, registered, alive, stage, bot, fetched, outcome, writer,
          changes, failures>>

BotStatus == {"unknown", "reachable", "unreachable"}
Stages == {"idle", "fetching", "storing", "sending", "waiting", "marking",
           "committing"}

\* Every variable holds a value of the shape the code declares for it.
TypeOK ==
  /\ rows \in [Accounts -> [Bots -> BotStatus \cup {"none"}]]
  /\ registered \in [Accounts -> SUBSET Bots]
  /\ alive \in SUBSET Bots
  /\ stage \in [Calls -> Stages]
  /\ bot \in [Calls -> Bots \cup {Nil}]
  /\ fetched \in [Calls -> SUBSET Bots]
  /\ outcome \in [Calls -> BotStatus]
  /\ writer \in Calls \cup {Nil}
  /\ changes \in 0..MaxChanges
  /\ failures \in 0..MaxFailures

Init ==
  /\ rows = [a \in Accounts |-> [b \in Bots |-> "none"]]
  /\ registered = Registered
  /\ alive = Bots
  /\ stage = [c \in Calls |-> "idle"]
  /\ bot = [c \in Calls |-> Nil]
  /\ fetched = [c \in Calls |-> {}]
  /\ outcome = [c \in Calls |-> "unknown"]
  /\ writer = Nil
  /\ changes = 0 /\ failures = 0

-----------------------------------------------------------------------------
(* The chain and the other bots, external.                                 *)

Change == changes < MaxChanges /\ changes' = changes + 1

\* A bot is registered with an account, or its registration is revoked.
Register(a, b) ==
  /\ Change
  /\ registered' = [registered EXCEPT
                      ![a] = IF b \in @ THEN @ \ {b} ELSE @ \cup {b}]
  /\ UNCHANGED <<rows, alive, callVars, failures>>

\* A bot stops, or answers again.
StopOrStart(b) ==
  /\ Change
  /\ alive' = IF b \in alive THEN alive \ {b} ELSE alive \cup {b}
  /\ UNCHANGED <<rows, registered, callVars, failures>>

\* The answer of a bot counts if it is allowed to act for the account.
Answers(c) == bot[c] \in alive \cap registered[To[c]]

-----------------------------------------------------------------------------
(* Sessions.                                                               *)

Fails == failures < MaxFailures /\ failures' = failures + 1
Works == UNCHANGED failures

\* Sessions that keep a read lock.
Readers == {c \in Calls : stage[c] \in {"fetching", "storing"}}

Goes(c, s) == stage' = [stage EXCEPT ![c] = s]

\* The request returns, or its session is aborted on the way out.
Returns(c) ==
  /\ Goes(c, "idle")
  /\ bot' = [bot EXCEPT ![c] = Nil]
  /\ fetched' = [fetched EXCEPT ![c] = {}]
  /\ outcome' = [outcome EXCEPT ![c] = "unknown"]
  /\ writer' = IF writer = c THEN Nil ELSE writer

With(a, status) == {b \in Bots : rows[a][b] = status}

-----------------------------------------------------------------------------
(* GetBotAddress.                                                          *)

\* GetFirstBotWithStatus: some row, in no particular order.
Uses(c, bots) ==
  /\ \E b \in bots : bot' = [bot EXCEPT ![c] = b]
  /\ Goes(c, "sending")

\* Mutant: a bot that is known to be reachable is not looked for.
LookupUnknownOnly(c) ==
  /\ stage[c] = "idle" /\ writer = Nil
  /\ LET unknown == With(To[c], "unknown") IN
     IF unknown # {} THEN Uses(c, unknown)
                     ELSE Goes(c, "fetching") /\ UNCHANGED bot
  /\ UNCHANGED <<rows, registered, alive, fetched, outcome, writer, changes, failures>>

\* Mutant: an account whose bots are all unreachable is not looked up again.
LookupOnce(c) ==
  /\ stage[c] = "idle" /\ writer = Nil
  /\ LET reachable == With(To[c], "reachable")
         unknown == With(To[c], "unknown") IN
     IF reachable # {} THEN Uses(c, reachable)
     ELSE IF unknown # {} THEN Uses(c, unknown)
     ELSE IF With(To[c], "unreachable") # {} THEN UNCHANGED <<stage, bot>>
     ELSE Goes(c, "fetching") /\ UNCHANGED bot
  /\ UNCHANGED <<rows, registered, alive, fetched, outcome, writer, changes, failures>>

\* A reachable bot, else one of unknown status, else the chain is asked.
Lookup(c) ==
  /\ stage[c] = "idle" /\ writer = Nil
  /\ LET reachable == With(To[c], "reachable")
         unknown == With(To[c], "unknown") IN
     IF reachable # {} THEN Uses(c, reachable)
     ELSE IF unknown # {} THEN Uses(c, unknown)
     ELSE Goes(c, "fetching") /\ UNCHANGED bot
  /\ UNCHANGED <<rows, registered, alive, fetched, outcome, writer, changes, failures>>

\* Mutant: SetBots waits for the writer, which waits for this reader.
SetBotsWaits(c) ==
  /\ stage[c] = "fetching"
  /\ writer = Nil
  /\ Works
  /\ writer' = c /\ Goes(c, "storing")
  /\ fetched' = [fetched EXCEPT ![c] = registered[To[c]]]
  /\ UNCHANGED <<rows, registered, alive, bot, outcome, changes>>

\* GetAllMessengerBots and the first write of SetBots.
SetBots(c) ==
  /\ stage[c] = "fetching"
  /\ \/ /\ writer = Nil /\ Works
        /\ writer' = c /\ Goes(c, "storing")
        /\ fetched' = [fetched EXCEPT ![c] = registered[To[c]]]
        /\ UNCHANGED <<bot, outcome>>
     \/ writer # Nil /\ Works /\ Returns(c)
     \/ Fails /\ Returns(c)
  /\ UNCHANGED <<rows, registered, alive, changes>>

\* The rows of an account after SetBots: all others are deleted.
FreshRows(bots) == [b \in Bots |-> IF b \in bots THEN "unknown" ELSE "none"]

\* Commit: the account's rows are replaced.  The first bot is used, and there
\* may be none.
SetBotsCommit(c) ==
  /\ stage[c] = "storing"
  /\ \/ /\ Readers = {c} /\ Works
        /\ rows' = [rows EXCEPT ![To[c]] = FreshRows(fetched[c])]
        /\ \/ fetched[c] = {} /\ Returns(c)
           \/ /\ Uses(c, fetched[c])
              /\ writer' = Nil
              /\ fetched' = [fetched EXCEPT ![c] = {}]
              /\ UNCHANGED outcome
     \/ Fails /\ Returns(c) /\ UNCHANGED rows
  /\ UNCHANGED <<registered, alive, changes>>

-----------------------------------------------------------------------------
(* SendRequestMessage after the bot is resolved.                           *)

\* A request that cannot be sent returns and leaves the status alone.
Send(c) ==
  /\ stage[c] = "sending"
  /\ \/ Works /\ Goes(c, "waiting") /\ UNCHANGED <<bot, fetched, outcome, writer>>
     \/ Fails /\ Returns(c)
  /\ UNCHANGED <<rows, registered, alive, changes>>

\* The response comes, or the context ends: for want of a response, for its
\* delay, or because the client has cancelled.
Response(c) ==
  /\ stage[c] = "waiting" /\ Answers(c)
  /\ outcome' = [outcome EXCEPT ![c] = "reachable"]
  /\ Goes(c, "marking")
  /\ UNCHANGED <<rows, registered, alive, bot, fetched, writer, changes, failures>>

ContextDone(c) ==
  /\ stage[c] = "waiting"
  /\ IF Answers(c) THEN Fails ELSE Works
  /\ outcome' = [outcome EXCEPT ![c] = "unreachable"]
  /\ Goes(c, "marking")
  /\ UNCHANGED <<rows, registered, alive, bot, fetched, writer, changes>>

\* SetBotStatus: the update has to affect one row, whatever its account.
AccountsWith(b) == {a \in Accounts : rows[a][b] # "none"}

SetBotStatus(c) ==
  /\ stage[c] = "marking" /\ writer = Nil
  /\ IF \E a \in Accounts : AccountsWith(bot[c]) = {a}
     THEN /\ writer' = c /\ Goes(c, "committing")
          /\ UNCHANGED <<bot, fetched, outcome>>
     ELSE Returns(c)
  /\ UNCHANGED <<rows, registered, alive, changes, failures>>

\* Gives up waiting for another writer.
SetBotStatusFails(c) ==
  /\ stage[c] = "marking"
  /\ Fails
  /\ Returns(c)
  /\ UNCHANGED <<rows, registered, alive, changes>>

\* Mutant: the commit does not wait for readers.
CommitIgnoresReaders(c) ==
  /\ stage[c] = "committing"
  /\ rows' = [a \in Accounts |->
                [b \in Bots |-> IF b = bot[c] /\ rows[a][b] # "none"
                                THEN outcome[c] ELSE rows[a][b]]]
  /\ Works
  /\ Returns(c)
  /\ UNCHANGED <<registered, alive, changes>>

SetBotStatusCommit(c) ==
  /\ stage[c] = "committing"
  /\ \/ /\ Readers = {} /\ Works
        /\ rows' = [a \in Accounts |->
                      [b \in Bots |-> IF b = bot[c] /\ rows[a][b] # "none"
                                      THEN outcome[c] ELSE rows[a][b]]]
     \/ Fails /\ UNCHANGED rows
  /\ Returns(c)
  /\ UNCHANGED <<registered, alive, changes>>

-----------------------------------------------------------------------------
(* Specification.                                                          *)

CallStep(c) ==
  \/ SetBots(c) \/ SetBotsCommit(c)
  \/ Send(c) \/ Response(c) \/ ContextDone(c)
  \/ SetBotStatus(c) \/ SetBotStatusFails(c) \/ SetBotStatusCommit(c)

Next ==
  \/ \E c \in Calls : Lookup(c) \/ CallStep(c)
  \/ \E a \in Accounts, b \in Bots : Register(a, b)
  \/ \E b \in Bots : StopOrStart(b)

Spec == Init /\ [][Next]_vars

\* Every request goes on; the busy handler does not starve a waiting writer.
Fairness == \A c \in Calls : SF_vars(CallStep(c))

\* A client keeps calling.
ClientFairness == \A c \in Calls : SF_vars(Lookup(c))

FairSpec == Spec /\ Fairness /\ ClientFairness

-----------------------------------------------------------------------------
(* Properties.                                                             *)

\* A request that found no usable bot and asks the chain replaces the rows it
\* has read, not newer ones: until it commits or gives up, no row of its
\* account becomes usable.
SnapshotStable ==
  \A c \in Readers : \A b \in Bots : rows[To[c]][b] \in {"none", "unreachable"}

\* One session at a time has written.
OneWriter ==
  \A c \in Calls : stage[c] \in {"storing", "committing"} <=> writer = c

\* A reachable bot is given up only for a request that got no response; a
\* refetch from the chain never forgets one.
ReachableNotForgotten ==
  [][\A a \in Accounts, b \in Bots :
       rows[a][b] = "reachable" /\ rows'[a][b] # "reachable" =>
         /\ rows'[a][b] = "unreachable"
         /\ \E c \in Calls : bot[c] = b /\ outcome[c] = "unreachable"]_vars

\* Every request returns: readers that want to write and the writer that waits
\* for readers do not wait for each other.
CallsReturn == \A c \in Calls : stage[c] # "idle" ~> stage[c] = "idle"

\* Failover: a client that keeps calling an account gets a response again and
\* again, unless the account is left without a bot that answers, or a bot is
\* stored for two accounts, when no status of it can be set.
Served(a) == \E c \in Calls : To[c] = a /\ outcome[c] = "reachable"
Shared(b) == \E a, d \in AccountsWith(b) : a # d
Failover ==
  \A a \in Accounts :
    \/ []<>Served(a)
    \/ []<>(registered[a] \cap alive = {} \/ \E b \in Bots : Shared(b))
=============================================================================
