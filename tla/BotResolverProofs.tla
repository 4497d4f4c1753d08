-------------------------- MODULE BotResolverProofs --------------------------
(***************************************************************************)
(* Proofs about BotResolver, for any accounts, bots and concurrent         *)
(* requests.                                                               *)
(***************************************************************************)
EXTENDS BotResolver, TLAPS

\* A request that is about to set a status has an outcome and a bot.
Marks ==
  \A c \in Calls :
    stage[c] \in {"marking", "committing"} => outcome[c] \in {"reachable", "unreachable"}

(* The inductive invariant.                                                *)
Inv == TypeOK /\ OneWriter /\ SnapshotStable /\ Marks

\* The invariant holds initially.
LEMMA InitInv == Init => Inv
BY ResolverAssumption
   DEF Init, Inv, TypeOK, OneWriter, SnapshotStable, Readers, Marks, BotStatus,
       Stages

\* The request picks a bot or starts to ask the chain, which it does only if
\* its account has no usable row.
LEMMA LookupInv ==
  ASSUME Inv, NEW c \in Calls, Lookup(c)
  PROVE  Inv'
<1>0. TypeOK /\ OneWriter /\ SnapshotStable /\ Marks
  BY DEF Inv
<1>u. UNCHANGED <<rows, registered, alive, fetched, outcome, writer, changes, failures>>
  BY DEF Lookup, Uses, With, Goes
<1>1. TypeOK'
  <2>1. stage' \in [Calls -> Stages]
    BY <1>0, ResolverAssumption DEF TypeOK, Lookup, Uses, With, Goes,
       Stages
  <2>2. bot' \in [Calls -> Bots \cup {Nil}]
    BY <1>0, ResolverAssumption DEF TypeOK, Lookup, Uses, With, Goes
  <2> QED  BY <1>0, <1>u, <2>1, <2>2 DEF TypeOK
<1>2. OneWriter'
  BY <1>0, <1>u, ResolverAssumption DEF OneWriter, TypeOK, Lookup, Uses,
     With, Goes
<1>3. SnapshotStable'
  <2>1. \A d \in Calls : d # c => stage'[d] = stage[d]
    BY <1>0 DEF TypeOK, Lookup, Uses, Goes
  <2>2. \/ stage'[c] = "sending"
        \/ With(To[c], "reachable") = {} /\ With(To[c], "unknown") = {}
    BY <1>0 DEF TypeOK, Lookup, Uses, Goes
  <2>3. stage'[c] # "sending" => \A b \in Bots : rows[To[c]][b] \in {"none", "unreachable"}
    BY <2>2, <1>0, ResolverAssumption DEF TypeOK, BotStatus, With
  <2> QED  BY <2>1, <2>3, <1>0, <1>u DEF SnapshotStable, Readers
<1>4. Marks'
  BY <1>0, <1>u, ResolverAssumption DEF Marks, OneWriter, TypeOK, Lookup,
     Uses, With, Goes
<1> QED  BY <1>1, <1>2, <1>3, <1>4 DEF Inv

\* The request has the list from the chain; it becomes the writer or fails.
LEMMA SetBotsInv ==
  ASSUME Inv, NEW c \in Calls, SetBots(c)
  PROVE  Inv'
<1>0. TypeOK /\ OneWriter /\ SnapshotStable /\ Marks
  BY DEF Inv
<1>u. UNCHANGED <<rows, registered, alive, changes>>
  BY DEF SetBots, Goes, Returns, Works, Fails
<1>1. TypeOK'
  <2>1. stage' \in [Calls -> Stages]
    BY <1>0, ResolverAssumption DEF TypeOK, SetBots, Goes, Returns, Works,
       Fails, Stages
  <2>2. bot' \in [Calls -> Bots \cup {Nil}]
    BY <1>0, ResolverAssumption DEF TypeOK, SetBots, Goes, Returns, Works,
       Fails
  <2>3. fetched' \in [Calls -> SUBSET Bots]
    BY <1>0, ResolverAssumption DEF TypeOK, SetBots, Goes, Returns, Works,
       Fails
  <2>4. outcome' \in [Calls -> BotStatus]
    BY <1>0, ResolverAssumption DEF TypeOK, SetBots, Goes, Returns, Works,
       Fails, BotStatus
  <2>5. writer' \in Calls \cup {Nil}
    BY <1>0, ResolverAssumption DEF TypeOK, SetBots, Goes, Returns, Works,
       Fails
  <2>6. failures' \in 0..MaxFailures
    BY <1>0, ResolverAssumption DEF TypeOK, SetBots, Goes, Returns, Works,
       Fails
  <2> QED  BY <1>0, <1>u, <2>1, <2>2, <2>3, <2>4, <2>5, <2>6 DEF TypeOK
<1>2. OneWriter'
  BY <1>0, <1>u, ResolverAssumption DEF OneWriter, TypeOK, SetBots, Goes,
     Returns, Works, Fails
<1>3. SnapshotStable'
  BY <1>0, <1>u, ResolverAssumption DEF SnapshotStable, Readers, OneWriter,
     TypeOK, SetBots, Goes, Returns, Works, Fails
<1>4. Marks'
  BY <1>0, <1>u, ResolverAssumption DEF Marks, OneWriter, TypeOK, SetBots,
     Goes, Returns, Works, Fails
<1> QED  BY <1>1, <1>2, <1>3, <1>4 DEF Inv

\* The rows are replaced while no other request holds a read lock.
LEMMA SetBotsCommitInv ==
  ASSUME Inv, NEW c \in Calls, SetBotsCommit(c)
  PROVE  Inv'
<1>0. TypeOK /\ OneWriter /\ SnapshotStable /\ Marks
  BY DEF Inv
<1>u. UNCHANGED <<registered, alive, changes>>
  BY DEF SetBotsCommit, Uses, Goes, Returns, Works, Fails, Readers
<1>1. TypeOK'
  <2>1. rows' \in [Accounts -> [Bots -> BotStatus \cup {"none"}]]
    <3>1. CASE UNCHANGED rows
      BY <3>1, <1>0 DEF TypeOK
    <3>2. CASE rows' = [rows EXCEPT ![To[c]] = FreshRows(fetched[c])]
      <4>1. FreshRows(fetched[c]) \in [Bots -> BotStatus \cup {"none"}]
        BY DEF BotStatus, FreshRows
      <4> QED  BY <4>1, <3>2, <1>0, ResolverAssumption DEF TypeOK
    <3> QED  BY <3>1, <3>2 DEF SetBotsCommit
  <2>2. stage' \in [Calls -> Stages]
    <3>1. stage' = [stage EXCEPT ![c] = "idle"] \/ stage' = [stage EXCEPT ![c] = "sending"]
      BY DEF SetBotsCommit, Returns, Uses, Goes
    <3> QED  BY <3>1, <1>0 DEF TypeOK, Stages
  <2>3. bot' \in [Calls -> Bots \cup {Nil}]
    <3>1. \/ bot' = [bot EXCEPT ![c] = Nil]
          \/ \E b \in fetched[c] : bot' = [bot EXCEPT ![c] = b]
      BY DEF SetBotsCommit, Returns, Uses
    <3>2. fetched[c] \subseteq Bots
      BY <1>0 DEF TypeOK
    <3> QED  BY <3>1, <3>2, <1>0 DEF TypeOK
  <2>4. fetched' \in [Calls -> SUBSET Bots]
    BY <1>0, ResolverAssumption DEF TypeOK, SetBotsCommit, Uses, Goes,
       Returns, Works, Fails, Readers
  <2>5. outcome' \in [Calls -> BotStatus]
    BY <1>0, ResolverAssumption DEF TypeOK, SetBotsCommit, Uses, Goes,
       Returns, Works, Fails, Readers, BotStatus
  <2>6. writer' \in Calls \cup {Nil}
    BY <1>0, ResolverAssumption DEF TypeOK, SetBotsCommit, Uses, Goes,
       Returns, Works, Fails, Readers
  <2>7. failures' \in 0..MaxFailures
    BY <1>0, ResolverAssumption DEF TypeOK, SetBotsCommit, Uses, Goes,
       Returns, Works, Fails, Readers
  <2> QED  BY <1>0, <1>u, <2>1, <2>2, <2>3, <2>4, <2>5, <2>6, <2>7 DEF
     TypeOK
<1>2. OneWriter'
  BY <1>0, <1>u, ResolverAssumption DEF OneWriter, TypeOK, SetBotsCommit,
     Uses, Goes, Returns, Works, Fails, Readers
<1>3. SnapshotStable'
  BY <1>0, <1>u, ResolverAssumption DEF SnapshotStable, Readers, OneWriter,
     TypeOK, SetBotsCommit, Uses, Goes, Returns, Works, Fails
<1>4. Marks'
  BY <1>0, <1>u, ResolverAssumption DEF Marks, OneWriter, TypeOK,
     SetBotsCommit, Uses, Goes, Returns, Works, Fails, Readers
<1> QED  BY <1>1, <1>2, <1>3, <1>4 DEF Inv

\* The request is sent.
LEMMA SendInv ==
  ASSUME Inv, NEW c \in Calls, Send(c)
  PROVE  Inv'
<1>0. TypeOK /\ OneWriter /\ SnapshotStable /\ Marks
  BY DEF Inv
<1>u. UNCHANGED <<rows, registered, alive, changes>>
  BY DEF Send, Goes, Returns, Works, Fails
<1>1. TypeOK'
  <2>1. stage' \in [Calls -> Stages]
    BY <1>0, ResolverAssumption DEF TypeOK, Send, Goes, Returns, Works,
       Fails, Stages
  <2>2. bot' \in [Calls -> Bots \cup {Nil}]
    BY <1>0, ResolverAssumption DEF TypeOK, Send, Goes, Returns, Works,
       Fails
  <2>3. fetched' \in [Calls -> SUBSET Bots]
    BY <1>0, ResolverAssumption DEF TypeOK, Send, Goes, Returns, Works,
       Fails
  <2>4. outcome' \in [Calls -> BotStatus]
    BY <1>0, ResolverAssumption DEF TypeOK, Send, Goes, Returns, Works,
       Fails, BotStatus
  <2>5. writer' \in Calls \cup {Nil}
    BY <1>0, ResolverAssumption DEF TypeOK, Send, Goes, Returns, Works,
       Fails
  <2>6. failures' \in 0..MaxFailures
    BY <1>0, ResolverAssumption DEF TypeOK, Send, Goes, Returns, Works,
       Fails
  <2> QED  BY <1>0, <1>u, <2>1, <2>2, <2>3, <2>4, <2>5, <2>6 DEF TypeOK
<1>2. OneWriter'
  BY <1>0, <1>u, ResolverAssumption DEF OneWriter, TypeOK, Send, Goes,
     Returns, Works, Fails
<1>3. SnapshotStable'
  BY <1>0, <1>u, ResolverAssumption DEF SnapshotStable, Readers, OneWriter,
     TypeOK, Send, Goes, Returns, Works, Fails
<1>4. Marks'
  BY <1>0, <1>u, ResolverAssumption DEF Marks, OneWriter, TypeOK, Send,
     Goes, Returns, Works, Fails
<1> QED  BY <1>1, <1>2, <1>3, <1>4 DEF Inv

\* The response arrives.
LEMMA ResponseInv ==
  ASSUME Inv, NEW c \in Calls, Response(c)
  PROVE  Inv'
<1>0. TypeOK /\ OneWriter /\ SnapshotStable /\ Marks
  BY DEF Inv
<1>u. UNCHANGED <<rows, registered, alive, bot, fetched, writer, changes, failures>>
  BY DEF Response, Goes
<1>1. TypeOK'
  <2>1. stage' \in [Calls -> Stages]
    BY <1>0, ResolverAssumption DEF TypeOK, Response, Goes, Stages
  <2>2. outcome' \in [Calls -> BotStatus]
    BY <1>0, ResolverAssumption DEF TypeOK, Response, Goes, BotStatus
  <2> QED  BY <1>0, <1>u, <2>1, <2>2 DEF TypeOK
<1>2. OneWriter'
  BY <1>0, <1>u, ResolverAssumption DEF OneWriter, TypeOK, Response, Goes
<1>3. SnapshotStable'
  BY <1>0, <1>u, ResolverAssumption DEF SnapshotStable, Readers, OneWriter,
     TypeOK, Response, Goes
<1>4. Marks'
  BY <1>0, <1>u, ResolverAssumption DEF Marks, OneWriter, TypeOK, Response,
     Goes
<1> QED  BY <1>1, <1>2, <1>3, <1>4 DEF Inv

\* The context ends.
LEMMA ContextDoneInv ==
  ASSUME Inv, NEW c \in Calls, ContextDone(c)
  PROVE  Inv'
<1>0. TypeOK /\ OneWriter /\ SnapshotStable /\ Marks
  BY DEF Inv
<1>u. UNCHANGED <<rows, registered, alive, bot, fetched, writer, changes>>
  BY DEF ContextDone, Goes, Works, Fails
<1>1. TypeOK'
  <2>1. stage' \in [Calls -> Stages]
    BY <1>0, ResolverAssumption DEF TypeOK, ContextDone, Goes, Works,
       Fails, Stages
  <2>2. outcome' \in [Calls -> BotStatus]
    BY <1>0, ResolverAssumption DEF TypeOK, ContextDone, Goes, Works,
       Fails, BotStatus
  <2>3. failures' \in 0..MaxFailures
    BY <1>0, ResolverAssumption DEF TypeOK, ContextDone, Goes, Works,
       Fails
  <2> QED  BY <1>0, <1>u, <2>1, <2>2, <2>3 DEF TypeOK
<1>2. OneWriter'
  BY <1>0, <1>u, ResolverAssumption DEF OneWriter, TypeOK, ContextDone,
     Goes, Works, Fails
<1>3. SnapshotStable'
  BY <1>0, <1>u, ResolverAssumption DEF SnapshotStable, Readers, OneWriter,
     TypeOK, ContextDone, Goes, Works, Fails
<1>4. Marks'
  BY <1>0, <1>u, ResolverAssumption DEF Marks, OneWriter, TypeOK,
     ContextDone, Goes, Works, Fails
<1> QED  BY <1>1, <1>2, <1>3, <1>4 DEF Inv

\* The status is written.
LEMMA SetBotStatusInv ==
  ASSUME Inv, NEW c \in Calls, SetBotStatus(c)
  PROVE  Inv'
<1>0. TypeOK /\ OneWriter /\ SnapshotStable /\ Marks
  BY DEF Inv
<1>u. UNCHANGED <<rows, registered, alive, changes, failures>>
  BY DEF SetBotStatus, Goes, Returns
<1>1. TypeOK'
  <2>1. stage' \in [Calls -> Stages]
    <3>1. stage' = [stage EXCEPT ![c] = "idle"] \/ stage' = [stage EXCEPT ![c] = "committing"]
      BY DEF SetBotStatus, Returns, Goes
    <3> QED  BY <3>1, <1>0 DEF TypeOK, Stages
  <2>2. bot' \in [Calls -> Bots \cup {Nil}]
    BY <1>0, ResolverAssumption DEF TypeOK, SetBotStatus, Goes, Returns
  <2>3. fetched' \in [Calls -> SUBSET Bots]
    BY <1>0, ResolverAssumption DEF TypeOK, SetBotStatus, Goes, Returns
  <2>4. outcome' \in [Calls -> BotStatus]
    BY <1>0, ResolverAssumption DEF TypeOK, SetBotStatus, Goes, Returns,
       BotStatus
  <2>5. writer' \in Calls \cup {Nil}
    BY <1>0, ResolverAssumption DEF TypeOK, SetBotStatus, Goes, Returns
  <2> QED  BY <1>0, <1>u, <2>1, <2>2, <2>3, <2>4, <2>5 DEF TypeOK
<1>2. OneWriter'
  BY <1>0, <1>u, ResolverAssumption DEF OneWriter, TypeOK, SetBotStatus,
     Goes, Returns
<1>3. SnapshotStable'
  BY <1>0, <1>u, ResolverAssumption DEF SnapshotStable, Readers, OneWriter,
     TypeOK, SetBotStatus, Goes, Returns
<1>4. Marks'
  BY <1>0, <1>u, ResolverAssumption DEF Marks, OneWriter, TypeOK,
     SetBotStatus, Goes, Returns
<1> QED  BY <1>1, <1>2, <1>3, <1>4 DEF Inv

\* The request gives up waiting to write.
LEMMA SetBotStatusFailsInv ==
  ASSUME Inv, NEW c \in Calls, SetBotStatusFails(c)
  PROVE  Inv'
<1>0. TypeOK /\ OneWriter /\ SnapshotStable /\ Marks
  BY DEF Inv
<1>u. UNCHANGED <<rows, registered, alive, changes>>
  BY DEF SetBotStatusFails, Goes, Returns, Fails
<1>1. TypeOK'
  <2>1. stage' \in [Calls -> Stages]
    BY <1>0, ResolverAssumption DEF TypeOK, SetBotStatusFails, Goes,
       Returns, Fails, Stages
  <2>2. bot' \in [Calls -> Bots \cup {Nil}]
    BY <1>0, ResolverAssumption DEF TypeOK, SetBotStatusFails, Goes,
       Returns, Fails
  <2>3. fetched' \in [Calls -> SUBSET Bots]
    BY <1>0, ResolverAssumption DEF TypeOK, SetBotStatusFails, Goes,
       Returns, Fails
  <2>4. outcome' \in [Calls -> BotStatus]
    BY <1>0, ResolverAssumption DEF TypeOK, SetBotStatusFails, Goes,
       Returns, Fails, BotStatus
  <2>5. writer' \in Calls \cup {Nil}
    BY <1>0, ResolverAssumption DEF TypeOK, SetBotStatusFails, Goes,
       Returns, Fails
  <2>6. failures' \in 0..MaxFailures
    BY <1>0, ResolverAssumption DEF TypeOK, SetBotStatusFails, Goes,
       Returns, Fails
  <2> QED  BY <1>0, <1>u, <2>1, <2>2, <2>3, <2>4, <2>5, <2>6 DEF TypeOK
<1>2. OneWriter'
  BY <1>0, <1>u, ResolverAssumption DEF OneWriter, TypeOK,
     SetBotStatusFails, Goes, Returns, Fails
<1>3. SnapshotStable'
  BY <1>0, <1>u, ResolverAssumption DEF SnapshotStable, Readers, OneWriter,
     TypeOK, SetBotStatusFails, Goes, Returns, Fails
<1>4. Marks'
  BY <1>0, <1>u, ResolverAssumption DEF Marks, OneWriter, TypeOK,
     SetBotStatusFails, Goes, Returns, Fails
<1> QED  BY <1>1, <1>2, <1>3, <1>4 DEF Inv

\* The status is committed while there is no reader.
LEMMA SetBotStatusCommitInv ==
  ASSUME Inv, NEW c \in Calls, SetBotStatusCommit(c)
  PROVE  Inv'
<1>0. TypeOK /\ OneWriter /\ SnapshotStable /\ Marks
  BY DEF Inv
<1>u. UNCHANGED <<registered, alive, changes>>
  BY DEF SetBotStatusCommit, Goes, Returns, Works, Fails, Readers
<1>1. TypeOK'
  <2>1. rows' \in [Accounts -> [Bots -> BotStatus \cup {"none"}]]
    BY <1>0, ResolverAssumption DEF TypeOK, SetBotStatusCommit, Goes,
       Returns, Works, Fails, Readers, BotStatus
  <2>2. stage' \in [Calls -> Stages]
    BY <1>0, ResolverAssumption DEF TypeOK, SetBotStatusCommit, Goes,
       Returns, Works, Fails, Readers, Stages
  <2>3. bot' \in [Calls -> Bots \cup {Nil}]
    BY <1>0, ResolverAssumption DEF TypeOK, SetBotStatusCommit, Goes,
       Returns, Works, Fails, Readers
  <2>4. fetched' \in [Calls -> SUBSET Bots]
    BY <1>0, ResolverAssumption DEF TypeOK, SetBotStatusCommit, Goes,
       Returns, Works, Fails, Readers
  <2>5. outcome' \in [Calls -> BotStatus]
    BY <1>0, ResolverAssumption DEF TypeOK, SetBotStatusCommit, Goes,
       Returns, Works, Fails, Readers, BotStatus
  <2>6. writer' \in Calls \cup {Nil}
    BY <1>0, ResolverAssumption DEF TypeOK, SetBotStatusCommit, Goes,
       Returns, Works, Fails, Readers
  <2>7. failures' \in 0..MaxFailures
    BY <1>0, ResolverAssumption DEF TypeOK, SetBotStatusCommit, Goes,
       Returns, Works, Fails, Readers
  <2> QED  BY <1>0, <1>u, <2>1, <2>2, <2>3, <2>4, <2>5, <2>6, <2>7 DEF
     TypeOK
<1>2. OneWriter'
  BY <1>0, <1>u, ResolverAssumption DEF OneWriter, TypeOK,
     SetBotStatusCommit, Goes, Returns, Works, Fails, Readers
<1>3. SnapshotStable'
  BY <1>0, <1>u, ResolverAssumption DEF SnapshotStable, Readers, OneWriter,
     TypeOK, SetBotStatusCommit, Goes, Returns, Works, Fails
<1>4. Marks'
  BY <1>0, <1>u, ResolverAssumption DEF Marks, OneWriter, TypeOK,
     SetBotStatusCommit, Goes, Returns, Works, Fails, Readers
<1> QED  BY <1>1, <1>2, <1>3, <1>4 DEF Inv

\* Registrations and bots change without touching the rows.
LEMMA EnvironmentInv ==
  ASSUME Inv,
         \/ \E a \in Accounts, b \in Bots : Register(a, b)
         \/ \E b \in Bots : StopOrStart(b)
  PROVE  Inv'
<1>0. TypeOK /\ OneWriter /\ SnapshotStable /\ Marks
  BY DEF Inv
<1>1. UNCHANGED <<rows, callVars, failures>>
  BY DEF Register, StopOrStart
<1>2. registered' \in [Accounts -> SUBSET Bots]
  BY <1>0 DEF TypeOK, Register, StopOrStart
<1>3. alive' \in SUBSET Bots
  BY <1>0 DEF TypeOK, Register, StopOrStart
<1>4. changes' \in 0..MaxChanges
  BY <1>0, ResolverAssumption DEF TypeOK, Register, StopOrStart, Change
<1>5. TypeOK'
  BY <1>0, <1>1, <1>2, <1>3, <1>4 DEF TypeOK, callVars
<1>6. (OneWriter /\ SnapshotStable /\ Marks)'
  BY <1>0, <1>1 DEF OneWriter, SnapshotStable, Marks, Readers, callVars
<1> QED  BY <1>5, <1>6 DEF Inv

\* Every step keeps the invariant.
LEMMA NextInv == Inv /\ [Next]_vars => Inv'
<1> SUFFICES ASSUME Inv, [Next]_vars
             PROVE  Inv'
  OBVIOUS
<1>1. CASE \E c \in Calls : Lookup(c) \/ CallStep(c)
  BY <1>1, LookupInv, SetBotsInv, SetBotsCommitInv, SendInv, ResponseInv,
     ContextDoneInv, SetBotStatusInv, SetBotStatusFailsInv,
     SetBotStatusCommitInv DEF CallStep
<1>2. CASE \/ \E a \in Accounts, b \in Bots : Register(a, b)
           \/ \E b \in Bots : StopOrStart(b)
  BY <1>2, EnvironmentInv
<1>3. CASE UNCHANGED vars
  BY <1>3 DEF vars, Inv, TypeOK, OneWriter, SnapshotStable, Marks, Readers
<1> QED  BY <1>1, <1>2, <1>3 DEF Next

-----------------------------------------------------------------------------

\* Inv is an invariant: SnapshotStable needs OneWriter and the readers a commit
\* waits for.
THEOREM Invariance == Spec => []Inv
BY InitInv, NextInv, PTL DEF Spec

\* The resolver's state keeps the shape of its declarations.
THEOREM TypeCorrect == Spec => []TypeOK
<1>1. Inv => TypeOK
  BY DEF Inv
<1> QED  BY <1>1, Invariance, PTL

\* While a request asks the chain for bots, no row of its account becomes
\* usable, whatever the other requests do.
THEOREM SnapshotStableHolds == Spec => []SnapshotStable
<1>1. Inv => SnapshotStable
  BY DEF Inv
<1> QED  BY <1>1, Invariance, PTL

\* At most one session has written.
THEOREM OneWriterHolds == Spec => []OneWriter
<1>1. Inv => OneWriter
  BY DEF Inv
<1> QED  BY <1>1, Invariance, PTL

\* What a step may do to a reachable row.
GivenUp ==
  \A a \in Accounts, b \in Bots :
    rows[a][b] = "reachable" /\ rows'[a][b] # "reachable" =>
      /\ rows'[a][b] = "unreachable"
      /\ \E c \in Calls : bot[c] = b /\ outcome[c] = "unreachable"

\* No step but a commit of SetBotStatus takes a row from reachable, and that
\* one records a request without a response.
LEMMA StepGivesUp == Inv /\ [Next]_vars => [GivenUp]_vars
<1> SUFFICES ASSUME Inv, Next
             PROVE  GivenUp
  BY DEF vars
<1>0. TypeOK /\ SnapshotStable /\ Marks
  BY DEF Inv
<1>1. CASE UNCHANGED rows
  BY <1>1 DEF GivenUp
<1>2. ASSUME NEW c \in Calls, SetBotsCommit(c), rows' # rows
      PROVE  GivenUp
  <2>1. c \in Readers
    BY <1>2 DEF SetBotsCommit, Readers
  <2>2. \A b \in Bots : rows[To[c]][b] # "reachable"
    BY <2>1, <1>0 DEF SnapshotStable
  <2>3. rows' = [rows EXCEPT ![To[c]] = FreshRows(fetched[c])]
    BY <1>2 DEF SetBotsCommit
  <2>4. \A a \in Accounts : a # To[c] => rows'[a] = rows[a]
    BY <2>3, <1>0 DEF TypeOK
  <2> QED  BY <2>2, <2>4 DEF GivenUp
<1>3. ASSUME NEW c \in Calls, SetBotStatusCommit(c), rows' # rows
      PROVE  GivenUp
  <2>1. stage[c] = "committing"
    BY <1>3 DEF SetBotStatusCommit
  <2>2. outcome[c] \in {"reachable", "unreachable"}
    BY <2>1, <1>0 DEF Marks
  <2>3. rows' = [a \in Accounts |->
                   [b \in Bots |-> IF b = bot[c] /\ rows[a][b] # "none"
                                   THEN outcome[c] ELSE rows[a][b]]]
    BY <1>3 DEF SetBotStatusCommit
  <2>4. \A a \in Accounts, b \in Bots :
          rows'[a][b] = IF b = bot[c] /\ rows[a][b] # "none"
                        THEN outcome[c] ELSE rows[a][b]
    BY <2>3
  <2> QED  BY <2>2, <2>4 DEF GivenUp
<1>4. rows' # rows => \E c \in Calls : SetBotsCommit(c) \/ SetBotStatusCommit(c)
  BY DEF Next, CallStep, Lookup, SetBots, Send, Response, ContextDone,
     SetBotStatus, SetBotStatusFails, Register, StopOrStart
<1> QED  BY <1>1, <1>2, <1>3, <1>4

\* A reachable bot is never forgotten by a refetch: only a request that got no
\* response from it takes it out of use.
THEOREM ReachableNotForgottenHolds == Spec => ReachableNotForgotten
<1>1. Inv /\ [Next]_vars => [GivenUp]_vars
  BY StepGivesUp
<1> QED  BY <1>1, Invariance, PTL DEF Spec, ReachableNotForgotten, GivenUp

\* When a request can take a step that works: its session waits for no other, or the
\* lock it waits for is free.
GoesOn(c) ==
  \/ stage[c] \in {"fetching", "sending", "waiting"}
  \/ stage[c] = "storing" /\ Readers = {c}
  \/ stage[c] = "marking" /\ writer = Nil
  \/ stage[c] = "committing" /\ Readers = {}

\* The safety side of CallsReturn: while requests are under way, one of them goes on
\* without a busy timeout to free it; readers that want to write and the writer that
\* waits for readers do not wait for each other in a circle.
NoCircle == (\E c \in Calls : stage[c] # "idle") => \E c \in Calls : GoesOn(c)

\* Sessions never wait for each other in a circle, for any number of requests,
\* accounts and bots: a reader that asks the chain waits for nothing, one that
\* stores is the writer, and a writer waits for readers only.
THEOREM NoCircleHolds == Spec => []NoCircle
<1>1. Inv => NoCircle
  <2> SUFFICES ASSUME Inv, NEW c \in Calls, stage[c] # "idle" PROVE \E d \in Calls : GoesOn(d)
    BY DEF NoCircle
  <2>1. TypeOK /\ OneWriter
    BY DEF Inv
  <2>2. CASE \E d \in Calls : stage[d] = "fetching"
    BY <2>2 DEF GoesOn
  <2>3. CASE writer # Nil /\ ~\E d \in Calls : stage[d] = "fetching"
    <3>1. PICK w \in Calls : w = writer /\ stage[w] \in {"storing", "committing"}
      BY <2>1, <2>3 DEF TypeOK, OneWriter
    <3>2. \A d \in Calls : stage[d] \in {"fetching", "storing"} => d = w /\ stage[w] = "storing"
      BY <2>1, <2>3, <3>1 DEF OneWriter
    <3>3. stage[w] = "storing" => Readers = {w}
      BY <3>2 DEF Readers
    <3>4. stage[w] = "committing" => Readers = {}
      BY <3>2 DEF Readers
    <3> QED BY <3>1, <3>3, <3>4 DEF GoesOn
  <2>4. CASE writer = Nil
    <3>1. stage[c] \in {"fetching", "sending", "waiting", "marking"}
      BY <2>1, <2>4, ResolverAssumption DEF TypeOK, OneWriter, Stages
    <3> QED BY <2>4, <3>1 DEF GoesOn
  <2> QED BY <2>2, <2>3, <2>4
<1> QED BY <1>1, Invariance, PTL
=============================================================================
