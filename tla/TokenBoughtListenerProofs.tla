---------------------- MODULE TokenBoughtListenerProofs ----------------------
(***************************************************************************)
(* Proofs about TokenBoughtListener, for every set of tokens, any          *)
(* reservation times and any number of concurrent timeout handlers.        *)
(***************************************************************************)
EXTENDS TokenBoughtListener, FiniteSetTheorems, SequenceTheorems, TLAPS

(* The inductive invariant.  Locks ties the mutex to the goroutine that    *)
(* holds it; TimerShape says when the timer can be off; StartShape says    *)
(* what the startup check has left in the db; Sales ties events and        *)
(* statuses to purchases.                                                  *)

Locks ==
  /\ \A h \in Handlers : mutex = h <=> handler[h] = "resetting"
  /\ mutex = "event" <=> (ev # Nil /\ ev.stage = "resetting")

TimerShape ==
  /\ NoDeadTimer
  /\ timer = "armed" => timerSub # Nil
  /\ mutex # Nil => timerSub = Nil /\ timer = "idle"
  /\ proc = "up" <=> timer # "nil"
  /\ proc # "up" => Busy = {} /\ timerSub = Nil /\ mutex = Nil
  /\ proc \in {"down", "checking"} => ev = Nil

StartShape ==
  proc \in {"checking", "watching"} =>
    /\ proc = "watching" => toCheck = {}
    /\ toCheck \subseteq loaded
    /\ \A t \in db : t \in toCheck \/ (t \in loaded /\ startStatus[t] = "reserved")

Sales ==
  /\ \A i \in 1..Len(log) : status[log[i].token] = "bought" /\ mint[log[i].token] = "done"
  /\ ev # Nil => status[ev.token] = "bought" /\ mint[ev.token] = "done"
  /\ \A t \in Tokens :
       /\ startStatus[t] = "bought" => status[t] = "bought"
       /\ "bought" \in notified[t] => status[t] = "bought"
       /\ mint[t] = "none" => status[t] = "none"

Resolved == ProcessedIsResolved /\ RowStays

Inv ==
  /\ TypeOK
  /\ Locks
  /\ TimerShape
  /\ StartShape
  /\ SubscriptionsCovered
  /\ Sales
  /\ Resolved

\* The invariant holds initially.
LEMMA InitInv == Init => Inv
BY ListenerAssumption, NilIsNoEvent
   DEF Init, Inv, TypeOK, Locks, TimerShape, NoDeadTimer, Busy, StartShape,
       SubscriptionsCovered, Sales, Resolved, ProcessedIsResolved, RowStays, Status,
       HandlerStages, EventStages, MintStages, Events, Blocks

\* The position from which a watch delivers is a position.
LEMMA FirstFromType ==
  ASSUME TypeOK, NEW b \in Int
  PROVE  FirstFrom(b) \in Nat \ {0}
<1> DEFINE before == {i \in 1..Len(log) : log[i].block < b}
<1>1. Len(log) \in Nat
  BY DEF TypeOK
<1>2. IsFiniteSet(1..Len(log))
  BY <1>1, FS_Interval
<1>3. IsFiniteSet(before)
  BY <1>2, FS_Subset
<1>4. Cardinality(before) \in Nat
  BY <1>3, FS_CardinalityType
<1> QED  BY <1>4 DEF FirstFrom

\* The entries of the chain's log are events.
LEMMA LogEntries ==
  ASSUME TypeOK, NEW i \in 1..Len(log)
  PROVE  log[i] \in [token : Tokens, block : Blocks] /\ log[i].token \in Tokens
<1>1. log[i] \in [token : Tokens, block : Blocks]
  BY ElementOfSeq DEF TypeOK
<1> QED  BY <1>1

\* A handler moves on without touching what its event says.
LEMMA EventMoves ==
  ASSUME ev \in Events, NEW s \in EventStages, EventGoesTo(s)
  PROVE  /\ ev' \in Events /\ ev' # Nil
         /\ ev'.stage = s /\ ev'.token = ev.token /\ ev'.result = ev.result
BY NilIsNoEvent DEF Events, EventGoesTo

\* A handler ends with the block it reports.
LEMMA EventFinishes ==
  ASSUME ev \in Events, NEW r \in Blocks, EventEnds(r)
  PROVE  /\ ev' \in Events /\ ev' # Nil
         /\ ev'.stage = "finished" /\ ev'.token = ev.token /\ ev'.result = r
BY NilIsNoEvent DEF Events, EventEnds, EventStages

\* A mint flow that has ended is not undone when the process ends.
LEMMA SalesSurvive ==
  ASSUME TypeOK, Sales, ProcessEnds, UNCHANGED <<status, log>>,
         \A t \in Tokens : "bought" \in notified'[t] => status[t] = "bought"
  PROVE  Sales'
<1>1. \A t \in Tokens : mint'[t] = IF mint[t] \in {"minted", "inserted", "added"}
                                    THEN "lost" ELSE mint[t]
  BY DEF ProcessEnds
<1>2. \A i \in 1..Len(log) : log[i].token \in Tokens
  BY LogEntries
<1>3. \A i \in 1..Len(log) : status[log[i].token] = "bought" /\ mint'[log[i].token] = "done"
  BY <1>1, <1>2 DEF Sales
<1>4. ev' = Nil /\ \A t \in Tokens : startStatus'[t] # "bought"
  BY DEF ProcessEnds
<1>5. \A t \in Tokens : mint'[t] = "none" => status[t] = "none"
  BY <1>1 DEF Sales
<1> QED  BY <1>3, <1>4, <1>5 DEF Sales

\* Time passes.
LEMMA TickInv ==
  ASSUME Inv, Tick
  PROVE  Inv'
<1> USE DEF chainVars, tables, dbVars, startVars, timerVars, eventVars
<1>0. /\ TypeOK /\ Locks /\ TimerShape /\ StartShape /\ SubscriptionsCovered
   /\ Sales /\ Resolved
  BY DEF Inv
<1>u. UNCHANGED <<status, log, db, cancellations, unsaved, refused, proc, loaded, toCheck,
   startStatus, timer, timerSub, mutex, handler, ev, nextEvent, blockNumber,
   mint, notified, failures, kills>>
  BY DEF Tick
<1>1. TypeOK'
  <2>1. now' \in 0..MaxTime
    BY <1>0, ListenerAssumption DEF TypeOK, Tick
  <2> QED  BY <1>0, <1>u, <2>1 DEF TypeOK
<1>2. Locks'
  BY <1>0, <1>u DEF Locks
<1>3. TimerShape'
  BY <1>0, <1>u DEF TimerShape, NoDeadTimer, Busy
<1>4. StartShape'
  BY <1>0, <1>u DEF StartShape
<1>5. SubscriptionsCovered'
  BY <1>0, <1>u DEF SubscriptionsCovered, Covered, Busy
<1>6. Sales'
  BY <1>0, <1>u DEF Sales
<1>7. Resolved'
  BY <1>0, <1>u DEF Resolved, ProcessedIsResolved, RowStays
<1> QED  BY <1>1, <1>2, <1>3, <1>4, <1>5, <1>6, <1>7 DEF Inv

\* A purchase.
LEMMA BuyInv ==
  ASSUME Inv, NEW t \in Tokens, Buy(t)
  PROVE  Inv'
<1> USE DEF chainVars, tables, dbVars, startVars, timerVars, eventVars
<1>0. /\ TypeOK /\ Locks /\ TimerShape /\ StartShape /\ SubscriptionsCovered
   /\ Sales /\ Resolved
  BY DEF Inv
<1>u. UNCHANGED <<now, db, cancellations, unsaved, refused, proc, loaded, toCheck, startStatus,
   timer, timerSub, mutex, handler, ev, nextEvent, blockNumber, mint,
   notified, failures, kills>>
  BY DEF Buy, LatestBlock
<1>1. TypeOK'
  <2>1. status' \in [Tokens -> Status]
    BY <1>0, ListenerAssumption DEF TypeOK, Status, Buy, LatestBlock
  <2>2. log' \in Seq([token : Tokens, block : Blocks])
    BY <1>0, ListenerAssumption DEF TypeOK, Blocks, Buy, LatestBlock
  <2> QED  BY <1>0, <1>u, <2>1, <2>2 DEF TypeOK
<1>2. Locks'
  BY <1>0, <1>u DEF Locks
<1>3. TimerShape'
  BY <1>0, <1>u DEF TimerShape, NoDeadTimer, Busy
<1>4. StartShape'
  BY <1>0, <1>u DEF StartShape
<1>5. SubscriptionsCovered'
  BY <1>0, <1>u DEF SubscriptionsCovered, Covered, Busy
<1>6. Sales'
  BY <1>0, <1>u, <1>1, ListenerAssumption, NilIsNoEvent DEF Sales, TypeOK,
     Buy, LatestBlock
<1>7. Resolved'
  BY <1>0, <1>u DEF Resolved, ProcessedIsResolved, RowStays
<1> QED  BY <1>1, <1>2, <1>3, <1>4, <1>5, <1>6, <1>7 DEF Inv

\* A mint.
LEMMA MintInv ==
  ASSUME Inv, NEW t \in Tokens, Mint(t)
  PROVE  Inv'
<1> USE DEF chainVars, tables, dbVars, startVars, timerVars, eventVars
<1>0. /\ TypeOK /\ Locks /\ TimerShape /\ StartShape /\ SubscriptionsCovered
   /\ Sales /\ Resolved
  BY DEF Inv
<1>u. UNCHANGED <<now, log, db, cancellations, unsaved, refused, proc, loaded, toCheck,
   startStatus, timer, timerSub, mutex, handler, ev, nextEvent, blockNumber,
   notified, failures, kills>>
  BY DEF Mint
<1>1. TypeOK'
  <2>1. mint' \in [Tokens -> MintStages]
    BY <1>0, ListenerAssumption DEF TypeOK, MintStages, Mint
  <2>2. status' \in [Tokens -> Status]
    BY <1>0, ListenerAssumption DEF TypeOK, Status, Mint
  <2> QED  BY <1>0, <1>u, <2>1, <2>2 DEF TypeOK
<1>2. Locks'
  BY <1>0, <1>u DEF Locks
<1>3. TimerShape'
  BY <1>0, <1>u DEF TimerShape, NoDeadTimer, Busy
<1>4. StartShape'
  BY <1>0, <1>u DEF StartShape
<1>5. SubscriptionsCovered'
  BY <1>0, <1>u, <1>1, ListenerAssumption, NilIsNoEvent DEF
     SubscriptionsCovered, Covered, Busy, TypeOK, Locks, TimerShape,
     StartShape, Mint
<1>6. Sales'
  BY <1>0, <1>u, <1>1, ListenerAssumption, NilIsNoEvent DEF Sales, TypeOK,
     Mint
<1>7. Resolved'
  BY <1>0, <1>u DEF Resolved, ProcessedIsResolved, RowStays
<1> QED  BY <1>1, <1>2, <1>3, <1>4, <1>5, <1>6, <1>7 DEF Inv

\* A row is inserted, and is not there before the commit.
LEMMA AddTokenBoughtSubscriptionInv ==
  ASSUME Inv, NEW t \in Tokens, AddTokenBoughtSubscription(t)
  PROVE  Inv'
<1> USE DEF chainVars, tables, dbVars, startVars, timerVars, eventVars
<1>0. /\ TypeOK /\ Locks /\ TimerShape /\ StartShape /\ SubscriptionsCovered
   /\ Sales /\ Resolved
  BY DEF Inv
<1>u. UNCHANGED <<now, status, log, db, cancellations, refused, proc, loaded,
   toCheck, startStatus, timer, timerSub, mutex, handler, ev, nextEvent,
   blockNumber, notified, kills>>
  BY DEF AddTokenBoughtSubscription
<1>m. /\ mint[t] = "minted"
      /\ mint' = [mint EXCEPT ![t] = "inserted"] \/ mint' = [mint EXCEPT ![t] = "done"]
  BY DEF AddTokenBoughtSubscription, MintGoesTo
<1>n. mint'[t] \in {"inserted", "done"} /\ \A u \in Tokens : u # t => mint'[u] = mint[u]
  BY <1>m, <1>0 DEF TypeOK
<1>1. TypeOK'
  <2>1. mint' \in [Tokens -> MintStages]
    BY <1>0, <1>m DEF TypeOK, MintStages
  <2>2. failures' \in 0..MaxFailures
    BY <1>0, ListenerAssumption DEF TypeOK, AddTokenBoughtSubscription, CallFails, CallWorks
  <2>3. unsaved' \in Tokens \cup {Nil, "other"}
    BY <1>0 DEF TypeOK, AddTokenBoughtSubscription
  <2> QED  BY <1>0, <1>u, <2>1, <2>2, <2>3 DEF TypeOK
<1>2. Locks'
  BY <1>0, <1>u DEF Locks
<1>3. TimerShape'
  BY <1>0, <1>u DEF TimerShape, NoDeadTimer, Busy
<1>4. StartShape'
  BY <1>0, <1>u DEF StartShape
<1>5. SubscriptionsCovered'
  <2>1. failures' = 0 => failures = 0
    BY <1>0 DEF AddTokenBoughtSubscription, CallFails, CallWorks, TypeOK
  <2> QED  BY <2>1, <1>0, <1>u, <1>m, <1>n DEF SubscriptionsCovered, Covered, Busy, TypeOK
<1>6. Sales'
  <2>1. \A i \in 1..Len(log) : log[i].token \in Tokens
    BY <1>0, LogEntries
  <2>2. ev # Nil => ev.token \in Tokens
    BY <1>0 DEF TypeOK, Events
  <2> QED  BY <2>1, <2>2, <1>0, <1>u, <1>m, <1>n DEF Sales
<1>7. Resolved'
  BY <1>0, <1>u DEF Resolved, ProcessedIsResolved, RowStays
<1> QED  BY <1>1, <1>2, <1>3, <1>4, <1>5, <1>6, <1>7 DEF Inv

\* A row is stored; its mint flow covers it.
LEMMA CommitAddedInv ==
  ASSUME Inv, NEW t \in Tokens, CommitAdded(t)
  PROVE  Inv'
<1> USE DEF chainVars, tables, dbVars, startVars, timerVars, eventVars
<1>0. /\ TypeOK /\ Locks /\ TimerShape /\ StartShape /\ SubscriptionsCovered
   /\ Sales /\ Resolved
  BY DEF Inv
<1>u. UNCHANGED <<now, status, log, cancellations, refused, proc, loaded, toCheck,
   startStatus, timer, timerSub, mutex, handler, ev, nextEvent, blockNumber,
   notified, kills>>
  BY DEF CommitAdded, CallFails, CallWorks, AddRow, NoReader,
       MintGoesTo
<1>1. TypeOK'
  <2>1. db' \in SUBSET Tokens
    BY <1>0, ListenerAssumption DEF TypeOK, CommitAdded,
       CallFails, CallWorks, AddRow, NoReader,
       MintGoesTo
  <2>2. mint' \in [Tokens -> MintStages]
    BY <1>0, ListenerAssumption DEF TypeOK, MintStages, CommitAdded,
       CallFails, CallWorks, AddRow, NoReader,
       MintGoesTo
  <2>3. failures' \in 0..MaxFailures
    BY <1>0, ListenerAssumption DEF TypeOK, CommitAdded,
       CallFails, CallWorks, AddRow, NoReader,
       MintGoesTo
  <2>4. unsaved' \in Tokens \cup {Nil, "other"}
    BY DEF CommitAdded
  <2> QED  BY <1>0, <1>u, <2>1, <2>2, <2>3, <2>4 DEF TypeOK
<1>2. Locks'
  BY <1>0, <1>u DEF Locks
<1>3. TimerShape'
  BY <1>0, <1>u DEF TimerShape, NoDeadTimer, Busy
<1>4. StartShape'
  BY <1>0, <1>u, <1>1, ListenerAssumption, NilIsNoEvent DEF StartShape,
     TypeOK, CommitAdded, CallFails, CallWorks, AddRow, NoReader,
       MintGoesTo
<1>5. SubscriptionsCovered'
  <2> SUFFICES ASSUME proc = "up", failures' = 0, NEW u \in db'
               PROVE  Covered(u)' \/ Busy' # {} \/ mutex' = "event" \/ mint'[u] = "added"
    BY <1>u DEF SubscriptionsCovered
  <2>1. failures = 0 /\ db' = db \cup {t} /\ mint' = [mint EXCEPT ![t] = "added"]
    BY <1>0, ListenerAssumption DEF CommitAdded, AddRow, CallFails, CallWorks,
         MintGoesTo, TypeOK
  <2>2. CASE u = t
    BY <2>1, <2>2, <1>0 DEF TypeOK
  <2>3. CASE u # t
    BY <2>1, <2>3, <1>0, <1>u DEF TypeOK, SubscriptionsCovered, Covered, Busy
  <2> QED  BY <2>2, <2>3
<1>6. Sales'
  <2>1. mint[t] = "inserted" /\ (mint' = [mint EXCEPT ![t] = "added"] \/ mint' = [mint EXCEPT ![t] = "done"])
    BY DEF CommitAdded, MintGoesTo
  <2>2. \A u \in Tokens : u # t => mint'[u] = mint[u]
    BY <2>1, <1>0 DEF TypeOK
  <2>3. mint'[t] # "none"
    BY <2>1, <1>0 DEF TypeOK
  <2>4. \A i \in 1..Len(log) : log[i].token \in Tokens
    BY <1>0, LogEntries
  <2>5. ev # Nil => ev.token \in Tokens
    BY <1>0 DEF TypeOK, Events
  <2> QED  BY <2>1, <2>2, <2>3, <2>4, <2>5, <1>0, <1>u DEF Sales
<1>7. Resolved'
  BY <1>0, <1>u, <1>1, ListenerAssumption, NilIsNoEvent DEF Resolved,
     ProcessedIsResolved, RowStays, TypeOK, Sales, TimerShape,
     CommitAdded, CallFails, CallWorks, AddRow, NoReader,
       MintGoesTo
<1> QED  BY <1>1, <1>2, <1>3, <1>4, <1>5, <1>6, <1>7 DEF Inv

\* The mint flow resets the timer: either it arms the timer for its own
\* subscription, which is the earlier one, or the timer it leaves alone is
\* armed for no later, or has fired and its handler is running.
LEMMA SubscribeTokenBoughtEventInv ==
  ASSUME Inv, NEW t \in Tokens, SubscribeTokenBoughtEvent(t)
  PROVE  Inv'
<1> USE DEF chainVars, tables, dbVars, startVars, timerVars, eventVars
<1>0. /\ TypeOK /\ Locks /\ TimerShape /\ StartShape /\ SubscriptionsCovered
   /\ Sales /\ Resolved
  BY DEF Inv
<1>u. UNCHANGED <<now, status, log, db, cancellations, unsaved, refused, proc, loaded, toCheck,
   startStatus, mutex, handler, ev, nextEvent, blockNumber, notified,
   failures, kills>>
  BY DEF SubscribeTokenBoughtEvent, resetTokenBoughtTimerIfAfter, Arm, MintGoesTo
<1>1. TypeOK'
  <2>1. timer' \in {"nil", "idle", "armed"}
    BY <1>0, ListenerAssumption DEF TypeOK, SubscribeTokenBoughtEvent,
       resetTokenBoughtTimerIfAfter, Arm, MintGoesTo
  <2>2. timerSub' \in Tokens \cup {Nil}
    BY <1>0, ListenerAssumption DEF TypeOK, SubscribeTokenBoughtEvent,
       resetTokenBoughtTimerIfAfter, Arm, MintGoesTo
  <2>3. mint' \in [Tokens -> MintStages]
    BY <1>0, ListenerAssumption DEF TypeOK, MintStages, SubscribeTokenBoughtEvent,
       resetTokenBoughtTimerIfAfter, Arm, MintGoesTo
  <2> QED  BY <1>0, <1>u, <2>1, <2>2, <2>3 DEF TypeOK
<1>2. Locks'
  BY <1>0, <1>u DEF Locks
<1>3. TimerShape'
  BY <1>0, <1>u, <1>1, ListenerAssumption, NilIsNoEvent DEF TimerShape,
     NoDeadTimer, Busy, TypeOK, Locks, SubscribeTokenBoughtEvent,
     resetTokenBoughtTimerIfAfter, Arm
<1>4. StartShape'
  BY <1>0, <1>u DEF StartShape
<1>5. SubscriptionsCovered'
  <2> SUFFICES ASSUME proc = "up", failures = 0, NEW u \in db
               PROVE  Covered(u)' \/ Busy # {} \/ mutex = "event" \/ mint'[u] = "added"
    BY <1>u DEF SubscriptionsCovered, Busy
  <2>1. Covered(u) \/ Busy # {} \/ mutex = "event" \/ mint[u] = "added"
    BY <1>0 DEF SubscriptionsCovered
  <2>2. mint' = [mint EXCEPT ![t] = "done"] /\ u \in Tokens
    BY <1>0 DEF SubscribeTokenBoughtEvent, MintGoesTo, TypeOK
  <2>3. \A v \in Tokens : Timeout(v) \in Int
    BY ListenerAssumption DEF Timeout
  <2>4. CASE timer' = "armed" /\ timerSub' = t /\ (timerSub = Nil \/ ~(Timeout(timerSub) <= Timeout(t)))
    <3>1. timerSub # Nil => timerSub \in Tokens
      BY <1>0 DEF TypeOK
    <3>2. CASE u = t
      BY <3>2, <2>3, <2>4 DEF Covered
    <3>3. CASE Covered(u)
      <4>1. timerSub # Nil
        BY <3>3, <1>0 DEF Covered, TimerShape
      <4>2. Timeout(timerSub) <= Timeout(u) /\ ~(Timeout(timerSub) <= Timeout(t))
        BY <4>1, <3>3, <2>4 DEF Covered
      <4> QED  BY <4>1, <4>2, <3>1, <2>2, <2>3, <2>4 DEF Covered
    <3>4. CASE u # t /\ mint[u] = "added"
      BY <3>4, <2>2, <1>0 DEF TypeOK
    <3> QED  BY <3>2, <3>3, <3>4, <2>1
  <2>5. CASE UNCHANGED <<timer, timerSub>> /\ timerSub # Nil /\ Timeout(timerSub) <= Timeout(t)
    <3>1. CASE timer # "armed"
      BY <3>1, <2>5, <1>0 DEF TimerShape, NoDeadTimer
    <3>2. CASE timer = "armed" /\ u = t
      BY <3>2, <2>5 DEF Covered
    <3>3. CASE timer = "armed" /\ u # t
      BY <3>3, <2>1, <2>2, <2>5, <1>0 DEF TypeOK, Covered
    <3> QED  BY <3>1, <3>2, <3>3
  <2>6. \/ timer' = "armed" /\ timerSub' = t /\ (timerSub = Nil \/ ~(Timeout(timerSub) <= Timeout(t)))
        \/ UNCHANGED <<timer, timerSub>> /\ timerSub # Nil /\ Timeout(timerSub) <= Timeout(t)
    BY DEF SubscribeTokenBoughtEvent, resetTokenBoughtTimerIfAfter, Arm, MintGoesTo
  <2> QED  BY <2>4, <2>5, <2>6
<1>6. Sales'
  <2>1. mint[t] = "added" /\ mint' = [mint EXCEPT ![t] = "done"]
    BY DEF SubscribeTokenBoughtEvent, MintGoesTo
  <2>2. mint'[t] = "done" /\ \A u \in Tokens : u # t => mint'[u] = mint[u]
    BY <2>1, <1>0 DEF TypeOK
  <2>3. \A i \in 1..Len(log) : log[i].token \in Tokens
    BY <1>0, LogEntries
  <2>4. ev # Nil => ev.token \in Tokens
    BY <1>0 DEF TypeOK, Events
  <2> QED  BY <2>2, <2>3, <2>4, <1>0, <1>u DEF Sales
<1>7. Resolved'
  BY <1>0, <1>u DEF Resolved, ProcessedIsResolved, RowStays
<1> QED  BY <1>1, <1>2, <1>3, <1>4, <1>5, <1>6, <1>7 DEF Inv

\* An event is delivered.
LEMMA DeliverInv ==
  ASSUME Inv, Deliver
  PROVE  Inv'
<1> USE DEF chainVars, tables, dbVars, startVars, timerVars, eventVars
<1>0. /\ TypeOK /\ Locks /\ TimerShape /\ StartShape /\ SubscriptionsCovered
   /\ Sales /\ Resolved
  BY DEF Inv
<1>u. UNCHANGED <<now, status, log, db, cancellations, unsaved, refused, proc, loaded, toCheck,
   startStatus, timer, timerSub, mutex, handler, blockNumber, mint, notified,
   failures, kills>>
  BY DEF Deliver
<1>p. /\ ev' \in Events /\ ev' # Nil /\ ev'.stage = "lookup" /\ ev'.result = 0
      /\ nextEvent \in 1..Len(log) /\ ev'.token = log[nextEvent].token
  <2>1. nextEvent \in 1..Len(log)
    BY <1>0 DEF TypeOK, Deliver
  <2>2. log[nextEvent] \in [token : Tokens, block : Blocks]
    BY <2>1, <1>0, LogEntries
  <2>3. 0 \in Blocks /\ "lookup" \in EventStages
    BY ListenerAssumption DEF Blocks, EventStages
  <2> QED  BY <2>1, <2>2, <2>3, NilIsNoEvent DEF Deliver, Events
<1>1. TypeOK'
  <2>1. ev' \in Events \cup {Nil}
    BY <1>p
  <2>2. nextEvent' \in Nat \ {0}
    BY <1>0, <1>p, ListenerAssumption, FirstFromType DEF TypeOK, Deliver
  <2> QED  BY <1>0, <1>u, <2>1, <2>2 DEF TypeOK
<1>2. Locks'
  <2>1. ev = Nil
    BY DEF Deliver
  <2> QED  BY <2>1, <1>0, <1>u, <1>p DEF Locks
<1>3. TimerShape'
  BY <1>0, <1>u, <1>p, <1>1, ListenerAssumption, NilIsNoEvent DEF
     TimerShape, NoDeadTimer, Busy, TypeOK, Locks, Deliver
<1>4. StartShape'
  BY <1>0, <1>u DEF StartShape
<1>5. SubscriptionsCovered'
  BY <1>0, <1>u DEF SubscriptionsCovered, Covered, Busy
<1>6. Sales'
  BY <1>0, <1>u, <1>p DEF Sales
<1>7. Resolved'
  BY <1>p DEF Resolved, ProcessedIsResolved, RowStays
<1> QED  BY <1>1, <1>2, <1>3, <1>4, <1>5, <1>6, <1>7 DEF Inv

\* The watch is renewed.
LEMMA ResubscribeInv ==
  ASSUME Inv, Resubscribe
  PROVE  Inv'
<1> USE DEF chainVars, tables, dbVars, startVars, timerVars, eventVars
<1>0. /\ TypeOK /\ Locks /\ TimerShape /\ StartShape /\ SubscriptionsCovered
   /\ Sales /\ Resolved
  BY DEF Inv
<1>u. UNCHANGED <<now, status, log, db, cancellations, unsaved, refused, proc, loaded, toCheck,
   startStatus, timer, timerSub, mutex, handler, ev, blockNumber, mint,
   notified, kills>>
  BY DEF Resubscribe, CallFails, CallWorks
<1>1. TypeOK'
  <2>1. nextEvent' \in Nat \ {0}
    <3>1. blockNumber \in Int
      BY <1>0, ListenerAssumption DEF TypeOK, Blocks
    <3>2. nextEvent' = FirstFrom(blockNumber)
      BY DEF Resubscribe
    <3> QED  BY <3>1, <3>2, <1>0, FirstFromType
  <2>2. failures' \in 0..MaxFailures
    BY <1>0, ListenerAssumption DEF TypeOK, Resubscribe, CallFails,
       CallWorks
  <2> QED  BY <1>0, <1>u, <2>1, <2>2 DEF TypeOK
<1>2. Locks'
  BY <1>0, <1>u DEF Locks
<1>3. TimerShape'
  BY <1>0, <1>u DEF TimerShape, NoDeadTimer, Busy
<1>4. StartShape'
  BY <1>0, <1>u DEF StartShape
<1>5. SubscriptionsCovered'
  BY <1>0, <1>u, <1>1, ListenerAssumption, NilIsNoEvent DEF
     SubscriptionsCovered, Covered, Busy, TypeOK, Locks, TimerShape,
     StartShape, Resubscribe, CallFails, CallWorks
<1>6. Sales'
  BY <1>0, <1>u DEF Sales
<1>7. Resolved'
  BY <1>0, <1>u DEF Resolved, ProcessedIsResolved, RowStays
<1> QED  BY <1>1, <1>2, <1>3, <1>4, <1>5, <1>6, <1>7 DEF Inv

\* The event handler reads the row.
LEMMA EventLookupInv ==
  ASSUME Inv, EventLookup
  PROVE  Inv'
<1> USE DEF chainVars, tables, dbVars, startVars, timerVars, eventVars
<1>0. /\ TypeOK /\ Locks /\ TimerShape /\ StartShape /\ SubscriptionsCovered
   /\ Sales /\ Resolved
  BY DEF Inv
<1>u. UNCHANGED <<now, status, log, db, cancellations, unsaved, refused, proc, loaded, toCheck,
   startStatus, timer, timerSub, mutex, handler, nextEvent, blockNumber, mint,
   notified, kills>>
  BY DEF EventLookup, EventGoesTo, EventEnds, CallFails, CallWorks, HasRow
<1>p. /\ ev \in Events /\ ev # Nil /\ ev' \in Events /\ ev' # Nil /\ ev'.token = ev.token
      /\ ev.token \in Tokens
      /\ ev'.stage \in {"notify", "finished"} /\ ev.stage = "lookup"
      /\ ev'.stage = "notify" => ev.token \in db
      /\ ev'.result = ev.result \/ ev'.result = 0 \/ ev.token \notin db
  <2>1. ev \in Events /\ ev # Nil
    BY <1>0 DEF TypeOK, EventLookup
  <2>2. ev.token \in Tokens /\ ev.block \in Blocks /\ 0 \in Blocks
    BY <2>1, ListenerAssumption DEF Events, Blocks
  <2>3. {"notify", "commit", "finished", "resetting", "dead"} \subseteq EventStages
    BY DEF EventStages
  <2> QED
    BY <2>1, <2>2, <2>3, EventMoves, EventFinishes DEF EventLookup, HasRow
<1>1. TypeOK'
  <2>1. ev' \in Events \cup {Nil}
    BY <1>p
  <2>2. failures' \in 0..MaxFailures
    BY <1>0, <1>p, ListenerAssumption DEF TypeOK, EventLookup,
       EventGoesTo, EventEnds, CallFails, CallWorks, HasRow
  <2> QED  BY <1>0, <1>u, <2>1, <2>2 DEF TypeOK
<1>2. Locks'
  BY <1>0, <1>u, <1>p DEF Locks
<1>3. TimerShape'
  BY <1>0, <1>u, <1>p, <1>1, ListenerAssumption, NilIsNoEvent DEF
     TimerShape, NoDeadTimer, Busy, TypeOK, Locks, EventLookup, EventGoesTo,
     EventEnds, CallFails, CallWorks, HasRow
<1>4. StartShape'
  BY <1>0, <1>u DEF StartShape
<1>5. SubscriptionsCovered'
  BY <1>0, <1>u, <1>p, <1>1, ListenerAssumption, NilIsNoEvent DEF
     SubscriptionsCovered, Covered, Busy, TypeOK, Locks, TimerShape,
     StartShape, EventLookup, EventGoesTo, EventEnds, CallFails, CallWorks,
     HasRow
<1>6. Sales'
  <2>1. ev # Nil
    BY DEF EventLookup
  <2> QED  BY <2>1, <1>0, <1>u, <1>p DEF Sales
<1>7. Resolved'
  BY <1>0, <1>u, <1>p DEF Resolved, ProcessedIsResolved, RowStays
<1> QED  BY <1>1, <1>2, <1>3, <1>4, <1>5, <1>6, <1>7 DEF Inv

\* It notifies the partner plugin.
LEMMA EventNotifyInv ==
  ASSUME Inv, EventNotify
  PROVE  Inv'
<1> USE DEF chainVars, tables, dbVars, startVars, timerVars, eventVars
<1>0. /\ TypeOK /\ Locks /\ TimerShape /\ StartShape /\ SubscriptionsCovered
   /\ Sales /\ Resolved
  BY DEF Inv
<1>u. UNCHANGED <<now, status, log, db, cancellations, unsaved, refused, proc, loaded, toCheck,
   startStatus, timer, timerSub, mutex, handler, nextEvent, blockNumber, mint,
   kills>>
  BY DEF EventNotify, EventGoesTo, EventEnds, CallFails, CallWorks
<1>p. /\ ev \in Events /\ ev # Nil /\ ev' \in Events /\ ev' # Nil /\ ev'.token = ev.token
      /\ ev.token \in Tokens
      /\ ev'.stage \in {"commit", "finished"} /\ ev.stage = "notify"
      /\ ev'.result = ev.result \/ ev'.result = 0
  <2>1. ev \in Events /\ ev # Nil
    BY <1>0 DEF TypeOK, EventNotify
  <2>2. ev.token \in Tokens /\ ev.block \in Blocks /\ 0 \in Blocks
    BY <2>1, ListenerAssumption DEF Events, Blocks
  <2>3. {"notify", "commit", "finished", "resetting", "dead"} \subseteq EventStages
    BY DEF EventStages
  <2> QED
    BY <2>1, <2>2, <2>3, EventMoves, EventFinishes DEF EventNotify
<1>1. TypeOK'
  <2>1. ev' \in Events \cup {Nil}
    BY <1>p
  <2>2. notified' \in [Tokens -> SUBSET {"bought", "expired"}]
    <3>1. notified' = notified \/ notified' = [notified EXCEPT ![ev.token] = @ \cup {"bought"}]
      BY DEF EventNotify
    <3>2. notified[ev.token] \cup {"bought"} \in SUBSET {"bought", "expired"}
      BY <1>0, <1>p DEF TypeOK
    <3> QED  BY <3>1, <3>2, <1>0, <1>p DEF TypeOK
  <2>3. failures' \in 0..MaxFailures
    BY <1>0, <1>p, ListenerAssumption DEF TypeOK, EventNotify,
       EventGoesTo, EventEnds, CallFails, CallWorks
  <2> QED  BY <1>0, <1>u, <2>1, <2>2, <2>3 DEF TypeOK
<1>2. Locks'
  BY <1>0, <1>u, <1>p DEF Locks
<1>3. TimerShape'
  BY <1>0, <1>u, <1>p, <1>1, ListenerAssumption, NilIsNoEvent DEF
     TimerShape, NoDeadTimer, Busy, TypeOK, Locks, EventNotify, EventGoesTo,
     EventEnds, CallFails, CallWorks
<1>4. StartShape'
  BY <1>0, <1>u DEF StartShape
<1>5. SubscriptionsCovered'
  BY <1>0, <1>u, <1>p, <1>1, ListenerAssumption, NilIsNoEvent DEF
     SubscriptionsCovered, Covered, Busy, TypeOK, Locks, TimerShape,
     StartShape, EventNotify, EventGoesTo, EventEnds, CallFails, CallWorks
<1>6. Sales'
  <2>1. ev # Nil /\ status[ev.token] = "bought" /\ mint[ev.token] = "done"
    BY <1>0 DEF EventNotify, Sales
  <2>2. \A t \in Tokens : t # ev.token => notified'[t] = notified[t]
    BY <1>0, <1>p DEF TypeOK, EventNotify
  <2>3. \A t \in Tokens : "bought" \in notified'[t] => status[t] = "bought"
    BY <2>1, <2>2, <1>0 DEF Sales
  <2> QED  BY <2>1, <2>3, <1>0, <1>u, <1>p DEF Sales
<1>7. Resolved'
  BY <1>0, <1>u, <1>p DEF Resolved, ProcessedIsResolved, RowStays
<1> QED  BY <1>1, <1>2, <1>3, <1>4, <1>5, <1>6, <1>7 DEF Inv

\* It removes the row.
LEMMA EventCommitInv ==
  ASSUME Inv, EventCommit
  PROVE  Inv'
<1> USE DEF chainVars, tables, dbVars, startVars, timerVars, eventVars
<1>0. /\ TypeOK /\ Locks /\ TimerShape /\ StartShape /\ SubscriptionsCovered
   /\ Sales /\ Resolved
  BY DEF Inv
<1>u. UNCHANGED <<now, status, log, unsaved, proc, loaded, toCheck, startStatus, timer,
   timerSub, mutex, handler, nextEvent, blockNumber, mint, notified, kills>>
  BY DEF EventCommit, EventEnds, CallFails, CallWorks, RemoveRow
<1>p. /\ ev \in Events /\ ev # Nil /\ ev' \in Events /\ ev' # Nil /\ ev'.token = ev.token
      /\ ev.token \in Tokens
      /\ ev'.stage = "finished" /\ ev.stage = "commit"
      /\ ev'.result = 0 \/ db' = db \ {ev.token}
  <2>1. ev \in Events /\ ev # Nil
    BY <1>0 DEF TypeOK, EventCommit
  <2>2. ev.token \in Tokens /\ ev.block \in Blocks /\ 0 \in Blocks
    BY <2>1, ListenerAssumption DEF Events, Blocks
  <2>3. {"notify", "commit", "finished", "resetting", "dead"} \subseteq EventStages
    BY DEF EventStages
  <2> QED
    BY <2>1, <2>2, <2>3, EventMoves, EventFinishes DEF EventCommit, RemoveRow
<1>1. TypeOK'
  <2>1. db' \in SUBSET Tokens
    BY <1>0, <1>p, ListenerAssumption DEF TypeOK, EventCommit, EventEnds,
       CallFails, CallWorks, RemoveRow
  <2>2. cancellations' \in SUBSET Tokens
    BY <1>0, <1>p, ListenerAssumption DEF TypeOK, EventCommit, EventEnds,
       CallFails, CallWorks, RemoveRow
  <2>3. ev' \in Events \cup {Nil}
    BY <1>p
  <2>4. failures' \in 0..MaxFailures
    BY <1>0, <1>p, ListenerAssumption DEF TypeOK, EventCommit, EventEnds,
       CallFails, CallWorks, RemoveRow
  <2>5. refused' \in SUBSET Tokens
    BY <1>0, <1>p DEF TypeOK, EventCommit
  <2> QED  BY <1>0, <1>u, <2>1, <2>2, <2>3, <2>4, <2>5 DEF TypeOK
<1>2. Locks'
  BY <1>0, <1>u, <1>p DEF Locks
<1>3. TimerShape'
  BY <1>0, <1>u, <1>p, <1>1, ListenerAssumption, NilIsNoEvent DEF
     TimerShape, NoDeadTimer, Busy, TypeOK, Locks, EventCommit, EventEnds,
     CallFails, CallWorks, RemoveRow
<1>4. StartShape'
  BY <1>0, <1>u, <1>p, <1>1, ListenerAssumption, NilIsNoEvent DEF
     StartShape, TypeOK, EventCommit, EventEnds, CallFails, CallWorks,
     RemoveRow
<1>5. SubscriptionsCovered'
  BY <1>0, <1>u, <1>p, <1>1, ListenerAssumption, NilIsNoEvent DEF
     SubscriptionsCovered, Covered, Busy, TypeOK, Locks, TimerShape,
     StartShape, EventCommit, EventEnds, CallFails, CallWorks, RemoveRow
<1>6. Sales'
  <2>1. ev # Nil
    BY DEF EventCommit
  <2> QED  BY <2>1, <1>0, <1>u, <1>p DEF Sales
<1>7. Resolved'
  BY <1>p DEF Resolved, ProcessedIsResolved, RowStays
<1> QED  BY <1>1, <1>2, <1>3, <1>4, <1>5, <1>6, <1>7 DEF Inv

\* It takes the mutex, or leaves the timer of another token alone.
LEMMA EventResetInv ==
  ASSUME Inv, EventReset
  PROVE  Inv'
<1> USE DEF chainVars, tables, dbVars, startVars, timerVars, eventVars
<1>0. /\ TypeOK /\ Locks /\ TimerShape /\ StartShape /\ SubscriptionsCovered
   /\ Sales /\ Resolved
  BY DEF Inv
<1>u. UNCHANGED <<now, status, log, db, cancellations, unsaved, refused, proc, loaded, toCheck,
   startStatus, handler, nextEvent, mint, notified, failures, kills>>
  BY DEF EventReset, ResetBegins, EventGoesTo, EventReturns
<1>p. /\ ev \in Events /\ ev # Nil /\ ev.token \in Tokens /\ ev.stage = "finished"
      /\ \/ ev' = Nil /\ UNCHANGED <<timer, timerSub, mutex>>
         \/ /\ ev' \in Events /\ ev' # Nil /\ ev'.token = ev.token
            /\ ev'.stage = "resetting" /\ ev'.result = ev.result
            /\ mutex' = "event" /\ timer' = "idle" /\ timerSub' = Nil
      /\ mutex = Nil
  <2>1. ev \in Events /\ ev # Nil
    BY <1>0 DEF TypeOK, EventReset
  <2>2. ev.token \in Tokens /\ 0 \in Blocks /\ "resetting" \in EventStages
    BY <2>1, ListenerAssumption DEF Events, Blocks, EventStages
  <2> QED
    BY <2>1, <2>2, EventMoves DEF EventReset, EventReturns, ResetBegins
<1>1. TypeOK'
  <2>1. ev' \in Events \cup {Nil}
    BY <1>p
  <2>2. blockNumber' \in Blocks
    BY <1>0, <1>p, ListenerAssumption DEF TypeOK, Blocks, Events,
       EventReset, ResetBegins, EventGoesTo, EventReturns
  <2>3. timer' \in {"nil", "idle", "armed"}
    BY <1>0, <1>p, ListenerAssumption DEF TypeOK, EventReset, ResetBegins,
       EventGoesTo, EventReturns
  <2>4. timerSub' \in Tokens \cup {Nil}
    BY <1>0, <1>p, ListenerAssumption DEF TypeOK, EventReset, ResetBegins,
       EventGoesTo, EventReturns
  <2>5. mutex' \in Handlers \cup {Nil, "event"}
    BY <1>0, <1>p, ListenerAssumption DEF TypeOK, EventReset, ResetBegins,
       EventGoesTo, EventReturns
  <2> QED  BY <1>0, <1>u, <2>1, <2>2, <2>3, <2>4, <2>5 DEF TypeOK
<1>2. Locks'
  BY <1>0, <1>u, <1>p, ListenerAssumption DEF Locks
<1>3. TimerShape'
  BY <1>0, <1>u, <1>p, <1>1, ListenerAssumption, NilIsNoEvent
     DEF TimerShape, NoDeadTimer, Busy, TypeOK, Locks, EventReset
<1>4. StartShape'
  BY <1>0, <1>u DEF StartShape
<1>5. SubscriptionsCovered'
  BY <1>0, <1>u, <1>p
     DEF SubscriptionsCovered, Covered, Busy
<1>6. Sales'
  BY <1>0, <1>u, <1>p DEF Sales
<1>7. Resolved'
  BY <1>0, <1>u, <1>p DEF Resolved, ProcessedIsResolved, RowStays
<1> QED  BY <1>1, <1>2, <1>3, <1>4, <1>5, <1>6, <1>7 DEF Inv

\* It arms the timer for the earliest row.
LEMMA EventResetEndsInv ==
  ASSUME Inv, EventResetEnds
  PROVE  Inv'
<1> USE DEF chainVars, tables, dbVars, startVars, timerVars, eventVars
<1>0. /\ TypeOK /\ Locks /\ TimerShape /\ StartShape /\ SubscriptionsCovered
   /\ Sales /\ Resolved
  BY DEF Inv
<1>u. UNCHANGED <<now, status, log, db, cancellations, unsaved, refused, proc, loaded, toCheck,
   startStatus, handler, nextEvent, mint, notified, kills>>
  BY DEF EventResetEnds, ResetEnds, Arm, Earliest, EventReturns, CallFails,
     CallWorks
<1>1. TypeOK'
  <2>1. ev' \in Events \cup {Nil}
    BY <1>0, ListenerAssumption DEF TypeOK, Events, EventStages, Blocks,
       EventResetEnds, ResetEnds, Arm, Earliest, EventReturns, CallFails,
       CallWorks
  <2>2. blockNumber' \in Blocks
    BY <1>0, ListenerAssumption DEF TypeOK, Blocks, Events,
       EventResetEnds, ResetEnds, Arm, Earliest, EventReturns, CallFails,
       CallWorks
  <2>3. timer' \in {"nil", "idle", "armed"}
    BY <1>0, ListenerAssumption DEF TypeOK, EventResetEnds, ResetEnds,
       Arm, Earliest, EventReturns, CallFails, CallWorks
  <2>4. timerSub' \in Tokens \cup {Nil}
    BY <1>0, ListenerAssumption DEF TypeOK, EventResetEnds, ResetEnds,
       Arm, Earliest, EventReturns, CallFails, CallWorks
  <2>5. mutex' \in Handlers \cup {Nil, "event"}
    BY <1>0, ListenerAssumption DEF TypeOK, EventResetEnds, ResetEnds,
       Arm, Earliest, EventReturns, CallFails, CallWorks
  <2>6. failures' \in 0..MaxFailures
    BY <1>0, ListenerAssumption DEF TypeOK, EventResetEnds, ResetEnds,
       Arm, Earliest, EventReturns, CallFails, CallWorks
  <2> QED  BY <1>0, <1>u, <2>1, <2>2, <2>3, <2>4, <2>5, <2>6 DEF TypeOK
<1>2. Locks'
  BY <1>0, <1>u, <1>1, ListenerAssumption, NilIsNoEvent DEF Locks, TypeOK,
     EventResetEnds, ResetEnds, Arm, Earliest, EventReturns, CallFails,
     CallWorks
<1>3. TimerShape'
  BY <1>0, <1>u, <1>1, ListenerAssumption, NilIsNoEvent DEF TimerShape,
     NoDeadTimer, Busy, TypeOK, Locks, EventResetEnds, ResetEnds, Arm,
     Earliest, EventReturns, CallFails, CallWorks
<1>4. StartShape'
  BY <1>0, <1>u DEF StartShape
<1>5. SubscriptionsCovered'
  BY <1>0, <1>u, <1>1, ListenerAssumption, NilIsNoEvent DEF
     SubscriptionsCovered, Covered, Busy, TypeOK, Locks, TimerShape,
     StartShape, EventResetEnds, ResetEnds, Arm, Earliest, EventReturns,
     CallFails, CallWorks
<1>6. Sales'
  BY <1>0, <1>u, <1>1, ListenerAssumption, NilIsNoEvent DEF Sales, TypeOK,
     EventResetEnds, ResetEnds, Arm, Earliest, EventReturns, CallFails,
     CallWorks
<1>7. Resolved'
  BY <1>0, <1>u, <1>1, ListenerAssumption, NilIsNoEvent DEF Resolved,
     ProcessedIsResolved, RowStays, TypeOK, Sales, TimerShape,
     EventResetEnds, ResetEnds, Arm, Earliest, EventReturns, CallFails,
     CallWorks
<1> QED  BY <1>1, <1>2, <1>3, <1>4, <1>5, <1>6, <1>7 DEF Inv

\* The timer fires; from now on the handler covers every row.
LEMMA FireInv ==
  ASSUME Inv, NEW h \in Handlers, Fire(h)
  PROVE  Inv'
<1> USE DEF chainVars, tables, dbVars, startVars, timerVars, eventVars
<1>0. /\ TypeOK /\ Locks /\ TimerShape /\ StartShape /\ SubscriptionsCovered
   /\ Sales /\ Resolved
  BY DEF Inv
<1>u. UNCHANGED <<now, status, log, db, cancellations, unsaved, refused, proc, loaded, toCheck,
   startStatus, timerSub, mutex, ev, nextEvent, blockNumber, mint, notified,
   failures, kills>>
  BY DEF Fire, Goes
<1>1. TypeOK'
  <2>1. timer' \in {"nil", "idle", "armed"}
    BY <1>0, ListenerAssumption DEF TypeOK, Fire, Goes
  <2>2. handler' \in [Handlers -> HandlerStages]
    BY <1>0, ListenerAssumption DEF TypeOK, HandlerStages, Fire, Goes
  <2> QED  BY <1>0, <1>u, <2>1, <2>2 DEF TypeOK
<1>2. Locks'
  BY <1>0, <1>u, <1>1, ListenerAssumption, NilIsNoEvent DEF Locks, TypeOK,
     Fire, Goes
<1>3. TimerShape'
  BY <1>0, <1>u, <1>1, ListenerAssumption, NilIsNoEvent DEF TimerShape,
     NoDeadTimer, Busy, TypeOK, Locks, Fire, Goes
<1>4. StartShape'
  BY <1>0, <1>u DEF StartShape
<1>5. SubscriptionsCovered'
  BY <1>0, <1>u, <1>1, ListenerAssumption, NilIsNoEvent DEF
     SubscriptionsCovered, Covered, Busy, TypeOK, Locks, TimerShape,
     StartShape, Fire, Goes
<1>6. Sales'
  BY <1>0, <1>u DEF Sales
<1>7. Resolved'
  BY <1>0, <1>u DEF Resolved, ProcessedIsResolved, RowStays
<1> QED  BY <1>1, <1>2, <1>3, <1>4, <1>5, <1>6, <1>7 DEF Inv

\* A timeout handler reads the status.
LEMMA TimeoutCheckInv ==
  ASSUME Inv, NEW h \in Handlers, TimeoutCheck(h)
  PROVE  Inv'
<1> USE DEF chainVars, tables, dbVars, startVars, timerVars, eventVars
<1>0. /\ TypeOK /\ Locks /\ TimerShape /\ StartShape /\ SubscriptionsCovered
   /\ Sales /\ Resolved
  BY DEF Inv
<1>u. UNCHANGED <<now, status, log, db, cancellations, unsaved, refused, proc, loaded, toCheck,
   startStatus, timer, timerSub, mutex, ev, nextEvent, blockNumber, mint,
   notified, kills>>
  BY DEF TimeoutCheck, Goes, CallFails, CallWorks
<1>1. TypeOK'
  <2>1. handler' \in [Handlers -> HandlerStages]
    BY <1>0, ListenerAssumption DEF TypeOK, HandlerStages, TimeoutCheck,
       Goes, CallFails, CallWorks
  <2>2. failures' \in 0..MaxFailures
    BY <1>0, ListenerAssumption DEF TypeOK, TimeoutCheck, Goes, CallFails,
       CallWorks
  <2> QED  BY <1>0, <1>u, <2>1, <2>2 DEF TypeOK
<1>2. Locks'
  BY <1>0, <1>u, <1>1, ListenerAssumption, NilIsNoEvent DEF Locks, TypeOK,
     TimeoutCheck, Goes, CallFails, CallWorks
<1>3. TimerShape'
  BY <1>0, <1>u, <1>1, ListenerAssumption, NilIsNoEvent DEF TimerShape,
     NoDeadTimer, Busy, TypeOK, Locks, TimeoutCheck, Goes, CallFails,
     CallWorks
<1>4. StartShape'
  BY <1>0, <1>u DEF StartShape
<1>5. SubscriptionsCovered'
  BY <1>0, <1>u, <1>1, ListenerAssumption, NilIsNoEvent DEF
     SubscriptionsCovered, Covered, Busy, TypeOK, Locks, TimerShape,
     StartShape, TimeoutCheck, Goes, CallFails, CallWorks
<1>6. Sales'
  BY <1>0, <1>u DEF Sales
<1>7. Resolved'
  BY <1>0, <1>u DEF Resolved, ProcessedIsResolved, RowStays
<1> QED  BY <1>1, <1>2, <1>3, <1>4, <1>5, <1>6, <1>7 DEF Inv

\* It notifies the partner plugin.
LEMMA TimeoutNotifyInv ==
  ASSUME Inv, NEW h \in Handlers, TimeoutNotify(h)
  PROVE  Inv'
<1> USE DEF chainVars, tables, dbVars, startVars, timerVars, eventVars
<1>0. /\ TypeOK /\ Locks /\ TimerShape /\ StartShape /\ SubscriptionsCovered
   /\ Sales /\ Resolved
  BY DEF Inv
<1>u. UNCHANGED <<now, status, log, db, cancellations, unsaved, refused, proc, loaded, toCheck,
   startStatus, timer, timerSub, mutex, ev, nextEvent, blockNumber, mint,
   kills>>
  BY DEF TimeoutNotify, Goes, CallFails, CallWorks
<1>1. TypeOK'
  <2>1. handler' \in [Handlers -> HandlerStages]
    BY <1>0, ListenerAssumption DEF TypeOK, HandlerStages, TimeoutNotify,
       Goes, CallFails, CallWorks
  <2>2. notified' \in [Tokens -> SUBSET {"bought", "expired"}]
    <3>1. timerSub \in Tokens
      BY <1>0 DEF TypeOK, TimeoutNotify
    <3>2. notified' = notified \/ notified' = [notified EXCEPT ![timerSub] = @ \cup {"expired"}]
      BY DEF TimeoutNotify
    <3>3. notified[timerSub] \cup {"expired"} \in SUBSET {"bought", "expired"}
      BY <3>1, <1>0 DEF TypeOK
    <3> QED  BY <3>1, <3>2, <3>3, <1>0 DEF TypeOK
  <2>3. failures' \in 0..MaxFailures
    BY <1>0, ListenerAssumption DEF TypeOK, TimeoutNotify, Goes,
       CallFails, CallWorks
  <2> QED  BY <1>0, <1>u, <2>1, <2>2, <2>3 DEF TypeOK
<1>2. Locks'
  BY <1>0, <1>u, <1>1, ListenerAssumption, NilIsNoEvent DEF Locks, TypeOK,
     TimeoutNotify, Goes, CallFails, CallWorks
<1>3. TimerShape'
  BY <1>0, <1>u, <1>1, ListenerAssumption, NilIsNoEvent DEF TimerShape,
     NoDeadTimer, Busy, TypeOK, Locks, TimeoutNotify, Goes, CallFails,
     CallWorks
<1>4. StartShape'
  BY <1>0, <1>u DEF StartShape
<1>5. SubscriptionsCovered'
  BY <1>0, <1>u, <1>1, ListenerAssumption, NilIsNoEvent DEF
     SubscriptionsCovered, Covered, Busy, TypeOK, Locks, TimerShape,
     StartShape, TimeoutNotify, Goes, CallFails, CallWorks
<1>6. Sales'
  <2>1. notified' = notified \/ notified' = [notified EXCEPT ![timerSub] = @ \cup {"expired"}]
    BY DEF TimeoutNotify
  <2>2. \A t \in Tokens : "bought" \in notified'[t] => "bought" \in notified[t]
    BY <2>1, <1>0 DEF TypeOK
  <2> QED  BY <2>2, <1>0, <1>u DEF Sales
<1>7. Resolved'
  BY <1>0, <1>u DEF Resolved, ProcessedIsResolved, RowStays
<1> QED  BY <1>1, <1>2, <1>3, <1>4, <1>5, <1>6, <1>7 DEF Inv

\* It records the expiry on the chain.
LEMMA TimeoutRecordInv ==
  ASSUME Inv, NEW h \in Handlers, TimeoutRecord(h)
  PROVE  Inv'
<1> USE DEF chainVars, tables, dbVars, startVars, timerVars, eventVars
<1>0. /\ TypeOK /\ Locks /\ TimerShape /\ StartShape /\ SubscriptionsCovered
   /\ Sales /\ Resolved
  BY DEF Inv
<1>u. UNCHANGED <<now, log, db, cancellations, unsaved, refused, proc, loaded, toCheck,
   startStatus, timer, timerSub, mutex, ev, nextEvent, blockNumber, mint,
   notified, kills>>
  BY DEF TimeoutRecord, Goes, CallFails, CallWorks
<1>1. TypeOK'
  <2>1. handler' \in [Handlers -> HandlerStages]
    BY <1>0, ListenerAssumption DEF TypeOK, HandlerStages, TimeoutRecord,
       Goes, CallFails, CallWorks
  <2>2. status' \in [Tokens -> Status]
    <3>1. timerSub \in Tokens
      BY <1>0 DEF TypeOK, TimeoutRecord
    <3>2. status' = status \/ status' = [status EXCEPT ![timerSub] = "expired"]
      BY DEF TimeoutRecord
    <3> QED  BY <3>1, <3>2, <1>0 DEF TypeOK, Status
  <2>3. failures' \in 0..MaxFailures
    BY <1>0, ListenerAssumption DEF TypeOK, TimeoutRecord, Goes,
       CallFails, CallWorks
  <2> QED  BY <1>0, <1>u, <2>1, <2>2, <2>3 DEF TypeOK
<1>2. Locks'
  BY <1>0, <1>u, <1>1, ListenerAssumption, NilIsNoEvent DEF Locks, TypeOK,
     TimeoutRecord, Goes, CallFails, CallWorks
<1>3. TimerShape'
  BY <1>0, <1>u, <1>1, ListenerAssumption, NilIsNoEvent DEF TimerShape,
     NoDeadTimer, Busy, TypeOK, Locks, TimeoutRecord, Goes, CallFails,
     CallWorks
<1>4. StartShape'
  BY <1>0, <1>u DEF StartShape
<1>5. SubscriptionsCovered'
  BY <1>0, <1>u, <1>1, ListenerAssumption, NilIsNoEvent DEF
     SubscriptionsCovered, Covered, Busy, TypeOK, Locks, TimerShape,
     StartShape, TimeoutRecord, Goes, CallFails, CallWorks
<1>6. Sales'
  <2>1. timerSub \in Tokens
    BY <1>0 DEF TypeOK, TimeoutRecord
  <2>2. status' = status \/ (status[timerSub] = "reserved" /\ status' = [status EXCEPT ![timerSub] = "expired"])
    BY DEF TimeoutRecord
  <2>3. \A t \in Tokens : /\ status[t] = "bought" => status'[t] = "bought"
                          /\ status[t] = "none" => status'[t] = "none"
    BY <2>1, <2>2, <1>0 DEF TypeOK
  <2>4. \A i \in 1..Len(log) : log[i].token \in Tokens
    BY <1>0, LogEntries
  <2>5. ev # Nil => ev.token \in Tokens
    BY <1>0 DEF TypeOK, Events
  <2>6. \A i \in 1..Len(log) : status'[log[i].token] = "bought" /\ mint[log[i].token] = "done"
    BY <2>3, <2>4, <1>0 DEF Sales
  <2>7. ev # Nil => status'[ev.token] = "bought" /\ mint[ev.token] = "done"
    BY <2>3, <2>5, <1>0 DEF Sales
  <2>8. \A t \in Tokens : /\ startStatus[t] = "bought" => status'[t] = "bought"
                          /\ "bought" \in notified[t] => status'[t] = "bought"
                          /\ mint[t] = "none" => status'[t] = "none"
    BY <2>3, <1>0 DEF Sales
  <2> QED  BY <2>6, <2>7, <2>8, <1>u DEF Sales
<1>7. Resolved'
  BY <1>0, <1>u DEF Resolved, ProcessedIsResolved, RowStays
<1> QED  BY <1>1, <1>2, <1>3, <1>4, <1>5, <1>6, <1>7 DEF Inv

\* It deletes the row, and has not committed yet.
LEMMA TimeoutRemoveInv ==
  ASSUME Inv, NEW h \in Handlers, TimeoutRemove(h)
  PROVE  Inv'
<1> USE DEF chainVars, tables, dbVars, startVars, timerVars, eventVars
<1>0. /\ TypeOK /\ Locks /\ TimerShape /\ StartShape /\ SubscriptionsCovered
   /\ Sales /\ Resolved
  BY DEF Inv
<1>u. UNCHANGED <<now, status, log, db, cancellations, refused, proc, loaded, toCheck,
   startStatus, timer, timerSub, mutex, ev, nextEvent, blockNumber, mint,
   notified, kills>>
  BY DEF TimeoutRemove, Goes, CallFails, CallWorks
<1>1. TypeOK'
  <2>1. handler' \in [Handlers -> HandlerStages]
    BY <1>0, ListenerAssumption DEF TypeOK, HandlerStages, TimeoutRemove,
       Goes, CallFails, CallWorks
  <2>2. unsaved' \in Tokens \cup {Nil, "other"}
    BY <1>0 DEF TypeOK, TimeoutRemove
  <2>3. failures' \in 0..MaxFailures
    BY <1>0, ListenerAssumption DEF TypeOK, TimeoutRemove, Goes, CallFails, CallWorks
  <2> QED  BY <1>0, <1>u, <2>1, <2>2, <2>3 DEF TypeOK
<1>2. Locks'
  BY <1>0, <1>u, <1>1, ListenerAssumption, NilIsNoEvent DEF Locks, TypeOK,
     TimeoutRemove, Goes, CallFails, CallWorks
<1>3. TimerShape'
  BY <1>0, <1>u, <1>1, ListenerAssumption, NilIsNoEvent DEF TimerShape,
     NoDeadTimer, Busy, TypeOK, Locks, TimeoutRemove, Goes, CallFails,
     CallWorks
<1>4. StartShape'
  BY <1>0, <1>u, <1>1, ListenerAssumption, NilIsNoEvent DEF StartShape,
     TypeOK, TimeoutRemove, Goes, CallFails, CallWorks
<1>5. SubscriptionsCovered'
  BY <1>0, <1>u, <1>1, ListenerAssumption, NilIsNoEvent DEF
     SubscriptionsCovered, Covered, Busy, TypeOK, Locks, TimerShape,
     StartShape, TimeoutRemove, Goes, CallFails, CallWorks
<1>6. Sales'
  BY <1>0, <1>u DEF Sales
<1>7. Resolved'
  BY <1>0, <1>u, <1>1, ListenerAssumption, NilIsNoEvent DEF Resolved,
     ProcessedIsResolved, RowStays, TypeOK, Sales, TimerShape,
     TimeoutRemove, Goes, CallFails, CallWorks
<1> QED  BY <1>1, <1>2, <1>3, <1>4, <1>5, <1>6, <1>7 DEF Inv

\* It commits, and the row is gone.
LEMMA TimeoutCommitInv ==
  ASSUME Inv, NEW h \in Handlers, TimeoutCommit(h)
  PROVE  Inv'
<1> USE DEF chainVars, tables, dbVars, startVars, timerVars, eventVars
<1>0. /\ TypeOK /\ Locks /\ TimerShape /\ StartShape /\ SubscriptionsCovered
   /\ Sales /\ Resolved
  BY DEF Inv
<1>u. UNCHANGED <<now, status, log, cancellations, refused, proc, loaded, toCheck,
   startStatus, timer, timerSub, mutex, ev, nextEvent, blockNumber, mint,
   notified, kills>>
  BY DEF TimeoutCommit, Goes, NoReader, CallFails, CallWorks, RemoveRow
<1>1. TypeOK'
  <2>1. handler' \in [Handlers -> HandlerStages]
    BY <1>0, ListenerAssumption DEF TypeOK, HandlerStages, TimeoutCommit,
       Goes, NoReader, CallFails, CallWorks, RemoveRow
  <2>2. db' \in SUBSET Tokens
    BY <1>0, ListenerAssumption DEF TypeOK, TimeoutCommit, Goes, NoReader,
       CallFails, CallWorks, RemoveRow
  <2>3. failures' \in 0..MaxFailures
    BY <1>0, ListenerAssumption DEF TypeOK, TimeoutCommit, Goes, NoReader,
       CallFails, CallWorks, RemoveRow
  <2>4. unsaved' \in Tokens \cup {Nil, "other"}
    BY DEF TimeoutCommit
  <2> QED  BY <1>0, <1>u, <2>1, <2>2, <2>3, <2>4 DEF TypeOK
<1>2. Locks'
  BY <1>0, <1>u, <1>1, ListenerAssumption, NilIsNoEvent DEF Locks, TypeOK,
     TimeoutCommit, Goes, NoReader, CallFails, CallWorks, RemoveRow
<1>3. TimerShape'
  BY <1>0, <1>u, <1>1, ListenerAssumption, NilIsNoEvent DEF TimerShape,
     NoDeadTimer, Busy, TypeOK, Locks, TimeoutCommit, Goes, NoReader,
     CallFails, CallWorks, RemoveRow
<1>4. StartShape'
  BY <1>0, <1>u, <1>1, ListenerAssumption, NilIsNoEvent DEF StartShape,
     TypeOK, TimeoutCommit, Goes, NoReader, CallFails, CallWorks, RemoveRow
<1>5. SubscriptionsCovered'
  BY <1>0, <1>u, <1>1, ListenerAssumption, NilIsNoEvent DEF
     SubscriptionsCovered, Covered, Busy, TypeOK, Locks, TimerShape,
     StartShape, TimeoutCommit, Goes, NoReader, CallFails, CallWorks,
     RemoveRow
<1>6. Sales'
  BY <1>0, <1>u DEF Sales
<1>7. Resolved'
  BY <1>0, <1>u, <1>1, ListenerAssumption, NilIsNoEvent DEF Resolved,
     ProcessedIsResolved, RowStays, TypeOK, Sales, TimerShape,
     TimeoutCommit, Goes, NoReader, CallFails, CallWorks, RemoveRow
<1> QED  BY <1>1, <1>2, <1>3, <1>4, <1>5, <1>6, <1>7 DEF Inv

\* A session of the handlers of cancellations writes, and ends.
LEMMA OtherSessionInv ==
  ASSUME Inv, OtherWrites \/ OtherCommits
  PROVE  Inv'
<1> USE DEF chainVars, tables, dbVars, startVars, timerVars, eventVars
<1>0. /\ TypeOK /\ Locks /\ TimerShape /\ StartShape /\ SubscriptionsCovered
   /\ Sales /\ Resolved
  BY DEF Inv
<1>u. UNCHANGED <<now, status, log, db, cancellations, refused, proc, loaded,
   toCheck, startStatus, timer, timerSub, mutex, handler, ev, nextEvent,
   blockNumber, mint, notified, failures, kills>>
  BY DEF OtherWrites, OtherCommits
<1>1. TypeOK'
  <2>1. unsaved' \in Tokens \cup {Nil, "other"}
    BY DEF OtherWrites, OtherCommits
  <2> QED  BY <1>0, <1>u, <2>1 DEF TypeOK
<1>2. Locks'
  BY <1>0, <1>u DEF Locks
<1>3. TimerShape'
  BY <1>0, <1>u DEF TimerShape, NoDeadTimer, Busy
<1>4. StartShape'
  BY <1>0, <1>u DEF StartShape
<1>5. SubscriptionsCovered'
  BY <1>0, <1>u DEF SubscriptionsCovered, Covered, Busy
<1>6. Sales'
  BY <1>0, <1>u DEF Sales
<1>7. Resolved'
  BY <1>0, <1>u DEF Resolved, ProcessedIsResolved, RowStays
<1> QED  BY <1>1, <1>2, <1>3, <1>4, <1>5, <1>6, <1>7 DEF Inv

\* It takes the mutex.
LEMMA TimeoutResetInv ==
  ASSUME Inv, NEW h \in Handlers, TimeoutReset(h)
  PROVE  Inv'
<1> USE DEF chainVars, tables, dbVars, startVars, timerVars, eventVars
<1>0. /\ TypeOK /\ Locks /\ TimerShape /\ StartShape /\ SubscriptionsCovered
   /\ Sales /\ Resolved
  BY DEF Inv
<1>u. UNCHANGED <<now, status, log, db, cancellations, unsaved, refused, proc, loaded, toCheck,
   startStatus, ev, nextEvent, blockNumber, mint, notified, failures, kills>>
  BY DEF TimeoutReset, ResetBegins, Goes
<1>1. TypeOK'
  <2>1. handler' \in [Handlers -> HandlerStages]
    BY <1>0, ListenerAssumption DEF TypeOK, HandlerStages, TimeoutReset,
       ResetBegins, Goes
  <2>2. timer' \in {"nil", "idle", "armed"}
    BY <1>0, ListenerAssumption DEF TypeOK, TimeoutReset, ResetBegins,
       Goes
  <2>3. timerSub' \in Tokens \cup {Nil}
    BY <1>0, ListenerAssumption DEF TypeOK, TimeoutReset, ResetBegins,
       Goes
  <2>4. mutex' \in Handlers \cup {Nil, "event"}
    BY <1>0, ListenerAssumption DEF TypeOK, TimeoutReset, ResetBegins,
       Goes
  <2> QED  BY <1>0, <1>u, <2>1, <2>2, <2>3, <2>4 DEF TypeOK
<1>2. Locks'
  BY <1>0, <1>u, <1>1, ListenerAssumption, NilIsNoEvent DEF Locks, TypeOK,
     TimeoutReset, ResetBegins, Goes
<1>3. TimerShape'
  BY <1>0, <1>u, <1>1, ListenerAssumption, NilIsNoEvent DEF TimerShape,
     NoDeadTimer, Busy, TypeOK, Locks, TimeoutReset, ResetBegins, Goes
<1>4. StartShape'
  BY <1>0, <1>u DEF StartShape
<1>5. SubscriptionsCovered'
  BY <1>0, <1>u, <1>1, ListenerAssumption, NilIsNoEvent DEF
     SubscriptionsCovered, Covered, Busy, TypeOK, Locks, TimerShape,
     StartShape, TimeoutReset, ResetBegins, Goes
<1>6. Sales'
  BY <1>0, <1>u DEF Sales
<1>7. Resolved'
  BY <1>0, <1>u DEF Resolved, ProcessedIsResolved, RowStays
<1> QED  BY <1>1, <1>2, <1>3, <1>4, <1>5, <1>6, <1>7 DEF Inv

\* It arms the timer for the earliest row.
LEMMA TimeoutResetEndsInv ==
  ASSUME Inv, NEW h \in Handlers, TimeoutResetEnds(h)
  PROVE  Inv'
<1> USE DEF chainVars, tables, dbVars, startVars, timerVars, eventVars
<1>0. /\ TypeOK /\ Locks /\ TimerShape /\ StartShape /\ SubscriptionsCovered
   /\ Sales /\ Resolved
  BY DEF Inv
<1>u. UNCHANGED <<now, status, log, db, cancellations, unsaved, refused, proc, loaded, toCheck,
   startStatus, ev, nextEvent, blockNumber, mint, notified, kills>>
  BY DEF TimeoutResetEnds, ResetEnds, Arm, Earliest, Goes, CallFails,
     CallWorks
<1>1. TypeOK'
  <2>1. handler' \in [Handlers -> HandlerStages]
    BY <1>0, ListenerAssumption DEF TypeOK, HandlerStages,
       TimeoutResetEnds, ResetEnds, Arm, Earliest, Goes, CallFails,
       CallWorks
  <2>2. timer' \in {"nil", "idle", "armed"}
    BY <1>0, ListenerAssumption DEF TypeOK, TimeoutResetEnds, ResetEnds,
       Arm, Earliest, Goes, CallFails, CallWorks
  <2>3. timerSub' \in Tokens \cup {Nil}
    BY <1>0, ListenerAssumption DEF TypeOK, TimeoutResetEnds, ResetEnds,
       Arm, Earliest, Goes, CallFails, CallWorks
  <2>4. mutex' \in Handlers \cup {Nil, "event"}
    BY <1>0, ListenerAssumption DEF TypeOK, TimeoutResetEnds, ResetEnds,
       Arm, Earliest, Goes, CallFails, CallWorks
  <2>5. failures' \in 0..MaxFailures
    BY <1>0, ListenerAssumption DEF TypeOK, TimeoutResetEnds, ResetEnds,
       Arm, Earliest, Goes, CallFails, CallWorks
  <2> QED  BY <1>0, <1>u, <2>1, <2>2, <2>3, <2>4, <2>5 DEF TypeOK
<1>2. Locks'
  BY <1>0, <1>u, <1>1, ListenerAssumption, NilIsNoEvent DEF Locks, TypeOK,
     TimeoutResetEnds, ResetEnds, Arm, Earliest, Goes, CallFails, CallWorks
<1>3. TimerShape'
  BY <1>0, <1>u, <1>1, ListenerAssumption, NilIsNoEvent DEF TimerShape,
     NoDeadTimer, Busy, TypeOK, Locks, TimeoutResetEnds, ResetEnds, Arm,
     Earliest, Goes, CallFails, CallWorks
<1>4. StartShape'
  BY <1>0, <1>u DEF StartShape
<1>5. SubscriptionsCovered'
  BY <1>0, <1>u, <1>1, ListenerAssumption, NilIsNoEvent DEF
     SubscriptionsCovered, Covered, Busy, TypeOK, Locks, TimerShape,
     StartShape, TimeoutResetEnds, ResetEnds, Arm, Earliest, Goes,
     CallFails, CallWorks
<1>6. Sales'
  BY <1>0, <1>u DEF Sales
<1>7. Resolved'
  BY <1>0, <1>u DEF Resolved, ProcessedIsResolved, RowStays
<1> QED  BY <1>1, <1>2, <1>3, <1>4, <1>5, <1>6, <1>7 DEF Inv

\* The bot is killed.
LEMMA KillInv ==
  ASSUME Inv, Kill
  PROVE  Inv'
<1> USE DEF chainVars, tables, dbVars, startVars, timerVars, eventVars
<1>0. /\ TypeOK /\ Locks /\ TimerShape /\ StartShape /\ SubscriptionsCovered
   /\ Sales /\ Resolved
  BY DEF Inv
<1>u. UNCHANGED <<now, status, log, db, cancellations, notified, failures>>
  BY DEF Kill, ProcessEnds
<1>1. TypeOK'
  <2>0. unsaved' \in Tokens \cup {Nil, "other"} /\ refused' \in SUBSET Tokens
    BY DEF Kill, ProcessEnds
  <2>1. proc' \in {"down", "checking", "watching", "up"}
    BY <1>0, ListenerAssumption DEF TypeOK, Kill, ProcessEnds
  <2>2. loaded' \in SUBSET Tokens
    BY <1>0, ListenerAssumption DEF TypeOK, Kill, ProcessEnds
  <2>3. toCheck' \in SUBSET Tokens
    BY <1>0, ListenerAssumption DEF TypeOK, Kill, ProcessEnds
  <2>4. startStatus' \in [Tokens -> Status]
    BY <1>0, ListenerAssumption DEF TypeOK, Status, Kill, ProcessEnds
  <2>5. timer' \in {"nil", "idle", "armed"}
    BY <1>0, ListenerAssumption DEF TypeOK, Kill, ProcessEnds
  <2>6. timerSub' \in Tokens \cup {Nil}
    BY <1>0, ListenerAssumption DEF TypeOK, Kill, ProcessEnds
  <2>7. mutex' \in Handlers \cup {Nil, "event"}
    BY <1>0, ListenerAssumption DEF TypeOK, Kill, ProcessEnds
  <2>8. handler' \in [Handlers -> HandlerStages]
    BY <1>0, ListenerAssumption DEF TypeOK, HandlerStages, Kill,
       ProcessEnds
  <2>9. ev' \in Events \cup {Nil}
    BY <1>0, ListenerAssumption DEF TypeOK, Events, EventStages, Blocks,
       Kill, ProcessEnds
  <2>10. nextEvent' \in Nat \ {0}
    BY <1>0, ListenerAssumption, FirstFromType DEF TypeOK, Kill,
       ProcessEnds
  <2>11. blockNumber' \in Blocks
    BY <1>0, ListenerAssumption DEF TypeOK, Blocks, Events, Kill,
       ProcessEnds
  <2>12. mint' \in [Tokens -> MintStages]
    BY <1>0, ListenerAssumption DEF TypeOK, MintStages, Kill, ProcessEnds
  <2>13. kills' \in 0..MaxKills
    BY <1>0, ListenerAssumption DEF TypeOK, Kill, ProcessEnds
  <2> QED  BY <1>0, <1>u, <2>0, <2>1, <2>2, <2>3, <2>4, <2>5, <2>6, <2>7, <2>8,
     <2>9, <2>10, <2>11, <2>12, <2>13 DEF TypeOK
<1>2. Locks'
  BY <1>0, <1>u, <1>1, ListenerAssumption, NilIsNoEvent DEF Locks, TypeOK,
     Kill, ProcessEnds
<1>3. TimerShape'
  BY <1>0, <1>u, <1>1, ListenerAssumption, NilIsNoEvent DEF TimerShape,
     NoDeadTimer, Busy, TypeOK, Locks, Kill, ProcessEnds
<1>4. StartShape'
  BY <1>0, <1>u, <1>1, ListenerAssumption, NilIsNoEvent DEF StartShape,
     TypeOK, Kill, ProcessEnds
<1>5. SubscriptionsCovered'
  BY <1>0, <1>u, <1>1, ListenerAssumption, NilIsNoEvent DEF
     SubscriptionsCovered, Covered, Busy, TypeOK, Locks, TimerShape,
     StartShape, Kill, ProcessEnds
<1>6. Sales'
  <2>1. ProcessEnds
    BY DEF Kill
  <2>2. \A t \in Tokens : "bought" \in notified'[t] => status[t] = "bought"
    BY <1>0, <1>u DEF Sales
  <2> QED  BY <2>1, <2>2, <1>0, <1>u, SalesSurvive
<1>7. Resolved'
  BY <1>0, <1>u, <1>1, ListenerAssumption, NilIsNoEvent DEF Resolved,
     ProcessedIsResolved, RowStays, TypeOK, Sales, TimerShape, Kill,
     ProcessEnds
<1> QED  BY <1>1, <1>2, <1>3, <1>4, <1>5, <1>6, <1>7 DEF Inv

\* A timeout handler panics.
LEMMA NilSubscriptionInv ==
  ASSUME Inv, NEW h \in Handlers, NilSubscription(h)
  PROVE  Inv'
<1> USE DEF chainVars, tables, dbVars, startVars, timerVars, eventVars
<1>0. /\ TypeOK /\ Locks /\ TimerShape /\ StartShape /\ SubscriptionsCovered
   /\ Sales /\ Resolved
  BY DEF Inv
<1>u. UNCHANGED <<now, status, log, db, cancellations, notified, kills>>
  BY DEF NilSubscription, ProcessEnds
<1>1. TypeOK'
  <2>0. unsaved' \in Tokens \cup {Nil, "other"} /\ refused' \in SUBSET Tokens
    BY DEF NilSubscription, ProcessEnds
  <2>1. proc' \in {"down", "checking", "watching", "up"}
    BY <1>0, ListenerAssumption DEF TypeOK, NilSubscription, ProcessEnds
  <2>2. loaded' \in SUBSET Tokens
    BY <1>0, ListenerAssumption DEF TypeOK, NilSubscription, ProcessEnds
  <2>3. toCheck' \in SUBSET Tokens
    BY <1>0, ListenerAssumption DEF TypeOK, NilSubscription, ProcessEnds
  <2>4. startStatus' \in [Tokens -> Status]
    BY <1>0, ListenerAssumption DEF TypeOK, Status, NilSubscription,
       ProcessEnds
  <2>5. timer' \in {"nil", "idle", "armed"}
    BY <1>0, ListenerAssumption DEF TypeOK, NilSubscription, ProcessEnds
  <2>6. timerSub' \in Tokens \cup {Nil}
    BY <1>0, ListenerAssumption DEF TypeOK, NilSubscription, ProcessEnds
  <2>7. mutex' \in Handlers \cup {Nil, "event"}
    BY <1>0, ListenerAssumption DEF TypeOK, NilSubscription, ProcessEnds
  <2>8. handler' \in [Handlers -> HandlerStages]
    BY <1>0, ListenerAssumption DEF TypeOK, HandlerStages,
       NilSubscription, ProcessEnds
  <2>9. ev' \in Events \cup {Nil}
    BY <1>0, ListenerAssumption DEF TypeOK, Events, EventStages, Blocks,
       NilSubscription, ProcessEnds
  <2>10. nextEvent' \in Nat \ {0}
    BY <1>0, ListenerAssumption, FirstFromType DEF TypeOK,
       NilSubscription, ProcessEnds
  <2>11. blockNumber' \in Blocks
    BY <1>0, ListenerAssumption DEF TypeOK, Blocks, Events,
       NilSubscription, ProcessEnds
  <2>12. mint' \in [Tokens -> MintStages]
    BY <1>0, ListenerAssumption DEF TypeOK, MintStages, NilSubscription, ProcessEnds
  <2>13. failures' \in 0..MaxFailures
    BY <1>0, ListenerAssumption DEF TypeOK, NilSubscription, CallWorks, CallFails
  <2> QED  BY <1>0, <1>u, <2>0, <2>1, <2>2, <2>3, <2>4, <2>5, <2>6, <2>7, <2>8,
     <2>9, <2>10, <2>11, <2>12, <2>13 DEF TypeOK
<1>2. Locks'
  BY <1>0, <1>u, <1>1, ListenerAssumption, NilIsNoEvent DEF Locks, TypeOK,
     NilSubscription, ProcessEnds
<1>3. TimerShape'
  BY <1>0, <1>u, <1>1, ListenerAssumption, NilIsNoEvent DEF TimerShape,
     NoDeadTimer, Busy, TypeOK, Locks, NilSubscription, ProcessEnds
<1>4. StartShape'
  BY <1>0, <1>u, <1>1, ListenerAssumption, NilIsNoEvent DEF StartShape,
     TypeOK, NilSubscription, ProcessEnds
<1>5. SubscriptionsCovered'
  BY <1>0, <1>u, <1>1, ListenerAssumption, NilIsNoEvent DEF
     SubscriptionsCovered, Covered, Busy, TypeOK, Locks, TimerShape,
     StartShape, NilSubscription, ProcessEnds
<1>6. Sales'
  <2>1. ProcessEnds
    BY DEF NilSubscription
  <2>2. \A t \in Tokens : "bought" \in notified'[t] => status[t] = "bought"
    BY <1>0, <1>u DEF Sales
  <2> QED  BY <2>1, <2>2, <1>0, <1>u, SalesSurvive
<1>7. Resolved'
  BY <1>0, <1>u, <1>1, ListenerAssumption, NilIsNoEvent DEF Resolved,
     ProcessedIsResolved, RowStays, TypeOK, Sales, TimerShape,
     NilSubscription, ProcessEnds
<1> QED  BY <1>1, <1>2, <1>3, <1>4, <1>5, <1>6, <1>7 DEF Inv

\* The event handler panics.
LEMMA NilTimerInv ==
  ASSUME Inv, NilTimer
  PROVE  Inv'
<1> USE DEF chainVars, tables, dbVars, startVars, timerVars, eventVars
<1>0. /\ TypeOK /\ Locks /\ TimerShape /\ StartShape /\ SubscriptionsCovered
   /\ Sales /\ Resolved
  BY DEF Inv
<1>u. UNCHANGED <<now, status, log, db, cancellations, unsaved, refused, proc, loaded, toCheck,
   startStatus, timer, timerSub, mutex, handler, nextEvent, blockNumber, mint,
   notified, failures, kills>>
  BY DEF NilTimer, EventGoesTo
<1>p. /\ ev \in Events /\ ev # Nil /\ ev' \in Events /\ ev' # Nil /\ ev'.token = ev.token
      /\ ev.token \in Tokens
      /\ ev'.stage = "dead" /\ ev.stage = "finished"
      /\ ev'.result = ev.result
  <2>1. ev \in Events /\ ev # Nil
    BY <1>0 DEF TypeOK, NilTimer
  <2>2. ev.token \in Tokens /\ ev.block \in Blocks /\ 0 \in Blocks
    BY <2>1, ListenerAssumption DEF Events, Blocks
  <2>3. {"notify", "commit", "finished", "resetting", "dead"} \subseteq EventStages
    BY DEF EventStages
  <2> QED
    BY <2>1, <2>2, <2>3, EventMoves, EventFinishes DEF NilTimer
<1>1. TypeOK'
  <2>1. ev' \in Events \cup {Nil}
    BY <1>p
  <2> QED  BY <1>0, <1>u, <2>1 DEF TypeOK
<1>2. Locks'
  BY <1>0, <1>u, <1>p DEF Locks
<1>3. TimerShape'
  BY <1>0, <1>u, <1>p, <1>1, ListenerAssumption, NilIsNoEvent DEF
     TimerShape, NoDeadTimer, Busy, TypeOK, Locks, NilTimer, EventGoesTo
<1>4. StartShape'
  BY <1>0, <1>u DEF StartShape
<1>5. SubscriptionsCovered'
  BY <1>0, <1>u DEF SubscriptionsCovered, Covered, Busy
<1>6. Sales'
  BY <1>0, <1>u, <1>p DEF Sales
<1>7. Resolved'
  BY <1>0, <1>u, <1>p DEF Resolved, ProcessedIsResolved, RowStays
<1> QED  BY <1>1, <1>2, <1>3, <1>4, <1>5, <1>6, <1>7 DEF Inv

\* The application ends for it.
LEMMA ListenerFailsInv ==
  ASSUME Inv, ListenerFails
  PROVE  Inv'
<1> USE DEF chainVars, tables, dbVars, startVars, timerVars, eventVars
<1>0. /\ TypeOK /\ Locks /\ TimerShape /\ StartShape /\ SubscriptionsCovered
   /\ Sales /\ Resolved
  BY DEF Inv
<1>u. UNCHANGED <<now, status, log, db, cancellations, notified, failures,
   kills>>
  BY DEF ListenerFails, ProcessEnds
<1>1. TypeOK'
  <2>0. unsaved' \in Tokens \cup {Nil, "other"} /\ refused' \in SUBSET Tokens
    BY DEF ListenerFails, ProcessEnds
  <2>1. proc' \in {"down", "checking", "watching", "up"}
    BY <1>0, ListenerAssumption DEF TypeOK, ListenerFails, ProcessEnds
  <2>2. loaded' \in SUBSET Tokens
    BY <1>0, ListenerAssumption DEF TypeOK, ListenerFails, ProcessEnds
  <2>3. toCheck' \in SUBSET Tokens
    BY <1>0, ListenerAssumption DEF TypeOK, ListenerFails, ProcessEnds
  <2>4. startStatus' \in [Tokens -> Status]
    BY <1>0, ListenerAssumption DEF TypeOK, Status, ListenerFails,
       ProcessEnds
  <2>5. timer' \in {"nil", "idle", "armed"}
    BY <1>0, ListenerAssumption DEF TypeOK, ListenerFails, ProcessEnds
  <2>6. timerSub' \in Tokens \cup {Nil}
    BY <1>0, ListenerAssumption DEF TypeOK, ListenerFails, ProcessEnds
  <2>7. mutex' \in Handlers \cup {Nil, "event"}
    BY <1>0, ListenerAssumption DEF TypeOK, ListenerFails, ProcessEnds
  <2>8. handler' \in [Handlers -> HandlerStages]
    BY <1>0, ListenerAssumption DEF TypeOK, HandlerStages, ListenerFails,
       ProcessEnds
  <2>9. ev' \in Events \cup {Nil}
    BY <1>0, ListenerAssumption DEF TypeOK, Events, EventStages, Blocks,
       ListenerFails, ProcessEnds
  <2>10. nextEvent' \in Nat \ {0}
    BY <1>0, ListenerAssumption, FirstFromType DEF TypeOK, ListenerFails,
       ProcessEnds
  <2>11. blockNumber' \in Blocks
    BY <1>0, ListenerAssumption DEF TypeOK, Blocks, Events, ListenerFails,
       ProcessEnds
  <2>12. mint' \in [Tokens -> MintStages]
    BY <1>0, ListenerAssumption DEF TypeOK, MintStages, ListenerFails, ProcessEnds
  <2> QED  BY <1>0, <1>u, <2>0, <2>1, <2>2, <2>3, <2>4, <2>5, <2>6, <2>7, <2>8,
     <2>9, <2>10, <2>11, <2>12 DEF TypeOK
<1>2. Locks'
  BY <1>0, <1>u, <1>1, ListenerAssumption, NilIsNoEvent DEF Locks, TypeOK,
     ListenerFails, ProcessEnds
<1>3. TimerShape'
  BY <1>0, <1>u, <1>1, ListenerAssumption, NilIsNoEvent DEF TimerShape,
     NoDeadTimer, Busy, TypeOK, Locks, ListenerFails, ProcessEnds
<1>4. StartShape'
  BY <1>0, <1>u, <1>1, ListenerAssumption, NilIsNoEvent DEF StartShape,
     TypeOK, ListenerFails, ProcessEnds
<1>5. SubscriptionsCovered'
  BY <1>0, <1>u, <1>1, ListenerAssumption, NilIsNoEvent DEF
     SubscriptionsCovered, Covered, Busy, TypeOK, Locks, TimerShape,
     StartShape, ListenerFails, ProcessEnds
<1>6. Sales'
  <2>1. ProcessEnds
    BY DEF ListenerFails
  <2>2. \A t \in Tokens : "bought" \in notified'[t] => status[t] = "bought"
    BY <1>0, <1>u DEF Sales
  <2> QED  BY <2>1, <2>2, <1>0, <1>u, SalesSurvive
<1>7. Resolved'
  BY <1>0, <1>u, <1>1, ListenerAssumption, NilIsNoEvent DEF Resolved,
     ProcessedIsResolved, RowStays, TypeOK, Sales, TimerShape,
     ListenerFails, ProcessEnds
<1> QED  BY <1>1, <1>2, <1>3, <1>4, <1>5, <1>6, <1>7 DEF Inv

\* The bot starts.
LEMMA NewInv ==
  ASSUME Inv, New
  PROVE  Inv'
<1> USE DEF chainVars, tables, dbVars, startVars, timerVars, eventVars
<1>0. /\ TypeOK /\ Locks /\ TimerShape /\ StartShape /\ SubscriptionsCovered
   /\ Sales /\ Resolved
  BY DEF Inv
<1>u. UNCHANGED <<now, status, log, db, cancellations, unsaved, refused, timer, timerSub, mutex,
   handler, ev, nextEvent, mint, notified, failures, kills>>
  BY DEF New, LatestBlock
<1>1. TypeOK'
  <2>1. proc' \in {"down", "checking", "watching", "up"}
    BY <1>0, ListenerAssumption DEF TypeOK, New, LatestBlock
  <2>2. loaded' \in SUBSET Tokens
    BY <1>0, ListenerAssumption DEF TypeOK, New, LatestBlock
  <2>3. toCheck' \in SUBSET Tokens
    BY <1>0, ListenerAssumption DEF TypeOK, New, LatestBlock
  <2>4. startStatus' \in [Tokens -> Status]
    BY <1>0, ListenerAssumption DEF TypeOK, Status, New, LatestBlock
  <2>5. blockNumber' \in Blocks
    BY <1>0, ListenerAssumption DEF TypeOK, Blocks, Events, New,
       LatestBlock
  <2> QED  BY <1>0, <1>u, <2>1, <2>2, <2>3, <2>4, <2>5 DEF TypeOK
<1>2. Locks'
  BY <1>0, <1>u DEF Locks
<1>3. TimerShape'
  BY <1>0, <1>u, <1>1, ListenerAssumption, NilIsNoEvent DEF TimerShape,
     NoDeadTimer, Busy, TypeOK, Locks, New, LatestBlock
<1>4. StartShape'
  BY <1>0, <1>u, <1>1, ListenerAssumption, NilIsNoEvent DEF StartShape,
     TypeOK, New, LatestBlock
<1>5. SubscriptionsCovered'
  BY <1>0, <1>u, <1>1, ListenerAssumption, NilIsNoEvent DEF
     SubscriptionsCovered, Covered, Busy, TypeOK, Locks, TimerShape,
     StartShape, New, LatestBlock
<1>6. Sales'
  BY <1>0, <1>u, <1>1, ListenerAssumption, NilIsNoEvent DEF Sales, TypeOK,
     New, LatestBlock
<1>7. Resolved'
  BY <1>0, <1>u DEF Resolved, ProcessedIsResolved, RowStays
<1> QED  BY <1>1, <1>2, <1>3, <1>4, <1>5, <1>6, <1>7 DEF Inv

\* The startup check looks at a row.
LEMMA StartupCheckInv ==
  ASSUME Inv, NEW t \in Tokens, StartupCheck(t)
  PROVE  Inv'
<1> USE DEF chainVars, tables, dbVars, startVars, timerVars, eventVars
<1>0. /\ TypeOK /\ Locks /\ TimerShape /\ StartShape /\ SubscriptionsCovered
   /\ Sales /\ Resolved
  BY DEF Inv
<1>u. UNCHANGED <<now, status, log, cancellations, unsaved, refused, proc, loaded, startStatus,
   timer, timerSub, mutex, handler, ev, nextEvent, blockNumber, mint,
   failures, kills>>
  BY DEF StartupCheck, RemoveRow
<1>1. TypeOK'
  <2>1. toCheck' \in SUBSET Tokens
    BY <1>0, ListenerAssumption DEF TypeOK, StartupCheck, RemoveRow
  <2>2. db' \in SUBSET Tokens
    BY <1>0, ListenerAssumption DEF TypeOK, StartupCheck, RemoveRow
  <2>3. notified' \in [Tokens -> SUBSET {"bought", "expired"}]
    <3>1. notified' = notified \/ notified' = [notified EXCEPT ![t] = @ \cup {"bought"}]
      BY DEF StartupCheck
    <3>2. notified[t] \cup {"bought"} \in SUBSET {"bought", "expired"}
      BY <1>0 DEF TypeOK
    <3> QED  BY <3>1, <3>2, <1>0 DEF TypeOK
  <2> QED  BY <1>0, <1>u, <2>1, <2>2, <2>3 DEF TypeOK
<1>2. Locks'
  BY <1>0, <1>u DEF Locks
<1>3. TimerShape'
  BY <1>0, <1>u DEF TimerShape, NoDeadTimer, Busy
<1>4. StartShape'
  <2>1. proc = "checking" /\ toCheck' = toCheck \ {t}
    BY DEF StartupCheck
  <2>2. (startStatus[t] = "reserved" /\ db' = db) \/ db' = db \ {t}
    BY DEF StartupCheck, RemoveRow
  <2>3. \A u \in db' : u \in toCheck' \/ (u \in loaded /\ startStatus[u] = "reserved")
    <3> SUFFICES ASSUME NEW u \in db'
                 PROVE  u \in toCheck' \/ (u \in loaded /\ startStatus[u] = "reserved")
      OBVIOUS
    <3>1. u \in toCheck \/ (u \in loaded /\ startStatus[u] = "reserved")
      BY <2>1, <2>2, <1>0 DEF StartShape
    <3>2. t \in loaded
      BY <1>0 DEF StartShape, StartupCheck
    <3> QED  BY <3>1, <3>2, <2>1, <2>2
  <2>4. toCheck' \subseteq loaded
    BY <2>1, <1>0 DEF StartShape
  <2> QED  BY <2>1, <2>3, <2>4, <1>u DEF StartShape
<1>5. SubscriptionsCovered'
  BY <1>0, <1>u, <1>1, ListenerAssumption, NilIsNoEvent DEF
     SubscriptionsCovered, Covered, Busy, TypeOK, Locks, TimerShape,
     StartShape, StartupCheck, RemoveRow
<1>6. Sales'
  BY <1>0, <1>u, <1>1, ListenerAssumption, NilIsNoEvent DEF Sales, TypeOK,
     StartupCheck, RemoveRow
<1>7. Resolved'
  BY <1>0, <1>u, <1>1, ListenerAssumption, NilIsNoEvent DEF Resolved,
     ProcessedIsResolved, RowStays, TypeOK, Sales, TimerShape, StartupCheck,
     RemoveRow
<1> QED  BY <1>1, <1>2, <1>3, <1>4, <1>5, <1>6, <1>7 DEF Inv

\* The startup check fails.
LEMMA StartupCheckFailsInv ==
  ASSUME Inv, NEW t \in Tokens, StartupCheckFails(t)
  PROVE  Inv'
<1> USE DEF chainVars, tables, dbVars, startVars, timerVars, eventVars
<1>0. /\ TypeOK /\ Locks /\ TimerShape /\ StartShape /\ SubscriptionsCovered
   /\ Sales /\ Resolved
  BY DEF Inv
<1>u. UNCHANGED <<now, status, log, db, cancellations, kills>>
  BY DEF StartupCheckFails, ProcessEnds, CallFails, CallWorks
<1>1. TypeOK'
  <2>0. unsaved' \in Tokens \cup {Nil, "other"} /\ refused' \in SUBSET Tokens
    BY DEF StartupCheckFails, ProcessEnds
  <2>1. proc' \in {"down", "checking", "watching", "up"}
    BY <1>0, ListenerAssumption DEF TypeOK, StartupCheckFails,
       ProcessEnds, CallFails, CallWorks
  <2>2. loaded' \in SUBSET Tokens
    BY <1>0, ListenerAssumption DEF TypeOK, StartupCheckFails,
       ProcessEnds, CallFails, CallWorks
  <2>3. toCheck' \in SUBSET Tokens
    BY <1>0, ListenerAssumption DEF TypeOK, StartupCheckFails,
       ProcessEnds, CallFails, CallWorks
  <2>4. startStatus' \in [Tokens -> Status]
    BY <1>0, ListenerAssumption DEF TypeOK, Status, StartupCheckFails,
       ProcessEnds, CallFails, CallWorks
  <2>5. timer' \in {"nil", "idle", "armed"}
    BY <1>0, ListenerAssumption DEF TypeOK, StartupCheckFails,
       ProcessEnds, CallFails, CallWorks
  <2>6. timerSub' \in Tokens \cup {Nil}
    BY <1>0, ListenerAssumption DEF TypeOK, StartupCheckFails,
       ProcessEnds, CallFails, CallWorks
  <2>7. mutex' \in Handlers \cup {Nil, "event"}
    BY <1>0, ListenerAssumption DEF TypeOK, StartupCheckFails,
       ProcessEnds, CallFails, CallWorks
  <2>8. handler' \in [Handlers -> HandlerStages]
    BY <1>0, ListenerAssumption DEF TypeOK, HandlerStages,
       StartupCheckFails, ProcessEnds, CallFails, CallWorks
  <2>9. ev' \in Events \cup {Nil}
    BY <1>0, ListenerAssumption DEF TypeOK, Events, EventStages, Blocks,
       StartupCheckFails, ProcessEnds, CallFails, CallWorks
  <2>10. nextEvent' \in Nat \ {0}
    BY <1>0, ListenerAssumption, FirstFromType DEF TypeOK,
       StartupCheckFails, ProcessEnds, CallFails, CallWorks
  <2>11. blockNumber' \in Blocks
    BY <1>0, ListenerAssumption DEF TypeOK, Blocks, Events,
       StartupCheckFails, ProcessEnds, CallFails, CallWorks
  <2>12. mint' \in [Tokens -> MintStages]
    BY <1>0, ListenerAssumption DEF TypeOK, MintStages, StartupCheckFails,
       ProcessEnds, CallFails, CallWorks
  <2>13. failures' \in 0..MaxFailures
    BY <1>0, ListenerAssumption DEF TypeOK, StartupCheckFails,
       ProcessEnds, CallFails, CallWorks
  <2>14. notified' \in [Tokens -> SUBSET {"bought", "expired"}]
    <3>1. notified' = notified \/ notified' = [notified EXCEPT ![t] = @ \cup {"bought"}]
      BY DEF StartupCheckFails
    <3>2. notified[t] \cup {"bought"} \in SUBSET {"bought", "expired"}
      BY <1>0 DEF TypeOK
    <3> QED  BY <3>1, <3>2, <1>0 DEF TypeOK
  <2> QED  BY <1>0, <1>u, <2>0, <2>1, <2>2, <2>3, <2>4, <2>5, <2>6, <2>7, <2>8,
     <2>9, <2>10, <2>11, <2>12, <2>13, <2>14 DEF TypeOK
<1>2. Locks'
  BY <1>0, <1>u, <1>1, ListenerAssumption, NilIsNoEvent DEF Locks, TypeOK,
     StartupCheckFails, ProcessEnds, CallFails, CallWorks
<1>3. TimerShape'
  BY <1>0, <1>u, <1>1, ListenerAssumption, NilIsNoEvent DEF TimerShape,
     NoDeadTimer, Busy, TypeOK, Locks, StartupCheckFails, ProcessEnds,
     CallFails, CallWorks
<1>4. StartShape'
  BY <1>0, <1>u, <1>1, ListenerAssumption, NilIsNoEvent DEF StartShape,
     TypeOK, StartupCheckFails, ProcessEnds, CallFails, CallWorks
<1>5. SubscriptionsCovered'
  BY <1>0, <1>u, <1>1, ListenerAssumption, NilIsNoEvent DEF
     SubscriptionsCovered, Covered, Busy, TypeOK, Locks, TimerShape,
     StartShape, StartupCheckFails, ProcessEnds, CallFails, CallWorks
<1>6. Sales'
  <2>1. ProcessEnds
    BY DEF StartupCheckFails
  <2>2. notified' = notified \/ (startStatus[t] = "bought" /\ notified' = [notified EXCEPT ![t] = @ \cup {"bought"}])
    BY DEF StartupCheckFails
  <2>3. \A u \in Tokens : "bought" \in notified'[u] => status[u] = "bought"
    BY <2>2, <1>0 DEF Sales, TypeOK
  <2> QED  BY <2>1, <2>3, <1>0, <1>u, SalesSurvive
<1>7. Resolved'
  BY <1>0, <1>u, <1>1, ListenerAssumption, NilIsNoEvent DEF Resolved,
     ProcessedIsResolved, RowStays, TypeOK, Sales, TimerShape,
     StartupCheckFails, ProcessEnds, CallFails, CallWorks
<1> QED  BY <1>1, <1>2, <1>3, <1>4, <1>5, <1>6, <1>7 DEF Inv

\* Events are watched.
LEMMA SubscribeTokenBoughtInv ==
  ASSUME Inv, SubscribeTokenBought
  PROVE  Inv'
<1> USE DEF chainVars, tables, dbVars, startVars, timerVars, eventVars
<1>0. /\ TypeOK /\ Locks /\ TimerShape /\ StartShape /\ SubscriptionsCovered
   /\ Sales /\ Resolved
  BY DEF Inv
<1>u. UNCHANGED <<now, status, log, db, cancellations, unsaved, refused, loaded, toCheck,
   startStatus, timer, timerSub, mutex, handler, ev, blockNumber, mint,
   notified, failures, kills>>
  BY DEF SubscribeTokenBought
<1>1. TypeOK'
  <2>1. proc' \in {"down", "checking", "watching", "up"}
    BY <1>0, ListenerAssumption DEF TypeOK, SubscribeTokenBought
  <2>2. nextEvent' \in Nat \ {0}
    <3>1. blockNumber \in Int
      BY <1>0, ListenerAssumption DEF TypeOK, Blocks
    <3>2. nextEvent' = FirstFrom(blockNumber)
      BY DEF SubscribeTokenBought
    <3> QED  BY <3>1, <3>2, <1>0, FirstFromType
  <2> QED  BY <1>0, <1>u, <2>1, <2>2 DEF TypeOK
<1>2. Locks'
  BY <1>0, <1>u DEF Locks
<1>3. TimerShape'
  BY <1>0, <1>u, <1>1, ListenerAssumption, NilIsNoEvent DEF TimerShape,
     NoDeadTimer, Busy, TypeOK, Locks, SubscribeTokenBought
<1>4. StartShape'
  BY <1>0, <1>u, <1>1, ListenerAssumption, NilIsNoEvent DEF StartShape,
     TypeOK, SubscribeTokenBought
<1>5. SubscriptionsCovered'
  BY <1>0, <1>u, <1>1, ListenerAssumption, NilIsNoEvent DEF
     SubscriptionsCovered, Covered, Busy, TypeOK, Locks, TimerShape,
     StartShape, SubscribeTokenBought
<1>6. Sales'
  BY <1>0, <1>u DEF Sales
<1>7. Resolved'
  BY <1>0, <1>u DEF Resolved, ProcessedIsResolved, RowStays
<1> QED  BY <1>1, <1>2, <1>3, <1>4, <1>5, <1>6, <1>7 DEF Inv

\* The timer is started for the earliest row the check has kept.
LEMMA startTokenBoughtTimerInv ==
  ASSUME Inv, startTokenBoughtTimer
  PROVE  Inv'
<1> USE DEF chainVars, tables, dbVars, startVars, timerVars, eventVars
<1>0. /\ TypeOK /\ Locks /\ TimerShape /\ StartShape /\ SubscriptionsCovered
   /\ Sales /\ Resolved
  BY DEF Inv
<1>u. UNCHANGED <<now, status, log, db, cancellations, unsaved, refused, loaded, toCheck,
   startStatus, mutex, handler, ev, nextEvent, blockNumber, mint, notified,
   failures, kills>>
  BY DEF startTokenBoughtTimer, Arm, Earliest
<1>1. TypeOK'
  <2>1. proc' \in {"down", "checking", "watching", "up"}
    BY <1>0, ListenerAssumption DEF TypeOK, startTokenBoughtTimer, Arm,
       Earliest
  <2>2. timer' \in {"nil", "idle", "armed"}
    BY <1>0, ListenerAssumption DEF TypeOK, startTokenBoughtTimer, Arm,
       Earliest
  <2>3. timerSub' \in Tokens \cup {Nil}
    BY <1>0, ListenerAssumption DEF TypeOK, startTokenBoughtTimer, Arm,
       Earliest
  <2> QED  BY <1>0, <1>u, <2>1, <2>2, <2>3 DEF TypeOK
<1>2. Locks'
  BY <1>0, <1>u DEF Locks
<1>3. TimerShape'
  BY <1>0, <1>u, <1>1, ListenerAssumption, NilIsNoEvent DEF TimerShape,
     NoDeadTimer, Busy, TypeOK, Locks, startTokenBoughtTimer, Arm, Earliest
<1>4. StartShape'
  BY <1>0, <1>u, <1>1, ListenerAssumption, NilIsNoEvent DEF StartShape,
     TypeOK, startTokenBoughtTimer, Arm, Earliest
<1>5. SubscriptionsCovered'
  BY <1>0, <1>u, <1>1, ListenerAssumption, NilIsNoEvent DEF
     SubscriptionsCovered, Covered, Busy, TypeOK, Locks, TimerShape,
     StartShape, startTokenBoughtTimer, Arm, Earliest
<1>6. Sales'
  BY <1>0, <1>u DEF Sales
<1>7. Resolved'
  BY <1>0, <1>u DEF Resolved, ProcessedIsResolved, RowStays
<1> QED  BY <1>1, <1>2, <1>3, <1>4, <1>5, <1>6, <1>7 DEF Inv

\* Every step keeps the invariant.
LEMMA NextInv == Inv /\ [Next]_vars => Inv'
<1> SUFFICES ASSUME Inv, [Next]_vars
             PROVE  Inv'
  OBVIOUS
<1>1. CASE Tick
  BY <1>1, TickInv
<1>2. CASE \E t \in Tokens : Buy(t) \/ Mint(t) \/ MintStep(t)
  BY <1>2, BuyInv, MintInv, AddTokenBoughtSubscriptionInv, CommitAddedInv,
     SubscribeTokenBoughtEventInv DEF MintStep
<1>3. CASE Deliver \/ Resubscribe
  BY <1>3, DeliverInv, ResubscribeInv
<1>4. CASE EventStep
  BY <1>4, EventLookupInv, EventNotifyInv, EventCommitInv, EventResetInv,
     EventResetEndsInv, NilTimerInv, ListenerFailsInv DEF EventStep
<1>5. CASE \E h \in Handlers : Fire(h) \/ TimeoutStep(h)
  BY <1>5, FireInv, TimeoutCheckInv, TimeoutNotifyInv, TimeoutRecordInv,
     TimeoutRemoveInv, TimeoutCommitInv, TimeoutResetInv, TimeoutResetEndsInv,
     NilSubscriptionInv DEF TimeoutStep
<1>6. CASE StartStep
  BY <1>6, NewInv, StartupCheckInv, StartupCheckFailsInv,
     SubscribeTokenBoughtInv, startTokenBoughtTimerInv DEF StartStep
<1>7. CASE Kill
  BY <1>7, KillInv
<1>8. CASE OtherWrites \/ OtherCommits
  BY <1>8, OtherSessionInv
<1>9. CASE UNCHANGED vars
  BY <1>9
     DEF vars, Inv, TypeOK, Locks, TimerShape, NoDeadTimer, Busy, StartShape,
         SubscriptionsCovered, Covered, Sales, Resolved, ProcessedIsResolved,
         RowStays
<1> QED  BY <1>1, <1>2, <1>3, <1>4, <1>5, <1>6, <1>7, <1>8, <1>9 DEF Next

-----------------------------------------------------------------------------

\* Inv is an invariant of the listener: Sales, TimerShape, Locks and
\* StartShape are what SubscriptionsCovered needs to be inductive.
THEOREM Invariance == Spec => []Inv
BY InitInv, NextInv, PTL DEF Spec

\* The listener's state keeps the shape of its declarations.
THEOREM TypeCorrect == Spec => []TypeOK
<1>1. Inv => TypeOK
  BY DEF Inv
<1> QED  BY <1>1, Invariance, PTL

\* No stored subscription is forgotten by the goroutines that share the timer,
\* for any number of tokens and of concurrent timeout handlers.
THEOREM SubscriptionsCoveredHolds == Spec => []SubscriptionsCovered
<1>1. Inv => SubscriptionsCovered
  BY DEF Inv
<1> QED  BY <1>1, Invariance, PTL

\* A timer that is not armed holds no subscription unless a handler that will
\* reset it is running.
THEOREM NoDeadTimerHolds == Spec => []NoDeadTimer
<1>1. Inv => NoDeadTimer
  BY DEF Inv, TimerShape
<1> QED  BY <1>1, Invariance, PTL

\* The partner plugin is told of a purchase only if there was one.
THEOREM BoughtIsTrueHolds == Spec => []BoughtIsTrue
<1>1. Inv => BoughtIsTrue
  BY DEF Inv, Sales, BoughtIsTrue
<1> QED  BY <1>1, Invariance, PTL

\* The block of an event is stored as processed only when the subscription of
\* its token is gone.
THEOREM ProcessedIsResolvedHolds == Spec => []ProcessedIsResolved
<1>1. Inv => ProcessedIsResolved
  BY DEF Inv, Resolved
<1> QED  BY <1>1, Invariance, PTL

\* The row an event handler has read is still there when it removes it.
THEOREM RowStaysHolds == Spec => []RowStays
<1>1. Inv => RowStays
  BY DEF Inv, Resolved
<1> QED  BY <1>1, Invariance, PTL
=============================================================================
