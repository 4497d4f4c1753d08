----------------------------- MODULE MockEvents -----------------------------
(***************************************************************************)
(* The event stream of the partner plugin mock (pp-mock/events): every     *)
(* unary call sends its request as an event before it is handled, one      *)
(* goroutine passes the events on to the streams of the subscribers.  Both *)
(* channels are unbuffered, so a sender waits for its receiver, with the   *)
(* mutex it holds.                                                         *)
(***************************************************************************)
EXTENDS Naturals

CONSTANTS
  UnaryCalls,    \* calls of the mock's services
  Streams,       \* calls of Subscribe
  NoOne

ASSUME EventsAssumption ==
  NoOne \notin UnaryCalls \cup Streams \cup {"events"} /\ "events" \notin UnaryCalls

VARIABLES
  unary,              \* "idle" | "waiting" for sendMutex | "sending" | "handled"
  stream,             \* "idle" | "selecting" | "sending" | "leaving" | "left"
  subscriptionChans,  \* streams in the map
  sendMutex,          \* holder, or NoOne
  isStopped,
  events,             \* the goroutine: [stage, pending, next]
  ending              \* the context is done

eventVars == <<unary, stream, subscriptionChans, sendMutex, isStopped, events, ending>>

Selecting == [stage |-> "select", pending |-> {}, next |-> NoOne]

EventsInit ==
  /\ unary = [u \in UnaryCalls |-> "idle"]
  /\ stream = [s \in Streams |-> "idle"]
  /\ subscriptionChans = {}
  /\ sendMutex = NoOne /\ isStopped = FALSE
  /\ events = Selecting
  /\ ending = FALSE

\* propagate holds the read lock while it sends.
ReadLocked == events.stage = "propagate"

-----------------------------------------------------------------------------
(* When a goroutine that waits for a lock or for the other end of a channel *)
(* may go on.                                                               *)

MutexFree(u) == unary[u] = "waiting" /\ sendMutex = NoOne
EventTaken(u) == unary[u] = "sending" /\ events.stage = "select"
ChanChosen(s) == ReadLocked /\ events.next = NoOne /\ s \in events.pending
StreamReceives(s) == ReadLocked /\ events.next = s /\ stream[s] = "selecting"
AllPassedOn == ReadLocked /\ events.pending = {}
EventReceived(s) == stream[s] = "sending"
LeaverHasLock(s) == stream[s] = "leaving" /\ ~ReadLocked

-----------------------------------------------------------------------------
(* Unary calls.                                                            *)

eventSenderInterceptor(u) ==
  /\ unary[u] = "idle"
  /\ unary' = [unary EXCEPT ![u] = "waiting"]
  /\ UNCHANGED <<stream, subscriptionChans, sendMutex, isStopped, events, ending>>

\* A stopped sender drops the event.
SendProtoEvent(u) ==
  /\ MutexFree(u)
  /\ IF isStopped
     THEN unary' = [unary EXCEPT ![u] = "handled"] /\ UNCHANGED sendMutex
     ELSE unary' = [unary EXCEPT ![u] = "sending"] /\ sendMutex' = u
  /\ UNCHANGED <<stream, subscriptionChans, isStopped, events, ending>>

-----------------------------------------------------------------------------
(* The goroutine.                                                          *)

TakeEvent(u) ==
  /\ EventTaken(u)
  /\ unary' = [unary EXCEPT ![u] = "handled"]
  /\ sendMutex' = NoOne
  /\ events' = [stage |-> "propagate", pending |-> subscriptionChans, next |-> NoOne]
  /\ UNCHANGED <<stream, subscriptionChans, isStopped, ending>>

\* The map is gone through in any order; each send waits for its stream.
NextChan(s) ==
  /\ ChanChosen(s)
  /\ events' = [events EXCEPT !.next = s]
  /\ UNCHANGED <<unary, stream, subscriptionChans, sendMutex, isStopped, ending>>

propagate(s) ==
  /\ StreamReceives(s)
  /\ stream' = [stream EXCEPT ![s] = "sending"]
  /\ events' = [events EXCEPT !.pending = @ \ {s}, !.next = NoOne]
  /\ UNCHANGED <<unary, subscriptionChans, sendMutex, isStopped, ending>>

Propagated ==
  /\ AllPassedOn
  /\ events' = Selecting
  /\ UNCHANGED <<unary, stream, subscriptionChans, sendMutex, isStopped, ending>>

Interrupt ==
  /\ ~ending /\ ending' = TRUE
  /\ UNCHANGED <<unary, stream, subscriptionChans, sendMutex, isStopped, events>>

\* The goroutine takes the mutex and then reads a channel that nobody closes.
StopEvents ==
  /\ ending /\ events.stage = "select" /\ sendMutex = NoOne
  /\ sendMutex' = "events" /\ isStopped' = TRUE
  /\ events' = [events EXCEPT !.stage = "draining"]
  /\ UNCHANGED <<unary, stream, subscriptionChans, ending>>

-----------------------------------------------------------------------------
(* Subscribers.                                                            *)

SubscribeStream(s) ==
  /\ stream[s] = "idle" /\ ~ReadLocked
  /\ stream' = [stream EXCEPT ![s] = "selecting"]
  /\ subscriptionChans' = subscriptionChans \cup {s}
  /\ UNCHANGED <<unary, sendMutex, isStopped, events, ending>>

\* The event goes to the client, or the stream has failed.
StreamSend(s) ==
  /\ EventReceived(s)
  /\ \E next \in {"selecting", "leaving"} : stream' = [stream EXCEPT ![s] = next]
  /\ UNCHANGED <<unary, subscriptionChans, sendMutex, isStopped, events, ending>>

StreamEnds(s) ==
  /\ stream[s] = "selecting"
  /\ stream' = [stream EXCEPT ![s] = "leaving"]
  /\ UNCHANGED <<unary, subscriptionChans, sendMutex, isStopped, events, ending>>

\* Mutant: the channel is closed but stays in the map.
UnsubscribeKeepsChan(s) ==
  /\ LeaverHasLock(s)
  /\ stream' = [stream EXCEPT ![s] = "left"]
  /\ UNCHANGED <<unary, subscriptionChans, sendMutex, isStopped, events, ending>>

unsubscribe(s) ==
  /\ LeaverHasLock(s)
  /\ stream' = [stream EXCEPT ![s] = "left"]
  /\ subscriptionChans' = subscriptionChans \ {s}
  /\ UNCHANGED <<unary, sendMutex, isStopped, events, ending>>

-----------------------------------------------------------------------------
EventSteps ==
  \/ \E u \in UnaryCalls : SendProtoEvent(u) \/ TakeEvent(u)
  \/ \E s \in Streams : NextChan(s) \/ propagate(s) \/ StreamSend(s) \/ unsubscribe(s)
  \/ Propagated

\* One of the steps of EventSteps can be taken: its guard holds.
SomeoneGoesOn ==
  \/ \E u \in UnaryCalls : MutexFree(u) \/ EventTaken(u)
  \/ \E s \in Streams :
       ChanChosen(s) \/ StreamReceives(s) \/ EventReceived(s) \/ LeaverHasLock(s)
  \/ AllPassedOn

EventsNext ==
  \/ EventSteps \/ Interrupt \/ StopEvents
  \/ \E u \in UnaryCalls : eventSenderInterceptor(u)
  \/ \E s \in Streams : SubscribeStream(s) \/ StreamEnds(s)

EventsSpec == EventsInit /\ [][EventsNext]_eventVars

-----------------------------------------------------------------------------
\* Calls and streams wait for each other in a circle in one case only, as long as
\* the mock is not stopped: an event is being passed on to a stream that has left
\* and waits for the lock, which is held until the event is passed on.
StuckOnlyByLeaver ==
  (\E u \in UnaryCalls : unary[u] \in {"waiting", "sending"}) /\ ~ending =>
    \/ SomeoneGoesOn
    \/ ReadLocked /\ events.next \in Streams /\ stream[events.next] = "leaving"
=============================================================================
