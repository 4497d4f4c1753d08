---------------------------- MODULE AppLifecycle ----------------------------
(***************************************************************************)
(* The life of the application (internal/app, cmd): construction, the      *)
(* goroutines of Run with the components they start and wait for, and the  *)
(* stop goroutines that a signal or a first error releases.  Each          *)
(* component is reduced to the goroutines and channels through which it    *)
(* starts, fails and stops.                                                *)
(*                                                                         *)
(* The four cancellation subscriptions are made and ended together and are *)
(* one here.  A panic of a goroutine of the group and an error it returns  *)
(* are the same to safeGo.  A call with an ended context fails.            *)
(***************************************************************************)
EXTENDS FiniteSets

CONSTANT Configs   \* the configurations: which of "client" and "server" is enabled

VARIABLES
  life,        \* stage of NewApp, "running", then "returned"
  result,      \* what rootFunc returns
  config,      \* the configuration of this run
  ctx,         \* TRUE when the context of Run has ended
  err,         \* TRUE when the errgroup holds an error
  failed,      \* history: something failed while the context was alive
  job,         \* where each goroutine of the errgroup is
  started,     \* the closed xxxStarted channels
  loop,        \* the processor's loop over received messages
  handler,     \* goroutines of the token and of the cancellation events
  stored,      \* unsubscribe functions the event listener has stored
  unsubscribed,\* the ones that were called
  subErr,      \* TRUE when the subscriber's errChan is closed
  stopChan,    \* TRUE when the subscriber's stopChan is closed
  forward,     \* the goroutine that hands the subscriber's error on
  cancelSync,  \* TRUE when the messenger's cancelSync is set
  doneChan,    \* TRUE when the messenger's syncerDoneChan is made
  sync,        \* the sync goroutine
  client,      \* TRUE while the matrix client is open
  grpc,        \* the goroutine that serves gRPC
  grpcStopped

core == <<life, result, config, failed>>
group == <<ctx, err, job>>
listener == <<handler, stored, unsubscribed, subErr, stopChan, forward>>
messenger == <<cancelSync, doneChan, sync, client>>
server == <<grpc, grpcStopped>>
appVars == <<core, group, started, loop, listener, messenger, server>>

Kinds == {"token", "cancellation"}
Runs == {"listener", "processor", "messenger"}
Stops == {"stopMessenger", "stopListener"}
Group == Runs \cup Stops
  \cup (IF "server" \in config THEN {"server", "stopServer"} ELSE {})
  \cup (IF "client" \in config THEN {"stopClient"} ELSE {})

AppInit ==
  /\ life = "chain" /\ result = "none"
  /\ config \in Configs
  /\ ctx = FALSE /\ err = FALSE /\ failed = FALSE
  /\ job = [g \in {} |-> "new"]
  /\ started = {} /\ loop = "none"
  /\ handler = [k \in Kinds |-> "none"]
  /\ stored = {} /\ unsubscribed = {}
  /\ subErr = FALSE /\ stopChan = FALSE /\ forward = "none"
  /\ cancelSync = FALSE /\ doneChan = FALSE /\ sync = "none"
  /\ client = TRUE
  /\ grpc = "none" /\ grpcStopped = FALSE

At(g, stage) == life = "running" /\ g \in DOMAIN job /\ job[g] = stage

Step(g, stage) ==
  job' = [job EXCEPT ![g] = stage] /\ UNCHANGED <<ctx, err>>

\* A goroutine of the group returns; its error ends the context.
safeGo(g, e) ==
  /\ job' = [job EXCEPT ![g] = "done"]
  /\ err' = (err \/ e)
  /\ ctx' = (ctx \/ e)

Fails == failed' = (failed \/ ~ctx) /\ UNCHANGED <<life, result, config>>

-----------------------------------------------------------------------------
(* rootFunc and NewApp.                                                    *)

\* SIGINT or SIGTERM, once Run derives its context the same for all.
Signal ==
  /\ life # "returned" /\ ~ctx
  /\ ctx' = TRUE
  /\ UNCHANGED <<core, err, job, started, loop, listener, messenger, server>>

\* An error of NewApp ends the program, without an error when the context ended.
rootFunc ==
  /\ life' = "returned"
  /\ result' \in IF ctx THEN {"nil", "error"} ELSE {"error"}
  /\ UNCHANGED <<config, failed, group, started, loop, listener, messenger, server>>

Leave(from, to) ==
  /\ life = from /\ life' = to
  /\ UNCHANGED <<result, config, failed, group, started, loop, listener, messenger,
                 server>>

\* A constructor that fails ends NewApp; one that calls with the context does.
Build(from, to) == life = from /\ ((~ctx /\ Leave(from, to)) \/ rootFunc)
BuildLocal(from, to) == life = from /\ (Leave(from, to) \/ rootFunc)

\* The chain's id, the plugin's client, the services over contracts.
DialChain == Build("chain", "client")
NewClient == IF "client" \in config THEN BuildLocal("client", "services")
                                    ELSE Leave("client", "services")
NewServices == Build("services", "listenerStorage")

\* The listener with its database and its subscriber at the latest block.
NewListenerStorage == Build("listenerStorage", "listener")
NewListener == Build("listener", "matrix")

\* The matrix client logs in, then the databases of encoder and resolver open.
NewMatrixClient == Build("matrix", "stores")
NewStores == Build("stores", "messenger")

NewMessenger == BuildLocal("messenger", "server")

NewServer ==
  /\ life = "server"
  /\ \/ /\ life' = "running"
        /\ job' = [g \in Group |-> "start"]
        /\ UNCHANGED <<result, config, failed, ctx, err, started, loop, listener,
                       messenger, server>>
     \/ "server" \in config /\ rootFunc

-----------------------------------------------------------------------------
(* The event listener and its subscriber.                                  *)

\* startTokenBoughtSubscriptions and startCancellationSubscriptions begin with
\* calls to the database, the chain and the plugin.
StartupChecks(stage, next) ==
  /\ At("listener", stage)
  /\ \/ ~ctx /\ Step("listener", next) /\ UNCHANGED core
     \/ safeGo("listener", TRUE) /\ Fails
  /\ UNCHANGED <<started, loop, listener, messenger, server>>

Subscribe(k) ==
  /\ handler' = [handler EXCEPT ![k] = "running"]
  /\ stored' = stored \cup {k}
  /\ UNCHANGED <<unsubscribed, subErr, stopChan>>

StartTokenBought ==
  /\ At("listener", "token")
  /\ Subscribe("token") /\ Step("listener", "checked")
  /\ UNCHANGED <<core, started, loop, forward, messenger, server>>

\* With the last subscription Start returns: the error is forwarded from now on.
StartCancellation ==
  /\ At("listener", "cancellation")
  /\ Subscribe("cancellation") /\ Step("listener", "wait")
  /\ forward' = "waiting"
  /\ started' = started \cup {"listener"}
  /\ UNCHANGED <<core, loop, messenger, server>>

\* An event handler panics, with a nil partner plugin for one.  The goroutine
\* offers the error until it is taken or the subscriber is stopped.
HandlerPanics(k) ==
  /\ life = "running"
  /\ handler[k] = "running"
  /\ handler' = [handler EXCEPT ![k] = "panicked"]
  /\ Fails
  /\ UNCHANGED <<group, started, loop, stored, unsubscribed, subErr, stopChan,
                 forward, messenger, server>>

OfferError(k) ==
  /\ life = "running"
  /\ handler[k] = "panicked"
  /\ \/ /\ forward = "waiting" /\ ~subErr
        /\ forward' = "error"
        /\ UNCHANGED <<life, result>>
     \/ stopChan /\ UNCHANGED <<forward, life, result>>
     \/ subErr /\ life' = "returned" /\ result' = "crash" /\ UNCHANGED forward
  /\ handler' = [handler EXCEPT ![k] = "gone"]
  /\ UNCHANGED <<config, failed, group, started, loop, stored, unsubscribed,
                 subErr, stopChan, messenger, server>>

HandlerEnds(k) ==
  /\ life = "running"
  /\ handler[k] = "running" /\ k \in unsubscribed
  /\ handler' = [handler EXCEPT ![k] = "gone"]
  /\ UNCHANGED <<core, group, started, loop, stored, unsubscribed, subErr,
                 stopChan, forward, messenger, server>>

\* The goroutine of the first subscription waits for all handlers.
CloseErrChan ==
  /\ life = "running" /\ ~subErr
  /\ \E k \in Kinds : handler[k] # "none"
  /\ \A k \in Kinds : handler[k] \in {"none", "gone"}
  /\ subErr' = TRUE
  /\ UNCHANGED <<core, group, started, loop, handler, stored, unsubscribed,
                 stopChan, forward, messenger, server>>

Forward ==
  /\ life = "running"
  /\ \/ forward = "waiting" /\ subErr /\ forward' = "nil" /\ UNCHANGED stopChan
     \/ forward = "forwarded" /\ forward' = "done" /\ stopChan' = TRUE
  /\ UNCHANGED <<core, group, started, loop, handler, stored, unsubscribed,
                 subErr, messenger, server>>

\* Mutant: what is handed over once the context ended is dropped.
ListenerFailedQuietly ==
  /\ At("listener", "wait")
  /\ forward \in {"error", "nil"}
  /\ forward' = "forwarded"
  /\ safeGo("listener", forward = "error" /\ ~ctx)
  /\ UNCHANGED <<core, started, loop, handler, stored, unsubscribed, subErr,
                 stopChan, messenger, server>>

\* Run waits for the listener's error without looking at the context.
ListenerFailed ==
  /\ At("listener", "wait")
  /\ forward \in {"error", "nil"}
  /\ forward' = "forwarded"
  /\ safeGo("listener", forward = "error")
  /\ UNCHANGED <<core, started, loop, handler, stored, unsubscribed, subErr,
                 stopChan, messenger, server>>

\* Stop unsubscribes what is stored when it runs.
StopListener ==
  /\ At("stopListener", "start") /\ ctx
  /\ unsubscribed' = stored
  /\ safeGo("stopListener", FALSE)
  /\ UNCHANGED <<core, started, loop, handler, stored, subErr, stopChan, forward,
                 messenger, server>>

-----------------------------------------------------------------------------
(* The message processor.                                                  *)

StartProcessor ==
  /\ At("processor", "start")
  /\ loop' = "running"
  /\ started' = started \cup {"processor"}
  /\ safeGo("processor", FALSE)
  /\ UNCHANGED <<core, listener, messenger, server>>

StopProcessor ==
  /\ life = "running" /\ loop = "running" /\ ctx
  /\ loop' = "stopped"
  /\ UNCHANGED <<core, group, started, listener, messenger, server>>

-----------------------------------------------------------------------------
(* The matrix messenger.                                                   *)

\* awaitChan and awaitChans: with both ready either case is taken.
Await(g, chans, next) ==
  /\ At(g, "start")
  /\ \/ chans \subseteq started /\ Step(g, next)
     \/ ctx /\ safeGo(g, FALSE)
  /\ UNCHANGED <<core, started, loop, listener, messenger, server>>

AwaitStarted == Await("messenger", {"processor", "listener"}, "rooms")

\* removeEncryptedRooms, then cancelSync is set.
StartMessenger ==
  /\ At("messenger", "rooms")
  /\ \/ ~ctx /\ cancelSync' = TRUE /\ Step("messenger", "chan") /\ UNCHANGED core
     \/ safeGo("messenger", TRUE) /\ Fails /\ UNCHANGED cancelSync
  /\ UNCHANGED <<started, loop, listener, doneChan, sync, client, server>>

\* One assignment later syncerDoneChan is made and the syncer started.
StartSyncer ==
  /\ At("messenger", "chan")
  /\ doneChan' = TRUE /\ sync' = "syncing"
  /\ started' = started \cup {"messenger"}
  /\ Step("messenger", "wait")
  /\ UNCHANGED <<core, loop, listener, cancelSync, client, server>>

SyncGoes(from, to) ==
  /\ life = "running" /\ sync = from /\ sync' = to
  /\ UNCHANGED <<group, started, loop, listener, cancelSync, doneChan, client, server>>

\* A complete message is offered to the processor's loop, context or not.
SyncMessage == SyncGoes("syncing", "offering") /\ UNCHANGED core
TakeMessage == loop = "running" /\ SyncGoes("offering", "syncing") /\ UNCHANGED core
SyncFails == SyncGoes("syncing", "failing") /\ Fails
SyncCancelled == ctx /\ SyncGoes("syncing", "closing") /\ UNCHANGED core
CloseSyncChans ==
  (SyncGoes("closing", "closed") \/ SyncGoes("closed", "done")) /\ UNCHANGED core

MessengerFailed ==
  /\ At("messenger", "wait")
  /\ \/ sync = "failing" /\ sync' = "closing" /\ safeGo("messenger", TRUE)
     \/ sync \in {"closed", "done"} /\ safeGo("messenger", FALSE) /\ UNCHANGED sync
  /\ UNCHANGED <<core, started, loop, listener, cancelSync, doneChan, client, server>>

\* Mutant: Stop waits for a syncer that was never started.
StopSyncerAlways ==
  /\ At("stopMessenger", "start") /\ ctx
  /\ Step("stopMessenger", "drain")
  /\ UNCHANGED <<core, started, loop, listener, messenger, server>>

\* Stop waits for the syncer if there is one, on the channel it finds.
StopSyncer ==
  /\ At("stopMessenger", "start") /\ ctx
  /\ Step("stopMessenger", IF ~cancelSync THEN "close"
                           ELSE IF doneChan THEN "drain" ELSE "nilChan")
  /\ UNCHANGED <<core, started, loop, listener, messenger, server>>

CloseClient ==
  /\ At("stopMessenger", "close") \/ (At("stopMessenger", "drain") /\ sync = "done")
  /\ client' = FALSE
  /\ \E e \in BOOLEAN : safeGo("stopMessenger", e)
  /\ UNCHANGED <<core, started, loop, listener, cancelSync, doneChan, sync, server>>

-----------------------------------------------------------------------------
(* The gRPC server and client.                                             *)

AwaitMessenger == Await("server", {"messenger"}, "listen")

StartServer ==
  /\ At("server", "listen")
  /\ \/ grpc' = "serving" /\ Step("server", "wait") /\ UNCHANGED core
     \/ safeGo("server", TRUE) /\ Fails /\ UNCHANGED grpc
  /\ UNCHANGED <<started, loop, listener, messenger, grpcStopped>>

Serve ==
  /\ life = "running" /\ grpc = "serving"
  /\ \/ grpcStopped /\ grpc' = "closed" /\ UNCHANGED core
     \/ ~grpcStopped /\ grpc' = "failing" /\ Fails
  /\ UNCHANGED <<group, started, loop, listener, messenger, grpcStopped>>

ServerFailed ==
  /\ At("server", "wait")
  /\ grpc \in {"failing", "closed"}
  /\ grpc' = "closed"
  /\ safeGo("server", grpc = "failing")
  /\ UNCHANGED <<core, started, loop, listener, messenger, grpcStopped>>

StopServer ==
  /\ At("stopServer", "start") /\ ctx
  /\ grpcStopped' = TRUE
  /\ safeGo("stopServer", FALSE)
  /\ UNCHANGED <<core, started, loop, listener, messenger, grpc>>

Shutdown ==
  /\ At("stopClient", "start") /\ ctx
  /\ \E e \in BOOLEAN : safeGo("stopClient", e)
  /\ UNCHANGED <<core, started, loop, listener, messenger, server>>

\* g.Wait returns the first error.
Wait ==
  /\ life = "running"
  /\ \A g \in DOMAIN job : job[g] = "done"
  /\ life' = "returned" /\ result' = (IF err THEN "error" ELSE "nil")
  /\ UNCHANGED <<config, failed, group, started, loop, listener, messenger, server>>

-----------------------------------------------------------------------------
Construct ==
  \/ DialChain \/ NewClient \/ NewServices \/ NewListenerStorage \/ NewListener
  \/ NewMatrixClient \/ NewStores \/ NewMessenger \/ NewServer

RunListener ==
  \/ StartupChecks("start", "token") \/ StartTokenBought
  \/ StartupChecks("checked", "cancellation") \/ StartCancellation
  \/ ListenerFailed

RunMessenger == AwaitStarted \/ StartMessenger \/ StartSyncer \/ MessengerFailed
RunServer == AwaitMessenger \/ StartServer \/ ServerFailed
Syncer == TakeMessage \/ SyncCancelled \/ CloseSyncChans

AppNext ==
  \/ Construct \/ Signal
  \/ RunListener \/ StopListener \/ CloseErrChan \/ Forward
  \/ \E k \in Kinds : HandlerPanics(k) \/ OfferError(k) \/ HandlerEnds(k)
  \/ StartProcessor \/ StopProcessor
  \/ RunMessenger \/ StopSyncer \/ CloseClient
  \/ Syncer \/ SyncMessage \/ SyncFails
  \/ RunServer \/ Serve \/ StopServer \/ Shutdown
  \/ Wait

\* Every goroutine that can go on does so; a signal, a message, a panic and a
\* failure of the syncer or of the server need never come.
AppFairness ==
  /\ WF_appVars(Construct)
  /\ WF_appVars(RunListener) /\ WF_appVars(StopListener)
  /\ WF_appVars(CloseErrChan) /\ WF_appVars(Forward)
  /\ \A k \in Kinds : WF_appVars(OfferError(k) \/ HandlerEnds(k))
  /\ WF_appVars(StartProcessor) /\ WF_appVars(StopProcessor)
  /\ WF_appVars(RunMessenger) /\ WF_appVars(StopSyncer \/ CloseClient)
  /\ WF_appVars(Syncer)
  /\ WF_appVars(RunServer) /\ WF_appVars(grpcStopped /\ Serve)
  /\ WF_appVars(StopServer) /\ WF_appVars(Shutdown)
  /\ WF_appVars(Wait)

AppSpec == AppInit /\ [][AppNext]_appVars
AppFairSpec == AppSpec /\ AppFairness

-----------------------------------------------------------------------------
\* Whatever fails in a component while the context is alive, a panic in an
\* event handler included, is an error of the program: it reaches rootFunc
\* through the channels of its component and the errgroup, also when the
\* application is stopped at the same time.
FailureSurfaces == result = "nil" => ~failed

\* Where Run can be left waiting.  The syncer offers a message that the stopped
\* loop does not take; Stop of the messenger ran between its two assignments;
\* Stop of the listener ran before the cancellation subscriptions were stored.
Stranded ==
  \/ sync = "offering" /\ loop = "stopped"
  \/ At("stopMessenger", "nilChan")
  \/ At("stopListener", "done") /\ "cancellation" \in stored \ unsubscribed

\* Once the context has ended, by a signal or by the first error, Run comes to
\* its end, wherever start-up is, or is left in one of the states above.
RunReturns == ctx ~> (life = "returned" \/ Stranded)

=============================================================================
