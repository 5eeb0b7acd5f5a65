---------------------------- MODULE Application ----------------------------
(***************************************************************************)
(* The process of cmd/superagent: internal/app builds the dependencies,    *)
(* serves with a Worker and an HTTP server beside the main goroutine, and  *)
(* closes what it built; internal/mcp discovers tools while it builds.     *)
(*                                                                         *)
(* The Dex Worker and net/http are external.  Worker.Start blocks until    *)
(* the Worker fails or is stopped, and it returns with Steps still running *)
(* only when Stop ran out of time.  ListenAndServe returns as soon as      *)
(* Shutdown is called, Shutdown when the requests have ended.              *)
(***************************************************************************)
EXTENDS Integers, Sequences

CONSTANTS
    Servers,      \* number of configured MCP servers
    MaxRequests,  \* bound: HTTP requests in flight
    MaxSteps      \* bound: Steps in flight in the Worker

ASSUME BoundAssumption == {Servers, MaxRequests, MaxSteps} \subseteq Nat

VARIABLES
    main,         \* where Run is
    stage,        \* the next stage of build
    cancelled,    \* whether the signal context is cancelled
    owned,        \* per resource: none, open or closed
    lifecycle,    \* of the MCP registry
    discovered,   \* servers the discovery has visited
    worker,       \* the goroutine of Worker.Start
    workerErr,    \* its channel, of capacity one
    isStopping,   \* whether Worker.Stop was called
    steps,        \* Steps the Worker runs
    isPortTaken,  \* whether another process has taken the Worker's address
    server,       \* the goroutine of ListenAndServe
    serverErr,    \* its channel, of capacity one
    isShutdown,   \* whether Server.Shutdown was called
    requests,     \* requests the server handles
    overran,      \* what its bounded shutdown gave up waiting for
    ready         \* what GetReadiness reports

registryVars == <<lifecycle, discovered>>
workerVars == <<worker, workerErr, isStopping, steps, isPortTaken>>
serverVars == <<server, serverErr, isShutdown, requests>>
vars == <<main, stage, cancelled, owned, registryVars, workerVars, serverVars, overran, ready>>

Resources == {"mcp", "transport", "cache", "dexClient"}
NoDiscovery == -1

-----------------------------------------------------------------------------
(* build: what each stage opens, and whether it can fail.                  *)
Stage(opens, canFail) == [opens |-> opens, canFail |-> canFail]
Stages == <<
    Stage("mcp", TRUE),         \* buildToolRegistry
    Stage("nothing", TRUE),     \* Registry.Start
    Stage("nothing", TRUE),     \* buildCredentials
    Stage("transport", FALSE),  \* newProviderHTTPClient
    Stage("nothing", TRUE),     \* buildModelClient, dex.NewRegistry
    Stage("cache", TRUE),       \* blobcache.New
    Stage("nothing", TRUE),     \* ensureAddressAvailable, dex.NewWorker
    Stage("dexClient", TRUE),   \* dex.NewClient
    Stage("nothing", TRUE)>>    \* httpapi.NewHTTPHandler
DiscoveryStage == 2

BuildStage ==
    /\ main = "build" /\ stage <= Len(Stages) /\ stage # DiscoveryStage
    /\ \/ /\ stage' = stage + 1
          /\ owned' = [r \in Resources |->
                          IF r = Stages[stage].opens THEN "open" ELSE owned[r]]
          /\ UNCHANGED main
       \/ /\ Stages[stage].canFail
          /\ main' = "close"
          /\ UNCHANGED <<stage, owned>>
    /\ UNCHANGED <<cancelled, registryVars, workerVars, serverVars, overran, ready>>

(* Registry.Start visits the servers one by one and publishes their tools  *)
(* together; a failure or a cancellation publishes none.                   *)
BeginDiscovery ==
    /\ main = "build" /\ stage = DiscoveryStage /\ discovered = NoDiscovery
    /\ lifecycle' = "starting" /\ discovered' = 0
    /\ UNCHANGED <<main, stage, cancelled, owned, workerVars, serverVars, overran, ready>>

DiscoverServer ==
    /\ lifecycle = "starting" /\ discovered < Servers /\ ~cancelled
    /\ discovered' = discovered + 1
    /\ UNCHANGED <<main, stage, cancelled, owned, lifecycle, workerVars, serverVars,
                   overran, ready>>

EndDiscovery ==
    /\ lifecycle = "starting"
    /\ \/ /\ discovered = Servers
          /\ lifecycle' = "ready" /\ stage' = stage + 1
          /\ UNCHANGED <<main, discovered>>
       \/ /\ discovered < Servers
          /\ lifecycle' = "stopped" /\ discovered' = 0 /\ main' = "close"
          /\ UNCHANGED stage
    /\ UNCHANGED <<cancelled, owned, workerVars, serverVars, overran, ready>>

Build == BuildStage \/ BeginDiscovery \/ DiscoverServer \/ EndDiscovery

-----------------------------------------------------------------------------
(* run and waitForWorker.                                                  *)

StartWorker ==
    /\ main = "build" /\ stage > Len(Stages)
    /\ worker' = "starting"
    /\ main' = "await_worker"
    /\ UNCHANGED <<stage, cancelled, owned, registryVars, workerErr, isStopping, steps,
                   isPortTaken, serverVars, overran, ready>>

(* The channel is received from once; afterwards it stays empty.           *)
ReceiveWorkerErr == workerErr = "full" /\ workerErr' = "received"
ReceiveServerErr == serverErr = "full" /\ serverErr' = "received"

(* The Worker returned, the context ended or two minutes passed.           *)
WorkerNotAwaited ==
    /\ main = "await_worker"
    /\ ReceiveWorkerErr \/ UNCHANGED workerErr
    /\ main' = "shutdown_http"
    /\ UNCHANGED <<stage, cancelled, owned, registryVars, worker, isStopping, steps,
                   isPortTaken, serverVars, overran, ready>>

(* A connection to the address succeeds, and the Worker has not returned.  *)
WorkerAwaited ==
    /\ main = "await_worker"
    /\ worker = "listening" \/ isPortTaken
    /\ workerErr = "empty"
    /\ ready' = TRUE
    /\ server' = "starting"
    /\ main' = "serve"
    /\ UNCHANGED <<stage, cancelled, owned, registryVars, workerVars, serverErr, isShutdown,
                   requests, overran>>

(* The select of run.                                                      *)
Mutant_ForgetsWorkerFinished ==
    /\ main = "serve"
    /\ \/ cancelled /\ UNCHANGED <<workerErr, serverErr>>
       \/ workerErr = "full" /\ workerErr' = "empty" /\ UNCHANGED serverErr
       \/ ReceiveServerErr /\ UNCHANGED workerErr
    /\ ready' = FALSE
    /\ main' = "shutdown_http"
    /\ UNCHANGED <<stage, cancelled, owned, registryVars, worker, isStopping, steps,
                   isPortTaken, server, isShutdown, requests, overran>>
StopServing ==
    /\ main = "serve"
    /\ \/ cancelled /\ UNCHANGED <<workerErr, serverErr>>
       \/ ReceiveWorkerErr /\ UNCHANGED serverErr
       \/ ReceiveServerErr /\ UNCHANGED workerErr
    /\ ready' = FALSE
    /\ main' = "shutdown_http"
    /\ UNCHANGED <<stage, cancelled, owned, registryVars, worker, isStopping, steps,
                   isPortTaken, server, isShutdown, requests, overran>>

(* shutdownServing.  Its contexts outlive the cancelled one, so only their *)
(* own timeouts end a Shutdown or a Stop early.                            *)
RequestsEnded == requests = 0
StepsEnded == steps = 0

BeginShutdown ==
    /\ main = "shutdown_http" /\ ~isShutdown
    /\ isShutdown' = TRUE
    /\ UNCHANGED <<main, stage, cancelled, owned, registryVars, workerVars, server,
                   serverErr, requests, overran, ready>>

(* Mutant: the shutdown uses the cancelled context and ends with it.       *)
Mutant_ShutdownEndsWhenCancelled ==
    /\ main = "shutdown_http" /\ isShutdown
    /\ overran' = IF RequestsEnded \/ cancelled THEN overran ELSE overran \cup {"http"}
    /\ main' = "stop_worker"
    /\ UNCHANGED <<stage, cancelled, owned, registryVars, workerVars, serverVars, ready>>
EndShutdown ==
    /\ main = "shutdown_http" /\ isShutdown
    /\ overran' = IF RequestsEnded THEN overran ELSE overran \cup {"http"}
    /\ main' = "stop_worker"
    /\ UNCHANGED <<stage, cancelled, owned, registryVars, workerVars, serverVars, ready>>

BeginStop ==
    /\ main = "stop_worker" /\ ~isStopping
    /\ isStopping' = TRUE
    /\ UNCHANGED <<main, stage, cancelled, owned, registryVars, worker, workerErr, steps,
                   isPortTaken, serverVars, overran, ready>>

EndStop ==
    /\ main = "stop_worker" /\ isStopping
    /\ overran' = IF StepsEnded THEN overran ELSE overran \cup {"worker"}
    /\ main' = "join_worker"
    /\ UNCHANGED <<stage, cancelled, owned, registryVars, workerVars, serverVars, ready>>

JoinWorker ==
    /\ main = "join_worker"
    /\ \/ workerErr = "received" /\ UNCHANGED workerErr
       \/ ReceiveWorkerErr
    /\ main' = "join_server"
    /\ UNCHANGED <<stage, cancelled, owned, registryVars, worker, isStopping, steps,
                   isPortTaken, serverVars, overran, ready>>

JoinServer ==
    /\ main = "join_server"
    /\ \/ (server = "none" \/ serverErr = "received") /\ UNCHANGED serverErr
       \/ ReceiveServerErr
    /\ main' = "close"
    /\ UNCHANGED <<stage, cancelled, owned, registryVars, workerVars, server, isShutdown,
                   requests, overran, ready>>

(* close, also after a failed build.                                       *)
Mutant_ForgetsTransport == <<"dexClient", "cache", "mcp">>
CloseOrder == <<"dexClient", "cache", "mcp", "transport">>

CloseResource ==
    /\ main = "close"
    /\ \E i \in DOMAIN CloseOrder :
          /\ owned[CloseOrder[i]] = "open"
          /\ \A j \in 1..(i - 1) : owned[CloseOrder[j]] # "open"
          /\ owned' = [owned EXCEPT ![CloseOrder[i]] = "closed"]
          /\ IF CloseOrder[i] = "mcp"
             THEN lifecycle' = "stopped" /\ discovered' = 0
             ELSE UNCHANGED registryVars
    /\ ready' = FALSE
    /\ UNCHANGED <<main, stage, cancelled, workerVars, serverVars, overran>>

Return ==
    /\ main = "close"
    /\ \A i \in DOMAIN CloseOrder : owned[CloseOrder[i]] # "open"
    /\ main' = "returned"
    /\ UNCHANGED <<stage, cancelled, owned, registryVars, workerVars, serverVars, overran,
                   ready>>

Run ==
    \/ Build \/ StartWorker \/ WorkerNotAwaited \/ WorkerAwaited \/ StopServing
    \/ BeginShutdown \/ EndShutdown \/ BeginStop \/ EndStop
    \/ JoinWorker \/ JoinServer \/ CloseResource \/ Return

-----------------------------------------------------------------------------
(* The environment: the Worker, the server, their clients and the signal.  *)
IsServing(goroutine) == goroutine \in {"starting", "listening"}

WorkerListens ==
    /\ worker = "starting" /\ ~isStopping /\ ~isPortTaken
    /\ worker' = "listening"
    /\ UNCHANGED <<main, stage, cancelled, owned, registryVars, workerErr, isStopping, steps,
                   isPortTaken, serverVars, overran, ready>>

WorkerReturns ==
    /\ IsServing(worker)
    /\ StepsEnded \/ "worker" \in overran
    /\ worker' = "returned" /\ workerErr' = "full"
    /\ UNCHANGED <<main, stage, cancelled, owned, registryVars, isStopping, steps,
                   isPortTaken, serverVars, overran, ready>>

StepBegins ==
    /\ worker = "listening" /\ ~isStopping /\ steps < MaxSteps
    /\ steps' = steps + 1
    /\ UNCHANGED <<main, stage, cancelled, owned, registryVars, worker, workerErr, isStopping,
                   isPortTaken, serverVars, overran, ready>>

StepEnds ==
    /\ steps > 0
    /\ steps' = steps - 1
    /\ UNCHANGED <<main, stage, cancelled, owned, registryVars, worker, workerErr, isStopping,
                   isPortTaken, serverVars, overran, ready>>

ServerListens ==
    /\ server = "starting" /\ ~isShutdown
    /\ server' = "listening"
    /\ UNCHANGED <<main, stage, cancelled, owned, registryVars, workerVars, serverErr,
                   isShutdown, requests, overran, ready>>

ServerReturns ==
    /\ IsServing(server)
    /\ server' = "returned" /\ serverErr' = "full"
    /\ UNCHANGED <<main, stage, cancelled, owned, registryVars, workerVars, isShutdown,
                   requests, overran, ready>>

RequestBegins ==
    /\ server = "listening" /\ ~isShutdown /\ requests < MaxRequests
    /\ requests' = requests + 1
    /\ UNCHANGED <<main, stage, cancelled, owned, registryVars, workerVars, server, serverErr,
                   isShutdown, overran, ready>>

RequestEnds ==
    /\ requests > 0
    /\ requests' = requests - 1
    /\ UNCHANGED <<main, stage, cancelled, owned, registryVars, workerVars, server, serverErr,
                   isShutdown, overran, ready>>

(* Between the preflight of the address and the bind of the Worker.        *)
PortTaken ==
    /\ main \in {"build", "await_worker"} /\ stage > 7 /\ worker # "listening"
    /\ isPortTaken' = TRUE
    /\ UNCHANGED <<main, stage, cancelled, owned, registryVars, worker, workerErr, isStopping,
                   steps, serverVars, overran, ready>>

Cancel ==
    /\ ~cancelled /\ main # "returned"
    /\ cancelled' = TRUE
    /\ UNCHANGED <<main, stage, owned, registryVars, workerVars, serverVars, overran, ready>>

Init ==
    /\ main = "build" /\ stage = 1
    /\ cancelled = FALSE
    /\ owned = [r \in Resources |-> "none"]
    /\ lifecycle = "stopped" /\ discovered = NoDiscovery
    /\ worker = "none" /\ workerErr = "empty" /\ isStopping = FALSE /\ steps = 0
    /\ isPortTaken = FALSE
    /\ server = "none" /\ serverErr = "empty" /\ isShutdown = FALSE /\ requests = 0
    /\ overran = {}
    /\ ready = FALSE

Next ==
    \/ Run
    \/ WorkerListens \/ WorkerReturns \/ StepBegins \/ StepEnds
    \/ ServerListens \/ ServerReturns \/ RequestBegins \/ RequestEnds
    \/ PortTaken \/ Cancel

Spec == Init /\ [][Next]_vars

(* The main goroutine runs, and the Worker and the server return when they *)
(* are told to stop; requests and Steps may last for ever.                 *)
FairSpec ==
    /\ Spec
    /\ WF_vars(Run)
    /\ WF_vars(isStopping /\ WorkerReturns)
    /\ WF_vars(isShutdown /\ ServerReturns)

-----------------------------------------------------------------------------
(* Whoever uses a dependency finds it open: the requests the Dex client    *)
(* and the tools, the Steps the cache, the tools and the providers, unless *)
(* a bounded shutdown ran out of time; and readiness is only ever reported *)
(* while all of them are (app.go:207).                                     *)
UsedWhileOpen ==
    LET AllOpen(resources) == \A r \in resources : owned[r] = "open"
    IN  /\ requests > 0 /\ "http" \notin overran =>
              AllOpen({"dexClient", "mcp"}) /\ lifecycle = "ready"
        /\ steps > 0 /\ "worker" \notin overran =>
              AllOpen({"cache", "mcp", "transport"}) /\ lifecycle = "ready"
        /\ ready => AllOpen(Resources) /\ lifecycle = "ready"

(* However Run ends - a failed stage, a cancelled discovery, a Worker that *)
(* never listened or stopped by itself, a signal - nothing it opened is    *)
(* left open, no goroutine is left and no tool is still offered            *)
(* (app.go:182).                                                           *)
ReturnsClean ==
    main = "returned" =>
        /\ \A r \in Resources : owned[r] # "open"
        /\ worker \in {"none", "returned"} /\ server \in {"none", "returned"}
        /\ lifecycle = "stopped" /\ ~ready

(* A signal, or the end of the Worker or of the server, always ends the    *)
(* process, whatever is in flight: every result is received once, by the   *)
(* select, by waitForWorker or by the join (app.go:215).                   *)
RunReturns ==
    (cancelled \/ worker = "returned" \/ server = "returned") ~> main = "returned"
=============================================================================
