------------------------- MODULE ApplicationProofs -------------------------
(***************************************************************************)
(* Proofs about the process of cmd/superagent: no dependency is closed     *)
(* under a request or a Step that still uses it, and Run returns clean,    *)
(* for every number of MCP servers, requests and Steps.                    *)
(***************************************************************************)
EXTENDS Application, TLAPS

Serving == {"await_worker", "serve", "shutdown_http", "stop_worker", "join_worker",
            "join_server"}

(* What each variable holds.                                               *)
AppType ==
    /\ main \in Serving \cup {"build", "close", "returned"}
    /\ stage \in 1..10
    /\ owned \in [Resources -> {"none", "open", "closed"}]
    /\ lifecycle \in {"stopped", "starting", "ready"}
    /\ worker \in {"none", "starting", "listening", "returned"}
    /\ workerErr \in {"empty", "full", "received"}
    /\ server \in {"none", "starting", "listening", "returned"}
    /\ serverErr \in {"empty", "full", "received"}
    /\ steps \in Nat /\ requests \in Nat

(* build has opened what the stages before the current one open; serving   *)
(* closes nothing; and the tools are offered only in between.              *)
OpenedInv ==
    /\ main = "build" =>
          /\ stage > 1 => owned["mcp"] = "open"
          /\ stage > 4 => owned["transport"] = "open"
          /\ stage > 6 => owned["cache"] = "open"
          /\ stage > 8 => owned["dexClient"] = "open"
          /\ stage > 2 => lifecycle = "ready"
    /\ main \in Serving =>
          (\A r \in Resources : owned[r] = "open") /\ lifecycle = "ready"
    /\ main = "returned" => \A r \in Resources : owned[r] # "open"
    /\ owned["mcp"] # "open" => lifecycle = "stopped"
    /\ lifecycle = "starting" => main = "build" /\ stage = DiscoveryStage

(* The goroutines exist only while main serves, and each result waits in   *)
(* its channel until main has received it.                                 *)
GoroutineInv ==
    /\ main = "build" => worker = "none" /\ server = "none"
    /\ main = "await_worker" => server = "none"
    /\ main \in {"close", "returned"} =>
          worker \in {"none", "returned"} /\ server \in {"none", "returned"}
    /\ worker = "returned" <=> workerErr # "empty"
    /\ server = "returned" <=> serverErr # "empty"
    /\ main = "join_server" => workerErr = "received"
    /\ ready <=> main = "serve"

(* What is in flight once main has stopped waiting for it.                 *)
DrainedInv ==
    /\ server = "none" => requests = 0
    /\ worker = "none" => steps = 0
    /\ worker = "returned" => steps = 0 \/ "worker" \in overran
    /\ main \in {"stop_worker", "join_worker", "join_server"} =>
          isShutdown /\ (requests = 0 \/ "http" \in overran)
    /\ main \in {"close", "returned"} => requests = 0 \/ "http" \in overran

AppInv == AppType /\ OpenedInv /\ GoroutineInv /\ DrainedInv

-----------------------------------------------------------------------------
USE DEF registryVars, workerVars, serverVars, NoDiscovery, DiscoveryStage

(* The stages of build, as build numbers them.                             *)
LEMMA StageTable ==
    /\ Len(Stages) = 9
    /\ \A i \in 1..9 : Stages[i].opens \in Resources \cup {"nothing"}
    /\ Stages[1].opens = "mcp" /\ Stages[4].opens = "transport"
    /\ Stages[6].opens = "cache" /\ Stages[8].opens = "dexClient"
  BY DEF Stages, Stage, Resources

(* CloseOrder names every resource.                                        *)
LEMMA ClosesEverything ==
    /\ DOMAIN CloseOrder = 1..4
    /\ \A i \in 1..4 : CloseOrder[i] \in Resources
    /\ \A r \in Resources : \E i \in 1..4 : CloseOrder[i] = r
<1>1. DOMAIN CloseOrder = 1..4
  BY DEF CloseOrder
<1>2. /\ CloseOrder[1] = "dexClient" /\ CloseOrder[2] = "cache" /\ CloseOrder[3] = "mcp"
      /\ CloseOrder[4] = "transport"
  BY DEF CloseOrder
<1>3. \A i \in 1..4 : CloseOrder[i] \in Resources
  BY <1>2 DEF Resources
<1>4. \A r \in Resources : \E i \in 1..4 : CloseOrder[i] = r
  BY <1>2 DEF Resources
<1> QED
  BY <1>1, <1>3, <1>4

(* One stage opens what it names, or build fails with what it has.         *)
LEMMA BuildStep == ASSUME AppInv, Build PROVE AppInv'
<1> USE DEF AppInv
<1>1. CASE BuildStage
  <2>1. /\ main = "build" /\ stage \in 1..9 /\ stage # 2
        /\ UNCHANGED <<registryVars, workerVars, serverVars, overran, ready>>
    BY <1>1, StageTable DEF BuildStage, AppType
  <2>2. CASE main' = "close" /\ UNCHANGED <<stage, owned>>
    BY <2>1, <2>2 DEF AppType, OpenedInv, GoroutineInv, DrainedInv, Serving
  <2>3. CASE /\ stage' = stage + 1 /\ UNCHANGED main
             /\ owned' = [r \in Resources |->
                             IF r = Stages[stage].opens THEN "open" ELSE owned[r]]
    <3>1. AppType'
      BY <2>1, <2>3 DEF AppType, Serving
    <3>2. /\ \A r \in Resources : owned[r] = "open" => owned'[r] = "open"
          /\ stage = 1 => owned'["mcp"] = "open"
          /\ stage = 4 => owned'["transport"] = "open"
          /\ stage = 6 => owned'["cache"] = "open"
          /\ stage = 8 => owned'["dexClient"] = "open"
      BY <2>3, StageTable DEF Resources
    <3>3. \A r \in Resources : owned'[r] # "open" => owned[r] # "open"
      BY <3>2
    <3>4. OpenedInv'
      BY <2>1, <2>3, <3>2, <3>3 DEF OpenedInv, AppType, Serving, Resources
    <3> QED BY <2>1, <2>3, <3>1, <3>4 DEF GoroutineInv, DrainedInv
  <2> QED BY <1>1, <2>2, <2>3 DEF BuildStage
<1>2. CASE BeginDiscovery
  BY <1>2 DEF BeginDiscovery, AppType, OpenedInv, GoroutineInv, DrainedInv, Serving
<1>3. CASE DiscoverServer
  BY <1>3 DEF DiscoverServer, AppType, OpenedInv, GoroutineInv, DrainedInv, Serving
<1>4. CASE EndDiscovery
  <2>1. main = "build" /\ stage = 2
    BY <1>4 DEF EndDiscovery, OpenedInv
  <2> QED
    BY <1>4, <2>1 DEF EndDiscovery, AppType, OpenedInv, GoroutineInv, DrainedInv, Serving
<1> QED
  BY <1>1, <1>2, <1>3, <1>4 DEF Build

(* Nothing is closed while main serves, shuts down or joins.               *)
LEMMA ServeStep ==
  ASSUME AppInv,
         \/ StartWorker \/ WorkerNotAwaited \/ WorkerAwaited \/ StopServing
         \/ BeginShutdown \/ EndShutdown \/ BeginStop \/ EndStop \/ JoinWorker \/ JoinServer
  PROVE  AppInv'
<1> USE DEF AppInv, AppType, OpenedInv, GoroutineInv, DrainedInv, Serving
<1>1. CASE StartWorker
  BY <1>1, StageTable DEF StartWorker, Resources
<1>2. CASE WorkerNotAwaited
  BY <1>2 DEF WorkerNotAwaited, ReceiveWorkerErr
<1>3. CASE WorkerAwaited
  BY <1>3 DEF WorkerAwaited
<1>4. CASE StopServing
  BY <1>4 DEF StopServing, ReceiveWorkerErr, ReceiveServerErr
<1>5. CASE BeginShutdown \/ BeginStop
  BY <1>5 DEF BeginShutdown, BeginStop
<1>6. CASE EndShutdown
  BY <1>6 DEF EndShutdown, RequestsEnded
<1>7. CASE EndStop
  BY <1>7 DEF EndStop, StepsEnded
<1>8. CASE JoinWorker
  BY <1>8 DEF JoinWorker, ReceiveWorkerErr
<1>9. CASE JoinServer
  BY <1>9 DEF JoinServer, ReceiveServerErr
<1> QED
  BY <1>1, <1>2, <1>3, <1>4, <1>5, <1>6, <1>7, <1>8, <1>9

(* close ends with nothing open, and with the registry no tools.           *)
LEMMA CloseStep == ASSUME AppInv, CloseResource \/ Return PROVE AppInv'
<1> USE DEF AppInv, AppType, OpenedInv, GoroutineInv, DrainedInv, Serving
<1>1. CASE CloseResource
  <2>1. PICK r \in Resources :
            /\ owned' = [owned EXCEPT ![r] = "closed"]
            /\ IF r = "mcp" THEN lifecycle' = "stopped" /\ discovered' = 0
               ELSE UNCHANGED registryVars
    BY <1>1, ClosesEverything DEF CloseResource
  <2>2. owned'["mcp"] = IF r = "mcp" THEN "closed" ELSE owned["mcp"]
    BY <2>1 DEF Resources
  <2> QED BY <1>1, <2>1, <2>2 DEF CloseResource
<1>2. CASE Return
  <2>1. \A r \in Resources : owned[r] # "open"
    BY <1>2, ClosesEverything DEF Return
  <2> QED BY <1>2, <2>1 DEF Return
<1> QED
  BY <1>1, <1>2

(* The Worker, the server and their clients, in any order.                 *)
LEMMA EnvironmentStep ==
  ASSUME AppInv,
         \/ WorkerListens \/ WorkerReturns \/ StepBegins \/ StepEnds
         \/ ServerListens \/ ServerReturns \/ RequestBegins \/ RequestEnds
         \/ PortTaken \/ Cancel
  PROVE  AppInv'
<1> USE DEF AppInv, AppType, OpenedInv, GoroutineInv, DrainedInv, Serving
<1>1. CASE WorkerListens \/ StepBegins \/ StepEnds
  BY <1>1 DEF WorkerListens, StepBegins, StepEnds
<1>2. CASE WorkerReturns
  BY <1>2 DEF WorkerReturns, IsServing, StepsEnded
<1>3. CASE ServerListens \/ RequestBegins \/ RequestEnds
  BY <1>3 DEF ServerListens, RequestBegins, RequestEnds
<1>4. CASE ServerReturns
  BY <1>4 DEF ServerReturns, IsServing
<1>5. CASE PortTaken \/ Cancel
  BY <1>5 DEF PortTaken, Cancel
<1> QED
  BY <1>1, <1>2, <1>3, <1>4, <1>5

(* The invariant both theorems rest on.                                    *)
LEMMA AppInvariant == Spec => []AppInv
<1>1. Init => AppInv
  BY DEF Init, AppInv, AppType, OpenedInv, GoroutineInv, DrainedInv, Serving, Resources
<1>2. AppInv /\ [Next]_vars => AppInv'
  <2> SUFFICES ASSUME AppInv, [Next]_vars PROVE AppInv'
    OBVIOUS
  <2>1. CASE UNCHANGED vars
    BY <2>1 DEF vars, AppInv, AppType, OpenedInv, GoroutineInv, DrainedInv
  <2> QED
    BY <2>1, BuildStep, ServeStep, CloseStep, EnvironmentStep DEF Next, Run
<1> QED
  BY <1>1, <1>2, PTL DEF Spec

(* A request or a Step never finds a dependency closed, unless a bounded   *)
(* shutdown ran out of time, and readiness is only reported while all are  *)
(* open (app.go:207).                                                      *)
THEOREM DependenciesOutliveUse == Spec => []UsedWhileOpen
<1>1. AppInv => UsedWhileOpen
  BY DEF AppInv, AppType, OpenedInv, GoroutineInv, DrainedInv, UsedWhileOpen, Serving,
         Resources
<1> QED
  BY <1>1, AppInvariant, PTL

(* However Run ends, it leaves nothing open, no goroutine and no tool      *)
(* behind (app.go:182).                                                    *)
THEOREM RunCleansUp == Spec => []ReturnsClean
<1>1. AppInv => ReturnsClean
  BY DEF AppInv, AppType, OpenedInv, GoroutineInv, ReturnsClean, Resources
<1> QED
  BY <1>1, AppInvariant, PTL
=============================================================================
