------------------------ MODULE SnapshotCoordinator ------------------------
(***************************************************************************)
(* The browser's Snapshot reads: SnapshotCoordinator, which keeps one read *)
(* in flight and a timer for the next, and the part of the conversation    *)
(* reducer its callbacks drive.  The server is a counter of durable        *)
(* changes; a read is answered from it some time after it was sent and its *)
(* answer is handled some time after that.                                 *)
(*                                                                         *)
(* Only the presence of the trailing trigger is kept: the code merges the  *)
(* fields of trailing triggers but never reads them.                       *)
(***************************************************************************)
EXTENDS Naturals

CONSTANTS
    MaxVersion,  \* bound: durable changes of the Agent
    MaxRun,      \* bound: continue-as-new generations
    MaxRound,    \* bound: waiting-input rounds
    MaxEpoch,    \* bound: blocking requests
    MaxFailures  \* bound: failed reads

ASSUME CoordinatorBounds ==
    {MaxVersion, MaxRun, MaxRound, MaxEpoch, MaxFailures} \subseteq Nat

VARIABLES
    server,        \* durable state: its run, waiting round and version
    read,          \* the read in flight: `controller' and the epoch it serves
    trailing,      \* TRUE when another read must follow it
    requiredEpoch, \* the number of blocking requests
    dueAt,         \* the deadline of the fallback read
    timer,         \* TRUE when `timeout' is armed for dueAt
    isVisible,
    isStopped,
    view,          \* the conversation state, as far as reads change it
    needed,        \* history: the server's version at the last blocking request
    failures       \* history: the failed reads

coordinator == <<read, trailing, requiredEpoch, dueAt, timer, isVisible, isStopped>>
vars == <<server, coordinator, view, needed, failures>>

-----------------------------------------------------------------------------
Snapshots == [run : Nat, round : Nat, version : Nat]
Connections == {"live", "reconnecting", "stale"}

NoSnapshot == [run |-> 0, round |-> 0, version |-> 0]
NoRead == [epoch |-> 0, phase |-> "none", snapshot |-> NoSnapshot]
Sent(epoch) == [epoch |-> epoch, phase |-> "sent", snapshot |-> NoSnapshot]
HasRead == read.phase # "none"

(* The conversation state.  The fields of a state that is not "ready" keep *)
(* their initial values.                                                   *)
Views == [kind : {"loading", "failed", "ready"}, connection : Connections,
          reconciliation : {"open", "syncing", "stale"}, generation : Nat,
          pendingCommand : BOOLEAN, snapshot : Snapshots]
NotReady(kind) == [kind |-> kind, connection |-> "live", reconciliation |-> "syncing",
                   generation |-> 0, pendingCommand |-> FALSE, snapshot |-> NoSnapshot]

TypeOK ==
    /\ server \in Snapshots
    /\ read \in [epoch : Nat, phase : {"none", "sent", "loaded", "failed"},
                 snapshot : Snapshots]
    /\ requiredEpoch \in Nat
    /\ dueAt \in {"none", "ahead", "passed"}
    /\ trailing \in BOOLEAN /\ timer \in BOOLEAN
    /\ isVisible \in BOOLEAN /\ isStopped \in BOOLEAN
    /\ view \in Views
    /\ needed \in Nat /\ failures \in Nat

-----------------------------------------------------------------------------
(* What the callbacks do to the conversation state `v'.                    *)
With(v, connection, reconciliation) ==
    [kind |-> v.kind, connection |-> connection, reconciliation |-> reconciliation,
     generation |-> v.generation, pendingCommand |-> v.pendingCommand,
     snapshot |-> v.snapshot]

Requested(v, blocking, connection) ==
    IF v.kind # "ready" THEN NotReady("loading")
    ELSE With(v, connection, IF blocking THEN "syncing" ELSE v.reconciliation)

(* reconcileSnapshot: a Snapshot of another run starts from nothing.       *)
Loaded(v, snapshot) ==
    LET isSameRun == v.kind = "ready" /\ v.snapshot.run = snapshot.run
        isRestart == isSameRun /\ v.connection = "reconnecting"
    IN [kind |-> "ready", connection |-> "live", reconciliation |-> "open",
        generation |-> IF isRestart THEN v.generation + 1
                       ELSE IF isSameRun THEN v.generation ELSE 0,
        pendingCommand |-> isSameRun /\ v.pendingCommand,
        snapshot |-> snapshot]

Mutant_FailureIsAConnection(v) ==
    IF v.kind # "ready" THEN NotReady("failed") ELSE With(v, "failed", "stale")
Failed(v) ==
    IF v.kind # "ready" THEN NotReady("failed") ELSE With(v, "stale", "stale")

-----------------------------------------------------------------------------
(* `n' requests in one turn of the event loop: the first may start a read, *)
(* every other one finds it in flight.                                     *)
Request(n, blocking, connection, v) ==
    /\ timer' = FALSE
    /\ requiredEpoch' = IF blocking THEN requiredEpoch + 1 ELSE requiredEpoch
    /\ needed' = IF blocking THEN server.version ELSE needed
    /\ view' = Requested(v, blocking, connection)
    /\ read' = IF HasRead THEN read ELSE Sent(requiredEpoch')
    /\ trailing' = (trailing \/ HasRead \/ n > 1)

Mutant_ReturnsWithoutTimer(visible) ==
    /\ visible # isVisible
    /\ isVisible' = visible
    /\ IF ~visible \/ isStopped \/ HasRead \/ dueAt = "ahead"
         THEN /\ timer' = FALSE
              /\ UNCHANGED <<read, trailing, requiredEpoch, view, needed>>
         ELSE Request(1, FALSE, "live", view)
    /\ UNCHANGED <<server, dueAt, isStopped, failures>>
SetVisible(visible) ==
    /\ visible # isVisible
    /\ isVisible' = visible
    /\ IF ~visible \/ isStopped \/ HasRead
         THEN /\ timer' = FALSE
              /\ UNCHANGED <<read, trailing, requiredEpoch, view, needed>>
         ELSE IF dueAt # "ahead"
           THEN Request(1, FALSE, "live", view)
           ELSE /\ timer' = TRUE
                /\ UNCHANGED <<read, trailing, requiredEpoch, view, needed>>
    /\ UNCHANGED <<server, dueAt, isStopped, failures>>

(* The conversation is left: the read in flight is aborted and its result  *)
(* ignored.                                                                *)
Stop ==
    /\ ~isStopped
    /\ isStopped' = TRUE
    /\ trailing' = FALSE
    /\ timer' = FALSE
    /\ read' = NoRead
    /\ UNCHANGED <<server, requiredEpoch, dueAt, isVisible, view, needed, failures>>

(* load() reaches the server, or fails on the way.                         *)
Answer ==
    /\ read.phase = "sent"
    /\ \/ /\ read' = [epoch |-> read.epoch, phase |-> "loaded", snapshot |-> server]
          /\ UNCHANGED failures
       \/ /\ failures < MaxFailures
          /\ read' = [read EXCEPT !.phase = "failed"]
          /\ failures' = failures + 1
    /\ UNCHANGED <<server, trailing, requiredEpoch, dueAt, timer, isVisible, isStopped,
                   view, needed>>

Mutant_PreviousEpochIsCurrent == read.epoch + 1 >= requiredEpoch
IsCurrentEpoch == read.epoch >= requiredEpoch
Mutant_TrailingOnlyAfterLoad == read.phase = "loaded" /\ (trailing \/ ~IsCurrentEpoch)
MustReadAgain == trailing \/ (read.phase = "loaded" /\ ~IsCurrentEpoch)

Mutant_NoTimerAfterFailure ==
    /\ read.phase \in {"loaded", "failed"}
    /\ view' = IF ~IsCurrentEpoch THEN view
               ELSE IF read.phase = "loaded" THEN Loaded(view, read.snapshot)
               ELSE Failed(view)
    /\ trailing' = FALSE
    /\ IF MustReadAgain
         THEN /\ read' = Sent(requiredEpoch)
              /\ UNCHANGED <<dueAt, timer>>
         ELSE /\ read' = NoRead
              /\ dueAt' = "ahead"
              /\ timer' = (isVisible /\ read.phase = "loaded")
    /\ UNCHANGED <<server, requiredEpoch, isVisible, isStopped, needed, failures>>

(* The rest of read(), from the settled load to the next read or timer.    *)
FinishRead ==
    /\ read.phase \in {"loaded", "failed"}
    /\ view' = IF ~IsCurrentEpoch THEN view
               ELSE IF read.phase = "loaded" THEN Loaded(view, read.snapshot)
               ELSE Failed(view)
    /\ trailing' = FALSE
    /\ IF MustReadAgain
         THEN /\ read' = Sent(requiredEpoch)
              /\ UNCHANGED <<dueAt, timer>>
         ELSE /\ read' = NoRead
              /\ dueAt' = "ahead"
              /\ timer' = isVisible
    /\ UNCHANGED <<server, requiredEpoch, isVisible, isStopped, needed, failures>>

TimePasses ==
    /\ dueAt = "ahead"
    /\ dueAt' = "passed"
    /\ UNCHANGED <<server, read, trailing, requiredEpoch, timer, isVisible, isStopped,
                   view, needed, failures>>

TimerFires ==
    /\ timer /\ dueAt = "passed"
    /\ Request(1, FALSE, "live", view)
    /\ UNCHANGED <<server, dueAt, isVisible, isStopped, failures>>

(* A durable commit; some start a waiting round, some a new run.           *)
Commits == {s \in [run : {server.run, server.run + 1},
                   round : {server.round, server.round + 1},
                   version : {server.version + 1}] :
               s.run <= MaxRun /\ s.round <= MaxRound /\ s.version <= MaxVersion}

ServerCommits ==
    /\ server' \in Commits
    /\ UNCHANGED <<coordinator, view, needed, failures>>

(* The constructor, start() and setVisible() when the conversation opens.  *)
Init ==
    /\ server = NoSnapshot
    /\ read = Sent(1)
    /\ trailing = FALSE
    /\ requiredEpoch = 1
    /\ dueAt = "none"
    /\ timer = FALSE
    /\ isVisible \in BOOLEAN
    /\ isStopped = FALSE
    /\ view = NotReady("loading")
    /\ needed = 0
    /\ failures = 0

-----------------------------------------------------------------------------
(* While the view is reconciled, which is when the user may act on it, it  *)
(* shows a Snapshot no older than the last blocking request: no response   *)
(* sent before a command was answered, a wait round was reported or a      *)
(* stream failed may reopen it (read()'s epoch test).                      *)
FreshWhenOpen ==
    view.kind = "ready" /\ view.reconciliation = "open" =>
        view.snapshot.version >= needed

(* A visible conversation that is still open always has a read in flight   *)
(* or its fallback timer armed: no order of requests, visibility changes,  *)
(* failures and timer callbacks loses the next refresh.                    *)
Refreshing == isVisible /\ ~isStopped => HasRead \/ timer
=============================================================================
