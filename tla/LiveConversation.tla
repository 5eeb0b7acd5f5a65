-------------------------- MODULE LiveConversation --------------------------
(***************************************************************************)
(* The orchestration around the Snapshot reads in Conversation.tsx: the    *)
(* long polls for Stream events and for the next waiting-input round, and  *)
(* the runner of user commands, which closes the polls first.              *)
(*                                                                         *)
(* React is taken to run the effects of a state change before the next     *)
(* network response, so the polls are open exactly when their effects'     *)
(* condition holds.  An aborted poll is settled at once.                   *)
(***************************************************************************)
EXTENDS SnapshotCoordinator

VARIABLES
    runner,    \* the command: "idle", "joining" the polls, "sent" or "committed"
    watermark  \* lastRound of the open waiting-round poll

conversation == <<runner, watermark>>
allVars == <<vars, conversation>>

LiveReadsOpen ==
    /\ ~isStopped /\ isVisible
    /\ view.kind = "ready" /\ view.reconciliation = "open" /\ ~view.pendingCommand

(* Both poll effects run again when one of their dependencies changed; a   *)
(* new waiting-round poll starts from the round on display.                *)
RunEffects ==
    LET isRestart == /\ LiveReadsOpen'
                     /\ \/ ~LiveReadsOpen
                        \/ view'.snapshot.run # view.snapshot.run
                        \/ view'.generation # view.generation
    IN watermark' = IF isRestart THEN view'.snapshot.round ELSE watermark

-----------------------------------------------------------------------------
(* runCommand: every control that reaches it is disabled unless the view   *)
(* is reconciled and no command is pending.                                *)
RunCommand ==
    /\ runner = "idle" /\ ~isStopped /\ requiredEpoch < MaxEpoch
    /\ view.kind = "ready" /\ view.reconciliation = "open" /\ ~view.pendingCommand
    /\ view' = [view EXCEPT !.pendingCommand = TRUE]
    /\ runner' = "joining"
    /\ UNCHANGED <<server, coordinator, needed, failures, watermark>>

(* cancelLiveReads is done: the request is issued.                         *)
LiveReadsJoined ==
    /\ runner = "joining"
    /\ runner' = "sent"
    /\ UNCHANGED <<vars, watermark>>

CommandCommits ==
    /\ runner = "sent"
    /\ server' \in Commits
    /\ runner' = "committed"
    /\ UNCHANGED <<coordinator, view, needed, failures, watermark>>

(* The response arrives, or is lost on either side of the commit.          *)
CommandEnds(outcomes, connection) ==
    /\ runner \in outcomes
    /\ runner' = "idle"
    /\ Request(1, TRUE, connection, [view EXCEPT !.pendingCommand = FALSE])
    /\ UNCHANGED <<server, dueAt, isVisible, isStopped, failures>>
    /\ RunEffects

CommandSucceeds == CommandEnds({"committed"}, "live")
CommandFails == CommandEnds({"sent", "committed"}, "stale")

(* A snapshot_required or user_input_answered event: two requests in one   *)
(* turn, for the event may be visible before its commit.                   *)
ControlEvent ==
    /\ LiveReadsOpen
    /\ Request(2, FALSE, "live", view)
    /\ UNCHANGED <<server, dueAt, isVisible, isStopped, failures, runner>>
    /\ RunEffects

(* A poll fails: the reducer notes the disconnect, then asks for a read.   *)
LiveReadFails ==
    /\ LiveReadsOpen /\ requiredEpoch < MaxEpoch
    /\ Request(1, TRUE, "reconnecting", [view EXCEPT !.connection = "reconnecting"])
    /\ UNCHANGED <<server, dueAt, isVisible, isStopped, failures, runner>>
    /\ RunEffects

RoundReported ==
    /\ LiveReadsOpen
    /\ server.round > watermark
    /\ Request(1, TRUE, "live", view)
    /\ UNCHANGED <<server, dueAt, isVisible, isStopped, failures, runner>>
    /\ RunEffects

(* The user asks for another read of a stale or failed view.               *)
Retry ==
    /\ ~isStopped /\ requiredEpoch < MaxEpoch
    /\ view.kind = "failed" \/ (view.kind = "ready" /\ view.reconciliation = "stale")
    /\ Request(1, TRUE, "stale", view)
    /\ UNCHANGED <<server, dueAt, isVisible, isStopped, failures, runner>>
    /\ RunEffects

-----------------------------------------------------------------------------
(* The coordinator's own steps.                                            *)
ReadEnds ==
    /\ FinishRead
    /\ UNCHANGED runner
    /\ RunEffects

FallbackFires ==
    /\ TimerFires
    /\ UNCHANGED runner
    /\ RunEffects

VisibilityChanges ==
    /\ \E visible \in BOOLEAN : SetVisible(visible)
    /\ UNCHANGED runner
    /\ RunEffects

(* The component unmounts; the command in flight is aborted.               *)
Leave ==
    /\ Stop
    /\ runner' = "idle"
    /\ UNCHANGED watermark

ConversationInit ==
    /\ Init
    /\ runner = "idle"
    /\ watermark = 0

ConversationNext ==
    \/ RunCommand \/ LiveReadsJoined \/ CommandCommits \/ CommandSucceeds \/ CommandFails
    \/ ControlEvent \/ LiveReadFails \/ RoundReported \/ Retry
    \/ ReadEnds \/ FallbackFires \/ VisibilityChanges \/ Leave
    \/ /\ Answer \/ TimePasses \/ ServerCommits
       /\ UNCHANGED conversation

(* The network answers reads, commands and the waiting-round poll.  The    *)
(* fallback timer is not assumed to fire.                                  *)
ConversationFairness ==
    /\ WF_allVars(Answer /\ UNCHANGED conversation)
    /\ WF_allVars(ReadEnds)
    /\ WF_allVars(LiveReadsJoined)
    /\ WF_allVars(CommandSucceeds \/ CommandFails)
    /\ WF_allVars(RoundReported)

ConversationSpec == ConversationInit /\ [][ConversationNext]_allVars /\ ConversationFairness

(* The browser's clock and timers.                                         *)
TimerFairness ==
    /\ WF_allVars(TimePasses /\ UNCHANGED conversation)
    /\ WF_allVars(FallbackFires)

-----------------------------------------------------------------------------
(* No long poll holds a browser connection while a mutation request is in  *)
(* flight (useCommandRunner joins them first; canOpenLiveReads keeps them  *)
(* closed).                                                                *)
NoLiveReadDuringMutation == runner \in {"sent", "committed"} => ~LiveReadsOpen

StaysVisible == <>[](isVisible /\ ~isStopped)

(* A visible conversation whose reads do not fail is always brought back   *)
(* to listening with the newest waiting-input round on display, and that   *)
(* without the fallback timer: no order of reads, commands, disconnects    *)
(* and visibility changes loses a round or leaves the polls closed.        *)
IsListening == LiveReadsOpen /\ view.snapshot.round = server.round
HasGivenUp == view.kind = "failed" \/ view.reconciliation = "stale"
RoundsAreShown == StaysVisible => []<>(IsListening \/ HasGivenUp)

(* With the fallback timer, a conversation that stays visible shows the    *)
(* last durable state and accepts commands again, no command pending,      *)
(* whatever notifications it missed and whatever reads failed              *)
(* (SnapshotCoordinator.scheduleAt).                                       *)
IsCurrent ==
    /\ view.kind = "ready" /\ view.reconciliation = "open" /\ ~view.pendingCommand
    /\ view.snapshot = server
FallbackCatchesUp == TimerFairness /\ StaysVisible => []<>IsCurrent
=============================================================================
