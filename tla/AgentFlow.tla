----------------------------- MODULE AgentFlow -----------------------------
(***************************************************************************)
(* The durable Agent of internal/agent/flow.go: one conversation, run as a *)
(* Dex flow.  A single movement (`step') walks the Step graph of GetSteps; *)
(* users reach the same attributes and channels through the RPCs of        *)
(* GetRPCs.  Every WaitFor, every Execute and every RPC commits            *)
(* atomically, so each is one action here.                                 *)
(*                                                                         *)
(* Left to other modules: the inactivity timeout (InactivityTimeoutSeconds *)
(* is 0 here), the archiving and trimming of messages, and the streams,    *)
(* which carry no state the flow reads back.                               *)
(***************************************************************************)
EXTENDS Integers, FiniteSets, SequencesExt

CONSTANTS
    Messages,             \* user messages, each accepted at most once
    PlanModeMessages,     \* the messages sent with PlanMode set
    ExternalTools,        \* tools of the MCP registry enabled for this Agent
    NeedsApproval,        \* tools whose definition has RequiresApproval
    ParallelTools,        \* tools that support parallel execution
    ManualRecoveryTools,  \* tools with the manual_recovery retry policy
    Replies,              \* tool requests a model reply may carry
    MaxParallelToolCalls, \* EffectiveMaxParallelToolCalls
    MaximumAttempts,      \* Dex attempts of one tool execution
    ModelHooks,           \* whether the application configured model hooks
    ModelFailures,        \* whether a model Step may exhaust its attempts
    CompactionChoices,    \* whether pendingCompactionCutoff may find a cutoff
    MaxCalls,             \* bound: tool calls issued in one behaviour
    MaxPlanRequests,      \* bound: accepted ExecutePlan commands
    MaxRecoveryRetries    \* bound: times the user retries one call

Builtins == {"write_todos", "durable_wait", "request_user_input"}
Tools == ExternalTools \cup Builtins \cup {"no_such_tool"}

(* What the router tells apart in the arguments of a call.  A valid        *)
(* write_todos has open tasks, only completed tasks, or no task at all.    *)
Arguments == {"valid", "all_done", "no_tasks", "invalid"}
Requests == [tool : Tools, argument : Arguments]

ASSUME ToolAssumption ==
    /\ NeedsApproval \subseteq ExternalTools
    /\ ParallelTools \subseteq ExternalTools
    /\ ManualRecoveryTools \subseteq ExternalTools
    /\ ExternalTools \cap (Builtins \cup {"no_such_tool"}) = {}
    /\ Replies \subseteq Seq(Requests)
ASSUME MessageAssumption == PlanModeMessages \subseteq Messages
ASSUME LimitAssumption ==
    /\ MaxParallelToolCalls \in Nat \ {0}
    /\ MaximumAttempts \in Nat \ {0}
    /\ {MaxCalls, MaxPlanRequests, MaxRecoveryRetries} \subseteq Nat
ASSUME SwitchAssumption ==
    /\ {ModelHooks, ModelFailures} \subseteq BOOLEAN
    /\ CompactionChoices \subseteq BOOLEAN
    /\ CompactionChoices # {}

VARIABLES
    step,             \* the Step of the current movement
    phase,            \* "wait_for", "waiting" or "execute" of that Step
    input,            \* its input: a continuation, or the kind of a model call
    attempt,          \* the Dex attempt of a serial ExecuteTool
    awaitingAnswer,   \* the condition AwaitUser.WaitFor committed to
    selected,         \* what AwaitUser consumed and has not executed yet
    reply,            \* the persisted response of CallModelWithHooks
    batch,            \* the toolBatchState of the join and of manual recovery
    branches,         \* running ExecuteParallelTool movements
    results,          \* parallelToolResultsChannel
    agent,            \* agentStateAttribute
    plan,             \* agentPlanAttribute
    history,          \* the appended messages, in sequence order
    issued,           \* every tool call the model requested; its ID is its index
    pendingApproval, pendingInput, pendingTimer, pendingRecovery,
    queued, steered, answered, approvals, decisions, executions, \* channels
    round,            \* waitingInputRoundAttribute
    accepted,         \* messages SendMessage accepted
    deleted,          \* messages DeleteQueuedMessage removed
    planRequests,     \* number of accepted ExecutePlan commands
    requestedAt       \* Len(history) when the last of them was accepted

movement == <<step, phase, input, attempt>>
awaiting == <<awaitingAnswer, selected>>
joining == <<batch, branches, results>>
conversation == <<agent, plan, history, issued>>
pendings == <<pendingApproval, pendingInput, pendingTimer, pendingRecovery>>
messageChannels == <<queued, steered>>
decisionChannels == <<approvals, decisions>>
otherChannels == <<answered, executions>>
books == <<accepted, deleted, planRequests, requestedAt>>
vars == <<movement, awaiting, reply, joining, conversation, pendings,
          messageChannels, decisionChannels, otherChannels, round, books>>

-----------------------------------------------------------------------------
NoCall == 0
NoPlan == [status |-> "none", revision |-> 0, done |-> FALSE]
NoRecovery == [id |-> <<0, 0, 0>>, calls |-> {}]
NoBatch == [sequence |-> 0, first |-> 0, revision |-> 0, records |-> <<>>]
NoReply == [requests |-> <<>>, expected |-> 0]
Nothing == [kind |-> "none", messages |-> <<>>, ref |-> 0]

NewAgentState ==
    [status |-> "waiting_for_message", mode |-> "chat",
     requiresWrite |-> FALSE, allowsWrite |-> FALSE, calls |-> <<>>, index |-> 0,
     planRevision |-> 0, execution |-> 0, noProgress |-> 0]

(* maximumAutomaticPlanRecoveryCount *)
Mutant_TwoAutomaticRecoveries == 2
MaximumAutomaticPlanRecovery == 1

WaitingSteps == {"AwaitUser", "AwaitToolApproval", "AwaitManualToolRecovery", "DurableWait"}
ModelSteps == {"CompactContext", "CallModel", "BeforeModelCall", "CallModelWithHooks",
               "AfterModelCall"}
Steps == WaitingSteps \cup ModelSteps \cup
    {"Init", "AnsweredInput", "ApplyModelResult", "CheckSteered", "RouteTool",
     "ExecuteTool", "RecoverToolExecution", "PrepareManualToolRecovery",
     "AwaitParallelToolResults", "Failed"}
Continuations == {"compact_context", "call_model", "route_tool", "await_user",
                  "await_tool_approval", "execute_tool", "durable_wait"}
Kinds == {"response", "compaction"}

Alive == step # "Failed"

(* The calls not answered yet, and the one the cursor points to.           *)
Mutant_RemainingSkipsCurrent(a) == SubSeq(a.calls, a.index + 2, Len(a.calls))
Remaining(a) == SubSeq(a.calls, a.index + 1, Len(a.calls))
HasCurrentCall == agent.index < Len(agent.calls)
CurrentCall == agent.calls[agent.index + 1]
ToolOf(call) == issued[call].tool
CurrentTool == ToolOf(CurrentCall)

(* invocationToolDefinition: what the interaction mode lets the model use. *)
Mutant_AvailableInEveryMode(tool) ==
    tool \in ExternalTools \cup {"write_todos", "durable_wait", "request_user_input"}
Available(tool) ==
    \/ /\ tool = "write_todos"
       /\ \/ agent.mode = "executing"
          \/ agent.mode = "planning" /\ (agent.requiresWrite \/ agent.allowsWrite)
    \/ /\ tool \in ExternalTools \cup {"durable_wait", "request_user_input"}
       /\ agent.mode # "planning"

-----------------------------------------------------------------------------
(* History entries.                                                        *)
UserEntry(m) == [role |-> "user", message |-> m]
AnswerEntry(call) == [role |-> "answer", call |-> call]
AssistantEntry(calls) == [role |-> "assistant", calls |-> calls]
ToolEntry(call, outcome) == [role |-> "tool", call |-> call, outcome |-> outcome]

Mutant_OnlyLatestEntry(ms) == <<UserEntry(Last(ms))>>
UserEntries(ms) == [i \in 1..Len(ms) |-> UserEntry(ms[i])]
Interrupted(calls) == [i \in 1..Len(calls) |-> ToolEntry(calls[i], "interrupted")]

-----------------------------------------------------------------------------
(* Transitions.  A Step without WaitFor starts in its Execute.             *)
GoTo(s, i) ==
    /\ step' = s
    /\ phase' = IF s \in WaitingSteps THEN "wait_for" ELSE "execute"
    /\ input' = i
    /\ attempt' = 1

GoToModel(kind) ==
    IF ModelHooks THEN GoTo("BeforeModelCall", kind)
    ELSE GoTo(IF kind = "response" THEN "CallModel" ELSE "CompactContext", kind)

(* pendingCompactionCutoff: a cutoff needs two messages of context.        *)
MayCompact(h) == {c \in CompactionChoices : c => Len(h) > 1}
GoToCompactContext(h) ==
    \E isCompacting \in MayCompact(h) :
        GoToModel(IF isCompacting THEN "compaction" ELSE "response")

(* updateStatus *)
Status(s) == [agent EXCEPT !.status = s]

Mutant_CursorBeforeFirst(a) == [a EXCEPT !.calls = <<>>, !.index = -1]
WithCallsCleared(a) == [a EXCEPT !.calls = <<>>, !.index = 0]

(* What every turn resets: the plan request and the stall count.           *)
Mutant_KeepsPlanRequest(a) == [a EXCEPT !.noProgress = 0]
WithPlanRequestCleared(a) == [a EXCEPT !.execution = 0, !.noProgress = 0]

(* beginUserTurn on the AgentState; the caller appends the message.        *)
AfterUserTurn(a, isPlanMode, isAnswer) ==
    LET hasOpenPlan == plan.status \in {"draft", "active"}
        isExecuting == ~isPlanMode /\ isAnswer /\ plan.status = "active"
        isPlanning == isPlanMode \/ (hasOpenPlan /\ ~isExecuting)
    IN  [WithPlanRequestCleared(WithCallsCleared(a)) EXCEPT
            !.status = "calling_model",
            !.mode = IF isPlanning THEN "planning"
                     ELSE IF isExecuting THEN "executing" ELSE "chat",
            !.requiresWrite = isPlanMode,
            !.allowsWrite = isPlanning]

(* beginSteeredTurn from AgentState a and history h: the abandoned calls   *)
(* get interrupted results, every pending attribute is deleted, and each   *)
(* steered message begins a user turn.                                     *)
Mutant_SteeringKeepsApproval(messages, a, h) ==
    /\ agent' = AfterUserTurn(a, Last(messages) \in PlanModeMessages, FALSE)
    /\ history' = h \o Interrupted(Remaining(a)) \o UserEntries(messages)
    /\ UNCHANGED pendingApproval
    /\ pendingInput' = NoCall
    /\ pendingTimer' = NoCall
    /\ pendingRecovery' = NoRecovery
BeginSteeredTurn(messages, a, h) ==
    /\ agent' = AfterUserTurn(a, Last(messages) \in PlanModeMessages, FALSE)
    /\ history' = h \o Interrupted(Remaining(a)) \o UserEntries(messages)
    /\ pendingApproval' = NoCall
    /\ pendingInput' = NoCall
    /\ pendingTimer' = NoCall
    /\ pendingRecovery' = NoRecovery

(* advanceTool or clearPendingToolCalls, and where continueAfterTool goes. *)
Advanced(a, count) ==
    IF a.index + count < Len(a.calls) THEN [a EXCEPT !.index = @ + count]
    ELSE WithCallsCleared(a)
Mutant_RoutesPastTheEnd(a, count) ==
    IF a.index + count <= Len(a.calls) THEN "route_tool" ELSE "compact_context"
Mutant_ModelAfterEachCall(a, count) == "compact_context"
NextContinuation(a, count) ==
    IF a.index + count < Len(a.calls) THEN "route_tool" ELSE "compact_context"

FinishCurrentCall(a, outcome) ==
    /\ history' = Append(history, ToolEntry(CurrentCall, outcome))
    /\ agent' = Advanced(a, 1)
    /\ GoTo("CheckSteered", NextContinuation(a, 1))

-----------------------------------------------------------------------------
(* The RPCs.  A rejected command changes nothing and is not an action.     *)

SendMessage(m) ==
    /\ Alive /\ m \notin accepted
    /\ pendingInput = NoCall
    /\ queued' = Append(queued, m)
    /\ accepted' = accepted \cup {m}
    /\ UNCHANGED <<movement, awaiting, reply, joining, conversation, pendings, steered,
                   decisionChannels, otherChannels, round, deleted, planRequests,
                   requestedAt>>

DeleteQueuedMessage(i) ==
    /\ Alive
    /\ queued' = RemoveAt(queued, i)
    /\ deleted' = deleted \cup {queued[i]}
    /\ UNCHANGED <<movement, awaiting, reply, joining, conversation, pendings, steered,
                   decisionChannels, otherChannels, round, accepted, planRequests,
                   requestedAt>>

(* Moves queued message i into the steering channel; while the status is   *)
(* waiting_for_tool_recovery it also takes the pending recovery.           *)
SteerMessage(i) ==
    LET isRecovering == agent.status = "waiting_for_tool_recovery"
    IN  /\ Alive /\ step # "Init"
        /\ isRecovering => pendingRecovery # NoRecovery
        /\ pendingRecovery' = IF isRecovering THEN NoRecovery ELSE pendingRecovery
        /\ queued' = RemoveAt(queued, i)
        /\ steered' = Append(steered, queued[i])
        /\ UNCHANGED <<movement, awaiting, reply, joining, conversation, pendingApproval,
                       pendingInput, pendingTimer, decisionChannels, otherChannels, round,
                       books>>

AnswerQuestions ==
    /\ Alive /\ pendingInput # NoCall
    /\ answered' = Append(answered, pendingInput)
    /\ pendingInput' = NoCall
    /\ UNCHANGED <<movement, awaiting, reply, joining, conversation, pendingApproval,
                   pendingTimer, pendingRecovery, messageChannels, decisionChannels,
                   executions, round, books>>

Mutant_OnlyApprovalsPublished(isApproved) ==
    IF isApproved THEN {[call |-> pendingApproval, approved |-> TRUE]} ELSE {}
Approval(isApproved) == {[call |-> pendingApproval, approved |-> isApproved]}

ApproveTool(isApproved) ==
    /\ Alive /\ pendingApproval # NoCall
    /\ approvals' = approvals \cup Approval(isApproved)
    /\ issued' = [issued EXCEPT ![pendingApproval].verdict =
                      IF isApproved THEN "approved" ELSE "rejected"]
    /\ pendingApproval' = NoCall
    /\ UNCHANGED <<movement, awaiting, reply, joining, agent, plan, history, pendingInput,
                   pendingTimer, pendingRecovery, messageChannels, decisions,
                   otherChannels, round, books>>

(* A stop carries no decision; a resume decides every pending call.        *)
ResolveToolRecovery(isStop, retried) ==
    /\ Alive /\ pendingRecovery # NoRecovery
    /\ retried \subseteq pendingRecovery.calls /\ (isStop => retried = {})
    /\ \A call \in retried : issued[call].retries < MaxRecoveryRetries
    /\ decisions' = decisions \cup
           {[id |-> pendingRecovery.id, stop |-> isStop, retried |-> retried]}
    /\ issued' = [call \in DOMAIN issued |->
                      IF call \in retried
                      THEN [issued[call] EXCEPT !.retries = @ + 1] ELSE issued[call]]
    /\ pendingRecovery' = NoRecovery
    /\ UNCHANGED <<movement, awaiting, reply, joining, agent, plan, history,
                   pendingApproval, pendingInput, pendingTimer, messageChannels, approvals,
                   otherChannels, round, books>>

ExecutePlan ==
    /\ Alive /\ step # "Init" /\ planRequests < MaxPlanRequests
    /\ plan.status \in {"draft", "active"}
    /\ agent.status = "waiting_for_message" /\ agent.execution = 0
    /\ pendingInput = NoCall /\ pendingApproval = NoCall /\ pendingTimer = NoCall
    /\ pendingRecovery = NoRecovery
    /\ queued = <<>> /\ steered = <<>>
    /\ agent' = [agent EXCEPT !.execution = plan.revision, !.noProgress = 0]
    /\ executions' = Append(executions, plan.revision)
    /\ planRequests' = planRequests + 1
    /\ requestedAt' = Len(history)
    /\ UNCHANGED <<movement, awaiting, reply, joining, plan, history, issued, pendings,
                   messageChannels, decisionChannels, answered, round, accepted, deleted>>

-----------------------------------------------------------------------------
(* Init and the user boundary.                                             *)

InitExecute ==
    /\ step = "Init"
    /\ agent' = NewAgentState
    /\ round' = 0
    /\ GoTo("AwaitUser", "none")
    /\ UNCHANGED <<awaiting, reply, joining, plan, history, issued, pendings,
                   messageChannels, decisionChannels, otherChannels, books>>

(* The round counts the waits that only a new user input can end.          *)
HasPlanRequest ==
    /\ plan.status \in {"draft", "active"}
    /\ \E i \in 1..Len(executions) : executions[i] = plan.revision
StartsRound ==
    /\ answered = <<>>
    /\ \/ pendingInput # NoCall
       \/ queued = <<>> /\ steered = <<>> /\ ~HasPlanRequest

(* While a question is pending, or already answered, only the answer ends  *)
(* the wait.                                                               *)
Mutant_AwaitsPendingQuestionOnly == pendingInput # NoCall
AwaitsAnswer == answered # <<>> \/ pendingInput # NoCall

AwaitUserWaitFor ==
    /\ step = "AwaitUser" /\ phase = "wait_for"
    /\ agent' = Status("waiting_for_message")
    /\ awaitingAnswer' = AwaitsAnswer
    /\ round' = IF StartsRound THEN round + 1 ELSE round
    /\ phase' = "waiting"
    /\ UNCHANGED <<step, input, attempt, selected, reply, joining, plan, history, issued,
                   pendings, messageChannels, decisionChannels, otherChannels, books>>

(* Dex ends the wait with one satisfied condition and consumes it.  An RPC *)
(* may still commit before Execute runs.                                   *)
IsSelecting == step = "AwaitUser" /\ phase = "waiting"
Select(kind, messages, ref) ==
    /\ selected' = [kind |-> kind, messages |-> messages, ref |-> ref]
    /\ awaitingAnswer' = FALSE
    /\ phase' = "execute"
    /\ UNCHANGED <<step, input, attempt, reply, joining, conversation, pendings,
                   decisionChannels, round, books>>

SelectAnswer ==
    /\ IsSelecting /\ awaitingAnswer /\ answered # <<>>
    /\ answered' = Tail(answered)
    /\ UNCHANGED <<messageChannels, executions>>
    /\ Select("answer", <<>>, Head(answered))

SelectSteered ==
    /\ IsSelecting /\ ~awaitingAnswer /\ steered # <<>>
    /\ steered' = <<>>
    /\ UNCHANGED <<queued, otherChannels>>
    /\ Select("steered", steered, 0)

SelectQueued ==
    /\ IsSelecting /\ ~awaitingAnswer /\ queued # <<>>
    /\ queued' = Tail(queued)
    /\ UNCHANGED <<steered, otherChannels>>
    /\ Select("queued", <<Head(queued)>>, 0)

SelectPlan ==
    /\ IsSelecting /\ ~awaitingAnswer /\ plan.status \in {"draft", "active"}
    /\ \E i \in 1..Len(executions) :
          /\ executions[i] = plan.revision
          /\ \A j \in 1..(i - 1) : executions[j] # plan.revision
          /\ executions' = RemoveAt(executions, i)
    /\ UNCHANGED <<messageChannels, answered>>
    /\ Select("plan", <<>>, plan.revision)

IsBeginning(kind) == step = "AwaitUser" /\ phase = "execute" /\ selected.kind = kind

AwaitUserExecuteAnswer ==
    /\ IsBeginning("answer")
    /\ agent' = AfterUserTurn(agent, FALSE, TRUE)
    /\ history' = Append(history, AnswerEntry(selected.ref))
    /\ selected' = Nothing
    /\ GoTo("AnsweredInput", "none")
    /\ UNCHANGED <<awaitingAnswer, reply, joining, plan, issued, pendings, messageChannels,
                   decisionChannels, otherChannels, round, books>>

AwaitUserExecuteSteered ==
    /\ IsBeginning("steered")
    /\ BeginSteeredTurn(selected.messages, agent, history)
    /\ selected' = Nothing
    /\ GoTo("CheckSteered", "compact_context")
    /\ UNCHANGED <<awaitingAnswer, reply, joining, plan, issued, messageChannels,
                   decisionChannels, otherChannels, round, books>>

AwaitUserExecuteQueued ==
    /\ IsBeginning("queued")
    /\ agent' = AfterUserTurn(agent, selected.messages[1] \in PlanModeMessages, FALSE)
    /\ history' = history \o UserEntries(selected.messages)
    /\ selected' = Nothing
    /\ GoTo("CheckSteered", "compact_context")
    /\ UNCHANGED <<awaitingAnswer, reply, joining, plan, issued, pendings, messageChannels,
                   decisionChannels, otherChannels, round, books>>

(* A request superseded since it was accepted only clears the attribute.   *)
Mutant_CurrentByRevisionOnly == selected.ref = plan.revision
IsCurrentRequest == selected.ref = plan.revision /\ agent.execution = plan.revision

AwaitUserExecutePlan ==
    /\ IsBeginning("plan") /\ plan.status # "none"
    /\ IF IsCurrentRequest
       THEN /\ plan' = [plan EXCEPT !.status = IF @ = "draft" THEN "active" ELSE @]
            /\ agent' = [agent EXCEPT !.status = "calling_model", !.mode = "executing",
                             !.requiresWrite = FALSE, !.allowsWrite = FALSE,
                             !.execution = 0]
            /\ GoTo("CheckSteered", "compact_context")
       ELSE /\ agent' = [agent EXCEPT !.execution = 0]
            /\ GoTo("AwaitUser", "none")
            /\ UNCHANGED plan
    /\ selected' = Nothing
    /\ UNCHANGED <<awaitingAnswer, reply, joining, history, issued, pendings,
                   messageChannels, decisionChannels, otherChannels, round, books>>

AnsweredInput ==
    /\ step = "AnsweredInput"
    /\ GoToCompactContext(history)
    /\ UNCHANGED <<awaiting, reply, joining, conversation, pendings, messageChannels,
                   decisionChannels, otherChannels, round, books>>

-----------------------------------------------------------------------------
(* The model Steps.  A call is one action, at the commit of its Execute:   *)
(* nothing an attempt staged is visible before.                            *)

NewCall(request) == [tool |-> request.tool, argument |-> request.argument,
                     runs |-> 0, retries |-> 0, verdict |-> "none"]

ModelReplies ==
    {<<>>} \cup {r \in Replies : Len(issued) + Len(r) <= MaxCalls}

(* The assistant message and what follows it, from AgentState a.  An       *)
(* active plan gets one automatic retry of a reply without tool calls.     *)
ApplyReply(a, requests) ==
    LET calls == [i \in 1..Len(requests) |-> Len(issued) + i]
        hasStalled == /\ plan.status = "active" /\ a.mode = "executing"
                      /\ ~plan.done
    IN  /\ history' = Append(history, AssistantEntry(calls))
        /\ issued' = issued \o [i \in 1..Len(requests) |-> NewCall(requests[i])]
        /\ IF requests # <<>>
           THEN /\ agent' = [a EXCEPT !.status = "routing_tool", !.calls = calls,
                                      !.index = 0, !.noProgress = 0]
                /\ GoTo("CheckSteered", "route_tool")
           ELSE IF plan.status \in {"none", "completed"}
           THEN /\ agent' = [a EXCEPT !.mode = "chat", !.requiresWrite = FALSE,
                                      !.noProgress = 0]
                /\ GoTo("CheckSteered", "await_user")
           ELSE /\ agent' = [a EXCEPT !.noProgress = IF hasStalled THEN @ + 1 ELSE @]
                /\ GoTo("CheckSteered",
                        IF hasStalled /\ a.noProgress + 1 <= MaximumAutomaticPlanRecovery
                        THEN "call_model" ELSE "await_user")

CallModel ==
    /\ step = "CallModel"
    /\ \E requests \in ModelReplies : ApplyReply(Status("calling_model"), requests)
    /\ UNCHANGED <<awaiting, reply, joining, plan, pendings, messageChannels,
                   decisionChannels, otherChannels, round, books>>

Mutant_CompactsAgain ==
    /\ step = "CompactContext"
    /\ agent' = Status("compacting_context")
    /\ GoTo("CheckSteered", "compact_context")
    /\ UNCHANGED <<awaiting, reply, joining, plan, history, issued, pendings,
                   messageChannels, decisionChannels, otherChannels, round, books>>
CompactContext ==
    /\ step = "CompactContext"
    /\ agent' = Status("compacting_context")
    /\ GoTo("CheckSteered", "call_model")
    /\ UNCHANGED <<awaiting, reply, joining, plan, history, issued, pendings,
                   messageChannels, decisionChannels, otherChannels, round, books>>

(* The hook may refuse the call, which ends the turn.                      *)
BeforeModelCall ==
    /\ step = "BeforeModelCall"
    /\ GoTo("CallModelWithHooks", input) \/ GoTo("AwaitUser", "none")
    /\ UNCHANGED <<awaiting, reply, joining, conversation, pendings, messageChannels,
                   decisionChannels, otherChannels, round, books>>

CallModelWithHooks ==
    /\ step = "CallModelWithHooks"
    /\ \/ /\ input = "response"
          /\ agent' = Status("calling_model")
          /\ \E requests \in ModelReplies :
                reply' = [requests |-> requests, expected |-> Len(history) + 1]
       \/ /\ input = "compaction"
          /\ agent' = Status("compacting_context")
          /\ UNCHANGED reply
    /\ GoTo("AfterModelCall", input)
    /\ UNCHANGED <<awaiting, joining, plan, history, issued, pendings, messageChannels,
                   decisionChannels, otherChannels, round, books>>

AfterModelCall ==
    /\ step = "AfterModelCall"
    /\ GoTo("ApplyModelResult", input)
    /\ UNCHANGED <<awaiting, reply, joining, conversation, pendings, messageChannels,
                   decisionChannels, otherChannels, round, books>>

ApplyResponse ==
    /\ step = "ApplyModelResult" /\ input = "response"
    /\ reply.expected = Len(history) + 1
    /\ ApplyReply(agent, reply.requests)
    /\ reply' = NoReply
    /\ UNCHANGED <<awaiting, joining, plan, pendings, messageChannels, decisionChannels,
                   otherChannels, round, books>>

ApplyCompaction ==
    /\ step = "ApplyModelResult" /\ input = "compaction"
    /\ GoTo("CheckSteered", "call_model")
    /\ UNCHANGED <<awaiting, reply, joining, conversation, pendings, messageChannels,
                   decisionChannels, otherChannels, round, books>>

(* modelStepOptions name no recovery Step: the run fails.                  *)
ModelStepExhausted ==
    /\ ModelFailures /\ step \in ModelSteps
    /\ GoTo("Failed", "none")
    /\ UNCHANGED <<awaiting, reply, joining, conversation, pendings, messageChannels,
                   decisionChannels, otherChannels, round, books>>

-----------------------------------------------------------------------------
(* The safe boundary.                                                      *)

CheckSteeredSteer ==
    /\ step = "CheckSteered" /\ steered # <<>>
    /\ BeginSteeredTurn(steered, agent, history)
    /\ steered' = <<>>
    /\ GoToCompactContext(history')
    /\ UNCHANGED <<awaiting, reply, joining, plan, issued, queued, decisionChannels,
                   otherChannels, round, books>>

CheckSteeredContinue ==
    /\ step = "CheckSteered" /\ steered = <<>>
    /\ \/ input = "compact_context" /\ GoToCompactContext(history)
       \/ input = "call_model" /\ GoToModel("response")
       \/ input = "await_user" /\ GoTo("AwaitUser", "none")
       \/ input = "route_tool" /\ GoTo("RouteTool", "none")
       \/ input = "await_tool_approval" /\ GoTo("AwaitToolApproval", "none")
       \/ /\ input = "execute_tool" /\ HasCurrentCall /\ Available(CurrentTool)
          /\ GoTo("ExecuteTool", "none")
       \/ input = "durable_wait" /\ GoTo("DurableWait", "none")
    /\ UNCHANGED <<awaiting, reply, joining, conversation, pendings, messageChannels,
                   decisionChannels, otherChannels, round, books>>

-----------------------------------------------------------------------------
(* Routing one tool call.                                                  *)

Routing == Status("routing_tool")
ArgumentOf(call) == issued[call].argument
PlanWrites == {i \in 1..Len(agent.calls) : ToolOf(agent.calls[i]) = "write_todos"}

IsSecondPlanWrite == CurrentTool = "write_todos" /\ Cardinality(PlanWrites) > 1
IsRefused ==
    \/ ~Available(CurrentTool)
    \/ IsSecondPlanWrite
    \/ CurrentTool \in Builtins /\ ArgumentOf(CurrentCall) = "invalid"
    \/ CurrentTool = "request_user_input" /\ pendingInput # NoCall
Routes(tool) == step = "RouteTool" /\ HasCurrentCall /\ CurrentTool = tool /\ ~IsRefused

(* An unknown or disabled tool, a second plan write of one reply, invalid  *)
(* arguments: a known failure.  An invalid plan may be written again.      *)
RouteRefused ==
    /\ step = "RouteTool" /\ HasCurrentCall /\ IsRefused
    /\ LET isInvalidPlan == /\ CurrentTool = "write_todos" /\ Available(CurrentTool)
                            /\ ~IsSecondPlanWrite
       IN  FinishCurrentCall(IF isInvalidPlan
                             THEN [Routing EXCEPT !.requiresWrite = FALSE,
                                                  !.allowsWrite = TRUE]
                             ELSE Routing, "refused")
    /\ UNCHANGED <<awaiting, reply, joining, plan, issued, pendings, messageChannels,
                   decisionChannels, otherChannels, round, books>>

(* replacePlan *)
RouteWriteTodos ==
    /\ Routes("write_todos")
    /\ LET argument == ArgumentOf(CurrentCall)
           isDone == argument = "all_done"
       IN  plan' = IF argument = "no_tasks" THEN NoPlan
                   ELSE [status |-> IF agent.mode = "planning" THEN "draft"
                                    ELSE IF isDone THEN "completed" ELSE "active",
                         revision |-> agent.planRevision + 1, done |-> isDone]
    /\ FinishCurrentCall([Routing EXCEPT !.planRevision = @ + 1, !.requiresWrite = FALSE,
                              !.allowsWrite = FALSE, !.execution = 0, !.noProgress = 0],
                         "succeeded")
    /\ UNCHANGED <<awaiting, reply, joining, issued, pendings, messageChannels,
                   decisionChannels, otherChannels, round, books>>

RouteDurableWait ==
    /\ Routes("durable_wait")
    /\ pendingTimer' = CurrentCall
    /\ agent' = Routing
    /\ GoTo("CheckSteered", "durable_wait")
    /\ UNCHANGED <<awaiting, reply, joining, plan, history, issued, pendingApproval,
                   pendingInput, pendingRecovery, messageChannels, decisionChannels,
                   otherChannels, round, books>>

(* The question ends the sequence: the calls after it are interrupted.     *)
RouteRequestUserInput ==
    /\ Routes("request_user_input")
    /\ pendingInput' = CurrentCall
    /\ history' = Append(history, ToolEntry(CurrentCall, "succeeded"))
                      \o Interrupted(Tail(Remaining(agent)))
    /\ agent' = WithCallsCleared(Routing)
    /\ GoTo("AwaitUser", "none")
    /\ UNCHANGED <<awaiting, reply, joining, plan, issued, pendingApproval, pendingTimer,
                   pendingRecovery, messageChannels, decisionChannels, otherChannels, round,
                   books>>

(* parallelToolMovements: the lengths of an eligible prefix.               *)
Mutant_ParallelWithoutApproval(call) ==
    Available(ToolOf(call)) /\ ToolOf(call) \in ParallelTools
IsParallel(call) ==
    Available(ToolOf(call)) /\ ToolOf(call) \in ParallelTools \ NeedsApproval
ParallelPrefixes ==
    {n \in 1..MaxParallelToolCalls :
        /\ agent.index + n <= Len(agent.calls)
        /\ \A i \in 1..n : IsParallel(agent.calls[agent.index + i])}

Branch(i) == [record |-> i, attempt |-> 1, recovering |-> FALSE]

RouteParallel ==
    /\ step = "RouteTool" /\ HasCurrentCall
    /\ \E n \in ParallelPrefixes :
          /\ n >= 2 /\ n + 1 \notin ParallelPrefixes
          /\ batch' = [sequence |-> Len(history), first |-> agent.index, revision |-> 0,
                       records |-> [i \in 1..n |->
                           LET call == agent.calls[agent.index + i]
                           IN  [call |-> call, outcome |-> "none",
                                manual |-> ToolOf(call) \in ManualRecoveryTools]]]
          /\ branches' = {Branch(i) : i \in 1..n}
    /\ agent' = Status("executing_tool")
    /\ GoTo("AwaitParallelToolResults", "none")
    /\ UNCHANGED <<awaiting, reply, results, plan, history, issued, pendings,
                   messageChannels, decisionChannels, otherChannels, round, books>>

RouteSerial ==
    /\ step = "RouteTool" /\ HasCurrentCall /\ Available(CurrentTool)
    /\ CurrentTool \in ExternalTools /\ 2 \notin ParallelPrefixes
    /\ agent' = Routing
    /\ \/ /\ CurrentTool \in NeedsApproval
          /\ pendingApproval' = CurrentCall
          /\ GoTo("CheckSteered", "await_tool_approval")
       \/ /\ CurrentTool \notin NeedsApproval
          /\ GoTo("CheckSteered", "execute_tool")
          /\ UNCHANGED pendingApproval
    /\ UNCHANGED <<awaiting, reply, joining, plan, history, issued, pendingInput,
                   pendingTimer, pendingRecovery, messageChannels, decisionChannels,
                   otherChannels, round, books>>

-----------------------------------------------------------------------------
(* Approval and timers.                                                    *)

(* Steering ends the wait of these Steps when Dex selects its condition.   *)
Mutant_ApprovalIgnoresSteering(s, a, h) ==
    /\ s # "AwaitToolApproval"
    /\ step = s /\ phase = "waiting" /\ steered # <<>>
    /\ BeginSteeredTurn(steered, a, h)
    /\ steered' = <<>>
    /\ GoTo("CheckSteered", "compact_context")
    /\ UNCHANGED <<awaiting, reply, plan, issued, queued, decisionChannels, otherChannels,
                   round, books>>
SteerWaiting(s, a, h) ==
    /\ step = s /\ phase = "waiting" /\ steered # <<>>
    /\ BeginSteeredTurn(steered, a, h)
    /\ steered' = <<>>
    /\ GoTo("CheckSteered", "compact_context")
    /\ UNCHANGED <<awaiting, reply, plan, issued, queued, decisionChannels, otherChannels,
                   round, books>>

AwaitToolApprovalWaitFor ==
    /\ step = "AwaitToolApproval" /\ phase = "wait_for" /\ HasCurrentCall
    /\ agent' = Status("waiting_for_tool_approval")
    /\ phase' = "waiting"
    /\ UNCHANGED <<step, input, attempt, awaiting, reply, joining, plan, history, issued,
                   pendings, messageChannels, decisionChannels, otherChannels, round, books>>

AwaitToolApprovalSteered ==
    /\ SteerWaiting("AwaitToolApproval", agent, history)
    /\ UNCHANGED joining

AwaitToolApprovalExecute ==
    /\ step = "AwaitToolApproval" /\ phase = "waiting" /\ HasCurrentCall
    /\ \E decision \in approvals :
          /\ decision.call = CurrentCall
          /\ approvals' = approvals \ {decision}
          /\ IF decision.approved
             THEN GoTo("CheckSteered", "execute_tool") /\ UNCHANGED <<agent, history>>
             ELSE FinishCurrentCall(agent, "rejected")
    /\ pendingApproval' = NoCall
    /\ UNCHANGED <<awaiting, reply, joining, plan, issued, pendingInput, pendingTimer,
                   pendingRecovery, messageChannels, decisions, otherChannels, round, books>>

DurableWaitWaitFor ==
    /\ step = "DurableWait" /\ phase = "wait_for" /\ pendingTimer # NoCall
    /\ agent' = Status("waiting_for_timer")
    /\ phase' = "waiting"
    /\ UNCHANGED <<step, input, attempt, awaiting, reply, joining, plan, history, issued,
                   pendings, messageChannels, decisionChannels, otherChannels, round, books>>

(* The wait and the calls after it are interrupted before the turn begins. *)
DurableWaitSteered ==
    /\ HasCurrentCall /\ pendingTimer # NoCall
    /\ SteerWaiting("DurableWait", WithCallsCleared(agent),
                    history \o Interrupted(Remaining(agent)))
    /\ UNCHANGED joining

DurableWaitFires ==
    /\ step = "DurableWait" /\ phase = "waiting" /\ HasCurrentCall /\ pendingTimer # NoCall
    /\ pendingTimer' = NoCall
    /\ FinishCurrentCall(agent, "succeeded")
    /\ UNCHANGED <<awaiting, reply, joining, plan, issued, pendingApproval, pendingInput,
                   pendingRecovery, messageChannels, decisionChannels, otherChannels, round,
                   books>>

-----------------------------------------------------------------------------
(* Serial execution.  An attempt that fails, or whose worker is lost, may  *)
(* or may not have reached the tool; what it staged is dropped.            *)

Ran(call, count) == [issued EXCEPT ![call].runs = @ + count]

ExecuteToolReturns ==
    /\ step = "ExecuteTool" /\ HasCurrentCall /\ Available(CurrentTool)
    /\ issued' = Ran(CurrentCall, 1)
    /\ \/ \E outcome \in {"succeeded", "failed"} :
             FinishCurrentCall(Status("executing_tool"), outcome)
       \/ /\ GoTo(IF CurrentTool \in ManualRecoveryTools
                  THEN "PrepareManualToolRecovery" ELSE "RecoverToolExecution", "none")
          /\ agent' = Status("executing_tool")
          /\ UNCHANGED history
    /\ UNCHANGED <<awaiting, reply, joining, plan, pendings, messageChannels,
                   decisionChannels, otherChannels, round, books>>

ExecuteToolAttemptFails ==
    /\ step = "ExecuteTool" /\ HasCurrentCall /\ Available(CurrentTool)
    /\ \E count \in {0, 1} : issued' = Ran(CurrentCall, count)
    /\ IF attempt < MaximumAttempts
       THEN attempt' = attempt + 1 /\ UNCHANGED <<step, phase, input>>
       ELSE GoTo(IF CurrentTool \in ManualRecoveryTools
                 THEN "PrepareManualToolRecovery" ELSE "RecoverToolExecution", "none")
    /\ UNCHANGED <<awaiting, reply, joining, agent, plan, history, pendings,
                   messageChannels, decisionChannels, otherChannels, round, books>>

RecoverToolExecution ==
    /\ step = "RecoverToolExecution" /\ HasCurrentCall
    /\ FinishCurrentCall(agent, "unknown")
    /\ UNCHANGED <<awaiting, reply, joining, plan, issued, pendings, messageChannels,
                   decisionChannels, otherChannels, round, books>>

PrepareManualToolRecovery ==
    /\ step = "PrepareManualToolRecovery" /\ HasCurrentCall
    /\ batch' = [sequence |-> Len(history), first |-> agent.index, revision |-> 1,
                 records |-> <<[call |-> CurrentCall, outcome |-> "unknown",
                                manual |-> TRUE]>>]
    /\ GoTo("AwaitManualToolRecovery", "none")
    /\ UNCHANGED <<awaiting, reply, branches, results, conversation, pendings,
                   messageChannels, decisionChannels, otherChannels, round, books>>

-----------------------------------------------------------------------------
(* Parallel branches and their join.                                       *)

BatchSize == Len(batch.records)
CallOf(b) == batch.records[b.record].call
Unfinished == {i \in 1..BatchSize : batch.records[i].outcome = "none"}
Unresolved(records) ==
    {i \in 1..Len(records) : records[i].outcome = "unknown" /\ records[i].manual}
PendingCalls(records) == {records[i].call : i \in Unresolved(records)}
RecoveryID == <<batch.sequence, batch.first, batch.revision>>
Mutant_UnknownAsInterrupted(records) ==
    [i \in 1..Len(records) |->
        ToolEntry(records[i].call, IF records[i].outcome = "unknown" THEN "interrupted"
                                   ELSE records[i].outcome)]
BatchEntries(records) ==
    [i \in 1..Len(records) |-> ToolEntry(records[i].call, records[i].outcome)]

BranchReturns(b) ==
    /\ b \in branches /\ ~b.recovering /\ Available(ToolOf(CallOf(b)))
    /\ issued' = Ran(CallOf(b), 1)
    /\ \/ /\ \E outcome \in {"succeeded", "failed"} :
                results' = results \cup {[record |-> b.record, outcome |-> outcome]}
          /\ branches' = branches \ {b}
       \/ /\ branches' = (branches \ {b}) \cup {[b EXCEPT !.recovering = TRUE]}
          /\ UNCHANGED results
    /\ UNCHANGED <<movement, awaiting, reply, batch, agent, plan, history, pendings,
                   messageChannels, decisionChannels, otherChannels, round, books>>

BranchAttemptFails(b) ==
    /\ b \in branches /\ ~b.recovering /\ Available(ToolOf(CallOf(b)))
    /\ \E count \in {0, 1} : issued' = Ran(CallOf(b), count)
    /\ branches' = (branches \ {b}) \cup
           {IF b.attempt < MaximumAttempts THEN [b EXCEPT !.attempt = @ + 1]
            ELSE [b EXCEPT !.recovering = TRUE]}
    /\ UNCHANGED <<movement, awaiting, reply, batch, results, agent, plan, history,
                   pendings, messageChannels, decisionChannels, otherChannels, round, books>>

BranchRecovers(b) ==
    /\ b \in branches /\ b.recovering
    /\ branches' = branches \ {b}
    /\ results' = results \cup {[record |-> b.record, outcome |-> "unknown"]}
    /\ UNCHANGED <<movement, awaiting, reply, batch, conversation, pendings,
                   messageChannels, decisionChannels, otherChannels, round, books>>

(* appendToolBatchResults and the cursor moved past the batch.             *)
FinishBatch(records) ==
    /\ history' = history \o BatchEntries(records)
    /\ agent' = Advanced(agent, Len(records))
    /\ GoTo("CheckSteered", NextContinuation(agent, Len(records)))
    /\ batch' = NoBatch

Joined == [i \in 1..BatchSize |->
               IF i \in Unfinished
               THEN [batch.records[i] EXCEPT !.outcome =
                        (CHOOSE r \in results : r.record = i).outcome]
               ELSE batch.records[i]]

AwaitParallelToolResults ==
    /\ step = "AwaitParallelToolResults"
    /\ Cardinality(results) = Cardinality(Unfinished)
    /\ {r.record : r \in results} = Unfinished
    /\ results' = {}
    /\ IF Unresolved(Joined) # {}
       THEN /\ batch' = [batch EXCEPT !.records = Joined,
                             !.revision = IF @ = 0 THEN 1 ELSE @]
            /\ GoTo("AwaitManualToolRecovery", "none")
            /\ UNCHANGED <<agent, history>>
       ELSE /\ batch.first = agent.index
            /\ FinishBatch(Joined)
    /\ UNCHANGED <<awaiting, reply, branches, plan, issued, pendings, messageChannels,
                   decisionChannels, otherChannels, round, books>>

-----------------------------------------------------------------------------
(* Manual recovery.                                                        *)

AwaitManualToolRecoveryWaitFor ==
    /\ step = "AwaitManualToolRecovery" /\ phase = "wait_for"
    /\ Unresolved(batch.records) # {}
    /\ pendingRecovery' = [id |-> RecoveryID, calls |-> PendingCalls(batch.records)]
    /\ agent' = Status("waiting_for_tool_recovery")
    /\ phase' = "waiting"
    /\ UNCHANGED <<step, input, attempt, awaiting, reply, joining, plan, history, issued,
                   pendingApproval, pendingInput, pendingTimer, messageChannels,
                   decisionChannels, otherChannels, round, books>>

AwaitManualToolRecoverySteered ==
    /\ Unfinished = {}
    /\ SteerWaiting("AwaitManualToolRecovery",
                    [agent EXCEPT !.index = batch.first + BatchSize],
                    history \o BatchEntries(batch.records))
    /\ batch' = NoBatch
    /\ UNCHANGED <<branches, results>>

IsResolving(decision) ==
    /\ step = "AwaitManualToolRecovery" /\ phase = "waiting"
    /\ decision \in decisions /\ decision.id = RecoveryID
    /\ Unfinished = {}

(* stopToolSequenceAfterBatch *)
RecoveryStops(decision) ==
    /\ IsResolving(decision) /\ decision.stop
    /\ decisions' = decisions \ {decision}
    /\ history' = history \o BatchEntries(batch.records) \o
           Interrupted(SubSeq(agent.calls, batch.first + BatchSize + 1, Len(agent.calls)))
    /\ agent' = WithCallsCleared(agent)
    /\ batch' = NoBatch
    /\ GoTo("AwaitUser", "none")
    /\ UNCHANGED <<awaiting, reply, branches, results, plan, issued, pendings,
                   messageChannels, approvals, otherChannels, round, books>>

Mutant_RetriesEveryCall(decision) == Unresolved(batch.records)
Retried(decision) ==
    {i \in Unresolved(batch.records) : batch.records[i].call \in decision.retried}

(* A pending call that is not retried continues with its unknown outcome.  *)
RecoveryResumes(decision) ==
    LET retried == Retried(decision)
        records == [i \in 1..BatchSize |->
                       IF i \in retried
                       THEN [batch.records[i] EXCEPT !.outcome = "none"]
                       ELSE IF i \in Unresolved(batch.records)
                       THEN [batch.records[i] EXCEPT !.manual = FALSE]
                       ELSE batch.records[i]]
    IN  /\ IsResolving(decision) /\ ~decision.stop
        /\ decision.retried \subseteq PendingCalls(batch.records)
        /\ decisions' = decisions \ {decision}
        /\ IF retried = {}
           THEN /\ batch.first = agent.index
                /\ FinishBatch(records)
                /\ UNCHANGED branches
           ELSE /\ \A i \in retried : Available(ToolOf(batch.records[i].call))
                /\ batch' = [batch EXCEPT !.records = records, !.revision = @ + 1]
                /\ branches' = {Branch(i) : i \in retried}
                /\ agent' = Status("executing_tool")
                /\ GoTo("AwaitParallelToolResults", "none")
                /\ UNCHANGED history
        /\ UNCHANGED <<awaiting, reply, results, plan, issued, pendings, messageChannels,
                       approvals, otherChannels, round, books>>

-----------------------------------------------------------------------------
Init ==
    /\ step = "Init" /\ phase = "execute" /\ input = "none" /\ attempt = 1
    /\ awaitingAnswer = FALSE /\ selected = Nothing /\ reply = NoReply
    /\ batch = NoBatch /\ branches = {} /\ results = {}
    /\ agent = NewAgentState /\ plan = NoPlan /\ history = <<>> /\ issued = <<>>
    /\ pendingApproval = NoCall /\ pendingInput = NoCall /\ pendingTimer = NoCall
    /\ pendingRecovery = NoRecovery
    /\ queued = <<>> /\ steered = <<>> /\ answered = <<>>
    /\ approvals = {} /\ decisions = {} /\ executions = <<>>
    /\ round = 0
    /\ accepted = {} /\ deleted = {} /\ planRequests = 0 /\ requestedAt = 0

UserCommand ==
    \/ \E m \in Messages : SendMessage(m)
    \/ \E i \in 1..Len(queued) : DeleteQueuedMessage(i)
    \/ \E i \in 1..Len(queued) : SteerMessage(i)
    \/ AnswerQuestions
    \/ \E isApproved \in BOOLEAN : ApproveTool(isApproved)
    \/ \E isStop \in BOOLEAN : \E retried \in SUBSET pendingRecovery.calls :
           ResolveToolRecovery(isStop, retried)
    \/ ExecutePlan

UserBoundary ==
    \/ InitExecute \/ AwaitUserWaitFor
    \/ SelectAnswer \/ SelectSteered \/ SelectQueued \/ SelectPlan
    \/ AwaitUserExecuteAnswer \/ AwaitUserExecuteSteered \/ AwaitUserExecuteQueued
    \/ AwaitUserExecutePlan \/ AnsweredInput

ModelTurn ==
    \/ CallModel \/ CompactContext
    \/ BeforeModelCall \/ CallModelWithHooks \/ AfterModelCall
    \/ ApplyResponse \/ ApplyCompaction \/ ModelStepExhausted

Routed ==
    \/ CheckSteeredSteer \/ CheckSteeredContinue
    \/ RouteRefused \/ RouteWriteTodos \/ RouteDurableWait \/ RouteRequestUserInput
    \/ RouteParallel \/ RouteSerial

ToolWait ==
    \/ AwaitToolApprovalWaitFor \/ AwaitToolApprovalSteered \/ AwaitToolApprovalExecute
    \/ DurableWaitWaitFor \/ DurableWaitSteered \/ DurableWaitFires

ToolRun ==
    \/ ExecuteToolReturns \/ ExecuteToolAttemptFails
    \/ RecoverToolExecution \/ PrepareManualToolRecovery
    \/ \E b \in branches : BranchReturns(b) \/ BranchAttemptFails(b) \/ BranchRecovers(b)
    \/ AwaitParallelToolResults

Recovery ==
    \/ AwaitManualToolRecoveryWaitFor \/ AwaitManualToolRecoverySteered
    \/ \E decision \in decisions : RecoveryStops(decision) \/ RecoveryResumes(decision)

Worker == UserBoundary \/ ModelTurn \/ Routed \/ ToolWait \/ ToolRun \/ Recovery

Next == UserCommand \/ Worker

Spec == Init /\ [][Next]_vars

(* Dex keeps running the enabled Step and fires its timers; nothing obliges *)
(* a user to act.                                                          *)
FairSpec == Spec /\ WF_vars(Worker)

-----------------------------------------------------------------------------
(* Type invariant.                                                         *)

Outcomes == {"none", "succeeded", "failed", "unknown", "interrupted", "rejected", "refused"}
Statuses == {"waiting_for_message", "calling_model", "compacting_context", "routing_tool",
             "executing_tool", "waiting_for_tool_approval", "waiting_for_tool_recovery",
             "waiting_for_timer"}
Modes == {"chat", "planning", "executing"}

AgentStates ==
    [status : Statuses, mode : Modes, requiresWrite : BOOLEAN, allowsWrite : BOOLEAN,
     calls : Seq(Nat), index : Nat, planRevision : Nat, execution : Nat, noProgress : Nat]
Plans == [status : {"none", "draft", "active", "completed"}, revision : Nat, done : BOOLEAN]
Calls == [tool : Tools, argument : Arguments, runs : Nat, retries : Nat,
          verdict : {"none", "approved", "rejected"}]
Entries ==
    [role : {"user"}, message : Messages] \cup [role : {"answer"}, call : Nat] \cup
    [role : {"assistant"}, calls : Seq(Nat)] \cup
    [role : {"tool"}, call : Nat, outcome : Outcomes]
Records == [call : Nat, outcome : Outcomes, manual : BOOLEAN]
Batches == [sequence : Nat, first : Nat, revision : Nat, records : Seq(Records)]
RecoveryIDs == Nat \X Nat \X Nat
Selections == [kind : {"none", "answer", "steered", "queued", "plan"},
               messages : Seq(Messages), ref : Nat]

MovementType ==
    /\ step \in Steps /\ phase \in {"wait_for", "waiting", "execute"}
    /\ input \in Continuations \cup Kinds \cup {"none"} /\ attempt \in Nat
AwaitingType == awaitingAnswer \in BOOLEAN /\ selected \in Selections
ReplyType == reply \in [requests : Seq(Requests), expected : Nat]
JoiningType ==
    /\ batch \in Batches
    /\ branches \subseteq [record : Nat, attempt : Nat, recovering : BOOLEAN]
    /\ results \subseteq [record : Nat, outcome : Outcomes]
ConversationType ==
    /\ agent \in AgentStates /\ plan \in Plans
    /\ history \in Seq(Entries) /\ issued \in Seq(Calls)
PendingsType ==
    /\ pendingApproval \in Nat /\ pendingInput \in Nat /\ pendingTimer \in Nat
    /\ pendingRecovery \in [id : RecoveryIDs, calls : SUBSET Nat]
ChannelsType ==
    /\ queued \in Seq(Messages) /\ steered \in Seq(Messages)
    /\ approvals \subseteq [call : Nat, approved : BOOLEAN]
    /\ decisions \subseteq [id : RecoveryIDs, stop : BOOLEAN, retried : SUBSET Nat]
    /\ answered \in Seq(Nat) /\ executions \in Seq(Nat)
BooksType ==
    /\ round \in Nat /\ accepted \subseteq Messages /\ deleted \subseteq Messages
    /\ planRequests \in Nat /\ requestedAt \in Nat

(* Each attribute, channel and Step input holds a value of its Go type.    *)
TypeOK ==
    /\ MovementType /\ AwaitingType /\ ReplyType /\ JoiningType
    /\ ConversationType /\ PendingsType /\ ChannelsType /\ BooksType

-----------------------------------------------------------------------------
(* History.                                                                *)

ResultsOf(call) ==
    {k \in 1..Len(history) : history[k].role = "tool" /\ history[k].call = call}
MessagePlaces(m) ==
    {k \in 1..Len(history) : history[k].role = "user" /\ history[k].message = m}

(* Providers reject a conversation whose tool calls are not answered right *)
(* after the reply that made them, in its order.  Whatever interrupts a    *)
(* sequence - steering, a question, a stop, a rejection, an unknown        *)
(* outcome, a parallel join - the results follow their reply contiguously, *)
(* and only the calls at or after the cursor still lack one.               *)
PairedHistory ==
    \A k \in 1..Len(history) :
        LET e == history[k] IN
        /\ e.role = "assistant" =>
              \A j \in 1..Len(e.calls) :
                  IF k + j <= Len(history)
                  THEN history[k + j].role = "tool" /\ history[k + j].call = e.calls[j]
                  ELSE agent.calls = e.calls /\ j > agent.index
        /\ e.role = "tool" => Cardinality(ResultsOf(e.call)) = 1

(* The model is never called while a call of its last reply is open.       *)
ModelSeesClosedHistory ==
    step \in ModelSteps \cup {"ApplyModelResult"} =>
        /\ agent.calls = <<>>
        /\ \A call \in DOMAIN issued : ResultsOf(call) # {}

(* The user turns: those in the history, and those AwaitUser consumed.     *)
UserPlaces(h) == {k \in 1..Len(h) : h[k].role = "user"}
Rank(places, k) == Cardinality({j \in places : j <= k})
UserMessages(h) ==
    LET places == UserPlaces(h)
    IN  [i \in 1..Cardinality(places) |->
            h[CHOOSE k \in places : Rank(places, k) = i].message]
TakenMessages == UserMessages(history) \o selected.messages

Delivery == INSTANCE MessageDelivery WITH taken <- TakenMessages

(* Every message SendMessage accepted is in exactly one place - a channel, *)
(* an AwaitUser that consumed it, the history, or deleted by the user -    *)
(* and becomes a turn once, in the order of its channel, although steering *)
(* moves it between channels (flow.go:357), AwaitUser consumes before it   *)
(* executes, and CheckSteered, recoveries and timers take steering too.    *)
DeliversMessages == Delivery!Spec

-----------------------------------------------------------------------------
(* Effects.                                                                *)

(* A result never lies about the tool: what is reported as interrupted,    *)
(* rejected or refused was never invoked, and a known outcome of an        *)
(* external tool came from an invocation.                                  *)
HonestResults ==
    \A k \in 1..Len(history) :
        LET e == history[k] IN
        e.role = "tool" =>
            /\ e.outcome # "none"
            /\ e.outcome \in {"interrupted", "rejected", "refused"} =>
                  issued[e.call].runs = 0
            /\ e.outcome \in {"succeeded", "failed"} /\ ToolOf(e.call) \in ExternalTools =>
                  issued[e.call].runs > 0

(* A tool that needs approval runs only for a call the user approved.      *)
ApprovedEffects ==
    \A call \in DOMAIN issued :
        issued[call].runs > 0 /\ ToolOf(call) \in NeedsApproval =>
            issued[call].verdict = "approved"

(* A call runs once per Dex attempt of its one execution and of each retry *)
(* the user asked for; steering, recovery and joins never run it again.    *)
BoundedEffects ==
    \A call \in DOMAIN issued :
        issued[call].runs <= MaximumAttempts * (1 + issued[call].retries)

(* No external tool runs in a planning turn, or while the plan is a draft  *)
(* the user has not executed.                                              *)
Executing == step = "ExecuteTool" \/ \E b \in branches : ~b.recovering
PlanningRunsNothing ==
    Executing => agent.mode # "planning" /\ plan.status # "draft"

-----------------------------------------------------------------------------
(* Waits and pending attributes.                                           *)

(* A wait for a decision can end: the attribute its command needs is set,  *)
(* or the decision is already published, or steering is.                   *)
WaitsCanEnd ==
    phase = "waiting" =>
        /\ step = "AwaitToolApproval" =>
              \/ pendingApproval = CurrentCall
              \/ \E decision \in approvals : decision.call = CurrentCall
        /\ step = "AwaitManualToolRecovery" =>
              \/ pendingRecovery = [id |-> RecoveryID,
                                    calls |-> PendingCalls(batch.records)]
              \/ \E decision \in decisions : decision.id = RecoveryID
              \/ steered # <<>>
        /\ step = "AwaitUser" /\ awaitingAnswer => pendingInput # NoCall \/ answered # <<>>

ApprovalMatchesStep ==
    pendingApproval # NoCall =>
        /\ \/ step = "AwaitToolApproval"
           \/ step = "CheckSteered" /\ input = "await_tool_approval"
        /\ HasCurrentCall /\ pendingApproval = CurrentCall
TimerMatchesStep ==
    pendingTimer # NoCall =>
        /\ \/ step = "DurableWait"
           \/ step = "CheckSteered" /\ input = "durable_wait"
        /\ HasCurrentCall /\ pendingTimer = CurrentCall
InputMatchesStep ==
    pendingInput # NoCall =>
        /\ step = "AwaitUser" /\ phase \in {"wait_for", "waiting"}
        /\ answered = <<>> /\ (phase = "waiting" => awaitingAnswer)
RecoveryMatchesStep ==
    pendingRecovery # NoRecovery =>
        step = "AwaitManualToolRecovery" /\ phase = "waiting"

(* A pending attribute is set only while the flow is at, or on its way to, *)
(* the Step that consumes its decision, and for the call at the cursor; so *)
(* no command can be accepted for a call the flow has left behind.         *)
PendingsMatchStep ==
    /\ ApprovalMatchesStep /\ TimerMatchesStep
    /\ InputMatchesStep /\ RecoveryMatchesStep

(* None of the internal errors of the Executes can be returned: a missing  *)
(* current call or timer, a definition that became unavailable, a wait     *)
(* that ended without its input, an incomplete or mismatched batch, a      *)
(* moved message sequence.                                                 *)
NoInternalError ==
    /\ \/ step \in {"RouteTool", "AwaitToolApproval", "ExecuteTool", "DurableWait",
                    "RecoverToolExecution", "PrepareManualToolRecovery"}
       \/ step = "CheckSteered" /\ input = "execute_tool"
       => HasCurrentCall
    /\ step = "ExecuteTool" \/ (step = "CheckSteered" /\ input = "execute_tool") =>
          Available(CurrentTool)
    /\ \A b \in branches : Available(ToolOf(CallOf(b)))
    /\ step = "DurableWait" => pendingTimer # NoCall
    /\ step = "AwaitUser" /\ phase = "execute" =>
          selected.kind # "none" /\ (selected.kind = "plan" => plan.status # "none")
    /\ step = "ApplyModelResult" /\ input = "response" =>
          reply.expected = Len(history) + 1
    /\ step \in {"AwaitParallelToolResults", "AwaitManualToolRecovery"} =>
          batch.first = agent.index /\ agent.index + BatchSize <= Len(agent.calls)
    /\ step = "AwaitParallelToolResults" =>
          {b.record : b \in branches} \cup {r.record : r \in results} = Unfinished
    /\ step = "AwaitManualToolRecovery" => Unfinished = {} /\ Unresolved(batch.records) # {}

-----------------------------------------------------------------------------
(* Plans.                                                                  *)

(* An accepted ExecutePlan never wedges the Agent: while the attribute     *)
(* that refuses a second request is set, AwaitUser can still consume the   *)
(* request, or has consumed an input that will clear the attribute.        *)
PlanRequestIsPending ==
    agent.execution # 0 =>
        /\ step = "AwaitUser"
        /\ agent.execution = plan.revision /\ plan.status \in {"draft", "active"}
        /\ HasPlanRequest \/ selected.kind # "none"

(* A plan starts only from a request the user made after the last message: *)
(* one overtaken by a user turn stays in its channel and starts nothing.   *)
PlanStartsOnRequest ==
    [][step = "AwaitUser" /\ selected.kind = "plan" /\ step' = "CheckSteered"
          => requestedAt = Len(history) /\ planRequests > 0]_<<step, selected>>

(* An executing plan gets one automatic retry after a reply that made no   *)
(* progress; a third such reply in a row needs a new request of the user.  *)
IsText(k) == history[k].role = "assistant" /\ history[k].calls = <<>>
StalledPlanStops ==
    LET last == Len(history) IN
    /\ step = "CheckSteered" /\ input = "call_model"
    /\ last > 1 /\ IsText(last) /\ IsText(last - 1)
    => requestedAt >= last - 1

-----------------------------------------------------------------------------
(* What the documentation says and the code does not do.                   *)

(* docs/adr/0005: AnsweredInput "starts the answer's model turn before     *)
(* either queue".                                                          *)
AnswerReachesModelFirst ==
    \A k \in 1..(Len(history) - 1) :
        history[k].role = "answer" => history[k + 1].role = "assistant"

(* docs/adr/0013: "a recovery decision and steering cannot both commit".   *)
OneRecoveryCommandCommits ==
    ~ /\ step = "AwaitManualToolRecovery" /\ phase = "waiting"
      /\ steered # <<>>
      /\ \E decision \in decisions : decision.id = RecoveryID

(* ARCHITECTURE: stopping or steering a recovery "returns to user input    *)
(* without invoking the model", so a steered recovery never reaches a      *)
(* model Step before AwaitUser.                                            *)
SteeredRecoveryReturnsToUser ==
    [][step = "AwaitManualToolRecovery" /\ steered # <<>> /\ steered' = <<>>
          => step' = "AwaitUser"]_vars

-----------------------------------------------------------------------------
(* Liveness.                                                               *)

AwaitsDecision ==
    /\ phase = "waiting"
    /\ \/ step \in {"AwaitToolApproval", "AwaitManualToolRecovery"}
       \/ step = "AwaitUser" /\ awaitingAnswer

(* An accepted message reaches the history unless the user deletes it, or  *)
(* the flow waits for a decision of the user, or the run failed.           *)
AcceptedMessageIsTaken ==
    \A m \in Messages :
        m \in accepted ~>
            (MessagePlaces(m) # {} \/ m \in deleted \/ AwaitsDecision \/ step = "Failed")

(* Steering waits for nothing but a pending question: an approval wait, a  *)
(* recovery wait and a timer all give way to it.                           *)
SteeringIsApplied ==
    \A m \in Messages :
        (\E i \in 1..Len(steered) : steered[i] = m) ~>
            (\/ MessagePlaces(m) # {} \/ step = "Failed"
             \/ step = "AwaitUser" /\ phase = "waiting" /\ awaitingAnswer)

(* An accepted answer, approval or recovery decision ends the wait it was  *)
(* made for, also when it is accepted before that wait begins.             *)
AcceptedDecisionEndsWait ==
    /\ answered # <<>> ~> (answered = <<>> \/ step = "Failed")
    /\ (/\ step = "AwaitToolApproval" /\ HasCurrentCall
        /\ \E decision \in approvals : decision.call = CurrentCall)
          ~> step # "AwaitToolApproval"
    /\ (/\ step = "AwaitManualToolRecovery"
        /\ \E decision \in decisions : decision.id = RecoveryID)
          ~> step # "AwaitManualToolRecovery"
=============================================================================
