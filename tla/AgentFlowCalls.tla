--------------------------- MODULE AgentFlowCalls ---------------------------
(***************************************************************************)
(* Type correctness of AgentFlow and the calls of one model reply, for     *)
(* every value of the constants.  Each attribute, channel and Step input   *)
(* keeps the type its Go declaration gives it (one lemma per operator that *)
(* builds a value, one per group of actions); what is pending belongs to   *)
(* the Step that waits for it; no Execute meets an internal error, no tool *)
(* runs unapproved or in a planning turn, and each wait can end.           *)
(*                                                                         *)
(* The calls an Agent works on are the last it was issued, so a call is    *)
(* settled exactly if its number is at most Settled, the next one is the   *)
(* call at the cursor, and a batch holds the calls that follow.            *)
(***************************************************************************)
EXTENDS AgentFlow, SequenceTheorems, TLAPS

USE DEF NoCall

(* dex.GoTo to a Step of GetSteps leaves a typed movement.                 *)
LEMMA GoToType ==
  ASSUME NEW s \in Steps, NEW i \in Continuations \cup Kinds \cup {"none"}, GoTo(s, i)
  PROVE  MovementType'
BY DEF GoTo, MovementType

(* So does the choice between the hooked and the plain model Steps.        *)
LEMMA GoToModelType ==
  ASSUME NEW kind \in Kinds, GoToModel(kind)
  PROVE  MovementType'
BY GoToType DEF GoToModel, Steps, ModelSteps, Kinds

(* And checkSteered's choice between compaction and a model call.          *)
LEMMA GoToCompactContextType ==
  ASSUME NEW h, GoToCompactContext(h)
  PROVE  MovementType'
BY GoToModelType DEF GoToCompactContext, Kinds

(* clearPendingToolCalls keeps an AgentState an AgentState.                *)
LEMMA WithCallsClearedType ==
  ASSUME NEW a \in AgentStates
  PROVE  WithCallsCleared(a) \in AgentStates
BY EmptySeq DEF AgentStates, WithCallsCleared

(* Clearing the plan request keeps an AgentState.                          *)
LEMMA WithPlanRequestClearedType ==
  ASSUME NEW a \in AgentStates
  PROVE  WithPlanRequestCleared(a) \in AgentStates
BY DEF AgentStates, WithPlanRequestCleared

(* beginUserTurn writes an AgentState, whatever message begins the turn.   *)
LEMMA AfterUserTurnType ==
  ASSUME NEW a \in AgentStates, NEW p \in BOOLEAN, NEW q \in BOOLEAN
  PROVE  AfterUserTurn(a, p, q) \in AgentStates
<1> DEFINE b == WithPlanRequestCleared(WithCallsCleared(a))
<1>1. b \in AgentStates
  BY WithCallsClearedType, WithPlanRequestClearedType
<1> HIDE DEF b
<1> QED
  BY <1>1 DEF AfterUserTurn, AgentStates, Statuses, Modes, b

(* updateStatus writes an AgentState.                                      *)
LEMMA StatusType ==
  ASSUME ConversationType, NEW s \in Statuses
  PROVE  Status(s) \in AgentStates
BY DEF ConversationType, AgentStates, Status

(* advanceTool and clearPendingToolCalls write an AgentState.              *)
LEMMA AdvancedType ==
  ASSUME NEW a \in AgentStates, NEW count \in Nat
  PROVE  Advanced(a, count) \in AgentStates
<1>1. CASE a.index + count < Len(a.calls)
  <2>1. a.index + count \in Nat
    BY DEF AgentStates
  <2>2. Advanced(a, count) = [a EXCEPT !.index = a.index + count]
    BY <1>1 DEF Advanced
  <2> QED
    BY <2>1, <2>2 DEF AgentStates
<1>2. CASE ~(a.index + count < Len(a.calls))
  BY <1>2, WithCallsClearedType DEF Advanced
<1> QED
  BY <1>1, <1>2

(* The abandoned calls of beginSteeredTurn are a sequence of calls.        *)
LEMMA RemainingType ==
  ASSUME NEW a \in AgentStates
  PROVE  Remaining(a) \in Seq(Nat)
BY SubSeqProperties DEF AgentStates, Remaining

(* With a current call the abandoned calls are not empty.                  *)
LEMMA RemainingNotEmpty ==
  ASSUME NEW a \in AgentStates, a.index < Len(a.calls)
  PROVE  Remaining(a) # <<>> /\ Tail(Remaining(a)) \in Seq(Nat)
<1>1. a.calls \in Seq(Nat) /\ a.index \in Nat /\ Len(a.calls) \in Nat
  BY LenProperties DEF AgentStates
<1>2. Len(Remaining(a)) = Len(a.calls) - a.index
  <2>1. a.index + 1 \in 1..(Len(a.calls) + 1) /\ Len(a.calls) \in 0..Len(a.calls)
    BY <1>1
  <2>2. Len(Remaining(a)) = Len(a.calls) - (a.index + 1) + 1
    BY <1>1, <2>1, SubSeqProperties DEF Remaining
  <2> QED
    BY <1>1, <2>2
<1>3. Remaining(a) # <<>>
  BY <1>1, <1>2, EmptySeq
<1> QED
  BY <1>3, RemainingType, HeadTailProperties

(* The calls a parallel prefix takes from the cursor are calls.            *)
LEMMA CallAtType ==
  ASSUME NEW a \in AgentStates, NEW n \in Nat, a.index + n <= Len(a.calls), NEW i \in 1..n
  PROVE  a.calls[a.index + i] \in Nat
<1>1. a.calls \in Seq(Nat) /\ a.index \in Nat /\ Len(a.calls) \in Nat
  BY LenProperties DEF AgentStates
<1>2. a.index + i \in 1..Len(a.calls)
  BY <1>1
<1> QED
  BY <1>1, <1>2, ElementOfSeq

(* replacePlan and the refusal of an invalid plan write an AgentState.     *)
LEMMA PlanWriteType ==
  ASSUME NEW a \in AgentStates
  PROVE  /\ [a EXCEPT !.requiresWrite = FALSE, !.allowsWrite = TRUE] \in AgentStates
         /\ [a EXCEPT !.planRevision = @ + 1, !.requiresWrite = FALSE, !.allowsWrite = FALSE,
                      !.execution = 0, !.noProgress = 0] \in AgentStates
<1>1. a.planRevision + 1 \in Nat
  BY DEF AgentStates
<1> QED
  BY <1>1 DEF AgentStates

(* The interrupted results are history entries.                            *)
LEMMA InterruptedType ==
  ASSUME NEW calls \in Seq(Nat)
  PROVE  Interrupted(calls) \in Seq(Entries)
<1>1. \A i \in 1..Len(calls) : ToolEntry(calls[i], "interrupted") \in Entries
  BY ElementOfSeq DEF ToolEntry, Entries, Outcomes
<1> QED
  BY <1>1 DEF Interrupted

(* The user messages appended by a turn are history entries.               *)
LEMMA UserEntriesType ==
  ASSUME NEW ms \in Seq(Messages)
  PROVE  UserEntries(ms) \in Seq(Entries)
<1>1. \A i \in 1..Len(ms) : UserEntry(ms[i]) \in Entries
  BY ElementOfSeq DEF UserEntry, Entries
<1> QED
  BY <1>1 DEF UserEntries

(* appendToolBatchResults appends history entries.                         *)
LEMMA BatchEntriesType ==
  ASSUME NEW records \in Seq(Records)
  PROVE  BatchEntries(records) \in Seq(Entries)
<1>1. \A i \in 1..Len(records) : ToolEntry(records[i].call, records[i].outcome) \in Entries
  <2> TAKE i \in 1..Len(records)
  <2>1. records[i] \in Records
    BY ElementOfSeq
  <2> QED
    BY <2>1 DEF ToolEntry, Entries, Records
<1> QED
  BY <1>1 DEF BatchEntries

(* currentToolCall returns a call when the cursor is inside the reply.     *)
LEMMA CurrentCallType ==
  ASSUME ConversationType, HasCurrentCall
  PROVE  CurrentCall \in Nat
<1>1. agent.calls \in Seq(Nat) /\ agent.index \in Nat
  BY DEF ConversationType, AgentStates
<1>2. agent.index + 1 \in 1..Len(agent.calls)
  BY <1>1, LenProperties DEF HasCurrentCall
<1> QED
  BY <1>1, <1>2, ElementOfSeq DEF CurrentCall

(* Taking one message out of a channel leaves a channel.                   *)
LEMMA RemoveAtType ==
  ASSUME NEW S, NEW s \in Seq(S), NEW i \in 1..Len(s)
  PROVE  RemoveAt(s, i) \in Seq(S)
BY SubSeqProperties, ConcatProperties DEF RemoveAt


(* Rewriting issued calls one by one leaves a sequence of calls.           *)
LEMMA MappedCallsType ==
  ASSUME NEW s \in Seq(Calls), NEW t,
         t = [call \in DOMAIN s |-> t[call]],
         \A call \in DOMAIN s : t[call] \in Calls
  PROVE  t \in Seq(Calls)
<1>1. DOMAIN s = 1..Len(s) /\ Len(s) \in Nat
  BY LenProperties
<1> QED
  BY <1>1

(* Recording an invocation leaves a sequence of calls.                     *)
LEMMA RanType ==
  ASSUME ConversationType, NEW c, NEW count \in Nat
  PROVE  Ran(c, count) \in Seq(Calls)
<1> DEFINE t == Ran(c, count)
<1>1. t = [call \in DOMAIN issued |-> t[call]]
  BY DEF Ran
<1>2. \A call \in DOMAIN issued : issued[call] \in Calls
  BY LenProperties, ElementOfSeq DEF ConversationType
<1>3. \A call \in DOMAIN issued : [issued[call] EXCEPT !.runs = @ + count] \in Calls
  BY <1>2 DEF Calls
<1>4. \A call \in DOMAIN issued : t[call] \in Calls
  BY <1>2, <1>3 DEF Ran
<1> HIDE DEF t
<1>5. t \in Seq(Calls)
  BY <1>1, <1>4, MappedCallsType DEF ConversationType
<1> QED
  BY <1>5 DEF t

(* appendToolResult and continueAfterTool keep every type they touch.      *)
LEMMA FinishCurrentCallType ==
  ASSUME ConversationType, HasCurrentCall, NEW a \in AgentStates, NEW o \in Outcomes,
         FinishCurrentCall(a, o)
  PROVE  MovementType' /\ agent' \in AgentStates /\ history' \in Seq(Entries)
<1>1. ToolEntry(CurrentCall, o) \in Entries
  BY CurrentCallType DEF ToolEntry, Entries
<1>2. history' \in Seq(Entries)
  BY <1>1, AppendProperties DEF FinishCurrentCall, ConversationType
<1>3. agent' \in AgentStates
  BY AdvancedType DEF FinishCurrentCall
<1>4. MovementType'
  BY GoToType DEF FinishCurrentCall, NextContinuation, Steps, Continuations
<1> QED
  BY <1>2, <1>3, <1>4

(* beginSteeredTurn keeps every type it touches.                           *)
LEMMA BeginSteeredTurnType ==
  ASSUME ConversationType, NEW messages \in Seq(Messages), NEW a \in AgentStates,
         NEW h \in Seq(Entries), BeginSteeredTurn(messages, a, h)
  PROVE  agent' \in AgentStates /\ history' \in Seq(Entries) /\ PendingsType'
<1>1. agent' \in AgentStates
  <2>1. (Last(messages) \in PlanModeMessages) \in BOOLEAN
    OBVIOUS
  <2> QED
    BY <2>1, AfterUserTurnType DEF BeginSteeredTurn
<1>2. history' \in Seq(Entries)
  <2>1. h \o Interrupted(Remaining(a)) \in Seq(Entries)
    BY RemainingType, InterruptedType, ConcatProperties
  <2> QED
    BY <2>1, UserEntriesType, ConcatProperties DEF BeginSteeredTurn
<1>3. PendingsType'
  BY DEF BeginSteeredTurn, PendingsType, NoRecovery, RecoveryIDs
<1> QED
  BY <1>1, <1>2, <1>3

(* A model reply is a sequence of requests.                                *)
LEMMA ModelRepliesType ==
  ASSUME NEW requests \in ModelReplies
  PROVE  requests \in Seq(Requests)
BY ToolAssumption, EmptySeq DEF ModelReplies

(* Applying a reply keeps every type it touches, on each of its branches.  *)
LEMMA ApplyReplyType ==
  ASSUME ConversationType, NEW a \in AgentStates, NEW requests \in Seq(Requests),
         ApplyReply(a, requests)
  PROVE  MovementType' /\ agent' \in AgentStates /\ history' \in Seq(Entries)
            /\ issued' \in Seq(Calls)
<1> DEFINE calls == [i \in 1..Len(requests) |-> Len(issued) + i]
           new == [i \in 1..Len(requests) |-> NewCall(requests[i])]
<1>1. Len(requests) \in Nat /\ Len(issued) \in Nat
  BY LenProperties DEF ConversationType
<1>2. calls \in Seq(Nat)
  <2>1. \A i \in 1..Len(requests) : Len(issued) + i \in Nat
    BY <1>1
  <2> QED
    BY <1>1, <2>1
<1>3. new \in Seq(Calls)
  <2>1. \A i \in 1..Len(requests) : NewCall(requests[i]) \in Calls
    <3> TAKE i \in 1..Len(requests)
    <3>1. requests[i] \in Requests
      BY ElementOfSeq
    <3> QED
      BY <3>1 DEF NewCall, Calls, Requests
  <2> QED
    BY <1>1, <2>1
<1>4. history' = Append(history, AssistantEntry(calls)) /\ issued' = issued \o new
  BY DEF ApplyReply
<1>5. history' \in Seq(Entries)
  <2>1. AssistantEntry(calls) \in Entries
    BY <1>2 DEF AssistantEntry, Entries
  <2> QED
    BY <1>4, <2>1, AppendProperties DEF ConversationType
<1>6. issued' \in Seq(Calls)
  BY <1>3, <1>4, ConcatProperties DEF ConversationType
<1>7. MovementType'
  BY GoToType DEF ApplyReply, Steps, Continuations
<1>8. agent' \in AgentStates
  <2>1. CASE requests # <<>>
    <3>1. agent' = [a EXCEPT !.status = "routing_tool", !.calls = calls, !.index = 0,
                        !.noProgress = 0]
      BY <2>1 DEF ApplyReply
    <3> HIDE DEF calls
    <3> QED
      BY <1>2, <3>1 DEF AgentStates, Statuses
  <2>2. CASE requests = <<>> /\ plan.status \in {"none", "completed"}
    <3>1. agent' = [a EXCEPT !.mode = "chat", !.requiresWrite = FALSE, !.noProgress = 0]
      BY <2>2 DEF ApplyReply
    <3> QED
      BY <3>1 DEF AgentStates, Modes
  <2>3. CASE requests = <<>> /\ plan.status \notin {"none", "completed"}
    <3>1. agent' = [a EXCEPT !.noProgress = @ + 1] \/ agent' = [a EXCEPT !.noProgress = @]
      BY <2>3 DEF ApplyReply
    <3>2. a.noProgress + 1 \in Nat
      BY DEF AgentStates
    <3> QED
      BY <3>1, <3>2 DEF AgentStates
  <2> QED
    BY <2>1, <2>2, <2>3
<1> QED
  BY <1>5, <1>6, <1>7, <1>8

(* The calls a stop interrupts are a sequence of calls.                    *)
LEMMA RecordsSubSeqType ==
  ASSUME NEW calls \in Seq(Nat), NEW m \in Nat \ {0}
  PROVE  SubSeq(calls, m, Len(calls)) \in Seq(Nat)
BY LenProperties, ElementOfSeq, SubSeqProperties

(* finishToolBatch keeps every type it touches.                            *)
LEMMA FinishBatchType ==
  ASSUME ConversationType, NEW records \in Seq(Records), FinishBatch(records)
  PROVE  /\ MovementType' /\ agent' \in AgentStates /\ history' \in Seq(Entries)
         /\ batch' \in Batches
<1>1. history' \in Seq(Entries)
  BY BatchEntriesType, ConcatProperties DEF FinishBatch, ConversationType
<1>2. agent' \in AgentStates
  BY AdvancedType, LenProperties DEF FinishBatch, ConversationType
<1>3. MovementType'
  BY GoToType DEF FinishBatch, NextContinuation, Steps, Continuations
<1>4. batch' \in Batches
  BY EmptySeq DEF FinishBatch, NoBatch, Batches
<1> QED
  BY <1>1, <1>2, <1>3, <1>4

(* The steering branch of a waiting Step keeps every type it touches.      *)
LEMMA SteerWaitingType ==
  ASSUME ConversationType, ChannelsType, NEW s, NEW a \in AgentStates, NEW h \in Seq(Entries),
         SteerWaiting(s, a, h)
  PROVE  /\ MovementType' /\ agent' \in AgentStates /\ history' \in Seq(Entries)
         /\ PendingsType' /\ steered' \in Seq(Messages)
<1>1. steered \in Seq(Messages) /\ BeginSteeredTurn(steered, a, h)
  BY DEF SteerWaiting, ChannelsType
<1>2. MovementType'
  BY GoToType DEF SteerWaiting, Steps, Continuations
<1> QED
  BY <1>1, <1>2, BeginSteeredTurnType, EmptySeq DEF SteerWaiting

(* Arithmetic on cursor and batch positions stays in Nat.                  *)
LEMMA Sums ==
  ASSUME NEW m \in Nat, NEW n \in Nat
  PROVE  m + n \in Nat /\ m + n + 1 \in Nat \ {0} /\ m + 1 \in Nat
OBVIOUS

(* A function on 1..n with values in S is a sequence over S.               *)
LEMMA SequenceOf ==
  ASSUME NEW S, NEW n \in Nat, NEW f, f = [i \in 1..n |-> f[i]], \A i \in 1..n : f[i] \in S
  PROVE  f \in Seq(S)
OBVIOUS

(* A failed attempt and an exhausted retry leave a branch.                 *)
LEMMA BranchUpdateType ==
  ASSUME NEW b \in [record : Nat, attempt : Nat, recovering : BOOLEAN]
  PROVE  /\ [b EXCEPT !.recovering = TRUE] \in [record : Nat, attempt : Nat, recovering : BOOLEAN]
         /\ [b EXCEPT !.attempt = @ + 1] \in [record : Nat, attempt : Nat, recovering : BOOLEAN]
<1>1. b.attempt + 1 \in Nat
  OBVIOUS
<1> QED
  BY <1>1

(* A joined and a resumed batch are batches.                               *)
LEMMA BatchUpdateType ==
  ASSUME NEW b \in Batches, NEW records \in Seq(Records)
  PROVE  /\ [b EXCEPT !.records = records, !.revision = @ + 1] \in Batches
         /\ [b EXCEPT !.records = records, !.revision = IF @ = 0 THEN 1 ELSE @] \in Batches
<1>1. b.revision + 1 \in Nat
  BY DEF Batches
<1> QED
  BY <1>1 DEF Batches

(* The records completed by the parallel results are records.              *)
LEMMA JoinedType ==
  ASSUME JoiningType, AwaitParallelToolResults
  PROVE  Joined \in Seq(Records)
<1>1. \A i \in Unfinished : (CHOOSE r \in results : r.record = i).outcome \in Outcomes
  BY DEF AwaitParallelToolResults, JoiningType
<1>2. batch.records \in Seq(Records) /\ BatchSize \in Nat
  BY LenProperties DEF JoiningType, Batches, BatchSize
<1>3. \A i \in 1..BatchSize : batch.records[i] \in Records
  BY <1>2, ElementOfSeq DEF BatchSize
<1>4. \A i \in 1..BatchSize : Joined[i] \in Records
  <2> TAKE i \in 1..BatchSize
  <2>1. CASE i \in Unfinished
    BY <1>1, <1>3, <2>1 DEF Joined, Records
  <2>2. CASE i \notin Unfinished
    BY <1>3, <2>2 DEF Joined
  <2> QED
    BY <2>1, <2>2
<1>5. Joined = [i \in 1..BatchSize |-> Joined[i]]
  BY DEF Joined
<1> QED
  BY <1>2, <1>4, <1>5, SequenceOf

(* Every RPC preserves the types.                                          *)
LEMMA UserCommandType ==
  ASSUME TypeOK, UserCommand
  PROVE  TypeOK'
<1> USE DEF TypeOK, MovementType, AwaitingType, ReplyType, JoiningType, ConversationType,
            PendingsType, ChannelsType, BooksType, movement, awaiting, joining,
            conversation, pendings, messageChannels, decisionChannels, otherChannels, books
<1>1. ASSUME NEW m \in Messages, SendMessage(m)
      PROVE  TypeOK'
  <2>1. Append(queued, m) \in Seq(Messages)
    BY AppendProperties
  <2>2. ChannelsType' /\ BooksType'
    BY <1>1, <2>1 DEF SendMessage
  <2> QED
    BY <1>1, <2>2 DEF SendMessage
<1>2. ASSUME NEW i \in 1..Len(queued), DeleteQueuedMessage(i)
      PROVE  TypeOK'
  <2>1. RemoveAt(queued, i) \in Seq(Messages) /\ queued[i] \in Messages
    BY RemoveAtType, ElementOfSeq
  <2> QED
    BY <1>2, <2>1 DEF DeleteQueuedMessage
<1>3. ASSUME NEW i \in 1..Len(queued), SteerMessage(i)
      PROVE  TypeOK'
  <2>1. RemoveAt(queued, i) \in Seq(Messages) /\ queued[i] \in Messages
    BY RemoveAtType, ElementOfSeq
  <2>2. NoRecovery \in [id : RecoveryIDs, calls : SUBSET Nat]
    BY DEF NoRecovery, RecoveryIDs
  <2>3. PendingsType'
    BY <1>3, <2>2 DEF SteerMessage
  <2>4. queued' \in Seq(Messages) /\ steered' \in Seq(Messages)
    BY <1>3, <2>1, AppendProperties DEF SteerMessage
  <2> QED
    BY <1>3, <2>3, <2>4 DEF SteerMessage
<1>4. CASE AnswerQuestions
  <2>1. answered' \in Seq(Nat)
    BY <1>4, AppendProperties DEF AnswerQuestions
  <2> QED
    BY <1>4, <2>1 DEF AnswerQuestions
<1>5. ASSUME NEW isApproved \in BOOLEAN, ApproveTool(isApproved)
      PROVE  TypeOK'
  <2>1. issued' \in Seq(Calls)
    <3>1. issued' = [call \in DOMAIN issued |-> issued'[call]]
      BY <1>5 DEF ApproveTool
    <3>2. \A call \in DOMAIN issued : issued[call] \in Calls
      BY LenProperties, ElementOfSeq
    <3>3. \A call \in DOMAIN issued : issued'[call] \in Calls
      BY <1>5, <3>2 DEF ApproveTool, Calls
    <3> QED
      BY <3>1, <3>3, MappedCallsType
  <2>2. Approval(isApproved) \subseteq [call : Nat, approved : BOOLEAN]
    BY DEF Approval
  <2> QED
    BY <1>5, <2>1, <2>2 DEF ApproveTool
<1>6. ASSUME NEW isStop \in BOOLEAN, NEW retried \in SUBSET pendingRecovery.calls,
             ResolveToolRecovery(isStop, retried)
      PROVE  TypeOK'
  <2>1. issued' \in Seq(Calls)
    <3>1. issued' = [call \in DOMAIN issued |-> issued'[call]]
      BY <1>6 DEF ResolveToolRecovery
    <3>2. \A call \in DOMAIN issued : issued[call] \in Calls
      BY LenProperties, ElementOfSeq
    <3>3. \A call \in DOMAIN issued :
             [issued[call] EXCEPT !.retries = @ + 1] \in Calls
      <4> TAKE call \in DOMAIN issued
      <4>1. issued[call] \in Calls
        BY <3>2
      <4>2. issued[call].retries + 1 \in Nat
        BY <4>1 DEF Calls
      <4> QED
        BY <4>1, <4>2 DEF Calls
    <3>4. \A call \in DOMAIN issued : issued'[call] \in Calls
      BY <1>6, <3>2, <3>3 DEF ResolveToolRecovery
    <3> QED
      BY <3>1, <3>4, MappedCallsType
  <2>2. decisions' \subseteq [id : RecoveryIDs, stop : BOOLEAN, retried : SUBSET Nat]
    BY <1>6, SMTT(20) DEF ResolveToolRecovery
  <2>3. NoRecovery \in [id : RecoveryIDs, calls : SUBSET Nat]
    BY DEF NoRecovery, RecoveryIDs
  <2> QED
    BY <1>6, <2>1, <2>2, <2>3 DEF ResolveToolRecovery
<1>7. CASE ExecutePlan
  <2>1. agent' \in AgentStates
    BY <1>7 DEF ExecutePlan, AgentStates, Plans
  <2>2. Append(executions, plan.revision) \in Seq(Nat) /\ Len(history) \in Nat
    BY LenProperties, AppendProperties DEF Plans
  <2>3. planRequests + 1 \in Nat
    OBVIOUS
  <2>4. ConversationType' /\ ChannelsType' /\ BooksType'
    BY <1>7, <2>1, <2>2, <2>3 DEF ExecutePlan
  <2> QED
    BY <1>7, <2>4 DEF ExecutePlan
<1> QED
  BY <1>1, <1>2, <1>3, <1>4, <1>5, <1>6, <1>7 DEF UserCommand

(* Init, AwaitUser and AnsweredInput preserve the types.                   *)
LEMMA UserBoundaryType ==
  ASSUME TypeOK, UserBoundary
  PROVE  TypeOK'
<1> USE DEF TypeOK, MovementType, AwaitingType, ReplyType, JoiningType, ConversationType,
            PendingsType, ChannelsType, BooksType, movement, awaiting, joining,
            conversation, pendings, messageChannels, decisionChannels, otherChannels, books
<1>1. CASE InitExecute
  <2>1. NewAgentState \in AgentStates
    BY EmptySeq DEF NewAgentState, AgentStates, Statuses, Modes
  <2>2. MovementType'
    BY <1>1, GoToType DEF InitExecute, Steps, WaitingSteps
  <2> QED
    BY <1>1, <2>1, <2>2 DEF InitExecute
<1>2. CASE AwaitUserWaitFor
  <2>1. agent' \in AgentStates
    BY <1>2, StatusType DEF AwaitUserWaitFor, Statuses
  <2>2. awaitingAnswer' \in BOOLEAN /\ round' \in Nat
    BY <1>2 DEF AwaitUserWaitFor, AwaitsAnswer
  <2> QED
    BY <1>2, <2>1, <2>2 DEF AwaitUserWaitFor
<1>3. CASE SelectAnswer
  BY <1>3, HeadTailProperties, EmptySeq DEF SelectAnswer, Select, Selections
<1>4. CASE SelectSteered
  BY <1>4, EmptySeq DEF SelectSteered, Select, Selections
<1>5. CASE SelectQueued
  <2>1. Tail(queued) \in Seq(Messages) /\ Head(queued) \in Messages
    BY <1>5, HeadTailProperties DEF SelectQueued
  <2>2. <<Head(queued)>> \in Seq(Messages)
    BY <2>1
  <2> QED
    BY <1>5, <2>1, <2>2 DEF SelectQueued, Select, Selections
<1>6. CASE SelectPlan
  <2>1. executions' \in Seq(Nat)
    BY <1>6, RemoveAtType DEF SelectPlan
  <2> QED
    BY <1>6, <2>1, EmptySeq DEF SelectPlan, Select, Selections, Plans
<1>7. Nothing \in Selections
  BY EmptySeq DEF Nothing, Selections
<1>8. CASE AwaitUserExecuteAnswer
  <2>1. agent' \in AgentStates
    BY <1>8, AfterUserTurnType DEF AwaitUserExecuteAnswer
  <2>2. history' \in Seq(Entries)
    <3>1. AnswerEntry(selected.ref) \in Entries
      BY DEF AnswerEntry, Entries, Selections
    <3> QED
      BY <1>8, <3>1, AppendProperties DEF AwaitUserExecuteAnswer
  <2>3. MovementType'
    BY <1>8, GoToType DEF AwaitUserExecuteAnswer, Steps
  <2> QED
    BY <1>7, <1>8, <2>1, <2>2, <2>3 DEF AwaitUserExecuteAnswer
<1>9. CASE AwaitUserExecuteSteered
  <2>1. selected.messages \in Seq(Messages)
    BY DEF Selections
  <2>2. agent' \in AgentStates /\ history' \in Seq(Entries) /\ PendingsType'
    BY <1>9, <2>1, BeginSteeredTurnType DEF AwaitUserExecuteSteered
  <2>3. MovementType'
    BY <1>9, GoToType DEF AwaitUserExecuteSteered, Steps, Continuations
  <2> QED
    BY <1>7, <1>9, <2>2, <2>3 DEF AwaitUserExecuteSteered
<1>10. CASE AwaitUserExecuteQueued
  <2>1. agent' \in AgentStates
    <3>1. (selected.messages[1] \in PlanModeMessages) \in BOOLEAN
      OBVIOUS
    <3> QED
      BY <1>10, <3>1, AfterUserTurnType DEF AwaitUserExecuteQueued
  <2>2. history' \in Seq(Entries)
    <3>1. selected.messages \in Seq(Messages)
      BY DEF Selections
    <3> QED
      BY <1>10, <3>1, UserEntriesType, ConcatProperties DEF AwaitUserExecuteQueued
  <2>3. MovementType'
    BY <1>10, GoToType DEF AwaitUserExecuteQueued, Steps, Continuations
  <2> QED
    BY <1>7, <1>10, <2>1, <2>2, <2>3 DEF AwaitUserExecuteQueued
<1>11. CASE AwaitUserExecutePlan
  <2>1. agent' \in AgentStates
    <3>1. CASE IsCurrentRequest
      <4>1. agent' = [agent EXCEPT !.status = "calling_model", !.mode = "executing",
                          !.requiresWrite = FALSE, !.allowsWrite = FALSE, !.execution = 0]
        BY <1>11, <3>1 DEF AwaitUserExecutePlan
      <4> QED
        BY <4>1 DEF AgentStates, Statuses, Modes
    <3>2. CASE ~IsCurrentRequest
      <4>1. agent' = [agent EXCEPT !.execution = 0]
        BY <1>11, <3>2 DEF AwaitUserExecutePlan
      <4> QED
        BY <4>1 DEF AgentStates
    <3> QED
      BY <3>1, <3>2
  <2>2. plan' \in Plans
    BY <1>11 DEF AwaitUserExecutePlan, Plans
  <2>3. MovementType'
    BY <1>11, GoToType DEF AwaitUserExecutePlan, Steps, WaitingSteps, Continuations
  <2> QED
    BY <1>7, <1>11, <2>1, <2>2, <2>3 DEF AwaitUserExecutePlan
<1>12. CASE AnsweredInput
  BY <1>12, GoToCompactContextType DEF AnsweredInput
<1> QED
  BY <1>1, <1>2, <1>3, <1>4, <1>5, <1>6, <1>8, <1>9, <1>10, <1>11, <1>12 DEF UserBoundary

(* The model Steps, with and without hooks, preserve the types.            *)
LEMMA ModelTurnType ==
  ASSUME TypeOK, ModelTurn
  PROVE  TypeOK'
<1> USE DEF TypeOK, MovementType, AwaitingType, ReplyType, JoiningType, ConversationType,
            PendingsType, ChannelsType, BooksType, movement, awaiting, joining,
            conversation, pendings, messageChannels, decisionChannels, otherChannels, books
<1>1. CASE CallModel
  <2>1. Status("calling_model") \in AgentStates
    BY StatusType DEF Statuses
  <2>2. PICK requests \in ModelReplies : ApplyReply(Status("calling_model"), requests)
    BY <1>1 DEF CallModel
  <2>3. MovementType' /\ agent' \in AgentStates /\ history' \in Seq(Entries)
           /\ issued' \in Seq(Calls)
    BY <2>1, <2>2, ModelRepliesType, ApplyReplyType
  <2> QED
    BY <1>1, <2>3 DEF CallModel
<1>2. CASE CompactContext
  <2>1. agent' \in AgentStates
    BY <1>2, StatusType DEF CompactContext, Statuses
  <2>2. MovementType'
    BY <1>2, GoToType DEF CompactContext, Steps, Continuations
  <2> QED
    BY <1>2, <2>1, <2>2 DEF CompactContext
<1>3. CASE BeforeModelCall
  <2>1. MovementType'
    BY <1>3, GoToType DEF BeforeModelCall, Steps, ModelSteps, WaitingSteps
  <2> QED
    BY <1>3, <2>1 DEF BeforeModelCall
<1>4. CASE CallModelWithHooks
  <2>1. MovementType'
    BY <1>4, GoToType DEF CallModelWithHooks, Steps, ModelSteps
  <2>2. agent' \in AgentStates
    BY <1>4, StatusType DEF CallModelWithHooks, Statuses
  <2>3. ReplyType'
    <3>1. CASE \E requests \in ModelReplies :
                  reply' = [requests |-> requests, expected |-> Len(history) + 1]
      BY <3>1, ModelRepliesType, LenProperties
    <3> QED
      BY <1>4, <3>1 DEF CallModelWithHooks
  <2> QED
    BY <1>4, <2>1, <2>2, <2>3 DEF CallModelWithHooks
<1>5. CASE AfterModelCall
  <2>1. MovementType'
    BY <1>5, GoToType DEF AfterModelCall, Steps
  <2> QED
    BY <1>5, <2>1 DEF AfterModelCall
<1>6. CASE ApplyResponse
  <2>1. MovementType' /\ agent' \in AgentStates /\ history' \in Seq(Entries)
           /\ issued' \in Seq(Calls)
    BY <1>6, ApplyReplyType DEF ApplyResponse
  <2>2. NoReply \in [requests : Seq(Requests), expected : Nat]
    BY EmptySeq DEF NoReply
  <2> QED
    BY <1>6, <2>1, <2>2 DEF ApplyResponse
<1>7. CASE ApplyCompaction
  <2>1. MovementType'
    BY <1>7, GoToType DEF ApplyCompaction, Steps, Continuations
  <2> QED
    BY <1>7, <2>1 DEF ApplyCompaction
<1>8. CASE ModelStepExhausted
  <2>1. MovementType'
    BY <1>8, GoToType DEF ModelStepExhausted, Steps
  <2> QED
    BY <1>8, <2>1 DEF ModelStepExhausted
<1> QED
  BY <1>1, <1>2, <1>3, <1>4, <1>5, <1>6, <1>7, <1>8 DEF ModelTurn

(* CheckSteered and RouteTool preserve the types.                          *)
LEMMA RoutedType ==
  ASSUME TypeOK, Routed
  PROVE  TypeOK'
<1> USE DEF TypeOK, MovementType, AwaitingType, ReplyType, JoiningType, ConversationType,
            PendingsType, ChannelsType, BooksType, movement, awaiting, joining,
            conversation, pendings, messageChannels, decisionChannels, otherChannels, books
<1>1. CASE CheckSteeredSteer
  <2>1. agent' \in AgentStates /\ history' \in Seq(Entries) /\ PendingsType'
    BY <1>1, BeginSteeredTurnType DEF CheckSteeredSteer
  <2>2. MovementType'
    BY <1>1, GoToCompactContextType DEF CheckSteeredSteer
  <2> QED
    BY <1>1, <2>1, <2>2, EmptySeq DEF CheckSteeredSteer
<1>2. CASE CheckSteeredContinue
  <2>1. MovementType'
    BY <1>2, GoToType, GoToModelType, GoToCompactContextType
       DEF CheckSteeredContinue, Steps, WaitingSteps, Kinds
  <2> QED
    BY <1>2, <2>1 DEF CheckSteeredContinue
<1>3. Routing \in AgentStates
  BY StatusType DEF Routing, Statuses
<1>4. CASE RouteRefused
  <2>1. PICK a : /\ \/ a = Routing
                    \/ a = [Routing EXCEPT !.requiresWrite = FALSE, !.allowsWrite = TRUE]
                 /\ FinishCurrentCall(a, "refused")
    BY <1>4 DEF RouteRefused
  <2>2. a \in AgentStates
    BY <1>3, <2>1, PlanWriteType
  <2>3. MovementType' /\ agent' \in AgentStates /\ history' \in Seq(Entries)
    BY <1>4, <2>1, <2>2, FinishCurrentCallType DEF RouteRefused, Outcomes
  <2> QED
    BY <1>4, <2>3 DEF RouteRefused
<1>5. CASE RouteWriteTodos
  <2> DEFINE a == [Routing EXCEPT !.planRevision = @ + 1, !.requiresWrite = FALSE,
                       !.allowsWrite = FALSE, !.execution = 0, !.noProgress = 0]
  <2>1. agent.planRevision + 1 \in Nat
    BY DEF AgentStates
  <2>2. a \in AgentStates
    BY <1>3, PlanWriteType
  <2>3. FinishCurrentCall(a, "succeeded") /\ HasCurrentCall
    BY <1>5 DEF RouteWriteTodos, Routes
  <2> HIDE DEF a
  <2>4. MovementType' /\ agent' \in AgentStates /\ history' \in Seq(Entries)
    BY <2>2, <2>3, FinishCurrentCallType DEF Outcomes
  <2>5. plan' \in Plans
    BY <1>5, <2>1 DEF RouteWriteTodos, Plans, NoPlan
  <2> QED
    BY <1>5, <2>4, <2>5 DEF RouteWriteTodos
<1>6. CASE RouteDurableWait
  <2>1. MovementType'
    BY <1>6, GoToType DEF RouteDurableWait, Steps, Continuations
  <2>2. CurrentCall \in Nat
    BY <1>6, CurrentCallType DEF RouteDurableWait, Routes
  <2> QED
    BY <1>3, <1>6, <2>1, <2>2 DEF RouteDurableWait
<1>7. CASE RouteRequestUserInput
  <2>1. CurrentCall \in Nat /\ HasCurrentCall
    BY <1>7, CurrentCallType DEF RouteRequestUserInput, Routes
  <2>2. MovementType'
    BY <1>7, GoToType DEF RouteRequestUserInput, Steps, WaitingSteps
  <2>3. history' \in Seq(Entries)
    <3>1. ToolEntry(CurrentCall, "succeeded") \in Entries
      BY <2>1 DEF ToolEntry, Entries, Outcomes
    <3>2. Append(history, ToolEntry(CurrentCall, "succeeded")) \in Seq(Entries)
      BY <3>1, AppendProperties
    <3>3. Tail(Remaining(agent)) \in Seq(Nat)
      BY <2>1, RemainingNotEmpty DEF HasCurrentCall
    <3> QED
      BY <1>7, <3>2, <3>3, InterruptedType, ConcatProperties DEF RouteRequestUserInput
  <2>4. agent' \in AgentStates
    BY <1>3, <1>7, WithCallsClearedType DEF RouteRequestUserInput
  <2> QED
    BY <1>7, <2>1, <2>2, <2>3, <2>4 DEF RouteRequestUserInput
<1>8. CASE RouteParallel
  <2>1. PICK n \in ParallelPrefixes :
           /\ batch' = [sequence |-> Len(history), first |-> agent.index, revision |-> 0,
                        records |-> [i \in 1..n |->
                           LET call == agent.calls[agent.index + i]
                           IN  [call |-> call, outcome |-> "none",
                                manual |-> ToolOf(call) \in ManualRecoveryTools]]]
           /\ branches' = {Branch(i) : i \in 1..n}
    BY <1>8 DEF RouteParallel
  <2>2. n \in Nat /\ agent.index + n <= Len(agent.calls)
    BY LimitAssumption DEF ParallelPrefixes
  <2>3. batch'.records \in Seq(Records)
    <3>1. \A i \in 1..n : agent.calls[agent.index + i] \in Nat
      BY <2>2, CallAtType
    <3>2. \A i \in 1..n : [call |-> agent.calls[agent.index + i], outcome |-> "none",
                           manual |-> ToolOf(agent.calls[agent.index + i])
                                        \in ManualRecoveryTools] \in Records
      BY <3>1 DEF Records, Outcomes
    <3> QED
      BY <2>1, <2>2, <3>2, SMTT(20)
  <2>4. batch' \in Batches
    BY <2>1, <2>3, LenProperties DEF Batches, AgentStates
  <2>5. branches' \subseteq [record : Nat, attempt : Nat, recovering : BOOLEAN]
    <3>1. \A i \in 1..n : Branch(i) \in [record : Nat, attempt : Nat, recovering : BOOLEAN]
      BY <2>2 DEF Branch
    <3> QED
      BY <2>1, <3>1
  <2>6. MovementType'
    BY <1>8, GoToType DEF RouteParallel, Steps
  <2>7. agent' \in AgentStates
    BY <1>8, StatusType DEF RouteParallel, Statuses
  <2> QED
    BY <1>8, <2>4, <2>5, <2>6, <2>7 DEF RouteParallel
<1>9. CASE RouteSerial
  <2>1. CurrentCall \in Nat
    BY <1>9, CurrentCallType DEF RouteSerial
  <2>2. MovementType'
    BY <1>9, GoToType DEF RouteSerial, Steps, Continuations
  <2> QED
    BY <1>3, <1>9, <2>1, <2>2 DEF RouteSerial
<1> QED
  BY <1>1, <1>2, <1>4, <1>5, <1>6, <1>7, <1>8, <1>9 DEF Routed

(* AwaitToolApproval and DurableWait preserve the types.                   *)
LEMMA ToolWaitType ==
  ASSUME TypeOK, ToolWait
  PROVE  TypeOK'
<1> USE DEF TypeOK, MovementType, AwaitingType, ReplyType, JoiningType, ConversationType,
            PendingsType, ChannelsType, BooksType, movement, awaiting, joining,
            conversation, pendings, messageChannels, decisionChannels, otherChannels, books
<1>1. CASE AwaitToolApprovalWaitFor
  <2>1. agent' \in AgentStates
    BY <1>1, StatusType DEF AwaitToolApprovalWaitFor, Statuses
  <2> QED
    BY <1>1, <2>1 DEF AwaitToolApprovalWaitFor
<1>2. CASE AwaitToolApprovalSteered
  <2>1. /\ MovementType' /\ agent' \in AgentStates /\ history' \in Seq(Entries)
        /\ PendingsType' /\ steered' \in Seq(Messages)
    BY <1>2, SteerWaitingType DEF AwaitToolApprovalSteered
  <2> QED
    BY <1>2, <2>1 DEF AwaitToolApprovalSteered, SteerWaiting
<1>3. CASE AwaitToolApprovalExecute
  <2>1. PICK decision \in approvals :
           /\ approvals' = approvals \ {decision}
           /\ IF decision.approved
              THEN GoTo("CheckSteered", "execute_tool") /\ UNCHANGED <<agent, history>>
              ELSE FinishCurrentCall(agent, "rejected")
    BY <1>3 DEF AwaitToolApprovalExecute
  <2>2. MovementType' /\ agent' \in AgentStates /\ history' \in Seq(Entries)
    BY <1>3, <2>1, GoToType, FinishCurrentCallType
       DEF AwaitToolApprovalExecute, Steps, Continuations, Outcomes
  <2> QED
    BY <1>3, <2>1, <2>2 DEF AwaitToolApprovalExecute
<1>4. CASE DurableWaitWaitFor
  <2>1. agent' \in AgentStates
    BY <1>4, StatusType DEF DurableWaitWaitFor, Statuses
  <2> QED
    BY <1>4, <2>1 DEF DurableWaitWaitFor
<1>5. CASE DurableWaitSteered
  <2>1. history \o Interrupted(Remaining(agent)) \in Seq(Entries)
    BY RemainingType, InterruptedType, ConcatProperties
  <2>2. /\ MovementType' /\ agent' \in AgentStates /\ history' \in Seq(Entries)
        /\ PendingsType' /\ steered' \in Seq(Messages)
    BY <1>5, <2>1, WithCallsClearedType, SteerWaitingType DEF DurableWaitSteered
  <2> QED
    BY <1>5, <2>2 DEF DurableWaitSteered, SteerWaiting
<1>6. CASE DurableWaitFires
  <2>1. MovementType' /\ agent' \in AgentStates /\ history' \in Seq(Entries)
    BY <1>6, FinishCurrentCallType DEF DurableWaitFires, Outcomes
  <2> QED
    BY <1>6, <2>1 DEF DurableWaitFires
<1> QED
  BY <1>1, <1>2, <1>3, <1>4, <1>5, <1>6 DEF ToolWait

(* Serial and parallel execution and the join preserve the types.          *)
LEMMA ToolRunType ==
  ASSUME TypeOK, ToolRun
  PROVE  TypeOK'
<1> USE DEF TypeOK, MovementType, AwaitingType, ReplyType, JoiningType, ConversationType,
            PendingsType, ChannelsType, BooksType, movement, awaiting, joining,
            conversation, pendings, messageChannels, decisionChannels, otherChannels, books
<1>1. CASE ExecuteToolReturns
  <2>1. Status("executing_tool") \in AgentStates
    BY StatusType DEF Statuses
  <2>2. issued' \in Seq(Calls)
    BY <1>1, RanType DEF ExecuteToolReturns
  <2>3. MovementType' /\ agent' \in AgentStates /\ history' \in Seq(Entries)
    <3>1. CASE \E outcome \in {"succeeded", "failed"} :
                  FinishCurrentCall(Status("executing_tool"), outcome)
      BY <1>1, <2>1, <3>1, FinishCurrentCallType DEF ExecuteToolReturns, Outcomes
    <3>2. CASE /\ GoTo(IF CurrentTool \in ManualRecoveryTools
                       THEN "PrepareManualToolRecovery" ELSE "RecoverToolExecution", "none")
               /\ agent' = Status("executing_tool")
               /\ UNCHANGED history
      BY <2>1, <3>2, GoToType DEF Steps
    <3> QED
      BY <1>1, <3>1, <3>2 DEF ExecuteToolReturns
  <2> QED
    BY <1>1, <2>2, <2>3 DEF ExecuteToolReturns
<1>2. CASE ExecuteToolAttemptFails
  <2>1. issued' \in Seq(Calls)
    BY <1>2, RanType DEF ExecuteToolAttemptFails
  <2>2. MovementType'
    <3>1. CASE attempt < MaximumAttempts
      BY <1>2, <3>1 DEF ExecuteToolAttemptFails
    <3>2. CASE ~(attempt < MaximumAttempts)
      BY <1>2, <3>2, GoToType DEF ExecuteToolAttemptFails, Steps
    <3> QED
      BY <3>1, <3>2
  <2> QED
    BY <1>2, <2>1, <2>2 DEF ExecuteToolAttemptFails
<1>3. CASE RecoverToolExecution
  <2>1. MovementType' /\ agent' \in AgentStates /\ history' \in Seq(Entries)
    BY <1>3, FinishCurrentCallType DEF RecoverToolExecution, Outcomes
  <2> QED
    BY <1>3, <2>1 DEF RecoverToolExecution
<1>4. CASE PrepareManualToolRecovery
  <2>1. MovementType'
    BY <1>4, GoToType DEF PrepareManualToolRecovery, Steps, WaitingSteps
  <2>2. [call |-> CurrentCall, outcome |-> "unknown", manual |-> TRUE] \in Records
    BY <1>4, CurrentCallType DEF PrepareManualToolRecovery, Records, Outcomes
  <2>3. batch' \in Batches
    BY <1>4, <2>2, LenProperties DEF PrepareManualToolRecovery, Batches, AgentStates
  <2> QED
    BY <1>4, <2>1, <2>3 DEF PrepareManualToolRecovery
<1>5. ASSUME NEW b \in branches, BranchReturns(b)
      PROVE  TypeOK'
  <2>1. issued' \in Seq(Calls)
    BY <1>5, RanType DEF BranchReturns
  <2>2. branches' \subseteq [record : Nat, attempt : Nat, recovering : BOOLEAN]
    <3>1. \/ branches' = branches \ {b}
          \/ branches' = (branches \ {b}) \cup {[b EXCEPT !.recovering = TRUE]}
      BY <1>5 DEF BranchReturns
    <3>2. [b EXCEPT !.recovering = TRUE] \in [record : Nat, attempt : Nat, recovering : BOOLEAN]
      BY BranchUpdateType
    <3> QED
      BY <3>1, <3>2
  <2>3. results' \subseteq [record : Nat, outcome : Outcomes]
    <3>1. b.record \in Nat
      OBVIOUS
    <3>2. \/ results' = results
          \/ \E outcome \in {"succeeded", "failed"} :
                results' = results \cup {[record |-> b.record, outcome |-> outcome]}
      BY <1>5 DEF BranchReturns
    <3> QED
      BY <3>1, <3>2 DEF Outcomes
  <2> QED
    BY <1>5, <2>1, <2>2, <2>3 DEF BranchReturns
<1>6. ASSUME NEW b \in branches, BranchAttemptFails(b)
      PROVE  TypeOK'
  <2>1. issued' \in Seq(Calls)
    <3>1. PICK count \in {0, 1} : issued' = Ran(CallOf(b), count)
      BY <1>6 DEF BranchAttemptFails
    <3> QED
      BY <3>1, RanType
  <2>2. branches' \subseteq [record : Nat, attempt : Nat, recovering : BOOLEAN]
    BY <1>6, BranchUpdateType DEF BranchAttemptFails
  <2> QED
    BY <1>6, <2>1, <2>2 DEF BranchAttemptFails
<1>7. ASSUME NEW b \in branches, BranchRecovers(b)
      PROVE  TypeOK'
  <2>1. results' \subseteq [record : Nat, outcome : Outcomes]
    BY <1>7 DEF BranchRecovers, Outcomes
  <2> QED
    BY <1>7, <2>1 DEF BranchRecovers
<1>8. CASE AwaitParallelToolResults
  <2>1. Joined \in Seq(Records)
    BY <1>8, JoinedType
  <2>2. /\ MovementType' /\ agent' \in AgentStates /\ history' \in Seq(Entries)
        /\ batch' \in Batches
    <3>1. CASE Unresolved(Joined) # {}
      <4>1. MovementType'
        BY <1>8, <3>1, GoToType DEF AwaitParallelToolResults, Steps, WaitingSteps
      <4>2. batch' = [batch EXCEPT !.records = Joined, !.revision = IF @ = 0 THEN 1 ELSE @]
        BY <1>8, <3>1 DEF AwaitParallelToolResults
      <4>3. batch' \in Batches
        BY <2>1, <4>2, BatchUpdateType
      <4> QED
        BY <1>8, <3>1, <4>1, <4>3 DEF AwaitParallelToolResults
    <3>2. CASE Unresolved(Joined) = {}
      BY <1>8, <2>1, <3>2, FinishBatchType DEF AwaitParallelToolResults
    <3> QED
      BY <3>1, <3>2
  <2> QED
    BY <1>8, <2>2 DEF AwaitParallelToolResults
<1> QED
  BY <1>1, <1>2, <1>3, <1>4, <1>5, <1>6, <1>7, <1>8 DEF ToolRun

(* AwaitManualToolRecovery preserves the types.                            *)
LEMMA RecoveryType ==
  ASSUME TypeOK, Recovery
  PROVE  TypeOK'
<1> USE DEF TypeOK, MovementType, AwaitingType, ReplyType, JoiningType, ConversationType,
            PendingsType, ChannelsType, BooksType, movement, awaiting, joining,
            conversation, pendings, messageChannels, decisionChannels, otherChannels, books
<1>1. batch.records \in Seq(Records) /\ BatchSize \in Nat /\ batch.first \in Nat
  BY LenProperties DEF Batches, BatchSize
<1>2. \A i \in 1..BatchSize : batch.records[i] \in Records
  BY <1>1, ElementOfSeq DEF BatchSize
<1>3. CASE AwaitManualToolRecoveryWaitFor
  <2>1. agent' \in AgentStates
    BY <1>3, StatusType DEF AwaitManualToolRecoveryWaitFor, Statuses
  <2>2. RecoveryID \in RecoveryIDs
    BY DEF RecoveryID, RecoveryIDs, Batches
  <2>3. PendingCalls(batch.records) \subseteq Nat
    BY <1>2 DEF PendingCalls, Unresolved, BatchSize, Records
  <2> QED
    BY <1>3, <2>1, <2>2, <2>3 DEF AwaitManualToolRecoveryWaitFor
<1>4. CASE AwaitManualToolRecoverySteered
  <2>1. [agent EXCEPT !.index = batch.first + BatchSize] \in AgentStates
    <3>1. batch.first + BatchSize \in Nat
      BY <1>1, Sums
    <3> QED
      BY <3>1 DEF AgentStates
  <2>2. history \o BatchEntries(batch.records) \in Seq(Entries)
    BY <1>1, BatchEntriesType, ConcatProperties
  <2>3. /\ MovementType' /\ agent' \in AgentStates /\ history' \in Seq(Entries)
        /\ PendingsType' /\ steered' \in Seq(Messages)
    BY <1>4, <2>1, <2>2, SteerWaitingType DEF AwaitManualToolRecoverySteered
  <2>4. NoBatch \in Batches
    BY EmptySeq DEF NoBatch, Batches
  <2> QED
    BY <1>4, <2>3, <2>4 DEF AwaitManualToolRecoverySteered, SteerWaiting
<1>5. ASSUME NEW decision \in decisions, RecoveryStops(decision)
      PROVE  TypeOK'
  <2>1. MovementType'
    BY <1>5, GoToType DEF RecoveryStops, Steps, WaitingSteps
  <2>2. history' \in Seq(Entries)
    <3>1. history \o BatchEntries(batch.records) \in Seq(Entries)
      BY <1>1, BatchEntriesType, ConcatProperties
    <3>2. batch.first + BatchSize + 1 \in Nat \ {0} /\ agent.calls \in Seq(Nat)
      BY <1>1, Sums DEF AgentStates
    <3>3. SubSeq(agent.calls, batch.first + BatchSize + 1, Len(agent.calls)) \in Seq(Nat)
      BY <3>2, RecordsSubSeqType
    <3> QED
      BY <1>5, <3>1, <3>3, InterruptedType, ConcatProperties DEF RecoveryStops
  <2>3. agent' \in AgentStates /\ batch' \in Batches
    BY <1>5, WithCallsClearedType, EmptySeq DEF RecoveryStops, NoBatch, Batches
  <2> QED
    BY <1>5, <2>1, <2>2, <2>3 DEF RecoveryStops
<1>6. ASSUME NEW decision \in decisions, RecoveryResumes(decision)
      PROVE  TypeOK'
  <2> DEFINE retried == Retried(decision)
             records == [i \in 1..BatchSize |->
                            IF i \in retried
                            THEN [batch.records[i] EXCEPT !.outcome = "none"]
                            ELSE IF i \in Unresolved(batch.records)
                            THEN [batch.records[i] EXCEPT !.manual = FALSE]
                            ELSE batch.records[i]]
  <2>1. records \in Seq(Records)
    <3>1. \A i \in 1..BatchSize : records[i] \in Records
      BY <1>2 DEF Records, Outcomes
    <3>2. records = [i \in 1..BatchSize |-> records[i]]
      OBVIOUS
    <3> HIDE DEF records
    <3> QED
      BY <1>1, <3>1, <3>2, SequenceOf
  <2>2. retried \subseteq 1..BatchSize
    BY DEF Retried, Unresolved, BatchSize
  <2>3. /\ MovementType' /\ agent' \in AgentStates /\ history' \in Seq(Entries)
        /\ batch' \in Batches
        /\ branches' \subseteq [record : Nat, attempt : Nat, recovering : BOOLEAN]
    <3>1. CASE retried = {}
      <4>1. FinishBatch(records) /\ UNCHANGED branches
        BY <1>6, <3>1 DEF RecoveryResumes
      <4> HIDE DEF records
      <4> QED
        BY <2>1, <4>1, FinishBatchType
    <3>2. CASE retried # {}
      <4>1. /\ batch' = [batch EXCEPT !.records = records, !.revision = @ + 1]
            /\ branches' = {Branch(i) : i \in retried}
            /\ agent' = Status("executing_tool")
            /\ GoTo("AwaitParallelToolResults", "none")
            /\ UNCHANGED history
        BY <1>6, <3>2 DEF RecoveryResumes
      <4> HIDE DEF records
      <4>2. batch' \in Batches
        BY <2>1, <4>1, BatchUpdateType
      <4>3. \A i \in 1..BatchSize :
               Branch(i) \in [record : Nat, attempt : Nat, recovering : BOOLEAN]
        BY <1>1 DEF Branch
      <4>4. branches' \subseteq [record : Nat, attempt : Nat, recovering : BOOLEAN]
        BY <2>2, <4>1, <4>3
      <4>5. MovementType' /\ agent' \in AgentStates
        BY <4>1, GoToType, StatusType DEF Steps, Statuses
      <4> QED
        BY <4>1, <4>2, <4>4, <4>5
    <3> QED
      BY <3>1, <3>2
  <2> QED
    BY <1>6, <2>3 DEF RecoveryResumes
<1> QED
  BY <1>3, <1>4, <1>5, <1>6 DEF Recovery

(* The state before the first Step is typed.                               *)
LEMMA InitType ==
  ASSUME Init
  PROVE  TypeOK
<1>1. MovementType
  BY DEF Init, MovementType, Steps
<1>2. AwaitingType /\ ReplyType /\ BooksType
  BY EmptySeq DEF Init, AwaitingType, Nothing, Selections, ReplyType, NoReply, BooksType
<1>3. JoiningType
  BY EmptySeq DEF Init, JoiningType, NoBatch, Batches
<1>4. ConversationType
  BY EmptySeq DEF Init, ConversationType, NewAgentState, AgentStates, Statuses, Modes,
                  NoPlan, Plans
<1>5. PendingsType /\ ChannelsType
  BY EmptySeq DEF Init, PendingsType, NoRecovery, RecoveryIDs, ChannelsType
<1> QED
  BY <1>1, <1>2, <1>3, <1>4, <1>5 DEF TypeOK

(* Every step of the flow preserves the types.                             *)
LEMMA StepType ==
  ASSUME TypeOK, [Next]_vars
  PROVE  TypeOK'
<1>1. CASE UNCHANGED vars
  BY <1>1 DEF vars, movement, awaiting, joining, conversation, pendings, messageChannels,
     decisionChannels, otherChannels, books, TypeOK, MovementType, AwaitingType,
     ReplyType, JoiningType, ConversationType, PendingsType, ChannelsType, BooksType
<1> QED
  BY <1>1, UserCommandType, UserBoundaryType, ModelTurnType, RoutedType, ToolWaitType,
     ToolRunType, RecoveryType DEF Next, Worker

(* Every attribute, channel and Step input keeps its Go type.              *)
THEOREM TypeCorrect == Spec => []TypeOK
BY InitType, StepType, PTL DEF Spec
-----------------------------------------------------------------------------
(* PendingsMatchStep: what is pending agrees with the Step that waits for  *)
(* its decision.                                                           *)

(* AnswerQuestions may commit before AwaitUser.WaitFor: until the answer   *)
(* is selected no other question can be pending, and none can be asked.    *)
AnswerMatchesStep ==
    answered # <<>> =>
        /\ step = "AwaitUser" /\ phase \in {"wait_for", "waiting"}
        /\ Len(answered) = 1 /\ pendingInput = NoCall
        /\ phase = "waiting" => awaitingAnswer

WaitInv == ApprovalMatchesStep /\ TimerMatchesStep /\ InputMatchesStep /\ AnswerMatchesStep

AllQuiet == pendingApproval = NoCall /\ pendingTimer = NoCall /\ pendingInput = NoCall
               /\ answered = <<>>

(* Away from the Steps that wait for a decision nothing is pending.        *)
LEMMA WaitInvQuiet ==
  ASSUME WaitInv, step \notin {"AwaitToolApproval", "DurableWait", "AwaitUser", "CheckSteered"}
  PROVE  AllQuiet
BY DEF WaitInv, ApprovalMatchesStep, TimerMatchesStep, InputMatchesStep, AnswerMatchesStep,
       AllQuiet

(* A step after which nothing is pending keeps the wait invariant.         *)
LEMMA QuietWaitInv ==
  ASSUME AllQuiet'
  PROVE  WaitInv'
BY DEF WaitInv, ApprovalMatchesStep, TimerMatchesStep, InputMatchesStep, AnswerMatchesStep,
       AllQuiet

(* A user's RPC keeps every pending attribute with the Step that waits for *)
(* it.                                                                     *)
LEMMA UserCommandWaits ==
  ASSUME TypeOK, WaitInv, UserCommand
  PROVE  WaitInv'
<1> USE DEF WaitInv, ApprovalMatchesStep, TimerMatchesStep, InputMatchesStep,
            AnswerMatchesStep, HasCurrentCall, CurrentCall, movement, awaiting, joining,
            conversation, pendings, messageChannels, decisionChannels, otherChannels, books
<1>1. ASSUME NEW m \in Messages, SendMessage(m)
      PROVE  WaitInv'
  BY <1>1 DEF SendMessage
<1>2. ASSUME NEW i \in 1..Len(queued), DeleteQueuedMessage(i)
      PROVE  WaitInv'
  BY <1>2 DEF DeleteQueuedMessage
<1>3. ASSUME NEW i \in 1..Len(queued), SteerMessage(i)
      PROVE  WaitInv'
  BY <1>3 DEF SteerMessage
<1>4. CASE AnswerQuestions
  <2>1. answered = <<>> /\ answered' = <<pendingInput>>
    BY <1>4 DEF AnswerQuestions
  <2> QED
    BY <1>4, <2>1 DEF AnswerQuestions
<1>5. ASSUME NEW isApproved \in BOOLEAN, ApproveTool(isApproved)
      PROVE  WaitInv'
  BY <1>5 DEF ApproveTool
<1>6. ASSUME NEW isStop \in BOOLEAN, NEW retried \in SUBSET pendingRecovery.calls,
             ResolveToolRecovery(isStop, retried)
      PROVE  WaitInv'
  BY <1>6 DEF ResolveToolRecovery
<1>7. CASE ExecutePlan
  <2>1. agent'.calls = agent.calls /\ agent'.index = agent.index
    BY <1>7 DEF ExecutePlan, TypeOK, ConversationType, AgentStates
  <2> QED
    BY <1>7, <2>1 DEF ExecutePlan
<1> QED
  BY <1>1, <1>2, <1>3, <1>4, <1>5, <1>6, <1>7 DEF UserCommand

(* AwaitUser and CheckSteered: each keeps every pending attribute with the *)
(* Step that waits for it.                                                 *)
LEMMA UserBoundaryWaits ==
  ASSUME TypeOK, WaitInv, UserBoundary
  PROVE  WaitInv'
<1> USE DEF movement, awaiting, joining,
            conversation, pendings, messageChannels, decisionChannels, otherChannels, books
<1>1. CASE InitExecute
  BY <1>1, WaitInvQuiet, QuietWaitInv DEF InitExecute, AllQuiet
<1>2. CASE AwaitUserWaitFor
  BY <1>2 DEF AwaitUserWaitFor, AwaitsAnswer, WaitInv, ApprovalMatchesStep,
     TimerMatchesStep, InputMatchesStep, AnswerMatchesStep
<1>3. pendingApproval = NoCall /\ pendingTimer = NoCall
  BY DEF UserBoundary, InitExecute, AwaitUserWaitFor, IsSelecting, SelectAnswer, SelectSteered,
     SelectQueued, SelectPlan, IsBeginning, AwaitUserExecuteAnswer, AwaitUserExecuteSteered,
     AwaitUserExecuteQueued, AwaitUserExecutePlan, AnsweredInput, WaitInv,
     ApprovalMatchesStep, TimerMatchesStep
<1>4. CASE SelectAnswer
  <2>1. pendingInput = NoCall /\ Len(answered) = 1 /\ answered \in Seq(Nat)
    BY <1>4 DEF SelectAnswer, WaitInv, AnswerMatchesStep, TypeOK, ChannelsType
  <2>2. answered' = <<>>
    BY <1>4, <2>1, HeadTailProperties, EmptySeq DEF SelectAnswer
  <2> QED
    BY <1>3, <1>4, <2>1, <2>2, QuietWaitInv DEF SelectAnswer, Select, AllQuiet
<1>5. CASE SelectSteered \/ SelectQueued \/ SelectPlan
  <2>1. pendingInput = NoCall /\ answered = <<>>
    BY <1>5 DEF SelectSteered, SelectQueued, SelectPlan, IsSelecting, WaitInv,
       InputMatchesStep, AnswerMatchesStep
  <2>2. UNCHANGED <<pendings, answered>>
    BY <1>5 DEF SelectSteered, SelectQueued, SelectPlan, Select
  <2> QED
    BY <1>3, <2>1, <2>2, QuietWaitInv DEF AllQuiet
<1>6. ASSUME step = "AwaitUser" /\ phase = "execute"
      PROVE  AllQuiet
  BY <1>3, <1>6 DEF WaitInv, InputMatchesStep, AnswerMatchesStep, AllQuiet
<1>7. CASE AwaitUserExecuteAnswer \/ AwaitUserExecuteQueued \/ AwaitUserExecutePlan
  <2>1. AllQuiet /\ UNCHANGED <<pendings, answered>>
    BY <1>6, <1>7 DEF AwaitUserExecuteAnswer, AwaitUserExecuteQueued, AwaitUserExecutePlan,
       IsBeginning
  <2> QED
    BY <2>1, QuietWaitInv DEF AllQuiet
<1>8. CASE AwaitUserExecuteSteered
  BY <1>6, <1>8, QuietWaitInv DEF AwaitUserExecuteSteered, IsBeginning, BeginSteeredTurn, AllQuiet
<1>9. CASE AnsweredInput
  BY <1>9, WaitInvQuiet, QuietWaitInv DEF AnsweredInput, AllQuiet
<1> QED
  BY <1>1, <1>2, <1>4, <1>5, <1>7, <1>8, <1>9 DEF UserBoundary

(* A model turn starts and ends with nothing pending.                      *)
LEMMA ModelTurnWaits ==
  ASSUME WaitInv, ModelTurn
  PROVE  WaitInv'
<1> USE DEF movement, awaiting, joining,
            conversation, pendings, messageChannels, decisionChannels, otherChannels, books
<1>1. step \in ModelSteps \cup {"ApplyModelResult"} /\ UNCHANGED <<pendings, answered>>
  BY DEF ModelTurn, CallModel, CompactContext, BeforeModelCall, CallModelWithHooks,
     AfterModelCall, ApplyResponse, ApplyCompaction, ModelStepExhausted, ModelSteps
<1> QED
  BY <1>1, WaitInvQuiet, QuietWaitInv DEF ModelSteps, AllQuiet

(* RouteTool publishes a pending call only as it goes to its wait.         *)
LEMMA RoutedWaits ==
  ASSUME TypeOK, WaitInv, Routed
  PROVE  WaitInv'
<1> USE DEF movement, awaiting, joining,
            conversation, pendings, messageChannels, decisionChannels, otherChannels, books
<1>1. pendingInput = NoCall /\ answered = <<>>
  BY DEF Routed, CheckSteeredSteer, CheckSteeredContinue, RouteRefused, Routes,
     RouteWriteTodos, RouteDurableWait, RouteRequestUserInput, RouteParallel, RouteSerial,
     WaitInv, InputMatchesStep, AnswerMatchesStep
<1>2. CASE CheckSteeredSteer
  BY <1>1, <1>2, QuietWaitInv DEF CheckSteeredSteer, BeginSteeredTurn, AllQuiet
<1>3. CASE CheckSteeredContinue
  <2>1. UNCHANGED <<pendings, answered, agent>> /\ step = "CheckSteered"
    BY <1>3 DEF CheckSteeredContinue
  <2>2. CASE input \notin {"await_tool_approval", "durable_wait"}
    <3>1. AllQuiet
      BY <1>1, <2>1, <2>2 DEF WaitInv, ApprovalMatchesStep, TimerMatchesStep, AllQuiet
    <3> QED
      BY <2>1, <3>1, QuietWaitInv DEF AllQuiet
  <2>3. CASE input = "await_tool_approval"
    <3>1. step' = "AwaitToolApproval" /\ pendingTimer = NoCall
      BY <1>3, <2>1, <2>3 DEF CheckSteeredContinue, GoTo, WaitInv, TimerMatchesStep
    <3> QED
      BY <1>1, <2>1, <2>3, <3>1 DEF WaitInv, ApprovalMatchesStep, TimerMatchesStep,
         InputMatchesStep, AnswerMatchesStep, HasCurrentCall, CurrentCall
  <2>4. CASE input = "durable_wait"
    <3>1. step' = "DurableWait" /\ pendingApproval = NoCall
      BY <1>3, <2>1, <2>4 DEF CheckSteeredContinue, GoTo, WaitInv, ApprovalMatchesStep
    <3> QED
      BY <1>1, <2>1, <2>4, <3>1 DEF WaitInv, ApprovalMatchesStep, TimerMatchesStep,
         InputMatchesStep, AnswerMatchesStep, HasCurrentCall, CurrentCall
  <2> QED
    BY <2>2, <2>3, <2>4
<1>4. ASSUME step = "RouteTool"
      PROVE  AllQuiet
  BY <1>4, WaitInvQuiet
<1>5. Routing.calls = agent.calls /\ Routing.index = agent.index
  BY DEF Routing, Status, TypeOK, ConversationType, AgentStates
<1>6. CASE RouteRefused \/ RouteWriteTodos \/ RouteParallel
  <2>1. AllQuiet /\ UNCHANGED <<pendings, answered>>
    BY <1>4, <1>6 DEF RouteRefused, RouteWriteTodos, RouteParallel, Routes
  <2> QED
    BY <2>1, QuietWaitInv DEF AllQuiet
<1>7. CASE RouteDurableWait
  <2>1. /\ pendingTimer' = CurrentCall /\ HasCurrentCall
        /\ agent' = Routing /\ step' = "CheckSteered" /\ input' = "durable_wait"
        /\ UNCHANGED <<pendingApproval, pendingInput, answered>> /\ AllQuiet
    BY <1>4, <1>7 DEF RouteDurableWait, Routes, GoTo
  <2> QED
    BY <1>5, <2>1 DEF WaitInv, ApprovalMatchesStep, TimerMatchesStep,
       InputMatchesStep, AnswerMatchesStep, HasCurrentCall, CurrentCall, AllQuiet
<1>8. CASE RouteRequestUserInput
  <2>1. /\ step' = "AwaitUser" /\ phase' = "wait_for"
        /\ UNCHANGED <<pendingApproval, pendingTimer, answered>> /\ AllQuiet
    BY <1>4, <1>8 DEF RouteRequestUserInput, Routes, GoTo, WaitingSteps
  <2> QED
    BY <2>1 DEF WaitInv, ApprovalMatchesStep, TimerMatchesStep,
       InputMatchesStep, AnswerMatchesStep, AllQuiet
<1>9. CASE RouteSerial
  <2>1. /\ HasCurrentCall /\ AllQuiet /\ agent' = Routing
        /\ UNCHANGED <<pendingTimer, pendingInput, answered>>
        /\ \/ pendingApproval' = CurrentCall /\ step' = "CheckSteered"
              /\ input' = "await_tool_approval"
           \/ UNCHANGED pendingApproval
    BY <1>4, <1>9 DEF RouteSerial, GoTo
  <2> QED
    BY <1>5, <2>1 DEF WaitInv, ApprovalMatchesStep, TimerMatchesStep,
       InputMatchesStep, AnswerMatchesStep, HasCurrentCall, CurrentCall, AllQuiet
<1> QED
  BY <1>2, <1>3, <1>6, <1>7, <1>8, <1>9 DEF Routed

(* What ends an approval or a timer clears its pending attribute.          *)
LEMMA ToolWaitWaits ==
  ASSUME TypeOK, WaitInv, ToolWait
  PROVE  WaitInv'
<1> USE DEF movement, awaiting, joining,
            conversation, pendings, messageChannels, decisionChannels, otherChannels, books
<1>1. pendingInput = NoCall /\ answered = <<>> /\ UNCHANGED answered
  BY DEF ToolWait, AwaitToolApprovalWaitFor, AwaitToolApprovalSteered,
     AwaitToolApprovalExecute, DurableWaitWaitFor, DurableWaitSteered, DurableWaitFires,
     SteerWaiting, WaitInv, InputMatchesStep, AnswerMatchesStep
<1>2. \A s \in Statuses : Status(s).calls = agent.calls /\ Status(s).index = agent.index
  BY DEF Status, TypeOK, ConversationType, AgentStates
<1>3. CASE AwaitToolApprovalWaitFor \/ DurableWaitWaitFor
  <2>1. agent'.calls = agent.calls /\ agent'.index = agent.index
    BY <1>2, <1>3 DEF AwaitToolApprovalWaitFor, DurableWaitWaitFor, Statuses
  <2> QED
    BY <1>1, <1>3, <2>1 DEF AwaitToolApprovalWaitFor, DurableWaitWaitFor, WaitInv,
       ApprovalMatchesStep, TimerMatchesStep, InputMatchesStep, AnswerMatchesStep,
       HasCurrentCall, CurrentCall
<1>4. CASE AwaitToolApprovalSteered \/ DurableWaitSteered
  BY <1>1, <1>4, QuietWaitInv DEF AwaitToolApprovalSteered, DurableWaitSteered, SteerWaiting,
     BeginSteeredTurn, AllQuiet
<1>5. CASE AwaitToolApprovalExecute
  <2>1. AllQuiet'
    BY <1>1, <1>5 DEF AwaitToolApprovalExecute, AllQuiet, WaitInv, TimerMatchesStep
  <2> QED
    BY <2>1, QuietWaitInv
<1>6. CASE DurableWaitFires
  <2>1. AllQuiet'
    BY <1>1, <1>6 DEF DurableWaitFires, AllQuiet, WaitInv, ApprovalMatchesStep
  <2> QED
    BY <2>1, QuietWaitInv
<1> QED
  BY <1>3, <1>4, <1>5, <1>6 DEF ToolWait

(* No tool runs, and no batch is joined, while a decision is pending.      *)
LEMMA ToolRunWaits ==
  ASSUME WaitInv, ToolRun
  PROVE  WaitInv'
<1> USE DEF movement, awaiting, joining,
            conversation, pendings, messageChannels, decisionChannels, otherChannels, books
<1>1. UNCHANGED <<pendings, answered>>
  BY DEF ToolRun, ExecuteToolReturns, ExecuteToolAttemptFails, RecoverToolExecution,
     PrepareManualToolRecovery, BranchReturns, BranchAttemptFails, BranchRecovers,
     AwaitParallelToolResults
<1>2. CASE step \in {"ExecuteTool", "RecoverToolExecution", "PrepareManualToolRecovery",
                     "AwaitParallelToolResults"}
  BY <1>1, <1>2, WaitInvQuiet, QuietWaitInv DEF AllQuiet
<1>3. CASE \E b \in branches : BranchReturns(b) \/ BranchAttemptFails(b) \/ BranchRecovers(b)
  BY <1>1, <1>3 DEF BranchReturns, BranchAttemptFails, BranchRecovers, WaitInv,
     ApprovalMatchesStep, TimerMatchesStep, InputMatchesStep, AnswerMatchesStep,
     HasCurrentCall, CurrentCall
<1> QED
  BY <1>2, <1>3 DEF ToolRun, ExecuteToolReturns, ExecuteToolAttemptFails,
     RecoverToolExecution, PrepareManualToolRecovery, AwaitParallelToolResults

(* Manual recovery leaves the other pending attributes absent.             *)
LEMMA RecoveryWaits ==
  ASSUME WaitInv, Recovery
  PROVE  WaitInv'
<1> USE DEF movement, awaiting, joining,
            conversation, pendings, messageChannels, decisionChannels, otherChannels, books
<1>1. step = "AwaitManualToolRecovery" /\ UNCHANGED answered
  BY DEF Recovery, AwaitManualToolRecoveryWaitFor, AwaitManualToolRecoverySteered,
     SteerWaiting, RecoveryStops, RecoveryResumes, IsResolving
<1>2. AllQuiet
  BY <1>1, WaitInvQuiet
<1>3. \/ UNCHANGED <<pendingApproval, pendingInput, pendingTimer>>
      \/ pendingApproval' = NoCall /\ pendingInput' = NoCall /\ pendingTimer' = NoCall
  BY DEF Recovery, AwaitManualToolRecoveryWaitFor, AwaitManualToolRecoverySteered,
     SteerWaiting, BeginSteeredTurn, RecoveryStops, RecoveryResumes
<1> QED
  BY <1>1, <1>2, <1>3, QuietWaitInv DEF AllQuiet

-----------------------------------------------------------------------------
(* Recovery decisions.                                                     *)

HasBatch == step \in {"AwaitParallelToolResults", "AwaitManualToolRecovery"}
IsResolvable == step = "AwaitManualToolRecovery" /\ phase = "waiting"

(* A published decision names an earlier batch, an earlier revision of the *)
(* current one, or the current one after its pending recovery was taken.   *)
DecisionMatchesBatch(d) ==
    \/ d.id[1] < Len(history)
    \/ /\ HasBatch /\ d.id[1] = batch.sequence /\ d.id[2] = batch.first
       /\ \/ d.id[3] < batch.revision
          \/ d.id[3] = batch.revision /\ IsResolvable /\ pendingRecovery = NoRecovery

RecoveryInv ==
    /\ HasBatch => batch.sequence = Len(history) /\ BatchSize > 0
    /\ \A d \in decisions : DecisionMatchesBatch(d)
    /\ pendingRecovery # NoRecovery => IsResolvable /\ pendingRecovery.id = RecoveryID

(* Without a batch nothing awaits recovery and every decision is old.      *)
LEMMA RecoveryInvQuiet ==
  ASSUME RecoveryInv, ~HasBatch
  PROVE  pendingRecovery = NoRecovery /\ \A d \in decisions : d.id[1] < Len(history)
BY DEF RecoveryInv, DecisionMatchesBatch, IsResolvable, HasBatch

(* The history never shrinks, and a finished sequence of calls grows it.   *)
LEMMA DecisionsStayOld ==
  ASSUME TypeOK, Len(history') \in Nat, Len(history') >= Len(history),
         decisions' \subseteq decisions, pendingRecovery' = NoRecovery,
         \A d \in decisions : d.id[1] < Len(history), ~HasBatch'
  PROVE  RecoveryInv'
<1>1. \A d \in decisions : d.id[1] \in Nat /\ Len(history) \in Nat
  BY LenProperties DEF TypeOK, ChannelsType, ConversationType, RecoveryIDs
<1>2. \A d \in decisions' : d.id[1] < Len(history')
  BY <1>1
<1> QED
  BY <1>2 DEF RecoveryInv, DecisionMatchesBatch

(* A new batch is identified by the length of the history it starts at.    *)
LEMMA NewBatch ==
  ASSUME RecoveryInv, ~HasBatch, UNCHANGED <<history, decisions, pendingRecovery>>,
         HasBatch', batch'.sequence = Len(history), Len(batch'.records) > 0
  PROVE  RecoveryInv'
BY RecoveryInvQuiet DEF RecoveryInv, DecisionMatchesBatch, BatchSize

(* What ends a batch grows the history by its results.                     *)
LEMMA EndedBatch ==
  ASSUME TypeOK, RecoveryInv, HasBatch, ~HasBatch', decisions' \subseteq decisions,
         pendingRecovery' = NoRecovery,
         Len(history') \in Nat, Len(history') > Len(history)
  PROVE  RecoveryInv'
<1>1. \A d \in decisions : d.id[1] \in Nat /\ Len(history) \in Nat
  BY LenProperties DEF TypeOK, ChannelsType, ConversationType, RecoveryIDs
<1>2. \A d \in decisions : d.id[1] <= Len(history)
  BY <1>1 DEF RecoveryInv, DecisionMatchesBatch
<1>3. \A d \in decisions' : d.id[1] < Len(history')
  BY <1>1, <1>2
<1> QED
  BY <1>3 DEF RecoveryInv, DecisionMatchesBatch

(* One interrupted result is recorded for each remaining call.             *)
LEMMA LenInterrupted ==
  ASSUME NEW calls \in Seq(Nat)
  PROVE  Len(Interrupted(calls)) \in Nat
BY InterruptedType, LenProperties

(* One result is recorded for each record of the batch.                    *)
LEMMA LenBatchEntries ==
  ASSUME NEW records \in Seq(Records)
  PROVE  Len(BatchEntries(records)) = Len(records)
BY LenProperties DEF BatchEntries

(* Recording a batch grows the history by the batch's size.                *)
LEMMA BatchAppended ==
  ASSUME NEW h \in Seq(Entries), NEW records \in Seq(Records)
  PROVE  /\ h \o BatchEntries(records) \in Seq(Entries)
         /\ Len(h \o BatchEntries(records)) = Len(h) + Len(records)
<1>1. BatchEntries(records) \in Seq(Entries) /\ Len(BatchEntries(records)) = Len(records)
  BY BatchEntriesType, LenBatchEntries
<1> DEFINE e == BatchEntries(records)
<1>2. e \in Seq(Entries) /\ Len(e) = Len(records)
  BY <1>1
<1> HIDE DEF e
<1>3. h \o e \in Seq(Entries) /\ Len(h \o e) = Len(h) + Len(e)
  BY <1>2, ConcatProperties
<1> QED
  BY <1>2, <1>3 DEF e

(* Finishing the current call grows the history by one result.             *)
LEMMA FinishCurrentCallGrows ==
  ASSUME ConversationType, NEW a, NEW o, FinishCurrentCall(a, o)
  PROVE  Len(history') = Len(history) + 1 /\ Len(history) \in Nat /\ ~HasBatch'
BY AppendProperties, LenProperties DEF FinishCurrentCall, GoTo, ConversationType, HasBatch

(* A steered turn keeps the history it is given, and ends any batch.       *)
LEMMA BeginSteeredTurnGrows ==
  ASSUME NEW messages \in Seq(Messages), NEW a \in AgentStates, NEW h \in Seq(Entries),
         BeginSteeredTurn(messages, a, h)
  PROVE  Len(history') \in Nat /\ Len(history') >= Len(h) /\ Len(h) \in Nat
<1> DEFINE abandoned == Interrupted(Remaining(a))
           added == UserEntries(messages)
<1>1. abandoned \in Seq(Entries) /\ added \in Seq(Entries)
  BY RemainingType, InterruptedType, UserEntriesType
<1>2. history' = h \o abandoned \o added
  BY DEF BeginSteeredTurn
<1> HIDE DEF abandoned, added
<1>3. /\ h \o abandoned \in Seq(Entries)
      /\ Len(h \o abandoned) = Len(h) + Len(abandoned)
  BY <1>1, ConcatProperties
<1>4. Len(history') = Len(h) + Len(abandoned) + Len(added)
  BY <1>1, <1>2, <1>3, ConcatProperties
<1> QED
  BY <1>1, <1>4, LenProperties

(* The model's reply grows the history.                                    *)
LEMMA ApplyReplyGrows ==
  ASSUME ConversationType, NEW a, NEW requests, ApplyReply(a, requests)
  PROVE  Len(history') = Len(history) + 1 /\ Len(history) \in Nat /\ ~HasBatch'
BY AppendProperties, LenProperties DEF ApplyReply, GoTo, ConversationType, HasBatch

(* The entry to a model turn is not the join of a batch.                   *)
LEMMA GoToModelStep ==
  ASSUME NEW kind, GoToModel(kind)
  PROVE  ~HasBatch'
BY DEF GoToModel, GoTo, HasBatch

(* A user's RPC keeps the recovery decisions with the batch they name.     *)
LEMMA UserCommandRecovery ==
  ASSUME TypeOK, RecoveryInv, UserCommand
  PROVE  RecoveryInv'
<1> USE DEF movement, awaiting, joining,
            conversation, pendings, messageChannels, decisionChannels, otherChannels, books
<1>1. UNCHANGED <<movement, history, batch>>
  BY DEF UserCommand, SendMessage, DeleteQueuedMessage, SteerMessage, AnswerQuestions,
     ApproveTool, ResolveToolRecovery, ExecutePlan
<1>2. CASE UNCHANGED decisions /\ (UNCHANGED pendingRecovery \/ pendingRecovery' = NoRecovery)
  BY <1>1, <1>2 DEF RecoveryInv, DecisionMatchesBatch, HasBatch, IsResolvable, BatchSize,
     RecoveryID
<1>3. ASSUME NEW isStop \in BOOLEAN, NEW retried \in SUBSET pendingRecovery.calls,
             ResolveToolRecovery(isStop, retried)
      PROVE  RecoveryInv'
  <2>1. /\ IsResolvable /\ pendingRecovery.id = RecoveryID /\ pendingRecovery' = NoRecovery
        /\ decisions' = decisions \cup
             {[id |-> RecoveryID, stop |-> isStop, retried |-> retried]}
    BY <1>3 DEF ResolveToolRecovery, RecoveryInv
  <2> QED
    BY <1>1, <2>1 DEF RecoveryInv, DecisionMatchesBatch, HasBatch, IsResolvable, BatchSize,
       RecoveryID
<1> QED
  BY <1>2, <1>3 DEF UserCommand, SendMessage, DeleteQueuedMessage, SteerMessage,
     AnswerQuestions, ApproveTool, ExecutePlan

(* AwaitUser and CheckSteered: each keeps the recovery decisions with the  *)
(* batch they name.                                                        *)
LEMMA UserBoundaryRecovery ==
  ASSUME TypeOK, RecoveryInv, UserBoundary
  PROVE  RecoveryInv'
<1> USE DEF movement, awaiting, joining,
            conversation, pendings, messageChannels, decisionChannels, otherChannels, books
<1>1. ~HasBatch /\ UNCHANGED decisions
  BY DEF UserBoundary, InitExecute, AwaitUserWaitFor, IsSelecting, SelectAnswer,
     SelectSteered, SelectQueued, SelectPlan, Select, IsBeginning, AwaitUserExecuteAnswer,
     AwaitUserExecuteSteered, AwaitUserExecuteQueued, AwaitUserExecutePlan, AnsweredInput,
     HasBatch
<1>2. pendingRecovery = NoRecovery /\ \A d \in decisions : d.id[1] < Len(history)
  BY <1>1, RecoveryInvQuiet
<1>3. ~HasBatch'
  <2>1. CASE AnsweredInput
    BY <2>1, GoToModelStep DEF AnsweredInput, GoToCompactContext
  <2> QED
    BY <2>1 DEF UserBoundary, InitExecute, AwaitUserWaitFor, IsSelecting, SelectAnswer,
       SelectSteered, SelectQueued, SelectPlan, Select, AwaitUserExecuteAnswer,
       AwaitUserExecuteSteered, AwaitUserExecuteQueued, AwaitUserExecutePlan, GoTo, HasBatch
<1>4. pendingRecovery' = NoRecovery
  BY <1>2 DEF UserBoundary, InitExecute, AwaitUserWaitFor, SelectAnswer,
     SelectSteered, SelectQueued, SelectPlan, Select, AwaitUserExecuteAnswer,
     AwaitUserExecuteSteered, AwaitUserExecuteQueued, AwaitUserExecutePlan, AnsweredInput,
     BeginSteeredTurn
<1>5. Len(history') \in Nat /\ Len(history') >= Len(history)
  <2>1. history \in Seq(Entries) /\ Len(history) \in Nat /\ selected.messages \in Seq(Messages)
        /\ agent \in AgentStates
    BY LenProperties DEF TypeOK, ConversationType, AwaitingType, Selections
  <2>2. CASE AwaitUserExecuteSteered
    BY <2>1, <2>2, BeginSteeredTurnGrows DEF AwaitUserExecuteSteered
  <2>3. CASE AwaitUserExecuteQueued
    <3>1. UserEntries(selected.messages) \in Seq(Entries)
      BY <2>1, UserEntriesType
    <3>2. Len(history') = Len(history) + Len(UserEntries(selected.messages))
      BY <2>1, <2>3, <3>1, ConcatProperties DEF AwaitUserExecuteQueued
    <3> QED
      BY <2>1, <3>1, <3>2, LenProperties
  <2>4. CASE AwaitUserExecuteAnswer
    BY <2>1, <2>4, AppendProperties DEF AwaitUserExecuteAnswer
  <2>5. CASE UNCHANGED history
    BY <2>1, <2>5
  <2> QED
    BY <2>2, <2>3, <2>4, <2>5 DEF UserBoundary, InitExecute, AwaitUserWaitFor, SelectAnswer,
       SelectSteered, SelectQueued, SelectPlan, Select, AwaitUserExecutePlan, AnsweredInput
<1> QED
  BY <1>1, <1>2, <1>3, <1>4, <1>5, DecisionsStayOld

(* A model turn, which no batch survives, keeps the recovery decisions     *)
(* with the batch they name.                                               *)
LEMMA ModelTurnRecovery ==
  ASSUME TypeOK, RecoveryInv, ModelTurn
  PROVE  RecoveryInv'
<1> USE DEF movement, awaiting, joining,
            conversation, pendings, messageChannels, decisionChannels, otherChannels, books
<1>1. ~HasBatch /\ UNCHANGED <<decisions, pendingRecovery>>
  BY DEF ModelTurn, CallModel, CompactContext, BeforeModelCall, CallModelWithHooks,
     AfterModelCall, ApplyResponse, ApplyCompaction, ModelStepExhausted, ModelSteps, HasBatch
<1>2. pendingRecovery = NoRecovery /\ \A d \in decisions : d.id[1] < Len(history)
  BY <1>1, RecoveryInvQuiet
<1>3. /\ Len(history') \in Nat /\ Len(history') >= Len(history) /\ ~HasBatch'
  <2>1. ConversationType /\ Len(history) \in Nat
    BY LenProperties DEF TypeOK, ConversationType
  <2>2. CASE CallModel \/ ApplyResponse
    BY <2>1, <2>2, ApplyReplyGrows DEF CallModel, ApplyResponse
  <2>3. CASE UNCHANGED history /\ ~HasBatch'
    BY <2>1, <2>3
  <2> QED
    BY <2>2, <2>3 DEF ModelTurn, CompactContext, BeforeModelCall, CallModelWithHooks,
       AfterModelCall, ApplyCompaction, ModelStepExhausted, GoTo, HasBatch
<1> QED
  BY <1>1, <1>2, <1>3, DecisionsStayOld

(* RouteTool keeps the recovery decisions with the batch they name.        *)
LEMMA RoutedRecovery ==
  ASSUME TypeOK, RecoveryInv, Routed
  PROVE  RecoveryInv'
<1> USE DEF movement, awaiting, joining,
            conversation, pendings, messageChannels, decisionChannels, otherChannels, books
<1>1. ~HasBatch /\ UNCHANGED decisions
  BY DEF Routed, CheckSteeredSteer, CheckSteeredContinue, RouteRefused, Routes,
     RouteWriteTodos, RouteDurableWait, RouteRequestUserInput, RouteParallel, RouteSerial,
     HasBatch
<1>2. pendingRecovery = NoRecovery /\ \A d \in decisions : d.id[1] < Len(history)
  BY <1>1, RecoveryInvQuiet
<1>3. pendingRecovery' = NoRecovery
  BY <1>2 DEF Routed, CheckSteeredSteer, CheckSteeredContinue, RouteRefused,
     RouteWriteTodos, RouteDurableWait, RouteRequestUserInput, RouteParallel, RouteSerial,
     BeginSteeredTurn
<1>4. /\ ConversationType /\ Len(history) \in Nat /\ history \in Seq(Entries)
      /\ agent \in AgentStates /\ steered \in Seq(Messages)
  BY LenProperties DEF TypeOK, ConversationType, ChannelsType
<1>5. CASE RouteParallel
  <2>1. PICK n \in ParallelPrefixes :
           /\ n >= 2 /\ batch'.sequence = Len(history)
           /\ batch'.records = [i \in 1..n |->
                 LET call == agent.calls[agent.index + i]
                 IN  [call |-> call, outcome |-> "none",
                      manual |-> ToolOf(call) \in ManualRecoveryTools]]
    BY <1>5 DEF RouteParallel
  <2>2. n \in Nat /\ Len(batch'.records) = n
    BY <2>1, LimitAssumption, LenProperties DEF ParallelPrefixes
  <2>3. HasBatch' /\ UNCHANGED <<history, decisions, pendingRecovery>>
    BY <1>5 DEF RouteParallel, GoTo, HasBatch
  <2> QED
    BY <1>1, <2>1, <2>2, <2>3, NewBatch
<1>6. CASE ~RouteParallel
  <2>1. CASE CheckSteeredSteer
    <3>1. ~HasBatch'
      BY <2>1, GoToModelStep DEF CheckSteeredSteer, GoToCompactContext
    <3> QED
      BY <1>1, <1>2, <1>3, <1>4, <2>1, <3>1, BeginSteeredTurnGrows, DecisionsStayOld
         DEF CheckSteeredSteer
  <2>2. CASE CheckSteeredContinue
    <3>1. ~HasBatch'
      BY <2>2, GoToModelStep DEF CheckSteeredContinue, GoToCompactContext, GoTo, HasBatch
    <3> QED
      BY <1>1, <1>2, <1>3, <1>4, <2>2, <3>1, DecisionsStayOld DEF CheckSteeredContinue
  <2>3. CASE RouteRefused \/ RouteWriteTodos
    <3>1. Len(history') = Len(history) + 1 /\ ~HasBatch'
      BY <1>4, <2>3, FinishCurrentCallGrows DEF RouteRefused, RouteWriteTodos
    <3> QED
      BY <1>1, <1>2, <1>3, <1>4, <3>1, DecisionsStayOld
  <2>4. CASE RouteDurableWait \/ RouteSerial
    <3>1. UNCHANGED history /\ ~HasBatch'
      BY <2>4 DEF RouteDurableWait, RouteSerial, GoTo, HasBatch
    <3> QED
      BY <1>1, <1>2, <1>3, <1>4, <3>1, DecisionsStayOld
  <2>5. CASE RouteRequestUserInput
    <3> DEFINE first == Append(history, ToolEntry(CurrentCall, "succeeded"))
               rest == Interrupted(Tail(Remaining(agent)))
    <3>1. HasCurrentCall /\ ~HasBatch' /\ history' = first \o rest
      BY <2>5 DEF RouteRequestUserInput, Routes, GoTo, HasBatch
    <3>2. first \in Seq(Entries) /\ Len(first) = Len(history) + 1
      <4>1. ToolEntry(CurrentCall, "succeeded") \in Entries
        BY <1>4, <3>1, CurrentCallType DEF ToolEntry, Entries, Outcomes
      <4> QED
        BY <1>4, <4>1, AppendProperties
    <3>3. rest \in Seq(Entries) /\ Len(rest) \in Nat
      BY <1>4, <3>1, RemainingNotEmpty, InterruptedType, LenProperties DEF HasCurrentCall
    <3> HIDE DEF first, rest
    <3>4. Len(history') = Len(first) + Len(rest)
      BY <3>1, <3>2, <3>3, ConcatProperties
    <3> QED
      BY <1>1, <1>2, <1>3, <1>4, <3>1, <3>2, <3>3, <3>4, DecisionsStayOld
  <2> QED
    BY <1>6, <2>1, <2>2, <2>3, <2>4, <2>5 DEF Routed
<1> QED
  BY <1>5, <1>6

(* The end of an approval or a timer keeps the recovery decisions with the *)
(* batch they name.                                                        *)
LEMMA ToolWaitRecovery ==
  ASSUME TypeOK, RecoveryInv, ToolWait
  PROVE  RecoveryInv'
<1> USE DEF movement, awaiting, joining,
            conversation, pendings, messageChannels, decisionChannels, otherChannels, books
<1>1. ~HasBatch /\ UNCHANGED decisions
  BY DEF ToolWait, AwaitToolApprovalWaitFor, AwaitToolApprovalSteered,
     AwaitToolApprovalExecute, DurableWaitWaitFor, DurableWaitSteered, DurableWaitFires,
     SteerWaiting, HasBatch
<1>2. pendingRecovery = NoRecovery /\ \A d \in decisions : d.id[1] < Len(history)
  BY <1>1, RecoveryInvQuiet
<1>3. pendingRecovery' = NoRecovery
  BY <1>2 DEF ToolWait, AwaitToolApprovalWaitFor, AwaitToolApprovalSteered,
     AwaitToolApprovalExecute, DurableWaitWaitFor, DurableWaitSteered, DurableWaitFires,
     SteerWaiting, BeginSteeredTurn
<1>4. /\ ConversationType /\ Len(history) \in Nat /\ history \in Seq(Entries)
      /\ agent \in AgentStates /\ steered \in Seq(Messages)
  BY LenProperties DEF TypeOK, ConversationType, ChannelsType
<1>5. Len(history') \in Nat /\ Len(history') >= Len(history) /\ ~HasBatch'
  <2>1. CASE AwaitToolApprovalWaitFor \/ DurableWaitWaitFor
    BY <1>1, <1>4, <2>1 DEF AwaitToolApprovalWaitFor, DurableWaitWaitFor, HasBatch
  <2>2. CASE AwaitToolApprovalSteered
    BY <1>4, <2>2, BeginSteeredTurnGrows DEF AwaitToolApprovalSteered, SteerWaiting, GoTo,
       HasBatch
  <2>3. CASE AwaitToolApprovalExecute
    BY <1>4, <2>3, FinishCurrentCallGrows DEF AwaitToolApprovalExecute, GoTo, HasBatch
  <2>4. CASE DurableWaitSteered
    <3> DEFINE h == history \o Interrupted(Remaining(agent))
    <3>1. Interrupted(Remaining(agent)) \in Seq(Entries)
      BY <1>4, RemainingType, InterruptedType
    <3>2. h \in Seq(Entries) /\ Len(h) >= Len(history)
      BY <1>4, <3>1, ConcatProperties, LenProperties
    <3>3. BeginSteeredTurn(steered, WithCallsCleared(agent), h) /\ ~HasBatch'
      BY <2>4 DEF DurableWaitSteered, SteerWaiting, GoTo, HasBatch
    <3> HIDE DEF h
    <3>4. Len(history') \in Nat /\ Len(history') >= Len(h) /\ Len(h) \in Nat
      BY <1>4, <3>2, <3>3, WithCallsClearedType, BeginSteeredTurnGrows
    <3> QED
      BY <1>4, <3>2, <3>3, <3>4
  <2>5. CASE DurableWaitFires
    BY <1>4, <2>5, FinishCurrentCallGrows DEF DurableWaitFires
  <2> QED
    BY <2>1, <2>2, <2>3, <2>4, <2>5 DEF ToolWait
<1> QED
  BY <1>1, <1>2, <1>3, <1>5, DecisionsStayOld

(* FinishBatch ends the batch and grows the history by its results.        *)
LEMMA FinishBatchGrows ==
  ASSUME ConversationType, NEW records \in Seq(Records), Len(records) > 0,
         FinishBatch(records)
  PROVE  Len(history') \in Nat /\ Len(history') > Len(history) /\ ~HasBatch'
<1>1. history' = history \o BatchEntries(records) /\ history \in Seq(Entries)
  BY DEF FinishBatch, ConversationType
<1>3. Len(history') = Len(history) + Len(records)
  BY <1>1, BatchAppended
<1>2. ~HasBatch'
  BY DEF FinishBatch, GoTo, HasBatch
<1> QED
  BY <1>1, <1>2, <1>3, LenProperties

(* While branches run the batch keeps its decisions and gets no new one.   *)
LEMMA ToolRunRecovery ==
  ASSUME TypeOK, RecoveryInv, ToolRun
  PROVE  RecoveryInv'
<1> USE DEF movement, awaiting, joining,
            conversation, pendings, messageChannels, decisionChannels, otherChannels, books
<1>1. UNCHANGED <<decisions, pendingRecovery>>
  BY DEF ToolRun, ExecuteToolReturns, ExecuteToolAttemptFails, RecoverToolExecution,
     PrepareManualToolRecovery, BranchReturns, BranchAttemptFails, BranchRecovers,
     AwaitParallelToolResults
<1>2. /\ ConversationType /\ Len(history) \in Nat /\ history \in Seq(Entries)
      /\ agent \in AgentStates /\ batch \in Batches
  BY LenProperties DEF TypeOK, ConversationType, JoiningType
<1>3. CASE ExecuteToolReturns \/ ExecuteToolAttemptFails \/ RecoverToolExecution
  <2>1. ~HasBatch
    BY <1>3 DEF ExecuteToolReturns, ExecuteToolAttemptFails, RecoverToolExecution, HasBatch
  <2>2. pendingRecovery = NoRecovery /\ \A d \in decisions : d.id[1] < Len(history)
    BY <2>1, RecoveryInvQuiet
  <2>3. Len(history') \in Nat /\ Len(history') >= Len(history) /\ ~HasBatch'
    <3>1. CASE \E outcome \in {"succeeded", "failed"} :
                  FinishCurrentCall(Status("executing_tool"), outcome)
      BY <1>2, <3>1, FinishCurrentCallGrows
    <3>2. CASE FinishCurrentCall(agent, "unknown")
      BY <1>2, <3>2, FinishCurrentCallGrows
    <3>3. CASE UNCHANGED history /\ ~HasBatch'
      BY <1>2, <3>3
    <3> QED
      BY <1>3, <2>1, <3>1, <3>2, <3>3 DEF ExecuteToolReturns, ExecuteToolAttemptFails,
         RecoverToolExecution, GoTo, HasBatch
  <2> QED
    BY <1>1, <2>2, <2>3, DecisionsStayOld
<1>4. CASE PrepareManualToolRecovery
  <2>1. /\ ~HasBatch /\ HasBatch' /\ UNCHANGED history
        /\ batch'.sequence = Len(history) /\ Len(batch'.records) = 1
    BY <1>4 DEF PrepareManualToolRecovery, GoTo, HasBatch
  <2> QED
    BY <1>1, <2>1, NewBatch
<1>5. CASE \E b \in branches : BranchReturns(b) \/ BranchAttemptFails(b) \/ BranchRecovers(b)
  BY <1>1, <1>5 DEF BranchReturns, BranchAttemptFails, BranchRecovers, RecoveryInv,
     DecisionMatchesBatch, HasBatch, IsResolvable, BatchSize, RecoveryID
<1>6. CASE AwaitParallelToolResults
  <2>1. /\ HasBatch /\ ~IsResolvable /\ pendingRecovery = NoRecovery /\ BatchSize > 0
        /\ batch.sequence = Len(history)
    BY <1>6 DEF AwaitParallelToolResults, RecoveryInv, HasBatch, IsResolvable
  <2>2. Joined \in Seq(Records) /\ Len(Joined) = BatchSize
    <3>1. Joined \in Seq(Records)
      BY <1>6, JoinedType DEF TypeOK
    <3>2. Joined = [i \in 1..BatchSize |-> Joined[i]] /\ BatchSize \in Nat
      BY <1>2, LenProperties DEF Joined, BatchSize, Batches
    <3> QED
      BY <3>1, <3>2, LenProperties
  <2>3. CASE Unresolved(Joined) # {}
    <3>1. /\ step' = "AwaitManualToolRecovery" /\ phase' = "wait_for" /\ UNCHANGED history
          /\ batch' = [batch EXCEPT !.records = Joined, !.revision = IF @ = 0 THEN 1 ELSE @]
      BY <1>6, <2>3 DEF AwaitParallelToolResults, GoTo, WaitingSteps
    <3>2. /\ batch'.sequence = batch.sequence /\ batch'.first = batch.first
          /\ batch'.records = Joined /\ batch'.revision >= batch.revision
          /\ batch.revision \in Nat /\ batch'.revision \in Nat
      BY <1>2, <3>1 DEF Batches
    <3>3. \A d \in decisions : \/ d.id[1] < Len(history)
                               \/ /\ d.id[1] = batch.sequence /\ d.id[2] = batch.first
                                  /\ d.id[3] < batch.revision
      BY <2>1 DEF RecoveryInv, DecisionMatchesBatch
    <3>4. \A d \in decisions : d.id[3] \in Nat
      BY DEF TypeOK, ChannelsType, RecoveryIDs
    <3>5. \A d \in decisions : DecisionMatchesBatch(d)'
      BY <3>1, <3>2, <3>3, <3>4 DEF DecisionMatchesBatch, HasBatch
    <3> QED
      BY <1>1, <2>1, <2>2, <3>1, <3>2, <3>5 DEF RecoveryInv, HasBatch, BatchSize
  <2>4. CASE Unresolved(Joined) = {}
    <3>1. FinishBatch(Joined)
      BY <1>6, <2>4 DEF AwaitParallelToolResults
    <3>2. Len(history') \in Nat /\ Len(history') > Len(history) /\ ~HasBatch'
      BY <1>2, <2>1, <2>2, <3>1, FinishBatchGrows
    <3> QED
      BY <1>1, <2>1, <3>2, EndedBatch
  <2> QED
    BY <2>3, <2>4
<1> QED
  BY <1>3, <1>4, <1>5, <1>6 DEF ToolRun

(* A decision that resolves the wait finds its pending recovery taken.     *)
LEMMA ResolvingTakesRecovery ==
  ASSUME TypeOK, RecoveryInv, NEW decision, IsResolving(decision)
  PROVE  HasBatch /\ IsResolvable /\ pendingRecovery = NoRecovery
            /\ batch.sequence = Len(history) /\ BatchSize > 0
<1>1. /\ HasBatch /\ IsResolvable /\ decision \in decisions
      /\ decision.id = <<batch.sequence, batch.first, batch.revision>>
  BY DEF IsResolving, HasBatch, IsResolvable, RecoveryID
<1>2. batch.sequence = Len(history) /\ BatchSize > 0 /\ DecisionMatchesBatch(decision)
  BY <1>1 DEF RecoveryInv
<1>3. decision.id[1] = Len(history) /\ decision.id[3] = batch.revision
  BY <1>1, <1>2
<1>4. Len(history) \in Nat /\ batch.revision \in Nat
  BY LenProperties DEF TypeOK, ConversationType, JoiningType, Batches
<1>5. pendingRecovery = NoRecovery
  BY <1>2, <1>3, <1>4 DEF DecisionMatchesBatch
<1> QED
  BY <1>1, <1>2, <1>5

(* Manual recovery consumes the decision it follows or moves past it.      *)
LEMMA RecoveryRecovery ==
  ASSUME TypeOK, RecoveryInv, Recovery
  PROVE  RecoveryInv'
<1> USE DEF movement, awaiting, joining,
            conversation, pendings, messageChannels, decisionChannels, otherChannels, books
<1>1. /\ ConversationType /\ Len(history) \in Nat /\ history \in Seq(Entries)
      /\ agent \in AgentStates /\ steered \in Seq(Messages)
      /\ batch.records \in Seq(Records) /\ BatchSize \in Nat /\ batch.first \in Nat
      /\ BatchSize = Len(batch.records)
  BY LenProperties DEF TypeOK, ConversationType, ChannelsType, JoiningType, Batches, BatchSize
<1>2. CASE AwaitManualToolRecoveryWaitFor
  <2>1. /\ HasBatch /\ ~IsResolvable /\ IsResolvable' /\ HasBatch'
        /\ UNCHANGED <<batch, history, decisions>> /\ pendingRecovery'.id = RecoveryID
    BY <1>2 DEF AwaitManualToolRecoveryWaitFor, HasBatch, IsResolvable
  <2>2. \A d \in decisions : DecisionMatchesBatch(d)'
    BY <2>1 DEF RecoveryInv, DecisionMatchesBatch
  <2> QED
    BY <2>1, <2>2 DEF RecoveryInv, BatchSize, RecoveryID
<1>3. CASE AwaitManualToolRecoverySteered
  <2> DEFINE h == history \o BatchEntries(batch.records)
             a == [agent EXCEPT !.index = batch.first + BatchSize]
  <2>1. /\ HasBatch /\ ~HasBatch' /\ UNCHANGED decisions /\ pendingRecovery' = NoRecovery
        /\ BeginSteeredTurn(steered, a, h)
    BY <1>3 DEF AwaitManualToolRecoverySteered, SteerWaiting, BeginSteeredTurn, GoTo, HasBatch
  <2>2. BatchSize > 0
    BY <2>1 DEF RecoveryInv
  <2>3. h \in Seq(Entries) /\ Len(h) = Len(history) + BatchSize
    BY <1>1, BatchAppended
  <2>4. a \in AgentStates
    <3>1. batch.first + BatchSize \in Nat
      BY <1>1, Sums
    <3> QED
      BY <1>1, <3>1 DEF AgentStates
  <2> HIDE DEF h, a
  <2>5. Len(history') \in Nat /\ Len(history') >= Len(h)
    BY <1>1, <2>1, <2>3, <2>4, BeginSteeredTurnGrows
  <2>6. Len(history') > Len(history)
    BY <1>1, <2>2, <2>3, <2>5
  <2> QED
    BY <2>1, <2>5, <2>6, EndedBatch
<1>4. ASSUME NEW decision \in decisions, RecoveryStops(decision)
      PROVE  RecoveryInv'
  <2> DEFINE h == history \o BatchEntries(batch.records)
             rest == Interrupted(SubSeq(agent.calls, batch.first + BatchSize + 1,
                                        Len(agent.calls)))
  <2>1. /\ HasBatch /\ pendingRecovery = NoRecovery /\ BatchSize > 0
    BY <1>4, ResolvingTakesRecovery DEF RecoveryStops
  <2>2. /\ ~HasBatch' /\ decisions' \subseteq decisions /\ pendingRecovery' = NoRecovery
        /\ history' = h \o rest
    BY <1>4, <2>1 DEF RecoveryStops, GoTo, HasBatch
  <2>3. h \in Seq(Entries) /\ Len(h) = Len(history) + BatchSize
    BY <1>1, BatchAppended
  <2>4. rest \in Seq(Entries) /\ Len(rest) \in Nat
    <3>1. batch.first + BatchSize + 1 \in Nat \ {0} /\ agent.calls \in Seq(Nat)
      BY <1>1, Sums DEF AgentStates
    <3> QED
      BY <3>1, RecordsSubSeqType, InterruptedType, LenProperties
  <2> HIDE DEF h, rest
  <2>5. Len(history') = Len(h) + Len(rest)
    BY <2>2, <2>3, <2>4, ConcatProperties
  <2>6. Len(history') \in Nat /\ Len(history') > Len(history)
    BY <1>1, <2>1, <2>3, <2>4, <2>5
  <2> QED
    BY <2>1, <2>2, <2>6, EndedBatch
<1>5. ASSUME NEW decision \in decisions, RecoveryResumes(decision)
      PROVE  RecoveryInv'
  <2> DEFINE retried == Retried(decision)
             records == [i \in 1..BatchSize |->
                            IF i \in retried
                            THEN [batch.records[i] EXCEPT !.outcome = "none"]
                            ELSE IF i \in Unresolved(batch.records)
                            THEN [batch.records[i] EXCEPT !.manual = FALSE]
                            ELSE batch.records[i]]
  <2>1. /\ HasBatch /\ IsResolvable /\ pendingRecovery = NoRecovery
        /\ batch.sequence = Len(history) /\ BatchSize > 0
    BY <1>5, ResolvingTakesRecovery DEF RecoveryResumes
  <2>2. decisions' \subseteq decisions /\ pendingRecovery' = NoRecovery
    BY <1>5, <2>1 DEF RecoveryResumes
  <2>3. records \in Seq(Records) /\ Len(records) = BatchSize
    <3>1. \A i \in 1..BatchSize : batch.records[i] \in Records
      BY <1>1, ElementOfSeq
    <3>2. \A i \in 1..BatchSize : records[i] \in Records
      BY <3>1 DEF Records, Outcomes
    <3>3. records = [i \in 1..BatchSize |-> records[i]]
      OBVIOUS
    <3> HIDE DEF records
    <3>4. records \in Seq(Records)
      BY <1>1, <3>2, <3>3, SequenceOf
    <3> QED
      BY <1>1, <3>3, <3>4, LenProperties
  <2>4. CASE retried = {}
    <3>1. FinishBatch(records)
      BY <1>5, <2>4 DEF RecoveryResumes
    <3> HIDE DEF records
    <3>2. Len(history') \in Nat /\ Len(history') > Len(history) /\ ~HasBatch'
      BY <1>1, <2>1, <2>3, <3>1, FinishBatchGrows
    <3> QED
      BY <2>1, <2>2, <3>2, EndedBatch
  <2>5. CASE retried # {}
    <3>1. /\ batch' = [batch EXCEPT !.records = records, !.revision = @ + 1]
          /\ step' = "AwaitParallelToolResults" /\ UNCHANGED history
      BY <1>5, <2>5 DEF RecoveryResumes, GoTo
    <3> HIDE DEF records
    <3>2. /\ batch'.sequence = batch.sequence /\ batch'.first = batch.first
          /\ batch'.records = records /\ batch'.revision = batch.revision + 1
          /\ batch.revision \in Nat
      BY <3>1 DEF TypeOK, JoiningType, Batches
    <3>3. \A d \in decisions : d.id[3] \in Nat
      BY DEF TypeOK, ChannelsType, RecoveryIDs
    <3>4. \A d \in decisions' : DecisionMatchesBatch(d)'
      BY <2>2, <3>1, <3>2, <3>3 DEF RecoveryInv, DecisionMatchesBatch, HasBatch
    <3> QED
      BY <2>1, <2>2, <2>3, <3>1, <3>2, <3>4 DEF RecoveryInv, HasBatch, BatchSize
  <2> QED
    BY <2>4, <2>5
<1> QED
  BY <1>2, <1>3, <1>4, <1>5 DEF Recovery

-----------------------------------------------------------------------------
(* A pending attribute never outlives the Step that consumes its decision, *)
(* so no RPC accepts a decision for a call the flow has left behind.       *)
THEOREM PendingsFollowTheFlow == Spec => []PendingsMatchStep
<1> DEFINE Inv == TypeOK /\ WaitInv /\ RecoveryInv
<1>1. Init => Inv
  <2>1. Init => WaitInv /\ RecoveryInv
    BY DEF Init, WaitInv, ApprovalMatchesStep, TimerMatchesStep, InputMatchesStep,
       AnswerMatchesStep, RecoveryInv, HasBatch
  <2> QED
    BY <2>1, InitType
<1>2. Inv /\ [Next]_vars => Inv'
  <2>1. ASSUME Inv, UNCHANGED vars
        PROVE  Inv'
    <3>1. TypeOK'
      BY <2>1, StepType
    <3>2. WaitInv' /\ RecoveryInv'
      BY <2>1 DEF vars, movement, awaiting, joining, conversation, pendings,
         messageChannels, decisionChannels, otherChannels, books, WaitInv,
         ApprovalMatchesStep, TimerMatchesStep, InputMatchesStep, AnswerMatchesStep,
         RecoveryInv, DecisionMatchesBatch, HasBatch, IsResolvable, BatchSize, RecoveryID,
         HasCurrentCall, CurrentCall
    <3> QED
      BY <3>1, <3>2
  <2>2. ASSUME Inv, Next
        PROVE  Inv'
    <3>1. TypeOK'
      BY <2>2, StepType
    <3>2. WaitInv'
      BY <2>2, UserCommandWaits, UserBoundaryWaits, ModelTurnWaits, RoutedWaits,
         ToolWaitWaits, ToolRunWaits, RecoveryWaits DEF Next, Worker
    <3>3. RecoveryInv'
      BY <2>2, UserCommandRecovery, UserBoundaryRecovery, ModelTurnRecovery, RoutedRecovery,
         ToolWaitRecovery, ToolRunRecovery, RecoveryRecovery DEF Next, Worker
    <3> QED
      BY <3>1, <3>2, <3>3
  <2> QED
    BY <2>1, <2>2
<1>3. Inv => PendingsMatchStep
  BY DEF WaitInv, RecoveryInv, RecoveryMatchesStep, IsResolvable, PendingsMatchStep
<1> QED
  BY <1>1, <1>2, <1>3, PTL DEF Spec

-----------------------------------------------------------------------------
(* The calls of a reply.                                                   *)
Settled == Len(issued) - Len(agent.calls) + agent.index

(* Where a call is routed, decided, waited for or run.                     *)
AtApproval ==
    step = "AwaitToolApproval" \/ (step = "CheckSteered" /\ input = "await_tool_approval")
AtTimer == step = "DurableWait" \/ (step = "CheckSteered" /\ input = "durable_wait")
AtRun ==
    \/ step \in {"ExecuteTool", "RecoverToolExecution", "PrepareManualToolRecovery"}
    \/ step = "CheckSteered" /\ input = "execute_tool"
AtCall ==
    \/ AtApproval \/ AtTimer \/ AtRun \/ HasBatch
    \/ step = "RouteTool" \/ (step = "CheckSteered" /\ input = "route_tool")

(* The cursor points to an open call just where one is needed.             *)
CursorInv ==
    /\ IF AtCall THEN agent.index < Len(agent.calls)
       ELSE agent.calls = <<>> /\ agent.index = 0
    /\ Len(agent.calls) <= Len(issued)
    /\ \A i \in 1..Len(agent.calls) : agent.calls[i] = Len(issued) - Len(agent.calls) + i

(* What runs is an external tool, and the turn is no planning turn.        *)
ToolInv ==
    /\ AtApproval \/ AtRun =>
          issued[Settled + 1].tool \in ExternalTools /\ agent.mode # "planning"
    /\ HasBatch =>
          /\ \A i \in 1..BatchSize : issued[Settled + i].tool \in ExternalTools
          /\ agent.mode # "planning"
    /\ plan.status = "draft" => agent.mode = "planning"

(* The batch holds the calls at the cursor; each unfinished record has one *)
(* branch or one result.                                                   *)
BatchInv ==
    /\ HasBatch =>
          /\ batch.first = agent.index /\ agent.index + BatchSize <= Len(agent.calls)
          /\ \A i \in 1..BatchSize :
                /\ batch.records[i].call = Settled + i
                /\ batch.records[i].outcome \in {"none", "succeeded", "failed", "unknown"}
    /\ step # "AwaitParallelToolResults" => branches = {} /\ results = {}
    /\ step = "AwaitParallelToolResults" =>
          {b.record : b \in branches} \cup {r.record : r \in results} = Unfinished
    /\ \A b, c \in branches : b.record = c.record => b = c
    /\ \A b \in branches : \A r \in results : b.record # r.record
    /\ \A r \in results : r.outcome \in {"succeeded", "failed", "unknown"}
    /\ step = "AwaitManualToolRecovery" => Unfinished = {} /\ Unresolved(batch.records) # {}

(* The inputs of the Steps that depend on an earlier one.                  *)
InputInv ==
    /\ AtTimer => pendingTimer # NoCall
    /\ step = "AwaitUser" /\ phase = "execute" =>
          selected.kind # "none" /\ (selected.kind = "plan" => plan.status # "none")
    /\ step \in {"AfterModelCall", "ApplyModelResult"} /\ input = "response" =>
          reply.expected = Len(history) + 1

(* A decision exists for the call at the cursor once its pending attribute *)
(* is gone, and for calls that are settled; there is one, and it says what *)
(* the user said.                                                          *)
ApprovalInv ==
    /\ AtApproval =>
          \/ pendingApproval = Settled + 1
          \/ \E d \in approvals : d.call = Settled + 1
    /\ \A d \in approvals :
          /\ d.call \in 1..Len(issued)
          /\ d.call <= Settled \/ (d.call = Settled + 1 /\ AtApproval /\ pendingApproval = NoCall)
          /\ d.approved => issued[d.call].verdict = "approved"
    /\ \A d, e \in approvals : d.call = e.call => d = e

IsApproved(call) == issued[call].tool \in NeedsApproval => issued[call].verdict = "approved"

(* Beyond the settled calls only the one at the cursor, or those of the    *)
(* batch, have run, and only with the approval they need.                  *)
RunInv ==
    /\ \A call \in 1..Len(issued) :
          /\ issued[call].runs > 0 => IsApproved(call)
          /\ issued[call].runs > 0 =>
                \/ call <= Settled
                \/ AtRun /\ step # "CheckSteered" /\ call = Settled + 1
                \/ HasBatch /\ call <= Settled + BatchSize
    /\ AtRun => IsApproved(Settled + 1)
    /\ HasBatch => \A i \in 1..BatchSize : IsApproved(Settled + i)

(* A known outcome of the batch came from an invocation.                   *)
KnownInv ==
    /\ HasBatch => \A i \in 1..BatchSize :
          batch.records[i].outcome \in {"succeeded", "failed"} => issued[Settled + i].runs > 0
    /\ \A r \in results :
          r.outcome \in {"succeeded", "failed"} => issued[Settled + r.record].runs > 0

(* Each execution has its attempts, and each retry the user asked for one  *)
(* execution more: a decision that can still be applied has paid for it.   *)
Paid(call) == issued[call].runs <= MaximumAttempts * issued[call].retries
CountInv ==
    /\ \A call \in 1..Len(issued) :
          issued[call].runs <= MaximumAttempts * (1 + issued[call].retries)
    /\ step = "ExecuteTool" =>
          /\ attempt \in 1..MaximumAttempts
          /\ issued[Settled + 1].runs < attempt
    /\ \A b \in branches : ~b.recovering =>
          /\ b.attempt \in 1..MaximumAttempts
          /\ issued[Settled + b.record].runs
                < MaximumAttempts * issued[Settled + b.record].retries + b.attempt
    /\ \A d \in decisions :
          IsResolvable /\ d.id = RecoveryID => \A call \in d.retried : Paid(call)
    /\ pendingRecovery # NoRecovery => pendingRecovery.calls = PendingCalls(batch.records)

(* What ends a wait for the user is set, published or steered.             *)
UserWaitInv ==
    /\ IsResolvable =>
          \/ pendingRecovery # NoRecovery
          \/ \E d \in decisions : d.id = RecoveryID
          \/ steered # <<>>
    /\ step = "AwaitUser" /\ phase = "waiting" /\ awaitingAnswer =>
          pendingInput # NoCall \/ answered # <<>>

(* The status that ExecutePlan needs is that of AwaitUser, and its request *)
(* is gone when AwaitUser ends.                                            *)
PlanRequestInv ==
    /\ agent.status = "waiting_for_message" => step \in {"AwaitUser", "Init"}
    /\ PlanRequestIsPending

(* No plan is written before InitExecute.                                  *)
FreshInv == step = "Init" => plan = NoPlan

TurnInv == FreshInv /\ InputInv /\ UserWaitInv /\ PlanRequestInv

CallInv ==
    /\ CursorInv /\ ToolInv /\ BatchInv
    /\ ApprovalInv /\ RunInv /\ KnownInv /\ CountInv

-----------------------------------------------------------------------------
(* The call at the cursor.                                                 *)

(* The numbers the invariant compares, and the call the cursor points to.  *)
LEMMA CallFacts ==
  ASSUME TypeOK, CursorInv
  PROVE  /\ agent \in AgentStates /\ agent.calls \in Seq(Nat) /\ agent.index \in Nat
         /\ Len(agent.calls) \in Nat /\ Len(issued) \in Nat /\ DOMAIN issued = 1..Len(issued)
         /\ Settled \in Nat /\ Settled <= Len(issued)
         /\ \A call \in 1..Len(issued) : issued[call] \in Calls
         /\ AtCall => HasCurrentCall /\ CurrentCall = Settled + 1
                      /\ Settled + 1 \in 1..Len(issued)
         /\ ~AtCall => Settled = Len(issued) /\ ~HasCurrentCall
<1>1. /\ agent \in AgentStates /\ agent.calls \in Seq(Nat) /\ agent.index \in Nat
      /\ Len(agent.calls) \in Nat /\ issued \in Seq(Calls)
      /\ Len(issued) \in Nat /\ DOMAIN issued = 1..Len(issued)
      /\ \A call \in 1..Len(issued) : issued[call] \in Calls
  BY LenProperties, ElementOfSeq DEF TypeOK, ConversationType, AgentStates
<1>2. agent.index <= Len(agent.calls) /\ (~AtCall => agent.index = Len(agent.calls))
  BY <1>1, EmptySeq DEF CursorInv
<1>3. ASSUME AtCall
      PROVE  HasCurrentCall /\ CurrentCall = Settled + 1 /\ Settled + 1 \in 1..Len(issued)
  <2>1. agent.index < Len(agent.calls) /\ Len(agent.calls) <= Len(issued)
    BY <1>3 DEF CursorInv
  <2>2. agent.index + 1 \in 1..Len(agent.calls)
    BY <1>1, <2>1
  <2>3. agent.calls[agent.index + 1] = Len(issued) - Len(agent.calls) + (agent.index + 1)
    BY <2>2 DEF CursorInv
  <2>4. Settled + 1 = Len(issued) - Len(agent.calls) + (agent.index + 1)
    BY <1>1 DEF Settled
  <2>5. Settled + 1 \in 1..Len(issued)
    BY <1>1, <2>1, <2>4
  <2> QED BY <2>1, <2>3, <2>4, <2>5 DEF HasCurrentCall, CurrentCall
<1> QED
  BY <1>1, <1>2, <1>3 DEF CursorInv, Settled, HasCurrentCall

(* Where the batch is, and the calls it holds.                             *)
LEMMA BatchFacts ==
  ASSUME TypeOK, CallInv, HasBatch
  PROVE  /\ AtCall /\ BatchSize \in Nat /\ batch.first = agent.index
         /\ agent.index + BatchSize <= Len(agent.calls)
         /\ \A i \in 1..BatchSize :
               /\ Settled + i \in 1..Len(issued) /\ batch.records[i].call = Settled + i
<1>1. BatchSize \in Nat
  BY LenProperties DEF TypeOK, JoiningType, Batches, BatchSize
<1>2. /\ agent.index \in Nat /\ Len(agent.calls) \in Nat /\ Len(issued) \in Nat
      /\ Len(agent.calls) <= Len(issued)
  BY CallFacts DEF CallInv, CursorInv
<1>3. agent.index + BatchSize <= Len(agent.calls)
  BY DEF CallInv, BatchInv
<1>4. \A i \in 1..BatchSize : Settled + i \in 1..Len(issued)
  BY <1>1, <1>2, <1>3, SMTT(20) DEF Settled
<1> QED
  BY <1>1, <1>3, <1>4 DEF CallInv, BatchInv, AtCall

(* The attempts of one retry more.                                         *)
LEMMA OneMoreRetry ==
  ASSUME NEW m \in Nat, NEW r \in Nat
  PROVE  /\ m * (1 + r) \in Nat /\ m * r \in Nat /\ m * (1 + r) = m * r + m
         /\ m * (r + 1) = m * (1 + r) /\ m * (1 + (r + 1)) = m * (1 + r) + m
         /\ m * (r + 0) = m * r /\ m * (1 + (r + 0)) = m * (1 + r)
OBVIOUS

(* A step that leaves the cursor alone and stays at a call, or away from   *)
(* one, keeps the cursor right.                                            *)
LEMMA CursorStays ==
  ASSUME CursorInv, Len(issued') = Len(issued), agent'.calls = agent.calls,
         agent'.index = agent.index, AtCall' <=> AtCall
  PROVE  CursorInv' /\ Settled' = Settled
BY DEF CursorInv, Settled

(* So does one that clears the calls and leaves them.                      *)
LEMMA CursorClears ==
  ASSUME TypeOK, CursorInv, Len(issued') = Len(issued), agent'.calls = <<>>,
         agent'.index = 0, ~AtCall'
  PROVE  CursorInv' /\ Settled' = Len(issued)
<1>1. Len(<<>>) = 0 /\ Len(issued) \in Nat
  BY CallFacts, EmptySeq
<1> QED
  BY <1>1 DEF CursorInv, Settled

(* Moving a cursor within its calls but not before their end reaches it.   *)
LEMMA ReachedEnd ==
  ASSUME NEW i \in Nat, NEW count \in Nat, NEW n \in Nat, i + count <= n, ~(i + count < n)
  PROVE  i + count = n
OBVIOUS

(* advanceTool moves past `count' calls, to the next one or out.           *)
LEMMA CursorAdvances ==
  ASSUME TypeOK, CursorInv, AtCall, NEW a \in AgentStates,
         a.calls = agent.calls, a.index = agent.index,
         NEW count \in Nat \ {0}, agent.index + count <= Len(agent.calls),
         Len(issued') = Len(issued), agent' = Advanced(a, count),
         step' = "CheckSteered", input' = NextContinuation(a, count)
  PROVE  /\ CursorInv' /\ Settled' = Settled + count
         /\ agent'.mode = a.mode /\ ~AtApproval' /\ ~AtRun' /\ ~AtTimer' /\ ~HasBatch'
<1>1. /\ agent.calls \in Seq(Nat) /\ agent.index \in Nat /\ Len(agent.calls) \in Nat
      /\ Len(issued) \in Nat /\ count \in Nat
  BY CallFacts
<1>2. input' \in {"route_tool", "compact_context"}
  BY DEF NextContinuation
<1>3. ~AtApproval' /\ ~AtRun' /\ ~AtTimer' /\ ~HasBatch'
  BY <1>2 DEF AtApproval, AtRun, AtTimer, HasBatch
<1>4. CASE agent.index + count < Len(agent.calls)
  <2>1. agent' = [a EXCEPT !.index = a.index + count] /\ input' = "route_tool"
    BY <1>4 DEF Advanced, NextContinuation
  <2>2. /\ agent'.calls = agent.calls /\ agent'.index = agent.index + count
        /\ agent'.mode = a.mode
    BY <2>1 DEF AgentStates
  <2>3. AtCall'
    BY <2>1 DEF AtCall
  <2>4. Settled' = Settled + count
    BY <1>1, <2>2 DEF Settled
  <2>5. CursorInv'
    BY <1>1, <1>4, <2>2, <2>3 DEF CursorInv
  <2> QED BY <1>3, <2>2, <2>4, <2>5
<1>5. CASE ~(agent.index + count < Len(agent.calls))
  <2>1. agent' = WithCallsCleared(a) /\ input' = "compact_context"
    BY <1>5 DEF Advanced, NextContinuation
  <2>2. agent'.calls = <<>> /\ agent'.index = 0 /\ agent'.mode = a.mode
    BY <2>1 DEF AgentStates, WithCallsCleared
  <2>3. ~AtCall'
    BY <1>3, <2>1 DEF AtCall
  <2>4. agent.index + count = Len(agent.calls)
    BY <1>1, <1>5, ReachedEnd
  <2>5. CursorInv' /\ Settled' = Len(issued)
    BY <2>2, <2>3, CursorClears
  <2> QED BY <1>1, <1>3, <2>2, <2>4, <2>5 DEF Settled
<1> QED
  BY <1>4, <1>5

(* A step after which no call is decided, run or batched keeps the         *)
(* invariants, if what has run is settled and was approved.                *)
LEMMA LeaveCall ==
  ASSUME TypeOK, CallInv, Len(issued') = Len(issued), issued' \in Seq(Calls),
         CursorInv', Settled' \in Nat, Settled' >= Settled,
         ~AtApproval', ~AtRun', ~HasBatch',
         \A call \in 1..Len(issued) :
            /\ issued'[call].tool = issued[call].tool
            /\ issued'[call].verdict = issued[call].verdict
            /\ issued'[call].retries = issued[call].retries
            /\ issued'[call].runs > 0 => call <= Settled'
            /\ \/ issued'[call].runs = issued[call].runs
               \/ /\ IsApproved(call)
                  /\ issued'[call].runs <= MaximumAttempts * (1 + issued[call].retries),
         branches' = {}, results' = {},
         approvals' \subseteq approvals, \A d \in approvals' : d.call <= Settled',
         decisions' \subseteq decisions, pendingRecovery' = NoRecovery,
         plan'.status = "draft" => agent'.mode = "planning"
  PROVE  CallInv'
<1>1. ToolInv' /\ BatchInv' /\ KnownInv'
  BY DEF ToolInv, BatchInv, KnownInv, HasBatch
<1>2. ApprovalInv'
  BY DEF CallInv, ApprovalInv
<1>3. RunInv'
  BY DEF CallInv, RunInv, IsApproved
<1>4. CountInv'
  <2>1. step' # "ExecuteTool" /\ ~IsResolvable'
    BY DEF AtRun, HasBatch, IsResolvable
  <2> QED BY <2>1 DEF CallInv, CountInv
<1> QED
  BY <1>1, <1>2, <1>3, <1>4 DEF CallInv

(* A step that leaves the calls, where they are and what they await alone. *)
LEMMA CallUnchanged ==
  ASSUME CallInv, UNCHANGED <<step, input, attempt, issued, batch, branches, results,
                              approvals, decisions, pendingApproval, plan>>,
         IsResolvable' => IsResolvable,
         pendingRecovery' \in {pendingRecovery, NoRecovery},
         agent'.calls = agent.calls, agent'.index = agent.index, agent'.mode = agent.mode
  PROVE  CallInv'
<1> USE DEF Settled, AtApproval, AtTimer, AtRun, HasBatch, BatchSize
<1>1. CursorInv' /\ ToolInv'
  BY DEF CallInv, CursorInv, AtCall, ToolInv
<1>2. BatchInv' /\ KnownInv'
  BY DEF CallInv, BatchInv, Unfinished, Unresolved, KnownInv
<1>3. ApprovalInv' /\ RunInv'
  BY DEF CallInv, ApprovalInv, RunInv, IsApproved
<1>4. CountInv'
  BY DEF CallInv, CountInv, Paid, PendingCalls, Unresolved, RecoveryID
<1> QED
  BY <1>1, <1>2, <1>3, <1>4 DEF CallInv

(* A step that leaves no call open, whatever was open before.              *)
LEMMA CallsLeft ==
  ASSUME TypeOK, CallInv, UNCHANGED issued, ~AtCall',
         agent'.calls = <<>>, agent'.index = 0,
         branches' = {}, results' = {}, approvals' \subseteq approvals,
         decisions' \subseteq decisions, pendingRecovery' = NoRecovery,
         plan'.status = "draft" => agent'.mode = "planning"
  PROVE  CallInv'
<1>1. CursorInv' /\ Settled' = Len(issued) /\ Settled <= Len(issued) /\ Len(issued) \in Nat
  BY CursorClears, CallFacts DEF CallInv
<1>2. \A d \in approvals' : d.call <= Settled'
  BY <1>1 DEF CallInv, ApprovalInv
<1>3. ~AtApproval' /\ ~AtRun' /\ ~HasBatch'
  BY DEF AtCall
<1>4. issued' \in Seq(Calls)
  BY DEF TypeOK, ConversationType
<1> QED
  BY <1>1, <1>2, <1>3, <1>4, LeaveCall

(* Away from the calls there is none, nor a batch or a pending recovery.   *)
LEMMA NoCallOpen ==
  ASSUME CallInv, RecoveryInv, ~AtCall
  PROVE  /\ agent.calls = <<>> /\ agent.index = 0 /\ branches = {} /\ results = {}
         /\ pendingRecovery = NoRecovery
<1>1. ~HasBatch
  BY DEF AtCall
<1> QED
  BY <1>1, RecoveryInvQuiet DEF CallInv, CursorInv, BatchInv, HasBatch

(* beginUserTurn clears the calls, and an open plan makes it plan.         *)
LEMMA UserTurnFacts ==
  ASSUME NEW a \in AgentStates, NEW p \in BOOLEAN, NEW q \in BOOLEAN
  PROVE  LET next == AfterUserTurn(a, p, q)
         IN  /\ next.calls = <<>> /\ next.index = 0 /\ next.execution = 0
             /\ next.status = "calling_model"
             /\ plan.status = "draft" => next.mode = "planning"
<1> DEFINE b == WithPlanRequestCleared(WithCallsCleared(a))
<1>1. b \in AgentStates /\ b.calls = <<>> /\ b.index = 0 /\ b.execution = 0
  BY WithCallsClearedType, WithPlanRequestClearedType
     DEF AgentStates, WithCallsCleared, WithPlanRequestCleared
<1> HIDE DEF b
<1> QED
  BY <1>1 DEF AfterUserTurn, AgentStates, b

(* A steered turn leaves no call open.                                     *)
LEMMA SteeredTurnFacts ==
  ASSUME NEW messages, NEW a \in AgentStates, NEW h, BeginSteeredTurn(messages, a, h)
  PROVE  /\ agent'.calls = <<>> /\ agent'.index = 0 /\ agent'.execution = 0
         /\ agent'.status = "calling_model"
         /\ plan.status = "draft" => agent'.mode = "planning"
         /\ pendingApproval' = NoCall /\ pendingRecovery' = NoRecovery
<1>1. (Last(messages) \in PlanModeMessages) \in BOOLEAN
  OBVIOUS
<1> QED
  BY <1>1, UserTurnFacts DEF BeginSteeredTurn

(* A Step of a model call is away from the calls.                          *)
LEMMA GoToModelLeaves ==
  ASSUME NEW kind, GoToModel(kind)
  PROVE  ~AtCall' /\ step' \in ModelSteps
BY DEF GoToModel, GoTo, ModelSteps, AtCall, AtApproval, AtTimer, AtRun, HasBatch

(* updateStatus changes nothing else.                                      *)
LEMMA StatusFacts ==
  ASSUME TypeOK, NEW s
  PROVE  /\ Status(s).calls = agent.calls /\ Status(s).index = agent.index
         /\ Status(s).mode = agent.mode /\ Status(s).execution = agent.execution
         /\ Status(s).status = s
BY DEF TypeOK, ConversationType, AgentStates, Status

-----------------------------------------------------------------------------
(* The calls, action by action.                                            *)

(* A user's RPC touches no call: it only queues, steers, decides or        *)
(* answers.                                                                *)
LEMMA UserCommandCalls ==
  ASSUME TypeOK, WaitInv, RecoveryInv, CallInv, UserCommand
  PROVE  CallInv'
<1> USE DEF movement, joining, conversation, pendings, decisionChannels
<1>1. CASE (\E m \in Messages : SendMessage(m)) \/ (\E i \in 1..Len(queued) : DeleteQueuedMessage(i))
           \/ AnswerQuestions
  BY <1>1, CallUnchanged DEF SendMessage, DeleteQueuedMessage, AnswerQuestions, IsResolvable
<1>2. ASSUME NEW i \in 1..Len(queued), SteerMessage(i)
      PROVE  CallInv'
  BY <1>2, CallUnchanged DEF SteerMessage, IsResolvable
<1>3. CASE ExecutePlan
  <2>1. agent'.calls = agent.calls /\ agent'.index = agent.index /\ agent'.mode = agent.mode
    BY <1>3 DEF ExecutePlan, TypeOK, ConversationType, AgentStates
  <2> QED
    BY <1>3, <2>1, CallUnchanged DEF ExecutePlan, IsResolvable
<1>4. ASSUME NEW isApproved \in BOOLEAN, ApproveTool(isApproved)
      PROVE  CallInv'
  <2>1. /\ pendingApproval = Settled + 1 /\ AtApproval /\ Settled + 1 \in 1..Len(issued)
        /\ DOMAIN issued = 1..Len(issued) /\ Settled \in Nat
        /\ \A call \in 1..Len(issued) : issued[call] \in Calls
    BY <1>4, CallFacts DEF ApproveTool, WaitInv, ApprovalMatchesStep, CallInv, AtApproval, AtCall
  <2> DEFINE verdict == IF isApproved THEN "approved" ELSE "rejected"
  <2>2. /\ issued' = [issued EXCEPT ![Settled + 1].verdict = verdict]
        /\ approvals' = approvals \cup {[call |-> Settled + 1, approved |-> isApproved]}
        /\ pendingApproval' = NoCall
        /\ UNCHANGED <<movement, joining, agent, plan, history, decisions, pendingRecovery>>
    BY <1>4, <2>1 DEF ApproveTool, Approval
  <2>3. /\ Len(issued') = Len(issued) /\ DOMAIN issued' = 1..Len(issued)
        /\ issued'[Settled + 1].verdict = verdict
        /\ \A call \in 1..Len(issued) :
              /\ issued'[call].tool = issued[call].tool
              /\ issued'[call].runs = issued[call].runs
              /\ issued'[call].retries = issued[call].retries
              /\ call # Settled + 1 => issued'[call].verdict = issued[call].verdict
    <3>1. issued' \in Seq(Calls)
      BY UserCommandType DEF TypeOK, ConversationType
    <3>2. DOMAIN issued' = 1..Len(issued) /\ Len(issued') = Len(issued)
      BY <2>1, <2>2, <3>1, LenProperties
    <3> QED BY <2>1, <2>2, <3>2 DEF Calls
  <2>4. step \in {"AwaitToolApproval", "CheckSteered"} /\ ~HasBatch /\ ~AtRun
    BY <2>1 DEF AtApproval, HasBatch, AtRun
  <2>5. UNCHANGED <<Settled, AtApproval, AtRun, HasBatch, AtCall, AtTimer>>
    BY <2>2, <2>3 DEF Settled, AtApproval, AtRun, HasBatch, AtCall, AtTimer
  <2>6. CursorInv'
    BY <2>2, <2>3, <2>5, CursorStays DEF CallInv
  <2>7. ToolInv' /\ BatchInv' /\ KnownInv'
    BY <2>1, <2>2, <2>3, <2>4, <2>5
       DEF CallInv, ToolInv, BatchInv, KnownInv, HasBatch
  <2>8. issued[Settled + 1].runs = 0
    BY <2>1, <2>4 DEF CallInv, RunInv, Calls
  <2>9. RunInv'
    BY <2>1, <2>2, <2>3, <2>4, <2>5, <2>8 DEF CallInv, RunInv, IsApproved
  <2>10. ApprovalInv'
    <3> DEFINE new == [call |-> Settled + 1, approved |-> isApproved]
    <3>1. new \in approvals' /\ new.call = Settled + 1
          /\ (new.approved => verdict = "approved")
      BY <2>2
    <3>2. \A d \in approvals' : d = new \/ d \in approvals
      BY <2>2
    <3>3. \A d \in approvals :
             /\ d.call \in 1..Len(issued) /\ d.call <= Settled
             /\ d.approved => issued[d.call].verdict = "approved"
      <4>1. pendingApproval # NoCall
        BY <1>4 DEF ApproveTool
      <4> QED BY <4>1 DEF CallInv, ApprovalInv
    <3> HIDE DEF new, verdict
    <3>4. \A d \in approvals : issued'[d.call].verdict = issued[d.call].verdict
      BY <2>1, <2>3, <3>3
    <3>5. \A d \in approvals' :
             /\ d.call \in 1..Len(issued) /\ (d.call <= Settled \/ d.call = Settled + 1)
             /\ d.approved => issued'[d.call].verdict = "approved"
      BY <2>1, <2>3, <3>1, <3>2, <3>3, <3>4
    <3>6. \A d, e \in approvals' : d.call = e.call => d = e
      <4>1. \A d, e \in approvals : d.call = e.call => d = e
        BY DEF CallInv, ApprovalInv
      <4>2. \A d \in approvals : d.call # Settled + 1
        BY <2>1, <3>3
      <4> QED BY <3>1, <3>2, <4>1, <4>2
    <3> QED BY <2>1, <2>2, <2>3, <2>5, <3>1, <3>5, <3>6 DEF ApprovalInv
  <2>11. CountInv'
    BY <2>1, <2>2, <2>3, <2>4, <2>5 DEF CallInv, CountInv, BatchInv, IsResolvable, HasBatch
  <2> QED BY <2>6, <2>7, <2>9, <2>10, <2>11 DEF CallInv
<1>5. ASSUME NEW isStop \in BOOLEAN, NEW retried \in SUBSET pendingRecovery.calls,
             ResolveToolRecovery(isStop, retried)
      PROVE  CallInv'
  <2> DEFINE new == [id |-> pendingRecovery.id, stop |-> isStop, retried |-> retried]
  <2>1. /\ IsResolvable /\ HasBatch /\ pendingRecovery.id = RecoveryID
        /\ pendingRecovery.calls = PendingCalls(batch.records)
        /\ \A d \in decisions : d.id # RecoveryID
    <3>1. /\ IsResolvable /\ HasBatch /\ pendingRecovery.id = RecoveryID
          /\ pendingRecovery.calls = PendingCalls(batch.records)
      BY <1>5 DEF ResolveToolRecovery, RecoveryInv, IsResolvable, HasBatch, CallInv, CountInv
    <3>2. \A d \in decisions : d.id # RecoveryID
      <4> SUFFICES ASSUME NEW d \in decisions, d.id = RecoveryID
                   PROVE  FALSE
        OBVIOUS
      <4>1. /\ d.id[1] = Len(history) /\ d.id[3] = batch.revision
            /\ Len(history) \in Nat /\ batch.revision \in Nat
        BY <3>1, LenProperties DEF RecoveryID, RecoveryInv, TypeOK, ConversationType,
           JoiningType, Batches
      <4>2. DecisionMatchesBatch(d)
        BY DEF RecoveryInv
      <4> QED BY <1>5, <4>1, <4>2 DEF DecisionMatchesBatch, ResolveToolRecovery
    <3> QED BY <3>1, <3>2
  <2>2. /\ decisions' = decisions \cup {new} /\ pendingRecovery' = NoRecovery
        /\ UNCHANGED <<movement, joining, agent, plan, history, approvals, pendingApproval>>
        /\ issued' = [call \in DOMAIN issued |->
                         IF call \in retried
                         THEN [issued[call] EXCEPT !.retries = @ + 1] ELSE issued[call]]
    BY <1>5 DEF ResolveToolRecovery
  <2>3. /\ \A call \in 1..Len(issued) : issued[call] \in Calls
        /\ Len(issued) \in Nat /\ DOMAIN issued = 1..Len(issued)
        /\ agent.index \in Nat /\ Len(agent.calls) \in Nat
    BY CallFacts DEF CallInv
  <2>4. /\ Len(issued') = Len(issued) /\ DOMAIN issued' = 1..Len(issued)
        /\ \A call \in 1..Len(issued) :
              /\ issued'[call].tool = issued[call].tool
              /\ issued'[call].runs = issued[call].runs
              /\ issued'[call].verdict = issued[call].verdict
              /\ issued[call].retries \in Nat /\ issued[call].runs \in Nat
              /\ issued'[call].retries = issued[call].retries
                    + (IF call \in retried THEN 1 ELSE 0)
    <3>1. issued' \in Seq(Calls)
      BY UserCommandType DEF TypeOK, ConversationType
    <3>2. DOMAIN issued' = 1..Len(issued) /\ Len(issued') = Len(issued)
      BY <2>2, <2>3, <3>1, LenProperties
    <3> QED BY <2>2, <2>3, <3>2 DEF Calls
  <2>5. UNCHANGED <<Settled, AtApproval, AtRun, HasBatch, AtCall, AtTimer, BatchSize,
                    IsResolvable, RecoveryID>>
    BY <2>2, <2>4 DEF Settled, AtApproval, AtRun, HasBatch, AtCall, AtTimer, BatchSize,
       IsResolvable, RecoveryID
  <2>6. CursorInv'
    BY <2>2, <2>4, <2>5, CursorStays DEF CallInv
  <2>7. ~AtApproval /\ ~AtRun /\ \A i \in 1..BatchSize : Settled + i \in 1..Len(issued)
    BY <2>1, BatchFacts DEF AtApproval, AtRun, IsResolvable
  <2>8. ToolInv' /\ BatchInv' /\ KnownInv'
    <3>1. ToolInv'
      BY <2>2, <2>4, <2>5, <2>7 DEF CallInv, ToolInv
    <3>2. BatchInv'
      BY <2>2, <2>5 DEF CallInv, BatchInv, Unfinished, Unresolved, BatchSize
    <3>3. results = {}
      BY <2>1 DEF CallInv, BatchInv, IsResolvable
    <3>4. KnownInv'
      BY <2>2, <2>4, <2>5, <2>7, <3>3 DEF CallInv, KnownInv
    <3> QED BY <3>1, <3>2, <3>4
  <2>9. RunInv' /\ ApprovalInv'
    <3>1. RunInv'
      BY <2>2, <2>4, <2>5, <2>7 DEF CallInv, RunInv, IsApproved
    <3>2. ApprovalInv'
      BY <2>2, <2>4, <2>5, <2>7 DEF CallInv, ApprovalInv
    <3> QED BY <3>1, <3>2
  <2>10. CountInv'
    <3>1. \A call \in 1..Len(issued) :
             /\ issued'[call].runs <= MaximumAttempts * (1 + issued'[call].retries)
             /\ call \in retried => Paid(call)'
      <4> TAKE call \in 1..Len(issued)
      <4>1. /\ issued[call].runs <= MaximumAttempts * (1 + issued[call].retries)
            /\ issued[call].runs \in Nat /\ issued[call].retries \in Nat
            /\ MaximumAttempts \in Nat
        BY <2>4, LimitAssumption DEF CallInv, CountInv
      <4>2. PICK r \in Nat, m \in Nat : r = issued[call].retries /\ m = MaximumAttempts
        BY <4>1
      <4>3. PICK p \in Nat, q \in Nat :
                /\ p = m * (1 + r) /\ p = m * (r + 1) /\ p + m = m * (1 + (r + 1))
                /\ p = m * (1 + (r + 0))
        BY OneMoreRetry, ZenonT(30)
      <4>4. issued'[call].runs = issued[call].runs /\ issued[call].runs <= p
        BY <2>4, <4>1, <4>2, <4>3
      <4>5. CASE call \in retried
        <5>1. issued'[call].retries = r + 1
          BY <2>4, <4>2, <4>5
        <5>2. /\ MaximumAttempts * (1 + issued'[call].retries) = p + m
              /\ MaximumAttempts * issued'[call].retries = p
          BY <4>2, <4>3, <5>1
        <5> QED BY <4>1, <4>4, <5>2 DEF Paid
      <4>6. CASE call \notin retried
        <5>1. issued'[call].retries = r + 0
          BY <2>4, <4>2, <4>6
        <5>2. MaximumAttempts * (1 + issued'[call].retries) = p
          BY <4>2, <4>3, <5>1
        <5> QED BY <4>1, <4>4, <4>6, <5>2
      <4> QED BY <4>5, <4>6
    <3>2. step' # "ExecuteTool" /\ branches' = {}
      BY <2>1, <2>2 DEF IsResolvable, CallInv, BatchInv
    <3>3. retried \subseteq 1..Len(issued)
      BY <2>1, <2>7 DEF CallInv, BatchInv, PendingCalls, Unresolved, BatchSize
    <3>4. \A call \in retried : Paid(call)'
      BY <3>1, <3>3
    <3> HIDE DEF new
    <3>5. \A d \in decisions' : d.id = RecoveryID => d = new
      BY <2>1, <2>2
    <3> QED BY <2>2, <2>4, <2>5, <3>1, <3>2, <3>4, <3>5 DEF CountInv, new
  <2> QED BY <2>6, <2>8, <2>9, <2>10 DEF CallInv
<1> QED
  BY <1>1, <1>2, <1>3, <1>4, <1>5 DEF UserCommand

(* AwaitUser begins a turn with no call open.                              *)
LEMMA UserBoundaryCalls ==
  ASSUME TypeOK, RecoveryInv, CallInv, FreshInv, UserBoundary
  PROVE  CallInv'
<1> USE DEF movement, joining, conversation, pendings, decisionChannels
<1>1. ~AtCall
  BY DEF UserBoundary, InitExecute, AwaitUserWaitFor, IsSelecting, SelectAnswer, SelectSteered,
     SelectQueued, SelectPlan, IsBeginning, AwaitUserExecuteAnswer, AwaitUserExecuteSteered,
     AwaitUserExecuteQueued, AwaitUserExecutePlan, AnsweredInput, AtCall, AtApproval, AtTimer,
     AtRun, HasBatch
<1>2. /\ agent.calls = <<>> /\ agent.index = 0 /\ branches = {} /\ results = {}
      /\ pendingRecovery = NoRecovery /\ (plan.status = "draft" => agent.mode = "planning")
      /\ agent \in AgentStates /\ plan \in Plans
  BY <1>1, NoCallOpen DEF CallInv, ToolInv, TypeOK, ConversationType
<1>3. UNCHANGED <<issued, branches, results, approvals, decisions>>
  BY DEF UserBoundary, InitExecute, AwaitUserWaitFor, SelectAnswer, SelectSteered,
     SelectQueued, SelectPlan, Select, AwaitUserExecuteAnswer, AwaitUserExecuteSteered,
     AwaitUserExecuteQueued, AwaitUserExecutePlan, AnsweredInput
<1>4. ~AtCall'
  <2>1. CASE AnsweredInput
    BY <2>1, GoToModelLeaves DEF AnsweredInput, GoToCompactContext
  <2>2. CASE UNCHANGED <<step, input>>
    BY <1>1, <2>2 DEF AtCall, AtApproval, AtTimer, AtRun, HasBatch
  <2>3. CASE step' = "AwaitUser" \/ step' = "AnsweredInput"
             \/ (step' = "CheckSteered" /\ input' = "compact_context")
    BY <2>3 DEF AtCall, AtApproval, AtTimer, AtRun, HasBatch
  <2> QED
    BY <2>1, <2>2, <2>3 DEF UserBoundary, InitExecute, AwaitUserWaitFor, SelectAnswer,
       SelectSteered, SelectQueued, SelectPlan, Select, AwaitUserExecuteAnswer,
       AwaitUserExecuteSteered, AwaitUserExecuteQueued, AwaitUserExecutePlan, GoTo
<1>5. /\ agent'.calls = <<>> /\ agent'.index = 0 /\ pendingRecovery' = NoRecovery
      /\ plan'.status = "draft" => agent'.mode = "planning"
  <2>1. CASE InitExecute
    BY <1>2, <2>1 DEF InitExecute, NewAgentState, FreshInv, NoPlan
  <2>2. CASE AwaitUserWaitFor
    BY <1>2, <2>2, StatusFacts DEF AwaitUserWaitFor
  <2>3. CASE UNCHANGED <<agent, plan, pendingRecovery>>
    BY <1>2, <2>3
  <2>4. CASE AwaitUserExecuteAnswer
    BY <1>2, <2>4, UserTurnFacts DEF AwaitUserExecuteAnswer
  <2>5. CASE AwaitUserExecuteSteered
    <3>1. BeginSteeredTurn(selected.messages, agent, history) /\ UNCHANGED plan
      BY <2>5 DEF AwaitUserExecuteSteered
    <3>2. /\ agent'.calls = <<>> /\ agent'.index = 0 /\ pendingRecovery' = NoRecovery
          /\ plan.status = "draft" => agent'.mode = "planning"
      BY <1>2, <3>1, SteeredTurnFacts
    <3> QED BY <3>1, <3>2
  <2>6. CASE AwaitUserExecuteQueued
    <3> DEFINE p == selected.messages[1] \in PlanModeMessages
    <3>1. /\ p \in BOOLEAN /\ agent' = AfterUserTurn(agent, p, FALSE)
          /\ UNCHANGED <<plan, pendingRecovery>>
      BY <2>6 DEF AwaitUserExecuteQueued
    <3> HIDE DEF p
    <3> QED BY <1>2, <3>1, UserTurnFacts
  <2>7. CASE AwaitUserExecutePlan
    <3>1. CASE IsCurrentRequest
      <4>1. /\ plan'.status # "draft" /\ agent'.calls = agent.calls
            /\ agent'.index = agent.index
        BY <1>2, <2>7, <3>1 DEF AwaitUserExecutePlan, AgentStates, Plans
      <4> QED BY <1>2, <2>7, <4>1 DEF AwaitUserExecutePlan
    <3>2. CASE ~IsCurrentRequest
      <4>1. /\ agent'.calls = agent.calls /\ agent'.index = agent.index
            /\ agent'.mode = agent.mode /\ UNCHANGED plan
        BY <1>2, <2>7, <3>2 DEF AwaitUserExecutePlan, AgentStates
      <4> QED BY <1>2, <2>7, <4>1 DEF AwaitUserExecutePlan
    <3> QED BY <3>1, <3>2
  <2> QED
    BY <2>1, <2>2, <2>3, <2>4, <2>5, <2>6, <2>7
       DEF UserBoundary, SelectAnswer, SelectSteered, SelectQueued, SelectPlan, Select,
           AnsweredInput
<1> QED
  BY <1>2, <1>3, <1>4, <1>5, CallsLeft

(* A reply issues its calls after those issued so far, none of them run.   *)
LEMMA ReplyIssues ==
  ASSUME TypeOK, NEW requests \in Seq(Requests), NEW a, ApplyReply(a, requests)
  PROVE  /\ Len(requests) \in Nat /\ Len(issued) \in Nat
         /\ Len(issued') = Len(issued) + Len(requests)
         /\ \A call \in 1..Len(issued) : issued'[call] = issued[call]
         /\ \A call \in 1..Len(issued') : call > Len(issued) =>
               issued'[call].runs = 0 /\ issued'[call].retries = 0
<1> DEFINE new == [i \in 1..Len(requests) |-> NewCall(requests[i])]
<1>1. Len(requests) \in Nat /\ issued \in Seq(Calls) /\ Len(issued) \in Nat
  BY LenProperties DEF TypeOK, ConversationType
<1>2. \A i \in 1..Len(requests) : NewCall(requests[i]) \in Calls
  <2> TAKE i \in 1..Len(requests)
  <2>1. requests[i] \in Requests
    BY ElementOfSeq
  <2> QED BY <2>1 DEF NewCall, Calls, Requests
<1>3. new \in Seq(Calls) /\ Len(new) = Len(requests)
  BY <1>1, <1>2
<1>4. \A i \in 1..Len(requests) : new[i].runs = 0 /\ new[i].retries = 0
  BY DEF NewCall
<1>5. issued' = issued \o new
  BY DEF ApplyReply
<1> HIDE DEF new
<1>6. /\ Len(issued') = Len(issued) + Len(requests)
      /\ \A i \in 1..Len(issued) + Len(requests) :
            issued'[i] = IF i <= Len(issued) THEN issued[i] ELSE new[i - Len(issued)]
  <2>1. /\ Len(issued \o new) = Len(issued) + Len(new)
        /\ \A i \in 1..Len(issued) + Len(new) :
              (issued \o new)[i] = IF i <= Len(issued) THEN issued[i]
                                  ELSE new[i - Len(issued)]
    BY <1>1, <1>3, ConcatProperties
  <2> QED BY <1>3, <1>5, <2>1
<1>7. \A call \in 1..Len(issued) : issued'[call] = issued[call]
  BY <1>1, <1>6
<1>8. ASSUME NEW call \in 1..Len(issued'), call > Len(issued)
      PROVE  issued'[call].runs = 0 /\ issued'[call].retries = 0
  <2>1. call - Len(issued) \in 1..Len(requests) /\ issued'[call] = new[call - Len(issued)]
    BY <1>1, <1>6, <1>8
  <2> QED BY <1>4, <2>1
<1> QED
  BY <1>1, <1>6, <1>7, <1>8

(* Its calls are the ones the Agent works on next, from the first.         *)
LEMMA ReplyOpens ==
  ASSUME TypeOK, NEW requests \in Seq(Requests), NEW a \in AgentStates,
         a.calls = <<>>, a.index = 0, plan.status = "draft" => a.mode = "planning",
         ApplyReply(a, requests)
  PROVE  /\ CursorInv' /\ Settled' = Len(issued)
         /\ ~AtApproval' /\ ~AtRun' /\ ~HasBatch'
         /\ plan.status = "draft" => agent'.mode = "planning"
<1>1. /\ Len(requests) \in Nat /\ Len(issued) \in Nat
      /\ Len(issued') = Len(issued) + Len(requests)
  BY ReplyIssues
<1>2. step' = "CheckSteered" /\ input' \in {"route_tool", "await_user", "call_model"}
  BY DEF ApplyReply, GoTo
<1>3. ~AtApproval' /\ ~AtRun' /\ ~HasBatch' /\ ~AtTimer'
  BY <1>2 DEF AtApproval, AtRun, HasBatch, AtTimer
<1>4. CASE requests # <<>>
  <2> DEFINE calls == [i \in 1..Len(requests) |-> Len(issued) + i]
  <2>1. /\ agent' = [a EXCEPT !.status = "routing_tool", !.calls = calls, !.index = 0,
                           !.noProgress = 0]
        /\ input' = "route_tool"
    BY <1>4 DEF ApplyReply, GoTo
  <2>2. calls \in Seq(Nat) /\ Len(calls) = Len(requests)
    BY <1>1
  <2>3. \A i \in 1..Len(requests) : calls[i] = Len(issued) + i
    OBVIOUS
  <2> HIDE DEF calls
  <2>4. agent'.calls = calls /\ agent'.index = 0 /\ agent'.mode = a.mode
    BY <2>1 DEF AgentStates
  <2>5. AtCall' /\ Len(requests) > 0
    BY <1>1, <1>2, <1>4, <2>1, EmptySeq DEF AtCall
  <2>6. Len(agent'.calls) = Len(requests)
    BY <2>2, <2>4
  <2>7. CursorInv'
    BY <1>1, <2>3, <2>4, <2>5, <2>6 DEF CursorInv
  <2>8. Settled' = Len(issued)
    BY <1>1, <2>4, <2>6 DEF Settled
  <2> QED BY <1>3, <2>4, <2>7, <2>8
<1>5. CASE requests = <<>>
  <2>1. agent'.calls = a.calls /\ agent'.index = a.index
    BY <1>5 DEF ApplyReply, AgentStates
  <2>2. plan.status = "draft" => agent'.mode = a.mode
    BY <1>5 DEF ApplyReply, AgentStates
  <2>3. ~AtCall' /\ Len(issued') = Len(issued)
    BY <1>1, <1>2, <1>3, <1>5, EmptySeq DEF AtCall, ApplyReply, GoTo
  <2>4. CursorInv' /\ Settled' = Len(issued)
    BY <1>1, <2>1, <2>3, EmptySeq DEF CursorInv, Settled
  <2> QED BY <1>3, <2>1, <2>2, <2>4
<1> QED
  BY <1>4, <1>5

(* A model turn starts without calls; its reply issues the next ones.      *)
LEMMA ModelTurnCalls ==
  ASSUME TypeOK, RecoveryInv, CallInv, ModelTurn
  PROVE  CallInv'
<1> USE DEF movement, joining, conversation, pendings, decisionChannels
<1>1. ~AtCall
  BY DEF ModelTurn, CallModel, CompactContext, BeforeModelCall, CallModelWithHooks,
     AfterModelCall, ApplyResponse, ApplyCompaction, ModelStepExhausted, ModelSteps,
     AtCall, AtApproval, AtTimer, AtRun, HasBatch
<1>2. /\ agent.calls = <<>> /\ agent.index = 0 /\ branches = {} /\ results = {}
      /\ pendingRecovery = NoRecovery /\ (plan.status = "draft" => agent.mode = "planning")
      /\ agent \in AgentStates /\ Settled = Len(issued) /\ ~HasBatch
  BY <1>1, NoCallOpen, CallFacts DEF CallInv, ToolInv, AtCall
<1>3. /\ UNCHANGED <<branches, results, approvals, decisions, pendingRecovery, plan>>
      /\ \A s \in Statuses : /\ Status(s) \in AgentStates /\ Status(s).calls = agent.calls
                             /\ Status(s).index = agent.index /\ Status(s).mode = agent.mode
  <2>1. UNCHANGED <<branches, results, approvals, decisions, pendingRecovery, plan>>
    BY DEF ModelTurn, CallModel, CompactContext, BeforeModelCall, CallModelWithHooks,
       AfterModelCall, ApplyResponse, ApplyCompaction, ModelStepExhausted
  <2>2. ConversationType
    BY DEF TypeOK
  <2> QED BY <2>1, <2>2, StatusType, StatusFacts
<1>4. ASSUME NEW a \in AgentStates, NEW requests \in Seq(Requests), a.calls = <<>>, a.index = 0,
             a.mode = agent.mode, ApplyReply(a, requests)
      PROVE  CallInv'
  <2>1. /\ CursorInv' /\ Settled' = Len(issued) /\ ~AtApproval' /\ ~AtRun' /\ ~HasBatch'
        /\ plan.status = "draft" => agent'.mode = "planning"
    BY <1>2, <1>4, ReplyOpens
  <2>2. /\ Len(issued) \in Nat /\ Len(issued') \in Nat /\ Len(issued) <= Len(issued')
        /\ \A call \in 1..Len(issued) : issued'[call] = issued[call]
        /\ \A call \in 1..Len(issued') : call > Len(issued) =>
              issued'[call].runs = 0 /\ issued'[call].retries = 0
    BY <1>4, ReplyIssues
  <2>3. ToolInv' /\ BatchInv' /\ KnownInv'
    BY <1>2, <1>3, <2>1 DEF ToolInv, BatchInv, KnownInv, HasBatch
  <2>4. ApprovalInv'
    BY <1>2, <1>3, <2>1, <2>2 DEF CallInv, ApprovalInv, AtCall
  <2>5. RunInv'
    BY <1>2, <2>1, <2>2 DEF CallInv, RunInv, IsApproved, AtCall
  <2>6. CountInv'
    <3>1. step' # "ExecuteTool" /\ ~IsResolvable' /\ branches' = {}
          /\ pendingRecovery' = NoRecovery
      BY <1>2, <1>3, <2>1 DEF AtRun, HasBatch, IsResolvable
    <3>2. \A call \in 1..Len(issued') :
             issued'[call].runs <= MaximumAttempts * (1 + issued'[call].retries)
      <4> TAKE call \in 1..Len(issued')
      <4>1. CASE call \in 1..Len(issued)
        BY <2>2, <4>1 DEF CallInv, CountInv
      <4>2. CASE call > Len(issued)
        BY <2>2, <4>2, LimitAssumption
      <4> QED BY <2>2, <4>1, <4>2
    <3> QED BY <3>1, <3>2 DEF CountInv
  <2> QED BY <2>1, <2>3, <2>4, <2>5, <2>6 DEF CallInv
<1>5. CASE CallModel
  <2>1. PICK requests \in ModelReplies : ApplyReply(Status("calling_model"), requests)
    BY <1>5 DEF CallModel
  <2>2. requests \in Seq(Requests)
    BY ModelRepliesType
  <2> QED BY <1>2, <1>3, <1>4, <2>1, <2>2 DEF Statuses
<1>6. CASE ApplyResponse
  BY <1>2, <1>4, <1>6 DEF ApplyResponse, TypeOK, ReplyType
<1>7. CASE ~CallModel /\ ~ApplyResponse
  <2>1. /\ agent'.calls = <<>> /\ agent'.index = 0 /\ agent'.mode = agent.mode
        /\ UNCHANGED issued
    BY <1>2, <1>3, <1>7 DEF ModelTurn, CompactContext, BeforeModelCall, CallModelWithHooks,
       AfterModelCall, ApplyCompaction, ModelStepExhausted, Statuses
  <2>2. ~AtCall'
    BY <1>7 DEF ModelTurn, CompactContext, BeforeModelCall, CallModelWithHooks,
       AfterModelCall, ApplyCompaction, ModelStepExhausted, GoTo,
       AtCall, AtApproval, AtTimer, AtRun, HasBatch
  <2> QED BY <1>2, <1>3, <2>1, <2>2, CallsLeft
<1> QED
  BY <1>5, <1>6, <1>7

(* An external tool is available just outside a planning turn.             *)
LEMMA ExternalAvailable ==
  ASSUME NEW tool \in ExternalTools
  PROVE  Available(tool) <=> agent.mode # "planning"
BY ToolAssumption DEF Available, Builtins

(* While a call is routed, no later one has run or been decided.           *)
LEMMA NothingAhead ==
  ASSUME TypeOK, RecoveryInv, CallInv, ~HasBatch
  PROVE  /\ branches = {} /\ results = {} /\ pendingRecovery = NoRecovery
         /\ ~AtApproval => \A d \in approvals : d.call <= Settled
         /\ ~AtRun \/ step = "CheckSteered" =>
               \A call \in 1..Len(issued) : issued[call].runs > 0 => call <= Settled
<1>1. branches = {} /\ results = {} /\ pendingRecovery = NoRecovery
  BY RecoveryInvQuiet DEF CallInv, BatchInv, HasBatch
<1>2. ~AtApproval => \A d \in approvals : d.call <= Settled
  BY DEF CallInv, ApprovalInv
<1>3. ~AtRun \/ step = "CheckSteered" =>
         \A call \in 1..Len(issued) : issued[call].runs > 0 => call <= Settled
  BY DEF CallInv, RunInv
<1> QED
  BY <1>1, <1>2, <1>3

(* Where CheckSteered takes a call, it keeps the call.                     *)
LEMMA ContinuedCalls ==
  ASSUME TypeOK, RecoveryInv, CallInv, CheckSteeredContinue
  PROVE  CallInv'
<1> USE DEF movement, joining, conversation, pendings, decisionChannels
<1>1. /\ ~HasBatch /\ step = "CheckSteered"
      /\ UNCHANGED <<conversation, joining, approvals, decisions, pendingApproval,
                     pendingRecovery>>
  BY DEF CheckSteeredContinue, HasBatch
<1>2. /\ ~HasBatch' /\ (AtCall' <=> AtCall) /\ (AtApproval' <=> AtApproval)
      /\ (AtRun' <=> AtRun)
  <2>1. CASE \/ GoToCompactContext(history) /\ input = "compact_context"
             \/ GoToModel("response") /\ input = "call_model"
    <3>1. ~AtCall'
      BY <2>1, GoToModelLeaves DEF GoToCompactContext
    <3> QED BY <1>1, <2>1, <3>1 DEF AtCall, AtApproval, AtRun, AtTimer, HasBatch
  <2>2. CASE /\ ~(GoToCompactContext(history) /\ input = "compact_context")
             /\ ~(GoToModel("response") /\ input = "call_model")
    BY <1>1, <2>2 DEF CheckSteeredContinue, GoTo, AtCall, AtApproval, AtRun, AtTimer, HasBatch
  <2> QED BY <2>1, <2>2
<1>3. CursorInv' /\ Settled' = Settled
  BY <1>1, <1>2, CursorStays DEF CallInv
<1>4. /\ branches = {} /\ results = {} /\ pendingRecovery = NoRecovery
      /\ \A call \in 1..Len(issued) : issued[call].runs > 0 => call <= Settled
  BY <1>1, NothingAhead
<1>5. ToolInv' /\ BatchInv' /\ KnownInv'
  BY <1>1, <1>2, <1>3, <1>4 DEF CallInv, ToolInv, BatchInv, KnownInv, HasBatch
<1>6. ApprovalInv' /\ RunInv'
  BY <1>1, <1>2, <1>3, <1>4 DEF CallInv, ApprovalInv, RunInv, IsApproved
<1>7. CountInv'
  <2>1. ASSUME step' = "ExecuteTool"
        PROVE  attempt' \in 1..MaximumAttempts /\ issued[Settled + 1].runs < attempt'
    <3>1. attempt' = 1 /\ AtRun
      BY <1>1, <1>2, <2>1 DEF CheckSteeredContinue, GoTo, GoToCompactContext, GoToModel, AtRun
    <3>2. Settled \in Nat /\ Settled + 1 \in 1..Len(issued) /\ issued[Settled + 1] \in Calls
      BY <3>1, CallFacts DEF CallInv, AtCall
    <3>3. issued[Settled + 1].runs = 0
      BY <1>4, <3>2 DEF Calls
    <3> QED BY <3>1, <3>3, LimitAssumption
  <2> QED BY <1>1, <1>2, <1>3, <1>4, <2>1 DEF CallInv, CountInv, IsResolvable, HasBatch
<1> QED
  BY <1>3, <1>5, <1>6, <1>7 DEF CallInv

(* A result recorded for the call at the cursor moves it to the next call. *)
LEMMA FinishedCall ==
  ASSUME TypeOK, RecoveryInv, CallInv, AtCall, ~HasBatch, NEW a \in AgentStates,
         a.calls = agent.calls, a.index = agent.index, NEW o, FinishCurrentCall(a, o),
         Len(issued') = Len(issued), issued' \in Seq(Calls),
         \A call \in 1..Len(issued) :
            /\ issued'[call].tool = issued[call].tool
            /\ issued'[call].verdict = issued[call].verdict
            /\ issued'[call].retries = issued[call].retries
            /\ issued'[call].runs > 0 => call <= Settled + 1
            /\ \/ issued'[call].runs = issued[call].runs
               \/ /\ IsApproved(call)
                  /\ issued'[call].runs <= MaximumAttempts * (1 + issued[call].retries),
         UNCHANGED <<branches, results, decisions>>, pendingRecovery' = NoRecovery,
         approvals' \subseteq approvals, \A d \in approvals' : d.call <= Settled + 1,
         plan'.status = "draft" => a.mode = "planning"
  PROVE  CallInv' /\ Settled' = Settled + 1
<1>1. /\ agent' = Advanced(a, 1) /\ step' = "CheckSteered" /\ input' = NextContinuation(a, 1)
  BY DEF FinishCurrentCall, GoTo
<1>2. /\ Settled \in Nat /\ agent.index + 1 <= Len(agent.calls) /\ 1 \in Nat \ {0}
  BY CallFacts DEF CallInv, HasCurrentCall
<1>3. /\ CursorInv' /\ Settled' = Settled + 1 /\ agent'.mode = a.mode
      /\ ~AtApproval' /\ ~AtRun' /\ ~HasBatch'
  BY <1>1, <1>2, CursorAdvances DEF CallInv
<1>4. branches = {} /\ results = {}
  BY NothingAhead
<1> QED
  BY <1>2, <1>3, <1>4, LeaveCall

(* So does one recorded without a run.                                     *)
LEMMA SettledCall ==
  ASSUME TypeOK, RecoveryInv, CallInv, AtCall, ~HasBatch, NEW a \in AgentStates,
         a.calls = agent.calls, a.index = agent.index, NEW o, FinishCurrentCall(a, o),
         UNCHANGED <<issued, branches, results, decisions, pendingRecovery>>,
         approvals' \subseteq approvals, plan'.status = "draft" => a.mode = "planning"
  PROVE  CallInv' /\ Settled' = Settled + 1
<1>1. issued \in Seq(Calls) /\ Settled \in Nat /\ pendingRecovery' = NoRecovery
  BY CallFacts, NothingAhead DEF CallInv, TypeOK, ConversationType
<1>2. \A call \in 1..Len(issued) : issued[call].runs > 0 => call <= Settled + 1
  BY <1>1 DEF CallInv, RunInv
<1>3. \A d \in approvals : d.call \in Nat /\ d.call <= Settled + 1
  BY <1>1 DEF CallInv, ApprovalInv, TypeOK, ChannelsType
<1> QED
  BY <1>1, <1>2, <1>3, FinishedCall

(* The prefix that runs in parallel needs no approval.                     *)
LEMMA ParallelCalls ==
  ASSUME TypeOK, CallInv, step = "RouteTool", NEW n \in ParallelPrefixes
  PROVE  /\ n \in Nat \ {0} /\ agent.index + n <= Len(agent.calls)
         /\ \A i \in 1..n :
               /\ agent.calls[agent.index + i] = Settled + i /\ Settled + i \in 1..Len(issued)
               /\ Available(ToolOf(Settled + i))
               /\ ToolOf(Settled + i) \in ExternalTools \ NeedsApproval
<1>1. /\ n \in Nat \ {0} /\ agent.index + n <= Len(agent.calls)
      /\ \A i \in 1..n : IsParallel(agent.calls[agent.index + i])
  BY LimitAssumption DEF ParallelPrefixes
<1>2. /\ agent.index \in Nat /\ Len(agent.calls) \in Nat /\ Len(issued) \in Nat
      /\ Len(agent.calls) <= Len(issued)
      /\ \A i \in 1..Len(agent.calls) : agent.calls[i] = Len(issued) - Len(agent.calls) + i
  BY CallFacts DEF CallInv, CursorInv
<1>3. ASSUME NEW i \in 1..n
      PROVE  agent.calls[agent.index + i] = Settled + i /\ Settled + i \in 1..Len(issued)
  <2>1. agent.index + i \in 1..Len(agent.calls)
    BY <1>1, <1>2
  <2>2. agent.calls[agent.index + i] = Len(issued) - Len(agent.calls) + (agent.index + i)
    BY <1>2, <2>1
  <2> QED BY <1>1, <1>2, <2>1, <2>2, SMTT(20) DEF Settled
<1>4. ASSUME NEW i \in 1..n
      PROVE  /\ Available(ToolOf(Settled + i))
             /\ ToolOf(Settled + i) \in ExternalTools \ NeedsApproval
  <2>1. IsParallel(Settled + i)
    BY <1>1, <1>3
  <2> QED BY <2>1, ToolAssumption DEF IsParallel
<1> QED
  BY <1>1, <1>3, <1>4

(* RouteTool refuses, settles, decides, batches or starts the call.        *)
LEMMA RoutedCalls ==
  ASSUME TypeOK, TypeOK', RecoveryInv, CallInv, Routed
  PROVE  CallInv'
<1> USE DEF movement, joining, conversation, pendings, decisionChannels
<1>1. ~HasBatch /\ step \in {"CheckSteered", "RouteTool"}
  BY DEF Routed, CheckSteeredSteer, CheckSteeredContinue, RouteRefused, Routes,
     RouteWriteTodos, RouteDurableWait, RouteRequestUserInput, RouteParallel, RouteSerial,
     HasBatch
<1>2. /\ branches = {} /\ results = {} /\ pendingRecovery = NoRecovery
      /\ ~AtApproval => \A d \in approvals : d.call <= Settled
      /\ \A call \in 1..Len(issued) : issued[call].runs > 0 => call <= Settled
  BY <1>1, NothingAhead DEF AtRun
<1>3. /\ agent \in AgentStates /\ issued \in Seq(Calls) /\ Len(issued) \in Nat
      /\ Settled \in Nat /\ (plan.status = "draft" => agent.mode = "planning")
      /\ \A call \in 1..Len(issued) : issued[call] \in Calls
      /\ issued' \in Seq(Calls) /\ agent' \in AgentStates
  BY CallFacts DEF CallInv, ToolInv, TypeOK, ConversationType
<1>4. /\ Routing \in AgentStates /\ Routing.calls = agent.calls
      /\ Routing.index = agent.index /\ Routing.mode = agent.mode
  <2>1. ConversationType /\ "routing_tool" \in Statuses
    BY DEF TypeOK, Statuses
  <2> QED BY <2>1, StatusType, StatusFacts DEF Routing
<1>5. ASSUME step = "RouteTool"
      PROVE  /\ AtCall /\ ~AtApproval /\ ~AtRun /\ ~AtTimer
             /\ \A d \in approvals : d.call <= Settled
             /\ CurrentCall = Settled + 1 /\ Settled + 1 \in 1..Len(issued)
             /\ issued[Settled + 1].runs = 0 /\ issued[Settled + 1].retries \in Nat
  <2>1. AtCall /\ ~AtApproval /\ ~AtRun /\ ~AtTimer
    BY <1>5 DEF AtCall, AtApproval, AtRun, AtTimer
  <2>2. CurrentCall = Settled + 1 /\ Settled + 1 \in 1..Len(issued)
    BY <2>1, CallFacts DEF CallInv
  <2>3. issued[Settled + 1].runs \in Nat /\ issued[Settled + 1].retries \in Nat
    BY <1>3, <2>2 DEF Calls
  <2> QED BY <1>2, <1>3, <2>1, <2>2, <2>3
<1>6. CASE CheckSteeredSteer
  <2>1. ~AtCall'
    BY <1>6, GoToModelLeaves DEF CheckSteeredSteer, GoToCompactContext
  <2>2. BeginSteeredTurn(steered, agent, history)
        /\ UNCHANGED <<joining, plan, issued, approvals, decisions>>
    BY <1>6 DEF CheckSteeredSteer
  <2>3. /\ agent'.calls = <<>> /\ agent'.index = 0 /\ pendingRecovery' = NoRecovery
        /\ plan.status = "draft" => agent'.mode = "planning"
    BY <1>3, <2>2, SteeredTurnFacts
  <2> QED BY <1>2, <2>1, <2>2, <2>3, CallsLeft
<1>7. CASE CheckSteeredContinue
  BY <1>7, ContinuedCalls
<1>8. CASE RouteRefused
  <2>1. PICK a : /\ a \in AgentStates /\ a.calls = agent.calls /\ a.index = agent.index
                 /\ a.mode = agent.mode /\ FinishCurrentCall(a, "refused")
    <3>1. /\ [Routing EXCEPT !.requiresWrite = FALSE, !.allowsWrite = TRUE] \in AgentStates
          /\ [Routing EXCEPT !.requiresWrite = FALSE, !.allowsWrite = TRUE].calls = agent.calls
          /\ [Routing EXCEPT !.requiresWrite = FALSE, !.allowsWrite = TRUE].index = agent.index
          /\ [Routing EXCEPT !.requiresWrite = FALSE, !.allowsWrite = TRUE].mode = agent.mode
      BY <1>4, PlanWriteType DEF AgentStates
    <3>2. \/ FinishCurrentCall(Routing, "refused")
          \/ FinishCurrentCall([Routing EXCEPT !.requiresWrite = FALSE, !.allowsWrite = TRUE],
                               "refused")
      BY <1>8 DEF RouteRefused
    <3> QED BY <1>4, <3>1, <3>2
  <2>2. /\ step = "RouteTool"
        /\ UNCHANGED <<joining, plan, issued, approvals, decisions, pendingRecovery>>
    BY <1>8 DEF RouteRefused
  <2> QED BY <1>1, <1>3, <1>5, <2>1, <2>2, SettledCall
<1>9. CASE RouteWriteTodos
  <2> DEFINE a == [Routing EXCEPT !.planRevision = @ + 1, !.requiresWrite = FALSE,
                              !.allowsWrite = FALSE, !.execution = 0, !.noProgress = 0]
  <2>1. /\ a \in AgentStates /\ a.calls = agent.calls /\ a.index = agent.index
        /\ a.mode = agent.mode
    BY <1>4, PlanWriteType DEF AgentStates
  <2>2. /\ FinishCurrentCall(a, "succeeded") /\ step = "RouteTool"
        /\ UNCHANGED <<joining, issued, approvals, decisions, pendingRecovery>>
        /\ plan'.status = "draft" => agent.mode = "planning"
    BY <1>9 DEF RouteWriteTodos, Routes, NoPlan
  <2> HIDE DEF a
  <2> QED BY <1>1, <1>3, <1>5, <2>1, <2>2, SettledCall
<1>10. CASE RouteDurableWait
  <2>1. /\ step = "RouteTool" /\ step' = "CheckSteered" /\ input' = "durable_wait"
        /\ agent' = Routing
        /\ UNCHANGED <<joining, plan, issued, approvals, decisions, pendingRecovery>>
    BY <1>10 DEF RouteDurableWait, Routes, GoTo
  <2>2. AtCall' /\ ~AtApproval' /\ ~AtRun' /\ ~HasBatch'
    BY <2>1 DEF AtCall, AtApproval, AtRun, AtTimer, HasBatch
  <2>3. CursorInv' /\ Settled' = Settled
    BY <1>4, <1>5, <2>1, <2>2, CursorStays DEF CallInv
  <2> QED BY <1>2, <1>3, <1>4, <1>5, <2>1, <2>2, <2>3, LeaveCall
<1>11. CASE RouteRequestUserInput
  <2>1. /\ ~AtCall' /\ UNCHANGED <<joining, plan, issued, approvals, decisions, pendingRecovery>>
        /\ agent' = WithCallsCleared(Routing)
    BY <1>11 DEF RouteRequestUserInput, GoTo, AtCall, AtApproval, AtRun, AtTimer, HasBatch
  <2>2. agent'.calls = <<>> /\ agent'.index = 0 /\ agent'.mode = agent.mode
    BY <1>4, <2>1 DEF WithCallsCleared, AgentStates
  <2> QED BY <1>2, <1>3, <2>1, <2>2, CallsLeft
<1>12. CASE RouteParallel
  <2>1. PICK n \in ParallelPrefixes :
           /\ batch'.first = agent.index
           /\ batch'.records = [i \in 1..n |->
                 LET call == agent.calls[agent.index + i]
                 IN  [call |-> call, outcome |-> "none",
                      manual |-> ToolOf(call) \in ManualRecoveryTools]]
           /\ branches' = {Branch(i) : i \in 1..n}
    BY <1>12 DEF RouteParallel
  <2>2. /\ step = "RouteTool" /\ step' = "AwaitParallelToolResults"
        /\ agent' = Status("executing_tool")
        /\ UNCHANGED <<results, plan, issued, approvals, decisions, pendingRecovery,
                       pendingApproval>>
    BY <1>12 DEF RouteParallel, GoTo
  <2>3. /\ n \in Nat \ {0} /\ agent.index + n <= Len(agent.calls)
        /\ \A i \in 1..n :
              /\ agent.calls[agent.index + i] = Settled + i /\ Settled + i \in 1..Len(issued)
              /\ Available(ToolOf(Settled + i))
              /\ ToolOf(Settled + i) \in ExternalTools \ NeedsApproval
    BY <2>2, ParallelCalls
  <2>4. /\ BatchSize' = n
        /\ \A i \in 1..n : /\ batch'.records[i].call = Settled + i
                          /\ batch'.records[i].outcome = "none"
    <3>1. Len(batch'.records) = n
      BY <2>1, <2>3, LenProperties
    <3> QED BY <2>1, <2>3, <3>1 DEF BatchSize
  <2>5. /\ agent'.calls = agent.calls /\ agent'.index = agent.index
        /\ agent'.mode = agent.mode
    BY <2>2, StatusFacts
  <2>6. AtCall' /\ ~AtApproval' /\ ~AtRun' /\ HasBatch' /\ ~IsResolvable'
    BY <2>2 DEF AtCall, AtApproval, AtRun, HasBatch, IsResolvable
  <2>7. CursorInv' /\ Settled' = Settled
    BY <1>5, <2>2, <2>5, <2>6, CursorStays DEF CallInv
  <2>8. agent.mode # "planning"
    <3>1. 1 \in 1..n
      BY <2>3
    <3> QED BY <2>3, <3>1, ExternalAvailable
  <2>9. ToolInv'
    BY <1>3, <2>2, <2>3, <2>4, <2>5, <2>6, <2>7, <2>8 DEF ToolInv, ToolOf
  <2>10. BatchInv'
    <3>1. Unfinished' = 1..n
      BY <2>4 DEF Unfinished
    <3>2. \A b \in branches' : b.record \in 1..n /\ b = Branch(b.record)
      BY <2>1 DEF Branch
    <3>3. \A i \in 1..n : Branch(i) \in branches' /\ Branch(i).record = i
      BY <2>1 DEF Branch
    <3>4. {b.record : b \in branches'} = 1..n
      BY <3>2, <3>3
    <3>5. results' = {}
      BY <1>2, <2>2
    <3> QED BY <2>1, <2>2, <2>3, <2>4, <2>5, <2>6, <2>7, <3>1, <3>2, <3>4, <3>5 DEF BatchInv
  <2>11. ApprovalInv'
    BY <1>5, <2>2, <2>6, <2>7 DEF CallInv, ApprovalInv
  <2>12. RunInv'
    BY <1>2, <2>2, <2>3, <2>4, <2>6, <2>7 DEF CallInv, RunInv, IsApproved, ToolOf
  <2>13. KnownInv'
    BY <1>2, <2>2, <2>4, <2>6 DEF KnownInv
  <2>14. CountInv'
    <3>1. \A b \in branches' : b.attempt = 1 /\ b.record \in 1..n
      BY <2>1 DEF Branch
    <3>2. \A i \in 1..n :
             issued[Settled + i].runs < MaximumAttempts * issued[Settled + i].retries + 1
      <4> TAKE i \in 1..n
      <4>1. Settled + i \in 1..Len(issued) /\ issued[Settled + i] \in Calls
        BY <1>3, <2>3
      <4>2. issued[Settled + i].runs = 0 /\ issued[Settled + i].retries \in Nat
        <5>1. issued[Settled + i].retries \in Nat
          BY <4>1 DEF Calls
        <5>2. issued[Settled + i].runs = 0
          <6>1. issued[Settled + i].runs \in Nat
            BY <4>1 DEF Calls
          <6>2. Settled \in Nat /\ i \in Nat /\ i > 0
            BY <1>3, <2>3
          <6>3. ~(Settled + i <= Settled)
            BY <6>2
          <6>4. ~(issued[Settled + i].runs > 0)
            BY <1>2, <4>1, <6>3
          <6> QED BY <6>1, <6>4
        <5> QED BY <5>1, <5>2
      <4>3. PICK p \in Nat : p = MaximumAttempts * issued[Settled + i].retries
        BY <4>2, LimitAssumption, OneMoreRetry
      <4> QED BY <4>2, <4>3
    <3>3. \A call \in 1..Len(issued) :
             issued[call].runs <= MaximumAttempts * (1 + issued[call].retries)
      BY DEF CallInv, CountInv
    <3>4. pendingRecovery' = NoRecovery /\ step' # "ExecuteTool"
      BY <1>2, <2>2
    <3> QED BY <2>2, <2>6, <2>7, <3>1, <3>2, <3>3, <3>4, LimitAssumption DEF CountInv
  <2> QED BY <2>7, <2>9, <2>10, <2>11, <2>12, <2>13, <2>14 DEF CallInv
<1>13. CASE RouteSerial
  <2>1. /\ step = "RouteTool" /\ step' = "CheckSteered" /\ agent' = Routing
        /\ CurrentTool \in ExternalTools /\ Available(CurrentTool)
        /\ UNCHANGED <<joining, plan, issued, approvals, decisions, pendingRecovery>>
        /\ \/ input' = "await_tool_approval" /\ pendingApproval' = CurrentCall
           \/ input' = "execute_tool" /\ CurrentTool \notin NeedsApproval
    BY <1>13 DEF RouteSerial, GoTo
  <2>2. /\ agent.mode # "planning" /\ issued[Settled + 1].tool \in ExternalTools
        /\ input' = "execute_tool" => IsApproved(Settled + 1)
    BY <1>5, <2>1, ExternalAvailable DEF CurrentTool, ToolOf, IsApproved
  <2>3. AtCall' /\ ~HasBatch' /\ (AtRun' => input' = "execute_tool")
        /\ (AtApproval' => input' = "await_tool_approval")
    BY <2>1 DEF AtCall, AtApproval, AtRun, AtTimer, HasBatch
  <2>4. CursorInv' /\ Settled' = Settled
    BY <1>4, <1>5, <2>1, <2>3, CursorStays DEF CallInv
  <2>5. ToolInv' /\ BatchInv' /\ KnownInv'
    BY <1>2, <1>3, <1>4, <2>1, <2>2, <2>3, <2>4
       DEF CallInv, ToolInv, BatchInv, KnownInv, HasBatch
  <2>6. ApprovalInv'
    BY <1>5, <2>1, <2>3, <2>4 DEF CallInv, ApprovalInv
  <2>7. RunInv'
    BY <1>2, <2>1, <2>2, <2>3, <2>4 DEF CallInv, RunInv, IsApproved
  <2>8. CountInv'
    BY <1>2, <2>1, <2>3, <2>4 DEF CallInv, CountInv, IsResolvable, HasBatch
  <2> QED BY <2>4, <2>5, <2>6, <2>7, <2>8 DEF CallInv
<1> QED
  BY <1>6, <1>7, <1>8, <1>9, <1>10, <1>11, <1>12, <1>13 DEF Routed

(* What ends an approval or a timer settles its call or lets it run.       *)
LEMMA ToolWaitCalls ==
  ASSUME TypeOK, TypeOK', RecoveryInv, CallInv, ToolWait
  PROVE  CallInv'
<1> USE DEF movement, joining, conversation, pendings, decisionChannels
<1>1. ~HasBatch /\ step \in {"AwaitToolApproval", "DurableWait"}
  BY DEF ToolWait, AwaitToolApprovalWaitFor, AwaitToolApprovalSteered,
     AwaitToolApprovalExecute, DurableWaitWaitFor, DurableWaitSteered, DurableWaitFires,
     SteerWaiting, HasBatch
<1>2. /\ AtCall /\ ~AtRun /\ branches = {} /\ results = {} /\ pendingRecovery = NoRecovery
      /\ \A call \in 1..Len(issued) : issued[call].runs > 0 => call <= Settled
      /\ CurrentCall = Settled + 1 /\ Settled + 1 \in 1..Len(issued) /\ Settled \in Nat
      /\ agent \in AgentStates /\ (plan.status = "draft" => agent.mode = "planning")
  <2>1. AtCall /\ ~AtRun
    BY <1>1 DEF AtCall, AtRun, AtApproval, AtTimer
  <2> QED BY <1>1, <2>1, NothingAhead, CallFacts DEF CallInv, ToolInv
<1>3. CASE AwaitToolApprovalWaitFor \/ DurableWaitWaitFor
  <2>1. /\ agent'.calls = agent.calls /\ agent'.index = agent.index
        /\ agent'.mode = agent.mode
    BY <1>3, StatusFacts DEF AwaitToolApprovalWaitFor, DurableWaitWaitFor
  <2> QED
    BY <1>3, <2>1, CallUnchanged DEF AwaitToolApprovalWaitFor, DurableWaitWaitFor, IsResolvable
<1>4. CASE AwaitToolApprovalSteered \/ DurableWaitSteered
  <2>1. /\ ~AtCall' /\ UNCHANGED <<joining, plan, issued, approvals, decisions>>
    BY <1>4 DEF AwaitToolApprovalSteered, DurableWaitSteered, SteerWaiting, GoTo,
       AtCall, AtRun, AtApproval, AtTimer, HasBatch
  <2>2. PICK a, h : a \in AgentStates /\ BeginSteeredTurn(steered, a, h)
    BY <1>2, <1>4, WithCallsClearedType
       DEF AwaitToolApprovalSteered, DurableWaitSteered, SteerWaiting
  <2>3. /\ agent'.calls = <<>> /\ agent'.index = 0 /\ pendingRecovery' = NoRecovery
        /\ plan.status = "draft" => agent'.mode = "planning"
    BY <2>2, SteeredTurnFacts
  <2> QED BY <1>2, <2>1, <2>3, CallsLeft
<1>5. CASE DurableWaitFires
  <2>1. /\ FinishCurrentCall(agent, "succeeded")
        /\ UNCHANGED <<joining, plan, issued, approvals, decisions, pendingRecovery>>
    BY <1>5 DEF DurableWaitFires
  <2> QED BY <1>1, <1>2, <2>1, SettledCall
<1>6. CASE AwaitToolApprovalExecute
  <2>1. PICK decision \in approvals :
           /\ decision.call = Settled + 1 /\ approvals' = approvals \ {decision}
           /\ IF decision.approved
              THEN GoTo("CheckSteered", "execute_tool") /\ UNCHANGED <<agent, history>>
              ELSE FinishCurrentCall(agent, "rejected")
    BY <1>2, <1>6 DEF AwaitToolApprovalExecute
  <2>2. UNCHANGED <<joining, plan, issued, decisions, pendingRecovery>>
    BY <1>6 DEF AwaitToolApprovalExecute
  <2>3. CASE ~decision.approved
    BY <1>1, <1>2, <2>1, <2>2, <2>3, SettledCall
  <2>4. CASE decision.approved
    <3>1. step' = "CheckSteered" /\ input' = "execute_tool" /\ UNCHANGED agent
      BY <2>1, <2>4 DEF GoTo
    <3>2. AtCall' /\ AtRun' /\ ~AtApproval' /\ ~HasBatch' /\ AtApproval
      BY <1>6, <3>1 DEF AwaitToolApprovalExecute, AtCall, AtRun, AtApproval, HasBatch
    <3>3. CursorInv' /\ Settled' = Settled
      BY <1>2, <2>2, <3>1, <3>2, CursorStays DEF CallInv
    <3>4. ToolInv' /\ BatchInv' /\ KnownInv'
      BY <1>1, <1>2, <2>2, <3>1, <3>2, <3>3 DEF CallInv, ToolInv, BatchInv, KnownInv, HasBatch
    <3>5. \A d \in approvals' : d \in approvals /\ d.call # Settled + 1
      BY <2>1 DEF CallInv, ApprovalInv
    <3>6. ApprovalInv'
      BY <2>2, <3>2, <3>3, <3>5 DEF CallInv, ApprovalInv
    <3>7. IsApproved(Settled + 1)
      BY <2>1, <2>4 DEF CallInv, ApprovalInv, IsApproved
    <3>8. RunInv'
      BY <1>2, <2>2, <3>2, <3>3, <3>7 DEF CallInv, RunInv, IsApproved
    <3>9. CountInv'
      BY <1>2, <2>2, <3>1, <3>2, <3>3 DEF CallInv, CountInv, IsResolvable
    <3> QED BY <3>3, <3>4, <3>6, <3>8, <3>9 DEF CallInv
  <2> QED BY <2>3, <2>4
<1> QED
  BY <1>3, <1>4, <1>5, <1>6 DEF ToolWait

(* An invocation counts for its call only.                                 *)
LEMMA RanFacts ==
  ASSUME TypeOK, NEW c \in 1..Len(issued), NEW count \in Nat, issued' = Ran(c, count)
  PROVE  /\ Len(issued') = Len(issued) /\ issued' \in Seq(Calls)
         /\ issued[c].runs \in Nat /\ issued'[c].runs = issued[c].runs + count
         /\ issued[c].retries \in Nat
         /\ \A call \in 1..Len(issued) :
               /\ issued'[call].tool = issued[call].tool
               /\ issued'[call].verdict = issued[call].verdict
               /\ issued'[call].retries = issued[call].retries
               /\ call # c => issued'[call].runs = issued[call].runs
<1>1. /\ issued \in Seq(Calls) /\ Len(issued) \in Nat /\ DOMAIN issued = 1..Len(issued)
      /\ \A call \in 1..Len(issued) : issued[call] \in Calls
  BY LenProperties, ElementOfSeq DEF TypeOK, ConversationType
<1>2. issued' \in Seq(Calls)
  BY RanType DEF TypeOK
<1>3. DOMAIN issued' = DOMAIN issued
  BY <1>1 DEF Ran
<1>4. Len(issued') = Len(issued)
  BY <1>1, <1>2, <1>3, LenProperties
<1>5. /\ issued'[c] = [issued[c] EXCEPT !.runs = @ + count]
      /\ \A call \in 1..Len(issued) : call # c => issued'[call] = issued[call]
  BY <1>1 DEF Ran
<1> QED
  BY <1>1, <1>2, <1>4, <1>5, ZenonT(30) DEF Calls

(* An invocation within the attempts of one execution stays in the bound.  *)
LEMMA AttemptsInBound ==
  ASSUME NEW m \in Nat, NEW r \in Nat, NEW runs \in Nat, NEW a \in 1..m,
         runs < m * r + a
  PROVE  runs + 1 <= m * (1 + r) /\ runs + 0 <= m * (1 + r)
<1>1. m * r \in Nat /\ m * (1 + r) = m * r + m
  BY OneMoreRetry
<1> QED
  BY <1>1

(* The attempt after a failed one may run the tool once more.              *)
LEMMA NextAttempt ==
  ASSUME NEW p \in Nat, NEW runs \in Nat, NEW a \in Nat, NEW more \in Nat,
         runs < p + a, more <= runs + 1
  PROVE  more < p + (a + 1)
OBVIOUS

(* The serial executions of the call at the cursor.                        *)
LEMMA SerialRunCalls ==
  ASSUME TypeOK, TypeOK', RecoveryInv, CallInv, step = "ExecuteTool",
         ExecuteToolReturns \/ ExecuteToolAttemptFails
  PROVE  CallInv'
<1> USE DEF movement, joining, conversation, pendings, decisionChannels
<1> DEFINE c == Settled + 1
<1>1. /\ ~HasBatch /\ AtCall /\ AtRun /\ ~AtApproval
      /\ branches = {} /\ results = {} /\ pendingRecovery = NoRecovery
      /\ \A d \in approvals : d.call <= Settled
      /\ CurrentCall = c /\ c \in 1..Len(issued) /\ Settled \in Nat
      /\ agent \in AgentStates /\ (plan.status = "draft" => agent.mode = "planning")
  <2>1. ~HasBatch /\ AtCall /\ AtRun /\ ~AtApproval
    BY DEF HasBatch, AtCall, AtRun, AtApproval
  <2> QED BY <2>1, NothingAhead, CallFacts DEF CallInv, ToolInv
<1>2. PICK count \in {0, 1} : issued' = Ran(c, count)
  BY <1>1 DEF ExecuteToolReturns, ExecuteToolAttemptFails
<1>3. /\ Len(issued') = Len(issued) /\ issued' \in Seq(Calls)
      /\ issued[c].runs \in Nat /\ issued'[c].runs = issued[c].runs + count
      /\ issued[c].retries \in Nat
      /\ \A call \in 1..Len(issued) :
            /\ issued'[call].tool = issued[call].tool
            /\ issued'[call].verdict = issued[call].verdict
            /\ issued'[call].retries = issued[call].retries
            /\ call # c => issued'[call].runs = issued[call].runs
  <2>1. count \in Nat
    BY <1>2
  <2> QED BY <1>1, <1>2, <2>1, RanFacts
<1>4. /\ attempt \in 1..MaximumAttempts /\ issued[c].runs < attempt
      /\ issued'[c].runs <= MaximumAttempts * (1 + issued[c].retries)
      /\ issued'[c].runs <= attempt
  <2>1. attempt \in 1..MaximumAttempts /\ issued[c].runs < attempt
    BY DEF CallInv, CountInv
  <2>2. MaximumAttempts \in Nat /\ MaximumAttempts * issued[c].retries \in Nat
    BY <1>3, LimitAssumption, OneMoreRetry
  <2>3. issued[c].runs < MaximumAttempts * issued[c].retries + attempt
    BY <1>3, <2>1, <2>2, SMTT(20)
  <2>4. /\ issued[c].runs + 1 <= MaximumAttempts * (1 + issued[c].retries)
        /\ issued[c].runs + 0 <= MaximumAttempts * (1 + issued[c].retries)
    BY <1>3, <2>1, <2>2, <2>3, AttemptsInBound
  <2> QED BY <1>2, <1>3, <2>1, <2>4
<1>5. IsApproved(c) /\ \A call \in 1..Len(issued) :
         issued[call].runs > 0 => call <= Settled \/ call = c
  BY <1>1 DEF CallInv, RunInv
<1>6. UNCHANGED <<joining, plan, approvals, decisions, pendingRecovery>>
  BY DEF ExecuteToolReturns, ExecuteToolAttemptFails
<1> HIDE DEF c
<1>7. ASSUME NEW outcome \in {"succeeded", "failed"},
             FinishCurrentCall(Status("executing_tool"), outcome)
      PROVE  CallInv'
  <2> DEFINE a == Status("executing_tool")
  <2>1. /\ a \in AgentStates /\ a.calls = agent.calls /\ a.index = agent.index
        /\ a.mode = agent.mode
    <3>1. ConversationType /\ "executing_tool" \in Statuses
      BY DEF TypeOK, Statuses
    <3> QED BY <3>1, StatusType, StatusFacts
  <2>2. FinishCurrentCall(a, outcome)
    BY <1>7
  <2> HIDE DEF a
  <2>3. \A call \in 1..Len(issued) :
            /\ issued'[call].tool = issued[call].tool
            /\ issued'[call].verdict = issued[call].verdict
            /\ issued'[call].retries = issued[call].retries
            /\ issued'[call].runs > 0 => call <= Settled + 1
            /\ \/ issued'[call].runs = issued[call].runs
               \/ /\ IsApproved(call)
                  /\ issued'[call].runs <= MaximumAttempts * (1 + issued[call].retries)
    BY <1>1, <1>3, <1>4, <1>5 DEF c
  <2>4. \A d \in approvals' : d.call <= Settled + 1
    BY <1>1, <1>6 DEF CallInv, ApprovalInv
  <2> QED BY <1>1, <1>3, <1>6, <2>1, <2>2, <2>3, <2>4, FinishedCall
<1>8. ASSUME step' \in {"ExecuteTool", "RecoverToolExecution", "PrepareManualToolRecovery"},
             step' = "ExecuteTool" => attempt' = attempt + 1 /\ attempt' <= MaximumAttempts,
             agent'.calls = agent.calls, agent'.index = agent.index, agent'.mode = agent.mode
      PROVE  CallInv'
  <2>1. AtCall' /\ AtRun' /\ ~AtApproval' /\ ~HasBatch' /\ step' # "CheckSteered"
    BY <1>8 DEF AtCall, AtRun, AtApproval, HasBatch
  <2>2. CursorInv' /\ Settled' = Settled
    BY <1>1, <1>3, <1>8, <2>1, CursorStays DEF CallInv
  <2>3. ToolInv' /\ BatchInv' /\ KnownInv'
    BY <1>1, <1>3, <1>6, <1>8, <2>1, <2>2
       DEF CallInv, ToolInv, BatchInv, KnownInv, HasBatch, c
  <2>4. ApprovalInv'
    BY <1>1, <1>3, <1>6, <2>1, <2>2 DEF CallInv, ApprovalInv
  <2>5. RunInv'
    BY <1>1, <1>3, <1>5, <1>6, <2>1, <2>2 DEF CallInv, RunInv, IsApproved, c
  <2>6. CountInv'
    <3>1. \A call \in 1..Len(issued) :
             issued'[call].runs <= MaximumAttempts * (1 + issued'[call].retries)
      BY <1>3, <1>4 DEF CallInv, CountInv
    <3>2. step' = "ExecuteTool" => /\ attempt' \in 1..MaximumAttempts
                                   /\ issued'[c].runs < attempt'
      BY <1>3, <1>4, <1>8, LimitAssumption
    <3> QED BY <1>1, <1>3, <1>6, <2>1, <2>2, <3>1, <3>2
         DEF CountInv, IsResolvable, HasBatch, c
  <2> QED BY <2>2, <2>3, <2>4, <2>5, <2>6 DEF CallInv
<1>9. CASE ExecuteToolReturns
  <2>1. CASE \E outcome \in {"succeeded", "failed"} :
                FinishCurrentCall(Status("executing_tool"), outcome)
    BY <1>7, <2>1
  <2>2. CASE /\ agent' = Status("executing_tool")
             /\ step' \in {"RecoverToolExecution", "PrepareManualToolRecovery"}
    <3>1. agent'.calls = agent.calls /\ agent'.index = agent.index /\ agent'.mode = agent.mode
      BY <2>2, StatusFacts
    <3> QED BY <1>8, <2>2, <3>1
  <2> QED BY <1>9, <2>1, <2>2 DEF ExecuteToolReturns, GoTo
<1>10. CASE ExecuteToolAttemptFails
  <2>1. /\ step' \in {"ExecuteTool", "RecoverToolExecution", "PrepareManualToolRecovery"}
        /\ UNCHANGED agent
        /\ step' = "ExecuteTool" => attempt' = attempt + 1 /\ attempt < MaximumAttempts
    BY <1>10 DEF ExecuteToolAttemptFails, GoTo
  <2> QED BY <1>4, <1>8, <2>1, LimitAssumption
<1> QED
  BY <1>9, <1>10

(* The manual recovery of a serial call is a batch of one record.          *)
LEMMA PreparedCalls ==
  ASSUME TypeOK, TypeOK', RecoveryInv, CallInv, PrepareManualToolRecovery
  PROVE  CallInv'
<1> USE DEF movement, joining, conversation, pendings, decisionChannels
<1>1. /\ ~HasBatch /\ AtCall /\ AtRun /\ ~AtApproval
      /\ branches = {} /\ results = {} /\ pendingRecovery = NoRecovery
      /\ \A d \in approvals : d.call <= Settled
      /\ CurrentCall = Settled + 1 /\ Settled + 1 \in 1..Len(issued) /\ Settled \in Nat
      /\ agent.index \in Nat /\ Len(agent.calls) \in Nat /\ agent.index < Len(agent.calls)
  <2>1. ~HasBatch /\ AtCall /\ AtRun /\ ~AtApproval
    BY DEF PrepareManualToolRecovery, HasBatch, AtCall, AtRun, AtApproval
  <2> QED BY <2>1, NothingAhead, CallFacts DEF CallInv, HasCurrentCall
<1>2. /\ step' = "AwaitManualToolRecovery" /\ phase' = "wait_for"
      /\ batch' = [sequence |-> Len(history), first |-> agent.index, revision |-> 1,
                   records |-> <<[call |-> Settled + 1, outcome |-> "unknown",
                                  manual |-> TRUE]>>]
      /\ UNCHANGED <<branches, results, agent, plan, issued, approvals, decisions,
                     pendingRecovery>>
  BY <1>1 DEF PrepareManualToolRecovery, GoTo, WaitingSteps
<1>3. /\ BatchSize' = 1 /\ batch'.first = agent.index
      /\ batch'.records[1] = [call |-> Settled + 1, outcome |-> "unknown", manual |-> TRUE]
  BY <1>2 DEF BatchSize
<1>4. AtCall' /\ ~AtRun' /\ ~AtApproval' /\ HasBatch' /\ ~IsResolvable'
  BY <1>2 DEF AtCall, AtRun, AtApproval, HasBatch, IsResolvable
<1>5. CursorInv' /\ Settled' = Settled
  BY <1>1, <1>2, <1>4, CursorStays DEF CallInv
<1>6. \A i \in 1..BatchSize' : i = 1
  BY <1>3
<1>7. ToolInv'
  BY <1>1, <1>2, <1>4, <1>5, <1>6 DEF CallInv, ToolInv
<1>8. BatchInv'
  <2>1. Unfinished' = {}
    BY <1>3, <1>6 DEF Unfinished
  <2>2. 1 \in Unresolved(batch'.records)
    BY <1>2 DEF Unresolved
  <2>3. agent.index + 1 <= Len(agent.calls)
    BY <1>1
  <2>4. \A i \in 1..BatchSize' : /\ batch'.records[i].call = Settled + i
                                /\ batch'.records[i].outcome = "unknown"
    BY <1>3, <1>6
  <2>5. branches' = {} /\ results' = {}
    BY <1>1, <1>2
  <2>6. Unresolved(batch.records)' # {}
    BY <2>2 DEF Unresolved
  <2> QED BY <1>2, <1>3, <1>4, <1>5, <2>1, <2>3, <2>4, <2>5, <2>6 DEF BatchInv
<1>9. ApprovalInv'
  BY <1>1, <1>2, <1>4, <1>5 DEF CallInv, ApprovalInv
<1>10. RunInv'
  BY <1>1, <1>2, <1>3, <1>4, <1>5, <1>6 DEF CallInv, RunInv, IsApproved
<1>11. KnownInv'
  BY <1>1, <1>2, <1>3, <1>6 DEF KnownInv
<1>12. CountInv'
  BY <1>1, <1>2, <1>4, <1>5 DEF CallInv, CountInv
<1> QED
  BY <1>5, <1>7, <1>8, <1>9, <1>10, <1>11, <1>12 DEF CallInv

(* What a branch that exists says of the batch, and of its call.           *)
LEMMA BranchFacts ==
  ASSUME TypeOK, CallInv, NEW b \in branches
  PROVE  /\ step = "AwaitParallelToolResults" /\ HasBatch /\ AtCall /\ ~AtApproval /\ ~AtRun
         /\ b.record \in Unfinished /\ b.record \in 1..BatchSize /\ BatchSize \in Nat
         /\ CallOf(b) = Settled + b.record /\ CallOf(b) \in 1..Len(issued) /\ Settled \in Nat
         /\ IsApproved(CallOf(b))
         /\ b.attempt \in Nat /\ b.record \in Nat /\ b.recovering \in BOOLEAN
         /\ ~b.recovering =>
               /\ b.attempt \in 1..MaximumAttempts
               /\ issued[CallOf(b)].runs < MaximumAttempts * issued[CallOf(b)].retries + b.attempt
<1>1. step = "AwaitParallelToolResults"
  BY DEF CallInv, BatchInv
<1>2. HasBatch /\ AtCall /\ ~AtApproval /\ ~AtRun
  BY <1>1 DEF HasBatch, AtCall, AtApproval, AtRun
<1>3. b.record \in Unfinished
  BY <1>1 DEF CallInv, BatchInv
<1>4. b.record \in 1..BatchSize
  BY <1>3 DEF Unfinished
<1>5. /\ CallOf(b) = Settled + b.record /\ CallOf(b) \in 1..Len(issued) /\ BatchSize \in Nat
  BY <1>2, <1>4, BatchFacts DEF CallOf
<1>6. IsApproved(CallOf(b))
  BY <1>2, <1>4, <1>5 DEF CallInv, RunInv
<1>7. /\ b.attempt \in Nat /\ b.record \in Nat /\ b.recovering \in BOOLEAN /\ Settled \in Nat
  BY CallFacts DEF TypeOK, JoiningType, CallInv
<1>8. ~b.recovering =>
         /\ b.attempt \in 1..MaximumAttempts
         /\ issued[CallOf(b)].runs < MaximumAttempts * issued[CallOf(b)].retries + b.attempt
  BY <1>5 DEF CallInv, CountInv
<1> QED
  BY <1>1, <1>2, <1>3, <1>4, <1>5, <1>6, <1>7, <1>8

(* A branch that reports, retries or recovers changes its own record only. *)
LEMMA BranchStepCalls ==
  ASSUME TypeOK, TypeOK', RecoveryInv, CallInv, NEW b \in branches,
         BranchReturns(b) \/ BranchAttemptFails(b) \/ BranchRecovers(b)
  PROVE  CallInv'
<1> USE DEF movement, joining, conversation, pendings, decisionChannels
<1> DEFINE c == Settled + b.record
           Goes(x) == /\ UNCHANGED results /\ branches' = (branches \ {b}) \cup {x}
                      /\ x.record = b.record
                      /\ ~x.recovering =>
                            /\ x.attempt \in 1..MaximumAttempts
                            /\ issued'[c].runs < MaximumAttempts * issued[c].retries + x.attempt
           Reports(r) == /\ branches' = branches \ {b} /\ results' = results \cup {r}
                         /\ r.record = b.record /\ r.outcome \in {"succeeded", "failed", "unknown"}
                         /\ r.outcome # "unknown" => issued'[c].runs > 0
<1>1. /\ step = "AwaitParallelToolResults" /\ HasBatch /\ AtCall /\ ~AtApproval /\ ~AtRun
      /\ b.record \in Unfinished /\ b.record \in 1..BatchSize /\ BatchSize \in Nat
      /\ CallOf(b) = c /\ c \in 1..Len(issued) /\ Settled \in Nat /\ IsApproved(c)
      /\ b.attempt \in Nat /\ b.record \in Nat /\ b.recovering \in BOOLEAN
      /\ ~b.recovering =>
            /\ b.attempt \in 1..MaximumAttempts
            /\ issued[c].runs < MaximumAttempts * issued[c].retries + b.attempt
  BY BranchFacts
<1>2. UNCHANGED <<step, phase, input, attempt, batch, agent, plan, approvals, decisions,
                  pendingApproval, pendingRecovery>>
  BY DEF BranchReturns, BranchAttemptFails, BranchRecovers
<1>3. issued[c] \in Calls /\ issued[c].runs \in Nat /\ issued[c].retries \in Nat
      /\ MaximumAttempts \in Nat \ {0} /\ MaximumAttempts * issued[c].retries \in Nat
  <2>1. issued[c] \in Calls
    BY <1>1, CallFacts DEF CallInv
  <2>2. issued[c].runs \in Nat /\ issued[c].retries \in Nat
    BY <2>1 DEF Calls
  <2>3. MaximumAttempts \in Nat \ {0}
    BY LimitAssumption
  <2> QED BY <2>1, <2>2, <2>3, OneMoreRetry
<1>4. \/ UNCHANGED issued
      \/ ~b.recovering /\ issued' = Ran(c, 1)
      \/ ~b.recovering /\ issued' = Ran(c, 0)
  BY <1>1 DEF BranchReturns, BranchAttemptFails, BranchRecovers
<1>5. /\ Len(issued') = Len(issued)
      /\ issued'[c].runs \in Nat /\ issued'[c].runs >= issued[c].runs
      /\ \A call \in 1..Len(issued) :
            /\ issued'[call].tool = issued[call].tool
            /\ issued'[call].verdict = issued[call].verdict
            /\ issued'[call].retries = issued[call].retries
            /\ call # c => issued'[call].runs = issued[call].runs
      /\ issued'[c].runs <= MaximumAttempts * (1 + issued[c].retries)
      /\ issued'[c].runs <= issued[c].runs + 1
  <2>1. issued[c].runs <= MaximumAttempts * (1 + issued[c].retries)
    BY <1>1 DEF CallInv, CountInv
  <2>2. CASE UNCHANGED issued
    BY <1>3, <2>1, <2>2
  <2> HIDE DEF c
  <2>3. ASSUME NEW count \in {0, 1}, ~b.recovering, issued' = Ran(c, count)
        PROVE  /\ Len(issued') = Len(issued)
               /\ issued'[c].runs = issued[c].runs + count
               /\ \A call \in 1..Len(issued) :
                     /\ issued'[call].tool = issued[call].tool
                     /\ issued'[call].verdict = issued[call].verdict
                     /\ issued'[call].retries = issued[call].retries
                     /\ call # c => issued'[call].runs = issued[call].runs
               /\ issued[c].runs + count <= MaximumAttempts * (1 + issued[c].retries)
    <3>1. count \in Nat
      OBVIOUS
    <3>2. /\ issued[c].runs + 1 <= MaximumAttempts * (1 + issued[c].retries)
          /\ issued[c].runs + 0 <= MaximumAttempts * (1 + issued[c].retries)
      <4>1. /\ b.attempt \in 1..MaximumAttempts /\ MaximumAttempts \in Nat
            /\ issued[c].runs < MaximumAttempts * issued[c].retries + b.attempt
        BY <1>1, <1>3, <2>3
      <4> QED BY <1>3, <4>1, AttemptsInBound
    <3>3. issued[c].runs + count <= MaximumAttempts * (1 + issued[c].retries)
      BY <3>2
    <3> QED BY <1>1, <2>3, <3>1, <3>3, RanFacts
  <2>4. CASE ~b.recovering /\ \E count \in {0, 1} : issued' = Ran(c, count)
    <3>1. PICK count \in {0, 1} : issued' = Ran(c, count)
      BY <2>4
    <3> QED BY <1>3, <2>3, <2>4, <3>1
  <2> QED BY <1>4, <2>2, <2>4
<1>6. (\E x : Goes(x)) \/ (\E r : Reports(r))
  <2>1. CASE BranchRecovers(b)
    <3>1. Reports([record |-> b.record, outcome |-> "unknown"])
      BY <2>1 DEF BranchRecovers
    <3> QED BY <3>1
  <2>2. CASE BranchReturns(b)
    <3>1. issued' = Ran(c, 1)
      BY <1>1, <2>2 DEF BranchReturns
    <3>2. issued'[c].runs > 0
      <4> HIDE DEF c
      <4> QED BY <1>1, <1>3, <3>1, RanFacts
    <3>3. \/ \E outcome \in {"succeeded", "failed"} :
                results' = results \cup {[record |-> b.record, outcome |-> outcome]}
                /\ branches' = branches \ {b}
          \/ /\ branches' = (branches \ {b}) \cup {[b EXCEPT !.recovering = TRUE]}
             /\ UNCHANGED results
      BY <2>2 DEF BranchReturns
    <3>4. b \in [record : Nat, attempt : Nat, recovering : BOOLEAN]
      BY DEF TypeOK, JoiningType
    <3>5. [b EXCEPT !.recovering = TRUE].recovering
          /\ [b EXCEPT !.recovering = TRUE].record = b.record
      BY <3>4
    <3> QED BY <3>2, <3>3, <3>5
  <2>3. CASE BranchAttemptFails(b)
    <3>1. b \in [record : Nat, attempt : Nat, recovering : BOOLEAN]
      BY DEF TypeOK, JoiningType
    <3>2. ~b.recovering /\ UNCHANGED results /\ (issued' = Ran(c, 1) \/ issued' = Ran(c, 0))
      BY <1>1, <2>3 DEF BranchAttemptFails
    <3>3. issued'[c].runs <= issued[c].runs + 1
      BY <1>5
    <3>4. CASE b.attempt < MaximumAttempts
      <4> DEFINE x == [b EXCEPT !.attempt = @ + 1]
      <4>1. /\ x.attempt = b.attempt + 1 /\ x.record = b.record
            /\ branches' = (branches \ {b}) \cup {x}
        BY <2>3, <3>1, <3>4 DEF BranchAttemptFails
      <4>2. x.attempt \in 1..MaximumAttempts
        BY <1>1, <1>3, <3>4, <4>1, SMTT(20)
      <4>3. issued'[c].runs < MaximumAttempts * issued[c].retries + x.attempt
        <5> HIDE DEF x, c
        <5>1. issued[c].runs < MaximumAttempts * issued[c].retries + b.attempt
          BY <1>1, <3>2
        <5> QED BY <1>1, <1>3, <1>5, <3>3, <4>1, <5>1, NextAttempt
      <4>4. Goes(x)
        BY <3>2, <4>1, <4>2, <4>3
      <4> QED BY <4>4
    <3>5. CASE ~(b.attempt < MaximumAttempts)
      <4>1. /\ [b EXCEPT !.recovering = TRUE].recovering
            /\ [b EXCEPT !.recovering = TRUE].record = b.record
            /\ branches' = (branches \ {b}) \cup {[b EXCEPT !.recovering = TRUE]}
        BY <2>3, <3>1, <3>5 DEF BranchAttemptFails
      <4>2. Goes([b EXCEPT !.recovering = TRUE])
        BY <3>2, <4>1
      <4> QED BY <4>2
    <3> QED BY <3>4, <3>5
  <2> QED BY <2>1, <2>2, <2>3
<1>7. /\ HasBatch' /\ AtCall' /\ ~AtApproval' /\ ~AtRun' /\ ~IsResolvable'
      /\ BatchSize' = BatchSize /\ Unfinished' = Unfinished
  BY <1>1, <1>2 DEF HasBatch, AtCall, AtApproval, AtRun, IsResolvable, BatchSize, Unfinished
<1>8. CursorInv' /\ Settled' = Settled
  BY <1>1, <1>2, <1>5, <1>7, CursorStays DEF CallInv
<1>9. /\ \A i \in 1..BatchSize : Settled + i \in 1..Len(issued)
      /\ \A d \in branches : d # b =>
            /\ d.record \in 1..BatchSize /\ d.record # b.record
            /\ Settled + d.record \in 1..Len(issued) /\ Settled + d.record # c
      /\ \A r \in results : r.record \in 1..BatchSize /\ Settled + r.record # c
  <2>1. \A i \in 1..BatchSize : Settled + i \in 1..Len(issued)
    BY <1>1, BatchFacts
  <2>2. \A d \in branches : d # b => d.record \in 1..BatchSize /\ d.record # b.record
    BY BranchFacts DEF CallInv, BatchInv
  <2>3. \A r \in results : r.record \in 1..BatchSize /\ r.record # b.record
    BY <1>1 DEF CallInv, BatchInv, Unfinished
  <2> QED BY <1>1, <2>1, <2>2, <2>3, SMTT(20)
<1> HIDE DEF c, Goes, Reports
<1>10. ToolInv'
  <2>1. \A i \in 1..BatchSize : issued'[Settled + i].tool \in ExternalTools
    BY <1>1, <1>5, <1>9 DEF CallInv, ToolInv
  <2> QED BY <1>1, <1>2, <1>7, <1>8, <2>1 DEF CallInv, ToolInv
<1>11. BatchInv'
  <2>1. /\ {d.record : d \in branches'} \cup {r.record : r \in results'} = Unfinished
        /\ \A d, e \in branches' : d.record = e.record => d = e
        /\ \A d \in branches' : \A r \in results' : d.record # r.record
        /\ \A r \in results' : r.outcome \in {"succeeded", "failed", "unknown"}
    <3>1. /\ {d.record : d \in branches} \cup {r.record : r \in results} = Unfinished
          /\ \A d, e \in branches : d.record = e.record => d = e
          /\ \A d \in branches : \A r \in results : d.record # r.record
          /\ \A r \in results : r.outcome \in {"succeeded", "failed", "unknown"}
      BY <1>1 DEF CallInv, BatchInv
    <3>2. CASE \E x : Goes(x)
      BY <3>1, <3>2 DEF Goes
    <3>3. CASE \E r : Reports(r)
      BY <3>1, <3>3 DEF Reports
    <3> QED BY <1>6, <3>2, <3>3
  <2> QED BY <1>1, <1>2, <1>7, <1>8, <2>1 DEF CallInv, BatchInv
<1>12. ApprovalInv'
  BY <1>1, <1>2, <1>5, <1>7, <1>8 DEF CallInv, ApprovalInv
<1>13. RunInv'
  <2>1. \A call \in 1..Len(issued) : issued'[call].runs > 0 =>
           IsApproved(call) /\ (call <= Settled \/ call <= Settled + BatchSize)
    BY <1>1, <1>5 DEF CallInv, RunInv, c
  <2>2. \A call \in 1..Len(issued) : IsApproved(call) => IsApproved(call)'
    BY <1>5 DEF IsApproved
  <2>3. \A i \in 1..BatchSize : IsApproved(Settled + i)'
    BY <1>1, <1>5, <1>8, <1>9 DEF CallInv, RunInv, IsApproved
  <2> QED BY <1>5, <1>7, <1>8, <2>1, <2>2, <2>3 DEF RunInv, IsApproved
<1>14. KnownInv'
  <2>1. \A i \in 1..BatchSize : batch.records[i].outcome \in {"succeeded", "failed"} =>
           issued'[Settled + i].runs > 0
    <3> TAKE i \in 1..BatchSize
    <3>1. batch.records[i].outcome \in {"succeeded", "failed"} => issued[Settled + i].runs > 0
      BY <1>1 DEF CallInv, KnownInv
    <3>2. CASE Settled + i = c
      BY <1>3, <1>5, <3>1, <3>2
    <3>3. CASE Settled + i # c
      BY <1>5, <1>9, <3>1, <3>3
    <3> QED BY <3>2, <3>3
  <2>2. \A r \in results' : r.outcome \in {"succeeded", "failed"} =>
           issued'[Settled + r.record].runs > 0
    <3>1. \A r \in results : r.outcome \in {"succeeded", "failed"} =>
             issued'[Settled + r.record].runs > 0
      BY <1>5, <1>9 DEF CallInv, KnownInv
    <3>2. CASE \E x : Goes(x)
      BY <3>1, <3>2 DEF Goes
    <3>3. CASE \E r : Reports(r)
      BY <3>1, <3>3 DEF Reports, c
    <3> QED BY <1>6, <3>2, <3>3
  <2> QED BY <1>2, <1>7, <1>8, <2>1, <2>2 DEF KnownInv
<1>15. CountInv'
  <2>1. \A call \in 1..Len(issued) :
           issued'[call].runs <= MaximumAttempts * (1 + issued'[call].retries)
    BY <1>5 DEF CallInv, CountInv
  <2>2. \A d \in branches' : ~d.recovering =>
           /\ d.attempt \in 1..MaximumAttempts
           /\ issued'[Settled + d.record].runs
                 < MaximumAttempts * issued'[Settled + d.record].retries + d.attempt
    <3>1. \A d \in branches : d # b /\ ~d.recovering =>
             /\ d.attempt \in 1..MaximumAttempts
             /\ issued'[Settled + d.record].runs
                   < MaximumAttempts * issued'[Settled + d.record].retries + d.attempt
      BY <1>5, <1>9 DEF CallInv, CountInv
    <3>2. CASE \E x : Goes(x)
      <4>1. PICK x : Goes(x)
        BY <3>2
      <4>2. ~x.recovering =>
               /\ x.attempt \in 1..MaximumAttempts
               /\ issued'[Settled + x.record].runs
                     < MaximumAttempts * issued'[Settled + x.record].retries + x.attempt
        BY <1>1, <1>5, <4>1 DEF Goes, c
      <4>3. \A d \in branches' : d = x \/ (d \in branches /\ d # b)
        BY <4>1 DEF Goes
      <4> QED BY <3>1, <4>2, <4>3
    <3>3. CASE \E r : Reports(r)
      <4>1. \A d \in branches' : d \in branches /\ d # b
        BY <3>3 DEF Reports
      <4> QED BY <3>1, <4>1
    <3> QED BY <1>6, <3>2, <3>3
  <2>3. pendingRecovery' # NoRecovery =>
           pendingRecovery'.calls = PendingCalls(batch.records)'
    BY <1>2 DEF CallInv, CountInv, PendingCalls, Unresolved
  <2>4. step' # "ExecuteTool"
    BY <1>1, <1>2
  <2> QED BY <1>5, <1>7, <1>8, <2>1, <2>2, <2>3, <2>4 DEF CountInv
<1> QED
  BY <1>8, <1>10, <1>11, <1>12, <1>13, <1>14, <1>15 DEF CallInv

(* A finished batch settles its calls.                                     *)
LEMMA FinishedBatch ==
  ASSUME TypeOK, RecoveryInv, CallInv, HasBatch, NEW records, Len(records) = BatchSize,
         FinishBatch(records), UNCHANGED <<issued, plan, approvals>>,
         decisions' \subseteq decisions,
         branches' = {}, results' = {}, pendingRecovery' = NoRecovery
  PROVE  CallInv' /\ Settled' = Settled + BatchSize
<1>1. /\ AtCall /\ ~AtApproval /\ ~AtRun
  BY DEF AtCall, AtApproval, AtRun, HasBatch
<1>2. /\ BatchSize \in Nat \ {0} /\ agent.index + BatchSize <= Len(agent.calls)
      /\ agent \in AgentStates /\ Settled \in Nat
      /\ (plan.status = "draft" => agent.mode = "planning")
  BY BatchFacts, CallFacts DEF CallInv, RecoveryInv, ToolInv
<1>3. /\ agent' = Advanced(agent, BatchSize) /\ step' = "CheckSteered"
      /\ input' = NextContinuation(agent, BatchSize)
  BY DEF FinishBatch, GoTo
<1>4. /\ CursorInv' /\ Settled' = Settled + BatchSize /\ agent'.mode = agent.mode
      /\ ~AtApproval' /\ ~AtRun' /\ ~HasBatch'
  BY <1>1, <1>2, <1>3, CursorAdvances DEF CallInv
<1>5. /\ \A call \in 1..Len(issued) : issued[call].runs > 0 => call <= Settled + BatchSize
      /\ \A d \in approvals : d.call \in Nat /\ d.call <= Settled + BatchSize
  BY <1>1, <1>2 DEF CallInv, RunInv, ApprovalInv, TypeOK, ChannelsType
<1>6. issued \in Seq(Calls)
  BY DEF TypeOK, ConversationType
<1> QED
  BY <1>2, <1>4, <1>5, <1>6, LeaveCall

(* The join completes each unfinished record by its branch's result.       *)
LEMMA JoinedFacts ==
  ASSUME TypeOK, CallInv, AwaitParallelToolResults
  PROVE  /\ branches = {} /\ Len(Joined) = BatchSize
         /\ \A i \in 1..BatchSize :
               /\ Joined[i].call = batch.records[i].call
               /\ Joined[i].outcome \in {"succeeded", "failed", "unknown"}
               /\ Joined[i].outcome \in {"succeeded", "failed"} => issued[Settled + i].runs > 0
<1>1. /\ step = "AwaitParallelToolResults" /\ HasBatch /\ {r.record : r \in results} = Unfinished
  BY DEF AwaitParallelToolResults, HasBatch
<1>2. /\ BatchSize \in Nat /\ \A i \in 1..BatchSize : batch.records[i] \in Records
  BY LenProperties, ElementOfSeq DEF TypeOK, JoiningType, Batches, BatchSize
<1>3. branches = {}
  <2> SUFFICES ASSUME NEW b \in branches
               PROVE  FALSE
    OBVIOUS
  <2>1. b.record \in {r.record : r \in results}
    BY <1>1 DEF CallInv, BatchInv
  <2> QED BY <2>1 DEF CallInv, BatchInv
<1>4. Len(Joined) = BatchSize
  <2>1. Joined \in Seq(Records)
    BY JoinedType DEF TypeOK
  <2>2. DOMAIN Joined = 1..BatchSize
    BY DEF Joined
  <2> QED BY <1>2, <2>1, <2>2, LenProperties
<1>5. ASSUME NEW i \in 1..BatchSize
      PROVE  /\ Joined[i].call = batch.records[i].call
             /\ Joined[i].outcome \in {"succeeded", "failed", "unknown"}
             /\ Joined[i].outcome \in {"succeeded", "failed"} => issued[Settled + i].runs > 0
  <2>1. CASE i \in Unfinished
    <3> DEFINE r == CHOOSE r \in results : r.record = i
    <3>1. r \in results /\ r.record = i
      BY <1>1, <2>1
    <3>2. Joined[i] = [batch.records[i] EXCEPT !.outcome = r.outcome]
      BY <2>1 DEF Joined
    <3> HIDE DEF r
    <3>3. Joined[i].call = batch.records[i].call /\ Joined[i].outcome = r.outcome
      BY <1>2, <3>2 DEF Records
    <3>4. r.outcome \in {"succeeded", "failed", "unknown"}
      BY <3>1 DEF CallInv, BatchInv
    <3>5. r.outcome \in {"succeeded", "failed"} => issued[Settled + i].runs > 0
      BY <3>1 DEF CallInv, KnownInv
    <3> QED BY <3>3, <3>4, <3>5
  <2>2. CASE i \notin Unfinished
    <3>1. Joined[i] = batch.records[i]
      BY <2>2 DEF Joined
    <3>2. batch.records[i].outcome \in {"succeeded", "failed", "unknown"}
      BY <1>1, <2>2 DEF CallInv, BatchInv, Unfinished
    <3>3. batch.records[i].outcome \in {"succeeded", "failed"} => issued[Settled + i].runs > 0
      BY <1>1 DEF CallInv, KnownInv
    <3> QED BY <3>1, <3>2, <3>3
  <2> QED BY <2>1, <2>2
<1> QED
  BY <1>3, <1>4, <1>5

(* The join goes on to the next call, or to the manual recovery.           *)
LEMMA JoinCalls ==
  ASSUME TypeOK, TypeOK', RecoveryInv, CallInv, AwaitParallelToolResults
  PROVE  CallInv'
<1> USE DEF movement, joining, conversation, pendings, decisionChannels
<1>1. /\ branches = {} /\ Len(Joined) = BatchSize /\ BatchSize \in Nat
      /\ \A i \in 1..BatchSize :
            /\ Joined[i].call = batch.records[i].call
            /\ Joined[i].outcome \in {"succeeded", "failed", "unknown"}
            /\ Joined[i].outcome \in {"succeeded", "failed"} => issued[Settled + i].runs > 0
  BY JoinedFacts, LenProperties DEF TypeOK, JoiningType, Batches, BatchSize
<1>2. /\ HasBatch /\ AtCall /\ ~AtApproval /\ ~AtRun /\ pendingRecovery = NoRecovery
      /\ results' = {} /\ branches' = {}
      /\ UNCHANGED <<plan, issued, approvals, decisions, pendingRecovery, pendingApproval>>
  BY <1>1 DEF AwaitParallelToolResults, HasBatch, AtCall, AtApproval, AtRun, RecoveryInv,
     IsResolvable
<1>3. CASE Unresolved(Joined) = {}
  <2>1. FinishBatch(Joined)
    BY <1>3 DEF AwaitParallelToolResults
  <2> QED BY <1>1, <1>2, <2>1, FinishedBatch
<1>4. CASE Unresolved(Joined) # {}
  <2>1. /\ batch' = [batch EXCEPT !.records = Joined, !.revision = IF @ = 0 THEN 1 ELSE @]
        /\ step' = "AwaitManualToolRecovery" /\ phase' = "wait_for"
        /\ UNCHANGED agent
    BY <1>4 DEF AwaitParallelToolResults, GoTo, WaitingSteps
  <2>2. /\ batch'.records = Joined /\ batch'.first = batch.first /\ BatchSize' = BatchSize
    BY <1>1, <2>1 DEF TypeOK, JoiningType, Batches, BatchSize
  <2>3. HasBatch' /\ AtCall' /\ ~AtApproval' /\ ~AtRun' /\ ~IsResolvable'
    BY <2>1 DEF HasBatch, AtCall, AtApproval, AtRun, IsResolvable
  <2>4. CursorInv' /\ Settled' = Settled
    BY <1>2, <2>1, <2>3, CursorStays DEF CallInv
  <2>5. ToolInv'
    BY <1>2, <2>1, <2>2, <2>3, <2>4 DEF CallInv, ToolInv
  <2>6. BatchInv'
    <3>1. Unfinished' = {}
      BY <1>1, <2>2 DEF Unfinished
    <3>2. Unresolved(batch.records)' # {}
      BY <1>4, <2>2 DEF Unresolved
    <3>3. \A i \in 1..BatchSize' :
             /\ batch'.records[i].call = Settled' + i
             /\ batch'.records[i].outcome \in {"none", "succeeded", "failed", "unknown"}
      BY <1>1, <1>2, <2>2, <2>4 DEF CallInv, BatchInv
    <3>4. batch'.first = agent'.index /\ agent'.index + BatchSize' <= Len(agent'.calls)
      BY <1>2, <2>1, <2>2 DEF CallInv, BatchInv
    <3> QED BY <1>2, <2>1, <2>3, <3>1, <3>2, <3>3, <3>4 DEF BatchInv
  <2>7. ApprovalInv'
    BY <1>2, <2>3, <2>4 DEF CallInv, ApprovalInv
  <2>8. RunInv'
    BY <1>2, <2>2, <2>3, <2>4 DEF CallInv, RunInv, IsApproved
  <2>9. KnownInv'
    BY <1>1, <1>2, <2>2, <2>4 DEF KnownInv
  <2>10. CountInv'
    BY <1>2, <2>1, <2>3, <2>4 DEF CallInv, CountInv
  <2> QED BY <2>4, <2>5, <2>6, <2>7, <2>8, <2>9, <2>10 DEF CallInv
<1> QED
  BY <1>3, <1>4

(* Executions, branches and their join.                                    *)
LEMMA ToolRunCalls ==
  ASSUME TypeOK, TypeOK', RecoveryInv, CallInv, ToolRun
  PROVE  CallInv'
<1>1. CASE ExecuteToolReturns \/ ExecuteToolAttemptFails
  BY <1>1, SerialRunCalls DEF ExecuteToolReturns, ExecuteToolAttemptFails
<1>2. CASE RecoverToolExecution
  <2>1. /\ AtCall /\ ~HasBatch /\ FinishCurrentCall(agent, "unknown")
        /\ UNCHANGED <<issued, branches, results, decisions, pendingRecovery, approvals, plan>>
    BY <1>2 DEF RecoverToolExecution, joining, pendings, decisionChannels, AtCall, AtRun,
       HasBatch
  <2>2. agent \in AgentStates /\ (plan.status = "draft" => agent.mode = "planning")
    BY DEF TypeOK, ConversationType, CallInv, ToolInv
  <2> QED BY <2>1, <2>2, SettledCall
<1>3. CASE PrepareManualToolRecovery
  BY <1>3, PreparedCalls
<1>4. CASE \E b \in branches : BranchReturns(b) \/ BranchAttemptFails(b) \/ BranchRecovers(b)
  BY <1>4, BranchStepCalls
<1>5. CASE AwaitParallelToolResults
  BY <1>5, JoinCalls
<1> QED
  BY <1>1, <1>2, <1>3, <1>4, <1>5 DEF ToolRun

(* A retried record runs again; each other one keeps its unknown outcome.  *)
LEMMA ResumedCalls ==
  ASSUME TypeOK, TypeOK', RecoveryInv, CallInv, NEW decision \in decisions,
         RecoveryResumes(decision)
  PROVE  CallInv'
<1> USE DEF movement, joining, conversation, pendings, decisionChannels
<1> DEFINE retried == Retried(decision)
           records == [i \in 1..BatchSize |->
                          IF i \in retried
                          THEN [batch.records[i] EXCEPT !.outcome = "none"]
                          ELSE IF i \in Unresolved(batch.records)
                          THEN [batch.records[i] EXCEPT !.manual = FALSE]
                          ELSE batch.records[i]]
<1>1. /\ step = "AwaitManualToolRecovery" /\ HasBatch /\ AtCall /\ ~AtApproval /\ ~AtRun
      /\ branches = {} /\ results = {} /\ IsResolvable /\ decision.id = RecoveryID
      /\ pendingRecovery = NoRecovery /\ Settled \in Nat /\ BatchSize \in Nat
      /\ batch.first = agent.index /\ agent.index + BatchSize <= Len(agent.calls)
      /\ \A i \in 1..BatchSize :
            /\ Settled + i \in 1..Len(issued) /\ batch.records[i].call = Settled + i
            /\ batch.records[i].outcome \in {"succeeded", "failed", "unknown"}
            /\ batch.records[i] \in Records
  <2>1. IsResolving(decision)
    BY DEF RecoveryResumes
  <2>2. step = "AwaitManualToolRecovery" /\ decision.id = RecoveryID /\ Unfinished = {}
    BY <2>1 DEF IsResolving
  <2>3. HasBatch /\ IsResolvable /\ pendingRecovery = NoRecovery
    BY <2>1, ResolvingTakesRecovery
  <2>4. /\ AtCall /\ ~AtApproval /\ ~AtRun /\ branches = {} /\ results = {}
    BY <2>2, <2>3 DEF AtCall, AtApproval, AtRun, CallInv, BatchInv
  <2>5. \A i \in 1..BatchSize : batch.records[i].outcome \in {"succeeded", "failed", "unknown"}
    BY <2>2, <2>3 DEF CallInv, BatchInv, Unfinished
  <2>6. \A i \in 1..BatchSize : batch.records[i] \in Records
    BY ElementOfSeq DEF TypeOK, JoiningType, Batches, BatchSize
  <2> QED BY <2>2, <2>3, <2>4, <2>5, <2>6, BatchFacts, CallFacts DEF CallInv
<1>2. /\ UNCHANGED <<results, plan, issued, approvals, pendingApproval, pendingRecovery>>
      /\ decisions' = decisions \ {decision}
  BY DEF RecoveryResumes
<1>3. /\ Len(records) = BatchSize
      /\ \A i \in 1..BatchSize :
            /\ records[i].call = Settled + i
            /\ records[i].outcome = IF i \in retried THEN "none" ELSE batch.records[i].outcome
  BY <1>1 DEF Records
<1>4. /\ retried \subseteq 1..BatchSize
      /\ \A i \in retried : Settled + i \in decision.retried
                             /\ batch.records[i].outcome = "unknown"
  BY <1>1 DEF Retried, Unresolved, BatchSize
<1>5. CASE retried = {}
  <2>1. FinishBatch(records) /\ UNCHANGED branches
    BY <1>5 DEF RecoveryResumes
  <2> HIDE DEF records
  <2> QED BY <1>1, <1>2, <1>3, <2>1, FinishedBatch
<1>6. CASE retried # {}
  <2>1. /\ batch' = [batch EXCEPT !.records = records, !.revision = @ + 1]
        /\ branches' = {Branch(i) : i \in retried} /\ agent' = Status("executing_tool")
        /\ step' = "AwaitParallelToolResults"
    BY <1>6 DEF RecoveryResumes, GoTo
  <2> HIDE DEF records, retried
  <2>2. /\ batch'.records = records /\ batch'.first = batch.first /\ BatchSize' = BatchSize
        /\ agent'.calls = agent.calls /\ agent'.index = agent.index
        /\ agent'.mode = agent.mode
    BY <1>3, <2>1, StatusFacts DEF TypeOK, JoiningType, Batches, BatchSize
  <2>3. HasBatch' /\ AtCall' /\ ~AtApproval' /\ ~AtRun' /\ ~IsResolvable'
    BY <2>1 DEF HasBatch, AtCall, AtApproval, AtRun, IsResolvable
  <2>4. CursorInv' /\ Settled' = Settled
    BY <1>1, <1>2, <2>2, <2>3, CursorStays DEF CallInv
  <2>5. ToolInv'
    BY <1>1, <1>2, <2>2, <2>3, <2>4 DEF CallInv, ToolInv
  <2>6. BatchInv'
    <3>1. Unfinished' = retried
      BY <1>1, <1>3, <1>4, <2>2 DEF Unfinished
    <3>2. \A b \in branches' : b.record \in retried /\ b = Branch(b.record)
      BY <2>1 DEF Branch
    <3>3. \A i \in retried : Branch(i) \in branches' /\ Branch(i).record = i
      BY <2>1 DEF Branch
    <3>4. {b.record : b \in branches'} = retried
      BY <3>2, <3>3
    <3>5. \A i \in 1..BatchSize' :
             /\ batch'.records[i].call = Settled' + i
             /\ batch'.records[i].outcome \in {"none", "succeeded", "failed", "unknown"}
      BY <1>1, <1>3, <2>2, <2>4
    <3> QED BY <1>1, <1>2, <2>1, <2>2, <3>1, <3>2, <3>4, <3>5 DEF BatchInv
  <2>7. ApprovalInv'
    BY <1>1, <1>2, <2>3, <2>4 DEF CallInv, ApprovalInv
  <2>8. RunInv'
    BY <1>1, <1>2, <2>2, <2>3, <2>4 DEF CallInv, RunInv, IsApproved
  <2>9. KnownInv'
    BY <1>1, <1>2, <1>3, <2>2, <2>4 DEF CallInv, KnownInv
  <2>10. CountInv'
    <3>1. \A b \in branches' : b.attempt = 1 /\ b.record \in retried
      BY <2>1 DEF Branch
    <3>2. \A i \in retried :
             issued[Settled + i].runs < MaximumAttempts * issued[Settled + i].retries + 1
      <4> TAKE i \in retried
      <4>1. Settled + i \in 1..Len(issued) /\ issued[Settled + i] \in Calls
        BY <1>1, <1>4, CallFacts DEF CallInv
      <4>2. Paid(Settled + i)
        BY <1>1, <1>4 DEF CallInv, CountInv
      <4>3. /\ issued[Settled + i].runs \in Nat /\ issued[Settled + i].retries \in Nat
            /\ MaximumAttempts * issued[Settled + i].retries \in Nat
        <5>1. issued[Settled + i].runs \in Nat /\ issued[Settled + i].retries \in Nat
          BY <4>1 DEF Calls
        <5> QED BY <5>1, LimitAssumption, OneMoreRetry
      <4> QED BY <4>2, <4>3 DEF Paid
    <3> QED BY <1>1, <1>2, <2>1, <2>3, <2>4, <3>1, <3>2, LimitAssumption DEF CallInv, CountInv
  <2> QED BY <2>4, <2>5, <2>6, <2>7, <2>8, <2>9, <2>10 DEF CallInv
<1> QED
  BY <1>5, <1>6

(* What ends a manual recovery leaves the calls or runs some of them again. *)
LEMMA RecoveryCalls ==
  ASSUME TypeOK, TypeOK', RecoveryInv, CallInv, Recovery
  PROVE  CallInv'
<1> USE DEF movement, joining, conversation, pendings, decisionChannels
<1>1. /\ step = "AwaitManualToolRecovery" /\ HasBatch /\ AtCall /\ ~AtApproval /\ ~AtRun
      /\ branches = {} /\ results = {} /\ Unfinished = {}
      /\ agent \in AgentStates /\ (plan.status = "draft" => agent.mode = "planning")
  <2>1. step = "AwaitManualToolRecovery"
    BY DEF Recovery, AwaitManualToolRecoveryWaitFor, AwaitManualToolRecoverySteered,
       SteerWaiting, RecoveryStops, RecoveryResumes, IsResolving
  <2> QED BY <2>1 DEF HasBatch, AtCall, AtApproval, AtRun, CallInv, BatchInv, ToolInv, TypeOK,
          ConversationType
<1>2. CASE AwaitManualToolRecoveryWaitFor
  <2>1. /\ UNCHANGED <<step, input, attempt, batch, branches, results, plan, issued,
                       approvals, decisions, pendingApproval>>
        /\ phase' = "waiting" /\ phase = "wait_for"
        /\ pendingRecovery'.calls = PendingCalls(batch.records)
        /\ agent'.calls = agent.calls /\ agent'.index = agent.index /\ agent'.mode = agent.mode
    BY <1>2, StatusFacts DEF AwaitManualToolRecoveryWaitFor
  <2>2. \A d \in decisions : d.id # RecoveryID
    <3> SUFFICES ASSUME NEW d \in decisions, d.id = RecoveryID
                 PROVE  FALSE
      OBVIOUS
    <3>1. /\ d.id[1] = Len(history) /\ d.id[3] = batch.revision
          /\ Len(history) \in Nat /\ batch.revision \in Nat
      BY <1>1, LenProperties DEF RecoveryID, RecoveryInv, TypeOK, ConversationType,
         JoiningType, Batches
    <3>2. DecisionMatchesBatch(d) /\ ~IsResolvable
      BY <2>1 DEF RecoveryInv, IsResolvable
    <3> QED BY <3>1, <3>2 DEF DecisionMatchesBatch
  <2>3. UNCHANGED <<Settled, AtApproval, AtRun, HasBatch, AtCall, BatchSize, Unfinished,
                    RecoveryID>>
    BY <2>1 DEF Settled, AtApproval, AtRun, AtTimer, HasBatch, AtCall, BatchSize, Unfinished,
       RecoveryID
  <2>4. CursorInv'
    BY <2>1, <2>3, CursorStays DEF CallInv
  <2>5. ToolInv' /\ BatchInv' /\ KnownInv'
    BY <2>1, <2>3 DEF CallInv, ToolInv, BatchInv, KnownInv, Unresolved
  <2>6. ApprovalInv' /\ RunInv'
    BY <2>1, <2>3 DEF CallInv, ApprovalInv, RunInv, IsApproved
  <2>7. CountInv'
    BY <1>1, <2>1, <2>2, <2>3 DEF CallInv, CountInv, PendingCalls, Unresolved
  <2> QED BY <2>4, <2>5, <2>6, <2>7 DEF CallInv
<1>3. CASE AwaitManualToolRecoverySteered
  <2> DEFINE a == [agent EXCEPT !.index = batch.first + BatchSize]
             h == history \o BatchEntries(batch.records)
  <2>1. /\ BeginSteeredTurn(steered, a, h) /\ ~AtCall'
        /\ UNCHANGED <<branches, results, plan, issued, approvals, decisions>>
    BY <1>3 DEF AwaitManualToolRecoverySteered, SteerWaiting, GoTo,
       AtCall, AtRun, AtApproval, AtTimer, HasBatch
  <2>2. a \in AgentStates
    <3>1. batch.first + BatchSize \in Nat
      BY <1>1, BatchFacts, Sums DEF TypeOK, JoiningType, Batches
    <3> QED BY <1>1, <3>1 DEF AgentStates
  <2> HIDE DEF a, h
  <2>3. /\ agent'.calls = <<>> /\ agent'.index = 0 /\ pendingRecovery' = NoRecovery
        /\ plan.status = "draft" => agent'.mode = "planning"
    BY <2>1, <2>2, SteeredTurnFacts
  <2> QED BY <1>1, <2>1, <2>3, CallsLeft
<1>4. ASSUME NEW decision \in decisions, RecoveryStops(decision)
      PROVE  CallInv'
  <2>1. pendingRecovery = NoRecovery
    BY <1>4, ResolvingTakesRecovery DEF RecoveryStops
  <2>2. /\ agent' = WithCallsCleared(agent) /\ ~AtCall' /\ pendingRecovery' = NoRecovery
        /\ UNCHANGED <<branches, results, plan, issued, approvals>>
        /\ decisions' \subseteq decisions
    BY <1>4, <2>1 DEF RecoveryStops, GoTo, AtCall, AtRun, AtApproval, AtTimer, HasBatch
  <2>3. agent'.calls = <<>> /\ agent'.index = 0 /\ agent'.mode = agent.mode
    BY <1>1, <2>2 DEF WithCallsCleared, AgentStates
  <2> QED BY <1>1, <2>2, <2>3, CallsLeft
<1>5. ASSUME NEW decision \in decisions, RecoveryResumes(decision)
      PROVE  CallInv'
  BY <1>1, <1>5, ResumedCalls
<1> QED
  BY <1>2, <1>3, <1>4, <1>5 DEF Recovery

-----------------------------------------------------------------------------
(* What a turn awaits, action by action.                                   *)

(* A step to where no user is awaited keeps what a turn awaits right.      *)
LEMMA TurnGoesOn ==
  ASSUME step' # "Init", step' = "AwaitUser" => phase' = "wait_for",
         ~AtTimer', ~IsResolvable',
         step' \in {"AfterModelCall", "ApplyModelResult"} /\ input' = "response" =>
            reply'.expected = Len(history') + 1,
         agent'.execution = 0,
         agent'.status = "waiting_for_message" => step' = "AwaitUser"
  PROVE  TurnInv'
BY DEF TurnInv, FreshInv, InputInv, UserWaitInv, PlanRequestInv, PlanRequestIsPending

(* A user's RPC leaves the step and its input alone.                       *)
LEMMA UserCommandTurns ==
  ASSUME TypeOK, RecoveryInv, TurnInv, UserCommand
  PROVE  TurnInv'
<1> USE DEF movement, joining, conversation, pendings, decisionChannels, awaiting,
            messageChannels, otherChannels
<1>1. UNCHANGED <<step, phase, input, awaitingAnswer, selected, reply, plan, history, batch,
                  pendingTimer>>
  BY DEF UserCommand, SendMessage, DeleteQueuedMessage, SteerMessage, AnswerQuestions,
     ApproveTool, ResolveToolRecovery, ExecutePlan
<1>2. FreshInv' /\ InputInv'
  BY <1>1 DEF TurnInv, FreshInv, InputInv, AtTimer
<1>3. UserWaitInv'
  <2>1. UNCHANGED <<IsResolvable, RecoveryID>>
    BY <1>1 DEF IsResolvable, RecoveryID
  <2>2. IsResolvable' => \/ pendingRecovery' # NoRecovery
                         \/ \E d \in decisions' : d.id = RecoveryID
                         \/ steered' # <<>>
    <3>1. CASE UNCHANGED <<pendingRecovery, decisions, steered>>
      BY <2>1, <3>1 DEF TurnInv, UserWaitInv
    <3>2. ASSUME NEW i \in 1..Len(queued), SteerMessage(i)
          PROVE  steered' # <<>>
      <4>1. /\ steered' = Append(steered, queued[i]) /\ steered \in Seq(Messages)
            /\ queued[i] \in Messages
        BY <3>2, ElementOfSeq DEF SteerMessage, TypeOK, ChannelsType
      <4> QED BY <4>1, AppendProperties
    <3>3. ASSUME NEW isStop \in BOOLEAN, NEW retried \in SUBSET pendingRecovery.calls,
                 ResolveToolRecovery(isStop, retried)
          PROVE  \E d \in decisions' : d.id = RecoveryID
      <4>1. /\ pendingRecovery.id = RecoveryID
            /\ [id |-> pendingRecovery.id, stop |-> isStop, retried |-> retried] \in decisions'
        BY <3>3 DEF ResolveToolRecovery, RecoveryInv
      <4> QED BY <4>1
    <3> QED BY <3>1, <3>2, <3>3 DEF UserCommand, SendMessage, DeleteQueuedMessage,
            AnswerQuestions, ApproveTool, ExecutePlan
  <2>3. step' = "AwaitUser" /\ phase' = "waiting" /\ awaitingAnswer' =>
           pendingInput' # NoCall \/ answered' # <<>>
    <3>1. CASE UNCHANGED <<pendingInput, answered>>
      BY <1>1, <3>1 DEF TurnInv, UserWaitInv
    <3>2. CASE AnswerQuestions
      <4>1. answered' = Append(answered, pendingInput) /\ answered \in Seq(Nat)
            /\ pendingInput \in Nat
        BY <3>2 DEF AnswerQuestions, TypeOK, ChannelsType, PendingsType
      <4> QED BY <4>1, AppendProperties
    <3> QED BY <3>1, <3>2 DEF UserCommand, SendMessage, DeleteQueuedMessage, SteerMessage,
            ApproveTool, ResolveToolRecovery, ExecutePlan
  <2> QED BY <2>1, <2>2, <2>3 DEF UserWaitInv
<1>4. PlanRequestInv'
  <2>1. CASE ~ExecutePlan
    <3>1. UNCHANGED <<agent, executions>>
      BY <2>1 DEF UserCommand, SendMessage, DeleteQueuedMessage, SteerMessage,
         AnswerQuestions, ApproveTool, ResolveToolRecovery
    <3> QED BY <1>1, <3>1 DEF TurnInv, PlanRequestInv, PlanRequestIsPending, HasPlanRequest
  <2>2. CASE ExecutePlan
    <3>1. /\ step # "Init" /\ plan.status \in {"draft", "active"}
          /\ agent.status = "waiting_for_message"
          /\ agent' = [agent EXCEPT !.execution = plan.revision, !.noProgress = 0]
          /\ executions' = Append(executions, plan.revision)
      BY <2>2 DEF ExecutePlan
    <3>2. agent'.status = agent.status /\ agent'.execution = plan.revision
      BY <3>1 DEF TypeOK, ConversationType, AgentStates
    <3>3. step = "AwaitUser"
      BY <3>1 DEF TurnInv, PlanRequestInv
    <3>4. /\ executions \in Seq(Nat) /\ plan.revision \in Nat /\ Len(executions) \in Nat
      BY LenProperties DEF TypeOK, ChannelsType, ConversationType, Plans
    <3>5. /\ Len(executions') = Len(executions) + 1
          /\ executions'[Len(executions) + 1] = plan.revision
      BY <3>1, <3>4, AppendProperties
    <3>6. Len(executions) + 1 \in 1..Len(executions')
      BY <3>4, <3>5
    <3>7. HasPlanRequest'
      BY <1>1, <3>1, <3>5, <3>6 DEF HasPlanRequest
    <3> QED BY <1>1, <3>1, <3>2, <3>3, <3>7 DEF PlanRequestInv, PlanRequestIsPending
  <2> QED BY <2>1, <2>2
<1> QED
  BY <1>2, <1>3, <1>4 DEF TurnInv

(* The user boundary: the wait's condition is what AwaitUser selects, and  *)
(* beginning with it clears the plan request.                              *)
LEMMA UserBoundaryTurns ==
  ASSUME TypeOK, WaitInv, RecoveryInv, TurnInv, UserBoundary
  PROVE  TurnInv'
<1> USE DEF movement, joining, conversation, pendings, decisionChannels, awaiting,
            messageChannels, otherChannels
<1>1. agent \in AgentStates
  BY DEF TypeOK, ConversationType
<1>2. CASE InitExecute
  BY <1>2, TurnGoesOn DEF InitExecute, GoTo, WaitingSteps, NewAgentState, AtTimer,
     IsResolvable
<1>3. CASE AwaitUserWaitFor
  <2>1. /\ step = "AwaitUser" /\ UNCHANGED <<step, input, plan, executions, selected>>
        /\ phase' = "waiting" /\ awaitingAnswer' = AwaitsAnswer
        /\ UNCHANGED <<pendingInput, answered>>
        /\ agent'.execution = agent.execution
    BY <1>3, StatusFacts DEF AwaitUserWaitFor
  <2>2. UserWaitInv'
    BY <2>1 DEF UserWaitInv, IsResolvable, AwaitsAnswer
  <2>3. FreshInv' /\ InputInv'
    BY <2>1 DEF FreshInv, InputInv, AtTimer
  <2>4. PlanRequestInv'
    BY <2>1 DEF TurnInv, PlanRequestInv, PlanRequestIsPending, HasPlanRequest
  <2> QED BY <2>2, <2>3, <2>4 DEF TurnInv
<1>4. ASSUME NEW kind \in {"answer", "steered", "queued", "plan"}, NEW messages, NEW ref,
             IsSelecting, Select(kind, messages, ref),
             kind = "plan" => plan.status \in {"draft", "active"}
      PROVE  TurnInv'
  <2>1. /\ step = "AwaitUser" /\ UNCHANGED <<step, input, plan, agent>>
        /\ phase' = "execute" /\ selected'.kind = kind
    BY <1>4 DEF IsSelecting, Select
  <2>2. FreshInv' /\ InputInv' /\ UserWaitInv'
    BY <1>4, <2>1 DEF FreshInv, InputInv, UserWaitInv, IsResolvable, AtTimer
  <2>3. PlanRequestInv'
    BY <1>4, <2>1 DEF TurnInv, PlanRequestInv, PlanRequestIsPending
  <2> QED BY <2>2, <2>3 DEF TurnInv
<1>5. CASE SelectAnswer \/ SelectSteered \/ SelectQueued \/ SelectPlan
  BY <1>4, <1>5 DEF SelectAnswer, SelectSteered, SelectQueued, SelectPlan
<1>6. CASE AwaitUserExecuteAnswer
  BY <1>1, <1>6, UserTurnFacts, TurnGoesOn DEF AwaitUserExecuteAnswer, GoTo, AtTimer, IsResolvable
<1>7. CASE AwaitUserExecuteSteered
  <2>1. agent'.execution = 0 /\ agent'.status = "calling_model"
    BY <1>1, <1>7, SteeredTurnFacts DEF AwaitUserExecuteSteered
  <2> QED BY <1>7, <2>1, TurnGoesOn DEF AwaitUserExecuteSteered, GoTo, AtTimer, IsResolvable
<1>8. CASE AwaitUserExecuteQueued
  <2>1. (selected.messages[1] \in PlanModeMessages) \in BOOLEAN
    OBVIOUS
  <2>2. agent'.execution = 0 /\ agent'.status = "calling_model"
    BY <1>1, <1>8, <2>1, UserTurnFacts DEF AwaitUserExecuteQueued
  <2> QED BY <1>8, <2>2, TurnGoesOn DEF AwaitUserExecuteQueued, GoTo, AtTimer, IsResolvable
<1>9. CASE AwaitUserExecutePlan
  <2>1. CASE IsCurrentRequest
    <3>1. /\ step' = "CheckSteered" /\ input' = "compact_context"
          /\ agent'.execution = 0 /\ agent'.status = "calling_model"
      BY <1>1, <1>9, <2>1 DEF AwaitUserExecutePlan, GoTo, AgentStates
    <3> QED BY <3>1, TurnGoesOn DEF AtTimer, IsResolvable
  <2>2. CASE ~IsCurrentRequest
    <3>1. step' = "AwaitUser" /\ phase' = "wait_for" /\ agent'.execution = 0
      BY <1>1, <1>9, <2>2 DEF AwaitUserExecutePlan, GoTo, AgentStates, WaitingSteps
    <3> QED BY <3>1, TurnGoesOn DEF AtTimer, IsResolvable
  <2> QED BY <2>1, <2>2
<1>10. CASE AnsweredInput
  <2>1. step' \in {"CompactContext", "CallModel", "BeforeModelCall"} /\ UNCHANGED agent
        /\ step = "AnsweredInput"
    BY <1>10 DEF AnsweredInput, GoToCompactContext, GoToModel, GoTo
  <2>2. agent.execution = 0 /\ agent.status # "waiting_for_message"
    BY <2>1 DEF TurnInv, PlanRequestInv, PlanRequestIsPending
  <2> QED BY <2>1, <2>2, TurnGoesOn DEF AtTimer, IsResolvable
<1> QED
  BY <1>2, <1>3, <1>5, <1>6, <1>7, <1>8, <1>9, <1>10 DEF UserBoundary

(* Away from AwaitUser no plan is requested and no user awaited.           *)
LEMMA AwayFromUser ==
  ASSUME TurnInv, step \notin {"AwaitUser", "Init"}
  PROVE  agent.execution = 0 /\ agent.status # "waiting_for_message"
BY DEF TurnInv, PlanRequestInv, PlanRequestIsPending

(* A reply goes on in the safe boundary.                                   *)
LEMMA ReplyTurns ==
  ASSUME TypeOK, NEW a \in AgentStates, a.execution = 0, a.status # "waiting_for_message",
         NEW requests, ApplyReply(a, requests)
  PROVE  TurnInv'
<1>1. /\ step' = "CheckSteered" /\ input' \in {"route_tool", "await_user", "call_model"}
  BY DEF ApplyReply, GoTo
<1>2. agent'.execution = 0 /\ agent'.status # "waiting_for_message"
  BY DEF ApplyReply, AgentStates
<1> QED
  BY <1>1, <1>2, TurnGoesOn DEF AtTimer, IsResolvable

(* A model call knows where its response will be appended, and nothing is  *)
(* appended before it is.                                                  *)
LEMMA ModelTurnTurns ==
  ASSUME TypeOK, TurnInv, ModelTurn
  PROVE  TurnInv'
<1> USE DEF movement, joining, conversation, pendings, decisionChannels, awaiting,
            messageChannels, otherChannels
<1>1. agent \in AgentStates /\ step \in ModelSteps \cup {"ApplyModelResult"}
  BY DEF TypeOK, ConversationType, ModelTurn, CallModel, CompactContext, BeforeModelCall,
     CallModelWithHooks, AfterModelCall, ApplyResponse, ApplyCompaction, ModelStepExhausted,
     ModelSteps
<1>2. agent.execution = 0 /\ agent.status # "waiting_for_message"
  BY <1>1, AwayFromUser DEF ModelSteps
<1>3. CASE CallModel
  <2>1. PICK requests : ApplyReply(Status("calling_model"), requests)
    BY <1>3 DEF CallModel
  <2>2. /\ Status("calling_model") \in AgentStates
        /\ Status("calling_model").execution = 0
        /\ Status("calling_model").status = "calling_model"
    BY <1>2, StatusType, StatusFacts DEF TypeOK, Statuses
  <2> QED BY <2>1, <2>2, ReplyTurns
<1>4. CASE CompactContext
  BY <1>2, <1>4, StatusFacts, TurnGoesOn DEF CompactContext, GoTo, AtTimer, IsResolvable
<1>5. CASE BeforeModelCall
  BY <1>2, <1>5, TurnGoesOn DEF BeforeModelCall, GoTo, WaitingSteps, AtTimer, IsResolvable
<1>6. CASE CallModelWithHooks
  <2>1. /\ step' = "AfterModelCall" /\ input' = input /\ UNCHANGED history
        /\ agent'.execution = 0 /\ agent'.status # "waiting_for_message"
        /\ input = "response" => reply'.expected = Len(history) + 1
    BY <1>2, <1>6, StatusFacts DEF CallModelWithHooks, GoTo
  <2> QED BY <2>1, TurnGoesOn DEF AtTimer, IsResolvable
<1>7. CASE AfterModelCall
  <2>1. /\ step' = "ApplyModelResult" /\ input' = input /\ UNCHANGED <<history, reply, agent>>
        /\ step = "AfterModelCall"
    BY <1>7 DEF AfterModelCall, GoTo
  <2>2. input = "response" => reply.expected = Len(history) + 1
    BY <2>1 DEF TurnInv, InputInv
  <2> QED BY <1>2, <2>1, <2>2, TurnGoesOn DEF AtTimer, IsResolvable
<1>8. CASE ApplyResponse
  <2>1. ApplyReply(agent, reply.requests)
    BY <1>8 DEF ApplyResponse
  <2> QED BY <1>1, <1>2, <2>1, ReplyTurns
<1>9. CASE ApplyCompaction \/ ModelStepExhausted
  BY <1>2, <1>9, TurnGoesOn DEF ApplyCompaction, ModelStepExhausted, GoTo, AtTimer, IsResolvable
<1> QED
  BY <1>3, <1>4, <1>5, <1>6, <1>7, <1>8, <1>9 DEF ModelTurn

(* A finished call goes on in the safe boundary.                           *)
LEMMA FinishedTurns ==
  ASSUME NEW a \in AgentStates, a.execution = 0, a.status # "waiting_for_message",
         NEW o, FinishCurrentCall(a, o)
  PROVE  TurnInv'
<1>1. step' = "CheckSteered" /\ input' \in {"route_tool", "compact_context"}
  BY DEF FinishCurrentCall, GoTo, NextContinuation
<1>2. agent'.execution = 0 /\ agent'.status # "waiting_for_message"
  BY DEF FinishCurrentCall, Advanced, WithCallsCleared, AgentStates
<1> QED
  BY <1>1, <1>2, TurnGoesOn DEF AtTimer, IsResolvable

(* A steered turn clears the plan request.                                 *)
LEMMA SteeredTurns ==
  ASSUME NEW messages, NEW a \in AgentStates, NEW h, BeginSteeredTurn(messages, a, h),
         step' \in ModelSteps \ {"AfterModelCall"} \/
            (step' = "CheckSteered" /\ input' = "compact_context")
  PROVE  TurnInv'
<1>1. agent'.execution = 0 /\ agent'.status = "calling_model"
  BY SteeredTurnFacts
<1> QED
  BY <1>1, TurnGoesOn DEF AtTimer, IsResolvable, ModelSteps

(* Routing sets the timer that the wait for it needs.                      *)
LEMMA RoutedTurns ==
  ASSUME TypeOK, CallInv, TurnInv, Routed
  PROVE  TurnInv'
<1> USE DEF movement, joining, conversation, pendings, decisionChannels, awaiting,
            messageChannels, otherChannels
<1>1. agent \in AgentStates /\ step \in {"CheckSteered", "RouteTool"}
  BY DEF TypeOK, ConversationType, Routed, CheckSteeredSteer, CheckSteeredContinue,
     RouteRefused, Routes, RouteWriteTodos, RouteDurableWait, RouteRequestUserInput,
     RouteParallel, RouteSerial
<1>2. agent.execution = 0 /\ agent.status # "waiting_for_message"
  BY <1>1, AwayFromUser
<1>3. /\ Routing \in AgentStates /\ Routing.execution = 0
      /\ Routing.status = "routing_tool"
  BY <1>2, StatusType, StatusFacts DEF TypeOK, Statuses, Routing
<1>4. CASE CheckSteeredSteer
  <2>1. step' \in {"CompactContext", "CallModel", "BeforeModelCall"}
    BY <1>4 DEF CheckSteeredSteer, GoToCompactContext, GoToModel, GoTo
  <2> QED BY <1>1, <1>4, <2>1, SteeredTurns DEF CheckSteeredSteer, ModelSteps
<1>5. CASE CheckSteeredContinue
  <2>1. CASE input = "durable_wait"
    <3>1. pendingTimer # NoCall
      BY <1>5, <2>1 DEF TurnInv, InputInv, AtTimer, CheckSteeredContinue
    <3>2. /\ step' = "DurableWait" /\ phase' = "wait_for"
          /\ UNCHANGED <<pendingTimer, agent>>
      BY <1>5, <2>1 DEF CheckSteeredContinue, GoTo, WaitingSteps
    <3> QED BY <1>2, <3>1, <3>2 DEF TurnInv, FreshInv, InputInv, UserWaitInv, IsResolvable,
            PlanRequestInv, PlanRequestIsPending
  <2>2. CASE input # "durable_wait"
    <3>1. /\ step' \in {"CompactContext", "CallModel", "BeforeModelCall", "AwaitUser",
                        "RouteTool", "AwaitToolApproval", "ExecuteTool"}
          /\ step' = "AwaitUser" => phase' = "wait_for"
          /\ UNCHANGED agent
      BY <1>5, <2>2 DEF CheckSteeredContinue, GoToCompactContext, GoToModel, GoTo,
         WaitingSteps
    <3> QED BY <1>2, <3>1, TurnGoesOn DEF AtTimer, IsResolvable
  <2> QED BY <2>1, <2>2
<1>6. CASE RouteRefused
  <2> DEFINE b == [Routing EXCEPT !.requiresWrite = FALSE, !.allowsWrite = TRUE]
  <2>1. b \in AgentStates /\ b.execution = 0 /\ b.status = "routing_tool"
    BY <1>3 DEF AgentStates
  <2>2. FinishCurrentCall(b, "refused") \/ FinishCurrentCall(Routing, "refused")
    BY <1>6 DEF RouteRefused
  <2> HIDE DEF b
  <2> QED BY <1>3, <2>1, <2>2, FinishedTurns
<1>7. CASE RouteWriteTodos
  <2> DEFINE b == [Routing EXCEPT !.planRevision = @ + 1, !.requiresWrite = FALSE,
                              !.allowsWrite = FALSE, !.execution = 0, !.noProgress = 0]
  <2>1. b \in AgentStates /\ b.execution = 0 /\ b.status = "routing_tool"
    <3>1. Routing.planRevision \in Nat /\ Routing.planRevision + 1 \in Nat
      BY <1>3 DEF AgentStates
    <3> QED BY <1>3, <3>1 DEF AgentStates
  <2>2. FinishCurrentCall(b, "succeeded")
    BY <1>7 DEF RouteWriteTodos
  <2> HIDE DEF b
  <2> QED BY <2>1, <2>2, FinishedTurns
<1>8. CASE RouteDurableWait
  <2>1. /\ step' = "CheckSteered" /\ input' = "durable_wait" /\ agent' = Routing
        /\ pendingTimer' = CurrentCall /\ step = "RouteTool"
    BY <1>8 DEF RouteDurableWait, Routes, GoTo
  <2>2. CurrentCall = Settled + 1 /\ Settled \in Nat
    BY <2>1, CallFacts DEF CallInv, AtCall
  <2>3. pendingTimer' # NoCall
    BY <2>1, <2>2 DEF NoCall
  <2> QED BY <1>3, <2>1, <2>3 DEF TurnInv, FreshInv, InputInv, UserWaitInv, IsResolvable,
          PlanRequestInv, PlanRequestIsPending
<1>9. CASE RouteRequestUserInput
  <2>1. step' = "AwaitUser" /\ phase' = "wait_for" /\ agent' = WithCallsCleared(Routing)
    BY <1>9 DEF RouteRequestUserInput, GoTo, WaitingSteps
  <2>2. agent'.execution = 0
    BY <1>3, <2>1 DEF WithCallsCleared, AgentStates
  <2> QED BY <2>1, <2>2, TurnGoesOn DEF AtTimer, IsResolvable
<1>10. CASE RouteParallel
  <2>1. step' = "AwaitParallelToolResults" /\ agent' = Status("executing_tool")
    BY <1>10 DEF RouteParallel, GoTo
  <2> QED BY <1>2, <2>1, StatusFacts, TurnGoesOn DEF AtTimer, IsResolvable
<1>11. CASE RouteSerial
  <2>1. /\ step' = "CheckSteered" /\ input' \in {"await_tool_approval", "execute_tool"}
        /\ agent' = Routing
    BY <1>11 DEF RouteSerial, GoTo
  <2> QED BY <1>3, <2>1, TurnGoesOn DEF AtTimer, IsResolvable
<1> QED
  BY <1>4, <1>5, <1>6, <1>7, <1>8, <1>9, <1>10, <1>11 DEF Routed

(* A wait for an approval or a timer is none for the user's input.         *)
LEMMA ToolWaitTurns ==
  ASSUME TypeOK, TurnInv, ToolWait
  PROVE  TurnInv'
<1> USE DEF movement, joining, conversation, pendings, decisionChannels, awaiting,
            messageChannels, otherChannels
<1>1. agent \in AgentStates /\ step \in {"AwaitToolApproval", "DurableWait"}
  BY DEF TypeOK, ConversationType, ToolWait, AwaitToolApprovalWaitFor,
     AwaitToolApprovalSteered, SteerWaiting, AwaitToolApprovalExecute, DurableWaitWaitFor,
     DurableWaitSteered, DurableWaitFires
<1>2. agent.execution = 0 /\ agent.status # "waiting_for_message"
  BY <1>1, AwayFromUser
<1>3. CASE AwaitToolApprovalWaitFor
  <2>1. /\ step' = "AwaitToolApproval" /\ agent' = Status("waiting_for_tool_approval")
    BY <1>3 DEF AwaitToolApprovalWaitFor
  <2> QED BY <1>2, <2>1, StatusFacts, TurnGoesOn DEF AtTimer, IsResolvable
<1>4. CASE AwaitToolApprovalSteered \/ DurableWaitSteered
  <2>1. WithCallsCleared(agent) \in AgentStates
    BY <1>1, WithCallsClearedType
  <2>2. step' = "CheckSteered" /\ input' = "compact_context"
    BY <1>4 DEF AwaitToolApprovalSteered, DurableWaitSteered, SteerWaiting, GoTo
  <2>3. \E a \in AgentStates : \E messages, h : BeginSteeredTurn(messages, a, h)
    BY <1>1, <1>4, <2>1 DEF AwaitToolApprovalSteered, DurableWaitSteered, SteerWaiting
  <2> QED BY <2>2, <2>3, SteeredTurns
<1>5. CASE AwaitToolApprovalExecute
  <2>1. \/ step' = "CheckSteered" /\ input' = "execute_tool" /\ UNCHANGED agent
        \/ FinishCurrentCall(agent, "rejected")
    BY <1>5 DEF AwaitToolApprovalExecute, GoTo
  <2>2. CASE step' = "CheckSteered" /\ input' = "execute_tool" /\ UNCHANGED agent
    BY <1>2, <2>2, TurnGoesOn DEF AtTimer, IsResolvable
  <2> QED BY <1>1, <1>2, <2>1, <2>2, FinishedTurns
<1>6. CASE DurableWaitWaitFor
  <2>1. /\ step' = "DurableWait" /\ phase' = "waiting" /\ pendingTimer' # NoCall
        /\ agent' = Status("waiting_for_timer")
    BY <1>6 DEF DurableWaitWaitFor
  <2>2. agent'.execution = 0 /\ agent'.status = "waiting_for_timer"
    BY <1>2, <2>1, StatusFacts
  <2> QED BY <2>1, <2>2 DEF TurnInv, FreshInv, InputInv, UserWaitInv, IsResolvable,
          PlanRequestInv, PlanRequestIsPending
<1>7. CASE DurableWaitFires
  <2>1. FinishCurrentCall(agent, "succeeded")
    BY <1>7 DEF DurableWaitFires
  <2> QED BY <1>1, <1>2, <2>1, FinishedTurns
<1> QED
  BY <1>3, <1>4, <1>5, <1>6, <1>7 DEF ToolWait

(* A finished batch goes on in the safe boundary.                          *)
LEMMA FinishedBatchTurns ==
  ASSUME agent \in AgentStates, agent.execution = 0, agent.status # "waiting_for_message",
         NEW records, FinishBatch(records)
  PROVE  TurnInv'
<1>1. step' = "CheckSteered" /\ input' \in {"route_tool", "compact_context"}
  BY DEF FinishBatch, GoTo, NextContinuation
<1>2. agent'.execution = 0 /\ agent'.status # "waiting_for_message"
  BY DEF FinishBatch, Advanced, WithCallsCleared, AgentStates
<1> QED
  BY <1>1, <1>2, TurnGoesOn DEF AtTimer, IsResolvable

(* Running a call, alone or in a batch, awaits no user.                    *)
LEMMA ToolRunTurns ==
  ASSUME TypeOK, CallInv, TurnInv, ToolRun
  PROVE  TurnInv'
<1> USE DEF movement, joining, conversation, pendings, decisionChannels, awaiting,
            messageChannels, otherChannels
<1>1. /\ agent \in AgentStates
      /\ step \in {"ExecuteTool", "RecoverToolExecution", "PrepareManualToolRecovery",
                   "AwaitParallelToolResults"}
  BY DEF TypeOK, ConversationType, ToolRun, ExecuteToolReturns, ExecuteToolAttemptFails,
     RecoverToolExecution, PrepareManualToolRecovery, AwaitParallelToolResults, CallInv,
     BatchInv
<1>2. agent.execution = 0 /\ agent.status # "waiting_for_message"
  BY <1>1, AwayFromUser
<1>3. CASE ExecuteToolReturns
  <2>1. /\ Status("executing_tool") \in AgentStates
        /\ Status("executing_tool").execution = 0
        /\ Status("executing_tool").status = "executing_tool"
    BY <1>2, StatusType, StatusFacts DEF TypeOK, Statuses
  <2>2. \/ \E o : FinishCurrentCall(Status("executing_tool"), o)
        \/ /\ step' \in {"PrepareManualToolRecovery", "RecoverToolExecution"}
           /\ agent' = Status("executing_tool")
    BY <1>3 DEF ExecuteToolReturns, GoTo
  <2>3. CASE step' \in {"PrepareManualToolRecovery", "RecoverToolExecution"}
             /\ agent' = Status("executing_tool")
    BY <2>1, <2>3, TurnGoesOn DEF AtTimer, IsResolvable
  <2> QED BY <2>1, <2>2, <2>3, FinishedTurns
<1>4. CASE ExecuteToolAttemptFails
  <2>1. /\ step' \in {"ExecuteTool", "PrepareManualToolRecovery", "RecoverToolExecution"}
        /\ UNCHANGED agent
    BY <1>4 DEF ExecuteToolAttemptFails, GoTo
  <2> QED BY <1>2, <2>1, TurnGoesOn DEF AtTimer, IsResolvable
<1>5. CASE RecoverToolExecution
  <2>1. FinishCurrentCall(agent, "unknown")
    BY <1>5 DEF RecoverToolExecution
  <2> QED BY <1>1, <1>2, <2>1, FinishedTurns
<1>6. CASE PrepareManualToolRecovery
  <2>1. step' = "AwaitManualToolRecovery" /\ phase' = "wait_for" /\ UNCHANGED agent
    BY <1>6 DEF PrepareManualToolRecovery, GoTo, WaitingSteps
  <2> QED BY <1>2, <2>1, TurnGoesOn DEF AtTimer, IsResolvable
<1>7. CASE \E b \in branches : BranchReturns(b) \/ BranchAttemptFails(b) \/ BranchRecovers(b)
  <2>1. UNCHANGED <<step, agent>> /\ step = "AwaitParallelToolResults"
    BY <1>7 DEF BranchReturns, BranchAttemptFails, BranchRecovers, CallInv, BatchInv
  <2> QED BY <1>2, <2>1, TurnGoesOn DEF AtTimer, IsResolvable
<1>8. CASE AwaitParallelToolResults
  <2>1. \/ FinishBatch(Joined)
        \/ /\ step' = "AwaitManualToolRecovery" /\ phase' = "wait_for" /\ UNCHANGED agent
    BY <1>8 DEF AwaitParallelToolResults, GoTo, WaitingSteps
  <2>2. CASE step' = "AwaitManualToolRecovery" /\ phase' = "wait_for" /\ UNCHANGED agent
    BY <1>2, <2>2, TurnGoesOn DEF AtTimer, IsResolvable
  <2> QED BY <1>1, <1>2, <2>1, <2>2, FinishedBatchTurns
<1> QED
  BY <1>3, <1>4, <1>5, <1>6, <1>7, <1>8 DEF ToolRun

(* The wait for a recovery publishes the calls it is about.                *)
LEMMA RecoveryTurns ==
  ASSUME TypeOK, CallInv, TurnInv, Recovery
  PROVE  TurnInv'
<1> USE DEF movement, joining, conversation, pendings, decisionChannels, awaiting,
            messageChannels, otherChannels
<1>1. agent \in AgentStates /\ step = "AwaitManualToolRecovery"
  BY DEF TypeOK, ConversationType, Recovery, AwaitManualToolRecoveryWaitFor,
     AwaitManualToolRecoverySteered, SteerWaiting, RecoveryStops, RecoveryResumes, IsResolving
<1>2. agent.execution = 0 /\ agent.status # "waiting_for_message"
  BY <1>1, AwayFromUser
<1>3. CASE AwaitManualToolRecoveryWaitFor
  <2>1. /\ step' = "AwaitManualToolRecovery"
        /\ agent' = Status("waiting_for_tool_recovery")
        /\ Unresolved(batch.records) # {}
        /\ pendingRecovery'.calls = PendingCalls(batch.records)
    BY <1>3 DEF AwaitManualToolRecoveryWaitFor
  <2>2. pendingRecovery' # NoRecovery
    <3>1. PICK i \in Unresolved(batch.records) : TRUE
      BY <2>1
    <3>2. batch.records[i].call \in pendingRecovery'.calls
      BY <2>1 DEF PendingCalls
    <3>3. NoRecovery.calls = {}
      BY DEF NoRecovery
    <3> QED BY <3>2, <3>3
  <2>3. agent'.execution = 0 /\ agent'.status = "waiting_for_tool_recovery"
    BY <1>2, <2>1, StatusFacts
  <2> QED BY <2>1, <2>2, <2>3 DEF TurnInv, FreshInv, InputInv, UserWaitInv, AtTimer,
          PlanRequestInv, PlanRequestIsPending
<1>4. CASE AwaitManualToolRecoverySteered
  <2> DEFINE a == [agent EXCEPT !.index = batch.first + BatchSize]
             h == history \o BatchEntries(batch.records)
  <2>1. /\ BeginSteeredTurn(steered, a, h)
        /\ step' = "CheckSteered" /\ input' = "compact_context"
    BY <1>4 DEF AwaitManualToolRecoverySteered, SteerWaiting, GoTo
  <2>2. a \in AgentStates
    <3>1. batch.first + BatchSize \in Nat
      <4>1. batch.first \in Nat /\ BatchSize \in Nat
        BY LenProperties DEF TypeOK, JoiningType, Batches, BatchSize
      <4> QED BY <4>1
    <3> QED BY <1>1, <3>1 DEF AgentStates
  <2> HIDE DEF a, h
  <2> QED BY <2>1, <2>2, SteeredTurns
<1>5. ASSUME NEW decision \in decisions, RecoveryStops(decision)
      PROVE  TurnInv'
  <2>1. step' = "AwaitUser" /\ phase' = "wait_for" /\ agent' = WithCallsCleared(agent)
    BY <1>5 DEF RecoveryStops, GoTo, WaitingSteps
  <2>2. agent'.execution = 0
    BY <1>1, <1>2, <2>1 DEF WithCallsCleared, AgentStates
  <2> QED BY <2>1, <2>2, TurnGoesOn DEF AtTimer, IsResolvable
<1>6. ASSUME NEW decision \in decisions, RecoveryResumes(decision)
      PROVE  TurnInv'
  <2>1. \/ \E records : FinishBatch(records)
        \/ /\ step' = "AwaitParallelToolResults" /\ agent' = Status("executing_tool")
    BY <1>6 DEF RecoveryResumes, GoTo
  <2>2. CASE step' = "AwaitParallelToolResults" /\ agent' = Status("executing_tool")
    BY <1>2, <2>2, StatusFacts, TurnGoesOn DEF AtTimer, IsResolvable
  <2> QED BY <1>1, <1>2, <2>1, <2>2, FinishedBatchTurns
<1> QED
  BY <1>3, <1>4, <1>5, <1>6 DEF Recovery

-----------------------------------------------------------------------------
(* What holds in every reachable state.                                    *)

AgentInv == TypeOK /\ WaitInv /\ RecoveryInv /\ CallInv /\ TurnInv

(* A new Agent has no call, no reply and nothing pending.                  *)
LEMMA InitAgentInv == Init => AgentInv
<1> SUFFICES ASSUME Init
             PROVE  AgentInv
  OBVIOUS
<1>1. TypeOK
  BY InitType
<1>2. WaitInv /\ RecoveryInv
  BY DEF Init, WaitInv, ApprovalMatchesStep, TimerMatchesStep, InputMatchesStep,
     AnswerMatchesStep, RecoveryInv, HasBatch
<1>3. step = "Init" /\ ~AtCall /\ ~AtApproval /\ ~AtRun /\ ~AtTimer /\ ~HasBatch
  BY DEF Init, AtCall, AtApproval, AtRun, AtTimer, HasBatch
<1>4. CursorInv
  BY <1>3, EmptySeq DEF Init, CursorInv, NewAgentState
<1>5. ToolInv /\ BatchInv
  BY <1>3 DEF Init, ToolInv, BatchInv, NoPlan
<1>6. ApprovalInv /\ RunInv /\ KnownInv
  BY <1>3, EmptySeq DEF Init, ApprovalInv, RunInv, KnownInv
<1>7. CountInv
  BY <1>3, EmptySeq DEF Init, CountInv
<1>8. FreshInv /\ InputInv /\ UserWaitInv
  BY <1>3 DEF Init, FreshInv, InputInv, UserWaitInv, IsResolvable
<1>9. PlanRequestInv
  BY <1>3 DEF Init, PlanRequestInv, PlanRequestIsPending, NewAgentState
<1> QED
  BY <1>1, <1>2, <1>4, <1>5, <1>6, <1>7, <1>8, <1>9 DEF AgentInv, CallInv, TurnInv

(* Every step keeps the five parts: one lemma above per group of actions.  *)
LEMMA StepAgentInv ==
  ASSUME AgentInv, [Next]_vars
  PROVE  AgentInv'
<1>1. CASE UNCHANGED vars
  <2> USE DEF vars, movement, awaiting, joining, conversation, pendings, messageChannels,
              decisionChannels, otherChannels, books
  <2>1. TypeOK'
    BY StepType DEF AgentInv
  <2>2. WaitInv' /\ RecoveryInv'
    BY <1>1 DEF AgentInv, WaitInv, ApprovalMatchesStep, TimerMatchesStep, InputMatchesStep,
       AnswerMatchesStep, RecoveryInv, DecisionMatchesBatch, HasBatch, IsResolvable,
       BatchSize, RecoveryID, HasCurrentCall, CurrentCall
  <2>3. CallInv'
    BY <1>1, CallUnchanged DEF AgentInv, IsResolvable
  <2>4. FreshInv' /\ InputInv'
    BY <1>1 DEF AgentInv, TurnInv, FreshInv, InputInv, AtTimer
  <2>5. UserWaitInv'
    BY <1>1 DEF AgentInv, TurnInv, UserWaitInv, IsResolvable, RecoveryID
  <2>6. PlanRequestInv'
    BY <1>1 DEF AgentInv, TurnInv, PlanRequestInv, PlanRequestIsPending, HasPlanRequest
  <2> QED BY <2>1, <2>2, <2>3, <2>4, <2>5, <2>6 DEF AgentInv, TurnInv
<1>2. CASE Next
  <2>1. TypeOK /\ WaitInv /\ RecoveryInv /\ CallInv /\ TurnInv /\ FreshInv
    BY DEF AgentInv, TurnInv
  <2>2. TypeOK'
    BY <2>1, StepType
  <2>3. WaitInv'
    BY <1>2, <2>1, UserCommandWaits, UserBoundaryWaits, ModelTurnWaits, RoutedWaits,
       ToolWaitWaits, ToolRunWaits, RecoveryWaits DEF Next, Worker
  <2>4. RecoveryInv'
    BY <1>2, <2>1, UserCommandRecovery, UserBoundaryRecovery, ModelTurnRecovery,
       RoutedRecovery, ToolWaitRecovery, ToolRunRecovery, RecoveryRecovery DEF Next, Worker
  <2>5. CallInv'
    BY <1>2, <2>1, <2>2, UserCommandCalls, UserBoundaryCalls, ModelTurnCalls, RoutedCalls,
       ToolWaitCalls, ToolRunCalls, RecoveryCalls DEF Next, Worker
  <2>6. TurnInv'
    BY <1>2, <2>1, UserCommandTurns, UserBoundaryTurns, ModelTurnTurns, RoutedTurns,
       ToolWaitTurns, ToolRunTurns, RecoveryTurns DEF Next, Worker
  <2> QED BY <2>2, <2>3, <2>4, <2>5, <2>6 DEF AgentInv
<1> QED
  BY <1>1, <1>2

(* The inductive invariant holds in every reachable state.                 *)
LEMMA AgentInvariant == Spec => []AgentInv
BY InitAgentInv, StepAgentInv, PTL DEF Spec

(* No Execute returns an internal error: what an earlier Step left for it  *)
(* is there, whatever a user's RPC changed in between.                     *)
THEOREM InternalErrorsUnreachable == Spec => []NoInternalError
<1>1. ASSUME AgentInv
      PROVE  NoInternalError
  <2>1. TypeOK /\ CallInv /\ TurnInv /\ CursorInv
    BY <1>1 DEF AgentInv, CallInv
  <2>2. \/ step \in {"RouteTool", "AwaitToolApproval", "ExecuteTool", "DurableWait",
                     "RecoverToolExecution", "PrepareManualToolRecovery"}
        \/ step = "CheckSteered" /\ input = "execute_tool"
        => HasCurrentCall
    BY <2>1, CallFacts DEF AtCall, AtApproval, AtTimer, AtRun
  <2>3. step = "ExecuteTool" \/ (step = "CheckSteered" /\ input = "execute_tool") =>
          Available(CurrentTool)
    <3> SUFFICES ASSUME AtRun
                 PROVE  Available(CurrentTool)
      BY DEF AtRun
    <3>1. AtCall /\ CurrentCall = Settled + 1
      BY <2>1, CallFacts DEF AtCall
    <3>2. issued[Settled + 1].tool \in ExternalTools /\ agent.mode # "planning"
      BY <2>1 DEF CallInv, ToolInv
    <3> QED BY <3>1, <3>2, ExternalAvailable DEF CurrentTool, ToolOf
  <2>4. \A b \in branches : Available(ToolOf(CallOf(b)))
    <3> TAKE b \in branches
    <3>1. HasBatch /\ b.record \in 1..BatchSize
      BY <2>1 DEF CallInv, BatchInv, HasBatch, Unfinished
    <3>2. CallOf(b) = Settled + b.record
      BY <2>1, <3>1 DEF CallInv, BatchInv, CallOf
    <3>3. issued[Settled + b.record].tool \in ExternalTools /\ agent.mode # "planning"
      BY <2>1, <3>1 DEF CallInv, ToolInv
    <3> QED BY <3>2, <3>3, ExternalAvailable DEF ToolOf
  <2>5. step = "DurableWait" => pendingTimer # NoCall
    BY <2>1 DEF TurnInv, InputInv, AtTimer
  <2>6. step = "AwaitUser" /\ phase = "execute" =>
          selected.kind # "none" /\ (selected.kind = "plan" => plan.status # "none")
    BY <2>1 DEF TurnInv, InputInv
  <2>7. step = "ApplyModelResult" /\ input = "response" => reply.expected = Len(history) + 1
    BY <2>1 DEF TurnInv, InputInv
  <2>8. /\ step \in {"AwaitParallelToolResults", "AwaitManualToolRecovery"} =>
              batch.first = agent.index /\ agent.index + BatchSize <= Len(agent.calls)
        /\ step = "AwaitParallelToolResults" =>
              {b.record : b \in branches} \cup {r.record : r \in results} = Unfinished
        /\ step = "AwaitManualToolRecovery" =>
              Unfinished = {} /\ Unresolved(batch.records) # {}
    BY <2>1 DEF CallInv, BatchInv, HasBatch
  <2> QED BY <2>2, <2>3, <2>4, <2>5, <2>6, <2>7, <2>8 DEF NoInternalError
<1> QED
  BY <1>1, AgentInvariant, PTL

(* A tool that needs approval is invoked only for a call whose approval    *)
(* the user gave through ApproveTool, also when the call is retried.       *)
THEOREM EffectsAreApproved == Spec => []ApprovedEffects
<1>1. AgentInv => ApprovedEffects
  BY CallFacts DEF AgentInv, CallInv, RunInv, IsApproved, ApprovedEffects, ToolOf
<1> QED
  BY <1>1, AgentInvariant, PTL

(* A call is invoked at most MaximumAttempts times, and as often again for *)
(* each retry the user asked for in ResolveToolRecovery.                   *)
THEOREM EffectsAreBounded == Spec => []BoundedEffects
<1>1. AgentInv => BoundedEffects
  BY CallFacts DEF AgentInv, CallInv, CountInv, BoundedEffects
<1> QED
  BY <1>1, AgentInvariant, PTL

(* Each wait for a decision has its pending attribute, or the decision, or *)
(* steering that ends it.                                                  *)
THEOREM EveryWaitCanEnd == Spec => []WaitsCanEnd
<1>1. ASSUME AgentInv
      PROVE  WaitsCanEnd
  <2>1. step = "AwaitToolApproval" =>
           \/ pendingApproval = CurrentCall
           \/ \E decision \in approvals : decision.call = CurrentCall
    BY <1>1, CallFacts DEF AgentInv, CallInv, ApprovalInv, AtCall, AtApproval
  <2>2. phase = "waiting" /\ step = "AwaitManualToolRecovery" =>
           \/ pendingRecovery = [id |-> RecoveryID, calls |-> PendingCalls(batch.records)]
           \/ \E decision \in decisions : decision.id = RecoveryID
           \/ steered # <<>>
    <3> SUFFICES ASSUME IsResolvable, pendingRecovery # NoRecovery
                 PROVE  pendingRecovery = [id |-> RecoveryID,
                                           calls |-> PendingCalls(batch.records)]
      BY <1>1 DEF AgentInv, TurnInv, UserWaitInv, IsResolvable
    <3>1. pendingRecovery.id = RecoveryID /\ pendingRecovery.calls = PendingCalls(batch.records)
      BY <1>1 DEF AgentInv, RecoveryInv, CallInv, CountInv
    <3>2. pendingRecovery \in [id : RecoveryIDs, calls : SUBSET Nat]
      BY <1>1 DEF AgentInv, TypeOK, PendingsType
    <3> QED BY <3>1, <3>2
  <2>3. step = "AwaitUser" /\ phase = "waiting" /\ awaitingAnswer =>
           pendingInput # NoCall \/ answered # <<>>
    BY <1>1 DEF AgentInv, TurnInv, UserWaitInv
  <2> QED BY <2>1, <2>2, <2>3 DEF WaitsCanEnd
<1> QED
  BY <1>1, AgentInvariant, PTL

(* No external tool is invoked in a planning turn or while the plan is a   *)
(* draft, also by a branch or a retry that began before.                   *)
THEOREM PlanningIsReadOnly == Spec => []PlanningRunsNothing
<1>1. ASSUME AgentInv, Executing
      PROVE  agent.mode # "planning" /\ plan.status # "draft"
  <2>1. AtRun \/ HasBatch
    BY <1>1 DEF Executing, AtRun, HasBatch, AgentInv, CallInv, BatchInv
  <2> QED BY <1>1, <2>1 DEF AgentInv, CallInv, ToolInv
<1>2. AgentInv => PlanningRunsNothing
  BY <1>1 DEF PlanningRunsNothing
<1> QED
  BY <1>2, AgentInvariant, PTL

(* While the attribute that refuses a second ExecutePlan is set, AwaitUser *)
(* can still consume the request or clear the attribute.                   *)
THEOREM PlanRequestNeverWedges == Spec => []PlanRequestIsPending
<1>1. AgentInv => PlanRequestIsPending
  BY DEF AgentInv, TurnInv, PlanRequestInv
<1> QED
  BY <1>1, AgentInvariant, PTL
=============================================================================
