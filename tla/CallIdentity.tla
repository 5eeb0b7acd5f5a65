---------------------------- MODULE CallIdentity ----------------------------
(***************************************************************************)
(* Which tool call an approval is for.  Gemini and the mock provider give  *)
(* no call IDs; internal/model derives one from the Flow, the number of    *)
(* messages of the request, the position in the reply, the tool and its    *)
(* arguments.  Compaction shortens the request, so the same ID can be      *)
(* issued again, and ToolApprovals keeps its decisions by ID.              *)
(*                                                                         *)
(* One tool, which needs approval, and one call per reply.  AgentFlow has  *)
(* the whole Step graph, with calls that are told apart by construction;   *)
(* here only the Steps a call under approval passes are kept.              *)
(***************************************************************************)
EXTENDS SequencesExt, FiniteSets

CONSTANTS
    Arguments,     \* arguments the model may give
    MaxCalls,      \* bound: calls in one behaviour
    MaxMessages    \* bound: user messages in one behaviour

VARIABLES
    step,             \* the Step of the movement
    continuation,     \* the input of CheckSteered
    hasSummary,       \* whether the context starts with a summary
    kept,             \* roles of the messages after it
    call,             \* the current call: its ID, and a number that is its own
    pendingApproval,  \* the ID in pendingApprovalAttribute
    approvals,        \* toolApprovalsChannel: IDs with the published decisions
    steered,          \* number of messages in steeredUserMessagesChannel
    sent,             \* number of user messages
    issued,           \* number of calls
    approved,         \* calls (by number) the user approved
    ran               \* calls (by number) the tool ran for

vars == <<step, continuation, hasSummary, kept, call, pendingApproval, approvals,
          steered, sent, issued, approved, ran>>

NoID == <<>>
NoCall == [id |-> NoID, number |-> 0]

(* contextMessages: the standing instruction, the summary, the rest.       *)
ContextLength == 1 + (IF hasSummary THEN 1 ELSE 0) + Len(kept)

CallID(arguments) == <<ContextLength, arguments>>

-----------------------------------------------------------------------------
(* The user.                                                               *)

(* The message is sent and steered in one step.                            *)
SteerMessage ==
    /\ sent < MaxMessages
    /\ steered' = steered + 1 /\ sent' = sent + 1
    /\ UNCHANGED <<step, continuation, hasSummary, kept, call, pendingApproval, approvals,
                   issued, approved, ran>>

ApproveTool(isApproved) ==
    /\ pendingApproval # NoID
    /\ approvals' = Append(approvals, [id |-> pendingApproval, approved |-> isApproved])
    /\ approved' = IF isApproved THEN approved \cup {call.number} ELSE approved
    /\ pendingApproval' = NoID
    /\ UNCHANGED <<step, continuation, hasSummary, kept, call, steered, sent, issued, ran>>

(* beginSteeredTurn interrupts the current call and drops its pending      *)
(* approval.                                                               *)
BeginSteeredTurn ==
    LET interrupted == IF call = NoCall THEN <<>> ELSE <<"tool">>
    IN  /\ steered' = 0
        /\ kept' = kept \o interrupted \o [i \in 1..steered |-> "user"]
        /\ call' = NoCall /\ pendingApproval' = NoID

-----------------------------------------------------------------------------
(* The Steps.                                                              *)

GoTo(s, c) == step' = s /\ continuation' = c

AwaitUser ==
    /\ step = "AwaitUser"
    /\ \/ steered > 0 /\ BeginSteeredTurn /\ UNCHANGED sent
       \/ /\ sent < MaxMessages
          /\ sent' = sent + 1
          /\ kept' = Append(kept, "user")
          /\ UNCHANGED <<call, pendingApproval, steered>>
    /\ GoTo("CheckSteered", "compact_context")
    /\ UNCHANGED <<hasSummary, approvals, issued, approved, ran>>

(* The Step after CheckSteered; a context may be compacted or not.         *)
NextSteps(c) ==
    CASE c = "compact_context" -> {"CompactContext", "CallModel"}
      [] c = "call_model" -> {"CallModel"}
      [] c = "route_tool" -> {"RouteTool"}
      [] c = "await_tool_approval" -> {"AwaitToolApproval"}
      [] c = "execute_tool" -> {"ExecuteTool"}
      [] c = "await_user" -> {"AwaitUser"}

CheckSteered ==
    /\ step = "CheckSteered"
    /\ IF steered > 0
       THEN /\ BeginSteeredTurn
            /\ step' \in NextSteps("compact_context")
            /\ UNCHANGED sent
       ELSE /\ step' \in NextSteps(continuation)
            /\ UNCHANGED <<kept, call, pendingApproval, steered, sent>>
    /\ continuation' = "none"
    /\ UNCHANGED <<hasSummary, approvals, issued, approved, ran>>

(* Any cutoff that does not separate a reply from its result.              *)
CompactContext ==
    /\ step = "CompactContext"
    /\ \E cutoff \in 1..Len(kept) :
          /\ cutoff < Len(kept) => kept[cutoff + 1] # "tool"
          /\ kept' = SubSeq(kept, cutoff + 1, Len(kept))
    /\ hasSummary' = TRUE
    /\ GoTo("CheckSteered", "call_model")
    /\ UNCHANGED <<call, pendingApproval, approvals, steered, sent, issued, approved, ran>>

(* The reply asks for the tool, or is text and ends the turn.              *)
CallModel ==
    /\ step = "CallModel"
    /\ kept' = Append(kept, "assistant")
    /\ \/ /\ issued < MaxCalls
          /\ \E arguments \in Arguments :
                call' = [id |-> CallID(arguments), number |-> issued + 1]
          /\ issued' = issued + 1
          /\ GoTo("CheckSteered", "route_tool")
       \/ GoTo("CheckSteered", "await_user") /\ UNCHANGED <<call, issued>>
    /\ UNCHANGED <<hasSummary, pendingApproval, approvals, steered, sent, approved, ran>>

RouteTool ==
    /\ step = "RouteTool"
    /\ pendingApproval' = call.id
    /\ GoTo("CheckSteered", "await_tool_approval")
    /\ UNCHANGED <<hasSummary, kept, call, approvals, steered, sent, issued, approved, ran>>

(* Steering or a decision under the ID of the call ends the wait.          *)
Decides(i) ==
    /\ approvals[i].id = call.id
    /\ \A j \in 1..(i - 1) : approvals[j].id # call.id

AwaitToolApproval ==
    /\ step = "AwaitToolApproval"
    /\ \/ /\ steered > 0 /\ BeginSteeredTurn
          /\ GoTo("CheckSteered", "compact_context")
          /\ UNCHANGED approvals
       \/ \E i \in DOMAIN approvals :
             /\ Decides(i)
             /\ approvals' = RemoveAt(approvals, i)
             /\ pendingApproval' = NoID
             /\ IF approvals[i].approved
                THEN GoTo("CheckSteered", "execute_tool") /\ UNCHANGED <<kept, call>>
                ELSE /\ kept' = Append(kept, "tool") /\ call' = NoCall
                     /\ GoTo("CheckSteered", "compact_context")
             /\ UNCHANGED steered
    /\ UNCHANGED <<hasSummary, sent, issued, approved, ran>>

ExecuteTool ==
    /\ step = "ExecuteTool"
    /\ ran' = ran \cup {call.number}
    /\ kept' = Append(kept, "tool") /\ call' = NoCall
    /\ GoTo("CheckSteered", "compact_context")
    /\ UNCHANGED <<hasSummary, pendingApproval, approvals, steered, sent, issued, approved>>

Init ==
    /\ step = "AwaitUser" /\ continuation = "none"
    /\ hasSummary = FALSE /\ kept = <<>>
    /\ call = NoCall /\ pendingApproval = NoID /\ approvals = <<>>
    /\ steered = 0 /\ sent = 0 /\ issued = 0
    /\ approved = {} /\ ran = {}

Next ==
    \/ SteerMessage \/ \E isApproved \in BOOLEAN : ApproveTool(isApproved)
    \/ AwaitUser \/ CheckSteered \/ CompactContext \/ CallModel \/ RouteTool
    \/ AwaitToolApproval \/ ExecuteTool

Spec == Init /\ [][Next]_vars

-----------------------------------------------------------------------------
(* A tool that needs approval runs only for a call the user approved: no   *)
(* decision outlives the call it was made for (flow.go:491), since "a      *)
(* steered message clears stale approval" (docs/flow-model.md:163).        *)
ApprovalIsForThatCall == ran \subseteq approved
=============================================================================
