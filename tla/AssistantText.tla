---------------------------- MODULE AssistantText ----------------------------
(***************************************************************************)
(* The live text of a reply in the browser.  CallModel writes it to the    *)
(* AssistantText stream while the provider produces it and, before its     *)
(* commit, a model_completed event to AgentActivity; the reply itself      *)
(* reaches the browser in a Snapshot.  The page reads the Snapshot, lists  *)
(* each stream's recent tail and then polls, the two streams in no order.  *)
(*                                                                         *)
(* A reply is represented by its invocation, the `source' of what it       *)
(* writes, and a text by the number of its parts.                          *)
(***************************************************************************)
EXTENDS SequencesExt, FiniteSets

CONSTANTS
    RecoveryLimit,  \* SUPERAGENT_STREAM_RECOVERY_LIMIT, at least 1
    MaxReplies,     \* bound: model invocations
    MaxParts,       \* bound: parts of one text
    MaxLoads        \* bound: times the page is loaded

VARIABLES
    status,    \* of the Agent, as committed
    replies,   \* replies committed, of invocations 1..replies
    call,      \* the model call: none, writing, completed, or replied without calls
    texts,     \* AssistantText: the sources of its parts, in order
    events,    \* AgentActivity: the sources of its model_completed events
    loads,     \* page loads so far
    view,      \* the Snapshot on display
    entry,     \* the live text on display
    completed, \* the sources whose model_completed the page has applied
    tokens,    \* how far each stream was read, Undefined before its recovery
    polled     \* the sources of the texts that a poll delivered

agent == <<status, replies, call, texts, events>>
page == <<loads, view, entry, completed, tokens, polled>>
vars == <<agent, page>>

Undefined == 0 - 1
NotRead == [assistant |-> Undefined, activity |-> Undefined]
NoView == [status |-> "none", replies |-> 0]
NoEntry == [source |-> 0, parts |-> 0, isComplete |-> FALSE]

-----------------------------------------------------------------------------
(* The Agent.  What a Step writes to AgentState is committed at its end:   *)
(* a call that follows tools runs under the status of the tools.           *)
CallModel ==
    /\ call = "none" /\ replies < MaxReplies
    /\ call' = "writing"
    /\ status' = IF status = "waiting_for_message" THEN "calling_model" ELSE status
    /\ UNCHANGED <<replies, texts, events, page>>

WriteAssistant ==
    /\ call = "writing"
    /\ Cardinality({i \in DOMAIN texts : texts[i] = replies + 1}) < MaxParts
    /\ texts' = Append(texts, replies + 1)
    /\ UNCHANGED <<status, replies, call, events, page>>

WriteModelCompleted ==
    /\ call = "writing" /\ call' = "completed"
    /\ events' = Append(events, replies + 1)
    /\ UNCHANGED <<status, replies, texts, page>>

(* A reply with tool calls goes to its tools, another to AwaitUser.        *)
CommitReply ==
    /\ call = "completed" /\ replies' = replies + 1
    /\ \/ status' = "routing_tool" /\ call' = "none"
       \/ status' = "calling_model" /\ call' = "replied"
    /\ UNCHANGED <<texts, events, page>>

AwaitUser ==
    /\ call = "replied" /\ call' = "none" /\ status' = "waiting_for_message"
    /\ UNCHANGED <<replies, texts, events, page>>

-----------------------------------------------------------------------------
(* applyLiveUpdate *)
WithText(shown, source) ==
    LET isComplete == source \in completed
    IN  IF isComplete /\ view.status = "waiting_for_message" THEN shown
        ELSE IF shown.source = source
        THEN [shown EXCEPT !.parts = @ + 1, !.isComplete = @ \/ isComplete]
        ELSE [source |-> source, parts |-> 1, isComplete |-> isComplete]

WithModelCompleted(shown, source) ==
    IF view.status = "waiting_for_message" THEN NoEntry
    ELSE IF shown.source = source THEN [shown EXCEPT !.isComplete = TRUE] ELSE shown

RecentTail(stream) ==
    SubSeq(stream, IF Len(stream) > RecoveryLimit THEN Len(stream) - RecoveryLimit + 1 ELSE 1,
           Len(stream))

(* listRecentEvents and stream-recovered; a stream without events keeps    *)
(* its token undefined and is polled from its first event on.              *)
RecoverAssistant ==
    /\ view # NoView /\ tokens.assistant = Undefined
    /\ entry' = FoldLeft(WithText, entry, RecentTail(texts))
    /\ tokens' = [tokens EXCEPT !.assistant = Len(texts)]
    /\ UNCHANGED <<agent, loads, view, completed, polled>>

RecoverActivity ==
    /\ view # NoView /\ tokens.activity = Undefined
    /\ entry' = FoldLeft(WithModelCompleted, entry, RecentTail(events))
    /\ completed' = completed \cup Range(RecentTail(events))
    /\ tokens' = [tokens EXCEPT !.activity = Len(events)]
    /\ UNCHANGED <<agent, loads, view, polled>>

(* readEvent and stream-update *)
PollAssistant ==
    /\ tokens.assistant \in 0..(Len(texts) - 1)
    /\ LET source == texts[tokens.assistant + 1]
       IN  entry' = WithText(entry, source) /\ polled' = polled \cup {source}
    /\ tokens' = [tokens EXCEPT !.assistant = @ + 1]
    /\ UNCHANGED <<agent, loads, view, completed>>

PollActivity ==
    /\ tokens.activity \in 0..(Len(events) - 1)
    /\ LET source == events[tokens.activity + 1]
       IN  /\ entry' = WithModelCompleted(entry, source)
           /\ completed' = completed \cup {source}
    /\ tokens' = [tokens EXCEPT !.activity = @ + 1]
    /\ UNCHANGED <<agent, loads, view, polled>>

-----------------------------------------------------------------------------
(* reconcileSnapshot: durable progress, or a completed text outside a      *)
(* model call, ends the live text.                                         *)
LoadSnapshot ==
    /\ view' = [status |-> status, replies |-> replies]
    /\ entry' = IF \/ replies > view.replies
                   \/ entry.isComplete /\ status # "calling_model"
                THEN NoEntry ELSE entry
    /\ UNCHANGED <<agent, loads, completed, tokens, polled>>

(* The page is loaded, or loaded again: nothing of the old one is left.    *)
LoadPage ==
    /\ loads < MaxLoads /\ loads' = loads + 1
    /\ view' = NoView /\ entry' = NoEntry /\ completed' = {} /\ tokens' = NotRead
    /\ polled' = {}
    /\ UNCHANGED agent

-----------------------------------------------------------------------------
Init ==
    /\ status = "waiting_for_message" /\ replies = 0 /\ call = "none"
    /\ texts = <<>> /\ events = <<>>
    /\ loads = 0 /\ view = NoView /\ entry = NoEntry /\ completed = {} /\ tokens = NotRead
    /\ polled = {}

Next ==
    \/ CallModel \/ WriteAssistant \/ WriteModelCompleted \/ CommitReply \/ AwaitUser
    \/ LoadSnapshot \/ LoadPage
    \/ RecoverAssistant \/ RecoverActivity \/ PollAssistant \/ PollActivity

Spec == Init /\ [][Next]_vars

(* ARCHITECTURE.md:256: "Completed-source tracking prevents recovered text *)
(* from duplicating durable assistant messages": once both streams are     *)
(* recovered, no text that recovery alone brought is shown as live beside  *)
(* the reply that the Snapshot on display has of it.                       *)
RecoveredTextIsNotDurable ==
    /\ Undefined \notin {tokens.assistant, tokens.activity}
    /\ entry # NoEntry /\ entry.source \notin polled
    => entry.source > view.replies
=============================================================================
