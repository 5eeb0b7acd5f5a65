-------------------------- MODULE ProviderRequests --------------------------
(***************************************************************************)
(* What CallModel sends: contextMessages composes the history with system  *)
(* messages, and each provider adapter translates that to its own form.    *)
(* The adapters are pure; they are evaluated on the histories AgentFlow    *)
(* reaches, whole and cut.                                                 *)
(*                                                                         *)
(* A request is a sequence of turns, each a role and its parts.  Texts,    *)
(* arguments and OpenAI's reasoning items are abstracted; a message has    *)
(* always a text, which at most adds a part without a call or a result.    *)
(***************************************************************************)
EXTENDS AgentFlow

Text == [kind |-> "text"]
CallPart(call) == [kind |-> "call", call |-> call]
ResultPart(call) == [kind |-> "result", call |-> call]
CallParts(message) == [i \in 1..Len(message.calls) |-> CallPart(message.calls[i])]

-----------------------------------------------------------------------------
(* AgentMessage: an answer is a user message.                              *)
SystemMessage == [role |-> "system", calls |-> <<>>]
AgentMessage(e) ==
    CASE e.role = "assistant" -> e
      [] e.role = "tool" -> [role |-> "tool", calls |-> <<>>, call |-> e.call]
      [] OTHER -> [role |-> "user", calls |-> <<>>]

(* The instruction, the summary, the messages since it and the plan.       *)
ContextMessages(first) ==
    LET Optional(isPresent) == IF isPresent THEN <<SystemMessage>> ELSE <<>>
    IN  Optional(agent.mode # "planning") \o Optional(first > 1) \o
        [i \in 1..(Len(history) - first + 1) |-> AgentMessage(history[first + i - 1])] \o
        Optional(agent.mode = "planning" \/ plan.status # "none")

(* A result is left out unless its call came before and has no result yet. *)
Keep(filtered, message) ==
    CASE message.role # "tool" ->
             [known |-> filtered.known \cup ToSet(message.calls),
              kept |-> Append(filtered.kept, message)]
      [] message.role = "tool" /\ message.call \in filtered.known ->
             [known |-> filtered.known \ {message.call},
              kept |-> Append(filtered.kept, message)]
      [] OTHER -> filtered
Mutant_KeepsOrphans(messages) == messages
WithoutOrphanToolOutputs(messages) ==
    LET filtered[i \in 0..Len(messages)] ==
            IF i = 0 THEN [known |-> {}, kept |-> <<>>]
            ELSE Keep(filtered[i - 1], messages[i])
    IN  filtered[Len(messages)].kept

Parts(message) ==
    IF message.role = "tool" THEN <<ResultPart(message.call)>>
    ELSE <<Text>> \o CallParts(message)

-----------------------------------------------------------------------------
(* openAIInput: every part is an item of its own.                          *)
Items(message) ==
    [i \in 1..Len(Parts(message)) |->
        [role |-> message.role, parts |-> <<Parts(message)[i]>>]]
OpenAIInput(messages) ==
    LET filtered == WithoutOrphanToolOutputs(messages)
    IN  FlattenSeq([i \in 1..Len(filtered) |-> Items(filtered[i])])

(* groqMessages: one for each message, after the system prompt.            *)
GroqMessages(messages) ==
    LET filtered == <<SystemMessage>> \o WithoutOrphanToolOutputs(messages)
    IN  [i \in 1..Len(filtered) |->
            [role |-> filtered[i].role, parts |-> Parts(filtered[i])]]

(* appendAnthropicMessage and appendGeminiContent: a part joins a turn of  *)
(* the same role.                                                          *)
AppendPart(turns, role, part) ==
    IF turns # <<>> /\ Last(turns).role = role
    THEN Append(Front(turns), [role |-> role, parts |-> Append(Last(turns).parts, part)])
    ELSE Append(turns, [role |-> role, parts |-> <<part>>])

(* anthropicMessages and geminiContents: system messages go to the prompt, *)
(* results and user messages become parts of a user turn, and a reply is a *)
(* turn of its own.  Gemini pairs a result with its call by tool name and  *)
(* order, Anthropic by ID.                                                 *)
AddTurn(turns, message) ==
    CASE message.role = "system" -> turns
      [] message.role = "user" -> AppendPart(turns, "user", Text)
      [] message.role = "assistant" ->
             Append(turns, [role |-> "assistant", parts |-> Parts(message)])
      [] message.role = "tool" -> AppendPart(turns, "user", ResultPart(message.call))
Turns(messages) ==
    LET turns[i \in 0..Len(messages)] ==
            IF i = 0 THEN <<>> ELSE AddTurn(turns[i - 1], messages[i])
    IN  turns[Len(messages)]
AnthropicMessages(messages) == Turns(WithoutOrphanToolOutputs(messages))
GeminiContents(messages) == Turns(WithoutOrphanToolOutputs(messages))

-----------------------------------------------------------------------------
PartsOf(turns) == FlattenSeq([i \in 1..Len(turns) |-> turns[i].parts])
CallsIn(parts, kind) ==
    LET calls[i \in 0..Len(parts)] ==
            IF i = 0 THEN <<>>
            ELSE IF parts[i].kind = kind THEN Append(calls[i - 1], parts[i].call)
            ELSE calls[i - 1]
    IN  calls[Len(parts)]

(* The calls still open after the parts, NoCall before them once a result  *)
(* was not that of the first open call or a text came between.             *)
AddPart(open, part) ==
    CASE part.kind = "call" -> Append(open, part.call)
      [] part.kind = "result" /\ open # <<>> /\ Head(open) = part.call -> Tail(open)
      [] part.kind = "text" /\ open = <<>> -> open
      [] OTHER -> <<NoCall>> \o open
OpenCalls(parts) ==
    LET open[i \in 0..Len(parts)] ==
            IF i = 0 THEN <<>> ELSE AddPart(open[i - 1], parts[i])
    IN  open[Len(parts)]

(* Every call of a request has one result, in the order of the calls, and  *)
(* no text comes between a reply's calls and the last of their results.    *)
IsAnswered(turns) == OpenCalls(PartsOf(turns)) = <<>>

(* The turn after one with calls has all their results, and only those.    *)
IsAnsweredInNextTurn(turns) ==
    \A i \in DOMAIN turns :
        LET calls == CallsIn(turns[i].parts, "call")
        IN  calls # <<>> => /\ i < Len(turns) /\ turns[i + 1].role = "user"
                            /\ CallsIn(turns[i + 1].parts, "result") = calls

(* All of the history, and what is left of it after any reply: where a     *)
(* compaction that separated a reply from its results would have cut it.   *)
FirstMessages == {1} \cup {i + 1 : i \in {k \in DOMAIN history : history[k].role = "assistant"}}

(* Whatever happened in the turns before - steering, failures, refusals,   *)
(* recovery, joined batches - the request CallModel makes of any provider  *)
(* answers each tool call exactly once, directly after the reply that      *)
(* asked for it, in its order, and no result lacks its call.               *)
RequestsAreAnswered ==
    step = "CallModel" =>
        \A first \in FirstMessages :
            LET messages == ContextMessages(first)
                byID == AnthropicMessages(messages)
                byOrder == GeminiContents(messages)
            IN  /\ IsAnswered(OpenAIInput(messages)) /\ IsAnswered(GroqMessages(messages))
                /\ IsAnswered(byID) /\ IsAnsweredInNextTurn(byID)
                /\ IsAnswered(byOrder) /\ IsAnsweredInNextTurn(byOrder)
=============================================================================
