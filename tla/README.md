# Superagent: formal model

Superagent runs one durable conversation per Agent. The Agent is a Dex flow
(`internal/agent/flow.go`): a graph of Steps whose attributes and channels
survive crashes, driven by a Dex worker, and commanded by users through RPCs.
An HTTP API and a browser sit in front of it; model providers and MCP tool
servers sit behind it. This directory holds TLA+ modules of the Agent, TLC
configurations that check them on small instances, and TLAPS proofs of what
holds for every instance. Paths below are relative to `src/`.

## 1. Inventory

| Component | State | Operations | Hard behaviour |
|---|---|---|---|
| **Agent flow** `internal/agent/flow.go`, `types.go` | `AgentState` (status, mode, pending calls and cursor, plan request), `AgentPlan`, four pending attributes, seven channels, the batch of a parallel join | 20 Steps, 7 state-changing RPCs | every RPC may commit between any two commits of the flow; steering abandons work at every boundary; retries, recovery and joins of tools with side effects |
| **Message store** same files, `tools.go` | `CurrentMessages`, `ArchivedMessages`, four sequences, the summary | append/archive, compact, trim, Snapshot, archived pages | several chunks in one Step, boundaries, a reader that pages while retention trims |
| **Inactivity timeout** `flow.go:4260` | `InactivityDeadline`, `ResetInactivityTimer` | a second Dex movement, reset by RPCs and durable waits | the deadline races commands and its own resets; an expiration that was told to the application and not committed |
| **Agent client** `internal/agent/client.go`, `agent/agent.go` | none durable | commands repeated on lock conflicts, Snapshot, ranges of pages, activity streams | a lost answer of a committed command; paging a moving archive |
| **Builtin tools** `internal/toolcontract`, `internal/agent/tools.go` | none | plan, timer and question arguments | – |
| **MCP registry and broker** `internal/mcp` | lifecycle, discovered tools | Start, Close, Definitions, Execute | concurrent Start/Close/Execute, joined discovery |
| **Model providers** `internal/model` | none | encode, stream, decode; call IDs | IDs derived from a context that compaction shortens |
| **HTTP API** `internal/api` | none | translates requests | stream loop |
| **Application** `internal/app` | owned resources | build, run, shut down | failure half way, join before close |
| **Snapshot coordinator** `web/src/snapshot-coordinator.ts` | the read in flight, the trailing trigger, `requiredEpoch`, `dueAt`, the timer | request, setVisible, stop, and the rest of `read` after its load | a response that is older than what was asked for since; timers, failures and visibility changes around a read |
| **Conversation effects** `web/src/Conversation.tsx` | two long polls, the command runner | open, close and join polls; run a command; report rounds and events | polls, reads and commands interrupt each other |
| **Conversation state** `web/src/conversation-state.ts` | the Snapshot on display, optimistic submissions, consumed messages, the pending command | one reducer case per action | the same message arrives by Snapshot, event, page and command, in any order |
| **Rendering** `web/src/*View.tsx`, `web/packages` | none of the protocol | – | – |

How they interact: the client invokes RPCs of the flow; an RPC reads and writes
attributes and publishes to channels in one commit, under attribute locks. A
Step's `WaitFor` commits and names channels or a timer; Dex ends the wait by
consuming a satisfied condition; `Execute` then reads what was consumed and
commits its writes together with the next movement. Tools and models are called
from inside `Execute`, before its commit, so an attempt can have an effect
outside and still be repeated. The API and the browser only see Snapshots,
archived pages and disposable streams.

What makes each component correct: the flow must keep every reply paired with
exactly one result per call, run a tool only when approved and no more often
than the attempts and the user's retries allow, report effects honestly, never
lose or repeat a message, never accept a command for something it left, and come
back to its inputs. The store must find every retained message and drop only
summarised ones, and a reader's pages must join. The browser
must never act on a Snapshot older than what it asked for, must always come back
to listening, and must show each message once. The registry and the application
must not show state of an older generation, and must release everything once. An
Agent expires only when it was inactive, and a caller is told of its command
nothing but what happened to it.

`PROJECT.json` lists every hazard of this kind, at its line, with the properties
that would catch it.

## 2. Modules

| Module | Models | Extends |
|---|---|---|
| `MessageDelivery` | abstract: what an Agent promises of user messages | – |
| `AgentFlow` | the Step graph and the RPCs; implements `MessageDelivery` | – |
| `ProviderRequests` | the requests four provider adapters make of the history | `AgentFlow` |
| `MCAgentFlow` | sets of replies for TLC | `ProviderRequests` |
| `Iteration` | lemmas about loops written as recursive functions | – |
| `AgentFlowCalls` | proofs about types, what is pending, and the calls of a reply: effects, waits, internal errors | `AgentFlow` |
| `AgentFlowHistory` | proofs about the history, plans, the refinement of `MessageDelivery`, and the requests | `AgentFlowCalls`, `ProviderRequests`, `Iteration` |
| `MessageHistory` | the message store and a paging client | – |
| `MessageLoops` | the store's loops, one iteration at a time | `MessageHistory` |
| `MessageHistoryProofs` | proofs about store, loops and pages | `MessageLoops`, `Iteration` |
| `SnapshotCoordinator` | the browser's Snapshot reads and the reducer cases they drive | – |
| `LiveConversation` | polls, commands and the coordinator together | `SnapshotCoordinator` |
| `SnapshotCoordinatorProofs` | proof of the coordinator's safety | `LiveConversation` |
| `ConversationInputs` | the browser's projection of user messages | – |
| `ConversationInputsProofs` | proofs of its safety | `ConversationInputs`, `Iteration` |
| `AssistantText` | the browser's live text of a reply, by two streams and Snapshots | – |
| `AgentInactivity` | the inactivity timeout, its resets, and callers that repeat commands | – |
| `AgentInactivityProofs` | proofs of its safety | `AgentInactivity` |
| `CallIdentity` | approvals of calls whose IDs are derived from the request | – |
| `Application` | the process: build, discovery, serving, shutdown | – |
| `ApplicationProofs` | proofs of its safety | `Application` |

### AgentFlow

The main path of a flow is one movement: `step`, `phase` (`wait_for`, `waiting`,
`execute`), `input` and `attempt`. Parallel tool calls add `branches`, which
publish to `results` and are joined into `batch`. Attributes and channels are
variables with the names of the code: `agent` is `AgentState`, `plan` is
`AgentPlan`, the four pending attributes and the channels follow. `history`
holds the appended messages (user, answer, assistant, tool result); the store
below them is `MessageHistory`'s subject.

What Dex is assumed to do:

- a `WaitFor`, an `Execute` and an RPC each commit all their writes or none; a
  failed attempt leaves nothing but its outside effect (`runs` of the call);
- `AnyOf` ends with one satisfied condition, chosen arbitrarily, and consumes
  it; `AtMost` consumes the whole batch;
- it retries an attempt up to the options of the Step and then takes the
  recovery movement, or fails the run when there is none.

Crash and restart of a worker are covered by these: an attempt that dies is an
attempt that fails or is repeated.

Correspondence and deliberate abstractions:

- An action is one commit. `CheckSteered`, `AwaitToolApproval`,
  `AwaitManualToolRecovery`, `DurableWait` and the join select and execute in
  one action: between selection and `Execute` an RPC can only publish or delete
  what the `Execute` does not read, so the two orders reach the same state.
  `AwaitUser` keeps three phases, since `ExecutePlan` can commit between its
  selection and its `Execute` and changes what that `Execute` does.
- A call ID is the call's position in `issued`; the requests, the number of
  invocations, the user's retries and the verdict are recorded there. An
  execution request is its plan revision. Results are compared by position.
- Token counting is abstracted: when `CompactionChoices` allows, a compaction
  may be due at any turn with at least two messages.
- Arguments are what the router tells apart: valid, invalid, a plan that is
  complete, a plan without tasks.
- Rejected RPCs change nothing and are not actions. Errors a Step would return
  for an inconsistent state are not modelled as failures: `NoInternalError`
  says that none of those conditions can arise.
- `InactivityTimeoutSeconds` is 0; `AgentInactivity` has the timeout. A caller
  repeating `SendMessage` after an unknown outcome is a new message, as in the
  code.
- `step = "Failed"` is reached only by a model Step that exhausts its attempts.
  What is still queued then stays queued: no document promises more, and
  `AcceptedMessageIsTaken` ends there.

`MessageDelivery` is the abstract view: one queue, one steered batch, the turns
taken and the messages deleted, and four operations. `AgentFlow` refines it with
its two channels, and with `TakenMessages`, the user messages of `history`, for
`taken`: every commit of the flow - a steered turn that interrupts calls, a
joined batch, a compaction, a failed attempt - is one operation on the messages
or none (`DeliversMessages`, checked as a property of `tool_sequence` and proved
in `AgentFlowHistory`). `TakenMessages` numbers the user turns of the history by
their rank among its places: the same sequence that a filter of the history
gives, in a form that has no recursion in it and can be reasoned about.

### ProviderRequests

`contextMessages` and the four translations as functions of a list of messages,
evaluated on every history that `AgentFlow` brings to a `CallModel`: whole, and
cut after any reply, which includes every cut that `toolSafeCompactionCutoff`
refuses. OpenAI's items and Groq's messages stay apart; Anthropic and Gemini
join neighbours of one role. `WithoutOrphanToolOutputs` drops the results whose
call was cut off. A message always has text here; texts, arguments and OpenAI's
reasoning items do not matter to the pairing of calls and results. The loops over
messages and parts are recursive functions with the body of the loop as an
operator (`Keep`, `AddTurn`, `AddPart`), which is the form `Iteration` has lemmas
for.

### CallIdentity

Calls in `AgentFlow` are told apart by construction. Gemini and the mock
provider have no call IDs: the code hashes the Flow, the number of messages in
the request, the position, the tool and the arguments. `CallID` is that seed
without its constant parts. The module keeps the Steps a call under approval
passes, one call per reply, and counts what the request holds. OpenAI, Anthropic
and Groq use the provider's IDs and are not concerned.

### AgentInactivity

The second movement of the flow with its phases: `wait_for` and `execute` are
before a method's first attempt, `in_wait_for` and `in_execute` are inside it,
with the `InactivityDeadline` lock held until its commit. Resets come from
accepted commands and from `DurableWait.WaitFor`; the main path is reduced to a
durable wait and to taking one queued message. A command goes from its caller
to the flow and back as a message that can be refused for the lock, for the
closed flow or for the state, and that outlives its caller's patience;
`RepeatedCalls` are those `invokeLockedCommand` repeats, the others return the
conflict. An attempt of `Execute` may fail after the application has handled the
expiration. `activeUntil`, `handledFor`, `isHandled` and `commits` are history.

Assumed of Dex: a method keeps its locks from the first attempt to the commit; a
locked RPC is refused at once while they are held; a wait that ended consumes
the messages of its satisfied condition only. The clock of the callers, of the
worker and of Dex is one.

### Application

`Run` is the main goroutine; Worker and server are two more, each with its result
channel of capacity one, which is `received` once somebody took the value. The
stages of `build` are a sequence of what each opens and whether it can fail;
the discovery of the registry is the second. Requests and Steps in flight are
counters. `overran` records which of the two bounded shutdowns gave up:
`Server.Shutdown` is bounded by the shutdown timeout while a long poll may last
longer, so a handler can outlive the Dex client; `UsedWhileOpen` excludes that
case, it does not rule it out. The Worker's address is free when it is checked
and may be taken before the Worker binds it.

Assumed: `Worker.Stop` makes `Worker.Start` return and `Server.Shutdown` makes
`ListenAndServe` return. The process makes one `Registry.Start` and one `Close`
after it, so the branches for concurrent callers of the registry are not modelled.
A Worker that was constructed is not stopped when a later stage fails, as in the
code; it has not been started then.

### AssistantText

A reply is the invocation that writes it: parts of text to one stream, then
`model_completed` to the other, then its commit. The page loads a Snapshot,
recovers the tail of each stream and polls from there; `entry` is
`state.assistant`, `completed` are the sources of finished model calls in
`state.activities`. Left out: reasoning, failed calls, several runs.

### MessageHistory

`store` holds the sequences of `AgentState` and both attribute maps, `log` every
message ever appended. A stored message is its sequence, because a sequence is
written once; `log` remembers which calls a message makes or answers.
The turns are those of AgentFlow, reduced to what they append: user messages
(`AwaitUser`), a reply with calls (`CallModel`), results one by one or as a
joined batch (`FinishTools`), interrupted results (`InterruptTools`,
`SteerWaiting`, `CheckSteeredSteer`), and the compaction in between. Retention
trims where the code does: when a turn goes to a model call
(`pendingCompactionCutoff`), after each reply (`CallModel`) and after each summary
(`CompactContext`). The cutoff of `compactionCutoff` may lie before any message of the context or after
all of it, which are the results of its token loop for arbitrary counts;
`ToolSafe` is `toolSafeCompactionCutoff`.

The client keeps a `view`, the `older` boundary and the range call in progress
(`page`). Each `GetArchivedMessages` RPC is an action of its own, so the Agent
archives and trims between two chunks of one range.

Appending and trimming are written in closed form (`Moved`, `Trimmable`), which
the proofs need. `MessageLoops` has the loops of the code, one message and one
chunk at a time, and `LoopsAgree` says that in every reachable state both give
the same store.

### SnapshotCoordinator and LiveConversation

The coordinator's fields are variables; `controller` and the epoch that `read`
closes over are `read`, which is sent, then answered by the server (`Answer`) or
failed, then handled (`FinishRead`): three steps of an `async` function, between
which anything else may run. The server is a record of its run, its
waiting-input round and a version that every durable change raises. The reducer
is translated where a coordinator callback reaches it: `Requested`, `Loaded`,
`Failed`. `needed` is history: the version when the last blocking request was
made.

`LiveConversation` adds the effects of `Conversation.tsx`. A command goes
through joining the polls, its request, its commit and its response, and fails
with or without a commit. The polls are open exactly while `canOpenLiveReads`
holds. A waiting-round poll reports a round above its watermark; a Stream poll
brings a control event at any time (an event may precede its commit, which is
why the code asks twice); either poll may fail.

Abstractions: React runs the effects of a state change before the next network
response is handled; an aborted poll settles at once; a control event asks twice
in one turn of the event loop; of a trailing trigger only the presence is kept,
since nothing reads its fields; time is whether `dueAt` has passed.

### ConversationInputs

Messages have the identity the server gave them and a content. `server` has
what `GetSnapshot` reads: both queues, the history (identities at their
sequences) and where its current window starts. The worker consumes a queued
message or the whole steered batch, writing the `input_consumed` event in the
same commit; another client sends, steers and deletes. The browser has the
reducer's `snapshot` (`view`), `optimisticSubmissions` and
`consumedUserMessages`; every reducer case that touches them is an action. An
event may expire before it is received, a response may be lost after its commit.

Left out: plan mode and plan requests, answers to questions, retention,
reads that fail (`LiveConversation` has them) and several runs. The Snapshot
reads are reduced to one read and whether a blocking request followed it. In
`server`, the messages without identity are replies and results. `appendMessage`
and the reducer's filters are recursive functions over the loop bodies
`AppendMessage`, `Claim` and `ClaimSubmission`.

`NotShownTwice` and `NothingVanishes` are stated while `hasHole` is FALSE, i.e.
while every two Snapshots loaded in a row overlapped or joined. Without that
premise they fail for the reason `history_hole` shows: the durable form of a
consumed message may lie in the hole.

Definitions named `Mutant_...` are faulty variants of the definition that
follows them, each with an error a change of the code could introduce. They
document what the properties detect: with the variant in place of the
definition, the property named with it in `PROJECT.json` is violated. No
specification uses them.

## 3. Runs

| Run | Instance | Question |
|---|---|---|
| `tool_sequence` | 2 messages, replies of up to 3 calls that run in parallel, need approval, wait and ask; 2 attempts, 1 user retry | do history, messages, effects, results and waits stay consistent under every interleaving? |
| `plan_turns` | 2 messages (one in plan mode), every kind of plan write, model hooks, failing models, 2 plan requests | does planning run nothing, does a plan start only from a live request, does a stalled plan stop? |
| `progress` | 2 messages, one call of every kind the flow can wait in | do accepted messages, steering and decisions take effect? |
| `message_history` | chunks of 2, retention 4, 9 messages, ranges of 1 and 2 chunks | is every retained message readable, is only summarised history deleted, do the pages join? |
| `live_conversation` | 2 durable changes, 2 runs, 2 rounds, 3 blocking requests by the user or a disconnect, 1 failed read | is an open view fresh, are rounds and changes shown? |
| `conversation_inputs` | 2 messages of 2 contents, history of 4, chunks of 2, so windows of up to 3 | is a message shown twice, does one disappear? |
| `history_hole` | 1 message, history of 4 | violated, see section 5 |
| `inactivity` | a repeated command and one on the queue, 1 durable wait, a timeout of 2 ticks with a minimum extension of 1, 2 attempts, 7 ticks | does the Agent expire only when inactive, finally, and always then; are callers told the truth? |
| `inactivity_reset` | the same | violated |
| `application` | 2 MCP servers, 2 requests, 2 Steps | is what is used open, is what was opened closed, does the process return? |
| `reused_call` | 2 calls, 3 messages, 2 arguments | violated |
| `recovered_text` | 2 replies of 2 parts, recovery of 2 events, 1 reload | violated |

What the passing properties say:

- *History*: `PairedHistory`, `ModelSeesClosedHistory` - results follow their
  reply contiguously and in order, and no model call starts with an open call.
- *Messages*: `DeliversMessages` - the flow implements `MessageDelivery`.
- *Requests*: `RequestsAreAnswered` - in every provider's form of the context
  each call is answered once, in the turn after it.
- *Effects*: `ApprovedEffects`, `BoundedEffects`, `HonestResults`,
  `PlanningRunsNothing`.
- *Waits*: `WaitsCanEnd` (the flow never waits for a decision nobody can make),
  `PendingsMatchStep` (nobody can decide what nothing waits for),
  `NoInternalError`.
- *Plans*: `PlanRequestIsPending`, `PlanStartsOnRequest`, `StalledPlanStops`.
- *Progress*: `AcceptedMessageIsTaken`, `SteeringIsApplied`,
  `AcceptedDecisionEndsWait`.
- *Store*: `RetainedIsReadable`, `TrimmedIsSummarized`, `SnapshotIsBounded`,
  `ContextIsClosed`, `LoopsAgree`.
- *Pages*: `PagesJoin`, `LastPageIsFirstRetained`, `MissingIsTrimmed`.
- *Reads*: `FreshWhenOpen` (the view opens for commands only with a Snapshot
  that saw the last blocking request), `RoundsAreShown` (without the fallback
  timer), `FallbackCatchesUp` (with it: current, open and with no command
  pending).
- *Projection*: `NotShownTwice`, `NothingVanishes`.
- *Inactivity*: `ExpiresOnlyWhenInactive`, `ExpirationIsFinal` (one deadline for
  all attempts, nothing accepted after one succeeded), `InactiveAgentCloses`.
- *Callers*: `OutcomeIsTrue`.
- *Process*: `UsedWhileOpen`, `ReturnsClean`, `RunReturns`.

### Bounds, and why they suffice

- Two messages: one to interrupt with and one to be interrupted; a third would
  only repeat the queueing of the second.
- `MaxCalls` 3 in `tool_sequence`: a parallel wave of two before an approval,
  the reverse, and a second reply after the first sequence ended, which is
  where a leftover decision could match a later batch.
- `MaximumAttempts` 2 and `MaxRecoveryRetries` 1: an attempt that fails after
  its effect, a recovery, and a user's retry of one call of a batch while the
  other is continued.
- `MaxPlanRequests` 2: a request overtaken by a user turn, and the next one.
- `MaxMessages` 9 with chunks of 2 and a retention of 4: four chunks, of which
  up to three are archived and two can be trimmed, a Step that archives two
  chunks at once (a steering that closes two calls and appends two messages),
  and ranges that a trim cuts short. The proofs of section 4 remove these
  bounds for every property of the store and its pages.
- `live_conversation`: two changes and three requests are what it takes to have
  a read in flight, a command that overtakes it and a disconnect or retry after
  that; a second run and a second round, so that either can change under a read
  or a command. The proof removes these bounds for the safety properties.
- `conversation_inputs`: with one content the two messages are matched against
  each other, with two they are not. A history of four with chunks of two is
  archived once, so a Snapshot may begin after a message that was shown, with and
  without a hole. The proofs remove these bounds.
- `inactivity`: the timeout is twice the minimum extension, so a reset may be too
  small to count, and a command, a durable wait and the timer fit around one
  deadline; nobody acts after tick 3 (`LastActivity`), so that the last deadline,
  at most 6 for a durable wait routed then, falls inside the clock. `MaxDelay`
  bounds how long a `WaitFor` may run, which the clock cannot outrun. A second
  repeated command would meet the first only at the lock.
- `application`: with two servers a discovery can end half way; two requests and
  two Steps are one that ends in time and one that does not.
- `reused_call`: the counterexample needs an abandoned call, a compaction and
  one more call. Where a compaction must keep a message, three calls and four
  messages reach it as well.
- `recovered_text`: two replies, so that an older text is still in the stream.
- There is no symmetry reduction: messages differ by plan mode in one run, and
  the others are small enough.

Deadlock is not checked. In the browser modules a conversation is left for good
or the bounds are used up; in AgentInactivity and Application the flow and the
process end. In AgentFlow an Agent whose users stay silent waits
forever, and a failed run stops; in MessageHistory the bound on messages stops
the turns. That waits can end is checked by `WaitsCanEnd` and `progress` instead.

### Fairness

The flow has `WF_vars(Worker)` in `progress`: the worker runs enabled Steps,
satisfied waits and due timers. Dex guarantees this to a running flow by
persisting movements and timers and retrying attempts. No user command is fair:
the properties end in states where the flow waits for a decision, and say
nothing of users who never decide. Weak fairness of the union is enough, as a
main path has one movement and branches end after finitely many attempts; no
fairness is assumed of the choice of a condition in `AnyOf`.

In `live_conversation` the network answers reads and commands and reports
rounds, and `read` goes on after its answer: these five actions are weakly fair,
each alone, as each is one promise that settles. Users, events, failures and
visibility changes are not fair. `ConversationSpec` does not assume that the
fallback timer fires, so `RoundsAreShown` holds without it; `FallbackCatchesUp`
has the browser's clock and timers (`TimerFairness`) as a premise. Both are
about conversations that are visible from some time on. `conversation_inputs`
checks safety only.

In `inactivity` the movement (`WF_vars(InactivityTimeout)`) and the clock are
weakly fair: Dex runs due movements and time passes. Users, callers and the main
path are not, so `InactiveAgentCloses` holds for an Agent nobody talks to. It says
closed, not completed: an expiration that fails in its last attempt fails the
flow, as does the one of `inactivity_reset`. In `application` the main goroutine
runs, and Worker and server return when they are told to; requests, Steps and
the signal are not fair, and a shutdown may give up on them at any time.

## 4. Proofs

All proofs are checked by TLAPS with SMT, Zenon and LS4. Every theorem holds for
every value of the constants its assumptions allow: any sets of messages and
tools, any policies, attempts, chunk sizes and bounds.

### AgentFlow

The invariants are proved in layers, each on top of the ones before: types, what
is pending, the calls at the cursor, the history, the plans, the messages, the
requests. In every layer of the invariant a lemma per group of actions (`UserCommand`, `UserBoundary`,
`ModelTurn`, `Routed`, `ToolWait`, `ToolRun`, `Recovery`) shows that it keeps the
invariant.

**`AgentFlowCalls!TypeCorrect`**: `Spec => []TypeOK`. One lemma per helper of
the model (what `BeginSteeredTurn`, `ApplyReply`, `FinishBatch` ... return), then
one per group of actions.

**`AgentFlowCalls!PendingsFollowTheFlow`**: `Spec => []PendingsMatchStep`. The
property is not inductive. For approvals, timers and questions the missing part
is that an answer accepted before `AwaitUser.WaitFor` runs leaves exactly one
entry in its channel and no second question (`AnswerMatchesStep`). For
recoveries the argument is about time: a decision may stay in its channel
forever, when steering ended the wait it was made for. It can never match a later
batch because a recovery ID contains the sequence of the batch, and decisions
only exist for batches that began before the present end of the history. The
invariant says so, and the proof shows that every Step that starts a batch makes
the history longer first.

**`AgentFlowCalls`**: six more theorems from one invariant, `AgentInv`. Its centre is
`CursorInv`: the calls an Agent works on are the last ones issued, so a call is
settled exactly if its number is at most `Settled`, and the next one is the call
at the cursor. With it each question becomes one about numbers:

- `InternalErrorsUnreachable` (`NoInternalError`): `CursorInv`, `BatchInv` (each
  unfinished record has one branch or one result, and never both) and
  `InputInv` (a Step that needs an earlier Step's input has it).
- `EffectsAreApproved` (`ApprovedEffects`): `ApprovalInv` says which decisions can
  be in the channel - for settled calls, or for the one at the cursor - and that
  each says what the user said; `RunInv`, that beyond the settled calls only the
  one at the cursor or those of the batch have run. A decision for an abandoned
  call is still there, and is for a settled call.
- `EffectsAreBounded` (`BoundedEffects`): `CountInv` accounts for every execution; a
  recovery decision in its channel has already paid for the retries it asks for,
  whichever of its batch is still resolvable.
- `EveryWaitCanEnd` (`WaitsCanEnd`): a wait's pending attribute is set, or its
  decision is published.
- `PlanningIsReadOnly` (`PlanningRunsNothing`): `ToolInv`; a draft exists in
  planning turns only.
- `PlanRequestNeverWedges` (`PlanRequestIsPending`).

**`AgentFlowHistory`**: `HistoryIsPaired` (`PairedHistory`), `ModelSeesNoOpenCall`
(`ModelSeesClosedHistory`), `ResultsAreHonest` (`HonestResults`), `StalledPlansStop`
(`StalledPlanStops`), and of steps `PlansStartOnRequest` (`PlanStartsOnRequest`).
`HistoryInv` fixes where things are: the results of a reply follow it one by one,
only the reply `agent.index` entries before the end may lack some, and it is the
one whose calls are at the cursor. So a Step that answers the next calls, or
answers all of them at once, continues the pairing. `HonestInv` says of each
result what was true of its call when it was written, and `RunInv` that no
settled call runs later. `PlanInv` bounds what the model path may find at the end
of the history: a reply without calls there has been counted, or the user asked
since.

**`AgentFlowHistory!MessagesAreDelivered`**: `Spec => DeliversMessages`, the
refinement of `MessageDelivery`. Most steps are `Quiet`: what they append begins
no user turn, so `TakenMessages` stays. `SelectionInv` says that `AwaitUser` holds
messages only between the end of its wait and its `Execute`; the step that
selects them is the abstract one that takes them, and the step that writes them
to the history is a stutter. That a message is accepted only once needs
`Delivery!Known \subseteq accepted`.

**`AgentFlowHistory!RequestsAnswered`**: `Spec => []RequestsAreAnswered`, the
composition of `contextMessages`, the orphan filter and each adapter, over a
history of any length and cut after any reply. At `CallModel` no call is open, so
`HistoryInv` says that every reply has all its results right after it
(`RepliesAreClosed`). The argument is one induction along the loop of
`withoutOrphanToolOutputs` (`ContextKept`). Its invariant `Follows` relates three
things after p entries of the history: the calls the loop knows, the calls that
each translation of what it kept leaves open, and the entries that come next -
they begin with the results of exactly those calls. So a reply or a user message
finds nothing open, a result either closes the first open call (`FirstOpen`) or
belongs to a reply that was cut off and is dropped, and at the end of the history
nothing is left. `Translated` carries the four translations through each step:
OpenAI's items and Groq's messages by their parts alone, Anthropic's and Gemini's
turns by `AnsweredSoFar`, which says of every reply that it is the last turn, or
has the results so far in the user turn after it, or has all of them there.

### Message store

**`MessageHistoryProofs`**: nine theorems, for every chunk size, every retention
limit the assumptions allow, and any number of messages per Step:
`MessageTypes`, `RetainedMessages`, `TrimmedMessages`, `BoundedSnapshot`,
`JoinedPages`, `CompletePages`, `OnlyTrimmedIsMissing`, `ModelSeesClosedContext`,
each for the property of the run it is listed with. The inductive invariant of
the store (`StoreInv`) says where the maps are cut: both bounds of the archive
are 1 plus a multiple of the chunk size, the archive maps exactly those starts
between them to whole chunks, `currentMessages` is the rest and keeps at least
one chunk after the first archiving, and what is gone was summarised. That the
bounds are starts is what makes the computed key of `messageAt` the key that was
written. The invariant of the reader (`ReaderInv`) says that its boundary is a
start that was once archived; since both bounds only move forward (`AgentMoves`),
a boundary stays valid or its chunk is trimmed, whatever the Agent does meanwhile.

`ModelSeesClosedContext` (`ContextIsClosed`) is about the cutoff. `ContextInv` says
that a reply and its results are an interval of sequences, that only the last
reply can lack results - exactly those `pending` counts - and that no summary
ends inside such an interval. `ToolSafeCloses` is the lemma on
`toolSafeCompactionCutoff`: the first reply without all its results before the
requested end cannot itself be a result, so no earlier interval reaches it, and
the cutoff right before it splits nothing, wherever the token budget cuts.

`FormulasAreTheLoops` (`LoopsAgree`): the formulas with which the model appends and
trims in one step compute what the loops of the code compute. Each is an
induction over the iterations: after i of them the store is the formula's for i
messages, or for as many chunks as may go by then; the trimming loop has ended
when it has run as often as there are messages.

### Browser

**`SnapshotCoordinatorProofs!ConversationIsFresh`**: `ConversationSpec =>
[](TypeOK /\ FreshWhenOpen /\ Refreshing)`, for all bounds. `FreshWhenOpen` is
strengthened by what a read in flight may be: its epoch is never ahead of
`requiredEpoch`, and if it has the required epoch and was answered, its answer
is at least as new as `needed`, because the server only moves forward. The view
can be open only between a Snapshot of the required epoch and the next blocking
request.

**`ConversationInputsProofs`**: `MessagesAreShownOnce` (`NotShownTwice`) and
`ToldMessagesStay` (`NothingVanishes`), from the inductive `InputsInv`
(`InputsInvariant`), for every chunk size and any number of messages. Everything is
located in the server's history, where a message is at most once and never moves.
`ServerInv`: a message waits in one queue or is in the history. `EventsInv` and
`HeardInv`: an event names consecutive places, later than those of the events
before it. `HistoryInv`: without a hole the history on display is one interval
that ends at the last Snapshot. `ConsumedInv`: the consumed entries are at
increasing places, each later than `consumedAfterSequence` and, without a hole,
later than the last Snapshot. `ToldInv`: a message the browser was told of is in
the history on display or at a later place, a current Snapshot knows every such
message, and an open view that is not waiting for a command shows it.

The step that needs most of it is the arrival of a Snapshot
(`StillConsumedAreLater`). `reconcileConsumedUserMessages` matches by content, so an
entry may claim the durable form of another message. The lemma shows that this is
harmless: entries are claimed in the order of their places, so by the time an
entry looks for a match the earlier entries have claimed no place later than
their own, its own place is still free, and it finds that or an earlier one.
Exactly the entries later than the Snapshot stay.

`TypeCorrect` (`TypeOK`) adds `OptimisticInv`: an optimistic submission knows only of
messages the server has accepted, and what `reconcileOptimisticSubmissions` leaves
of the submissions are submissions (`StillOptimisticType`, over the same kind of
loop).

### Inactivity

**`AgentInactivityProofs`**: each theorem has an invariant of its own, next to
`TypeCorrect`.

- `OutcomesAreTrue` (`OutcomeIsTrue`): a request on the network is of a command
  that has not been committed, and its caller waits for it or gave up; a reply
  says what the flow did. A command is repeated only after a conflict, which
  committed nothing.
- `ExpiresWhenInactive` (`ExpiresOnlyWhenInactive`): while the flow is open the
  deadline is at least the timeout, less the minimum extension, after the last
  activity; the timer of a wait fires no earlier than the deadline its input
  names; and if `Execute` finds the deadline equal to its input, it is that one.
- `ExpirationHolds` (`ExpirationIsFinal`): once an attempt told the application, the
  flow is closed or still in the locked `Execute` that did, so no command is
  accepted and the deadline stays.

### Application

**`ApplicationProofs`**: `DependenciesOutliveUse` (`UsedWhileOpen`) and `RunCleansUp`
(`ReturnsClean`), from an invariant per place of `main`: `OpenedInv` (what the
stages up to the present one have opened), `GoroutineInv` (goroutines exist only
while main serves, and each result is in its channel until it is received) and
`DrainedInv` (what is in flight once main stopped waiting for it).

### Assumptions

The assumptions are those on the constants: tools are named apart, limits are
positive, the minimum extension is less than the timeout, the retention limit is
a multiple of the chunk size and at least the limit of current messages, as
`AgentConfig` is validated.

### Only model-checked

- All liveness (`AcceptedMessageIsTaken`, `SteeringIsApplied`,
  `AcceptedDecisionEndsWait`, `RoundsAreShown`, `FallbackCatchesUp`,
  `InactiveAgentCloses`, `RunReturns`): TLAPS has no `ENABLED`, which fairness
  needs.
- That a bounded instance reaches the interesting cases, which a theorem cannot
  say: every action fires in a run, and the faulty variants are found.

Every safety property of a passing run is a theorem. The
library's induction theorems take an operator as a parameter, which the provers
cannot instantiate. `Iteration` does without: a loop is a recursive function, a set
of naturals without a least element is empty (`HasLeast`), and so the steps up to n
are in a set that contains the first and with every step the next (`UpTo`). A
loop body as a function of its state and its element makes the existence of the
recursive function (`RunExists`) and its values on a longer sequence
(`RunOfLonger`) lemmas about any loop.

## 5. Where code and documents differ

With a run, whose counterexample shows it:

- `inactivity_reset`: an accepted command publishes a reset and moves the
  deadline; if the timer of the running wait ends it first, or had ended it, the
  movement is postponed by the new deadline and the reset stays in its channel.
  The next `WaitFor` resolves at once because of it (flow.go:4283), and its
  `Execute`, whose deadline is the current one and whose timer has not fired,
  returns "inactivity wait completed without a reset or deadline". Every attempt
  reads the same and holds the lock, so commands are refused for as long as the
  retries last, and the flow fails at their end. `docs/flow-model.md` says of
  this Step "Coalesce reset deadlines, invoke the application handler under
  bounded retry, and force-complete only after success".
- `reused_call`: a decision accepted before steering abandons its call stays in
  `ToolApprovals`. After a compaction a request can have as many messages as the
  one of that call had, and a call of the same tool with the same arguments gets
  its ID: it runs with the old approval. `docs/flow-model.md` says "A steered
  message clears stale approval, timer, and pending input state".
- `recovered_text`: ARCHITECTURE.md says "Completed-source tracking prevents
  recovered text from duplicating durable assistant messages". The check looks at
  the status too: while the tools of a reply run, a page that is loaded shows the
  reply twice, until its next Snapshot.
- `history_hole`: `docs/flow-model.md` says "Snapshot repairs any durable
  projection missed because an event expired or a connection failed." The
  messages between two Snapshots that do not overlap are not repaired: the
  history on display skips them, and the next page is asked for from its
  oldest message.

Each of the following is stated by a definition, and TLC refutes it when the
definition is added to the INVARIANTS, or for an action formula to the
PROPERTIES, of the configuration named:

- `AgentFlow!AnswerReachesModelFirst` (`Progress.cfg`): ADR 0005 says of
  `AnsweredInput` "That Step starts the answer's model turn before either queue."
  When that turn compacts first, `CompactContext` ends in `CheckSteered` and
  steering is applied before the model sees the answer.
- `AgentFlow!OneRecoveryCommandCommits` (`ToolSequence.cfg`): ADR 0013 says "a
  recovery decision and steering cannot both commit." Steering accepted while the
  batch still runs is in its channel when the recovery wait begins, and a decision
  is accepted as well. The other properties hold in that state: whichever is
  consumed first, the other is harmless.
- `AgentFlow!SteeredRecoveryReturnsToUser` (`ToolSequence.cfg`): ARCHITECTURE.md
  says that steering a recovery "returns to user input without invoking the
  model." It continues to the model.
- `MessageHistory!RetentionBoundsArchive` (`MessageHistory.cfg`): ADR 0014 says
  "Retention remains the bound on loaded archive state." Retention pressure asks
  for a compaction, but the cutoff is chosen by tokens alone; when everything
  since the last summary fits the tokens to keep, nothing is summarised, nothing
  is trimmed, and the archive grows past the limit.
- `LiveConversation!NoLiveReadDuringMutation` (`LiveConversation.cfg`):
  `web/README.md` says "Every command cancels and joins live polls before issuing
  its mutation request". A read that was sent before the command and answered
  after the Agent continued as a new run resets `pendingCommand`, and the polls
  open again during the request.
- `AgentInactivity!ConflictMeansNotPending` (`Inactivity.cfg`): `handler.go` answers
  a refused deletion or steering with "the queued message is no longer pending".
  The timeout's lock refuses them too, and the message is still there.

Seen while modelling, and not stated by any property:

- After a compaction the context may start with a reply or hold system messages
  only, and an automatic plan retry ends it with a reply. Anthropic and Gemini
  document that conversations start with a user turn; the adapters do not add one.
- A locked command that failed for any reason but a lock conflict is not
  repeated, and a user who sends the message again sends a second message.
- A Snapshot with durable progress that arrives while a later reply is being
  written clears what was shown of that reply; the rest appears without its
  beginning.
- `InactivityTimeout.Execute` writes `AgentState` without a lock on it.

## 6. Not modelled

- Reasoning text, activity rows and plan progress in the browser: disposable
  streams, never read back by the flow.
- Answers, plan mode and the composer in `ConversationInputs`.
- Parsing of provider replies, JSON schemas, HTTP translation, configuration,
  generated code, rendering: no state, or single-value validation. Generated
  code is more than half of the Go code of the repository.
- Sessions and broker tools of the MCP registry, and its branches for concurrent
  callers, which the process does not have.
- `AgentState` in `AgentInactivity`: whether an expiration that is retried writes
  back a state older than what the main path has committed depends on what a
  retried movement of Dex reads.
- The text of results and summaries.

## 7. Plan

1. `AgentInactivity` with `AgentState` and two durable operations of the main path.
2. Answers and plan mode in `ConversationInputs`; the timeline that pairs calls
   with results (`pairToolCalls.ts`, `conversationTimeline.ts`) against it.
3. An abstract archive - a sequence with a readable suffix - with `MessageHistory`
   as its refinement.
