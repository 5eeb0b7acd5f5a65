--------------------------- MODULE MessageHistory ---------------------------
(***************************************************************************)
(* The message store of the Agent: currentMessages and archivedMessages,   *)
(* how appendMessage archives, how compaction chooses its cutoff and how   *)
(* retention trims, together with a client that reads a Snapshot and then  *)
(* pages backwards through the archive while the Agent works.              *)
(*                                                                         *)
(* A stored message is represented by its sequence: each sequence is       *)
(* written once.  Token counts are abstracted: a compaction may be due at  *)
(* any time and its token budget may cut anywhere in the context.  The     *)
(* turns are those of AgentFlow, reduced to what they append.              *)
(***************************************************************************)
EXTENDS Integers, FiniteSets, SequencesExt

CONSTANTS
    ChunkSize,        \* archiveMessageChunkSize
    RetentionLimit,   \* MessageRetentionLimit
    RangeLimits,      \* the limits a client asks GetArchivedMessageRange for
    MaxCallsPerReply, \* bound: tool calls of one model reply
    MaxSteered,       \* bound: messages one steering wait consumes
    MaxMessages       \* bound: messages appended in one behaviour

CurrentMessageLimit == 2 * ChunkSize

ASSUME ChunkAssumption == ChunkSize \in Nat \ {0}
ASSUME RetentionAssumption ==
    /\ RetentionLimit \in Nat
    /\ RetentionLimit >= CurrentMessageLimit /\ RetentionLimit % ChunkSize = 0
ASSUME RangeAssumption ==
    \A limit \in RangeLimits :
        limit \in Nat /\ limit >= ChunkSize /\ limit % ChunkSize = 0
ASSUME BoundAssumption == {MaxCallsPerReply, MaxSteered, MaxMessages} \subseteq Nat

VARIABLES
    store,   \* the sequences of AgentState and both attribute maps
    log,     \* every message appended, by sequence
    turn,    \* where the flow is: a Step, or the input of CheckSteered
    pending, \* the reply whose calls lack a result, and how many do
    cutoff,  \* the input of CompactContext
    view,    \* the sequences a client holds, oldest first
    older,   \* its NextBeforeSequence, 0 when there is none
    page     \* the GetArchivedMessageRange call in progress

flow == <<store, log, turn, pending, cutoff>>
reader == <<view, older, page>>
vars == <<flow, reader>>

-----------------------------------------------------------------------------
(* Messages: `calls' is the number of tool calls of a reply, `of' the      *)
(* sequence of the reply whose call a result answers.                      *)
UserMessage == [calls |-> 0, of |-> 0]
Reply(calls) == [calls |-> calls, of |-> 0]
ResultOf(sequence) == [calls |-> 0, of |-> sequence]
UserMessages(n) == [i \in 1..n |-> UserMessage]

NoCalls == [reply |-> 0, calls |-> 0]
Results(n) == [i \in 1..n |-> ResultOf(pending.reply)]

-----------------------------------------------------------------------------
(* The store.  `current' holds the keys of currentMessages, `archived'     *)
(* maps the first sequence of a chunk to the sequences in it.              *)
NewStore == [first |-> 1, currentFirst |-> 1, last |-> 0, summarized |-> 0,
             current |-> {}, archived |-> [key \in {} |-> <<>>]]

(* appendMessage called for n messages, each call archiving a chunk when   *)
(* currentMessages reaches its limit: Moved messages leave it in all.      *)
Mutant_ArchivesPastTheLimit(s, n) ==
    LET count == s.last + n - s.currentFirst + 1
    IN  IF count <= CurrentMessageLimit THEN 0 ELSE ((count \div ChunkSize) - 1) * ChunkSize
Moved(s, n) ==
    LET count == s.last + n - s.currentFirst + 1
    IN  IF count < CurrentMessageLimit THEN 0 ELSE ((count \div ChunkSize) - 1) * ChunkSize
Chunk(key) == [i \in 1..ChunkSize |-> key + i - 1]
Leaving(s, n) == s.currentFirst..(s.currentFirst + Moved(s, n) - 1)
NewKeys(s, n) == {key \in Leaving(s, n) : (key - s.currentFirst) % ChunkSize = 0}
Appended(s, n) ==
    [s EXCEPT !.last = s.last + n,
              !.currentFirst = s.currentFirst + Moved(s, n),
              !.current = (s.current \cup (s.last + 1)..(s.last + n)) \ Leaving(s, n),
              !.archived = [key \in DOMAIN s.archived \cup NewKeys(s, n) |->
                               IF key \in NewKeys(s, n) THEN Chunk(key)
                               ELSE s.archived[key]]]

(* trimSummarizedMessages deletes the oldest chunks while more messages    *)
(* than the limit are retained and the chunk is summarised as a whole.     *)
Mutant_TrimsBelowTheLimit(s) ==
    LET bound == Min({s.currentFirst - 1, s.last - RetentionLimit,
                      s.summarized - ChunkSize + 1})
    IN  ((bound - s.first) \div ChunkSize + 1) * ChunkSize
Mutant_TrimsPartlySummarized(s) ==
    LET bound == Min({s.currentFirst - 1, s.last - RetentionLimit, s.summarized})
    IN  IF bound < s.first THEN 0 ELSE ((bound - s.first) \div ChunkSize + 1) * ChunkSize
Trimmable(s) ==
    LET bound == Min({s.currentFirst - 1, s.last - RetentionLimit,
                      s.summarized - ChunkSize + 1})
    IN  IF bound < s.first THEN 0 ELSE ((bound - s.first) \div ChunkSize + 1) * ChunkSize
Trimmed(s) ==
    LET first == s.first + Trimmable(s)
    IN  [s EXCEPT !.first = first,
                  !.archived = [key \in {k \in DOMAIN s.archived : k >= first} |->
                                   s.archived[key]]]

(* messageAt: the message stored for a sequence, 0 when there is none.     *)
Mutant_ChunkKeyFromZero(sequence) == (sequence \div ChunkSize) * ChunkSize + 1
ChunkKey(sequence) == ((sequence - 1) \div ChunkSize) * ChunkSize + 1
MessageAt(s, sequence) ==
    LET key == ChunkKey(sequence)
        index == sequence - key
    IN  IF sequence >= s.currentFirst
        THEN IF sequence \in s.current THEN sequence ELSE 0
        ELSE IF key \in DOMAIN s.archived /\ index \in 0..(Len(s.archived[key]) - 1)
             THEN s.archived[key][index + 1] ELSE 0

-----------------------------------------------------------------------------
(* Compaction.                                                             *)
ContextStart(s) == Max({s.first, s.summarized + 1})

(* toolSafeCompactionCutoff: not between a reply and a result of it.       *)
Mutant_CutsAnywhere(messages, start, end) == end
ToolSafe(messages, start, end) ==
    LET answers(r) == {q \in start..end : messages[q].of = r}
        unanswered == {r \in start..end : Cardinality(answers(r)) < messages[r].calls}
    IN  IF unanswered = {} THEN end ELSE Min(unanswered) - 1

(* compactionCutoff: the token budget may cut before any message of the    *)
(* context, or after all of it.                                            *)
Cutoffs(s, messages) ==
    IF ContextStart(s) >= s.last THEN {}
    ELSE {ToolSafe(messages, ContextStart(s), end) : end \in (ContextStart(s) - 1)..s.last}

(* Where CheckSteered and AnsweredInput go once store and log are these:   *)
(* pendingCompactionCutoff trims, then compacts or calls the model.        *)
GoToCompactContext(s, messages) ==
    /\ log' = messages
    /\ store' = Trimmed(s)
    /\ \/ /\ turn' = "call_model_step" /\ cutoff' = 0
       \/ /\ turn' = "compact_step"
          /\ cutoff' \in {end \in Cutoffs(Trimmed(s), messages) : end > s.summarized}

AppendAndGoTo(messages, next) ==
    /\ Len(log) + Len(messages) <= MaxMessages
    /\ log' = log \o messages
    /\ store' = Appended(store, Len(messages))
    /\ turn' = next
    /\ UNCHANGED <<cutoff, reader>>

-----------------------------------------------------------------------------
(* What the Steps append.                                                  *)

(* A queued message, an answer, or all steered messages; ExecutePlan       *)
(* begins a turn without a message.  AnsweredInput ignores steering here,  *)
(* which changes nothing in the store that a queued message could not.     *)
AwaitUser(n) ==
    /\ turn = "await_user" /\ n \in 0..MaxSteered
    /\ AppendAndGoTo(UserMessages(n), "compact_context")
    /\ UNCHANGED pending

(* CheckSteered finds steering at any of its inputs: interrupted results   *)
(* for the open calls, the messages, and the compaction of this turn.      *)
CheckSteeredSteer(n) ==
    /\ turn \in {"compact_context", "call_model", "route_tool"} /\ n \in 1..MaxSteered
    /\ LET messages == Results(pending.calls) \o UserMessages(n)
       IN  /\ Len(log) + Len(messages) <= MaxMessages
           /\ GoToCompactContext(Appended(store, Len(messages)), log \o messages)
    /\ pending' = NoCalls
    /\ UNCHANGED reader

CheckSteeredContinue ==
    /\ \/ turn = "compact_context" /\ GoToCompactContext(store, log)
       \/ turn = "call_model" /\ turn' = "call_model_step" /\ UNCHANGED <<store, log, cutoff>>
    /\ UNCHANGED <<pending, reader>>

CompactContext ==
    /\ turn = "compact_step"
    /\ store' = Trimmed([store EXCEPT !.summarized = cutoff])
    /\ turn' = "call_model" /\ cutoff' = 0
    /\ UNCHANGED <<log, pending, reader>>

(* A reply is appended, and retention trims after it.  A reply without     *)
(* calls ends the turn or is retried for an active plan.                   *)
CallModel(calls) ==
    /\ turn = "call_model_step" /\ calls \in 0..MaxCallsPerReply
    /\ Len(log) < MaxMessages
    /\ log' = log \o <<Reply(calls)>>
    /\ store' = Trimmed(Appended(store, 1))
    /\ turn' \in IF calls > 0 THEN {"route_tool"} ELSE {"await_user", "call_model"}
    /\ pending' = IF calls = 0 THEN NoCalls ELSE [reply |-> Len(log) + 1, calls |-> calls]
    /\ UNCHANGED <<cutoff, reader>>

(* One result, or those of a joined batch.                                 *)
FinishTools(n) ==
    /\ turn = "route_tool" /\ n \in 1..pending.calls
    /\ AppendAndGoTo(Results(n), IF n < pending.calls THEN "route_tool" ELSE "compact_context")
    /\ pending' = IF n < pending.calls THEN [pending EXCEPT !.calls = @ - n] ELSE NoCalls

(* A question, or a stopped recovery, ends the sequence.                   *)
InterruptTools ==
    /\ turn = "route_tool"
    /\ AppendAndGoTo(Results(pending.calls), "await_user")
    /\ pending' = NoCalls

(* Steering that ends an approval, timer or recovery wait.                 *)
SteerWaiting(n) ==
    /\ turn = "route_tool" /\ n \in 1..MaxSteered
    /\ AppendAndGoTo(Results(pending.calls) \o UserMessages(n), "compact_context")
    /\ pending' = NoCalls

-----------------------------------------------------------------------------
(* The client.                                                             *)
NoPage == [limit |-> 0, before |-> 0, messages |-> <<>>]

(* GetSnapshot returns currentMessages and where the archive continues.    *)
GetSnapshot ==
    /\ page = NoPage
    /\ view' = [i \in 1..(store.last - store.currentFirst + 1) |-> store.currentFirst + i - 1]
    /\ older' = IF store.currentFirst > store.first THEN store.currentFirst ELSE 0
    /\ UNCHANGED <<flow, page>>

GetArchivedMessageRange(limit) ==
    /\ page = NoPage /\ older # 0 /\ limit \in RangeLimits
    /\ page' = [limit |-> limit, before |-> older, messages |-> <<>>]
    /\ UNCHANGED <<flow, view, older>>

(* archivedMessageChunkFirst and the checks of GetArchivedMessages.        *)
IsBoundary(before) == before > ChunkSize /\ (before - 1) % ChunkSize = 0
Mutant_FoundUnlessTrimmedPast(s, before) ==
    /\ IsBoundary(before) /\ before - ChunkSize > s.first
    /\ before - ChunkSize \in DOMAIN s.archived
IsFound(s, before) ==
    /\ IsBoundary(before) /\ before - ChunkSize >= s.first
    /\ before - ChunkSize \in DOMAIN s.archived
Mutant_AlwaysContinues(s, key) == key
Mutant_EndsOneChunkEarly(s, key) == IF key > s.first + ChunkSize THEN key ELSE 0
NextBefore(s, key) == IF key > s.first THEN key ELSE 0

(* One GetArchivedMessages RPC of the range.                               *)
GetArchivedMessages ==
    LET key == page.before - ChunkSize
        messages == store.archived[key] \o page.messages
        next == NextBefore(store, key)
    IN  /\ page # NoPage /\ IsFound(store, page.before)
        /\ IF Len(messages) < page.limit /\ next # 0
           THEN /\ page' = [page EXCEPT !.before = next, !.messages = messages]
                /\ UNCHANGED <<view, older>>
           ELSE /\ view' = messages \o view
                /\ older' = next
                /\ page' = NoPage
        /\ UNCHANGED flow

(* ArchivedMessagesNotFoundError: the chunks read before are dropped.      *)
ArchivedMessagesNotFound ==
    /\ page # NoPage /\ ~IsFound(store, page.before)
    /\ page' = NoPage
    /\ UNCHANGED <<flow, view, older>>

-----------------------------------------------------------------------------
Init ==
    /\ store = NewStore /\ log = <<>> /\ turn = "await_user"
    /\ pending = NoCalls /\ cutoff = 0 /\ view = <<>> /\ older = 0 /\ page = NoPage

Agent ==
    \/ \E n \in 0..MaxSteered : AwaitUser(n) \/ CheckSteeredSteer(n) \/ SteerWaiting(n)
    \/ CheckSteeredContinue \/ CompactContext
    \/ \E calls \in 0..MaxCallsPerReply : CallModel(calls) \/ FinishTools(calls)
    \/ InterruptTools

Client ==
    \/ GetSnapshot \/ GetArchivedMessages \/ ArchivedMessagesNotFound
    \/ \E limit \in RangeLimits : GetArchivedMessageRange(limit)

Next == Agent \/ Client

Spec == Init /\ [][Next]_vars

-----------------------------------------------------------------------------
(* The stored sequences and the keys of both maps have their Go types.     *)
StoreType ==
    /\ {store.first, store.currentFirst} \subseteq Nat \ {0}
    /\ {store.last, store.summarized} \subseteq Nat
    /\ store.current \subseteq Nat
    /\ DOMAIN store.archived \subseteq Nat
    /\ \A key \in DOMAIN store.archived : store.archived[key] \in Seq(Nat)
FlowType ==
    /\ log \in Seq([calls : Nat, of : Nat]) /\ pending \in [reply : Nat, calls : Nat] /\ cutoff \in Nat
    /\ turn \in {"await_user", "compact_context", "call_model", "route_tool",
                 "compact_step", "call_model_step"}
ReaderType ==
    /\ view \in Seq(Nat) /\ older \in Nat
    /\ page \in [limit : Nat, before : Nat, messages : Seq(Nat)]

(* AgentState's sequences, the attribute maps and the pages of a client    *)
(* hold values of their types.                                             *)
TypeOK == StoreType /\ FlowType /\ ReaderType

(* messageAt finds every message retention has kept, whatever was archived *)
(* and trimmed before: no internal error of loadMessages, GetSnapshot or   *)
(* archiveCurrentMessages.                                                 *)
RetainedIsReadable ==
    /\ store.last = Len(log)
    /\ \A sequence \in store.first..store.last : MessageAt(store, sequence) = sequence

(* A message leaves the store only after a summary covers it, so           *)
(* CompactContext can still load everything from the last summary on.      *)
TrimmedIsSummarized == store.first <= store.summarized + 1

(* docs/adr/0004: a Snapshot is bounded by nineteen current messages.      *)
SnapshotIsBounded ==
    /\ Cardinality(store.current) < CurrentMessageLimit
    /\ store.current = store.currentFirst..store.last

(* The model never sees a result without its call or a call without its    *)
(* result: neither at the cutoff nor at the end of the context.            *)
ContextIsClosed ==
    turn = "call_model_step" =>
        LET context == ContextStart(store)..store.last
        IN  \A r \in context :
               /\ log[r].of # 0 => log[r].of \in context
               /\ Cardinality({q \in context : log[q].of = r}) = log[r].calls

(* The messages a client holds are consecutive, and continue exactly       *)
(* before its NextBeforeSequence: paging while the Agent archives and      *)
(* trims leaves no gap and repeats no message.                             *)
PagesJoin ==
    LET pages == page.messages \o view
        before == IF page # NoPage THEN page.before ELSE older
    IN  /\ \A i \in 1..(Len(pages) - 1) : pages[i + 1] = pages[i] + 1
        /\ before # 0 => IsBoundary(before) /\ pages # <<>> /\ pages[1] = before

(* A client with no further page has every message still retained, up to   *)
(* the Snapshot it started from.                                           *)
LastPageIsFirstRetained ==
    view # <<>> /\ older = 0 => view[1] <= store.first

(* A page is missing only when retention trimmed it.                       *)
MissingIsTrimmed ==
    page # NoPage /\ ~IsFound(store, page.before) => page.before - ChunkSize < store.first

(* docs/adr/0014: "Retention remains the bound on loaded archive state".   *)
RetentionBoundsArchive ==
    turn = "call_model_step" => store.currentFirst - store.first <= RetentionLimit
=============================================================================
