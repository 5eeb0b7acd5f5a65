------------------------- MODULE ConversationInputs -------------------------
(***************************************************************************)
(* What the browser shows of the user's messages: the reducer of           *)
(* conversation-state.ts, which merges Snapshots, input_consumed events,   *)
(* optimistic submissions and queue commands, against a server whose       *)
(* worker consumes messages meanwhile and on which other clients act.      *)
(*                                                                         *)
(* Messages carry the identity the server gives them and a content, on     *)
(* which the reducer matches what has no identity yet.  The Snapshot reads *)
(* follow SnapshotCoordinator, reduced to one read and whether a blocking  *)
(* request came after it was sent.  The plan mode of a message, the        *)
(* answers to questions and the retention limit are left out.              *)
(***************************************************************************)
EXTENDS Integers, SequencesExt

CONSTANTS
    Contents,
    ChunkSize,    \* archiveMessageChunkSize
    MaxMessages,  \* bound: user messages sent by anyone
    MaxSequence   \* bound: messages of the durable history

ASSUME InputsAssumption == ChunkSize \in Nat \ {0} /\ {MaxMessages, MaxSequence} \subseteq Nat

VARIABLES
    sent,         \* the content of every message the server accepted, by identity
    server,       \* the durable state, as GetSnapshot reads it
    events,       \* the input_consumed events of the activity Stream
    read,         \* the Snapshot read in flight
    view,         \* state.snapshot and its reconciliation
    optimistic,   \* optimisticSubmissions
    consumed,     \* consumedUserMessages
    heard,        \* the events received and the latest messageSequence in them
    command,      \* pendingCommand
    hasHole,      \* history: more was archived between two reads than one can see
    told          \* history: the messages a Snapshot or an accepted send told of

durable == <<sent, server, events>>
shown == <<view, optimistic, consumed>>
ghosts == <<hasHole, told>>
vars == <<durable, read, shown, heard, command, ghosts>>

-----------------------------------------------------------------------------
(* The server.  `log' holds the identity of a user message at its          *)
(* sequence, 0 for any other message.                                      *)
LastSequence(s) == Len(s.log)
Window(s) == s.currentFirst..LastSequence(s)

(* The elements of `queue' that are in `ids', and those that are not, in   *)
(* their order.                                                            *)
Only(queue, ids) ==
    LET only[i \in 0..Len(queue)] ==
            IF i = 0 THEN <<>>
            ELSE IF queue[i] \in ids THEN Append(only[i - 1], queue[i]) ELSE only[i - 1]
    IN  only[Len(queue)]
Without(queue, ids) == Only(queue, ToSet(queue) \ ids)

(* appendMessage, for each of `entries': with the message it appends there *)
(* may be two chunks, the first of which is then archived.                 *)
AppendMessage(s, entry) ==
    LET log == Append(s.log, entry)
    IN  [s EXCEPT !.log = log,
                  !.currentFirst = IF Len(log) - s.currentFirst + 1 < 2 * ChunkSize
                                   THEN s.currentFirst ELSE s.currentFirst + ChunkSize]
Appended(s, entries) ==
    LET appended[i \in 0..Len(entries)] ==
            IF i = 0 THEN s ELSE AppendMessage(appended[i - 1], entries[i])
    IN  appended[Len(entries)]

NoRead == [phase |-> "none"]
NoCommand == [kind |-> "none"]

Accept(content) ==
    /\ Len(sent) < MaxMessages
    /\ sent' = Append(sent, content)
    /\ server' = [server EXCEPT !.queued = Append(@, Len(sent) + 1)]

Delete(id) == server' = [server EXCEPT !.queued = Without(@, {id})]
Steer(id) == server' = [server EXCEPT !.queued = Without(@, {id}), !.steered = Append(@, id)]

(* Another client of the same Flow.                                        *)
OthersAct ==
    /\ \/ \E content \in Contents : Accept(content)
       \/ /\ \E id \in ToSet(server.queued) : Delete(id) \/ Steer(id)
          /\ UNCHANGED sent
    /\ UNCHANGED <<events, read, shown, heard, command, ghosts>>

(* The worker takes the oldest queued message, or every steered one, and   *)
(* writes the event in the same commit.                                    *)
Consume(ids) ==
    /\ ids # <<>> /\ LastSequence(server) + Len(ids) <= MaxSequence
    /\ server' = [Appended(server, ids) EXCEPT !.queued = Without(@, ToSet(ids)),
                                              !.steered = Without(@, ToSet(ids))]
    /\ events' = Append(events, [ids |-> ids, sequence |-> LastSequence(server')])

WorkerActs ==
    /\ \/ server.queued # <<>> /\ Consume(<<server.queued[1]>>)
       \/ Consume(server.steered)
       \/ /\ LastSequence(server) < MaxSequence
          /\ server' = Appended(server, <<0>>)
          /\ UNCHANGED events
    /\ UNCHANGED <<sent, read, shown, heard, command, ghosts>>

-----------------------------------------------------------------------------
(* The reducer.  Both reconciliations match on content what is after a     *)
(* known sequence, each durable message claimed once, oldest first.        *)
Matches(history, claimed, after, content) ==
    {s \in history \ claimed : s > after /\ server.log[s] # 0 /\ sent[server.log[s]] = content}
Least(S) == CHOOSE s \in S : \A t \in S : s <= t

(* reconcileConsumedUserMessages                                           *)
Mutant_ConsumedForever(entries, history) == entries
Claim(acc, entry, history) ==
    LET found == Matches(history, acc.claimed, entry.after, sent[entry.id])
    IN  IF found = {} THEN [kept |-> Append(acc.kept, entry), claimed |-> acc.claimed]
        ELSE [kept |-> acc.kept, claimed |-> acc.claimed \union {Least(found)}]
StillConsumed(entries, history) ==
    LET acc[i \in 0..Len(entries)] ==
            IF i = 0 THEN [kept |-> <<>>, claimed |-> {}]
            ELSE Claim(acc[i - 1], entries[i], history)
    IN  acc[Len(entries)].kept

(* reconcileOptimisticSubmissions, which looks in the queues first.        *)
ClaimSubmission(acc, submission, pending, history) ==
    LET found == {i \in DOMAIN pending : /\ pending[i] \notin submission.known \union acc.ids
                                         /\ sent[pending[i]] = submission.content}
        durables == Matches(history, acc.claimed, submission.after, submission.content)
    IN  IF found # {} THEN [acc EXCEPT !.ids = @ \union {pending[Least(found)]}]
        ELSE IF durables # {} THEN [acc EXCEPT !.claimed = @ \union {Least(durables)}]
        ELSE [acc EXCEPT !.kept = Append(@, submission)]
StillOptimistic(submissions, pending, history) ==
    LET acc[i \in 0..Len(submissions)] ==
            IF i = 0 THEN [kept |-> <<>>, ids |-> {}, claimed |-> {}]
            ELSE ClaimSubmission(acc[i - 1], submissions[i], pending, history)
    IN  acc[Len(submissions)].kept

(* reconcileSnapshot and reconcileHistory, of one run.                     *)
LoadSnapshot(s) ==
    LET history == view.history \union Window(s)
        entries == StillConsumed(consumed, history)
        ids == {entries[i].id : i \in DOMAIN entries}
        queued == Without(s.queued, ids)
        steered == Without(s.steered, ids)
    IN /\ view' = [reconciliation |-> "open", queued |-> queued, steered |-> steered,
                   history |-> history, last |-> LastSequence(s)]
       /\ consumed' = entries
       /\ optimistic' = StillOptimistic(optimistic, queued \o steered, history)
       /\ hasHole' = (hasHole \/ (view.reconciliation # "loading" /\ s.currentFirst > view.last + 1))
       /\ told' = told \union ToSet(queued \o steered) \union ({s.log[i] : i \in Window(s)} \ {0})

Mutant_OnlyRemovesConsumed(event) ==
    LET ids == ToSet(event.ids)
    IN /\ consumed' = consumed
       /\ view' = [view EXCEPT !.queued = Without(@, ids), !.steered = Without(@, ids)]

(* applyInputConsumption                                                   *)
ApplyConsumption(event) ==
    LET ids == ToSet(event.ids)
        pending == ToSet(view.queued \o view.steered)
        projected == {consumed[i].id : i \in DOMAIN consumed}
        after == IF heard.sequence > view.last THEN heard.sequence ELSE view.last
        new == Only(event.ids, pending \ projected)
    IN /\ consumed' = consumed \o [i \in DOMAIN new |-> [id |-> new[i], after |-> after]]
       /\ view' = [view EXCEPT !.queued = Without(@, ids), !.steered = Without(@, ids)]

-----------------------------------------------------------------------------
(* The Snapshot reads.                                                     *)
NewRead == [phase |-> "sent", isCurrent |-> TRUE]

RequestBlocking(v) ==
    /\ view' = [v EXCEPT !.reconciliation = "syncing"]
    /\ read' = IF read = NoRead THEN NewRead ELSE [read EXCEPT !.isCurrent = FALSE]

Refresh ==
    /\ read = NoRead
    /\ read' = NewRead
    /\ UNCHANGED <<durable, shown, heard, command, ghosts>>

AnswerRead ==
    /\ read.phase = "sent"
    /\ read' = [phase |-> "loaded", isCurrent |-> read.isCurrent, snapshot |-> server]
    /\ UNCHANGED <<durable, shown, heard, command, ghosts>>

FinishRead ==
    /\ read.phase = "loaded"
    /\ IF read.isCurrent
         THEN LoadSnapshot(read.snapshot) /\ read' = NoRead
         ELSE read' = NewRead /\ UNCHANGED <<shown, ghosts>>
    /\ UNCHANGED <<durable, heard, command>>

(* The next older chunk, mergeOlderHistory.  A Snapshot loaded meanwhile   *)
(* cancels the request, so that it takes effect at once or not at all.     *)
LoadOlder ==
    /\ view.history # {} /\ 1 \notin view.history
    /\ LET first == Least(view.history)
       IN view' = [view EXCEPT !.history = @ \union ((first - ChunkSize)..(first - 1))]
    /\ UNCHANGED <<durable, read, optimistic, consumed, heard, command, ghosts>>

-----------------------------------------------------------------------------
(* Events reach the browser in order while its polls are open; one that    *)
(* expired first never does.                                               *)
LiveReadsOpen == view.reconciliation = "open" /\ command = NoCommand

EventArrives ==
    /\ LiveReadsOpen /\ heard.count < Len(events)
    /\ LET event == events[heard.count + 1]
       IN \/ /\ ApplyConsumption(event)
             /\ heard' = [count |-> heard.count + 1, sequence |-> event.sequence]
          \/ /\ heard' = [heard EXCEPT !.count = @ + 1]
             /\ UNCHANGED <<view, consumed>>
    /\ UNCHANGED <<durable, read, optimistic, command, ghosts>>

-----------------------------------------------------------------------------
(* The user's commands.  A queue command changes the view at once.         *)
MaySubmit == view.reconciliation = "open" /\ command = NoCommand

Submit(content) ==
    /\ MaySubmit /\ Len(sent) < MaxMessages
    /\ command' = [kind |-> "send", content |-> content, id |-> 0, isCommitted |-> FALSE]
    /\ optimistic' = Append(optimistic,
           [content |-> content, after |-> view.last, phase |-> "submitting",
            known |-> ToSet(view.queued \o view.steered)])
    /\ UNCHANGED <<durable, read, view, consumed, heard, ghosts>>

(* An edit deletes the message and puts its text back into the composer.   *)
MutateQueue(id, kind) ==
    /\ MaySubmit
    /\ command' = [kind |-> kind, id |-> id, isCommitted |-> FALSE]
    /\ view' = [view EXCEPT !.queued = Without(@, {id}),
                            !.steered = IF kind = "steer" THEN Append(@, id) ELSE @]
    /\ UNCHANGED <<durable, read, optimistic, consumed, heard, ghosts>>

CommandCommits ==
    /\ command # NoCommand /\ ~command.isCommitted
    /\ IF command.kind = "send" THEN Accept(command.content)
       ELSE /\ command.id \in ToSet(server.queued)
            /\ IF command.kind = "steer" THEN Steer(command.id) ELSE Delete(command.id)
            /\ UNCHANGED sent
    /\ command' = [command EXCEPT !.isCommitted = TRUE,
                                  !.id = IF command.kind = "send" THEN Len(sent') ELSE @]
    /\ UNCHANGED <<events, read, shown, heard, ghosts>>

Submitting(submission) == submission.phase = "submitting"

(* completeCommand; then the runner asks for a Snapshot.                   *)
CommandSucceeds ==
    /\ command # NoCommand /\ command.isCommitted
    /\ command' = NoCommand
    /\ optimistic' = [i \in DOMAIN optimistic |-> [optimistic[i] EXCEPT !.phase = "queued"]]
    /\ RequestBlocking(view)
    /\ told' = IF command.kind = "send" THEN told \union {command.id} ELSE told
    /\ UNCHANGED <<durable, consumed, heard, hasHole>>

(* failCommand: the server refused, or its response was lost.              *)
CommandFails ==
    /\ command # NoCommand
    /\ command' = NoCommand
    /\ optimistic' = Only(optimistic, {submission \in ToSet(optimistic) : ~Submitting(submission)})
    /\ RequestBlocking(view)
    /\ UNCHANGED <<durable, consumed, heard, ghosts>>

Init ==
    /\ sent = <<>>
    /\ server = [queued |-> <<>>, steered |-> <<>>, log |-> <<>>, currentFirst |-> 1]
    /\ events = <<>>
    /\ read = NewRead
    /\ view = [reconciliation |-> "loading", queued |-> <<>>, steered |-> <<>>,
               history |-> {}, last |-> 0]
    /\ optimistic = <<>>
    /\ consumed = <<>>
    /\ heard = [count |-> 0, sequence |-> 0]
    /\ command = NoCommand
    /\ hasHole = FALSE
    /\ told = {}

Next ==
    \/ OthersAct \/ WorkerActs
    \/ Refresh \/ AnswerRead \/ FinishRead \/ LoadOlder \/ EventArrives
    \/ \E content \in Contents : Submit(content)
    \/ \E id \in ToSet(view.queued), kind \in {"steer", "delete"} : MutateQueue(id, kind)
    \/ CommandCommits \/ CommandSucceeds \/ CommandFails

Spec == Init /\ [][Next]_vars

-----------------------------------------------------------------------------
Ids == 1..Len(sent)
ShownIds == view.queued \o view.steered \o [i \in DOMAIN consumed |-> consumed[i].id]
ReadIds == {server.log[s] : s \in view.history} \ {0}

TypeOK ==
    /\ sent \in Seq(Contents)
    /\ ToSet(ShownIds) \subseteq Ids
    /\ view.history \subseteq 1..LastSequence(server) /\ view.last \in 0..LastSequence(server)
    /\ \A i \in DOMAIN optimistic :
          optimistic[i].content \in Contents /\ optimistic[i].known \subseteq Ids
    /\ read.phase \in {"none", "sent", "loaded"}
    /\ command.kind \in {"none", "send", "steer", "delete"}

(* No message is shown in two places: waiting, steering, just consumed and *)
(* durable exclude each other, whatever order Snapshots, replayed matches  *)
(* by content, events and queue commands come in.                          *)
NotShownTwice ==
    ~hasHole => IsInjective(ShownIds) /\ ToSet(ShownIds) \intersect ReadIds = {}

(* The messages read in the view, from the oldest to the newest, are all   *)
(* there.                                                                  *)
HistoryHasNoHole == \A s, t \in view.history : s..t \subseteq view.history

(* A message the browser was told of, by a Snapshot or by the answer to    *)
(* its own send, stays on display while the server holds it, except while  *)
(* a command or the Snapshot after it is under way.                        *)
Held == ToSet(server.queued \o server.steered \o server.log) \ {0}
NothingVanishes ==
    MaySubmit /\ ~hasHole => (told \intersect Held) \subseteq ToSet(ShownIds) \union ReadIds
=============================================================================
