--------------------- MODULE SnapshotCoordinatorProofs ---------------------
(***************************************************************************)
(* Proofs about the Snapshot reads of a conversation: each operation of    *)
(* the coordinator preserves the invariant, whatever step of the           *)
(* conversation performs it.                                               *)
(***************************************************************************)
EXTENDS LiveConversation, TLAPS

(* What FreshWhenOpen needs: a read that still counts was answered after   *)
(* the last blocking request.                                              *)
ReadsAreFresh ==
    /\ needed <= server.version
    /\ HasRead => read.epoch <= requiredEpoch
    /\ read.phase = "loaded" /\ IsCurrentEpoch => read.snapshot.version >= needed

Inv == TypeOK /\ ReadsAreFresh /\ FreshWhenOpen /\ Refreshing

(* A request preserves the invariant, whichever way `v' differs from the   *)
(* view in the fields a request replaces or does not use.                  *)
LEMMA RequestStep ==
    ASSUME Inv, NEW n, NEW blocking \in BOOLEAN, NEW connection \in Connections,
           NEW v \in Views, v.kind = view.kind, v.reconciliation = view.reconciliation,
           v.snapshot = view.snapshot,
           Request(n, blocking, connection, v),
           dueAt' \in {"none", "ahead", "passed"}, isVisible' \in BOOLEAN,
           UNCHANGED <<server, isStopped, failures>>
    PROVE  Inv'
<1>1. TypeOK'
  <2>1. requiredEpoch' \in Nat /\ needed' \in Nat
    BY DEF Inv, TypeOK, Request, Snapshots
  <2>2. timer' \in BOOLEAN /\ trailing' \in BOOLEAN
    BY DEF Request
  <2>3. read' \in [epoch : Nat, phase : {"none", "sent", "loaded", "failed"},
                   snapshot : Snapshots]
    BY <2>1 DEF Inv, TypeOK, Request, Sent, NoSnapshot, Snapshots
  <2>4. view' \in Views
    BY DEF Request, Requested, NotReady, With, Views, NoSnapshot, Snapshots, Connections
  <2> QED BY <2>1, <2>2, <2>3, <2>4 DEF Inv, TypeOK
<1>2. ReadsAreFresh'
  BY DEF Inv, TypeOK, ReadsAreFresh, Request, Sent, HasRead, IsCurrentEpoch, Snapshots
<1>3. FreshWhenOpen'
  BY DEF Inv, TypeOK, FreshWhenOpen, Request, Requested, NotReady, With, Views, Snapshots
<1>4. Refreshing'
  BY DEF Refreshing, Request, HasRead, Sent
<1> QED BY <1>1, <1>2, <1>3, <1>4 DEF Inv

(* Becoming visible requests a read; becoming hidden only stops polling.   *)
LEMMA SetVisibleStep == ASSUME Inv, NEW visible \in BOOLEAN, SetVisible(visible) PROVE Inv'
<1>1. /\ view \in Views /\ "live" \in Connections
      /\ UNCHANGED <<server, dueAt, isStopped, failures>> /\ isVisible' = visible
      /\ dueAt' \in {"none", "ahead", "passed"} /\ isVisible' \in BOOLEAN
  BY DEF Inv, SetVisible, TypeOK, Connections
<1>2. CASE Request(1, FALSE, "live", view)
  BY <1>1, <1>2, RequestStep, Zenon
<1>3. CASE /\ UNCHANGED <<read, trailing, requiredEpoch, view, needed>>
           /\ timer' = (visible /\ ~isStopped /\ ~HasRead)
  <2>1. TypeOK' /\ ReadsAreFresh' /\ FreshWhenOpen'
    BY <1>1, <1>3 DEF Inv, TypeOK, ReadsAreFresh, FreshWhenOpen, HasRead, IsCurrentEpoch
  <2>2. Refreshing'
    BY <1>1, <1>3 DEF Refreshing, HasRead
  <2> QED BY <2>1, <2>2 DEF Inv
<1> QED BY <1>2, <1>3 DEF SetVisible

(* A stopped coordinator owes nothing more.                                *)
LEMMA StopStep == ASSUME Inv, Stop PROVE Inv'
  BY DEF Inv, Stop, TypeOK, ReadsAreFresh, FreshWhenOpen, Refreshing, NoRead, NoSnapshot,
         HasRead, IsCurrentEpoch, Snapshots

(* The server answers a read with a Snapshot as new as what is committed.  *)
LEMMA AnswerStep == ASSUME Inv, Answer PROVE Inv'
  BY DEF Inv, Answer, TypeOK, ReadsAreFresh, FreshWhenOpen, Refreshing, HasRead,
         IsCurrentEpoch, Snapshots

(* The only step that shows a Snapshot: one whose epoch is current.        *)
LEMMA FinishReadStep == ASSUME Inv, FinishRead PROVE Inv'
<1>1. TypeOK'
  <2>1. view' \in Views
    <3>1. Loaded(view, read.snapshot) \in Views
      BY DEF Inv, TypeOK, Loaded, Views, Snapshots, Connections
    <3>2. Failed(view) \in Views
      BY DEF Inv, TypeOK, Failed, NotReady, With, Views, NoSnapshot, Snapshots, Connections
    <3> QED BY <3>1, <3>2 DEF FinishRead, Inv, TypeOK
  <2>2. \/ read' = Sent(requiredEpoch) /\ UNCHANGED <<dueAt, timer>>
        \/ read' = NoRead /\ dueAt' = "ahead" /\ timer' = isVisible
    BY DEF FinishRead
  <2>3. trailing' = FALSE
        /\ UNCHANGED <<server, requiredEpoch, isVisible, isStopped, needed, failures>>
    BY DEF FinishRead
  <2>4. read' \in [epoch : Nat, phase : {"none", "sent", "loaded", "failed"},
                   snapshot : Snapshots]
    BY <2>2 DEF Inv, TypeOK, Sent, NoRead, NoSnapshot, Snapshots
  <2>5. dueAt' \in {"none", "ahead", "passed"} /\ timer' \in BOOLEAN
    BY <2>2 DEF Inv, TypeOK
  <2> QED BY <2>1, <2>3, <2>4, <2>5 DEF Inv, TypeOK
<1>2. ReadsAreFresh'
  BY DEF Inv, FinishRead, TypeOK, ReadsAreFresh, Sent, NoRead, HasRead, IsCurrentEpoch,
         MustReadAgain
<1>3. FreshWhenOpen'
  <2>1. CASE read.phase = "loaded" /\ IsCurrentEpoch
    BY <2>1 DEF Inv, FinishRead, ReadsAreFresh, FreshWhenOpen, Loaded
  <2>2. CASE read.phase = "failed" /\ IsCurrentEpoch
    BY <2>2 DEF Inv, TypeOK, FinishRead, FreshWhenOpen, Failed, NotReady, With, Views
  <2>3. CASE ~IsCurrentEpoch
    BY <2>3 DEF Inv, FinishRead, FreshWhenOpen
  <2> QED BY <2>1, <2>2, <2>3 DEF FinishRead
<1>4. Refreshing'
  <2>1. CASE MustReadAgain
    BY <2>1 DEF FinishRead, Refreshing, Sent, HasRead
  <2>2. CASE ~MustReadAgain
    BY <2>2 DEF FinishRead, Refreshing
  <2> QED BY <2>1, <2>2
<1> QED BY <1>1, <1>2, <1>3, <1>4 DEF Inv

(* Time passing makes an armed poll due.                                   *)
LEMMA TimePassesStep == ASSUME Inv, TimePasses PROVE Inv'
  BY DEF Inv, TimePasses, TypeOK, ReadsAreFresh, FreshWhenOpen, Refreshing, HasRead,
         IsCurrentEpoch

(* A due poll requests a read on the live connection.                      *)
LEMMA TimerFiresStep == ASSUME Inv, TimerFires PROVE Inv'
<1>1. /\ view \in Views /\ "live" \in Connections
      /\ UNCHANGED <<server, isStopped, failures>> /\ Request(1, FALSE, "live", view)
      /\ dueAt' \in {"none", "ahead", "passed"} /\ isVisible' \in BOOLEAN
  BY DEF Inv, TimerFires, TypeOK, Connections
<1> QED BY <1>1, RequestStep, Zenon

(* A commit of the server makes no view older than it was asked to be.     *)
LEMMA CommitStep ==
    ASSUME Inv, server' \in Commits, UNCHANGED <<coordinator, view, needed, failures>>
    PROVE  Inv'
<1>1. TypeOK /\ server' \in Snapshots /\ server'.version = server.version + 1
  BY DEF Inv, TypeOK, Commits, Snapshots
<1> QED
  BY <1>1 DEF Inv, coordinator, TypeOK, ReadsAreFresh, FreshWhenOpen, Refreshing, HasRead,
              IsCurrentEpoch, Snapshots

(* The coordinator starts with a read in flight.                           *)
LEMMA InitStep == ASSUME Init PROVE Inv
<1>1. server \in Snapshots /\ view \in Views /\ read.epoch = 1 /\ read.phase = "sent"
  BY DEF Init, NoSnapshot, Snapshots, NotReady, Views, Connections, Sent
<1>2. read \in [epoch : Nat, phase : {"none", "sent", "loaded", "failed"},
                snapshot : Snapshots]
  BY DEF Init, Sent, NoSnapshot, Snapshots
<1>3. view.kind = "loading"
  BY DEF Init, NotReady
<1>4. TypeOK
  BY <1>1, <1>2 DEF Init, TypeOK
<1>5. ReadsAreFresh /\ FreshWhenOpen /\ Refreshing
  BY <1>1, <1>3 DEF Init, ReadsAreFresh, FreshWhenOpen, Refreshing, HasRead,
                    IsCurrentEpoch, NoSnapshot
<1> QED BY <1>4, <1>5 DEF Inv

(* Nothing changes while nothing happens.                                  *)
LEMMA Stutter == ASSUME Inv, UNCHANGED vars PROVE Inv'
  BY DEF Inv, vars, coordinator, TypeOK, ReadsAreFresh, FreshWhenOpen, Refreshing,
         HasRead, IsCurrentEpoch

(* A poll's, a command's or the user's request inside the conversation.    *)
LEMMA ConversationRequest ==
    ASSUME Inv, NEW n, NEW blocking \in BOOLEAN, NEW connection \in Connections,
           UNCHANGED <<server, dueAt, isVisible, isStopped, failures>>,
           \/ Request(n, blocking, connection, view)
           \/ Request(n, blocking, connection, [view EXCEPT !.pendingCommand = FALSE])
           \/ Request(n, blocking, connection, [view EXCEPT !.connection = "reconnecting"])
    PROVE  Inv'
<1>1. /\ view \in Views
      /\ dueAt' \in {"none", "ahead", "passed"} /\ isVisible' \in BOOLEAN
  BY DEF Inv, TypeOK
<1>2. CASE Request(n, blocking, connection, view)
  BY <1>1, <1>2, RequestStep, Zenon
<1>3. CASE Request(n, blocking, connection, [view EXCEPT !.pendingCommand = FALSE])
  <2> DEFINE v == [view EXCEPT !.pendingCommand = FALSE]
  <2>1. /\ v \in Views /\ v.kind = view.kind /\ v.reconciliation = view.reconciliation
        /\ v.snapshot = view.snapshot
    BY <1>1 DEF Views
  <2>2. Request(n, blocking, connection, v)
    BY <1>3
  <2> HIDE DEF v
  <2> QED BY <1>1, <2>1, <2>2, RequestStep, Zenon
<1>4. CASE Request(n, blocking, connection, [view EXCEPT !.connection = "reconnecting"])
  <2> DEFINE v == [view EXCEPT !.connection = "reconnecting"]
  <2>1. /\ v \in Views /\ v.kind = view.kind /\ v.reconciliation = view.reconciliation
        /\ v.snapshot = view.snapshot
    BY <1>1 DEF Views, Connections
  <2>2. Request(n, blocking, connection, v)
    BY <1>4
  <2> HIDE DEF v
  <2> QED BY <1>1, <2>1, <2>2, RequestStep, Zenon
<1> QED BY <1>2, <1>3, <1>4

(* Whatever the order of commands, lost responses, disconnects, waiting    *)
(* rounds, control events, visibility changes and fallback reads: the      *)
(* controls are never enabled over a Snapshot that precedes the answer of  *)
(* the last command, and a visible conversation has its next refresh       *)
(* coming.                                                                 *)
THEOREM ConversationIsFresh == ConversationSpec => [](TypeOK /\ FreshWhenOpen /\ Refreshing)
<1>1. Inv /\ [ConversationNext]_allVars => Inv'
  <2> SUFFICES ASSUME Inv, [ConversationNext]_allVars PROVE Inv'
    OBVIOUS
  <2>1. CASE RunCommand
    <3>1. view \in Views
      BY DEF Inv, TypeOK
    <3>2. /\ view' \in Views /\ view'.kind = view.kind
          /\ view'.reconciliation = view.reconciliation /\ view'.snapshot = view.snapshot
      BY <2>1, <3>1 DEF RunCommand, Views
    <3>3. UNCHANGED <<server, coordinator, needed, failures>>
      BY <2>1 DEF RunCommand
    <3> QED
      BY <3>2, <3>3 DEF Inv, coordinator, TypeOK, ReadsAreFresh, FreshWhenOpen, Refreshing,
                        HasRead, IsCurrentEpoch
  <2>2. CASE LiveReadsJoined
    BY <2>2, Stutter DEF LiveReadsJoined
  <2>3. CASE CommandCommits
    BY <2>3, CommitStep DEF CommandCommits
  <2> USE DEF Connections
  <2>4. CASE CommandSucceeds \/ CommandFails
    BY <2>4, ConversationRequest, Zenon DEF CommandSucceeds, CommandFails, CommandEnds
  <2>5. CASE ControlEvent
    BY <2>5, ConversationRequest, Zenon DEF ControlEvent
  <2>6. CASE LiveReadFails
    BY <2>6, ConversationRequest, Zenon DEF LiveReadFails
  <2>7. CASE RoundReported
    BY <2>7, ConversationRequest, Zenon DEF RoundReported
  <2>8. CASE Retry
    BY <2>8, ConversationRequest, Zenon DEF Retry
  <2>9. CASE ReadEnds
    BY <2>9, FinishReadStep DEF ReadEnds
  <2>10. CASE FallbackFires
    BY <2>10, TimerFiresStep DEF FallbackFires
  <2>11. CASE VisibilityChanges
    BY <2>11, SetVisibleStep DEF VisibilityChanges
  <2>12. CASE Leave
    BY <2>12, StopStep DEF Leave
  <2>13. CASE Answer \/ TimePasses \/ ServerCommits
    BY <2>13, AnswerStep, TimePassesStep, CommitStep DEF ServerCommits
  <2>14. CASE UNCHANGED allVars
    BY <2>14, Stutter DEF allVars
  <2> QED
    BY <2>1, <2>2, <2>3, <2>4, <2>5, <2>6, <2>7, <2>8, <2>9, <2>10, <2>11, <2>12, <2>13,
       <2>14 DEF ConversationNext
<1>2. Inv => TypeOK /\ FreshWhenOpen /\ Refreshing
  BY DEF Inv
<1>3. ConversationInit => Inv
  BY InitStep DEF ConversationInit
<1> QED BY <1>1, <1>2, <1>3, PTL DEF ConversationSpec
=============================================================================
