----------------------- MODULE AgentInactivityProofs -----------------------
(***************************************************************************)
(* Proofs about the inactivity timeout: it tells the application of        *)
(* inactivity only when there was none, for one deadline only, and accepts *)
(* nothing afterwards; and callers are told the truth about a command.     *)
(* Each theorem has an invariant of its own.                               *)
(***************************************************************************)
EXTENDS AgentInactivity, TLAPS

\* The network and the flow's verdict on each command.
OutcomeInv ==
    \A c \in Calls :
        /\ commits[c] \in {0, 1}
        /\ caller[c] \in {"ready", "backing_off"} => message[c] = "none" /\ commits[c] = 0
        /\ caller[c] # "returned" => outcome[c] = "none"
        /\ message[c] = "request" => commits[c] = 0 /\ outcome[c] \in {"none", "unknown"}
        /\ message[c] = "accepted" => commits[c] = 1
        /\ message[c] \in {"rejected", "conflict", "inactive"} => commits[c] = 0
        /\ outcome[c] = "accepted" => commits[c] = 1
        /\ outcome[c] \in {"rejected", "conflict", "inactive"} => commits[c] = 0

\* The deadline follows what was accepted, the timer its input, and the input
\* is what the deadline was when the wait began.
DeadlineInv ==
    /\ closed = "no" => activeUntil + Timeout - MinimumExtension <= deadline
    /\ phase = "in_wait_for" => firstAttemptAt <= now
    /\ firesAt # NoTimer => phase = "waiting" /\ input <= firesAt
    /\ isTimerFired => input <= now

\* An attempt that told the application holds its lock until the flow closes.
FinalInv ==
    /\ isHandled => handledFor # {}
    /\ handledFor # {} =>
          \/ closed # "no"
          \/ phase = "in_execute" /\ ~IsPostponed /\ ~LacksCause /\ handledFor = {deadline}

-----------------------------------------------------------------------------
(* What a step may change.                                                 *)

USE DEF movement, durableWait, callers, expiration, NoTimer, NoDeadline

\* The constants, one by one.
LEMMA Times ==
    /\ Timeout \in Nat /\ MinimumExtension \in Nat /\ MaximumAttempts \in Nat
    /\ WaitDuration \in Nat
    /\ 0 < Timeout /\ 0 < MinimumExtension /\ 0 < MaximumAttempts
    /\ MinimumExtension < Timeout
  BY TimeAssumption

\* resetInactivityTimer moves the deadline forward, or leaves it alone.
LEMMA ResetType ==
  ASSUME TypeOK, NEW target \in Nat, ResetInactivityTimer(target)
  PROVE  deadline' \in Nat /\ resets' \in Seq(Nat)
<1>1. deadline \in Nat /\ resets \in Seq(Nat)
  BY DEF TypeOK
<1>2. Append(resets, target) \in Seq(Nat)
  BY <1>1
<1> QED
  BY <1>1, <1>2 DEF ResetInactivityTimer

\* Every attribute, channel and message keeps its type.
LEMMA MovementType == ASSUME TypeOK, InactivityTimeout PROVE TypeOK'
<1> USE DEF TypeOK
<1>1. CASE BeginWaitFor
  BY <1>1 DEF BeginWaitFor
<1>2. CASE CommitWaitFor
  <2>1. TimerFiresAt \in Nat
    BY DEF TimerFiresAt, LaterOf
  <2> QED BY <1>2, <2>1 DEF CommitWaitFor
<1>3. CASE ResetEndsWait
  <2>1. resets' = <<>> /\ <<>> \in Seq(Nat) /\ consumed' = resets
    BY <1>3 DEF ResetEndsWait
  <2> QED BY <1>3, <2>1, SMTT(20) DEF ResetEndsWait
<1>4. CASE TimerEndsWait
  BY <1>4 DEF TimerEndsWait
<1>5. CASE BeginExecute
  BY <1>5 DEF BeginExecute
<1>6. CASE Postpone
  <2>1. consumed' = <<>> /\ <<>> \in Seq(Nat)
    BY <1>6 DEF Postpone
  <2> QED BY <1>6, <2>1 DEF Postpone
<1>7. ASSUME AttemptFails, handledFor' \subseteq Nat, isHandled' \in BOOLEAN
      PROVE  TypeOK'
  <2>1. attempt' \in 1..MaximumAttempts /\ closed' \in {"no", "completed", "failed"}
    BY <1>7, Times, SMTT(20) DEF AttemptFails
  <2> QED BY <1>7, <2>1 DEF AttemptFails
<1>8. CASE Contradicts \/ ExpirationAttemptFails
  <2>1. AttemptFails
    BY <1>8 DEF Contradicts, ExpirationAttemptFails
  <2>2. handledFor' \subseteq Nat
    BY <1>8 DEF Contradicts, ExpirationAttemptFails
  <2>3. isHandled' \in BOOLEAN
    BY <1>8, Zenon DEF Contradicts, ExpirationAttemptFails
  <2> QED BY <1>7, <2>1, <2>2, <2>3
<1>9. CASE ExpirationCommits
  <2>1. handledFor' \subseteq Nat /\ isHandled' \in BOOLEAN
    BY <1>9 DEF ExpirationCommits
  <2> QED BY <1>9, <2>1 DEF ExpirationCommits
<1> QED
  BY <1>1, <1>2, <1>3, <1>4, <1>5, <1>6, <1>8, <1>9 DEF InactivityTimeout

\* The main path's timer and its target are times.
LEMMA MainPathType == ASSUME TypeOK, MainPath PROVE TypeOK'
<1> USE DEF TypeOK
<1>1. CASE RouteDurableWait
  BY <1>1, Times, SMTT(20) DEF RouteDurableWait
<1>2. CASE DurableWaitWaitFor
  <2>1. deadline' \in Nat /\ resets' \in Seq(Nat)
    BY <1>2, ResetType, Times, SMTT(20) DEF DurableWaitWaitFor
  <2> QED BY <1>2, <2>1 DEF DurableWaitWaitFor, LaterOf
<1>3. CASE DurableWaitEnds
  BY <1>3 DEF DurableWaitEnds
<1>4. CASE TakeQueuedMessage
  BY <1>4 DEF TakeQueuedMessage
<1> QED
  BY <1>1, <1>2, <1>3, <1>4 DEF MainPath

\* A command's reply is one of the outcomes a caller can be told.
LEMMA CommandType == ASSUME TypeOK, NEW c \in Calls, Command(c) PROVE TypeOK'
<1> USE DEF TypeOK
<1>1. CASE Invoke(c) \/ BackOff(c) \/ Repeat(c) \/ GiveUp(c)
  <2>1. UNCHANGED <<now, deadline, resets, movement, closed, durableWait, isQueued, commits,
                    activeUntil, expiration>>
    BY <1>1 DEF Invoke, BackOff, Repeat, GiveUp
  <2>2. /\ caller' \in [Calls -> {"ready", "invoking", "backing_off", "returned"}]
        /\ message' \in [Calls -> OutcomesOfCalls \cup {"none", "request"}]
        /\ outcome' \in [Calls -> OutcomesOfCalls \cup {"none", "unknown"}]
    BY <1>1 DEF Invoke, BackOff, Repeat, GiveUp
  <2> QED BY <2>1, <2>2
<1>2. CASE Return(c)
  <2>1. message[c] \in OutcomesOfCalls
    BY <1>2 DEF Return, IsReply
  <2> QED BY <1>2, <2>1 DEF Return
<1>3. CASE RefuseLocked(c) \/ RefuseClosed(c) \/ Reject(c)
  BY <1>3, ZenonT(30) DEF RefuseLocked, RefuseClosed, Reject, Replies, OutcomesOfCalls
<1>4. CASE Accept(c)
  <2>1. deadline' \in Nat /\ resets' \in Seq(Nat)
    BY <1>4, ResetType, Times, SMTT(20) DEF Accept
  <2>2. message' \in [Calls -> OutcomesOfCalls \cup {"none", "request"}]
    BY <1>4 DEF Accept, Replies, OutcomesOfCalls
  <2>3. commits' \in [Calls -> Nat] /\ activeUntil' \in Nat /\ isQueued' \in BOOLEAN
    BY <1>4 DEF Accept, LaterOf
  <2>4. UNCHANGED <<now, movement, closed, durableWait, caller, outcome, expiration>>
    BY <1>4 DEF Accept, Replies
  <2> QED BY <2>1, <2>2, <2>3, <2>4, SMTT(20)
<1> QED
  BY <1>1, <1>2, <1>3, <1>4 DEF Command

\* The type invariant is inductive on its own.
THEOREM TypeCorrect == Spec => []TypeOK
<1>1. Init => TypeOK
  <2> SUFFICES ASSUME Init PROVE TypeOK
    OBVIOUS
  <2>1. resets \in Seq(Nat) /\ consumed \in Seq(Nat)
    BY DEF Init
  <2>2. /\ caller \in [Calls -> {"ready", "invoking", "backing_off", "returned"}]
        /\ message \in [Calls -> OutcomesOfCalls \cup {"none", "request"}]
        /\ outcome \in [Calls -> OutcomesOfCalls \cup {"none", "unknown"}]
        /\ commits \in [Calls -> Nat]
    BY DEF Init
  <2>3. isTimerFired \in BOOLEAN /\ isQueued \in BOOLEAN /\ isHandled \in BOOLEAN
    BY DEF Init
  <2> QED BY <2>1, <2>2, <2>3, Times DEF Init, TypeOK
<1>2. TypeOK /\ [Next]_vars => TypeOK'
  <2> SUFFICES ASSUME TypeOK, [Next]_vars PROVE TypeOK'
    OBVIOUS
  <2>1. CASE Tick
    BY <2>1, SMTT(20) DEF Tick, TypeOK
  <2>2. CASE UNCHANGED vars
    BY <2>2 DEF vars, TypeOK
  <2> QED
    BY <2>1, <2>2, MovementType, MainPathType, CommandType DEF Next
<1> QED
  BY <1>1, <1>2, PTL DEF Spec

-----------------------------------------------------------------------------
(* Outcomes.                                                               *)

\* Only a command changes what a caller knows, and only its own.
LEMMA OutcomesElsewhere ==
  ASSUME OutcomeInv, UNCHANGED callers
  PROVE  OutcomeInv'
BY DEF OutcomeInv

\* What a caller learns agrees with what was committed, repetition by
\* repetition.
LEMMA CommandOutcome ==
  ASSUME TypeOK, OutcomeInv, NEW c \in Calls, Command(c)
  PROVE  OutcomeInv'
<1> USE DEF TypeOK, OutcomeInv, OutcomesOfCalls
<1>1. CASE Invoke(c)
  BY <1>1 DEF Invoke
<1>2. CASE RefuseLocked(c) \/ RefuseClosed(c) \/ Reject(c)
  <2>1. PICK reply \in {"conflict", "inactive", "rejected"} : Replies(c, reply)
    BY <1>2 DEF RefuseLocked, RefuseClosed, Reject
  <2>2. UNCHANGED commits
    BY <1>2 DEF RefuseLocked, RefuseClosed, Reject
  <2> QED BY <2>1, <2>2 DEF Replies
<1>3. CASE Accept(c)
  BY <1>3 DEF Accept, Replies
<1>4. CASE BackOff(c)
  BY <1>4 DEF BackOff, IsRepeated
<1>5. CASE Repeat(c)
  BY <1>5 DEF Repeat
<1>6. CASE Return(c)
  BY <1>6 DEF Return, IsReply
<1>7. CASE GiveUp(c)
  BY <1>7 DEF GiveUp
<1> QED
  BY <1>1, <1>2, <1>3, <1>4, <1>5, <1>6, <1>7 DEF Command

\* For every set of callers, every repetition of their commands and every loss
\* of a request or a reply, a caller is told only what happened to its command,
\* which is committed at most once (client.go:145).
THEOREM OutcomesAreTrue == Spec => []OutcomeIsTrue
<1>1. Init => OutcomeInv
  BY DEF Init, OutcomeInv
<1>2. TypeOK /\ OutcomeInv /\ [Next]_vars => OutcomeInv'
  <2> SUFFICES ASSUME TypeOK, OutcomeInv, [Next]_vars PROVE OutcomeInv'
    OBVIOUS
  <2>1. CASE InactivityTimeout
    BY <2>1, OutcomesElsewhere DEF InactivityTimeout, BeginWaitFor, CommitWaitFor,
       ResetEndsWait, TimerEndsWait, BeginExecute, Postpone, Contradicts, AttemptFails,
       ExpirationAttemptFails, ExpirationCommits
  <2>2. CASE MainPath
    BY <2>2, OutcomesElsewhere DEF MainPath, RouteDurableWait, DurableWaitWaitFor,
       DurableWaitEnds, TakeQueuedMessage
  <2>3. CASE Tick \/ UNCHANGED vars
    BY <2>3, OutcomesElsewhere DEF Tick, vars
  <2> QED
    BY <2>1, <2>2, <2>3, CommandOutcome DEF Next
<1>3. OutcomeInv => OutcomeIsTrue
  <2> SUFFICES ASSUME OutcomeInv, NEW c \in Calls
               PROVE  /\ commits[c] <= 1
                      /\ outcome[c] = "accepted" => commits[c] = 1
                      /\ outcome[c] \in {"rejected", "conflict", "inactive"} => commits[c] = 0
    BY DEF OutcomeIsTrue
  <2>1. commits[c] = 0 \/ commits[c] = 1
    BY DEF OutcomeInv
  <2>2. commits[c] <= 1
    BY <2>1
  <2> QED BY <2>2 DEF OutcomeInv
<1> QED
  BY <1>1, <1>2, <1>3, TypeCorrect, PTL DEF Spec

-----------------------------------------------------------------------------
(* Expiration.                                                             *)

\* A movement of the deadline keeps it late enough for the activity it stands
\* for: an accepted operation, or the target of a durable wait.
LEMMA ResetCovers ==
  ASSUME TypeOK, DeadlineInv, closed = "no", NEW active \in Nat,
         ResetInactivityTimer(active + Timeout),
         activeUntil' = LaterOf(activeUntil, active)
  PROVE  activeUntil' + Timeout - MinimumExtension <= deadline'
<1>1. /\ activeUntil \in Nat /\ deadline \in Nat
      /\ activeUntil + Timeout - MinimumExtension <= deadline
  BY DEF TypeOK, DeadlineInv
<1>2. /\ activeUntil' \in Nat /\ deadline <= deadline'
      /\ activeUntil' = activeUntil \/ activeUntil' = active
  <2>1. activeUntil' \in Nat /\ (activeUntil' = activeUntil \/ activeUntil' = active)
    BY <1>1 DEF LaterOf
  <2>2. CASE Extends(active + Timeout)
    BY <1>1, <2>1, <2>2, Times DEF ResetInactivityTimer, Extends
  <2>3. CASE ~Extends(active + Timeout)
    BY <1>1, <2>1, <2>3 DEF ResetInactivityTimer
  <2> QED
    BY <2>2, <2>3
<1>3. active + Timeout - MinimumExtension <= deadline'
  <2>1. CASE Extends(active + Timeout)
    BY <2>1, Times DEF ResetInactivityTimer
  <2>2. CASE ~Extends(active + Timeout)
    BY <1>1, <2>2, Times DEF ResetInactivityTimer, Extends
  <2> QED
    BY <2>1, <2>2
<1>4. deadline' \in Nat
  BY <1>1, Times DEF ResetInactivityTimer
<1> QED
  BY <1>1, <1>2, <1>3, <1>4, Times

\* No movement of the inactivity Step makes the deadline earlier than
\* activity allows.
LEMMA TimeoutDeadline ==
  ASSUME TypeOK, DeadlineInv, InactivityTimeout
  PROVE  DeadlineInv'
<1> USE DEF TypeOK, DeadlineInv
<1>1. CASE BeginWaitFor
  BY <1>1 DEF BeginWaitFor
<1>2. CASE CommitWaitFor
  BY <1>2 DEF CommitWaitFor, TimerFiresAt, LaterOf
<1>3. CASE ResetEndsWait
  BY <1>3 DEF ResetEndsWait
<1>4. CASE TimerEndsWait
  BY <1>4 DEF TimerEndsWait
<1>5. CASE BeginExecute
  BY <1>5 DEF BeginExecute
<1>6. CASE Postpone
  <2>1. ~isTimerFired'
    BY <1>6 DEF Postpone
  <2> QED BY <1>6, <2>1 DEF Postpone
<1>7. CASE Contradicts \/ ExpirationAttemptFails
  <2>1. /\ closed' = "no" => closed = "no"
        /\ UNCHANGED <<now, deadline, phase, input, firstAttemptAt, firesAt, isTimerFired,
                       activeUntil>>
    BY <1>7 DEF Contradicts, ExpirationAttemptFails, AttemptFails
  <2> QED BY <2>1
<1>8. CASE ExpirationCommits
  BY <1>8 DEF ExpirationCommits, IsExpiring
<1> QED
  BY <1>1, <1>2, <1>3, <1>4, <1>5, <1>6, <1>7, <1>8 DEF InactivityTimeout

\* The application is told only when nothing happened for the timeout, less
\* the extension that is not worth a reset: for every timeout, delay of the
\* wait, and order of commands, waits and attempts (flow.go:4299).
THEOREM ExpiresWhenInactive == Spec => []ExpiresOnlyWhenInactive
<1>1. Init => DeadlineInv
  BY Times DEF Init, DeadlineInv
<1>2. TypeOK /\ DeadlineInv /\ [Next]_vars => DeadlineInv'
  <2> SUFFICES ASSUME TypeOK, DeadlineInv, [Next]_vars PROVE DeadlineInv'
    OBVIOUS
  <2>1. ASSUME UNCHANGED <<now, movement>>,
               closed' = "no" =>
                   activeUntil' + Timeout - MinimumExtension <= deadline'
        PROVE  DeadlineInv'
    BY <2>1 DEF DeadlineInv
  <2>2. ASSUME UNCHANGED <<now, movement, closed, activeUntil, deadline>>
        PROVE  DeadlineInv'
    BY <2>2 DEF DeadlineInv
  <2>3. CASE DurableWaitWaitFor
    <3>1. waitTarget \in Nat /\ closed = "no" /\ UNCHANGED <<now, movement>>
      BY <2>3 DEF DurableWaitWaitFor, TypeOK
    <3> QED BY <2>1, <2>3, <3>1, ResetCovers DEF DurableWaitWaitFor
  <2>4. CASE RouteDurableWait \/ DurableWaitEnds \/ TakeQueuedMessage
    BY <2>2, <2>4 DEF RouteDurableWait, DurableWaitEnds, TakeQueuedMessage
  <2>5. ASSUME NEW c \in Calls, Command(c) PROVE DeadlineInv'
    <3>1. CASE Accept(c)
      <4>1. now \in Nat /\ closed = "no" /\ UNCHANGED <<now, movement>>
        BY <3>1 DEF Accept, Replies, TypeOK
      <4> QED BY <2>1, <3>1, <4>1, ResetCovers DEF Accept
    <3>2. CASE ~Accept(c)
      BY <2>2, <2>5, <3>2 DEF Command, Invoke, RefuseLocked, RefuseClosed, Reject, Replies,
         BackOff, Repeat, Return, GiveUp
    <3> QED BY <3>1, <3>2
  <2>6. CASE Tick
    <3>1. /\ UNCHANGED <<deadline, movement, closed, activeUntil>>
          /\ now' = now + 1 /\ {now, input, firstAttemptAt} \subseteq Nat
      BY <2>6 DEF Tick, TypeOK
    <3> QED BY <3>1 DEF DeadlineInv
  <2>7. CASE UNCHANGED vars
    BY <2>2, <2>7 DEF vars
  <2> QED
    BY <2>3, <2>4, <2>5, <2>6, <2>7, TimeoutDeadline DEF Next, MainPath
<1>3. TypeOK /\ DeadlineInv => ExpiresOnlyWhenInactive
  BY Times DEF TypeOK, DeadlineInv, ExpiresOnlyWhenInactive, IsExpiring, IsPostponed,
     LacksCause
<1> QED
  BY <1>1, <1>2, <1>3, TypeCorrect, PTL DEF Spec

\* While the attempt that told the application is locked, or the flow closed,
\* nothing is accepted and the deadline stays.
LEMMA FinalStep ==
  ASSUME TypeOK, FinalInv, [Next]_vars, handledFor # {}
  PROVE  /\ handledFor' = handledFor
         /\ UNCHANGED <<commits, activeUntil>>
         /\ closed # "no" => closed' # "no"
         /\ \/ closed' # "no"
            \/ UNCHANGED <<phase, deadline, input, consumed, isTimerFired>>
<1>1. closed # "no" \/ IsLocked
  BY DEF FinalInv, IsLocked
<1>2. CASE InactivityTimeout
  <2>1. closed = "no" => phase = "in_execute" /\ ~IsPostponed /\ handledFor = {deadline}
    BY DEF FinalInv
  <2> QED
    BY <1>2, <2>1 DEF InactivityTimeout, BeginWaitFor, CommitWaitFor,
       ResetEndsWait, TimerEndsWait, BeginExecute, Postpone, Contradicts, AttemptFails,
       ExpirationAttemptFails, ExpirationCommits, IsExpiring
<1>3. CASE MainPath
  BY <1>1, <1>3 DEF MainPath, RouteDurableWait, DurableWaitWaitFor, DurableWaitEnds,
     TakeQueuedMessage
<1>4. ASSUME NEW c \in Calls, Command(c)
      PROVE  UNCHANGED <<deadline, movement, closed, commits, activeUntil, expiration>>
  BY <1>1, <1>4 DEF Command, Invoke, RefuseLocked, RefuseClosed, Reject, Accept, Replies,
     BackOff, Repeat, Return, GiveUp
<1>5. CASE Tick \/ UNCHANGED vars
  BY <1>5 DEF Tick, vars
<1> QED
  BY <1>2, <1>3, <1>4, <1>5 DEF Next

\* For every number of attempts, and every attempt that dies: the application
\* is told one deadline, and after it was told no operation is accepted
\* (flow.go:4337).
THEOREM ExpirationHolds == Spec => ExpirationIsFinal
<1>1. Init => FinalInv
  BY DEF Init, FinalInv
<1>2. TypeOK /\ FinalInv /\ [Next]_vars => FinalInv'
  <2> SUFFICES ASSUME TypeOK, FinalInv, [Next]_vars PROVE FinalInv'
    OBVIOUS
  <2>1. CASE handledFor # {}
    <3>1. /\ handledFor' # {}
          /\ \/ closed' # "no"
             \/ /\ phase' = "in_execute" /\ handledFor' = {deadline'}
                /\ deadline' <= input' /\ UNCHANGED <<deadline, input, consumed, isTimerFired>>
      BY <2>1, FinalStep DEF FinalInv, IsPostponed, TypeOK
    <3>2. closed' # "no" \/ (~IsPostponed)'
      BY <2>1, FinalStep DEF FinalInv, IsPostponed
    <3>3. closed' # "no" \/ (~LacksCause)'
      BY <2>1, FinalStep, Zenon DEF FinalInv, LacksCause
    <3> QED BY <3>1, <3>2, <3>3 DEF FinalInv
  <2>2. CASE handledFor = {} /\ UNCHANGED expiration
    BY <2>2, Zenon DEF FinalInv
  <2>3. CASE ExpirationAttemptFails \/ ExpirationCommits
    <3>1. CASE handledFor = {}
      <4>1. handledFor' = {deadline} /\ IsExpiring
        BY <2>3, <3>1 DEF ExpirationAttemptFails, ExpirationCommits
      <4>2. closed' # "no" \/ UNCHANGED <<phase, deadline, input, consumed, isTimerFired>>
        BY <2>3 DEF ExpirationAttemptFails, ExpirationCommits, AttemptFails
      <4>3. closed' # "no" \/ (phase' = "in_execute" /\ handledFor' = {deadline'})
        BY <4>1, <4>2 DEF IsExpiring
      <4>4. closed' # "no" \/ (~IsPostponed)'
        BY <4>1, <4>2 DEF IsExpiring, IsPostponed
      <4>5. closed' # "no" \/ (~LacksCause)'
        BY <4>1, <4>2, Zenon DEF IsExpiring, LacksCause
      <4>6. handledFor' # {}
        BY <4>1
      <4> QED BY <4>3, <4>4, <4>5, <4>6, Zenon DEF FinalInv
    <3> QED BY <2>1, <3>1
  <2>4. ExpirationAttemptFails \/ ExpirationCommits \/ UNCHANGED expiration
    BY DEF Next, InactivityTimeout, BeginWaitFor, CommitWaitFor, ResetEndsWait,
       TimerEndsWait, BeginExecute, Postpone, Contradicts, MainPath, RouteDurableWait,
       DurableWaitWaitFor, DurableWaitEnds, TakeQueuedMessage, Command, Invoke,
       RefuseLocked, RefuseClosed, Reject, Accept, Replies, BackOff, Repeat, Return,
       GiveUp, Tick, vars
  <2> QED BY <2>1, <2>2, <2>3, <2>4
<1>3. TypeOK /\ FinalInv /\ [Next]_vars =>
          [/\ handledFor # {} => handledFor' = handledFor
           /\ isHandled => UNCHANGED <<commits, activeUntil>>]_vars
  BY FinalStep DEF FinalInv
<1> QED
  BY <1>1, <1>2, <1>3, TypeCorrect, PTL DEF Spec, ExpirationIsFinal
=============================================================================
