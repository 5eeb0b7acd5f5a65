-------------------------- MODULE AgentInactivity --------------------------
(***************************************************************************)
(* The inactivity timeout of an Agent (internal/agent/flow.go) and the     *)
(* commands that postpone it: a second Dex movement, InactivityTimeout,    *)
(* beside the main path; the RPCs, which reset it; and the callers of      *)
(* internal/agent/client.go, which repeat a command on a lock conflict.    *)
(*                                                                         *)
(* The InactivityDeadline attribute is locked by the RPCs, by both methods *)
(* of InactivityTimeout and by DurableWait.WaitFor.  A method holds its    *)
(* locks from its first attempt to its commit.  Of the main path only the  *)
(* durable waits, which reset the deadline, and the consumption of the one *)
(* queued message are kept; AgentFlow has the rest.                        *)
(*                                                                         *)
(* The flow has a positive InactivityTimeoutSeconds and starts at time 0.  *)
(***************************************************************************)
EXTENDS Integers, Sequences

CONSTANTS
    Calls,              \* commands that callers invoke, each of them once
    QueueCalls,         \* those that delete or steer the queued message
    RepeatedCalls,      \* those wrapped in invokeLockedCommand
    Timeout,            \* InactivityTimeoutSeconds
    MinimumExtension,   \* inactivityResetMinimumExtension
    WaitDuration,       \* DurationSeconds of a durable wait
    MaximumAttempts,    \* attempts of InactivityTimeout.Execute
    MaxWaits,           \* bound: durable waits in one behaviour
    LastActivity,       \* bound: the last time of a command or a durable wait
    MaxDelay,           \* bound: how late a WaitFor may commit
    MaxTime             \* bound: the end of the clock

ASSUME CallAssumption == QueueCalls \subseteq Calls /\ RepeatedCalls \subseteq Calls
ASSUME TimeAssumption ==
    /\ {Timeout, MinimumExtension, WaitDuration, MaximumAttempts} \subseteq Nat \ {0}
    /\ MinimumExtension < Timeout
    /\ {MaxWaits, LastActivity, MaxDelay, MaxTime} \subseteq Nat

VARIABLES
    now,             \* the clock
    deadline,        \* inactivityDeadlineAttribute
    resets,          \* resetInactivityTimerChannel
    phase,           \* where the InactivityTimeout movement is
    input,           \* its input, a deadline
    firstAttemptAt,  \* ctx.FirstAttemptAt of its WaitFor, while that runs
    firesAt,         \* when the timer of its wait fires, while it waits
    consumed,        \* the resets its wait consumed
    isTimerFired,    \* ctx.HasTimerFired
    attempt,         \* the attempt of its Execute
    closed,          \* how the flow ended
    mainPath,        \* whether the main path is at a durable wait
    waitTarget,      \* StartedAt of pendingTimerAttribute, plus the duration
    waits,           \* durable waits so far
    isQueued,        \* whether the queued message is still in its channel
    caller,          \* per call: where the caller is
    message,         \* per call: its request or reply on the network
    outcome,         \* per call: what the caller was told
    commits,         \* per call: how often the flow committed it
    activeUntil,     \* the latest accepted operation or durable-wait target
    handledFor,      \* deadlines HandleInactivityExpiration was called with
    isHandled        \* whether it has succeeded

movement == <<phase, input, firstAttemptAt, firesAt, consumed, isTimerFired, attempt>>
durableWait == <<mainPath, waitTarget, waits>>
callers == <<caller, message, outcome, commits>>
expiration == <<handledFor, isHandled>>
vars == <<now, deadline, resets, movement, closed, durableWait, isQueued,
          callers, activeUntil, expiration>>

NoDeadline == 0
NoTimer == 0
LaterOf(a, b) == IF a < b THEN b ELSE a

-----------------------------------------------------------------------------
(* Locks and resets.                                                       *)

\* Mutant: only WaitFor locks the attribute.
Mutant_ExecuteWithoutLock == phase = "in_wait_for"
IsLocked == phase \in {"in_wait_for", "in_execute"}

\* Whether resetInactivityTimer extends the deadline.
Extends(target) == target - deadline > MinimumExtension

ResetInactivityTimer(target) ==
    IF Extends(target)
    THEN deadline' = target /\ resets' = Append(resets, target)
    ELSE UNCHANGED <<deadline, resets>>

-----------------------------------------------------------------------------
(* The InactivityTimeout movement.                                         *)

BeginWaitFor ==
    /\ closed = "no" /\ phase = "wait_for"
    /\ phase' = "in_wait_for"
    /\ firstAttemptAt' = now
    /\ UNCHANGED <<now, deadline, resets, input, firesAt, consumed, isTimerFired, attempt,
                   closed, durableWait, isQueued, callers, activeUntil, expiration>>

\* A reset that is already published ends the wait at once.
HasReset == deadline > input \/ resets # <<>>

\* The timer starts when the WaitFor commits, but its duration was computed
\* from the first attempt.
TimerFiresAt == LaterOf(now, now + input - firstAttemptAt)

CommitWaitFor ==
    /\ phase = "in_wait_for"
    /\ phase' = "waiting"
    /\ firesAt' = IF HasReset THEN NoTimer ELSE TimerFiresAt
    /\ firstAttemptAt' = 0
    /\ UNCHANGED <<now, deadline, resets, input, consumed, isTimerFired, attempt, closed,
                   durableWait, isQueued, callers, activeUntil, expiration>>

\* Until(AtMost) is satisfied at once, AnyOf needs one reset.  Either takes
\* the whole channel.
ResetEndsWait ==
    /\ closed = "no" /\ phase = "waiting"
    /\ firesAt = NoTimer \/ resets # <<>>
    /\ phase' = "execute"
    /\ consumed' = resets
    /\ resets' = <<>>
    /\ firesAt' = NoTimer
    /\ UNCHANGED <<now, deadline, input, firstAttemptAt, isTimerFired, attempt, closed,
                   durableWait, isQueued, callers, activeUntil, expiration>>

TimerEndsWait ==
    /\ closed = "no" /\ phase = "waiting"
    /\ firesAt # NoTimer /\ now >= firesAt
    /\ phase' = "execute"
    /\ isTimerFired' = TRUE
    /\ firesAt' = NoTimer
    /\ UNCHANGED <<now, deadline, resets, input, firstAttemptAt, consumed, attempt, closed,
                   durableWait, isQueued, callers, activeUntil, expiration>>

BeginExecute ==
    /\ closed = "no" /\ phase = "execute"
    /\ phase' = "in_execute"
    /\ UNCHANGED <<now, deadline, resets, input, firstAttemptAt, firesAt, consumed,
                   isTimerFired, attempt, closed, durableWait, isQueued, callers,
                   activeUntil, expiration>>

\* Mutant: only a reset that ended the wait counts.
Mutant_IgnoresCurrentDeadline == consumed # <<>>
IsPostponed == deadline > input

\* Mutant: the next movement waits for the same deadline.
Mutant_PostponesToSameDeadline ==
    /\ phase = "in_execute" /\ IsPostponed
    /\ phase' = "wait_for"
    /\ input' = input
    /\ consumed' = <<>> /\ isTimerFired' = FALSE
    /\ UNCHANGED <<now, deadline, resets, firstAttemptAt, firesAt, attempt, closed,
                   durableWait, isQueued, callers, activeUntil, expiration>>
Postpone ==
    /\ phase = "in_execute" /\ IsPostponed
    /\ phase' = "wait_for"
    /\ input' = deadline
    /\ consumed' = <<>> /\ isTimerFired' = FALSE
    /\ UNCHANGED <<now, deadline, resets, firstAttemptAt, firesAt, attempt, closed,
                   durableWait, isQueued, callers, activeUntil, expiration>>

\* "inactivity wait completed without a reset or deadline"
LacksCause == consumed # <<>> \/ ~isTimerFired

\* A failed attempt is repeated, and the last one fails the flow.
AttemptFails ==
    /\ IF attempt < MaximumAttempts
       THEN attempt' = attempt + 1 /\ UNCHANGED closed
       ELSE closed' = "failed" /\ UNCHANGED attempt
    /\ UNCHANGED <<now, deadline, resets, phase, input, firstAttemptAt, firesAt, consumed,
                   isTimerFired, durableWait, isQueued, callers, activeUntil>>

Contradicts ==
    /\ closed = "no" /\ phase = "in_execute" /\ ~IsPostponed /\ LacksCause
    /\ AttemptFails
    /\ UNCHANGED expiration

IsExpiring == closed = "no" /\ phase = "in_execute" /\ ~IsPostponed /\ ~LacksCause

\* The callback fails, or succeeds in an attempt that dies before its commit.
ExpirationAttemptFails ==
    /\ IsExpiring
    /\ AttemptFails
    /\ handledFor' = handledFor \cup {deadline}
    /\ isHandled' \in {isHandled, TRUE}

ExpirationCommits ==
    /\ IsExpiring
    /\ handledFor' = handledFor \cup {deadline}
    /\ isHandled' = TRUE
    /\ deadline' = NoDeadline
    /\ phase' = "done"
    /\ closed' = "completed"
    /\ UNCHANGED <<now, resets, input, firstAttemptAt, firesAt, consumed, isTimerFired,
                   attempt, durableWait, isQueued, callers, activeUntil>>

InactivityTimeout ==
    \/ BeginWaitFor \/ CommitWaitFor \/ ResetEndsWait \/ TimerEndsWait
    \/ BeginExecute \/ Postpone \/ Contradicts
    \/ ExpirationAttemptFails \/ ExpirationCommits

-----------------------------------------------------------------------------
(* The main path.                                                          *)

RouteDurableWait ==
    /\ closed = "no" /\ mainPath = "elsewhere"
    /\ waits < MaxWaits /\ now <= LastActivity
    /\ mainPath' = "durable_wait"
    /\ waitTarget' = now + WaitDuration
    /\ waits' = waits + 1
    /\ UNCHANGED <<now, deadline, resets, movement, closed, isQueued, callers, activeUntil,
                   expiration>>

DurableWaitWaitFor ==
    /\ closed = "no" /\ mainPath = "durable_wait" /\ ~IsLocked
    /\ mainPath' = "waiting_for_timer"
    /\ ResetInactivityTimer(waitTarget + Timeout)
    /\ activeUntil' = LaterOf(activeUntil, waitTarget)
    /\ UNCHANGED <<now, movement, closed, waitTarget, waits, isQueued, callers, expiration>>

\* The timer fires, or steering ends the wait early.
DurableWaitEnds ==
    /\ closed = "no" /\ mainPath = "waiting_for_timer"
    /\ mainPath' = "elsewhere" /\ waitTarget' = 0
    /\ UNCHANGED <<now, deadline, resets, movement, closed, waits, isQueued, callers,
                   activeUntil, expiration>>

TakeQueuedMessage ==
    /\ closed = "no" /\ isQueued
    /\ isQueued' = FALSE
    /\ UNCHANGED <<now, deadline, resets, movement, closed, durableWait, callers,
                   activeUntil, expiration>>

MainPath == RouteDurableWait \/ DurableWaitWaitFor \/ DurableWaitEnds \/ TakeQueuedMessage

-----------------------------------------------------------------------------
(* Commands.  A request stays on the network when its caller has given up. *)

Invoke(c) ==
    /\ caller[c] = "ready" /\ now <= LastActivity
    /\ caller' = [caller EXCEPT ![c] = "invoking"]
    /\ message' = [message EXCEPT ![c] = "request"]
    /\ UNCHANGED <<now, deadline, resets, movement, closed, durableWait, isQueued, outcome,
                   commits, activeUntil, expiration>>

Replies(c, reply) ==
    /\ message[c] = "request"
    /\ message' = [message EXCEPT ![c] = reply]
    /\ UNCHANGED <<now, movement, closed, durableWait, caller, outcome, expiration>>

\* RPCLockConflictError: a method of InactivityTimeout or another command holds
\* the lock.
RefuseLocked(c) ==
    /\ closed = "no"
    /\ IsLocked \/ \E d \in Calls \ {c} : message[d] = "request"
    /\ Replies(c, "conflict")
    /\ UNCHANGED <<deadline, resets, isQueued, commits, activeUntil>>

\* FlowNotActiveError
RefuseClosed(c) ==
    /\ closed # "no"
    /\ Replies(c, "inactive")
    /\ UNCHANGED <<deadline, resets, isQueued, commits, activeUntil>>

\* The command does not match the durable state: for a queue command, its
\* message has left the channel.
Reject(c) ==
    /\ closed = "no" /\ ~IsLocked
    /\ c \in QueueCalls => ~isQueued
    /\ Replies(c, "rejected")
    /\ UNCHANGED <<deadline, resets, isQueued, commits, activeUntil>>

Accept(c) ==
    /\ closed = "no" /\ ~IsLocked
    /\ c \in QueueCalls => isQueued
    /\ now <= LastActivity
    /\ Replies(c, "accepted")
    /\ ResetInactivityTimer(now + Timeout)
    /\ isQueued' = (isQueued /\ c \notin QueueCalls)
    /\ commits' = [commits EXCEPT ![c] = @ + 1]
    /\ activeUntil' = LaterOf(activeUntil, now)

IsReply(m) == m \notin {"none", "request"}

IsRepeated(c) == c \in RepeatedCalls /\ message[c] = "conflict"

BackOff(c) ==
    /\ caller[c] = "invoking" /\ IsReply(message[c]) /\ IsRepeated(c)
    /\ caller' = [caller EXCEPT ![c] = "backing_off"]
    /\ message' = [message EXCEPT ![c] = "none"]
    /\ UNCHANGED <<now, deadline, resets, movement, closed, durableWait, isQueued, outcome,
                   commits, activeUntil, expiration>>

Repeat(c) ==
    /\ caller[c] = "backing_off"
    /\ caller' = [caller EXCEPT ![c] = "invoking"]
    /\ message' = [message EXCEPT ![c] = "request"]
    /\ UNCHANGED <<now, deadline, resets, movement, closed, durableWait, isQueued, outcome,
                   commits, activeUntil, expiration>>

Return(c) ==
    /\ caller[c] = "invoking" /\ IsReply(message[c]) /\ ~IsRepeated(c)
    /\ caller' = [caller EXCEPT ![c] = "returned"]
    /\ outcome' = [outcome EXCEPT ![c] = message[c]]
    /\ message' = [message EXCEPT ![c] = "none"]
    /\ UNCHANGED <<now, deadline, resets, movement, closed, durableWait, isQueued, commits,
                   activeUntil, expiration>>

\* The command timeout passes, the caller's context ends, or the transport
\* fails, before or after the flow saw the request.
Mutant_RepeatsAfterTransportFailure(c) ==
    /\ caller[c] \in {"invoking", "backing_off"}
    /\ caller' = [caller EXCEPT ![c] = IF c \in RepeatedCalls THEN "backing_off" ELSE "returned"]
    /\ outcome' = [outcome EXCEPT ![c] = "unknown"]
    /\ message' = [message EXCEPT ![c] = IF @ = "request" THEN @ ELSE "none"]
    /\ UNCHANGED <<now, deadline, resets, movement, closed, durableWait, isQueued, commits,
                   activeUntil, expiration>>
GiveUp(c) ==
    /\ caller[c] \in {"invoking", "backing_off"}
    /\ caller' = [caller EXCEPT ![c] = "returned"]
    /\ outcome' = [outcome EXCEPT ![c] = "unknown"]
    /\ message' = [message EXCEPT ![c] = IF @ = "request" THEN @ ELSE "none"]
    /\ UNCHANGED <<now, deadline, resets, movement, closed, durableWait, isQueued, commits,
                   activeUntil, expiration>>

Command(c) ==
    \/ Invoke(c) \/ RefuseLocked(c) \/ RefuseClosed(c) \/ Reject(c) \/ Accept(c)
    \/ BackOff(c) \/ Repeat(c) \/ Return(c) \/ GiveUp(c)

-----------------------------------------------------------------------------
Tick ==
    /\ closed = "no" /\ now < MaxTime
    /\ phase = "in_wait_for" => now < firstAttemptAt + MaxDelay
    /\ now' = now + 1
    /\ UNCHANGED <<deadline, resets, movement, closed, durableWait, isQueued, callers,
                   activeUntil, expiration>>

Init ==
    /\ now = 0
    /\ deadline = Timeout
    /\ resets = <<>>
    /\ phase = "wait_for" /\ input = Timeout
    /\ firstAttemptAt = 0 /\ firesAt = NoTimer
    /\ consumed = <<>> /\ isTimerFired = FALSE /\ attempt = 1
    /\ closed = "no"
    /\ mainPath = "elsewhere" /\ waitTarget = 0 /\ waits = 0
    /\ isQueued = TRUE
    /\ caller = [c \in Calls |-> "ready"]
    /\ message = [c \in Calls |-> "none"]
    /\ outcome = [c \in Calls |-> "none"]
    /\ commits = [c \in Calls |-> 0]
    /\ activeUntil = 0
    /\ handledFor = {} /\ isHandled = FALSE

Next == InactivityTimeout \/ MainPath \/ (\E c \in Calls : Command(c)) \/ Tick

Spec == Init /\ [][Next]_vars

\* Dex runs due movements, time passes, and nobody else is obliged to act.
FairSpec == Spec /\ WF_vars(InactivityTimeout) /\ WF_vars(Tick)

-----------------------------------------------------------------------------
(* Properties.                                                             *)

OutcomesOfCalls == {"accepted", "rejected", "conflict", "inactive"}

\* What each variable holds.
TypeOK ==
    /\ {now, deadline, input, firstAttemptAt, firesAt, waitTarget, waits, activeUntil}
       \subseteq Nat
    /\ resets \in Seq(Nat) /\ consumed \in Seq(Nat)
    /\ phase \in {"wait_for", "in_wait_for", "waiting", "execute", "in_execute", "done"}
    /\ isTimerFired \in BOOLEAN /\ isQueued \in BOOLEAN /\ isHandled \in BOOLEAN
    /\ attempt \in 1..MaximumAttempts
    /\ closed \in {"no", "completed", "failed"}
    /\ mainPath \in {"elsewhere", "durable_wait", "waiting_for_timer"}
    /\ caller \in [Calls -> {"ready", "invoking", "backing_off", "returned"}]
    /\ message \in [Calls -> OutcomesOfCalls \cup {"none", "request"}]
    /\ outcome \in [Calls -> OutcomesOfCalls \cup {"none", "unknown"}]
    /\ commits \in [Calls -> Nat]
    /\ handledFor \subseteq Nat

\* The application is told of inactivity only when no operation was accepted,
\* and no durable wait was due, for the timeout less the extension that is not
\* worth a reset, although resets race the timer and the wait (flow.go:4299).
ExpiresOnlyWhenInactive ==
    IsExpiring => activeUntil + Timeout - MinimumExtension <= now

\* Every attempt of an expiration names the same deadline, the idempotency
\* identity that ADR 0016 promises to the application; and once an attempt told
\* the application, no operation is accepted any more, although the attempt may
\* have died before it completed the flow (flow.go:4337).
ExpirationIsFinal ==
    [][/\ handledFor # {} => handledFor' = handledFor
       /\ isHandled => UNCHANGED <<commits, activeUntil>>]_vars

\* No caller is told anything about a command but what happened to it, and no
\* repetition commits it twice; only a timeout or a transport failure leaves
\* open whether it did (client.go:145).
OutcomeIsTrue ==
    \A c \in Calls :
        /\ commits[c] <= 1
        /\ outcome[c] = "accepted" => commits[c] = 1
        /\ outcome[c] \in {"rejected", "conflict", "inactive"} => commits[c] = 0

\* An Agent nobody talks to is closed: its timeout is not lost, whatever was
\* reset before (flow.go:4283).
InactiveAgentCloses == <>(closed # "no")

\* An InactivityTimeout never runs out of causes: it ended by the timer of the
\* current deadline, or the deadline is now later (flow.go:4315).
WaitEndsWithCause == phase = "in_execute" /\ ~IsPostponed => ~LacksCause

\* A conflict answered to a command on the queued message means that "the
\* queued message is no longer pending" (internal/api/handler.go:1232).
ConflictMeansNotPending ==
    \A c \in QueueCalls :
        closed = "no" /\ outcome[c] \in {"rejected", "conflict"} => ~isQueued
=============================================================================
