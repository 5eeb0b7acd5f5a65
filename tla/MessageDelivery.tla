-------------------------- MODULE MessageDelivery --------------------------
(***************************************************************************)
(* What an Agent promises of user messages, without a Step, an attribute   *)
(* or a tool call: every accepted message waits in one queue until the     *)
(* user deletes it, the user steers with it or the Agent takes it; queued  *)
(* messages are taken one at a time and in order, steered ones together    *)
(* and in the order they were steered; and what was taken stays taken.     *)
(* AgentFlow implements it.                                                *)
(***************************************************************************)
EXTENDS SequencesExt

CONSTANT Messages

VARIABLES
    queued,    \* accepted, not yet taken
    steered,   \* to be taken ahead of the queue
    taken,     \* the user turns of the conversation, in order
    deleted    \* withdrawn by the user

vars == <<queued, steered, taken, deleted>>

Known == ToSet(queued) \cup ToSet(steered) \cup ToSet(taken) \cup deleted

Init == queued = <<>> /\ steered = <<>> /\ taken = <<>> /\ deleted = {}

Accept(m) ==
    /\ m \notin Known
    /\ queued' = Append(queued, m)
    /\ UNCHANGED <<steered, taken, deleted>>

Delete(i) ==
    /\ queued' = RemoveAt(queued, i)
    /\ deleted' = deleted \cup {queued[i]}
    /\ UNCHANGED <<steered, taken>>

Steer(i) ==
    /\ queued' = RemoveAt(queued, i)
    /\ steered' = Append(steered, queued[i])
    /\ UNCHANGED <<taken, deleted>>

TakeQueued ==
    /\ queued # <<>>
    /\ queued' = Tail(queued)
    /\ taken' = Append(taken, Head(queued))
    /\ UNCHANGED <<steered, deleted>>

TakeSteered ==
    /\ steered # <<>>
    /\ steered' = <<>>
    /\ taken' = taken \o steered
    /\ UNCHANGED <<queued, deleted>>

Next ==
    \/ \E m \in Messages : Accept(m)
    \/ \E i \in DOMAIN queued : Delete(i) \/ Steer(i)
    \/ TakeQueued \/ TakeSteered

Spec == Init /\ [][Next]_vars
=============================================================================
