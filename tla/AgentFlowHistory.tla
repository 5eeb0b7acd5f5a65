-------------------------- MODULE AgentFlowHistory --------------------------
(***************************************************************************)
(* The history of AgentFlow: every reply is followed by the results of its *)
(* calls, one for each and none that lies, whatever interrupts them; a plan *)
(* starts, and goes on, only as often as the user asked; user messages are *)
(* taken once and in order, as MessageDelivery says; and every provider is *)
(* sent each call with its result.                                         *)
(*                                                                         *)
(* A result is appended exactly when the cursor passes its call, so the    *)
(* calls at the cursor belong to the reply that stands `index' entries     *)
(* before the end of the history.                                          *)
(***************************************************************************)
EXTENDS AgentFlowCalls, ProviderRequests, Iteration, FiniteSetTheorems

(* The calls with a result are the settled ones, and each has one result.  *)
ResultInv ==
    /\ \A k \in 1..Len(history) :
          history[k].role = "tool" => history[k].call \in 1..Settled
    /\ \A k, l \in 1..Len(history) :
          history[k].role = "tool" /\ history[l].role = "tool"
             /\ history[k].call = history[l].call => k = l
    /\ \A call \in 1..Settled : \E k \in 1..Len(history) :
          history[k].role = "tool" /\ history[k].call = call

(* The results of a reply follow it; only the last reply may lack some.    *)
ReplyInv ==
    \A k \in 1..Len(history) : history[k].role = "assistant" =>
        /\ \A j \in 1..Len(history[k].calls) :
              k + j <= Len(history) =>
                 /\ history[k + j].role = "tool"
                 /\ history[k + j].call = history[k].calls[j]
        /\ \/ k + Len(history[k].calls) <= Len(history)
           \/ k = Len(history) - agent.index /\ history[k].calls = agent.calls

(* The calls at the cursor are those of that reply.                        *)
OpenInv ==
    agent.calls # <<>> =>
        /\ Len(history) - agent.index \in 1..Len(history)
        /\ history[Len(history) - agent.index].role = "assistant"
        /\ history[Len(history) - agent.index].calls = agent.calls

(* HonestResults, of one result and the calls as they were invoked.        *)
Honest(e, calls) ==
    /\ e.outcome # "none"
    /\ e.outcome \in {"interrupted", "rejected", "refused"} => calls[e.call].runs = 0
    /\ e.outcome \in {"succeeded", "failed"} /\ calls[e.call].tool \in ExternalTools =>
          calls[e.call].runs > 0
HonestInv ==
    \A k \in 1..Len(history) : history[k].role = "tool" => Honest(history[k], issued)

(* What waits for the timer is no external tool.                           *)
TimerInv == AtTimer => issued[Settled + 1].tool = "durable_wait"

HistoryInv == ResultInv /\ ReplyInv /\ OpenInv /\ HonestInv /\ TimerInv

-----------------------------------------------------------------------------
(* The numbers the invariant compares.                                     *)
LEMMA HistoryFacts ==
  ASSUME AgentInv
  PROVE  /\ TypeOK /\ CallInv /\ CursorInv /\ agent \in AgentStates
         /\ history \in Seq(Entries) /\ Len(history) \in Nat
         /\ agent.calls \in Seq(Nat) /\ agent.index \in Nat /\ Len(agent.calls) \in Nat
         /\ agent.index <= Len(agent.calls) /\ Len(issued) \in Nat
         /\ Settled \in Nat /\ Settled <= Len(issued)
         /\ Settled = Len(issued) - Len(agent.calls) + agent.index
         /\ \A i \in 1..Len(agent.calls) :
               agent.calls[i] = Len(issued) - Len(agent.calls) + i
<1>1. TypeOK /\ CallInv /\ CursorInv
  BY DEF AgentInv, CallInv
<1>2. history \in Seq(Entries) /\ Len(history) \in Nat
  BY <1>1, LenProperties DEF TypeOK, ConversationType
<1>3. agent.index \in Nat /\ Len(agent.calls) \in Nat /\ Len(<<>>) = 0
  BY <1>1, CallFacts, EmptySeq
<1>4. agent.index <= Len(agent.calls)
  BY <1>1, <1>3 DEF CursorInv
<1> QED
  BY <1>1, <1>2, <1>4, CallFacts DEF CursorInv, Settled

(* A step that appends the results of the next `count' calls, and after    *)
(* them nothing but user turns.                                            *)
Appends(count) ==
    /\ Len(history) + count <= Len(history')
    /\ \A k \in 1..Len(history) : history'[k] = history[k]
    /\ \A i \in 1..count :
          /\ history'[Len(history) + i].role = "tool"
          /\ history'[Len(history) + i].call = Settled + i
          /\ Honest(history'[Len(history) + i], issued')
    /\ \A k \in 1..Len(history') :
          k > Len(history) + count => history'[k].role \in {"user", "answer"}

(* The cursor passes them, to the next call or out of the reply.           *)
Passes(count) ==
    /\ agent.index + count <= Len(agent.calls)
    /\ \/ /\ agent'.calls = agent.calls /\ agent'.index = agent.index + count
          /\ Len(history') = Len(history) + count
       \/ /\ agent.index + count = Len(agent.calls)
          /\ agent'.calls = <<>> /\ agent'.index = 0

(* Nothing runs again once it is settled.                                  *)
KeepsSettled ==
    /\ Len(issued') = Len(issued)
    /\ \A call \in 1..Settled :
          issued'[call].runs = issued[call].runs /\ issued'[call].tool = issued[call].tool

(* Where a place of the grown history is, and what the cursor makes of it. *)
LEMMA PlaceFacts ==
  ASSUME NEW n \in Nat, NEW count \in Nat, NEW k \in Nat \ {0}
  PROVE  /\ k \in 1..n \/ k - n \in 1..count \/ k > n + count
         /\ n + (k - n) = k
OBVIOUS

(* What such a step leaves in the history, place by place.                 *)
LEMMA GrownResults ==
  ASSUME AgentInv, AgentInv', HistoryInv, NEW count \in Nat, Appends(count), Passes(count),
         KeepsSettled
  PROVE  /\ Settled' = Settled + count
         /\ Len(history') \in Nat
         /\ \A k \in 1..Len(history') :
               \/ k \in 1..Len(history) /\ history'[k] = history[k]
               \/ /\ k - Len(history) \in 1..count /\ history'[k].role = "tool"
                  /\ history'[k].call = Settled + (k - Len(history))
                  /\ Honest(history'[k], issued')
               \/ k > Len(history) + count /\ history'[k].role \in {"user", "answer"}
<1>1. /\ Len(history) \in Nat /\ Len(history') \in Nat /\ Settled \in Nat
      /\ agent.index \in Nat /\ Len(agent.calls) \in Nat /\ Len(issued) \in Nat
      /\ agent.index <= Len(agent.calls) /\ Len(<<>>) = 0
  BY HistoryFacts, LenProperties, EmptySeq DEF AgentInv, TypeOK, ConversationType
<1>2. Settled' = Settled + count
  <2>1. \/ agent'.calls = agent.calls /\ agent'.index = agent.index + count
        \/ agent.index + count = Len(agent.calls) /\ agent'.calls = <<>> /\ agent'.index = 0
    BY DEF Passes
  <2> DEFINE all == Len(issued)
             len == Len(agent.calls)
             i == agent.index
             leftLen == Len(agent'.calls)
             leftIndex == agent'.index
  <2>2. /\ all \in Nat /\ len \in Nat /\ i \in Nat
        /\ \/ leftLen = len /\ leftIndex = i + count
           \/ i + count = len /\ leftLen = 0 /\ leftIndex = 0
    BY <1>1, <2>1
  <2>3. Settled' = all - leftLen + leftIndex /\ Settled = all - len + i
    BY DEF KeepsSettled, Settled
  <2> HIDE DEF all, len, i, leftLen, leftIndex
  <2> QED BY <2>2, <2>3
<1>3. ASSUME NEW k \in 1..Len(history')
      PROVE  \/ k \in 1..Len(history) /\ history'[k] = history[k]
             \/ /\ k - Len(history) \in 1..count /\ history'[k].role = "tool"
                /\ history'[k].call = Settled + (k - Len(history))
                /\ Honest(history'[k], issued')
             \/ k > Len(history) + count /\ history'[k].role \in {"user", "answer"}
  <2> DEFINE i == k - Len(history)
  <2>1. /\ k \in 1..Len(history) \/ i \in 1..count \/ k > Len(history) + count
        /\ Len(history) + i = k
    BY <1>1, PlaceFacts
  <2> HIDE DEF i
  <2> QED BY <2>1 DEF Appends, i
<1> QED
  BY <1>1, <1>2, <1>3

(* Each settled call keeps its one result.                                 *)
LEMMA GrownResultInv ==
  ASSUME AgentInv, AgentInv', HistoryInv, NEW count \in Nat, Appends(count), Passes(count),
         KeepsSettled
  PROVE  ResultInv'
<1> DEFINE At(k) == k - Len(history)
           Old(k) == k \in 1..Len(history) /\ history'[k] = history[k]
           New(k) == /\ At(k) \in 1..count /\ history'[k].role = "tool"
                     /\ history'[k].call = Settled + At(k)
           User(k) == history'[k].role \in {"user", "answer"}
<1>1. /\ Len(history) \in Nat /\ Settled \in Nat /\ Len(history') \in Nat
      /\ Settled' = Settled + count /\ Len(history) + count <= Len(history')
  BY HistoryFacts, GrownResults DEF Appends
<1>2. \A k \in 1..Len(history') : Old(k) \/ New(k) \/ User(k)
  BY GrownResults
<1>3. \A k \in 1..Len(history') : Old(k) /\ history'[k].role = "tool" =>
         history'[k].call \in 1..Settled
  BY DEF HistoryInv, ResultInv
<1>4. \A k \in 1..Len(history') : New(k) =>
         history'[k].call > Settled /\ history'[k].call \in 1..(Settled + count)
  BY <1>1
<1>5. \A k, l \in 1..Len(history') : New(k) /\ New(l) /\ history'[k].call = history'[l].call
         => k = l
  BY <1>1
<1>6. \A k, l \in 1..Len(history') : Old(k) /\ Old(l) /\ history'[k].role = "tool"
         /\ history'[l].role = "tool" /\ history'[k].call = history'[l].call => k = l
  BY DEF HistoryInv, ResultInv
<1>7. ASSUME NEW call \in 1..(Settled + count)
      PROVE  \E k \in 1..Len(history') : history'[k].role = "tool" /\ history'[k].call = call
  <2>1. CASE call <= Settled
    <3>1. PICK k \in 1..Len(history) : history[k].role = "tool" /\ history[k].call = call
      BY <1>1, <2>1 DEF HistoryInv, ResultInv
    <3>2. k \in 1..Len(history') /\ history'[k] = history[k]
      BY <1>1 DEF Appends
    <3> QED BY <3>1, <3>2
  <2>2. CASE call > Settled
    <3> DEFINE i == call - Settled
    <3>1. i \in 1..count /\ Settled + i = call /\ Len(history) + i \in 1..Len(history')
      BY <1>1, <2>2
    <3> HIDE DEF i
    <3> QED BY <3>1 DEF Appends
  <2> QED BY <1>1, <2>1, <2>2
<1> HIDE DEF Old, New, User, At
<1>8. \A k \in 1..Len(history') : history'[k].role = "tool" => Old(k) \/ New(k)
  BY <1>2 DEF User
<1>9. \A k \in 1..Len(history') : history'[k].role = "tool" =>
         history'[k].call \in 1..(Settled + count)
  BY <1>1, <1>3, <1>4, <1>8
<1>10. ASSUME NEW k \in 1..Len(history'), NEW l \in 1..Len(history'),
              history'[k].role = "tool", history'[l].role = "tool",
              history'[k].call = history'[l].call
       PROVE  k = l
  <2>1. ~(Old(k) /\ New(l)) /\ ~(New(k) /\ Old(l))
    BY <1>1, <1>3, <1>4, <1>10
  <2> QED BY <1>5, <1>6, <1>8, <1>10, <2>1
<1> QED
  BY <1>1, <1>7, <1>9, <1>10 DEF ResultInv

(* Each reply keeps the results that follow it.                            *)
LEMMA GrownReplyInv ==
  ASSUME AgentInv, AgentInv', HistoryInv, NEW count \in Nat, Appends(count), Passes(count),
         KeepsSettled
  PROVE  ReplyInv' /\ OpenInv'
<1>1. /\ Len(history) \in Nat /\ Len(history') \in Nat /\ agent.index \in Nat
      /\ Len(agent.calls) \in Nat /\ Len(issued) \in Nat /\ agent.index <= Len(agent.calls)
      /\ Settled = Len(issued) - Len(agent.calls) + agent.index
      /\ Len(history) + count <= Len(history')
      /\ \A i \in 1..Len(agent.calls) : agent.calls[i] = Len(issued) - Len(agent.calls) + i
  BY HistoryFacts, GrownResults DEF Appends
<1>2. /\ agent.index + count <= Len(agent.calls)
      /\ \/ /\ agent'.calls = agent.calls /\ agent'.index = agent.index + count
            /\ Len(history') = Len(history) + count
         \/ /\ agent.index + count = Len(agent.calls)
            /\ agent'.calls = <<>> /\ agent'.index = 0
  BY DEF Passes
<1>3. ASSUME NEW k \in 1..Len(history'), history'[k].role = "assistant"
      PROVE  /\ \A j \in 1..Len(history'[k].calls) :
                   k + j <= Len(history') =>
                      /\ history'[k + j].role = "tool"
                      /\ history'[k + j].call = history'[k].calls[j]
             /\ \/ k + Len(history'[k].calls) <= Len(history')
                \/ k = Len(history') - agent'.index /\ history'[k].calls = agent'.calls
  <2> DEFINE calls == history[k].calls
  <2>1. k \in 1..Len(history) /\ history'[k] = history[k]
    BY <1>3, GrownResults
  <2>2. Len(calls) \in Nat
    <3>1. history[k] \in Entries /\ history[k].role = "assistant"
      BY <1>3, <2>1, HistoryFacts, ElementOfSeq
    <3>2. calls \in Seq(Nat)
      BY <3>1 DEF Entries
    <3> QED BY <3>2, LenProperties
  <2>3. /\ \A j \in 1..Len(calls) :
              k + j <= Len(history) =>
                 history[k + j].role = "tool" /\ history[k + j].call = calls[j]
        /\ \/ k + Len(calls) <= Len(history)
           \/ k = Len(history) - agent.index /\ calls = agent.calls
    BY <1>3, <2>1 DEF HistoryInv, ReplyInv
  <2> HIDE DEF calls
  <2>4. ASSUME NEW j \in 1..Len(calls), k + j <= Len(history)
        PROVE  history'[k + j].role = "tool" /\ history'[k + j].call = calls[j]
    <3>1. k + j \in 1..Len(history)
      BY <1>1, <2>1, <2>2, <2>4
    <3>2. history'[k + j] = history[k + j]
      BY <3>1 DEF Appends
    <3> QED BY <2>3, <2>4, <3>2
  <2>5. CASE k + Len(calls) <= Len(history)
    <3>1. \A j \in 1..Len(calls) : k + j <= Len(history)
      BY <1>1, <2>1, <2>2, <2>5
    <3>2. k + Len(calls) <= Len(history')
      BY <1>1, <2>1, <2>2, <2>5
    <3> QED BY <2>1, <2>4, <3>1, <3>2 DEF calls
  <2>6. CASE k = Len(history) - agent.index /\ calls = agent.calls
    <3>1. ASSUME NEW j \in 1..Len(calls), k + j <= Len(history'), k + j > Len(history)
          PROVE  history'[k + j].role = "tool" /\ history'[k + j].call = calls[j]
      <4> DEFINE n == Len(history)
                 grown == Len(history')
                 x == agent.index
                 len == Len(agent.calls)
                 all == Len(issued)
                 i == j - x
      <4>1. /\ n \in Nat /\ grown \in Nat /\ x \in Nat /\ len \in Nat /\ all \in Nat
            /\ j \in 1..len /\ Settled = all - len + x
            /\ k = n - x /\ k + j <= grown /\ k + j > n
            /\ x + count <= len /\ (grown = n + count \/ x + count = len)
            /\ calls[j] = all - len + j
        BY <1>1, <1>2, <2>6, <3>1
      <4> HIDE DEF n, grown, x, len, all
      <4>2. k + j = n + i /\ Settled + i = all - len + j
        BY <4>1
      <4>3. calls[j] = Settled + i
        BY <4>1, <4>2
      <4>4. i \in 1..count
        BY <4>1
      <4> HIDE DEF i
      <4>5. history'[Len(history) + i].role = "tool" /\ history'[Len(history) + i].call = Settled + i
        BY <4>4 DEF Appends
      <4> QED BY <4>2, <4>3, <4>5 DEF n
    <3>2. \/ k + Len(calls) <= Len(history')
          \/ k = Len(history') - agent'.index /\ calls = agent'.calls
      <4>1. CASE agent'.calls = agent.calls /\ agent'.index = agent.index + count
                 /\ Len(history') = Len(history) + count
        <5>1. Len(history') - agent'.index = Len(history) - agent.index
          BY <1>1, <4>1
        <5> QED BY <2>6, <4>1, <5>1
      <4>2. CASE agent.index + count = Len(agent.calls)
        <5>1. Len(history) - agent.index + Len(agent.calls) <= Len(history')
          BY <1>1, <4>2
        <5> QED BY <2>6, <5>1
      <4> QED BY <1>2, <4>1, <4>2
    <3>3. \A j \in 1..Len(calls) : k + j <= Len(history) \/ k + j > Len(history)
      BY <1>1, <2>1, <2>2
    <3> QED BY <2>1, <2>4, <3>1, <3>2, <3>3 DEF calls
  <2> QED BY <2>3, <2>5, <2>6
<1>4. OpenInv'
  <2> SUFFICES ASSUME agent'.calls # <<>>
               PROVE  /\ Len(history') - agent'.index \in 1..Len(history')
                      /\ history'[Len(history') - agent'.index].role = "assistant"
                      /\ history'[Len(history') - agent'.index].calls = agent'.calls
    BY DEF OpenInv
  <2> DEFINE k == Len(history) - agent.index
  <2>1. Len(history') - agent'.index = k /\ agent'.calls = agent.calls
    <3>1. agent'.calls = agent.calls /\ agent'.index = agent.index + count
          /\ Len(history') = Len(history) + count
      BY <1>2
    <3> QED BY <1>1, <3>1
  <2>2. k \in 1..Len(history) /\ history[k].role = "assistant" /\ history[k].calls = agent.calls
    BY <2>1 DEF HistoryInv, OpenInv
  <2> HIDE DEF k
  <2>3. history'[k] = history[k] /\ k \in 1..Len(history')
    BY <1>1, <2>2 DEF Appends
  <2> QED BY <2>1, <2>2, <2>3
<1> QED
  BY <1>3, <1>4 DEF ReplyInv

(* Such a step keeps the history right.                                    *)
LEMMA HistoryGrows ==
  ASSUME AgentInv, AgentInv', HistoryInv, NEW count \in Nat, Appends(count), Passes(count),
         KeepsSettled, TimerInv'
  PROVE  HistoryInv'
<1>1. HonestInv'
  <2> SUFFICES ASSUME NEW k \in 1..Len(history'), history'[k].role = "tool"
               PROVE  Honest(history'[k], issued')
    BY DEF HonestInv
  <2>1. CASE k \in 1..Len(history) /\ history'[k] = history[k]
    <3>1. Honest(history[k], issued) /\ history[k].call \in 1..Settled
      BY <2>1 DEF HistoryInv, HonestInv, ResultInv
    <3> QED BY <2>1, <3>1 DEF Honest, KeepsSettled
  <2> QED BY <2>1, GrownResults
<1> QED
  BY <1>1, GrownResultInv, GrownReplyInv DEF HistoryInv

(* A step that appends nothing and leaves the cursor alone.                *)
LEMMA HistoryStays ==
  ASSUME AgentInv, AgentInv', HistoryInv, UNCHANGED history, KeepsSettled, TimerInv',
         agent'.calls = agent.calls, agent'.index = agent.index
  PROVE  HistoryInv'
<1>1. /\ Len(history) \in Nat /\ agent.index \in Nat /\ agent.index <= Len(agent.calls)
      /\ Len(agent.calls) \in Nat /\ Len(history) + 0 = Len(history)
      /\ agent.index + 0 = agent.index
  BY HistoryFacts
<1>2. Passes(0)
  BY <1>1 DEF Passes
<1>3. Appends(0)
  BY <1>1 DEF Appends
<1> QED
  BY <1>2, <1>3, HistoryGrows

(* The reply stands at the end of the history, and its calls are new.      *)
LEMMA HistoryReplies ==
  ASSUME AgentInv, AgentInv', HistoryInv, ~AtCall, NEW requests \in Seq(Requests), NEW a \in AgentStates,
         a.calls = agent.calls, a.index = agent.index, ApplyReply(a, requests)
  PROVE  HistoryInv'
<1> DEFINE calls == [i \in 1..Len(requests) |-> Len(issued) + i]
<1>1. /\ Len(history) \in Nat /\ history \in Seq(Entries) /\ Len(issued) \in Nat
      /\ agent.calls = <<>> /\ agent.index = 0 /\ Settled = Len(issued)
  BY HistoryFacts, CallFacts DEF CursorInv
<1>2. calls \in Seq(Nat) /\ Len(calls) = Len(requests) /\ Len(requests) \in Nat
  <2>1. Len(requests) \in Nat
    BY LenProperties
  <2>2. \A i \in 1..Len(requests) : Len(issued) + i \in Nat
    BY <1>1
  <2> QED BY <2>1, <2>2
<1>3. history' = Append(history, AssistantEntry(calls))
  BY DEF ApplyReply
<1> HIDE DEF calls
<1>4. AssistantEntry(calls) \in Entries
  BY <1>2 DEF AssistantEntry, Entries
<1>5. /\ Len(history') = Len(history) + 1
      /\ \A k \in 1..Len(history) : history'[k] = history[k]
      /\ history'[Len(history) + 1].role = "assistant"
      /\ history'[Len(history) + 1].calls = calls
  BY <1>1, <1>3, <1>4, AppendProperties DEF AssistantEntry
<1>6. /\ Len(issued') = Len(issued) + Len(requests)
      /\ \A call \in 1..Len(issued) : issued'[call] = issued[call]
  BY ReplyIssues DEF AgentInv
<1>7. agent'.calls = calls /\ agent'.index = 0 /\ step' = "CheckSteered" /\ input' # "durable_wait"
  <2>1. CASE requests # <<>>
    <3>1. agent' = [a EXCEPT !.status = "routing_tool", !.calls = calls,
                             !.index = 0, !.noProgress = 0]
      BY <2>1 DEF ApplyReply, calls
    <3>2. step' = "CheckSteered" /\ input' # "durable_wait"
      BY <2>1 DEF ApplyReply, GoTo
    <3> QED BY <3>1, <3>2 DEF AgentStates
  <2>2. CASE requests = <<>>
    <3>1. calls = <<>>
      BY <1>2, <2>2, EmptySeq
    <3>2. agent'.calls = a.calls /\ agent'.index = a.index
      BY <2>2 DEF ApplyReply, AgentStates
    <3>3. step' = "CheckSteered" /\ input' # "durable_wait"
      BY <2>2 DEF ApplyReply, GoTo
    <3> QED BY <1>1, <3>1, <3>2, <3>3
  <2> QED BY <2>1, <2>2
<1>8. Settled' = Settled
  <2> DEFINE n == Len(issued)
             m == Len(requests)
  <2>1. n \in Nat /\ m \in Nat /\ Settled = n /\ Settled' = (n + m) - m + 0
    BY <1>1, <1>2, <1>6, <1>7 DEF Settled
  <2> HIDE DEF n, m
  <2> QED BY <2>1
<1>9. \A k \in 1..Len(history') : k \in 1..Len(history) \/ k = Len(history) + 1
  BY <1>1, <1>5
<1>10. ResultInv'
  <2>1. \A k \in 1..Len(history') : history'[k].role = "tool" =>
           k \in 1..Len(history) /\ history'[k] = history[k]
    BY <1>5, <1>9
  <2>2. \A k \in 1..Len(history) : k \in 1..Len(history') /\ history'[k] = history[k]
    BY <1>1, <1>5
  <2>3. \A call \in 1..Settled : \E k \in 1..Len(history') :
           history'[k].role = "tool" /\ history'[k].call = call
    <3> TAKE call \in 1..Settled
    <3>1. PICK k \in 1..Len(history) : history[k].role = "tool" /\ history[k].call = call
      BY DEF HistoryInv, ResultInv
    <3> QED BY <2>2, <3>1
  <2>4. \A k \in 1..Len(history') : history'[k].role = "tool" => history'[k].call \in 1..Settled
    BY <2>1 DEF HistoryInv, ResultInv
  <2>5. \A k, l \in 1..Len(history') :
           history'[k].role = "tool" /\ history'[l].role = "tool"
              /\ history'[k].call = history'[l].call => k = l
    BY <2>1 DEF HistoryInv, ResultInv
  <2> QED BY <1>8, <2>3, <2>4, <2>5 DEF ResultInv
<1>11. ReplyInv'
  <2> SUFFICES ASSUME NEW k \in 1..Len(history'), history'[k].role = "assistant"
               PROVE  /\ \A j \in 1..Len(history'[k].calls) :
                            k + j <= Len(history') =>
                               /\ history'[k + j].role = "tool"
                               /\ history'[k + j].call = history'[k].calls[j]
                      /\ \/ k + Len(history'[k].calls) <= Len(history')
                         \/ k = Len(history') - agent'.index /\ history'[k].calls = agent'.calls
    BY DEF ReplyInv
  <2>1. CASE k \in 1..Len(history)
    <3>1. history[k] \in Entries /\ history'[k] = history[k] /\ history[k].role = "assistant"
      BY <1>1, <1>5, <2>1, ElementOfSeq
    <3>2. Len(history[k].calls) \in Nat
      BY <3>1, LenProperties DEF Entries
    <3>3. k + Len(history[k].calls) <= Len(history)
      <4>1. \/ k + Len(history[k].calls) <= Len(history)
            \/ k = Len(history) - 0 /\ history[k].calls = <<>>
        BY <1>1, <2>1, <3>1 DEF HistoryInv, ReplyInv
      <4> QED BY <1>1, <4>1, EmptySeq
    <3>4. \A j \in 1..Len(history[k].calls) :
             /\ k + j \in 1..Len(history) /\ k + j <= Len(history)
             /\ history'[k + j] = history[k + j]
      <4> TAKE j \in 1..Len(history[k].calls)
      <4>1. k + j \in 1..Len(history) /\ k + j <= Len(history)
        <5> DEFINE n == Len(history[k].calls)
                   h == Len(history)
        <5>1. n \in Nat /\ h \in Nat /\ k \in 1..h /\ j \in 1..n /\ k + n <= h
          BY <1>1, <2>1, <3>2, <3>3
        <5>2. k + j \in 1..h /\ k + j <= h
          <6> HIDE DEF n, h
          <6> QED BY <5>1
        <5> QED BY <5>2
      <4>2. history'[k + j] = history[k + j]
        BY <1>5, <4>1
      <4> QED BY <4>1, <4>2
    <3>5. \A j \in 1..Len(history[k].calls) :
             history[k + j].role = "tool" /\ history[k + j].call = history[k].calls[j]
      BY <2>1, <3>1, <3>4 DEF HistoryInv, ReplyInv
    <3>6. k + Len(history[k].calls) <= Len(history')
      BY <1>1, <1>5, <2>1, <3>2, <3>3
    <3> QED BY <3>1, <3>4, <3>5, <3>6
  <2>2. CASE k = Len(history) + 1
    <3>1. k = Len(history')
      BY <1>5, <2>2
    <3>2. \A j \in 1..Len(calls) : ~(k + j <= Len(history'))
      BY <1>1, <1>2, <1>5, <3>1
    <3>3. k = Len(history') - agent'.index
      BY <1>1, <1>5, <1>7, <3>1
    <3>4. history'[k].calls = calls /\ agent'.calls = calls
      BY <1>5, <1>7, <2>2
    <3> QED BY <3>2, <3>3, <3>4
  <2> QED BY <1>9, <2>1, <2>2
<1>12. OpenInv' /\ TimerInv'
  BY <1>1, <1>5, <1>7 DEF OpenInv, TimerInv, AtTimer
<1>13. HonestInv'
  <2> SUFFICES ASSUME NEW k \in 1..Len(history'), history'[k].role = "tool"
               PROVE  Honest(history'[k], issued')
    BY DEF HonestInv
  <2>1. k \in 1..Len(history) /\ history'[k] = history[k]
    BY <1>5, <1>9
  <2>2. Honest(history[k], issued) /\ history[k].call \in 1..Len(issued)
    BY <1>1, <2>1 DEF HistoryInv, HonestInv, ResultInv
  <2> QED BY <1>6, <2>1, <2>2 DEF Honest
<1> QED
  BY <1>10, <1>11, <1>12, <1>13 DEF HistoryInv

-----------------------------------------------------------------------------
(* What the actions append.                                                *)

(* Three sequences of entries one after the other.                         *)
Joins(w, h, t, u) ==
    /\ Len(h) \in Nat /\ Len(t) \in Nat /\ Len(u) \in Nat
    /\ Len(w) = Len(h) + Len(t) + Len(u)
    /\ \A k \in 1..Len(h) : w[k] = h[k]
    /\ \A i \in 1..Len(t) : w[Len(h) + i] = t[i]
    /\ \A k \in 1..Len(w) : k > Len(h) + Len(t) => \E i \in 1..Len(u) : w[k] = u[i]

(* The places of three joined sequences, one part after the other.         *)
LEMMA ThreeParts ==
  ASSUME NEW h \in Seq(Entries), NEW t \in Seq(Entries), NEW u \in Seq(Entries)
  PROVE  Joins(h \o t \o u, h, t, u)
<1> DEFINE v == h \o t
           n == Len(h)
           m == Len(t)
           l == Len(u)
           w == h \o t \o u
<1>1. n \in Nat /\ m \in Nat /\ l \in Nat
  BY LenProperties
<1>2. v \in Seq(Entries) /\ Len(v) = n + m
  BY ConcatProperties
<1>3. \A k \in 1..(n + m) : v[k] = IF k <= n THEN h[k] ELSE t[k - n]
  BY ConcatProperties
<1>4. w = v \o u
  OBVIOUS
<1> HIDE DEF v, w
<1>5. Len(w) = (n + m) + l
  <2>1. Len(w) = Len(v) + Len(u)
    BY <1>2, <1>4, ConcatProperties
  <2> QED BY <1>2, <2>1
<1>6. \A k \in 1..((n + m) + l) : w[k] = IF k <= n + m THEN v[k] ELSE u[k - (n + m)]
  BY <1>2, <1>4, ConcatProperties
<1> HIDE DEF n, m, l
<1>7. \A k \in 1..n : w[k] = h[k]
  <2> TAKE k \in 1..n
  <2>1. k \in 1..(n + m) /\ k \in 1..((n + m) + l) /\ k <= n /\ k <= n + m
    BY <1>1
  <2> QED BY <1>3, <1>6, <2>1
<1>8. \A i \in 1..m : w[n + i] = t[i]
  <2> TAKE i \in 1..m
  <2>1. /\ n + i \in 1..(n + m) /\ n + i \in 1..((n + m) + l) /\ ~(n + i <= n)
        /\ n + i <= n + m /\ (n + i) - n = i
    BY <1>1
  <2> QED BY <1>3, <1>6, <2>1
<1>9. \A k \in 1..Len(w) : k > n + m => \E i \in 1..l : w[k] = u[i]
  <2> SUFFICES ASSUME NEW k \in 1..Len(w), k > n + m
               PROVE  \E i \in 1..l : w[k] = u[i]
    OBVIOUS
  <2>1. k \in 1..((n + m) + l) /\ ~(k <= n + m) /\ k - (n + m) \in 1..l
    BY <1>1, <1>5
  <2> QED BY <1>6, <2>1
<1> QED
  BY <1>1, <1>5, <1>7, <1>8, <1>9 DEF Joins, n, m, l, w

(* The calls after the first x of the reply.                               *)
LEMMA RestFacts ==
  ASSUME AgentInv, NEW x \in Nat, agent.index <= x, x <= Len(agent.calls),
         NEW rest, rest = SubSeq(agent.calls, x + 1, Len(agent.calls))
  PROVE  /\ rest \in Seq(Nat) /\ Len(rest) = Len(agent.calls) - x
         /\ \A i \in 1..Len(rest) : rest[i] = Settled + (x - agent.index) + i
<1> DEFINE n == Len(agent.calls)
           y == agent.index
           all == Len(issued)
<1>1. /\ agent.calls \in Seq(Nat) /\ n \in Nat /\ y \in Nat /\ all \in Nat
      /\ y <= x /\ x <= n /\ Settled = all - n + y
      /\ \A i \in 1..n : agent.calls[i] = all - n + i
  BY HistoryFacts
<1>2. rest = SubSeq(agent.calls, x + 1, n)
  OBVIOUS
<1> HIDE DEF n, y, all
<1>3. x + 1 \in 1..(n + 1) /\ n \in 0..n /\ x + 1 \in Nat \ {0}
  BY <1>1
<1>4. rest \in Seq(Nat) /\ Len(rest) = n - x
  <2>1. rest \in Seq(Nat)
    BY <1>1, <1>3, RecordsSubSeqType
  <2>2. Len(rest) = IF x + 1 <= n THEN n - (x + 1) + 1 ELSE 0
    BY <1>1, <1>2, <1>3, SubSeqProperties DEF n
  <2> QED BY <1>1, <2>1, <2>2, SMTT(20)
<1>5. \A i \in 1..(n - x) : rest[i] = Settled + (x - y) + i
  <2> TAKE i \in 1..(n - x)
  <2>1. i \in 1..(n - (x + 1) + 1) /\ (x + 1) + i - 1 = x + i /\ x + i \in 1..n
    BY <1>1
  <2>2. rest[i] = agent.calls[x + i]
    BY <1>1, <1>2, <1>3, <2>1, SubSeqProperties DEF n
  <2>3. agent.calls[x + i] = all - n + (x + i)
    BY <1>1, <2>1
  <2>4. all - n + (x + i) = (all - n + y) + (x - y) + i
    BY <1>1, <2>1
  <2> QED BY <1>1, <2>2, <2>3, <2>4
<1> QED
  BY <1>4, <1>5 DEF n, y

(* The calls not answered yet are those after the settled ones.            *)
LEMMA RemainingFacts ==
  ASSUME AgentInv
  PROVE  /\ Remaining(agent) \in Seq(Nat)
         /\ Len(Remaining(agent)) = Len(agent.calls) - agent.index
         /\ Len(Remaining(agent)) \in Nat
         /\ \A i \in 1..Len(Remaining(agent)) : Remaining(agent)[i] = Settled + i
<1>1. /\ agent.index \in Nat /\ Len(agent.calls) \in Nat /\ Settled \in Nat
      /\ agent.index <= Len(agent.calls)
  BY HistoryFacts
<1>2. agent.index <= agent.index /\ Settled + (agent.index - agent.index) = Settled
  BY <1>1
<1> DEFINE rest == Remaining(agent)
<1>3. rest = SubSeq(agent.calls, agent.index + 1, Len(agent.calls))
  BY DEF Remaining
<1> HIDE DEF rest
<1>4. /\ rest \in Seq(Nat) /\ Len(rest) = Len(agent.calls) - agent.index
      /\ \A i \in 1..Len(rest) : rest[i] = Settled + (agent.index - agent.index) + i
  BY <1>1, <1>2, <1>3, RestFacts
<1> QED
  BY <1>1, <1>2, <1>4, LenProperties DEF rest

(* One result for the call at the cursor.                                  *)
LEMMA FinishedHistory ==
  ASSUME AgentInv, AgentInv', HistoryInv, AtCall, NEW a \in AgentStates,
         a.calls = agent.calls, a.index = agent.index, NEW o \in Outcomes,
         FinishCurrentCall(a, o), Honest(ToolEntry(Settled + 1, o), issued'), KeepsSettled
  PROVE  HistoryInv'
<1>1. /\ CurrentCall = Settled + 1 /\ Settled \in Nat /\ Len(history) \in Nat
      /\ history \in Seq(Entries) /\ agent.index \in Nat /\ Len(agent.calls) \in Nat
      /\ agent.index < Len(agent.calls)
  BY HistoryFacts, CallFacts DEF HasCurrentCall
<1>2. /\ history' = Append(history, ToolEntry(Settled + 1, o)) /\ agent' = Advanced(a, 1)
      /\ ~AtTimer'
  BY <1>1 DEF FinishCurrentCall, GoTo, NextContinuation, AtTimer
<1>3. /\ Len(history') = Len(history) + 1
      /\ \A k \in 1..Len(history) : history'[k] = history[k]
      /\ history'[Len(history) + 1] = ToolEntry(Settled + 1, o)
  <2>1. ToolEntry(Settled + 1, o) \in Entries
    BY <1>1 DEF ToolEntry, Entries
  <2> QED BY <1>1, <1>2, <2>1, AppendProperties
<1>4. Appends(1)
  <2>1. \A i \in 1..1 : i = 1
    OBVIOUS
  <2>2. \A k \in 1..Len(history') : ~(k > Len(history) + 1)
    BY <1>1, <1>3
  <2>3. Len(history) + 1 <= Len(history')
    BY <1>1, <1>3
  <2> QED BY <1>1, <1>3, <2>1, <2>2, <2>3 DEF Appends, ToolEntry
<1>5. Passes(1)
  <2>1. CASE a.index + 1 < Len(a.calls)
    <3>1. agent' = [a EXCEPT !.index = a.index + 1]
      BY <1>2, <2>1 DEF Advanced
    <3> QED BY <1>1, <1>3, <2>1, <3>1 DEF AgentStates, Passes
  <2>2. CASE ~(a.index + 1 < Len(a.calls))
    <3>1. agent' = WithCallsCleared(a)
      BY <1>2, <2>2 DEF Advanced
    <3>2. agent'.calls = <<>> /\ agent'.index = 0
      BY <3>1 DEF WithCallsCleared, AgentStates
    <3> QED BY <1>1, <2>2, <3>2 DEF Passes
  <2> QED BY <2>1, <2>2
<1>6. TimerInv'
  BY <1>2 DEF TimerInv
<1> QED
  BY <1>4, <1>5, <1>6, HistoryGrows

(* The results of the next `count' calls; the calls that are left then,    *)
(* which have not run; and the turns of the user.                          *)
Answers(h, count) ==
    /\ Len(h) = Len(history) + count
    /\ \A k \in 1..Len(history) : h[k] = history[k]
    /\ \A i \in 1..count :
          /\ h[Len(history) + i].role = "tool" /\ h[Len(history) + i].call = Settled + i
          /\ Honest(h[Len(history) + i], issued)
Leaves(rest, count) ==
    /\ agent.index + count + Len(rest) = Len(agent.calls)
    /\ \A i \in 1..Len(rest) : rest[i] = Settled + count + i
NotRunAfter(count) ==
    \A call \in 1..Len(issued) : call > Settled + count => issued[call].runs = 0
UserTurns(u) == \A i \in 1..Len(u) : u[i].role \in {"user", "answer"}

(* The calls left are interrupted after the results of the first `count'   *)
(* of them, and nothing but user turns follows.                            *)
LEMMA InterruptedHistory ==
  ASSUME AgentInv, AgentInv', HistoryInv, NEW h \in Seq(Entries), NEW rest \in Seq(Nat),
         NEW u \in Seq(Entries), history' = h \o Interrupted(rest) \o u, UserTurns(u),
         NEW count \in Nat, Answers(h, count), Leaves(rest, count), NotRunAfter(count),
         UNCHANGED issued, agent'.calls = <<>>, agent'.index = 0, ~AtTimer'
  PROVE  HistoryInv'
<1> DEFINE t == Interrupted(rest)
           n == Len(history)
           m == Len(rest)
<1>1. /\ n \in Nat /\ Settled \in Nat /\ Len(issued) \in Nat /\ m \in Nat
      /\ agent.index \in Nat /\ Len(agent.calls) \in Nat
      /\ Settled = Len(issued) - Len(agent.calls) + agent.index
  BY HistoryFacts, LenProperties
<1>2. t \in Seq(Entries) /\ history' = h \o t \o u
  BY InterruptedType
<1>3. Len(t) = m /\ (\A i \in 1..m : t[i] = ToolEntry(rest[i], "interrupted"))
  BY <1>1, <1>2, LenProperties DEF Interrupted
<1>5. m + count \in Nat /\ agent.index + (count + m) = Len(agent.calls)
  BY <1>1 DEF Leaves
<1>6. \A i \in 1..m : /\ rest[i] = Settled + (count + i) /\ rest[i] \in 1..Len(issued)
                      /\ rest[i] > Settled + count
  <2> DEFINE s == Settled
             all == Len(issued)
             len == Len(agent.calls)
             x == agent.index
  <2>1. /\ s \in Nat /\ all \in Nat /\ len \in Nat /\ x \in Nat /\ s = all - len + x
        /\ x + (count + m) = len /\ len <= all
    BY <1>1, <1>5, HistoryFacts DEF CursorInv
  <2>2. \A i \in 1..m : rest[i] = s + count + i
    BY DEF Leaves
  <2> HIDE DEF s, all, len, x, m
  <2>3. \A i \in 1..m : /\ s + count + i = s + (count + i) /\ s + count + i \in 1..all
                         /\ s + count + i > s + count
    BY <1>1, <2>1
  <2> QED BY <2>2, <2>3 DEF s, all
<1>7. Len(h) = n + count /\ Len(h) \in Nat
  BY <1>1 DEF Answers
<1> HIDE DEF t, n, m
<1>8. Joins(history', h, t, u)
  BY <1>2, ThreeParts
<1>9. /\ Len(history') = (n + count) + m + Len(u)
      /\ \A k \in 1..(n + count) : history'[k] = h[k]
      /\ \A i \in 1..m : history'[(n + count) + i] = t[i]
      /\ \A k \in 1..Len(history') :
            k > (n + count) + m => \E i \in 1..Len(u) : history'[k] = u[i]
  BY <1>3, <1>7, <1>8 DEF Joins
<1>10. \A k \in 1..n : history'[k] = history[k]
  <2> TAKE k \in 1..n
  <2>1. k \in 1..(n + count)
    BY <1>1
  <2> QED BY <1>9, <2>1 DEF n, Answers
<1>11. \A i \in 1..(count + m) :
         /\ history'[n + i].role = "tool" /\ history'[n + i].call = Settled + i
         /\ Honest(history'[n + i], issued')
  <2> TAKE i \in 1..(count + m)
  <2>1. CASE i \in 1..count /\ n + i \in 1..(n + count)
    BY <1>9, <2>1 DEF n, Answers
  <2>2. CASE /\ i - count \in 1..m /\ (n + count) + (i - count) = n + i
             /\ count + (i - count) = i
    <3> DEFINE j == i - count
    <3>1. j \in 1..m /\ (n + count) + j = n + i /\ count + j = i
      BY <2>2
    <3> HIDE DEF j
    <3>2. history'[n + i] = ToolEntry(rest[j], "interrupted")
      BY <1>3, <1>9, <3>1
    <3>3. rest[j] = Settled + i /\ rest[j] \in 1..Len(issued) /\ issued[rest[j]].runs = 0
      BY <1>6, <3>1 DEF NotRunAfter
    <3>4. Honest(ToolEntry(Settled + i, "interrupted"), issued)
      BY <3>3 DEF ToolEntry, Honest
    <3>5. history'[n + i] = ToolEntry(Settled + i, "interrupted") /\ issued' = issued
      BY <3>2, <3>3
    <3>6. /\ ToolEntry(Settled + i, "interrupted").role = "tool"
          /\ ToolEntry(Settled + i, "interrupted").call = Settled + i
      BY DEF ToolEntry
    <3> QED BY <3>4, <3>5, <3>6
  <2>3. \/ i \in 1..count /\ n + i \in 1..(n + count)
        \/ /\ i - count \in 1..m /\ (n + count) + (i - count) = n + i
           /\ count + (i - count) = i
    <3>1. n \in Nat /\ m \in Nat
      BY <1>1
    <3> QED BY <3>1
  <2> QED BY <2>1, <2>2, <2>3
<1>12. \A k \in 1..Len(history') : k > n + (count + m) => history'[k].role \in {"user", "answer"}
  <2> SUFFICES ASSUME NEW k \in 1..Len(history'), k > n + (count + m)
               PROVE  history'[k].role \in {"user", "answer"}
    OBVIOUS
  <2>1. k > (n + count) + m
    BY <1>1
  <2>2. PICK i \in 1..Len(u) : history'[k] = u[i]
    BY <1>9, <2>1
  <2> QED BY <2>2 DEF UserTurns
<1>13. n + (count + m) <= Len(history')
  BY <1>1, <1>8, <1>9 DEF Joins
<1>14. Appends(count + m)
  BY <1>10, <1>11, <1>12, <1>13 DEF Appends, n
<1>15. Passes(count + m)
  BY <1>1, <1>5 DEF Passes
<1>16. KeepsSettled /\ TimerInv'
  BY DEF KeepsSettled, TimerInv
<1> QED
  BY <1>1, <1>5, <1>14, <1>15, <1>16, HistoryGrows

(* A steered turn interrupts them and appends its messages.                *)
LEMMA SteeredHistory ==
  ASSUME AgentInv, AgentInv', HistoryInv, NEW messages \in Seq(Messages),
         NEW a \in AgentStates, NEW h \in Seq(Entries), BeginSteeredTurn(messages, a, h),
         NEW count \in Nat, Answers(h, count), Remaining(a) \in Seq(Nat),
         Leaves(Remaining(a), count), NotRunAfter(count), UNCHANGED issued, ~AtTimer'
  PROVE  HistoryInv'
<1> DEFINE rest == Remaining(a)
           u == UserEntries(messages)
<1>1. u \in Seq(Entries) /\ history' = h \o Interrupted(rest) \o u
  BY UserEntriesType DEF BeginSteeredTurn
<1>2. UserTurns(u)
  BY <1>1, LenProperties DEF UserEntries, UserEntry, UserTurns
<1>3. agent'.calls = <<>> /\ agent'.index = 0
  BY SteeredTurnFacts
<1> HIDE DEF rest, u
<1> QED
  BY <1>1, <1>2, <1>3, InterruptedHistory DEF rest

(* The outcomes a batch may append.                                        *)
Known(records) ==
    \A i \in 1..BatchSize :
        /\ records[i].call = Settled + i
        /\ records[i].outcome \in {"succeeded", "failed", "unknown"}
        /\ records[i].outcome \in {"succeeded", "failed"} => issued[Settled + i].runs > 0

(* The records of a finished batch answer exactly its calls, and say of    *)
(* each whether it ran.                                                    *)
LEMMA BatchAnswers ==
  ASSUME AgentInv, HasBatch, NEW records \in Seq(Records), Len(records) = BatchSize,
         Known(records)
  PROVE  /\ history \o BatchEntries(records) \in Seq(Entries)
         /\ Answers(history \o BatchEntries(records), BatchSize)
         /\ NotRunAfter(BatchSize) /\ BatchSize \in Nat /\ BatchSize > 0
<1> DEFINE t == BatchEntries(records)
           h == history \o t
           n == Len(history)
           m == BatchSize
<1>1. history \in Seq(Entries) /\ n \in Nat /\ m \in Nat /\ m > 0
  BY HistoryFacts, BatchFacts DEF AgentInv, RecoveryInv
<1>2. /\ t \in Seq(Entries) /\ Len(t) = m
      /\ \A i \in 1..m : t[i] = ToolEntry(records[i].call, records[i].outcome)
  BY <1>1, BatchEntriesType, LenBatchEntries DEF BatchEntries
<1> HIDE DEF t
<1>3. /\ h \in Seq(Entries) /\ Len(h) = n + m
      /\ \A k \in 1..(n + m) : h[k] = IF k <= n THEN history[k] ELSE t[k - n]
  <2>1. /\ h \in Seq(Entries) /\ Len(h) = n + Len(t)
        /\ \A k \in 1..(n + Len(t)) : h[k] = IF k <= n THEN history[k] ELSE t[k - n]
    BY <1>1, <1>2, ConcatProperties
  <2> HIDE DEF h, n, m
  <2> QED BY <1>2, <2>1
<1> HIDE DEF h, n, m
<1>4. \A k \in 1..n : h[k] = history[k]
  <2> TAKE k \in 1..n
  <2>1. k \in 1..(n + m) /\ k <= n
    BY <1>1
  <2> QED BY <1>3, <2>1
<1>5. \A i \in 1..m : h[n + i] = ToolEntry(records[i].call, records[i].outcome)
  <2> TAKE i \in 1..m
  <2>1. n + i \in 1..(n + m) /\ ~(n + i <= n) /\ (n + i) - n = i
    BY <1>1
  <2> QED BY <1>2, <1>3, <2>1
<1>6. \A i \in 1..m : Honest(ToolEntry(records[i].call, records[i].outcome), issued)
  BY DEF Honest, ToolEntry, Known, m
<1>7. \A i \in 1..m : h[n + i].role = "tool" /\ h[n + i].call = Settled + i
  <2> TAKE i \in 1..m
  <2>1. /\ h[n + i] = ToolEntry(records[i].call, records[i].outcome)
        /\ records[i].call = Settled + i
    BY <1>5 DEF Known, m
  <2> QED BY <2>1 DEF ToolEntry
<1>8. Answers(h, m)
  BY <1>3, <1>4, <1>5, <1>6, <1>7 DEF Answers, n
<1>9. NotRunAfter(m)
  <2> SUFFICES ASSUME NEW call \in 1..Len(issued), call > Settled + m
               PROVE  issued[call].runs = 0
    BY DEF NotRunAfter
  <2>1. issued[call].runs \in Nat
    BY HistoryFacts, CallFacts DEF Calls
  <2>2. ~(call <= Settled) /\ ~(call <= Settled + m)
    BY <1>1, HistoryFacts
  <2>3. ~AtRun
    BY DEF AtRun, HasBatch
  <2> QED BY <2>1, <2>2, <2>3 DEF AgentInv, CallInv, RunInv, m
<1> QED
  BY <1>1, <1>3, <1>8, <1>9 DEF h, t, m

(* The results of a finished batch.                                        *)
LEMMA FinishedBatchHistory ==
  ASSUME AgentInv, AgentInv', HistoryInv, HasBatch, NEW records \in Seq(Records),
         Len(records) = BatchSize, Known(records), FinishBatch(records), UNCHANGED issued
  PROVE  HistoryInv'
<1> DEFINE m == BatchSize
<1>1. /\ history' = history \o BatchEntries(records) /\ agent' = Advanced(agent, m)
      /\ ~AtTimer'
  BY DEF FinishBatch, GoTo, NextContinuation, AtTimer
<1>2. /\ Answers(history', m) /\ m \in Nat /\ agent.index + m <= Len(agent.calls)
      /\ agent.index \in Nat /\ Len(agent.calls) \in Nat /\ Len(history) \in Nat
      /\ agent \in AgentStates
  BY <1>1, BatchAnswers, BatchFacts, HistoryFacts DEF AgentInv
<1> HIDE DEF m
<1>3. Len(history') = Len(history) + m
  BY <1>2 DEF Answers
<1>4. Appends(m)
  <2>1. Len(history) + m <= Len(history')
    BY <1>2, <1>3
  <2>2. \A k \in 1..Len(history') : ~(k > Len(history) + m)
    BY <1>2, <1>3
  <2> QED BY <1>2, <2>1, <2>2 DEF Answers, Appends
<1>5. Passes(m)
  <2>1. CASE agent.index + m < Len(agent.calls)
    <3>1. agent' = [agent EXCEPT !.index = agent.index + m]
      BY <1>1, <2>1 DEF Advanced
    <3> QED BY <1>2, <1>3, <2>1, <3>1 DEF AgentStates, Passes
  <2>2. CASE ~(agent.index + m < Len(agent.calls))
    <3>1. agent' = WithCallsCleared(agent)
      BY <1>1, <2>2 DEF Advanced
    <3>2. agent'.calls = <<>> /\ agent'.index = 0
      BY <1>2, <3>1 DEF WithCallsCleared, AgentStates
    <3>3. agent.index + m = Len(agent.calls)
      BY <1>2, <2>2
    <3> QED BY <1>2, <3>2, <3>3 DEF Passes
  <2> QED BY <2>1, <2>2
<1>6. KeepsSettled /\ TimerInv'
  BY <1>1 DEF KeepsSettled, TimerInv
<1> QED
  BY <1>2, <1>4, <1>5, <1>6, HistoryGrows

-----------------------------------------------------------------------------
(* The history, action by action.                                          *)

(* A user's RPC decides about calls, and runs none.                        *)
LEMMA UserCommandRuns ==
  ASSUME TypeOK, UserCommand
  PROVE  /\ Len(issued') = Len(issued)
         /\ \A call \in 1..Len(issued) : /\ issued'[call].runs = issued[call].runs
                                         /\ issued'[call].tool = issued[call].tool
<1>1. /\ issued \in Seq(Calls) /\ Len(issued) \in Nat /\ DOMAIN issued = 1..Len(issued)
      /\ \A call \in 1..Len(issued) : issued[call] \in Calls
  BY LenProperties, ElementOfSeq DEF TypeOK, ConversationType
<1>2. issued' \in Seq(Calls)
  BY UserCommandType DEF TypeOK, ConversationType
<1>3. CASE UNCHANGED issued
  BY <1>3
<1>4. ASSUME NEW isApproved \in BOOLEAN, ApproveTool(isApproved)
      PROVE  /\ DOMAIN issued' = DOMAIN issued
             /\ \A call \in 1..Len(issued) : /\ issued'[call].runs = issued[call].runs
                                             /\ issued'[call].tool = issued[call].tool
  BY <1>1, <1>4 DEF ApproveTool, Calls
<1>5. ASSUME NEW isStop, NEW retried, ResolveToolRecovery(isStop, retried)
      PROVE  /\ DOMAIN issued' = DOMAIN issued
             /\ \A call \in 1..Len(issued) : /\ issued'[call].runs = issued[call].runs
                                             /\ issued'[call].tool = issued[call].tool
  BY <1>1, <1>5 DEF ResolveToolRecovery, Calls
<1>6. DOMAIN issued' = DOMAIN issued => Len(issued') = Len(issued)
  BY <1>1, <1>2, LenProperties
<1>7. \/ UNCHANGED issued \/ \E isApproved \in BOOLEAN : ApproveTool(isApproved)
      \/ \E isStop, retried : ResolveToolRecovery(isStop, retried)
  BY DEF UserCommand, SendMessage, DeleteQueuedMessage, SteerMessage, AnswerQuestions,
     ExecutePlan, conversation
<1> QED
  BY <1>3, <1>4, <1>5, <1>6, <1>7

(* A user's RPC leaves the history alone and settles no call.              *)
LEMMA UserCommandHistory ==
  ASSUME AgentInv, AgentInv', HistoryInv, UserCommand
  PROVE  HistoryInv'
<1>1. TypeOK /\ agent \in AgentStates
  BY HistoryFacts
<1>2. /\ UNCHANGED <<step, input, history>>
      /\ agent' = agent \/ \E s, t : agent' = [agent EXCEPT !.execution = s, !.noProgress = t]
  BY DEF UserCommand, SendMessage, DeleteQueuedMessage, SteerMessage, AnswerQuestions,
     ApproveTool, ResolveToolRecovery, ExecutePlan, movement, conversation
<1>3. agent'.calls = agent.calls /\ agent'.index = agent.index
  BY <1>1, <1>2 DEF AgentStates
<1>4. /\ Len(issued') = Len(issued)
      /\ \A call \in 1..Len(issued) : /\ issued'[call].runs = issued[call].runs
                                      /\ issued'[call].tool = issued[call].tool
  BY <1>1, UserCommandRuns
<1>5. KeepsSettled
  <2>1. \A call \in 1..Settled : call \in 1..Len(issued)
    BY HistoryFacts
  <2> QED BY <1>4, <2>1 DEF KeepsSettled
<1>6. TimerInv'
  <2>1. AtTimer' = AtTimer /\ Settled' = Settled
    BY <1>2, <1>3, <1>4 DEF AtTimer, Settled
  <2>2. AtTimer => Settled + 1 \in 1..Len(issued)
    BY HistoryFacts, CallFacts DEF AtCall
  <2> QED BY <1>4, <2>1, <2>2 DEF HistoryInv, TimerInv
<1> QED
  BY <1>2, <1>3, <1>5, <1>6, HistoryStays

(* Where no later call has run, the calls left are those at the cursor.    *)
LEMMA LeftFacts ==
  ASSUME AgentInv, ~HasBatch, ~AtRun \/ step = "CheckSteered"
  PROVE  /\ NotRunAfter(0) /\ Answers(history, 0) /\ 0 \in Nat
         /\ Remaining(agent) \in Seq(Nat) /\ Leaves(Remaining(agent), 0)
<1>1. /\ Len(history) \in Nat /\ Settled \in Nat /\ agent.index \in Nat
      /\ Len(agent.calls) \in Nat /\ TypeOK /\ CallInv /\ CursorInv
  BY HistoryFacts
<1>2. Answers(history, 0)
  BY <1>1 DEF Answers
<1>3. Leaves(Remaining(agent), 0)
  <2>1. /\ Len(Remaining(agent)) = Len(agent.calls) - agent.index
        /\ \A i \in 1..Len(Remaining(agent)) : Remaining(agent)[i] = Settled + i
    BY RemainingFacts
  <2>2. agent.index + 0 + Len(Remaining(agent)) = Len(agent.calls) /\ Settled + 0 = Settled
    BY <1>1, <2>1
  <2> QED BY <2>1, <2>2 DEF Leaves
<1>4. NotRunAfter(0)
  <2> SUFFICES ASSUME NEW call \in 1..Len(issued), call > Settled + 0
               PROVE  issued[call].runs = 0
    BY DEF NotRunAfter
  <2>1. issued[call].runs \in Nat /\ ~(call <= Settled)
    <3>1. issued[call] \in Calls /\ Len(issued) \in Nat
      BY <1>1, CallFacts
    <3>2. ~(call <= Settled)
      BY <1>1, <3>1
    <3> QED BY <3>1, <3>2 DEF Calls
  <2>2. issued[call].runs > 0 => call <= Settled
    BY <1>1, NothingAhead DEF AgentInv
  <2> QED BY <2>1, <2>2
<1> QED
  BY <1>2, <1>3, <1>4, RemainingFacts

(* A steered turn there interrupts them.                                   *)
LEMMA TurnSteered ==
  ASSUME AgentInv, AgentInv', HistoryInv, ~HasBatch, ~AtRun \/ step = "CheckSteered",
         NEW messages \in Seq(Messages), BeginSteeredTurn(messages, agent, history),
         UNCHANGED issued, ~AtTimer'
  PROVE  HistoryInv'
BY LeftFacts, HistoryFacts, SteeredHistory

(* A user turn where no call is open.                                      *)
LEMMA TurnAppended ==
  ASSUME AgentInv, AgentInv', HistoryInv, ~AtCall, NEW u \in Seq(Entries),
         history' = history \o u, UserTurns(u), agent'.calls = <<>>, agent'.index = 0,
         UNCHANGED issued, ~AtTimer'
  PROVE  HistoryInv'
<1> DEFINE n == Len(history)
           m == Len(u)
<1>1. /\ n \in Nat /\ m \in Nat /\ history \in Seq(Entries) /\ agent.calls = <<>>
      /\ agent.index = 0 /\ Len(agent.calls) = 0
  BY HistoryFacts, LenProperties, EmptySeq DEF CursorInv
<1>2. /\ Len(history') = n + m
      /\ \A k \in 1..(n + m) : history'[k] = IF k <= n THEN history[k] ELSE u[k - n]
  BY <1>1, ConcatProperties
<1> HIDE DEF n, m
<1>3. \A k \in 1..n : history'[k] = history[k]
  <2> TAKE k \in 1..n
  <2>1. k \in 1..(n + m) /\ k <= n
    BY <1>1
  <2> QED BY <1>2, <2>1
<1>4. \A k \in 1..(n + m) : k > n + 0 => history'[k].role \in {"user", "answer"}
  <2> SUFFICES ASSUME NEW k \in 1..(n + m), k > n + 0
               PROVE  history'[k].role \in {"user", "answer"}
    OBVIOUS
  <2>1. ~(k <= n) /\ k - n \in 1..m
    BY <1>1
  <2> QED BY <1>2, <2>1 DEF UserTurns, m
<1>5. n + 0 <= Len(history') /\ \A i \in 1..0 : FALSE
  BY <1>1, <1>2
<1>6. Appends(0)
  BY <1>2, <1>3, <1>4, <1>5 DEF Appends, n
<1>7. Passes(0)
  BY <1>1 DEF Passes
<1>8. KeepsSettled /\ TimerInv'
  BY DEF KeepsSettled, TimerInv
<1> QED
  BY <1>6, <1>7, <1>8, HistoryGrows

(* Init and AwaitUser begin a turn with every call answered.               *)
LEMMA UserBoundaryHistory ==
  ASSUME AgentInv, AgentInv', HistoryInv, UserBoundary
  PROVE  HistoryInv'
<1> USE DEF movement, conversation
<1>1. ~AtCall /\ ~HasBatch /\ ~AtRun /\ step \in {"Init", "AwaitUser", "AnsweredInput"}
  BY DEF UserBoundary, InitExecute, AwaitUserWaitFor, IsSelecting, SelectAnswer, SelectSteered,
     SelectQueued, SelectPlan, IsBeginning, AwaitUserExecuteAnswer, AwaitUserExecuteSteered,
     AwaitUserExecuteQueued, AwaitUserExecutePlan, AnsweredInput, AtCall, AtApproval, AtTimer,
     AtRun, HasBatch
<1>2. /\ agent \in AgentStates /\ agent.calls = <<>> /\ agent.index = 0 /\ TypeOK
      /\ history \in Seq(Entries) /\ selected.messages \in Seq(Messages) /\ selected.ref \in Nat
  BY <1>1, HistoryFacts DEF CursorInv, TypeOK, AwaitingType, Selections
<1>3. UNCHANGED issued /\ ~AtTimer'
  <2>1. CASE AnsweredInput
    BY <2>1, GoToModelLeaves DEF AnsweredInput, GoToCompactContext, AtCall
  <2>2. CASE ~AnsweredInput
    BY <1>1, <2>2 DEF UserBoundary, InitExecute, AwaitUserWaitFor, IsSelecting, SelectAnswer,
       SelectSteered, SelectQueued, SelectPlan, Select, IsBeginning, AwaitUserExecuteAnswer,
       AwaitUserExecuteSteered, AwaitUserExecuteQueued, AwaitUserExecutePlan, GoTo, AtTimer
  <2> QED BY <2>1, <2>2
<1>4. CASE UNCHANGED history /\ agent'.calls = agent.calls /\ agent'.index = agent.index
  <2>1. KeepsSettled /\ TimerInv'
    BY <1>3 DEF KeepsSettled, TimerInv
  <2> QED BY <1>4, <2>1, HistoryStays
<1>5. CASE InitExecute
  <2>1. agent'.calls = agent.calls /\ agent'.index = agent.index /\ UNCHANGED history
    BY <1>2, <1>5 DEF InitExecute, NewAgentState
  <2> QED BY <1>4, <2>1
<1>6. CASE AwaitUserWaitFor
  BY <1>2, <1>4, <1>6, StatusFacts DEF AwaitUserWaitFor
<1>7. CASE SelectAnswer \/ SelectSteered \/ SelectQueued \/ SelectPlan \/ AnsweredInput
  BY <1>4, <1>7 DEF SelectAnswer, SelectSteered, SelectQueued, SelectPlan, Select, AnsweredInput
<1>8. CASE AwaitUserExecutePlan
  <2>1. agent'.calls = agent.calls /\ agent'.index = agent.index /\ UNCHANGED history
    BY <1>2, <1>8 DEF AwaitUserExecutePlan, AgentStates
  <2> QED BY <1>4, <2>1
<1>9. CASE AwaitUserExecuteAnswer
  <2>1. AnswerEntry(selected.ref) \in Entries
    BY <1>2 DEF AnswerEntry, Entries
  <2>2. agent' = AfterUserTurn(agent, FALSE, TRUE) /\ history' = history \o <<AnswerEntry(selected.ref)>>
    <3>1. history' = Append(history, AnswerEntry(selected.ref))
      BY <1>9 DEF AwaitUserExecuteAnswer
    <3>2. Append(history, AnswerEntry(selected.ref)) = history \o <<AnswerEntry(selected.ref)>>
      BY <1>2, <2>1, AppendIsConcat
    <3> QED BY <1>9, <3>1, <3>2 DEF AwaitUserExecuteAnswer
  <2>3. <<AnswerEntry(selected.ref)>> \in Seq(Entries) /\ UserTurns(<<AnswerEntry(selected.ref)>>)
    BY <2>1 DEF UserTurns, AnswerEntry
  <2>4. agent'.calls = <<>> /\ agent'.index = 0
    BY <1>2, <2>2, UserTurnFacts
  <2> QED BY <1>1, <1>3, <2>2, <2>3, <2>4, TurnAppended
<1>10. CASE AwaitUserExecuteSteered
  BY <1>1, <1>2, <1>3, <1>10, TurnSteered DEF AwaitUserExecuteSteered
<1>11. CASE AwaitUserExecuteQueued
  <2> DEFINE u == UserEntries(selected.messages)
  <2>1. u \in Seq(Entries) /\ UserTurns(u)
    BY <1>2, UserEntriesType, LenProperties DEF UserEntries, UserEntry, UserTurns
  <2>2. /\ agent' = AfterUserTurn(agent, selected.messages[1] \in PlanModeMessages, FALSE)
        /\ history' = history \o u
    BY <1>11 DEF AwaitUserExecuteQueued
  <2>3. agent'.calls = <<>> /\ agent'.index = 0
    <3>1. (selected.messages[1] \in PlanModeMessages) \in BOOLEAN
      OBVIOUS
    <3> QED BY <1>2, <2>2, <3>1, UserTurnFacts
  <2> HIDE DEF u
  <2> QED BY <1>1, <1>3, <2>1, <2>2, <2>3, TurnAppended
<1> QED
  BY <1>5, <1>6, <1>7, <1>8, <1>9, <1>10, <1>11 DEF UserBoundary

(* A model turn issues calls after every earlier one was answered.         *)
LEMMA ModelTurnHistory ==
  ASSUME AgentInv, AgentInv', HistoryInv, ModelTurn
  PROVE  HistoryInv'
<1> USE DEF movement, conversation
<1>1. ~AtCall /\ TypeOK /\ agent \in AgentStates
  <2>1. ~AtCall
    BY DEF ModelTurn, CallModel, CompactContext, BeforeModelCall, CallModelWithHooks,
       AfterModelCall, ApplyResponse, ApplyCompaction, ModelStepExhausted, ModelSteps,
       AtCall, AtApproval, AtTimer, AtRun, HasBatch
  <2> QED BY <2>1, HistoryFacts
<1>2. ASSUME UNCHANGED <<history, issued>>, agent' = agent \/ \E s : agent' = Status(s), ~AtTimer'
      PROVE  HistoryInv'
  <2>1. agent'.calls = agent.calls /\ agent'.index = agent.index
    BY <1>1, <1>2, StatusFacts
  <2>2. KeepsSettled /\ TimerInv'
    BY <1>2 DEF KeepsSettled, TimerInv
  <2> QED BY <1>2, <2>1, <2>2, HistoryStays
<1>3. CASE CallModel
  <2>1. PICK requests \in ModelReplies : ApplyReply(Status("calling_model"), requests)
    BY <1>3 DEF CallModel
  <2>2. requests \in Seq(Requests)
    BY ModelRepliesType
  <2>3. /\ Status("calling_model") \in AgentStates
        /\ Status("calling_model").calls = agent.calls
        /\ Status("calling_model").index = agent.index
    BY <1>1, StatusType, StatusFacts DEF TypeOK, Statuses
  <2> QED BY <1>1, <2>1, <2>2, <2>3, HistoryReplies
<1>4. CASE ApplyResponse
  <2>1. reply.requests \in Seq(Requests)
    BY <1>1 DEF TypeOK, ReplyType
  <2> QED BY <1>1, <1>4, <2>1, HistoryReplies DEF ApplyResponse
<1>5. CASE CompactContext \/ BeforeModelCall \/ CallModelWithHooks \/ AfterModelCall
           \/ ApplyCompaction \/ ModelStepExhausted
  <2>1. UNCHANGED <<history, issued>> /\ (agent' = agent \/ \E s : agent' = Status(s))
    BY <1>5 DEF CompactContext, BeforeModelCall, CallModelWithHooks, AfterModelCall,
       ApplyCompaction, ModelStepExhausted
  <2>2. ~AtTimer'
    BY <1>1, <1>5 DEF CompactContext, BeforeModelCall, CallModelWithHooks, AfterModelCall,
       ApplyCompaction, ModelStepExhausted, GoTo, AtTimer
  <2> QED BY <1>2, <2>1, <2>2
<1> QED
  BY <1>3, <1>4, <1>5 DEF ModelTurn

(* The safe boundary goes on without touching the conversation.            *)
LEMMA ContinuedHistory ==
  ASSUME AgentInv, AgentInv', HistoryInv, CheckSteeredContinue
  PROVE  HistoryInv'
<1>1. UNCHANGED <<agent, history, issued>> /\ step = "CheckSteered"
  BY DEF CheckSteeredContinue, conversation
<1>2. AtTimer' => AtTimer
  <2>1. \/ input = "durable_wait"
        \/ GoToModel("response") \/ GoToCompactContext(history)
        \/ step' \in {"AwaitUser", "RouteTool", "AwaitToolApproval", "ExecuteTool"}
    BY DEF CheckSteeredContinue, GoTo
  <2>2. GoToModel("response") \/ GoToCompactContext(history) => ~AtTimer'
    BY GoToModelLeaves DEF GoToCompactContext, AtCall
  <2> QED BY <1>1, <2>1, <2>2 DEF AtTimer
<1>3. KeepsSettled /\ TimerInv'
  BY <1>1, <1>2 DEF KeepsSettled, HistoryInv, TimerInv, Settled
<1> QED
  BY <1>1, <1>3, HistoryStays

(* CheckSteered and RouteTool answer the calls they interrupt or refuse.   *)
LEMMA RoutedHistory ==
  ASSUME AgentInv, AgentInv', HistoryInv, Routed
  PROVE  HistoryInv'
<1> USE DEF movement, conversation
<1>1. ~HasBatch /\ step \in {"CheckSteered", "RouteTool"} /\ UNCHANGED issued
  BY DEF Routed, CheckSteeredSteer, CheckSteeredContinue, RouteRefused, Routes,
     RouteWriteTodos, RouteDurableWait, RouteRequestUserInput, RouteParallel, RouteSerial,
     HasBatch
<1>2. /\ TypeOK /\ agent \in AgentStates /\ history \in Seq(Entries) /\ Settled \in Nat
      /\ Len(history) \in Nat /\ Len(issued) \in Nat /\ agent.index \in Nat
      /\ Len(agent.calls) \in Nat /\ KeepsSettled
  BY <1>1, HistoryFacts DEF KeepsSettled
<1>3. /\ Routing \in AgentStates /\ Routing.calls = agent.calls /\ Routing.index = agent.index
  BY <1>2, StatusType, StatusFacts DEF TypeOK, Statuses, Routing
<1>4. ASSUME step = "RouteTool"
      PROVE  /\ AtCall /\ ~AtRun /\ CurrentCall = Settled + 1 /\ Settled + 1 \in 1..Len(issued)
             /\ issued[Settled + 1].runs = 0 /\ agent.index < Len(agent.calls)
             /\ Remaining(agent) # <<>>
  <2>1. AtCall /\ ~AtRun
    BY <1>4 DEF AtCall, AtRun
  <2>2. /\ CurrentCall = Settled + 1 /\ Settled + 1 \in 1..Len(issued)
        /\ agent.index < Len(agent.calls)
    BY <2>1, HistoryFacts, CallFacts DEF HasCurrentCall
  <2>3. issued[Settled + 1].runs = 0
    <3>1. Settled + 1 > Settled + 0
      BY <1>2
    <3> QED BY <1>1, <2>1, <2>2, <3>1, LeftFacts DEF NotRunAfter
  <2>4. Remaining(agent) # <<>>
    <3>1. Len(Remaining(agent)) = Len(agent.calls) - agent.index
      BY RemainingFacts
    <3>2. Len(Remaining(agent)) # 0
      BY <1>2, <2>2, <3>1
    <3> QED BY <3>2, EmptySeq
  <2> QED BY <2>1, <2>2, <2>3, <2>4
<1>5. ASSUME NEW a \in AgentStates, a.calls = agent.calls, a.index = agent.index,
             NEW o \in Outcomes, FinishCurrentCall(a, o), step = "RouteTool",
             Honest(ToolEntry(Settled + 1, o), issued)
      PROVE  HistoryInv'
  <2>1. Honest(ToolEntry(Settled + 1, o), issued')
    BY <1>1, <1>5
  <2> QED BY <1>2, <1>4, <1>5, <2>1, FinishedHistory
<1>6. ASSUME UNCHANGED history, agent'.calls = agent.calls, agent'.index = agent.index, ~AtTimer'
      PROVE  HistoryInv'
  <2>1. TimerInv'
    BY <1>6 DEF TimerInv
  <2> QED BY <1>2, <1>6, <2>1, HistoryStays
<1>7. CASE CheckSteeredSteer
  <2>1. BeginSteeredTurn(steered, agent, history)
    BY <1>7 DEF CheckSteeredSteer
  <2>2. ~AtTimer' /\ step = "CheckSteered"
    BY <1>7, GoToModelLeaves DEF CheckSteeredSteer, GoToCompactContext, AtCall
  <2>3. steered \in Seq(Messages)
    BY <1>2 DEF TypeOK, ChannelsType
  <2> QED BY <1>1, <2>1, <2>2, <2>3, TurnSteered
<1>8. CASE CheckSteeredContinue
  BY <1>8, ContinuedHistory
<1>9. CASE RouteRefused
  <2>1. PICK a : /\ a \in AgentStates /\ a.calls = agent.calls /\ a.index = agent.index
                 /\ FinishCurrentCall(a, "refused")
    <3>1. /\ [Routing EXCEPT !.requiresWrite = FALSE, !.allowsWrite = TRUE] \in AgentStates
          /\ [Routing EXCEPT !.requiresWrite = FALSE, !.allowsWrite = TRUE].calls = agent.calls
          /\ [Routing EXCEPT !.requiresWrite = FALSE, !.allowsWrite = TRUE].index = agent.index
      BY <1>3, PlanWriteType DEF AgentStates
    <3>2. \/ FinishCurrentCall(Routing, "refused")
          \/ FinishCurrentCall([Routing EXCEPT !.requiresWrite = FALSE, !.allowsWrite = TRUE],
                               "refused")
      BY <1>9 DEF RouteRefused
    <3> QED BY <1>3, <3>1, <3>2
  <2>2. step = "RouteTool" /\ "refused" \in Outcomes
    BY <1>9 DEF RouteRefused, Outcomes
  <2>3. Honest(ToolEntry(Settled + 1, "refused"), issued)
    BY <1>4, <2>2 DEF Honest, ToolEntry
  <2> QED BY <1>5, <2>1, <2>2, <2>3
<1>10. CASE RouteWriteTodos
  <2> DEFINE a == [Routing EXCEPT !.planRevision = @ + 1, !.requiresWrite = FALSE,
                              !.allowsWrite = FALSE, !.execution = 0, !.noProgress = 0]
  <2>1. a \in AgentStates /\ a.calls = agent.calls /\ a.index = agent.index
    BY <1>3, PlanWriteType DEF AgentStates
  <2>2. /\ FinishCurrentCall(a, "succeeded") /\ step = "RouteTool"
        /\ CurrentTool = "write_todos" /\ "succeeded" \in Outcomes
    BY <1>10 DEF RouteWriteTodos, Routes, Outcomes
  <2> HIDE DEF a
  <2>3. Honest(ToolEntry(Settled + 1, "succeeded"), issued)
    <3>1. issued[Settled + 1].tool \notin ExternalTools
      BY <1>4, <2>2, ToolAssumption DEF CurrentTool, ToolOf, Builtins
    <3> QED BY <3>1 DEF Honest, ToolEntry
  <2> QED BY <1>5, <2>1, <2>2, <2>3
<1>11. CASE RouteDurableWait
  <2>1. /\ step = "RouteTool" /\ CurrentTool = "durable_wait" /\ agent' = Routing
        /\ UNCHANGED history
    BY <1>11 DEF RouteDurableWait, Routes
  <2>2. issued'[Settled' + 1].tool = "durable_wait"
    BY <1>1, <1>3, <1>4, <2>1 DEF CurrentTool, ToolOf, Settled
  <2>3. TimerInv'
    BY <2>2 DEF TimerInv
  <2> QED BY <1>2, <1>3, <2>1, <2>3, HistoryStays
<1>12. CASE RouteRequestUserInput
  <2> DEFINE h == Append(history, ToolEntry(Settled + 1, "succeeded"))
             rest == Tail(Remaining(agent))
             n == Len(history)
             m == Len(agent.calls) - agent.index
  <2>1. /\ step = "RouteTool" /\ CurrentTool = "request_user_input"
        /\ agent' = WithCallsCleared(Routing) /\ step' = "AwaitUser"
    BY <1>12 DEF RouteRequestUserInput, Routes, GoTo
  <2>2. history' = h \o Interrupted(rest)
    BY <1>4, <1>12, <2>1 DEF RouteRequestUserInput
  <2>3. ToolEntry(Settled + 1, "succeeded") \in Entries
    BY <1>2 DEF ToolEntry, Entries, Outcomes
  <2>4. /\ h \in Seq(Entries) /\ Len(h) = n + 1 /\ \A k \in 1..n : h[k] = history[k]
        /\ h[n + 1] = ToolEntry(Settled + 1, "succeeded")
    BY <1>2, <2>3, AppendProperties
  <2>5. Answers(h, 1)
    <3>1. Honest(ToolEntry(Settled + 1, "succeeded"), issued)
      <4>1. issued[Settled + 1].tool \notin ExternalTools
        BY <1>4, <2>1, ToolAssumption DEF CurrentTool, ToolOf, Builtins
      <4> QED BY <4>1 DEF Honest, ToolEntry
    <3>2. \A i \in 1..1 : i = 1
      OBVIOUS
    <3>3. ToolEntry(Settled + 1, "succeeded").role = "tool"
          /\ ToolEntry(Settled + 1, "succeeded").call = Settled + 1
      BY DEF ToolEntry
    <3> HIDE DEF h
    <3> QED BY <2>4, <3>1, <3>2, <3>3 DEF Answers
  <2>6. /\ rest \in Seq(Nat) /\ Len(rest) = m - 1
        /\ \A i \in 1..(m - 1) : rest[i] = Remaining(agent)[i + 1]
    <3>1. Remaining(agent) \in Seq(Nat) /\ Remaining(agent) # <<>> /\ Len(Remaining(agent)) = m
      BY <1>4, <2>1, RemainingFacts
    <3> QED BY <3>1, HeadTailProperties
  <2>7. Leaves(rest, 1)
    <3>1. m \in Nat \ {0} /\ agent.index + 1 + (m - 1) = Len(agent.calls)
      BY <1>2, <1>4, <2>1
    <3>2. \A i \in 1..m : Remaining(agent)[i] = Settled + i
      BY RemainingFacts
    <3> HIDE DEF m, rest
    <3>3. \A i \in 1..(m - 1) : rest[i] = Settled + 1 + i
      <4> TAKE i \in 1..(m - 1)
      <4>1. i + 1 \in 1..m /\ Settled + (i + 1) = Settled + 1 + i
        BY <1>2, <3>1
      <4> QED BY <2>6, <3>2, <4>1
    <3> QED BY <2>6, <3>1, <3>3 DEF Leaves
  <2>8. NotRunAfter(1)
    <3>1. NotRunAfter(0)
      BY <1>1, <1>4, <2>1, LeftFacts
    <3>2. \A call \in 1..Len(issued) : call > Settled + 1 => call > Settled + 0
      BY <1>2
    <3> QED BY <3>1, <3>2 DEF NotRunAfter
  <2>9. agent'.calls = <<>> /\ agent'.index = 0 /\ ~AtTimer'
    BY <1>3, <2>1 DEF WithCallsCleared, AgentStates, AtTimer
  <2>10. Interrupted(rest) \in Seq(Entries)
    BY <2>6, InterruptedType
  <2> HIDE DEF h, rest, m, n
  <2>11. history' = h \o Interrupted(rest) \o <<>> /\ <<>> \in Seq(Entries) /\ UserTurns(<<>>)
    <3>1. h \o Interrupted(rest) \in Seq(Entries)
      BY <2>4, <2>10, ConcatProperties
    <3> QED BY <2>2, <3>1, ConcatEmptySeq, EmptySeq DEF UserTurns
  <2> QED BY <1>1, <2>4, <2>5, <2>6, <2>7, <2>8, <2>9, <2>11, InterruptedHistory
<1>13. CASE RouteParallel
  <2>1. /\ agent' = Status("executing_tool") /\ UNCHANGED history
        /\ step' = "AwaitParallelToolResults"
    BY <1>13 DEF RouteParallel, GoTo
  <2> QED BY <1>2, <1>6, <2>1, StatusFacts DEF AtTimer
<1>14. CASE RouteSerial
  <2>1. /\ agent' = Routing /\ UNCHANGED history
        /\ step' = "CheckSteered" /\ input' \in {"await_tool_approval", "execute_tool"}
    BY <1>14 DEF RouteSerial, GoTo
  <2> QED BY <1>3, <1>6, <2>1 DEF AtTimer
<1> QED
  BY <1>7, <1>8, <1>9, <1>10, <1>11, <1>12, <1>13, <1>14 DEF Routed

(* A decision or a timer answers at most the call at the cursor.           *)
LEMMA ToolWaitHistory ==
  ASSUME AgentInv, AgentInv', HistoryInv, ToolWait
  PROVE  HistoryInv'
<1> USE DEF movement, conversation
<1>1. /\ ~HasBatch /\ AtCall /\ ~AtRun /\ step \in {"AwaitToolApproval", "DurableWait"}
      /\ UNCHANGED issued
  BY DEF ToolWait, AwaitToolApprovalWaitFor, AwaitToolApprovalSteered,
     AwaitToolApprovalExecute, DurableWaitWaitFor, DurableWaitSteered, DurableWaitFires,
     SteerWaiting, HasBatch, AtCall, AtRun, AtApproval, AtTimer
<1>2. /\ TypeOK /\ agent \in AgentStates /\ history \in Seq(Entries) /\ Settled \in Nat
      /\ Settled + 1 \in 1..Len(issued) /\ CurrentCall = Settled + 1
      /\ steered \in Seq(Messages) /\ KeepsSettled
  BY <1>1, HistoryFacts, CallFacts DEF TypeOK, ChannelsType, KeepsSettled
<1>3. NotRunAfter(0) /\ Remaining(agent) \in Seq(Nat) /\ Leaves(Remaining(agent), 0)
      /\ Answers(history, 0) /\ issued[Settled + 1].runs = 0
  <2>1. NotRunAfter(0) /\ Settled + 1 > Settled + 0
    BY <1>1, <1>2, LeftFacts
  <2> QED BY <1>1, <1>2, <2>1, LeftFacts DEF NotRunAfter
<1>4. CASE AwaitToolApprovalWaitFor \/ DurableWaitWaitFor
  <2>1. /\ agent'.calls = agent.calls /\ agent'.index = agent.index /\ UNCHANGED history
        /\ AtTimer' = AtTimer
    BY <1>2, <1>4, StatusFacts DEF AwaitToolApprovalWaitFor, DurableWaitWaitFor, AtTimer
  <2>2. Settled' = Settled
    BY <1>1, <2>1 DEF Settled
  <2>3. TimerInv'
    BY <1>1, <2>1, <2>2 DEF HistoryInv, TimerInv
  <2> QED BY <1>2, <2>1, <2>3, HistoryStays
<1>5. CASE AwaitToolApprovalSteered
  <2>1. BeginSteeredTurn(steered, agent, history) /\ ~AtTimer'
    BY <1>5 DEF AwaitToolApprovalSteered, SteerWaiting, GoTo, AtTimer
  <2> QED BY <1>1, <1>2, <2>1, TurnSteered
<1>6. CASE DurableWaitSteered
  <2> DEFINE a == WithCallsCleared(agent)
             t == Interrupted(Remaining(agent))
             e == Interrupted(Remaining(a))
             u == UserEntries(steered)
  <2>1. BeginSteeredTurn(steered, a, history \o t) /\ ~AtTimer'
    BY <1>6 DEF DurableWaitSteered, SteerWaiting, GoTo, AtTimer
  <2>2. a \in AgentStates /\ Remaining(a) = SubSeq(<<>>, 1, 0)
    <3>1. a \in AgentStates
      BY <1>2, WithCallsClearedType
    <3>2. a.calls = <<>> /\ a.index = 0
      BY <1>2 DEF WithCallsCleared, AgentStates
    <3>3. Len(<<>>) = 0
      BY EmptySeq
    <3> HIDE DEF a
    <3> QED BY <3>1, <3>2, <3>3 DEF Remaining
  <2>3. e = <<>>
    <3>1. Remaining(a) \in Seq(Nat) /\ Len(Remaining(a)) = 0
      BY <2>2, RemainingType
    <3>2. e \in Seq(Entries) /\ Len(e) = 0
      BY <3>1, InterruptedType DEF Interrupted
    <3> QED BY <3>2, EmptySeq
  <2>4. t \in Seq(Entries) /\ u \in Seq(Entries) /\ UserTurns(u)
    BY <1>2, <1>3, InterruptedType, UserEntriesType, LenProperties
       DEF UserEntries, UserEntry, UserTurns
  <2>5. agent'.calls = <<>> /\ agent'.index = 0
    BY <2>1, <2>2, SteeredTurnFacts
  <2>6. history' = (history \o t) \o e \o u
    BY <2>1 DEF BeginSteeredTurn
  <2> HIDE DEF a, t, e, u
  <2>7. history' = history \o t \o u
    <3>1. history \o t \in Seq(Entries)
      BY <1>2, <2>4, ConcatProperties
    <3> QED BY <2>3, <2>6, <3>1, ConcatEmptySeq
  <2>8. history' = history \o Interrupted(Remaining(agent)) \o u
    BY <2>7 DEF t
  <2>9. 0 \in Nat
    OBVIOUS
  <2> QED BY <1>1, <1>2, <1>3, <2>1, <2>4, <2>5, <2>8, <2>9, InterruptedHistory
<1>7. CASE DurableWaitFires
  <2>1. FinishCurrentCall(agent, "succeeded") /\ step = "DurableWait"
    BY <1>7 DEF DurableWaitFires
  <2>2. issued[Settled + 1].tool = "durable_wait"
    BY <2>1 DEF HistoryInv, TimerInv, AtTimer
  <2>3. issued[Settled + 1].tool \notin ExternalTools
    BY <2>2, ToolAssumption DEF Builtins
  <2>4. Honest(ToolEntry(Settled + 1, "succeeded"), issued') /\ "succeeded" \in Outcomes
    BY <1>1, <2>3 DEF Honest, ToolEntry, Outcomes
  <2> QED BY <1>1, <1>2, <2>1, <2>4, FinishedHistory
<1>8. CASE AwaitToolApprovalExecute
  <2>1. \/ /\ step' = "CheckSteered" /\ input' = "execute_tool"
           /\ UNCHANGED <<agent, history>>
        \/ FinishCurrentCall(agent, "rejected")
    BY <1>8 DEF AwaitToolApprovalExecute, GoTo
  <2>2. CASE FinishCurrentCall(agent, "rejected")
    <3>1. Honest(ToolEntry(Settled + 1, "rejected"), issued') /\ "rejected" \in Outcomes
      BY <1>1, <1>3 DEF Honest, ToolEntry, Outcomes
    <3> QED BY <1>1, <1>2, <2>2, <3>1, FinishedHistory
  <2>3. CASE step' = "CheckSteered" /\ input' = "execute_tool" /\ UNCHANGED <<agent, history>>
    <3>1. TimerInv'
      BY <2>3 DEF TimerInv, AtTimer
    <3> QED BY <1>2, <2>3, <3>1, HistoryStays
  <2> QED BY <2>1, <2>2, <2>3
<1> QED
  BY <1>4, <1>5, <1>6, <1>7, <1>8 DEF ToolWait

(* The invocation of a call that is not settled yet.                       *)
LEMMA RunKeepsSettled ==
  ASSUME AgentInv, NEW c \in 1..Len(issued), c > Settled, NEW count \in Nat,
         issued' = Ran(c, count)
  PROVE  /\ KeepsSettled
         /\ issued'[c].runs = issued[c].runs + count /\ issued[c].runs \in Nat
<1>1. TypeOK /\ Settled \in Nat /\ Len(issued) \in Nat /\ Settled <= Len(issued)
  BY HistoryFacts
<1>2. /\ Len(issued') = Len(issued)
      /\ \A call \in 1..Len(issued) :
            /\ issued'[call].tool = issued[call].tool
            /\ call # c => issued'[call].runs = issued[call].runs
      /\ issued[c].runs \in Nat /\ issued'[c].runs = issued[c].runs + count
  BY <1>1, RanFacts
<1>3. \A call \in 1..Settled : call \in 1..Len(issued) /\ call # c
  BY <1>1
<1> QED
  BY <1>2, <1>3 DEF KeepsSettled

(* An execution, and what recovery decides about it, answers the call or   *)
(* batch it ran.                                                           *)
LEMMA ToolRunHistory ==
  ASSUME AgentInv, AgentInv', HistoryInv, ToolRun
  PROVE  HistoryInv'
<1> USE DEF movement, conversation
<1>1. TypeOK /\ CallInv /\ agent \in AgentStates /\ Settled \in Nat /\ ~AtTimer
  <2>1. ~AtTimer
    <3>1. CASE \E b \in branches : BranchReturns(b) \/ BranchAttemptFails(b) \/ BranchRecovers(b)
      BY <3>1, HistoryFacts, BranchFacts DEF AtTimer
    <3> QED BY <3>1 DEF ToolRun, ExecuteToolReturns, ExecuteToolAttemptFails,
            RecoverToolExecution, PrepareManualToolRecovery, AwaitParallelToolResults, AtTimer
  <2> QED BY <2>1, HistoryFacts
<1>2. ASSUME UNCHANGED history, agent'.calls = agent.calls, agent'.index = agent.index,
             KeepsSettled, ~AtTimer'
      PROVE  HistoryInv'
  <2>1. TimerInv'
    BY <1>2 DEF TimerInv
  <2> QED BY <1>2, <2>1, HistoryStays
<1>3. ASSUME AtCall
      PROVE  CurrentCall = Settled + 1 /\ Settled + 1 \in 1..Len(issued) /\ Settled + 1 > Settled
  BY <1>1, <1>3, HistoryFacts, CallFacts
<1>4. CASE ExecuteToolReturns
  <2>1. AtCall
    BY <1>4 DEF ExecuteToolReturns, AtCall, AtRun
  <2>2. issued' = Ran(Settled + 1, 1)
    BY <1>3, <1>4, <2>1 DEF ExecuteToolReturns
  <2>3. KeepsSettled /\ issued'[Settled + 1].runs = issued[Settled + 1].runs + 1
        /\ issued[Settled + 1].runs \in Nat
    BY <1>3, <2>1, <2>2, RunKeepsSettled
  <2>4. issued'[Settled + 1].runs > 0
    BY <2>3
  <2>5. /\ Status("executing_tool") \in AgentStates
        /\ Status("executing_tool").calls = agent.calls
        /\ Status("executing_tool").index = agent.index
    BY <1>1, StatusType, StatusFacts DEF TypeOK, Statuses
  <2>6. ASSUME NEW o \in {"succeeded", "failed"}, FinishCurrentCall(Status("executing_tool"), o)
        PROVE  HistoryInv'
    <3>1. Honest(ToolEntry(Settled + 1, o), issued') /\ o \in Outcomes
      BY <2>4 DEF Honest, ToolEntry, Outcomes
    <3> QED BY <2>1, <2>3, <2>5, <2>6, <3>1, FinishedHistory
  <2>7. CASE /\ agent' = Status("executing_tool") /\ UNCHANGED history
             /\ step' \in {"PrepareManualToolRecovery", "RecoverToolExecution"}
    BY <1>2, <2>3, <2>5, <2>7 DEF AtTimer
  <2> QED BY <1>4, <2>6, <2>7 DEF ExecuteToolReturns, GoTo
<1>5. CASE ExecuteToolAttemptFails
  <2>1. AtCall /\ step = "ExecuteTool"
    BY <1>5 DEF ExecuteToolAttemptFails, AtCall, AtRun
  <2>2. PICK count \in {0, 1} : issued' = Ran(Settled + 1, count)
    BY <1>3, <1>5, <2>1 DEF ExecuteToolAttemptFails
  <2>3. KeepsSettled
    <3>1. count \in Nat
      BY <2>2
    <3> QED BY <1>3, <2>1, <2>2, <3>1, RunKeepsSettled
  <2>4. UNCHANGED <<agent, history>> /\ ~AtTimer'
    BY <1>5, <2>1 DEF ExecuteToolAttemptFails, GoTo, AtTimer
  <2> QED BY <1>2, <2>3, <2>4
<1>6. CASE RecoverToolExecution
  <2>1. FinishCurrentCall(agent, "unknown") /\ AtCall /\ UNCHANGED issued
    BY <1>6 DEF RecoverToolExecution, AtCall, AtRun
  <2>2. Honest(ToolEntry(Settled + 1, "unknown"), issued') /\ "unknown" \in Outcomes
    BY DEF Honest, ToolEntry, Outcomes
  <2>3. KeepsSettled
    BY <2>1 DEF KeepsSettled
  <2> QED BY <1>1, <2>1, <2>2, <2>3, FinishedHistory
<1>7. CASE PrepareManualToolRecovery
  <2>1. UNCHANGED <<agent, history, issued>> /\ ~AtTimer'
    BY <1>7 DEF PrepareManualToolRecovery, GoTo, AtTimer
  <2> QED BY <1>2, <2>1 DEF KeepsSettled
<1>8. ASSUME NEW b \in branches, BranchReturns(b) \/ BranchAttemptFails(b) \/ BranchRecovers(b)
      PROVE  HistoryInv'
  <2>1. UNCHANGED <<step, input, agent, history>>
        /\ (UNCHANGED issued \/ \E count \in {0, 1} : issued' = Ran(CallOf(b), count))
    BY <1>8 DEF BranchReturns, BranchAttemptFails, BranchRecovers
  <2>2. KeepsSettled
    <3>1. CASE UNCHANGED issued
      BY <3>1 DEF KeepsSettled
    <3>2. ASSUME NEW count \in {0, 1}, issued' = Ran(CallOf(b), count)
          PROVE  KeepsSettled
      <4>1. CallOf(b) \in 1..Len(issued) /\ CallOf(b) > Settled /\ count \in Nat
        <5>1. /\ CallOf(b) = Settled + b.record /\ CallOf(b) \in 1..Len(issued)
              /\ b.record \in 1..BatchSize /\ BatchSize \in Nat
          BY <1>1, BranchFacts
        <5> QED BY <1>1, <3>2, <5>1
      <4> QED BY <3>2, <4>1, RunKeepsSettled
    <3> QED BY <2>1, <3>1, <3>2
  <2>3. ~AtTimer'
    BY <1>1, <2>1 DEF AtTimer
  <2> QED BY <1>2, <2>1, <2>2, <2>3
<1>9. CASE AwaitParallelToolResults
  <2>1. HasBatch /\ UNCHANGED issued
    BY <1>9 DEF AwaitParallelToolResults, HasBatch
  <2>2. \/ UNCHANGED <<agent, history>> /\ step' = "AwaitManualToolRecovery"
        \/ FinishBatch(Joined)
    BY <1>9 DEF AwaitParallelToolResults, GoTo
  <2>3. CASE UNCHANGED <<agent, history>> /\ step' = "AwaitManualToolRecovery"
    BY <1>2, <2>1, <2>3 DEF KeepsSettled, AtTimer
  <2>4. Joined \in Seq(Records)
    BY <1>1, <1>9, JoinedType DEF TypeOK
  <2>5. Len(Joined) = BatchSize /\ Known(Joined)
    BY <1>1, <1>9, <2>1, JoinedFacts, BatchFacts DEF Known
  <2> QED BY <2>1, <2>2, <2>3, <2>4, <2>5, FinishedBatchHistory
<1> QED
  BY <1>4, <1>5, <1>6, <1>7, <1>8, <1>9 DEF ToolRun

(* The calls after a batch are those it leaves.                            *)
LEMMA BatchLeaves ==
  ASSUME AgentInv, HasBatch, NEW rest,
         rest = SubSeq(agent.calls, agent.index + BatchSize + 1, Len(agent.calls))
  PROVE  rest \in Seq(Nat) /\ Leaves(rest, BatchSize)
<1> DEFINE x == agent.index + BatchSize
           m == BatchSize
           y == agent.index
           n == Len(agent.calls)
<1>1. /\ m \in Nat /\ y \in Nat /\ n \in Nat /\ y + m <= n /\ Settled \in Nat /\ x = y + m
      /\ rest = SubSeq(agent.calls, x + 1, n)
  BY BatchFacts, HistoryFacts
<1> HIDE DEF x, m, y, n
<1>2. x \in Nat /\ y <= x /\ x <= n
  BY <1>1
<1>3. /\ rest \in Seq(Nat) /\ Len(rest) = n - x
      /\ \A i \in 1..Len(rest) : rest[i] = Settled + (x - y) + i
  BY <1>1, <1>2, RestFacts DEF n, y
<1>4. x - y = m /\ y + m + Len(rest) = n
  BY <1>1, <1>3
<1> QED
  BY <1>3, <1>4 DEF Leaves, m, y, n

(* A batch waiting for a decision, or paid for by one, keeps its results.  *)
LEMMA RecoveryHistory ==
  ASSUME AgentInv, AgentInv', HistoryInv, Recovery
  PROVE  HistoryInv'
<1> USE DEF movement, conversation
<1>1. /\ TypeOK /\ CallInv /\ RecoveryInv /\ agent \in AgentStates /\ HasBatch
      /\ step = "AwaitManualToolRecovery" /\ UNCHANGED issued
      /\ batch.records \in Seq(Records) /\ steered \in Seq(Messages)
  <2>1. step = "AwaitManualToolRecovery" /\ UNCHANGED issued
    BY DEF Recovery, AwaitManualToolRecoveryWaitFor, AwaitManualToolRecoverySteered,
       SteerWaiting, RecoveryStops, RecoveryResumes, IsResolving
  <2> QED BY <2>1, HistoryFacts
          DEF AgentInv, HasBatch, TypeOK, JoiningType, Batches, ChannelsType
<1>2. KeepsSettled
  BY <1>1 DEF KeepsSettled
<1>3. ASSUME Unfinished = {}
      PROVE  /\ Known(batch.records) /\ batch.first = agent.index
             /\ history \o BatchEntries(batch.records) \in Seq(Entries)
             /\ Answers(history \o BatchEntries(batch.records), BatchSize)
             /\ NotRunAfter(BatchSize) /\ BatchSize \in Nat
  <2>1. /\ BatchSize \in Nat /\ batch.first = agent.index
        /\ \A i \in 1..BatchSize : batch.records[i].call = Settled + i
    BY <1>1, BatchFacts
  <2>2. \A i \in 1..BatchSize : batch.records[i].outcome \in {"succeeded", "failed", "unknown"}
    BY <1>1, <1>3 DEF CallInv, BatchInv, Unfinished
  <2>3. Known(batch.records)
    BY <1>1, <2>1, <2>2 DEF Known, CallInv, KnownInv
  <2> QED BY <1>1, <2>1, <2>3, BatchAnswers DEF BatchSize
<1>4. CASE AwaitManualToolRecoveryWaitFor
  <2>1. UNCHANGED <<step, input, history>> /\ agent' = Status("waiting_for_tool_recovery")
    BY <1>4 DEF AwaitManualToolRecoveryWaitFor
  <2>2. agent'.calls = agent.calls /\ agent'.index = agent.index
    BY <1>1, <2>1, StatusFacts
  <2>3. TimerInv'
    BY <1>1, <2>1 DEF TimerInv, AtTimer
  <2> QED BY <1>2, <2>1, <2>2, <2>3, HistoryStays
<1>5. CASE AwaitManualToolRecoverySteered
  <2> DEFINE a == [agent EXCEPT !.index = batch.first + BatchSize]
             h == history \o BatchEntries(batch.records)
  <2>1. Unfinished = {} /\ BeginSteeredTurn(steered, a, h) /\ ~AtTimer'
    BY <1>5 DEF AwaitManualToolRecoverySteered, SteerWaiting, GoTo, AtTimer
  <2>2. batch.first = agent.index /\ agent.index + BatchSize \in Nat
    BY <1>1, <1>3, <2>1, HistoryFacts
  <2>3. /\ a \in AgentStates
        /\ Remaining(a) = SubSeq(agent.calls, agent.index + BatchSize + 1, Len(agent.calls))
    <3>1. a \in AgentStates /\ a.index = agent.index + BatchSize /\ a.calls = agent.calls
      BY <1>1, <2>2 DEF AgentStates
    <3> HIDE DEF a
    <3> QED BY <3>1 DEF Remaining
  <2>4. Remaining(a) \in Seq(Nat) /\ Leaves(Remaining(a), BatchSize)
    <3> HIDE DEF a
    <3> QED BY <1>1, <2>3, BatchLeaves
  <2>5. h \in Seq(Entries) /\ Answers(h, BatchSize) /\ NotRunAfter(BatchSize) /\ BatchSize \in Nat
    BY <1>3, <2>1
  <2> HIDE DEF a, h
  <2> QED BY <1>1, <2>1, <2>3, <2>4, <2>5, SteeredHistory
<1>6. ASSUME NEW decision \in decisions, RecoveryStops(decision)
      PROVE  HistoryInv'
  <2> DEFINE rest == SubSeq(agent.calls, agent.index + BatchSize + 1, Len(agent.calls))
             h == history \o BatchEntries(batch.records)
  <2>1. Unfinished = {} /\ agent' = WithCallsCleared(agent) /\ step' = "AwaitUser"
    BY <1>6 DEF RecoveryStops, IsResolving, GoTo
  <2>2. history' = h \o Interrupted(rest)
    BY <1>3, <1>6, <2>1 DEF RecoveryStops
  <2>3. rest \in Seq(Nat) /\ Leaves(rest, BatchSize)
    BY <1>1, BatchLeaves
  <2>4. h \in Seq(Entries) /\ Answers(h, BatchSize) /\ NotRunAfter(BatchSize) /\ BatchSize \in Nat
    BY <1>3, <2>1
  <2>5. agent'.calls = <<>> /\ agent'.index = 0 /\ ~AtTimer'
    BY <1>1, <2>1 DEF WithCallsCleared, AgentStates, AtTimer
  <2> HIDE DEF h, rest
  <2>6. history' = h \o Interrupted(rest) \o <<>> /\ <<>> \in Seq(Entries) /\ UserTurns(<<>>)
    <3>1. h \o Interrupted(rest) \in Seq(Entries)
      BY <2>3, <2>4, InterruptedType, ConcatProperties
    <3> QED BY <2>2, <3>1, ConcatEmptySeq, EmptySeq DEF UserTurns
  <2> QED BY <1>1, <2>3, <2>4, <2>5, <2>6, InterruptedHistory
<1>7. ASSUME NEW decision \in decisions, RecoveryResumes(decision)
      PROVE  HistoryInv'
  <2> DEFINE retried == Retried(decision)
             records == [i \in 1..BatchSize |->
                            IF i \in retried
                            THEN [batch.records[i] EXCEPT !.outcome = "none"]
                            ELSE IF i \in Unresolved(batch.records)
                            THEN [batch.records[i] EXCEPT !.manual = FALSE]
                            ELSE batch.records[i]]
  <2>1. Unfinished = {}
    BY <1>7 DEF RecoveryResumes, IsResolving
  <2>2. Known(batch.records) /\ BatchSize \in Nat
    BY <1>3, <2>1
  <2>3. CASE retried = {}
    <3>1. FinishBatch(records)
      BY <1>7, <2>3 DEF RecoveryResumes
    <3>2. \A i \in 1..BatchSize : batch.records[i] \in Records
      BY <1>1, ElementOfSeq DEF BatchSize
    <3>3. \A i \in 1..BatchSize :
             /\ records[i] \in Records /\ records[i].call = batch.records[i].call
             /\ records[i].outcome = batch.records[i].outcome
      BY <2>3, <3>2 DEF Records
    <3>4. records \in [1..BatchSize -> Records]
      <4>1. records = [i \in 1..BatchSize |-> records[i]]
        OBVIOUS
      <4> HIDE DEF records
      <4> QED BY <3>3, <4>1
    <3> HIDE DEF records, retried
    <3>6. records \in Seq(Records) /\ Len(records) = BatchSize
      <4> DEFINE m == BatchSize
      <4>1. m \in Nat /\ records \in [1..m -> Records]
        BY <2>2, <3>4
      <4> HIDE DEF m
      <4> QED BY <4>1 DEF m
    <3>5. Known(records)
      BY <2>2, <3>3 DEF Known
    <3> QED BY <1>1, <3>1, <3>5, <3>6, FinishedBatchHistory
  <2>4. CASE retried # {}
    <3>1. /\ agent' = Status("executing_tool") /\ step' = "AwaitParallelToolResults"
          /\ UNCHANGED history
      BY <1>7, <2>4 DEF RecoveryResumes, GoTo
    <3>2. agent'.calls = agent.calls /\ agent'.index = agent.index /\ TimerInv'
      BY <1>1, <3>1, StatusFacts DEF TimerInv, AtTimer
    <3> QED BY <1>2, <3>1, <3>2, HistoryStays
  <2> QED BY <2>3, <2>4
<1> QED
  BY <1>4, <1>5, <1>6, <1>7 DEF Recovery

-----------------------------------------------------------------------------
(* The empty history, and every step.                                      *)
LEMMA InitHistory == Init => HistoryInv
<1> SUFFICES ASSUME Init
             PROVE  HistoryInv
  OBVIOUS
<1>1. /\ history = <<>> /\ Len(history) = 0 /\ agent.calls = <<>> /\ Settled = 0 /\ ~AtTimer
  BY EmptySeq DEF Init, NewAgentState, Settled, AtTimer
<1>2. ResultInv /\ ReplyInv /\ HonestInv
  BY <1>1 DEF ResultInv, ReplyInv, HonestInv
<1> QED
  BY <1>1, <1>2 DEF HistoryInv, OpenInv, TimerInv

(* Every step keeps the history paired and honest: one lemma per group of  *)
(* actions.                                                                *)
LEMMA StepHistory ==
  ASSUME AgentInv, AgentInv', HistoryInv, [Next]_vars
  PROVE  HistoryInv'
<1>1. CASE UNCHANGED vars
  <2>1. UNCHANGED <<step, input, agent, history, issued>>
    BY <1>1 DEF vars, movement, conversation
  <2>2. KeepsSettled /\ TimerInv'
    BY <2>1 DEF KeepsSettled, HistoryInv, TimerInv, AtTimer, Settled
  <2> QED BY <2>1, <2>2, HistoryStays
<1>2. CASE Next
  BY <1>2, UserCommandHistory, UserBoundaryHistory, ModelTurnHistory, RoutedHistory,
     ToolWaitHistory, ToolRunHistory, RecoveryHistory DEF Next, Worker
<1> QED
  BY <1>1, <1>2

(* Both invariants are inductive together.                                 *)
LEMMA HistoryInvariant == Spec => [](AgentInv /\ HistoryInv)
<1>1. Init => AgentInv /\ HistoryInv
  BY InitAgentInv, InitHistory
<1>2. AgentInv /\ HistoryInv /\ [Next]_vars => (AgentInv /\ HistoryInv)'
  BY StepAgentInv, StepHistory
<1> QED
  BY <1>1, <1>2, PTL DEF Spec

(* Whatever ends a sequence of calls - the results, steering, a question,  *)
(* a stop, a join - appends one result for each call of the reply, right   *)
(* after the reply and in its order; only calls at the cursor lack one.    *)
THEOREM HistoryIsPaired == Spec => []PairedHistory
<1>1. ASSUME AgentInv, HistoryInv
      PROVE  PairedHistory
  <2>1. ASSUME NEW k \in 1..Len(history), history[k].role = "assistant",
               NEW j \in 1..Len(history[k].calls)
        PROVE  IF k + j <= Len(history)
               THEN history[k + j].role = "tool" /\ history[k + j].call = history[k].calls[j]
               ELSE agent.calls = history[k].calls /\ j > agent.index
    <3>1. CASE k + j <= Len(history)
      BY <1>1, <2>1, <3>1 DEF HistoryInv, ReplyInv
    <3>2. CASE ~(k + j <= Len(history))
      <4> DEFINE n == Len(history)
                 m == Len(history[k].calls)
                 x == agent.index
      <4>1. n \in Nat /\ m \in Nat /\ x \in Nat /\ j \in 1..m /\ k \in 1..n /\ ~(k + j <= n)
        <5>1. history[k] \in Entries /\ history[k].role = "assistant"
          BY <1>1, <2>1, HistoryFacts, ElementOfSeq
        <5>2. history[k].calls \in Seq(Nat)
          BY <5>1 DEF Entries
        <5> QED BY <1>1, <2>1, <3>2, <5>2, HistoryFacts, LenProperties
      <4>2. k + m <= n \/ (k = n - x /\ history[k].calls = agent.calls)
        BY <1>1, <2>1 DEF HistoryInv, ReplyInv
      <4> HIDE DEF n, m, x
      <4>3. ~(k + m <= n) /\ (k = n - x => j > x)
        BY <4>1
      <4> QED BY <3>2, <4>2, <4>3 DEF n, x
    <3> QED BY <3>1, <3>2
  <2>2. ASSUME NEW k \in 1..Len(history), history[k].role = "tool"
        PROVE  Cardinality(ResultsOf(history[k].call)) = 1
    <3>1. \A l \in 1..Len(history) :
             history[l].role = "tool" /\ history[l].call = history[k].call => l = k
      BY <1>1, <2>2 DEF HistoryInv, ResultInv
    <3>2. ResultsOf(history[k].call) = {k}
      BY <2>2, <3>1 DEF ResultsOf
    <3> QED BY <3>2, FS_Singleton
  <2> QED BY <2>1, <2>2 DEF PairedHistory
<1>2. AgentInv /\ HistoryInv => PairedHistory
  BY <1>1
<1> QED
  BY <1>2, HistoryInvariant, PTL

(* At each Step of a model call, and where its reply is applied, each call *)
(* issued before has its result in the history the model is sent.          *)
THEOREM ModelSeesNoOpenCall == Spec => []ModelSeesClosedHistory
<1>1. ASSUME AgentInv, HistoryInv, step \in ModelSteps \cup {"ApplyModelResult"}
      PROVE  agent.calls = <<>> /\ \A call \in DOMAIN issued : ResultsOf(call) # {}
  <2>1. ~AtCall
    BY <1>1 DEF ModelSteps, AtCall, AtApproval, AtTimer, AtRun, HasBatch
  <2>2. /\ agent.calls = <<>> /\ agent.index = 0 /\ Len(issued) \in Nat
        /\ DOMAIN issued = 1..Len(issued)
    BY <1>1, <2>1, HistoryFacts, CallFacts DEF CursorInv
  <2>3. Settled = Len(issued)
    BY <2>2, EmptySeq DEF Settled
  <2>4. \A call \in DOMAIN issued : ResultsOf(call) # {}
    BY <1>1, <2>2, <2>3 DEF HistoryInv, ResultInv, ResultsOf
  <2> QED BY <2>2, <2>4
<1>2. AgentInv /\ HistoryInv => ModelSeesClosedHistory
  BY <1>1 DEF ModelSeesClosedHistory
<1> QED
  BY <1>2, HistoryInvariant, PTL

(* No result in the history lies about its call: what it calls             *)
(* interrupted, rejected or refused was never invoked and never will be,   *)
(* and an outcome of an external tool came from an invocation.             *)
THEOREM ResultsAreHonest == Spec => []HonestResults
<1>1. AgentInv /\ HistoryInv => HonestResults
  BY DEF HistoryInv, HonestInv, Honest, HonestResults, ToolOf
<1> QED
  BY <1>1, HistoryInvariant, PTL

-----------------------------------------------------------------------------

(* Where the next reply, or the compaction before it, is under way.        *)
OnModelPath ==
    \/ step \in ModelSteps \cup {"ApplyModelResult", "AnsweredInput"}
    \/ step = "CheckSteered" /\ input \in {"call_model", "compact_context"}

(* A request that is set came after the last message, from ExecutePlan.    *)
RequestedInv == agent.execution # 0 => requestedAt = Len(history) /\ planRequests > 0

(* What AwaitUser consumed to begin a turn is not empty.                   *)
SelectedInv == selected.kind \in {"steered", "queued"} => selected.messages # <<>>

(* A reply without calls that goes on counts, unless the user asked since. *)
StallInv(last) ==
    /\ last > 0 /\ IsText(last) => agent.noProgress > 0 \/ requestedAt >= last
    /\ last > 1 /\ IsText(last) /\ IsText(last - 1) => requestedAt >= last - 1

PlanInv ==
    /\ RequestedInv /\ SelectedInv
    /\ plan.status # "none" => plan.revision > 0
    /\ OnModelPath => StallInv(Len(history))

(* The parts of it that most steps leave alone.                            *)
KeepsPlan ==
    /\ UNCHANGED <<requestedAt, planRequests>>
    /\ SelectedInv'
    /\ plan'.status # "none" => plan'.revision > 0

(* A step that appends nothing and lets no reply go on that did not.       *)
LEMMA PlanStays ==
  ASSUME PlanInv, KeepsPlan, UNCHANGED history, agent'.noProgress = agent.noProgress,
         agent'.execution \in {0, agent.execution}, OnModelPath' => OnModelPath
  PROVE  PlanInv'
BY DEF PlanInv, KeepsPlan, RequestedInv, SelectedInv, StallInv, IsText

(* A step from where no request is set, to where no reply goes on.         *)
LEMMA PlanLeaves ==
  ASSUME PlanInv, KeepsPlan, agent'.execution = 0, ~OnModelPath'
  PROVE  PlanInv'
BY DEF PlanInv, KeepsPlan, RequestedInv, SelectedInv

(* A step whose last entry is no reply.                                    *)
LEMMA PlanTurns ==
  ASSUME PlanInv, KeepsPlan, agent'.execution = 0,
         Len(history') \in Nat, ~IsText(Len(history))'
  PROVE  PlanInv'
BY DEF PlanInv, KeepsPlan, RequestedInv, SelectedInv, StallInv

(* The last entry of two sequences is that of the second.                  *)
LEMMA LastOfBoth ==
  ASSUME NEW h \in Seq(Entries), NEW t \in Seq(Entries), t # <<>>
  PROVE  Len(h \o t) \in Nat /\ (h \o t)[Len(h \o t)] = t[Len(t)]
<1> DEFINE n == Len(h)
           m == Len(t)
           w == h \o t
<1>1. n \in Nat /\ m \in Nat /\ m # 0
  BY LenProperties, EmptySeq
<1>2. /\ Len(w) = n + m
      /\ \A k \in 1..(n + m) : w[k] = IF k <= n THEN h[k] ELSE t[k - n]
  BY ConcatProperties
<1> HIDE DEF n, m, w
<1>3. n + m \in 1..(n + m) /\ ~(n + m <= n) /\ (n + m) - n = m
  BY <1>1
<1> QED
  BY <1>1, <1>2, <1>3 DEF m, w

(* No user turn, and no result, is a reply.                                *)
LEMMA TurnIsNoText ==
  ASSUME NEW h \in Seq(Entries), NEW t \in Seq(Entries), t # <<>>, history' = h \o t,
         t[Len(t)].role # "assistant"
  PROVE  Len(history') \in Nat /\ ~IsText(Len(history))'
BY LastOfBoth DEF IsText

(* A result for the call at the cursor is the last entry.                  *)
LEMMA FinishedPlan ==
  ASSUME AgentInv, PlanInv, KeepsPlan, AtCall, NEW a \in AgentStates, a.execution = 0,
         NEW o \in Outcomes, FinishCurrentCall(a, o)
  PROVE  PlanInv'
<1> DEFINE e == ToolEntry(CurrentCall, o)
<1>1. history \in Seq(Entries) /\ CurrentCall \in Nat
  <2>1. TypeOK /\ CursorInv /\ Settled \in Nat /\ history \in Seq(Entries)
    BY HistoryFacts
  <2>2. CurrentCall = Settled + 1
    BY <2>1, CallFacts
  <2> QED BY <2>1, <2>2
<1>2. e \in Entries
  BY <1>1 DEF ToolEntry, Entries
<1>3. e.role # "assistant"
  BY DEF ToolEntry
<1>4. history' = Append(history, e) /\ agent' = Advanced(a, 1)
  BY DEF FinishCurrentCall
<1> HIDE DEF e
<1>5. history' = history \o <<e>> /\ <<e>> \in Seq(Entries) /\ <<e>> # <<>>
      /\ <<e>>[Len(<<e>>)] = e
  BY <1>1, <1>2, <1>4, AppendIsConcat
<1>6. Len(history') \in Nat /\ ~IsText(Len(history))'
  BY <1>1, <1>3, <1>5, TurnIsNoText
<1>7. agent'.execution = 0
  BY <1>4 DEF Advanced, WithCallsCleared, AgentStates
<1> QED
  BY <1>6, <1>7, PlanTurns

(* The last steered message is the last entry.                             *)
LEMMA SteeredPlan ==
  ASSUME AgentInv, PlanInv, KeepsPlan, NEW messages \in Seq(Messages), messages # <<>>,
         NEW a \in AgentStates, NEW h \in Seq(Entries), Remaining(a) \in Seq(Nat),
         BeginSteeredTurn(messages, a, h)
  PROVE  PlanInv'
<1> DEFINE t == UserEntries(messages)
           v == h \o Interrupted(Remaining(a))
<1>1. Len(messages) \in Nat /\ Len(messages) # 0
  BY LenProperties, EmptySeq
<1>2. t \in Seq(Entries) /\ Len(t) = Len(messages)
      /\ t[Len(t)] = UserEntry(messages[Len(messages)])
  BY <1>1, UserEntriesType DEF UserEntries
<1>3. t # <<>> /\ t[Len(t)].role # "assistant"
  BY <1>1, <1>2, EmptySeq DEF UserEntry
<1>4. v \in Seq(Entries)
  BY InterruptedType, ConcatProperties
<1>5. history' = v \o t
  BY DEF BeginSteeredTurn
<1> HIDE DEF t, v
<1>6. Len(history') \in Nat /\ ~IsText(Len(history))'
  BY <1>2, <1>3, <1>4, <1>5, TurnIsNoText
<1>7. agent'.execution = 0
  BY SteeredTurnFacts
<1> QED
  BY <1>6, <1>7, PlanTurns

(* The last result of a batch is the last entry.                           *)
LEMMA FinishedBatchPlan ==
  ASSUME AgentInv, PlanInv, KeepsPlan, agent.execution = 0, NEW records \in Seq(Records),
         Len(records) > 0, FinishBatch(records)
  PROVE  PlanInv'
<1> DEFINE t == BatchEntries(records)
           n == Len(records)
<1>1. history \in Seq(Entries) /\ n \in Nat /\ n > 0 /\ agent \in AgentStates
  BY HistoryFacts, LenProperties
<1>2. t \in Seq(Entries) /\ Len(t) = n
  BY <1>1, BatchEntriesType, LenBatchEntries
<1>3. t[n].role = "tool"
  BY <1>1 DEF BatchEntries, ToolEntry
<1>4. history' = history \o t /\ agent' = Advanced(agent, n)
  BY DEF FinishBatch
<1> HIDE DEF t, n
<1>5. t # <<>> /\ t[Len(t)].role # "assistant"
  BY <1>1, <1>2, <1>3, EmptySeq
<1>6. Len(history') \in Nat /\ ~IsText(Len(history))'
  BY <1>1, <1>2, <1>4, <1>5, TurnIsNoText
<1>7. agent'.execution = 0
  BY <1>1, <1>4 DEF Advanced, WithCallsCleared, AgentStates
<1> QED
  BY <1>6, <1>7, PlanTurns

(* Only ExecutePlan sets a request, after the last message.                *)
LEMMA UserCommandPlan ==
  ASSUME AgentInv, PlanInv, UserCommand
  PROVE  PlanInv'
<1> USE DEF movement, awaiting, conversation, books
<1>1. UNCHANGED <<step, input, selected, plan, history>>
  BY DEF UserCommand, SendMessage, DeleteQueuedMessage, SteerMessage, AnswerQuestions,
     ApproveTool, ResolveToolRecovery, ExecutePlan
<1>2. OnModelPath' = OnModelPath /\ SelectedInv'
  BY <1>1 DEF OnModelPath, PlanInv, SelectedInv
<1>3. CASE ExecutePlan
  <2>1. step = "AwaitUser"
    BY <1>3 DEF ExecutePlan, AgentInv, TurnInv, PlanRequestInv
  <2>2. ~OnModelPath'
    BY <1>1, <2>1 DEF OnModelPath, ModelSteps
  <2>3. planRequests \in Nat /\ requestedAt' = Len(history) /\ planRequests' = planRequests + 1
    BY <1>3 DEF ExecutePlan, AgentInv, TypeOK, BooksType
  <2>4. RequestedInv'
    BY <1>1, <2>3 DEF RequestedInv
  <2> QED BY <1>1, <1>2, <2>2, <2>4 DEF PlanInv
<1>4. CASE ~ExecutePlan
  <2>1. UNCHANGED <<agent, requestedAt, planRequests>>
    BY <1>4 DEF UserCommand, SendMessage, DeleteQueuedMessage, SteerMessage, AnswerQuestions,
       ApproveTool, ResolveToolRecovery
  <2>2. KeepsPlan
    BY <1>1, <1>2, <2>1 DEF KeepsPlan, PlanInv
  <2> QED BY <1>1, <1>2, <2>1, <2>2, PlanStays
<1> QED
  BY <1>3, <1>4

(* AwaitUser begins with what it consumed, or with the request.            *)
LEMMA UserBoundaryPlan ==
  ASSUME AgentInv, PlanInv, UserBoundary
  PROVE  PlanInv'
<1> USE DEF movement, awaiting, conversation, messageChannels, otherChannels, books
<1>1. /\ agent \in AgentStates /\ agent.calls = <<>> /\ history \in Seq(Entries)
      /\ selected.messages \in Seq(Messages) /\ selected.ref \in Nat
      /\ steered \in Seq(Messages) /\ Remaining(agent) \in Seq(Nat) /\ Len(history) \in Nat
  <2>1. ~AtCall
    BY DEF UserBoundary, InitExecute, AwaitUserWaitFor, IsSelecting, SelectAnswer, SelectSteered,
       SelectQueued, SelectPlan, IsBeginning, AwaitUserExecuteAnswer, AwaitUserExecuteSteered,
       AwaitUserExecuteQueued, AwaitUserExecutePlan, AnsweredInput, AtCall, AtApproval, AtTimer,
       AtRun, HasBatch
  <2> QED BY <2>1, HistoryFacts, RemainingFacts
          DEF CursorInv, TypeOK, AwaitingType, ChannelsType, Selections
<1>2. UNCHANGED <<requestedAt, planRequests>>
  BY DEF UserBoundary, InitExecute, AwaitUserWaitFor, SelectAnswer, SelectSteered, SelectQueued,
     SelectPlan, Select, AwaitUserExecuteAnswer, AwaitUserExecuteSteered,
     AwaitUserExecuteQueued, AwaitUserExecutePlan, AnsweredInput
<1>3. ASSUME UNCHANGED plan, SelectedInv'
      PROVE  KeepsPlan
  BY <1>2, <1>3 DEF KeepsPlan, PlanInv
<1>4. CASE InitExecute \/ AwaitUserWaitFor \/ AnsweredInput
  <2>1. UNCHANGED <<plan, selected, history>>
    BY <1>4 DEF InitExecute, AwaitUserWaitFor, AnsweredInput
  <2>2. KeepsPlan
    BY <1>3, <2>1 DEF PlanInv, SelectedInv
  <2>3. CASE InitExecute
    <3>1. agent'.execution = 0 /\ ~OnModelPath'
      BY <2>3 DEF InitExecute, NewAgentState, GoTo, OnModelPath, ModelSteps
    <3> QED BY <2>2, <3>1, PlanLeaves
  <2>4. CASE AwaitUserWaitFor
    <3>1. /\ agent'.execution = agent.execution /\ agent'.noProgress = agent.noProgress
          /\ ~OnModelPath'
      BY <1>1, <2>4 DEF AwaitUserWaitFor, Status, AgentStates, OnModelPath, ModelSteps
    <3> QED BY <2>1, <2>2, <3>1, PlanStays
  <2>5. CASE AnsweredInput
    <3>1. UNCHANGED agent /\ OnModelPath
      BY <2>5 DEF AnsweredInput, OnModelPath
    <3> QED BY <2>1, <2>2, <3>1, PlanStays
  <2> QED BY <1>4, <2>3, <2>4, <2>5
<1>5. CASE SelectAnswer \/ SelectSteered \/ SelectQueued \/ SelectPlan
  <2>1. UNCHANGED <<step, input, agent, plan, history>>
    BY <1>5 DEF SelectAnswer, SelectSteered, SelectQueued, SelectPlan, Select
  <2>2. SelectedInv'
    <3>1. CASE SelectAnswer \/ SelectPlan
      BY <3>1 DEF SelectAnswer, SelectPlan, Select, SelectedInv
    <3>2. CASE SelectSteered
      BY <3>2 DEF SelectSteered, Select, SelectedInv
    <3>3. CASE SelectQueued
      <4>1. selected'.messages = <<Head(queued)>>
        BY <3>3 DEF SelectQueued, Select
      <4> QED BY <4>1 DEF SelectedInv
    <3> QED BY <1>5, <3>1, <3>2, <3>3
  <2>3. OnModelPath' => OnModelPath
    BY <2>1 DEF OnModelPath
  <2> QED BY <1>3, <2>1, <2>2, <2>3, PlanStays
<1>6. ASSUME selected' = Nothing
      PROVE  SelectedInv'
  BY <1>6 DEF Nothing, SelectedInv
<1>7. CASE AwaitUserExecuteAnswer
  <2> DEFINE t == <<AnswerEntry(selected.ref)>>
  <2>1. AnswerEntry(selected.ref) \in Entries /\ AnswerEntry(selected.ref).role = "answer"
    BY <1>1 DEF AnswerEntry, Entries
  <2>2. history' = history \o t /\ t \in Seq(Entries) /\ t # <<>>
        /\ t[Len(t)].role # "assistant"
    BY <1>1, <1>7, <2>1, AppendIsConcat DEF AwaitUserExecuteAnswer
  <2>3. agent'.execution = 0
    BY <1>1, <1>7, UserTurnFacts DEF AwaitUserExecuteAnswer
  <2>4. KeepsPlan
    BY <1>3, <1>6, <1>7 DEF AwaitUserExecuteAnswer
  <2> HIDE DEF t
  <2>5. Len(history') \in Nat /\ ~IsText(Len(history))'
    BY <1>1, <2>2, TurnIsNoText
  <2> QED BY <2>3, <2>4, <2>5, PlanTurns
<1>8. CASE AwaitUserExecuteSteered
  <2>1. BeginSteeredTurn(selected.messages, agent, history) /\ selected.messages # <<>>
    BY <1>8 DEF AwaitUserExecuteSteered, IsBeginning, PlanInv, SelectedInv
  <2>2. KeepsPlan
    BY <1>3, <1>6, <1>8 DEF AwaitUserExecuteSteered
  <2> QED BY <1>1, <2>1, <2>2, SteeredPlan
<1>9. CASE AwaitUserExecuteQueued
  <2> DEFINE m == selected.messages
             t == UserEntries(m)
  <2>1. m \in Seq(Messages) /\ m # <<>> /\ Len(m) \in Nat /\ Len(m) # 0
    BY <1>1, <1>9, LenProperties, EmptySeq
       DEF AwaitUserExecuteQueued, IsBeginning, PlanInv, SelectedInv
  <2>2. t \in Seq(Entries) /\ Len(t) = Len(m) /\ t[Len(t)] = UserEntry(m[Len(m)])
    BY <2>1, UserEntriesType DEF UserEntries
  <2>3. t # <<>> /\ t[Len(t)].role # "assistant"
    BY <2>1, <2>2, EmptySeq DEF UserEntry
  <2>4. history' = history \o t /\ agent' = AfterUserTurn(agent, m[1] \in PlanModeMessages, FALSE)
    BY <1>9 DEF AwaitUserExecuteQueued
  <2>5. KeepsPlan
    BY <1>3, <1>6, <1>9 DEF AwaitUserExecuteQueued
  <2>6. agent'.execution = 0
    <3>1. (m[1] \in PlanModeMessages) \in BOOLEAN
      OBVIOUS
    <3> QED BY <1>1, <2>4, <3>1, UserTurnFacts
  <2> HIDE DEF t, m
  <2>7. Len(history') \in Nat /\ ~IsText(Len(history))'
    BY <1>1, <2>2, <2>3, <2>4, TurnIsNoText
  <2> QED BY <2>5, <2>6, <2>7, PlanTurns
<1>10. CASE AwaitUserExecutePlan
  <2>1. /\ plan.status # "none" /\ UNCHANGED history /\ selected' = Nothing
        /\ agent'.execution = 0 /\ plan'.revision = plan.revision /\ plan.revision > 0
    BY <1>1, <1>10 DEF AwaitUserExecutePlan, AgentStates, PlanInv, AgentInv, TypeOK,
       ConversationType, Plans
  <2>2. KeepsPlan
    BY <1>2, <1>6, <2>1 DEF KeepsPlan
  <2>3. CASE IsCurrentRequest
    <3>1. agent.execution # 0
      BY <2>1, <2>3 DEF IsCurrentRequest
    <3>2. requestedAt = Len(history)
      BY <3>1 DEF PlanInv, RequestedInv
    <3>3. StallInv(Len(history))'
      BY <1>1, <1>2, <2>1, <3>2 DEF StallInv
    <3> QED BY <2>1, <2>2, <3>3 DEF PlanInv, KeepsPlan, RequestedInv
  <2>4. CASE ~IsCurrentRequest
    <3>1. ~OnModelPath'
      BY <1>10, <2>4 DEF AwaitUserExecutePlan, GoTo, OnModelPath, ModelSteps
    <3> QED BY <2>1, <2>2, <3>1, PlanLeaves
  <2> QED BY <2>3, <2>4
<1> QED
  BY <1>4, <1>5, <1>7, <1>8, <1>9, <1>10 DEF UserBoundary

(* A reply without calls goes on once, and only if the last one made       *)
(* progress or the user asked since.                                       *)
LEMMA ReplyPlan ==
  ASSUME AgentInv, PlanInv, KeepsPlan, UNCHANGED plan, OnModelPath, NEW a \in AgentStates,
         a.execution = 0, a.noProgress = agent.noProgress, NEW requests \in Seq(Requests),
         ApplyReply(a, requests)
  PROVE  PlanInv'
<1>1. agent'.execution = 0
  BY DEF ApplyReply, AgentStates
<1>2. CASE step' # "CheckSteered" \/ input' \notin {"call_model", "compact_context"}
  <2>1. step' = "CheckSteered"
    BY DEF ApplyReply, GoTo
  <2>2. ~OnModelPath'
    BY <1>2, <2>1 DEF OnModelPath, ModelSteps
  <2> QED BY <1>1, <2>2, PlanLeaves
<1>3. CASE input' \in {"call_model", "compact_context"}
  <2> DEFINE calls == [i \in 1..Len(requests) |-> Len(issued) + i]
  <2>1. /\ a.noProgress + 1 <= MaximumAutomaticPlanRecovery
        /\ agent'.noProgress = a.noProgress + 1 /\ requests = <<>>
    BY <1>3 DEF ApplyReply, GoTo, AgentStates
  <2>2. a.noProgress \in Nat /\ history \in Seq(Entries) /\ Len(issued) \in Nat
    BY HistoryFacts DEF AgentStates
  <2>3. agent.noProgress = 0 /\ agent'.noProgress > 0
    BY <2>1, <2>2 DEF MaximumAutomaticPlanRecovery
  <2>4. calls \in Seq(Nat)
    <3>1. Len(requests) \in Nat
      BY LenProperties
    <3>2. \A i \in 1..Len(requests) : Len(issued) + i \in Nat
      BY <2>2
    <3> QED BY <3>1, <3>2
  <2>5. history' = Append(history, AssistantEntry(calls))
    BY DEF ApplyReply
  <2> HIDE DEF calls
  <2>6. AssistantEntry(calls) \in Entries
    BY <2>4 DEF AssistantEntry, Entries
  <2>7. PICK n \in Nat : n = Len(history)
    BY HistoryFacts
  <2>8. Len(history') = n + 1 /\ \A k \in 1..n : history'[k] = history[k]
    BY <2>2, <2>5, <2>6, <2>7, AppendProperties
  <2>9. n > 0 /\ IsText(n) => requestedAt >= n
    BY <2>3, <2>7 DEF PlanInv, StallInv
  <2>10. n > 0 /\ IsText(n)' => requestedAt' >= n
    BY <2>8, <2>9 DEF IsText, KeepsPlan
  <2>11. StallInv(n + 1)'
    <3>1. (n + 1) - 1 = n /\ (n + 1 > 1 => n > 0)
      OBVIOUS
    <3>2. IsText((n + 1) - 1)' => IsText(n)'
      BY <3>1
    <3> QED BY <2>3, <2>10, <3>1, <3>2 DEF StallInv
  <2>12. StallInv(Len(history))'
    BY <2>8, <2>11 DEF StallInv, IsText
  <2> QED BY <1>1, <2>12 DEF PlanInv, KeepsPlan, RequestedInv
<1> QED
  BY <1>2, <1>3

(* A model turn without calls counts against the plan, unless the user     *)
(* asked for it since.                                                     *)
LEMMA ModelTurnPlan ==
  ASSUME AgentInv, PlanInv, ModelTurn
  PROVE  PlanInv'
<1> USE DEF movement, awaiting, conversation, books
<1>1. step \in ModelSteps \cup {"ApplyModelResult"} /\ OnModelPath
  BY DEF ModelTurn, CallModel, CompactContext, BeforeModelCall, CallModelWithHooks,
     AfterModelCall, ApplyResponse, ApplyCompaction, ModelStepExhausted, ModelSteps,
     OnModelPath
<1>2. /\ agent \in AgentStates /\ agent.execution = 0 /\ TypeOK
      /\ \A s : Status(s).execution = 0 /\ Status(s).noProgress = agent.noProgress
  <2>1. agent \in AgentStates /\ agent.execution = 0 /\ TypeOK
    BY <1>1, HistoryFacts, AwayFromUser DEF AgentInv, ModelSteps
  <2> QED BY <2>1 DEF Status, AgentStates
<1>3. UNCHANGED <<selected, plan, requestedAt, planRequests>>
  BY DEF ModelTurn, CallModel, CompactContext, BeforeModelCall, CallModelWithHooks,
     AfterModelCall, ApplyResponse, ApplyCompaction, ModelStepExhausted
<1>4. KeepsPlan
  BY <1>3 DEF KeepsPlan, PlanInv, SelectedInv
<1>5. CASE CallModel
  <2>1. PICK requests \in ModelReplies : ApplyReply(Status("calling_model"), requests)
    BY <1>5 DEF CallModel
  <2>2. requests \in Seq(Requests) /\ Status("calling_model") \in AgentStates
    BY <1>2, ModelRepliesType, StatusType DEF TypeOK, Statuses
  <2> QED BY <1>1, <1>2, <1>3, <1>4, <2>1, <2>2, ReplyPlan
<1>6. CASE ApplyResponse
  <2>1. reply.requests \in Seq(Requests) /\ ApplyReply(agent, reply.requests)
    BY <1>2, <1>6 DEF TypeOK, ReplyType, ApplyResponse
  <2> QED BY <1>1, <1>2, <1>3, <1>4, <2>1, ReplyPlan
<1>7. CASE CompactContext \/ BeforeModelCall \/ CallModelWithHooks \/ AfterModelCall
           \/ ApplyCompaction \/ ModelStepExhausted
  <2>1. UNCHANGED history /\ (agent' = agent \/ \E s : agent' = Status(s))
    BY <1>7 DEF CompactContext, BeforeModelCall, CallModelWithHooks, AfterModelCall,
       ApplyCompaction, ModelStepExhausted
  <2>2. agent'.execution = 0 /\ agent'.noProgress = agent.noProgress
    BY <1>2, <2>1
  <2> QED BY <1>1, <1>4, <2>1, <2>2, PlanStays
<1> QED
  BY <1>5, <1>6, <1>7 DEF ModelTurn

(* Routing writes plans, and only the safe boundary leads to the model.    *)
LEMMA RoutedPlan ==
  ASSUME AgentInv, PlanInv, Routed
  PROVE  PlanInv'
<1> USE DEF movement, awaiting, conversation, books
<1>1. step \in {"CheckSteered", "RouteTool"} /\ UNCHANGED <<selected, requestedAt, planRequests>>
  BY DEF Routed, CheckSteeredSteer, CheckSteeredContinue, RouteRefused, Routes,
     RouteWriteTodos, RouteDurableWait, RouteRequestUserInput, RouteParallel, RouteSerial
<1>2. /\ agent \in AgentStates /\ agent.execution = 0 /\ TypeOK
      /\ history \in Seq(Entries) /\ steered \in Seq(Messages) /\ Remaining(agent) \in Seq(Nat)
  BY <1>1, HistoryFacts, AwayFromUser, RemainingFacts DEF AgentInv, TypeOK, ChannelsType
<1>3. Routing \in AgentStates /\ Routing.execution = 0
  BY <1>2, StatusType, StatusFacts DEF TypeOK, Statuses, Routing
<1>4. UNCHANGED plan => KeepsPlan
  BY <1>1 DEF KeepsPlan, PlanInv, SelectedInv
<1>5. ASSUME step = "RouteTool" PROVE AtCall
  BY <1>5 DEF AtCall
<1>6. CASE CheckSteeredSteer
  BY <1>2, <1>4, <1>6, SteeredPlan DEF CheckSteeredSteer
<1>7. CASE CheckSteeredContinue
  <2>1. UNCHANGED <<plan, agent, history>>
    BY <1>7 DEF CheckSteeredContinue
  <2>2. OnModelPath' => OnModelPath
    BY <1>7 DEF CheckSteeredContinue, GoTo, OnModelPath, ModelSteps
  <2> QED BY <1>4, <2>1, <2>2, PlanStays
<1>8. CASE RouteRefused
  <2>1. PICK a : a \in AgentStates /\ a.execution = 0 /\ FinishCurrentCall(a, "refused")
    <3>1. /\ [Routing EXCEPT !.requiresWrite = FALSE, !.allowsWrite = TRUE] \in AgentStates
          /\ [Routing EXCEPT !.requiresWrite = FALSE, !.allowsWrite = TRUE].execution = 0
      BY <1>3 DEF AgentStates
    <3>2. \/ FinishCurrentCall(Routing, "refused")
          \/ FinishCurrentCall([Routing EXCEPT !.requiresWrite = FALSE, !.allowsWrite = TRUE],
                               "refused")
      BY <1>8 DEF RouteRefused
    <3> QED BY <1>3, <3>1, <3>2
  <2>2. UNCHANGED plan /\ step = "RouteTool" /\ "refused" \in Outcomes
    BY <1>8 DEF RouteRefused, Outcomes
  <2> QED BY <1>4, <1>5, <2>1, <2>2, FinishedPlan
<1>9. CASE RouteWriteTodos
  <2> DEFINE a == [Routing EXCEPT !.planRevision = @ + 1, !.requiresWrite = FALSE,
                              !.allowsWrite = FALSE, !.execution = 0, !.noProgress = 0]
  <2>1. a \in AgentStates /\ a.execution = 0
    BY <1>3, PlanWriteType DEF AgentStates
  <2>2. FinishCurrentCall(a, "succeeded") /\ step = "RouteTool" /\ "succeeded" \in Outcomes
    BY <1>9 DEF RouteWriteTodos, Routes, Outcomes
  <2>3. KeepsPlan
    <3>1. agent.planRevision + 1 > 0
      BY <1>2 DEF AgentStates
    <3>2. plan' = NoPlan \/ plan'.revision = agent.planRevision + 1
      BY <1>9 DEF RouteWriteTodos
    <3>3. plan'.status # "none" => plan'.revision > 0
      BY <3>1, <3>2 DEF NoPlan
    <3> QED BY <1>1, <3>3 DEF KeepsPlan, PlanInv, SelectedInv
  <2> HIDE DEF a
  <2> QED BY <1>5, <2>1, <2>2, <2>3, FinishedPlan
<1>10. CASE RouteDurableWait \/ RouteRequestUserInput \/ RouteParallel \/ RouteSerial
  <2>1. UNCHANGED plan /\ ~OnModelPath'
    BY <1>10 DEF RouteDurableWait, RouteRequestUserInput, RouteParallel, RouteSerial, GoTo,
       OnModelPath, ModelSteps
  <2>2. agent' \in {Routing, WithCallsCleared(Routing), Status("executing_tool")}
    BY <1>10 DEF RouteDurableWait, RouteRequestUserInput, RouteParallel, RouteSerial
  <2>3. agent'.execution = 0
    BY <1>2, <1>3, <2>2, StatusFacts DEF WithCallsCleared, AgentStates
  <2> QED BY <1>4, <2>1, <2>3, PlanLeaves
<1> QED
  BY <1>6, <1>7, <1>8, <1>9, <1>10 DEF Routed

(* What waits for an approval or a timer leads on by a result or a turn.   *)
LEMMA ToolWaitPlan ==
  ASSUME AgentInv, PlanInv, ToolWait
  PROVE  PlanInv'
<1> USE DEF movement, awaiting, conversation, books
<1>1. /\ step \in {"AwaitToolApproval", "DurableWait"} /\ AtCall
      /\ UNCHANGED <<selected, plan, requestedAt, planRequests>>
  BY DEF ToolWait, AwaitToolApprovalWaitFor, AwaitToolApprovalSteered,
     AwaitToolApprovalExecute, DurableWaitWaitFor, DurableWaitSteered, DurableWaitFires,
     SteerWaiting, AtCall, AtApproval, AtTimer
<1>2. /\ agent \in AgentStates /\ agent.execution = 0 /\ TypeOK
      /\ history \in Seq(Entries) /\ steered \in Seq(Messages) /\ Remaining(agent) \in Seq(Nat)
  BY <1>1, HistoryFacts, AwayFromUser, RemainingFacts DEF AgentInv, TypeOK, ChannelsType
<1>3. KeepsPlan
  BY <1>1 DEF KeepsPlan, PlanInv, SelectedInv
<1>4. CASE AwaitToolApprovalWaitFor \/ DurableWaitWaitFor
  <2>1. /\ UNCHANGED step
        /\ agent' \in {Status("waiting_for_tool_approval"), Status("waiting_for_timer")}
    BY <1>4 DEF AwaitToolApprovalWaitFor, DurableWaitWaitFor
  <2>2. ~OnModelPath' /\ agent'.execution = 0
    BY <1>1, <1>2, <2>1, StatusFacts DEF OnModelPath, ModelSteps
  <2> QED BY <1>3, <2>2, PlanLeaves
<1>5. CASE AwaitToolApprovalSteered
  BY <1>2, <1>3, <1>5, SteeredPlan DEF AwaitToolApprovalSteered, SteerWaiting
<1>6. CASE DurableWaitSteered
  <2> DEFINE a == WithCallsCleared(agent)
             h == history \o Interrupted(Remaining(agent))
  <2>1. a \in AgentStates /\ h \in Seq(Entries)
    BY <1>2, WithCallsClearedType, InterruptedType, ConcatProperties
  <2>2. Remaining(a) \in Seq(Nat)
    BY <2>1, RemainingType DEF WithCallsCleared, AgentStates
  <2>3. BeginSteeredTurn(steered, a, h) /\ steered # <<>>
    BY <1>6 DEF DurableWaitSteered, SteerWaiting
  <2> HIDE DEF a, h
  <2> QED BY <1>2, <1>3, <2>1, <2>2, <2>3, SteeredPlan
<1>7. ASSUME NEW o \in {"rejected", "succeeded"}, FinishCurrentCall(agent, o)
      PROVE  PlanInv'
  <2>1. o \in Outcomes
    BY DEF Outcomes
  <2> QED BY <1>1, <1>2, <1>3, <1>7, <2>1, FinishedPlan
<1>8. CASE AwaitToolApprovalExecute
  <2>1. \/ step' = "CheckSteered" /\ input' = "execute_tool" /\ UNCHANGED agent
        \/ FinishCurrentCall(agent, "rejected")
    BY <1>8 DEF AwaitToolApprovalExecute, GoTo
  <2>2. CASE step' = "CheckSteered" /\ input' = "execute_tool" /\ UNCHANGED agent
    <3>1. ~OnModelPath' /\ agent'.execution = 0
      BY <1>2, <2>2 DEF OnModelPath, ModelSteps
    <3> QED BY <1>3, <3>1, PlanLeaves
  <2> QED BY <1>7, <2>1, <2>2
<1>9. CASE DurableWaitFires
  BY <1>7, <1>9 DEF DurableWaitFires
<1> QED
  BY <1>4, <1>5, <1>6, <1>8, <1>9 DEF ToolWait

(* What runs leads on by its results.                                      *)
LEMMA ToolRunPlan ==
  ASSUME AgentInv, PlanInv, ToolRun
  PROVE  PlanInv'
<1> USE DEF movement, awaiting, conversation, books
<1>1. /\ step \in {"ExecuteTool", "RecoverToolExecution", "PrepareManualToolRecovery",
                   "AwaitParallelToolResults"}
      /\ UNCHANGED <<selected, plan, requestedAt, planRequests>>
  <2>1. \A b \in branches : step = "AwaitParallelToolResults"
    BY DEF AgentInv, CallInv, BatchInv
  <2> QED BY <2>1 DEF ToolRun, ExecuteToolReturns, ExecuteToolAttemptFails,
          RecoverToolExecution, PrepareManualToolRecovery, AwaitParallelToolResults,
          BranchReturns, BranchAttemptFails, BranchRecovers
<1>2. /\ agent \in AgentStates /\ agent.execution = 0 /\ TypeOK /\ CallInv /\ RecoveryInv
      /\ AtCall
  BY <1>1, HistoryFacts, AwayFromUser DEF AgentInv, AtCall, AtRun, HasBatch
<1>3. KeepsPlan
  BY <1>1 DEF KeepsPlan, PlanInv, SelectedInv
<1>4. ASSUME agent' = agent \/ agent' = Status("executing_tool"), ~OnModelPath'
      PROVE  PlanInv'
  BY <1>2, <1>3, <1>4, StatusFacts, PlanLeaves
<1>5. CASE ExecuteToolReturns
  <2>1. ASSUME NEW o \in {"succeeded", "failed"}, FinishCurrentCall(Status("executing_tool"), o)
        PROVE  PlanInv'
    <3>1. Status("executing_tool") \in AgentStates /\ Status("executing_tool").execution = 0
      BY <1>2, StatusType, StatusFacts DEF TypeOK, Statuses
    <3>2. o \in Outcomes
      BY DEF Outcomes
    <3> QED BY <1>2, <1>3, <2>1, <3>1, <3>2, FinishedPlan
  <2>2. CASE agent' = Status("executing_tool")
             /\ step' \in {"PrepareManualToolRecovery", "RecoverToolExecution"}
    BY <1>4, <2>2 DEF OnModelPath, ModelSteps
  <2> QED BY <1>5, <2>1, <2>2 DEF ExecuteToolReturns, GoTo
<1>6. CASE ExecuteToolAttemptFails \/ PrepareManualToolRecovery
  <2>1. /\ UNCHANGED agent
        /\ step' \in {"ExecuteTool", "RecoverToolExecution", "PrepareManualToolRecovery",
                      "AwaitManualToolRecovery"}
    BY <1>6 DEF ExecuteToolAttemptFails, PrepareManualToolRecovery, GoTo
  <2> QED BY <1>4, <2>1 DEF OnModelPath, ModelSteps
<1>7. CASE RecoverToolExecution
  <2>1. FinishCurrentCall(agent, "unknown") /\ "unknown" \in Outcomes
    BY <1>7 DEF RecoverToolExecution, Outcomes
  <2> QED BY <1>2, <1>3, <2>1, FinishedPlan
<1>8. CASE \E b \in branches : BranchReturns(b) \/ BranchAttemptFails(b) \/ BranchRecovers(b)
  <2>1. UNCHANGED <<step, input, agent>>
    BY <1>8 DEF BranchReturns, BranchAttemptFails, BranchRecovers
  <2> QED BY <1>1, <1>4, <2>1 DEF OnModelPath, ModelSteps
<1>9. CASE AwaitParallelToolResults
  <2>1. HasBatch
    BY <1>9 DEF AwaitParallelToolResults, HasBatch
  <2>2. \/ UNCHANGED agent /\ step' = "AwaitManualToolRecovery"
        \/ FinishBatch(Joined)
    BY <1>9 DEF AwaitParallelToolResults, GoTo
  <2>3. CASE UNCHANGED agent /\ step' = "AwaitManualToolRecovery"
    BY <1>4, <2>3 DEF OnModelPath, ModelSteps
  <2>4. Joined \in Seq(Records) /\ Len(Joined) = BatchSize /\ BatchSize > 0
    BY <1>2, <1>9, <2>1, JoinedType, JoinedFacts DEF TypeOK, RecoveryInv
  <2> QED BY <1>2, <1>3, <2>2, <2>3, <2>4, FinishedBatchPlan
<1> QED
  BY <1>5, <1>6, <1>7, <1>8, <1>9 DEF ToolRun

(* A decision that retries nothing finishes the batch with its outcomes.   *)
LEMMA ResumedBatch ==
  ASSUME AgentInv, NEW decision \in decisions, RecoveryResumes(decision),
         Retried(decision) = {}
  PROVE  \E records \in Seq(Records) : Len(records) = BatchSize /\ FinishBatch(records)
<1> DEFINE records == [i \in 1..BatchSize |->
                          IF i \in Retried(decision)
                          THEN [batch.records[i] EXCEPT !.outcome = "none"]
                          ELSE IF i \in Unresolved(batch.records)
                          THEN [batch.records[i] EXCEPT !.manual = FALSE]
                          ELSE batch.records[i]]
<1>1. batch.records \in Seq(Records) /\ BatchSize \in Nat
  BY HistoryFacts, LenProperties DEF TypeOK, JoiningType, Batches, BatchSize
<1>2. FinishBatch(records)
  BY DEF RecoveryResumes
<1>3. \A i \in 1..BatchSize : batch.records[i] \in Records
  BY <1>1, ElementOfSeq DEF BatchSize
<1>4. \A i \in 1..BatchSize : records[i] \in Records
  BY <1>3 DEF Records
<1>5. records = [i \in 1..BatchSize |-> records[i]]
  OBVIOUS
<1> HIDE DEF records
<1>6. records \in [1..BatchSize -> Records]
  BY <1>4, <1>5
<1>7. records \in Seq(Records) /\ Len(records) = BatchSize
  <2> DEFINE m == BatchSize
  <2>1. m \in Nat /\ records \in [1..m -> Records]
    BY <1>1, <1>6
  <2> HIDE DEF m
  <2> QED BY <2>1 DEF m
<1> QED
  BY <1>2, <1>7

(* What waits for manual recovery leads on by its results or a turn.       *)
LEMMA RecoveryPlan ==
  ASSUME AgentInv, PlanInv, Recovery
  PROVE  PlanInv'
<1> USE DEF movement, awaiting, conversation, books
<1>1. /\ step = "AwaitManualToolRecovery" /\ HasBatch
      /\ UNCHANGED <<selected, plan, requestedAt, planRequests>>
  BY DEF Recovery, AwaitManualToolRecoveryWaitFor, AwaitManualToolRecoverySteered,
     SteerWaiting, RecoveryStops, RecoveryResumes, IsResolving, HasBatch
<1>2. /\ agent \in AgentStates /\ agent.execution = 0 /\ TypeOK /\ CallInv /\ RecoveryInv
      /\ history \in Seq(Entries) /\ steered \in Seq(Messages)
      /\ batch.records \in Seq(Records)
  BY <1>1, HistoryFacts, AwayFromUser
     DEF AgentInv, TypeOK, ChannelsType, JoiningType, Batches
<1>3. KeepsPlan
  BY <1>1 DEF KeepsPlan, PlanInv, SelectedInv
<1>4. BatchSize \in Nat /\ BatchSize > 0 /\ batch.first = agent.index
  <2>1. BatchSize \in Nat /\ batch.first = agent.index
    BY <1>1, <1>2, BatchFacts
  <2> QED BY <1>1, <1>2, <2>1 DEF RecoveryInv
<1>5. CASE AwaitManualToolRecoveryWaitFor
  <2>1. UNCHANGED step /\ agent' = Status("waiting_for_tool_recovery")
    BY <1>5 DEF AwaitManualToolRecoveryWaitFor
  <2>2. ~OnModelPath' /\ agent'.execution = 0
    BY <1>1, <1>2, <2>1, StatusFacts DEF OnModelPath, ModelSteps
  <2> QED BY <1>3, <2>2, PlanLeaves
<1>6. CASE AwaitManualToolRecoverySteered
  <2> DEFINE a == [agent EXCEPT !.index = batch.first + BatchSize]
             h == history \o BatchEntries(batch.records)
  <2>1. BeginSteeredTurn(steered, a, h) /\ steered # <<>>
    BY <1>6 DEF AwaitManualToolRecoverySteered, SteerWaiting
  <2>2. agent.index + BatchSize \in Nat
    BY <1>2, <1>4 DEF AgentStates
  <2>3. a \in AgentStates /\ a.index = agent.index + BatchSize /\ a.calls = agent.calls
    BY <1>2, <1>4, <2>2 DEF AgentStates
  <2>4. h \in Seq(Entries)
    BY <1>2, BatchEntriesType, ConcatProperties
  <2> HIDE DEF a, h
  <2>5. Remaining(a) = SubSeq(agent.calls, agent.index + BatchSize + 1, Len(agent.calls))
    BY <2>3 DEF Remaining
  <2>6. Remaining(a) \in Seq(Nat)
    BY <1>1, <2>5, BatchLeaves
  <2> QED BY <1>2, <1>3, <2>1, <2>3, <2>4, <2>6, SteeredPlan
<1>7. ASSUME NEW decision \in decisions, RecoveryStops(decision)
      PROVE  PlanInv'
  <2>1. agent'.execution = 0 /\ step' = "AwaitUser"
    BY <1>2, <1>7 DEF RecoveryStops, GoTo, WithCallsCleared, AgentStates
  <2>2. ~OnModelPath'
    BY <2>1 DEF OnModelPath, ModelSteps
  <2> QED BY <1>3, <2>1, <2>2, PlanLeaves
<1>8. ASSUME NEW decision \in decisions, RecoveryResumes(decision)
      PROVE  PlanInv'
  <2>1. CASE Retried(decision) = {}
    BY <1>2, <1>3, <1>4, <1>8, <2>1, ResumedBatch, FinishedBatchPlan
  <2>2. CASE Retried(decision) # {}
    <3>1. agent' = Status("executing_tool") /\ step' = "AwaitParallelToolResults"
      BY <1>8, <2>2 DEF RecoveryResumes, GoTo
    <3>2. ~OnModelPath' /\ agent'.execution = 0
      BY <1>2, <3>1, StatusFacts DEF OnModelPath, ModelSteps
    <3> QED BY <1>3, <3>2, PlanLeaves
  <2> QED BY <2>1, <2>2
<1> QED
  BY <1>5, <1>6, <1>7, <1>8 DEF Recovery

-----------------------------------------------------------------------------
(* A fresh agent has no plan and no request.                               *)
LEMMA InitPlan == Init => PlanInv
<1> SUFFICES ASSUME Init
             PROVE  PlanInv
  OBVIOUS
<1>1. /\ agent.execution = 0 /\ selected = Nothing /\ plan.status = "none" /\ ~OnModelPath
  BY DEF Init, NewAgentState, NoPlan, OnModelPath, ModelSteps
<1> QED
  BY <1>1 DEF PlanInv, RequestedInv, SelectedInv, Nothing

(* Every step keeps it.                                                    *)
LEMMA StepPlan ==
  ASSUME AgentInv, PlanInv, [Next]_vars
  PROVE  PlanInv'
<1>1. CASE UNCHANGED vars
  BY <1>1 DEF vars, movement, awaiting, conversation, books, PlanInv, RequestedInv,
     SelectedInv, OnModelPath, StallInv, IsText
<1>2. CASE Next
  BY <1>2, UserCommandPlan, UserBoundaryPlan, ModelTurnPlan, RoutedPlan, ToolWaitPlan,
     ToolRunPlan, RecoveryPlan DEF Next, Worker
<1> QED
  BY <1>1, <1>2

(* Both invariants are inductive together.                                 *)
LEMMA PlanInvariant == Spec => [](AgentInv /\ PlanInv)
<1>1. Init => AgentInv /\ PlanInv
  BY InitAgentInv, InitPlan
<1>2. AgentInv /\ PlanInv /\ [Next]_vars => (AgentInv /\ PlanInv)'
  BY StepAgentInv, StepPlan
<1> QED
  BY <1>1, <1>2, PTL DEF Spec

(* Two replies without a call in a row are followed by a third model call  *)
(* only after ExecutePlan asked for it: applyModelResult retries once.     *)
THEOREM StalledPlansStop == Spec => []StalledPlanStops
<1>1. AgentInv /\ PlanInv => StalledPlanStops
  BY DEF PlanInv, OnModelPath, StallInv, StalledPlanStops
<1> QED
  BY <1>1, PlanInvariant, PTL

(* Of the steps out of AwaitUser, a request starts the plan only in        *)
(* AwaitUserExecute, and only if nothing superseded it since ExecutePlan.  *)
THEOREM PlansStartOnRequest == Spec => PlanStartsOnRequest
<1> DEFINE Starts == step = "AwaitUser" /\ selected.kind = "plan" /\ step' = "CheckSteered"
                     => requestedAt = Len(history) /\ planRequests > 0
<1>1. ASSUME AgentInv, PlanInv, Next, step = "AwaitUser", selected.kind = "plan",
             step' = "CheckSteered"
      PROVE  requestedAt = Len(history) /\ planRequests > 0
  <2>1. ~UserCommand
    BY <1>1 DEF UserCommand, SendMessage, DeleteQueuedMessage, SteerMessage, AnswerQuestions,
       ApproveTool, ResolveToolRecovery, ExecutePlan, movement
  <2>2. ~ModelTurn /\ ~Routed
    BY <1>1 DEF ModelTurn, CallModel, CompactContext, BeforeModelCall, CallModelWithHooks,
       AfterModelCall, ApplyResponse, ApplyCompaction, ModelStepExhausted, ModelSteps,
       Routed, CheckSteeredSteer, CheckSteeredContinue, RouteRefused, Routes,
       RouteWriteTodos, RouteDurableWait, RouteRequestUserInput, RouteParallel, RouteSerial
  <2>3. ~ToolWait /\ ~Recovery
    BY <1>1 DEF ToolWait, AwaitToolApprovalWaitFor, AwaitToolApprovalSteered,
       AwaitToolApprovalExecute, DurableWaitWaitFor, DurableWaitSteered, DurableWaitFires,
       SteerWaiting, Recovery, AwaitManualToolRecoveryWaitFor,
       AwaitManualToolRecoverySteered, RecoveryStops, RecoveryResumes, IsResolving
  <2>4. ~ToolRun
    BY <1>1 DEF ToolRun, ExecuteToolReturns, ExecuteToolAttemptFails, RecoverToolExecution,
       PrepareManualToolRecovery, AwaitParallelToolResults, BranchReturns,
       BranchAttemptFails, BranchRecovers, movement
  <2>5. AwaitUserExecutePlan
    BY <1>1, <2>1, <2>2, <2>3, <2>4
       DEF Next, Worker, UserBoundary, InitExecute, AwaitUserWaitFor, SelectAnswer,
           SelectSteered, SelectQueued, SelectPlan, Select, IsBeginning,
           AwaitUserExecuteAnswer, AwaitUserExecuteSteered, AwaitUserExecuteQueued,
           AnsweredInput, movement
  <2>6. IsCurrentRequest /\ plan.status # "none"
    BY <1>1, <2>5 DEF AwaitUserExecutePlan, GoTo
  <2>7. agent.execution # 0
    <3>1. plan.revision > 0 /\ agent.execution = plan.revision
      BY <1>1, <2>6 DEF IsCurrentRequest, PlanInv
    <3> QED BY <3>1
  <2> QED BY <1>1, <2>7 DEF PlanInv, RequestedInv
<1>2. AgentInv /\ PlanInv /\ [Next]_vars => [Starts]_<<step, selected>>
  <2>1. UNCHANGED vars => UNCHANGED <<step, selected>>
    BY DEF vars, movement, awaiting
  <2> QED BY <1>1, <2>1
<1> QED
  BY <1>2, PlanInvariant, PTL DEF Spec, PlanStartsOnRequest

-----------------------------------------------------------------------------
(* AgentFlow implements MessageDelivery: every step accepts, deletes,      *)
(* steers or takes user messages as that module allows, or leaves them.    *)
(* The taken messages are those of the user entries of the history, in     *)
(* order: the i-th is at the place with i user entries up to it.           *)

(* Places a set of which has a rank: each rank belongs to one of them.     *)
LEMMA RankBounds ==
  ASSUME NEW P \in SUBSET Int, IsFiniteSet(P), NEW k \in P
  PROVE  /\ Cardinality(P) \in Nat
         /\ Rank(P, k) \in 1..Cardinality(P)
<1> DEFINE A == {j \in P : j <= k}
<1>1. A \in SUBSET P /\ k \in A
  OBVIOUS
<1>2. IsFiniteSet(A) /\ Cardinality(A) <= Cardinality(P) /\ Cardinality(P) \in Nat
  BY <1>1, FS_Subset, FS_CardinalityType
<1>3. Cardinality(A) \in Nat /\ Cardinality(A) # 0
  BY <1>1, <1>2, FS_CardinalityType, FS_EmptySet
<1> HIDE DEF A
<1>4. Cardinality(A) \in 1..Cardinality(P)
  BY <1>2, <1>3
<1> QED
  BY <1>2, <1>4 DEF Rank, A

(* Later places have greater ranks.                                        *)
LEMMA RankGrows ==
  ASSUME NEW P \in SUBSET Int, IsFiniteSet(P), NEW k \in P, NEW l \in P, k < l
  PROVE  Rank(P, k) # Rank(P, l)
<1> DEFINE A == {j \in P : j <= k}
           B == {j \in P : j <= l}
<1>1. A \in SUBSET B /\ B \in SUBSET P /\ l \in B /\ l \notin A
  <2>1. k \in Int /\ l \in Int /\ \A j \in P : j \in Int
    OBVIOUS
  <2>2. \A j \in A : j \in P /\ j <= l
    BY <2>1
  <2>3. l \in B /\ ~(l <= k)
    BY <2>1
  <2> QED BY <2>2, <2>3
<1>2. IsFiniteSet(B)
  BY <1>1, FS_Subset
<1>3. Cardinality(B) # Cardinality(A)
  <2> HIDE DEF A, B
  <2> QED BY <1>1, <1>2, FS_Subset
<1> QED
  BY <1>3 DEF Rank

(* Two places of one rank are one place.                                   *)
LEMMA RankInjective ==
  ASSUME NEW P \in SUBSET Int, IsFiniteSet(P), NEW k \in P, NEW l \in P,
         Rank(P, k) = Rank(P, l)
  PROVE  k = l
<1>1. CASE k < l
  BY <1>1, RankGrows
<1>2. CASE l < k
  BY <1>2, RankGrows
<1> QED
  BY <1>1, <1>2

(* Every rank up to the number of places is that of a place.               *)
LEMMA RankOnto ==
  ASSUME NEW P \in SUBSET Int, IsFiniteSet(P), NEW i \in 1..Cardinality(P)
  PROVE  \E k \in P : Rank(P, k) = i
<1> DEFINE c == Cardinality(P)
           f == [k \in P |-> Rank(P, k)]
<1>1. c \in Nat /\ \A k \in P : Rank(P, k) \in 1..c
  BY RankBounds, FS_CardinalityType
<1>2. f \in [P -> 1..c]
  BY <1>1
<1>3. \A k, l \in P : Rank(P, k) = Rank(P, l) => k = l
  BY RankInjective
<1>4. f \in Injection(P, 1..c)
  BY <1>2, <1>3 DEF Injection, IsInjective
<1>5. IsFiniteSet(1..c) /\ Cardinality(1..c) = c
  <2> HIDE DEF c
  <2> QED BY <1>1, FS_Interval
<1>6. f \in Surjection(P, 1..c)
  <2> HIDE DEF f
  <2>1. Cardinality(P) = Cardinality(1..c)
    BY <1>5
  <2> QED BY <1>4, <1>5, <2>1, FS_Injection
<1> QED
  BY <1>6 DEF Surjection

(* The user entries of a history are finitely many.                        *)
LEMMA PlacesType ==
  ASSUME NEW h \in Seq(Entries)
  PROVE  /\ UserPlaces(h) \in SUBSET Int /\ IsFiniteSet(UserPlaces(h))
         /\ Cardinality(UserPlaces(h)) \in Nat
<1>1. Len(h) \in Nat
  BY LenProperties
<1>2. UserPlaces(h) \in SUBSET (1..Len(h)) /\ UserPlaces(h) \in SUBSET Int
  BY <1>1 DEF UserPlaces
<1>3. IsFiniteSet(1..Len(h))
  BY <1>1, FS_Interval
<1> QED
  BY <1>2, <1>3, FS_Subset, FS_CardinalityType

(* The user message of a rank is that of the entry with this rank.         *)
LEMMA UserMessagesAt ==
  ASSUME NEW h \in Seq(Entries), NEW k \in UserPlaces(h)
  PROVE  /\ Rank(UserPlaces(h), k) \in 1..Cardinality(UserPlaces(h))
         /\ UserMessages(h)[Rank(UserPlaces(h), k)] = h[k].message
<1> DEFINE P == UserPlaces(h)
           i == Rank(P, k)
<1>1. P \in SUBSET Int /\ IsFiniteSet(P) /\ i \in 1..Cardinality(P) /\ k \in P
  BY PlacesType, RankBounds
<1>2. \A l \in P : Rank(P, l) = i => l = k
  BY <1>1, RankInjective
<1>3. (CHOOSE l \in P : Rank(P, l) = i) = k
  <2> HIDE DEF P
  <2> QED BY <1>1, <1>2
<1>4. UserMessages(h)[i] = h[CHOOSE l \in P : Rank(P, l) = i].message
  BY <1>1 DEF UserMessages
<1> QED
  BY <1>1, <1>3, <1>4

(* There are as many user messages as user turns in the history.           *)
LEMMA UserMessagesType ==
  ASSUME NEW h \in Seq(Entries)
  PROVE  /\ UserMessages(h) \in Seq(Messages)
         /\ Len(UserMessages(h)) = Cardinality(UserPlaces(h))
<1> DEFINE c == Cardinality(UserPlaces(h))
           P == UserPlaces(h)
           u == UserMessages(h)
<1>1. c \in Nat /\ P \in SUBSET Int /\ IsFiniteSet(P)
  BY PlacesType
<1>2. u = [i \in 1..c |-> h[CHOOSE k \in P : Rank(P, k) = i].message]
  BY DEF UserMessages
<1>3. ASSUME NEW i \in 1..c
      PROVE  u[i] \in Messages
  <2>1. PICK k \in P : Rank(P, k) = i
    BY <1>1, RankOnto
  <2>2. u[i] = h[k].message
    BY <2>1, UserMessagesAt
  <2>3. h[k] \in Entries /\ h[k].role = "user"
    BY ElementOfSeq DEF UserPlaces
  <2> QED BY <2>2, <2>3 DEF Entries
<1>4. DOMAIN u = 1..c
  BY <1>2
<1> HIDE DEF u, c
<1>5. u \in [1..c -> Messages]
  <2>1. u = [i \in 1..c |-> u[i]]
    BY <1>2
  <2> QED BY <1>3, <2>1
<1> QED
  BY <1>1, <1>4, <1>5 DEF u, c

(* Entries that begin no user turn.                                        *)
NoUser(t) == \A i \in 1..Len(t) : t[i].role # "user"

(* Entries that begin no user turn leave the user messages alone.          *)
LEMMA NoUserAdds ==
  ASSUME NEW h \in Seq(Entries), NEW t \in Seq(Entries), NoUser(t)
  PROVE  UserMessages(h \o t) = UserMessages(h)
<1> DEFINE n == Len(h)
           m == Len(t)
           w == h \o t
           P == UserPlaces(h)
           c == Cardinality(P)
<1>1. n \in Nat /\ m \in Nat
  BY LenProperties
<1>2. /\ w \in Seq(Entries) /\ Len(w) = n + m
      /\ \A k \in 1..(n + m) : w[k] = IF k <= n THEN h[k] ELSE t[k - n]
  BY ConcatProperties
<1>3. P = {k \in 1..n : h[k].role = "user"} /\ \A i \in 1..m : t[i].role # "user"
  BY DEF UserPlaces, NoUser
<1>4. UserPlaces(w) = {k \in 1..(n + m) : w[k].role = "user"}
  BY <1>2 DEF UserPlaces
<1> HIDE DEF n, m, w, P
<1>5. ASSUME NEW k \in 1..(n + m)
      PROVE  w[k].role = "user" <=> k \in P
  <2>1. CASE k <= n
    <3>1. k \in 1..n /\ w[k] = h[k]
      BY <1>1, <1>2, <2>1
    <3> QED BY <1>3, <3>1
  <2>2. CASE ~(k <= n)
    <3>1. k \notin 1..n /\ k - n \in 1..m /\ w[k] = t[k - n]
      BY <1>1, <1>2, <2>2
    <3> QED BY <1>3, <3>1
  <2> QED BY <2>1, <2>2
<1>6. UserPlaces(w) = P
  <2>1. \A k \in P : k \in 1..(n + m)
    BY <1>1, <1>3
  <2> QED BY <1>4, <1>5, <2>1
<1>7. /\ UserMessages(w) \in Seq(Messages) /\ UserMessages(h) \in Seq(Messages)
      /\ Len(UserMessages(w)) = c /\ Len(UserMessages(h)) = c
  BY <1>2, <1>6, UserMessagesType DEF P
<1>8. ASSUME NEW i \in 1..c
      PROVE  UserMessages(w)[i] = UserMessages(h)[i]
  <2>1. P \in SUBSET Int /\ IsFiniteSet(P)
    BY PlacesType DEF P
  <2>2. PICK k \in P : Rank(P, k) = i
    BY <2>1, RankOnto
  <2>3. UserMessages(h)[i] = h[k].message
    BY <2>2, UserMessagesAt DEF P
  <2>4. UserMessages(w)[i] = w[k].message
    BY <1>2, <1>6, <2>2, UserMessagesAt
  <2>5. w[k] = h[k]
    BY <1>1, <1>2, <1>3
  <2> QED BY <2>3, <2>4, <2>5
<1> HIDE DEF c
<1>9. UserMessages(w) = UserMessages(h)
  BY <1>7, <1>8, SeqEqual
<1> QED
  BY <1>9 DEF w

(* The entries of messages come after the others, in their order.          *)
LEMMA UsersAdd ==
  ASSUME NEW h \in Seq(Entries), NEW ms \in Seq(Messages)
  PROVE  UserMessages(h \o UserEntries(ms)) = UserMessages(h) \o ms
<1> DEFINE n == Len(h)
           m == Len(ms)
           t == UserEntries(ms)
           w == h \o t
           P == UserPlaces(h)
           Q == UserPlaces(w)
           c == Cardinality(P)
           New(j) == (n + 1)..(n + j)
<1>1. n \in Nat /\ m \in Nat /\ c \in Nat /\ P \in SUBSET Int /\ IsFiniteSet(P)
  BY LenProperties, PlacesType
<1>2. /\ t \in Seq(Entries) /\ Len(t) = m
      /\ \A i \in 1..m : t[i].role = "user" /\ t[i].message = ms[i]
  <2>1. t \in Seq(Entries)
    BY UserEntriesType
  <2> QED BY <1>1, <2>1 DEF UserEntries, UserEntry
<1>3. /\ w \in Seq(Entries) /\ Len(w) = n + m
      /\ \A k \in 1..(n + m) : w[k] = IF k <= n THEN h[k] ELSE t[k - n]
  <2>1. t \in Seq(Entries)
    BY <1>2
  <2> HIDE DEF t, m
  <2>2. /\ h \o t \in Seq(Entries) /\ Len(h \o t) = Len(h) + Len(t)
        /\ \A k \in 1..(Len(h) + Len(t)) :
              (h \o t)[k] = IF k <= Len(h) THEN h[k] ELSE t[k - Len(h)]
    BY <2>1, ConcatProperties
  <2> QED BY <1>2, <2>2
<1>4. P = {k \in 1..n : h[k].role = "user"}
  BY DEF UserPlaces
<1>5. Q = {k \in 1..(n + m) : w[k].role = "user"}
  BY <1>3 DEF UserPlaces
<1> HIDE DEF n, m, t, w, P, Q
<1>6. ASSUME NEW k \in 1..(n + m)
      PROVE  w[k].role = "user" <=> k \in P \/ k > n
  <2>1. CASE k <= n
    <3>1. k \in 1..n /\ w[k] = h[k] /\ ~(k > n)
      BY <1>1, <1>3, <2>1
    <3> QED BY <1>4, <3>1
  <2>2. CASE ~(k <= n)
    <3>1. k - n \in 1..m /\ w[k] = t[k - n] /\ k > n
      BY <1>1, <1>3, <2>2
    <3> QED BY <1>2, <3>1
  <2> QED BY <2>1, <2>2
<1>7. /\ \A k \in P : k \in Int /\ 1 <= k /\ k <= n
      /\ \A k \in Q : k \in Int /\ k <= n + m
      /\ \A k \in Int : k \in Q <=> k \in P \/ (n < k /\ k <= n + m)
  <2>1. \A k \in P : k \in 1..n
    BY <1>4
  <2>2. \A k \in P : k \in Int /\ 1 <= k /\ k <= n /\ k \in 1..(n + m)
    BY <1>1, <2>1
  <2>3. \A k \in Q : k \in Int /\ k <= n + m
    BY <1>1, <1>5
  <2>4. ASSUME NEW k \in Int
        PROVE  k \in Q <=> k \in P \/ (n < k /\ k <= n + m)
    <3>1. CASE k \in 1..(n + m)
      BY <1>1, <1>5, <1>6, <3>1
    <3>2. CASE k \notin 1..(n + m)
      BY <1>1, <1>5, <2>2, <3>2
    <3> QED BY <3>1, <3>2
  <2> QED BY <2>2, <2>3, <2>4
<1>8. Q \in SUBSET Int /\ IsFiniteSet(Q)
  BY <1>3, PlacesType DEF Q
<1>9. ASSUME NEW j \in 0..m
      PROVE  IsFiniteSet(P \cup New(j)) /\ Cardinality(P \cup New(j)) = c + j
  <2>1. n + 1 \in Int /\ n + j \in Int /\ j \in Nat
        /\ (IF n + 1 > n + j THEN 0 ELSE (n + j) - (n + 1) + 1) = j
    BY <1>1
  <2>2. IsFiniteSet(New(j)) /\ Cardinality(New(j)) = j
    BY <2>1, FS_Interval
  <2>3. P \cap New(j) = {}
    BY <1>1, <1>7
  <2> HIDE DEF New
  <2>4. Cardinality(P \cup New(j)) = c + j - Cardinality(P \cap New(j))
        /\ IsFiniteSet(P \cup New(j))
    BY <1>1, <2>2, FS_Union
  <2>5. Cardinality(P \cap New(j)) = 0
    BY <2>3, FS_EmptySet
  <2> HIDE DEF c
  <2> QED BY <1>1, <2>1, <2>4, <2>5
<1>10. ASSUME NEW k \in P
       PROVE  k \in Q /\ Rank(Q, k) = Rank(P, k)
  <2>1. k \in Int /\ k <= n
    BY <1>7
  <2>2. \A j \in Int : j \in Q /\ j <= k <=> j \in P /\ j <= k
    BY <1>1, <1>7, <2>1
  <2>3. {j \in Q : j <= k} = {j \in P : j <= k}
    BY <1>1, <1>8, <2>2
  <2> QED BY <1>7, <2>1, <2>3 DEF Rank
<1>11. ASSUME NEW j \in 0..m
       PROVE  Cardinality({k \in Q : k <= n + j}) = c + j
  <2>1. n + j \in Int /\ n <= n + j /\ n + j <= n + m
    BY <1>1
  <2>2. \A k \in Int : k \in Q /\ k <= n + j <=> k \in P \cup New(j)
    BY <1>1, <1>7, <2>1
  <2>3. \A k \in P \cup New(j) : k \in Int
    BY <1>1
  <2>4. {k \in Q : k <= n + j} = P \cup New(j)
    BY <1>8, <2>2, <2>3
  <2> QED BY <1>9, <2>4
<1>12. ASSUME NEW j \in 1..m
       PROVE  n + j \in Q /\ Rank(Q, n + j) = c + j
  <2>1. n + j \in Int /\ n < n + j /\ n + j <= n + m /\ j \in 0..m
    BY <1>1
  <2> QED BY <1>7, <1>11, <2>1 DEF Rank
<1>13. Cardinality(Q) = c + m
  <2>1. {k \in Q : k <= n + m} = Q /\ m \in 0..m
    BY <1>1, <1>7
  <2> QED BY <1>11, <2>1
<1>14. /\ UserMessages(w) \in Seq(Messages) /\ Len(UserMessages(w)) = c + m
       /\ UserMessages(h) \in Seq(Messages) /\ Len(UserMessages(h)) = c
  BY <1>3, <1>13, UserMessagesType DEF Q, P
<1> DEFINE u == UserMessages(h) \o ms
<1>15. /\ u \in Seq(Messages) /\ Len(u) = c + m
       /\ \A i \in 1..(c + m) : u[i] = IF i <= c THEN UserMessages(h)[i] ELSE ms[i - c]
  <2>1. /\ u \in Seq(Messages) /\ Len(u) = Len(UserMessages(h)) + Len(ms)
        /\ \A i \in 1..(Len(UserMessages(h)) + Len(ms)) :
              u[i] = IF i <= Len(UserMessages(h)) THEN UserMessages(h)[i]
                     ELSE ms[i - Len(UserMessages(h))]
    BY <1>14, ConcatProperties
  <2> HIDE DEF u, c
  <2> QED BY <1>14, <2>1 DEF m
<1> HIDE DEF u, c, New
<1>16. ASSUME NEW i \in 1..(c + m)
       PROVE  UserMessages(w)[i] = u[i]
  <2>1. CASE i <= c
    <3>1. i \in 1..c
      BY <1>1, <2>1
    <3>2. PICK k \in P : Rank(P, k) = i
      BY <1>1, <3>1, RankOnto DEF c
    <3>3. UserMessages(h)[i] = h[k].message
      BY <3>2, UserMessagesAt DEF P
    <3>4. k \in Q /\ Rank(Q, k) = i
      BY <1>10, <3>2
    <3>5. UserMessages(w)[i] = w[k].message
      BY <1>3, <3>4, UserMessagesAt DEF Q
    <3>6. w[k] = h[k]
      BY <1>1, <1>3, <1>7
    <3> QED BY <1>15, <2>1, <3>3, <3>5, <3>6
  <2>2. CASE ~(i <= c)
    <3>1. i - c \in 1..m /\ c + (i - c) = i
      BY <1>1, <2>2
    <3>2. n + (i - c) \in Q /\ Rank(Q, n + (i - c)) = i
      BY <1>12, <3>1
    <3>3. UserMessages(w)[i] = w[n + (i - c)].message
      BY <1>3, <3>2, UserMessagesAt DEF Q
    <3>4. w[n + (i - c)] = t[i - c]
      <4>1. PICK j \in 1..m : j = i - c
        BY <3>1
      <4>2. n + j \in 1..(n + m) /\ ~(n + j <= n) /\ (n + j) - n = j
        BY <1>1
      <4> QED BY <1>3, <4>1, <4>2
    <3> QED BY <1>2, <1>15, <2>2, <3>1, <3>3, <3>4
  <2> QED BY <2>1, <2>2
<1>17. UserMessages(w) = u
  <2>1. Len(UserMessages(w)) = Len(u) /\ \A i \in 1..Len(UserMessages(w)) : UserMessages(w)[i] = u[i]
    BY <1>14, <1>15, <1>16
  <2> QED BY <1>14, <1>15, <2>1, SeqEqual
<1> QED
  BY <1>17 DEF w, u, t

-----------------------------------------------------------------------------
(* The steps that begin no user turn.                                      *)
Quiet == \E t \in Seq(Entries) : NoUser(t) /\ history' = history \o t

(* A Step that appends nothing begins no user turn.                        *)
LEMMA NothingIsQuiet ==
  ASSUME AgentInv, UNCHANGED history
  PROVE  Quiet
<1>1. history \in Seq(Entries)
  BY HistoryFacts
<1>2. history' = history \o <<>> /\ <<>> \in Seq(Entries)
  BY <1>1, ConcatEmptySeq, EmptySeq
<1>3. NoUser(<<>>)
  BY DEF NoUser
<1> QED
  BY <1>2, <1>3 DEF Quiet

(* A reply, an answer or a result is no user turn.                         *)
LEMMA EntryIsQuiet ==
  ASSUME AgentInv, NEW e \in Entries, e.role # "user", history' = Append(history, e)
  PROVE  Quiet
<1>1. history \in Seq(Entries)
  BY HistoryFacts
<1>2. history' = history \o <<e>> /\ <<e>> \in Seq(Entries)
  BY <1>1, AppendIsConcat
<1>3. NoUser(<<e>>)
  BY DEF NoUser
<1> QED
  BY <1>2, <1>3 DEF Quiet

(* Nor does the result of a single call.                                   *)
LEMMA CallIsQuiet ==
  ASSUME AgentInv, AtCall, NEW a, NEW o \in Outcomes, FinishCurrentCall(a, o)
  PROVE  Quiet
<1> DEFINE e == ToolEntry(CurrentCall, o)
<1>1. TypeOK /\ CursorInv /\ Settled \in Nat
  BY HistoryFacts
<1>2. CurrentCall = Settled + 1
  BY <1>1, CallFacts
<1>3. e \in Entries /\ e.role # "user"
  BY <1>1, <1>2 DEF ToolEntry, Entries
<1>4. history' = Append(history, e)
  BY DEF FinishCurrentCall
<1> HIDE DEF e
<1> QED
  BY <1>3, <1>4, EntryIsQuiet

(* Nor do the results of the calls that steering interrupts.               *)
LEMMA InterruptedNoUser ==
  ASSUME NEW calls \in Seq(Nat)
  PROVE  NoUser(Interrupted(calls))
BY LenProperties DEF NoUser, Interrupted, ToolEntry

(* Nor do the results of a batch, recovered or not.                        *)
LEMMA BatchNoUser ==
  ASSUME NEW records \in Seq(Records)
  PROVE  NoUser(BatchEntries(records))
BY LenProperties DEF NoUser, BatchEntries, ToolEntry

(* So finishing a batch begins no user turn.                               *)
LEMMA BatchIsQuiet ==
  ASSUME NEW records \in Seq(Records), FinishBatch(records)
  PROVE  Quiet
BY BatchEntriesType, BatchNoUser DEF FinishBatch, Quiet

(* Nor does applying a model's reply.                                      *)
LEMMA ReplyIsQuiet ==
  ASSUME AgentInv, NEW a, NEW requests \in Seq(Requests), ApplyReply(a, requests)
  PROVE  Quiet
<1> DEFINE calls == [i \in 1..Len(requests) |-> Len(issued) + i]
<1>1. Len(requests) \in Nat /\ Len(issued) \in Nat
  BY LenProperties, HistoryFacts
<1>2. calls \in Seq(Nat)
  <2>1. \A i \in 1..Len(requests) : Len(issued) + i \in Nat
    BY <1>1
  <2> QED BY <1>1, <2>1
<1>3. history' = Append(history, AssistantEntry(calls))
  BY DEF ApplyReply
<1> HIDE DEF calls
<1>4. AssistantEntry(calls) \in Entries /\ AssistantEntry(calls).role # "user"
  BY <1>2 DEF AssistantEntry, Entries
<1> QED
  BY <1>3, <1>4, EntryIsQuiet

(* What such a step leaves of the user messages.                           *)
LEMMA QuietKeepsMessages ==
  ASSUME AgentInv, Quiet
  PROVE  UserMessages(history') = UserMessages(history)
BY HistoryFacts, NoUserAdds DEF Quiet

(* Every steered message begins a turn after all the others.               *)
LEMMA SteeredTakes ==
  ASSUME NEW ms \in Seq(Messages), NEW a, Remaining(a) \in Seq(Nat), NEW h \in Seq(Entries),
         UserMessages(h) = UserMessages(history), BeginSteeredTurn(ms, a, h)
  PROVE  UserMessages(history') = UserMessages(history) \o ms
<1> DEFINE t == Interrupted(Remaining(a))
           v == h \o t
<1>1. t \in Seq(Entries) /\ NoUser(t)
  BY InterruptedType, InterruptedNoUser
<1>2. history' = v \o UserEntries(ms)
  BY DEF BeginSteeredTurn
<1> HIDE DEF t
<1>3. v \in Seq(Entries) /\ UserMessages(v) = UserMessages(h)
  BY <1>1, ConcatProperties, NoUserAdds
<1> HIDE DEF v
<1> QED
  BY <1>2, <1>3, UsersAdd

(* The model replies, and nothing else.                                    *)
LEMMA ModelTurnIsQuiet ==
  ASSUME AgentInv, ModelTurn
  PROVE  Quiet
<1>1. CASE CallModel
  <2>1. PICK requests \in ModelReplies : ApplyReply(Status("calling_model"), requests)
    BY <1>1 DEF CallModel
  <2>2. requests \in Seq(Requests)
    BY ModelRepliesType
  <2> QED BY <2>1, <2>2, ReplyIsQuiet
<1>2. CASE ApplyResponse
  <2>1. reply.requests \in Seq(Requests)
    BY HistoryFacts DEF TypeOK, ReplyType
  <2> QED BY <1>2, <2>1, ReplyIsQuiet DEF ApplyResponse
<1>3. CASE CompactContext \/ BeforeModelCall \/ CallModelWithHooks \/ AfterModelCall
           \/ ApplyCompaction \/ ModelStepExhausted
  <2>1. UNCHANGED history
    BY <1>3 DEF CompactContext, BeforeModelCall, CallModelWithHooks, AfterModelCall,
       ApplyCompaction, ModelStepExhausted, conversation
  <2> QED BY <2>1, NothingIsQuiet
<1> QED
  BY <1>1, <1>2, <1>3 DEF ModelTurn

(* Two parts without a user turn have none.                                *)
LEMMA NoUserOfBoth ==
  ASSUME NEW s \in Seq(Entries), NEW t \in Seq(Entries), NoUser(s), NoUser(t)
  PROVE  NoUser(s \o t)
<1>1. PICK n \in Nat : n = Len(s)
  BY LenProperties
<1>2. PICK m \in Nat : m = Len(t)
  BY LenProperties
<1>3. /\ Len(s \o t) = n + m
      /\ \A i \in 1..(n + m) : (s \o t)[i] = IF i <= n THEN s[i] ELSE t[i - n]
  BY <1>1, <1>2, ConcatProperties
<1>4. /\ \A i \in 1..n : s[i].role # "user"
      /\ \A i \in 1..m : t[i].role # "user"
  BY <1>1, <1>2 DEF NoUser
<1>5. ASSUME NEW i \in 1..(n + m)
      PROVE  (s \o t)[i].role # "user"
  <2>1. CASE i <= n
    BY <1>3, <1>4, <2>1
  <2>2. CASE ~(i <= n)
    <3>1. i - n \in 1..m
      BY <2>2
    <3> QED BY <1>3, <1>4, <2>2, <3>1
  <2> QED BY <2>1, <2>2
<1> QED
  BY <1>3, <1>5 DEF NoUser

(* A refusal, a written plan and a question append results.                *)
LEMMA RoutedIsQuiet ==
  ASSUME AgentInv, Routed, ~CheckSteeredSteer
  PROVE  Quiet
<1>1. ASSUME step = "RouteTool" PROVE AtCall
  BY <1>1 DEF AtCall
<1>2. CASE CheckSteeredContinue \/ RouteDurableWait \/ RouteParallel \/ RouteSerial
  <2>1. UNCHANGED history
    BY <1>2 DEF CheckSteeredContinue, RouteDurableWait, RouteParallel, RouteSerial, conversation
  <2> QED BY <2>1, NothingIsQuiet
<1>3. CASE RouteRefused
  <2>1. step = "RouteTool" /\ "refused" \in Outcomes /\ \E a : FinishCurrentCall(a, "refused")
    BY <1>3 DEF RouteRefused, Outcomes
  <2> QED BY <1>1, <2>1, CallIsQuiet
<1>4. CASE RouteWriteTodos
  <2>1. step = "RouteTool" /\ "succeeded" \in Outcomes /\ \E a : FinishCurrentCall(a, "succeeded")
    BY <1>4 DEF RouteWriteTodos, Routes, Outcomes
  <2> QED BY <1>1, <2>1, CallIsQuiet
<1>5. CASE RouteRequestUserInput
  <2> DEFINE e == ToolEntry(CurrentCall, "succeeded")
             rest == Tail(Remaining(agent))
             t == <<e>> \o Interrupted(rest)
  <2>1. AtCall /\ HasCurrentCall
    BY <1>1, <1>5 DEF RouteRequestUserInput, Routes
  <2>2. TypeOK /\ CursorInv /\ Settled \in Nat /\ history \in Seq(Entries)
    BY HistoryFacts
  <2>3. CurrentCall = Settled + 1
    BY <2>1, <2>2, CallFacts
  <2>4. e \in Entries /\ e.role # "user"
    BY <2>2, <2>3 DEF ToolEntry, Entries, Outcomes
  <2>5. Remaining(agent) \in Seq(Nat) /\ Remaining(agent) # <<>>
    <3>1. /\ Remaining(agent) \in Seq(Nat) /\ Len(agent.calls) \in Nat /\ agent.index \in Nat
          /\ Len(Remaining(agent)) = Len(agent.calls) - agent.index
      BY HistoryFacts, RemainingFacts
    <3>2. Len(Remaining(agent)) # 0
      BY <2>1, <3>1 DEF HasCurrentCall
    <3> QED BY <3>1, <3>2, EmptySeq
  <2>6. rest \in Seq(Nat)
    BY <2>5, HeadTailProperties
  <2>7. Interrupted(rest) \in Seq(Entries) /\ NoUser(Interrupted(rest))
    <3> HIDE DEF rest
    <3> QED BY <2>6, InterruptedType, InterruptedNoUser
  <2>8. history' = Append(history, e) \o Interrupted(rest)
    BY <1>5 DEF RouteRequestUserInput
  <2> HIDE DEF e, rest
  <2>9. <<e>> \in Seq(Entries) /\ Append(history, e) = history \o <<e>>
    BY <2>2, <2>4, AppendIsConcat
  <2>10. history' = history \o t /\ t \in Seq(Entries)
    BY <2>2, <2>7, <2>8, <2>9, ConcatAssociative, ConcatProperties
  <2>11. NoUser(t)
    <3>1. NoUser(<<e>>)
      BY <2>4 DEF NoUser
    <3> QED BY <2>7, <2>9, <3>1, NoUserOfBoth
  <2> QED BY <2>10, <2>11 DEF Quiet
<1> QED
  BY <1>2, <1>3, <1>4, <1>5 DEF Routed

(* A rejection and a timer append a result.                                *)
LEMMA ToolWaitIsQuiet ==
  ASSUME AgentInv, ToolWait, ~AwaitToolApprovalSteered, ~DurableWaitSteered
  PROVE  Quiet
<1>1. AtCall
  BY DEF ToolWait, AwaitToolApprovalWaitFor, AwaitToolApprovalExecute, DurableWaitWaitFor,
     DurableWaitFires, AtCall, AtApproval, AtTimer
<1>2. CASE AwaitToolApprovalWaitFor \/ DurableWaitWaitFor
  <2>1. UNCHANGED history
    BY <1>2 DEF AwaitToolApprovalWaitFor, DurableWaitWaitFor
  <2> QED BY <2>1, NothingIsQuiet
<1>3. CASE AwaitToolApprovalExecute
  <2>1. UNCHANGED history \/ FinishCurrentCall(agent, "rejected")
    BY <1>3 DEF AwaitToolApprovalExecute
  <2>2. "rejected" \in Outcomes
    BY DEF Outcomes
  <2> QED BY <1>1, <2>1, <2>2, NothingIsQuiet, CallIsQuiet
<1>4. CASE DurableWaitFires
  <2>1. FinishCurrentCall(agent, "succeeded") /\ "succeeded" \in Outcomes
    BY <1>4 DEF DurableWaitFires, Outcomes
  <2> QED BY <1>1, <2>1, CallIsQuiet
<1> QED
  BY <1>2, <1>3, <1>4 DEF ToolWait

(* What ran appends its results.                                           *)
LEMMA ToolRunIsQuiet ==
  ASSUME AgentInv, ToolRun
  PROVE  Quiet
<1>1. CASE ExecuteToolReturns
  <2>1. AtCall
    BY <1>1 DEF ExecuteToolReturns, AtCall, AtRun
  <2>2. \/ UNCHANGED history
        \/ \E o \in {"succeeded", "failed"} : FinishCurrentCall(Status("executing_tool"), o)
    BY <1>1 DEF ExecuteToolReturns
  <2>3. {"succeeded", "failed"} \subseteq Outcomes
    BY DEF Outcomes
  <2> QED BY <2>1, <2>2, <2>3, NothingIsQuiet, CallIsQuiet
<1>2. CASE RecoverToolExecution
  <2>1. AtCall /\ FinishCurrentCall(agent, "unknown") /\ "unknown" \in Outcomes
    BY <1>2 DEF RecoverToolExecution, AtCall, AtRun, Outcomes
  <2> QED BY <2>1, CallIsQuiet
<1>3. CASE AwaitParallelToolResults
  <2>1. UNCHANGED history \/ FinishBatch(Joined)
    BY <1>3 DEF AwaitParallelToolResults
  <2>2. Joined \in Seq(Records)
    <3>1. step = "AwaitParallelToolResults" /\ TypeOK /\ CallInv /\ RecoveryInv /\ HasBatch
      BY <1>3, HistoryFacts DEF AwaitParallelToolResults, AgentInv, HasBatch
    <3> QED BY <1>3, <3>1, JoinedType, JoinedFacts DEF TypeOK, RecoveryInv
  <2> QED BY <2>1, <2>2, NothingIsQuiet, BatchIsQuiet
<1>4. CASE \/ ExecuteToolAttemptFails \/ PrepareManualToolRecovery
           \/ \E b \in branches : BranchReturns(b) \/ BranchAttemptFails(b) \/ BranchRecovers(b)
  <2>1. UNCHANGED history
    BY <1>4 DEF ExecuteToolAttemptFails, PrepareManualToolRecovery, BranchReturns,
       BranchAttemptFails, BranchRecovers, conversation
  <2> QED BY <2>1, NothingIsQuiet
<1> QED
  BY <1>1, <1>2, <1>3, <1>4 DEF ToolRun

(* A decision appends the results of the batch.                            *)
LEMMA RecoveryIsQuiet ==
  ASSUME AgentInv, Recovery, ~AwaitManualToolRecoverySteered
  PROVE  Quiet
<1>1. /\ HasBatch /\ history \in Seq(Entries) /\ batch.records \in Seq(Records)
  <2>1. step = "AwaitManualToolRecovery"
    BY DEF Recovery, AwaitManualToolRecoveryWaitFor, RecoveryStops, RecoveryResumes, IsResolving
  <2> QED BY <2>1, HistoryFacts DEF TypeOK, JoiningType, Batches, HasBatch
<1>2. CASE AwaitManualToolRecoveryWaitFor
  <2>1. UNCHANGED history
    BY <1>2 DEF AwaitManualToolRecoveryWaitFor
  <2> QED BY <2>1, NothingIsQuiet
<1>3. ASSUME NEW decision \in decisions, RecoveryStops(decision)
      PROVE  Quiet
  <2> DEFINE rest == SubSeq(agent.calls, agent.index + BatchSize + 1, Len(agent.calls))
             b == BatchEntries(batch.records)
             i == Interrupted(rest)
             t == b \o i
  <2>1. batch.first = agent.index
    BY <1>1, HistoryFacts, BatchFacts DEF AgentInv
  <2>2. history' = history \o b \o i
    BY <1>3, <2>1 DEF RecoveryStops
  <2>3. rest \in Seq(Nat)
    BY <1>1, BatchLeaves
  <2>4. b \in Seq(Entries) /\ NoUser(b)
    BY <1>1, BatchEntriesType, BatchNoUser
  <2>5. i \in Seq(Entries) /\ NoUser(i)
    <3> HIDE DEF rest
    <3> QED BY <2>3, InterruptedType, InterruptedNoUser
  <2> HIDE DEF b, i
  <2>6. history' = history \o t /\ t \in Seq(Entries)
    <3>1. history \in Seq(Entries) /\ b \in Seq(Entries) /\ i \in Seq(Entries)
      BY <1>1, <2>4, <2>5
    <3>2. (history \o b) \o i = history \o (b \o i)
      BY <3>1, ConcatAssociative
    <3>3. b \o i \in Seq(Entries)
      BY <3>1, ConcatProperties
    <3> QED BY <2>2, <3>2, <3>3
  <2>7. NoUser(t)
    BY <2>4, <2>5, NoUserOfBoth
  <2> QED BY <2>6, <2>7 DEF Quiet
<1>4. ASSUME NEW decision \in decisions, RecoveryResumes(decision)
      PROVE  Quiet
  <2>1. CASE Retried(decision) = {}
    <3>1. PICK records \in Seq(Records) : FinishBatch(records)
      BY <1>4, <2>1, ResumedBatch
    <3> QED BY <3>1, BatchIsQuiet
  <2>2. CASE Retried(decision) # {}
    <3>1. UNCHANGED history
      BY <1>4, <2>2 DEF RecoveryResumes
    <3> QED BY <3>1, NothingIsQuiet
  <2> QED BY <2>1, <2>2
<1> QED
  BY <1>2, <1>3, <1>4 DEF Recovery

-----------------------------------------------------------------------------
(* AwaitUser holds messages only between the wait and its Execute.         *)
SelectionInv ==
    selected.messages # <<>> =>
        step = "AwaitUser" /\ phase = "execute" /\ selected.kind \in {"steered", "queued"}

(* Every message that is somewhere was accepted.                           *)
DeliveryInv == SelectionInv /\ Delivery!Known \subseteq accepted

(* A step of MessageDelivery that accepts nothing.                         *)
Delivers ==
    /\ UNCHANGED accepted
    /\ \/ UNCHANGED Delivery!vars
       \/ \E i \in DOMAIN queued : Delivery!Delete(i) \/ Delivery!Steer(i)
       \/ Delivery!TakeQueued \/ Delivery!TakeSteered

(* The types of the state that MessageDelivery sees.                       *)
LEMMA DeliveryTypes ==
  ASSUME AgentInv
  PROVE  /\ queued \in Seq(Messages) /\ steered \in Seq(Messages)
         /\ selected.messages \in Seq(Messages) /\ history \in Seq(Entries)
         /\ UserMessages(history) \in Seq(Messages) /\ TakenMessages \in Seq(Messages)
<1>1. /\ queued \in Seq(Messages) /\ steered \in Seq(Messages)
      /\ selected.messages \in Seq(Messages) /\ history \in Seq(Entries)
  BY HistoryFacts DEF TypeOK, ChannelsType, AwaitingType, Selections
<1>2. UserMessages(history) \in Seq(Messages)
  BY <1>1, UserMessagesType
<1> QED
  BY <1>1, <1>2, ConcatProperties DEF TakenMessages

(* A Step that begins no user turn and leaves the messages alone stutters  *)
(* in MessageDelivery.                                                     *)
LEMMA QuietDelivers ==
  ASSUME AgentInv, Quiet, UNCHANGED <<queued, steered, deleted, accepted>>,
         selected'.messages = selected.messages
  PROVE  Delivers
<1>1. TakenMessages' = TakenMessages
  BY QuietKeepsMessages DEF TakenMessages
<1> QED
  BY <1>1 DEF Delivers, Delivery!vars

(* What the other Steps and the timers take of the steering channel.       *)
LEMMA SteeringDelivers ==
  ASSUME AgentInv, selected.messages = <<>>, UNCHANGED <<selected, queued, deleted, accepted>>,
         steered # <<>>, steered' = <<>>, UserMessages(history') = UserMessages(history) \o steered
  PROVE  Delivers
<1>1. UserMessages(history) \in Seq(Messages) /\ UserMessages(history) \o steered \in Seq(Messages)
  BY DeliveryTypes, ConcatProperties
<1>2. TakenMessages = UserMessages(history) /\ TakenMessages' = UserMessages(history')
  BY <1>1, ConcatEmptySeq DEF TakenMessages
<1>3. Delivery!TakeSteered
  BY <1>2 DEF Delivery!TakeSteered
<1> QED
  BY <1>3 DEF Delivers

(* The steps away from AwaitUser.                                          *)
Away == ModelTurn \/ Routed \/ ToolWait \/ ToolRun \/ Recovery
TakesSteering ==
    \/ CheckSteeredSteer \/ AwaitToolApprovalSteered \/ DurableWaitSteered
    \/ AwaitManualToolRecoverySteered

(* Away from AwaitUser only steering takes messages, and no Step queues,   *)
(* deletes or selects one.                                                 *)
LEMMA AwayKeeps ==
  ASSUME AgentInv, Away
  PROVE  /\ step # "AwaitUser" /\ UNCHANGED <<selected, queued, deleted, accepted>>
         /\ ~TakesSteering => UNCHANGED steered
<1> USE DEF awaiting, messageChannels, books, TakesSteering
<1>1. CASE ModelTurn
  BY <1>1 DEF ModelTurn, CallModel, CompactContext, BeforeModelCall, CallModelWithHooks,
     AfterModelCall, ApplyResponse, ApplyCompaction, ModelStepExhausted, ModelSteps
<1>2. CASE Routed
  BY <1>2 DEF Routed, CheckSteeredSteer, CheckSteeredContinue, RouteRefused, Routes,
     RouteWriteTodos, RouteDurableWait, RouteRequestUserInput, RouteParallel, RouteSerial
<1>3. CASE ToolWait
  BY <1>3 DEF ToolWait, AwaitToolApprovalWaitFor, AwaitToolApprovalSteered,
     AwaitToolApprovalExecute, DurableWaitWaitFor, DurableWaitSteered, DurableWaitFires,
     SteerWaiting
<1>4. CASE ToolRun
  <2>1. \A b \in branches : step = "AwaitParallelToolResults"
    BY DEF AgentInv, CallInv, BatchInv
  <2> QED BY <1>4, <2>1 DEF ToolRun, ExecuteToolReturns, ExecuteToolAttemptFails,
          RecoverToolExecution, PrepareManualToolRecovery, AwaitParallelToolResults,
          BranchReturns, BranchAttemptFails, BranchRecovers
<1>5. CASE Recovery
  BY <1>5 DEF Recovery, AwaitManualToolRecoveryWaitFor, AwaitManualToolRecoverySteered,
     SteerWaiting, RecoveryStops, RecoveryResumes, IsResolving
<1> QED
  BY <1>1, <1>2, <1>3, <1>4, <1>5 DEF Away

(* Away from AwaitUser a Step stutters in MessageDelivery, or takes the    *)
(* steered messages.                                                       *)
LEMMA AwayDelivers ==
  ASSUME AgentInv, SelectionInv, Away
  PROVE  Delivers /\ SelectionInv'
<1>1. /\ step # "AwaitUser" /\ UNCHANGED <<selected, queued, deleted, accepted>>
      /\ ~TakesSteering => UNCHANGED steered
  BY AwayKeeps
<1>2. selected.messages = <<>>
  BY <1>1 DEF SelectionInv
<1>3. SelectionInv'
  BY <1>1, <1>2 DEF SelectionInv
<1>4. CASE ~TakesSteering
  <2>1. Quiet
    BY <1>4, ModelTurnIsQuiet, RoutedIsQuiet, ToolWaitIsQuiet, ToolRunIsQuiet, RecoveryIsQuiet
       DEF Away, TakesSteering
  <2>2. UNCHANGED steered
    BY <1>1, <1>4
  <2> QED BY <1>1, <1>3, <2>1, <2>2, QuietDelivers
<1>5. /\ agent \in AgentStates /\ history \in Seq(Entries) /\ steered \in Seq(Messages)
      /\ Remaining(agent) \in Seq(Nat)
  BY HistoryFacts, DeliveryTypes, RemainingFacts
<1>6. ASSUME NEW a, Remaining(a) \in Seq(Nat), NEW h \in Seq(Entries),
             UserMessages(h) = UserMessages(history), BeginSteeredTurn(steered, a, h),
             steered # <<>>, steered' = <<>>
      PROVE  Delivers
  BY <1>1, <1>2, <1>5, <1>6, SteeredTakes, SteeringDelivers
<1>7. CASE CheckSteeredSteer
  BY <1>3, <1>5, <1>6, <1>7 DEF CheckSteeredSteer
<1>8. CASE AwaitToolApprovalSteered
  BY <1>3, <1>5, <1>6, <1>8 DEF AwaitToolApprovalSteered, SteerWaiting
<1>9. CASE DurableWaitSteered
  <2> DEFINE a == WithCallsCleared(agent)
             t == Interrupted(Remaining(agent))
             h == history \o t
  <2>1. BeginSteeredTurn(steered, a, h) /\ steered # <<>> /\ steered' = <<>>
    BY <1>9 DEF DurableWaitSteered, SteerWaiting
  <2>2. Remaining(a) \in Seq(Nat)
    <3>1. a \in AgentStates
      BY <1>5, WithCallsClearedType
    <3> QED BY <3>1, RemainingType DEF WithCallsCleared, AgentStates
  <2>3. t \in Seq(Entries) /\ NoUser(t)
    BY <1>5, InterruptedType, InterruptedNoUser
  <2> HIDE DEF a, t
  <2>4. h \in Seq(Entries) /\ UserMessages(h) = UserMessages(history)
    BY <1>5, <2>3, ConcatProperties, NoUserAdds
  <2> QED BY <1>3, <1>6, <2>1, <2>2, <2>4
<1>10. CASE AwaitManualToolRecoverySteered
  <2> DEFINE a == [agent EXCEPT !.index = batch.first + BatchSize]
             t == BatchEntries(batch.records)
             h == history \o t
  <2>1. /\ BeginSteeredTurn(steered, a, h) /\ steered # <<>> /\ steered' = <<>>
        /\ step = "AwaitManualToolRecovery"
    BY <1>10 DEF AwaitManualToolRecoverySteered, SteerWaiting
  <2>2. /\ TypeOK /\ CallInv /\ HasBatch /\ batch.records \in Seq(Records)
    BY <2>1, HistoryFacts DEF HasBatch, TypeOK, JoiningType, Batches
  <2>3. batch.first = agent.index /\ agent.index + BatchSize \in Nat
    BY <1>5, <2>2, BatchFacts DEF AgentStates
  <2>4. a.index = agent.index + BatchSize /\ a.calls = agent.calls
    BY <1>5, <2>3 DEF AgentStates
  <2>5. t \in Seq(Entries) /\ NoUser(t)
    BY <2>2, BatchEntriesType, BatchNoUser
  <2> HIDE DEF a, t
  <2>6. Remaining(a) = SubSeq(agent.calls, agent.index + BatchSize + 1, Len(agent.calls))
    BY <2>4 DEF Remaining
  <2>7. Remaining(a) \in Seq(Nat)
    BY <2>2, <2>6, BatchLeaves
  <2>8. h \in Seq(Entries) /\ UserMessages(h) = UserMessages(history)
    BY <1>5, <2>5, ConcatProperties, NoUserAdds
  <2> QED BY <1>3, <1>6, <2>1, <2>7, <2>8
<1> QED
  BY <1>4, <1>7, <1>8, <1>9, <1>10 DEF TakesSteering

(* What AwaitUser consumes is taken, and stays so when its Execute begins. *)
LEMMA UserBoundaryDelivers ==
  ASSUME AgentInv, SelectionInv, UserBoundary
  PROVE  Delivers /\ SelectionInv'
<1> USE DEF movement, awaiting, conversation, messageChannels, otherChannels, books
<1>1. /\ queued \in Seq(Messages) /\ steered \in Seq(Messages)
      /\ selected.messages \in Seq(Messages) /\ history \in Seq(Entries)
      /\ UserMessages(history) \in Seq(Messages) /\ agent \in AgentStates
      /\ Remaining(agent) \in Seq(Nat) /\ selected.ref \in Nat
  BY DeliveryTypes, HistoryFacts, RemainingFacts DEF TypeOK, AwaitingType, Selections
<1>2. UNCHANGED <<deleted, accepted>>
  BY DEF UserBoundary, InitExecute, AwaitUserWaitFor, SelectAnswer, SelectSteered, SelectQueued,
     SelectPlan, Select, AwaitUserExecuteAnswer, AwaitUserExecuteSteered,
     AwaitUserExecuteQueued, AwaitUserExecutePlan, AnsweredInput
<1>3. ASSUME Quiet, UNCHANGED <<queued, steered>>, selected.messages = <<>>,
             selected'.messages = <<>>
      PROVE  Delivers /\ SelectionInv'
  BY <1>2, <1>3, QuietDelivers DEF SelectionInv
<1>4. Nothing.messages = <<>>
  BY DEF Nothing
<1>5. CASE InitExecute \/ AwaitUserWaitFor \/ AnsweredInput
  <2>1. UNCHANGED <<history, queued, steered, selected>>
    BY <1>5 DEF InitExecute, AwaitUserWaitFor, AnsweredInput
  <2>2. selected.messages = <<>>
    BY <1>5 DEF InitExecute, AwaitUserWaitFor, AnsweredInput, SelectionInv
  <2> QED BY <1>3, <2>1, <2>2, NothingIsQuiet
<1>6. CASE SelectAnswer \/ SelectPlan
  <2>1. UNCHANGED <<history, queued, steered>> /\ selected'.messages = <<>>
    BY <1>6 DEF SelectAnswer, SelectPlan, Select
  <2>2. selected.messages = <<>>
    BY <1>6 DEF SelectAnswer, SelectPlan, IsSelecting, SelectionInv
  <2> QED BY <1>3, <2>1, <2>2, NothingIsQuiet
<1>7. ASSUME NEW ms \in Seq(Messages), UNCHANGED history, IsSelecting, selected'.messages = ms
      PROVE  TakenMessages' = TakenMessages \o ms
  <2>1. selected.messages = <<>>
    BY <1>7 DEF IsSelecting, SelectionInv
  <2> QED BY <1>1, <1>7, <2>1, ConcatEmptySeq DEF TakenMessages
<1>8. CASE SelectSteered
  <2>1. /\ UNCHANGED <<history, queued>> /\ IsSelecting /\ steered # <<>> /\ steered' = <<>>
        /\ selected'.messages = steered
    BY <1>8 DEF SelectSteered, Select
  <2>2. Delivery!TakeSteered
    BY <1>1, <1>2, <1>7, <2>1 DEF Delivery!TakeSteered
  <2>3. SelectionInv'
    BY <1>8 DEF SelectSteered, Select, IsSelecting, SelectionInv
  <2> QED BY <1>2, <2>2, <2>3 DEF Delivers
<1>9. CASE SelectQueued
  <2>1. /\ UNCHANGED <<history, steered>> /\ IsSelecting /\ queued # <<>>
        /\ queued' = Tail(queued) /\ selected'.messages = <<Head(queued)>>
    BY <1>9 DEF SelectQueued, Select
  <2>2. Head(queued) \in Messages /\ <<Head(queued)>> \in Seq(Messages)
    BY <1>1, <2>1, HeadTailProperties
  <2>3. TakenMessages' = Append(TakenMessages, Head(queued))
    BY <1>7, <2>1, <2>2, DeliveryTypes, AppendIsConcat
  <2>4. Delivery!TakeQueued
    BY <1>2, <2>1, <2>3 DEF Delivery!TakeQueued
  <2>5. SelectionInv'
    BY <1>9 DEF SelectQueued, Select, IsSelecting, SelectionInv
  <2> QED BY <1>2, <2>4, <2>5 DEF Delivers
<1>10. CASE AwaitUserExecuteAnswer
  <2>1. /\ history' = Append(history, AnswerEntry(selected.ref)) /\ selected' = Nothing
        /\ UNCHANGED <<queued, steered>> /\ selected.messages = <<>>
    BY <1>10 DEF AwaitUserExecuteAnswer, IsBeginning, SelectionInv
  <2>2. AnswerEntry(selected.ref) \in Entries /\ AnswerEntry(selected.ref).role # "user"
    BY <1>1 DEF AnswerEntry, Entries
  <2> QED BY <1>3, <1>4, <2>1, <2>2, EntryIsQuiet
<1>11. CASE AwaitUserExecutePlan
  <2>1. /\ UNCHANGED <<history, queued, steered>> /\ selected' = Nothing
        /\ selected.messages = <<>>
    BY <1>11 DEF AwaitUserExecutePlan, IsBeginning, SelectionInv
  <2> QED BY <1>3, <1>4, <2>1, NothingIsQuiet
<1>12. ASSUME UserMessages(history') = UserMessages(history) \o selected.messages,
              selected' = Nothing, UNCHANGED <<queued, steered>>
       PROVE  Delivers /\ SelectionInv'
  <2>1. TakenMessages' = TakenMessages
    <3>1. TakenMessages \in Seq(Messages)
      BY DeliveryTypes
    <3>2. TakenMessages' = TakenMessages \o <<>>
      BY <1>4, <1>12 DEF TakenMessages
    <3> QED BY <3>1, <3>2, ConcatEmptySeq
  <2>2. SelectionInv'
    BY <1>4, <1>12 DEF SelectionInv
  <2> QED BY <1>2, <1>12, <2>1, <2>2 DEF Delivers, Delivery!vars
<1>13. CASE AwaitUserExecuteSteered
  <2>1. /\ BeginSteeredTurn(selected.messages, agent, history) /\ selected' = Nothing
        /\ UNCHANGED <<queued, steered>>
    BY <1>13 DEF AwaitUserExecuteSteered
  <2> QED BY <1>1, <1>12, <2>1, SteeredTakes
<1>14. CASE AwaitUserExecuteQueued
  <2>1. /\ history' = history \o UserEntries(selected.messages) /\ selected' = Nothing
        /\ UNCHANGED <<queued, steered>>
    BY <1>14 DEF AwaitUserExecuteQueued
  <2> QED BY <1>1, <1>12, <2>1, UsersAdd
<1> QED
  BY <1>5, <1>6, <1>8, <1>9, <1>10, <1>11, <1>13, <1>14 DEF UserBoundary

(* The commands accept, delete and steer.                                  *)
LEMMA UserCommandDelivers ==
  ASSUME AgentInv, DeliveryInv, UserCommand
  PROVE  /\ SelectionInv'
         /\ \/ Delivers
            \/ \E m \in Messages : Delivery!Accept(m) /\ accepted' = accepted \cup {m}
<1> USE DEF movement, awaiting, conversation, messageChannels, books
<1>1. UNCHANGED <<step, phase, selected, history>>
  BY DEF UserCommand, SendMessage, DeleteQueuedMessage, SteerMessage, AnswerQuestions,
     ApproveTool, ResolveToolRecovery, ExecutePlan
<1>2. SelectionInv' /\ TakenMessages' = TakenMessages
  BY <1>1 DEF DeliveryInv, SelectionInv, TakenMessages
<1>3. DOMAIN queued = 1..Len(queued)
  BY DeliveryTypes, LenProperties
<1>4. ASSUME NEW m \in Messages, SendMessage(m)
      PROVE  Delivery!Accept(m) /\ accepted' = accepted \cup {m}
  BY <1>2, <1>4 DEF SendMessage, DeliveryInv, Delivery!Accept
<1>5. ASSUME NEW i \in 1..Len(queued), DeleteQueuedMessage(i)
      PROVE  Delivers
  <2>1. Delivery!Delete(i) /\ UNCHANGED accepted
    BY <1>2, <1>5 DEF DeleteQueuedMessage, Delivery!Delete, RemoveAt, Delivery!RemoveAt
  <2> QED BY <1>3, <2>1 DEF Delivers
<1>6. ASSUME NEW i \in 1..Len(queued), SteerMessage(i)
      PROVE  Delivers
  <2>1. Delivery!Steer(i) /\ UNCHANGED accepted
    BY <1>2, <1>6 DEF SteerMessage, Delivery!Steer, RemoveAt, Delivery!RemoveAt
  <2> QED BY <1>3, <2>1 DEF Delivers
<1>7. ASSUME \/ AnswerQuestions
             \/ \E isApproved \in BOOLEAN : ApproveTool(isApproved)
             \/ \E isStop \in BOOLEAN : \E retried \in SUBSET pendingRecovery.calls :
                   ResolveToolRecovery(isStop, retried)
             \/ ExecutePlan
      PROVE  Delivers
  <2>1. UNCHANGED <<queued, steered, deleted, accepted>>
    BY <1>7 DEF AnswerQuestions, ApproveTool, ResolveToolRecovery, ExecutePlan
  <2> QED BY <1>2, <2>1 DEF Delivers, Delivery!vars
<1> QED
  BY <1>2, <1>4, <1>5, <1>6, <1>7 DEF UserCommand

(* Elements of a sequence.                                                 *)
LEMMA SetOfConcat ==
  ASSUME NEW s \in Seq(Messages), NEW t \in Seq(Messages)
  PROVE  ToSet(s \o t) \subseteq ToSet(s) \cup ToSet(t)
<1>1. PICK n \in Nat : n = Len(s)
  BY LenProperties
<1>2. PICK m \in Nat : m = Len(t)
  BY LenProperties
<1>3. /\ DOMAIN (s \o t) = 1..(n + m) /\ DOMAIN s = 1..n /\ DOMAIN t = 1..m
      /\ \A i \in 1..(n + m) : (s \o t)[i] = IF i <= n THEN s[i] ELSE t[i - n]
  BY <1>1, <1>2, ConcatProperties, LenProperties
<1>4. ASSUME NEW i \in 1..(n + m)
      PROVE  (s \o t)[i] \in ToSet(s) \cup ToSet(t)
  <2>1. CASE i <= n
    <3>1. i \in 1..n /\ (s \o t)[i] = s[i]
      BY <1>3, <2>1
    <3> QED BY <1>3, <3>1 DEF ToSet
  <2>2. CASE ~(i <= n)
    <3>1. i - n \in 1..m /\ (s \o t)[i] = t[i - n]
      BY <1>3, <2>2
    <3> QED BY <1>3, <3>1 DEF ToSet
  <2> QED BY <2>1, <2>2
<1> QED
  BY <1>3, <1>4 DEF ToSet

(* A subsequence holds no other messages.                                  *)
LEMMA SetOfSubSeq ==
  ASSUME NEW s \in Seq(Messages), NEW m \in Nat, NEW n \in Nat, 1 <= m, n <= Len(s)
  PROVE  SubSeq(s, m, n) \in Seq(Messages) /\ ToSet(SubSeq(s, m, n)) \subseteq ToSet(s)
<1> DEFINE t == SubSeq(s, m, n)
           k == IF m <= n THEN n - m + 1 ELSE 0
<1>1. PICK l \in Nat : l = Len(s)
  BY LenProperties
<1>2. DOMAIN s = 1..l /\ \A i \in m..n : i \in 1..l /\ s[i] \in Messages
  <2>1. \A i \in m..n : i \in 1..l
    BY <1>1
  <2> QED BY <1>1, <2>1, LenProperties, ElementOfSeq
<1>3. /\ t \in Seq(Messages) /\ Len(t) = k
      /\ \A i \in 1..(n - m + 1) : t[i] = s[m + i - 1]
  BY <1>2, SubSeqProperties
<1>4. DOMAIN t = 1..k
  BY <1>3, LenProperties
<1> HIDE DEF t
<1>5. ASSUME NEW i \in 1..k
      PROVE  t[i] \in ToSet(s)
  <2>1. i \in 1..(n - m + 1) /\ m + i - 1 \in m..n
    OBVIOUS
  <2>2. t[i] = s[m + i - 1] /\ m + i - 1 \in 1..l
    BY <1>2, <1>3, <2>1
  <2> QED BY <1>2, <2>2 DEF ToSet
<1>6. ToSet(t) \subseteq ToSet(s)
  <2> HIDE DEF k
  <2>1. \A x \in ToSet(t) : \E i \in 1..k : x = t[i]
    BY <1>4 DEF ToSet
  <2> QED BY <1>5, <2>1
<1> QED
  BY <1>3, <1>6 DEF t

(* Removing a message adds none.                                           *)
LEMMA SetOfRemoveAt ==
  ASSUME NEW s \in Seq(Messages), NEW i \in 1..Len(s)
  PROVE  ToSet(RemoveAt(s, i)) \subseteq ToSet(s) /\ s[i] \in ToSet(s)
<1>1. PICK l \in Nat : l = Len(s)
  BY LenProperties
<1>2. i \in 1..l /\ DOMAIN s = 1..l
  BY <1>1, LenProperties
<1>3. /\ i - 1 \in Nat /\ i - 1 <= Len(s) /\ i + 1 \in Nat /\ 1 <= i + 1
      /\ Len(s) \in Nat /\ 1 \in Nat
  BY <1>1, <1>2
<1>4. /\ SubSeq(s, 1, i - 1) \in Seq(Messages) /\ ToSet(SubSeq(s, 1, i - 1)) \subseteq ToSet(s)
  BY <1>3, SetOfSubSeq
<1>5. /\ SubSeq(s, i + 1, Len(s)) \in Seq(Messages)
      /\ ToSet(SubSeq(s, i + 1, Len(s))) \subseteq ToSet(s)
  BY <1>3, SetOfSubSeq
<1>6. ToSet(RemoveAt(s, i)) \subseteq ToSet(s)
  <2> DEFINE a == SubSeq(s, 1, i - 1)
             b == SubSeq(s, i + 1, Len(s))
  <2>1. RemoveAt(s, i) = a \o b
    BY DEF RemoveAt
  <2>2. a \in Seq(Messages) /\ b \in Seq(Messages) /\ ToSet(a) \cup ToSet(b) \subseteq ToSet(s)
    BY <1>4, <1>5
  <2> HIDE DEF a, b
  <2>3. ToSet(a \o b) \subseteq ToSet(a) \cup ToSet(b)
    BY <2>2, SetOfConcat
  <2> QED BY <2>1, <2>2, <2>3
<1>7. s[i] \in ToSet(s)
  BY <1>2 DEF ToSet
<1> QED
  BY <1>6, <1>7

(* Appending a message adds that one only.                                 *)
LEMMA SetOfAppend ==
  ASSUME NEW s \in Seq(Messages), NEW m \in Messages
  PROVE  ToSet(Append(s, m)) \subseteq ToSet(s) \cup {m}
<1>1. Append(s, m) = s \o <<m>> /\ <<m>> \in Seq(Messages)
  BY AppendIsConcat
<1>2. ToSet(<<m>>) \subseteq {m}
  BY DEF ToSet
<1> QED
  BY <1>1, <1>2, SetOfConcat

(* The head and the rest of a sequence are its messages.                   *)
LEMMA SetOfTail ==
  ASSUME NEW s \in Seq(Messages), s # <<>>
  PROVE  Head(s) \in Messages /\ ToSet(Tail(s)) \cup {Head(s)} \subseteq ToSet(s)
<1>1. PICK l \in Nat : l = Len(s) /\ l # 0
  BY LenProperties, EmptySeq
<1>2. DOMAIN s = 1..l /\ Head(s) = s[1] /\ 1 \in 1..l
  BY <1>1, LenProperties
<1>3. Head(s) \in ToSet(s)
  BY <1>2 DEF ToSet
<1>4. /\ Head(s) \in Messages /\ Tail(s) \in Seq(Messages) /\ Len(Tail(s)) = l - 1
      /\ \A i \in 1..Len(Tail(s)) : Tail(s)[i] = s[i + 1]
  BY <1>1, HeadTailProperties
<1>5. DOMAIN Tail(s) = 1..(l - 1)
  BY <1>4, LenProperties
<1>6. ASSUME NEW i \in 1..(l - 1)
      PROVE  Tail(s)[i] \in ToSet(s)
  <2>1. i + 1 \in 1..l
    BY <1>1
  <2> QED BY <1>2, <1>4, <2>1 DEF ToSet
<1>7. ToSet(Tail(s)) \subseteq ToSet(s)
  <2>1. \A x \in ToSet(Tail(s)) : \E i \in 1..(l - 1) : x = Tail(s)[i]
    BY <1>5 DEF ToSet
  <2> QED BY <1>6, <2>1
<1> QED
  BY <1>3, <1>4, <1>7

(* What no command accepts was known before.                               *)
LEMMA DeliversKeepsKnown ==
  ASSUME AgentInv, Delivers
  PROVE  Delivery!Known' \subseteq Delivery!Known
<1> DEFINE Everywhere == ToSet(queued) \cup ToSet(steered) \cup ToSet(TakenMessages) \cup deleted
<1>1. Delivery!Known = Everywhere
  BY DEF Delivery!Known, Delivery!ToSet, ToSet
<1>2. Delivery!Known' = Everywhere'
  BY DEF Delivery!Known, Delivery!ToSet, ToSet
<1>3. queued \in Seq(Messages) /\ steered \in Seq(Messages) /\ TakenMessages \in Seq(Messages)
  BY DeliveryTypes
<1>4. CASE UNCHANGED Delivery!vars
  BY <1>1, <1>2, <1>4 DEF Delivery!vars
<1>5. ASSUME NEW i \in DOMAIN queued, Delivery!Delete(i) \/ Delivery!Steer(i)
      PROVE  Everywhere' \subseteq Everywhere
  <2>1. ToSet(RemoveAt(queued, i)) \subseteq ToSet(queued) /\ queued[i] \in ToSet(queued)
        /\ queued[i] \in Messages
    <3>1. i \in 1..Len(queued)
      BY <1>3, LenProperties
    <3> QED BY <1>3, <3>1, SetOfRemoveAt, ElementOfSeq
  <2>2. queued' = RemoveAt(queued, i)
    BY <1>5 DEF Delivery!Delete, Delivery!Steer, RemoveAt, Delivery!RemoveAt
  <2>3. ToSet(queued') \subseteq ToSet(queued)
    BY <2>1, <2>2
  <2>4. CASE Delivery!Delete(i)
    BY <2>1, <2>3, <2>4 DEF Delivery!Delete
  <2>5. CASE Delivery!Steer(i)
    <3>1. ToSet(steered') \subseteq ToSet(steered) \cup {queued[i]}
      BY <1>3, <2>1, <2>5, SetOfAppend DEF Delivery!Steer
    <3> QED BY <2>1, <2>3, <2>5, <3>1 DEF Delivery!Steer
  <2> QED BY <1>5, <2>4, <2>5
<1>6. CASE Delivery!TakeQueued
  <2>1. /\ queued # <<>> /\ queued' = Tail(queued) /\ UNCHANGED <<steered, deleted>>
        /\ TakenMessages' = Append(TakenMessages, Head(queued))
    BY <1>6 DEF Delivery!TakeQueued
  <2>2. Head(queued) \in Messages /\ ToSet(Tail(queued)) \cup {Head(queued)} \subseteq ToSet(queued)
    BY <1>3, <2>1, SetOfTail
  <2>3. ToSet(TakenMessages') \subseteq ToSet(TakenMessages) \cup {Head(queued)}
    BY <1>3, <2>1, <2>2, SetOfAppend
  <2> QED BY <1>1, <1>2, <2>1, <2>2, <2>3
<1>7. CASE Delivery!TakeSteered
  <2>1. /\ steered' = <<>> /\ UNCHANGED <<queued, deleted>>
        /\ TakenMessages' = TakenMessages \o steered
    BY <1>7 DEF Delivery!TakeSteered
  <2>2. ToSet(TakenMessages') \subseteq ToSet(TakenMessages) \cup ToSet(steered)
    BY <1>3, <2>1, SetOfConcat
  <2>3. ToSet(steered') \subseteq ToSet(steered)
    BY <2>1 DEF ToSet
  <2> QED BY <1>1, <1>2, <2>1, <2>2, <2>3
<1> QED
  BY <1>1, <1>2, <1>4, <1>5, <1>6, <1>7 DEF Delivers

(* An agent starts with no message.                                        *)
LEMMA InitDelivery == Init => Delivery!Init /\ DeliveryInv
<1> SUFFICES ASSUME Init
             PROVE  Delivery!Init /\ DeliveryInv
  OBVIOUS
<1>1. /\ queued = <<>> /\ steered = <<>> /\ selected.messages = <<>> /\ history = <<>>
      /\ deleted = {}
  BY DEF Init, Nothing
<1>2. UserMessages(<<>>) = <<>>
  <2>1. <<>> \in Seq(Entries) /\ Len(<<>>) = 0
    BY EmptySeq
  <2>2. UserPlaces(<<>>) = {}
    BY <2>1 DEF UserPlaces
  <2>3. /\ UserMessages(<<>>) \in Seq(Messages)
        /\ Len(UserMessages(<<>>)) = Cardinality(UserPlaces(<<>>))
    BY <2>1, UserMessagesType
  <2>4. Len(UserMessages(<<>>)) = 0
    BY <2>2, <2>3, FS_EmptySet
  <2> QED BY <2>3, <2>4, EmptySeq
<1>3. TakenMessages = <<>>
  BY <1>1, <1>2, ConcatEmptySeq, EmptySeq DEF TakenMessages
<1>4. Delivery!Known = {}
  BY <1>1, <1>3 DEF Delivery!Known, Delivery!ToSet
<1> QED
  BY <1>1, <1>3, <1>4 DEF Delivery!Init, DeliveryInv, SelectionInv

(* Every step of the flow is a step of MessageDelivery, or none.           *)
LEMMA StepDelivery ==
  ASSUME AgentInv, DeliveryInv, [Next]_vars
  PROVE  [Delivery!Next]_(Delivery!vars) /\ DeliveryInv'
<1>1. CASE UNCHANGED vars
  <2>1. UNCHANGED <<queued, steered, selected, history, deleted, accepted, step, phase>>
    BY <1>1 DEF vars, movement, awaiting, conversation, messageChannels, books
  <2>2. UNCHANGED Delivery!vars /\ SelectionInv' /\ TakenMessages' = TakenMessages
    BY <2>1 DEF Delivery!vars, TakenMessages, DeliveryInv, SelectionInv
  <2>3. Delivery!Known' = Delivery!Known
    BY <2>1, <2>2 DEF Delivery!Known, Delivery!ToSet
  <2> QED BY <2>1, <2>2, <2>3 DEF DeliveryInv
<1>2. ASSUME Delivers, SelectionInv'
      PROVE  [Delivery!Next]_(Delivery!vars) /\ DeliveryInv'
  <2>1. DeliveryInv'
    <3>1. UNCHANGED accepted
      BY <1>2 DEF Delivers
    <3>2. Delivery!Known' \subseteq Delivery!Known
      BY <1>2, DeliversKeepsKnown
    <3> QED BY <1>2, <3>1, <3>2 DEF DeliveryInv
  <2> QED BY <1>2, <2>1 DEF Delivers, Delivery!Next
<1>3. ASSUME NEW m \in Messages, Delivery!Accept(m), accepted' = accepted \cup {m}, SelectionInv'
      PROVE  [Delivery!Next]_(Delivery!vars) /\ DeliveryInv'
  <2>1. queued \in Seq(Messages) /\ queued' = Append(queued, m)
        /\ UNCHANGED <<steered, TakenMessages, deleted>>
    BY <1>3, DeliveryTypes DEF Delivery!Accept
  <2>2. ToSet(queued') \subseteq ToSet(queued) \cup {m}
    BY <2>1, SetOfAppend
  <2>3. Delivery!Known' \subseteq Delivery!Known \cup {m}
    BY <2>1, <2>2 DEF Delivery!Known, Delivery!ToSet, ToSet
  <2> QED BY <1>3, <2>3 DEF DeliveryInv, Delivery!Next
<1>4. CASE Next
  BY <1>2, <1>3, <1>4, UserCommandDelivers, UserBoundaryDelivers, AwayDelivers
     DEF Next, Worker, Away, DeliveryInv
<1> QED
  BY <1>1, <1>4

(* AgentFlow implements MessageDelivery: whatever Step, recovery or timer  *)
(* takes them (flow.go:357, 3052), accepted messages become user turns     *)
(* once each and in the order of their channels.                           *)
THEOREM MessagesAreDelivered == Spec => DeliversMessages
<1>1. Init => Delivery!Init /\ AgentInv /\ DeliveryInv
  BY InitAgentInv, InitDelivery
<1>2. AgentInv /\ DeliveryInv /\ [Next]_vars => (AgentInv /\ DeliveryInv)'
  BY StepAgentInv, StepDelivery
<1>3. AgentInv /\ DeliveryInv /\ [Next]_vars => [Delivery!Next]_(Delivery!vars)
  BY StepDelivery
<1> QED
  BY <1>1, <1>2, <1>3, PTL DEF Spec, DeliversMessages, Delivery!Spec

-----------------------------------------------------------------------------
(* What CallModel sends: the loops of the composition and of the adapters, *)
(* one message or one part at a time.                                      *)

(* The messages of a request, their parts, and the turns of a translation. *)
RequestMessages ==
    [role : {"system", "user"}, calls : {<<>>}] \cup
    [role : {"assistant"}, calls : Seq(Nat)] \cup
    [role : {"tool"}, calls : {<<>>}, call : Nat]
RequestParts == {Text} \cup [kind : {"call", "result"}, call : Nat]
RequestTurns == [role : {"system", "user", "assistant", "tool"}, parts : Seq(RequestParts)]
FilterStates == [known : SUBSET Nat, kept : Seq(RequestMessages)]

(* One step of each loop, as a function.                                   *)
KeepStep == [t \in FilterStates |-> [x \in RequestMessages |-> Keep(t, x)]]
TurnStep == [t \in Seq(RequestTurns) |-> [x \in RequestMessages |-> AddTurn(t, x)]]
OpenStep == [t \in Seq(Nat) |-> [x \in RequestParts |-> AddPart(t, x)]]
CallStep(kind) ==
    [t \in Seq(Nat) |-> [x \in RequestParts |->
        IF x.kind = kind THEN Append(t, x.call) ELSE t]]
NothingKept == [known |-> {}, kept |-> <<>>]

(* The parts of a message: a text, a reply's calls after it, or a result.  *)
LEMMA PartsType ==
  ASSUME NEW message \in RequestMessages
  PROVE  /\ Parts(message) \in Seq(RequestParts)
         /\ message.role \in {"system", "user"} => Parts(message) = <<Text>>
         /\ message.role = "tool" => Parts(message) = <<ResultPart(message.call)>>
         /\ message.role = "assistant" =>
               /\ message.calls \in Seq(Nat) /\ Parts(message) = <<Text>> \o CallParts(message)
               /\ CallParts(message) \in Seq(RequestParts)
               /\ Len(CallParts(message)) = Len(message.calls)
               /\ \A i \in 1..Len(message.calls)
                           : CallParts(message)[i] = CallPart(message.calls[i])
<1>1. CASE message.role \in {"system", "user"}
  <2>1. message.calls = <<>>
    BY <1>1 DEF RequestMessages
  <2>2. CallParts(message) = <<>>
    BY <2>1 DEF CallParts
  <2>3. Text \in RequestParts /\ <<Text>> \o <<>> = <<Text>>
    BY DEF RequestParts
  <2> QED BY <1>1, <2>2, <2>3 DEF Parts
<1>2. CASE message.role = "tool"
  <2>1. message.call \in Nat
    BY <1>2 DEF RequestMessages
  <2>2. ResultPart(message.call) \in RequestParts
    BY <2>1 DEF RequestParts, ResultPart
  <2> QED BY <1>2, <2>2 DEF Parts
<1>3. CASE message.role = "assistant"
  <2>1. message.calls \in Seq(Nat)
    BY <1>3 DEF RequestMessages
  <2>2. \A i \in 1..Len(message.calls) : CallPart(message.calls[i]) \in RequestParts
    BY <2>1 DEF RequestParts, CallPart
  <2>3. /\ CallParts(message) \in Seq(RequestParts)
        /\ Len(CallParts(message)) = Len(message.calls)
        /\ \A i \in 1..Len(message.calls) : CallParts(message)[i] = CallPart(message.calls[i])
    BY <2>1, <2>2 DEF CallParts
  <2>4. <<Text>> \in Seq(RequestParts)
    BY DEF RequestParts
  <2>5. Parts(message) = <<Text>> \o CallParts(message)
    BY <1>3 DEF Parts
  <2> QED BY <1>3, <2>1, <2>3, <2>4, <2>5
<1> QED
  BY <1>1, <1>2, <1>3 DEF RequestMessages

-----------------------------------------------------------------------------
(* The loops, as runs.                                                     *)
LEMMA KeepStepType == KeepStep \in [FilterStates -> [RequestMessages -> FilterStates]]
<1>1. ASSUME NEW filtered \in FilterStates, NEW message \in RequestMessages
      PROVE  Keep(filtered, message) \in FilterStates
  <2>1. filtered.known \subseteq Nat /\ Append(filtered.kept, message) \in Seq(RequestMessages)
    BY DEF FilterStates
  <2>2. ToSet(message.calls) \subseteq Nat
    <3>1. message.calls = <<>> \/ message.calls \in Seq(Nat)
      BY DEF RequestMessages
    <3>2. <<>> \in Seq(Nat)
      OBVIOUS
    <3>3. message.calls \in Seq(Nat)
      BY <3>1, <3>2, Zenon
    <3> QED BY <3>3 DEF ToSet
  <2>3. filtered.known \ {message.call} \subseteq Nat
    BY <2>1
  <2>4. filtered.known \cup ToSet(message.calls) \subseteq Nat
    BY <2>1, <2>2
  <2> QED BY <2>1, <2>3, <2>4 DEF Keep, FilterStates
<1> QED
  BY <1>1 DEF KeepStep

(* withoutOrphanToolOutputs is such a loop: what it knows and keeps,       *)
(* message by message.                                                     *)
LEMMA FilterIsRun ==
  ASSUME NEW messages \in Seq(RequestMessages)
  PROVE  \E r : /\ IsRun(r, FilterStates, NothingKept, KeepStep, messages)
                /\ WithoutOrphanToolOutputs(messages) = r[Len(messages)].kept
<1> DEFINE n == Len(messages)
           r == CHOOSE f : f = [i \in 0..n |-> IF i = 0 THEN [known |-> {}, kept |-> <<>>]
                                                ELSE Keep(f[i - 1], messages[i])]
<1>1. n \in Nat /\ \A i \in 1..n : messages[i] \in RequestMessages /\ i - 1 \in 0..n
  OBVIOUS
<1>2. NothingKept \in FilterStates
  BY DEF NothingKept, FilterStates
<1>3. PICK q : IsRun(q, FilterStates, NothingKept, KeepStep, messages)
  BY <1>2, KeepStepType, RunExists
<1>4. \A t \in FilterStates : \A i \in 1..n : KeepStep[t][messages[i]] = Keep(t, messages[i])
  BY <1>1 DEF KeepStep
<1>5. q = [i \in 0..n |-> IF i = 0 THEN [known |-> {}, kept |-> <<>>]
                          ELSE Keep(q[i - 1], messages[i])]
  <2> HIDE DEF n
  <2>1. /\ q \in [0..n -> FilterStates] /\ q[0] = NothingKept
        /\ \A i \in 1..n : q[i] = KeepStep[q[i - 1]][messages[i]]
    BY <1>3 DEF IsRun, n
  <2>2. \A i \in 1..n : q[i] = Keep(q[i - 1], messages[i])
    BY <1>1, <1>4, <2>1
  <2>3. \A i \in 0..n : i # 0 => i \in 1..n
    BY <1>1
  <2> QED BY <2>1, <2>2, <2>3 DEF NothingKept
<1>6. r = [i \in 0..n |-> IF i = 0 THEN [known |-> {}, kept |-> <<>>]
                          ELSE Keep(r[i - 1], messages[i])]
  BY <1>5
<1> HIDE DEF r
<1>7. r = [i \in 0..n |-> r[i]]
  BY <1>6, Zenon
<1>11. r[0] = NothingKept
  BY <1>1, <1>6 DEF NothingKept
<1>8. ASSUME NEW i \in 1..n
      PROVE  r[i] = Keep(r[i - 1], messages[i])
  <2>1. i \in 0..n /\ i # 0
    BY <1>1
  <2> QED BY <1>6, <2>1, Zenon
<1>9. IsRun(r, FilterStates, NothingKept, KeepStep, messages)
  BY <1>2, <1>4, <1>7, <1>8, <1>11, KeepStepType, StepsAreRun
<1>10. WithoutOrphanToolOutputs(messages) = r[n].kept
  BY DEF WithoutOrphanToolOutputs, r
<1> QED
  BY <1>9, <1>10

(* A part leaves a sequence of open calls.                                 *)
LEMMA OpenStepType ==
  <<>> \in Seq(Nat) /\ OpenStep \in [Seq(Nat) -> [RequestParts -> Seq(Nat)]]
<1>1. ASSUME NEW open \in Seq(Nat), NEW part \in RequestParts
      PROVE  AddPart(open, part) \in Seq(Nat)
  <2>1. part = Text \/ (part.kind \in {"call", "result"} /\ part.call \in Nat)
    BY DEF RequestParts
  <2>2. part.kind = "call" => Append(open, part.call) \in Seq(Nat)
    BY <2>1 DEF Text
  <2>3. open # <<>> => Tail(open) \in Seq(Nat)
    OBVIOUS
  <2>4. <<NoCall>> \o open \in Seq(Nat)
    BY DEF NoCall
  <2> QED BY <2>2, <2>3, <2>4 DEF AddPart
<1> QED
  BY <1>1 DEF OpenStep

(* So it does with the calls of one kind.                                  *)
LEMMA CallStepType ==
  ASSUME NEW kind \in {"call", "result"}
  PROVE  <<>> \in Seq(Nat) /\ CallStep(kind) \in [Seq(Nat) -> [RequestParts -> Seq(Nat)]]
<1>1. ASSUME NEW calls \in Seq(Nat), NEW part \in RequestParts, part.kind = kind
      PROVE  Append(calls, part.call) \in Seq(Nat)
  <2>1. part.call \in Nat
    BY <1>1 DEF RequestParts, Text
  <2> QED BY <2>1
<1> QED
  BY <1>1 DEF CallStep

(* A part joins a turn or makes one.                                       *)
LEMMA AppendPartType ==
  ASSUME NEW turns \in Seq(RequestTurns), NEW part \in RequestParts
  PROVE  AppendPart(turns, "user", part) \in Seq(RequestTurns)
<1>1. CASE turns # <<>> /\ Last(turns).role = "user"
  <2>1. Last(turns) \in RequestTurns /\ Front(turns) \in Seq(RequestTurns)
    BY <1>1 DEF Last, Front
  <2>2. Append(Last(turns).parts, part) \in Seq(RequestParts)
    BY <2>1 DEF RequestTurns
  <2>3. [role |-> "user", parts |-> Append(Last(turns).parts, part)] \in RequestTurns
    BY <2>2 DEF RequestTurns
  <2> QED BY <1>1, <2>1, <2>3 DEF AppendPart
<1>2. CASE ~(turns # <<>> /\ Last(turns).role = "user")
  <2>1. <<part>> \in Seq(RequestParts)
    OBVIOUS
  <2>2. [role |-> "user", parts |-> <<part>>] \in RequestTurns
    BY <2>1 DEF RequestTurns
  <2> QED BY <1>2, <2>2 DEF AppendPart
<1> QED
  BY <1>1, <1>2

(* A message leaves a sequence of turns.                                   *)
LEMMA TurnStepType ==
  /\ <<>> \in Seq(RequestTurns)
  /\ TurnStep \in [Seq(RequestTurns) -> [RequestMessages -> Seq(RequestTurns)]]
<1>1. ASSUME NEW turns \in Seq(RequestTurns), NEW message \in RequestMessages
      PROVE  AddTurn(turns, message) \in Seq(RequestTurns)
  <2>1. message.role \in {"system", "user", "assistant", "tool"}
    BY DEF RequestMessages
  <2>2. CASE message.role = "system"
    BY <2>2 DEF AddTurn
  <2>3. CASE message.role = "user"
    <3>1. Text \in RequestParts
      BY DEF RequestParts
    <3> QED BY <2>3, <3>1, AppendPartType DEF AddTurn
  <2>4. CASE message.role = "assistant"
    <3>1. [role |-> "assistant", parts |-> Parts(message)] \in RequestTurns
      BY PartsType DEF RequestTurns
    <3>2. AddTurn(turns, message)
            = Append(turns, [role |-> "assistant", parts |-> Parts(message)])
      BY <2>4 DEF AddTurn
    <3> QED BY <3>1, <3>2
  <2>5. CASE message.role = "tool"
    <3>1. message.call \in Nat
      BY <2>5 DEF RequestMessages
    <3>2. ResultPart(message.call) \in RequestParts
      BY <3>1 DEF RequestParts, ResultPart
    <3> QED BY <2>5, <3>2, AppendPartType DEF AddTurn
  <2> QED BY <2>1, <2>2, <2>3, <2>4, <2>5
<1>2. <<>> \in Seq(RequestTurns)
  OBVIOUS
<1> QED
  BY <1>1, <1>2 DEF TurnStep

(* The calls still open, part by part.                                      *)
LEMMA OpenIsRun ==
  ASSUME NEW parts \in Seq(RequestParts)
  PROVE  \E r : IsRun(r, Seq(Nat), <<>>, OpenStep, parts) /\ OpenCalls(parts) = r[Len(parts)]
<1> DEFINE n == Len(parts)
           r == CHOOSE f : f = [i \in 0..n |-> IF i = 0 THEN <<>> ELSE AddPart(f[i - 1], parts[i])]
<1>1. n \in Nat /\ \A i \in 1..n : parts[i] \in RequestParts /\ i - 1 \in 0..n
  OBVIOUS
<1>2. <<>> \in Seq(Nat) /\ OpenStep \in [Seq(Nat) -> [RequestParts -> Seq(Nat)]]
  BY OpenStepType
<1>3. PICK q : IsRun(q, Seq(Nat), <<>>, OpenStep, parts)
  BY <1>2, RunExists
<1>4. \A t \in Seq(Nat) : \A i \in 1..n :
         OpenStep[t][parts[i]] = AddPart(t, parts[i])
  BY <1>1 DEF OpenStep
<1>5. q = [i \in 0..n |-> IF i = 0 THEN <<>> ELSE AddPart(q[i - 1], parts[i])]
  <2> HIDE DEF n
  <2>1. /\ q \in [0..n -> Seq(Nat)] /\ q[0] = <<>>
        /\ \A i \in 1..n : q[i] = OpenStep[q[i - 1]][parts[i]]
    BY <1>3 DEF IsRun, n
  <2>2. \A i \in 1..n : q[i] = AddPart(q[i - 1], parts[i])
    BY <1>1, <1>4, <2>1
  <2>3. \A i \in 0..n : i # 0 => i \in 1..n
    BY <1>1
  <2> QED BY <2>1, <2>2, <2>3
<1>6. r = [i \in 0..n |-> IF i = 0 THEN <<>> ELSE AddPart(r[i - 1], parts[i])]
  BY <1>5
<1> HIDE DEF r
<1>7. r = [i \in 0..n |-> r[i]]
  BY <1>6, Zenon
<1>8. r[0] = <<>>
  BY <1>1, <1>6
<1>9. ASSUME NEW i \in 1..n
      PROVE  r[i] = AddPart(r[i - 1], parts[i])
  <2>1. i \in 0..n /\ i # 0
    BY <1>1
  <2> QED BY <1>6, <2>1, Zenon
<1>12. \A i \in 1..n : r[i - 1] \in Seq(Nat) => r[i] = OpenStep[r[i - 1]][parts[i]]
  BY <1>4, <1>9
<1>10. IsRun(r, Seq(Nat), <<>>, OpenStep, parts)
  BY <1>2, <1>7, <1>8, <1>12, StepsAreRun
<1>11. OpenCalls(parts) = r[n]
  BY DEF OpenCalls, r
<1> QED
  BY <1>10, <1>11

(* One more part is one more step.                                         *)
LEMMA OpenOfAppend ==
  ASSUME NEW parts \in Seq(RequestParts), NEW x \in RequestParts
  PROVE  /\ OpenCalls(parts) \in Seq(Nat) /\ OpenCalls(<<>>) = <<>>
         /\ OpenCalls(Append(parts, x)) = AddPart(OpenCalls(parts), x)
<1> DEFINE more == Append(parts, x)
<1>1. <<>> \in Seq(RequestParts) /\ more \in Seq(RequestParts) /\ Len(parts) \in Nat
  OBVIOUS
<1>2. <<>> \in Seq(Nat) /\ OpenStep \in [Seq(Nat) -> [RequestParts -> Seq(Nat)]]
  BY OpenStepType
<1>3. PICK r : IsRun(r, Seq(Nat), <<>>, OpenStep, parts) /\ OpenCalls(parts) = r[Len(parts)]
  BY OpenIsRun
<1>4. PICK q : IsRun(q, Seq(Nat), <<>>, OpenStep, more) /\ OpenCalls(more) = q[Len(more)]
  BY <1>1, OpenIsRun
<1>5. PICK e : IsRun(e, Seq(Nat), <<>>, OpenStep, <<>>) /\ OpenCalls(<<>>) = e[Len(<<>>)]
  BY <1>1, OpenIsRun
<1>6. OpenCalls(parts) \in Seq(Nat)
  <2>1. Len(parts) \in 0..Len(parts)
    BY <1>1
  <2> QED BY <1>3, <2>1 DEF IsRun
<1>7. OpenCalls(<<>>) = <<>>
  BY <1>5, RunOfNothing
<1>8. q[Len(more)] = OpenStep[r[Len(parts)]][x]
  <2>1. IsLonger(more, parts) /\ more[Len(more)] = x
    BY DEF IsLonger
  <2> HIDE DEF more
  <2>2. q[Len(more)] = OpenStep[r[Len(parts)]][more[Len(more)]]
    BY <1>3, <1>4, <2>1, RunOfLonger
  <2> QED BY <2>1, <2>2
<1>9. OpenStep[OpenCalls(parts)][x] = AddPart(OpenCalls(parts), x)
  BY <1>6 DEF OpenStep
<1> QED
  BY <1>3, <1>4, <1>6, <1>7, <1>8, <1>9

(* The calls among the parts.                                               *)
LEMMA CallsIsRun ==
  ASSUME NEW kind \in {"call", "result"}, NEW parts \in Seq(RequestParts)
  PROVE  \E r : IsRun(r, Seq(Nat), <<>>, CallStep(kind), parts)
              /\ CallsIn(parts, kind) = r[Len(parts)]
<1> DEFINE n == Len(parts)
           r == CHOOSE f : f = [i \in 0..n |-> IF i = 0 THEN <<>> ELSE
                       IF parts[i].kind = kind THEN Append(f[i - 1], parts[i].call) ELSE f[i - 1]]
<1>1. n \in Nat /\ \A i \in 1..n : parts[i] \in RequestParts /\ i - 1 \in 0..n
  OBVIOUS
<1>2. <<>> \in Seq(Nat) /\ CallStep(kind) \in [Seq(Nat) -> [RequestParts -> Seq(Nat)]]
  BY CallStepType
<1>3. PICK q : IsRun(q, Seq(Nat), <<>>, CallStep(kind), parts)
  BY <1>2, RunExists
<1>4. \A t \in Seq(Nat) : \A i \in 1..n :
         CallStep(kind)[t][parts[i]] = IF parts[i].kind = kind THEN Append(t, parts[i].call) ELSE t
  BY <1>1 DEF CallStep
<1>5. q = [i \in 0..n |-> IF i = 0 THEN <<>> ELSE
            IF parts[i].kind = kind THEN Append(q[i - 1], parts[i].call) ELSE q[i - 1]]
  <2> HIDE DEF n
  <2>1. /\ q \in [0..n -> Seq(Nat)] /\ q[0] = <<>>
        /\ \A i \in 1..n : q[i] = CallStep(kind)[q[i - 1]][parts[i]]
    BY <1>3 DEF IsRun, n
  <2>2. \A i \in 1..n : q[i] = IF parts[i].kind = kind THEN Append(q[i - 1], parts[i].call) ELSE q[i - 1]
    BY <1>1, <1>4, <2>1
  <2>3. \A i \in 0..n : i # 0 => i \in 1..n
    BY <1>1
  <2> QED BY <2>1, <2>2, <2>3
<1>6. r = [i \in 0..n |-> IF i = 0 THEN <<>> ELSE
            IF parts[i].kind = kind THEN Append(r[i - 1], parts[i].call) ELSE r[i - 1]]
  BY <1>5
<1> HIDE DEF r
<1>7. r = [i \in 0..n |-> r[i]]
  BY <1>6, Zenon
<1>8. r[0] = <<>>
  BY <1>1, <1>6
<1>9. ASSUME NEW i \in 1..n
      PROVE  r[i] = IF parts[i].kind = kind THEN Append(r[i - 1], parts[i].call) ELSE r[i - 1]
  <2>1. i \in 0..n /\ i # 0
    BY <1>1
  <2> QED BY <1>6, <2>1, Zenon
<1>12. \A i \in 1..n : r[i - 1] \in Seq(Nat) => r[i] = CallStep(kind)[r[i - 1]][parts[i]]
  BY <1>4, <1>9
<1>10. IsRun(r, Seq(Nat), <<>>, CallStep(kind), parts)
  BY <1>2, <1>7, <1>8, <1>12, StepsAreRun
<1>11. CallsIn(parts, kind) = r[n]
  BY DEF CallsIn, r
<1> QED
  BY <1>10, <1>11

(* One more part adds its call if it has the kind.                         *)
LEMMA CallsOfAppend ==
  ASSUME NEW kind \in {"call", "result"}, NEW parts \in Seq(RequestParts), NEW x \in RequestParts
  PROVE  /\ CallsIn(parts, kind) \in Seq(Nat) /\ CallsIn(<<>>, kind) = <<>>
         /\ CallsIn(Append(parts, x), kind)
                     = IF x.kind = kind THEN Append(CallsIn(parts, kind), x.call) ELSE CallsIn(parts, kind)
<1> DEFINE more == Append(parts, x)
<1>1. <<>> \in Seq(RequestParts) /\ more \in Seq(RequestParts) /\ Len(parts) \in Nat
  OBVIOUS
<1>2. <<>> \in Seq(Nat) /\ CallStep(kind) \in [Seq(Nat) -> [RequestParts -> Seq(Nat)]]
  BY CallStepType
<1>3. PICK r : IsRun(r, Seq(Nat), <<>>, CallStep(kind), parts)
            /\ CallsIn(parts, kind) = r[Len(parts)]
  BY CallsIsRun
<1>4. PICK q : IsRun(q, Seq(Nat), <<>>, CallStep(kind), more) /\ CallsIn(more, kind) = q[Len(more)]
  BY <1>1, CallsIsRun
<1>5. PICK e : IsRun(e, Seq(Nat), <<>>, CallStep(kind), <<>>) /\ CallsIn(<<>>, kind) = e[Len(<<>>)]
  BY <1>1, CallsIsRun
<1>6. CallsIn(parts, kind) \in Seq(Nat)
  <2>1. Len(parts) \in 0..Len(parts)
    BY <1>1
  <2> QED BY <1>3, <2>1 DEF IsRun
<1>7. CallsIn(<<>>, kind) = <<>>
  BY <1>5, RunOfNothing
<1>8. q[Len(more)] = CallStep(kind)[r[Len(parts)]][x]
  <2>1. IsLonger(more, parts) /\ more[Len(more)] = x
    BY DEF IsLonger
  <2> HIDE DEF more
  <2>2. q[Len(more)] = CallStep(kind)[r[Len(parts)]][more[Len(more)]]
    BY <1>3, <1>4, <2>1, RunOfLonger
  <2> QED BY <2>1, <2>2
<1>9. CallStep(kind)[CallsIn(parts, kind)][x]
            = IF x.kind = kind THEN Append(CallsIn(parts, kind), x.call) ELSE CallsIn(parts, kind)
  BY <1>6 DEF CallStep
<1> QED
  BY <1>3, <1>4, <1>6, <1>7, <1>8, <1>9

(* The turns, message by message.                                           *)
LEMMA TurnsIsRun ==
  ASSUME NEW messages \in Seq(RequestMessages)
  PROVE  \E r : IsRun(r, Seq(RequestTurns), <<>>, TurnStep, messages)
              /\ Turns(messages) = r[Len(messages)]
<1> DEFINE n == Len(messages)
           r == CHOOSE f : f = [i \in 0..n
                       |-> IF i = 0 THEN <<>> ELSE AddTurn(f[i - 1], messages[i])]
<1>1. n \in Nat /\ \A i \in 1..n : messages[i] \in RequestMessages /\ i - 1 \in 0..n
  OBVIOUS
<1>2. <<>> \in Seq(RequestTurns) /\ TurnStep \in [Seq(RequestTurns) -> [RequestMessages -> Seq(RequestTurns)]]
  BY TurnStepType
<1>3. PICK q : IsRun(q, Seq(RequestTurns), <<>>, TurnStep, messages)
  BY <1>2, RunExists
<1>4. \A t \in Seq(RequestTurns) : \A i \in 1..n :
         TurnStep[t][messages[i]] = AddTurn(t, messages[i])
  BY <1>1 DEF TurnStep
<1>5. q = [i \in 0..n |-> IF i = 0 THEN <<>> ELSE AddTurn(q[i - 1], messages[i])]
  <2> HIDE DEF n
  <2>1. /\ q \in [0..n -> Seq(RequestTurns)] /\ q[0] = <<>>
        /\ \A i \in 1..n : q[i] = TurnStep[q[i - 1]][messages[i]]
    BY <1>3 DEF IsRun, n
  <2>2. \A i \in 1..n : q[i] = AddTurn(q[i - 1], messages[i])
    BY <1>1, <1>4, <2>1
  <2>3. \A i \in 0..n : i # 0 => i \in 1..n
    BY <1>1
  <2> QED BY <2>1, <2>2, <2>3
<1>6. r = [i \in 0..n |-> IF i = 0 THEN <<>> ELSE AddTurn(r[i - 1], messages[i])]
  BY <1>5
<1> HIDE DEF r
<1>7. r = [i \in 0..n |-> r[i]]
  BY <1>6, Zenon
<1>8. r[0] = <<>>
  BY <1>1, <1>6
<1>9. ASSUME NEW i \in 1..n
      PROVE  r[i] = AddTurn(r[i - 1], messages[i])
  <2>1. i \in 0..n /\ i # 0
    BY <1>1
  <2> QED BY <1>6, <2>1, Zenon
<1>12. \A i \in 1..n : r[i - 1] \in Seq(RequestTurns) => r[i] = TurnStep[r[i - 1]][messages[i]]
  BY <1>4, <1>9
<1>10. IsRun(r, Seq(RequestTurns), <<>>, TurnStep, messages)
  BY <1>2, <1>7, <1>8, <1>12, StepsAreRun
<1>11. Turns(messages) = r[n]
  BY DEF Turns, r
<1> QED
  BY <1>10, <1>11

(* One more message adds its turn.                                         *)
LEMMA TurnsOfAppend ==
  ASSUME NEW messages \in Seq(RequestMessages), NEW x \in RequestMessages
  PROVE  /\ Turns(messages) \in Seq(RequestTurns) /\ Turns(<<>>) = <<>>
         /\ Turns(Append(messages, x)) = AddTurn(Turns(messages), x)
<1> DEFINE more == Append(messages, x)
<1>1. <<>> \in Seq(RequestMessages) /\ more \in Seq(RequestMessages) /\ Len(messages) \in Nat
  OBVIOUS
<1>2. <<>> \in Seq(RequestTurns) /\ TurnStep \in [Seq(RequestTurns) -> [RequestMessages -> Seq(RequestTurns)]]
  BY TurnStepType
<1>3. PICK r : IsRun(r, Seq(RequestTurns), <<>>, TurnStep, messages)
            /\ Turns(messages) = r[Len(messages)]
  BY TurnsIsRun
<1>4. PICK q : IsRun(q, Seq(RequestTurns), <<>>, TurnStep, more) /\ Turns(more) = q[Len(more)]
  BY <1>1, TurnsIsRun
<1>5. PICK e : IsRun(e, Seq(RequestTurns), <<>>, TurnStep, <<>>) /\ Turns(<<>>) = e[Len(<<>>)]
  BY <1>1, TurnsIsRun
<1>6. Turns(messages) \in Seq(RequestTurns)
  <2>1. Len(messages) \in 0..Len(messages)
    BY <1>1
  <2> QED BY <1>3, <2>1 DEF IsRun
<1>7. Turns(<<>>) = <<>>
  BY <1>5, RunOfNothing
<1>8. q[Len(more)] = TurnStep[r[Len(messages)]][x]
  <2>1. IsLonger(more, messages) /\ more[Len(more)] = x
    BY DEF IsLonger
  <2> HIDE DEF more
  <2>2. q[Len(more)] = TurnStep[r[Len(messages)]][more[Len(more)]]
    BY <1>3, <1>4, <2>1, RunOfLonger
  <2> QED BY <2>1, <2>2
<1>9. TurnStep[Turns(messages)][x] = AddTurn(Turns(messages), x)
  BY <1>6 DEF TurnStep
<1> QED
  BY <1>3, <1>4, <1>6, <1>7, <1>8, <1>9

(* Sequences joined one after the other.                                   *)
JoinStep(E) == [t \in Seq(E) |-> [x \in Seq(E) |-> t \o x]]

(* Joining stays among the sequences.                                      *)
LEMMA JoinStepType ==
  ASSUME NEW E
  PROVE  <<>> \in Seq(E) /\ JoinStep(E) \in [Seq(E) -> [Seq(E) -> Seq(E)]]
<1>1. \A t, x \in Seq(E) : t \o x \in Seq(E)
  OBVIOUS
<1>2. <<>> \in Seq(E)
  OBVIOUS
<1> QED
  BY <1>1, <1>2 DEF JoinStep

(* FlattenSeq joins them one by one.                                       *)
LEMMA FlattenIsRun ==
  ASSUME NEW E, NEW seqs \in Seq(Seq(E))
  PROVE  \E r : IsRun(r, Seq(E), <<>>, JoinStep(E), seqs) /\ FlattenSeq(seqs) = r[Len(seqs)]
<1> DEFINE n == Len(seqs)
           f == CHOOSE h : h = [i \in 1..n |-> IF i = 1 THEN seqs[i] ELSE h[i - 1] \o seqs[i]]
<1>1. n \in Nat /\ \A i \in 1..n : seqs[i] \in Seq(E) /\ i - 1 \in 0..n
  OBVIOUS
<1>2. PICK r : IsRun(r, Seq(E), <<>>, JoinStep(E), seqs)
  BY JoinStepType, RunExists
<1>3. /\ r \in [0..n -> Seq(E)] /\ r[0] = <<>>
      /\ \A i \in 1..n : r[i] = r[i - 1] \o seqs[i]
  <2>1. /\ r \in [0..n -> Seq(E)] /\ r[0] = <<>>
        /\ \A i \in 1..n : r[i] = JoinStep(E)[r[i - 1]][seqs[i]]
    BY <1>2 DEF IsRun
  <2> HIDE DEF n
  <2>2. \A i \in 1..n : r[i - 1] \in Seq(E)
    BY <1>1, <2>1
  <2>3. \A t, x \in Seq(E) : JoinStep(E)[t][x] = t \o x
    BY DEF JoinStep
  <2> QED BY <1>1, <2>1, <2>2, <2>3
<1>4. FlattenSeq(seqs) = IF n = 0 THEN seqs ELSE f[n]
  BY DEF FlattenSeq, f
<1>5. CASE n = 0
  BY <1>2, <1>3, <1>4, <1>5
<1>6. CASE n # 0
  <2> DEFINE h == [i \in 1..n |-> r[i]]
  <2>1. h = [i \in 1..n |-> IF i = 1 THEN seqs[i] ELSE h[i - 1] \o seqs[i]]
    <3> HIDE DEF n
    <3>1. ASSUME NEW i \in 1..n
          PROVE  r[i] = IF i = 1 THEN seqs[i] ELSE h[i - 1] \o seqs[i]
      <4>1. CASE i = 1
        <5>1. r[1] = <<>> \o seqs[1]
          <6>1. r[i] = r[i - 1] \o seqs[i]
            BY <1>3, Zenon
          <6>2. i - 1 = 0
            BY <4>1
          <6>3. r[0] = <<>>
            BY <1>3
          <6> QED BY <4>1, <6>1, <6>2, <6>3, Zenon
        <5>2. seqs[1] \in Seq(E)
          BY <1>1, <4>1
        <5>3. <<>> \o seqs[1] = seqs[1]
          BY <5>2
        <5> QED BY <4>1, <5>1, <5>3
      <4>2. CASE i # 1
        <5>1. i - 1 \in 1..n
          BY <1>1, <4>2
        <5> QED BY <1>3, <4>2, <5>1
      <4> QED BY <4>1, <4>2
    <3> QED BY <3>1
  <2>2. f = [i \in 1..n |-> IF i = 1 THEN seqs[i] ELSE f[i - 1] \o seqs[i]]
    <3> HIDE DEF h
    <3> QED BY <2>1
  <2> HIDE DEF f
  <2> DEFINE P == {i \in 0..n : i # 0 => f[i] = r[i]}
  <2>3. 0 \in P
    BY <1>1
  <2>4. ASSUME NEW i \in 1..n, i - 1 \in P
        PROVE  i \in P
    <3>1. h[i] = IF i = 1 THEN seqs[i] ELSE h[i - 1] \o seqs[i]
      <4> HIDE DEF h
      <4> QED BY <2>1
    <3>2. f[i] = IF i = 1 THEN seqs[i] ELSE f[i - 1] \o seqs[i]
      BY <2>2
    <3>3. h[i] = r[i] /\ i \in 0..n
      BY <1>1
    <3>4. CASE i = 1
      BY <3>1, <3>2, <3>3, <3>4
    <3>5. CASE i # 1
      <4>1. i - 1 \in 1..n /\ i - 1 # 0
        BY <1>1, <3>5
      <4>2. f[i - 1] = r[i - 1] /\ h[i - 1] = r[i - 1]
        BY <2>4, <4>1
      <4> HIDE DEF h
      <4>3. f[i] = r[i]
        BY <3>1, <3>2, <3>3, <3>5, <4>2
      <4> QED BY <3>3, <4>3
    <3> QED BY <3>4, <3>5
  <2> HIDE DEF P
  <2>5. \A i \in 0..n : i \in P
    BY <1>1, <2>3, <2>4, UpTo
  <2>6. f[n] = r[n]
    <3>1. n \in P
      BY <1>1, <2>5
    <3> QED BY <1>6, <3>1 DEF P
  <2> QED BY <1>2, <1>4, <1>6, <2>6
<1> QED
  BY <1>5, <1>6

(* One more sequence is joined at the end.                                 *)
LEMMA FlattenOfAppend ==
  ASSUME NEW E, NEW seqs \in Seq(Seq(E)), NEW x \in Seq(E)
  PROVE  /\ FlattenSeq(seqs) \in Seq(E) /\ FlattenSeq(<<>>) = <<>>
         /\ FlattenSeq(Append(seqs, x)) = FlattenSeq(seqs) \o x
<1> DEFINE more == Append(seqs, x)
<1>1. <<>> \in Seq(Seq(E)) /\ more \in Seq(Seq(E)) /\ Len(seqs) \in Nat
  OBVIOUS
<1>2. PICK r : IsRun(r, Seq(E), <<>>, JoinStep(E), seqs) /\ FlattenSeq(seqs) = r[Len(seqs)]
  BY FlattenIsRun
<1>3. PICK q : IsRun(q, Seq(E), <<>>, JoinStep(E), more) /\ FlattenSeq(more) = q[Len(more)]
  BY <1>1, FlattenIsRun
<1>4. PICK e : IsRun(e, Seq(E), <<>>, JoinStep(E), <<>>) /\ FlattenSeq(<<>>) = e[Len(<<>>)]
  BY <1>1, FlattenIsRun
<1>5. FlattenSeq(seqs) \in Seq(E)
  <2>1. Len(seqs) \in 0..Len(seqs)
    BY <1>1
  <2> QED BY <1>2, <2>1 DEF IsRun
<1>6. FlattenSeq(<<>>) = <<>>
  BY <1>4, RunOfNothing
<1>7. q[Len(more)] = JoinStep(E)[r[Len(seqs)]][x]
  <2>1. IsLonger(more, seqs) /\ more[Len(more)] = x
    BY DEF IsLonger
  <2> HIDE DEF more
  <2>2. q[Len(more)] = JoinStep(E)[r[Len(seqs)]][more[Len(more)]]
    BY <1>2, <1>3, <2>1, RunOfLonger
  <2> QED BY <2>1, <2>2
<1>8. JoinStep(E)[FlattenSeq(seqs)][x] = FlattenSeq(seqs) \o x
  BY <1>5 DEF JoinStep
<1> QED
  BY <1>2, <1>3, <1>5, <1>6, <1>7, <1>8

-----------------------------------------------------------------------------
(* What a prefix of a sequence is.                                         *)
LEMMA PrefixIs ==
  ASSUME NEW E, NEW s \in Seq(E)
  PROVE  /\ SubSeq(s, 1, 0) = <<>> /\ SubSeq(s, 1, Len(s)) = s
         /\ \A i \in 1..Len(s) : /\ SubSeq(s, 1, i - 1) \in Seq(E) /\ s[i] \in E
                                 /\ SubSeq(s, 1, i) = Append(SubSeq(s, 1, i - 1), s[i])
<1>1. SubSeq(s, 1, 0) = <<>> /\ SubSeq(s, 1, Len(s)) = s
  OBVIOUS
<1>2. ASSUME NEW i \in 1..Len(s)
      PROVE  /\ SubSeq(s, 1, i - 1) \in Seq(E) /\ s[i] \in E
             /\ SubSeq(s, 1, i) = Append(SubSeq(s, 1, i - 1), s[i])
  OBVIOUS
<1> QED
  BY <1>1, <1>2

(* Appending is associative with joining.                                  *)
LEMMA JoinAppend ==
  ASSUME NEW E, NEW s \in Seq(E), NEW t \in Seq(E), NEW x \in E
  PROVE  /\ s \o Append(t, x) = Append(s \o t, x) /\ s \o <<>> = s /\ s \o <<x>> = Append(s, x)
         /\ s \o t \in Seq(E)
<1>1. s \o Append(t, x) = Append(s \o t, x)
  OBVIOUS
<1>2. s \o <<>> = s /\ s \o t \in Seq(E)
  OBVIOUS
<1>3. s \o <<x>> = Append(s, x)
  OBVIOUS
<1> QED
  BY <1>1, <1>2, <1>3

(* One more turn adds its parts.                                           *)
LEMMA PartsOfAppend ==
  ASSUME NEW turns \in Seq(RequestTurns), NEW turn \in RequestTurns
  PROVE  /\ PartsOf(turns) \in Seq(RequestParts) /\ PartsOf(<<>>) = <<>>
         /\ turn.parts \in Seq(RequestParts)
         /\ PartsOf(Append(turns, turn)) = PartsOf(turns) \o turn.parts
<1> DEFINE seqs == [i \in 1..Len(turns) |-> turns[i].parts]
           more == Append(turns, turn)
<1>1. turn.parts \in Seq(RequestParts) /\ \A i \in 1..Len(turns) : turns[i].parts \in Seq(RequestParts)
  <2>1. \A t \in RequestTurns : t.parts \in Seq(RequestParts)
    BY DEF RequestTurns
  <2>2. \A i \in 1..Len(turns) : turns[i] \in RequestTurns
    OBVIOUS
  <2> QED BY <2>1, <2>2
<1>2. seqs \in Seq(Seq(RequestParts))
  BY <1>1
<1>3. [i \in 1..Len(more) |-> more[i].parts] = Append(seqs, turn.parts)
  OBVIOUS
<1>4. [i \in 1..Len(<<>>) |-> <<>>[i].parts] = <<>>
  OBVIOUS
<1> HIDE DEF seqs
<1>5. PartsOf(turns) = FlattenSeq(seqs) /\ PartsOf(more) = FlattenSeq(Append(seqs, turn.parts))
  BY <1>3 DEF PartsOf, seqs
<1>6. PartsOf(<<>>) = FlattenSeq(<<>>)
  BY <1>4 DEF PartsOf
<1> QED
  BY <1>1, <1>2, <1>5, <1>6, FlattenOfAppend

-----------------------------------------------------------------------------
(* What a message adds to each translation: its parts, at the end.         *)
OpenAIItems(kept) == FlattenSeq([i \in 1..Len(kept) |-> Items(kept[i])])
GroqTurn(message) == [role |-> message.role, parts |-> Parts(message)]
GroqTurns(kept) ==
    [i \in 1..Len(<<SystemMessage>> \o kept) |-> GroqTurn((<<SystemMessage>> \o kept)[i])]

(* An item of OpenAI's has one part of the message, a message of Groq's    *)
(* all of them.                                                            *)
LEMMA ItemsType ==
  ASSUME NEW message \in RequestMessages
  PROVE  /\ Items(message) \in Seq(RequestTurns) /\ Len(Items(message)) = Len(Parts(message))
         /\ GroqTurn(message) \in RequestTurns /\ GroqTurn(message).parts = Parts(message)
         /\ \A i \in 1..Len(Parts(message)) : Items(message)[i].parts = <<Parts(message)[i]>>
<1>1. Parts(message) \in Seq(RequestParts)
  BY PartsType
<1>2. message.role \in {"system", "user", "assistant", "tool"}
  BY DEF RequestMessages
<1>3. ASSUME NEW i \in 1..Len(Parts(message))
      PROVE  [role |-> message.role, parts |-> <<Parts(message)[i]>>] \in RequestTurns
  <2>1. <<Parts(message)[i]>> \in Seq(RequestParts)
    BY <1>1
  <2> QED BY <1>2, <2>1 DEF RequestTurns
<1>4. GroqTurn(message) \in RequestTurns /\ GroqTurn(message).parts = Parts(message)
  BY <1>1, <1>2 DEF RequestTurns, GroqTurn
<1>5. Len(Parts(message)) \in Nat
  BY <1>1
<1> QED
  BY <1>3, <1>4, <1>5 DEF Items

(* One more message adds its items.                                        *)
LEMMA OpenAIOfAppend ==
  ASSUME NEW kept \in Seq(RequestMessages), NEW message \in RequestMessages
  PROVE  /\ OpenAIItems(kept) \in Seq(RequestTurns) /\ OpenAIItems(<<>>) = <<>>
         /\ OpenAIItems(Append(kept, message)) = OpenAIItems(kept) \o Items(message)
<1> DEFINE seqs == [i \in 1..Len(kept) |-> Items(kept[i])]
           more == Append(kept, message)
<1>1. \A i \in 1..Len(kept) : Items(kept[i]) \in Seq(RequestTurns)
  <2>1. \A i \in 1..Len(kept) : kept[i] \in RequestMessages
    OBVIOUS
  <2> QED BY <2>1, ItemsType
<1>2. seqs \in Seq(Seq(RequestTurns)) /\ Items(message) \in Seq(RequestTurns)
  BY <1>1, ItemsType
<1>3. [i \in 1..Len(more) |-> Items(more[i])] = Append(seqs, Items(message))
  OBVIOUS
<1>4. [i \in 1..Len(<<>>) |-> Items(<<>>[i])] = <<>>
  OBVIOUS
<1> HIDE DEF seqs
<1>5. OpenAIItems(kept) = FlattenSeq(seqs)
  BY DEF OpenAIItems, seqs
<1>6. OpenAIItems(more) = FlattenSeq(Append(seqs, Items(message)))
  BY <1>3 DEF OpenAIItems
<1>7. OpenAIItems(<<>>) = FlattenSeq(<<>>)
  BY <1>4 DEF OpenAIItems
<1> QED
  BY <1>2, <1>5, <1>6, <1>7, FlattenOfAppend

(* The items have the parts of their message.                              *)
LEMMA PartsOfItems ==
  ASSUME NEW items \in Seq(RequestTurns), NEW message \in RequestMessages
  PROVE  PartsOf(items \o Items(message)) = PartsOf(items) \o Parts(message)
<1> DEFINE added == Items(message)
           parts == Parts(message)
           n == Len(parts)
           P == {j \in 0..n : PartsOf(items \o SubSeq(added, 1, j))
                                = PartsOf(items) \o SubSeq(parts, 1, j)}
<1>1. /\ parts \in Seq(RequestParts) /\ added \in Seq(RequestTurns) /\ Len(added) = n
      /\ \A i \in 1..n : added[i].parts = <<parts[i]>>
  BY PartsType, ItemsType
<1>2. n \in Nat
  BY <1>1
<1>3. PartsOf(items) \in Seq(RequestParts)
  <2>1. [role |-> "user", parts |-> <<>>] \in RequestTurns
    BY DEF RequestTurns
  <2> QED BY <2>1, PartsOfAppend
<1> HIDE DEF added, parts, n
<1>4. 0 \in P
  <2>1. SubSeq(added, 1, 0) = <<>> /\ SubSeq(parts, 1, 0) = <<>>
    BY <1>1, PrefixIs
  <2>2. items \o <<>> = items /\ PartsOf(items) \o <<>> = PartsOf(items)
    BY <1>3
  <2>3. PartsOf(items \o SubSeq(added, 1, 0)) = PartsOf(items) \o SubSeq(parts, 1, 0)
    BY <2>1, <2>2
  <2> QED BY <1>2, <2>3
<1>5. ASSUME NEW j \in 1..n, j - 1 \in P
      PROVE  j \in P
  <2> DEFINE shorter == items \o SubSeq(added, 1, j - 1)
             before == SubSeq(parts, 1, j - 1)
  <2>1. /\ SubSeq(added, 1, j - 1) \in Seq(RequestTurns) /\ added[j] \in RequestTurns
        /\ SubSeq(added, 1, j) = Append(SubSeq(added, 1, j - 1), added[j])
    BY <1>1, PrefixIs
  <2>2. /\ before \in Seq(RequestParts) /\ parts[j] \in RequestParts
        /\ SubSeq(parts, 1, j) = Append(before, parts[j])
    BY <1>1, PrefixIs DEF n
  <2>3. shorter \in Seq(RequestTurns) /\ items \o SubSeq(added, 1, j) = Append(shorter, added[j])
    BY <2>1, JoinAppend
  <2>4. PartsOf(shorter) = PartsOf(items) \o before
    BY <1>5
  <2> HIDE DEF shorter, before
  <2>5. PartsOf(Append(shorter, added[j])) = PartsOf(shorter) \o <<parts[j]>>
    <3>1. added[j].parts = <<parts[j]>>
      BY <1>1
    <3> QED BY <2>1, <2>3, <3>1, PartsOfAppend
  <2>6. PartsOf(shorter) \o <<parts[j]>> = PartsOf(items) \o Append(before, parts[j])
    <3>1. PartsOf(items) \o before \in Seq(RequestParts)
      BY <1>3, <2>2, JoinAppend
    <3>2. (PartsOf(items) \o before) \o <<parts[j]>> = Append(PartsOf(items) \o before, parts[j])
      BY <2>2, <3>1, JoinAppend
    <3> QED BY <1>3, <2>2, <2>4, <3>2, JoinAppend, SMTT(20)
  <2>7. PartsOf(items \o SubSeq(added, 1, j)) = PartsOf(items) \o SubSeq(parts, 1, j)
    BY <2>2, <2>3, <2>5, <2>6
  <2> QED BY <1>2, <2>7
<1> HIDE DEF P
<1>6. \A j \in 0..n : j \in P
  BY <1>2, <1>4, <1>5, UpTo
<1>7. PartsOf(items \o SubSeq(added, 1, n)) = PartsOf(items) \o SubSeq(parts, 1, n)
  <2>1. n \in P
    BY <1>2, <1>6
  <2> QED BY <2>1 DEF P
<1>8. SubSeq(added, 1, n) = added /\ SubSeq(parts, 1, n) = parts
  BY <1>1, PrefixIs DEF n
<1> QED
  BY <1>7, <1>8 DEF added, parts

(* One more message adds its turn; the system prompt comes first.          *)
LEMMA GroqOfAppend ==
  ASSUME NEW kept \in Seq(RequestMessages), NEW message \in RequestMessages
  PROVE  /\ GroqTurns(kept) \in Seq(RequestTurns)
         /\ GroqTurns(<<>>) = <<GroqTurn(SystemMessage)>>
         /\ GroqTurns(Append(kept, message)) = Append(GroqTurns(kept), GroqTurn(message))
<1> DEFINE all == <<SystemMessage>> \o kept
           more == <<SystemMessage>> \o Append(kept, message)
<1>1. SystemMessage \in RequestMessages
  BY DEF SystemMessage, RequestMessages
<1>2. all \in Seq(RequestMessages) /\ more = Append(all, message)
  BY <1>1
<1>3. <<SystemMessage>> \o <<>> = <<SystemMessage>>
  OBVIOUS
<1> HIDE DEF all, more
<1>4. \A i \in 1..Len(all) : GroqTurn(all[i]) \in RequestTurns
  <2>1. \A i \in 1..Len(all) : all[i] \in RequestMessages
    BY <1>2
  <2> QED BY <2>1, ItemsType
<1>5. GroqTurns(kept) = [i \in 1..Len(all) |-> GroqTurn(all[i])]
  BY DEF GroqTurns, all
<1>6. GroqTurns(kept) \in Seq(RequestTurns)
  BY <1>2, <1>4, <1>5
<1>7. GroqTurns(Append(kept, message)) = [i \in 1..Len(more) |-> GroqTurn(more[i])]
  BY DEF GroqTurns, more
<1>8. [i \in 1..Len(more) |-> GroqTurn(more[i])]
        = Append([i \in 1..Len(all) |-> GroqTurn(all[i])], GroqTurn(message))
  BY <1>2
<1>9. GroqTurns(<<>>) = <<GroqTurn(SystemMessage)>>
  BY <1>3 DEF GroqTurns
<1> QED
  BY <1>5, <1>6, <1>7, <1>8, <1>9

(* A part that joins a turn, or makes one, is added at the end.            *)
LEMMA PartsOfAppendPart ==
  ASSUME NEW turns \in Seq(RequestTurns), NEW part \in RequestParts
  PROVE  PartsOf(AppendPart(turns, "user", part)) = PartsOf(turns) \o <<part>>
<1>1. CASE turns # <<>> /\ Last(turns).role = "user"
  <2> DEFINE front == Front(turns)
             last == Last(turns)
             longer == [role |-> "user", parts |-> Append(last.parts, part)]
  <2>1. last \in RequestTurns /\ front \in Seq(RequestTurns) /\ turns = Append(front, last)
    BY <1>1 DEF Last, Front
  <2>2. AppendPart(turns, "user", part) = Append(front, longer)
    BY <1>1 DEF AppendPart
  <2> HIDE DEF front, last
  <2>3. last.parts \in Seq(RequestParts) /\ Append(last.parts, part) \in Seq(RequestParts)
    BY <2>1 DEF RequestTurns
  <2>4. longer \in RequestTurns /\ longer.parts = Append(last.parts, part)
    BY <2>3 DEF RequestTurns
  <2> HIDE DEF longer
  <2>5. /\ PartsOf(front) \in Seq(RequestParts)
        /\ PartsOf(turns) = PartsOf(front) \o last.parts
        /\ PartsOf(Append(front, longer)) = PartsOf(front) \o Append(last.parts, part)
    BY <2>1, <2>4, PartsOfAppend
  <2>6. PartsOf(front) \o last.parts \in Seq(RequestParts)
    BY <2>3, <2>5, JoinAppend
  <2>7. (PartsOf(front) \o last.parts) \o <<part>> = Append(PartsOf(front) \o last.parts, part)
    BY <2>6, JoinAppend
  <2>8. PartsOf(front) \o Append(last.parts, part) = Append(PartsOf(front) \o last.parts, part)
    BY <2>3, <2>5, JoinAppend
  <2> QED BY <2>2, <2>5, <2>7, <2>8
<1>2. CASE ~(turns # <<>> /\ Last(turns).role = "user")
  <2> DEFINE turn == [role |-> "user", parts |-> <<part>>]
  <2>1. turn \in RequestTurns /\ turn.parts = <<part>>
    BY DEF RequestTurns
  <2>2. AppendPart(turns, "user", part) = Append(turns, turn)
    BY <1>2 DEF AppendPart
  <2> HIDE DEF turn
  <2> QED BY <2>1, <2>2, PartsOfAppend
<1> QED
  BY <1>1, <1>2

(* A turn has the parts of its message; a system message is no turn.       *)
LEMMA PartsOfAddTurn ==
  ASSUME NEW turns \in Seq(RequestTurns), NEW message \in RequestMessages
  PROVE  PartsOf(AddTurn(turns, message))
           = IF message.role = "system" THEN PartsOf(turns) ELSE PartsOf(turns) \o Parts(message)
<1>1. message.role \in {"system", "user", "assistant", "tool"}
  BY DEF RequestMessages
<1>2. CASE message.role = "system"
  BY <1>2 DEF AddTurn
<1>3. CASE message.role = "user"
  <2>1. AddTurn(turns, message) = AppendPart(turns, "user", Text) /\ Parts(message) = <<Text>>
    BY <1>3, PartsType DEF AddTurn
  <2>2. Text \in RequestParts
    BY DEF RequestParts
  <2> QED BY <1>3, <2>1, <2>2, PartsOfAppendPart
<1>4. CASE message.role = "assistant"
  <2> DEFINE turn == [role |-> "assistant", parts |-> Parts(message)]
  <2>1. AddTurn(turns, message) = Append(turns, turn)
    BY <1>4 DEF AddTurn
  <2>2. turn \in RequestTurns /\ turn.parts = Parts(message)
    BY PartsType DEF RequestTurns
  <2> HIDE DEF turn
  <2> QED BY <1>4, <2>1, <2>2, PartsOfAppend
<1>5. CASE message.role = "tool"
  <2>1. /\ AddTurn(turns, message) = AppendPart(turns, "user", ResultPart(message.call))
        /\ Parts(message) = <<ResultPart(message.call)>>
    BY <1>5, PartsType DEF AddTurn
  <2>2. message.call \in Nat
    BY <1>5 DEF RequestMessages
  <2>3. ResultPart(message.call) \in RequestParts
    BY <2>2 DEF RequestParts, ResultPart
  <2> QED BY <1>5, <2>1, <2>3, PartsOfAppendPart
<1> QED
  BY <1>1, <1>2, <1>3, <1>4, <1>5

-----------------------------------------------------------------------------
(* What the parts of a message do to the calls that are open.              *)

(* A reply opens its calls, in their order.                                *)
LEMMA OpenOfReply ==
  ASSUME NEW parts \in Seq(RequestParts), OpenCalls(parts) = <<>>,
         NEW message \in RequestMessages, message.role = "assistant"
  PROVE  OpenCalls(parts \o Parts(message)) = message.calls
<1> DEFINE calls == message.calls
           added == CallParts(message)
           n == Len(calls)
           begun == parts \o <<Text>>
           P == {j \in 0..n : OpenCalls(begun \o SubSeq(added, 1, j)) = SubSeq(calls, 1, j)}
<1>1. /\ calls \in Seq(Nat) /\ added \in Seq(RequestParts) /\ Len(added) = n
      /\ Parts(message) = <<Text>> \o added /\ n \in Nat
      /\ \A i \in 1..n : added[i] = CallPart(calls[i])
  <2>1. calls \in Seq(Nat)
    BY PartsType
  <2> QED BY <2>1, PartsType
<1>2. Text \in RequestParts
  BY DEF RequestParts
<1>3. begun \in Seq(RequestParts) /\ begun = Append(parts, Text) /\ begun \o <<>> = begun
  BY <1>2
<1>4. OpenCalls(begun) = <<>>
  <2>1. AddPart(<<>>, Text) = <<>>
    BY DEF AddPart, Text
  <2> QED BY <1>2, <1>3, <2>1, OpenOfAppend
<1>5. begun \o added = parts \o Parts(message)
  BY <1>1, <1>2
<1> HIDE DEF begun, calls, added, n
<1>6. 0 \in P
  <2>1. SubSeq(added, 1, 0) = <<>> /\ SubSeq(calls, 1, 0) = <<>>
    BY <1>1, PrefixIs
  <2>2. OpenCalls(begun \o SubSeq(added, 1, 0)) = SubSeq(calls, 1, 0)
    BY <1>3, <1>4, <2>1
  <2> QED BY <1>1, <2>2
<1>7. ASSUME NEW j \in 1..n, j - 1 \in P
      PROVE  j \in P
  <2> DEFINE shorter == begun \o SubSeq(added, 1, j - 1)
  <2>1. /\ SubSeq(added, 1, j - 1) \in Seq(RequestParts) /\ added[j] \in RequestParts
        /\ SubSeq(added, 1, j) = Append(SubSeq(added, 1, j - 1), added[j])
    BY <1>1, PrefixIs
  <2>2. SubSeq(calls, 1, j) = Append(SubSeq(calls, 1, j - 1), calls[j])
    BY <1>1, PrefixIs DEF n
  <2>3. shorter \in Seq(RequestParts) /\ begun \o SubSeq(added, 1, j) = Append(shorter, added[j])
    <3>1. begun \in Seq(RequestParts)
      BY <1>3
    <3> QED BY <2>1, <3>1, JoinAppend
  <2>4. OpenCalls(shorter) = SubSeq(calls, 1, j - 1)
    BY <1>7
  <2> HIDE DEF shorter
  <2>5. OpenCalls(Append(shorter, added[j])) = AddPart(SubSeq(calls, 1, j - 1), added[j])
    BY <2>1, <2>3, <2>4, OpenOfAppend
  <2>6. AddPart(SubSeq(calls, 1, j - 1), added[j]) = SubSeq(calls, 1, j)
    <3>1. added[j].kind = "call" /\ added[j].call = calls[j]
      BY <1>1 DEF CallPart
    <3> QED BY <2>2, <3>1 DEF AddPart
  <2>7. OpenCalls(begun \o SubSeq(added, 1, j)) = SubSeq(calls, 1, j)
    BY <2>3, <2>5, <2>6
  <2> QED BY <1>1, <2>7
<1> HIDE DEF P
<1>8. \A j \in 0..n : j \in P
  BY <1>1, <1>6, <1>7, UpTo
<1>9. OpenCalls(begun \o SubSeq(added, 1, n)) = SubSeq(calls, 1, n)
  <2>1. n \in P
    BY <1>1, <1>8
  <2> QED BY <2>1 DEF P
<1>10. SubSeq(added, 1, n) = added /\ SubSeq(calls, 1, n) = calls
  BY <1>1, PrefixIs DEF n
<1> QED
  BY <1>5, <1>9, <1>10 DEF calls

(* A text opens none.                                                      *)
LEMMA OpenOfText ==
  ASSUME NEW parts \in Seq(RequestParts), OpenCalls(parts) = <<>>,
         NEW message \in RequestMessages, message.role \in {"system", "user"}
  PROVE  OpenCalls(parts \o Parts(message)) = <<>>
<1>1. Parts(message) = <<Text>> /\ Text \in RequestParts
  BY PartsType DEF RequestParts
<1>2. parts \o <<Text>> = Append(parts, Text)
  BY <1>1, JoinAppend
<1>3. AddPart(<<>>, Text) = <<>>
  BY DEF AddPart, Text
<1> QED
  BY <1>1, <1>2, <1>3, OpenOfAppend

(* A result of the first open call closes it.                              *)
LEMMA OpenOfResult ==
  ASSUME NEW parts \in Seq(RequestParts),
         NEW message \in RequestMessages, message.role = "tool",
         OpenCalls(parts) # <<>>, Head(OpenCalls(parts)) = message.call
  PROVE  OpenCalls(parts \o Parts(message)) = Tail(OpenCalls(parts))
<1> DEFINE part == ResultPart(message.call)
<1>1. Parts(message) = <<part>> /\ message.call \in Nat
  BY PartsType DEF RequestMessages
<1>2. part \in RequestParts /\ part.kind = "result" /\ part.call = message.call
  BY <1>1 DEF RequestParts, ResultPart
<1> HIDE DEF part
<1>3. parts \o <<part>> = Append(parts, part)
  BY <1>2, JoinAppend
<1>4. AddPart(OpenCalls(parts), part) = Tail(OpenCalls(parts))
  BY <1>2 DEF AddPart
<1> QED
  BY <1>1, <1>2, <1>3, <1>4, OpenOfAppend

-----------------------------------------------------------------------------
(* The calls and the results among the parts of one message.               *)

(* The calls of a reply are those among its parts.                         *)
LEMMA CallsOfReply ==
  ASSUME NEW message \in RequestMessages, message.role = "assistant"
  PROVE  CallsIn(Parts(message), "call") = message.calls
<1> DEFINE calls == message.calls
           added == CallParts(message)
           n == Len(calls)
           begun == <<Text>>
           P == {j \in 0..n : CallsIn(begun \o SubSeq(added, 1, j), "call") = SubSeq(calls, 1, j)}
<1>1. /\ calls \in Seq(Nat) /\ added \in Seq(RequestParts) /\ Len(added) = n
      /\ Parts(message) = begun \o added /\ n \in Nat
      /\ \A i \in 1..n : added[i] = CallPart(calls[i])
  <2>1. calls \in Seq(Nat)
    BY PartsType
  <2> QED BY <2>1, PartsType
<1>2. Text \in RequestParts
  BY DEF RequestParts
<1>3. begun \in Seq(RequestParts) /\ begun = Append(<<>>, Text) /\ begun \o <<>> = begun
  BY <1>2
<1>4. CallsIn(begun, "call") = <<>>
  <2>1. <<>> \in Seq(RequestParts) /\ Text.kind # "call"
    BY DEF Text
  <2> HIDE DEF begun
  <2> QED BY <1>2, <1>3, <2>1, CallsOfAppend
<1> HIDE DEF begun, calls, added, n
<1>6. 0 \in P
  <2>1. SubSeq(added, 1, 0) = <<>> /\ SubSeq(calls, 1, 0) = <<>>
    BY <1>1, PrefixIs
  <2>2. CallsIn(begun \o SubSeq(added, 1, 0), "call") = SubSeq(calls, 1, 0)
    BY <1>3, <1>4, <2>1
  <2> QED BY <1>1, <2>2
<1>7. ASSUME NEW j \in 1..n, j - 1 \in P
      PROVE  j \in P
  <2> DEFINE shorter == begun \o SubSeq(added, 1, j - 1)
  <2>1. /\ SubSeq(added, 1, j - 1) \in Seq(RequestParts) /\ added[j] \in RequestParts
        /\ SubSeq(added, 1, j) = Append(SubSeq(added, 1, j - 1), added[j])
    BY <1>1, PrefixIs
  <2>2. SubSeq(calls, 1, j) = Append(SubSeq(calls, 1, j - 1), calls[j])
    BY <1>1, PrefixIs DEF n
  <2>3. shorter \in Seq(RequestParts) /\ begun \o SubSeq(added, 1, j) = Append(shorter, added[j])
    BY <1>3, <2>1, JoinAppend
  <2>4. CallsIn(shorter, "call") = SubSeq(calls, 1, j - 1)
    BY <1>7
  <2>5. added[j].kind = "call" /\ added[j].call = calls[j]
    BY <1>1 DEF CallPart
  <2> HIDE DEF shorter
  <2>6. CallsIn(Append(shorter, added[j]), "call") = SubSeq(calls, 1, j)
    BY <2>1, <2>2, <2>3, <2>4, <2>5, CallsOfAppend
  <2>7. CallsIn(begun \o SubSeq(added, 1, j), "call") = SubSeq(calls, 1, j)
    BY <2>3, <2>6
  <2> QED BY <1>1, <2>7
<1> HIDE DEF P
<1>8. \A j \in 0..n : j \in P
  BY <1>1, <1>6, <1>7, UpTo
<1>9. CallsIn(begun \o SubSeq(added, 1, n), "call") = SubSeq(calls, 1, n)
  <2>1. n \in P
    BY <1>1, <1>8
  <2> QED BY <2>1 DEF P
<1>10. SubSeq(added, 1, n) = added /\ SubSeq(calls, 1, n) = calls
  BY <1>1, PrefixIs DEF n
<1> QED
  BY <1>1, <1>9, <1>10 DEF calls

(* A text or a result has no call, and at most one result.                 *)
LEMMA CallsOfOther ==
  ASSUME NEW parts \in Seq(RequestParts), NEW part \in RequestParts, part.kind # "call"
  PROVE  /\ CallsIn(Append(parts, part), "call") = CallsIn(parts, "call")
         /\ CallsIn(<<part>>, "call") = <<>> /\ CallsIn(<<part>>, "result") \in Seq(Nat)
         /\ CallsIn(parts, "result") \in Seq(Nat)
         /\ CallsIn(Append(parts, part), "result")
              = CallsIn(parts, "result") \o CallsIn(<<part>>, "result")
         /\ CallsIn(<<part>>, "result") = IF part.kind = "result" THEN <<part.call>> ELSE <<>>
<1>1. <<>> \in Seq(RequestParts) /\ <<part>> = Append(<<>>, part)
  OBVIOUS
<1>2. /\ CallsIn(Append(parts, part), "call") = CallsIn(parts, "call")
      /\ CallsIn(Append(<<>>, part), "call") = <<>>
  BY <1>1, CallsOfAppend
<1>3. /\ CallsIn(parts, "result") \in Seq(Nat)
      /\ CallsIn(Append(parts, part), "result")
           = IF part.kind = "result" THEN Append(CallsIn(parts, "result"), part.call)
             ELSE CallsIn(parts, "result")
      /\ CallsIn(Append(<<>>, part), "result")
           = IF part.kind = "result" THEN Append(<<>>, part.call) ELSE <<>>
  BY <1>1, CallsOfAppend
<1>4. CASE part.kind = "result"
  <2>1. part.call \in Nat
    BY <1>4 DEF RequestParts, Text
  <2>2. Append(<<>>, part.call) = <<part.call>> /\ <<part.call>> \in Seq(Nat)
    BY <2>1
  <2>3. Append(CallsIn(parts, "result"), part.call) = CallsIn(parts, "result") \o <<part.call>>
    <3>1. CallsIn(parts, "result") \in Seq(Nat)
      BY <1>3
    <3>2. \A r \in Seq(Nat), x \in Nat : Append(r, x) = r \o <<x>>
      OBVIOUS
    <3> QED BY <2>1, <3>1, <3>2, Zenon
  <2> QED BY <1>1, <1>2, <1>3, <1>4, <2>2, <2>3
<1>5. CASE part.kind # "result"
  <2>1. CallsIn(parts, "result") \o <<>> = CallsIn(parts, "result")
    BY <1>3
  <2>2. <<>> \in Seq(Nat)
    OBVIOUS
  <2> QED BY <1>1, <1>2, <1>3, <1>5, <2>1, <2>2
<1> QED
  BY <1>4, <1>5

-----------------------------------------------------------------------------
(* IsAnsweredInNextTurn while `open' are the calls of the last reply that  *)
(* have no result yet.                                                     *)
CallsOf(turn) == CallsIn(turn.parts, "call")
AnswersOf(turn) == CallsIn(turn.parts, "result")
AnsweredAt(turns, i, open) ==
    CallsOf(turns[i]) # <<>> =>
        \/ i = Len(turns) /\ turns[i].role = "assistant" /\ CallsOf(turns[i]) = open
        \/ /\ i + 1 = Len(turns) /\ turns[i + 1].role = "user"
           /\ CallsOf(turns[i]) = AnswersOf(turns[i + 1]) \o open
        \/ /\ i + 1 < Len(turns) /\ turns[i + 1].role = "user"
           /\ CallsOf(turns[i]) = AnswersOf(turns[i + 1])
Continues(open, part, left) == open = CallsIn(<<part>>, "result") \o left
AnsweredSoFar(turns, open) == \A i \in 1..Len(turns) : AnsweredAt(turns, i, open)

(* The calls and the results of a turn are numbers.                        *)
LEMMA TurnTypes ==
  ASSUME NEW turn \in RequestTurns
  PROVE  /\ turn.parts \in Seq(RequestParts)
         /\ CallsOf(turn) \in Seq(Nat) /\ AnswersOf(turn) \in Seq(Nat)
<1>1. turn.parts \in Seq(RequestParts) /\ Text \in RequestParts
  BY DEF RequestTurns, RequestParts
<1> QED
  BY <1>1, CallsOfAppend DEF CallsOf, AnswersOf

Associates(s, t, u) == s \o (t \o u) = (s \o t) \o u

(* Joining is associative.                                                 *)
LEMMA JoinAssociates ==
  ASSUME NEW s \in Seq(Nat), NEW t \in Seq(Nat), NEW u \in Seq(Nat)
  PROVE  Associates(s, t, u)
BY SMTT(20) DEF Associates

(* A result of the first open call joins the results of the turn that      *)
(* follows the reply, and a text no call waits for.                        *)
LEMMA AppendPartAnswers ==
  ASSUME NEW turns \in Seq(RequestTurns), NEW part \in RequestParts, part.kind # "call",
         NEW open \in Seq(Nat), NEW left \in Seq(Nat), AnsweredSoFar(turns, open),
         Continues(open, part, left)
  PROVE  AnsweredSoFar(AppendPart(turns, "user", part), left)
<1> DEFINE n == Len(turns)
           answers == CallsIn(<<part>>, "result")
<1>1. n \in Nat /\ \A i \in 1..n : turns[i] \in RequestTurns
  OBVIOUS
<1>2. answers \in Seq(Nat) /\ open = answers \o left /\ CallsIn(<<part>>, "call") = <<>>
  <2>1. <<>> \in Seq(RequestParts)
    OBVIOUS
  <2> QED BY <2>1, CallsOfOther DEF Continues
<1>3. \A i \in 1..n : AnsweredAt(turns, i, open)
  BY DEF AnsweredSoFar
<1> HIDE DEF n, answers
<1>4. CASE turns # <<>> /\ Last(turns).role = "user"
  <2> DEFINE last == Last(turns)
             longer == [role |-> "user", parts |-> Append(last.parts, part)]
             grown == Append(Front(turns), longer)
  <2>1. AppendPart(turns, "user", part) = grown
    BY <1>4 DEF AppendPart
  <2>2. n \in 1..n /\ last = turns[n] /\ last \in RequestTurns /\ last.role = "user"
    BY <1>4 DEF Last, n
  <2>3. /\ Len(grown) = n /\ grown[n] = longer
        /\ \A i \in 1..(n - 1) : grown[i] = turns[i]
    <3> DEFINE front == Front(turns)
    <3>1. /\ front \in Seq(RequestTurns) /\ Len(front) = n - 1
          /\ \A i \in 1..(n - 1) : front[i] = turns[i]
      <4>1. front = SubSeq(turns, 1, n - 1)
        BY DEF Front, n
      <4>2. n - 1 <= n /\ 1 <= (n - 1) + 1 /\ n - 1 \in Nat
        BY <2>2, <1>1
      <4>3. front = [i \in 1..(n - 1) |-> turns[i]]
        BY <4>1, <4>2 DEF n
      <4>4. \A i \in 1..(n - 1) : turns[i] \in RequestTurns
        BY <1>1
      <4> HIDE DEF front
      <4> QED BY <4>2, <4>3, <4>4
    <3>2. grown = Append(front, longer)
      OBVIOUS
    <3>3. n - 1 \in Nat /\ (n - 1) + 1 = n
      BY <2>2, <1>1
    <3> HIDE DEF front, longer, grown
    <3> QED BY <3>1, <3>2, <3>3
  <2>4. last.parts \in Seq(RequestParts) /\ AnswersOf(last) \in Seq(Nat)
    BY <2>2, TurnTypes
  <2>5. CallsOf(longer) = CallsOf(last) /\ AnswersOf(longer) = AnswersOf(last) \o answers
    BY <2>4, CallsOfOther DEF CallsOf, AnswersOf, answers
  <2>6. longer.role = "user"
    OBVIOUS
  <2> HIDE DEF last, longer, grown
  <2>7. ASSUME NEW i \in 1..n, CallsOf(grown[i]) # <<>>
        PROVE  AnsweredAt(grown, i, left)
    <3>1. AnsweredAt(turns, i, open)
      BY <1>3
    <3>2. CASE i = n
      <4>1. CallsOf(turns[n]) # <<>>
        BY <2>2, <2>3, <2>5, <2>7, <3>2
      <4>2. turns[n].role = "assistant"
        BY <1>1, <3>1, <3>2, <4>1 DEF AnsweredAt, n
      <4> QED BY <2>2, <4>2
    <3>3. CASE i # n
      <4>1. i \in 1..(n - 1) /\ grown[i] = turns[i] /\ CallsOf(turns[i]) # <<>>
        BY <1>1, <2>3, <2>7, <3>3
      <4>2. CASE i + 1 = n
        <5>1. CallsOf(turns[i]) = AnswersOf(last) \o open
          <6>1. i # Len(turns) /\ ~(i + 1 < Len(turns)) /\ turns[i + 1] = last
            BY <1>1, <2>2, <4>2 DEF n
          <6>2. CallsOf(turns[i]) = AnswersOf(turns[i + 1]) \o open
            BY <3>1, <4>1, <6>1, Zenon DEF AnsweredAt
          <6> QED BY <6>1, <6>2, Zenon
        <5>2. AnswersOf(last) \o (answers \o left) = (AnswersOf(last) \o answers) \o left
          <6>1. left \in Seq(Nat) /\ answers \in Seq(Nat) /\ AnswersOf(last) \in Seq(Nat)
            BY <1>2, <2>4
          <6>2. Associates(AnswersOf(last), answers, left)
            BY <6>1, JoinAssociates
          <6> QED BY <6>2, Zenon DEF Associates
        <5>3. CallsOf(grown[i]) = AnswersOf(grown[i + 1]) \o left
          BY <1>2, <2>3, <2>5, <4>1, <4>2, <5>1, <5>2
        <5> QED BY <2>3, <2>6, <4>2, <5>3 DEF AnsweredAt
      <4>3. CASE i + 1 # n
        <5>1. i + 1 \in 1..(n - 1) /\ i + 1 < n /\ grown[i + 1] = turns[i + 1]
          <6>1. i + 1 \in 1..(n - 1) /\ i + 1 < n
            BY <1>1, <4>1, <4>3
          <6> QED BY <2>3, <6>1
        <5>2. turns[i + 1].role = "user" /\ CallsOf(turns[i]) = AnswersOf(turns[i + 1])
          BY <1>1, <3>1, <4>1, <4>3, <5>1 DEF AnsweredAt, n
        <5> QED BY <2>3, <4>1, <5>1, <5>2 DEF AnsweredAt
      <4> QED BY <4>2, <4>3
    <3> QED BY <3>2, <3>3
  <2>8. \A i \in 1..n : AnsweredAt(grown, i, left)
    BY <2>7 DEF AnsweredAt
  <2> QED BY <2>1, <2>3, <2>8 DEF AnsweredSoFar
<1>5. CASE ~(turns # <<>> /\ Last(turns).role = "user")
  <2> DEFINE turn == [role |-> "user", parts |-> <<part>>]
             grown == Append(turns, turn)
  <2>1. AppendPart(turns, "user", part) = grown
    BY <1>5 DEF AppendPart
  <2>2. CallsOf(turn) = <<>> /\ AnswersOf(turn) = answers /\ turn.role = "user"
    BY <1>2 DEF CallsOf, AnswersOf, answers
  <2>3. n # 0 => turns[n].role # "user"
    BY <1>5 DEF Last, n
  <2>4. Len(grown) = n + 1 /\ grown[n + 1] = turn /\ \A i \in 1..n : grown[i] = turns[i]
    BY DEF n
  <2> HIDE DEF turn, grown
  <2>5. ASSUME NEW i \in 1..(n + 1), CallsOf(grown[i]) # <<>>
        PROVE  AnsweredAt(grown, i, left)
    <3>1. i \in 1..n /\ grown[i] = turns[i] /\ CallsOf(turns[i]) # <<>>
      BY <1>1, <2>2, <2>4, <2>5
    <3>2. AnsweredAt(turns, i, open)
      BY <1>3, <3>1
    <3>3. CASE i = n
      <4>1. CallsOf(turns[i]) = open
        <5>1. ~(i + 1 = Len(turns)) /\ ~(i + 1 < Len(turns))
          BY <1>1, <3>3 DEF n
        <5> QED BY <3>1, <3>2, <5>1, Zenon DEF AnsweredAt
      <4>2. CallsOf(grown[i]) = AnswersOf(grown[i + 1]) \o left
        BY <1>2, <2>2, <2>4, <3>1, <3>3, <4>1
      <4> QED BY <2>2, <2>4, <3>3, <4>2 DEF AnsweredAt
    <3>4. CASE i + 1 = n
      <4>1. turns[n].role = "user"
        BY <1>1, <3>1, <3>2, <3>4 DEF AnsweredAt, n
      <4> QED BY <1>1, <2>3, <3>4, <4>1
    <3>5. CASE i # n /\ i + 1 # n
      <4>1. i + 1 \in 1..n /\ i + 1 < n + 1 /\ grown[i + 1] = turns[i + 1]
        <5> HIDE DEF n
        <5>1. n \in Nat /\ i \in 1..n /\ i # n
          BY <1>1, <3>1, <3>5
        <5>2. i + 1 \in 1..n /\ i + 1 < n + 1
          BY <5>1
        <5> QED BY <2>4, <5>2
      <4>2. turns[i + 1].role = "user" /\ CallsOf(turns[i]) = AnswersOf(turns[i + 1])
        BY <1>1, <3>1, <3>2, <3>5 DEF AnsweredAt, n
      <4> QED BY <2>4, <3>1, <4>1, <4>2 DEF AnsweredAt
    <3> QED BY <3>3, <3>4, <3>5
  <2>6. \A i \in 1..(n + 1) : AnsweredAt(grown, i, left)
    BY <2>5 DEF AnsweredAt
  <2> QED BY <2>1, <2>4, <2>6 DEF AnsweredSoFar
<1> QED
  BY <1>4, <1>5

(* A reply that comes when nothing is open waits for its own results.      *)
LEMMA ReplyAnswers ==
  ASSUME NEW turns \in Seq(RequestTurns), AnsweredSoFar(turns, <<>>),
         NEW turn \in RequestTurns, turn.role = "assistant"
  PROVE  AnsweredSoFar(Append(turns, turn), CallsOf(turn))
<1> DEFINE n == Len(turns)
           grown == Append(turns, turn)
<1>1. n \in Nat /\ \A i \in 1..n : turns[i] \in RequestTurns
  OBVIOUS
<1>2. Len(grown) = n + 1 /\ grown[n + 1] = turn /\ \A i \in 1..n : grown[i] = turns[i]
  OBVIOUS
<1> HIDE DEF n, grown
<1>3. ASSUME NEW i \in 1..(n + 1), CallsOf(grown[i]) # <<>>
      PROVE  AnsweredAt(grown, i, CallsOf(turn))
  <2>1. CASE i = n + 1
    BY <1>2, <2>1 DEF AnsweredAt
  <2>2. CASE i # n + 1
    <3>1. i \in 1..n /\ grown[i] = turns[i] /\ CallsOf(turns[i]) # <<>>
      BY <1>1, <1>2, <1>3, <2>2
    <3>2. AnsweredAt(turns, i, <<>>)
      BY <3>1 DEF AnsweredSoFar, n
    <3>3. i # n
      BY <3>1, <3>2 DEF AnsweredAt, n
    <3>4. i + 1 \in 1..n /\ i + 1 < n + 1 /\ grown[i + 1] = turns[i + 1]
      BY <1>1, <1>2, <3>1, <3>3
    <3>5. AnswersOf(turns[i + 1]) \o <<>> = AnswersOf(turns[i + 1])
      <4>1. AnswersOf(turns[i + 1]) \in Seq(Nat)
        BY <1>1, <3>4, TurnTypes
      <4> QED BY <4>1
    <3>6. turns[i + 1].role = "user" /\ CallsOf(turns[i]) = AnswersOf(turns[i + 1])
      BY <3>1, <3>2, <3>3, <3>5 DEF AnsweredAt, n
    <3> QED BY <1>2, <3>1, <3>4, <3>6 DEF AnsweredAt
  <2> QED BY <2>1, <2>2
<1>4. \A i \in 1..(n + 1) : AnsweredAt(grown, i, CallsOf(turn))
  BY <1>3 DEF AnsweredAt
<1> QED
  BY <1>2, <1>4 DEF AnsweredSoFar, grown

(* Once nothing is open every reply is answered by the turn after it.      *)
LEMMA AllAnswered ==
  ASSUME NEW turns \in Seq(RequestTurns), AnsweredSoFar(turns, <<>>)
  PROVE  IsAnsweredInNextTurn(turns)
<1> DEFINE n == Len(turns)
<1>1. n \in Nat /\ DOMAIN turns = 1..n /\ \A i \in 1..n : turns[i] \in RequestTurns
  OBVIOUS
<1> HIDE DEF n
<1>2. ASSUME NEW i \in 1..n, CallsIn(turns[i].parts, "call") # <<>>
      PROVE  /\ i < n /\ turns[i + 1].role = "user"
             /\ CallsIn(turns[i + 1].parts, "result") = CallsIn(turns[i].parts, "call")
  <2>1. AnsweredAt(turns, i, <<>>) /\ CallsOf(turns[i]) # <<>>
    BY <1>2 DEF AnsweredSoFar, CallsOf, n
  <2>2. i # n
    <3>1. SUFFICES ASSUME i = n
                   PROVE  FALSE
      OBVIOUS
    <3>2. ~(i + 1 = n) /\ ~(i + 1 < n)
      BY <1>1, <3>1
    <3> QED BY <2>1, <3>2, Zenon DEF AnsweredAt, n
  <2>3. i < n /\ i + 1 \in 1..n
    BY <1>1, <2>2
  <2>4. AnswersOf(turns[i + 1]) \o <<>> = AnswersOf(turns[i + 1])
    <3>1. turns[i + 1] \in RequestTurns
      BY <1>1, <2>3
    <3>2. AnswersOf(turns[i + 1]) \in Seq(Nat)
      BY <3>1, TurnTypes
    <3> QED BY <3>2
  <2>5. turns[i + 1].role = "user" /\ CallsOf(turns[i]) = AnswersOf(turns[i + 1])
    BY <2>1, <2>2, <2>4 DEF AnsweredAt, n
  <2> QED BY <2>3, <2>5 DEF CallsOf, AnswersOf
<1> QED
  BY <1>1, <1>2 DEF IsAnsweredInNextTurn, n

-----------------------------------------------------------------------------
(* The messages kept so far, translated: of each translation the calls     *)
(* `open' have no result yet.                                              *)
Translated(kept, open) ==
    /\ OpenCalls(PartsOf(OpenAIItems(kept))) = open
    /\ OpenCalls(PartsOf(GroqTurns(kept))) = open
    /\ OpenCalls(PartsOf(Turns(kept))) = open
    /\ AnsweredSoFar(Turns(kept), open)

(* What one more message adds to the parts of each translation.            *)
LEMMA PartsOfTranslations ==
  ASSUME NEW kept \in Seq(RequestMessages), NEW message \in RequestMessages
  PROVE  /\ PartsOf(OpenAIItems(kept)) \in Seq(RequestParts)
         /\ PartsOf(GroqTurns(kept)) \in Seq(RequestParts)
         /\ PartsOf(Turns(kept)) \in Seq(RequestParts)
         /\ PartsOf(OpenAIItems(Append(kept, message)))
              = PartsOf(OpenAIItems(kept)) \o Parts(message)
         /\ PartsOf(GroqTurns(Append(kept, message)))
              = PartsOf(GroqTurns(kept)) \o Parts(message)
         /\ PartsOf(Turns(Append(kept, message)))
              = IF message.role = "system" THEN PartsOf(Turns(kept))
                ELSE PartsOf(Turns(kept)) \o Parts(message)
<1>1. /\ OpenAIItems(kept) \in Seq(RequestTurns) /\ GroqTurns(kept) \in Seq(RequestTurns)
      /\ Turns(kept) \in Seq(RequestTurns)
  BY OpenAIOfAppend, GroqOfAppend, TurnsOfAppend
<1>2. GroqTurn(message) \in RequestTurns /\ GroqTurn(message).parts = Parts(message)
  BY ItemsType
<1>3. /\ PartsOf(OpenAIItems(kept)) \in Seq(RequestParts)
      /\ PartsOf(GroqTurns(kept)) \in Seq(RequestParts)
      /\ PartsOf(Turns(kept)) \in Seq(RequestParts)
  BY <1>1, <1>2, PartsOfAppend
<1>4. PartsOf(OpenAIItems(Append(kept, message)))
        = PartsOf(OpenAIItems(kept)) \o Parts(message)
  BY <1>1, OpenAIOfAppend, PartsOfItems
<1>5. PartsOf(GroqTurns(Append(kept, message)))
        = PartsOf(GroqTurns(kept)) \o Parts(message)
  BY <1>1, <1>2, GroqOfAppend, PartsOfAppend
<1>6. PartsOf(Turns(Append(kept, message)))
        = IF message.role = "system" THEN PartsOf(Turns(kept))
          ELSE PartsOf(Turns(kept)) \o Parts(message)
  BY <1>1, TurnsOfAppend, PartsOfAddTurn
<1> QED
  BY <1>3, <1>4, <1>5, <1>6

(* Before the first message nothing is open: Groq's system prompt is text. *)
LEMMA NothingTranslated == Translated(<<>>, <<>>)
<1> DEFINE turn == GroqTurn(SystemMessage)
<1>1. /\ SystemMessage \in RequestMessages /\ SystemMessage.role = "system"
      /\ Text \in RequestParts /\ <<>> \in Seq(RequestMessages)
      /\ <<>> \in Seq(RequestTurns) /\ <<>> \in Seq(RequestParts)
  BY DEF SystemMessage, RequestMessages, RequestParts
<1>2. turn \in RequestTurns /\ turn.parts = Parts(SystemMessage)
  BY <1>1, ItemsType
<1> HIDE DEF turn
<1>3. /\ OpenAIItems(<<>>) = <<>> /\ GroqTurns(<<>>) = <<turn>> /\ Turns(<<>>) = <<>>
  BY <1>1, OpenAIOfAppend, GroqOfAppend, TurnsOfAppend DEF turn
<1>4. PartsOf(<<>>) = <<>> /\ PartsOf(Append(<<>>, turn)) = <<>> \o turn.parts
  BY <1>1, <1>2, PartsOfAppend
<1>5. OpenCalls(<<>>) = <<>> /\ OpenCalls(<<>> \o Parts(SystemMessage)) = <<>>
  <2>1. OpenCalls(<<>>) = <<>>
    BY <1>1, OpenOfAppend
  <2> QED BY <1>1, <2>1, OpenOfText
<1>6. Append(<<>>, turn) = <<turn>>
  OBVIOUS
<1>7. AnsweredSoFar(<<>>, <<>>)
  BY DEF AnsweredSoFar
<1> QED
  BY <1>2, <1>3, <1>4, <1>5, <1>6, <1>7 DEF Translated

(* A text ends no call and opens none.                                     *)
LEMMA TextTranslated ==
  ASSUME NEW kept \in Seq(RequestMessages), Translated(kept, <<>>),
         NEW message \in RequestMessages, message.role \in {"system", "user"}
  PROVE  Translated(Append(kept, message), <<>>)
<1> DEFINE more == Append(kept, message)
<1>1. /\ OpenCalls(PartsOf(OpenAIItems(more))) = <<>>
      /\ OpenCalls(PartsOf(GroqTurns(more))) = <<>>
      /\ OpenCalls(PartsOf(Turns(more))) = <<>>
  BY PartsOfTranslations, OpenOfText DEF Translated
<1>2. /\ Turns(kept) \in Seq(RequestTurns) /\ AnsweredSoFar(Turns(kept), <<>>)
      /\ Turns(more) = AddTurn(Turns(kept), message)
  BY TurnsOfAppend DEF Translated
<1>3. AnsweredSoFar(Turns(more), <<>>)
  <2>1. CASE message.role = "system"
    BY <1>2, <2>1 DEF AddTurn
  <2>2. CASE message.role = "user"
    <3>1. /\ Text \in RequestParts /\ Text.kind # "call" /\ Text.kind # "result"
          /\ <<>> \in Seq(Nat) /\ <<>> \in Seq(RequestParts)
      BY DEF RequestParts, Text
    <3>2. CallsIn(<<Text>>, "result") = <<>>
      BY <3>1, CallsOfOther
    <3>3. Continues(<<>>, Text, <<>>)
      BY <3>2 DEF Continues
    <3>4. AnsweredSoFar(AppendPart(Turns(kept), "user", Text), <<>>)
      BY <1>2, <3>1, <3>3, AppendPartAnswers
    <3>5. AddTurn(Turns(kept), message) = AppendPart(Turns(kept), "user", Text)
      BY <2>2 DEF AddTurn
    <3> QED BY <1>2, <3>4, <3>5
  <2> QED BY <2>1, <2>2
<1> QED
  BY <1>1, <1>3 DEF Translated

(* A reply opens its calls.                                                *)
LEMMA ReplyTranslated ==
  ASSUME NEW kept \in Seq(RequestMessages), Translated(kept, <<>>),
         NEW message \in RequestMessages, message.role = "assistant"
  PROVE  Translated(Append(kept, message), message.calls)
<1> DEFINE more == Append(kept, message)
           turn == [role |-> "assistant", parts |-> Parts(message)]
<1>1. /\ OpenCalls(PartsOf(OpenAIItems(more))) = message.calls
      /\ OpenCalls(PartsOf(GroqTurns(more))) = message.calls
      /\ OpenCalls(PartsOf(Turns(more))) = message.calls
  BY PartsOfTranslations, OpenOfReply DEF Translated
<1>2. /\ Turns(kept) \in Seq(RequestTurns) /\ AnsweredSoFar(Turns(kept), <<>>)
      /\ Turns(more) = AddTurn(Turns(kept), message)
  BY TurnsOfAppend DEF Translated
<1>3. Turns(more) = Append(Turns(kept), turn)
  BY <1>2 DEF AddTurn
<1>4. turn \in RequestTurns /\ turn.role = "assistant" /\ turn.parts = Parts(message)
  BY PartsType DEF RequestTurns
<1> HIDE DEF turn
<1>5. CallsOf(turn) = message.calls
  BY <1>4, CallsOfReply DEF CallsOf
<1>6. AnsweredSoFar(Append(Turns(kept), turn), CallsOf(turn))
  BY <1>2, <1>4, ReplyAnswers
<1> QED
  BY <1>1, <1>3, <1>5, <1>6 DEF Translated

(* A result closes the first open call.                                    *)
LEMMA ResultTranslated ==
  ASSUME NEW kept \in Seq(RequestMessages), NEW open \in Seq(Nat), Translated(kept, open),
         NEW message \in RequestMessages, message.role = "tool",
         open # <<>>, Head(open) = message.call
  PROVE  Translated(Append(kept, message), Tail(open))
<1> DEFINE more == Append(kept, message)
           part == ResultPart(message.call)
<1>1. /\ OpenCalls(PartsOf(OpenAIItems(more))) = Tail(open)
      /\ OpenCalls(PartsOf(GroqTurns(more))) = Tail(open)
      /\ OpenCalls(PartsOf(Turns(more))) = Tail(open)
  BY PartsOfTranslations, OpenOfResult DEF Translated
<1>2. /\ Turns(kept) \in Seq(RequestTurns) /\ AnsweredSoFar(Turns(kept), open)
      /\ Turns(more) = AddTurn(Turns(kept), message)
  BY TurnsOfAppend DEF Translated
<1>3. Turns(more) = AppendPart(Turns(kept), "user", part)
  BY <1>2 DEF AddTurn
<1>4. message.call \in Nat
  BY DEF RequestMessages
<1>5. /\ part \in RequestParts /\ part.kind = "result" /\ part.call = message.call
  BY <1>4 DEF RequestParts, ResultPart
<1> HIDE DEF part
<1>6. CallsIn(<<part>>, "result") = <<message.call>>
  <2>1. <<>> \in Seq(RequestParts)
    OBVIOUS
  <2> QED BY <1>5, <2>1, CallsOfOther
<1>7. Tail(open) \in Seq(Nat) /\ open = <<message.call>> \o Tail(open)
  OBVIOUS
<1>8. Continues(open, part, Tail(open))
  BY <1>6, <1>7 DEF Continues
<1>9. AnsweredSoFar(AppendPart(Turns(kept), "user", part), Tail(open))
  BY <1>2, <1>5, <1>7, <1>8, AppendPartAnswers
<1> QED
  BY <1>1, <1>3, <1>9 DEF Translated

(* Messages of which nothing is open make requests that are answered.      *)
LEMMA TranslatedAnswered ==
  ASSUME NEW messages, NEW kept \in Seq(RequestMessages),
         WithoutOrphanToolOutputs(messages) = kept, Translated(kept, <<>>)
  PROVE  /\ IsAnswered(OpenAIInput(messages)) /\ IsAnswered(GroqMessages(messages))
         /\ IsAnswered(AnthropicMessages(messages))
         /\ IsAnsweredInNextTurn(AnthropicMessages(messages))
         /\ IsAnswered(GeminiContents(messages))
         /\ IsAnsweredInNextTurn(GeminiContents(messages))
<1>1. OpenAIInput(messages) = OpenAIItems(kept)
  BY DEF OpenAIInput, OpenAIItems
<1>2. GroqMessages(messages) = GroqTurns(kept)
  BY DEF GroqMessages, GroqTurns, GroqTurn
<1>3. AnthropicMessages(messages) = Turns(kept) /\ GeminiContents(messages) = Turns(kept)
  BY DEF AnthropicMessages, GeminiContents
<1>4. SystemMessage \in RequestMessages
  BY DEF SystemMessage, RequestMessages
<1>5. Turns(kept) \in Seq(RequestTurns) /\ AnsweredSoFar(Turns(kept), <<>>)
  BY <1>4, TurnsOfAppend DEF Translated
<1>6. IsAnsweredInNextTurn(Turns(kept))
  BY <1>5, AllAnswered
<1> QED
  BY <1>1, <1>2, <1>3, <1>6 DEF Translated, IsAnswered

-----------------------------------------------------------------------------
(* The messages of a request along the history.                            *)

(* Every reply has all its results, and no call has two.                   *)
RepliesAreClosed ==
    /\ \A k \in 1..Len(history) : history[k].role = "assistant" =>
          /\ k + Len(history[k].calls) <= Len(history)
          /\ \A j \in 1..Len(history[k].calls) :
                history[k + j].role = "tool" /\ history[k + j].call = history[k].calls[j]
    /\ \A k, l \in 1..Len(history) :
          history[k].role = "tool" /\ history[l].role = "tool"
             /\ history[k].call = history[l].call => k = l

(* The entries after the first p begin with the results of `open'.         *)
Pending(p, open) ==
    /\ p + Len(open) <= Len(history)
    /\ \A j \in 1..Len(open) : history[p + j].role = "tool" /\ history[p + j].call = open[j]

(* The loop over the messages, after the first p entries: the calls it     *)
(* knows are those the next entries answer, which every translation of     *)
(* what it kept leaves open.                                               *)
Follows(p, filtered) ==
    \E open \in Seq(Nat) :
        /\ filtered.known = ToSet(open) /\ Translated(filtered.kept, open)
        /\ Pending(p, open)
Clear(filtered) == filtered.known = {} /\ Translated(filtered.kept, <<>>)

(* The message of an entry has its role, calls and call; an answer is a    *)
(* user's.                                                                 *)
LEMMA EntryMessage ==
  ASSUME NEW e \in Entries
  PROVE  /\ AgentMessage(e) \in RequestMessages
         /\ e.role \in {"user", "answer", "assistant", "tool"}
         /\ e.role \in {"user", "answer"} =>
               AgentMessage(e).role = "user" /\ AgentMessage(e).calls = <<>>
         /\ e.role = "assistant" => AgentMessage(e) = e /\ e.calls \in Seq(Nat)
         /\ e.role = "tool" =>
               /\ AgentMessage(e).role = "tool" /\ AgentMessage(e).call = e.call
               /\ e.call \in Nat
<1>1. CASE e.role \in {"user", "answer"}
  <2>1. AgentMessage(e) = [role |-> "user", calls |-> <<>>]
    BY <1>1 DEF AgentMessage
  <2> QED BY <1>1, <2>1 DEF RequestMessages
<1>2. CASE e.role = "assistant"
  <2>1. AgentMessage(e) = e
    BY <1>2 DEF AgentMessage
  <2>2. e \in [role : {"assistant"}, calls : Seq(Nat)]
    BY <1>2 DEF Entries
  <2> QED BY <1>2, <2>1, <2>2 DEF RequestMessages
<1>3. CASE e.role = "tool"
  <2>1. AgentMessage(e) = [role |-> "tool", calls |-> <<>>, call |-> e.call]
    BY <1>3 DEF AgentMessage
  <2>2. e.call \in Nat
    BY <1>3 DEF Entries
  <2> QED BY <1>3, <2>1, <2>2 DEF RequestMessages
<1> QED
  BY <1>1, <1>2, <1>3 DEF Entries

(* Nothing known is no open call, and the other way around.                *)
LEMMA NothingOpen ==
  /\ <<>> \in Seq(Nat) /\ ToSet(<<>>) = {} /\ Len(<<>>) = 0
  /\ \A open \in Seq(Nat) : ToSet(open) = {} => open = <<>>
<1>1. ASSUME NEW open \in Seq(Nat), ToSet(open) = {}
      PROVE  open = <<>>
  <2>1. Len(open) # 0 => open[1] \in ToSet(open)
    BY DEF ToSet
  <2> QED BY <1>1, <2>1
<1> QED
  BY <1>1 DEF ToSet

(* A system message, or an empty loop.                                     *)
LEMMA SystemKept ==
  /\ Clear(NothingKept)
  /\ \A filtered \in FilterStates : Clear(filtered) => Clear(Keep(filtered, SystemMessage))
<1>1. Clear(NothingKept)
  BY NothingTranslated DEF Clear, NothingKept
<1>2. ASSUME NEW filtered \in FilterStates, Clear(filtered)
      PROVE  Clear(Keep(filtered, SystemMessage))
  <2>1. SystemMessage \in RequestMessages
    BY DEF SystemMessage, RequestMessages
  <2>2. filtered.kept \in Seq(RequestMessages)
    BY DEF FilterStates
  <2>3. Translated(Append(filtered.kept, SystemMessage), <<>>)
    BY <1>2, <2>1, <2>2, TextTranslated DEF Clear, SystemMessage
  <2>4. Keep(filtered, SystemMessage)
          = [known |-> filtered.known \cup ToSet(<<>>),
             kept |-> Append(filtered.kept, SystemMessage)]
    BY DEF Keep, SystemMessage
  <2> QED BY <1>2, <2>3, <2>4, NothingOpen DEF Clear
<1> QED
  BY <1>1, <1>2

(* Where no call is open the loop follows the history from any place, and  *)
(* at its end none is.                                                     *)
LEMMA ClearFollows ==
  ASSUME AgentInv, NEW filtered \in FilterStates
  PROVE  /\ \A p \in 0..Len(history) : Clear(filtered) => Follows(p, filtered)
         /\ Follows(Len(history), filtered) => Clear(filtered)
<1>1. Len(history) \in Nat
  BY HistoryFacts
<1>2. ASSUME NEW p \in 0..Len(history), Clear(filtered)
      PROVE  Follows(p, filtered)
  <2>1. Pending(p, <<>>)
    BY <1>1 DEF Pending
  <2> QED BY <1>2, <2>1, NothingOpen DEF Clear, Follows
<1>3. ASSUME Follows(Len(history), filtered)
      PROVE  Clear(filtered)
  <2>1. PICK open \in Seq(Nat) :
           /\ filtered.known = ToSet(open) /\ Translated(filtered.kept, open)
           /\ Pending(Len(history), open)
    BY <1>3 DEF Follows
  <2>2. open = <<>>
    BY <1>1, <2>1 DEF Pending
  <2> QED BY <2>1, <2>2, NothingOpen DEF Clear
<1> QED
  BY <1>2, <1>3

(* The calls that come next have one result each, so the first is open     *)
(* once.                                                                   *)
LEMMA FirstOpen ==
  ASSUME AgentInv, RepliesAreClosed, NEW p \in Nat, NEW open \in Seq(Nat),
         Pending(p, open), open # <<>>
  PROVE  /\ p + 1 \in 1..Len(history) /\ history[p + 1].role = "tool"
         /\ history[p + 1].call = Head(open) /\ Head(open) \in ToSet(open)
         /\ Tail(open) \in Seq(Nat) /\ ToSet(open) \ {Head(open)} = ToSet(Tail(open))
         /\ Pending(p + 1, Tail(open))
<1> DEFINE n == Len(open)
           rest == Tail(open)
<1>1. Len(history) \in Nat
  BY HistoryFacts
<1>2. /\ n \in Nat /\ n >= 1 /\ Head(open) = open[1] /\ rest \in Seq(Nat)
      /\ Len(rest) = n - 1 /\ \A j \in 1..(n - 1) : rest[j] = open[j + 1]
  OBVIOUS
<1>3. /\ p + n <= Len(history)
      /\ \A j \in 1..n : history[p + j].role = "tool" /\ history[p + j].call = open[j]
  BY DEF Pending
<1>4. ToSet(open) = {open[j] : j \in 1..n} /\ ToSet(rest) = {rest[j] : j \in 1..(n - 1)}
  <2>1. DOMAIN open = 1..n /\ DOMAIN rest = 1..(n - 1)
    <3>1. \A s \in Seq(Nat) : DOMAIN s = 1..Len(s)
      OBVIOUS
    <3> HIDE DEF rest
    <3> QED BY <1>2, <3>1
  <2> HIDE DEF n, rest
  <2> QED BY <2>1 DEF ToSet
<1> HIDE DEF n, rest
<1>5. \A j \in 1..n : p + j \in 1..Len(history)
  BY <1>1, <1>2, <1>3
<1>6. \A j \in 1..n : open[j] = open[1] => j = 1
  <2> TAKE j \in 1..n
  <2> HAVE open[j] = open[1]
  <2>1. 1 \in 1..n
    BY <1>2
  <2>2. p + j = p + 1
    BY <1>3, <1>5, <2>1 DEF RepliesAreClosed
  <2> QED BY <2>2
<1>7. ToSet(open) \ {open[1]} = ToSet(rest)
  <2>1. ASSUME NEW x \in ToSet(open), x # open[1]
        PROVE  x \in ToSet(rest)
    <3>1. PICK j \in 1..n : x = open[j]
      BY <1>4
    <3>2. j - 1 \in 1..(n - 1) /\ (j - 1) + 1 = j
      BY <1>2, <2>1, <3>1
    <3>3. rest[j - 1] = open[j]
      BY <1>2, <3>2
    <3> QED BY <1>4, <3>1, <3>2, <3>3
  <2>2. ASSUME NEW x \in ToSet(rest)
        PROVE  x \in ToSet(open) /\ x # open[1]
    <3>1. PICK j \in 1..(n - 1) : x = rest[j]
      BY <1>4
    <3>2. j + 1 \in 1..n /\ j + 1 # 1 /\ x = open[j + 1]
      BY <1>2, <3>1
    <3> QED BY <1>4, <1>6, <3>2
  <2> QED BY <2>1, <2>2
<1>8. 1 \in 1..n /\ open[1] \in ToSet(open)
  BY <1>2, <1>4
<1>9. Pending(p + 1, rest)
  <2>1. ASSUME NEW j \in 1..(n - 1)
        PROVE  history[(p + 1) + j].role = "tool" /\ history[(p + 1) + j].call = rest[j]
    <3>1. j + 1 \in 1..n /\ (p + 1) + j = p + (j + 1) /\ rest[j] = open[j + 1]
      BY <1>2
    <3> QED BY <1>3, <3>1
  <2> QED BY <1>1, <1>2, <1>3, <2>1 DEF Pending
<1> QED
  BY <1>2, <1>3, <1>5, <1>7, <1>8, <1>9 DEF rest

(* One more entry of the history.                                          *)
LEMMA EntryKept ==
  ASSUME AgentInv, RepliesAreClosed, NEW p \in Nat, p + 1 <= Len(history),
         NEW filtered \in FilterStates, Follows(p, filtered)
  PROVE  Follows(p + 1, Keep(filtered, AgentMessage(history[p + 1])))
<1> DEFINE e == history[p + 1]
           message == AgentMessage(e)
           known == filtered.known
           kept == filtered.kept
<1>1. Len(history) \in Nat /\ p + 1 \in 1..Len(history) /\ e \in Entries
  <2>1. Len(history) \in Nat /\ history \in Seq(Entries)
    BY HistoryFacts
  <2> QED BY <2>1, ElementOfSeq
<1>2. PICK open \in Seq(Nat) :
         known = ToSet(open) /\ Translated(kept, open) /\ Pending(p, open)
  BY DEF Follows
<1>3. kept \in Seq(RequestMessages) /\ message \in RequestMessages
  BY <1>1, EntryMessage DEF FilterStates
<1>4. open # <<>> => e.role = "tool"
  BY <1>2, FirstOpen
<1> HIDE DEF message, known, kept
<1>5. CASE e.role \in {"user", "answer"}
  <2>1. open = <<>> /\ message.role = "user" /\ message.calls = <<>>
    BY <1>1, <1>4, <1>5, EntryMessage DEF message
  <2>2. Keep(filtered, message) = [known |-> known \cup ToSet(<<>>), kept |-> Append(kept, message)]
    BY <2>1 DEF Keep, known, kept
  <2>3. Translated(Append(kept, message), <<>>)
    BY <1>2, <1>3, <2>1, TextTranslated
  <2>4. Pending(p + 1, <<>>)
    BY <1>1 DEF Pending
  <2> DEFINE next == Keep(filtered, message)
  <2>5. next.known = ToSet(<<>>) /\ next.kept = Append(kept, message)
    BY <1>2, <2>1, <2>2
  <2> HIDE DEF next
  <2>6. Translated(next.kept, <<>>)
    BY <2>3, <2>5
  <2>7. Follows(p + 1, next)
    BY <2>4, <2>5, <2>6, NothingOpen DEF Follows
  <2> QED BY <2>7 DEF next, message
<1>6. CASE e.role = "assistant"
  <2>1. open = <<>> /\ message = e /\ e.calls \in Seq(Nat)
    BY <1>1, <1>4, <1>6, EntryMessage DEF message
  <2>2. Keep(filtered, message) = [known |-> known \cup ToSet(e.calls), kept |-> Append(kept, message)]
    BY <1>6, <2>1 DEF Keep, known, kept
  <2>3. Translated(Append(kept, message), e.calls)
    BY <1>2, <1>3, <1>6, <2>1, ReplyTranslated
  <2>4. Pending(p + 1, e.calls)
    BY <1>1, <1>6 DEF RepliesAreClosed, Pending
  <2>5. known \cup ToSet(e.calls) = ToSet(e.calls)
    BY <1>2, <2>1, NothingOpen
  <2> QED BY <2>1, <2>2, <2>3, <2>4, <2>5 DEF Follows, message
<1>7. CASE e.role = "tool" /\ open # <<>>
  <2>1. message.role = "tool" /\ message.call = Head(open)
    BY <1>1, <1>2, <1>7, FirstOpen, EntryMessage DEF message
  <2>2. /\ Head(open) \in known /\ Tail(open) \in Seq(Nat) /\ Pending(p + 1, Tail(open))
        /\ known \ {Head(open)} = ToSet(Tail(open))
    BY <1>2, <1>7, FirstOpen
  <2>3. Keep(filtered, message) = [known |-> known \ {Head(open)}, kept |-> Append(kept, message)]
    BY <2>1, <2>2 DEF Keep, known, kept
  <2>4. Translated(Append(kept, message), Tail(open))
    BY <1>2, <1>3, <1>7, <2>1, ResultTranslated
  <2> DEFINE next == Keep(filtered, message)
             rest == Tail(open)
  <2>5. next.known = ToSet(rest) /\ next.kept = Append(kept, message)
    BY <2>2, <2>3
  <2> HIDE DEF next, rest
  <2>6. rest \in Seq(Nat) /\ Translated(next.kept, rest) /\ Pending(p + 1, rest)
    BY <2>2, <2>4, <2>5 DEF rest
  <2>7. Follows(p + 1, next)
    BY <2>5, <2>6 DEF Follows
  <2> QED BY <2>7 DEF next, message
<1>8. CASE e.role = "tool" /\ open = <<>>
  <2>1. message.role = "tool" /\ known = {}
    BY <1>1, <1>2, <1>8, EntryMessage, NothingOpen DEF message
  <2>2. Keep(filtered, message) = filtered
    BY <2>1 DEF Keep, known
  <2>3. Pending(p + 1, <<>>)
    BY <1>1 DEF Pending
  <2> QED BY <1>2, <1>8, <2>2, <2>3 DEF Follows, message, known, kept
<1> QED
  BY <1>1, <1>5, <1>6, <1>7, <1>8, EntryMessage

(* Two sequences, one after the other.                                     *)
LEMMA JoinIs ==
  ASSUME NEW E, NEW s \in Seq(E), NEW t \in Seq(E)
  PROVE  /\ s \o t \in Seq(E) /\ Len(s) \in Nat /\ Len(t) \in Nat
         /\ Len(s \o t) = Len(s) + Len(t)
         /\ \A i \in 1..Len(s) : (s \o t)[i] = s[i] /\ s[i] \in E
         /\ \A i \in 1..Len(t) : (s \o t)[Len(s) + i] = t[i] /\ t[i] \in E
<1>1. s \o t \in Seq(E) /\ Len(s) \in Nat /\ Len(t) \in Nat /\ Len(s \o t) = Len(s) + Len(t)
  OBVIOUS
<1>2. \A i \in 1..Len(s) : (s \o t)[i] = s[i] /\ s[i] \in E
  OBVIOUS
<1>3. \A i \in 1..Len(t) : (s \o t)[Len(s) + i] = t[i] /\ t[i] \in E
  OBVIOUS
<1> QED
  BY <1>1, <1>2, <1>3

(* System messages, some or none.                                          *)
Optional(isPresent) == IF isPresent THEN <<SystemMessage>> ELSE <<>>

(* Whether they are there or not, they are system messages.                *)
LEMMA OptionalIs ==
  ASSUME NEW isPresent
  PROVE  /\ Optional(isPresent) \in Seq(RequestMessages) /\ Len(Optional(isPresent)) \in Nat
         /\ \A i \in 1..Len(Optional(isPresent)) : Optional(isPresent)[i] = SystemMessage
<1>1. SystemMessage \in RequestMessages
  BY DEF SystemMessage, RequestMessages
<1> QED
  BY <1>1 DEF Optional

(* The messages of a request: system messages, those of the history from   *)
(* its first on, and system messages.                                      *)
LEMMA ContextIs ==
  ASSUME AgentInv, NEW first \in 1..(Len(history) + 1)
  PROVE  LET M == ContextMessages(first)
             m == Len(history) - first + 1
         IN  /\ M \in Seq(RequestMessages) /\ Len(M) \in Nat
             /\ \E o \in Nat :
                   /\ o + m <= Len(M)
                   /\ \A i \in 1..o : M[i] = SystemMessage
                   /\ \A i \in 1..m : M[o + i] = AgentMessage(history[first + i - 1])
                   /\ \A i \in 1..Len(M) : i > o + m => M[i] = SystemMessage
<1> DEFINE m == Len(history) - first + 1
           system == Optional(agent.mode # "planning")
           summary == Optional(first > 1)
           told == [i \in 1..m |-> AgentMessage(history[first + i - 1])]
           planned == Optional(agent.mode = "planning" \/ plan.status # "none")
           begun == system \o summary
           talk == begun \o told
           M == talk \o planned
<1>1. ContextMessages(first) = M
  BY DEF ContextMessages, Optional
<1>2. m \in Nat /\ \A i \in 1..m : first + i - 1 \in 1..Len(history)
  <2>1. Len(history) \in Nat
    BY HistoryFacts
  <2> QED BY <2>1
<1>3. /\ told \in Seq(RequestMessages) /\ Len(told) = m
      /\ \A i \in 1..m : told[i] = AgentMessage(history[first + i - 1])
  <2>1. history \in Seq(Entries)
    BY HistoryFacts
  <2>2. \A i \in 1..m : history[first + i - 1] \in Entries
    BY <1>2, <2>1, ElementOfSeq
  <2>3. \A i \in 1..m : AgentMessage(history[first + i - 1]) \in RequestMessages
    BY <2>2, EntryMessage
  <2> HIDE DEF m
  <2> QED BY <1>2, <2>3
<1>4. /\ system \in Seq(RequestMessages) /\ \A i \in 1..Len(system) : system[i] = SystemMessage
      /\ summary \in Seq(RequestMessages) /\ \A i \in 1..Len(summary) : summary[i] = SystemMessage
      /\ planned \in Seq(RequestMessages) /\ \A i \in 1..Len(planned) : planned[i] = SystemMessage
  BY OptionalIs
<1> HIDE DEF m, system, summary, told, planned
<1>5. /\ begun \in Seq(RequestMessages) /\ Len(begun) \in Nat
      /\ \A i \in 1..Len(begun) : begun[i] = SystemMessage
  <2>1. /\ begun \in Seq(RequestMessages) /\ Len(begun) = Len(system) + Len(summary)
        /\ Len(system) \in Nat /\ Len(summary) \in Nat
        /\ \A i \in 1..Len(system) : begun[i] = system[i]
        /\ \A i \in 1..Len(summary) : begun[Len(system) + i] = summary[i]
    BY <1>4, JoinIs
  <2> HIDE DEF begun
  <2>2. ASSUME NEW i \in 1..Len(begun)
        PROVE  begun[i] = SystemMessage
    <3>1. CASE i <= Len(system)
      BY <1>4, <2>1, <3>1
    <3>2. CASE ~(i <= Len(system))
      <4>1. i - Len(system) \in 1..Len(summary) /\ Len(system) + (i - Len(system)) = i
        BY <2>1, <3>2
      <4> QED BY <1>4, <2>1, <4>1
    <3> QED BY <3>1, <3>2
  <2> QED BY <2>1, <2>2
<1> HIDE DEF begun
<1>6. /\ talk \in Seq(RequestMessages) /\ Len(talk) = Len(begun) + m
      /\ \A i \in 1..Len(begun) : talk[i] = begun[i]
      /\ \A i \in 1..m : talk[Len(begun) + i] = told[i]
  <2>1. begun \in Seq(RequestMessages) /\ told \in Seq(RequestMessages)
    BY <1>3, <1>5
  <2>2. /\ begun \o told \in Seq(RequestMessages)
        /\ Len(begun \o told) = Len(begun) + Len(told)
        /\ \A i \in 1..Len(begun) : (begun \o told)[i] = begun[i]
        /\ \A i \in 1..Len(told) : (begun \o told)[Len(begun) + i] = told[i]
    BY <2>1, JoinIs
  <2>3. talk = begun \o told /\ Len(told) = m
    BY <1>3
  <2> HIDE DEF talk
  <2> QED BY <2>2, <2>3, Zenon
<1> HIDE DEF talk
<1>7. /\ M \in Seq(RequestMessages) /\ Len(M) = Len(talk) + Len(planned) /\ Len(planned) \in Nat
      /\ \A i \in 1..Len(talk) : M[i] = talk[i]
      /\ \A i \in 1..Len(planned) : M[Len(talk) + i] = planned[i]
  <2>1. talk \in Seq(RequestMessages) /\ planned \in Seq(RequestMessages)
    BY <1>4, <1>6
  <2> QED BY <2>1, JoinIs
<1> HIDE DEF M
<1>8. Len(M) \in Nat /\ Len(begun) + m <= Len(M)
  BY <1>2, <1>5, <1>6, <1>7
<1>9. \A i \in 1..Len(begun) : M[i] = SystemMessage
  BY <1>2, <1>5, <1>6, <1>7
<1>10. ASSUME NEW i \in 1..m
       PROVE  M[Len(begun) + i] = AgentMessage(history[first + i - 1])
  <2>1. Len(begun) + i \in 1..Len(talk)
    BY <1>2, <1>5, <1>6
  <2> QED BY <1>3, <1>6, <1>7, <2>1
<1>11. ASSUME NEW i \in 1..Len(M), i > Len(begun) + m
       PROVE  M[i] = SystemMessage
  <2>1. i - Len(talk) \in 1..Len(planned) /\ Len(talk) + (i - Len(talk)) = i
    BY <1>2, <1>5, <1>6, <1>7, <1>11
  <2> QED BY <1>4, <1>7, <2>1
<1> QED
  BY <1>1, <1>5, <1>7, <1>8, <1>9, <1>10, <1>11 DEF m

(* When CallModel runs no call is open, so every reply has its results.    *)
LEMMA ClosedAtModel ==
  ASSUME AgentInv, HistoryInv, step = "CallModel"
  PROVE  RepliesAreClosed
<1>1. ~AtCall
  BY DEF AtCall, AtApproval, AtTimer, AtRun, HasBatch
<1>2. agent.calls = <<>> /\ agent.index = 0 /\ Len(history) \in Nat
  BY <1>1, HistoryFacts DEF CursorInv
<1>3. ASSUME NEW k \in 1..Len(history), history[k].role = "assistant"
      PROVE  /\ k + Len(history[k].calls) <= Len(history)
             /\ \A j \in 1..Len(history[k].calls) :
                   history[k + j].role = "tool" /\ history[k + j].call = history[k].calls[j]
  <2>1. Len(history[k].calls) \in Nat
    <3>1. history[k] \in Entries
      BY HistoryFacts, ElementOfSeq
    <3>2. history[k].calls \in Seq(Nat)
      BY <1>3, <3>1, EntryMessage
    <3> QED BY <3>2
  <2>2. k + Len(history[k].calls) <= Len(history)
    <3>1. \/ k + Len(history[k].calls) <= Len(history)
          \/ k = Len(history) - 0 /\ history[k].calls = <<>>
      BY <1>2, <1>3 DEF HistoryInv, ReplyInv
    <3>2. Len(<<>>) = 0
      BY NothingOpen
    <3> QED BY <1>2, <2>1, <3>1, <3>2
  <2>3. \A j \in 1..Len(history[k].calls) : k + j <= Len(history)
    BY <1>2, <2>1, <2>2
  <2> QED BY <1>3, <2>2, <2>3 DEF HistoryInv, ReplyInv
<1> QED
  BY <1>3 DEF RepliesAreClosed, HistoryInv, ResultInv

(* The loop over the whole request ends with no call open.                 *)
LEMMA ContextKept ==
  ASSUME AgentInv, RepliesAreClosed, NEW first \in 1..(Len(history) + 1), NEW r,
         IsRun(r, FilterStates, NothingKept, KeepStep, ContextMessages(first))
  PROVE  Clear(r[Len(ContextMessages(first))])
<1> DEFINE M == ContextMessages(first)
           n == Len(M)
           m == Len(history) - first + 1
<1>1. Len(history) \in Nat /\ m \in Nat /\ (first - 1) + m = Len(history)
  <2>1. Len(history) \in Nat
    BY HistoryFacts
  <2> QED BY <2>1
<1>2. M \in Seq(RequestMessages) /\ n \in Nat
  BY ContextIs
<1>3. PICK o \in Nat :
         /\ o + m <= n
         /\ \A i \in 1..o : M[i] = SystemMessage
         /\ \A i \in 1..m : M[o + i] = AgentMessage(history[first + i - 1])
         /\ \A i \in 1..n : i > o + m => M[i] = SystemMessage
  BY ContextIs
<1>4. /\ r[0] = NothingKept /\ \A i \in 0..n : r[i] \in FilterStates
      /\ \A i \in 1..n : r[i] = KeepStep[r[i - 1]][M[i]]
  BY DEF IsRun
<1> HIDE DEF M, n, m
<1>5. ASSUME NEW i \in 1..n
      PROVE  r[i - 1] \in FilterStates /\ r[i] \in FilterStates /\ r[i] = Keep(r[i - 1], M[i])
  <2>1. i - 1 \in 0..n /\ i \in 0..n
    BY <1>2
  <2>2. r[i - 1] \in FilterStates /\ M[i] \in RequestMessages
    <3>1. M[i] \in RequestMessages
      BY <1>2, ElementOfSeq DEF n
    <3> QED BY <1>4, <2>1, <3>1
  <2>3. KeepStep[r[i - 1]][M[i]] = Keep(r[i - 1], M[i])
    BY <2>2 DEF KeepStep
  <2> QED BY <1>4, <2>1, <2>2, <2>3
<1> DEFINE Holds(i) ==
             /\ i <= o => Clear(r[i])
             /\ o < i /\ i <= o + m => Follows(first - 1 + (i - o), r[i])
             /\ o + m < i => Clear(r[i])
           P == {i \in 0..n : Holds(i)}
<1>6. 0 \in P
  BY <1>1, <1>2, <1>3, <1>4, SystemKept
<1>7. ASSUME NEW i \in 1..n, i - 1 \in P
      PROVE  i \in P
  <2>1. Holds(i - 1) /\ i \in 0..n
    BY <1>2, <1>7
  <2> HIDE DEF P
  <2>2. CASE i <= o
    <3>1. i - 1 <= o /\ M[i] = SystemMessage
      BY <1>2, <1>3, <2>2
    <3>2. Clear(r[i])
      BY <1>5, <2>1, <3>1, SystemKept
    <3>3. Holds(i)
      BY <1>1, <1>2, <2>2, <3>2
    <3> QED BY <2>1, <3>3 DEF P
  <2>3. CASE o < i /\ i <= o + m
    <3> DEFINE p == first - 1 + ((i - 1) - o)
    <3>1. /\ p \in Nat /\ p + 1 <= Len(history) /\ p \in 0..Len(history)
          /\ p + 1 = first - 1 + (i - o) /\ i - o \in 1..m /\ o + (i - o) = i
          /\ first + (i - o) - 1 = p + 1
      BY <1>1, <1>2, <2>3
    <3> HIDE DEF p
    <3>2. M[i] = AgentMessage(history[p + 1])
      BY <1>3, <3>1
    <3>3. Follows(p, r[i - 1])
      <4>1. CASE i - 1 <= o
        BY <1>5, <2>1, <3>1, <4>1, ClearFollows
      <4>2. CASE ~(i - 1 <= o)
        <5>1. o < i - 1 /\ i - 1 <= o + m
          BY <1>1, <1>2, <2>3, <4>2
        <5> QED BY <2>1, <5>1 DEF p
      <4> QED BY <4>1, <4>2
    <3>4. Follows(p + 1, r[i])
      BY <1>5, <3>1, <3>2, <3>3, EntryKept
    <3>5. Holds(i)
      <4>1. ~(i <= o) /\ ~(o + m < i)
        BY <1>1, <1>2, <2>3
      <4> QED BY <3>1, <3>4, <4>1
    <3> QED BY <2>1, <3>5 DEF P
  <2>4. CASE o + m < i
    <3>1. M[i] = SystemMessage /\ ~(i <= o + m) /\ ~(i <= o)
      BY <1>1, <1>2, <1>3, <2>4
    <3>2. Clear(r[i - 1])
      <4>1. CASE i - 1 <= o
        BY <2>1, <4>1
      <4>2. CASE o < i - 1 /\ i - 1 <= o + m
        <5>1. first - 1 + ((i - 1) - o) = Len(history)
          BY <1>1, <1>2, <2>4, <4>2
        <5>2. Follows(Len(history), r[i - 1])
          BY <2>1, <4>2, <5>1
        <5> QED BY <1>5, <5>2, ClearFollows
      <4>3. CASE o + m < i - 1
        BY <2>1, <4>3
      <4>4. i - 1 <= o \/ (o < i - 1 /\ i - 1 <= o + m) \/ o + m < i - 1
        BY <1>1, <1>2
      <4> QED BY <4>1, <4>2, <4>3, <4>4
    <3>3. Clear(r[i])
      BY <1>5, <3>1, <3>2, SystemKept
    <3>4. Holds(i)
      BY <3>1, <3>3
    <3> QED BY <2>1, <3>4 DEF P
  <2> QED BY <1>1, <1>2, <2>2, <2>3, <2>4
<1> HIDE DEF P, Holds
<1>8. \A i \in 0..n : i \in P
  BY <1>2, <1>6, <1>7, UpTo
<1>9. n \in 0..n /\ Holds(n)
  <2>1. n \in 0..n
    BY <1>2
  <2> QED BY <1>8, <2>1 DEF P
<1>10. CASE n = o + m /\ o < n
  <2>1. first - 1 + (n - o) = Len(history)
    BY <1>1, <1>2, <1>10
  <2>2. Follows(Len(history), r[n])
    BY <1>9, <1>10, <2>1, <1>1 DEF Holds
  <2> QED BY <1>4, <1>9, <2>2, ClearFollows DEF n, M
<1>11. CASE ~(n = o + m /\ o < n)
  <2>1. n <= o \/ o + m < n
    BY <1>1, <1>2, <1>3, <1>11
  <2> QED BY <1>9, <2>1 DEF Holds, n, M
<1> QED
  BY <1>10, <1>11

(* Whatever happened in the turns before, the request CallModel makes of   *)
(* any provider, of all the history or of what a compaction leaves of it,  *)
(* answers each call once, in its order, and directly after its reply.     *)
THEOREM RequestsAnswered == Spec => []RequestsAreAnswered
<1>1. ASSUME AgentInv, HistoryInv, step = "CallModel", NEW first \in FirstMessages
      PROVE  LET messages == ContextMessages(first)
                 byID == AnthropicMessages(messages)
                 byOrder == GeminiContents(messages)
             IN  /\ IsAnswered(OpenAIInput(messages)) /\ IsAnswered(GroqMessages(messages))
                 /\ IsAnswered(byID) /\ IsAnsweredInNextTurn(byID)
                 /\ IsAnswered(byOrder) /\ IsAnsweredInNextTurn(byOrder)
  <2> DEFINE messages == ContextMessages(first)
  <2>1. first \in 1..(Len(history) + 1)
    <3>1. Len(history) \in Nat /\ DOMAIN history = 1..Len(history)
      BY <1>1, HistoryFacts, LenProperties
    <3> QED BY <3>1 DEF FirstMessages
  <2>2. messages \in Seq(RequestMessages) /\ Len(messages) \in Nat
    BY <1>1, <2>1, ContextIs
  <2>3. RepliesAreClosed
    BY <1>1, ClosedAtModel
  <2> HIDE DEF messages
  <2>4. PICK r : /\ IsRun(r, FilterStates, NothingKept, KeepStep, messages)
                 /\ WithoutOrphanToolOutputs(messages) = r[Len(messages)].kept
    BY <2>2, FilterIsRun
  <2>5. Clear(r[Len(messages)])
    BY <1>1, <2>1, <2>3, <2>4, ContextKept DEF messages
  <2>6. r[Len(messages)].kept \in Seq(RequestMessages)
    <3>1. Len(messages) \in 0..Len(messages)
      BY <2>2
    <3>2. r[Len(messages)] \in FilterStates
      BY <2>4, <3>1 DEF IsRun
    <3> QED BY <3>2 DEF FilterStates
  <2>7. Translated(r[Len(messages)].kept, <<>>)
    BY <2>5 DEF Clear
  <2> QED BY <2>4, <2>6, <2>7, TranslatedAnswered DEF messages
<1>2. AgentInv /\ HistoryInv => RequestsAreAnswered
  BY <1>1 DEF RequestsAreAnswered
<1> QED
  BY <1>2, HistoryInvariant, PTL
=============================================================================
