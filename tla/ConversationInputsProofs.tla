---------------------- MODULE ConversationInputsProofs ----------------------
(***************************************************************************)
(* What the browser shows of the user's messages, for every chunk size and *)
(* any number of messages: none is shown twice, and none the browser was   *)
(* told of vanishes, as long as no Snapshot leaves a hole in the history.  *)
(***************************************************************************)
EXTENDS ConversationInputs, Iteration, SequenceTheorems

Distinct(queue) == \A i, j \in 1..Len(queue) : queue[i] = queue[j] => i = j
Apart(queue, other) ==
    Distinct(queue) /\ Distinct(other) /\ ToSet(queue) \intersect ToSet(other) = {}

(* The sequences at which a chunk may begin.                               *)
IsStart(sequence) == \E j \in Nat : sequence = j * ChunkSize + 1

-----------------------------------------------------------------------------
(* The server: a message waits in one place, or is in the history once.    *)
ServerStates == [queued : Seq(Nat \ {0}), steered : Seq(Nat \ {0}), log : Seq(Nat),
                 currentFirst : Nat]
HeldBy(s) == ToSet(s.queued) \union ToSet(s.steered) \union (ToSet(s.log) \ {0})
StateInv(s) ==
    /\ s \in ServerStates
    /\ Apart(s.queued, s.steered)
    /\ \A p, q \in 1..Len(s.log) : s.log[p] = s.log[q] /\ s.log[p] # 0 => p = q
    /\ \A id \in ToSet(s.queued) \union ToSet(s.steered) : \A p \in 1..Len(s.log) : s.log[p] # id
    /\ IsStart(s.currentFirst) /\ s.currentFirst <= Len(s.log) + 1

ServerInv ==
    /\ sent \in Seq(Contents)
    /\ StateInv(server)
    /\ HeldBy(server) \subseteq 1..Len(sent)

(* The message is at this place of the durable history.                    *)
At(p, id) == p \in 1..Len(server.log) /\ server.log[p] = id

(* An event names the messages at the places up to its sequence, and a     *)
(* later event later ones.                                                 *)
Begin(event) == event.sequence - Len(event.ids)
EventsInv ==
    /\ events \in Seq([ids : Seq(Nat \ {0}), sequence : Nat])
    /\ \A i \in 1..Len(events) :
          /\ Begin(events[i]) \in Nat /\ events[i].sequence <= Len(server.log)
          /\ \A k \in 1..Len(events[i].ids) : At(Begin(events[i]) + k, events[i].ids[k])
    /\ \A i, j \in 1..Len(events) : i < j => events[i].sequence <= Begin(events[j])

HeardUpTo == IF heard.count = 0 THEN 0 ELSE events[heard.count].sequence
HeardInv ==
    /\ heard \in [count : Nat, sequence : Nat]
    /\ heard.count <= Len(events) /\ heard.sequence <= HeardUpTo

-----------------------------------------------------------------------------
(* The view.  Without a hole its history is one piece up to the last       *)
(* Snapshot, and everything else it shows is later than that.              *)
Waiting == ToSet(view.queued) \union ToSet(view.steered)
Consumed == {consumed[i].id : i \in 1..Len(consumed)}

HistoryInv ==
    /\ view \in [reconciliation : {"loading", "open", "syncing"}, queued : Seq(Nat \ {0}),
                 steered : Seq(Nat \ {0}), history : SUBSET Nat, last : Nat]
    /\ view.last <= Len(server.log)
    /\ hasHole \in BOOLEAN
    /\ view.history \subseteq 1..view.last
    /\ \A p \in view.history : (\A q \in view.history : p <= q) => IsStart(p)
    /\ ~hasHole => \E first \in Nat : /\ IsStart(first) /\ first <= view.last + 1
                                      /\ view.history = first..view.last
    /\ view.reconciliation = "loading" =>
          /\ view.history = {} /\ view.last = 0 /\ view.queued = <<>> /\ view.steered = <<>>
          /\ consumed = <<>> /\ command = NoCommand /\ told = {}

WaitingInv ==
    /\ Apart(view.queued, view.steered)
    /\ Waiting \subseteq 1..Len(sent)
    /\ \A id \in Waiting : \A p \in 1..view.last : ~At(p, id)
    /\ Waiting \intersect Consumed = {}

ConsumedInv ==
    /\ consumed \in Seq([id : Nat \ {0}, after : Nat])
    /\ \A i \in 1..Len(consumed) :
          \E p \in Nat : At(p, consumed[i].id) /\ p > consumed[i].after /\ p <= HeardUpTo
    /\ \A i, j \in 1..Len(consumed), p, q \in Nat :
          i < j /\ At(p, consumed[i].id) /\ At(q, consumed[j].id) => p < q
    /\ ~hasHole => \A i \in 1..Len(consumed) :
          /\ \A p \in Nat : At(p, consumed[i].id) => p > view.last
          /\ (consumed[i].after + 1)..view.last \subseteq view.history

(* A Snapshot is an earlier state of the server, and later than the last.  *)
ReadInv ==
    /\ read.phase \in {"none", "sent", "loaded"}
    /\ read.phase = "none" => read = NoRead
    /\ read.phase = "sent" => read \in [phase : {"sent"}, isCurrent : BOOLEAN]
    /\ read.phase = "loaded" =>
          /\ read \in [phase : {"loaded"}, isCurrent : BOOLEAN, snapshot : ServerStates]
          /\ StateInv(read.snapshot)
          /\ HeldBy(read.snapshot) \subseteq 1..Len(sent)
          /\ Len(read.snapshot.log) <= Len(server.log) /\ view.last <= Len(read.snapshot.log)
          /\ \A p \in 1..Len(read.snapshot.log) : read.snapshot.log[p] = server.log[p]

(* What was told of, or will be by the answer to the send under way, is    *)
(* in the history on display once it is durable, or later than that.       *)
Telling == IF command.kind = "send" /\ command.isCommitted THEN {command.id} ELSE {}
Commands ==
    {NoCommand}
    \union [kind : {"send"}, content : Contents, id : Nat, isCommitted : BOOLEAN]
    \union [kind : {"steer", "delete"}, id : Nat, isCommitted : BOOLEAN]
ToldInv ==
    /\ command \in Commands
    /\ told \union Telling \subseteq 1..Len(sent)
    /\ ~hasHole => \A id \in told \union Telling, p \in Nat :
          At(p, id) => p \in view.history \/ p > view.last
    /\ read.phase = "loaded" /\ read.isCurrent =>
          told \intersect HeldBy(server) \subseteq HeldBy(read.snapshot)
    /\ view.reconciliation = "open" /\ command = NoCommand /\ ~hasHole =>
          \A id \in told \intersect HeldBy(server) :
              id \in Waiting \union Consumed \/ \E p \in view.history : At(p, id)

ShownInv == ServerInv /\ EventsInv /\ HeardInv /\ HistoryInv /\ WaitingInv /\ ConsumedInv /\ ReadInv
InputsInv == ShownInv /\ ToldInv
-----------------------------------------------------------------------------
(* The operators on queues.                                                *)

(* `part' holds elements of the first n of `whole', in their order.        *)
IsPart(part, whole, n) ==
    \E m \in [1..Len(part) -> 1..n] :
        /\ \A k \in 1..Len(part) : part[k] = whole[m[k]]
        /\ \A j, k \in 1..Len(part) : j < k => m[j] < m[k]

(* The elements of a sequence, by position.                                *)
LEMMA SetOfSequence ==
  ASSUME NEW S, NEW queue \in Seq(S)
  PROVE  /\ Len(queue) \in Nat /\ DOMAIN queue = 1..Len(queue)
         /\ \A i \in 1..Len(queue) : queue[i] \in S
         /\ ToSet(queue) = {queue[i] : i \in 1..Len(queue)}
         /\ \A i \in 1..Len(queue) : queue[i] \in ToSet(queue)
         /\ ToSet(queue) \subseteq S
<1>1. Len(queue) \in Nat /\ DOMAIN queue = 1..Len(queue) /\ \A i \in 1..Len(queue) : queue[i] \in S
  OBVIOUS
<1>2. ToSet(queue) = {queue[i] : i \in 1..Len(queue)}
  BY <1>1 DEF ToSet
<1> QED
  BY <1>1, <1>2

(* Appending adds the element to the set of those in the queue.            *)
LEMMA AppendedSet ==
  ASSUME NEW S, NEW queue \in Seq(S), NEW element \in S
  PROVE  ToSet(Append(queue, element)) = ToSet(queue) \union {element}
<1>1. /\ Append(queue, element) \in Seq(S) /\ Len(Append(queue, element)) = Len(queue) + 1
      /\ \A i \in 1..Len(queue) : Append(queue, element)[i] = queue[i]
      /\ Append(queue, element)[Len(queue) + 1] = element
  BY AppendProperties
<1>2. Len(queue) \in Nat /\ 1..(Len(queue) + 1) = (1..Len(queue)) \union {Len(queue) + 1}
  OBVIOUS
<1>3. /\ ToSet(queue) = {queue[i] : i \in 1..Len(queue)}
      /\ ToSet(Append(queue, element)) = {Append(queue, element)[i] : i \in 1..(Len(queue) + 1)}
  BY <1>1, SetOfSequence
<1> QED
  BY <1>1, <1>2, <1>3

(* One queue after another: its length and its elements.                   *)
LEMMA Joined ==
  ASSUME NEW S, NEW queue \in Seq(S), NEW other \in Seq(S)
  PROVE  /\ queue \o other \in Seq(S) /\ Len(queue \o other) = Len(queue) + Len(other)
         /\ Len(queue) \in Nat /\ Len(other) \in Nat
         /\ \A i \in 1..Len(queue) : (queue \o other)[i] = queue[i]
         /\ \A i \in 1..Len(other) : (queue \o other)[Len(queue) + i] = other[i]
OBVIOUS

(* It holds what either holds.                                             *)
LEMMA JoinedSet ==
  ASSUME NEW S, NEW queue \in Seq(S), NEW other \in Seq(S)
  PROVE  ToSet(queue \o other) = ToSet(queue) \union ToSet(other)
<1> DEFINE joined == queue \o other
           n == Len(queue)
<1>1. /\ joined \in Seq(S) /\ Len(joined) = n + Len(other) /\ n \in Nat /\ Len(other) \in Nat
      /\ \A i \in 1..n : joined[i] = queue[i]
      /\ \A i \in 1..Len(other) : joined[n + i] = other[i]
  OBVIOUS
<1>2. /\ ToSet(queue) = {queue[i] : i \in 1..n} /\ ToSet(other) = {other[i] : i \in 1..Len(other)}
      /\ ToSet(joined) = {joined[i] : i \in 1..Len(joined)}
  BY <1>1, SetOfSequence
<1> HIDE DEF joined, n
<1>3. ASSUME NEW x \in ToSet(joined)
      PROVE  x \in ToSet(queue) \union ToSet(other)
  <2>1. PICK i \in 1..Len(joined) : x = joined[i]
    BY <1>2
  <2>2. CASE i <= n
    BY <1>1, <1>2, <2>1, <2>2
  <2>3. CASE ~(i <= n)
    <3>1. i - n \in 1..Len(other) /\ i = n + (i - n)
      BY <1>1, <2>3
    <3> QED BY <1>1, <1>2, <2>1, <3>1
  <2> QED BY <2>2, <2>3
<1>4. ToSet(queue) \subseteq ToSet(joined)
  BY <1>1, <1>2
<1>5. ASSUME NEW i \in 1..Len(other)
      PROVE  other[i] \in ToSet(joined)
  <2>1. n + i \in 1..Len(joined)
    BY <1>1
  <2> QED BY <1>1, <1>2, <2>1
<1>6. ToSet(other) \subseteq ToSet(joined)
  BY <1>2, <1>5
<1> QED
  BY <1>3, <1>4, <1>6 DEF joined

(* A queue of one.                                                         *)
LEMMA Singleton ==
  ASSUME NEW S, NEW element \in S
  PROVE  /\ <<element>> \in Seq(S) /\ Len(<<element>>) = 1 /\ <<element>>[1] = element
         /\ ToSet(<<element>>) = {element}
<1>1. <<element>> \in Seq(S) /\ Len(<<element>>) = 1 /\ <<element>>[1] = element
  OBVIOUS
<1>2. ToSet(<<element>>) = {<<element>>[i] : i \in 1..Len(<<element>>)}
  BY <1>1, SetOfSequence
<1>3. 1..1 = {1}
  OBVIOUS
<1> QED
  BY <1>1, <1>2, <1>3

(* A part of a prefix is a part of a longer one.                           *)
LEMMA PartGrows ==
  ASSUME NEW S, NEW part \in Seq(S), NEW whole, NEW n \in Nat \ {0}, IsPart(part, whole, n - 1)
  PROVE  IsPart(part, whole, n)
<1>1. PICK m \in [1..Len(part) -> 1..(n - 1)] :
          /\ \A k \in 1..Len(part) : part[k] = whole[m[k]]
          /\ \A j, k \in 1..Len(part) : j < k => m[j] < m[k]
  BY DEF IsPart
<1>2. m \in [1..Len(part) -> 1..n]
  BY <1>1
<1> QED
  BY <1>1, <1>2 DEF IsPart

(* So it is with the next element at its end.                              *)
LEMMA PartAppended ==
  ASSUME NEW S, NEW part \in Seq(S), NEW whole, NEW n \in Nat \ {0}, IsPart(part, whole, n - 1),
         whole[n] \in S
  PROVE  IsPart(Append(part, whole[n]), whole, n)
<1> DEFINE longer == Append(part, whole[n])
           last == Len(part) + 1
<1>1. PICK m \in [1..Len(part) -> 1..(n - 1)] :
          /\ \A k \in 1..Len(part) : part[k] = whole[m[k]]
          /\ \A j, k \in 1..Len(part) : j < k => m[j] < m[k]
  BY DEF IsPart
<1> DEFINE l == [k \in 1..last |-> IF k = last THEN n ELSE m[k]]
<1>2. /\ Len(part) \in Nat /\ Len(longer) = last /\ longer[last] = whole[n]
      /\ \A k \in 1..Len(part) : longer[k] = part[k]
  BY AppendProperties
<1>3. \A k \in 1..Len(part) : m[k] \in 1..(n - 1) /\ m[k] \in 1..n /\ m[k] < n
  BY <1>1
<1>4. l \in [1..last -> 1..n]
  <2>1. ASSUME NEW k \in 1..last
        PROVE  (IF k = last THEN n ELSE m[k]) \in 1..n
    <3>1. CASE k = last
      BY <3>1
    <3>2. CASE k # last
      <4>1. k \in 1..Len(part)
        BY <1>2, <3>2
      <4> QED BY <1>3, <3>2, <4>1
    <3> QED BY <3>1, <3>2
  <2> QED BY <2>1
<1>5. \A k \in 1..last : k = last \/ (k \in 1..Len(part) /\ k # last)
  BY <1>2
<1>6. l[last] = n /\ \A k \in 1..Len(part) : l[k] = m[k]
  BY <1>2
<1> HIDE DEF l
<1>7. \A k \in 1..last : longer[k] = whole[l[k]]
  BY <1>1, <1>2, <1>5, <1>6
<1>8. ASSUME NEW j \in 1..last, NEW k \in 1..last, j < k
      PROVE  l[j] < l[k]
  <2>1. j \in 1..Len(part)
    BY <1>2, <1>8
  <2>2. CASE k = last
    BY <1>3, <1>6, <2>1, <2>2
  <2>3. CASE k # last
    BY <1>1, <1>5, <1>6, <1>8, <2>1, <2>3
  <2> QED BY <2>2, <2>3
<1> QED
  BY <1>2, <1>4, <1>7, <1>8 DEF IsPart

(* What is picked in order from distinct elements is distinct.             *)
LEMMA PartOfDistinct ==
  ASSUME NEW S, NEW part \in Seq(S), NEW whole \in Seq(S), IsPart(part, whole, Len(whole)),
         Distinct(whole)
  PROVE  Distinct(part)
<1>1. PICK m \in [1..Len(part) -> 1..Len(whole)] :
          /\ \A k \in 1..Len(part) : part[k] = whole[m[k]]
          /\ \A j, k \in 1..Len(part) : j < k => m[j] < m[k]
  BY DEF IsPart
<1>2. Len(whole) \in Nat /\ Len(part) \in Nat
  OBVIOUS
<1>3. SUFFICES ASSUME NEW i \in 1..Len(part), NEW j \in 1..Len(part), part[i] = part[j], i # j
               PROVE  FALSE
  BY DEF Distinct
<1>4. m[i] \in 1..Len(whole) /\ m[j] \in 1..Len(whole)
  BY <1>1
<1>5. m[i] = m[j]
  BY <1>1, <1>3, <1>4 DEF Distinct
<1>6. m[i] < m[j] \/ m[j] < m[i]
  BY <1>1, <1>2, <1>3
<1> QED
  BY <1>2, <1>4, <1>5, <1>6

(* The elements of the queue that are in `ids', in their order.            *)
LEMMA OnlyKeeps ==
  ASSUME NEW S, NEW queue \in Seq(S), NEW ids
  PROVE  /\ Only(queue, ids) \in Seq(S)
         /\ ToSet(Only(queue, ids)) = ToSet(queue) \intersect ids
         /\ IsPart(Only(queue, ids), queue, Len(queue))
<1> DEFINE n == Len(queue)
           Step(t, i) == IF queue[i] \in ids THEN Append(t, queue[i]) ELSE t
           only == CHOOSE f : f = [i \in 0..n |-> IF i = 0 THEN <<>> ELSE Step(f[i - 1], i)]
           First(i) == {queue[k] : k \in 1..i}
           Q == Seq(S)
           none == <<>>
           P == {i \in 0..n : /\ only[i] \in Seq(S)
                              /\ ToSet(only[i]) = First(i) \intersect ids
                              /\ IsPart(only[i], queue, i)}
<1>1. n \in Nat /\ \A i \in 1..n : queue[i] \in S
  BY SetOfSequence
<1>2. \A i \in 1..n : \A t \in Q : Step(t, i) \in Q
  BY <1>1
<1>3. \E f : f = [i \in 0..n |-> IF i = 0 THEN <<>> ELSE Step(f[i - 1], i)]
  <2> HIDE DEF Step, n
  <2> DEFINE g == [i \in 1..n |-> [t \in Q |-> Step(t, i)]]
  <2>1. g \in [1..n -> [Q -> Q]]
    BY <1>2
  <2>2. \A i \in 1..n : \A t \in Q : g[i][t] = Step(t, i)
    OBVIOUS
  <2>3. none \in Q /\ n \in Nat
    BY <1>1
  <2> HIDE DEF g, Q, none
  <2>4. HasIterates(Q, none, n, g)
    BY <2>1, <2>3, IteratesExist
  <2>5. PICK f \in [0..n -> Q] : f[0] = none /\ \A i \in 1..n : f[i] = g[i][f[i - 1]]
    BY <2>4 DEF HasIterates
  <2>6. \A i \in 0..n : f[i] = IF i = 0 THEN none ELSE Step(f[i - 1], i)
    <3> TAKE i \in 0..n
    <3>1. CASE i = 0
      BY <2>5, <3>1
    <3>2. CASE i # 0
      <4>1. i \in 1..n /\ i - 1 \in 0..n
        BY <1>1, <3>2
      <4> QED BY <2>2, <2>5, <3>2, <4>1
    <3> QED BY <3>1, <3>2
  <2> QED BY <2>5, <2>6 DEF none
<1>4. only = [i \in 0..n |-> IF i = 0 THEN <<>> ELSE Step(only[i - 1], i)]
  BY <1>3
<1> HIDE DEF only
<1>5. 0 \in P
  <2>1. only[0] = <<>>
    BY <1>1, <1>4
  <2>2. ToSet(<<>>) = {} /\ First(0) = {}
    BY DEF ToSet
  <2>3. IsPart(<<>>, queue, 0)
    <3>1. 1..Len(<<>>) = {} /\ 1..0 = {}
      OBVIOUS
    <3>2. [k \in {} |-> 0] \in [{} -> {}]
      OBVIOUS
    <3> QED BY <3>1, <3>2 DEF IsPart
  <2>4. ToSet(only[0]) = First(0) \intersect ids /\ only[0] \in Seq(S)
    BY <2>1, <2>2
  <2>5. IsPart(only[0], queue, 0) /\ 0 \in 0..n
    BY <1>1, <2>1, <2>3
  <2> HIDE DEF First, n
  <2> QED BY <2>4, <2>5
<1>6. \A i \in 1..n : i - 1 \in P => i \in P
  <2> SUFFICES ASSUME NEW i \in 1..n, i - 1 \in P
               PROVE  i \in P
    OBVIOUS
  <2>1. /\ only[i - 1] \in Seq(S) /\ ToSet(only[i - 1]) = First(i - 1) \intersect ids
        /\ IsPart(only[i - 1], queue, i - 1)
    OBVIOUS
  <2>2. only[i] = Step(only[i - 1], i) /\ i \in 0..n
    <3>1. i \in 0..n /\ i # 0
      BY <1>1
    <3> HIDE DEF Step, n, P
    <3> QED BY <1>4, <3>1
  <2>3. First(i) = First(i - 1) \union {queue[i]}
    <3>1. 1..i = (1..(i - 1)) \union {i}
      BY <1>1
    <3> QED BY <3>1
  <2> HIDE DEF First, P
  <2>4. CASE queue[i] \in ids
    <3>1. only[i] = Append(only[i - 1], queue[i]) /\ only[i] \in Seq(S)
      BY <1>1, <2>1, <2>2, <2>4
    <3>2. ToSet(only[i]) = ToSet(only[i - 1]) \union {queue[i]}
      BY <1>1, <2>1, <3>1, AppendedSet
    <3>3. IsPart(only[i], queue, i)
      BY <1>1, <2>1, <3>1, PartAppended
    <3>4. ToSet(only[i]) = First(i) \intersect ids
      BY <2>1, <2>3, <2>4, <3>2
    <3> QED BY <2>2, <3>1, <3>3, <3>4 DEF P
  <2>5. CASE queue[i] \notin ids
    <3>1. only[i] = only[i - 1]
      BY <2>2, <2>5
    <3>2. IsPart(only[i], queue, i)
      BY <1>1, <2>1, <3>1, PartGrows
    <3>3. ToSet(only[i]) = First(i) \intersect ids
      BY <2>1, <2>3, <2>5, <3>1
    <3> QED BY <2>1, <2>2, <3>1, <3>2, <3>3 DEF P
  <2> QED BY <2>4, <2>5
<1> HIDE DEF P
<1>7. n \in P
  <2>1. \A i \in 0..n : i \in P
    BY <1>1, <1>5, <1>6, UpTo
  <2> QED BY <1>1, <2>1
<1>8. /\ only[n] \in Seq(S) /\ ToSet(only[n]) = First(n) \intersect ids
      /\ IsPart(only[n], queue, n)
  BY <1>7 DEF P
<1>9. First(n) = ToSet(queue)
  BY SetOfSequence
<1>10. Only(queue, ids) = only[n]
  BY DEF only, Only
<1> HIDE DEF First, n
<1> QED
  BY <1>8, <1>9, <1>10 DEF n

-----------------------------------------------------------------------------
(* appendMessage on the server.                                            *)
Extends(t, s, entries) ==
    /\ t.queued = s.queued /\ t.steered = s.steered
    /\ Len(t.log) = Len(s.log) + Len(entries)
    /\ \A p \in 1..Len(s.log) : t.log[p] = s.log[p]
    /\ \A k \in 1..Len(entries) : t.log[Len(s.log) + k] = entries[k]
Chunked(s) ==
    s \in ServerStates /\ IsStart(s.currentFirst) /\ s.currentFirst <= Len(s.log) + 1

(* A chunk further a chunk may begin.                                      *)
LEMMA NextStart ==
  ASSUME NEW sequence \in Nat, IsStart(sequence)
  PROVE  IsStart(sequence + ChunkSize)
<1>1. ChunkSize \in Nat
  BY InputsAssumption
<1>2. PICK j \in Nat : sequence = j * ChunkSize + 1
  BY DEF IsStart
<1>3. sequence + ChunkSize = (j + 1) * ChunkSize + 1 /\ j + 1 \in Nat
  BY <1>1, <1>2
<1> QED
  BY <1>3 DEF IsStart

(* appendMessage adds the entry to the history, and archives only whole    *)
(* chunks.                                                                 *)
LEMMA OneMessageAppended ==
  ASSUME NEW s, Chunked(s), NEW entry \in Nat
  PROVE  Chunked(AppendMessage(s, entry)) /\ Extends(AppendMessage(s, entry), s, <<entry>>)
<1> DEFINE log == Append(s.log, entry)
           first == IF Len(log) - s.currentFirst + 1 < 2 * ChunkSize
                    THEN s.currentFirst ELSE s.currentFirst + ChunkSize
<1>1. /\ s = [queued |-> s.queued, steered |-> s.steered, log |-> s.log, currentFirst |-> s.currentFirst]
      /\ s.queued \in Seq(Nat \ {0}) /\ s.steered \in Seq(Nat \ {0})
      /\ s.log \in Seq(Nat) /\ s.currentFirst \in Nat
  BY DEF Chunked, ServerStates
<1>2. /\ log \in Seq(Nat) /\ Len(log) = Len(s.log) + 1 /\ log[Len(s.log) + 1] = entry
      /\ \A p \in 1..Len(s.log) : log[p] = s.log[p]
  BY <1>1, AppendProperties
<1>3. ChunkSize \in Nat \ {0} /\ Len(s.log) \in Nat
  BY <1>1, InputsAssumption
<1>4. first \in Nat /\ first <= Len(log) + 1 /\ IsStart(first)
  <2> HIDE DEF log
  <2>1. CASE Len(log) - s.currentFirst + 1 < 2 * ChunkSize
    BY <1>1, <1>2, <1>3, <2>1 DEF Chunked
  <2>2. CASE ~(Len(log) - s.currentFirst + 1 < 2 * ChunkSize)
    <3>1. first = s.currentFirst + ChunkSize
      BY <2>2
    <3>2. IsStart(first)
      BY <1>1, <3>1, NextStart DEF Chunked
    <3>3. first <= Len(log) + 1
      BY <1>1, <1>2, <1>3, <2>2, <3>1
    <3> QED BY <1>1, <1>3, <3>1, <3>2, <3>3
  <2> QED BY <2>1, <2>2
<1>5. AppendMessage(s, entry) =
        [queued |-> s.queued, steered |-> s.steered, log |-> log, currentFirst |-> first]
  <2>1. AppendMessage(s, entry) = [s EXCEPT !.log = log, !.currentFirst = first]
    BY DEF AppendMessage
  <2> HIDE DEF log, first
  <2> QED BY <2>1 DEF Chunked, ServerStates
<1> HIDE DEF log, first
<1>6. Chunked(AppendMessage(s, entry))
  BY <1>1, <1>2, <1>4, <1>5 DEF Chunked, ServerStates
<1>7. Len(<<entry>>) = 1 /\ <<entry>>[1] = entry
  OBVIOUS
<1> QED
  BY <1>2, <1>5, <1>6, <1>7 DEF Extends

(* What the loop of appendMessages computes.                               *)
LEMMA MessagesAppended ==
  ASSUME NEW s, Chunked(s), NEW entries \in Seq(Nat)
  PROVE  Chunked(Appended(s, entries)) /\ Extends(Appended(s, entries), s, entries)
<1> DEFINE n == Len(entries)
           T == {t \in ServerStates : Chunked(t)}
           appended == CHOOSE f : f = [i \in 0..n |->
                           IF i = 0 THEN s ELSE AppendMessage(f[i - 1], entries[i])]
           Begun(t, i) == /\ t.queued = s.queued /\ t.steered = s.steered
                          /\ Len(t.log) = Len(s.log) + i
                          /\ \A p \in 1..Len(s.log) : t.log[p] = s.log[p]
                          /\ \A k \in 1..i : t.log[Len(s.log) + k] = entries[k]
           P == {i \in 0..n : appended[i] \in T /\ Begun(appended[i], i)}
<1>1. n \in Nat /\ \A i \in 1..n : entries[i] \in Nat
  BY SetOfSequence
<1>2. \A t \in T, entry \in Nat : AppendMessage(t, entry) \in T
  BY OneMessageAppended DEF Chunked
<1>3. s \in T
  BY DEF Chunked
<1>4. \E f : f = [i \in 0..n |-> IF i = 0 THEN s ELSE AppendMessage(f[i - 1], entries[i])]
  <2> HIDE DEF n, T
  <2> DEFINE g == [i \in 1..n |-> [t \in T |-> AppendMessage(t, entries[i])]]
  <2>1. g \in [1..n -> [T -> T]]
    BY <1>1, <1>2
  <2>2. \A i \in 1..n : \A t \in T : g[i][t] = AppendMessage(t, entries[i])
    OBVIOUS
  <2>3. n \in Nat
    BY <1>1
  <2> HIDE DEF g
  <2>4. HasIterates(T, s, n, g)
    BY <1>3, <2>1, <2>3, IteratesExist
  <2>5. PICK f \in [0..n -> T] : f[0] = s /\ \A i \in 1..n : f[i] = g[i][f[i - 1]]
    BY <2>4 DEF HasIterates
  <2>6. \A i \in 0..n : f[i] = IF i = 0 THEN s ELSE AppendMessage(f[i - 1], entries[i])
    <3> TAKE i \in 0..n
    <3>1. CASE i = 0
      BY <2>5, <3>1
    <3>2. CASE i # 0
      <4>1. i \in 1..n /\ i - 1 \in 0..n
        BY <1>1, <3>2
      <4> QED BY <2>2, <2>5, <3>2, <4>1
    <3> QED BY <3>1, <3>2
  <2> QED BY <2>5, <2>6
<1>5. appended = [i \in 0..n |-> IF i = 0 THEN s ELSE AppendMessage(appended[i - 1], entries[i])]
  BY <1>4
<1>6. Len(s.log) \in Nat
  BY DEF Chunked, ServerStates
<1> HIDE DEF appended
<1>7. 0 \in P
  <2>1. appended[0] = s /\ 0 \in 0..n
    BY <1>1, <1>5
  <2>2. Begun(s, 0)
    BY <1>6
  <2>3. Begun(appended[0], 0)
    BY <2>1, <2>2
  <2> HIDE DEF Begun, T, n
  <2> QED BY <1>3, <2>1, <2>3
<1>8. \A i \in 1..n : i - 1 \in P => i \in P
  <2> SUFFICES ASSUME NEW i \in 1..n, i - 1 \in P
               PROVE  i \in P
    OBVIOUS
  <2> DEFINE before == appended[i - 1]
             after == appended[i]
  <2>1. before \in T /\ Begun(before, i - 1)
    OBVIOUS
  <2>2. i \in 0..n /\ i # 0 /\ i \in Nat /\ entries[i] \in Nat
    BY <1>1
  <2>3. after = AppendMessage(before, entries[i])
    <3> HIDE DEF n, P
    <3> QED BY <1>5, <2>2
  <2>4. Chunked(after) /\ Extends(after, before, <<entries[i]>>)
    <3> HIDE DEF before, after
    <3> QED BY <2>1, <2>2, <2>3, OneMessageAppended
  <2> HIDE DEF before, after, n, P
  <2>5. Len(<<entries[i]>>) = 1 /\ <<entries[i]>>[1] = entries[i]
    OBVIOUS
  <2>6. Len(before.log) = Len(s.log) + (i - 1) /\ Len(after.log) = Len(before.log) + 1
    BY <2>1, <2>4, <2>5 DEF Extends
  <2>7. 1 \in 1..Len(<<entries[i]>>)
    BY <2>5
  <2>8. after.log[Len(before.log) + 1] = <<entries[i]>>[1]
    BY <2>4, <2>7 DEF Extends
  <2>9. /\ Len(before.log) = Len(s.log) + (i - 1)
        /\ Len(after.log) = Len(before.log) + 1 /\ after.log[Len(before.log) + 1] = entries[i]
        /\ \A p \in 1..Len(before.log) : after.log[p] = before.log[p]
    BY <2>4, <2>5, <2>6, <2>8 DEF Extends
  <2>10. ASSUME NEW p \in 1..Len(s.log)
        PROVE  after.log[p] = s.log[p]
    <3>1. p \in 1..Len(before.log)
      BY <1>6, <2>2, <2>9
    <3> QED BY <2>1, <2>9, <3>1
  <2>11. ASSUME NEW k \in 1..i
        PROVE  after.log[Len(s.log) + k] = entries[k]
    <3>1. CASE k = i
      <4>1. Len(s.log) + k = Len(before.log) + 1
        BY <1>6, <2>2, <2>9, <3>1
      <4> QED BY <2>9, <3>1, <4>1
    <3>2. CASE k # i
      <4>1. k \in 1..(i - 1) /\ Len(s.log) + k \in 1..Len(before.log)
        BY <1>6, <2>2, <2>9, <3>2
      <4> QED BY <2>1, <2>9, <4>1
    <3> QED BY <3>1, <3>2
  <2>12. Len(after.log) = Len(s.log) + i
    BY <1>6, <2>2, <2>6
  <2>13. after.queued = s.queued /\ after.steered = s.steered
    BY <2>1, <2>4 DEF Extends
  <2>14. Begun(after, i) /\ after \in T
    BY <2>4, <2>10, <2>11, <2>12, <2>13 DEF Chunked
  <2> HIDE DEF Begun, T
  <2> QED BY <2>2, <2>14 DEF P, after
<1> HIDE DEF P
<1>9. n \in P
  <2>1. \A i \in 0..n : i \in P
    BY <1>1, <1>7, <1>8, UpTo
  <2> QED BY <1>1, <2>1
<1>10. Chunked(appended[n]) /\ Extends(appended[n], s, entries)
  <2>1. appended[n] \in T /\ Begun(appended[n], n)
    <3> HIDE DEF Begun, T
    <3> QED BY <1>9 DEF P
  <2> HIDE DEF appended
  <2> QED BY <2>1 DEF Extends
<1>11. Appended(s, entries) = appended[n]
  BY DEF appended, Appended
<1> QED
  BY <1>10, <1>11

-----------------------------------------------------------------------------
(* reconcileConsumedUserMessages.  An entry is claimed as soon as the      *)
(* history reaches its place: the places claimed by the entries before it  *)
(* are not later than theirs, and theirs are before its own.               *)
Entries == [id : Nat \ {0}, after : Nat]

(* The entries at hand are at the places d of the history.                 *)
Placed(entries, d, history, last) ==
    /\ d \in [1..Len(entries) -> Nat]
    /\ \A i \in 1..Len(entries) :
          /\ server.log[d[i]] = entries[i].id /\ d[i] > entries[i].after
          /\ d[i] <= last => d[i] \in history
    /\ \A i, j \in 1..Len(entries) : i < j => d[i] < d[j]

(* One consumed entry claims the first history entry that matches it, and  *)
(* stays if there is none.                                                 *)
LEMMA ClaimsType ==
  ASSUME NEW acc \in [kept : Seq(Entries), claimed : SUBSET Nat], NEW entry \in Entries,
         NEW history \in SUBSET Nat
  PROVE  /\ Claim(acc, entry, history) \in [kept : Seq(Entries), claimed : SUBSET Nat]
         /\ LET found == Matches(history, acc.claimed, entry.after, sent[entry.id])
            IN  found # {} =>
                  /\ Claim(acc, entry, history).kept = acc.kept
                  /\ Claim(acc, entry, history).claimed = acc.claimed \union {Least(found)}
                  /\ Least(found) \in Nat /\ \A p \in found : Least(found) <= p
         /\ Claim(acc, entry, history).kept \in {acc.kept, Append(acc.kept, entry)}
<1> DEFINE found == Matches(history, acc.claimed, entry.after, sent[entry.id])
<1>1. found \in SUBSET Nat
  BY DEF Matches
<1>2. acc.kept \in Seq(Entries) /\ acc.claimed \in SUBSET Nat
  OBVIOUS
<1>3. Claim(acc, entry, history) =
        IF found = {} THEN [kept |-> Append(acc.kept, entry), claimed |-> acc.claimed]
        ELSE [kept |-> acc.kept, claimed |-> acc.claimed \union {Least(found)}]
  BY DEF Claim
<1>4. found # {} => Least(found) \in found /\ \A p \in found : Least(found) <= p
  <2> HIDE DEF found
  <2>1. found # {} => \E x \in found : \A y \in found : x <= y
    BY <1>1, HasLeast
  <2> QED BY <2>1 DEF Least
<1> HIDE DEF found
<1>5. CASE found = {}
  <2>1. Claim(acc, entry, history) = [kept |-> Append(acc.kept, entry), claimed |-> acc.claimed]
    BY <1>3, <1>5
  <2> QED BY <1>2, <1>5, <2>1 DEF found
<1>6. CASE found # {}
  <2>1. Claim(acc, entry, history) = [kept |-> acc.kept, claimed |-> acc.claimed \union {Least(found)}]
    BY <1>3, <1>6
  <2>2. Least(found) \in Nat
    BY <1>1, <1>4, <1>6
  <2> QED BY <1>2, <1>4, <1>6, <2>1, <2>2 DEF found
<1> QED
  BY <1>5, <1>6

(* Entries at the places d of the history stay only where d is later than  *)
(* the Snapshot: each finds its own place, or one before it that no        *)
(* earlier entry claimed.                                                  *)
LEMMA StillConsumedAreLater ==
  ASSUME NEW entries \in Seq(Entries), NEW history \in SUBSET Nat, NEW last \in Nat, NEW d,
         Placed(entries, d, history, last)
  PROVE  /\ StillConsumed(entries, history) \in Seq(Entries)
         /\ IsPart(StillConsumed(entries, history), entries, Len(entries))
         /\ \A x \in ToSet(StillConsumed(entries, history)) :
               \E i \in 1..Len(entries) : x = entries[i] /\ d[i] > last
<1> DEFINE n == Len(entries)
           T == [kept : Seq(Entries), claimed : SUBSET Nat]
           base == [kept |-> <<>>, claimed |-> {}]
           Step(t, i) == Claim(t, entries[i], history)
           acc == CHOOSE f : f = [i \in 0..n |-> IF i = 0 THEN base ELSE Step(f[i - 1], i)]
           Later(t, i) == \A x \in ToSet(t.kept) : \E j \in 1..i : x = entries[j] /\ d[j] > last
           Earlier(t, i) == /\ i = 0 => t.claimed = {}
                            /\ i > 0 /\ d[i] <= last => \A c \in t.claimed : c <= d[i]
           P == {i \in 0..n : /\ acc[i] \in T /\ IsPart(acc[i].kept, entries, i)
                              /\ Later(acc[i], i) /\ Earlier(acc[i], i)}
<1>1. n \in Nat /\ \A i \in 1..n : entries[i] \in Entries
  BY SetOfSequence
<1>2. \A i \in 1..n : \A t \in T : Step(t, i) \in T
  BY <1>1, ClaimsType
<1>3. base \in T
  OBVIOUS
<1>4. \E f : f = [i \in 0..n |-> IF i = 0 THEN base ELSE Step(f[i - 1], i)]
  <2> HIDE DEF n, T, Step, base
  <2> DEFINE g == [i \in 1..n |-> [t \in T |-> Step(t, i)]]
  <2>1. g \in [1..n -> [T -> T]]
    BY <1>1, <1>2
  <2>2. \A i \in 1..n : \A t \in T : g[i][t] = Step(t, i)
    OBVIOUS
  <2>3. n \in Nat
    BY <1>1
  <2> HIDE DEF g
  <2>4. HasIterates(T, base, n, g)
    BY <1>3, <2>1, <2>3, IteratesExist
  <2>5. PICK f \in [0..n -> T] : f[0] = base /\ \A i \in 1..n : f[i] = g[i][f[i - 1]]
    BY <2>4 DEF HasIterates
  <2>6. \A i \in 0..n : f[i] = IF i = 0 THEN base ELSE Step(f[i - 1], i)
    <3> TAKE i \in 0..n
    <3>1. CASE i = 0
      BY <2>5, <3>1
    <3>2. CASE i # 0
      <4>1. i \in 1..n /\ i - 1 \in 0..n
        BY <1>1, <3>2
      <4> QED BY <2>2, <2>5, <3>2, <4>1
    <3> QED BY <3>1, <3>2
  <2> QED BY <2>5, <2>6
<1>5. acc = [i \in 0..n |-> IF i = 0 THEN base ELSE Step(acc[i - 1], i)]
  <2> HIDE DEF Step, base, n
  <2> QED BY <1>4
<1> HIDE DEF acc
<1>6. 0 \in P
  <2>1. acc[0] = base /\ 0 \in 0..n
    BY <1>1, <1>5
  <2>2. IsPart(<<>>, entries, 0)
    <3>1. 1..Len(<<>>) = {} /\ 1..0 = {}
      OBVIOUS
    <3>2. [k \in {} |-> 0] \in [{} -> {}]
      OBVIOUS
    <3> QED BY <3>1, <3>2 DEF IsPart
  <2>3. base.kept = <<>> /\ base.claimed = {} /\ ToSet(<<>>) = {}
    BY DEF ToSet
  <2>4. Later(base, 0) /\ Earlier(base, 0) /\ IsPart(base.kept, entries, 0)
    BY <2>2, <2>3
  <2> HIDE DEF Later, Earlier, base, T, n
  <2> QED BY <1>3, <2>1, <2>4
<1>7. \A i \in 1..n : i - 1 \in P => i \in P
  <2> SUFFICES ASSUME NEW i \in 1..n, i - 1 \in P
               PROVE  i \in P
    OBVIOUS
  <2> DEFINE before == acc[i - 1]
             after == acc[i]
             found == Matches(history, before.claimed, entries[i].after, sent[entries[i].id])
  <2>1. /\ before \in T /\ IsPart(before.kept, entries, i - 1)
        /\ Later(before, i - 1) /\ Earlier(before, i - 1)
    <3> HIDE DEF Later, Earlier, T, n
    <3> QED OBVIOUS
  <2>2. i \in 0..n /\ i # 0 /\ i \in Nat \ {0} /\ i \in 1..i /\ entries[i] \in Entries
    BY <1>1
  <2>3. after = Claim(before, entries[i], history)
    <3> HIDE DEF n, P, base
    <3> QED BY <1>5, <2>2
  <2> HIDE DEF before, after, n, P
  <2>4. /\ after \in T /\ after.kept \in {before.kept, Append(before.kept, entries[i])}
        /\ found # {} => /\ after.kept = before.kept
                         /\ after.claimed = before.claimed \union {Least(found)}
                         /\ \A p \in found : Least(found) <= p
    BY <2>1, <2>2, <2>3, ClaimsType
  <2>5. before.kept \in Seq(Entries)
    BY <2>1
  <2>6. IsPart(after.kept, entries, i)
    <3>1. IsPart(before.kept, entries, i)
      BY <2>1, <2>2, <2>5, PartGrows
    <3>2. IsPart(Append(before.kept, entries[i]), entries, i)
      BY <2>1, <2>2, <2>5, PartAppended
    <3> QED BY <2>4, <3>1, <3>2
  <2>7. ASSUME NEW x \in ToSet(before.kept)
        PROVE  \E j \in 1..i : x = entries[j] /\ d[j] > last
    <3>1. PICK j \in 1..(i - 1) : x = entries[j] /\ d[j] > last
      BY <2>1
    <3>2. j \in 1..i
      BY <2>2
    <3> QED BY <3>1, <3>2
  <2>8. CASE d[i] > last
    <3>1. ToSet(after.kept) \subseteq ToSet(before.kept) \union {entries[i]}
      <4>1. ToSet(Append(before.kept, entries[i])) = ToSet(before.kept) \union {entries[i]}
        BY <2>2, <2>5, AppendedSet
      <4> QED BY <2>4, <4>1
    <3>2. Later(after, i)
      BY <2>2, <2>7, <2>8, <3>1
    <3>3. d[i] \in Nat
      BY <2>2 DEF Placed, n
    <3>4. Earlier(after, i)
      BY <2>2, <2>8, <3>3
    <3> HIDE DEF Later, Earlier, T
    <3> QED BY <2>2, <2>4, <2>6, <3>2, <3>4 DEF P, after
  <2>9. CASE ~(d[i] > last)
    <3>1. /\ d[i] \in Nat /\ d[i] \in history /\ d[i] > entries[i].after
          /\ server.log[d[i]] = entries[i].id /\ entries[i].id # 0
      BY <2>2, <2>9 DEF Placed, n, Entries
    <3>2. ASSUME NEW c \in before.claimed
          PROVE  c < d[i]
      <4>1. i # 1 /\ i - 1 > 0 /\ i - 1 \in 1..n
        BY <1>1, <2>1, <2>2, <3>2
      <4>2. d[i - 1] < d[i] /\ d[i - 1] \in Nat
        BY <1>1, <2>2, <4>1 DEF Placed, n
      <4>3. c <= d[i - 1]
        BY <2>1, <2>9, <3>1, <3>2, <4>1, <4>2
      <4>4. c \in Nat
        BY <2>1, <3>2
      <4> QED BY <3>1, <4>2, <4>3, <4>4
    <3>3. d[i] \in found
      BY <3>1, <3>2 DEF Matches
    <3> HIDE DEF found
    <3>4. /\ after.kept = before.kept /\ after.claimed = before.claimed \union {Least(found)}
          /\ Least(found) <= d[i]
      BY <2>4, <3>3
    <3>5. \A c \in after.claimed : c <= d[i]
      <4>1. \A c \in before.claimed : c <= d[i]
        <5> TAKE c \in before.claimed
        <5>1. c < d[i] /\ c \in Nat
          BY <2>1, <3>2
        <5> QED BY <3>1, <5>1
      <4> QED BY <3>4, <4>1
    <3>6. Later(after, i) /\ Earlier(after, i)
      BY <2>2, <2>7, <3>4, <3>5
    <3> HIDE DEF Later, Earlier, T
    <3> QED BY <2>2, <2>4, <2>6, <3>6 DEF P, after
  <2> QED BY <2>8, <2>9
<1> HIDE DEF P
<1>8. n \in P
  <2>1. \A i \in 0..n : i \in P
    BY <1>1, <1>6, <1>7, UpTo
  <2> QED BY <1>1, <2>1
<1>9. /\ acc[n].kept \in Seq(Entries) /\ IsPart(acc[n].kept, entries, n)
      /\ \A x \in ToSet(acc[n].kept) : \E j \in 1..n : x = entries[j] /\ d[j] > last
  <2>1. acc[n] \in T /\ IsPart(acc[n].kept, entries, n) /\ Later(acc[n], n)
    <3> HIDE DEF Later, Earlier, T, n
    <3> QED BY <1>8 DEF P
  <2> QED BY <2>1
<1>10. StillConsumed(entries, history) = acc[n].kept
  BY DEF acc, StillConsumed
<1> QED
  BY <1>9, <1>10

(* Without keeps what is not in the set, in its order.                     *)
LEMMA WithoutRemoves ==
  ASSUME NEW S, NEW queue \in Seq(S), NEW ids
  PROVE  /\ Without(queue, ids) \in Seq(S)
         /\ ToSet(Without(queue, ids)) = ToSet(queue) \ ids
         /\ Distinct(queue) => Distinct(Without(queue, ids))
<1>1. Without(queue, ids) = Only(queue, ToSet(queue) \ ids)
  BY DEF Without
<1>2. /\ Without(queue, ids) \in Seq(S)
      /\ ToSet(Without(queue, ids)) = ToSet(queue) \intersect (ToSet(queue) \ ids)
      /\ IsPart(Without(queue, ids), queue, Len(queue))
  BY <1>1, OnlyKeeps
<1> QED
  BY <1>2, PartOfDistinct

(* A new element at the end keeps a queue distinct.                        *)
LEMMA DistinctAppended ==
  ASSUME NEW S, NEW queue \in Seq(S), NEW id \in S, Distinct(queue), id \notin ToSet(queue)
  PROVE  Distinct(Append(queue, id))
<1>1. /\ Len(queue) \in Nat /\ Len(Append(queue, id)) = Len(queue) + 1
      /\ \A i \in 1..Len(queue) : Append(queue, id)[i] = queue[i]
      /\ Append(queue, id)[Len(queue) + 1] = id
  BY AppendProperties
<1>2. \A i \in 1..Len(queue) : queue[i] # id
  BY SetOfSequence
<1>3. \A i \in 1..(Len(queue) + 1) : i \in 1..Len(queue) \/ i = Len(queue) + 1
  BY <1>1
<1> QED
  BY <1>1, <1>2, <1>3 DEF Distinct

(* So does a queue that has nothing in common with it.                     *)
LEMMA DistinctJoined ==
  ASSUME NEW S, NEW queue \in Seq(S), NEW other \in Seq(S), Distinct(queue), Distinct(other),
         ToSet(queue) \intersect ToSet(other) = {}
  PROVE  Distinct(queue \o other)
<1> DEFINE joined == queue \o other
           n == Len(queue)
<1>1. /\ Len(joined) = n + Len(other) /\ n \in Nat /\ Len(other) \in Nat
      /\ \A i \in 1..n : joined[i] = queue[i]
      /\ \A i \in 1..Len(other) : joined[n + i] = other[i]
  BY Joined
<1>2. \A i \in 1..n, j \in 1..Len(other) : queue[i] # other[j]
  <2>1. (\A i \in 1..n : queue[i] \in ToSet(queue)) /\ \A j \in 1..Len(other) : other[j] \in ToSet(other)
    BY SetOfSequence
  <2> QED BY <2>1
<1> HIDE DEF joined
<1>3. \A i \in 1..Len(joined) : i \in 1..n \/ \E k \in 1..Len(other) : i = n + k
  <2> TAKE i \in 1..Len(joined)
  <2>1. CASE i <= n
    BY <1>1, <2>1
  <2>2. CASE ~(i <= n)
    <3>1. i - n \in 1..Len(other) /\ i = n + (i - n)
      BY <1>1, <2>2
    <3> QED BY <3>1
  <2> QED BY <2>1, <2>2
<1>4. ASSUME NEW i \in 1..Len(joined), NEW j \in 1..Len(joined), joined[i] = joined[j]
      PROVE  i = j
  <2>1. CASE i \in 1..n /\ j \in 1..n
    BY <1>1, <1>4, <2>1 DEF Distinct
  <2>2. CASE i \in 1..n /\ j \notin 1..n
    BY <1>1, <1>2, <1>3, <1>4, <2>2
  <2>3. CASE i \notin 1..n /\ j \in 1..n
    BY <1>1, <1>2, <1>3, <1>4, <2>3
  <2>4. CASE i \notin 1..n /\ j \notin 1..n
    <3>1. PICK k \in 1..Len(other), l \in 1..Len(other) : i = n + k /\ j = n + l
      BY <1>3, <2>4
    <3>2. other[k] = other[l]
      BY <1>1, <1>4, <3>1
    <3> QED BY <3>1, <3>2 DEF Distinct
  <2> QED BY <2>1, <2>2, <2>3, <2>4
<1> QED
  BY <1>4 DEF Distinct, joined

-----------------------------------------------------------------------------
(* What the server, its worker and the other clients do.                   *)
Grown ==
    /\ Len(server.log) <= Len(server'.log)
    /\ \A p \in 1..Len(server.log) : server'.log[p] = server.log[p]
    /\ Len(sent) <= Len(sent')
    /\ Len(events) <= Len(events') /\ \A i \in 1..Len(events) : events'[i] = events[i]
    /\ HeldBy(server') \subseteq HeldBy(server) \union {Len(sent) + 1}
    /\ sent' = sent => HeldBy(server') \subseteq HeldBy(server)

(* The components of a consistent server state.                            *)
LEMMA ServerParts ==
  ASSUME NEW s, StateInv(s)
  PROVE  /\ s.queued \in Seq(Nat \ {0}) /\ s.steered \in Seq(Nat \ {0})
         /\ s.log \in Seq(Nat) /\ s.currentFirst \in Nat /\ Len(s.log) \in Nat
         /\ s = [queued |-> s.queued, steered |-> s.steered, log |-> s.log,
                 currentFirst |-> s.currentFirst]
         /\ Chunked(s)
BY DEF StateInv, ServerStates, Chunked

(* The queues change, and the history does not.                            *)
LEMMA QueuesChange ==
  ASSUME ServerInv, EventsInv, sent' \in Seq(Contents), Len(sent) <= Len(sent'),
         NEW queued \in Seq(Nat \ {0}), NEW steered \in Seq(Nat \ {0}), Apart(queued, steered),
         ToSet(queued) \union ToSet(steered)
             \subseteq ToSet(server.queued) \union ToSet(server.steered)
                       \union (IF sent' = sent THEN {} ELSE {Len(sent) + 1}),
         sent' # sent => Len(sent) < Len(sent'),
         server' = [server EXCEPT !.queued = queued, !.steered = steered], UNCHANGED events
  PROVE  ServerInv' /\ EventsInv' /\ Grown
<1>1. server' = [queued |-> queued, steered |-> steered, log |-> server.log,
                 currentFirst |-> server.currentFirst]
  <2>1. server \in ServerStates
    BY DEF ServerInv, StateInv
  <2> QED BY <2>1 DEF ServerStates
<1>2. /\ server.log \in Seq(Nat) /\ Len(server.log) \in Nat /\ server.currentFirst \in Nat
      /\ Len(sent) \in Nat /\ Len(sent') \in Nat
  BY ServerParts DEF ServerInv
<1>3. \A p \in 1..Len(server.log) : server.log[p] \in ToSet(server.log)
  BY <1>2, SetOfSequence
<1>4. \A p \in 1..Len(server.log) : server.log[p] # Len(sent) + 1
  <2> TAKE p \in 1..Len(server.log)
  <2>1. server.log[p] # 0 => server.log[p] \in 1..Len(sent)
    BY <1>3 DEF ServerInv, HeldBy
  <2> QED BY <1>2, <2>1
<1>5. StateInv(server')
  BY <1>1, <1>2, <1>4 DEF ServerInv, StateInv, ServerStates
<1>6. HeldBy(server') \subseteq HeldBy(server) \union (IF sent' = sent THEN {} ELSE {Len(sent) + 1})
  BY <1>1 DEF HeldBy
<1>7. HeldBy(server') \subseteq 1..Len(sent')
  BY <1>2, <1>6 DEF ServerInv
<1>8. EventsInv'
  BY <1>1 DEF EventsInv, At, Begin
<1>9. Len(events) \in Nat
  BY DEF EventsInv
<1> QED
  BY <1>1, <1>2, <1>5, <1>6, <1>7, <1>8, <1>9 DEF ServerInv, Grown

(* The server's queues hold accepted messages, each in one place.          *)
LEMMA QueuesApart ==
  ASSUME ServerInv
  PROVE  /\ server.queued \in Seq(Nat \ {0}) /\ server.steered \in Seq(Nat \ {0})
         /\ Distinct(server.queued) /\ Distinct(server.steered)
         /\ ToSet(server.queued) \intersect ToSet(server.steered) = {}
         /\ Len(sent) \in Nat
         /\ \A id \in ToSet(server.queued) \union ToSet(server.steered) :
               id \in 1..Len(sent) /\ id \in Nat \ {0}
<1>1. Len(sent) \in Nat
  BY DEF ServerInv
<1>2. ToSet(server.queued) \union ToSet(server.steered) \subseteq 1..Len(sent)
  BY DEF ServerInv, HeldBy
<1> QED
  BY <1>1, <1>2, ServerParts DEF ServerInv, StateInv, Apart

(* An accepted message has a new number, so it is nowhere yet.             *)
LEMMA AcceptGrows ==
  ASSUME ServerInv, EventsInv, NEW content \in Contents, Accept(content), UNCHANGED events
  PROVE  /\ ServerInv' /\ EventsInv' /\ Grown
         /\ Len(sent') = Len(sent) + 1 /\ server'.log = server.log
<1> DEFINE id == Len(sent) + 1
           queued == Append(server.queued, id)
<1>1. /\ sent' = Append(sent, content)
      /\ server' = [server EXCEPT !.queued = queued]
  BY DEF Accept
<1>2. sent \in Seq(Contents)
  BY DEF ServerInv
<1>3. sent' \in Seq(Contents) /\ Len(sent') = Len(sent) + 1
  BY <1>1, <1>2, AppendProperties
<1>4. id \in Nat \ {0} /\ queued \in Seq(Nat \ {0})
  BY QueuesApart, AppendProperties
<1>5. ToSet(queued) = ToSet(server.queued) \union {id}
  BY <1>4, QueuesApart, AppendedSet
<1>6. id \notin ToSet(server.queued) \union ToSet(server.steered)
  BY QueuesApart
<1>7. Distinct(queued)
  BY <1>4, <1>6, QueuesApart, DistinctAppended
<1>8. server' = [server EXCEPT !.queued = queued, !.steered = server.steered]
  <2> HIDE DEF queued
  <2> QED BY <1>1, ServerParts DEF ServerInv
<1>9. Apart(queued, server.steered)
  BY <1>5, <1>6, <1>7, QueuesApart DEF Apart
<1>10. sent' # sent /\ Len(sent) < Len(sent') /\ Len(sent) <= Len(sent')
  BY <1>3, QueuesApart
<1> HIDE DEF queued
<1>11. ServerInv' /\ EventsInv' /\ Grown
  <2>1. ToSet(queued) \union ToSet(server.steered)
             \subseteq ToSet(server.queued) \union ToSet(server.steered)
                       \union (IF sent' = sent THEN {} ELSE {Len(sent) + 1})
    BY <1>5, <1>10
  <2> QED BY <1>3, <1>4, <1>8, <1>9, <1>10, <2>1, QueuesApart, QueuesChange
<1> QED
  BY <1>3, <1>8, <1>11, ServerParts DEF ServerInv

(* A deleted message leaves its queue and is nowhere else.                 *)
LEMMA DeleteGrows ==
  ASSUME ServerInv, EventsInv, NEW id, Delete(id), UNCHANGED <<sent, events>>
  PROVE  ServerInv' /\ EventsInv' /\ Grown
<1> DEFINE queued == Without(server.queued, {id})
<1>1. /\ queued \in Seq(Nat \ {0}) /\ Distinct(queued)
      /\ ToSet(queued) = ToSet(server.queued) \ {id}
  BY QueuesApart, WithoutRemoves
<1> HIDE DEF queued
<1>2. server' = [server EXCEPT !.queued = queued, !.steered = server.steered]
  BY ServerParts DEF ServerInv, Delete, queued
<1>3. Apart(queued, server.steered)
  BY <1>1, QueuesApart DEF Apart
<1>4. ToSet(queued) \union ToSet(server.steered)
             \subseteq ToSet(server.queued) \union ToSet(server.steered)
                       \union (IF sent' = sent THEN {} ELSE {Len(sent) + 1})
  BY <1>1
<1>5. sent' \in Seq(Contents) /\ Len(sent) <= Len(sent') /\ sent' = sent
  BY QueuesApart DEF ServerInv
<1> QED
  BY <1>1, <1>2, <1>3, <1>4, <1>5, QueuesApart, QueuesChange

(* A steered message changes queues.                                       *)
LEMMA SteerGrows ==
  ASSUME ServerInv, EventsInv, NEW id \in ToSet(server.queued), Steer(id), UNCHANGED <<sent, events>>
  PROVE  ServerInv' /\ EventsInv' /\ Grown
<1> DEFINE queued == Without(server.queued, {id})
           steered == Append(server.steered, id)
<1>1. /\ queued \in Seq(Nat \ {0}) /\ Distinct(queued)
      /\ ToSet(queued) = ToSet(server.queued) \ {id}
  BY QueuesApart, WithoutRemoves
<1>2. id \in Nat \ {0} /\ id \notin ToSet(server.steered)
  BY QueuesApart
<1>3. /\ steered \in Seq(Nat \ {0}) /\ Distinct(steered)
      /\ ToSet(steered) = ToSet(server.steered) \union {id}
  <2>1. server.steered \in Seq(Nat \ {0}) /\ Distinct(server.steered)
    BY QueuesApart
  <2>2. ToSet(steered) = ToSet(server.steered) \union {id}
    BY <1>2, <2>1, AppendedSet
  <2>3. Distinct(steered)
    BY <1>2, <2>1, DistinctAppended
  <2> QED BY <1>2, <2>1, <2>2, <2>3
<1> HIDE DEF queued, steered
<1>4. server' = [server EXCEPT !.queued = queued, !.steered = steered]
  BY DEF Steer, queued, steered
<1>5. Apart(queued, steered)
  BY <1>1, <1>3, QueuesApart DEF Apart
<1>6. ToSet(queued) \union ToSet(steered)
             \subseteq ToSet(server.queued) \union ToSet(server.steered)
                       \union (IF sent' = sent THEN {} ELSE {Len(sent) + 1})
  BY <1>1, <1>3
<1>7. sent' \in Seq(Contents) /\ Len(sent) <= Len(sent') /\ sent' = sent
  BY QueuesApart DEF ServerInv
<1> QED
  BY <1>1, <1>3, <1>4, <1>5, <1>6, <1>7, QueuesApart, QueuesChange

(* What lies after n places is at one of the m that follow.                *)
LEMMA PlaceAfter ==
  ASSUME NEW n \in Nat, NEW m \in Nat, NEW p \in 1..(n + m), ~(p <= n)
  PROVE  \E k \in 1..m : p = n + k
<1>1. p - n \in 1..m /\ p = n + (p - n)
  OBVIOUS
<1> QED
  BY <1>1

(* Messages are written to the history, and leave the queues.              *)
LEMMA WrittenGrows ==
  ASSUME ServerInv, NEW ids \in Seq(Nat), sent' = sent,
         \A i, j \in 1..Len(ids) : ids[i] = ids[j] /\ ids[i] # 0 => i = j,
         ToSet(ids) \subseteq ToSet(server.queued) \union ToSet(server.steered) \union {0},
         NEW queued \in Seq(Nat \ {0}), NEW steered \in Seq(Nat \ {0}), Apart(queued, steered),
         ToSet(queued) \union ToSet(steered)
             = (ToSet(server.queued) \union ToSet(server.steered)) \ ToSet(ids),
         server' = [Appended(server, ids) EXCEPT !.queued = queued, !.steered = steered]
  PROVE  /\ ServerInv' /\ HeldBy(server') \subseteq HeldBy(server)
         /\ Len(server'.log) = Len(server.log) + Len(ids)
         /\ \A p \in 1..Len(server.log) : server'.log[p] = server.log[p]
         /\ \A k \in 1..Len(ids) : server'.log[Len(server.log) + k] = ids[k]
<1> DEFINE t == Appended(server, ids)
<1>1. Chunked(t) /\ Extends(t, server, ids) /\ t \in ServerStates
  BY ServerParts, MessagesAppended DEF ServerInv, Chunked
<1>2. server' = [t EXCEPT !.queued = queued, !.steered = steered]
  OBVIOUS
<1> HIDE DEF t
<1>3. /\ server' = [queued |-> queued, steered |-> steered, log |-> t.log, currentFirst |-> t.currentFirst]
      /\ server'.log = t.log /\ server'.currentFirst = t.currentFirst
  BY <1>1, <1>2 DEF ServerStates
<1>4. /\ server.log \in Seq(Nat) /\ Len(server.log) \in Nat /\ Len(ids) \in Nat
      /\ t.log \in Seq(Nat) /\ t.currentFirst \in Nat
  BY <1>1, ServerParts DEF ServerInv, ServerStates
<1>5. /\ Len(server'.log) = Len(server.log) + Len(ids)
      /\ \A p \in 1..Len(server.log) : server'.log[p] = server.log[p]
      /\ \A k \in 1..Len(ids) : server'.log[Len(server.log) + k] = ids[k]
  <2>1. server'.log = t.log
    BY <1>3
  <2> QED BY <1>1, <2>1 DEF Extends
<1>6. \A k \in 1..Len(ids) : ids[k] \in ToSet(ids)
  BY SetOfSequence
<1>7. \A p \in 1..Len(server'.log) :
         p \in 1..Len(server.log) \/ \E k \in 1..Len(ids) : p = Len(server.log) + k
  <2> TAKE p \in 1..Len(server'.log)
  <2>1. CASE p <= Len(server.log)
    BY <2>1
  <2>2. CASE ~(p <= Len(server.log))
    <3>1. /\ p \in 1..(Len(server.log) + Len(ids))
          /\ Len(server.log) \in Nat /\ Len(ids) \in Nat
      BY <1>4, <1>5
    <3> QED BY <2>2, <3>1, PlaceAfter
  <2> QED BY <2>1, <2>2
<1>8. \A p \in 1..Len(server.log), k \in 1..Len(ids) : ids[k] # 0 => server.log[p] # ids[k]
  BY <1>6 DEF ServerInv, StateInv
<1>9. ASSUME NEW p \in 1..Len(server'.log), NEW q \in 1..Len(server'.log),
             server'.log[p] = server'.log[q], server'.log[p] # 0
      PROVE  p = q
  <2>1. CASE p \in 1..Len(server.log) /\ q \in 1..Len(server.log)
    BY <1>5, <1>9, <2>1 DEF ServerInv, StateInv
  <2>2. CASE p \notin 1..Len(server.log) /\ q \notin 1..Len(server.log)
    <3>1. PICK j \in 1..Len(ids), k \in 1..Len(ids) : p = Len(server.log) + j /\ q = Len(server.log) + k
      BY <1>7, <2>2
    <3>2. ids[j] = ids[k] /\ ids[j] # 0
      BY <1>5, <1>9, <3>1
    <3> QED BY <3>1, <3>2
  <2>3. CASE p \in 1..Len(server.log) /\ q \notin 1..Len(server.log)
    <3>1. PICK k \in 1..Len(ids) : q = Len(server.log) + k
      BY <1>7, <2>3
    <3>2. server'.log[p] = server.log[p] /\ server'.log[q] = ids[k]
      BY <1>5, <2>3, <3>1
    <3> QED BY <1>8, <1>9, <2>3, <3>2
  <2>4. CASE p \notin 1..Len(server.log) /\ q \in 1..Len(server.log)
    <3>1. PICK k \in 1..Len(ids) : p = Len(server.log) + k
      BY <1>7, <2>4
    <3>2. server'.log[q] = server.log[q] /\ server'.log[p] = ids[k]
      BY <1>5, <2>4, <3>1
    <3> QED BY <1>8, <1>9, <2>4, <3>2
  <2> QED BY <2>1, <2>2, <2>3, <2>4
<1>10. ASSUME NEW id \in ToSet(queued) \union ToSet(steered), NEW p \in 1..Len(server'.log)
       PROVE  server'.log[p] # id
  <2>1. id \in ToSet(server.queued) \union ToSet(server.steered) /\ id \notin ToSet(ids)
    OBVIOUS
  <2>2. CASE p \in 1..Len(server.log)
    BY <1>5, <2>1, <2>2 DEF ServerInv, StateInv
  <2>3. CASE p \notin 1..Len(server.log)
    <3>1. PICK k \in 1..Len(ids) : p = Len(server.log) + k
      BY <1>7, <2>3
    <3>2. server'.log[p] = ids[k]
      BY <1>5, <3>1
    <3> QED BY <1>6, <2>1, <3>2
  <2> QED BY <2>2, <2>3
<1>11. StateInv(server')
  <2>1. server' \in ServerStates
    BY <1>3, <1>4 DEF ServerStates
  <2>2. IsStart(server'.currentFirst) /\ server'.currentFirst <= Len(server'.log) + 1
    <3>1. server'.log = t.log /\ server'.currentFirst = t.currentFirst
      BY <1>3
    <3> QED BY <1>1, <3>1 DEF Chunked
  <2>3. server'.queued = queued /\ server'.steered = steered
    BY <1>3
  <2> HIDE DEF t
  <2> QED BY <1>9, <1>10, <2>1, <2>2, <2>3 DEF StateInv
<1>12. HeldBy(server') \subseteq HeldBy(server)
  <2>1. ASSUME NEW id \in ToSet(server'.log) \ {0}
        PROVE  id \in HeldBy(server)
    <3>1. ToSet(t.log) = {t.log[p] : p \in 1..Len(t.log)}
      BY <1>4, SetOfSequence
    <3>2. id \in ToSet(t.log) /\ server'.log = t.log
      BY <1>3, <2>1
    <3>3. PICK p \in 1..Len(server'.log) : id = server'.log[p]
      BY <3>1, <3>2
    <3>4. CASE p \in 1..Len(server.log)
      <4>1. id \in ToSet(server.log)
        BY <1>4, <1>5, <3>3, <3>4, SetOfSequence
      <4> QED BY <2>1, <4>1 DEF HeldBy
    <3>5. CASE p \notin 1..Len(server.log)
      <4>1. PICK k \in 1..Len(ids) : p = Len(server.log) + k
        BY <1>7, <3>5
      <4>2. id \in ToSet(ids)
        BY <1>5, <1>6, <3>3, <4>1
      <4> QED BY <2>1, <4>2 DEF HeldBy
    <3> QED BY <3>4, <3>5
  <2>2. server'.queued = queued /\ server'.steered = steered
    BY <1>3
  <2>3. ToSet(queued) \union ToSet(steered) \subseteq HeldBy(server)
    BY DEF HeldBy
  <2> QED BY <2>1, <2>2, <2>3 DEF HeldBy
<1> QED
  BY <1>5, <1>11, <1>12 DEF ServerInv

(* The worker takes messages.                                              *)
LEMMA ConsumeGrows ==
  ASSUME ServerInv, EventsInv, sent' = sent,
         NEW ids \in Seq(Nat \ {0}), Distinct(ids), ids # <<>>,
         ToSet(ids) \subseteq ToSet(server.queued) \union ToSet(server.steered),
         server' = [Appended(server, ids) EXCEPT !.queued = Without(@, ToSet(ids)),
                                                 !.steered = Without(@, ToSet(ids))],
         events' = Append(events, [ids |-> ids, sequence |-> Len(server'.log)])
  PROVE  ServerInv' /\ EventsInv' /\ Grown
<1> DEFINE n == Len(server.log)
           Written == /\ ServerInv' /\ HeldBy(server') \subseteq HeldBy(server)
                      /\ Len(server'.log) = n + Len(ids)
                      /\ \A p \in 1..n : server'.log[p] = server.log[p]
                      /\ \A k \in 1..Len(ids) : server'.log[n + k] = ids[k]
           queued == Without(server.queued, ToSet(ids))
           steered == Without(server.steered, ToSet(ids))
           event == [ids |-> ids, sequence |-> Len(server'.log)]
<1>0. n \in Nat /\ Len(events) \in Nat /\ Len(sent) \in Nat
  BY ServerParts, QueuesApart DEF ServerInv, EventsInv
<1>1. /\ queued \in Seq(Nat \ {0}) /\ Distinct(queued)
      /\ ToSet(queued) = ToSet(server.queued) \ ToSet(ids)
      /\ steered \in Seq(Nat \ {0}) /\ Distinct(steered)
      /\ ToSet(steered) = ToSet(server.steered) \ ToSet(ids)
  BY QueuesApart, WithoutRemoves
<1>2. server' = [Appended(server, ids) EXCEPT !.queued = queued, !.steered = steered]
  <2>1. Appended(server, ids).queued = server.queued /\ Appended(server, ids).steered = server.steered
    <3>1. ids \in Seq(Nat)
      OBVIOUS
    <3> QED BY <3>1, ServerParts, MessagesAppended DEF ServerInv, Extends
  <2>2. server' = [Appended(server, ids) EXCEPT !.queued = Without(@, ToSet(ids)),
                                                !.steered = Without(@, ToSet(ids))]
    OBVIOUS
  <2> QED BY <2>1, <2>2
<1>3. events' = Append(events, event)
  OBVIOUS
<1> HIDE DEF queued, steered
<1>4. Written
  <2>1. Apart(queued, steered)
    BY <1>1, QueuesApart DEF Apart
  <2>2. ids \in Seq(Nat) /\ \A i, j \in 1..Len(ids) : ids[i] = ids[j] /\ ids[i] # 0 => i = j
    BY DEF Distinct
  <2>3. ToSet(queued) \union ToSet(steered)
           = (ToSet(server.queued) \union ToSet(server.steered)) \ ToSet(ids)
    BY <1>1
  <2>4. ToSet(ids) \subseteq ToSet(server.queued) \union ToSet(server.steered) \union {0}
    OBVIOUS
  <2> QED BY <1>0, <1>1, <1>2, <2>1, <2>2, <2>3, <2>4, WrittenGrows
<1> HIDE DEF n
<1>5. /\ Len(events') = Len(events) + 1 /\ events'[Len(events) + 1] = event
      /\ events' \in Seq([ids : Seq(Nat \ {0}), sequence : Nat])
      /\ \A i \in 1..Len(events) : events'[i] = events[i]
  <2>1. event \in [ids : Seq(Nat \ {0}), sequence : Nat]
    BY <1>0, <1>4
  <2>2. events \in Seq([ids : Seq(Nat \ {0}), sequence : Nat])
    BY DEF EventsInv
  <2> HIDE DEF event
  <2> QED BY <1>3, <2>1, <2>2, AppendProperties
<1>6. Begin(event) = n /\ event.sequence = n + Len(ids) /\ event.ids = ids /\ Len(ids) \in Nat
  BY <1>0, <1>4 DEF Begin
<1> HIDE DEF event
<1>7. \A i \in 1..Len(events') : i \in 1..Len(events) \/ i = Len(events) + 1
  BY <1>0, <1>5
<1>8. ASSUME NEW i \in 1..Len(events)
      PROVE  /\ Begin(events[i]) \in Nat /\ events[i].sequence <= n /\ events[i].sequence \in Nat
             /\ \A k \in 1..Len(events[i].ids) : At(Begin(events[i]) + k, events[i].ids[k])'
  <2>1. /\ Begin(events[i]) \in Nat /\ events[i].sequence <= n /\ events[i].sequence \in Nat
    <3>1. events[i] \in [ids : Seq(Nat \ {0}), sequence : Nat]
      BY SetOfSequence DEF EventsInv
    <3>2. Begin(events[i]) \in Nat /\ events[i].sequence <= n
      BY DEF EventsInv, n
    <3> QED BY <3>1, <3>2
  <2>2. ASSUME NEW k \in 1..Len(events[i].ids)
        PROVE  At(Begin(events[i]) + k, events[i].ids[k])'
    <3>1. At(Begin(events[i]) + k, events[i].ids[k])
      BY DEF EventsInv
    <3>2. events'[i] = events[i]
      BY <1>5
    <3>3. /\ Begin(events[i]) + k \in 1..n
          /\ server.log[Begin(events[i]) + k] = events[i].ids[k]
      BY <3>1 DEF At, n
    <3>4. Begin(events[i]) + k \in 1..Len(server'.log)
      BY <1>0, <1>4, <1>6, <3>3
    <3>5. server'.log[Begin(events[i]) + k] = events[i].ids[k]
      BY <1>4, <3>3
    <3> QED BY <3>2, <3>4, <3>5 DEF At, Begin
  <2> QED BY <2>1, <2>2
<1>9. ASSUME NEW i \in 1..Len(events')
      PROVE  /\ Begin(events'[i]) \in Nat /\ events'[i].sequence <= Len(server'.log)
             /\ \A k \in 1..Len(events'[i].ids) : At(Begin(events[i]) + k, events[i].ids[k])'
  <2>1. CASE i \in 1..Len(events)
    <3>1. events'[i] = events[i]
      BY <1>5, <2>1
    <3>2. /\ Begin(events[i]) \in Nat /\ events[i].sequence <= Len(server'.log)
      BY <1>0, <1>4, <1>6, <1>8, <2>1
    <3>3. \A k \in 1..Len(events[i].ids) : At(Begin(events[i]) + k, events[i].ids[k])'
      BY <1>8, <2>1
    <3> QED BY <3>1, <3>2, <3>3
  <2>2. CASE i = Len(events) + 1
    <3>1. events'[i] = event
      BY <1>5, <2>2
    <3>2. /\ Begin(event) \in Nat /\ event.sequence <= Len(server'.log)
      BY <1>0, <1>4, <1>6
    <3>3. ASSUME NEW k \in 1..Len(ids)
          PROVE  n + k \in 1..Len(server'.log) /\ server'.log[n + k] = ids[k]
      BY <1>0, <1>4, <1>6, SMTT(20)
    <3> QED BY <1>6, <3>1, <3>2, <3>3 DEF At, Begin
  <2> QED BY <1>7, <2>1, <2>2
<1>10. ASSUME NEW i \in 1..Len(events'), NEW j \in 1..Len(events'), i < j
       PROVE  events'[i].sequence <= Begin(events'[j])
  <2>1. i \in 1..Len(events) /\ events'[i] = events[i]
    BY <1>0, <1>5, <1>10
  <2>2. CASE j \in 1..Len(events)
    BY <1>5, <1>10, <2>1, <2>2 DEF EventsInv
  <2>3. CASE j = Len(events) + 1
    BY <1>5, <1>6, <1>8, <2>1, <2>3
  <2> QED BY <1>7, <2>2, <2>3
<1>11. EventsInv'
  BY <1>5, <1>9, <1>10 DEF EventsInv, Begin
<1>12. Grown
  <2>1. Len(ids) \in Nat
    BY SetOfSequence
  <2>2. n <= Len(server'.log) /\ Len(events) <= Len(events') /\ Len(sent) <= Len(sent')
    BY <1>0, <1>4, <1>5, <2>1
  <2> QED BY <1>4, <1>5, <2>2 DEF Grown, n
<1> QED
  BY <1>4, <1>11, <1>12

(* What the worker consumes leaves its queue for the end of the history,   *)
(* and the event names its places.                                         *)
LEMMA WorkerGrows ==
  ASSUME ServerInv, EventsInv, WorkerActs
  PROVE  ServerInv' /\ EventsInv' /\ Grown
<1> DEFINE n == Len(server.log)
<1>1. sent' = sent /\ n \in Nat /\ Len(events) \in Nat /\ Len(sent) \in Nat
  BY ServerParts, QueuesApart DEF WorkerActs, ServerInv, EventsInv
<1>2. CASE server.queued # <<>> /\ Consume(<<server.queued[1]>>)
  <2> DEFINE first == server.queued[1]
             ids == <<first>>
  <2>1. first \in ToSet(server.queued) /\ first \in Nat \ {0}
    <3>1. 1 \in 1..Len(server.queued)
      BY <1>2, QueuesApart
    <3> QED BY <3>1, QueuesApart, SetOfSequence
  <2> HIDE DEF first
  <2>2. ids \in Seq(Nat \ {0}) /\ Len(ids) = 1 /\ ids[1] = first /\ ids # <<>>
    BY <2>1
  <2>3. ToSet(ids) = {first}
    BY <2>1, Singleton
  <2>4. Distinct(ids)
    BY <2>2 DEF Distinct
  <2>5. /\ server' = [Appended(server, ids) EXCEPT !.queued = Without(@, ToSet(ids)),
                                                   !.steered = Without(@, ToSet(ids))]
        /\ events' = Append(events, [ids |-> ids, sequence |-> Len(server'.log)])
    BY <1>2 DEF Consume, LastSequence, first
  <2> HIDE DEF ids
  <2> QED BY <1>1, <2>1, <2>2, <2>3, <2>4, <2>5, ConsumeGrows
<1>3. CASE Consume(server.steered)
  <2> DEFINE ids == server.steered
  <2>1. ids \in Seq(Nat \ {0}) /\ Distinct(ids) /\ ids # <<>>
    BY <1>3, QueuesApart DEF Consume
  <2>2. /\ server' = [Appended(server, ids) EXCEPT !.queued = Without(@, ToSet(ids)),
                                                   !.steered = Without(@, ToSet(ids))]
        /\ events' = Append(events, [ids |-> ids, sequence |-> Len(server'.log)])
    BY <1>3 DEF Consume, LastSequence
  <2>3. ToSet(ids) \subseteq ToSet(server.queued) \union ToSet(server.steered)
    OBVIOUS
  <2> HIDE DEF ids
  <2> QED BY <1>1, <2>1, <2>2, <2>3, ConsumeGrows
<1>4. CASE server' = Appended(server, <<0>>) /\ UNCHANGED events
  <2> DEFINE t == Appended(server, <<0>>)
             Written == /\ ServerInv' /\ HeldBy(server') \subseteq HeldBy(server)
                        /\ Len(server'.log) = n + 1
                        /\ \A p \in 1..n : server'.log[p] = server.log[p]
  <2>1. <<0>> \in Seq(Nat) /\ Len(<<0>>) = 1 /\ <<0>>[1] = 0
    OBVIOUS
  <2>2. ToSet(<<0>>) = {0}
    BY Singleton
  <2>3. Extends(t, server, <<0>>) /\ t \in ServerStates
    BY <2>1, ServerParts, MessagesAppended DEF ServerInv, Chunked
  <2>4. t = [t EXCEPT !.queued = server.queued, !.steered = server.steered]
    <3>1. t.queued = server.queued /\ t.steered = server.steered
      BY <2>3 DEF Extends
    <3> HIDE DEF t
    <3> QED BY <2>3, <3>1 DEF ServerStates
  <2>5. Apart(server.queued, server.steered)
    BY QueuesApart DEF Apart
  <2>6. ToSet(server.queued) \union ToSet(server.steered)
          = (ToSet(server.queued) \union ToSet(server.steered)) \ ToSet(<<0>>)
    BY <2>2, QueuesApart
  <2>7. \A i, j \in 1..Len(<<0>>) : <<0>>[i] = <<0>>[j] /\ <<0>>[i] # 0 => i = j
    BY <2>1
  <2>8. Written
    <3>1. ToSet(<<0>>) \subseteq ToSet(server.queued) \union ToSet(server.steered) \union {0}
      BY <2>2
    <3>2. server' = [Appended(server, <<0>>) EXCEPT !.queued = server.queued, !.steered = server.steered]
      BY <1>4, <2>4
    <3> DEFINE zero == <<0>>
    <3>3. /\ zero \in Seq(Nat) /\ ToSet(zero) \subseteq ToSet(server.queued) \union ToSet(server.steered) \union {0}
          /\ ToSet(server.queued) \union ToSet(server.steered)
               = (ToSet(server.queued) \union ToSet(server.steered)) \ ToSet(zero)
          /\ \A i, j \in 1..Len(zero) : zero[i] = zero[j] /\ zero[i] # 0 => i = j
          /\ server' = [Appended(server, zero) EXCEPT !.queued = server.queued, !.steered = server.steered]
      BY <2>1, <2>6, <2>7, <3>1, <3>2
    <3>4. /\ ServerInv' /\ HeldBy(server') \subseteq HeldBy(server)
          /\ Len(server'.log) = n + Len(zero)
          /\ \A p \in 1..n : server'.log[p] = server.log[p]
      <4> HIDE DEF zero
      <4> QED BY <1>1, <2>5, <3>3, QueuesApart, WrittenGrows
    <3> QED BY <2>1, <3>4
  <2>9. Grown
    <3>1. Len(events) <= Len(events') /\ \A i \in 1..Len(events) : events'[i] = events[i]
      BY <1>1, <1>4
    <3>2. n <= Len(server'.log) /\ Len(sent) <= Len(sent')
      BY <1>1, <2>1, <2>8
    <3> QED BY <2>8, <3>1, <3>2 DEF Grown, n
  <2>10. EventsInv'
    <3>1. events' = events
      BY <1>4
    <3>2. n <= Len(server'.log) /\ Len(server'.log) \in Nat /\ \A p \in 1..n : server'.log[p] = server.log[p]
      BY <1>1, <2>1, <2>8
    <3>3. ASSUME NEW i \in 1..Len(events)
          PROVE  /\ Begin(events[i]) \in Nat /\ events[i].sequence <= Len(server'.log)
                 /\ \A k \in 1..Len(events[i].ids) :
                       /\ Begin(events[i]) + k \in 1..Len(server'.log)
                       /\ server'.log[Begin(events[i]) + k] = events[i].ids[k]
      <4>1. /\ Begin(events[i]) \in Nat /\ events[i].sequence <= n /\ events[i].sequence \in Nat
        <5>1. events[i] \in [ids : Seq(Nat \ {0}), sequence : Nat]
          BY SetOfSequence DEF EventsInv
        <5>2. Begin(events[i]) \in Nat /\ events[i].sequence <= n
          BY DEF EventsInv, n
        <5> QED BY <5>1, <5>2
      <4>2. ASSUME NEW k \in 1..Len(events[i].ids)
            PROVE  /\ Begin(events[i]) + k \in 1..n
                   /\ server.log[Begin(events[i]) + k] = events[i].ids[k]
        BY DEF EventsInv, At
      <4> HIDE DEF n
      <4>3. ASSUME NEW p \in 1..n
            PROVE  p \in 1..Len(server'.log)
        BY <1>1, <3>2
      <4>4. events[i].sequence <= Len(server'.log)
        BY <1>1, <3>2, <4>1
      <4> QED BY <3>2, <4>1, <4>2, <4>3, <4>4
    <3> QED BY <3>1, <3>3 DEF EventsInv, At, Begin
  <2> QED BY <2>8, <2>9, <2>10
<1> QED
  BY <1>2, <1>3, <1>4 DEF WorkerActs

(* Other clients do nothing the view's own commands do not.                *)
LEMMA OthersGrow ==
  ASSUME ServerInv, EventsInv, OthersAct
  PROVE  ServerInv' /\ EventsInv' /\ Grown
<1>1. UNCHANGED events
  BY DEF OthersAct
<1>2. CASE \E content \in Contents : Accept(content)
  BY <1>1, <1>2, AcceptGrows
<1>3. CASE (\E id \in ToSet(server.queued) : Delete(id) \/ Steer(id)) /\ UNCHANGED sent
  <2>1. PICK id \in ToSet(server.queued) : Delete(id) \/ Steer(id)
    BY <1>3
  <2>2. UNCHANGED <<sent, events>>
    BY <1>1, <1>3
  <2> QED BY <2>1, <2>2, DeleteGrows, SteerGrows
<1> QED
  BY <1>2, <1>3 DEF OthersAct

(* The view's own command commits; only a send makes a message.            *)
LEMMA CommitGrows ==
  ASSUME ServerInv, EventsInv, CommandCommits,
         command.kind = "send" => command.content \in Contents
  PROVE  /\ ServerInv' /\ EventsInv' /\ Grown
         /\ command.kind = "send" =>
              Len(sent') = Len(sent) + 1 /\ server'.log = server.log
<1>1. UNCHANGED events
  BY DEF CommandCommits
<1>2. CASE command.kind = "send"
  <2>1. Accept(command.content)
    BY <1>2 DEF CommandCommits
  <2>2. command.content \in Contents
    BY <1>2
  <2> QED BY <1>1, <2>1, <2>2, AcceptGrows
<1>3. CASE command.kind # "send"
  <2>1. command.id \in ToSet(server.queued) /\ (Delete(command.id) \/ Steer(command.id))
    BY <1>3 DEF CommandCommits
  <2>2. UNCHANGED <<sent, events>>
    BY <1>1, <1>3 DEF CommandCommits
  <2> DEFINE id == command.id
  <2>3. id \in ToSet(server.queued) /\ (Delete(id) \/ Steer(id))
    BY <2>1
  <2> HIDE DEF id
  <2> QED BY <1>3, <2>2, <2>3, DeleteGrows, SteerGrows
<1> QED
  BY <1>2, <1>3

(* A message is at one place, and stays there.                             *)
LEMMA OnePlace ==
  ASSUME ServerInv
  PROVE  \A p, q, id : At(p, id) /\ At(q, id) /\ id # 0 => p = q
BY DEF ServerInv, StateInv, At

(* A message keeps its place in the durable history.                       *)
LEMMA PlacesStay ==
  ASSUME ServerInv, ServerInv', Grown
  PROVE  /\ Len(server.log) \in Nat /\ Len(server'.log) \in Nat
         /\ \A p, id : At(p, id) => At(p, id)'
         /\ \A p, id : At(p, id)' => At(p, id) \/ (p \in Nat /\ p > Len(server.log))
         /\ \A p, q, id : At(p, id)' /\ At(q, id)' /\ id # 0 => p = q
<1>1. Len(server.log) \in Nat /\ Len(server'.log) \in Nat
  <2>1. Len(server.log) \in Nat
    BY ServerParts DEF ServerInv
  <2>2. server'.log \in Seq(Nat)
    BY DEF ServerInv, StateInv, ServerStates
  <2> QED BY <2>1, <2>2
<1>2. \A p, id : At(p, id) => At(p, id)'
  BY <1>1 DEF Grown, At
<1>3. \A p, id : At(p, id)' => At(p, id) \/ (p \in Nat /\ p > Len(server.log))
  BY <1>1 DEF Grown, At
<1>4. \A p, q, id : At(p, id)' /\ At(q, id)' /\ id # 0 => p = q
  BY DEF ServerInv, StateInv, At
<1> QED
  BY <1>1, <1>2, <1>3, <1>4

(* What is shown stays consistent with the server as that goes on.         *)
LEMMA GrownKeeps ==
  ASSUME ShownInv, ServerInv', EventsInv', Grown,
         UNCHANGED <<read, view, consumed, heard, hasHole>>,
         view.reconciliation = "loading" => UNCHANGED <<told, command>>
  PROVE  ShownInv'
<1>1. ServerInv /\ EventsInv /\ HeardInv /\ HistoryInv /\ WaitingInv /\ ConsumedInv /\ ReadInv
  BY DEF ShownInv
<1>2. /\ Len(server.log) \in Nat /\ Len(server'.log) \in Nat
      /\ \A p, id : At(p, id) => At(p, id)'
      /\ \A p, id : At(p, id)' => At(p, id) \/ (p \in Nat /\ p > Len(server.log))
      /\ \A p, q, id : At(p, id)' /\ At(q, id)' /\ id # 0 => p = q
  BY <1>1, PlacesStay
<1>3. /\ Len(events) <= Len(events') /\ \A i \in 1..Len(events) : events'[i] = events[i]
      /\ Len(server.log) <= Len(server'.log) /\ Len(sent) <= Len(sent')
      /\ Len(sent) \in Nat /\ Len(sent') \in Nat /\ Len(events) \in Nat /\ Len(events') \in Nat
  BY <1>1 DEF Grown, ServerInv, EventsInv
<1>4. view.last \in Nat /\ view.last <= Len(server.log)
  BY <1>1 DEF HistoryInv
<1>5. HeardUpTo' = HeardUpTo
  BY <1>1, <1>3 DEF HeardInv, HeardUpTo
<1>6. HeardInv'
  <2>1. heard.count <= Len(events')
    BY <1>1, <1>3 DEF HeardInv
  <2> QED BY <1>1, <1>5, <2>1 DEF HeardInv
<1>7. HistoryInv'
  <2>1. view.last <= Len(server'.log)
    BY <1>2, <1>3, <1>4
  <2> QED BY <1>1, <2>1 DEF HistoryInv
<1>8. WaitingInv'
  <2>1. Waiting' = Waiting /\ Consumed' = Consumed
    BY DEF Waiting, Consumed
  <2>2. Waiting \subseteq 1..Len(sent')
    BY <1>1, <1>3 DEF WaitingInv
  <2>3. ASSUME NEW id \in Waiting, NEW p \in 1..view.last
        PROVE  ~At(p, id)'
    <3>1. ~At(p, id) /\ ~(p > Len(server.log))
      BY <1>1, <1>2, <1>4 DEF WaitingInv
    <3> QED BY <1>2, <3>1
  <2> QED BY <1>1, <2>1, <2>2, <2>3 DEF WaitingInv
<1>9. ConsumedInv'
  <2>1. consumed \in Seq([id : Nat \ {0}, after : Nat])
    BY <1>1 DEF ConsumedInv
  <2>2. ASSUME NEW i \in 1..Len(consumed)
        PROVE  consumed[i].id # 0
    <3>1. consumed[i] \in [id : Nat \ {0}, after : Nat]
      BY <2>1, SetOfSequence
    <3> QED BY <3>1
  <2>3. \A i \in 1..Len(consumed) :
          \E p \in Nat : At(p, consumed[i].id)' /\ p > consumed[i].after /\ p <= HeardUpTo
    BY <1>1, <1>2 DEF ConsumedInv
  <2>4. ASSUME NEW i \in 1..Len(consumed), NEW p \in Nat, At(p, consumed[i].id)'
        PROVE  At(p, consumed[i].id)
    <3>1. PICK q \in Nat : At(q, consumed[i].id)
      BY <1>1 DEF ConsumedInv
    <3> QED BY <1>2, <2>2, <2>4, <3>1
  <2>5. \A i, j \in 1..Len(consumed), p, q \in Nat :
          i < j /\ At(p, consumed[i].id)' /\ At(q, consumed[j].id)' => p < q
    BY <1>1, <2>4, SMTT(20) DEF ConsumedInv
  <2>6. hasHole' = hasHole /\ view' = view /\ consumed' = consumed
    OBVIOUS
  <2>7. ~hasHole => \A i \in 1..Len(consumed) :
          /\ \A p \in Nat : At(p, consumed[i].id)' => p > view.last
          /\ (consumed[i].after + 1)..view.last \subseteq view.history
    BY <1>1, <2>4 DEF ConsumedInv
  <2> QED BY <1>5, <2>1, <2>3, <2>5, <2>6, <2>7 DEF ConsumedInv, At
<1>10. ReadInv'
  <2>1. read' = read /\ view' = view
    OBVIOUS
  <2>2. ASSUME read.phase = "loaded"
        PROVE  /\ HeldBy(read.snapshot) \subseteq 1..Len(sent')
               /\ Len(read.snapshot.log) <= Len(server'.log)
               /\ \A p \in 1..Len(read.snapshot.log) : read.snapshot.log[p] = server'.log[p]
    <3>1. /\ StateInv(read.snapshot) /\ HeldBy(read.snapshot) \subseteq 1..Len(sent)
          /\ Len(read.snapshot.log) <= Len(server.log)
          /\ \A p \in 1..Len(read.snapshot.log) : read.snapshot.log[p] = server.log[p]
      BY <1>1, <2>2 DEF ReadInv
    <3>2. Len(read.snapshot.log) \in Nat
      BY <3>1, ServerParts
    <3> QED BY <1>2, <1>3, <3>1, <3>2, SMTT(20) DEF Grown
  <2> QED BY <1>1, <2>1, <2>2 DEF ReadInv
<1> QED
  BY <1>6, <1>7, <1>8, <1>9, <1>10 DEF ShownInv

(* So does what the browser was told of.                                   *)
LEMMA GrownKeepsTold ==
  ASSUME ShownInv, ToldInv, ServerInv', Grown, UNCHANGED <<read, view, consumed, hasHole, told>>,
         command' \in Commands, command' = NoCommand => command = NoCommand,
         \A x \in Telling' \ Telling : x \in 1..Len(sent') /\ \A p : ~At(p, x)'
  PROVE  ToldInv'
<1>1. ServerInv /\ HistoryInv
  BY DEF ShownInv
<1>2. /\ Len(server.log) \in Nat /\ Len(server'.log) \in Nat
      /\ \A p, id : At(p, id) => At(p, id)'
      /\ \A p, id : At(p, id)' => At(p, id) \/ (p \in Nat /\ p > Len(server.log))
  BY <1>1, PlacesStay
<1>3. Len(sent) \in Nat /\ Len(sent') \in Nat /\ Len(sent) <= Len(sent')
  BY <1>1 DEF Grown, ServerInv
<1>4. view.last \in Nat /\ view.last <= Len(server.log)
  BY <1>1 DEF HistoryInv
<1>5. told \union Telling' \subseteq 1..Len(sent')
  BY <1>3 DEF ToldInv
<1>6. told \intersect HeldBy(server') \subseteq HeldBy(server)
  BY <1>3 DEF ToldInv, Grown
<1>7. ASSUME ~hasHole, NEW id \in told \union Telling', NEW p \in Nat, At(p, id)'
      PROVE  p \in view.history \/ p > view.last
  <2>1. id \in told \union Telling
    BY <1>7
  <2>2. CASE At(p, id)
    BY <1>7, <2>1, <2>2 DEF ToldInv
  <2>3. CASE p > Len(server.log)
    BY <1>2, <1>4, <2>3
  <2> QED BY <1>2, <1>7, <2>2, <2>3
<1>8. read.phase = "loaded" /\ read.isCurrent =>
          told \intersect HeldBy(server') \subseteq HeldBy(read.snapshot)
  BY <1>6 DEF ToldInv
<1>9. ASSUME view.reconciliation = "open", command' = NoCommand, ~hasHole,
             NEW id \in told \intersect HeldBy(server')
      PROVE  id \in Waiting \union Consumed \/ \E p \in view.history : At(p, id)'
  <2>1. command = NoCommand
    BY <1>9 DEF NoCommand
  <2> QED BY <1>2, <1>6, <1>9, <2>1 DEF ToldInv
<1>10. Waiting' = Waiting /\ Consumed' = Consumed
  BY DEF Waiting, Consumed
<1>11. read' = read /\ view' = view /\ hasHole' = hasHole /\ told' = told
  OBVIOUS
<1> QED
  BY <1>5, <1>7, <1>8, <1>9, <1>10, <1>11 DEF ToldInv, At

-----------------------------------------------------------------------------
(* The Snapshot reads.                                                     *)
LEMMA NothingChanges ==
  ASSUME InputsInv, UNCHANGED vars
  PROVE  InputsInv'
<1>1. ServerInv' /\ EventsInv' /\ HeardInv'
  BY DEF InputsInv, ShownInv, ServerInv, EventsInv, HeardInv, HeardUpTo, At, vars, durable
<1>2. HistoryInv' /\ WaitingInv' /\ Waiting' = Waiting /\ Consumed' = Consumed
  BY DEF InputsInv, ShownInv, HistoryInv, WaitingInv, Waiting, Consumed, At, vars, durable, shown, ghosts
<1>3. ConsumedInv' /\ ReadInv'
  BY DEF InputsInv, ShownInv, ConsumedInv, ReadInv, HeardUpTo, At, vars, durable, shown, ghosts
<1>4. ToldInv'
  BY <1>2 DEF InputsInv, ToldInv, Telling, At, vars, durable, shown, ghosts
<1> QED
  BY <1>1, <1>2, <1>3, <1>4 DEF InputsInv, ShownInv

(* What only the browser does leaves server and events alone.              *)
LEMMA DurableStays ==
  ASSUME InputsInv, UNCHANGED <<durable, heard>>
  PROVE  /\ ServerInv' /\ EventsInv' /\ HeardInv' /\ HeardUpTo' = HeardUpTo
         /\ server' = server /\ sent' = sent /\ \A p, id : At(p, id)' <=> At(p, id)
<1>1. server' = server /\ sent' = sent /\ events' = events /\ heard' = heard
  BY DEF durable
<1> QED
  BY <1>1 DEF InputsInv, ShownInv, ServerInv, EventsInv, HeardInv, HeardUpTo, At

(* What the view shows is consistent as long as it and the server stay.    *)
LEMMA ViewStays ==
  ASSUME InputsInv, UNCHANGED <<durable, heard, view, consumed, hasHole>>,
         view.reconciliation = "loading" => UNCHANGED <<told, command>>
  PROVE  HistoryInv' /\ WaitingInv' /\ ConsumedInv' /\ Waiting' = Waiting /\ Consumed' = Consumed
<1>1. /\ HeardUpTo' = HeardUpTo /\ server' = server /\ sent' = sent
      /\ \A p, id : At(p, id)' <=> At(p, id)
  BY DurableStays
<1>2. view' = view /\ consumed' = consumed /\ hasHole' = hasHole
  OBVIOUS
<1>3. Waiting' = Waiting /\ Consumed' = Consumed
  BY <1>2 DEF Waiting, Consumed
<1>4. HistoryInv'
  BY <1>1, <1>2 DEF InputsInv, ShownInv, HistoryInv
<1>5. WaitingInv'
  BY <1>1, <1>2, <1>3 DEF InputsInv, ShownInv, WaitingInv, At
<1>6. ConsumedInv'
  BY <1>1, <1>2 DEF InputsInv, ShownInv, ConsumedInv, At
<1> QED
  BY <1>3, <1>4, <1>5, <1>6

(* A read is sent, or repeated as a blocking request came after it.        *)
LEMMA NewReadKeeps ==
  ASSUME InputsInv, read' = NewRead, UNCHANGED <<durable, shown, heard, command, ghosts>>
  PROVE  InputsInv'
<1>1. read'.phase = "sent" /\ read'.isCurrent = TRUE
  BY DEF NewRead
<1>2. /\ view' = view /\ consumed' = consumed /\ hasHole' = hasHole /\ told' = told
      /\ command' = command
  BY DEF shown, ghosts
<1>3. /\ ServerInv' /\ EventsInv' /\ HeardInv' /\ server' = server /\ sent' = sent
  BY DurableStays
<1>4. HistoryInv' /\ WaitingInv' /\ ConsumedInv' /\ Waiting' = Waiting /\ Consumed' = Consumed
  BY <1>2, ViewStays
<1>5. ReadInv'
  BY <1>1 DEF ReadInv, NewRead
<1>6. ToldInv'
  BY <1>1, <1>2, <1>3, <1>4 DEF InputsInv, ToldInv, Telling, At
<1> QED
  BY <1>3, <1>4, <1>5, <1>6 DEF InputsInv, ShownInv

(* A Snapshot is the state the server has then.                            *)
LEMMA AnswerReadKeeps ==
  ASSUME InputsInv, AnswerRead
  PROVE  InputsInv'
<1>1. /\ read' = [phase |-> "loaded", isCurrent |-> read.isCurrent, snapshot |-> server]
      /\ UNCHANGED <<durable, shown, heard, command, ghosts>> /\ read.phase = "sent"
  BY DEF AnswerRead
<1>2. read'.phase = "loaded" /\ read'.isCurrent = read.isCurrent /\ read'.snapshot = server
  BY <1>1
<1>3. /\ view' = view /\ consumed' = consumed /\ hasHole' = hasHole /\ told' = told
      /\ command' = command
  BY <1>1 DEF shown, ghosts
<1>4. /\ ServerInv' /\ EventsInv' /\ HeardInv' /\ server' = server /\ sent' = sent
  BY <1>1, DurableStays
<1>5. HistoryInv' /\ WaitingInv' /\ ConsumedInv' /\ Waiting' = Waiting /\ Consumed' = Consumed
  BY <1>1, <1>3, ViewStays
<1>6. ReadInv'
  <2>1. /\ StateInv(server) /\ HeldBy(server) \subseteq 1..Len(sent) /\ Len(server.log) \in Nat
        /\ view.last <= Len(server.log) /\ read.isCurrent \in BOOLEAN /\ server \in ServerStates
    BY <1>1, ServerParts DEF InputsInv, ShownInv, ServerInv, StateInv, HistoryInv, ReadInv
  <2>2. read' \in [phase : {"loaded"}, isCurrent : BOOLEAN, snapshot : ServerStates]
    BY <1>1, <2>1
  <2> QED BY <1>2, <1>3, <1>4, <2>1, <2>2 DEF ReadInv
<1>7. ToldInv'
  BY <1>2, <1>3, <1>4, <1>5 DEF InputsInv, ToldInv, Telling, At
<1> QED
  BY <1>4, <1>5, <1>6, <1>7 DEF InputsInv, ShownInv

(* The chunk before the history on display.                                *)
LEMMA ChunkBefore ==
  ASSUME NEW first \in Nat, IsStart(first), first # 1
  PROVE  first - ChunkSize \in Nat /\ IsStart(first - ChunkSize)
<1>1. ChunkSize \in Nat \ {0}
  BY InputsAssumption
<1>2. PICK j \in Nat : first = j * ChunkSize + 1
  BY DEF IsStart
<1>3. j # 0
  BY <1>1, <1>2
<1>4. j - 1 \in Nat /\ first - ChunkSize = (j - 1) * ChunkSize + 1 /\ (j - 1) * ChunkSize \in Nat
  BY <1>1, <1>2, <1>3
<1> QED
  BY <1>4 DEF IsStart

(* An older page ends right before the history on display.                 *)
LEMMA LoadOlderKeeps ==
  ASSUME InputsInv, LoadOlder
  PROVE  InputsInv'
<1> DEFINE first == Least(view.history)
           history == view.history \union ((first - ChunkSize)..(first - 1))
<1>1. /\ view.history # {} /\ 1 \notin view.history
      /\ view' = [view EXCEPT !.history = history]
      /\ UNCHANGED <<durable, read, optimistic, consumed, heard, command, ghosts>>
  BY DEF LoadOlder
<1>2. /\ HeardUpTo' = HeardUpTo /\ server' = server /\ sent' = sent
      /\ ServerInv' /\ EventsInv' /\ HeardInv' /\ \A p, id : At(p, id)' <=> At(p, id)
  BY <1>1, DurableStays
<1>3. /\ consumed' = consumed /\ hasHole' = hasHole /\ told' = told /\ command' = command
      /\ read' = read
  BY <1>1 DEF ghosts
<1>4. ServerInv /\ HistoryInv /\ WaitingInv /\ ConsumedInv /\ ReadInv /\ ToldInv
  BY DEF InputsInv, ShownInv
<1>5. view.history \in SUBSET Nat /\ view.last \in Nat
  BY <1>4 DEF HistoryInv
<1>6. first \in view.history /\ \A p \in view.history : first <= p
  <2>1. \E x \in view.history : \A y \in view.history : x <= y
    BY <1>1, <1>5, HasLeast
  <2> QED BY <2>1 DEF Least
<1> HIDE DEF first
<1>7. /\ first \in Nat /\ first # 1 /\ IsStart(first) /\ first <= view.last
      /\ first - ChunkSize \in Nat /\ IsStart(first - ChunkSize)
      /\ first - ChunkSize \in 1..view.last /\ ChunkSize \in Nat \ {0}
  <2>1. first \in Nat /\ first # 1 /\ IsStart(first) /\ first <= view.last
    BY <1>1, <1>4, <1>5, <1>6 DEF HistoryInv
  <2>2. first - ChunkSize \in Nat /\ IsStart(first - ChunkSize)
    BY <2>1, ChunkBefore
  <2>3. ChunkSize \in Nat \ {0}
    BY InputsAssumption
  <2>4. first - ChunkSize # 0
    <3>1. PICK j \in Nat : first - ChunkSize = j * ChunkSize + 1
      BY <2>2 DEF IsStart
    <3>2. j * ChunkSize \in Nat
      BY <2>3
    <3> QED BY <3>1, <3>2
  <2> QED BY <1>5, <2>1, <2>2, <2>3, <2>4
<1>8. history \subseteq 1..view.last /\ view.history \subseteq history
  BY <1>4, <1>5, <1>7 DEF HistoryInv
<1>9. ASSUME NEW p \in history, \A q \in history : p <= q
      PROVE  IsStart(p)
  <2>1. first - ChunkSize \in history
    BY <1>7
  <2>2. p <= first - ChunkSize /\ p \in Nat
    BY <1>5, <1>8, <1>9, <2>1
  <2>3. p >= first - ChunkSize
    BY <1>5, <1>6, <1>7
  <2>4. p = first - ChunkSize
    BY <1>7, <2>2, <2>3
  <2> QED BY <1>7, <2>4
<1>10. ASSUME ~hasHole
       PROVE  \E f \in Nat : IsStart(f) /\ f <= view.last + 1 /\ history = f..view.last
  <2>1. PICK f \in Nat : view.history = f..view.last
    BY <1>4, <1>10 DEF HistoryInv
  <2>2. f = first
    BY <1>1, <1>5, <1>6, <2>1
  <2>3. history = (first - ChunkSize)..view.last
    BY <1>5, <1>7, <2>1, <2>2
  <2>4. first - ChunkSize <= view.last + 1
    BY <1>5, <1>7
  <2> QED BY <1>7, <2>3, <2>4
<1> HIDE DEF history
<1>11. /\ view'.history = history /\ view'.reconciliation = view.reconciliation
       /\ view'.queued = view.queued /\ view'.steered = view.steered /\ view'.last = view.last
       /\ view' \in [reconciliation : {"loading", "open", "syncing"}, queued : Seq(Nat \ {0}),
                     steered : Seq(Nat \ {0}), history : SUBSET Nat, last : Nat]
  <2>1. history \in SUBSET Nat
    BY <1>5, <1>8
  <2> QED BY <1>1, <1>4, <2>1 DEF HistoryInv
<1>12. Waiting' = Waiting /\ Consumed' = Consumed
  BY <1>3, <1>11 DEF Waiting, Consumed
<1>13. HistoryInv'
  <2>1. view.reconciliation # "loading"
    BY <1>1, <1>4 DEF HistoryInv
  <2> QED BY <1>2, <1>3, <1>4, <1>8, <1>9, <1>10, <1>11, <2>1 DEF HistoryInv
<1>14. WaitingInv'
  BY <1>2, <1>4, <1>11, <1>12 DEF WaitingInv, At
<1>15. ConsumedInv'
  <2>1. ~hasHole => \A i \in 1..Len(consumed) :
          /\ \A p \in Nat : At(p, consumed[i].id) => p > view.last
          /\ (consumed[i].after + 1)..view.last \subseteq history
    BY <1>4, <1>8 DEF ConsumedInv
  <2> QED BY <1>2, <1>3, <1>4, <1>11, <2>1 DEF ConsumedInv, At
<1>16. ReadInv'
  BY <1>2, <1>3, <1>4, <1>11 DEF ReadInv
<1>17. ToldInv'
  <2>1. ~hasHole => \A id \in told \union Telling, p \in Nat :
          At(p, id) => p \in history \/ p > view.last
    BY <1>4, <1>8 DEF ToldInv
  <2>2. view.reconciliation = "open" /\ command = NoCommand /\ ~hasHole =>
          \A id \in told \intersect HeldBy(server) :
              id \in Waiting \union Consumed \/ \E p \in history : At(p, id)
    BY <1>4, <1>8 DEF ToldInv
  <2> QED BY <1>2, <1>3, <1>4, <1>11, <1>12, <2>1, <2>2 DEF ToldInv, Telling, At
<1> QED
  BY <1>2, <1>13, <1>14, <1>15, <1>16, <1>17 DEF InputsInv, ShownInv

-----------------------------------------------------------------------------
(* The user's commands.                                                    *)
LEMMA SubmitKeeps ==
  ASSUME InputsInv, NEW content \in Contents, Submit(content)
  PROVE  InputsInv'
<1>1. /\ command' = [kind |-> "send", content |-> content, id |-> 0, isCommitted |-> FALSE]
      /\ UNCHANGED <<durable, read, view, consumed, heard, ghosts>>
      /\ view.reconciliation = "open"
  BY DEF Submit, MaySubmit
<1>2. /\ view' = view /\ consumed' = consumed /\ hasHole' = hasHole /\ told' = told /\ read' = read
  BY <1>1 DEF ghosts
<1>3. /\ ServerInv' /\ EventsInv' /\ HeardInv' /\ server' = server /\ sent' = sent
  BY <1>1, DurableStays
<1>4. HistoryInv' /\ WaitingInv' /\ ConsumedInv' /\ Waiting' = Waiting /\ Consumed' = Consumed
  BY <1>1, <1>2, ViewStays
<1>5. ReadInv'
  BY <1>2, <1>3 DEF InputsInv, ShownInv, ReadInv
<1>6. ToldInv'
  <2>1. command' \in Commands
    BY <1>1 DEF Commands
  <2>2. Telling' = {} /\ command' # NoCommand
    BY <1>1 DEF Telling, NoCommand
  <2> QED BY <1>2, <1>3, <1>4, <2>1, <2>2 DEF InputsInv, ToldInv, At
<1> QED
  BY <1>3, <1>4, <1>5, <1>6 DEF InputsInv, ShownInv

(* A message leaves the queue on display, or goes on to be steered.        *)
LEMMA MutateQueueKeeps ==
  ASSUME InputsInv, NEW id \in ToSet(view.queued), NEW kind \in {"steer", "delete"},
         MutateQueue(id, kind)
  PROVE  InputsInv'
<1> DEFINE queued == Without(view.queued, {id})
           steered == IF kind = "steer" THEN Append(view.steered, id) ELSE view.steered
<1>1. /\ command' = [kind |-> kind, id |-> id, isCommitted |-> FALSE]
      /\ view' = [view EXCEPT !.queued = queued, !.steered = steered]
      /\ UNCHANGED <<durable, read, optimistic, consumed, heard, ghosts>>
      /\ view.reconciliation = "open"
  BY DEF MutateQueue, MaySubmit
<1>2. consumed' = consumed /\ hasHole' = hasHole /\ told' = told /\ read' = read
  BY <1>1 DEF ghosts
<1>3. /\ ServerInv' /\ EventsInv' /\ HeardInv' /\ server' = server /\ sent' = sent
      /\ HeardUpTo' = HeardUpTo /\ \A p, x : At(p, x)' <=> At(p, x)
  BY <1>1, DurableStays
<1>4. HistoryInv /\ WaitingInv /\ ConsumedInv /\ ReadInv /\ ToldInv
  BY DEF InputsInv, ShownInv
<1>5. /\ view.queued \in Seq(Nat \ {0}) /\ view.steered \in Seq(Nat \ {0})
      /\ Distinct(view.queued) /\ Distinct(view.steered)
      /\ ToSet(view.queued) \intersect ToSet(view.steered) = {}
  BY <1>4 DEF HistoryInv, WaitingInv, Apart
<1>6. id \in Nat \ {0}
  BY <1>5, SetOfSequence
<1>7. /\ queued \in Seq(Nat \ {0}) /\ Distinct(queued) /\ ToSet(queued) = ToSet(view.queued) \ {id}
  BY <1>5, WithoutRemoves
<1>8. /\ steered \in Seq(Nat \ {0}) /\ Distinct(steered)
      /\ ToSet(steered) = ToSet(view.steered) \union (IF kind = "steer" THEN {id} ELSE {})
  <2>1. CASE kind = "steer"
    <3> DEFINE longer == Append(view.steered, id)
    <3>1. longer \in Seq(Nat \ {0})
      BY <1>5, <1>6, AppendProperties
    <3>2. ToSet(longer) = ToSet(view.steered) \union {id}
      BY <1>5, <1>6, AppendedSet, SMTT(20)
    <3>3. id \notin ToSet(view.steered)
      BY <1>5
    <3>4. Distinct(longer)
      BY <1>5, <1>6, <3>3, DistinctAppended
    <3> QED BY <2>1, <3>1, <3>2, <3>4
  <2>2. CASE kind # "steer"
    BY <1>5, <2>2
  <2> QED BY <2>1, <2>2
<1> HIDE DEF queued, steered
<1>9. /\ view'.queued = queued /\ view'.steered = steered /\ view'.last = view.last
      /\ view'.history = view.history /\ view'.reconciliation = view.reconciliation
      /\ view' \in [reconciliation : {"loading", "open", "syncing"}, queued : Seq(Nat \ {0}),
                    steered : Seq(Nat \ {0}), history : SUBSET Nat, last : Nat]
  BY <1>1, <1>4, <1>7, <1>8 DEF HistoryInv
<1>10. Waiting' \subseteq Waiting /\ Consumed' = Consumed
  <2>1. Waiting' = ToSet(queued) \union ToSet(steered)
    BY <1>9 DEF Waiting
  <2> QED BY <1>2, <1>7, <1>8, <2>1 DEF Waiting, Consumed
<1>11. HistoryInv'
  BY <1>1, <1>2, <1>3, <1>4, <1>9 DEF HistoryInv
<1>12. WaitingInv'
  <2>1. Apart(view'.queued, view'.steered)
    BY <1>5, <1>7, <1>8, <1>9 DEF Apart
  <2> QED BY <1>3, <1>4, <1>9, <1>10, <2>1 DEF WaitingInv, At
<1>13. ConsumedInv'
  BY <1>2, <1>3, <1>4, <1>9 DEF ConsumedInv, At
<1>14. ReadInv'
  BY <1>2, <1>3, <1>4, <1>9 DEF ReadInv
<1>15. ToldInv'
  <2>1. command' \in Commands
    BY <1>1, <1>6 DEF Commands
  <2>2. Telling' = {} /\ command' # NoCommand
    BY <1>1 DEF Telling, NoCommand
  <2> QED BY <1>2, <1>3, <1>4, <1>9, <2>1, <2>2 DEF ToldInv, At
<1> QED
  BY <1>3, <1>11, <1>12, <1>13, <1>14, <1>15 DEF InputsInv, ShownInv

(* The server commits the view's command while its answer is under way.    *)
LEMMA CommitKeeps ==
  ASSUME InputsInv, CommandCommits
  PROVE  InputsInv'
<1>1. /\ command # NoCommand /\ ~command.isCommitted
      /\ UNCHANGED <<events, read, shown, heard, ghosts>>
      /\ command' = [command EXCEPT !.isCommitted = TRUE,
                                    !.id = IF command.kind = "send" THEN Len(sent') ELSE @]
  BY DEF CommandCommits
<1>2. ServerInv /\ EventsInv /\ HistoryInv /\ ToldInv /\ ShownInv /\ command \in Commands
  BY DEF InputsInv, ShownInv, ToldInv
<1>3. command.kind = "send" => command.content \in Contents
  BY <1>2 DEF Commands, NoCommand
<1>4. /\ ServerInv' /\ EventsInv' /\ Grown
      /\ command.kind = "send" => Len(sent') = Len(sent) + 1 /\ server'.log = server.log
  BY <1>2, <1>3, CommitGrows
<1>5. /\ read' = read /\ view' = view /\ consumed' = consumed /\ heard' = heard
      /\ hasHole' = hasHole /\ told' = told
  BY <1>1 DEF shown, ghosts
<1>6. view.reconciliation # "loading"
  BY <1>1, <1>2 DEF HistoryInv
<1>7. ShownInv'
  BY <1>2, <1>4, <1>5, <1>6, GrownKeeps
<1>8. Len(sent) \in Nat /\ Len(sent') \in Nat
  BY <1>2, <1>4 DEF ServerInv
<1>9. CASE command.kind = "send"
  <2>1. command \in [kind : {"send"}, content : Contents, id : Nat, isCommitted : BOOLEAN]
    BY <1>2, <1>9 DEF Commands, NoCommand
  <2>2. command' \in [kind : {"send"}, content : Contents, id : Nat, isCommitted : BOOLEAN]
    BY <1>1, <1>8, <1>9, <2>1
  <2>3. command'.id = Len(sent) + 1
    BY <1>1, <1>4, <1>9, <2>1
  <2>4. ASSUME NEW x \in Telling' \ Telling
        PROVE  x \in 1..Len(sent') /\ \A p : ~At(p, x)'
    <3>1. x = Len(sent) + 1
      BY <2>2, <2>3 DEF Telling
    <3>2. ASSUME NEW p \in 1..Len(server.log)
          PROVE  server.log[p] # x
      <4>1. server.log \in Seq(Nat) /\ server.log[p] \in ToSet(server.log)
        BY <1>2, ServerParts, SetOfSequence DEF ServerInv
      <4>2. server.log[p] # 0 => server.log[p] \in 1..Len(sent)
        BY <1>2, <4>1 DEF ServerInv, HeldBy
      <4> QED BY <1>8, <3>1, <4>2
    <3> QED BY <1>4, <1>8, <1>9, <3>1, <3>2 DEF At
  <2>5. command' \in Commands /\ command' # NoCommand
    BY <2>2 DEF Commands, NoCommand
  <2>6. ToldInv'
    BY <1>2, <1>4, <1>5, <2>4, <2>5, GrownKeepsTold
  <2> QED BY <1>7, <2>6 DEF InputsInv
<1>10. CASE command.kind # "send"
  <2>1. command \in [kind : {"steer", "delete"}, id : Nat, isCommitted : BOOLEAN]
    BY <1>1, <1>2, <1>10 DEF Commands
  <2>2. command' \in [kind : {"steer", "delete"}, id : Nat, isCommitted : BOOLEAN]
    BY <1>1, <1>10, <2>1
  <2>3. Telling' = {}
    BY <2>2 DEF Telling
  <2>4. command' \in Commands /\ command' # NoCommand
    BY <2>2 DEF Commands, NoCommand
  <2>5. ToldInv'
    BY <1>2, <1>4, <1>5, <2>3, <2>4, GrownKeepsTold
  <2> QED BY <1>7, <2>5 DEF InputsInv
<1> QED
  BY <1>9, <1>10

(* A blocking request: the read in flight will be repeated.                *)
LEMMA BlockingRead ==
  ASSUME InputsInv, RequestBlocking(view)
  PROVE  /\ view' = [view EXCEPT !.reconciliation = "syncing"]
         /\ view'.reconciliation = "syncing" /\ view'.history = view.history
         /\ view'.last = view.last /\ view'.queued = view.queued /\ view'.steered = view.steered
         /\ view' \in [reconciliation : {"loading", "open", "syncing"}, queued : Seq(Nat \ {0}),
                       steered : Seq(Nat \ {0}), history : SUBSET Nat, last : Nat]
         /\ read' \in [phase : {"sent"}, isCurrent : BOOLEAN] \/
            /\ read.phase = "loaded"
            /\ read' \in [phase : {"loaded"}, isCurrent : BOOLEAN, snapshot : ServerStates]
            /\ read'.snapshot = read.snapshot /\ ~read'.isCurrent
<1>1. view' = [view EXCEPT !.reconciliation = "syncing"]
  BY DEF RequestBlocking
<1>2. view \in [reconciliation : {"loading", "open", "syncing"}, queued : Seq(Nat \ {0}),
                 steered : Seq(Nat \ {0}), history : SUBSET Nat, last : Nat]
  BY DEF InputsInv, ShownInv, HistoryInv
<1>3. ReadInv
  BY DEF InputsInv, ShownInv
<1>4. CASE read = NoRead
  <2>1. read' = NewRead
    BY <1>4 DEF RequestBlocking
  <2> QED BY <1>1, <1>2, <2>1 DEF NewRead
<1>5. CASE read # NoRead
  <2>1. read' = [read EXCEPT !.isCurrent = FALSE]
    BY <1>5 DEF RequestBlocking
  <2>2. CASE read.phase = "sent"
    BY <1>1, <1>2, <1>3, <2>1, <2>2 DEF ReadInv
  <2>3. CASE read.phase = "loaded"
    BY <1>1, <1>2, <1>3, <2>1, <2>3 DEF ReadInv
  <2> QED BY <1>3, <1>5, <2>2, <2>3 DEF ReadInv
<1> QED
  BY <1>4, <1>5

(* A command ends: what it told of is durable or later than the view, and  *)
(* only the Snapshot asked for now makes the view answer for it.           *)
LEMMA CommandEndKeeps ==
  ASSUME InputsInv, command # NoCommand, command' = NoCommand, RequestBlocking(view),
         told' \in {told, told \union Telling}, UNCHANGED <<durable, consumed, heard, hasHole>>
  PROVE  InputsInv'
<1>1. /\ view'.reconciliation = "syncing" /\ view'.history = view.history
      /\ view'.last = view.last /\ view'.queued = view.queued /\ view'.steered = view.steered
      /\ view' \in [reconciliation : {"loading", "open", "syncing"}, queued : Seq(Nat \ {0}),
                    steered : Seq(Nat \ {0}), history : SUBSET Nat, last : Nat]
  BY BlockingRead
<1>2. consumed' = consumed /\ hasHole' = hasHole
  OBVIOUS
<1>3. /\ ServerInv' /\ EventsInv' /\ HeardInv' /\ server' = server /\ sent' = sent
      /\ HeardUpTo' = HeardUpTo /\ \A p, x : At(p, x)' <=> At(p, x)
  BY DurableStays
<1>4. HistoryInv /\ WaitingInv /\ ConsumedInv /\ ReadInv /\ ToldInv
  BY DEF InputsInv, ShownInv
<1>5. Waiting' = Waiting /\ Consumed' = Consumed
  BY <1>1 DEF Waiting, Consumed
<1>6. HistoryInv'
  BY <1>1, <1>2, <1>3, <1>4 DEF HistoryInv
<1>7. WaitingInv'
  BY <1>1, <1>3, <1>4, <1>5 DEF WaitingInv, At
<1>8. ConsumedInv'
  BY <1>1, <1>2, <1>3, <1>4, SMTT(20) DEF ConsumedInv, At
<1>9. ReadInv'
  <2>1. CASE read' \in [phase : {"sent"}, isCurrent : BOOLEAN]
    BY <2>1 DEF ReadInv
  <2>2. CASE /\ read.phase = "loaded"
             /\ read' \in [phase : {"loaded"}, isCurrent : BOOLEAN, snapshot : ServerStates]
             /\ read'.snapshot = read.snapshot /\ ~read'.isCurrent
    BY <1>1, <1>3, <1>4, <2>2 DEF ReadInv
  <2> QED BY <2>1, <2>2, BlockingRead
<1>10. ~(read'.phase = "loaded" /\ read'.isCurrent)
  BY BlockingRead
<1>11. Telling' = {} /\ command'.kind = "none" /\ command' \in Commands
  BY DEF Telling, NoCommand, Commands
<1>12. ToldInv'
  <2>1. told' \subseteq told \union Telling
    OBVIOUS
  <2>2. ~hasHole => \A id \in told', p \in Nat :
          At(p, id) => p \in view.history \/ p > view.last
    BY <1>4, <2>1 DEF ToldInv
  <2>3. told' \subseteq 1..Len(sent)
    BY <1>4, <2>1 DEF ToldInv
  <2> QED BY <1>1, <1>2, <1>3, <1>10, <1>11, <2>2, <2>3 DEF ToldInv, At
<1> QED
  BY <1>3, <1>6, <1>7, <1>8, <1>9, <1>12 DEF InputsInv, ShownInv

(* The answer tells the user of the message, and the view waits for a      *)
(* Snapshot.                                                               *)
LEMMA CommandSucceedsKeeps ==
  ASSUME InputsInv, CommandSucceeds
  PROVE  InputsInv'
<1>1. /\ command # NoCommand /\ command' = NoCommand /\ RequestBlocking(view)
      /\ UNCHANGED <<durable, consumed, heard, hasHole>>
  BY DEF CommandSucceeds
<1>2. told' \in {told, told \union Telling}
  BY DEF CommandSucceeds, Telling
<1> QED
  BY <1>1, <1>2, CommandEndKeeps

(* A failed command tells of nothing; the view waits for a Snapshot.       *)
LEMMA CommandFailsKeeps ==
  ASSUME InputsInv, CommandFails
  PROVE  InputsInv'
<1>1. /\ command # NoCommand /\ command' = NoCommand /\ RequestBlocking(view)
      /\ UNCHANGED <<durable, consumed, heard, hasHole>> /\ told' = told
  BY DEF CommandFails, ghosts
<1> QED
  BY <1>1, CommandEndKeeps

-----------------------------------------------------------------------------
(* An event arrives: its messages are later in the history than all the    *)
(* events heard, and those of them that waited than the Snapshot on        *)
(* display.                                                                *)
NextEvent == events[heard.count + 1]

(* The next event names messages later than all heard before.              *)
LEMMA NextEventIsLater ==
  ASSUME InputsInv, heard.count < Len(events)
  PROVE  /\ NextEvent.ids \in Seq(Nat \ {0}) /\ NextEvent.sequence \in Nat
         /\ Len(NextEvent.ids) \in Nat /\ Begin(NextEvent) \in Nat /\ HeardUpTo \in Nat
         /\ NextEvent.sequence = Begin(NextEvent) + Len(NextEvent.ids)
         /\ \A k \in 1..Len(NextEvent.ids) : At(Begin(NextEvent) + k, NextEvent.ids[k])
         /\ heard.sequence \in Nat /\ heard.sequence <= HeardUpTo /\ HeardUpTo <= Begin(NextEvent)
<1> DEFINE n == heard.count + 1
<1>1. EventsInv /\ HeardInv
  BY DEF InputsInv, ShownInv
<1>2. heard.count \in Nat /\ heard.sequence \in Nat /\ n \in 1..Len(events) /\ Len(events) \in Nat
  BY <1>1 DEF HeardInv, EventsInv
<1>3. \A i \in 1..Len(events) : events[i] \in [ids : Seq(Nat \ {0}), sequence : Nat]
  BY <1>1, SetOfSequence DEF EventsInv
<1>4. NextEvent \in [ids : Seq(Nat \ {0}), sequence : Nat]
  BY <1>2, <1>3 DEF NextEvent
<1>5. /\ Begin(NextEvent) \in Nat
      /\ \A k \in 1..Len(NextEvent.ids) : At(Begin(NextEvent) + k, NextEvent.ids[k])
  BY <1>1, <1>2 DEF EventsInv, NextEvent
<1>6. HeardUpTo \in Nat /\ HeardUpTo <= Begin(NextEvent)
  <2>1. CASE heard.count = 0
    BY <1>5, <2>1 DEF HeardUpTo
  <2>2. CASE heard.count # 0
    <3>1. heard.count \in 1..Len(events) /\ heard.count < n
      BY <1>2, <2>2
    <3>2. HeardUpTo = events[heard.count].sequence /\ HeardUpTo \in Nat
      BY <1>3, <2>2, <3>1 DEF HeardUpTo
    <3>3. events[heard.count].sequence <= Begin(events[n])
      BY <1>1, <1>2, <3>1 DEF EventsInv
    <3> QED BY <3>2, <3>3 DEF NextEvent
  <2> QED BY <2>1, <2>2
<1>7. Len(NextEvent.ids) \in Nat
  BY <1>4
<1>8. NextEvent.sequence = Begin(NextEvent) + Len(NextEvent.ids)
  BY <1>4, <1>7 DEF Begin
<1> QED
  BY <1>1, <1>2, <1>4, <1>5, <1>6, <1>7, <1>8 DEF HeardInv

(* An event that expired is passed over.                                   *)
LEMMA MissedEventKeeps ==
  ASSUME InputsInv, heard.count < Len(events),
         heard' = [count |-> heard.count + 1, sequence |-> heard.sequence],
         UNCHANGED <<durable, read, view, consumed, command, ghosts>>
  PROVE  InputsInv'
<1>1. /\ server' = server /\ sent' = sent /\ events' = events /\ read' = read /\ view' = view
      /\ consumed' = consumed /\ command' = command /\ hasHole' = hasHole /\ told' = told
  BY DEF durable, ghosts
<1>2. /\ ServerInv /\ EventsInv /\ HeardInv /\ HistoryInv /\ WaitingInv /\ ConsumedInv /\ ReadInv
      /\ ToldInv
  BY DEF InputsInv, ShownInv
<1>3. /\ heard' = [count |-> heard.count + 1, sequence |-> heard.sequence]
      /\ heard'.count = heard.count + 1 /\ heard'.sequence = heard.sequence
  OBVIOUS
<1>4. heard.count \in Nat /\ Len(events) \in Nat
  BY <1>2 DEF HeardInv, EventsInv
<1>5. HeardUpTo' = NextEvent.sequence
  BY <1>1, <1>3, <1>4 DEF HeardUpTo, NextEvent
<1>6. HeardUpTo \in Nat /\ HeardUpTo <= HeardUpTo' /\ HeardUpTo' \in Nat
  BY <1>5, NextEventIsLater
<1>7. ServerInv' /\ EventsInv'
  BY <1>1, <1>2 DEF ServerInv, EventsInv, At
<1>8. HeardInv'
  <2>1. heard.sequence <= HeardUpTo /\ heard.sequence \in Nat
    BY NextEventIsLater
  <2>2. heard'.sequence <= HeardUpTo'
    BY <1>3, <1>6, <2>1
  <2>4. heard' \in [count : Nat, sequence : Nat]
    BY <1>3, <1>4, <2>1
  <2>3. heard'.count <= Len(events')
    BY <1>1, <1>3, <1>4
  <2> QED BY <2>2, <2>4, <2>3 DEF HeardInv
<1>9. HistoryInv' /\ ReadInv'
  BY <1>1, <1>2 DEF HistoryInv, ReadInv
<1>10. Waiting' = Waiting /\ Consumed' = Consumed
  BY <1>1 DEF Waiting, Consumed
<1>11. WaitingInv' /\ ToldInv'
  BY <1>1, <1>2, <1>10 DEF WaitingInv, ToldInv, Telling, At
<1>12. ConsumedInv'
  <2>1. \A i \in 1..Len(consumed) :
          \E p \in Nat : At(p, consumed[i].id) /\ p > consumed[i].after /\ p <= HeardUpTo'
    <3> TAKE i \in 1..Len(consumed)
    <3>1. PICK p \in Nat : At(p, consumed[i].id) /\ p > consumed[i].after /\ p <= HeardUpTo
      BY <1>2 DEF ConsumedInv
    <3>2. p <= HeardUpTo'
      BY <1>6, <3>1
    <3> QED BY <3>1, <3>2
  <2> QED BY <1>1, <1>2, <2>1 DEF ConsumedInv, At
<1> QED
  BY <1>7, <1>8, <1>9, <1>11, <1>12 DEF InputsInv, ShownInv

(* The messages an event moves out of the queues on display.               *)
After == IF heard.sequence > view.last THEN heard.sequence ELSE view.last
Moved == Only(NextEvent.ids, Waiting \ Consumed)

(* What it moves out of the queues is later than the Snapshot on display   *)
(* too, in its order.                                                      *)
LEMMA MovedAreLater ==
  ASSUME InputsInv, heard.count < Len(events)
  PROVE  /\ Moved \in Seq(Nat \ {0}) /\ Len(Moved) \in Nat /\ After \in Nat
         /\ ToSet(Moved) = ToSet(NextEvent.ids) \intersect (Waiting \ Consumed)
         /\ \E place \in [1..Len(Moved) -> Nat] :
               /\ \A k \in 1..Len(Moved) :
                     /\ At(place[k], Moved[k]) /\ place[k] > After /\ place[k] > HeardUpTo
                     /\ place[k] <= NextEvent.sequence
               /\ \A j, k \in 1..Len(Moved) : j < k => place[j] < place[k]
<1> DEFINE ids == NextEvent.ids
           begin == Begin(NextEvent)
<1>1. /\ ids \in Seq(Nat \ {0}) /\ NextEvent.sequence = begin + Len(ids)
      /\ Len(ids) \in Nat /\ begin \in Nat /\ HeardUpTo \in Nat
      /\ \A k \in 1..Len(ids) : At(begin + k, ids[k])
      /\ heard.sequence \in Nat /\ heard.sequence <= HeardUpTo /\ HeardUpTo <= begin
  BY NextEventIsLater
<1>2. WaitingInv /\ view.last \in Nat
  BY DEF InputsInv, ShownInv, HistoryInv
<1>3. /\ Moved \in Seq(Nat \ {0}) /\ IsPart(Moved, ids, Len(ids))
      /\ ToSet(Moved) = ToSet(ids) \intersect (Waiting \ Consumed)
  BY <1>1, OnlyKeeps DEF Moved
<1> HIDE DEF ids, begin
<1>4. PICK m \in [1..Len(Moved) -> 1..Len(ids)] :
          /\ \A k \in 1..Len(Moved) : Moved[k] = ids[m[k]]
          /\ \A j, k \in 1..Len(Moved) : j < k => m[j] < m[k]
  BY <1>3 DEF IsPart
<1> DEFINE place == [k \in 1..Len(Moved) |-> begin + m[k]]
<1>5. \A k \in 1..Len(Moved) : m[k] \in 1..Len(ids) /\ place[k] = begin + m[k] /\ place[k] \in Nat
  BY <1>1, <1>4, SMTT(20)
<1>6. place \in [1..Len(Moved) -> Nat]
  BY <1>5
<1> HIDE DEF place
<1>7. ASSUME NEW k \in 1..Len(Moved)
      PROVE  /\ At(place[k], Moved[k]) /\ place[k] > After /\ place[k] > HeardUpTo
             /\ place[k] <= NextEvent.sequence
  <2>1. At(place[k], Moved[k])
    BY <1>1, <1>4, <1>5
  <2>2. Moved[k] \in Waiting
    BY <1>3, SetOfSequence
  <2>3. place[k] > view.last
    <3>1. place[k] \notin 1..view.last
      BY <1>2, <2>1, <2>2 DEF WaitingInv
    <3> QED BY <1>1, <1>2, <1>5, <3>1
  <2>4. place[k] > HeardUpTo /\ place[k] <= NextEvent.sequence
    BY <1>1, <1>5
  <2> QED BY <1>1, <1>2, <1>5, <2>1, <2>3, <2>4, SMTT(20) DEF After
<1>8. \A j, k \in 1..Len(Moved) : j < k => place[j] < place[k]
  BY <1>1, <1>4, <1>5
<1>9. Len(Moved) \in Nat /\ After \in Nat
  BY <1>1, <1>2, <1>3 DEF After
<1> QED
  BY <1>3, <1>6, <1>7, <1>8, <1>9 DEF ids

Added == [i \in 1..Len(Moved) |-> [id |-> Moved[i], after |-> After]]

(* So the moved messages join the consumed ones at their end.              *)
LEMMA AppliedEventKeeps ==
  ASSUME InputsInv, LiveReadsOpen, heard.count < Len(events), ApplyConsumption(NextEvent),
         heard' = [count |-> heard.count + 1, sequence |-> NextEvent.sequence],
         UNCHANGED <<durable, read, command, ghosts>>
  PROVE  InputsInv'
<1> DEFINE ids == ToSet(NextEvent.ids)
           queued == Without(view.queued, ids)
           steered == Without(view.steered, ids)
           n == Len(consumed)
<1>1. /\ server' = server /\ sent' = sent /\ events' = events /\ read' = read
      /\ command' = command /\ hasHole' = hasHole /\ told' = told
  BY DEF durable, ghosts
<1>2. /\ ServerInv /\ EventsInv /\ HeardInv /\ HistoryInv /\ WaitingInv /\ ConsumedInv /\ ReadInv
      /\ ToldInv
  BY DEF InputsInv, ShownInv
<1>3. heard.count \in Nat /\ Len(events) \in Nat
  BY <1>2 DEF HeardInv, EventsInv
<1>4. HeardUpTo' = NextEvent.sequence
  BY <1>1, <1>3 DEF HeardUpTo, NextEvent
<1>5. HeardUpTo \in Nat /\ HeardUpTo <= HeardUpTo' /\ HeardUpTo' \in Nat
  BY <1>4, NextEventIsLater
<1>6. /\ view.queued \in Seq(Nat \ {0}) /\ view.steered \in Seq(Nat \ {0})
      /\ Distinct(view.queued) /\ Distinct(view.steered)
      /\ ToSet(view.queued) \intersect ToSet(view.steered) = {} /\ view.last \in Nat
  BY <1>2 DEF HistoryInv, WaitingInv, Apart
<1>7. consumed \in Seq(Entries) /\ n \in Nat /\ \A i \in 1..n : consumed[i] \in Entries
  BY <1>2, SetOfSequence DEF ConsumedInv, Entries
<1>8. Only(NextEvent.ids, ToSet(view.queued \o view.steered) \ {consumed[i].id : i \in DOMAIN consumed})
        = Moved
  <2>1. ToSet(view.queued \o view.steered) = Waiting
    BY <1>6, JoinedSet DEF Waiting
  <2>2. DOMAIN consumed = 1..n
    BY <1>7
  <2>3. {consumed[i].id : i \in DOMAIN consumed} = Consumed
    BY <2>2 DEF Consumed
  <2> QED BY <2>1, <2>3 DEF Moved
<1>9. /\ Moved \in Seq(Nat \ {0}) /\ Len(Moved) \in Nat /\ After \in Nat
      /\ ToSet(Moved) = ids \intersect (Waiting \ Consumed)
  BY MovedAreLater
<1>10. PICK place \in [1..Len(Moved) -> Nat] :
          /\ \A k \in 1..Len(Moved) :
                /\ At(place[k], Moved[k]) /\ place[k] > After /\ place[k] > HeardUpTo
                /\ place[k] <= NextEvent.sequence
          /\ \A j, k \in 1..Len(Moved) : j < k => place[j] < place[k]
  BY MovedAreLater
<1>11. consumed' = consumed \o Added
  <2>1. DOMAIN Moved = 1..Len(Moved)
    BY <1>9
  <2>2. consumed' = consumed \o [i \in DOMAIN Moved |-> [id |-> Moved[i], after |-> After]]
    BY <1>8 DEF ApplyConsumption, After
  <2> QED BY <2>1, <2>2 DEF Added
<1>12. Added \in Seq(Entries) /\ Len(Added) = Len(Moved)
       /\ \A k \in 1..Len(Moved) : Added[k].id = Moved[k] /\ Added[k].after = After
  <2>1. \A k \in 1..Len(Moved) : [id |-> Moved[k], after |-> After] \in Entries
    BY <1>9, SetOfSequence DEF Entries
  <2> QED BY <1>9, <2>1 DEF Added
<1> HIDE DEF ids, queued, steered, n
<1>13. /\ consumed' \in Seq(Entries) /\ Len(consumed') = n + Len(Moved)
       /\ \A i \in 1..n : consumed'[i] = consumed[i]
       /\ \A k \in 1..Len(Moved) : consumed'[n + k] = Added[k]
  <2> DEFINE joined == consumed \o Added
  <2>1. /\ joined \in Seq(Entries) /\ Len(joined) = Len(consumed) + Len(Added)
        /\ \A i \in 1..Len(consumed) : joined[i] = consumed[i]
        /\ \A k \in 1..Len(Added) : joined[Len(consumed) + k] = Added[k]
    <3>1. consumed \in Seq(Entries) /\ Added \in Seq(Entries)
      BY <1>7, <1>12
    <3> QED BY ONLY <3>1, Joined
  <2> HIDE DEF joined
  <2>2. consumed' = joined
    BY <1>11 DEF joined
  <2> QED BY <1>12, <2>1, <2>2 DEF n
<1>14. \A i \in 1..Len(consumed') : i \in 1..n \/ \E k \in 1..Len(Moved) : i = n + k
  <2> TAKE i \in 1..Len(consumed')
  <2>1. CASE i <= n
    BY <1>7, <2>1
  <2>2. CASE ~(i <= n)
    <3>1. i - n \in 1..Len(Moved) /\ i = n + (i - n)
      BY <1>7, <1>9, <1>13, <2>2
    <3> QED BY <3>1
  <2> QED BY <2>1, <2>2
<1>15. /\ queued \in Seq(Nat \ {0}) /\ Distinct(queued) /\ ToSet(queued) = ToSet(view.queued) \ ids
       /\ steered \in Seq(Nat \ {0}) /\ Distinct(steered)
       /\ ToSet(steered) = ToSet(view.steered) \ ids
  BY <1>6, WithoutRemoves DEF queued, steered
<1>16. /\ view'.queued = queued /\ view'.steered = steered /\ view'.last = view.last
       /\ view'.history = view.history /\ view'.reconciliation = view.reconciliation
       /\ view' \in [reconciliation : {"loading", "open", "syncing"}, queued : Seq(Nat \ {0}),
                     steered : Seq(Nat \ {0}), history : SUBSET Nat, last : Nat]
  <2>1. view' = [view EXCEPT !.queued = queued, !.steered = steered]
    BY DEF ApplyConsumption, queued, steered, ids
  <2> QED BY <1>2, <1>15, <2>1 DEF HistoryInv
<1>17. Waiting' = Waiting \ ids
  BY <1>15, <1>16 DEF Waiting
<1>18. Consumed' = Consumed \union ToSet(Moved)
  <2>1. ASSUME NEW i \in 1..Len(consumed')
        PROVE  consumed'[i].id \in Consumed \union ToSet(Moved)
    <3>1. CASE i \in 1..n
      BY <1>13, <3>1 DEF Consumed, n
    <3>2. CASE \E k \in 1..Len(Moved) : i = n + k
      BY <1>9, <1>12, <1>13, <3>2, SetOfSequence
    <3> QED BY <1>14, <2>1, <3>1, <3>2
  <2>2. ASSUME NEW id \in Consumed
        PROVE  id \in Consumed'
    <3>1. PICK i \in 1..n : id = consumed[i].id
      BY DEF Consumed, n
    <3>2. i \in 1..Len(consumed') /\ consumed'[i].id = id
      BY <1>7, <1>9, <1>13, <3>1
    <3> QED BY <3>2 DEF Consumed
  <2>3. ASSUME NEW id \in ToSet(Moved)
        PROVE  id \in Consumed'
    <3>1. PICK k \in 1..Len(Moved) : id = Moved[k]
      BY <1>9, SetOfSequence
    <3>2. n + k \in 1..Len(consumed') /\ consumed'[n + k].id = id
      BY <1>7, <1>9, <1>12, <1>13, <3>1, SMTT(20)
    <3> QED BY <3>2 DEF Consumed
  <2>4. Consumed' = {consumed'[i].id : i \in 1..Len(consumed')}
    BY DEF Consumed
  <2> QED BY <2>1, <2>2, <2>3, <2>4
<1>19. ServerInv' /\ EventsInv'
  BY <1>1, <1>2 DEF ServerInv, EventsInv, At
<1>20. HeardInv'
  <2>1. heard'.sequence <= HeardUpTo' /\ heard' \in [count : Nat, sequence : Nat]
    BY <1>3, <1>4, <1>5
  <2>2. heard'.count <= Len(events')
    BY <1>1, <1>3
  <2> QED BY <2>1, <2>2 DEF HeardInv
<1>21. HistoryInv'
  <2>1. view.reconciliation = "open"
    BY DEF LiveReadsOpen
  <2> QED BY <1>1, <1>2, <1>16, <2>1 DEF HistoryInv
<1>22. WaitingInv'
  <2>1. Apart(view'.queued, view'.steered)
    BY <1>6, <1>15, <1>16 DEF Apart
  <2>2. Waiting' \intersect Consumed' = {}
    BY <1>2, <1>9, <1>17, <1>18 DEF WaitingInv
  <2> QED BY <1>1, <1>2, <1>16, <1>17, <2>1, <2>2 DEF WaitingInv, At
<1>23. ConsumedInv'
  <2>1. ASSUME NEW i \in 1..n
        PROVE  \E p \in Nat : At(p, consumed[i].id) /\ p > consumed[i].after /\ p <= HeardUpTo
    BY <1>2 DEF ConsumedInv, n
  <2>2. ASSUME NEW i \in 1..Len(consumed')
        PROVE  \E p \in Nat : At(p, consumed'[i].id) /\ p > consumed'[i].after /\ p <= HeardUpTo'
    <3>1. CASE i \in 1..n
      <4>1. PICK p \in Nat : At(p, consumed[i].id) /\ p > consumed[i].after /\ p <= HeardUpTo
        BY <2>1, <3>1
      <4>2. p <= HeardUpTo' /\ consumed'[i] = consumed[i]
        BY <1>5, <1>13, <3>1, <4>1
      <4> QED BY <4>1, <4>2
    <3>2. CASE \E k \in 1..Len(Moved) : i = n + k
      <4>1. PICK k \in 1..Len(Moved) : i = n + k
        BY <3>2
      <4>2. consumed'[i].id = Moved[k] /\ consumed'[i].after = After
        BY <1>12, <1>13, <4>1
      <4>3. /\ place[k] \in Nat /\ At(place[k], Moved[k]) /\ place[k] > After
            /\ place[k] <= HeardUpTo'
        BY <1>4, <1>10
      <4> QED BY <4>2, <4>3
    <3> QED BY <1>14, <3>1, <3>2
  <2>3. ASSUME NEW k \in 1..Len(Moved), NEW p, At(p, Moved[k])
        PROVE  p = place[k]
    <3>1. Moved[k] # 0
      BY <1>9, SetOfSequence
    <3> QED BY <1>2, <1>10, <2>3, <3>1, OnePlace
  <2>4. ASSUME NEW i \in 1..n, NEW p, At(p, consumed[i].id)
        PROVE  p <= HeardUpTo
    <3>1. PICK q \in Nat : At(q, consumed[i].id) /\ q <= HeardUpTo
      BY <2>1
    <3>2. consumed[i].id # 0
      BY <1>7 DEF Entries
    <3> QED BY <1>2, <2>4, <3>1, <3>2, OnePlace
  <2>5. ASSUME NEW i \in 1..Len(consumed'), NEW j \in 1..Len(consumed'), NEW p \in Nat, NEW q \in Nat,
               i < j, At(p, consumed'[i].id), At(q, consumed'[j].id)
        PROVE  p < q
    <3>1. CASE j \in 1..n
      <4>1. i \in 1..n /\ consumed'[i] = consumed[i] /\ consumed'[j] = consumed[j]
        BY <1>7, <1>13, <2>5, <3>1
      <4> QED BY <1>2, <2>5, <3>1, <4>1 DEF ConsumedInv, n
    <3>2. CASE \E k \in 1..Len(Moved) : j = n + k
      <4>1. PICK k \in 1..Len(Moved) : j = n + k
        BY <3>2
      <4>2. consumed'[j].id = Moved[k]
        BY <1>12, <1>13, <4>1
      <4>3. q = place[k] /\ q > HeardUpTo
        BY <1>10, <2>3, <2>5, <4>2
      <4>4. CASE i \in 1..n
        <5>1. consumed'[i] = consumed[i] /\ p <= HeardUpTo
          BY <1>13, <2>4, <2>5, <4>4
        <5> QED BY <1>5, <4>3, <5>1
      <4>5. CASE \E l \in 1..Len(Moved) : i = n + l
        <5>1. PICK l \in 1..Len(Moved) : i = n + l
          BY <4>5
        <5>2. consumed'[i].id = Moved[l]
          BY <1>12, <1>13, <5>1
        <5>3. p = place[l]
          BY <2>3, <2>5, <5>2
        <5>4. l < k
          BY <1>7, <1>9, <2>5, <4>1, <5>1
        <5> QED BY <1>10, <4>3, <5>3, <5>4
      <4> QED BY <1>14, <4>4, <4>5
    <3> QED BY <1>14, <3>1, <3>2
  <2>6. ASSUME ~hasHole, NEW i \in 1..Len(consumed')
        PROVE  /\ \A p \in Nat : At(p, consumed'[i].id) => p > view.last
               /\ (consumed'[i].after + 1)..view.last \subseteq view.history
    <3>1. CASE i \in 1..n
      <4>1. consumed'[i] = consumed[i]
        BY <1>13, <3>1
      <4> QED BY <1>2, <2>6, <3>1, <4>1 DEF ConsumedInv, n
    <3>2. CASE \E k \in 1..Len(Moved) : i = n + k
      <4>1. PICK k \in 1..Len(Moved) : i = n + k
        BY <3>2
      <4>2. consumed'[i].id = Moved[k] /\ consumed'[i].after = After
        BY <1>12, <1>13, <4>1
      <4>3. After >= view.last /\ After \in Nat
        BY <1>6, <1>9 DEF After
      <4>4. place[k] > view.last
        <5>1. place[k] > After /\ place[k] \in Nat
          BY <1>10
        <5>2. view.last \in Nat
          BY <1>6
        <5> QED BY <4>3, <5>1, <5>2, SMTT(20)
      <4>5. (After + 1)..view.last = {}
        BY <1>6, <4>3
      <4> QED BY <2>3, <4>2, <4>4, <4>5
    <3> QED BY <1>14, <3>1, <3>2
  <2> QED BY <1>1, <1>13, <1>16, <2>2, <2>5, <2>6 DEF ConsumedInv, Entries, At
<1>24. ReadInv'
  BY <1>1, <1>2, <1>16 DEF ReadInv
<1>25. ToldInv'
  <2>1. view.reconciliation = "open" /\ command = NoCommand /\ ~hasHole =>
          \A id \in told \intersect HeldBy(server) :
              id \in Waiting' \union Consumed' \/ \E p \in view.history : At(p, id)
    <3>1. Waiting \union Consumed \subseteq Waiting' \union Consumed'
      BY <1>2, <1>9, <1>17, <1>18 DEF WaitingInv
    <3> QED BY <1>2, <3>1 DEF ToldInv
  <2> QED BY <1>1, <1>2, <1>16, <2>1 DEF ToldInv, Telling, At
<1> QED
  BY <1>19, <1>20, <1>21, <1>22, <1>23, <1>24, <1>25 DEF InputsInv, ShownInv

(* An event is applied when it arrives, or missed.                         *)
LEMMA EventArrivesKeeps ==
  ASSUME InputsInv, EventArrives
  PROVE  InputsInv'
<1>1. /\ LiveReadsOpen /\ heard.count < Len(events)
      /\ UNCHANGED <<durable, read, optimistic, command, ghosts>>
  BY DEF EventArrives
<1>2. CASE /\ ApplyConsumption(NextEvent)
           /\ heard' = [count |-> heard.count + 1, sequence |-> NextEvent.sequence]
  BY <1>1, <1>2, AppliedEventKeeps
<1>3. CASE heard' = [heard EXCEPT !.count = @ + 1] /\ UNCHANGED <<view, consumed>>
  <2>1. heard' = [count |-> heard.count + 1, sequence |-> heard.sequence]
    BY <1>3 DEF InputsInv, ShownInv, HeardInv
  <2> QED BY <1>1, <1>3, <2>1, MissedEventKeeps
<1> QED
  BY <1>2, <1>3 DEF EventArrives, NextEvent

-----------------------------------------------------------------------------
(* A Snapshot is loaded.  Unless it leaves a hole, all that the server     *)
(* wrote since the last one is in its window, among it every entry         *)
(* consumed meanwhile, at its own place.                                   *)
LEMMA LoadKeeps ==
  ASSUME InputsInv, read.phase = "loaded", read.isCurrent, LoadSnapshot(read.snapshot),
         read' = NoRead, UNCHANGED <<durable, heard, command>>
  PROVE  InputsInv'
<1> DEFINE s == read.snapshot
           history == view.history \union Window(s)
           entries == StillConsumed(consumed, history)
           ids == {entries[i].id : i \in DOMAIN entries}
           queued == Without(s.queued, ids)
           steered == Without(s.steered, ids)
           last == Len(s.log)
           isHole == hasHole \/ (view.reconciliation # "loading" /\ s.currentFirst > view.last + 1)
           n == Len(consumed)
           Durable == {s.log[i] : i \in Window(s)} \ {0}
<1>1. /\ ServerInv' /\ EventsInv' /\ HeardInv' /\ server' = server /\ sent' = sent
      /\ HeardUpTo' = HeardUpTo /\ \A p, x : At(p, x)' <=> At(p, x)
  BY DurableStays
<1>2. /\ ServerInv /\ HistoryInv /\ WaitingInv /\ ConsumedInv /\ ReadInv /\ ToldInv
  BY DEF InputsInv, ShownInv
<1>3. /\ view' = [reconciliation |-> "open", queued |-> queued, steered |-> steered,
                  history |-> history, last |-> last]
      /\ consumed' = entries /\ hasHole' = isHole
      /\ told' = told \union ToSet(queued \o steered) \union Durable
      /\ command' = command
  BY DEF LoadSnapshot, LastSequence
<1>4. /\ StateInv(s) /\ s.queued \in Seq(Nat \ {0}) /\ s.steered \in Seq(Nat \ {0})
      /\ Apart(s.queued, s.steered) /\ s.log \in Seq(Nat) /\ s.currentFirst \in Nat /\ last \in Nat
      /\ IsStart(s.currentFirst) /\ s.currentFirst <= last + 1
      /\ HeldBy(s) \subseteq 1..Len(sent) /\ last <= Len(server.log) /\ view.last <= last
      /\ \A p \in 1..last : s.log[p] = server.log[p]
  <2>1. /\ StateInv(s) /\ HeldBy(s) \subseteq 1..Len(sent) /\ last <= Len(server.log) /\ view.last <= last
        /\ \A p \in 1..last : s.log[p] = server.log[p]
    BY <1>2 DEF ReadInv
  <2> QED BY <2>1, ServerParts DEF StateInv
<1>5. s.currentFirst >= 1
  <2>1. PICK j \in Nat : s.currentFirst = j * ChunkSize + 1
    BY <1>4 DEF IsStart
  <2>2. j * ChunkSize \in Nat
    BY InputsAssumption
  <2> QED BY <2>1, <2>2
<1>6. Window(s) = s.currentFirst..last /\ Window(s) \subseteq 1..last
  BY <1>4, <1>5 DEF Window, LastSequence
<1>7. /\ view.last \in Nat /\ view.history \subseteq 1..view.last /\ Len(server.log) \in Nat
  <2>1. Len(server.log) \in Nat
    BY <1>2, ServerParts DEF ServerInv
  <2> QED BY <1>2, <2>1 DEF HistoryInv
<1>8. consumed \in Seq(Entries) /\ n \in Nat /\ \A i \in 1..n : consumed[i] \in Entries
  <2>1. consumed \in Seq(Entries)
    BY <1>2 DEF ConsumedInv, Entries
  <2> QED BY <2>1, SetOfSequence
<1> DEFINE d == [i \in 1..n |-> CHOOSE p \in Nat : At(p, consumed[i].id) /\ p > consumed[i].after]
           upTo == IF isHole THEN 0 ELSE last
<1>9. d \in [1..n -> Nat] /\ \A i \in 1..n : At(d[i], consumed[i].id) /\ d[i] > consumed[i].after
  <2>1. ASSUME NEW i \in 1..n
        PROVE  \E p \in Nat : At(p, consumed[i].id) /\ p > consumed[i].after
    BY <1>2 DEF ConsumedInv
  <2> QED BY <2>1
<1> HIDE DEF d
<1>10. ASSUME NEW i \in 1..n, NEW j \in 1..n, i < j
       PROVE  d[i] < d[j]
  <2>1. d[i] \in Nat /\ d[j] \in Nat /\ At(d[i], consumed[i].id) /\ At(d[j], consumed[j].id)
    BY <1>9
  <2> QED BY <1>2, <1>10, <2>1, SMTT(20) DEF ConsumedInv
(* Without a hole, the window goes on where the history ends.              *)
<1>11. ASSUME ~isHole, view.reconciliation # "loading"
       PROVE  /\ ~hasHole /\ s.currentFirst <= view.last + 1
              /\ \A p \in Nat : p > view.last /\ p <= last => p \in Window(s)
  BY <1>4, <1>6, <1>7, <1>11
<1>12. view.reconciliation = "loading" =>
          /\ view.history = {} /\ n = 0 /\ command = NoCommand /\ told = {}
  BY <1>2 DEF HistoryInv
<1>13. ASSUME NEW i \in 1..n, d[i] <= upTo
       PROVE  d[i] \in history
  <2>1. d[i] \in 1..Len(server.log)
    BY <1>9 DEF At
  <2>2. ~isHole /\ d[i] <= last
    BY <1>4, <1>13, <2>1
  <2>3. view.reconciliation # "loading"
    BY <1>8, <1>12
  <2>4. d[i] > view.last
    BY <1>2, <1>9, <1>11, <2>2, <2>3 DEF ConsumedInv
  <2> QED BY <1>9, <1>11, <2>2, <2>3, <2>4
<1>14. history \in SUBSET Nat /\ history \subseteq 1..last
  BY <1>4, <1>6, <1>7
<1>15. upTo \in Nat
  BY <1>4
<1> HIDE DEF s, history, isHole, last, upTo
<1>16. Placed(consumed, d, history, upTo)
  BY <1>8, <1>9, <1>10, <1>13 DEF Placed, At
<1>17. /\ entries \in Seq(Entries) /\ IsPart(entries, consumed, n)
       /\ \A x \in ToSet(entries) : \E i \in 1..n : x = consumed[i] /\ d[i] > upTo
  BY <1>8, <1>14, <1>15, <1>16, StillConsumedAreLater
<1> HIDE DEF entries
<1>18. PICK m \in [1..Len(entries) -> 1..n] :
          /\ \A k \in 1..Len(entries) : entries[k] = consumed[m[k]]
          /\ \A j, k \in 1..Len(entries) : j < k => m[j] < m[k]
  BY <1>17 DEF IsPart
<1>19. Consumed' = ids
  <2>1. DOMAIN entries = 1..Len(entries)
    BY <1>17
  <2> QED BY <1>3, <2>1 DEF Consumed
<1> HIDE DEF ids
<1>20. /\ queued \in Seq(Nat \ {0}) /\ Distinct(queued) /\ ToSet(queued) = ToSet(s.queued) \ ids
       /\ steered \in Seq(Nat \ {0}) /\ Distinct(steered) /\ ToSet(steered) = ToSet(s.steered) \ ids
  BY <1>4, WithoutRemoves DEF Apart
<1>21. ToSet(queued \o steered) = ToSet(queued) \union ToSet(steered)
  BY <1>20, JoinedSet
<1> HIDE DEF queued, steered
<1>22. /\ view'.queued = queued /\ view'.steered = steered /\ view'.last = last
       /\ view'.history = history /\ view'.reconciliation = "open"
       /\ view' \in [reconciliation : {"loading", "open", "syncing"}, queued : Seq(Nat \ {0}),
                     steered : Seq(Nat \ {0}), history : SUBSET Nat, last : Nat]
  BY <1>3, <1>4, <1>14, <1>20
<1>23. Waiting' = ToSet(queued) \union ToSet(steered)
  BY <1>22 DEF Waiting
<1>24. \A x \in Waiting', p \in 1..last : ~At(p, x)
  <2>1. Waiting' \subseteq ToSet(s.queued) \union ToSet(s.steered)
    BY <1>20, <1>23
  <2> QED BY <1>4, <2>1 DEF StateInv, At, last
<1>25. HistoryInv'
  <2>1. ASSUME NEW p \in history, \A q \in history : p <= q
        PROVE  IsStart(p)
    <3>1. CASE p \in view.history
      <4>1. \A q \in view.history : p <= q
        BY <2>1 DEF history
      <4> QED BY <1>2, <3>1, <4>1 DEF HistoryInv
    <3>2. CASE p \in Window(s)
      <4>1. p \in s.currentFirst..last /\ s.currentFirst \in s.currentFirst..last
        BY <1>4, <1>6, <3>2
      <4>2. s.currentFirst \in history
        BY <1>6, <4>1 DEF history
      <4>3. p <= s.currentFirst
        BY <2>1, <4>2
      <4>4. p = s.currentFirst
        BY <1>4, <4>1, <4>3
      <4> QED BY <1>4, <4>4
    <3> QED BY <3>1, <3>2 DEF history
  <2>2. ASSUME ~isHole
        PROVE  \E first \in Nat : IsStart(first) /\ first <= last + 1 /\ history = first..last
    <3>1. CASE view.reconciliation = "loading"
      <4>1. history = s.currentFirst..last
        BY <1>6, <1>12, <3>1 DEF history
      <4> QED BY <1>4, <4>1
    <3>2. CASE view.reconciliation # "loading"
      <4>1. ~hasHole /\ s.currentFirst <= view.last + 1
        BY <1>11, <2>2, <3>2
      <4>2. PICK f \in Nat : IsStart(f) /\ f <= view.last + 1 /\ view.history = f..view.last
        BY <1>2, <4>1 DEF HistoryInv
      <4>3. history = (f..view.last) \union (s.currentFirst..last)
        BY <1>6, <4>2 DEF history
      <4>4. CASE f <= s.currentFirst
        <5>1. history = f..last
          BY <1>4, <1>7, <4>1, <4>2, <4>3, <4>4
        <5>2. f <= last + 1
          BY <1>4, <1>7, <4>2
        <5> QED BY <4>2, <5>1, <5>2
      <4>5. CASE ~(f <= s.currentFirst)
        <5>1. history = s.currentFirst..last
          BY <1>4, <1>7, <4>1, <4>2, <4>3, <4>5
        <5> QED BY <1>4, <5>1
      <4> QED BY <4>4, <4>5
    <3> QED BY <3>1, <3>2
  <2>3. isHole \in BOOLEAN
    BY <1>2 DEF isHole, HistoryInv
  <2>4. view'.reconciliation # "loading"
    BY <1>22
  <2> QED BY <1>1, <1>3, <1>4, <1>14, <1>22, <2>1, <2>2, <2>3, <2>4 DEF HistoryInv
<1>26. WaitingInv'
  <2>1. Apart(view'.queued, view'.steered)
    BY <1>4, <1>20, <1>22 DEF Apart
  <2>2. Waiting' \subseteq 1..Len(sent)
    BY <1>4, <1>20, <1>23 DEF HeldBy
  <2>3. Waiting' \intersect Consumed' = {}
    BY <1>19, <1>20, <1>23
  <2> QED BY <1>1, <1>22, <1>24, <2>1, <2>2, <2>3 DEF WaitingInv, At
<1>27. ConsumedInv'
  <2>1. \A i \in 1..Len(entries) : m[i] \in 1..n /\ entries[i] = consumed[m[i]]
    BY <1>18
  <2>2. \A i \in 1..Len(entries) :
          \E p \in Nat : At(p, entries[i].id) /\ p > entries[i].after /\ p <= HeardUpTo
    BY <1>2, <2>1 DEF ConsumedInv
  <2>3. ASSUME NEW i \in 1..Len(entries), NEW j \in 1..Len(entries), NEW p \in Nat, NEW q \in Nat,
               i < j, At(p, entries[i].id), At(q, entries[j].id)
        PROVE  p < q
    <3>1. m[i] \in 1..n /\ m[j] \in 1..n /\ m[i] < m[j]
      BY <1>18, <2>1, <2>3
    <3>2. At(p, consumed[m[i]].id) /\ At(q, consumed[m[j]].id)
      BY <2>1, <2>3
    <3> QED BY <1>2, <3>1, <3>2, SMTT(20) DEF ConsumedInv
  <2>4. ASSUME ~isHole, NEW i \in 1..Len(entries)
        PROVE  /\ \A p \in Nat : At(p, entries[i].id) => p > last
               /\ (entries[i].after + 1)..last \subseteq history
    <3>1. view.reconciliation # "loading"
      BY <1>8, <1>12, <2>1
    <3>2. entries[i] \in ToSet(entries)
      BY <1>17, SetOfSequence
    <3>3. PICK j \in 1..n : entries[i] = consumed[j] /\ d[j] > upTo
      BY <1>17, <3>2
    <3>4. consumed[j].id # 0 /\ consumed[j].after \in Nat
      BY <1>8 DEF Entries
    <3>5. ASSUME NEW p \in Nat, At(p, entries[i].id)
          PROVE  p > last
      <4>1. p = d[j]
        BY <1>2, <1>9, <3>3, <3>4, <3>5, OnePlace
      <4> QED BY <2>4, <3>3, <4>1 DEF upTo
    <3>6. ASSUME NEW q \in (entries[i].after + 1)..last
          PROVE  q \in history
      <4>1. q \in Nat /\ q >= consumed[j].after + 1 /\ q <= last
        BY <1>4, <3>3, <3>4, <3>6 DEF last
      <4>2. CASE q > view.last
        BY <1>11, <2>4, <3>1, <4>1, <4>2 DEF history
      <4>3. CASE ~(q > view.last)
        <5>1. q \in (consumed[j].after + 1)..view.last
          BY <1>7, <3>4, <4>1, <4>3
        <5>2. (consumed[j].after + 1)..view.last \subseteq view.history
          BY <1>2, <1>11, <2>4, <3>1 DEF ConsumedInv
        <5> QED BY <5>1, <5>2 DEF history
      <4> QED BY <4>2, <4>3
    <3> QED BY <3>5, <3>6
  <2> QED BY <1>1, <1>3, <1>17, <1>22, <2>2, <2>3, <2>4 DEF ConsumedInv, Entries, At
<1>28. ReadInv'
  BY DEF ReadInv, NoRead
<1>29. told' = told \union Waiting' \union Durable
  BY <1>3, <1>21, <1>23
<1>30. ASSUME NEW x \in Durable
       PROVE  x # 0 /\ x \in HeldBy(s) /\ \E p \in Window(s) : At(p, x)
  <2>1. PICK p \in Window(s) : x = s.log[p] /\ x # 0
    OBVIOUS
  <2>2. p \in 1..last /\ x = server.log[p] /\ p \in 1..Len(server.log)
    BY <1>4, <1>6, <1>7, <2>1, SMTT(20)
  <2>3. x \in ToSet(s.log)
    <3>1. s.log \in Seq(Nat) /\ p \in 1..Len(s.log)
      BY <1>4, <2>2 DEF last
    <3>2. s.log[p] \in ToSet(s.log)
      BY <3>1, SetOfSequence
    <3> QED BY <2>1, <3>2
  <2> QED BY <2>1, <2>2, <2>3 DEF At, HeldBy
<1> HIDE DEF Durable
<1>31. ASSUME ~isHole, NEW x \in told' \union Telling, NEW p \in Nat, At(p, x)
       PROVE  p \in history \/ p > last
  <2>1. CASE x \in told \union Telling
    <3>1. view.reconciliation # "loading"
      BY <1>12, <2>1 DEF Telling, NoCommand
    <3>2. p \in view.history \/ p > view.last
      BY <1>2, <1>11, <1>31, <2>1, <3>1 DEF ToldInv
    <3>3. CASE p \in view.history
      BY <3>3 DEF history
    <3>4. CASE p > view.last
      <4>1. p <= last => p \in Window(s)
        BY <1>11, <1>31, <3>1, <3>4
      <4> QED BY <1>4, <4>1 DEF history, last
    <3> QED BY <3>2, <3>3, <3>4
  <2>2. CASE x \in Waiting'
    <3>1. p \in 1..Len(server.log) /\ p \notin 1..last
      BY <1>24, <1>31, <2>2 DEF At
    <3> QED BY <1>4, <1>7, <3>1
  <2>3. CASE x \in Durable
    <3>1. PICK q \in Window(s) : At(q, x)
      BY <1>30, <2>3
    <3>2. p = q
      BY <1>2, <1>30, <1>31, <2>3, <3>1, OnePlace
    <3> QED BY <3>2 DEF history
  <2> QED BY <1>29, <1>31, <2>1, <2>2, <2>3
<1>32. ToldInv'
  <2>1. told' \union Telling \subseteq 1..Len(sent)
    <3>1. told \union Telling \subseteq 1..Len(sent)
      BY <1>2 DEF ToldInv
    <3>2. Waiting' \subseteq 1..Len(sent)
      BY <1>1, <1>26 DEF WaitingInv
    <3>3. Durable \subseteq 1..Len(sent)
      BY <1>4, <1>30
    <3> QED BY <1>29, <3>1, <3>2, <3>3
  <2>2. ASSUME command = NoCommand, ~isHole, NEW x \in told' \intersect HeldBy(server)
        PROVE  x \in Waiting' \union Consumed' \/ \E p \in history : At(p, x)
    <3>1. x \in Waiting' \/ x \in Durable \/ x \in HeldBy(s)
      <4>1. told \intersect HeldBy(server) \subseteq HeldBy(s)
        BY <1>2 DEF ToldInv, s
      <4> QED BY <1>29, <2>2, <4>1
    <3>2. CASE x \in Waiting'
      BY <3>2
    <3>3. CASE x \in Durable
      BY <1>30, <3>3 DEF history
    <3>4. CASE x \in HeldBy(s)
      <4>1. CASE x \in ToSet(s.queued) \union ToSet(s.steered)
        BY <1>19, <1>20, <1>23, <4>1
      <4>2. CASE x \in ToSet(s.log) \ {0}
        <5>1. PICK p \in 1..last : x = s.log[p]
          <6>1. s.log \in Seq(Nat)
            BY <1>4
          <6>2. ToSet(s.log) = {s.log[p] : p \in 1..Len(s.log)}
            BY <6>1, SetOfSequence
          <6> QED BY <4>2, <6>2 DEF last
        <5>2. At(p, x) /\ p \in Nat /\ ~(p > last)
          BY <1>4, <1>7, <5>1 DEF At
        <5> QED BY <1>31, <2>2, <5>2
      <4> QED BY <3>4, <4>1, <4>2 DEF HeldBy
    <3> QED BY <3>1, <3>2, <3>3, <3>4
  <2>3. Telling' = Telling
    BY <1>3 DEF Telling
  <2>4. ~(read'.phase = "loaded")
    BY DEF NoRead
  <2> QED BY <1>1, <1>2, <1>3, <1>22, <1>31, <2>1, <2>2, <2>3, <2>4 DEF ToldInv, At
<1> QED
  BY <1>1, <1>25, <1>26, <1>27, <1>28, <1>32 DEF InputsInv, ShownInv

(* A Snapshot is put on display: the entries still consumed are those      *)
(* later than it, and where no hole is left nothing told is lost.          *)
LEMMA FinishReadKeeps ==
  ASSUME InputsInv, FinishRead
  PROVE  InputsInv'
<1>1. read.phase = "loaded" /\ UNCHANGED <<durable, heard, command>>
  BY DEF FinishRead
<1>2. CASE read.isCurrent
  <2>1. LoadSnapshot(read.snapshot) /\ read' = NoRead
    BY <1>2 DEF FinishRead
  <2> QED BY <1>1, <1>2, <2>1, LoadKeeps
<1>3. CASE ~read.isCurrent
  <2>1. read' = NewRead /\ UNCHANGED <<shown, ghosts>>
    BY <1>3 DEF FinishRead
  <2> QED BY <1>1, <2>1, NewReadKeeps
<1> QED
  BY <1>2, <1>3

-----------------------------------------------------------------------------
(* The invariant, and what it says of the messages on display.             *)
LEMMA ServerActsKeep ==
  ASSUME InputsInv, OthersAct \/ WorkerActs
  PROVE  InputsInv'
<1>1. UNCHANGED <<read, shown, heard, command, ghosts>>
  BY DEF OthersAct, WorkerActs
<1>2. /\ read' = read /\ view' = view /\ consumed' = consumed /\ heard' = heard
      /\ hasHole' = hasHole /\ told' = told /\ command' = command
  BY <1>1 DEF shown, ghosts
<1>3. ShownInv /\ ToldInv /\ ServerInv /\ EventsInv
  BY DEF InputsInv, ShownInv
<1>4. ServerInv' /\ EventsInv' /\ Grown
  BY <1>3, OthersGrow, WorkerGrows
<1>5. ShownInv'
  BY <1>2, <1>3, <1>4, GrownKeeps
<1>6. ToldInv'
  <2>1. command' \in Commands
    BY <1>2, <1>3 DEF ToldInv
  <2>2. Telling' = Telling
    BY <1>2 DEF Telling
  <2> QED BY <1>2, <1>3, <1>4, <2>1, <2>2, GrownKeepsTold
<1> QED
  BY <1>5, <1>6 DEF InputsInv

(* Nothing is on display before the first Snapshot.                        *)
LEMMA InputsInvInit == Init => InputsInv
<1> SUFFICES ASSUME Init
             PROVE  InputsInv
  OBVIOUS
<1>1. /\ sent = <<>> /\ events = <<>> /\ consumed = <<>> /\ told = {} /\ hasHole = FALSE
      /\ server = [queued |-> <<>>, steered |-> <<>>, log |-> <<>>, currentFirst |-> 1]
      /\ view = [reconciliation |-> "loading", queued |-> <<>>, steered |-> <<>>,
                 history |-> {}, last |-> 0]
      /\ heard = [count |-> 0, sequence |-> 0] /\ command = NoCommand /\ read = NewRead
  BY DEF Init
<1>2. IsStart(1)
  <2>1. 0 \in Nat /\ 1 = 0 * ChunkSize + 1
    BY InputsAssumption
  <2> QED BY <2>1 DEF IsStart
<1>3. ToSet(<<>>) = {} /\ Distinct(<<>>)
  BY DEF ToSet, Distinct
<1>4. ServerInv
  BY <1>1, <1>2, <1>3 DEF ServerInv, StateInv, ServerStates, HeldBy, Apart
<1>5. EventsInv /\ HeardInv
  BY <1>1 DEF EventsInv, HeardInv, HeardUpTo
<1>6. HistoryInv
  <2>1. /\ view.reconciliation = "loading" /\ view.queued = <<>> /\ view.steered = <<>>
        /\ view.history = {} /\ view.last = 0
    BY <1>1
  <2>2. view.history = 1..view.last
    BY <2>1
  <2>3. Len(server.log) = 0
    BY <1>1
  <2>4. view \in [reconciliation : {"loading", "open", "syncing"}, queued : Seq(Nat \ {0}),
                  steered : Seq(Nat \ {0}), history : SUBSET Nat, last : Nat]
    BY <1>1
  <2>5. view.last <= Len(server.log) /\ view.history \subseteq 1..view.last
    BY <2>1, <2>3
  <2>6. /\ hasHole \in BOOLEAN /\ consumed = <<>> /\ command = NoCommand /\ told = {}
    BY <1>1
  <2>7. \E first \in Nat : /\ IsStart(first) /\ first <= view.last + 1
                           /\ view.history = first..view.last
    BY <1>2, <2>1, <2>2
  <2> QED BY <2>1, <2>4, <2>5, <2>6, <2>7 DEF HistoryInv
<1>7. Waiting = {} /\ Consumed = {}
  BY <1>1, <1>3 DEF Waiting, Consumed
<1>8. WaitingInv
  BY <1>1, <1>3, <1>7 DEF WaitingInv, Apart
<1>9. ConsumedInv
  BY <1>1 DEF ConsumedInv
<1>10. ReadInv
  BY <1>1 DEF ReadInv, NewRead
<1>11. ToldInv
  BY <1>1 DEF ToldInv, Telling, Commands, NewRead, NoCommand
<1> QED
  BY <1>4, <1>5, <1>6, <1>8, <1>9, <1>10, <1>11 DEF InputsInv, ShownInv

(* Every step keeps the invariant: one lemma above per action.             *)
LEMMA InputsInvNext == InputsInv /\ [Next]_vars => InputsInv'
<1> SUFFICES ASSUME InputsInv, [Next]_vars
             PROVE  InputsInv'
  OBVIOUS
<1>1. CASE OthersAct \/ WorkerActs
  BY <1>1, ServerActsKeep
<1>2. CASE Refresh
  BY <1>2, NewReadKeeps DEF Refresh
<1>3. CASE AnswerRead
  BY <1>3, AnswerReadKeeps
<1>4. CASE FinishRead
  BY <1>4, FinishReadKeeps
<1>5. CASE LoadOlder
  BY <1>5, LoadOlderKeeps
<1>6. CASE EventArrives
  BY <1>6, EventArrivesKeeps
<1>7. CASE \E content \in Contents : Submit(content)
  BY <1>7, SubmitKeeps
<1>8. CASE \E id \in ToSet(view.queued), kind \in {"steer", "delete"} : MutateQueue(id, kind)
  BY <1>8, MutateQueueKeeps
<1>9. CASE CommandCommits
  BY <1>9, CommitKeeps
<1>10. CASE CommandSucceeds
  BY <1>10, CommandSucceedsKeeps
<1>11. CASE CommandFails
  BY <1>11, CommandFailsKeeps
<1>12. CASE UNCHANGED vars
  BY <1>12, NothingChanges
<1> QED
  BY <1>1, <1>2, <1>3, <1>4, <1>5, <1>6, <1>7, <1>8, <1>9, <1>10, <1>11, <1>12 DEF Next

(* The server's history and queues, the events, the Snapshot in flight and *)
(* the view stay consistent with each other, as reconcileSnapshot,         *)
(* reconcileConsumedUserMessages and applyInputConsumption of              *)
(* conversation-state.ts leave them.                                       *)
THEOREM InputsInvariant == Spec => []InputsInv
BY InputsInvInit, InputsInvNext, PTL DEF Spec

(* The queues and the consumed entries on display have no message twice.   *)
LEMMA ShownIdsAre ==
  ASSUME InputsInv
  PROVE  IsInjective(ShownIds) /\ ToSet(ShownIds) = Waiting \union Consumed
<1> DEFINE ids == [i \in 1..Len(consumed) |-> consumed[i].id]
           waiting == view.queued \o view.steered
           joined == waiting \o ids
<1>1. HistoryInv /\ WaitingInv /\ ConsumedInv /\ ServerInv
  BY DEF InputsInv, ShownInv
<1>2. /\ view.queued \in Seq(Nat \ {0}) /\ view.steered \in Seq(Nat \ {0})
      /\ Distinct(view.queued) /\ Distinct(view.steered)
      /\ ToSet(view.queued) \intersect ToSet(view.steered) = {}
  BY <1>1 DEF HistoryInv, WaitingInv, Apart
<1>3. consumed \in Seq(Entries) /\ \A i \in 1..Len(consumed) : consumed[i].id \in Nat \ {0}
  <2>1. consumed \in Seq(Entries)
    BY <1>1 DEF ConsumedInv, Entries
  <2>2. \A i \in 1..Len(consumed) : consumed[i] \in Entries
    BY <2>1, SetOfSequence
  <2> QED BY <2>1, <2>2 DEF Entries
<1>4. /\ ids \in Seq(Nat \ {0}) /\ Len(ids) = Len(consumed)
      /\ \A i \in 1..Len(consumed) : ids[i] = consumed[i].id
  BY <1>3
<1>5. ToSet(ids) = Consumed
  <2> HIDE DEF ids
  <2>1. ToSet(ids) = {ids[i] : i \in 1..Len(ids)}
    BY <1>4, SetOfSequence
  <2> QED BY <1>4, <2>1 DEF Consumed
<1>6. Distinct(ids)
  <2>1. ASSUME NEW i \in 1..Len(ids), NEW j \in 1..Len(ids), ids[i] = ids[j], i # j
        PROVE  FALSE
    <3>1. PICK p \in Nat : At(p, consumed[i].id)
      BY <1>1, <1>4, <2>1 DEF ConsumedInv
    <3>2. At(p, consumed[j].id)
      BY <1>4, <2>1, <3>1
    <3>3. i < j \/ j < i
      BY <1>3, <1>4, <2>1
    <3>4. p < p
      BY <1>1, <1>4, <2>1, <3>1, <3>2, <3>3 DEF ConsumedInv
    <3> QED BY <3>1, <3>4
  <2> QED BY <2>1 DEF Distinct
<1>7. DOMAIN consumed = 1..Len(consumed)
  BY <1>3
<1> HIDE DEF ids
<1>8. ShownIds = joined
  BY <1>7 DEF ShownIds, ids
<1>9. waiting \in Seq(Nat \ {0}) /\ ToSet(waiting) = Waiting /\ Distinct(waiting)
  <2>1. waiting \in Seq(Nat \ {0}) /\ ToSet(waiting) = Waiting
    BY <1>2, JoinedSet DEF Waiting
  <2>2. Distinct(waiting)
    BY <1>2, DistinctJoined
  <2> QED BY <2>1, <2>2
<1> HIDE DEF waiting
<1>10. joined \in Seq(Nat \ {0}) /\ ToSet(joined) = Waiting \union Consumed
  BY <1>4, <1>5, <1>9, JoinedSet
<1>11. Distinct(joined)
  BY <1>1, <1>4, <1>5, <1>6, <1>9, DistinctJoined DEF WaitingInv
<1>12. IsInjective(joined)
  <2>1. DOMAIN joined = 1..Len(joined)
    BY <1>10
  <2> HIDE DEF joined
  <2> QED BY <1>11, <2>1 DEF IsInjective, Distinct
<1> QED
  BY <1>8, <1>10, <1>12

(* The history on display shows the messages at its places.                *)
LEMMA ReadIdsAre ==
  ASSUME InputsInv
  PROVE  \A id : id \in ReadIds <=> id # 0 /\ \E p \in view.history : At(p, id)
<1>1. HistoryInv /\ ServerInv
  BY DEF InputsInv, ShownInv
<1>2. view.history \subseteq 1..Len(server.log)
  <2>1. Len(server.log) \in Nat /\ view.last \in Nat /\ view.last <= Len(server.log)
    BY <1>1, ServerParts DEF ServerInv, HistoryInv
  <2> QED BY <1>1, <2>1 DEF HistoryInv
<1> QED
  BY <1>2 DEF ReadIds, At

(* No message is shown in two places.  What waits on display is not in the *)
(* history up to the last Snapshot, and what was consumed since is later   *)
(* than that: applyInputConsumption moves what waits, and reconciling by   *)
(* content in reconcileConsumedUserMessages finds every entry the Snapshot *)
(* has, at its own place.                                                  *)
THEOREM MessagesAreShownOnce == Spec => []NotShownTwice
<1>1. InputsInv => NotShownTwice
  <2> SUFFICES ASSUME InputsInv, ~hasHole, NEW id \in ToSet(ShownIds), id \in ReadIds
               PROVE  FALSE
    BY ShownIdsAre DEF NotShownTwice
  <2>1. HistoryInv /\ WaitingInv /\ ConsumedInv
    BY DEF InputsInv, ShownInv
  <2>2. PICK p \in view.history : At(p, id)
    BY ReadIdsAre
  <2>3. p \in Nat /\ p \in 1..view.last /\ view.last \in Nat
    BY <2>1 DEF HistoryInv
  <2>4. CASE id \in Waiting
    BY <2>1, <2>2, <2>3, <2>4 DEF WaitingInv
  <2>5. CASE id \in Consumed
    <3>1. PICK i \in 1..Len(consumed) : id = consumed[i].id
      BY <2>5 DEF Consumed
    <3>2. p > view.last
      BY <2>1, <2>2, <2>3, <3>1 DEF ConsumedInv
    <3> QED BY <2>3, <3>2
  <2> QED BY <2>4, <2>5, ShownIdsAre
<1> QED
  BY <1>1, InputsInvariant, PTL

(* What the browser was told of stays on display: a Snapshot that is       *)
(* loaded was answered after the last command that told of a message, and  *)
(* between Snapshots a message only moves from the queues to the consumed  *)
(* (runSnapshotRequest, completeCommand and reconcileSnapshot).            *)
THEOREM ToldMessagesStay == Spec => []NothingVanishes
<1>1. InputsInv => NothingVanishes
  <2> SUFFICES ASSUME InputsInv, MaySubmit, ~hasHole, NEW id \in told \intersect Held
               PROVE  id \in ToSet(ShownIds) \union ReadIds
    BY DEF NothingVanishes
  <2>1. /\ server.queued \in Seq(Nat) /\ server.steered \in Seq(Nat) /\ server.log \in Seq(Nat)
        /\ ServerInv /\ ToldInv
    <3>1. ServerInv /\ ToldInv
      BY DEF InputsInv, ShownInv
    <3>2. /\ server.queued \in Seq(Nat \ {0}) /\ server.steered \in Seq(Nat \ {0})
          /\ server.log \in Seq(Nat)
      BY <3>1, ServerParts DEF ServerInv
    <3>3. Seq(Nat \ {0}) \subseteq Seq(Nat)
      OBVIOUS
    <3> QED BY <3>1, <3>2, <3>3
  <2>2. Held = HeldBy(server)
    <3>1. ToSet(server.queued \o server.steered \o server.log)
            = ToSet(server.queued) \union ToSet(server.steered) \union ToSet(server.log)
      <4> DEFINE waiting == server.queued \o server.steered
      <4>1. waiting \in Seq(Nat) /\ ToSet(waiting) = ToSet(server.queued) \union ToSet(server.steered)
        BY <2>1, JoinedSet
      <4> HIDE DEF waiting
      <4>2. ToSet(waiting \o server.log) = ToSet(waiting) \union ToSet(server.log)
        BY <2>1, <4>1, JoinedSet
      <4> QED BY <4>1, <4>2 DEF waiting
    <3>2. 0 \notin ToSet(server.queued) \union ToSet(server.steered)
      BY <2>1, QueuesApart
    <3> QED BY <3>1, <3>2 DEF Held, HeldBy
  <2>3. id \in Waiting \union Consumed \/ \E p \in view.history : At(p, id)
    BY <2>1, <2>2 DEF ToldInv, MaySubmit
  <2>4. id # 0
    BY <2>1 DEF ToldInv
  <2> QED BY <2>3, <2>4, ShownIdsAre, ReadIdsAre
<1> QED
  BY <1>1, InputsInvariant, PTL

-----------------------------------------------------------------------------
(* Types.  What an optimistic submission knows of was on display when it   *)
(* was sent.                                                               *)
Submissions(n) ==
    [content : Contents, after : Nat, phase : {"submitting", "queued"}, known : SUBSET (1..n)]
OptimisticInv == optimistic \in Seq(Submissions(Len(sent)))

(* A submission is claimed by a waiting message or by a durable one, or    *)
(* stays.                                                                  *)
LEMMA ClaimSubmissionType ==
  ASSUME NEW T, NEW acc \in [kept : Seq(T), ids : SUBSET Nat, claimed : SUBSET Nat],
         NEW submission \in T, NEW pending \in Seq(Nat), NEW history \in SUBSET Nat
  PROVE  ClaimSubmission(acc, submission, pending, history)
            \in [kept : Seq(T), ids : SUBSET Nat, claimed : SUBSET Nat]
<1> DEFINE found == {i \in DOMAIN pending : /\ pending[i] \notin submission.known \union acc.ids
                                            /\ sent[pending[i]] = submission.content}
           durables == Matches(history, acc.claimed, submission.after, submission.content)
<1>1. found \in SUBSET Nat /\ durables \in SUBSET Nat /\ found \subseteq 1..Len(pending)
  <2>1. DOMAIN pending = 1..Len(pending) /\ Len(pending) \in Nat
    OBVIOUS
  <2>2. durables \in SUBSET Nat
    BY DEF Matches
  <2> QED BY <2>1, <2>2
<1>2. ClaimSubmission(acc, submission, pending, history) =
        IF found # {} THEN [acc EXCEPT !.ids = @ \union {pending[Least(found)]}]
        ELSE IF durables # {} THEN [acc EXCEPT !.claimed = @ \union {Least(durables)}]
        ELSE [acc EXCEPT !.kept = Append(@, submission)]
  BY DEF ClaimSubmission
<1> HIDE DEF found, durables
<1>3. found # {} => Least(found) \in found
  <2>1. found # {} => \E x \in found : \A y \in found : x <= y
    BY <1>1, HasLeast
  <2> QED BY <2>1 DEF Least
<1>4. durables # {} => Least(durables) \in durables
  <2>1. durables # {} => \E x \in durables : \A y \in durables : x <= y
    BY <1>1, HasLeast
  <2> QED BY <2>1 DEF Least
<1>5. found # {} => pending[Least(found)] \in Nat
  BY <1>1, <1>3, SetOfSequence
<1>6. durables # {} => Least(durables) \in Nat
  BY <1>1, <1>4
<1>7. Append(acc.kept, submission) \in Seq(T)
  OBVIOUS
<1> QED
  BY <1>2, <1>5, <1>6, <1>7, ZenonT(30)

(* What is left of the submissions are submissions.                        *)
LEMMA StillOptimisticType ==
  ASSUME NEW T, NEW submissions \in Seq(T), NEW pending \in Seq(Nat), NEW history \in SUBSET Nat
  PROVE  StillOptimistic(submissions, pending, history) \in Seq(T)
<1> DEFINE n == Len(submissions)
           S == [kept : Seq(T), ids : SUBSET Nat, claimed : SUBSET Nat]
           base == [kept |-> <<>>, ids |-> {}, claimed |-> {}]
           Step(t, i) == ClaimSubmission(t, submissions[i], pending, history)
           acc == CHOOSE f : f = [i \in 0..n |-> IF i = 0 THEN base ELSE Step(f[i - 1], i)]
           g == [t \in S |-> [x \in T |-> ClaimSubmission(t, x, pending, history)]]
<1>1. n \in Nat /\ \A i \in 1..n : submissions[i] \in T
  BY SetOfSequence
<1>2. base \in S
  OBVIOUS
<1>3. /\ g \in [S -> [T -> S]]
      /\ \A t \in S, i \in 1..n : g[t][submissions[i]] = Step(t, i)
  <2>1. \A t \in S, x \in T : ClaimSubmission(t, x, pending, history) \in S
    BY ClaimSubmissionType
  <2> QED BY <1>1, <2>1
<1> HIDE DEF g, S, base, Step
<1>4. PICK r : IsRun(r, S, base, g, submissions)
  BY <1>2, <1>3, RunExists
<1>5. \E f : f = [i \in 0..n |-> IF i = 0 THEN base ELSE Step(f[i - 1], i)]
  <2>1. /\ r \in [0..n -> S] /\ r[0] = base
        /\ \A i \in 1..n : r[i] = g[r[i - 1]][submissions[i]]
    BY <1>4 DEF IsRun
  <2> HIDE DEF n
  <2>2. \A i \in 0..n : r[i] = IF i = 0 THEN base ELSE Step(r[i - 1], i)
    <3> TAKE i \in 0..n
    <3>1. CASE i = 0
      BY <2>1, <3>1
    <3>2. CASE i # 0
      <4>1. i \in 1..n /\ i - 1 \in 0..n
        BY <1>1, <3>2
      <4> QED BY <1>3, <2>1, <3>2, <4>1
    <3> QED BY <3>1, <3>2
  <2> QED BY <2>1, <2>2
<1>6. acc = [i \in 0..n |-> IF i = 0 THEN base ELSE Step(acc[i - 1], i)]
  <2> HIDE DEF n
  <2> QED BY <1>5
<1> HIDE DEF acc
<1>7. acc = [i \in 0..n |-> acc[i]] /\ acc[0] = base
      /\ \A i \in 1..n : acc[i] = Step(acc[i - 1], i)
  <2> HIDE DEF n
  <2>1. \A i \in 1..n : i \in 0..n /\ i # 0
    BY <1>1
  <2>2. 0 \in 0..n
    BY <1>1
  <2> QED BY <1>6, <2>1, <2>2
<1>8. IsRun(acc, S, base, g, submissions)
  <2>1. \A i \in 1..n : acc[i - 1] \in S => acc[i] = g[acc[i - 1]][submissions[i]]
    BY <1>3, <1>7
  <2> QED BY <1>2, <1>3, <1>7, <2>1, StepsAreRun
<1>9. acc[n] \in S
  BY <1>1, <1>8 DEF IsRun
<1>10. StillOptimistic(submissions, pending, history) = acc[n].kept
  BY DEF acc, StillOptimistic, base, Step
<1> QED
  BY <1>9, <1>10 DEF S

(* With more messages sent, a submission knows of no others.               *)
LEMMA SubmissionsStay ==
  ASSUME OptimisticInv, optimistic' = optimistic, Len(sent) \in Nat, Len(sent') \in Nat,
         Len(sent) <= Len(sent')
  PROVE  OptimisticInv'
<1>1. Submissions(Len(sent)) \subseteq Submissions(Len(sent'))
  BY DEF Submissions
<1>2. \A i \in 1..Len(optimistic) : optimistic[i] \in Submissions(Len(sent'))
  BY <1>1, SetOfSequence DEF OptimisticInv
<1>3. Len(optimistic) \in Nat /\ optimistic = [i \in 1..Len(optimistic) |-> optimistic[i]]
  BY DEF OptimisticInv
<1> QED
  BY <1>2, <1>3 DEF OptimisticInv

(* A Snapshot is compared with the submissions.                            *)
LEMMA LoadKeepsSubmissions ==
  ASSUME InputsInv, OptimisticInv, read.phase = "loaded", read.isCurrent,
         LoadSnapshot(read.snapshot), sent' = sent
  PROVE  OptimisticInv'
<1> DEFINE s == read.snapshot
           history == view.history \union Window(s)
           entries == StillConsumed(consumed, history)
           ids == {entries[i].id : i \in DOMAIN entries}
           queued == Without(s.queued, ids)
           steered == Without(s.steered, ids)
<1>1. StateInv(s) /\ view.history \in SUBSET Nat
  BY DEF InputsInv, ShownInv, ReadInv, HistoryInv
<1>2. optimistic' = StillOptimistic(optimistic, queued \o steered, history)
  BY DEF LoadSnapshot
<1>3. history \in SUBSET Nat
  BY <1>1, ServerParts DEF Window, LastSequence
<1> HIDE DEF s, ids, history
<1>4. s.queued \in Seq(Nat \ {0}) /\ s.steered \in Seq(Nat \ {0})
      /\ Distinct(s.queued) /\ Distinct(s.steered)
  BY <1>1, ServerParts DEF StateInv, Apart
<1>5. queued \in Seq(Nat \ {0}) /\ steered \in Seq(Nat \ {0})
  BY <1>4, WithoutRemoves
<1> HIDE DEF queued, steered
<1>6. queued \o steered \in Seq(Nat)
  <2>1. Seq(Nat \ {0}) \subseteq Seq(Nat)
    OBVIOUS
  <2>2. queued \in Seq(Nat) /\ steered \in Seq(Nat)
    BY <1>5, <2>1
  <2> QED BY <2>2
<1> QED
  BY <1>2, <1>3, <1>6, StillOptimisticType DEF OptimisticInv

(* The submission knows what waits on display.                             *)
LEMMA SubmitAdds ==
  ASSUME InputsInv, OptimisticInv, NEW content \in Contents, Submit(content), sent' = sent
  PROVE  OptimisticInv'
<1> DEFINE submission == [content |-> content, after |-> view.last, phase |-> "submitting",
                          known |-> ToSet(view.queued \o view.steered)]
<1>1. optimistic' = Append(optimistic, submission)
  BY DEF Submit
<1>2. view.queued \in Seq(Nat \ {0}) /\ view.steered \in Seq(Nat \ {0}) /\ view.last \in Nat
  BY DEF InputsInv, ShownInv, HistoryInv
<1>3. ToSet(view.queued \o view.steered) \subseteq 1..Len(sent)
  BY <1>2, JoinedSet DEF InputsInv, ShownInv, WaitingInv, Waiting
<1>4. submission \in Submissions(Len(sent))
  BY <1>2, <1>3 DEF Submissions
<1> HIDE DEF submission
<1> QED
  BY <1>1, <1>4 DEF OptimisticInv

(* An answered command queues the submissions, a failed one drops those    *)
(* under way.                                                              *)
LEMMA CommandEndKeepsSubmissions ==
  ASSUME OptimisticInv, CommandSucceeds \/ CommandFails, sent' = sent
  PROVE  OptimisticInv'
<1> DEFINE T == Submissions(Len(sent))
<1>1. optimistic \in Seq(T) /\ Len(optimistic) \in Nat /\ DOMAIN optimistic = 1..Len(optimistic)
      /\ \A i \in 1..Len(optimistic) : optimistic[i] \in T
  BY SetOfSequence DEF OptimisticInv
<1>2. CASE CommandSucceeds
  <2>1. optimistic' = [i \in 1..Len(optimistic) |-> [optimistic[i] EXCEPT !.phase = "queued"]]
    BY <1>1, <1>2 DEF CommandSucceeds
  <2>2. \A i \in 1..Len(optimistic) : [optimistic[i] EXCEPT !.phase = "queued"] \in T
    BY <1>1 DEF Submissions
  <2> HIDE DEF T
  <2>3. optimistic' \in Seq(T)
    BY <1>1, <2>1, <2>2
  <2> QED BY <2>3 DEF OptimisticInv, T
<1>3. CASE CommandFails
  <2> HIDE DEF T
  <2>1. optimistic' \in Seq(T)
    BY <1>1, <1>3, OnlyKeeps DEF CommandFails
  <2> QED BY <2>1 DEF OptimisticInv, T
<1> QED
  BY <1>2, <1>3

(* Every step leaves submissions of messages the server has numbered.      *)
LEMMA OptimisticNext ==
  ASSUME InputsInv, OptimisticInv, [Next]_vars
  PROVE  OptimisticInv'
<1>1. ServerInv /\ EventsInv /\ ToldInv /\ Len(sent) \in Nat
  BY DEF InputsInv, ShownInv, ServerInv
<1>2. ASSUME sent' = sent, optimistic' = optimistic
      PROVE  OptimisticInv'
  BY <1>1, <1>2, SubmissionsStay
<1>3. ASSUME ServerInv', Grown, optimistic' = optimistic
      PROVE  OptimisticInv'
  BY <1>1, <1>3, SubmissionsStay DEF ServerInv, Grown
<1>4. CASE OthersAct \/ WorkerActs
  <2>1. optimistic' = optimistic
    BY <1>4 DEF OthersAct, WorkerActs, shown
  <2> QED BY <1>1, <1>3, <1>4, <2>1, OthersGrow, WorkerGrows
<1>5. CASE Refresh \/ AnswerRead \/ LoadOlder \/ EventArrives \/ UNCHANGED vars
  BY <1>2, <1>5 DEF Refresh, AnswerRead, LoadOlder, EventArrives, vars, shown, durable
<1>6. CASE FinishRead
  <2>1. read.phase = "loaded" /\ sent' = sent
    BY <1>6 DEF FinishRead, durable
  <2>2. CASE read.isCurrent
    BY <1>6, <2>1, <2>2, LoadKeepsSubmissions DEF FinishRead
  <2>3. CASE ~read.isCurrent
    BY <1>2, <1>6, <2>1, <2>3 DEF FinishRead, shown
  <2> QED BY <2>2, <2>3
<1>7. CASE \E content \in Contents : Submit(content)
  BY <1>7, SubmitAdds DEF Submit, durable
<1>8. CASE \E id \in ToSet(view.queued), kind \in {"steer", "delete"} : MutateQueue(id, kind)
  BY <1>2, <1>8 DEF MutateQueue, durable
<1>9. CASE CommandCommits
  <2>1. optimistic' = optimistic /\ command # NoCommand /\ UNCHANGED events
    BY <1>9 DEF CommandCommits, shown
  <2>2. command.kind = "send" => command.content \in Contents
    BY <1>1, <2>1 DEF ToldInv, Commands, NoCommand
  <2>3. ServerInv' /\ Grown
    BY <1>1, <1>9, <2>2, CommitGrows
  <2> QED BY <1>3, <2>1, <2>3
<1>10. CASE CommandSucceeds \/ CommandFails
  <2>1. sent' = sent
    BY <1>10 DEF CommandSucceeds, CommandFails, durable
  <2> QED BY <1>10, <2>1, CommandEndKeepsSubmissions
<1> QED
  BY <1>4, <1>5, <1>6, <1>7, <1>8, <1>9, <1>10 DEF Next

(* What the reducer of conversation-state.ts holds is always what its      *)
(* readers expect: messages the server accepted, places of its history,    *)
(* and submissions that reconcileOptimisticSubmissions can look up.        *)
THEOREM TypeCorrect == Spec => []TypeOK
<1>1. Init => OptimisticInv
  BY DEF Init, OptimisticInv
<1>2. InputsInv /\ OptimisticInv => TypeOK
  <2> SUFFICES ASSUME InputsInv, OptimisticInv
               PROVE  TypeOK
    OBVIOUS
  <2>1. ServerInv /\ HistoryInv /\ WaitingInv /\ ConsumedInv /\ ReadInv /\ ToldInv
    BY DEF InputsInv, ShownInv
  <2>2. sent \in Seq(Contents) /\ Len(server.log) \in Nat
    BY <2>1, ServerParts DEF ServerInv
  <2>3. ToSet(ShownIds) \subseteq Ids
    <3>1. ASSUME NEW i \in 1..Len(consumed)
          PROVE  consumed[i].id \in 1..Len(sent)
      <4>1. PICK p \in 1..Len(server.log) : server.log[p] = consumed[i].id
        BY <2>1 DEF ConsumedInv, At
      <4>2. consumed[i] \in Entries /\ consumed[i].id # 0
        <5>1. consumed \in Seq(Entries)
          BY <2>1 DEF ConsumedInv, Entries
        <5>2. consumed[i] \in Entries
          BY <5>1
        <5> QED BY <5>2 DEF Entries
      <4>3. server.log[p] \in ToSet(server.log)
        BY <2>1, ServerParts, SetOfSequence DEF ServerInv
      <4> QED BY <2>1, <4>1, <4>2, <4>3 DEF ServerInv, HeldBy
    <3>2. Consumed \subseteq 1..Len(sent)
      BY <3>1 DEF Consumed
    <3> QED BY <2>1, <3>2, ShownIdsAre DEF WaitingInv, Ids
  <2>4. view.history \subseteq 1..Len(server.log) /\ view.last \in 0..Len(server.log)
    <3>1. view.last \in Nat /\ view.last <= Len(server.log) /\ view.history \subseteq 1..view.last
      BY <2>1 DEF HistoryInv
    <3> QED BY <2>2, <3>1
  <2>5. \A i \in DOMAIN optimistic :
           optimistic[i].content \in Contents /\ optimistic[i].known \subseteq Ids
    <3>1. /\ DOMAIN optimistic = 1..Len(optimistic)
          /\ \A i \in 1..Len(optimistic) : optimistic[i] \in Submissions(Len(sent))
      BY SetOfSequence DEF OptimisticInv
    <3> QED BY <3>1 DEF Submissions, Ids
  <2>6. command.kind \in {"none", "send", "steer", "delete"}
    BY <2>1 DEF ToldInv, Commands, NoCommand
  <2>7. read.phase \in {"none", "sent", "loaded"}
    BY <2>1 DEF ReadInv
  <2> QED BY <2>2, <2>3, <2>4, <2>5, <2>6, <2>7 DEF TypeOK, LastSequence
<1>3. InputsInv /\ OptimisticInv /\ [Next]_vars => OptimisticInv'
  BY OptimisticNext
<1> QED
  BY <1>1, <1>2, <1>3, InputsInvariant, PTL DEF Spec
=============================================================================
