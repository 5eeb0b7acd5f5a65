------------------------ MODULE MessageHistoryProofs ------------------------
(***************************************************************************)
(* The message store and its pages, for every chunk size, retention limit  *)
(* and number of messages: whatever is appended, archived, compacted and   *)
(* trimmed, every retained message is readable, nothing leaves the store   *)
(* before a summary covers it, the pages of a client join, and the context *)
(* of a model call is closed under calls and their results.                *)
(***************************************************************************)
EXTENDS MessageLoops, Iteration, SequenceTheorems, FiniteSetTheorems

(* The sequences at which a chunk of archivedMessages may begin.           *)
Start(j) == j * ChunkSize + 1
IsStart(sequence) == \E j \in Nat : sequence = Start(j)

-----------------------------------------------------------------------------
(* Arithmetic of chunks.                                                   *)

(* Quotient and remainder.                                                 *)
LEMMA QuotientRemainder ==
  ASSUME NEW n \in Nat, NEW c \in Nat \ {0}
  PROVE  n = (n \div c) * c + (n % c)
OBVIOUS

(* The quotient and the remainder of a number given by both.              *)
LEMMA QuotientOf ==
  ASSUME NEW j \in Nat, NEW c \in Nat \ {0}, NEW i \in 0..(c - 1), NEW n, n = j * c + i
  PROVE  n \div c = j /\ n % c = i
OBVIOUS

(* A sequence as its chunk number and its offset in the chunk.             *)
LEMMA Division ==
  ASSUME NEW n \in Nat
  PROVE  /\ n \div ChunkSize \in Nat /\ n % ChunkSize \in 0..(ChunkSize - 1)
         /\ (n \div ChunkSize) * ChunkSize \in Nat
         /\ n = (n \div ChunkSize) * ChunkSize + (n % ChunkSize)
<1>1. n = (n \div ChunkSize) * ChunkSize + (n % ChunkSize)
  BY QuotientRemainder, ChunkAssumption
<1>2. n \div ChunkSize \in Nat
  BY ChunkAssumption
<1>3. n % ChunkSize \in 0..(ChunkSize - 1)
  BY ChunkAssumption
<1>4. (n \div ChunkSize) * ChunkSize \in Nat
  BY <1>2, ChunkAssumption
<1> QED
  BY <1>1, <1>2, <1>3, <1>4

(* Multiples of the chunk size are those without remainder.                *)
LEMMA Multiple ==
  ASSUME NEW n \in Nat
  PROVE  n % ChunkSize = 0 <=> \E j \in Nat : n = j * ChunkSize
<1>1. ASSUME NEW j \in Nat, n = j * ChunkSize
      PROVE  n % ChunkSize = 0
  <2>1. 0 \in 0..(ChunkSize - 1) /\ n = j * ChunkSize + 0
    BY <1>1, ChunkAssumption
  <2> QED
    BY <2>1, QuotientOf, ChunkAssumption
<1>2. ASSUME n % ChunkSize = 0
      PROVE  \E j \in Nat : n = j * ChunkSize
  BY <1>2, Division
<1> QED
  BY <1>1, <1>2

(* Starts are at least a chunk apart, and keep their distance.             *)
LEMMA StartGap ==
  ASSUME NEW j \in Nat, NEW k \in Nat
  PROVE  /\ Start(j) \in Nat \ {0}
         /\ Start(j + k) = Start(j) + k * ChunkSize
         /\ Start(j) < Start(k) => Start(j) + ChunkSize <= Start(k)
         /\ Start(j) < Start(k) => j < k
         /\ Start(j) <= Start(k) => j <= k
<1>1. j * ChunkSize \in Nat /\ k * ChunkSize \in Nat
  BY ChunkAssumption
<1>2. (j + k) * ChunkSize = j * ChunkSize + k * ChunkSize
  BY ChunkAssumption
<1>3. j < k => j * ChunkSize + ChunkSize <= k * ChunkSize
  <2>1. ASSUME j < k
        PROVE  j * ChunkSize + ChunkSize <= k * ChunkSize
    <3>1. PICK d \in Nat : k = j + 1 + d
      BY <2>1
    <3>2. k * ChunkSize = j * ChunkSize + ChunkSize + d * ChunkSize /\ d * ChunkSize \in Nat
      BY <3>1, ChunkAssumption
    <3> QED
      BY <3>2, <1>1, ChunkAssumption
  <2> QED
    BY <2>1
<1>4. k < j => k * ChunkSize + ChunkSize <= j * ChunkSize
  <2>1. ASSUME k < j
        PROVE  k * ChunkSize + ChunkSize <= j * ChunkSize
    <3>1. PICK d \in Nat : j = k + 1 + d
      BY <2>1
    <3>2. j * ChunkSize = k * ChunkSize + ChunkSize + d * ChunkSize /\ d * ChunkSize \in Nat
      BY <3>1, ChunkAssumption
    <3> QED
      BY <3>2, <1>1, ChunkAssumption
  <2> QED
    BY <2>1
<1> QED
  BY <1>1, <1>2, <1>3, <1>4, ChunkAssumption DEF Start

(* From one start to a later one there are whole chunks.                   *)
LEMMA StartDistance ==
  ASSUME NEW m, NEW n, IsStart(m), IsStart(n), m <= n
  PROVE  \E k \in Nat : n = m + k * ChunkSize
<1>1. PICK i \in Nat : m = Start(i)
  BY DEF IsStart
<1>2. PICK j \in Nat : n = Start(j)
  BY DEF IsStart
<1>3. i <= j
  BY <1>1, <1>2, StartGap
<1>4. j - i \in Nat /\ i + (j - i) = j
  BY <1>3
<1>5. Start(i + (j - i)) = Start(i) + (j - i) * ChunkSize
  BY <1>4, StartGap
<1> QED
  BY <1>1, <1>2, <1>4, <1>5

(* A start plus whole chunks is a start.                                   *)
LEMMA StartPlus ==
  ASSUME NEW m, IsStart(m), NEW k \in Nat
  PROVE  IsStart(m + k * ChunkSize) /\ m \in Nat \ {0} /\ m + k * ChunkSize \in Nat \ {0}
<1>1. PICK i \in Nat : m = Start(i)
  BY DEF IsStart
<1>2. i + k \in Nat
  OBVIOUS
<1> QED
  BY <1>1, <1>2, StartGap DEF IsStart

-----------------------------------------------------------------------------
(* The invariant of the store: both bounds of the archive are starts, the  *)
(* archive holds exactly the chunks between them and currentMessages the   *)
(* rest, at least one chunk of which stays current; what is gone has been  *)
(* summarised.                                                             *)
StoreShape(s) ==
    /\ s = [first |-> s.first, currentFirst |-> s.currentFirst, last |-> s.last,
            summarized |-> s.summarized, current |-> s.current, archived |-> s.archived]
    /\ s.first \in Nat /\ s.currentFirst \in Nat /\ s.last \in Nat /\ s.summarized \in Nat
StoreBounds(s) ==
    /\ IsStart(s.first) /\ IsStart(s.currentFirst)
    /\ s.first <= s.currentFirst /\ s.currentFirst <= s.last + 1
    /\ s.last - s.currentFirst + 1 < CurrentMessageLimit
    /\ s.currentFirst > 1 => s.last - s.currentFirst + 1 >= ChunkSize
    /\ s.first <= s.summarized + 1 /\ s.summarized <= s.last
StoreMaps(s) ==
    /\ s.current = s.currentFirst..s.last
    /\ DOMAIN s.archived = {key \in s.first..(s.currentFirst - 1) : IsStart(key)}
    /\ s.archived = [key \in DOMAIN s.archived |-> s.archived[key]]
    /\ \A key \in DOMAIN s.archived : s.archived[key] = Chunk(key)
StoreInv(s) == StoreShape(s) /\ StoreBounds(s) /\ StoreMaps(s)

(* archiveCurrentMessages moves whole chunks and leaves at least one.      *)
LEMMA MovedChunks ==
  ASSUME NEW s, StoreInv(s), NEW n \in Nat
  PROVE  /\ \E k \in Nat : Moved(s, n) = k * ChunkSize
         /\ Moved(s, n) \in Nat
         /\ s.last + n - (s.currentFirst + Moved(s, n)) + 1 < CurrentMessageLimit
         /\ Moved(s, n) > 0 =>
               s.last + n - (s.currentFirst + Moved(s, n)) + 1 >= ChunkSize
<1> DEFINE count == s.last + n - s.currentFirst + 1
<1>1. count \in Nat
  BY DEF StoreInv, StoreShape, StoreBounds
<1>2. CASE count < CurrentMessageLimit
  <2>1. Moved(s, n) = 0
    BY <1>2 DEF Moved
  <2>2. 0 = 0 * ChunkSize
    BY ChunkAssumption
  <2> QED
    BY <1>2, <2>1, <2>2 DEF StoreInv, StoreShape
<1>3. CASE ~(count < CurrentMessageLimit)
  <2>1. PICK q \in Nat, r \in 0..(ChunkSize - 1) :
            q = count \div ChunkSize /\ count = q * ChunkSize + r
    BY <1>1, Division
  <2>2. q >= 2
    <3>1. q = 0 => q * ChunkSize = 0
      BY ChunkAssumption
    <3>2. q = 1 => q * ChunkSize = ChunkSize
      BY ChunkAssumption
    <3> QED
      BY <1>3, <2>1, <3>1, <3>2, ChunkAssumption DEF CurrentMessageLimit
  <2>3. Moved(s, n) = (q - 1) * ChunkSize
    BY <1>3, <2>1 DEF Moved
  <2>4. (q - 1) * ChunkSize = q * ChunkSize - ChunkSize /\ q - 1 \in Nat
    BY <2>2, ChunkAssumption
  <2>5. (q - 1) * ChunkSize \in Nat
    BY <2>4, ChunkAssumption
  <2>6. Moved(s, n) = count - r - ChunkSize
    BY <2>1, <2>3, <2>4, <2>5, <1>1, ChunkAssumption
  <2> QED
    BY <1>1, <2>1, <2>3, <2>4, <2>5, <2>6, ChunkAssumption
       DEF CurrentMessageLimit, StoreInv, StoreShape
<1> QED
  BY <1>2, <1>3

(* appendMessage keeps the store's invariant.                              *)
LEMMA AppendedStore ==
  ASSUME NEW s, StoreInv(s), NEW n \in Nat
  PROVE  /\ StoreInv(Appended(s, n))
         /\ Appended(s, n).last = s.last + n
         /\ Appended(s, n).first = s.first
         /\ Appended(s, n).summarized = s.summarized
         /\ Appended(s, n).currentFirst >= s.currentFirst
<1> DEFINE t == Appended(s, n)
           new == s.currentFirst + Moved(s, n)
           moved == Leaving(s, n)
           keys == NewKeys(s, n)
<1>0. t = [s EXCEPT !.last = s.last + n, !.currentFirst = new,
                    !.current = (s.current \cup (s.last + 1)..(s.last + n)) \ moved,
                    !.archived = [key \in DOMAIN s.archived \cup keys |->
                                     IF key \in keys THEN Chunk(key) ELSE s.archived[key]]]
  BY DEF Appended
<1>1. /\ t.last = s.last + n /\ t.first = s.first /\ t.summarized = s.summarized
      /\ t.currentFirst = new
      /\ t.current = (s.current \cup (s.last + 1)..(s.last + n)) \ moved
      /\ DOMAIN t.archived = DOMAIN s.archived \cup keys
      /\ \A key \in DOMAIN t.archived :
            t.archived[key] = IF key \in keys THEN Chunk(key) ELSE s.archived[key]
      /\ t.archived = [key \in DOMAIN t.archived |-> t.archived[key]]
      /\ t = [first |-> t.first, currentFirst |-> t.currentFirst, last |-> t.last,
              summarized |-> t.summarized, current |-> t.current, archived |-> t.archived]
  <2> HIDE DEF t, new, moved, keys
  <2> QED
    BY <1>0 DEF StoreInv, StoreShape
<1>2. /\ s.first \in Nat /\ s.currentFirst \in Nat /\ s.last \in Nat /\ s.summarized \in Nat
      /\ Moved(s, n) \in Nat /\ new \in Nat /\ new >= s.currentFirst
  BY MovedChunks DEF StoreInv, StoreShape
<1>8. moved = s.currentFirst..(new - 1)
  <2>1. Leaving(s, n) = s.currentFirst..(s.currentFirst + Moved(s, n) - 1)
    BY DEF Leaving
  <2> QED
    BY <2>1, <1>2
<1>9. keys = {key \in moved : (key - s.currentFirst) % ChunkSize = 0}
  BY Zenon DEF NewKeys
<1> HIDE DEF moved, keys, new
<1>3. IsStart(new)
  BY MovedChunks, StartPlus DEF StoreInv, StoreBounds, new
<1>4. StoreShape(t)
  BY <1>1, <1>2 DEF StoreShape
<1>5. StoreBounds(t)
  <2>1. new <= s.last + n + 1 /\ s.last + n - new + 1 < CurrentMessageLimit
        /\ (new > 1 => s.last + n - new + 1 >= ChunkSize)
    BY <1>2, MovedChunks, ChunkAssumption, SMTT(20) DEF StoreInv, StoreBounds, new
  <2> QED
    BY <1>1, <1>2, <1>3, <2>1 DEF StoreBounds, StoreInv
<1>6. keys = {key \in moved : IsStart(key)}
  <2>1. ASSUME NEW key \in moved, (key - s.currentFirst) % ChunkSize = 0
        PROVE  IsStart(key)
    <3>1. key - s.currentFirst \in Nat
      BY <1>2, <1>8
    <3>2. PICK j \in Nat : key - s.currentFirst = j * ChunkSize
      BY <2>1, <3>1, Multiple
    <3>3. key = s.currentFirst + j * ChunkSize
      BY <1>2, <1>8, <3>2, ChunkAssumption
    <3> QED
      BY <3>3, StartPlus DEF StoreInv, StoreBounds
  <2>2. ASSUME NEW key \in moved, IsStart(key)
        PROVE  (key - s.currentFirst) % ChunkSize = 0
    <3>1. key - s.currentFirst \in Nat /\ s.currentFirst <= key
      BY <1>2, <1>8
    <3>2. PICK k \in Nat : key = s.currentFirst + k * ChunkSize
      BY <2>2, <3>1, StartDistance DEF StoreInv, StoreBounds
    <3>3. key - s.currentFirst = k * ChunkSize
      BY <1>2, <1>8, <3>2, ChunkAssumption
    <3> QED
      BY <3>1, <3>3, Multiple
  <2> QED
    BY <2>1, <2>2, <1>9
<1>7. StoreMaps(t)
  <2>1. t.current = new..(s.last + n)
    <3>1. s.current = s.currentFirst..s.last /\ s.currentFirst <= s.last + 1
      BY DEF StoreInv, StoreMaps, StoreBounds
    <3> QED
      BY <1>1, <1>2, <1>8, <3>1, SMTT(20)
  <2>2. DOMAIN t.archived = {key \in s.first..(new - 1) : IsStart(key)}
    <3>1. DOMAIN s.archived = {key \in s.first..(s.currentFirst - 1) : IsStart(key)}
          /\ s.first <= s.currentFirst
      BY DEF StoreInv, StoreMaps, StoreBounds
    <3> QED
      BY <1>1, <1>2, <1>6, <1>8, <3>1
  <2>3. \A key \in DOMAIN t.archived : t.archived[key] = Chunk(key)
    BY <1>1 DEF StoreInv, StoreMaps
  <2> QED
    BY <1>1, <2>1, <2>2, <2>3 DEF StoreMaps
<1> QED
  BY <1>1, <1>2, <1>4, <1>5, <1>7 DEF StoreInv

-----------------------------------------------------------------------------
(* Min of a set of integers that has a least element is that element.      *)
LEMMA MinOf ==
  ASSUME NEW S \in SUBSET Int, \E x \in S : \A y \in S : x <= y
  PROVE  Min(S) \in S /\ \A y \in S : Min(S) <= y
BY DEF Min

(* Max of two integers is one of them and at least both.                   *)
LEMMA MaxOf ==
  ASSUME NEW m \in Int, NEW n \in Int
  PROVE  Max({m, n}) \in {m, n} /\ Max({m, n}) >= m /\ Max({m, n}) >= n
<1>1. \E x \in {m, n} : \A y \in {m, n} : x >= y
  OBVIOUS
<1> QED
  BY <1>1 DEF Max

(* What Trimmable removes are whole chunks, all archived and summarised.   *)
LEMMA TrimmableChunks ==
  ASSUME NEW s, StoreInv(s)
  PROVE  /\ Trimmable(s) \in Nat
         /\ IsStart(s.first + Trimmable(s))
         /\ s.first + Trimmable(s) <= s.currentFirst
         /\ s.first + Trimmable(s) <= s.summarized + 1
<1> DEFINE bounds == {s.currentFirst - 1, s.last - RetentionLimit, s.summarized - ChunkSize + 1}
           bound == Min(bounds)
<1>1. /\ s.first \in Nat /\ s.currentFirst \in Nat /\ s.last \in Nat /\ s.summarized \in Nat
      /\ IsStart(s.first) /\ IsStart(s.currentFirst)
      /\ s.first <= s.currentFirst /\ s.first <= s.summarized + 1
  BY DEF StoreInv, StoreShape, StoreBounds
<1>2. bound \in Int /\ bound <= s.currentFirst - 1 /\ bound <= s.summarized - ChunkSize + 1
  <2>1. bounds \subseteq Int /\ \E x \in bounds : \A y \in bounds : x <= y
    BY <1>1, ChunkAssumption, RetentionAssumption
  <2>2. bound \in bounds /\ \A y \in bounds : bound <= y
    BY <2>1, MinOf
  <2> QED
    BY <2>1, <2>2
<1>3. Trimmable(s) = IF bound < s.first THEN 0
                     ELSE ((bound - s.first) \div ChunkSize + 1) * ChunkSize
  BY DEF Trimmable
<1> HIDE DEF bound
<1>4. CASE bound < s.first
  <2>1. Trimmable(s) = 0 /\ s.first + Trimmable(s) = s.first
    BY <1>1, <1>3, <1>4
  <2> QED
    BY <1>1, <2>1
<1>5. CASE ~(bound < s.first)
  <2>1. bound - s.first \in Nat
    BY <1>1, <1>2, <1>5
  <2>2. PICK q \in Nat, r \in 0..(ChunkSize - 1) :
            /\ q = (bound - s.first) \div ChunkSize
            /\ q * ChunkSize \in Nat
            /\ bound - s.first = q * ChunkSize + r
    BY <2>1, Division
  <2>3. Trimmable(s) = (q + 1) * ChunkSize
    BY <1>3, <1>5, <2>2
  <2>4. (q + 1) * ChunkSize = q * ChunkSize + ChunkSize
    BY ChunkAssumption
  <2>5. s.first + q * ChunkSize <= bound
    BY <1>1, <1>2, <2>2
  <2>6. Trimmable(s) \in Nat /\ s.first + Trimmable(s) <= s.summarized + 1
    BY <1>1, <1>2, <2>2, <2>3, <2>4, <2>5, ChunkAssumption
  <2>7. IsStart(s.first + Trimmable(s))
    BY <1>1, <2>3, StartPlus
  <2>8. s.first + Trimmable(s) <= s.currentFirst
    <3>1. PICK i \in Nat : s.first + q * ChunkSize = Start(i)
      BY <1>1, StartPlus DEF IsStart
    <3>2. PICK j \in Nat : s.currentFirst = Start(j)
      BY <1>1 DEF IsStart
    <3>3. Start(i) < Start(j)
      BY <1>1, <1>2, <2>2, <2>5, <3>1, <3>2
    <3>4. Start(i) + ChunkSize <= Start(j)
      BY <3>3, StartGap
    <3> QED
      BY <1>1, <2>2, <2>3, <2>4, <3>1, <3>2, <3>4, ChunkAssumption
  <2> QED
    BY <2>6, <2>7, <2>8
<1> QED
  BY <1>4, <1>5

(* trimSummarizedMessages keeps the store's invariant.                     *)
LEMMA TrimmedStore ==
  ASSUME NEW s, StoreInv(s)
  PROVE  /\ StoreInv(Trimmed(s))
         /\ Trimmed(s).last = s.last
         /\ Trimmed(s).summarized = s.summarized
         /\ Trimmed(s).currentFirst = s.currentFirst
         /\ Trimmed(s).first >= s.first
<1> DEFINE t == Trimmed(s)
           new == s.first + Trimmable(s)
<1>1. t = [s EXCEPT !.first = new,
                    !.archived = [key \in {k \in DOMAIN s.archived : k >= new} |->
                                     s.archived[key]]]
  BY DEF Trimmed
<1>2. /\ new \in Nat /\ new >= s.first /\ IsStart(new)
      /\ new <= s.currentFirst /\ new <= s.summarized + 1
  BY TrimmableChunks DEF StoreInv, StoreShape
<1> HIDE DEF t, new
<1>3. /\ t.last = s.last /\ t.first = new /\ t.summarized = s.summarized
      /\ t.currentFirst = s.currentFirst /\ t.current = s.current
      /\ DOMAIN t.archived = {k \in DOMAIN s.archived : k >= new}
      /\ \A key \in DOMAIN t.archived : t.archived[key] = s.archived[key]
      /\ t.archived = [key \in DOMAIN t.archived |-> t.archived[key]]
      /\ t = [first |-> t.first, currentFirst |-> t.currentFirst, last |-> t.last,
              summarized |-> t.summarized, current |-> t.current, archived |-> t.archived]
  BY <1>1 DEF StoreInv, StoreShape
<1>4. StoreShape(t) /\ StoreBounds(t)
  BY <1>2, <1>3 DEF StoreInv, StoreShape, StoreBounds
<1>5. StoreMaps(t)
  <2>1. DOMAIN t.archived = {key \in new..(s.currentFirst - 1) : IsStart(key)}
    BY <1>2, <1>3 DEF StoreInv, StoreShape, StoreBounds, StoreMaps
  <2> QED
    BY <1>3, <2>1 DEF StoreInv, StoreMaps
<1> QED
  BY <1>2, <1>3, <1>4, <1>5 DEF StoreInv, t

-----------------------------------------------------------------------------
(* messageAt finds every message of a store that has the invariant.        *)
LEMMA Readable ==
  ASSUME NEW s, StoreInv(s), NEW sequence \in s.first..s.last
  PROVE  MessageAt(s, sequence) = sequence
<1>1. /\ s.first \in Nat /\ s.currentFirst \in Nat /\ s.last \in Nat
      /\ IsStart(s.first) /\ IsStart(s.currentFirst) /\ sequence \in Nat
  BY DEF StoreInv, StoreShape, StoreBounds
<1>2. CASE sequence >= s.currentFirst
  <2>1. sequence \in s.current
    BY <1>1, <1>2 DEF StoreInv, StoreMaps
  <2> QED
    BY <1>2, <2>1 DEF MessageAt
<1>3. CASE ~(sequence >= s.currentFirst)
  <2> DEFINE key == ChunkKey(sequence)
             index == sequence - key
  <2>1. PICK f \in Nat : s.first = Start(f)
    BY <1>1 DEF IsStart
  <2>2. f * ChunkSize \in Nat
    BY ChunkAssumption
  <2>3. sequence - 1 \in Nat /\ f * ChunkSize <= sequence - 1
    BY <1>1, <2>1, <2>2 DEF Start
  <2>4. PICK q \in Nat, i \in 0..(ChunkSize - 1) :
            /\ q = (sequence - 1) \div ChunkSize
            /\ q * ChunkSize \in Nat
            /\ sequence - 1 = q * ChunkSize + i
    BY <2>3, Division
  <2>5. key = Start(q)
    BY <2>4 DEF ChunkKey, Start
  <2>6. index = i /\ key <= sequence /\ key \in Nat
    BY <1>1, <2>4, <2>5 DEF Start
  <2>7. key >= s.first
    <3>1. ~(q < f)
      <4>1. SUFFICES ASSUME q < f
                     PROVE  FALSE
        OBVIOUS
      <4>2. Start(q) + ChunkSize <= Start(f) \/ ~(Start(q) < Start(f))
        BY StartGap
      <4>3. PICK d \in Nat : f = q + 1 + d
        BY <4>1
      <4>4. f * ChunkSize = q * ChunkSize + ChunkSize + d * ChunkSize /\ d * ChunkSize \in Nat
        BY <4>3, ChunkAssumption
      <4> QED
        BY <4>4, <2>3, <2>4, ChunkAssumption
    <3>2. q >= f
      BY <3>1
    <3>3. ~(Start(q) < Start(f))
      BY <3>2, StartGap
    <3> QED
      BY <2>1, <2>5, <3>3, StartGap
  <2>8. key \in DOMAIN s.archived
    BY <1>1, <1>3, <2>5, <2>6, <2>7 DEF StoreInv, StoreMaps, IsStart
  <2>9. s.archived[key] = Chunk(key)
    BY <2>8 DEF StoreInv, StoreMaps
  <2>10. Len(Chunk(key)) = ChunkSize /\ Chunk(key)[index + 1] = key + index
    BY <2>4, <2>6, ChunkAssumption DEF Chunk
  <2>11. key + index = sequence
    BY <1>1, <2>6
  <2>12. index \in 0..(Len(s.archived[key]) - 1)
    BY <2>4, <2>6, <2>9, <2>10, ChunkAssumption
  <2> HIDE DEF key, index
  <2>13. MessageAt(s, sequence) = s.archived[key][index + 1]
    BY <1>3, <2>8, <2>12 DEF MessageAt, key, index
  <2> QED
    BY <2>9, <2>10, <2>11, <2>13
<1> QED
  BY <1>2, <1>3

-----------------------------------------------------------------------------
(* What the Steps append.                                                  *)
MessageType == [calls : Nat, of : Nat]

(* User messages and results are messages, as many as asked for.           *)
LEMMA MessagesType ==
  ASSUME pending.reply \in Nat, NEW n \in Nat
  PROVE  /\ UserMessages(n) \in Seq(MessageType) /\ Len(UserMessages(n)) = n
         /\ Results(n) \in Seq(MessageType) /\ Len(Results(n)) = n
<1>1. /\ UserMessage \in MessageType /\ ResultOf(pending.reply) \in MessageType
  BY DEF UserMessage, ResultOf, MessageType
<1> QED
  BY <1>1, IsASeq DEF UserMessages, Results

(* A compaction cutoff lies in the context.                                *)
LEMMA CutoffsInContext ==
  ASSUME NEW s, StoreInv(s), NEW messages, NEW end \in Cutoffs(s, messages)
  PROVE  end \in Int /\ end <= s.last
<1> DEFINE start == ContextStart(s)
<1>1. start \in Nat \ {0} /\ s.last \in Nat
  <2>1. {s.first, s.summarized + 1} \subseteq Nat \ {0}
    BY StartPlus DEF StoreInv, StoreShape, StoreBounds
  <2> QED
    BY <2>1, MaxOf DEF ContextStart, StoreInv, StoreShape
<1>2. PICK last \in (start - 1)..s.last : end = ToolSafe(messages, start, last)
  BY DEF Cutoffs
<1> HIDE DEF start
<1> DEFINE answers(r) == {q \in start..last : messages[q].of = r}
           unanswered == {r \in start..last : Cardinality(answers(r)) < messages[r].calls}
<1>3. end = IF unanswered = {} THEN last ELSE Min(unanswered) - 1
  BY <1>2 DEF ToolSafe
<1>4. unanswered \subseteq start..last
  OBVIOUS
<1> HIDE DEF unanswered
<1>5. CASE unanswered # {}
  <2>1. unanswered \in SUBSET Nat /\ unanswered \in SUBSET Int
    BY <1>1, <1>2, <1>4
  <2>2. Min(unanswered) \in unanswered
    BY <1>5, <2>1, HasLeast, MinOf
  <2>3. Min(unanswered) \in start..last
    BY <1>4, <2>2
  <2> QED
    BY <1>1, <1>2, <1>3, <1>5, <2>3
<1> QED
  BY <1>1, <1>2, <1>3, <1>5

-----------------------------------------------------------------------------
(* The invariant of the flow: the store's, and a cutoff in progress covers *)
(* at least what the last summary covers and nothing not yet appended.     *)
FlowInv ==
    /\ StoreInv(store) /\ store.last = Len(log)
    /\ log \in Seq(MessageType) /\ pending \in [reply : Nat, calls : Nat] /\ cutoff \in Nat
    /\ turn \in {"await_user", "compact_context", "call_model", "route_tool",
                 "compact_step", "call_model_step"}
    /\ turn = "compact_step" => store.summarized <= cutoff /\ cutoff <= store.last

(* A Step that appends and goes on without compacting.                     *)
LEMMA AppendAndGoToInv ==
  ASSUME FlowInv, NEW messages \in Seq(MessageType), AppendAndGoTo(messages, turn'),
         turn' \in {"await_user", "compact_context", "call_model", "route_tool"},
         pending' \in [reply : Nat, calls : Nat]
  PROVE  FlowInv' /\ reader' = reader /\ StoreInv(store') /\ store'.first = store.first
         /\ store'.currentFirst >= store.currentFirst
<1>1. Len(messages) \in Nat
  OBVIOUS
<1>2. log' = log \o messages /\ store' = Appended(store, Len(messages))
      /\ cutoff' = cutoff /\ reader' = reader
  BY DEF AppendAndGoTo, reader
<1>3. /\ StoreInv(store') /\ store'.last = store.last + Len(messages)
      /\ store'.first = store.first /\ store'.currentFirst >= store.currentFirst
  BY <1>1, <1>2, AppendedStore DEF FlowInv
<1>4. log' \in Seq(MessageType) /\ Len(log') = Len(log) + Len(messages)
  BY <1>2, ConcatProperties DEF FlowInv
<1>5. FlowInv'
  BY <1>1, <1>2, <1>3, <1>4 DEF FlowInv
<1> QED
  BY <1>2, <1>3, <1>5

(* pendingCompactionCutoff after any appended messages.                    *)
LEMMA GoToCompactContextInv ==
  ASSUME NEW s, NEW messages \in Seq(MessageType), StoreInv(s), s.last = Len(messages),
         GoToCompactContext(s, messages), pending' \in [reply : Nat, calls : Nat]
  PROVE  FlowInv' /\ store'.first >= s.first /\ store'.currentFirst = s.currentFirst
<1>1. log' = messages /\ store' = Trimmed(s)
  BY DEF GoToCompactContext
<1>2. /\ StoreInv(store') /\ store'.last = s.last /\ store'.summarized = s.summarized
      /\ store'.currentFirst = s.currentFirst /\ store'.first >= s.first
  BY <1>1, TrimmedStore
<1>3. CASE turn' = "call_model_step" /\ cutoff' = 0
  BY <1>1, <1>2, <1>3 DEF FlowInv
<1>4. CASE /\ turn' = "compact_step"
           /\ cutoff' \in {end \in Cutoffs(Trimmed(s), messages) : end > s.summarized}
  <2>1. cutoff' \in Int /\ cutoff' <= store'.last /\ cutoff' > s.summarized
    BY <1>1, <1>2, <1>4, CutoffsInContext
  <2>2. s.summarized \in Nat
    BY DEF StoreInv, StoreShape
  <2> QED
    BY <1>1, <1>2, <1>4, <2>1, <2>2 DEF FlowInv
<1> QED
  BY <1>2, <1>3, <1>4 DEF GoToCompactContext

(* Compacting a store up to a cutoff of its context keeps its invariant.   *)
LEMMA SummarizedStore ==
  ASSUME NEW s, StoreInv(s), NEW end \in Nat, s.summarized <= end, end <= s.last
  PROVE  LET t == [s EXCEPT !.summarized = end]
         IN  /\ StoreInv(t) /\ t.last = s.last /\ t.first = s.first
             /\ t.currentFirst = s.currentFirst /\ t.summarized = end
<1> DEFINE t == [s EXCEPT !.summarized = end]
<1>1. /\ t.last = s.last /\ t.first = s.first /\ t.summarized = end
      /\ t.currentFirst = s.currentFirst /\ t.current = s.current /\ t.archived = s.archived
      /\ t = [first |-> t.first, currentFirst |-> t.currentFirst, last |-> t.last,
              summarized |-> t.summarized, current |-> t.current, archived |-> t.archived]
  BY DEF StoreInv, StoreShape
<1> HIDE DEF t
<1>2. StoreInv(t)
  BY <1>1 DEF StoreInv, StoreShape, StoreBounds, StoreMaps
<1> QED
  BY <1>1, <1>2 DEF t

-----------------------------------------------------------------------------
(* What one step of the Agent does: it keeps the invariant of the flow,    *)
(* and both bounds of the archive only move forward.                       *)
AgentMoves ==
    /\ FlowInv' /\ reader' = reader
    /\ store'.first >= store.first /\ store'.currentFirst >= store.currentFirst

(* The natural numbers of the store's invariant.                           *)
LEMMA StoreNats ==
  ASSUME NEW s, StoreInv(s)
  PROVE  /\ s.first \in Nat \ {0} /\ s.currentFirst \in Nat \ {0} /\ s.last \in Nat
         /\ s.summarized \in Nat /\ s.first <= s.currentFirst
BY StartPlus DEF StoreInv, StoreShape, StoreBounds

(* Appending any messages and going on is such a step.                     *)
LEMMA AppendMoves ==
  ASSUME FlowInv, NEW messages \in Seq(MessageType), AppendAndGoTo(messages, turn'),
         turn' \in {"await_user", "compact_context", "call_model", "route_tool"},
         pending' \in [reply : Nat, calls : Nat]
  PROVE  AgentMoves
<1>1. StoreInv(store)
  BY DEF FlowInv
<1> QED
  BY <1>1, AppendAndGoToInv, StoreNats DEF AgentMoves

(* No open calls is a value of pending.                                    *)
LEMMA NoCallsType == NoCalls \in [reply : Nat, calls : Nat]
BY DEF NoCalls

(* AwaitUser appends the messages it consumes.                             *)
LEMMA AwaitUserMoves ==
  ASSUME FlowInv, NEW n \in 0..MaxSteered, AwaitUser(n)
  PROVE  AgentMoves
<1>1. n \in Nat /\ pending.reply \in Nat
  BY BoundAssumption DEF FlowInv
<1>2. AppendAndGoTo(UserMessages(n), turn') /\ turn' = "compact_context" /\ pending' = pending
  BY DEF AwaitUser, AppendAndGoTo
<1> QED
  BY <1>1, <1>2, MessagesType, AppendMoves DEF FlowInv

(* Steering found by CheckSteered closes the open calls and goes on to the *)
(* compaction of the turn.                                                 *)
LEMMA CheckSteeredSteerMoves ==
  ASSUME FlowInv, NEW n \in 0..MaxSteered, CheckSteeredSteer(n)
  PROVE  AgentMoves
<1> DEFINE messages == Results(pending.calls) \o UserMessages(n)
           s == Appended(store, Len(messages))
<1>1. n \in Nat /\ pending.reply \in Nat /\ pending.calls \in Nat
  BY BoundAssumption DEF FlowInv
<1>2. messages \in Seq(MessageType) /\ Len(messages) \in Nat
  BY <1>1, MessagesType, ConcatProperties
<1>3. GoToCompactContext(s, log \o messages) /\ pending' = NoCalls /\ reader' = reader
  BY DEF CheckSteeredSteer, reader
<1> HIDE DEF messages
<1>4. /\ StoreInv(store) /\ StoreInv(s) /\ s.last = store.last + Len(messages)
      /\ s.first = store.first /\ s.currentFirst >= store.currentFirst
  BY <1>2, AppendedStore DEF FlowInv
<1>5. log \o messages \in Seq(MessageType) /\ Len(log \o messages) = s.last
  BY <1>2, <1>4, ConcatProperties DEF FlowInv
<1> HIDE DEF s
<1>6. FlowInv' /\ store'.first >= s.first /\ store'.currentFirst = s.currentFirst
  BY <1>3, <1>4, <1>5, NoCallsType, GoToCompactContextInv
<1> QED
  BY <1>3, <1>4, <1>6, StoreNats DEF AgentMoves

(* CheckSteered without steering.                                          *)
LEMMA CheckSteeredContinueMoves ==
  ASSUME FlowInv, CheckSteeredContinue
  PROVE  AgentMoves
<1>1. /\ StoreInv(store) /\ pending' \in [reply : Nat, calls : Nat] /\ reader' = reader
  BY DEF FlowInv, CheckSteeredContinue, reader
<1>2. CASE GoToCompactContext(store, log)
  BY <1>1, <1>2, GoToCompactContextInv, StoreNats DEF AgentMoves, FlowInv
<1>3. CASE turn' = "call_model_step" /\ UNCHANGED <<store, log, cutoff>>
  BY <1>1, <1>3, StoreNats DEF AgentMoves, FlowInv
<1> QED
  BY <1>2, <1>3 DEF CheckSteeredContinue

(* CompactContext records the summary and trims.                           *)
LEMMA CompactContextMoves ==
  ASSUME FlowInv, CompactContext
  PROVE  AgentMoves
<1> DEFINE s == [store EXCEPT !.summarized = cutoff]
<1>1. /\ StoreInv(store) /\ cutoff \in Nat
      /\ store.summarized <= cutoff /\ cutoff <= store.last
  BY DEF FlowInv, CompactContext
<1>2. /\ StoreInv(s) /\ s.last = store.last /\ s.first = store.first
      /\ s.currentFirst = store.currentFirst
  BY <1>1, SummarizedStore
<1>3. /\ store' = Trimmed(s) /\ turn' = "call_model" /\ cutoff' = 0
      /\ log' = log /\ pending' = pending /\ reader' = reader
  BY DEF CompactContext, reader
<1> HIDE DEF s
<1>4. /\ StoreInv(store') /\ store'.last = s.last /\ store'.first >= s.first
      /\ store'.currentFirst = s.currentFirst
  BY <1>2, <1>3, TrimmedStore
<1> QED
  BY <1>2, <1>3, <1>4, StoreNats, <1>1 DEF AgentMoves, FlowInv

(* CallModel appends its reply and trims.                                  *)
LEMMA CallModelMoves ==
  ASSUME FlowInv, NEW calls \in 0..MaxCallsPerReply, CallModel(calls)
  PROVE  AgentMoves
<1> DEFINE s == Appended(store, 1)
<1>1. calls \in Nat /\ Len(log) \in Nat /\ Len(log) + 1 \in Nat
  BY BoundAssumption DEF FlowInv
<1>2. <<Reply(calls)>> \in Seq(MessageType)
  BY <1>1 DEF Reply, MessageType
<1>3. pending' \in [reply : Nat, calls : Nat]
  BY <1>1, NoCallsType DEF CallModel
<1>4. /\ log' = log \o <<Reply(calls)>> /\ store' = Trimmed(s) /\ cutoff' = cutoff
      /\ turn' \in {"route_tool", "await_user", "call_model"} /\ reader' = reader
  BY DEF CallModel, reader
<1>5. turn = "call_model_step"
  BY DEF CallModel
<1>6. /\ StoreInv(store) /\ StoreInv(s) /\ s.last = store.last + 1
      /\ s.first = store.first /\ s.currentFirst >= store.currentFirst
  BY AppendedStore DEF FlowInv
<1>7. log' \in Seq(MessageType) /\ Len(log') = s.last
  BY <1>2, <1>4, <1>6, ConcatProperties DEF FlowInv
<1> HIDE DEF s
<1>8. /\ StoreInv(store') /\ store'.last = s.last /\ store'.first >= s.first
      /\ store'.currentFirst = s.currentFirst
  BY <1>4, <1>6, TrimmedStore
<1>9. FlowInv'
  BY <1>3, <1>4, <1>5, <1>7, <1>8 DEF FlowInv
<1> QED
  BY <1>4, <1>6, <1>8, <1>9, StoreNats DEF AgentMoves

(* The calls of a reply end, one by one or all of them.                    *)
LEMMA FinishToolsMoves ==
  ASSUME FlowInv, NEW n \in 0..MaxCallsPerReply, FinishTools(n)
  PROVE  AgentMoves
<1>1. n \in Nat /\ pending.reply \in Nat /\ n <= pending.calls
  BY BoundAssumption DEF FlowInv, FinishTools
<1>2. pending' \in [reply : Nat, calls : Nat]
  BY <1>1, NoCallsType DEF FinishTools, FlowInv
<1>3. AppendAndGoTo(Results(n), turn') /\ turn' \in {"route_tool", "compact_context"}
  BY DEF FinishTools, AppendAndGoTo
<1> QED
  BY <1>1, <1>2, <1>3, MessagesType, AppendMoves

(* A question, or a stopped recovery.                                      *)
LEMMA InterruptToolsMoves ==
  ASSUME FlowInv, InterruptTools
  PROVE  AgentMoves
<1>1. pending.calls \in Nat /\ pending.reply \in Nat
  BY DEF FlowInv
<1>2. /\ AppendAndGoTo(Results(pending.calls), turn') /\ turn' = "await_user"
      /\ pending' = NoCalls
  BY DEF InterruptTools, AppendAndGoTo
<1> QED
  BY <1>1, <1>2, MessagesType, NoCallsType, AppendMoves

(* Steering that ends a wait inside the sequence.                          *)
LEMMA SteerWaitingMoves ==
  ASSUME FlowInv, NEW n \in 0..MaxSteered, SteerWaiting(n)
  PROVE  AgentMoves
<1> DEFINE messages == Results(pending.calls) \o UserMessages(n)
<1>1. n \in Nat /\ pending.reply \in Nat /\ pending.calls \in Nat
  BY BoundAssumption DEF FlowInv
<1>2. messages \in Seq(MessageType)
  BY <1>1, MessagesType, ConcatProperties
<1>3. AppendAndGoTo(messages, turn') /\ turn' = "compact_context" /\ pending' = NoCalls
  BY DEF SteerWaiting, AppendAndGoTo
<1> QED
  BY <1>2, <1>3, NoCallsType, AppendMoves

(* Every step of the Agent.                                                *)
LEMMA AgentStep ==
  ASSUME FlowInv, Agent
  PROVE  AgentMoves
<1>1. \/ \E n \in 0..MaxSteered : AwaitUser(n) \/ CheckSteeredSteer(n) \/ SteerWaiting(n)
      \/ CheckSteeredContinue \/ CompactContext
      \/ \E calls \in 0..MaxCallsPerReply : CallModel(calls) \/ FinishTools(calls)
      \/ InterruptTools
  BY DEF Agent
<1> QED
  BY <1>1, AwaitUserMoves, CheckSteeredSteerMoves, SteerWaitingMoves, CheckSteeredContinueMoves,
     CompactContextMoves, CallModelMoves, FinishToolsMoves, InterruptToolsMoves

(* The store begins with its invariant.                                    *)
LEMMA NewStoreInv == Init => FlowInv
<1> SUFFICES ASSUME Init PROVE FlowInv
  OBVIOUS
<1>1. IsStart(1)
  <2>1. 1 = Start(0)
    BY ChunkAssumption DEF Start
  <2> QED
    BY <2>1 DEF IsStart
<1>2. store = [first |-> 1, currentFirst |-> 1, last |-> 0, summarized |-> 0,
               current |-> {}, archived |-> [key \in {} |-> <<>>]]
  BY DEF Init, NewStore
<1>3. StoreShape(store)
  BY <1>2 DEF StoreShape
<1>4. StoreBounds(store)
  BY <1>1, <1>2, ChunkAssumption DEF StoreBounds, CurrentMessageLimit
<1>5. StoreMaps(store)
  BY <1>2 DEF StoreMaps
<1> QED
  BY <1>2, <1>3, <1>4, <1>5, NoCallsType DEF Init, FlowInv, StoreInv

(* A client changes nothing of the flow.                                   *)
LEMMA ClientStep ==
  ASSUME Client
  PROVE  flow' = flow
BY DEF Client, GetSnapshot, GetArchivedMessages, ArchivedMessagesNotFound,
       GetArchivedMessageRange, flow

(* FlowInv holds in every reachable state.                                 *)
LEMMA FlowInvariant == Spec => []FlowInv
<1>1. Init => FlowInv
  BY NewStoreInv
<1>2. FlowInv /\ [Next]_vars => FlowInv'
  <2> SUFFICES ASSUME FlowInv, [Next]_vars PROVE FlowInv'
    OBVIOUS
  <2>1. CASE Agent
    BY <2>1, AgentStep DEF AgentMoves
  <2>2. CASE Client
    BY <2>2, ClientStep DEF flow, FlowInv
  <2>3. CASE UNCHANGED vars
    BY <2>3 DEF vars, flow, FlowInv
  <2> QED
    BY <2>1, <2>2, <2>3 DEF Next
<1> QED
  BY <1>1, <1>2, PTL DEF Spec

(* messageAt finds every message retention has kept (flow.go:1517).        *)
THEOREM RetainedMessages == Spec => []RetainedIsReadable
<1>1. FlowInv => RetainedIsReadable
  BY Readable DEF FlowInv, RetainedIsReadable
<1> QED
  BY <1>1, FlowInvariant, PTL

(* A message leaves the store only after a summary covers it               *)
(* (flow.go:1599).                                                         *)
THEOREM TrimmedMessages == Spec => []TrimmedIsSummarized
<1>1. FlowInv => TrimmedIsSummarized
  BY DEF FlowInv, StoreInv, StoreBounds, TrimmedIsSummarized
<1> QED
  BY <1>1, FlowInvariant, PTL

(* A Snapshot holds fewer than CurrentMessageLimit messages, and they are  *)
(* the newest (flow.go:1282, 1266).                                        *)
THEOREM BoundedSnapshot == Spec => []SnapshotIsBounded
<1>1. ASSUME FlowInv
      PROVE  SnapshotIsBounded
  <2>1. /\ store.current = store.currentFirst..store.last
        /\ store.currentFirst \in Nat /\ store.last \in Nat
        /\ store.currentFirst <= store.last + 1
        /\ store.last - store.currentFirst + 1 < CurrentMessageLimit
    BY <1>1 DEF FlowInv, StoreInv, StoreShape, StoreBounds, StoreMaps
  <2>2. Cardinality(store.currentFirst..store.last)
           = IF store.currentFirst > store.last THEN 0
             ELSE store.last - store.currentFirst + 1
    <3>1. store.currentFirst \in Int /\ store.last \in Int
      BY <2>1
    <3> QED
      BY <3>1, FS_Interval, Zenon
  <2> QED
    BY <2>1, <2>2, ChunkAssumption DEF SnapshotIsBounded, CurrentMessageLimit
<1> QED
  BY <1>1, FlowInvariant, PTL

-----------------------------------------------------------------------------
(* The client.  What it holds ends a run of consecutive sequences, and     *)
(* where it would continue is the start of a chunk that was archived when  *)
(* it was told so.                                                         *)
Joined(pages) == \A i \in 1..(Len(pages) - 1) : pages[i + 1] = pages[i] + 1
ContinuesAt(before, pages) ==
    /\ IsStart(before) /\ before > 1 /\ before <= store.currentFirst
    /\ pages # <<>> /\ pages[1] = before
ReaderInv ==
    /\ view \in Seq(Nat) /\ older \in Nat
    /\ page \in [limit : Nat, before : Nat, messages : Seq(Nat)]
    /\ Joined(view) /\ (older # 0 => ContinuesAt(older, view))
    /\ view # <<>> /\ older = 0 => view[1] <= store.first
    /\ page # NoPage => /\ Joined(page.messages \o view)
                        /\ ContinuesAt(page.before, page.messages \o view)

(* A start other than the first is a boundary archivedMessageChunkFirst    *)
(* accepts, and the chunk before it begins at a start.                     *)
LEMMA StartIsBoundary ==
  ASSUME NEW before, IsStart(before), before > 1
  PROVE  /\ IsBoundary(before) /\ IsStart(before - ChunkSize)
         /\ before - ChunkSize \in Nat \ {0}
<1>1. PICK j \in Nat : before = Start(j)
  BY DEF IsStart
<1>2. j # 0
  BY <1>1, ChunkAssumption DEF Start
<1>3. j - 1 \in Nat /\ (j - 1) + 1 = j
  BY <1>2
<1>4. Start((j - 1) + 1) = Start(j - 1) + 1 * ChunkSize
  BY <1>3, StartGap
<1>5. before = Start(j - 1) + ChunkSize /\ Start(j - 1) \in Nat \ {0}
  BY <1>1, <1>3, <1>4, StartGap, ChunkAssumption
<1>6. (before - 1) % ChunkSize = 0
  <2>1. before - 1 \in Nat /\ before - 1 = j * ChunkSize
    BY <1>1, StartGap, ChunkAssumption DEF Start
  <2> QED
    BY <2>1, Multiple
<1>7. before - ChunkSize = Start(j - 1)
  BY <1>5, ChunkAssumption
<1> QED
  BY <1>3, <1>5, <1>6, <1>7, ChunkAssumption DEF IsBoundary, IsStart

(* A chunk before a run of consecutive sequences extends the run.          *)
LEMMA ChunkJoins ==
  ASSUME NEW key \in Nat, NEW pages \in Seq(Nat), pages # <<>>,
         pages[1] = key + ChunkSize, Joined(pages)
  PROVE  /\ Chunk(key) \o pages \in Seq(Nat) /\ Joined(Chunk(key) \o pages)
         /\ Chunk(key) \o pages # <<>> /\ (Chunk(key) \o pages)[1] = key
<1> DEFINE chunk == Chunk(key)
           all == chunk \o pages
<1>1. /\ chunk \in Seq(Nat) /\ Len(chunk) = ChunkSize
      /\ \A i \in 1..ChunkSize : chunk[i] = key + i - 1
  BY ChunkAssumption, IsASeq DEF Chunk
<1> HIDE DEF chunk
<1>2. /\ all \in Seq(Nat) /\ Len(all) = ChunkSize + Len(pages)
      /\ \A i \in 1..(ChunkSize + Len(pages)) :
            all[i] = IF i <= ChunkSize THEN chunk[i] ELSE pages[i - ChunkSize]
  <2>1. /\ all \in Seq(Nat) /\ Len(all) = Len(chunk) + Len(pages)
        /\ \A i \in 1..(Len(chunk) + Len(pages)) :
              all[i] = IF i <= Len(chunk) THEN chunk[i] ELSE pages[i - Len(chunk)]
    <3>1. chunk \in Seq(Nat) /\ pages \in Seq(Nat)
      BY <1>1
    <3> QED
      BY <3>1, ConcatProperties, Zenon
  <2> QED
    BY <1>1, <2>1
<1> HIDE DEF all
<1>3. Len(pages) \in Nat \ {0}
  BY EmptySeq
<1>4. ASSUME NEW i \in 1..(Len(all) - 1)
      PROVE  all[i + 1] = all[i] + 1
  <2>1. i \in 1..(ChunkSize + Len(pages)) /\ i + 1 \in 1..(ChunkSize + Len(pages))
    BY <1>2, <1>3, ChunkAssumption
  <2>2. CASE i < ChunkSize
    BY <1>1, <1>2, <2>1, <2>2, ChunkAssumption
  <2>3. CASE i = ChunkSize
    <3>1. all[i] = key + ChunkSize - 1
      BY <1>1, <1>2, <2>1, <2>3, ChunkAssumption
    <3>2. all[i + 1] = pages[1]
      BY <1>2, <2>1, <2>3, ChunkAssumption
    <3> QED
      BY <3>1, <3>2, ChunkAssumption
  <2>4. CASE i > ChunkSize
    <3>1. i - ChunkSize \in 1..(Len(pages) - 1)
      BY <1>2, <1>3, <2>4, ChunkAssumption
    <3>2. pages[(i - ChunkSize) + 1] = pages[i - ChunkSize] + 1
      BY <3>1 DEF Joined
    <3>3. (i + 1) - ChunkSize = (i - ChunkSize) + 1
      BY <2>1, ChunkAssumption
    <3>4. all[i + 1] = pages[(i + 1) - ChunkSize] /\ all[i] = pages[i - ChunkSize]
      <4>1. ~(i <= ChunkSize) /\ ~(i + 1 <= ChunkSize)
        BY <2>1, <2>4, <1>3, ChunkAssumption
      <4> QED
        BY <1>2, <2>1, <4>1
    <3> QED
      BY <3>2, <3>3, <3>4
  <2> QED
    BY <2>1, <2>2, <2>3, <2>4, ChunkAssumption
<1>5. all # <<>> /\ all[1] = key
  BY <1>1, <1>2, <1>3, ChunkAssumption
<1> QED
  BY <1>2, <1>4, <1>5 DEF Joined, all, chunk

(* Archiving and trimming move both bounds forward, which leaves what a    *)
(* client holds and where it continues as they are.                        *)
LEMMA AgentKeepsReader ==
  ASSUME FlowInv, ReaderInv, AgentMoves
  PROVE  ReaderInv'
<1>1. /\ store.first \in Nat /\ store'.first \in Nat /\ store'.first >= store.first
      /\ store.currentFirst \in Nat /\ store'.currentFirst \in Nat
      /\ store'.currentFirst >= store.currentFirst
  BY DEF FlowInv, AgentMoves, StoreInv, StoreShape
<1>2. view' = view /\ older' = older /\ page' = page
  BY DEF AgentMoves, reader
<1>3. ASSUME NEW before \in Nat, NEW pages, ContinuesAt(before, pages)
      PROVE  ContinuesAt(before, pages)'
  BY <1>1, <1>3 DEF ContinuesAt
<1>4. older \in Nat /\ page.before \in Nat
  BY DEF ReaderInv
<1>5. older # 0 => ContinuesAt(older, view)'
  BY <1>2, <1>3, <1>4 DEF ReaderInv
<1>6. page # NoPage => ContinuesAt(page.before, page.messages \o view)'
  BY <1>2, <1>3, <1>4 DEF ReaderInv
<1>7. view # <<>> /\ older = 0 => view[1] <= store'.first
  <2> SUFFICES ASSUME view # <<>>, older = 0 PROVE view[1] <= store'.first
    OBVIOUS
  <2>1. view[1] \in Nat /\ view[1] <= store.first
    BY DEF ReaderInv
  <2> QED
    BY <2>1, <1>1
<1> QED
  BY <1>2, <1>5, <1>6, <1>7 DEF ReaderInv, Joined, ContinuesAt

(* A Snapshot, and where the archive continues before it.                  *)
LEMMA GetSnapshotKeepsReader ==
  ASSUME FlowInv, ReaderInv, GetSnapshot
  PROVE  ReaderInv'
<1> DEFINE first == store.currentFirst
           size == store.last - first + 1
<1>1. /\ first \in Nat \ {0} /\ store.first \in Nat \ {0} /\ store.first <= first
      /\ IsStart(first) /\ size \in Nat /\ (first > 1 => size >= ChunkSize)
  BY StoreNats DEF FlowInv, StoreInv, StoreBounds
<1>2. /\ view' = [i \in 1..size |-> first + i - 1]
      /\ older' = IF first > store.first THEN first ELSE 0
      /\ page = NoPage /\ page' = page /\ store' = store
  BY DEF GetSnapshot, flow
<1> HIDE DEF first, size
<1>3. view' \in Seq(Nat) /\ Len(view') = size
  BY <1>1, <1>2, IsASeq
<1>4. Joined(view')
  BY <1>1, <1>2, <1>3 DEF Joined
<1>5. size > 0 => view' # <<>> /\ view'[1] = first
  BY <1>1, <1>2, <1>3
<1>6. older' # 0 => ContinuesAt(older, view)'
  <2> SUFFICES ASSUME older' # 0 PROVE ContinuesAt(older, view)'
    OBVIOUS
  <2>1. older' = first /\ first > 1 /\ size > 0 /\ store'.currentFirst = first
    BY <1>1, <1>2, ChunkAssumption DEF first
  <2>2. IsStart(older') /\ older' > 1 /\ older' <= store'.currentFirst
    BY <1>1, <2>1
  <2> QED
    BY <1>5, <2>1, <2>2 DEF ContinuesAt
<1>7. view' # <<>> /\ older' = 0 => view'[1] <= store'.first
  BY <1>1, <1>2, <1>3, <1>5
<1> QED
  BY <1>1, <1>2, <1>3, <1>4, <1>6, <1>7 DEF ReaderInv, Joined

(* A range begins where the client's messages begin.                       *)
LEMMA RangeKeepsReader ==
  ASSUME ReaderInv, NEW limit \in RangeLimits, GetArchivedMessageRange(limit)
  PROVE  ReaderInv'
<1>1. /\ page' = [limit |-> limit, before |-> older, messages |-> <<>>] /\ older # 0
      /\ view' = view /\ older' = older /\ store' = store /\ limit \in Nat
  BY RangeAssumption DEF GetArchivedMessageRange, flow
<1>2. page'.messages \o view' = view' /\ page'.before = older'
  BY <1>1, ConcatEmptySeq DEF ReaderInv
<1>3. page' \in [limit : Nat, before : Nat, messages : Seq(Nat)]
  BY <1>1 DEF ReaderInv
<1> QED
  BY <1>1, <1>2, <1>3 DEF ReaderInv, Joined, ContinuesAt

(* A page of the range: the whole chunk before the messages held, and the  *)
(* range goes on or ends at the chunk's first message.                     *)
LEMMA PageKeepsReader ==
  ASSUME FlowInv, ReaderInv, GetArchivedMessages
  PROVE  ReaderInv'
<1> DEFINE key == page.before - ChunkSize
           held == page.messages \o view
           messages == store.archived[key] \o page.messages
           next == NextBefore(store, key)
<1>1. /\ page # NoPage /\ IsFound(store, page.before) /\ store' = store
      /\ \/ /\ page' = [page EXCEPT !.before = next, !.messages = messages]
            /\ next # 0 /\ view' = view /\ older' = older
         \/ view' = messages \o view /\ older' = next /\ page' = NoPage
  BY DEF GetArchivedMessages, flow
<1>2. /\ view \in Seq(Nat) /\ page.messages \in Seq(Nat) /\ page.before \in Nat
      /\ page \in [limit : Nat, before : Nat, messages : Seq(Nat)]
      /\ Joined(held) /\ ContinuesAt(page.before, held)
  BY <1>1 DEF ReaderInv
<1>3. held \in Seq(Nat)
  BY <1>2, ConcatProperties
<1>4. /\ store.first \in Nat \ {0} /\ store.currentFirst \in Nat
      /\ store.first <= store.currentFirst
  BY StoreNats DEF FlowInv
<1>5. key \in DOMAIN store.archived
  BY <1>1 DEF IsFound
<1>6. /\ store.archived[key] = Chunk(key) /\ IsStart(key)
      /\ key \in store.first..(store.currentFirst - 1)
  BY <1>5 DEF FlowInv, StoreInv, StoreMaps
<1>7. key \in Nat /\ key + ChunkSize = page.before
  BY <1>2, <1>4, <1>6, ChunkAssumption
<1> DEFINE all == Chunk(key) \o held
<1>8. /\ all \in Seq(Nat) /\ Joined(all) /\ all # <<>> /\ all[1] = key
  BY <1>2, <1>3, <1>7, ChunkJoins DEF ContinuesAt
<1>9. messages \in Seq(Nat) /\ messages \o view = all
  <2>1. Chunk(key) \in Seq(Nat)
    BY <1>7, ChunkAssumption, IsASeq DEF Chunk
  <2>2. messages = Chunk(key) \o page.messages
    BY <1>6
  <2>3. (Chunk(key) \o page.messages) \o view = Chunk(key) \o (page.messages \o view)
    <3>1. view \in Seq(Nat) /\ page.messages \in Seq(Nat)
      BY <1>2
    <3> HIDE DEF key
    <3>2. \A a, b, c \in Seq(Nat) : (a \o b) \o c = a \o (b \o c)
      BY ConcatAssociative, SMTT(20)
    <3> QED
      BY <3>1, <3>2, <2>1, Zenon
  <2> QED
    BY <1>2, <2>1, <2>2, <2>3, ConcatProperties
<1>10. /\ next \in Nat
       /\ next # 0 => next = key /\ key > 1 /\ key <= store.currentFirst
       /\ next = 0 => key <= store.first
  BY <1>4, <1>6, <1>7 DEF NextBefore
<1> HIDE DEF key, held, messages, next, all
<1>11. CASE /\ page' = [page EXCEPT !.before = next, !.messages = messages]
            /\ next # 0 /\ view' = view /\ older' = older
  <2>1. /\ page'.messages = messages /\ page'.before = next
        /\ page' \in [limit : Nat, before : Nat, messages : Seq(Nat)]
    BY <1>2, <1>9, <1>10, <1>11
  <2>2. page'.messages \o view' = all
    BY <1>9, <1>11, <2>1
  <2>3. ContinuesAt(page.before, page.messages \o view)'
    BY <1>1, <1>6, <1>8, <1>10, <1>11, <2>1, <2>2 DEF ContinuesAt
  <2> QED
    BY <1>1, <1>8, <1>11, <2>1, <2>2, <2>3 DEF ReaderInv, Joined, ContinuesAt
<1>12. CASE view' = messages \o view /\ older' = next /\ page' = NoPage
  <2>1. page' \in [limit : Nat, before : Nat, messages : Seq(Nat)]
    BY <1>12 DEF NoPage
  <2>2. view' = all
    BY <1>9, <1>12
  <2> QED
    BY <1>1, <1>6, <1>8, <1>10, <1>12, <2>1, <2>2 DEF ReaderInv, Joined, ContinuesAt
<1> QED
  BY <1>1, <1>11, <1>12

(* A page that is not found leaves the client what it held before.         *)
LEMMA NotFoundKeepsReader ==
  ASSUME ReaderInv, ArchivedMessagesNotFound
  PROVE  ReaderInv'
<1>1. page' = NoPage /\ view' = view /\ older' = older /\ store' = store
  BY DEF ArchivedMessagesNotFound, flow
<1>2. NoPage \in [limit : Nat, before : Nat, messages : Seq(Nat)]
  BY DEF NoPage
<1> QED
  BY <1>1, <1>2 DEF ReaderInv, Joined, ContinuesAt

(* ReaderInv holds in every reachable state.                               *)
LEMMA ReaderInvariant == Spec => []ReaderInv
<1>1. Init => ReaderInv
  <2> SUFFICES ASSUME Init PROVE ReaderInv
    OBVIOUS
  <2>1. view = <<>> /\ older = 0 /\ page = NoPage
    BY DEF Init
  <2>2. NoPage \in [limit : Nat, before : Nat, messages : Seq(Nat)]
    BY DEF NoPage
  <2> QED
    BY <2>1, <2>2 DEF ReaderInv, Joined
<1>2. FlowInv /\ ReaderInv /\ [Next]_vars => ReaderInv'
  <2> SUFFICES ASSUME FlowInv, ReaderInv, [Next]_vars PROVE ReaderInv'
    OBVIOUS
  <2>1. CASE Agent
    BY <2>1, AgentStep, AgentKeepsReader
  <2>2. CASE Client
    BY <2>2, GetSnapshotKeepsReader, RangeKeepsReader, PageKeepsReader, NotFoundKeepsReader
       DEF Client
  <2>3. CASE UNCHANGED vars
    BY <2>3 DEF vars, flow, reader, ReaderInv, Joined, ContinuesAt
  <2> QED
    BY <2>1, <2>2, <2>3 DEF Next
<1> QED
  BY <1>1, <1>2, FlowInvariant, PTL DEF Spec

(* The pages of a client join: no gap, no repetition, and the next page    *)
(* ends right before them (flow.go:420, client.go:232).                    *)
THEOREM JoinedPages == Spec => []PagesJoin
<1>1. ASSUME ReaderInv
      PROVE  PagesJoin
  <2>1. CASE page # NoPage
    BY <1>1, <2>1, StartIsBoundary DEF ReaderInv, PagesJoin, Joined, ContinuesAt
  <2>2. CASE page = NoPage
    <3>1. page.messages \o view = view
      BY <1>1, <2>2, ConcatEmptySeq DEF NoPage, ReaderInv
    <3> QED
      BY <1>1, <2>2, <3>1, StartIsBoundary DEF ReaderInv, PagesJoin, Joined, ContinuesAt
  <2> QED
    BY <2>1, <2>2
<1> QED
  BY <1>1, ReaderInvariant, PTL

(* A client that is told there is no further page has all that is still    *)
(* retained (flow.go:450).                                                 *)
THEOREM CompletePages == Spec => []LastPageIsFirstRetained
<1>1. ReaderInv => LastPageIsFirstRetained
  BY DEF ReaderInv, LastPageIsFirstRetained
<1> QED
  BY <1>1, ReaderInvariant, PTL

(* ArchivedMessagesNotFound is answered only for a trimmed chunk           *)
(* (flow.go:420).                                                          *)
THEOREM OnlyTrimmedIsMissing == Spec => []MissingIsTrimmed
<1>1. ASSUME FlowInv, ReaderInv
      PROVE  MissingIsTrimmed
  <2> DEFINE key == page.before - ChunkSize
  <2> SUFFICES ASSUME page # NoPage, ~(key < store.first)
               PROVE  IsFound(store, page.before)
    BY DEF MissingIsTrimmed
  <2>1. /\ IsStart(page.before) /\ page.before > 1 /\ page.before <= store.currentFirst
        /\ page.before \in Nat
    BY <1>1 DEF ReaderInv, ContinuesAt
  <2>2. IsBoundary(page.before) /\ IsStart(key) /\ key \in Nat \ {0}
    BY <2>1, StartIsBoundary
  <2>3. store.first \in Nat /\ store.currentFirst \in Nat
    BY <1>1 DEF FlowInv, StoreInv, StoreShape
  <2>4. key \in store.first..(store.currentFirst - 1)
    BY <2>1, <2>2, <2>3, ChunkAssumption
  <2>5. key \in DOMAIN store.archived
    BY <1>1, <2>2, <2>4 DEF FlowInv, StoreInv, StoreMaps
  <2> QED
    BY <2>2, <2>3, <2>4, <2>5 DEF IsFound
<1> QED
  BY <1>1, FlowInvariant, ReaderInvariant, PTL

(* All variables have their types.                                         *)
THEOREM MessageTypes == Spec => []TypeOK
<1>1. ASSUME FlowInv, ReaderInv
      PROVE  TypeOK
  <2>1. StoreType
    <3>1. store.current \subseteq Nat /\ DOMAIN store.archived \subseteq Nat
      BY <1>1 DEF FlowInv, StoreInv, StoreShape, StoreMaps
    <3>2. ASSUME NEW key \in DOMAIN store.archived
          PROVE  store.archived[key] \in Seq(Nat)
      <4>1. key \in Nat /\ store.archived[key] = Chunk(key)
        BY <1>1, <3>1 DEF FlowInv, StoreInv, StoreMaps
      <4> QED
        BY <4>1, ChunkAssumption, IsASeq DEF Chunk
    <3> QED
      BY <1>1, <3>1, <3>2, StoreNats DEF FlowInv, StoreType
  <2>2. FlowType
    BY <1>1 DEF FlowInv, FlowType, MessageType
  <2>3. ReaderType
    BY <1>1 DEF ReaderInv, ReaderType
  <2> QED
    BY <2>1, <2>2, <2>3 DEF TypeOK
<1> QED
  BY <1>1, FlowInvariant, ReaderInvariant, PTL
-----------------------------------------------------------------------------
(* What a model call sees.  The results of a reply follow it at once, so   *)
(* a reply and its results are an interval of sequences.  Only the last    *)
(* reply can lack results, those that pending counts; and a summary never  *)
(* ends inside such an interval.                                           *)
LastResult(messages, r) == r + messages[r].calls

Grouped(messages, p) ==
    /\ \A q \in 1..Len(messages) :
          messages[q].of # 0 =>
              /\ messages[q].calls = 0 /\ messages[q].of \in 1..(q - 1)
              /\ q <= LastResult(messages, messages[q].of)
    /\ \A r \in 1..Len(messages), q \in 1..Len(messages) :
          r < q /\ q <= LastResult(messages, r) => messages[q].of = r
    /\ \A r \in 1..Len(messages) :
          \/ LastResult(messages, r) <= Len(messages)
          \/ r = p.reply /\ p.calls > 0
    /\ p.calls > 0 =>
          /\ p.reply \in 1..Len(messages)
          /\ LastResult(messages, p.reply) = Len(messages) + p.calls

(* No reply up to a cutoff has a result after it.                          *)
Closed(messages, end) ==
    \A r \in 1..Len(messages) : r <= end => LastResult(messages, r) <= end

ContextInv ==
    /\ Grouped(log, pending) /\ Closed(log, store.summarized)
    /\ turn = "compact_step" => Closed(log, cutoff)
    /\ IF turn = "route_tool" THEN pending.calls > 0 ELSE pending = NoCalls

(* The messages of a concatenation, by sequence.                           *)
LEMMA Joining ==
  ASSUME NEW h \in Seq(MessageType), NEW t \in Seq(MessageType)
  PROVE  /\ h \o t \in Seq(MessageType) /\ Len(h \o t) = Len(h) + Len(t)
         /\ Len(h) \in Nat /\ Len(t) \in Nat
         /\ \A k \in 1..Len(h) : (h \o t)[k] = h[k] /\ h[k].calls \in Nat /\ h[k].of \in Nat
         /\ \A k \in 1..Len(h \o t) : k > Len(h) =>
               k - Len(h) \in 1..Len(t) /\ (h \o t)[k] = t[k - Len(h)]
<1>1. /\ h \o t \in Seq(MessageType) /\ Len(h \o t) = Len(h) + Len(t)
      /\ Len(h) \in Nat /\ Len(t) \in Nat
      /\ \A k \in 1..(Len(h) + Len(t)) :
            (h \o t)[k] = IF k <= Len(h) THEN h[k] ELSE t[k - Len(h)]
  BY ConcatProperties
<1>2. \A k \in 1..Len(h) : h[k] \in MessageType
  BY ElementOfSeq
<1>3. ASSUME NEW k \in 1..Len(h)
      PROVE  (h \o t)[k] = h[k] /\ h[k].calls \in Nat /\ h[k].of \in Nat
  <2>1. k \in 1..(Len(h) + Len(t)) /\ k <= Len(h)
    BY <1>1
  <2>2. h[k] \in [calls : Nat, of : Nat]
    BY <1>2 DEF MessageType
  <2> QED
    BY <1>1, <2>1, <2>2
<1>4. ASSUME NEW k \in 1..Len(h \o t), k > Len(h)
      PROVE  k - Len(h) \in 1..Len(t) /\ (h \o t)[k] = t[k - Len(h)]
  <2>1. k \in 1..(Len(h) + Len(t)) /\ ~(k <= Len(h)) /\ k - Len(h) \in 1..Len(t)
    BY <1>1, <1>4
  <2> QED
    BY <1>1, <2>1
<1> QED
  BY <1>1, <1>3, <1>4

(* A later message changes nothing of a summary that ends before it.       *)
LEMMA ClosedStays ==
  ASSUME NEW h \in Seq(MessageType), NEW t \in Seq(MessageType), NEW end \in Nat,
         end <= Len(h), Closed(h, end)
  PROVE  Closed(h \o t, end)
<1>1. \A r \in 1..Len(h \o t) : r <= end => r \in 1..Len(h) /\ (h \o t)[r] = h[r]
  BY Joining
<1> QED
  BY <1>1 DEF Closed, LastResult

(* User messages follow once every call has its result.                    *)
LEMMA UserMessagesGrouped ==
  ASSUME NEW h \in Seq(MessageType), NEW n \in Nat, NEW p, NEW p2, Grouped(h, p),
         p.calls = 0, p2.calls = 0
  PROVE  Grouped(h \o UserMessages(n), p2)
<1> DEFINE t == UserMessages(n)
           w == h \o t
<1>1. t \in Seq(MessageType) /\ Len(t) = n /\ \A k \in 1..n : t[k].calls = 0 /\ t[k].of = 0
  BY IsASeq DEF UserMessages, UserMessage, MessageType
<1> HIDE DEF t
<1>2. /\ Len(w) = Len(h) + n /\ Len(h) \in Nat
      /\ \A k \in 1..Len(h) : w[k] = h[k] /\ h[k].calls \in Nat /\ h[k].of \in Nat
      /\ \A k \in 1..Len(w) : k > Len(h) => w[k].calls = 0 /\ w[k].of = 0
  <2>1. /\ Len(w) = Len(h) + n /\ Len(h) \in Nat
        /\ \A k \in 1..Len(h) : w[k] = h[k] /\ h[k].calls \in Nat /\ h[k].of \in Nat
        /\ \A k \in 1..Len(w) : k > Len(h) => k - Len(h) \in 1..n /\ w[k] = t[k - Len(h)]
    BY <1>1, Joining
  <2> HIDE DEF w
  <2> QED BY <1>1, <2>1
<1>3. \A r \in 1..Len(h) : /\ LastResult(w, r) = LastResult(h, r)
                            /\ LastResult(h, r) \in Nat /\ LastResult(h, r) <= Len(h)
  BY <1>2 DEF LastResult, Grouped
<1>4. \A r \in 1..Len(w) : r > Len(h) => LastResult(w, r) = r
  BY <1>2 DEF LastResult
<1> HIDE DEF w
<1>5. ASSUME NEW q \in 1..Len(w), w[q].of # 0
      PROVE  /\ w[q].calls = 0 /\ w[q].of \in 1..(q - 1)
             /\ q <= LastResult(w, w[q].of)
  <2>1. q \in 1..Len(h) /\ w[q] = h[q]
    BY <1>2, <1>5
  <2>2. h[q].calls = 0 /\ h[q].of \in 1..(q - 1) /\ q <= LastResult(h, h[q].of)
    BY <1>5, <2>1 DEF Grouped
  <2>3. h[q].of \in 1..Len(h)
    BY <1>2, <2>1, <2>2
  <2>4. LastResult(w, h[q].of) = LastResult(h, h[q].of)
    BY <1>3, <2>3
  <2> QED BY <2>1, <2>2, <2>4
<1>6. ASSUME NEW r \in 1..Len(w), NEW q \in 1..Len(w), r < q, q <= LastResult(w, r)
      PROVE  w[q].of = r
  <2>1. r \in 1..Len(h) /\ q \in 1..Len(h)
    BY <1>2, <1>3, <1>4, <1>6
  <2> QED BY <1>2, <1>3, <1>6, <2>1 DEF Grouped
<1>7. ASSUME NEW r \in 1..Len(w)
      PROVE  LastResult(w, r) <= Len(w)
  BY <1>2, <1>3, <1>4
<1>8. Grouped(w, p2)
  BY <1>5, <1>6, <1>7 DEF Grouped
<1> QED
  BY <1>8 DEF w, t

(* So does a reply, whose calls are open then.                             *)
LEMMA ReplyGrouped ==
  ASSUME NEW h \in Seq(MessageType), NEW c \in Nat, NEW p, NEW p2, Grouped(h, p),
         p.calls = 0, p2.calls = c, c > 0 => p2.reply = Len(h) + 1
  PROVE  Grouped(h \o <<Reply(c)>>, p2)
<1> DEFINE t == <<Reply(c)>>
           w == h \o t
<1>1. t \in Seq(MessageType) /\ Len(t) = 1 /\ t[1].calls = c /\ t[1].of = 0
  BY DEF Reply, MessageType
<1> HIDE DEF t
<1>2. /\ Len(w) = Len(h) + 1 /\ Len(h) \in Nat
      /\ \A k \in 1..Len(h) : w[k] = h[k] /\ h[k].calls \in Nat /\ h[k].of \in Nat
      /\ w[Len(h) + 1].calls = c /\ w[Len(h) + 1].of = 0
  <2>1. /\ Len(w) = Len(h) + 1 /\ Len(h) \in Nat
        /\ \A k \in 1..Len(h) : w[k] = h[k] /\ h[k].calls \in Nat /\ h[k].of \in Nat
        /\ \A k \in 1..Len(w) : k > Len(h) => w[k] = t[k - Len(h)]
    <3>1. t \in Seq(MessageType) /\ Len(t) = 1
      BY <1>1
    <3>2. /\ Len(w) = Len(h) + Len(t) /\ Len(h) \in Nat
          /\ \A k \in 1..Len(h) : w[k] = h[k] /\ h[k].calls \in Nat /\ h[k].of \in Nat
          /\ \A k \in 1..Len(w) : k > Len(h) =>
                k - Len(h) \in 1..Len(t) /\ w[k] = t[k - Len(h)]
      BY <3>1, Joining
    <3> QED BY <3>1, <3>2
  <2> HIDE DEF w
  <2>2. w[Len(h) + 1] = t[1]
    <3>1. Len(h) + 1 \in 1..Len(w) /\ Len(h) + 1 > Len(h) /\ Len(h) + 1 - Len(h) = 1
      BY <2>1
    <3> QED BY <2>1, <3>1
  <2> QED BY <1>1, <2>1, <2>2
<1>3. \A r \in 1..Len(h) : /\ LastResult(w, r) = LastResult(h, r)
                            /\ LastResult(h, r) \in Nat /\ LastResult(h, r) <= Len(h)
  BY <1>2 DEF LastResult, Grouped
<1>4. LastResult(w, Len(h) + 1) = Len(h) + 1 + c
  BY <1>2 DEF LastResult
<1> HIDE DEF w
<1>5. ASSUME NEW q \in 1..Len(w), w[q].of # 0
      PROVE  /\ w[q].calls = 0 /\ w[q].of \in 1..(q - 1)
             /\ q <= LastResult(w, w[q].of)
  <2>1. q \in 1..Len(h) /\ w[q] = h[q]
    BY <1>2, <1>5
  <2>2. h[q].calls = 0 /\ h[q].of \in 1..(q - 1) /\ q <= LastResult(h, h[q].of)
    BY <1>5, <2>1 DEF Grouped
  <2>3. h[q].of \in 1..Len(h)
    BY <1>2, <2>1, <2>2
  <2>4. LastResult(w, h[q].of) = LastResult(h, h[q].of)
    BY <1>3, <2>3
  <2> QED BY <2>1, <2>2, <2>4
<1>6. ASSUME NEW r \in 1..Len(w), NEW q \in 1..Len(w), r < q, q <= LastResult(w, r)
      PROVE  w[q].of = r
  <2>1. r \in 1..Len(h) /\ q \in 1..Len(h)
    BY <1>2, <1>3, <1>6
  <2> QED BY <1>2, <1>3, <1>6, <2>1 DEF Grouped
<1>7. ASSUME NEW r \in 1..Len(w)
      PROVE  LastResult(w, r) <= Len(w) \/ (r = p2.reply /\ p2.calls > 0)
  <2>1. CASE r \in 1..Len(h)
    BY <1>2, <1>3, <2>1
  <2>2. CASE r = Len(h) + 1
    BY <1>2, <1>4, <2>2
  <2> QED BY <1>2, <2>1, <2>2
<1>8. p2.calls > 0 =>
         p2.reply \in 1..Len(w) /\ LastResult(w, p2.reply) = Len(w) + p2.calls
  BY <1>2, <1>4
<1>9. Grouped(w, p2)
  BY <1>5, <1>6, <1>7, <1>8 DEF Grouped
<1> QED
  BY <1>9 DEF w, t

(* And the results of the open calls follow their reply, some or all.      *)
LEMMA ResultsGrouped ==
  ASSUME NEW h \in Seq(MessageType), pending \in [reply : Nat, calls : Nat],
         Grouped(h, pending), NEW n \in 0..pending.calls, NEW p2,
         p2.calls = pending.calls - n, p2.calls > 0 => p2.reply = pending.reply
  PROVE  Grouped(h \o Results(n), p2)
<1> DEFINE t == Results(n)
           w == h \o t
           reply == pending.reply
<1>0. n \in Nat /\ pending.calls \in Nat /\ reply \in Nat
  OBVIOUS
<1>1. t \in Seq(MessageType) /\ Len(t) = n
      /\ \A k \in 1..n : t[k].calls = 0 /\ t[k].of = reply
  BY <1>0, IsASeq DEF Results, ResultOf, MessageType
<1> HIDE DEF t
<1>2. /\ Len(w) = Len(h) + n /\ Len(h) \in Nat
      /\ \A k \in 1..Len(h) : w[k] = h[k] /\ h[k].calls \in Nat /\ h[k].of \in Nat
      /\ \A k \in 1..Len(w) : k > Len(h) => w[k].calls = 0 /\ w[k].of = reply
  <2>1. /\ Len(w) = Len(h) + n /\ Len(h) \in Nat
        /\ \A k \in 1..Len(h) : w[k] = h[k] /\ h[k].calls \in Nat /\ h[k].of \in Nat
        /\ \A k \in 1..Len(w) : k > Len(h) => k - Len(h) \in 1..n /\ w[k] = t[k - Len(h)]
    BY <1>1, Joining
  <2> HIDE DEF w
  <2> QED BY <1>1, <2>1
<1>3. \A r \in 1..Len(h) : LastResult(w, r) = LastResult(h, r) /\ LastResult(h, r) \in Nat
  BY <1>2 DEF LastResult
<1>4. \A r \in 1..Len(w) : r > Len(h) => LastResult(w, r) = r
  BY <1>2 DEF LastResult
<1>10. n > 0 => /\ reply \in 1..Len(h) /\ LastResult(h, reply) = Len(h) + pending.calls
  BY <1>0 DEF Grouped
<1>11. \A r \in 1..Len(h) : (r = reply /\ pending.calls > 0) \/ LastResult(h, r) <= Len(h)
  BY DEF Grouped
<1>12. pending.calls > 0 =>
          reply \in 1..Len(h) /\ LastResult(h, reply) = Len(h) + pending.calls
  BY DEF Grouped
<1> HIDE DEF w, reply
<1>5. ASSUME NEW q \in 1..Len(w), w[q].of # 0
      PROVE  /\ w[q].calls = 0 /\ w[q].of \in 1..(q - 1)
             /\ q <= LastResult(w, w[q].of)
  <2>1. CASE q <= Len(h)
    <3>1. q \in 1..Len(h) /\ w[q] = h[q]
      BY <1>2, <2>1
    <3>2. h[q].calls = 0 /\ h[q].of \in 1..(q - 1) /\ q <= LastResult(h, h[q].of)
      BY <1>5, <3>1 DEF Grouped
    <3>3. h[q].of \in 1..Len(h)
      BY <1>2, <3>1, <3>2
    <3>4. LastResult(w, h[q].of) = LastResult(h, h[q].of)
      BY <1>3, <3>3
    <3> QED BY <3>1, <3>2, <3>4
  <2>2. CASE q > Len(h)
    <3>1. w[q].calls = 0 /\ w[q].of = reply /\ n > 0
      BY <1>0, <1>2, <2>2
    <3>2. LastResult(w, reply) = Len(h) + pending.calls /\ reply \in 1..(q - 1)
      BY <1>2, <1>3, <1>10, <2>2, <3>1
    <3> QED BY <1>0, <1>2, <3>1, <3>2
  <2> QED BY <1>2, <2>1, <2>2
<1>6. ASSUME NEW r \in 1..Len(w), NEW q \in 1..Len(w), r < q, q <= LastResult(w, r)
      PROVE  w[q].of = r
  <2>1. r \in 1..Len(h)
    <3>1. r > Len(h) => LastResult(w, r) = r
      BY <1>4
    <3>2. r \in Nat /\ q \in Nat /\ r >= 1
      BY <1>0, <1>2
    <3> QED BY <1>2, <1>6, <3>1, <3>2
  <2>2. CASE q <= Len(h)
    <3>1. q \in 1..Len(h) /\ q <= LastResult(h, r)
      BY <1>2, <1>3, <1>6, <2>1, <2>2
    <3>2. h[q].of = r
      BY <1>6, <2>1, <3>1 DEF Grouped
    <3> QED BY <1>2, <3>1, <3>2
  <2>3. CASE q > Len(h)
    <3>1. r = reply
      BY <1>2, <1>3, <1>6, <1>11, <2>1, <2>3
    <3> QED BY <1>2, <2>3, <3>1
  <2> QED BY <1>2, <2>2, <2>3
<1>7. ASSUME NEW r \in 1..Len(w)
      PROVE  LastResult(w, r) <= Len(w) \/ (r = p2.reply /\ p2.calls > 0)
  <2>1. CASE r > Len(h)
    BY <1>0, <1>2, <1>4, <2>1
  <2>2. CASE r \in 1..Len(h) /\ LastResult(h, r) <= Len(h)
    <3>1. LastResult(w, r) = LastResult(h, r) /\ LastResult(h, r) \in Nat
      BY <1>3, <2>2
    <3>2. Len(w) \in Nat /\ Len(h) \in Nat /\ Len(h) <= Len(w)
      BY <1>0, <1>2
    <3> QED BY <2>2, <3>1, <3>2
  <2>3. CASE r = reply /\ pending.calls > 0
    <3>1. LastResult(w, r) = Len(h) + pending.calls
      BY <1>3, <1>12, <2>3
    <3>2. CASE pending.calls = n
      <4>1. LastResult(w, r) = Len(w) /\ Len(w) \in Nat
        BY <1>0, <1>2, <3>1, <3>2
      <4> QED BY <4>1
    <3>3. CASE pending.calls # n
      <4>1. p2.calls > 0
        BY <1>0, <3>3
      <4> QED BY <2>3, <4>1 DEF reply
    <3> QED BY <3>2, <3>3
  <2>4. r > Len(h) \/ r \in 1..Len(h)
    BY <1>0, <1>2
  <2> HIDE DEF reply
  <2> QED BY <1>11, <2>1, <2>2, <2>3, <2>4
<1>8. ASSUME p2.calls > 0
      PROVE  p2.reply \in 1..Len(w) /\ LastResult(w, p2.reply) = Len(w) + p2.calls
  <2>1. p2.reply = reply /\ pending.calls > 0
    BY <1>0, <1>8 DEF reply
  <2> QED BY <1>0, <1>2, <1>3, <1>12, <2>1
<1>9. Grouped(w, p2)
  BY <1>5, <1>6, <1>7, <1>8 DEF Grouped
<1> QED
  BY <1>9 DEF w, t

(* A part of the history that holds a reply holds its results up to its    *)
(* own end: all of them, or fewer than the reply has calls.                *)
LEMMA AnswersIn ==
  ASSUME NEW h \in Seq(MessageType), NEW p, Grouped(h, p), NEW start \in Nat \ {0},
         NEW end \in Nat, end <= Len(h), NEW r \in start..end
  PROVE  LET answers == {q \in start..end : h[q].of = r}
         IN  /\ LastResult(h, r) <= end => Cardinality(answers) = h[r].calls
             /\ LastResult(h, r) > end => Cardinality(answers) < h[r].calls
<1> DEFINE answers == {q \in start..end : h[q].of = r}
           last == LastResult(h, r)
           calls == h[r].calls
<1>1. r \in 1..Len(h) /\ r \in Nat /\ Len(h) \in Nat
  OBVIOUS
<1>2. calls \in Nat /\ last = r + calls /\ last \in Nat
  <2>1. h[r] \in MessageType
    BY <1>1, ElementOfSeq
  <2> QED BY <1>1, <2>1, SMTT(20) DEF MessageType, LastResult
<1>3. \A q \in start..end : h[q].of = r <=> r < q /\ q <= last
  <2>1. ASSUME NEW q \in start..end, h[q].of = r
        PROVE  r < q /\ q <= last
    <3>1. q \in 1..Len(h) /\ h[q].of # 0
      BY <1>1, <2>1
    <3>2. h[q].of \in 1..(q - 1) /\ q <= LastResult(h, h[q].of)
      BY <3>1 DEF Grouped
    <3> QED BY <2>1, <3>1, <3>2
  <2>2. ASSUME NEW q \in start..end, r < q, q <= last
        PROVE  h[q].of = r
    <3>1. q \in 1..Len(h)
      BY <1>1
    <3> QED BY <1>1, <2>2, <3>1 DEF Grouped
  <2> QED BY <2>1, <2>2
<1> HIDE DEF calls
<1> USE DEF answers
<1>4. ASSUME last <= end
      PROVE  Cardinality(answers) = calls
  <2>1. answers = (r + 1)..last
    <3> HIDE DEF last
    <3> QED BY <1>1, <1>2, <1>3, <1>4
  <2> HIDE DEF answers, last
  <2>2. Cardinality((r + 1)..last) = IF r + 1 > last THEN 0 ELSE last - (r + 1) + 1
    <3>1. r + 1 \in Int /\ last \in Int
      BY <1>1, <1>2
    <3> QED BY <3>1, FS_Interval, Zenon
  <2> QED BY <1>1, <1>2, <2>1, <2>2
<1>5. ASSUME last > end
      PROVE  Cardinality(answers) < calls
  <2>1. answers = (r + 1)..end
    <3> HIDE DEF last
    <3> QED BY <1>1, <1>2, <1>3, <1>5
  <2> HIDE DEF answers, last
  <2>2. Cardinality((r + 1)..end) = IF r + 1 > end THEN 0 ELSE end - (r + 1) + 1
    <3>1. r + 1 \in Int /\ end \in Int
      BY <1>1
    <3> QED BY <3>1, FS_Interval, Zenon
  <2> QED BY <1>1, <1>2, <1>5, <2>1, <2>2
<1> QED
  BY <1>4, <1>5 DEF answers, last, calls

(* toolSafeCompactionCutoff: a cutoff it returns splits no reply from its  *)
(* results.                                                                *)
LEMMA ToolSafeCloses ==
  ASSUME NEW h \in Seq(MessageType), NEW p, Grouped(h, p), NEW start \in Nat \ {0},
         NEW end \in (start - 1)..Len(h), Closed(h, start - 1)
  PROVE  Closed(h, ToolSafe(h, start, end))
<1> DEFINE answers(r) == {q \in start..end : h[q].of = r}
           unanswered == {r \in start..end : Cardinality(answers(r)) < h[r].calls}
           cut == ToolSafe(h, start, end)
<1>1. end \in Nat /\ end <= Len(h) /\ Len(h) \in Nat
  OBVIOUS
<1>2. \A r \in 1..Len(h) : h[r].calls \in Nat /\ LastResult(h, r) \in Nat
  <2>1. \A r \in 1..Len(h) : h[r] \in MessageType
    BY ElementOfSeq
  <2> QED BY <2>1 DEF MessageType, LastResult
<1>3. \A r \in start..end : r \in unanswered <=> LastResult(h, r) > end
  <2> SUFFICES ASSUME NEW r \in start..end
               PROVE  r \in unanswered <=> LastResult(h, r) > end
    OBVIOUS
  <2>1. r \in 1..Len(h)
    BY <1>1
  <2>2. /\ LastResult(h, r) <= end => Cardinality(answers(r)) = h[r].calls
        /\ LastResult(h, r) > end => Cardinality(answers(r)) < h[r].calls
    BY <1>1, AnswersIn
  <2> HIDE DEF answers
  <2> QED BY <1>1, <1>2, <2>1, <2>2
<1>4. cut = IF unanswered = {} THEN end ELSE Min(unanswered) - 1
  BY DEF ToolSafe
<1>5. unanswered \subseteq start..end
  OBVIOUS
<1> HIDE DEF unanswered, cut
<1>6. \A r \in 1..Len(h) : r < start => LastResult(h, r) < start
  <2> SUFFICES ASSUME NEW r \in 1..Len(h), r < start
               PROVE  LastResult(h, r) < start
    OBVIOUS
  <2>1. LastResult(h, r) <= start - 1
    BY DEF Closed
  <2> QED BY <1>2, <2>1
<1>7. CASE unanswered = {}
  <2>1. \A r \in 1..Len(h) : r <= end => LastResult(h, r) <= end
    BY <1>1, <1>2, <1>3, <1>6, <1>7
  <2> QED BY <1>4, <1>7, <2>1 DEF Closed, cut
<1>8. CASE unanswered # {}
  <2> DEFINE first == Min(unanswered)
  <2>1. first \in unanswered /\ \A r \in unanswered : first <= r
    <3>1. unanswered \in SUBSET Nat /\ unanswered \in SUBSET Int
      BY <1>1, <1>5
    <3> QED BY <1>8, <3>1, HasLeast, MinOf
  <2> HIDE DEF first
  <2>2. first \in start..end /\ LastResult(h, first) > end /\ first \in 1..Len(h)
    BY <1>1, <1>3, <1>5, <2>1
  <2>3. h[first].calls > 0
    BY <1>1, <1>2, <2>2 DEF LastResult
  <2>4. h[first].of = 0
    BY <1>2, <2>2, <2>3 DEF Grouped
  <2>5. ASSUME NEW r \in 1..Len(h), r < first
        PROVE  LastResult(h, r) < first
    <3>1. CASE r < start
      BY <1>2, <1>6, <2>2, <3>1
    <3>2. CASE r \in start..end
      <4>1. LastResult(h, r) <= end
        BY <1>1, <1>2, <1>3, <2>1, <2>2, <2>5, <3>2
      <4>2. ~(first <= LastResult(h, r))
        <5>1. first <= LastResult(h, r) => h[first].of = r
          BY <2>2, <2>5 DEF Grouped
        <5> QED BY <2>4, <5>1
      <4> QED BY <1>2, <2>2, <4>2
    <3> QED BY <1>1, <2>2, <2>5, <3>1, <3>2
  <2>6. cut = first - 1
    BY <1>4, <1>8 DEF first
  <2>7. \A r \in 1..Len(h) : r <= first - 1 => LastResult(h, r) <= first - 1
    BY <1>2, <2>2, <2>5
  <2> QED BY <2>6, <2>7 DEF Closed, cut
<1> QED
  BY <1>7, <1>8

(* The context begins right after the last summary.                        *)
LEMMA ContextBegins ==
  ASSUME NEW s, StoreInv(s)
  PROVE  ContextStart(s) = s.summarized + 1 /\ s.summarized \in Nat /\ s.last \in Nat
         /\ s.summarized <= s.last
<1>1. s.first \in Nat /\ s.summarized \in Nat /\ s.last \in Nat /\ s.first <= s.summarized + 1
      /\ s.summarized <= s.last
  BY DEF StoreInv, StoreShape, StoreBounds
<1>2. Max({s.first, s.summarized + 1}) = s.summarized + 1
  <2>1. PICK m \in Nat, n \in Nat : m = s.first /\ n = s.summarized + 1 /\ m <= n
    BY <1>1
  <2>2. Max({m, n}) \in {m, n} /\ Max({m, n}) >= n
    BY MaxOf
  <2> QED BY <2>1, <2>2
<1> QED
  BY <1>1, <1>2 DEF ContextStart

(* So whatever cutoff the token budget asks for, no pair is split.         *)
LEMMA CutoffsClose ==
  ASSUME NEW s, StoreInv(s), NEW h \in Seq(MessageType), s.last = Len(h), NEW p,
         Grouped(h, p), Closed(h, s.summarized), NEW end \in Cutoffs(s, h)
  PROVE  Closed(h, end)
<1>1. /\ ContextStart(s) = s.summarized + 1 /\ s.summarized \in Nat /\ s.last \in Nat
  BY ContextBegins
<1>2. PICK last \in (ContextStart(s) - 1)..s.last : end = ToolSafe(h, ContextStart(s), last)
  BY DEF Cutoffs
<1>3. /\ ContextStart(s) \in Nat \ {0} /\ ContextStart(s) - 1 = s.summarized
      /\ last \in (ContextStart(s) - 1)..Len(h)
  BY <1>1, <1>2
<1>4. Closed(h, ContextStart(s) - 1)
  BY <1>3
<1>5. Closed(h, ToolSafe(h, ContextStart(s), last))
  BY <1>3, <1>4, ToolSafeCloses
<1> QED
  BY <1>2, <1>5

-----------------------------------------------------------------------------
(* Where the Steps keep the context closed.                                *)

(* A Step that appends and goes on without compacting.                     *)
LEMMA AppendedContext ==
  ASSUME FlowInv, ContextInv, NEW messages \in Seq(MessageType),
         AppendAndGoTo(messages, turn'), Grouped(log \o messages, pending'),
         turn' \in {"await_user", "compact_context", "call_model", "route_tool"},
         IF turn' = "route_tool" THEN pending'.calls > 0 ELSE pending' = NoCalls
  PROVE  ContextInv'
<1>1. /\ log' = log \o messages /\ Len(messages) \in Nat
      /\ store' = Appended(store, Len(messages))
  BY DEF AppendAndGoTo
<1>2. /\ store'.summarized = store.summarized /\ store.summarized \in Nat
      /\ store.summarized <= Len(log) /\ log \in Seq(MessageType)
  BY <1>1, AppendedStore, ContextBegins DEF FlowInv
<1>3. Closed(log', store'.summarized)
  BY <1>1, <1>2, ClosedStays DEF ContextInv
<1>4. Grouped(log', pending')
  BY <1>1
<1> QED
  BY <1>3, <1>4 DEF ContextInv

(* pendingCompactionCutoff after any appended messages.                    *)
LEMMA GoToKeepsContext ==
  ASSUME NEW s, NEW messages \in Seq(MessageType), StoreInv(s), s.last = Len(messages),
         GoToCompactContext(s, messages), pending' = NoCalls,
         Grouped(messages, NoCalls), Closed(messages, s.summarized)
  PROVE  ContextInv'
<1>1. log' = messages /\ store' = Trimmed(s)
  BY DEF GoToCompactContext
<1>2. StoreInv(Trimmed(s)) /\ Trimmed(s).last = s.last /\ Trimmed(s).summarized = s.summarized
  BY TrimmedStore
<1>3. turn' \in {"call_model_step", "compact_step"}
      /\ (turn' = "compact_step" => cutoff' \in Cutoffs(Trimmed(s), messages))
  BY DEF GoToCompactContext
<1>4. turn' = "compact_step" => Closed(messages, cutoff')
  BY <1>2, <1>3, CutoffsClose
<1>5. Grouped(log', pending') /\ Closed(log', store'.summarized)
  BY <1>1, <1>2
<1> QED
  BY <1>1, <1>3, <1>4, <1>5 DEF ContextInv

(* AwaitUser begins a turn with every call answered.                       *)
LEMMA AwaitUserContext ==
  ASSUME FlowInv, ContextInv, NEW n \in 0..MaxSteered, AwaitUser(n)
  PROVE  ContextInv'
<1>1. /\ n \in Nat /\ pending = NoCalls /\ pending' = NoCalls /\ pending.reply \in Nat
      /\ log \in Seq(MessageType) /\ turn' = "compact_context"
      /\ AppendAndGoTo(UserMessages(n), turn')
  BY BoundAssumption DEF AwaitUser, AppendAndGoTo, ContextInv, FlowInv
<1>2. Grouped(log \o UserMessages(n), pending')
  BY <1>1, UserMessagesGrouped DEF ContextInv, NoCalls
<1>3. UserMessages(n) \in Seq(MessageType)
  BY <1>1, MessagesType
<1> QED
  BY <1>1, <1>2, <1>3, AppendedContext

(* Interrupted results of all open calls, and the messages that steered.   *)
LEMMA SteeringGrouped ==
  ASSUME FlowInv, ContextInv, NEW n \in Nat
  PROVE  LET messages == Results(pending.calls) \o UserMessages(n)
         IN  messages \in Seq(MessageType) /\ Grouped(log \o messages, NoCalls)
<1>1. /\ pending \in [reply : Nat, calls : Nat] /\ pending.calls \in 0..pending.calls
      /\ pending.reply \in Nat /\ pending.calls \in Nat
      /\ log \in Seq(MessageType) /\ Grouped(log, pending)
  BY DEF FlowInv, ContextInv
<1>2. Results(pending.calls) \in Seq(MessageType) /\ UserMessages(n) \in Seq(MessageType)
  BY <1>1, MessagesType
<1>3. NoCalls.calls = 0 /\ NoCalls.calls = pending.calls - pending.calls
      /\ ~(NoCalls.calls > 0)
  BY <1>1 DEF NoCalls
<1>4. Grouped(log \o Results(pending.calls), NoCalls)
  BY <1>1, <1>3, ResultsGrouped
<1>5. log \o Results(pending.calls) \in Seq(MessageType)
  BY <1>1, <1>2, ConcatProperties
<1>6. Grouped((log \o Results(pending.calls)) \o UserMessages(n), NoCalls)
  BY <1>3, <1>4, <1>5, UserMessagesGrouped
<1>7. (log \o Results(pending.calls)) \o UserMessages(n)
         = log \o (Results(pending.calls) \o UserMessages(n))
  <2>1. PICK h \in Seq(MessageType), t \in Seq(MessageType), u \in Seq(MessageType) :
            h = log /\ t = Results(pending.calls) /\ u = UserMessages(n)
    BY <1>1, <1>2
  <2>2. (h \o t) \o u = h \o (t \o u)
    BY ConcatAssociative
  <2> QED BY <2>1, <2>2
<1>8. Results(pending.calls) \o UserMessages(n) \in Seq(MessageType)
  BY <1>2, ConcatProperties
<1> QED
  BY <1>6, <1>7, <1>8

(* Steering found by CheckSteered.                                         *)
LEMMA CheckSteeredSteerContext ==
  ASSUME FlowInv, ContextInv, NEW n \in 0..MaxSteered, CheckSteeredSteer(n)
  PROVE  ContextInv'
<1> DEFINE messages == Results(pending.calls) \o UserMessages(n)
           s == Appended(store, Len(messages))
<1>1. n \in Nat
  BY BoundAssumption
<1>2. messages \in Seq(MessageType) /\ Grouped(log \o messages, NoCalls)
  BY <1>1, SteeringGrouped
<1>3. GoToCompactContext(s, log \o messages) /\ pending' = NoCalls
  BY DEF CheckSteeredSteer
<1> HIDE DEF messages
<1>4. /\ Len(messages) \in Nat /\ StoreInv(store) /\ store.last = Len(log)
      /\ log \in Seq(MessageType) /\ Closed(log, store.summarized)
  BY <1>2 DEF FlowInv, ContextInv
<1>5. /\ StoreInv(s) /\ s.last = store.last + Len(messages)
      /\ s.summarized = store.summarized
  BY <1>4, AppendedStore
<1>6. log \o messages \in Seq(MessageType) /\ Len(log \o messages) = s.last
  BY <1>2, <1>4, <1>5, ConcatProperties
<1>7. Closed(log \o messages, s.summarized)
  BY <1>2, <1>4, <1>5, ContextBegins, ClosedStays
<1> HIDE DEF s
<1> QED
  BY <1>2, <1>3, <1>5, <1>6, <1>7, GoToKeepsContext

(* Steering that ends a wait inside the sequence.                          *)
LEMMA SteerWaitingContext ==
  ASSUME FlowInv, ContextInv, NEW n \in 0..MaxSteered, SteerWaiting(n)
  PROVE  ContextInv'
<1> DEFINE messages == Results(pending.calls) \o UserMessages(n)
<1>1. n \in Nat
  BY BoundAssumption
<1>2. messages \in Seq(MessageType) /\ Grouped(log \o messages, NoCalls)
  BY <1>1, SteeringGrouped
<1>3. /\ AppendAndGoTo(messages, turn') /\ turn' = "compact_context" /\ pending' = NoCalls
  BY DEF SteerWaiting, AppendAndGoTo
<1> HIDE DEF messages
<1>4. Grouped(log \o messages, pending')
  BY <1>2, <1>3
<1> QED
  BY <1>2, <1>3, <1>4, AppendedContext

(* A question, or a stopped recovery.                                      *)
LEMMA InterruptToolsContext ==
  ASSUME FlowInv, ContextInv, InterruptTools
  PROVE  ContextInv'
<1>1. /\ pending \in [reply : Nat, calls : Nat] /\ pending.calls \in 0..pending.calls
      /\ pending.reply \in Nat /\ pending.calls \in Nat
      /\ log \in Seq(MessageType) /\ Grouped(log, pending)
  BY DEF FlowInv, ContextInv
<1>2. /\ AppendAndGoTo(Results(pending.calls), turn') /\ turn' = "await_user"
      /\ pending' = NoCalls
  BY DEF InterruptTools, AppendAndGoTo
<1>3. Results(pending.calls) \in Seq(MessageType)
  BY <1>1, MessagesType
<1>4. pending'.calls = pending.calls - pending.calls /\ ~(pending'.calls > 0)
  BY <1>1, <1>2 DEF NoCalls
<1>5. Grouped(log \o Results(pending.calls), pending')
  BY <1>1, <1>4, ResultsGrouped
<1> QED
  BY <1>2, <1>3, <1>5, AppendedContext

(* One result, or those of a joined batch.                                 *)
LEMMA FinishToolsContext ==
  ASSUME FlowInv, ContextInv, NEW n \in 0..MaxCallsPerReply, FinishTools(n)
  PROVE  ContextInv'
<1>1. /\ pending \in [reply : Nat, calls : Nat] /\ n \in 1..pending.calls
      /\ n \in 0..pending.calls /\ n \in Nat
      /\ pending.reply \in Nat /\ pending.calls \in Nat
      /\ log \in Seq(MessageType) /\ Grouped(log, pending)
  BY BoundAssumption DEF FlowInv, ContextInv, FinishTools
<1>2. Results(n) \in Seq(MessageType)
  BY <1>1, MessagesType
<1>3. CASE n < pending.calls
  <2>1. /\ AppendAndGoTo(Results(n), turn') /\ turn' = "route_tool"
        /\ pending' = [pending EXCEPT !.calls = @ - n]
    BY <1>3 DEF FinishTools, AppendAndGoTo
  <2>2. pending'.calls = pending.calls - n /\ pending'.reply = pending.reply
        /\ pending'.calls > 0
    BY <1>1, <1>3, <2>1
  <2>3. Grouped(log \o Results(n), pending')
    BY <1>1, <2>2, ResultsGrouped
  <2> QED BY <1>2, <2>1, <2>2, <2>3, AppendedContext
<1>4. CASE n = pending.calls
  <2>1. /\ AppendAndGoTo(Results(n), turn') /\ turn' = "compact_context"
        /\ pending' = NoCalls
    BY <1>1, <1>4 DEF FinishTools, AppendAndGoTo
  <2>2. pending'.calls = pending.calls - n /\ ~(pending'.calls > 0)
    BY <1>1, <1>4, <2>1 DEF NoCalls
  <2>3. Grouped(log \o Results(n), pending')
    BY <1>1, <2>2, ResultsGrouped
  <2> QED BY <1>2, <2>1, <2>3, AppendedContext
<1> QED
  BY <1>1, <1>3, <1>4

(* A reply opens its calls.                                                *)
LEMMA CallModelContext ==
  ASSUME FlowInv, ContextInv, NEW calls \in 0..MaxCallsPerReply, CallModel(calls)
  PROVE  ContextInv'
<1> DEFINE s == Appended(store, 1)
           messages == <<Reply(calls)>>
<1>1. /\ calls \in Nat /\ pending = NoCalls /\ pending.calls = 0
      /\ log \in Seq(MessageType) /\ Grouped(log, pending) /\ Len(log) \in Nat
      /\ StoreInv(store) /\ store.last = Len(log) /\ Closed(log, store.summarized)
  BY BoundAssumption DEF CallModel, ContextInv, FlowInv, NoCalls
<1>2. /\ turn' \in IF calls > 0 THEN {"route_tool"} ELSE {"await_user", "call_model"}
      /\ log' = log \o messages /\ store' = Trimmed(s)
      /\ pending' = IF calls = 0 THEN NoCalls ELSE [reply |-> Len(log) + 1, calls |-> calls]
  BY DEF CallModel
<1>3. messages \in Seq(MessageType)
  BY <1>1 DEF Reply, MessageType
<1>4. pending'.calls = calls /\ (calls > 0 => pending'.reply = Len(log) + 1)
  BY <1>1, <1>2 DEF NoCalls
<1>5. Grouped(log', pending')
  BY <1>1, <1>2, <1>4, ReplyGrouped
<1>6. /\ turn' \notin {"compact_step", "call_model_step", "compact_context"}
      /\ IF turn' = "route_tool" THEN pending'.calls > 0 ELSE pending' = NoCalls
  BY <1>1, <1>2, <1>4
<1> HIDE DEF messages
<1>7. StoreInv(s) /\ s.summarized = store.summarized
  BY <1>1, AppendedStore
<1>8. Closed(log', s.summarized)
  BY <1>1, <1>2, <1>3, <1>7, ContextBegins, ClosedStays
<1> HIDE DEF s
<1>9. store'.summarized = s.summarized
  BY <1>2, <1>7, TrimmedStore
<1> QED
  BY <1>5, <1>6, <1>8, <1>9 DEF ContextInv

(* CheckSteered without steering.                                          *)
LEMMA CheckSteeredContinueContext ==
  ASSUME FlowInv, ContextInv, CheckSteeredContinue
  PROVE  ContextInv'
<1>1. /\ pending = NoCalls /\ pending' = NoCalls /\ log \in Seq(MessageType)
      /\ StoreInv(store) /\ store.last = Len(log)
      /\ Grouped(log, NoCalls) /\ Closed(log, store.summarized)
  BY DEF CheckSteeredContinue, ContextInv, FlowInv
<1>2. CASE GoToCompactContext(store, log)
  BY <1>1, <1>2, GoToKeepsContext
<1>3. CASE turn' = "call_model_step" /\ UNCHANGED <<store, log, cutoff>>
  BY <1>1, <1>3 DEF ContextInv
<1> QED
  BY <1>2, <1>3 DEF CheckSteeredContinue

(* CompactContext makes its cutoff the end of the summary.                 *)
LEMMA CompactContextContext ==
  ASSUME FlowInv, ContextInv, CompactContext
  PROVE  ContextInv'
<1> DEFINE s == [store EXCEPT !.summarized = cutoff]
<1>1. /\ StoreInv(store) /\ cutoff \in Nat /\ turn = "compact_step" /\ pending = NoCalls
      /\ store.summarized <= cutoff /\ cutoff <= store.last
      /\ Grouped(log, pending) /\ Closed(log, cutoff)
  BY DEF FlowInv, CompactContext, ContextInv
<1>2. StoreInv(s) /\ s.summarized = cutoff
  BY <1>1, SummarizedStore
<1>3. /\ store' = Trimmed(s) /\ turn' = "call_model" /\ log' = log /\ pending' = pending
  BY DEF CompactContext
<1> HIDE DEF s
<1>4. store'.summarized = cutoff
  BY <1>2, <1>3, TrimmedStore
<1> QED
  BY <1>1, <1>3, <1>4 DEF ContextInv

(* ContextInv holds in every reachable state.                              *)
LEMMA ContextInvariant == Spec => []ContextInv
<1>1. Init => ContextInv
  <2> SUFFICES ASSUME Init PROVE ContextInv
    OBVIOUS
  <2>1. log = <<>> /\ Len(log) = 0 /\ turn = "await_user" /\ pending = NoCalls
    BY DEF Init
  <2>2. Closed(log, store.summarized)
    BY <2>1 DEF Closed
  <2>3. Grouped(log, pending)
    BY <2>1 DEF Grouped, NoCalls
  <2> QED BY <2>1, <2>2, <2>3 DEF ContextInv
<1>2. FlowInv /\ ContextInv /\ [Next]_vars => ContextInv'
  <2> SUFFICES ASSUME FlowInv, ContextInv, [Next]_vars PROVE ContextInv'
    OBVIOUS
  <2>1. CASE Agent
    <3>1. \/ \E n \in 0..MaxSteered : AwaitUser(n) \/ CheckSteeredSteer(n) \/ SteerWaiting(n)
          \/ CheckSteeredContinue \/ CompactContext
          \/ \E calls \in 0..MaxCallsPerReply : CallModel(calls) \/ FinishTools(calls)
          \/ InterruptTools
      BY <2>1 DEF Agent
    <3> QED
      BY <3>1, AwaitUserContext, CheckSteeredSteerContext, SteerWaitingContext,
         CheckSteeredContinueContext, CompactContextContext, CallModelContext,
         FinishToolsContext, InterruptToolsContext
  <2>2. CASE Client \/ UNCHANGED vars
    <3>1. flow' = flow
      BY <2>2, ClientStep DEF vars
    <3> QED BY <3>1 DEF flow, ContextInv
  <2> QED
    BY <2>1, <2>2 DEF Next
<1> QED
  BY <1>1, <1>2, FlowInvariant, PTL DEF Spec

(* Wherever compaction cuts, whatever was interrupted, steered or joined,  *)
(* a model call sees every result with its call and every call with all    *)
(* its results (flow.go:1537, 1620).                                       *)
THEOREM ModelSeesClosedContext == Spec => []ContextIsClosed
<1>1. ASSUME FlowInv, ContextInv, turn = "call_model_step"
      PROVE  LET context == ContextStart(store)..store.last
             IN  \A r \in context :
                    /\ log[r].of # 0 => log[r].of \in context
                    /\ Cardinality({q \in context : log[q].of = r}) = log[r].calls
  <2> DEFINE start == ContextStart(store)
             end == store.last
  <2>1. /\ start = store.summarized + 1 /\ start \in Nat \ {0} /\ end \in Nat /\ end = Len(log)
        /\ log \in Seq(MessageType) /\ Closed(log, store.summarized) /\ Grouped(log, pending)
        /\ pending = NoCalls /\ store.summarized \in Nat
    BY <1>1, ContextBegins DEF FlowInv, ContextInv
  <2> HIDE DEF start, end
  <2>2. \A r \in 1..end : LastResult(log, r) <= end
    BY <2>1 DEF Grouped, NoCalls
  <2> SUFFICES ASSUME NEW r \in start..end
               PROVE  /\ log[r].of # 0 => log[r].of \in start..end
                      /\ Cardinality({q \in start..end : log[q].of = r}) = log[r].calls
    BY DEF start, end
  <2>3. r \in 1..Len(log)
    BY <2>1
  <2>4. ASSUME log[r].of # 0
        PROVE  log[r].of \in start..end
    <3>1. log[r].of \in 1..(r - 1) /\ r <= LastResult(log, log[r].of)
      BY <2>1, <2>3, <2>4 DEF Grouped
    <3>2. log[r].of \in 1..Len(log)
      BY <2>1, <2>3, <3>1
    <3>3. log[r].of <= store.summarized => LastResult(log, log[r].of) <= store.summarized
      BY <2>1, <3>2 DEF Closed
    <3>4. LastResult(log, log[r].of) \in Int
      <4>1. log[log[r].of] \in MessageType
        BY <2>1, <3>2, ElementOfSeq
      <4> QED BY <3>2, <4>1 DEF LastResult, MessageType
    <3> QED BY <2>1, <2>3, <3>1, <3>2, <3>3, <3>4
  <2>5. Cardinality({q \in start..end : log[q].of = r}) = log[r].calls
    <3>1. LastResult(log, r) <= end /\ end <= Len(log)
      BY <2>1, <2>2, <2>3
    <3> QED BY <2>1, <3>1, AnswersIn, ZenonT(30)
  <2> QED BY <2>4, <2>5
<1>2. FlowInv /\ ContextInv => ContextIsClosed
  BY <1>1, Zenon DEF ContextIsClosed
<1> QED
  BY <1>2, FlowInvariant, ContextInvariant, PTL

-----------------------------------------------------------------------------
(* The loops of appendMessage and trimSummarizedMessages.  Every iteration *)
(* keeps the store's invariant, and a store that has it is known by the    *)
(* numbers in AgentState, so the loops and the formulas end in one store.  *)

(* Where currentMessages begins is known from the last message: there is   *)
(* one start that leaves at least one chunk and less than two.             *)
LEMMA CurrentFirstIsKnown ==
  ASSUME NEW s, NEW t, StoreInv(s), StoreInv(t), s.last = t.last
  PROVE  s.currentFirst <= t.currentFirst
<1>1. PICK i \in Nat : s.currentFirst = Start(i)
  BY DEF StoreInv, StoreBounds, IsStart
<1>2. PICK j \in Nat : t.currentFirst = Start(j)
  BY DEF StoreInv, StoreBounds, IsStart
<1>3. Start(i) \in Nat \ {0} /\ Start(j) \in Nat \ {0} /\ s.last \in Nat
  BY StartGap DEF StoreInv, StoreShape
<1>4. SUFFICES ASSUME Start(j) < Start(i)
               PROVE  FALSE
  BY <1>1, <1>2, <1>3
<1>5. Start(j) + ChunkSize <= Start(i)
  BY <1>4, StartGap
<1>6. s.last - Start(i) + 1 >= ChunkSize
  BY <1>1, <1>3, <1>4 DEF StoreInv, StoreBounds
<1>7. s.last - Start(j) + 1 < ChunkSize + ChunkSize
  BY <1>2, <1>3, ChunkAssumption DEF StoreInv, StoreBounds, CurrentMessageLimit
<1> QED
  BY <1>3, <1>5, <1>6, <1>7, ChunkAssumption

(* The numbers of AgentState determine both maps.                          *)
LEMMA StoreIsKnown ==
  ASSUME NEW s, NEW t, StoreInv(s), StoreInv(t),
         s.first = t.first, s.last = t.last, s.summarized = t.summarized
  PROVE  s = t
<1>1. s.currentFirst = t.currentFirst
  BY CurrentFirstIsKnown DEF StoreInv, StoreShape
<1>2. s.current = t.current
  BY <1>1 DEF StoreInv, StoreMaps
<1>3. DOMAIN s.archived = DOMAIN t.archived
  BY <1>1 DEF StoreInv, StoreMaps
<1>4. \A key \in DOMAIN s.archived : s.archived[key] = t.archived[key]
  BY <1>3 DEF StoreInv, StoreMaps
<1>5. s.archived = t.archived
  <2>1. /\ s.archived = [key \in DOMAIN s.archived |-> s.archived[key]]
        /\ t.archived = [key \in DOMAIN t.archived |-> t.archived[key]]
    BY DEF StoreInv, StoreMaps
  <2> QED BY <1>3, <1>4, <2>1
<1> QED
  BY <1>1, <1>2, <1>5 DEF StoreInv, StoreShape

(* One call of appendMessage.                                              *)
LEMMA OneAppended ==
  ASSUME NEW s, StoreInv(s)
  PROVE  /\ StoreInv(AppendMessage(s))
         /\ AppendMessage(s).last = s.last + 1
         /\ AppendMessage(s).first = s.first
         /\ AppendMessage(s).summarized = s.summarized
<1> DEFINE u == [s EXCEPT !.last = @ + 1, !.current = @ \cup {s.last + 1}]
           first == s.currentFirst
           t == AppendMessage(s)
<1>0. u = [s EXCEPT !.last = s.last + 1, !.current = s.current \cup {s.last + 1}]
  OBVIOUS
<1>1. /\ u.first = s.first /\ u.currentFirst = first /\ u.last = s.last + 1
      /\ u.summarized = s.summarized /\ u.current = s.current \cup {s.last + 1}
      /\ u.archived = s.archived
      /\ u = [first |-> u.first, currentFirst |-> u.currentFirst, last |-> u.last,
              summarized |-> u.summarized, current |-> u.current, archived |-> u.archived]
  <2> HIDE DEF u
  <2> QED BY <1>0 DEF StoreInv, StoreShape
<1>2. /\ s.first \in Nat \ {0} /\ first \in Nat \ {0} /\ s.last \in Nat /\ s.summarized \in Nat
      /\ s.first <= first /\ first <= s.last + 1 /\ s.last - first + 1 < CurrentMessageLimit
      /\ s.first <= s.summarized + 1 /\ s.summarized <= s.last
      /\ IsStart(s.first) /\ IsStart(first)
      /\ (first > 1 => s.last - first + 1 >= ChunkSize)
  BY StartGap DEF StoreInv, StoreShape, StoreBounds, IsStart
<1>3. u.current = first..(s.last + 1)
  BY <1>1, <1>2 DEF StoreInv, StoreMaps
<1>4. t = ArchiveCurrentMessages(u)
  BY DEF AppendMessage
<1> HIDE DEF u, t, first
<1>5. CASE s.last + 1 - first + 1 < CurrentMessageLimit
  <2>0. u.last - u.currentFirst + 1 < CurrentMessageLimit
    BY <1>1, <1>2, <1>5
  <2>1. t = u
    BY <1>4, <2>0 DEF ArchiveCurrentMessages
  <2>2. StoreShape(u)
    BY <1>1, <1>2 DEF StoreShape
  <2>3. StoreBounds(u)
    BY <1>1, <1>2, <1>5, ChunkAssumption DEF StoreBounds
  <2>4. StoreMaps(u)
    BY <1>1, <1>3 DEF StoreMaps, StoreInv, first
  <2> QED
    BY <1>1, <2>1, <2>2, <2>3, <2>4 DEF StoreInv, t
<1>6. CASE ~(s.last + 1 - first + 1 < CurrentMessageLimit)
  <2> DEFINE chunk == first..(first + ChunkSize - 1)
             next == first + ChunkSize
  <2>0. ~(u.last - u.currentFirst + 1 < CurrentMessageLimit) /\ u.currentFirst = first
    BY <1>1, <1>2, <1>6
  <2>1. t = [u EXCEPT !.archived = [key \in DOMAIN @ \cup {first} |->
                                       IF key = first THEN Chunk(first) ELSE @[key]],
                      !.current = @ \ chunk,
                      !.currentFirst = next]
    BY <1>4, <2>0 DEF ArchiveCurrentMessages
  <2> HIDE DEF chunk, next
  <2>2. /\ t.first = s.first /\ t.currentFirst = next /\ t.last = s.last + 1
        /\ t.summarized = s.summarized /\ t.current = (first..(s.last + 1)) \ chunk
        /\ DOMAIN t.archived = DOMAIN s.archived \cup {first}
        /\ t.archived = [key \in DOMAIN t.archived |-> t.archived[key]]
        /\ \A key \in DOMAIN t.archived :
              t.archived[key] = IF key = first THEN Chunk(first) ELSE s.archived[key]
        /\ t = [first |-> t.first, currentFirst |-> t.currentFirst, last |-> t.last,
                summarized |-> t.summarized, current |-> t.current, archived |-> t.archived]
    BY <1>1, <1>3, <2>1
  <2>3. next \in Nat \ {0} /\ IsStart(next)
    <3>1. first + 1 * ChunkSize = next
      BY <1>2, ChunkAssumption DEF next
    <3> QED BY <1>2, <3>1, StartPlus
  <2>4. StoreShape(t)
    BY <1>2, <2>2, <2>3 DEF StoreShape
  <2>5. StoreBounds(t)
    BY <1>2, <1>6, <2>2, <2>3, ChunkAssumption DEF StoreBounds, CurrentMessageLimit, next
  <2>6. t.current = next..(s.last + 1)
    BY <1>2, <1>6, <2>2, ChunkAssumption DEF chunk, next, CurrentMessageLimit
  <2>7. DOMAIN t.archived = {key \in s.first..(next - 1) : IsStart(key)}
    <3>1. DOMAIN s.archived = {key \in s.first..(first - 1) : IsStart(key)}
      BY DEF StoreInv, StoreMaps, first
    <3>2. ASSUME NEW key \in first..(next - 1), IsStart(key)
          PROVE  key = first
      <4>1. PICK i \in Nat : first = Start(i)
        BY <1>2 DEF IsStart
      <4>2. PICK j \in Nat : key = Start(j)
        BY <3>2 DEF IsStart
      <4>3. ~(Start(i) < Start(j))
        BY <1>2, <4>1, <4>2, StartGap, ChunkAssumption DEF next
      <4> QED BY <1>2, <4>1, <4>2, <4>3
    <3> QED BY <1>2, <2>2, <2>3, <3>1, <3>2, ChunkAssumption DEF next
  <2>8. StoreMaps(t)
    <3>1. \A key \in DOMAIN s.archived : s.archived[key] = Chunk(key)
      BY DEF StoreInv, StoreMaps
    <3> QED BY <2>2, <2>6, <2>7, <3>1 DEF StoreMaps
  <2> QED
    BY <2>2, <2>4, <2>5, <2>8 DEF StoreInv, t
<1> QED
  BY <1>5, <1>6

(* The stores that have the invariant, as a set.                           *)
Stores ==
    {t \in [first : Nat, currentFirst : Nat, last : Nat, summarized : Nat, current : SUBSET Nat,
            archived : UNION {[D -> Seq(Nat)] : D \in SUBSET Nat}] : StoreInv(t)}

(* They are all there.                                                     *)
LEMMA StoreInStores ==
  ASSUME NEW s, StoreInv(s)
  PROVE  s \in Stores
<1>1. /\ s.first \in Nat \ {0} /\ s.currentFirst \in Nat \ {0} /\ s.last \in Nat
      /\ s.summarized \in Nat
  BY StoreNats
<1>2. s.current \in SUBSET Nat
  BY <1>1 DEF StoreInv, StoreMaps
<1>3. DOMAIN s.archived \in SUBSET Nat
  BY <1>1 DEF StoreInv, StoreMaps
<1>4. \A key \in DOMAIN s.archived : s.archived[key] \in Seq(Nat)
  <2> TAKE key \in DOMAIN s.archived
  <2>1. s.archived[key] = Chunk(key) /\ key \in Nat
    BY <1>3 DEF StoreInv, StoreMaps
  <2>2. ChunkSize \in Nat /\ \A i \in 1..ChunkSize : key + i - 1 \in Nat
    BY <2>1, ChunkAssumption
  <2>3. [i \in 1..ChunkSize |-> key + i - 1] \in Seq(Nat)
    BY <2>2, IsASeq
  <2> QED BY <2>1, <2>3 DEF Chunk
<1>5. s.archived \in [DOMAIN s.archived -> Seq(Nat)]
  BY <1>4 DEF StoreInv, StoreMaps
<1>6. s.archived \in UNION {[D -> Seq(Nat)] : D \in SUBSET Nat}
  BY <1>3, <1>5
<1> QED
  BY <1>1, <1>2, <1>6 DEF Stores, StoreInv, StoreShape

(* appendMessage called n times does what Appended says.                   *)
LEMMA AppendLoop ==
  ASSUME NEW s, StoreInv(s), NEW n \in Nat
  PROVE  AppendMessages(s, n) = Appended(s, n)
<1> DEFINE appended == CHOOSE f : f = [i \in 0..n |-> IF i = 0 THEN s ELSE AppendMessage(f[i - 1])]
           P == {i \in 0..n : /\ StoreInv(appended[i]) /\ appended[i].last = s.last + i
                              /\ appended[i].first = s.first
                              /\ appended[i].summarized = s.summarized}
<1>1. s.last \in Nat
  BY StoreNats
<1>2. \A t \in Stores : AppendMessage(t) \in Stores
  BY OneAppended, StoreInStores DEF Stores
<1>3. \E f : f = [i \in 0..n |-> IF i = 0 THEN s ELSE AppendMessage(f[i - 1])]
  <2> DEFINE g == [i \in 1..n |-> [t \in Stores |-> AppendMessage(t)]]
  <2>1. g \in [1..n -> [Stores -> Stores]]
    BY <1>2
  <2>2. \A i \in 1..n : \A t \in Stores : g[i][t] = AppendMessage(t)
    OBVIOUS
  <2>3. s \in Stores
    BY StoreInStores
  <2> HIDE DEF g
  <2>4. HasIterates(Stores, s, n, g)
    BY <2>1, <2>3, IteratesExist
  <2>5. PICK f \in [0..n -> Stores] : f[0] = s /\ \A i \in 1..n : f[i] = g[i][f[i - 1]]
    BY <2>4 DEF HasIterates
  <2>6. \A i \in 0..n : f[i] = IF i = 0 THEN s ELSE AppendMessage(f[i - 1])
    <3> TAKE i \in 0..n
    <3>1. CASE i = 0
      BY <2>5, <3>1
    <3>2. CASE i # 0
      <4>1. i \in 1..n /\ i - 1 \in 0..n
        BY <3>2
      <4> QED BY <2>2, <2>5, <3>2, <4>1
    <3> QED BY <3>1, <3>2
  <2> QED BY <2>5, <2>6
<1>4. appended = [i \in 0..n |-> IF i = 0 THEN s ELSE AppendMessage(appended[i - 1])]
  BY <1>3
<1> HIDE DEF appended
<1>5. 0 \in P
  <2>1. appended[0] = s /\ s.last = s.last + 0
    BY <1>1, <1>4
  <2> QED BY <2>1
<1>6. \A i \in 1..n : i - 1 \in P => i \in P
  <2> SUFFICES ASSUME NEW i \in 1..n, i - 1 \in P
               PROVE  i \in P
    OBVIOUS
  <2>1. appended[i] = AppendMessage(appended[i - 1]) /\ i \in 0..n
    BY <1>4
  <2> HIDE DEF P
  <2>2. /\ StoreInv(appended[i - 1]) /\ appended[i - 1].last = s.last + (i - 1)
        /\ appended[i - 1].first = s.first /\ appended[i - 1].summarized = s.summarized
    BY DEF P
  <2>3. s.last + (i - 1) + 1 = s.last + i
    BY <1>1
  <2>4. /\ StoreInv(appended[i]) /\ appended[i].last = s.last + i
        /\ appended[i].first = s.first /\ appended[i].summarized = s.summarized
    BY <2>1, <2>2, <2>3, OneAppended
  <2> QED BY <2>1, <2>4 DEF P
<1> HIDE DEF P
<1>7. n \in P
  BY <1>5, <1>6, UpTo
<1>8. /\ StoreInv(appended[n]) /\ appended[n].last = s.last + n
      /\ appended[n].first = s.first /\ appended[n].summarized = s.summarized
  BY <1>7 DEF P
<1>9. appended[n] = Appended(s, n)
  BY <1>8, AppendedStore, StoreIsKnown
<1> QED
  BY <1>9 DEF appended, AppendMessages

(* trimSummarizedMessages deletes the chunk that begins at `first' as long *)
(* as that is at most this number, which no iteration changes.             *)
TrimBound(s) ==
    Min({s.currentFirst - 1, s.last - RetentionLimit, s.summarized - ChunkSize + 1})

(* It is the condition of the loop.                                        *)
LEMMA TrimCondition ==
  ASSUME NEW s, StoreInv(s)
  PROVE  TrimBound(s) \in Int /\ (MustTrim(s) <=> s.first <= TrimBound(s))
<1> DEFINE bounds == {s.currentFirst - 1, s.last - RetentionLimit, s.summarized - ChunkSize + 1}
           bound == TrimBound(s)
<1>1. /\ s.first \in Nat /\ s.currentFirst \in Nat /\ s.last \in Nat /\ s.summarized \in Nat
  BY StoreNats
<1>2. bounds \subseteq Int /\ \E x \in bounds : \A y \in bounds : x <= y
  BY <1>1, ChunkAssumption, RetentionAssumption
<1>3. bound \in bounds /\ \A y \in bounds : bound <= y
  BY <1>2, MinOf DEF TrimBound
<1>4. bound \in Int
  BY <1>2, <1>3
<1>5. /\ bound <= s.currentFirst - 1 /\ bound <= s.last - RetentionLimit
      /\ bound <= s.summarized - ChunkSize + 1
      /\ \/ bound = s.currentFirst - 1 \/ bound = s.last - RetentionLimit
         \/ bound = s.summarized - ChunkSize + 1
  BY <1>3
<1> HIDE DEF bound
<1> QED
  BY <1>1, <1>4, <1>5, ChunkAssumption, RetentionAssumption DEF MustTrim, bound

(* Where the formula ends: at the first start past the bound.              *)
EndsAt(s, first) ==
    /\ IsStart(first) /\ first \in Nat /\ first >= s.first /\ ~(first <= TrimBound(s))
    /\ first = s.first \/ first - ChunkSize <= TrimBound(s)

(* There is one such start.                                                *)
LEMMA EndIsKnown ==
  ASSUME NEW s, StoreInv(s), NEW m, NEW n, EndsAt(s, m), EndsAt(s, n)
  PROVE  m <= n
<1>1. PICK i \in Nat : m = Start(i)
  BY DEF EndsAt, IsStart
<1>2. PICK j \in Nat : n = Start(j)
  BY DEF EndsAt, IsStart
<1>3. m \in Nat /\ n \in Nat /\ s.first \in Nat /\ TrimBound(s) \in Int
  BY TrimCondition, StoreNats DEF EndsAt
<1>4. SUFFICES ASSUME n < m
               PROVE  FALSE
  BY <1>3
<1>5. n + ChunkSize <= m
  BY <1>1, <1>2, <1>4, StartGap
<1>6. n >= s.first /\ ~(n <= TrimBound(s)) /\ (m = s.first \/ m - ChunkSize <= TrimBound(s))
  BY DEF EndsAt
<1> QED
  BY <1>3, <1>4, <1>5, <1>6, ChunkAssumption

(* Trimmed ends there.                                                     *)
LEMMA TrimmedEnds ==
  ASSUME NEW s, StoreInv(s)
  PROVE  EndsAt(s, Trimmed(s).first)
<1> DEFINE bound == TrimBound(s)
           new == s.first + Trimmable(s)
<1>1. bound \in Int /\ s.first \in Nat
  BY TrimCondition, StoreNats
<1>2. Trimmed(s).first = new
  BY DEF Trimmed, StoreInv, StoreShape
<1>3. Trimmable(s) \in Nat /\ IsStart(new)
  BY TrimmableChunks
<1>4. Trimmable(s) = IF bound < s.first THEN 0
                     ELSE ((bound - s.first) \div ChunkSize + 1) * ChunkSize
  BY DEF Trimmable, TrimBound
<1> HIDE DEF bound
<1>5. ~(new <= bound) /\ (new = s.first \/ new - ChunkSize <= bound)
  <2>1. CASE bound < s.first
    BY <1>1, <1>4, <2>1
  <2>2. CASE ~(bound < s.first)
    <3>1. bound - s.first \in Nat
      BY <1>1, <2>2
    <3>2. PICK q \in Nat, r \in 0..(ChunkSize - 1) :
              /\ q = (bound - s.first) \div ChunkSize
              /\ q * ChunkSize \in Nat
              /\ bound - s.first = q * ChunkSize + r
      BY <3>1, Division
    <3>3. Trimmable(s) = (q + 1) * ChunkSize /\ (q + 1) * ChunkSize = q * ChunkSize + ChunkSize
      BY <1>4, <2>2, <3>2, ChunkAssumption
    <3>4. PICK m \in Nat : m = q * ChunkSize
      BY <3>2
    <3>5. Trimmable(s) = m + ChunkSize /\ bound - s.first = m + r
      BY <3>2, <3>3, <3>4
    <3> QED BY <1>1, <3>5, ChunkAssumption
  <2> QED BY <2>1, <2>2
<1> HIDE DEF new
<1>6. new \in Nat /\ new >= s.first
  BY <1>1, <1>3 DEF new
<1> QED
  BY <1>2, <1>3, <1>5, <1>6 DEF EndsAt, bound, new

(* One iteration.                                                          *)
LEMMA OneTrimmed ==
  ASSUME NEW s, StoreInv(s)
  PROVE  /\ StoreInv(TrimOldest(s))
         /\ TrimOldest(s).last = s.last /\ TrimOldest(s).summarized = s.summarized
         /\ TrimOldest(s).currentFirst = s.currentFirst
         /\ MustTrim(s) => TrimOldest(s).first = s.first + ChunkSize
         /\ ~MustTrim(s) => TrimOldest(s) = s
<1>1. CASE ~MustTrim(s)
  BY <1>1 DEF TrimOldest
<1>2. CASE MustTrim(s)
  <2> DEFINE t == TrimOldest(s)
             new == s.first + ChunkSize
  <2>1. t = [s EXCEPT !.archived = [key \in DOMAIN s.archived \ {s.first} |-> s.archived[key]],
                      !.first = new]
    BY <1>2 DEF TrimOldest, StoreInv, StoreShape
  <2> HIDE DEF t, new
  <2>2. /\ t.first = new /\ t.currentFirst = s.currentFirst /\ t.last = s.last
        /\ t.summarized = s.summarized /\ t.current = s.current
        /\ DOMAIN t.archived = DOMAIN s.archived \ {s.first}
        /\ t.archived = [key \in DOMAIN t.archived |-> t.archived[key]]
        /\ \A key \in DOMAIN t.archived : t.archived[key] = s.archived[key]
        /\ t = [first |-> t.first, currentFirst |-> t.currentFirst, last |-> t.last,
                summarized |-> t.summarized, current |-> t.current, archived |-> t.archived]
    BY <2>1 DEF StoreInv, StoreShape
  <2>3. /\ s.first \in Nat \ {0} /\ s.currentFirst \in Nat \ {0} /\ s.last \in Nat
        /\ s.summarized \in Nat
    BY StoreNats
  <2>4. s.first < s.currentFirst /\ new <= s.summarized + 1
    BY <1>2, <2>3, ChunkAssumption DEF MustTrim, new
  <2>5. PICK i \in Nat : s.first = Start(i)
    BY DEF StoreInv, StoreBounds, IsStart
  <2>6. IsStart(new) /\ new \in Nat
    <3>1. s.first + 1 * ChunkSize = new
      BY <2>3, ChunkAssumption DEF new
    <3> QED BY <3>1, StartPlus DEF StoreInv, StoreBounds
  <2>7. new <= s.currentFirst
    <3>1. PICK j \in Nat : s.currentFirst = Start(j)
      BY DEF StoreInv, StoreBounds, IsStart
    <3> QED BY <2>4, <2>5, <3>1, StartGap DEF new
  <2>8. StoreShape(t)
    BY <2>2, <2>3, <2>6 DEF StoreShape
  <2>9. StoreBounds(t)
    BY <2>2, <2>4, <2>6, <2>7 DEF StoreInv, StoreBounds
  <2>10. DOMAIN t.archived = {key \in new..(s.currentFirst - 1) : IsStart(key)}
    <3>1. DOMAIN s.archived = {key \in s.first..(s.currentFirst - 1) : IsStart(key)}
      BY DEF StoreInv, StoreMaps
    <3>2. ASSUME NEW key \in s.first..(s.currentFirst - 1), IsStart(key), key # s.first
          PROVE  new <= key
      <4>1. PICK k \in Nat : key = Start(k)
        BY <3>2 DEF IsStart
      <4>2. Start(i) < Start(k)
        BY <2>3, <2>5, <3>2, <4>1
      <4> QED BY <2>5, <4>1, <4>2, StartGap DEF new
    <3>3. new > s.first
      BY <2>3, ChunkAssumption DEF new
    <3>4. \A key : key \in DOMAIN t.archived <=>
             key \in s.first..(s.currentFirst - 1) /\ IsStart(key) /\ key # s.first
      BY <2>2, <3>1
    <3>5. \A key : key \in new..(s.currentFirst - 1) =>
             key \in s.first..(s.currentFirst - 1) /\ key # s.first
      BY <2>3, <2>6, <3>3
    <3>6. \A key \in s.first..(s.currentFirst - 1) : new <= key => key \in new..(s.currentFirst - 1)
      BY <2>3, <2>6
    <3> QED BY <3>2, <3>4, <3>5, <3>6
  <2>11. StoreMaps(t)
    BY <2>2, <2>10 DEF StoreInv, StoreMaps
  <2> QED
    BY <1>2, <2>2, <2>8, <2>9, <2>11 DEF StoreInv, t, new
<1> QED
  BY <1>1, <1>2

(* The loop of trimSummarizedMessages does what Trimmed says.  An          *)
(* iteration that deletes nothing is the last, and one that does leaves    *)
(* fewer chunks, of which there are not more than messages.                *)
LEMMA TrimLoop ==
  ASSUME NEW s, StoreInv(s)
  PROVE  TrimSummarizedMessages(s) = Trimmed(s)
<1> DEFINE n == s.last
           trimmed == CHOOSE f : f = [i \in 0..n |-> IF i = 0 THEN s ELSE TrimOldest(f[i - 1])]
           Reached(t, i) ==
               /\ StoreInv(t) /\ t.last = s.last /\ t.summarized = s.summarized
               /\ t.currentFirst = s.currentFirst /\ t.first >= s.first
               /\ t.first = s.first \/ t.first - ChunkSize <= TrimBound(s)
               /\ MustTrim(t) => t.first >= s.first + i
           P == {i \in 0..n : Reached(trimmed[i], i)}
<1>1. n \in Nat /\ s.first \in Nat \ {0}
  BY StoreNats
<1>2. \A t \in Stores : TrimOldest(t) \in Stores
  BY OneTrimmed, StoreInStores DEF Stores
<1>3. \E f : f = [i \in 0..n |-> IF i = 0 THEN s ELSE TrimOldest(f[i - 1])]
  <2> DEFINE g == [i \in 1..n |-> [t \in Stores |-> TrimOldest(t)]]
  <2>1. g \in [1..n -> [Stores -> Stores]]
    BY <1>2
  <2>2. \A i \in 1..n : \A t \in Stores : g[i][t] = TrimOldest(t)
    OBVIOUS
  <2>3. s \in Stores
    BY StoreInStores
  <2> HIDE DEF g, n
  <2>4. HasIterates(Stores, s, n, g)
    BY <1>1, <2>1, <2>3, IteratesExist
  <2>5. PICK f \in [0..n -> Stores] : f[0] = s /\ \A i \in 1..n : f[i] = g[i][f[i - 1]]
    BY <2>4 DEF HasIterates
  <2>6. \A i \in 0..n : f[i] = IF i = 0 THEN s ELSE TrimOldest(f[i - 1])
    <3> TAKE i \in 0..n
    <3>1. CASE i = 0
      BY <2>5, <3>1
    <3>2. CASE i # 0
      <4>1. i \in 1..n /\ i - 1 \in 0..n
        BY <1>1, <3>2
      <4> QED BY <2>2, <2>5, <3>2, <4>1
    <3> QED BY <3>1, <3>2
  <2> QED BY <2>5, <2>6
<1>4. trimmed = [i \in 0..n |-> IF i = 0 THEN s ELSE TrimOldest(trimmed[i - 1])]
  BY <1>3
<1> HIDE DEF trimmed
<1>5. 0 \in P
  <2>1. trimmed[0] = s /\ 0 \in 0..n
    BY <1>1, <1>4
  <2>2. Reached(s, 0)
    BY <1>1
  <2> QED BY <2>1, <2>2
<1>6. \A i \in 1..n : i - 1 \in P => i \in P
  <2> SUFFICES ASSUME NEW i \in 1..n, i - 1 \in P
               PROVE  i \in P
    OBVIOUS
  <2> DEFINE t == trimmed[i - 1]
  <2>1. trimmed[i] = TrimOldest(t) /\ i \in 0..n
    BY <1>1, <1>4
  <2>2. Reached(t, i - 1)
    OBVIOUS
  <2> HIDE DEF t, P
  <2>3. StoreInv(t) /\ t.first \in Nat /\ i \in Nat
    BY <1>1, <2>2, StoreNats
  <2>4. CASE ~MustTrim(t)
    <3>1. TrimOldest(t) = t
      BY <2>3, <2>4, OneTrimmed
    <3> QED BY <2>1, <2>2, <2>4, <3>1 DEF P
  <2>5. CASE MustTrim(t)
    <3>1. /\ StoreInv(TrimOldest(t)) /\ TrimOldest(t).first = t.first + ChunkSize
          /\ TrimOldest(t).last = s.last /\ TrimOldest(t).summarized = s.summarized
          /\ TrimOldest(t).currentFirst = s.currentFirst
      BY <2>2, <2>3, <2>5, OneTrimmed
    <3>2. t.first >= s.first + (i - 1) /\ t.first >= s.first
      BY <2>2, <2>5
    <3>3. t.first <= TrimBound(s)
      <4>1. TrimBound(t) = TrimBound(s)
        BY <2>2 DEF TrimBound
      <4> QED BY <2>3, <2>5, <4>1, TrimCondition
    <3>4. /\ t.first + ChunkSize >= s.first + i /\ t.first + ChunkSize >= s.first
          /\ (t.first + ChunkSize) - ChunkSize = t.first
      BY <1>1, <2>3, <3>2, ChunkAssumption
    <3> QED BY <2>1, <3>1, <3>3, <3>4 DEF P
  <2> QED BY <2>4, <2>5
<1> DEFINE t == trimmed[n]
<1>7. Reached(t, n)
  <2> HIDE DEF P
  <2>1. n \in P
    BY <1>1, <1>5, <1>6, UpTo
  <2> QED BY <2>1 DEF P
<1> HIDE DEF t
<1>8. StoreInv(t) /\ t.first \in Nat /\ s.currentFirst \in Nat /\ s.currentFirst <= s.last + 1
  BY <1>7, StoreNats DEF StoreInv, StoreBounds
<1>9. ~MustTrim(t)
  BY <1>1, <1>7, <1>8 DEF MustTrim
<1>10. EndsAt(s, t.first)
  <2>1. TrimBound(t) = TrimBound(s)
    BY <1>7 DEF TrimBound
  <2>2. ~(t.first <= TrimBound(s)) /\ IsStart(t.first)
    BY <1>8, <1>9, <2>1, TrimCondition DEF StoreInv, StoreBounds
  <2> QED BY <1>7, <1>8, <2>2 DEF EndsAt
<1>11. t.first = Trimmed(s).first
  <2>1. EndsAt(s, Trimmed(s).first)
    BY TrimmedEnds
  <2> DEFINE new == Trimmed(s).first
  <2>2. new \in Nat
    BY <2>1 DEF EndsAt
  <2> HIDE DEF new
  <2>3. EndsAt(s, new)
    BY <2>1 DEF new
  <2>4. t.first <= new /\ new <= t.first
    BY <1>10, <2>3, EndIsKnown
  <2>5. t.first = new
    BY <1>8, <2>2, <2>4
  <2> QED BY <2>5 DEF new
<1>12. t = Trimmed(s)
  BY <1>7, <1>8, <1>11, TrimmedStore, StoreIsKnown
<1> QED
  BY <1>12 DEF t, trimmed, TrimSummarizedMessages

(* Whatever the store holds and however many messages a Step appends, the  *)
(* formulas of the model are what appendMessage (flow.go:1253) and         *)
(* trimSummarizedMessages (flow.go:1599) compute.                          *)
THEOREM FormulasAreTheLoops == Spec => []LoopsAgree
<1>1. FlowInv => LoopsAgree
  <2> SUFFICES ASSUME FlowInv
               PROVE  LoopsAgree
    OBVIOUS
  <2>1. StoreInv(store) /\ store.summarized \in Nat /\ store.last \in Nat
    BY StoreNats DEF FlowInv
  <2>2. \A n \in 0..(3 * ChunkSize) : Appended(store, n) = AppendMessages(store, n)
    BY <2>1, AppendLoop, ChunkAssumption
  <2>3. ASSUME NEW end \in store.summarized..store.last
        PROVE  LET s == [store EXCEPT !.summarized = end]
               IN  Trimmed(s) = TrimSummarizedMessages(s)
    <3> DEFINE s == [store EXCEPT !.summarized = end]
    <3>1. StoreInv(s)
      BY <2>1, SummarizedStore
    <3> HIDE DEF s
    <3>2. Trimmed(s) = TrimSummarizedMessages(s)
      BY <3>1, TrimLoop
    <3> QED BY <3>2 DEF s
  <2> QED BY <2>2, <2>3 DEF LoopsAgree
<1> QED
  BY <1>1, FlowInvariant, PTL
=============================================================================
