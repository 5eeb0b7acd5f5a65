---------------------------- MODULE MessageLoops ----------------------------
(***************************************************************************)
(* The loops of appendMessage and trimSummarizedMessages one iteration at  *)
(* a time, and that MessageHistory's formulas compute what they compute.   *)
(***************************************************************************)
EXTENDS MessageHistory

Mutant_ArchivesBeforeTheLimit(s) ==
    IF s.last - s.currentFirst + 1 < CurrentMessageLimit - 1 THEN s
    ELSE LET first == s.currentFirst
             chunk == first..(first + ChunkSize - 1)
         IN  [s EXCEPT !.archived = [key \in DOMAIN @ \cup {first} |->
                                        IF key = first THEN Chunk(first) ELSE @[key]],
                       !.current = @ \ chunk,
                       !.currentFirst = first + ChunkSize]
ArchiveCurrentMessages(s) ==
    IF s.last - s.currentFirst + 1 < CurrentMessageLimit THEN s
    ELSE LET first == s.currentFirst
             chunk == first..(first + ChunkSize - 1)
         IN  [s EXCEPT !.archived = [key \in DOMAIN @ \cup {first} |->
                                        IF key = first THEN Chunk(first) ELSE @[key]],
                       !.current = @ \ chunk,
                       !.currentFirst = first + ChunkSize]

AppendMessage(s) ==
    ArchiveCurrentMessages([s EXCEPT !.last = @ + 1, !.current = @ \cup {s.last + 1}])

AppendMessages(s, n) ==
    LET appended[i \in 0..n] == IF i = 0 THEN s ELSE AppendMessage(appended[i - 1])
    IN  appended[n]

MustTrim(s) ==
    /\ s.last - s.first + 1 > RetentionLimit
    /\ s.first < s.currentFirst
    /\ s.first + ChunkSize - 1 <= s.summarized
TrimOldest(s) ==
    IF MustTrim(s)
    THEN [s EXCEPT !.archived = [key \in DOMAIN @ \ {s.first} |-> @[key]],
                   !.first = @ + ChunkSize]
    ELSE s

(* The loop ends: no chunk is left once there were as many iterations as   *)
(* there are messages.                                                     *)
TrimSummarizedMessages(s) ==
    LET trimmed[i \in 0..s.last] == IF i = 0 THEN s ELSE TrimOldest(trimmed[i - 1])
    IN  trimmed[s.last]

(* Appending any number of messages in one Step, and trimming after any    *)
(* summary, does to the store what the loops of the code do.               *)
LoopsAgree ==
    /\ \A n \in 0..(3 * ChunkSize) : Appended(store, n) = AppendMessages(store, n)
    /\ \A end \in store.summarized..store.last :
           LET s == [store EXCEPT !.summarized = end]
           IN  Trimmed(s) = TrimSummarizedMessages(s)
=============================================================================
