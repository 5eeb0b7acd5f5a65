----------------------------- MODULE Iteration -----------------------------
(***************************************************************************)
(* What a loop written as a recursive function computes.  The function of  *)
(* a definition f[i \in 0..n] == ... is chosen to satisfy its equation, so *)
(* that there is one has to be shown before anything follows from it.      *)
(***************************************************************************)
EXTENDS Integers, Sequences, WellFoundedInduction, TLAPS

(* A nonempty set of naturals has a least element: the induction of every  *)
(* proof about a loop, which looks at the first step where it would fail.  *)
LEMMA HasLeast ==
  ASSUME NEW S \in SUBSET Nat, S # {}
  PROVE  \E x \in S : \A y \in S : x <= y
<1>1. \E x \in S : \A y \in S : ~(<<y, x>> \in OpToRel(<, Nat))
  BY NatLessThanWellFounded, WFMin
<1>2. PICK x \in S : \A y \in S : ~(<<y, x>> \in OpToRel(<, Nat))
  BY <1>1
<1>3. ASSUME NEW y \in S
      PROVE  x <= y
  <2>1. ~(<<y, x>> \in OpToRel(<, Nat))
    BY <1>2
  <2>2. <<y, x>> \in Nat \X Nat
    OBVIOUS
  <2>3. ~(y < x)
    BY <2>1, <2>2 DEF OpToRel
  <2> QED
    BY <2>3
<1> QED
  BY <1>3

(* Induction up to n, over a set.                                          *)
LEMMA UpTo ==
  ASSUME NEW n \in Nat, NEW P, 0 \in P, \A i \in 1..n : i - 1 \in P => i \in P
  PROVE  \A i \in 0..n : i \in P
<1> DEFINE Bad == {i \in 0..n : i \notin P}
<1>1. SUFFICES ASSUME Bad # {}
               PROVE  FALSE
  OBVIOUS
<1>2. PICK i \in Bad : \A j \in Bad : i <= j
  <2>1. Bad \in SUBSET Nat
    OBVIOUS
  <2> HIDE DEF Bad
  <2> QED BY <1>1, <2>1, HasLeast
<1>3. i \in 1..n /\ i - 1 \in 0..n /\ ~(i <= i - 1)
  BY <1>2
<1>4. i - 1 \in P
  BY <1>2, <1>3
<1> QED
  BY <1>2, <1>3, <1>4

(* A value stepped n times.                                                *)
HasIterates(S, base, n, g) ==
    \E f \in [0..n -> S] : f[0] = base /\ \A i \in 1..n : f[i] = g[i][f[i - 1]]

(* There is one, for any base and any steps that stay in the set.          *)
LEMMA IteratesExist ==
  ASSUME NEW S, NEW base \in S, NEW n \in Nat, NEW g \in [1..n -> [S -> S]]
  PROVE  HasIterates(S, base, n, g)
<1> DEFINE Begun(m, f) == f[0] = base /\ \A i \in 1..m : f[i] = g[i][f[i - 1]]
           P == {m \in 0..n : \E f \in [0..m -> S] : Begun(m, f)}
<1>1. 0 \in P
  <2> DEFINE h == [i \in 0..0 |-> base]
  <2>1. h \in [0..0 -> S] /\ h[0] = base /\ 0 \in 0..n /\ 1..0 = {}
    OBVIOUS
  <2> HIDE DEF h
  <2> QED BY <2>1
<1>2. ASSUME NEW m \in 1..n, m - 1 \in P
      PROVE  m \in P
  <2>1. PICK f \in [0..(m - 1) -> S] : Begun(m - 1, f)
    BY <1>2
  <2> DEFINE h == [i \in 0..m |-> IF i = m THEN g[m][f[m - 1]] ELSE f[i]]
  <2>2. h \in [0..m -> S]
    <3>1. g[m] \in [S -> S] /\ f[m - 1] \in S
      OBVIOUS
    <3> QED BY <3>1
  <2>3. h[0] = base
    BY <2>1
  <2>4. ASSUME NEW i \in 1..m
        PROVE  h[i] = g[i][h[i - 1]]
    <3>1. h[i - 1] = f[i - 1]
      OBVIOUS
    <3>2. CASE i = m
      BY <3>1, <3>2
    <3>3. CASE i # m
      <4>1. i \in 1..(m - 1) /\ h[i] = f[i]
        BY <3>3
      <4> QED BY <2>1, <3>1, <4>1
    <3> QED BY <3>2, <3>3
  <2> HIDE DEF h
  <2>5. m \in 0..n
    OBVIOUS
  <2> QED BY <2>2, <2>3, <2>4, <2>5
<1> HIDE DEF P
<1>3. \A m \in 1..n : m - 1 \in P => m \in P
  BY <1>2
<1>4. \A m \in 0..n : m \in P
  BY <1>1, <1>3, UpTo
<1>5. n \in P
  BY <1>4
<1> QED
  BY <1>5 DEF P, HasIterates

-----------------------------------------------------------------------------
(* A loop over the elements of a sequence: each value is made of the one   *)
(* before it and the element there.                                        *)
IsRun(r, S, base, g, s) ==
    /\ r \in [0..Len(s) -> S] /\ r[0] = base
    /\ \A i \in 1..Len(s) : r[i] = g[r[i - 1]][s[i]]

(* There is one over every sequence.                                       *)
LEMMA RunExists ==
  ASSUME NEW S, NEW A, NEW base \in S, NEW g \in [S -> [A -> S]], NEW s \in Seq(A)
  PROVE  \E r : IsRun(r, S, base, g, s)
<1> DEFINE n == Len(s)
           step == [i \in 1..n |-> [x \in S |-> g[x][s[i]]]]
<1>1. n \in Nat /\ \A i \in 1..n : s[i] \in A
  OBVIOUS
<1>2. step \in [1..n -> [S -> S]] /\ \A i \in 1..n : \A x \in S : step[i][x] = g[x][s[i]]
  <2> HIDE DEF n
  <2>1. \A i \in 1..n : \A x \in S : g[x][s[i]] \in S
    BY <1>1
  <2> QED BY <2>1
<1> HIDE DEF n, step
<1>3. HasIterates(S, base, n, step)
  BY <1>1, <1>2, IteratesExist
<1>4. PICK r \in [0..n -> S] : r[0] = base /\ \A i \in 1..n : r[i] = step[i][r[i - 1]]
  BY <1>3 DEF HasIterates
<1>5. ASSUME NEW i \in 1..n
      PROVE  r[i] = g[r[i - 1]][s[i]]
  <2>1. r[i - 1] \in S
    BY <1>1
  <2> QED BY <1>2, <1>4, <2>1
<1> QED
  BY <1>4, <1>5 DEF IsRun, n

(* What satisfies its equation is a run.                                   *)
LEMMA StepsAreRun ==
  ASSUME NEW S, NEW A, NEW base \in S, NEW g \in [S -> [A -> S]], NEW s \in Seq(A),
         NEW r, r = [i \in 0..Len(s) |-> r[i]], r[0] = base,
         \A i \in 1..Len(s) : r[i - 1] \in S => r[i] = g[r[i - 1]][s[i]]
  PROVE  IsRun(r, S, base, g, s)
<1> DEFINE n == Len(s)
           P == {i \in 0..n : r[i] \in S}
<1>1. n \in Nat /\ \A i \in 1..n : s[i] \in A
  OBVIOUS
<1>2. 0 \in P
  BY <1>1
<1>3. \A i \in 1..n : i - 1 \in P => i \in P
  <2> TAKE i \in 1..n
  <2> HAVE i - 1 \in P
  <2>1. r[i - 1] \in S /\ s[i] \in A
    BY <1>1
  <2>2. r[i] = g[r[i - 1]][s[i]]
    <3>1. r[i - 1] \in S
      OBVIOUS
    <3> QED BY <3>1, Zenon
  <2>3. i \in 0..n
    BY <1>1
  <2>4. g[r[i - 1]][s[i]] \in S
    BY <2>1
  <2>5. r[i] \in S
    BY <2>2, <2>4
  <2> QED BY <2>5, <2>3
<1> HIDE DEF P
<1>4. \A i \in 0..n : i \in P
  BY <1>1, <1>2, <1>3, UpTo
<1>5. \A i \in 0..n : r[i] \in S
  BY <1>4 DEF P
<1>6. \A i \in 1..n : i - 1 \in 0..n
  BY <1>1
<1>7. r \in [0..n -> S]
  BY <1>5
<1> QED
  BY <1>5, <1>6, <1>7 DEF IsRun

(* One more element is one more step.                                      *)
IsLonger(t, s) ==
    Len(s) \in Nat /\ Len(t) = Len(s) + 1 /\ \A i \in 1..Len(s) : t[i] = s[i]

(* The last value over the longer sequence is one step from the last over  *)
(* the shorter.                                                            *)
LEMMA RunOfLonger ==
  ASSUME NEW S, NEW base, NEW g, NEW s, NEW t, NEW r, NEW q,
         IsRun(r, S, base, g, s), IsRun(q, S, base, g, t), IsLonger(t, s)
  PROVE  q[Len(t)] = g[r[Len(s)]][t[Len(t)]]
<1> DEFINE n == Len(s)
           P == {i \in 0..n : q[i] = r[i]}
<1>1. n \in Nat /\ Len(t) = n + 1 /\ \A i \in 1..n : t[i] = s[i]
  BY DEF IsLonger
<1> HIDE DEF n
<1>2. 0 \in P
  BY <1>1 DEF IsRun
<1>3. \A i \in 1..n : i - 1 \in P => i \in P
  <2> TAKE i \in 1..n
  <2> HAVE i - 1 \in P
  <2>1. i \in 1..Len(s) /\ i \in 1..Len(t) /\ i \in 0..n
    BY <1>1 DEF n
  <2>2. r[i] = g[r[i - 1]][s[i]] /\ q[i] = g[q[i - 1]][t[i]]
    BY <2>1 DEF IsRun
  <2> QED BY <1>1, <2>1, <2>2
<1> HIDE DEF P
<1>4. n \in P
  <2>1. \A i \in 0..n : i \in P
    BY <1>1, <1>2, <1>3, UpTo
  <2> QED BY <1>1, <2>1
<1>5. q[n] = r[n]
  BY <1>4 DEF P
<1>6. n + 1 \in 1..Len(t)
  BY <1>1
<1>7. q[n + 1] = g[q[(n + 1) - 1]][t[n + 1]]
  BY <1>6 DEF IsRun
<1>8. (n + 1) - 1 = n
  BY <1>1
<1> QED
  BY <1>1, <1>5, <1>7, <1>8 DEF n

(* The loop over nothing.                                                  *)
LEMMA RunOfNothing ==
  ASSUME NEW S, NEW base, NEW g, NEW r, IsRun(r, S, base, g, <<>>)
  PROVE  r[Len(<<>>)] = base
BY DEF IsRun
=============================================================================
