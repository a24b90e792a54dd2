---------------------------- MODULE RecursionLemmas ----------------------------
(***************************************************************************)
(* Induction over the natural numbers and functions defined by recursion,  *)
(* stated with sets: the values an induction is about are collected in a   *)
(* set, and the steps of a recursion are a function.                       *)
(***************************************************************************)
EXTENDS Integers, WellFoundedInduction, TLAPS

LEMMA Least ==
  ASSUME NEW S \in SUBSET Nat, S # {}
  PROVE  \E n \in S : \A m \in S : n <= m
<1> DEFINE R == {p \in Nat \X Nat : p[1] < p[2]}
<1>1. IsWellFoundedOn(R, Nat)
  BY NatLessThanWellFounded DEF OpToRel
<1>2. PICK n \in S : \A m \in S : ~(<<m, n>> \in R)
  <2> HIDE DEF R
  <2> QED BY <1>1, WFMin
<1>3. \A m \in S : ~(m < n)
  <2> TAKE m \in S
  <2>1. <<m, n>> \in Nat \X Nat /\ <<m, n>>[1] = m /\ <<m, n>>[2] = n
    OBVIOUS
  <2> QED BY <1>2, <2>1
<1> QED BY <1>3

LEMMA Induction ==
  ASSUME NEW N \in Nat, NEW S, 0 \in S, \A n \in 0..(N - 1) : n \in S => n + 1 \in S
  PROVE  \A n \in 0..N : n \in S
<1> DEFINE T == (0..N) \ S
<1>1. SUFFICES ASSUME T # {} PROVE FALSE
  OBVIOUS
<1>2. PICK n \in T : \A m \in T : n <= m
  <2>1. T \in SUBSET Nat
    OBVIOUS
  <2> HIDE DEF T
  <2> QED BY <1>1, <2>1, Least
<1>3. n # 0 /\ n - 1 \in 0..(N - 1) /\ n - 1 \notin T
  BY <1>2
<1> QED BY <1>2, <1>3

\* A function on 0..N is given by its first value and by the step to each further one.
Steps(N, T) == [1..N -> [T -> T]]
Follows(g, N, T, first, step) ==
  /\ g \in [0..N -> T] /\ g[0] = first
  /\ \A n \in 1..N : g[n - 1] \in T /\ g[n] = step[n][g[n - 1]]
  /\ g = [n \in 0..N |-> IF n = 0 THEN first ELSE step[n][g[n - 1]]]

LEMMA Recursion ==
  ASSUME NEW N \in Nat, NEW T, NEW first \in T, NEW step \in Steps(N, T)
  PROVE  \E g : Follows(g, N, T, first, step)
<1> USE DEF Steps
<1> DEFINE Good(n, g) == g[0] = first /\ \A m \in 1..n : g[m] = step[m][g[m - 1]]
           S == {n \in 0..N : \E g \in [0..n -> T] : Good(n, g)}
<1>1. 0 \in S
  <2> DEFINE h == [n \in 0..0 |-> first]
  <2>1. h \in [0..0 -> T] /\ Good(0, h)
    OBVIOUS
  <2> HIDE DEF h, Good
  <2> QED BY <2>1
<1>2. ASSUME NEW n \in 0..(N - 1), n \in S PROVE n + 1 \in S
  <2>1. PICK g \in [0..n -> T] : Good(n, g)
    BY <1>2
  <2> DEFINE h == [m \in 0..(n + 1) |-> IF m = n + 1 THEN step[n + 1][g[n]] ELSE g[m]]
  <2>2. h \in [0..(n + 1) -> T]
    BY <2>1
  <2>3. Good(n + 1, h)
    BY <2>1
  <2> HIDE DEF h, Good
  <2> QED BY <2>2, <2>3
<1>3. N \in S
  <2> HIDE DEF S
  <2>1. \A n \in 0..N : n \in S
    BY <1>1, <1>2, Induction
  <2> QED BY <2>1
<1>4. PICK g \in [0..N -> T] : Good(N, g)
  BY <1>3
<1>5. \A n \in 0..N : g[n] = IF n = 0 THEN first ELSE step[n][g[n - 1]]
  BY <1>4
<1>6. g = [n \in 0..N |-> IF n = 0 THEN first ELSE step[n][g[n - 1]]]
  BY <1>4, <1>5
<1>7. \A n \in 1..N : n - 1 \in 0..N
  OBVIOUS
<1>8. Follows(g, N, T, first, step)
  BY <1>4, <1>6, <1>7 DEF Follows
<1> QED BY <1>8

LEMMA Values ==
  ASSUME NEW N \in Nat, NEW T, NEW first \in T, NEW step \in Steps(N, T),
         NEW f, f[0] = first, \A n \in 1..N : f[n - 1] \in T => f[n] = step[n][f[n - 1]]
  PROVE  \A n \in 0..N : f[n] \in T
<1> DEFINE S == {n \in 0..N : f[n] \in T}
<1>1. 0 \in S
  OBVIOUS
<1>2. ASSUME NEW n \in 0..(N - 1), n \in S PROVE n + 1 \in S
  <2>1. f[n] \in T /\ n + 1 \in 1..N /\ (n + 1) - 1 = n
    BY <1>2
  <2>2. f[n + 1] = step[n + 1][f[n]]
    BY <2>1
  <2> QED BY <2>1, <2>2 DEF Steps
<1>3. \A n \in 0..N : n \in S
  <2> HIDE DEF S
  <2> QED BY <1>1, <1>2, Induction
<1> QED BY <1>3

================================================================================
