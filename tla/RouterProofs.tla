---------------------------- MODULE RouterProofs ----------------------------
(***************************************************************************)
(* Proofs about the parts that MCRouter gathers, for any number of tokens, *)
(* transports, commands, requests, hooks and rows.                         *)
(***************************************************************************)
EXTENDS QueueFileProofs

\* A function of 1..n with one value more.
Extends(g, n, f, S, e) ==
  g \in [1..(n + 1) -> S] /\ (\A i \in 1..n : g[i] = f[i]) /\ g[n + 1] = e

LEMMA AppendToFunction ==
  ASSUME NEW S, NEW n \in Nat, NEW f \in [1..n -> S], NEW e \in S
  PROVE  Extends(Append(f, e), n, f, S, e)
<1>1. f \in Seq(S)
  OBVIOUS
<1>2. Len(f) = n
  BY <1>1, LenProperties
<1>3. Append(f, e) \in Seq(S) /\ Len(Append(f, e)) = n + 1
  BY <1>1, <1>2, AppendProperties
<1>4. (\A i \in 1..n : Append(f, e)[i] = f[i]) /\ Append(f, e)[n + 1] = e
  BY <1>1, <1>2, AppendProperties
<1>5. Append(f, e) \in [1..(n + 1) -> S]
  BY <1>3, LenProperties
<1> QED BY <1>4, <1>5 DEF Extends

-----------------------------------------------------------------------------
(* Trimming *)

\* The running sum of the costs of a sequence of items.
LEMMA SpentUnfolds ==
  ASSUME Recall!RecallConstants, NEW s \in Seq(Recall!Items)
  PROVE  \E g \in [0..Len(s) -> Nat] :
           /\ Recall!Spent(s) = g[Len(s)] /\ g[0] = 0
           /\ \A n \in 1..Len(s) : g[n] = g[n - 1] + Cost[s[n].text]
<1> DEFINE cost == [n \in 1..Len(s) |-> Cost[s[n].text]]
           sum[n \in 0..Len(s)] == IF n = 0 THEN 0 ELSE sum[n - 1] + Cost[s[n].text]
           step == [n \in 1..Len(s) |-> [total \in Nat |-> total + cost[n]]]
<1>1. Len(s) \in Nat /\ cost \in [1..Len(s) -> Nat]
  <2>1. \A n \in 1..Len(s) : s[n].text \in DOMAIN Cost
    <3> TAKE n \in 1..Len(s)
    <3>1. s[n] \in Recall!Items
      OBVIOUS
    <3> QED BY <3>1 DEF Recall!Items
  <2> QED BY <2>1 DEF Recall!RecallConstants
<1>2. step \in [1..Len(s) -> [Nat -> Nat]]
  <2> HIDE DEF cost
  <2> QED BY <1>1
<1>3. PICK g : Follows(g, Len(s), Nat, 0, step)
  <2> HIDE DEF cost, step
  <2> DEFINE first == 0
  <2>1. step \in Steps(Len(s), Nat) /\ first \in Nat
    BY <1>2 DEF Steps
  <2> HIDE DEF first
  <2>2. \E g : Follows(g, Len(s), Nat, first, step)
    BY <1>1, <2>1, Recursion
  <2> QED BY <2>2 DEF first
<1>4. \A n \in 1..Len(s) : step[n][g[n - 1]] = g[n - 1] + Cost[s[n].text]
  BY <1>3, <1>1 DEF Follows
<1>5. g = [n \in 0..Len(s) |-> IF n = 0 THEN 0 ELSE g[n - 1] + Cost[s[n].text]]
  <2> HIDE DEF cost, sum, step
  <2>1. \A n \in 0..Len(s) : (IF n = 0 THEN 0 ELSE step[n][g[n - 1]])
                            = (IF n = 0 THEN 0 ELSE g[n - 1] + Cost[s[n].text])
    BY <1>1, <1>4
  <2> QED BY <1>3, <2>1 DEF Follows
<1>6. sum = [n \in 0..Len(s) |-> IF n = 0 THEN 0 ELSE sum[n - 1] + Cost[s[n].text]]
  BY <1>5
<1>7. Recall!Spent(s) = sum[Len(s)]
  BY DEF Recall!Spent
<1>8. sum[0] = 0 /\ \A n \in 1..Len(s) : sum[n] = sum[n - 1] + Cost[s[n].text]
  <2> HIDE DEF cost, step, sum
  <2> QED BY <1>1, <1>6
<1>9. \A n \in 0..Len(s) : sum[n] \in Nat
  <2> DEFINE first == 0
             T == Nat
  <2>1. \A n \in 1..Len(s) : sum[n - 1] \in T => sum[n] = step[n][sum[n - 1]]
    <3> HIDE DEF sum
    <3> QED BY <1>1, <1>8
  <2>2. first \in T /\ sum[0] = first /\ step \in Steps(Len(s), T)
    <3> HIDE DEF step, sum
    <3> QED BY <1>2, <1>8 DEF Steps
  <2> HIDE DEF step, sum, first, T
  <2>3. \A n \in 0..Len(s) : sum[n] \in T
    BY <1>1, <2>1, <2>2, Values
  <2> QED BY <2>3 DEF T
<1>10. sum \in [0..Len(s) -> Nat]
  <2> HIDE DEF cost, step, sum
  <2> QED BY <1>6, <1>9
<1> QED BY <1>7, <1>8, <1>10

\* The items kept so far, and the sum of their costs.
Kept == [items : Seq(Recall!Items), spent : Nat]
Afford(kept, x, max) ==
  IF kept.spent + Cost[x.text] > max THEN kept
  ELSE [items |-> Append(kept.items, x), spent |-> kept.spent + Cost[x.text]]

LEMMA TrimUnfolds ==
  ASSUME Recall!RecallConstants, NEW s \in Seq(Recall!Items), NEW max \in Nat
  PROVE  \E g \in [0..Len(s) -> Kept] :
           /\ Recall!Trim(s, max) = g[Len(s)].items /\ g[0] = [items |-> <<>>, spent |-> 0]
           /\ \A n \in 1..Len(s) : g[n] = Afford(g[n - 1], s[n], max)
<1> DEFINE first == [items |-> <<>>, spent |-> 0]
           trimmed[n \in 0..Len(s)] ==
             IF n = 0 THEN [items |-> <<>>, spent |-> 0]
             ELSE LET kept == trimmed[n - 1]
                      spent == kept.spent + Cost[s[n].text]
                  IN IF spent > max THEN kept
                     ELSE [items |-> Append(kept.items, s[n]), spent |-> spent]
           step == [n \in 1..Len(s) |-> [kept \in Kept |-> Afford(kept, s[n], max)]]
<1>1. Len(s) \in Nat /\ first \in Kept
  BY DEF Kept
<1>2. step \in Steps(Len(s), Kept)
  <2>1. ASSUME NEW n \in 1..Len(s), NEW kept \in Kept PROVE Afford(kept, s[n], max) \in Kept
    <3>1. s[n] \in Recall!Items /\ Cost[s[n].text] \in Nat
      <4>1. s[n] \in Recall!Items
        OBVIOUS
      <4> QED BY <4>1 DEF Recall!Items, Recall!RecallConstants
    <3> QED BY <3>1 DEF Afford, Kept
  <2>2. \A n \in 1..Len(s) : [kept \in Kept |-> Afford(kept, s[n], max)] \in [Kept -> Kept]
    BY <2>1
  <2> QED BY <2>2 DEF Steps
<1>3. PICK g : Follows(g, Len(s), Kept, first, step)
  <2> HIDE DEF first, step
  <2> QED BY <1>1, <1>2, Recursion
<1>4. g = [n \in 0..Len(s) |-> IF n = 0 THEN first ELSE Afford(g[n - 1], s[n], max)]
  <2>1. \A n \in 1..Len(s) : step[n][g[n - 1]] = Afford(g[n - 1], s[n], max)
    BY <1>1, <1>3 DEF Follows
  <2> HIDE DEF first, step, trimmed
  <2>2. \A n \in 0..Len(s) : (IF n = 0 THEN first ELSE step[n][g[n - 1]])
                            = (IF n = 0 THEN first ELSE Afford(g[n - 1], s[n], max))
    BY <1>1, <2>1
  <2> QED BY <1>3, <2>2 DEF Follows
<1>5. trimmed = [n \in 0..Len(s) |-> IF n = 0 THEN first ELSE Afford(trimmed[n - 1], s[n], max)]
  BY <1>4 DEF Afford
<1>6. trimmed[0] = first
      /\ \A n \in 1..Len(s) : trimmed[n] = Afford(trimmed[n - 1], s[n], max)
  <2> HIDE DEF trimmed, step, first
  <2> QED BY <1>1, <1>5
<1>7. \A n \in 0..Len(s) : trimmed[n] \in Kept
  <2>1. \A n \in 1..Len(s) :
          trimmed[n - 1] \in Kept => trimmed[n] = step[n][trimmed[n - 1]]
    <3> HIDE DEF trimmed, first
    <3> QED BY <1>6
  <2> HIDE DEF step, trimmed, first
  <2> QED BY <1>1, <1>2, <1>6, <2>1, Values
<1>8. trimmed \in [0..Len(s) -> Kept]
  <2> HIDE DEF trimmed, step, first
  <2> QED BY <1>5, <1>7
<1>9. Recall!Trim(s, max) = trimmed[Len(s)].items
  BY DEF Recall!Trim
<1> HIDE DEF trimmed
<1> QED BY <1>6, <1>8, <1>9

LEMMA SpentOnPrefixes ==
  ASSUME Recall!RecallConstants, NEW s \in Seq(Recall!Items)
  PROVE  \E g \in [0..Len(s) -> Nat] :
           /\ g[0] = 0 /\ \A n \in 1..Len(s) : g[n] = g[n - 1] + Cost[s[n].text]
           /\ \A k \in 0..Len(s) : Recall!Spent(SubSeq(s, 1, k)) = g[k]
           /\ Recall!Spent(s) = g[Len(s)]
<1>1. PICK g \in [0..Len(s) -> Nat] :
        /\ Recall!Spent(s) = g[Len(s)] /\ g[0] = 0
        /\ \A n \in 1..Len(s) : g[n] = g[n - 1] + Cost[s[n].text]
  BY SpentUnfolds
<1>2. ASSUME NEW k \in 0..Len(s) PROVE Recall!Spent(SubSeq(s, 1, k)) = g[k]
  <2> DEFINE t == SubSeq(s, 1, k)
  <2>1. t \in Seq(Recall!Items) /\ Len(t) = k /\ \A n \in 1..k : t[n] = s[n]
    OBVIOUS
  <2> HIDE DEF t
  <2>2. PICK h \in [0..Len(t) -> Nat] :
          /\ Recall!Spent(t) = h[Len(t)] /\ h[0] = 0
          /\ \A n \in 1..Len(t) : h[n] = h[n - 1] + Cost[t[n].text]
    BY <2>1, SpentUnfolds
  <2> DEFINE S == {n \in 0..k : h[n] = g[n]}
  <2>3. 0 \in S
    BY <1>1, <2>2
  <2>4. ASSUME NEW n \in 0..(k - 1), n \in S PROVE n + 1 \in S
    <3>1. n + 1 \in 1..k /\ n + 1 \in 1..Len(s) /\ (n + 1) - 1 = n /\ n \in 0..k
      OBVIOUS
    <3>2. h[n + 1] = h[n] + Cost[t[n + 1].text] /\ g[n + 1] = g[n] + Cost[s[n + 1].text]
      BY <1>1, <2>1, <2>2, <3>1
    <3>3. t[n + 1] = s[n + 1] /\ h[n] = g[n]
      BY <2>1, <2>4, <3>1
    <3>4. n + 1 \in 0..k
      BY <3>1
    <3> QED BY <3>2, <3>3, <3>4
  <2>5. \A n \in 0..k : n \in S
    <3> HIDE DEF S
    <3>1. k \in Nat
      OBVIOUS
    <3> QED BY <2>3, <2>4, <3>1, Induction
  <2> QED BY <2>1, <2>2, <2>5 DEF t
<1> QED BY <1>1, <1>2

LEMMA SpentAppend ==
  ASSUME Recall!RecallConstants, NEW s \in Seq(Recall!Items), NEW x \in Recall!Items
  PROVE  /\ Recall!Spent(s) \in Nat /\ Recall!Spent(<<>>) = 0
         /\ Recall!Spent(Append(s, x)) = Recall!Spent(s) + Cost[x.text]
<1> DEFINE t == Append(s, x)
<1>1. /\ t \in Seq(Recall!Items) /\ Len(t) = Len(s) + 1 /\ t[Len(s) + 1] = x
      /\ SubSeq(t, 1, Len(s)) = s /\ SubSeq(t, 1, 0) = << >> /\ Len(s) \in Nat
  OBVIOUS
<1> HIDE DEF t
<1>2. PICK g \in [0..Len(t) -> Nat] :
        /\ g[0] = 0 /\ \A n \in 1..Len(t) : g[n] = g[n - 1] + Cost[t[n].text]
        /\ \A k \in 0..Len(t) : Recall!Spent(SubSeq(t, 1, k)) = g[k]
        /\ Recall!Spent(t) = g[Len(t)]
  BY <1>1, SpentOnPrefixes
<1>3. Recall!Spent(s) = g[Len(s)] /\ g[Len(s)] \in Nat /\ Recall!Spent(<<>>) = 0
  <2>1. Len(s) \in 0..Len(t) /\ 0 \in 0..Len(t)
    BY <1>1
  <2> QED BY <1>1, <1>2, <2>1
<1>4. Recall!Spent(t) = g[Len(s)] + Cost[x.text]
  BY <1>1, <1>2
<1> QED BY <1>3, <1>4 DEF t

LEMMA SpentLess ==
  ASSUME Recall!RecallConstants, NEW s \in Seq(Recall!Items), NEW k \in 0..Len(s)
  PROVE  Recall!Spent(SubSeq(s, 1, k)) <= Recall!Spent(s)
<1>1. PICK g \in [0..Len(s) -> Nat] :
        /\ g[0] = 0 /\ \A n \in 1..Len(s) : g[n] = g[n - 1] + Cost[s[n].text]
        /\ \A n \in 0..Len(s) : Recall!Spent(SubSeq(s, 1, n)) = g[n]
        /\ Recall!Spent(s) = g[Len(s)]
  BY SpentOnPrefixes
<1> DEFINE S == {n \in 0..(Len(s) - k) : g[k] <= g[k + n]}
<1>2. 0 \in S
  BY <1>1
<1>3. ASSUME NEW n \in 0..(Len(s) - k - 1), n \in S PROVE n + 1 \in S
  <2>1. /\ k + n \in 0..Len(s) /\ k + n + 1 \in 1..Len(s) /\ g[k] \in Nat /\ g[k + n] \in Nat
        /\ s[k + n + 1] \in Recall!Items
    BY <1>1
  <2>2. g[k + n + 1] = g[k + n] + Cost[s[k + n + 1].text]
    BY <1>1, <2>1
  <2>3. Cost[s[k + n + 1].text] \in Nat
    BY <2>1 DEF Recall!Items, Recall!RecallConstants
  <2>4. g[k] <= g[k + n + 1]
    BY <1>3, <2>1, <2>2, <2>3
  <2> QED BY <2>4
<1>4. \A n \in 0..(Len(s) - k) : n \in S
  <2> DEFINE N == Len(s) - k
  <2>1. N \in Nat /\ 0..(Len(s) - k - 1) = 0..(N - 1)
    OBVIOUS
  <2> HIDE DEF S, N
  <2>2. \A n \in 0..N : n \in S
    BY <1>2, <1>3, <2>1, Induction
  <2> QED BY <2>2 DEF N
<1>5. g[k] <= g[Len(s)]
  <2>1. Len(s) - k \in 0..(Len(s) - k) /\ k + (Len(s) - k) = Len(s)
    OBVIOUS
  <2> QED BY <1>4, <2>1
<1> QED BY <1>1, <1>5

\* Best first, each text once.
Ranked(s) ==
  \A m, n \in 1..Len(s) : m < n => s[m].text # s[n].text /\ s[m].score >= s[n].score

\* What is kept of the first n items.
Trimmed(t, s, n, max) ==
  /\ t \in Seq(Recall!Items) /\ Ranked(t) /\ Recall!Spent(t) <= max
  /\ \A k \in 1..Len(t) : \E m \in 1..n : t[k] = s[m]
  /\ \A m \in 1..n : \/ \E k \in 1..Len(t) : t[k] = s[m]
                     \/ Recall!Spent(t) + Cost[s[m].text] > max

LEMMA TrimStep ==
  ASSUME Recall!RecallConstants, NEW s \in Seq(Recall!Items), NEW max \in Nat, Ranked(s),
         NEW n \in 1..Len(s), NEW kept \in Kept, Trimmed(kept.items, s, n - 1, max),
         kept.spent = Recall!Spent(kept.items),
         NEW e, e = Afford(kept, s[n], max)
  PROVE  Trimmed(e.items, s, n, max) /\ e.spent = Recall!Spent(e.items)
<1> DEFINE t == kept.items
           x == s[n]
<1>1. /\ t \in Seq(Recall!Items) /\ Ranked(t) /\ Recall!Spent(t) <= max
      /\ \A k \in 1..Len(t) : \E m \in 1..(n - 1) : t[k] = s[m]
      /\ \A m \in 1..(n - 1) : \/ \E k \in 1..Len(t) : t[k] = s[m]
                               \/ Recall!Spent(t) + Cost[s[m].text] > max
  BY DEF Trimmed
<1>2. x \in Recall!Items /\ Len(s) \in Nat
  OBVIOUS
<1>3. Cost[x.text] \in Nat /\ \A m \in 1..Len(s) : Cost[s[m].text] \in Nat
  <2>1. \A m \in 1..Len(s) : s[m] \in Recall!Items
    OBVIOUS
  <2>2. \A y \in Recall!Items : Cost[y.text] \in Nat
    BY DEF Recall!Items, Recall!RecallConstants
  <2> QED BY <1>2, <2>1, <2>2
<1>4. Recall!Spent(t) \in Nat /\ Recall!Spent(Append(t, x)) = Recall!Spent(t) + Cost[x.text]
  <2> HIDE DEF t, x
  <2> QED BY <1>1, <1>2, SpentAppend
<1>5. CASE Recall!Spent(t) + Cost[x.text] > max
  <2>1. e = kept
    BY <1>5 DEF Afford
  <2>2. \A m \in 1..n : m = n \/ m \in 1..(n - 1)
    BY <1>2
  <2>3. 1..(n - 1) \subseteq 1..n
    BY <1>2
  <2> QED BY <1>1, <1>5, <2>1, <2>2, <2>3 DEF Trimmed
<1>6. CASE ~(Recall!Spent(t) + Cost[x.text] > max)
  <2>1. e.items = Append(t, x) /\ e.spent = Recall!Spent(t) + Cost[x.text]
    BY <1>6 DEF Afford
  <2> HIDE DEF t, x
  <2> DEFINE r == Append(t, x)
  <2>2. /\ r \in Seq(Recall!Items) /\ Len(r) = Len(t) + 1 /\ r[Len(t) + 1] = x
        /\ \A k \in 1..Len(t) : r[k] = t[k]
    BY <1>1, <1>2
  <2>3. /\ Len(t) \in Nat /\ 1..Len(r) = 1..Len(t) \cup {Len(t) + 1}
        /\ 1..n = 1..(n - 1) \cup {n}
    BY <1>1, <1>2, <2>2
  <2> HIDE DEF r
  <2>4. Ranked(r)
    <3>1. \A k \in 1..Len(t) : t[k].text # x.text /\ t[k].score >= x.score
      <4> TAKE k \in 1..Len(t)
      <4>1. PICK m \in 1..(n - 1) : t[k] = s[m]
        BY <1>1
      <4>2. m < n /\ m \in 1..Len(s) /\ n \in 1..Len(s)
        BY <1>2
      <4> QED BY <4>1, <4>2 DEF Ranked, x
    <3> SUFFICES ASSUME NEW k \in 1..Len(r), NEW m \in 1..Len(r), k < m
                 PROVE  r[k].text # r[m].text /\ r[k].score >= r[m].score
      BY DEF Ranked
    <3>2. k \in 1..Len(t)
      BY <2>2, <2>3
    <3>3. CASE m \in 1..Len(t)
      <4>1. t[k].text # t[m].text /\ t[k].score >= t[m].score
        BY <1>1, <3>2, <3>3 DEF Ranked
      <4> QED BY <2>2, <3>2, <3>3, <4>1
    <3>4. CASE m = Len(t) + 1
      BY <2>2, <3>1, <3>2, <3>4
    <3> QED BY <2>3, <3>3, <3>4
  <2>5. Recall!Spent(r) <= max /\ Recall!Spent(r) = Recall!Spent(t) + Cost[x.text]
    BY <1>3, <1>4, <1>6 DEF r
  <2>6. \A k \in 1..Len(r) : \E m \in 1..n : r[k] = s[m]
    BY <1>1, <2>2, <2>3 DEF x
  <2>7. ASSUME NEW m \in 1..n
        PROVE  (\E k \in 1..Len(r) : r[k] = s[m]) \/ Recall!Spent(r) + Cost[s[m].text] > max
    <3>1. CASE m = n
      BY <2>2, <2>3, <3>1 DEF x
    <3>2. CASE m \in 1..(n - 1) /\ \E k \in 1..Len(t) : t[k] = s[m]
      BY <2>2, <2>3, <3>2
    <3>3. CASE m \in 1..(n - 1) /\ Recall!Spent(t) + Cost[s[m].text] > max
      <4>1. Cost[s[m].text] \in Nat
        BY <1>3, <1>2
      <4> QED BY <1>3, <1>4, <2>5, <3>3, <4>1, SMTT(30)
    <3> QED BY <1>1, <2>3, <3>1, <3>2, <3>3
  <2> QED BY <2>1, <2>2, <2>4, <2>5, <2>6, <2>7, SMTT(30) DEF Trimmed, r
<1> QED BY <1>5, <1>6

LEMMA TrimKeepsBest ==
  ASSUME Recall!RecallConstants, NEW s \in Seq(Recall!Items), NEW max \in Nat, Ranked(s)
  PROVE  Trimmed(Recall!Trim(s, max), s, Len(s), max)
<1>1. PICK g \in [0..Len(s) -> Kept] :
        /\ Recall!Trim(s, max) = g[Len(s)].items /\ g[0] = [items |-> <<>>, spent |-> 0]
        /\ \A n \in 1..Len(s) : g[n] = Afford(g[n - 1], s[n], max)
  BY TrimUnfolds
<1> DEFINE S == {n \in 0..Len(s) : /\ Trimmed(g[n].items, s, n, max)
                                   /\ g[n].spent = Recall!Spent(g[n].items)}
<1>2. 0 \in S
  <2>1. Recall!Spent(<<>>) = 0
    <3>1. CASE s = << >>
      <4>1. PICK h \in [0..Len(s) -> Nat] : Recall!Spent(s) = h[Len(s)] /\ h[0] = 0
        BY SpentUnfolds
      <4> QED BY <3>1, <4>1
    <3>2. CASE s # << >>
      <4>1. s[1] \in Recall!Items
        BY <3>2
      <4> QED BY <4>1, SpentAppend
    <3> QED BY <3>1, <3>2
  <2> DEFINE t == << >>
  <2>2. t \in Seq(Recall!Items) /\ Len(t) = 0 /\ 1..0 = {}
    OBVIOUS
  <2>3. Recall!Spent(t) = 0
    BY <2>1
  <2>4. g[0].items = t /\ g[0].spent = 0
    BY <1>1
  <2> HIDE DEF t
  <2> QED BY <2>2, <2>3, <2>4 DEF Trimmed, Ranked
<1>3. ASSUME NEW n \in 0..(Len(s) - 1), n \in S PROVE n + 1 \in S
  <2>1. g[n] \in Kept /\ n + 1 \in 1..Len(s) /\ (n + 1) - 1 = n
        /\ g[n + 1] = Afford(g[n], s[n + 1], max)
    BY <1>1
  <2>2. Trimmed(g[n + 1].items, s, n + 1, max)
        /\ g[n + 1].spent = Recall!Spent(g[n + 1].items)
    BY <1>3, <2>1, TrimStep
  <2> QED BY <2>2
<1>4. \A n \in 0..Len(s) : n \in S
  <2> HIDE DEF S
  <2>1. Len(s) \in Nat
    OBVIOUS
  <2> QED BY <1>2, <1>3, <2>1, Induction
<1> QED BY <1>1, <1>4

-----------------------------------------------------------------------------
(* Merging *)

Candidate == [bank : Int, item : Recall!Items]

\* The best candidate of C for each of its texts.
IsBest(B, C) ==
  /\ B \subseteq C /\ IsFiniteSet(B)
  /\ \A c, d \in B : c.item.text = d.item.text => c = d
  /\ \A c \in C : \E d \in B : d.item.text = c.item.text /\ ~Recall!Before(c, d)

LEMMA CandidateFields ==
  ASSUME Recall!RecallConstants
  PROVE  /\ \A c \in Candidate : c.bank \in Int /\ c.item.score \in Int /\ c.item.text \in Int
         /\ \A c, d \in Candidate :
              c.bank = d.bank /\ c.item.score = d.item.score /\ c.item.text = d.item.text => c = d
<1>1. \A c \in Candidate : c.bank \in Int /\ c.item \in Recall!Items
  BY DEF Candidate
<1>2. \A x \in Recall!Items : x.score \in Int /\ x.text \in Int
  BY DEF Recall!Items, Recall!RecallConstants
<1>3. \A x, y \in Recall!Items : x.score = y.score /\ x.text = y.text => x = y
  BY DEF Recall!Items
<1>4. \A c, d \in Candidate : c.bank = d.bank /\ c.item = d.item => c = d
  BY DEF Candidate
<1> QED BY <1>1, <1>2, <1>3, <1>4

LEMMA BeforeIsOrder ==
  ASSUME Recall!RecallConstants, NEW c \in Candidate, NEW d \in Candidate, NEW e \in Candidate
  PROVE  /\ ~Recall!Before(c, c)
         /\ Recall!Before(c, d) /\ Recall!Before(d, e) => Recall!Before(c, e)
         /\ c # d => Recall!Before(c, d) \/ Recall!Before(d, c)
         /\ ~Recall!Before(c, d) /\ ~Recall!Before(d, e) => ~Recall!Before(c, e)
         /\ ~Recall!Before(c, d) => c.item.score <= d.item.score
<1>1. /\ c.bank \in Int /\ c.item.score \in Int /\ c.item.text \in Int
      /\ d.bank \in Int /\ d.item.score \in Int /\ d.item.text \in Int
      /\ e.bank \in Int /\ e.item.score \in Int /\ e.item.text \in Int
  BY CandidateFields
<1>2. c # d => c.bank # d.bank \/ c.item.score # d.item.score \/ c.item.text # d.item.text
  BY CandidateFields
<1> QED BY <1>1, <1>2 DEF Recall!Before

LEMMA KeepBestKeeps ==
  ASSUME Recall!RecallConstants, NEW C \in SUBSET Candidate, NEW B, IsBest(B, C),
         NEW c \in Candidate
  PROVE  IsBest(Recall!KeepBest(B, c), C \cup {c})
<1>1. /\ B \subseteq C /\ IsFiniteSet(B)
      /\ \A x, y \in B : x.item.text = y.item.text => x = y
      /\ \A x \in C : \E y \in B : y.item.text = x.item.text /\ ~Recall!Before(x, y)
  BY DEF IsBest
<1>2. CASE \E x \in B : x.item.text = c.item.text /\ ~Recall!Before(c, x)
  <2>1. Recall!KeepBest(B, c) = B
    BY <1>2 DEF Recall!KeepBest
  <2> QED BY <1>1, <1>2, <2>1 DEF IsBest
<1>3. CASE ~\E x \in B : x.item.text = c.item.text /\ ~Recall!Before(c, x)
  <2> DEFINE D == {x \in B : x.item.text # c.item.text}
             E == D \cup {c}
  <2>1. Recall!KeepBest(B, c) = E
    BY <1>3 DEF Recall!KeepBest
  <2>2. D \subseteq B /\ c \in E /\ D \subseteq E
    OBVIOUS
  <2>3. IsFiniteSet(E)
    <3>1. IsFiniteSet(D)
      BY <1>1, <2>2, FS_Subset
    <3> HIDE DEF D
    <3> QED BY <3>1, FS_AddElement
  <2>4. \A x, y \in E : x.item.text = y.item.text => x = y
    BY <1>1
  <2>5. ASSUME NEW x \in C
        PROVE  \E y \in E : y.item.text = x.item.text /\ ~Recall!Before(x, y)
    <3>1. PICK y \in B : y.item.text = x.item.text /\ ~Recall!Before(x, y)
      BY <1>1
    <3>2. CASE y.item.text = c.item.text
      <4>1. Recall!Before(c, y)
        BY <1>3, <3>2
      <4>2. ~Recall!Before(x, c)
        BY <1>1, <3>1, <4>1, BeforeIsOrder
      <4> QED BY <2>2, <3>1, <3>2, <4>2
    <3>3. CASE y.item.text # c.item.text
      BY <3>1, <3>3
    <3> QED BY <3>2, <3>3
  <2>6. ~Recall!Before(c, c)
    BY BeforeIsOrder
  <2>7. E \subseteq C \cup {c}
    BY <1>1
  <2> HIDE DEF E
  <2>8. \A x \in C \cup {c} : \E y \in E : y.item.text = x.item.text /\ ~Recall!Before(x, y)
    BY <2>2, <2>5, <2>6
  <2> QED BY <2>1, <2>3, <2>4, <2>7, <2>8 DEF IsBest
<1> QED BY <1>2, <1>3

Candidates(s) == {s[n] : n \in 1..Len(s)}

LEMMA KeepAllKeeps ==
  ASSUME Recall!RecallConstants, NEW C \in SUBSET Candidate, NEW B, IsBest(B, C),
         NEW s \in Seq(Candidate)
  PROVE  IsBest(Recall!KeepAll(B, s), C \cup Candidates(s))
<1> DEFINE T == SUBSET Candidate
           best[n \in 0..Len(s)] ==
             IF n = 0 THEN B ELSE Recall!KeepBest(best[n - 1], s[n])
           step == [n \in 1..Len(s) |-> [set \in T |-> Recall!KeepBest(set, s[n])]]
<1>1. Len(s) \in Nat /\ B \in T /\ \A n \in 1..Len(s) : s[n] \in Candidate
  BY DEF IsBest
<1>2. step \in Steps(Len(s), T)
  <2>1. ASSUME NEW n \in 1..Len(s), NEW set \in T PROVE Recall!KeepBest(set, s[n]) \in T
    BY <1>1 DEF Recall!KeepBest
  <2>2. \A n \in 1..Len(s) : [set \in T |-> Recall!KeepBest(set, s[n])] \in [T -> T]
    <3> HIDE DEF T
    <3> QED BY <2>1
  <2> QED BY <2>2 DEF Steps
<1>3. PICK g : Follows(g, Len(s), T, B, step)
  <2> HIDE DEF T, step
  <2> QED BY <1>1, <1>2, Recursion
<1>4. g = [n \in 0..Len(s) |-> IF n = 0 THEN B ELSE Recall!KeepBest(g[n - 1], s[n])]
  <2>1. \A n \in 1..Len(s) : step[n][g[n - 1]] = Recall!KeepBest(g[n - 1], s[n])
    <3> HIDE DEF T, best
    <3> QED BY <1>1, <1>3 DEF Follows
  <2> HIDE DEF T, step, best
  <2>2. \A n \in 0..Len(s) : (IF n = 0 THEN B ELSE step[n][g[n - 1]])
                            = (IF n = 0 THEN B ELSE Recall!KeepBest(g[n - 1], s[n]))
    BY <1>1, <2>1
  <2> QED BY <1>3, <2>2 DEF Follows
<1>5. best = [n \in 0..Len(s) |-> IF n = 0 THEN B ELSE Recall!KeepBest(best[n - 1], s[n])]
  <2> HIDE DEF T, step
  <2> QED BY <1>4
<1>6. Recall!KeepAll(B, s) = best[Len(s)]
  BY DEF Recall!KeepAll
<1> HIDE DEF best, step, T
<1>7. best[0] = B /\ \A n \in 0..(Len(s) - 1) : best[n + 1] = Recall!KeepBest(best[n], s[n + 1])
  BY <1>1, <1>5
<1> DEFINE Upto(n) == C \cup {s[m] : m \in 1..n}
           S == {n \in 0..Len(s) : IsBest(best[n], Upto(n))}
<1>8. 0 \in S
  <2>1. Upto(0) = C
    OBVIOUS
  <2> HIDE DEF Upto
  <2>2. IsBest(best[0], Upto(0))
    BY <1>7, <2>1
  <2> QED BY <1>1, <2>2
<1>9. ASSUME NEW n \in 0..(Len(s) - 1), n \in S PROVE n + 1 \in S
  <2>1. s[n + 1] \in Candidate /\ Upto(n) \in SUBSET Candidate
    BY <1>1
  <2>2. Upto(n + 1) = Upto(n) \cup {s[n + 1]}
    BY <1>1
  <2>3. IsBest(best[n], Upto(n))
    BY <1>9
  <2> HIDE DEF Upto
  <2>4. IsBest(best[n + 1], Upto(n + 1))
    BY <1>7, <2>1, <2>2, <2>3, KeepBestKeeps
  <2> QED BY <1>1, <2>4
<1>10. \A n \in 0..Len(s) : n \in S
  <2> HIDE DEF S
  <2> QED BY <1>1, <1>8, <1>9, Induction
<1>11. Len(s) \in S
  <2> HIDE DEF S
  <2> QED BY <1>1, <1>10
<1> QED BY <1>6, <1>11 DEF Candidates

RecallTypes ==
  /\ config \in Configs /\ banks \in Seq(Int) /\ settled \in Seq(Recall!Outcomes)
  /\ Len(settled) = Len(banks)
  /\ recall \in [caller : Readers, maxTokens : Limits, requested : Limits \cup {0},
                 topK : TopKs, enabled : BOOLEAN]

LEMMA CandidatesOfBank ==
  ASSUME Recall!RecallConstants, RecallTypes, NEW i \in 1..Len(banks)
  PROVE  /\ Recall!CandidatesOf(i) \in Seq(Candidate)
         /\ i \in Recall!Heard =>
              Recall!ToSet(Recall!CandidatesOf(i)) = Candidates(Recall!CandidatesOf(i))
         /\ i \notin Recall!Heard => Candidates(Recall!CandidatesOf(i)) = {}
<1>1. settled[i] \in Recall!Outcomes /\ banks[i] \in Int /\ i \in DOMAIN banks
  BY DEF RecallTypes
<1>2. CASE settled[i].status = "fulfilled"
  <2>1. PICK items \in Replies : settled[i] = Recall!Answered(items)
    BY <1>1, <1>2 DEF Recall!Outcomes, Recall!Answered, Recall!Rejected, Recall!Pending
  <2>2. settled[i].items = items /\ items \in Seq(Recall!Items)
    BY <2>1 DEF Recall!Answered, Recall!RecallConstants
  <2> DEFINE s == [n \in DOMAIN items |-> [bank |-> banks[i], item |-> items[n]]]
  <2>3. s \in Seq(Candidate)
    <3>1. /\ DOMAIN items = 1..Len(items) /\ Len(items) \in Nat
          /\ \A n \in 1..Len(items) : items[n] \in Recall!Items
      BY <2>2
    <3>2. \A n \in 1..Len(items) : [bank |-> banks[i], item |-> items[n]] \in Candidate
      BY <1>1, <3>1 DEF Candidate
    <3>3. s \in [1..Len(items) -> Candidate]
      BY <3>1, <3>2
    <3> HIDE DEF s
    <3> QED BY <3>1, <3>3
  <2>4. Recall!CandidatesOf(i) = s
    BY <1>2, <2>2 DEF Recall!CandidatesOf
  <2> HIDE DEF s
  <2>5. Recall!ToSet(s) = Candidates(s)
    <3>1. DOMAIN s = 1..Len(s)
      BY <2>3
    <3> QED BY <3>1 DEF Recall!ToSet, Candidates
  <2> QED BY <1>1, <1>2, <2>3, <2>4, <2>5 DEF Recall!Heard
<1>3. CASE settled[i].status # "fulfilled"
  <2>1. Recall!CandidatesOf(i) = << >> /\ i \notin Recall!Heard
    BY <1>3 DEF Recall!CandidatesOf, Recall!Heard
  <2>2. << >> \in Seq(Candidate) /\ Candidates(<< >>) = {}
    BY DEF Candidates
  <2> QED BY <2>1, <2>2
<1> QED BY <1>2, <1>3

LEMMA MergeIsBest ==
  ASSUME Recall!RecallConstants, RecallTypes
  PROVE  /\ IsBest(Recall!MergeSettled, Recall!Candidates)
         /\ Recall!Candidates \subseteq Candidate
<1> DEFINE T == SUBSET Candidate
           N == Len(banks)
           Of(i) == Recall!CandidatesOf(i)
           first == {}
           merged[i \in 0..N] == IF i = 0 THEN {} ELSE Recall!KeepAll(merged[i - 1], Of(i))
           TT == {B \in T : \E C \in T : IsBest(B, C)}
           step == [i \in 1..N |-> [B \in TT |-> Recall!KeepAll(B, Of(i))]]
<1>1. N \in Nat /\ first \in TT /\ \A i \in 1..N : Of(i) \in Seq(Candidate)
  <2>1. IsBest({}, {})
    BY FS_EmptySet DEF IsBest
  <2>2. \A i \in 1..N : Of(i) \in Seq(Candidate)
    BY CandidatesOfBank
  <2> QED BY <2>1, <2>2 DEF RecallTypes
<1> HIDE DEF N, Of
<1>2. step \in Steps(N, TT)
  <2>1. ASSUME NEW i \in 1..N, NEW B \in TT PROVE Recall!KeepAll(B, Of(i)) \in TT
    <3>1. PICK C \in T : IsBest(B, C)
      OBVIOUS
    <3> DEFINE D == C \cup Candidates(Of(i))
    <3>2. IsBest(Recall!KeepAll(B, Of(i)), D)
      BY <1>1, <3>1, KeepAllKeeps
    <3>3. D \in T
      BY <1>1 DEF Candidates
    <3>4. Recall!KeepAll(B, Of(i)) \in T
      BY <3>2, <3>3 DEF IsBest
    <3> HIDE DEF D
    <3> QED BY <3>2, <3>3, <3>4
  <2>2. \A i \in 1..N : [B \in TT |-> Recall!KeepAll(B, Of(i))] \in [TT -> TT]
    <3> HIDE DEF TT
    <3> QED BY <2>1
  <2> QED BY <2>2 DEF Steps
<1>3. PICK g : Follows(g, N, TT, first, step)
  <2> HIDE DEF TT, step, first
  <2> QED BY <1>1, <1>2, Recursion
<1>4. g = [i \in 0..N |-> IF i = 0 THEN first ELSE Recall!KeepAll(g[i - 1], Of(i))]
  <2>1. \A i \in 1..N : step[i][g[i - 1]] = Recall!KeepAll(g[i - 1], Of(i))
    <3> HIDE DEF TT, merged, first
    <3> QED BY <1>1, <1>3 DEF Follows
  <2> HIDE DEF TT, step, merged, first
  <2>2. \A i \in 0..N : (IF i = 0 THEN first ELSE step[i][g[i - 1]])
                            = (IF i = 0 THEN first ELSE Recall!KeepAll(g[i - 1], Of(i)))
    BY <1>1, <2>1
  <2> QED BY <1>3, <2>2 DEF Follows
<1>5. merged = [i \in 0..N |-> IF i = 0 THEN first ELSE Recall!KeepAll(merged[i - 1], Of(i))]
  <2> HIDE DEF TT, step
  <2> QED BY <1>4
<1>6. Recall!MergeSettled = merged[N]
  BY DEF Recall!MergeSettled, N, Of
<1> HIDE DEF merged, step, first
<1>7. merged[0] = first
      /\ \A i \in 0..(N - 1) : merged[i + 1] = Recall!KeepAll(merged[i], Of(i + 1))
  BY <1>1, <1>5
<1> DEFINE Upto(n) == UNION {Candidates(Of(i)) : i \in 1..n}
           S == {n \in 0..N : IsBest(merged[n], Upto(n))}
<1>8. \A n \in 0..N : Upto(n) \in SUBSET Candidate
  <2>1. \A i \in 1..N : Candidates(Of(i)) \subseteq Candidate
    BY <1>1 DEF Candidates
  <2>2. \A n \in 0..N : 1..n \subseteq 1..N
    BY <1>1
  <2> QED BY <2>1, <2>2
<1>9. 0 \in S
  <2>1. IsBest({}, {})
    BY FS_EmptySet DEF IsBest
  <2>2. Upto(0) = {}
    <3>1. 1..0 = {}
      OBVIOUS
    <3> QED BY <3>1
  <2> HIDE DEF Upto
  <2>3. IsBest(merged[0], Upto(0))
    BY <1>7, <2>1, <2>2 DEF first
  <2> QED BY <1>1, <2>3
<1>10. ASSUME NEW n \in 0..(N - 1), n \in S PROVE n + 1 \in S
  <2>1. Of(n + 1) \in Seq(Candidate) /\ Upto(n) \in SUBSET Candidate
    <3>1. n + 1 \in 1..N /\ n \in 0..N
      BY <1>1
    <3> HIDE DEF Upto
    <3> QED BY <1>1, <1>8, <3>1
  <2>2. Upto(n + 1) = Upto(n) \cup Candidates(Of(n + 1))
    <3>1. 1..(n + 1) = 1..n \cup {n + 1}
      OBVIOUS
    <3> QED BY <3>1
  <2>3. IsBest(merged[n], Upto(n))
    BY <1>10
  <2> HIDE DEF Upto
  <2>4. IsBest(merged[n + 1], Upto(n + 1))
    BY <1>7, <2>1, <2>2, <2>3, KeepAllKeeps
  <2> QED BY <1>1, <2>4
<1>11. N \in S
  <2> HIDE DEF S
  <2>1. \A n \in 0..N : n \in S
    BY <1>1, <1>9, <1>10, Induction
  <2> QED BY <1>1, <2>1
<1>12. Recall!Candidates = Upto(N)
  <2>1. DOMAIN banks = 1..N
    BY DEF RecallTypes, N
  <2>2. Recall!Heard \subseteq 1..N
    BY <2>1 DEF Recall!Heard
  <2>3. \A i \in Recall!Heard : Recall!ToSet(Of(i)) = Candidates(Of(i))
    BY <2>2, CandidatesOfBank DEF N, Of
  <2>4. \A i \in 1..N : i \notin Recall!Heard => Candidates(Of(i)) = {}
    BY CandidatesOfBank DEF N, Of
  <2>5. Recall!Candidates = UNION {Recall!ToSet(Of(i)) : i \in Recall!Heard}
    BY DEF Recall!Candidates, Of
  <2> QED BY <2>2, <2>3, <2>4, <2>5
<1> QED BY <1>1, <1>6, <1>8, <1>11, <1>12

-----------------------------------------------------------------------------
(* Ranking *)

Ranking(r, s, B) ==
  /\ s \in Seq(Recall!Items) /\ r \in [1..Len(s) -> B]
  /\ \A n \in 1..Len(s) : s[n] = r[n].item
  /\ \A m, n \in 1..Len(s) : m < n => Recall!Before(r[m], r[n])
  /\ \A c \in B : \E n \in 1..Len(s) : r[n] = c

LEMMA CardinalityOfRecall == \A S : Recall!Cardinality(S) = Cardinality(S)
BY DEF Recall!Cardinality, Cardinality

LEMMA SortedRanks ==
  ASSUME Recall!RecallConstants, NEW B \in SUBSET Candidate, IsFiniteSet(B)
  PROVE  \E r : Ranking(r, Recall!Sorted(B), B)
<1> DEFINE N == Cardinality(B)
           Ahead(c) == {d \in B : Recall!Before(d, c)}
           rank == [c \in B |-> Cardinality(Ahead(c))]
<1>1. N \in Nat
  BY FS_CardinalityType
<1>2. ASSUME NEW c \in B PROVE IsFiniteSet(Ahead(c)) /\ rank[c] \in Nat /\ rank[c] < N
  <2>1. Ahead(c) \in SUBSET B /\ c \notin Ahead(c)
    BY BeforeIsOrder
  <2>2. Ahead(c) # B
    BY <2>1
  <2>3. rank[c] = Cardinality(Ahead(c))
    OBVIOUS
  <2> HIDE DEF Ahead, rank
  <2>4. IsFiniteSet(Ahead(c)) /\ Cardinality(Ahead(c)) <= N /\ Cardinality(Ahead(c)) # N
    BY <2>1, <2>2, FS_Subset
  <2>5. Cardinality(Ahead(c)) \in Nat
    BY <2>4, FS_CardinalityType
  <2> QED BY <1>1, <2>3, <2>4, <2>5
<1>3. \A c \in B : rank[c] \in Nat /\ rank[c] \in 0..(N - 1)
  <2> TAKE c \in B
  <2>1. rank[c] \in Nat /\ rank[c] < N
    BY <1>2
  <2> HIDE DEF rank, N
  <2> QED BY <1>1, <2>1
<1>4. ASSUME NEW c \in B, NEW d \in B, Recall!Before(c, d) PROVE rank[c] < rank[d]
  <2>1. Ahead(c) \subseteq Ahead(d)
    <3> SUFFICES ASSUME NEW e \in B, Recall!Before(e, c) PROVE Recall!Before(e, d)
      OBVIOUS
    <3> QED BY <1>4, BeforeIsOrder
  <2>2. c \in Ahead(d) /\ c \notin Ahead(c)
    BY <1>4, BeforeIsOrder
  <2>3. rank[c] = Cardinality(Ahead(c)) /\ rank[d] = Cardinality(Ahead(d))
    OBVIOUS
  <2>4. Ahead(c) \in SUBSET Ahead(d) /\ Ahead(c) # Ahead(d)
    BY <2>1, <2>2
  <2>5. IsFiniteSet(Ahead(d)) /\ rank[c] \in Nat /\ rank[d] \in Nat
    BY <1>2
  <2> HIDE DEF Ahead, rank
  <2>6. Cardinality(Ahead(c)) <= Cardinality(Ahead(d))
        /\ Cardinality(Ahead(c)) # Cardinality(Ahead(d))
    BY <2>4, <2>5, FS_Subset
  <2> QED BY <2>3, <2>5, <2>6
<1>5. \A c, d \in B : c # d => rank[c] < rank[d] \/ rank[d] < rank[c]
  <2> SUFFICES ASSUME NEW c \in B, NEW d \in B, c # d
               PROVE  Recall!Before(c, d) \/ Recall!Before(d, c)
    BY <1>4
  <2> QED BY BeforeIsOrder
<1>6. \A c, d \in B : rank[c] < rank[d] => Recall!Before(c, d)
  <2> SUFFICES ASSUME NEW c \in B, NEW d \in B, rank[c] < rank[d], ~Recall!Before(c, d)
               PROVE  FALSE
    OBVIOUS
  <2>1. rank[c] \in Nat /\ rank[d] \in Nat
    BY <1>2
  <2>2. c # d
    BY <2>1
  <2>3. Recall!Before(d, c)
    BY <2>2, BeforeIsOrder
  <2>4. rank[d] < rank[c]
    BY <1>4, <2>3
  <2> QED BY <2>1, <2>4
<1>7. \A n \in 0..(N - 1) : \E c \in B : rank[c] = n
  <2> DEFINE T == 0..(N - 1)
  <2>1. IsFiniteSet(T) /\ Cardinality(T) = N
    <3>1. 0 \in Int /\ N - 1 \in Int
      BY <1>1
    <3>2. IsFiniteSet(T) /\ Cardinality(T) = IF 0 > N - 1 THEN 0 ELSE (N - 1) - 0 + 1
      <4> HIDE DEF N
      <4> QED BY <3>1, FS_Interval
    <3> HIDE DEF N, T
    <3> QED BY <1>1, <3>2
  <2>2. rank \in Injection(B, T)
    <3>1. \A c \in B : rank[c] \in T
      <4> HIDE DEF rank, N
      <4> QED BY <1>3
    <3>2. rank \in [B -> T]
      BY <3>1
    <3>3. \A c, d \in B : rank[c] = rank[d] => c = d
      <4> HIDE DEF rank, N, T
      <4>1. \A c \in B : rank[c] \in Nat
        BY <1>2
      <4> QED BY <1>5, <4>1
    <3> HIDE DEF rank, T
    <3> QED BY <3>2, <3>3 DEF Injection, IsInjective
  <2> HIDE DEF rank, T
  <2>3. rank \in Surjection(B, T)
    BY <2>1, <2>2, FS_Injection DEF N
  <2> QED BY <2>3 DEF Surjection, T
<1> DEFINE At(n) == CHOOSE c \in B : Recall!Cardinality({d \in B : Recall!Before(d, c)}) = n - 1
           r == [n \in 1..N |-> At(n)]
<1>8. \A n \in 1..N : r[n] \in B /\ rank[r[n]] = n - 1
  <2> TAKE n \in 1..N
  <2>1. PICK c \in B : rank[c] = n - 1
    <3>1. n - 1 \in 0..(N - 1)
      BY <1>1
    <3> HIDE DEF rank, N
    <3> QED BY <1>7, <3>1
  <2>2. \A d \in B : rank[d] = Recall!Cardinality({e \in B : Recall!Before(e, d)})
    BY CardinalityOfRecall
  <2>3. r[n] = At(n)
    OBVIOUS
  <2> HIDE DEF rank, r
  <2> QED BY <2>1, <2>2, <2>3
<1> DEFINE s == [n \in 1..N |-> r[n].item]
<1>9. Recall!Sorted(B) = s
  BY CardinalityOfRecall DEF Recall!Sorted
<1>10. s \in Seq(Recall!Items) /\ Len(s) = N
  <2>1. \A n \in 1..N : r[n].item \in Recall!Items
    <3> HIDE DEF r, rank
    <3> QED BY <1>8 DEF Candidate
  <2> HIDE DEF r, N
  <2> QED BY <1>1, <2>1
<1>11. r \in [1..N -> B]
  BY <1>8
<1> HIDE DEF r, rank, N
<1>12. \A m, n \in 1..N : m < n => Recall!Before(r[m], r[n])
  <2> SUFFICES ASSUME NEW m \in 1..N, NEW n \in 1..N, m < n PROVE Recall!Before(r[m], r[n])
    OBVIOUS
  <2>1. rank[r[m]] < rank[r[n]]
    BY <1>1, <1>8
  <2> QED BY <1>6, <1>8, <2>1
<1>13. \A c \in B : \E n \in 1..N : r[n] = c
  <2> TAKE c \in B
  <2>1. rank[c] + 1 \in 1..N /\ rank[c] \in Nat
    BY <1>1, <1>3
  <2>2. r[rank[c] + 1] \in B /\ rank[r[rank[c] + 1]] = rank[c]
    BY <1>8, <2>1
  <2>3. r[rank[c] + 1] = c
    BY <1>5, <2>1, <2>2
  <2> QED BY <2>1, <2>3
<1>14. Ranking(r, s, B)
  BY <1>10, <1>11, <1>12, <1>13 DEF Ranking
<1> QED BY <1>9, <1>14

-----------------------------------------------------------------------------
(* What is handed over *)

Settled == \A i \in 1..Len(banks) : settled[i] # Recall!Pending
Handed ==
  Recall!Recalled(
    Recall!TopK(Recall!Trim(Recall!Sorted(Recall!MergeSettled), Recall!MaxTokens)),
    Recall!FailedBanks)

\* The items of s are the best of C.
Represents(s, C) ==
  /\ s \in Seq(Recall!Items) /\ Ranked(s)
  /\ \A n \in 1..Len(s) :
       /\ \E c \in C : c.item = s[n]
       /\ \A c \in C : c.item.text = s[n].text => c.item.score <= s[n].score
  /\ \A c \in C : \E n \in 1..Len(s) : s[n].text = c.item.text

LEMMA RankedBest ==
  ASSUME Recall!RecallConstants, NEW C \in SUBSET Candidate, NEW B, IsBest(B, C),
         NEW r, NEW s, Ranking(r, s, B)
  PROVE  Represents(s, C)
<1>1. /\ s \in Seq(Recall!Items) /\ r \in [1..Len(s) -> B]
      /\ \A n \in 1..Len(s) : s[n] = r[n].item
      /\ \A m, n \in 1..Len(s) : m < n => Recall!Before(r[m], r[n])
      /\ \A c \in B : \E n \in 1..Len(s) : r[n] = c
  BY DEF Ranking
<1>2. /\ B \subseteq C /\ B \subseteq Candidate
      /\ \A c, d \in B : c.item.text = d.item.text => c = d
      /\ \A c \in C : \E d \in B : d.item.text = c.item.text /\ ~Recall!Before(c, d)
  BY DEF IsBest
<1>3. Ranked(s)
  <2> SUFFICES ASSUME NEW m \in 1..Len(s), NEW n \in 1..Len(s), m < n
               PROVE  s[m].text # s[n].text /\ s[m].score >= s[n].score
    BY DEF Ranked
  <2>1. r[m] \in B /\ r[n] \in B /\ Recall!Before(r[m], r[n]) /\ ~Recall!Before(r[m], r[m])
    BY <1>1, <1>2, BeforeIsOrder
  <2>2. r[m] # r[n]
    BY <2>1
  <2>3. s[m].text # s[n].text
    BY <1>1, <1>2, <2>1, <2>2
  <2>4. ~Recall!Before(r[n], r[m])
    BY <1>2, <2>1, BeforeIsOrder
  <2>5. s[n].score <= s[m].score
    BY <1>1, <1>2, <2>1, <2>4, BeforeIsOrder
  <2>6. s[n].score \in Int /\ s[m].score \in Int
    <3>1. s[n] \in Recall!Items /\ s[m] \in Recall!Items
      BY <1>1
    <3> QED BY <3>1 DEF Recall!Items
  <2> QED BY <2>3, <2>5, <2>6
<1>4. ASSUME NEW n \in 1..Len(s) PROVE \E c \in C : c.item = s[n]
  BY <1>1, <1>2
<1>5. ASSUME NEW n \in 1..Len(s), NEW c \in C, c.item.text = s[n].text
      PROVE  c.item.score <= s[n].score
  <2>1. PICK d \in B : d.item.text = c.item.text /\ ~Recall!Before(c, d)
    BY <1>2
  <2>2. d = r[n]
    BY <1>1, <1>2, <1>5, <2>1
  <2>3. c.item.score <= d.item.score
    BY <1>2, <1>5, <2>1, BeforeIsOrder
  <2> QED BY <1>1, <2>2, <2>3
<1>6. ASSUME NEW c \in C PROVE \E n \in 1..Len(s) : s[n].text = c.item.text
  BY <1>1, <1>2
<1> QED BY <1>1, <1>3, <1>4, <1>5, <1>6 DEF Represents

LEMMA HandedIsBest ==
  ASSUME Recall!RecallConstants, RecallTypes, Settled, Recall!Refusals = {}, outcome = Handed
  PROVE  Recall!RecallIsBest /\ Recall!DeniedRecallsNothing
<1> DEFINE B == Recall!MergeSettled
           C == Recall!Candidates
           s == Recall!Sorted(B)
           max == Recall!MaxTokens
           t == Recall!Trim(s, max)
           u == Recall!TopK(t)
<1>1. IsBest(B, C) /\ C \subseteq Candidate /\ B \in SUBSET Candidate /\ IsFiniteSet(B)
  BY MergeIsBest DEF IsBest
<1>2. PICK r : Ranking(r, s, B)
  <2> HIDE DEF B
  <2> QED BY <1>1, SortedRanks
<1>3. max \in Nat
  <2>1. recall.maxTokens \in Nat /\ recall.requested \in Nat
    <3>1. 0 \in Nat /\ \A n \in Limits : n \in Nat
      BY DEF Recall!RecallConstants
    <3>2. recall.maxTokens \in Limits /\ recall.requested \in Limits \cup {0}
      BY DEF RecallTypes
    <3> QED BY <3>1, <3>2
  <2> QED BY <2>1 DEF Recall!MaxTokens
<1> HIDE DEF B, C, s, max
<1>4. Represents(s, C)
  BY <1>1, <1>2, RankedBest
<1>5. Trimmed(t, s, Len(s), max)
  BY <1>3, <1>4, TrimKeepsBest DEF Represents
<1> HIDE DEF t
<1>6. /\ t \in Seq(Recall!Items) /\ Ranked(t) /\ Recall!Spent(t) <= max
      /\ \A k \in 1..Len(t) : \E n \in 1..Len(s) : t[k] = s[n]
      /\ \A n \in 1..Len(s) : \/ \E k \in 1..Len(t) : t[k] = s[n]
                              \/ Recall!Spent(t) + Cost[s[n].text] > max
  BY <1>5 DEF Trimmed
<1>8. /\ u \in Seq(Recall!Items) /\ Len(u) <= Len(t) /\ Len(u) \in Nat /\ Len(t) \in Nat
      /\ \A k \in 1..Len(u) : u[k] = t[k]
      /\ u = t \/ (recall.topK # 0 /\ Len(u) = recall.topK)
      /\ u = t \/ \E k \in 0..Len(t) : u = SubSeq(t, 1, k)
  <2>1. CASE recall.topK \in 1..Len(t)
    <3>1. u = SubSeq(t, 1, recall.topK)
      BY <2>1 DEF Recall!TopK
    <3> DEFINE k == recall.topK
    <3>2. k \in 1..Len(t) /\ u = SubSeq(t, 1, k)
      BY <2>1, <3>1
    <3> HIDE DEF k, u
    <3>3. /\ u \in Seq(Recall!Items) /\ Len(u) = k /\ Len(t) \in Nat /\ k \in 0..Len(t) /\ k # 0
          /\ \A n \in 1..k : u[n] = t[n]
      BY <1>6, <3>2
    <3> QED BY <3>2, <3>3 DEF k
  <2>2. CASE recall.topK \notin 1..Len(t)
    <3>1. u = t
      BY <2>2 DEF Recall!TopK
    <3> QED BY <1>6, <3>1
  <2> QED BY <2>1, <2>2
<1>9. outcome.kind = "recalled" /\ outcome.items = u /\ outcome.failed = Recall!FailedBanks
  BY DEF Handed, Recall!Recalled, B, s, max, t
<1> HIDE DEF u
<1>10. DOMAIN u = 1..Len(u) /\ 1..Len(u) \subseteq 1..Len(t)
  BY <1>8
<1>11. outcome.failed = {banks[i] : i \in DOMAIN banks \ Recall!Heard}
  <2>1. ASSUME NEW i \in DOMAIN banks
        PROVE  settled[i].status = "rejected" <=> settled[i].status # "fulfilled"
    <3>1. settled[i] \in Recall!Outcomes /\ settled[i] # Recall!Pending
      BY DEF RecallTypes, Settled
    <3> QED BY <3>1 DEF Recall!Outcomes, Recall!Pending, Recall!Answered, Recall!Rejected
  <2> QED BY <1>9, <2>1 DEF Recall!FailedBanks, Recall!Heard
<1>12. ASSUME NEW m \in 1..Len(u), NEW n \in 1..Len(u), m < n
       PROVE  u[m].text # u[n].text /\ u[m].score >= u[n].score
  <2>1. m \in 1..Len(t) /\ n \in 1..Len(t) /\ u[m] = t[m] /\ u[n] = t[n]
    BY <1>8, <1>10
  <2>2. t[m].text # t[n].text /\ t[m].score >= t[n].score
    BY <1>6, <1>12, <2>1 DEF Ranked
  <2> QED BY <2>1, <2>2
<1>13. ASSUME NEW n \in 1..Len(u)
       PROVE  /\ \E c \in C : c.item = u[n]
              /\ \A c \in C : c.item.text = u[n].text => c.item.score <= u[n].score
  <2>1. PICK m \in 1..Len(s) : u[n] = s[m]
    BY <1>6, <1>8, <1>10
  <2> QED BY <1>4, <2>1 DEF Represents
<1>14. Recall!Spent(u) <= max
  <2>1. CASE u = t
    BY <1>6, <2>1
  <2>2. CASE \E k \in 0..Len(t) : u = SubSeq(t, 1, k)
    <3>1. Recall!Spent(u) <= Recall!Spent(t)
      BY <1>6, <2>2, SpentLess
    <3>2. Recall!Spent(u) \in Nat /\ Recall!Spent(t) \in Nat
      <4>1. \A v \in Seq(Recall!Items) : Recall!Spent(v) \in Nat
        <5> TAKE v \in Seq(Recall!Items)
        <5>1. PICK g \in [0..Len(v) -> Nat] : Recall!Spent(v) = g[Len(v)]
          BY SpentUnfolds
        <5> QED BY <5>1
      <4> QED BY <1>6, <1>8, <4>1
    <3> QED BY <1>3, <1>6, <3>1, <3>2
  <2> QED BY <1>8, <2>1, <2>2
<1>15. ASSUME NEW c \in C
       PROVE  \/ \E n \in 1..Len(u) : u[n].text = c.item.text
              \/ Recall!Spent(u) + Cost[c.item.text] > max
              \/ recall.topK # 0 /\ Len(u) = recall.topK
  <2>1. PICK n \in 1..Len(s) : s[n].text = c.item.text
    BY <1>4 DEF Represents
  <2>2. CASE u = t
    BY <1>6, <2>1, <2>2
  <2> QED BY <1>8, <2>2
<1>16. Recall!RecallIsBest
  BY <1>9, <1>10, <1>11, <1>12, <1>13, <1>14, <1>15 DEF Recall!RecallIsBest, C, max
<1>17. Recall!DeniedRecallsNothing
  BY DEF Recall!DeniedRecallsNothing, Recall!Refusals, Recall!Rejected
<1> QED BY <1>16, <1>17

-----------------------------------------------------------------------------
(* Banks and tools *)

LEMMA DistinctKeepsAll ==
  ASSUME NEW s \in Seq(Int)
  PROVE  Recall!Distinct(s) \in Seq(Int) /\ Candidates(Recall!Distinct(s)) = Candidates(s)
<1> DEFINE T == Seq(Int)
           N == Len(s)
           first == << >>
           Add(kept, n) == IF s[n] \in Recall!ToSet(kept) THEN kept ELSE Append(kept, s[n])
           kept[n \in 0..N] ==
             IF n = 0 THEN <<>>
             ELSE IF s[n] \in Recall!ToSet(kept[n - 1]) THEN kept[n - 1]
                  ELSE Append(kept[n - 1], s[n])
           step == [n \in 1..N |-> [k \in T |-> Add(k, n)]]
<1>1. N \in Nat /\ first \in T /\ \A n \in 1..N : s[n] \in Int
  OBVIOUS
<1>2. step \in Steps(N, T)
  <2>1. ASSUME NEW n \in 1..N, NEW k \in T PROVE Add(k, n) \in T
    OBVIOUS
  <2>2. \A n \in 1..N : [k \in T |-> Add(k, n)] \in [T -> T]
    <3> HIDE DEF T, Add
    <3> QED BY <2>1
  <2> QED BY <2>2 DEF Steps
<1>3. PICK g : Follows(g, N, T, first, step)
  <2> HIDE DEF T, step, first, N
  <2> QED BY <1>1, <1>2, Recursion
<1>4. g = [n \in 0..N |-> IF n = 0 THEN first ELSE Add(g[n - 1], n)]
  <2>1. \A n \in 1..N : step[n][g[n - 1]] = Add(g[n - 1], n)
    <3> HIDE DEF T, kept, first, N, Add
    <3> QED BY <1>1, <1>3 DEF Follows
  <2> HIDE DEF T, step, kept, first, N, Add
  <2>2. \A n \in 0..N : (IF n = 0 THEN first ELSE step[n][g[n - 1]])
                      = (IF n = 0 THEN first ELSE Add(g[n - 1], n))
    BY <1>1, <2>1
  <2> QED BY <1>3, <2>2 DEF Follows
<1>5. kept = [n \in 0..N |-> IF n = 0 THEN first ELSE Add(kept[n - 1], n)]
  <2> HIDE DEF T, step
  <2> QED BY <1>4
<1>6. Recall!Distinct(s) = kept[N]
  BY DEF Recall!Distinct
<1> HIDE DEF kept, step, first, N, Add
<1>7. kept[0] = first /\ \A n \in 0..(N - 1) : kept[n + 1] = Add(kept[n], n + 1)
  BY <1>1, <1>5
<1> DEFINE S == {n \in 0..N : kept[n] \in T /\ Candidates(kept[n]) = {s[m] : m \in 1..n}}
<1>8. 0 \in S
  <2>1. Candidates(first) = {} /\ {s[m] : m \in 1..0} = {}
    BY DEF Candidates, first
  <2> QED BY <1>1, <1>7, <2>1
<1>9. ASSUME NEW n \in 0..(N - 1), n \in S PROVE n + 1 \in S
  <2>1. s[n + 1] \in Int /\ kept[n] \in Seq(Int)
    BY <1>1, <1>9
  <2>2. {s[m] : m \in 1..(n + 1)} = {s[m] : m \in 1..n} \cup {s[n + 1]}
    <3>1. 1..(n + 1) = 1..n \cup {n + 1}
      OBVIOUS
    <3> QED BY <3>1
  <2>3. \A k \in Seq(Int) : Recall!ToSet(k) = Candidates(k)
    BY DEF Recall!ToSet, Candidates
  <2>4. \A k \in Seq(Int), x \in Int :
          Append(k, x) \in Seq(Int) /\ Candidates(Append(k, x)) = Candidates(k) \cup {x}
    <3> TAKE k \in Seq(Int), x \in Int
    <3>1. /\ Append(k, x) \in Seq(Int) /\ Len(Append(k, x)) = Len(k) + 1 /\ Len(k) \in Nat
          /\ Append(k, x)[Len(k) + 1] = x /\ \A m \in 1..Len(k) : Append(k, x)[m] = k[m]
      OBVIOUS
    <3>2. 1..(Len(k) + 1) = 1..Len(k) \cup {Len(k) + 1}
      BY <3>1
    <3> QED BY <3>1, <3>2 DEF Candidates
  <2>5. kept[n + 1] = Add(kept[n], n + 1) /\ Candidates(kept[n]) = {s[m] : m \in 1..n}
    BY <1>7, <1>9
  <2>6. CASE s[n + 1] \in Candidates(kept[n])
    <3>1. kept[n + 1] = kept[n]
      BY <2>1, <2>3, <2>5, <2>6 DEF Add
    <3> QED BY <1>1, <1>9, <2>1, <2>2, <2>5, <2>6, <3>1
  <2>7. CASE s[n + 1] \notin Candidates(kept[n])
    <3>1. kept[n + 1] = Append(kept[n], s[n + 1])
      BY <2>1, <2>3, <2>5, <2>7 DEF Add
    <3>2. kept[n + 1] \in Seq(Int)
          /\ Candidates(kept[n + 1]) = Candidates(kept[n]) \cup {s[n + 1]}
      BY <2>1, <2>4, <3>1
    <3>3. Candidates(kept[n + 1]) = {s[m] : m \in 1..(n + 1)}
      BY <2>2, <2>5, <3>2
    <3>4. n + 1 \in 0..N
      BY <1>1
    <3> QED BY <3>2, <3>3, <3>4
  <2> QED BY <2>6, <2>7
<1>10. N \in S
  <2> HIDE DEF S
  <2>1. \A n \in 0..N : n \in S
    BY <1>1, <1>8, <1>9, Induction
  <2> QED BY <1>1, <2>1
<1> QED BY <1>6, <1>10 DEF Candidates, N

LEMMA BanksOfEntry ==
  ASSUME Recall!RecallConstants, config \in Configs
  PROVE  /\ Recall!ResolveReadBanks(config) \in Seq(Int)
         /\ 0 \notin Candidates(Recall!ResolveReadBanks(config))
         /\ config.write # 0 => config.write \in Candidates(Recall!ResolveReadBanks(config))
         /\ Recall!ToSet(Recall!VisibleBanks(Recall!Resolve(config)))
              = Candidates(Recall!ResolveReadBanks(config))
<1> DEFINE own == IF config.write = Recall!NoBank THEN <<>> ELSE <<config.write>>
           reads == Recall!ResolveReadBanks(config)
<1>1. /\ config.write \in Int /\ config.reads \in Seq(Int) /\ config.absent \in BOOLEAN
      /\ Recall!NoBank \notin Recall!ToSet(config.reads)
  BY DEF Recall!RecallConstants, Recall!Principal
<1>2. /\ own \in Seq(Int) /\ Recall!NoBank \notin Candidates(own)
      /\ config.write # Recall!NoBank => config.write \in Candidates(own)
  BY <1>1 DEF Recall!NoBank, Candidates
<1>3. \A s \in Seq(Int) : Recall!ToSet(s) = Candidates(s)
  BY DEF Recall!ToSet, Candidates
<1>4. \A s, t \in Seq(Int) : s \o t \in Seq(Int) /\ Candidates(s \o t) = Candidates(s) \cup Candidates(t)
  <2> SUFFICES ASSUME NEW s \in Seq(Int), NEW t \in Seq(Int)
               PROVE  s \o t \in Seq(Int) /\ Candidates(s \o t) = Candidates(s) \cup Candidates(t)
    OBVIOUS
  <2>1. /\ s \o t \in Seq(Int) /\ Len(s) \in Nat /\ Len(t) \in Nat
        /\ Len(s \o t) = Len(s) + Len(t)
        /\ \A n \in 1..Len(s) : (s \o t)[n] = s[n]
        /\ \A n \in 1..Len(t) : (s \o t)[Len(s) + n] = t[n]
    OBVIOUS
  <2>2. \A n \in 1..(Len(s) + Len(t)) :
          n \in 1..Len(s) \/ \E m \in 1..Len(t) : n = Len(s) + m
    <3> SUFFICES ASSUME NEW n \in 1..(Len(s) + Len(t)), n \notin 1..Len(s)
                 PROVE  \E m \in 1..Len(t) : n = Len(s) + m
      OBVIOUS
    <3>1. n - Len(s) \in 1..Len(t) /\ n = Len(s) + (n - Len(s))
      BY <2>1
    <3> QED BY <3>1
  <2>3. \A n \in 1..Len(t) : Len(s) + n \in 1..(Len(s) + Len(t))
    BY <2>1
  <2>4. 1..Len(s) \subseteq 1..(Len(s) + Len(t))
    BY <2>1
  <2>5. Candidates(s \o t) \subseteq Candidates(s) \cup Candidates(t)
    BY <2>1, <2>2 DEF Candidates
  <2>6. Candidates(s) \cup Candidates(t) \subseteq Candidates(s \o t)
    BY <2>1, <2>3, <2>4 DEF Candidates
  <2> QED BY <2>1, <2>5, <2>6
<1> HIDE DEF own
<1>5. reads = IF config.absent THEN own
              ELSE Recall!Distinct(own \o Recall!Distinct(config.reads))
  BY DEF Recall!ResolveReadBanks, Recall!VisibleBanks, own
<1>6. reads \in Seq(Int)
      /\ Candidates(reads) = Candidates(own)
           \cup (IF config.absent THEN {} ELSE Candidates(config.reads))
  <2>1. CASE config.absent
    BY <1>2, <1>5, <2>1
  <2>2. CASE ~config.absent
    <3>1. Recall!Distinct(config.reads) \in Seq(Int)
          /\ Candidates(Recall!Distinct(config.reads)) = Candidates(config.reads)
      BY <1>1, DistinctKeepsAll
    <3> DEFINE s == own \o Recall!Distinct(config.reads)
    <3>2. s \in Seq(Int) /\ Candidates(s) = Candidates(own) \cup Candidates(config.reads)
      BY <1>2, <1>4, <3>1
    <3> HIDE DEF s
    <3>3. Recall!Distinct(s) \in Seq(Int) /\ Candidates(Recall!Distinct(s)) = Candidates(s)
      BY <3>2, DistinctKeepsAll
    <3> QED BY <1>5, <2>2, <3>2, <3>3 DEF s
  <2> QED BY <2>1, <2>2
<1> HIDE DEF reads
<1>7. Recall!VisibleBanks(Recall!Resolve(config)) = Recall!Distinct(own \o reads)
  BY DEF Recall!VisibleBanks, Recall!Resolve, own, reads
<1>8. Recall!ToSet(Recall!Distinct(own \o reads)) = Candidates(reads)
  <2>1. own \o reads \in Seq(Int)
        /\ Candidates(own \o reads) = Candidates(own) \cup Candidates(reads)
    BY <1>2, <1>4, <1>6
  <2> DEFINE s == own \o reads
  <2> HIDE DEF s
  <2>2. Recall!Distinct(s) \in Seq(Int) /\ Candidates(Recall!Distinct(s)) = Candidates(s)
    BY <2>1, DistinctKeepsAll DEF s
  <2>3. Candidates(own) \subseteq Candidates(reads)
    BY <1>6
  <2> QED BY <1>3, <2>1, <2>2, <2>3 DEF s
<1> QED BY <1>1, <1>2, <1>3, <1>6, <1>7, <1>8 DEF Recall!NoBank, reads

LEMMA Classified ==
  /\ \A q \in Recall!HostedReads : Recall!ClassifyOperation(q.method, q.path) = "read"
  /\ \A q \in Recall!HostedWrites : Recall!ClassifyOperation(q.method, q.path) = "write"
BY DEF Recall!HostedReads, Recall!HostedWrites, Recall!Send, Recall!ClassifyOperation,
       Recall!Below, Recall!ReadRoots, Recall!WriteRoots

LEMMA ToolsClassified ==
  /\ DOMAIN Recall!ToolSpecs = {"list_pages", "get_page", "create_page", "update_page",
                                "delete_page", "ingest"}
  /\ \A name \in DOMAIN Recall!ToolSpecs :
       LET spec == Recall!ToolSpecs[name] IN
         /\ spec.read <=> name \in Recall!ReadKnowledgeTools
         /\ Recall!ClassifyOperation(spec.request.method, spec.request.path)
              = IF spec.read THEN "read" ELSE "write"
BY DEF Recall!ToolSpecs, Recall!Tool, Recall!Send, Recall!ClassifyOperation, Recall!ReadKnowledgeTools,
       Recall!Below, Recall!ReadRoots, Recall!WriteRoots

LEMMA ToolsAgree ==
  ASSUME Recall!RecallConstants, config \in Configs
  PROVE  Recall!ToolsMatchAccess
<1> SUFFICES ASSUME Recall!Resolves(config) PROVE Recall!ToolsMatchAccess
  BY DEF Recall!ToolsMatchAccess
<1> DEFINE access == Recall!Resolve(config)
           reads == Recall!ResolveReadBanks(config)
           seen == Recall!ToSet(Recall!VisibleBanks(access))
<1>1. access.write = config.write /\ access.reads = reads
  BY DEF Recall!Resolve
<1>2. /\ reads \in Seq(Int) /\ seen = Candidates(reads) /\ 0 \notin seen
      /\ access.write # 0 => access.write \in seen
  BY <1>1, BanksOfEntry
<1>3. reads # <<>> <=> seen # {}
  BY <1>2 DEF Candidates
<1> HIDE DEF access, reads
<1>4. ASSUME NEW name \in DOMAIN Recall!ToolSpecs
      PROVE  name \in Recall!RegisteredTools(access)
               <=> \E b \in seen : Recall!ToolAllowed(access, name, b)
  <2> DEFINE spec == Recall!ToolSpecs[name]
  <2>1. /\ spec.read <=> name \in Recall!ReadKnowledgeTools
        /\ Recall!ClassifyOperation(spec.request.method, spec.request.path)
             = IF spec.read THEN "read" ELSE "write"
    BY ToolsClassified
  <2>2. ASSUME NEW b \in seen
        PROVE  Recall!ToolAllowed(access, name, b) <=> (spec.read \/ b = access.write)
    <3>1. b # Recall!NoBank
      BY <1>2 DEF Recall!NoBank
    <3> HIDE DEF spec
    <3>2. Recall!ToolAllowed(access, name, b)
            <=> /\ Recall!RequireBank(access, b, IF spec.read THEN "read" ELSE "write")
                /\ Recall!Authorized(access, b, spec.request)
      BY <3>1 DEF Recall!ToolAllowed, spec
    <3> QED BY <2>1, <3>2 DEF Recall!Authorized, Recall!RequireBank
  <2>3. name \in Recall!RegisteredTools(access)
          <=> IF spec.read THEN access.reads # <<>> ELSE access.write # Recall!NoBank
    BY <2>1 DEF Recall!RegisteredTools
  <2> HIDE DEF spec, seen
  <2> QED BY <1>1, <1>2, <1>3, <2>2, <2>3 DEF Recall!NoBank
<1>5. ASSUME NEW b \in seen
      PROVE  /\ \A q \in Recall!HostedReads : Recall!Authorized(access, b, q)
             /\ \A q \in Recall!HostedWrites :
                  Recall!Authorized(access, b, q) <=> b = access.write
  BY Classified DEF Recall!Authorized, Recall!RequireBank
<1> QED BY <1>4, <1>5 DEF Recall!ToolsMatchAccess, access

-----------------------------------------------------------------------------
(* The recall.  While it runs nothing but its types is needed: the result  *)
(* is computed in the step that hands it over, from everything that was    *)
(* settled, and no bank settles afterwards.                                *)

RecallInv ==
  /\ RecallTypes
  /\ outcome.kind \in {"new", "running", "nothing", "recalled"}
  /\ outcome.kind = "recalled" => Settled /\ Recall!Refusals = {} /\ outcome = Handed

LEMMA RecallInitially == ASSUME Recall!RecallConstants, Recall!Init PROVE RecallInv
BY DEF Recall!Init, RecallInv, RecallTypes

LEMMA RecallStep ==
  ASSUME Recall!RecallConstants, RecallInv, [Recall!Next]_recallVars
  PROVE  RecallInv'
<1>1. RecallTypes /\ DOMAIN banks = 1..Len(banks) /\ Len(banks) \in Nat
  BY DEF RecallInv, RecallTypes
<1>2. CASE Recall!Start
  <2> DEFINE asked == IF Recall!Resolves(config) THEN Recall!ResolveReadBanks(config) ELSE <<>>
             waiting == [i \in DOMAIN asked |-> Recall!Pending]
  <2>1. asked \in Seq(Int)
    BY <1>1, BanksOfEntry DEF RecallTypes
  <2>2. waiting \in Seq(Recall!Outcomes) /\ Len(waiting) = Len(asked)
    <3> HIDE DEF asked
    <3>1. Recall!Pending \in Recall!Outcomes
      BY DEF Recall!Outcomes
    <3> QED BY <2>1, <3>1
  <2>3. \/ banks' = banks /\ settled' = settled /\ outcome'.kind = "nothing"
        \/ banks' = asked /\ settled' = waiting /\ outcome'.kind = "running"
    BY <1>2 DEF Recall!Start, Recall!Nothing, Recall!Running
  <2>4. config' = config /\ recall' = recall
    BY <1>2 DEF Recall!Start
  <2> HIDE DEF asked, waiting
  <2> QED BY <1>1, <2>1, <2>2, <2>3, <2>4 DEF RecallInv, RecallTypes
<1>3. ASSUME NEW i \in DOMAIN banks, NEW value \in Recall!Outcomes, Recall!Settle(i, value)
      PROVE  RecallInv'
  <2>1. /\ settled' = [settled EXCEPT ![i] = value] /\ outcome = Recall!Running
        /\ config' = config /\ recall' = recall /\ banks' = banks /\ outcome' = outcome
    BY <1>3 DEF Recall!Settle
  <2>2. settled' \in Seq(Recall!Outcomes) /\ Len(settled') = Len(settled)
    BY <1>1, <2>1 DEF RecallTypes
  <2>3. outcome.kind = "running"
    BY <2>1 DEF Recall!Running
  <2> QED BY <1>1, <2>1, <2>2, <2>3 DEF RecallInv, RecallTypes
<1>4. CASE Recall!Finish
  <2>1. UNCHANGED <<config, recall, banks, settled>> /\ Settled
    BY <1>1, <1>4 DEF Recall!Finish, Settled
  <2>2. RecallTypes' /\ Settled'
    BY <1>1, <2>1 DEF RecallTypes, Settled
  <2>3. CASE Recall!Refusals # {}
    <3>1. outcome'.kind = "nothing"
      BY <1>4, <2>3 DEF Recall!Finish, Recall!Nothing
    <3> QED BY <2>2, <3>1 DEF RecallInv
  <2>4. CASE Recall!Refusals = {}
    <3>1. outcome' = Handed
      BY <1>4, <2>4 DEF Recall!Finish, Handed
    <3>2. Handed' = Handed /\ Recall!Refusals' = Recall!Refusals
      BY <2>1
         DEF Handed, Recall!TopK, Recall!MaxTokens, Recall!MergeSettled, Recall!CandidatesOf,
             Recall!FailedBanks, Recall!Refusals
    <3>3. Handed.kind = "recalled"
      BY DEF Handed, Recall!Recalled
    <3> QED BY <2>2, <2>4, <3>1, <3>2, <3>3 DEF RecallInv
  <2> QED BY <2>3, <2>4
<1>5. ASSUME NEW i \in DOMAIN banks,
             \/ Recall!TimeOut(i)
             \/ \E items \in Replies : Recall!Answer(i, items)
             \/ \E reason \in Recall!Reasons : Recall!Fail(i, reason)
      PROVE  RecallInv'
  <2>1. PICK value : value \in Recall!Outcomes /\ Recall!Settle(i, value)
    BY <1>5 DEF Recall!TimeOut, Recall!Answer, Recall!Fail, Recall!Outcomes, Recall!Reasons
  <2> QED BY <1>3, <2>1
<1>6. CASE UNCHANGED recallVars
  <2>1. UNCHANGED <<config, recall, banks, settled, outcome>>
    BY <1>6 DEF recallVars
  <2>2. Handed' = Handed /\ Recall!Refusals' = Recall!Refusals
    BY <2>1
       DEF Handed, Recall!TopK, Recall!MaxTokens, Recall!MergeSettled, Recall!CandidatesOf,
           Recall!FailedBanks, Recall!Refusals
  <2> QED BY <1>1, <2>1, <2>2 DEF RecallInv, RecallTypes, Settled
<1> QED BY <1>2, <1>4, <1>5, <1>6 DEF Recall!Next

LEMMA RecallAlways == AnySpec => [](part = "recall" => RecallInv)
<1>1. AnyInit => (part = "recall" => RecallInv)
  BY RouterConstants, RecallInitially DEF AnyInit
<1>2. (part = "recall" => RecallInv) /\ [AnyNext]_all => (part = "recall" => RecallInv)'
  <2> SUFFICES ASSUME part = "recall" => RecallInv, [AnyNext]_all, part' = "recall"
               PROVE  RecallInv'
    OBVIOUS
  <2>1. part = "recall" /\ [Recall!Next]_recallVars
    BY DEF AnyNext, RecallNext, ClientsNext, HumanNext, PluginNext, ServiceNext, FileNext, all
  <2> QED BY <2>1, RouterConstants, RecallStep
<1> QED BY <1>1, <1>2, PTL DEF AnySpec

\* What is recalled is the best of what was heard in time, within the budget; nothing
\* is when a bank refuses the agent; its tools are registered exactly where the
\* transport lets them through.
THEOREM AlwaysRecallsBest == AnySpec => []RecallIsBest
<1>1. (part = "recall" => RecallInv) => RecallIsBest
  <2> SUFFICES ASSUME RecallInv
               PROVE  Recall!RecallIsBest /\ Recall!DeniedRecallsNothing /\ Recall!ToolsMatchAccess
    BY DEF RecallIsBest
  <2>1. Recall!ToolsMatchAccess
    BY RouterConstants, ToolsAgree DEF RecallInv, RecallTypes
  <2>2. CASE outcome.kind = "recalled"
    BY <2>1, <2>2, RouterConstants, HandedIsBest DEF RecallInv
  <2>3. CASE outcome.kind # "recalled"
    BY <2>1, <2>3 DEF Recall!RecallIsBest, Recall!DeniedRecallsNothing
  <2> QED BY <2>2, <2>3
<1> QED BY <1>1, RecallAlways, PTL

-----------------------------------------------------------------------------
(* Cached clients.  That a commit keeps the newest client rests on the     *)
(* order in which transports are made: the probe's transport is younger    *)
(* than whatever the probe found cached.                                   *)

TransportRecord == [token : Clients!Tokens, latch : Clients!Tokens \cup {0}]

\* The probe, while there is one, is younger than what it found.
ProbeIsYounger ==
  /\ probe \in [mode : {"none", "sent", "replayed"}, via : 0..made, client : 0..made,
                transport : 0..made]
  /\ probe.mode # "none" => probe.client < probe.via /\ probe.transport < probe.via

\* At most one request in flight is the probe's.
RequestsOK ==
  /\ requests \subseteq [via : 1..made, mode : {"call", "probe"}]
  /\ \A r \in requests : r.mode = "probe" => probe.mode = "sent" /\ r.via = probe.via

ClientsInv ==
  /\ Clients!TypeOK /\ ProbeIsYounger /\ RequestsOK
  /\ client <= transport /\ denials \subseteq 1..made
  /\ Clients!ProbeIsIsolated

LEMMA MakeTransport ==
  ASSUME Clients!RouterClientsConstants, Clients!TypeOK, Clients!Make
  PROVE  /\ made \in Nat /\ made' = made + 1 /\ made' \in 0..MaxTransports
         /\ transports' \in [1..made' -> TransportRecord]
         /\ \A n \in 1..made : transports'[n] = transports[n]
         /\ transports'[made'] = [token |-> token, latch |-> 0]
<1>1. made \in Nat /\ [token |-> token, latch |-> 0] \in TransportRecord
  BY DEF Clients!TypeOK, TransportRecord, Clients!RouterClientsConstants
<1>2. transports \in [1..made -> TransportRecord]
  BY DEF Clients!TypeOK, TransportRecord, Clients!NoToken
<1>3. made' = made + 1 /\ made' \in 0..MaxTransports
      /\ transports' = Append(transports, [token |-> token, latch |-> 0])
  BY <1>1 DEF Clients!Make, Clients!NoToken, Clients!TypeOK, Clients!RouterClientsConstants
<1>4. made' = made + 1 /\ transports' \in [1..(made + 1) -> TransportRecord]
      /\ \A n \in 1..made : transports'[n] = transports[n]
      /\ transports'[made + 1] = [token |-> token, latch |-> 0]
  <2> DEFINE e == [token |-> token, latch |-> 0]
  <2>1. e \in TransportRecord
    BY <1>1
  <2> HIDE DEF TransportRecord, e
  <2>2. Extends(Append(transports, e), made, transports, TransportRecord, e)
    BY <1>1, <1>2, <2>1, AppendToFunction
  <2> QED BY <1>3, <2>2 DEF e, Extends
<1> QED BY <1>1, <1>3, <1>4

\* What a call finds: the cached transport of its token, or a new one.
LEMMA CachedOrMade ==
  ASSUME Clients!RouterClientsConstants, ClientsInv, Clients!TransportFor
  PROVE  /\ made \in Nat /\ made' \in made..MaxTransports
         /\ transports' \in [1..made' -> TransportRecord]
         /\ \A n \in 1..made : transports'[n] = transports[n]
         /\ \A n \in (made + 1)..made' : transports'[n].latch = 0
         /\ transport' \in {transport} \cup (made + 1)..made' /\ transport' \in 1..made'
<1> USE DEF ClientsInv, Clients!TypeOK
<1>1. CASE Clients!TokenOf(transport) = token
  BY <1>1 DEF Clients!TransportFor, TransportRecord, Clients!NoToken, Clients!TokenOf,
              Clients!Tokens
<1>2. CASE Clients!TokenOf(transport) # token
  <2>1. Clients!Make /\ transport' = made'
    BY <1>2 DEF Clients!TransportFor
  <2> QED BY <2>1, MakeTransport
<1> QED BY <1>1, <1>2

\* A call leaves the probe and its transport alone.
LEMMA CallsStayApart ==
  ASSUME Clients!RouterClientsConstants, ClientsInv,
         UNCHANGED <<token, accepted, probe, rotations, denials>>,
         made \in Nat, made' \in made..MaxTransports,
         transports' \in [1..made' -> TransportRecord],
         \A n \in 1..made : transports'[n] = transports[n],
         \A n \in (made + 1)..made' : transports'[n].latch = 0,
         transport' \in {transport} \cup (made + 1)..made',
         client' \in {client, transport} \cup (made + 1)..made',
         client' <= transport',
         NEW n \in {client', transport'}, n \in 1..made', Clients!CallOn(n, "call")
  PROVE  ClientsInv' /\ client <= client' /\ transport <= transport'
<1> USE DEF ClientsInv, Clients!TypeOK
<1>1. client \in Nat /\ transport \in Nat /\ client \in 0..made /\ transport \in 0..made
  OBVIOUS
<1>2. client <= client' /\ transport <= transport' /\ client' \in 0..made'
      /\ transport' \in 0..made'
  BY <1>1
<1>3. Clients!TypeOK'
  BY <1>2 DEF TransportRecord, Clients!NoToken, Clients!Tokens
<1>4. ProbeIsYounger'
  BY DEF ProbeIsYounger
<1>5. requests' \subseteq requests \cup {[via |-> n, mode |-> "call"]}
  BY DEF Clients!CallOn
<1>6. RequestsOK'
  BY <1>5 DEF RequestsOK
<1>7. \A m \in 1..made' : transports'[m].latch # 0 <=> m \in denials
  <2> SUFFICES ASSUME NEW m \in 1..made' PROVE transports'[m].latch # 0 <=> m \in denials
    OBVIOUS
  <2>1. CASE m \in 1..made
    BY <2>1 DEF Clients!ProbeIsIsolated, Clients!NoToken
  <2>2. CASE m \notin 1..made
    BY <2>2
  <2> QED BY <2>1, <2>2
<1>8. ASSUME probe.mode = "sent" PROVE probe.via \notin {client', transport'}
  BY <1>1, <1>8 DEF ProbeIsYounger, Clients!ProbeIsIsolated
<1>9. ASSUME probe.mode = "sent" PROVE [via |-> probe.via, mode |-> "call"] \notin requests'
  BY <1>5, <1>8, <1>9 DEF Clients!ProbeIsIsolated
<1>10. Clients!ProbeIsIsolated'
  BY <1>7, <1>8, <1>9 DEF Clients!ProbeIsIsolated, Clients!NoToken
<1> QED BY <1>2, <1>3, <1>4, <1>6, <1>10

LEMMA ClientsStep ==
  ASSUME Clients!RouterClientsConstants, ClientsInv, [Clients!Next]_clientVars
  PROVE  ClientsInv' /\ (Clients!NewestStays \/ UNCHANGED clientVars)
<1> USE DEF ClientsInv, Clients!TypeOK
<1>0. CASE UNCHANGED clientVars
  BY <1>0 DEF clientVars, ProbeIsYounger, RequestsOK, Clients!ProbeIsIsolated
<1>1. CASE Clients!CallClient
  <2>1. CASE Clients!TokenOf(client) = token
    <3>1. UNCHANGED <<transports, made, client, transport>> /\ client # 0
      BY <1>1, <2>1 DEF Clients!CallClient, Clients!ForAgent, Clients!caches, Clients!TokenOf,
                        Clients!NoToken, Clients!Tokens
    <3>2. made \in Nat /\ client \in 1..made /\ transport \in 1..made
      BY <3>1
    <3>3. transports \in [1..made -> TransportRecord]
      BY DEF TransportRecord, Clients!NoToken
    <3> QED BY <1>1, <3>1, <3>2, <3>3, CallsStayApart
            DEF Clients!CallClient, Clients!NewestStays
  <2>2. CASE Clients!TokenOf(client) # token
    <3>1. Clients!TransportFor /\ client' = transport'
      BY <1>1, <2>2 DEF Clients!CallClient, Clients!ForAgent
    <3>2. client' \in {client, transport} \cup (made + 1)..made'
      BY <3>1, CachedOrMade
    <3> QED BY <1>1, <3>1, <3>2, CachedOrMade, CallsStayApart
            DEF Clients!CallClient, Clients!NewestStays
  <2> QED BY <2>1, <2>2
<1>2. CASE Clients!CallTool
  <2>1. client' = client /\ Clients!TransportFor /\ Clients!CallOn(transport', "call")
        /\ UNCHANGED <<token, accepted, probe, rotations, denials>>
    BY <1>2 DEF Clients!CallTool
  <2> QED BY <2>1, CachedOrMade, CallsStayApart DEF Clients!NewestStays
<1>3. CASE Clients!StartProbe
  <2>1. Clients!Make
    BY <1>3 DEF Clients!StartProbe
  <2>2. /\ made \in Nat /\ made' = made + 1 /\ made' \in 0..MaxTransports
        /\ transports' \in [1..made' -> TransportRecord]
        /\ \A n \in 1..made : transports'[n] = transports[n]
        /\ transports'[made'] = [token |-> token, latch |-> 0]
    BY <2>1, MakeTransport
  <2>3. /\ probe' = [mode |-> "sent", via |-> made', client |-> client, transport |-> transport]
        /\ requests' = requests \cup {[via |-> made', mode |-> "probe"]}
        /\ UNCHANGED <<token, accepted, client, transport, rotations, denials>>
        /\ probe = Clients!NoProbe
    BY <1>3 DEF Clients!StartProbe
  <2>4. Clients!TypeOK'
    BY <2>2, <2>3 DEF TransportRecord, Clients!NoToken
  <2>5. ProbeIsYounger'
    BY <2>2, <2>3 DEF ProbeIsYounger
  <2>6. RequestsOK'
    BY <2>2, <2>3 DEF RequestsOK, Clients!NoProbe
  <2>7. \A n \in 1..made' : transports'[n].latch # 0 <=> n \in denials
    <3> SUFFICES ASSUME NEW n \in 1..made' PROVE transports'[n].latch # 0 <=> n \in denials
      OBVIOUS
    <3>1. CASE n \in 1..made
      BY <2>2, <3>1 DEF Clients!ProbeIsIsolated, Clients!NoToken
    <3>2. CASE n = made'
      BY <2>2, <3>2
    <3> QED BY <2>2, <3>1, <3>2
  <2>8. client # made' /\ transport # made' /\ [via |-> made', mode |-> "call"] \notin requests'
    BY <2>2, <2>3 DEF RequestsOK
  <2>9. Clients!ProbeIsIsolated'
    BY <2>3, <2>7, <2>8 DEF Clients!ProbeIsIsolated, Clients!NoToken
  <2> QED BY <2>2, <2>3, <2>4, <2>5, <2>6, <2>9 DEF Clients!NewestStays
<1>4. CASE Clients!Commit
  <2>1. /\ probe.mode = "replayed" /\ probe' = Clients!NoProbe
        /\ client' = IF Clients!Current THEN probe.via ELSE client
        /\ transport' = IF Clients!Current THEN probe.via ELSE transport
        /\ UNCHANGED <<token, accepted, transports, made, requests, rotations, denials>>
    BY <1>4 DEF Clients!Commit
  <2>2. Clients!Current => client < probe.via /\ transport < probe.via
    BY <2>1 DEF Clients!Current, ProbeIsYounger
  <2>3. client' \in 0..made /\ transport' \in 0..made /\ client' <= transport'
        /\ client <= client' /\ transport <= transport'
    BY <2>1, <2>2 DEF ProbeIsYounger
  <2>4. ProbeIsYounger' /\ RequestsOK' /\ Clients!ProbeIsIsolated'
    BY <2>1 DEF ProbeIsYounger, RequestsOK, Clients!ProbeIsIsolated, Clients!NoProbe
  <2> QED BY <2>1, <2>3, <2>4 DEF Clients!NewestStays
<1>5. CASE Clients!DropProbe
  BY <1>5 DEF Clients!DropProbe, Clients!caches, Clients!NoProbe, Clients!NewestStays,
              ProbeIsYounger, RequestsOK, Clients!ProbeIsIsolated
<1>6. CASE Clients!Regrant
  <2>1. accepted' \subseteq Clients!Tokens
    BY <1>6 DEF Clients!Regrant
  <2> QED BY <1>6, <2>1 DEF Clients!Regrant, Clients!caches, Clients!NewestStays,
            ProbeIsYounger, RequestsOK, Clients!ProbeIsIsolated
<1>7. ASSUME NEW r \in requests, NEW status \in Clients!Statuses, Clients!Answer(r, status)
      PROVE  ClientsInv' /\ Clients!NewestStays
  <2> DEFINE n == r.via
  <2>1. n \in 1..made /\ r.mode \in {"call", "probe"} /\ transports[n].token \in Clients!Tokens
        /\ transports[n].token # 0 /\ Clients!TokenOf(n) = transports[n].token
    BY DEF RequestsOK, Clients!TokenOf, Clients!Tokens
  <2>2. /\ requests' = requests \ {r}
        /\ transports' = IF status = "denied"
                         THEN [transports EXCEPT ![n].latch = Clients!TokenOf(n)]
                         ELSE transports
        /\ denials' = IF status = "denied" THEN denials \cup {n} ELSE denials
        /\ probe' = IF r.mode = "call" THEN probe
                    ELSE IF status = "ok" THEN [probe EXCEPT !.mode = "replayed"]
                    ELSE Clients!NoProbe
        /\ UNCHANGED <<token, accepted, made, client, transport, rotations>>
    <3>1. CASE status = "denied"
      BY <1>7, <3>1 DEF Clients!Answer, Clients!Answered
    <3>2. CASE status # "denied"
      <4>1. transports' = [transports EXCEPT ![n].latch = @]
        BY <1>7, <3>2 DEF Clients!Answer, Clients!Answered
      <4>2. [transports EXCEPT ![n].latch = @] = transports
        BY <2>1
      <4> QED BY <1>7, <3>2, <4>1, <4>2 DEF Clients!Answer
    <3> QED BY <3>1, <3>2
  <2>3. Clients!TypeOK'
    <3>1. CASE status = "denied"
      <4>1. [transports[n] EXCEPT !.latch = Clients!TokenOf(n)]
              \in [token : Clients!Tokens, latch : Clients!Tokens \cup {Clients!NoToken}]
        BY <2>1
      <4>2. transports' = [transports EXCEPT ![n] = [@ EXCEPT !.latch = Clients!TokenOf(n)]]
        BY <2>2, <3>1
      <4> QED BY <2>1, <2>2, <4>1, <4>2
    <3>2. CASE status # "denied"
      BY <2>2, <3>2
    <3> QED BY <3>1, <3>2
  <2>4. ProbeIsYounger'
    <3>1. r.mode # "call" => probe.mode = "sent"
      BY <2>1 DEF RequestsOK
    <3> QED BY <2>2, <3>1 DEF ProbeIsYounger, Clients!NoProbe
  <2>5. ASSUME NEW x \in requests', x.mode = "probe"
        PROVE  probe'.mode = "sent" /\ x.via = probe'.via
    <3>1. x = [via |-> x.via, mode |-> x.mode] /\ r = [via |-> r.via, mode |-> r.mode]
      BY <2>2 DEF RequestsOK
    <3>2. r.mode = "call"
      BY <2>1, <2>2, <2>5, <3>1 DEF RequestsOK
    <3> QED BY <2>2, <2>5, <3>2 DEF RequestsOK
  <2>6. RequestsOK'
    BY <2>2, <2>5 DEF RequestsOK
  <2>7. \A m \in 1..made : transports'[m].latch # 0 <=> m \in denials'
    BY <2>1, <2>2 DEF Clients!ProbeIsIsolated, Clients!NoToken
  <2>8. Clients!ProbeIsIsolated'
    BY <2>2, <2>7 DEF Clients!ProbeIsIsolated, Clients!NoToken, Clients!NoProbe
  <2> QED BY <2>1, <2>2, <2>3, <2>4, <2>6, <2>8 DEF Clients!NewestStays
<1>8. ASSUME NEW new \in Clients!Tokens, Clients!Rotate(new)
      PROVE  ClientsInv' /\ Clients!NewestStays
  BY <1>8 DEF Clients!Rotate, Clients!caches, Clients!NewestStays, ProbeIsYounger, RequestsOK,
              Clients!ProbeIsIsolated
<1> QED BY <1>0, <1>1, <1>2, <1>3, <1>4, <1>5, <1>6, <1>7, <1>8 DEF Clients!Next

LEMMA ClientsInitially == Clients!RouterClientsConstants /\ Clients!Init => ClientsInv
<1> SUFFICES ASSUME Clients!RouterClientsConstants, Clients!Init PROVE ClientsInv
  OBVIOUS
<1>1. transports \in [1..made -> [token : Clients!Tokens,
                                 latch : Clients!Tokens \cup {Clients!NoToken}]]
  BY DEF Clients!Init
<1> QED BY <1>1 DEF Clients!Init, ClientsInv, Clients!TypeOK, Clients!RouterClientsConstants,
                    Clients!Tokens, Clients!NoProbe, ProbeIsYounger, RequestsOK,
                    Clients!ProbeIsIsolated

LEMMA AnyClientsStep ==
  ASSUME part = "clients" => ClientsInv, [AnyNext]_all
  PROVE  /\ (part = "clients" => ClientsInv)'
         /\ [part = "clients" => Clients!NewestStays]_clientVars
<1>1. CASE ClientsNext
  BY <1>1, ClientsStep, RouterConstants DEF ClientsNext
<1>2. CASE UNCHANGED <<part, clientVars>>
  BY <1>2, ClientsStep, RouterConstants
<1> QED BY <1>1, <1>2 DEF AnyNext, RecallNext, HumanNext, PluginNext, ServiceNext, FileNext, all

LEMMA ClientsAlways == AnySpec => [](part = "clients" => ClientsInv)
<1>1. AnyInit => (part = "clients" => ClientsInv)
  BY RouterConstants, ClientsInitially DEF AnyInit
<1> QED BY <1>1, AnyClientsStep, PTL DEF AnySpec

\* The commit of a replay probe never puts an older client or transport in place of a
\* newer one, and nobody else uses the probe's transport before it has been answered,
\* for any number of tokens, transports and rotations.
THEOREM NewestIsAlwaysCached == AnySpec => NewestIsCached
<1>1. (part = "clients" => ClientsInv) => (part = "clients" => Clients!ProbeIsIsolated)
  BY DEF ClientsInv
<1> QED BY <1>1, ClientsAlways, AnyClientsStep, PTL DEF AnySpec, NewestIsCached

-----------------------------------------------------------------------------
(* Human sessions.  Every token is issued once, to one login; a login that *)
(* is not over holds a token that nobody else has stored.                  *)

RequestState == [point : {"new", "refused", "sent", "answered"}, token : Human!MaybeToken,
                 principal : Principals \cup {NoOne}]

\* Where a login's token and its promise can be at each point of the command.
LoginOK(l) ==
  /\ login[l].timedOut => /\ login[l].promise = "rejected" /\ login[l].token = 0
                          /\ login[l].point \in {"waiting", "failed"}
  /\ login[l].point \in {"exchanging", "storing", "revoking", "stored", "unrevoked"} =>
       login[l].promise = "code"
  /\ login[l].point \in {"new", "waiting", "exchanging"} => login[l].token = 0
  /\ login[l].token # 0 =>
       /\ login[l].promise = "code"
       /\ login[l].point # "stored" => stored # login[l].token
       /\ login[l].point = "failed" => login[l].token \notin live

TokensApart ==
  \A l, m \in Logins : l # m /\ login[l].token # 0 => login[l].token # login[m].token

SignOutOK(s) ==
  signOut[s].point \in {"deleting", "done"} /\ signOut[s].revoked => signOut[s].token \notin live

HumanInv ==
  /\ Human!TypeOK /\ request \in [Requests -> RequestState] /\ latch \in denied \cup {0}
  /\ (\A l \in Logins : LoginOK(l)) /\ TokensApart
  /\ \A s \in SignOuts : SignOutOK(s)
  /\ \A r \in Requests : request[r].point \in {"sent", "answered"} => request[r].token # 0
  /\ Human!PrincipalOwnsToken /\ Human!RefusedForCause

\* What an agent's request needs of the sessions: they are still there.
LEMMA AgentUndisturbed ==
  ASSUME HumanInv, UNCHANGED <<latch, session, request, denied>>,
         owner' \in Seq(Principals), Len(owner) <= Len(owner'),
         \A n \in 1..Len(owner) : owner'[n] = owner[n]
  PROVE  /\ request' = request /\ request' \in [Requests -> RequestState'] /\ latch' \in denied' \cup {0}
         /\ Human!PrincipalOwnsToken' /\ Human!RefusedForCause'
         /\ latch' \in Human!MaybeToken' /\ session' \in Human!MaybeToken'
         /\ denied' \subseteq Human!Issued' /\ Human!MaybeToken \subseteq Human!MaybeToken'
<1> USE DEF HumanInv, Human!TypeOK
<1>1. Human!Issued \subseteq Human!Issued' /\ Human!MaybeToken \subseteq Human!MaybeToken'
  BY DEF Human!Issued, Human!MaybeToken
<1>2. request' \in [Requests -> RequestState']
  BY <1>1 DEF RequestState
<1>3. Human!PrincipalOwnsToken'
  <2> SUFFICES ASSUME NEW r \in Requests, request[r].point \in {"sent", "answered"}
               PROVE  request[r].principal = owner'[request[r].token]
    BY DEF Human!PrincipalOwnsToken
  <2>1. request[r].token \in 1..Len(owner)
    BY DEF RequestState, Human!Issued, Human!MaybeToken, Human!NoToken
  <2> QED BY <2>1 DEF Human!PrincipalOwnsToken
<1>4. Human!RefusedForCause'
  BY DEF Human!RefusedForCause
<1> QED BY <1>1, <1>2, <1>3, <1>4

LoginState ==
  [point : Human!LoginPoints, promise : {"pending", "code", "rejected"}, consumed : BOOLEAN,
   token : Human!MaybeToken, timedOut : BOOLEAN]

SignOutState ==
  [point : {"new", "revoking", "deleting", "done"}, token : Human!MaybeToken,
   revoked : BOOLEAN, removed : Human!MaybeToken]

\* A step of one login that issues, stores and revokes nothing.
LEMMA LoginAlone ==
  ASSUME HumanInv, NEW l \in Logins, NEW g \in LoginState, g.token = login[l].token,
         login' = [login EXCEPT ![l] = g], LoginOK(l)',
         UNCHANGED <<stored, owner, live, signOut, latch, session, request, denied>>
  PROVE  HumanInv'
<1> USE DEF HumanInv
<1>1. login \in [Logins -> LoginState]
  BY DEF Human!TypeOK, LoginState
<1>2. login' \in [Logins -> LoginState]
  BY <1>1
<1>3. Human!TypeOK' /\ request' \in [Requests -> RequestState']
  BY <1>2 DEF Human!TypeOK, LoginState, Human!MaybeToken, Human!Issued, RequestState
<1>4. ASSUME NEW m \in Logins PROVE LoginOK(m)'
  <2>1. CASE m # l
    BY <1>1, <2>1 DEF LoginOK
  <2> QED BY <2>1
<1>5. TokensApart'
  BY <1>1 DEF TokensApart
<1> QED BY <1>3, <1>4, <1>5 DEF SignOutOK, Human!PrincipalOwnsToken, Human!RefusedForCause

\* A router that revokes tokens, or a store that is emptied, disturbs no other part.
LEMMA Revoking ==
  ASSUME HumanInv, live' \subseteq live, stored' \in {stored, 0}, UNCHANGED <<owner, login>>
  PROVE  (\A l \in Logins : LoginOK(l)') /\ TokensApart'
         /\ stored' \in Human!MaybeToken' /\ live' \subseteq Human!Issued'
BY DEF HumanInv, LoginOK, TokensApart, Human!TypeOK, Human!MaybeToken, Human!Issued,
       Human!NoToken

LEMMA LoginStepKeeps ==
  ASSUME HumanInv, NEW l \in Logins, Human!LoginStep(l)
  PROVE  HumanInv'
<1> USE DEF HumanInv
<1>1. /\ login \in [Logins -> LoginState] /\ login[l] \in LoginState
      /\ login[l].token \in Human!MaybeToken /\ LoginOK(l)
  BY DEF Human!TypeOK, LoginState
<1>2. Human!Issued = 1..Len(owner) /\ Len(owner) \in Nat /\ owner \in Seq(Principals)
  BY DEF Human!Issued, Human!TypeOK
<1>3. ASSUME NEW g \in LoginState, g.token = login[l].token,
             Human!SetLogin(l, g), LoginOK(l)',
             UNCHANGED <<stored, owner, live, signOut, Human!agent>>
      PROVE  HumanInv'
  BY <1>3, LoginAlone DEF Human!SetLogin, Human!agent
<1>4. CASE Human!OpenBrowser(l)
  <2>1. PICK point \in {"waiting", "failed"} :
          Human!SetLogin(l, [login[l] EXCEPT !.point = point])
    BY <1>4 DEF Human!OpenBrowser
  <2> DEFINE g == [login[l] EXCEPT !.point = point]
  <2>2. g \in LoginState /\ g.token = login[l].token
    BY <1>1 DEF LoginState, Human!LoginPoints
  <2>3. LoginOK(l)'
    BY <1>1, <1>4, <2>1 DEF LoginOK, Human!SetLogin, Human!OpenBrowser, Human!AtLogin, LoginState
  <2> QED BY <1>3, <1>4, <2>1, <2>2, <2>3 DEF Human!OpenBrowser
<1>5. CASE Human!Timeout(l)
  <2> DEFINE g == [login[l] EXCEPT !.timedOut = login[l].promise = "pending",
                                   !.promise = Human!SettleWith(l, "rejected")]
  <2>1. g \in LoginState /\ g.token = login[l].token
    BY <1>1 DEF LoginState, Human!SettleWith
  <2>2. LoginOK(l)'
    BY <1>1, <1>5 DEF LoginOK, Human!SetLogin, Human!Timeout, Human!SettleWith, LoginState
  <2> QED BY <1>3, <1>5, <2>1, <2>2 DEF Human!Timeout
<1>6. CASE Human!Resume(l)
  <2> DEFINE g == [login[l] EXCEPT
                     !.point = IF login[l].promise = "code" THEN "exchanging" ELSE "failed"]
  <2>1. g \in LoginState /\ g.token = login[l].token
    BY <1>1 DEF LoginState, Human!LoginPoints
  <2>2. LoginOK(l)'
    BY <1>1, <1>6 DEF LoginOK, Human!SetLogin, Human!Resume, Human!AtLogin, LoginState
  <2> QED BY <1>3, <1>6, <2>1, <2>2 DEF Human!Resume
<1>7. CASE Human!RefuseExchange(l)
  <2> DEFINE g == [login[l] EXCEPT !.point = "failed"]
  <2>1. g \in LoginState /\ g.token = login[l].token
    BY <1>1 DEF LoginState, Human!LoginPoints
  <2>2. LoginOK(l)'
    BY <1>1, <1>7 DEF LoginOK, Human!SetLogin, Human!RefuseExchange, Human!AtLogin, LoginState
  <2> QED BY <1>3, <1>7, <2>1, <2>2 DEF Human!RefuseExchange
<1>8. ASSUME NEW valid \in BOOLEAN, Human!Callback(l, valid) PROVE HumanInv'
  <2> DEFINE g == [login[l] EXCEPT !.consumed = TRUE,
                     !.promise = Human!SettleWith(l, IF valid THEN "code" ELSE "rejected")]
  <2>1. g \in LoginState /\ g.token = login[l].token
    BY <1>1 DEF LoginState, Human!SettleWith
  <2>2. LoginOK(l)'
    BY <1>1, <1>8 DEF LoginOK, Human!SetLogin, Human!Callback, Human!SettleWith, Human!AtLogin,
                      LoginState
  <2> QED BY <1>3, <1>8, <2>1, <2>2 DEF Human!Callback
<1>9. ASSUME NEW principal \in Principals, NEW arrives \in BOOLEAN,
             Human!Exchange(l, principal, arrives)
      PROVE  HumanInv'
  <2>1. /\ owner' = Append(owner, principal) /\ live' = live \cup {Len(owner')}
        /\ UNCHANGED <<stored, signOut, latch, session, request, denied>>
        /\ login[l].point = "exchanging" /\ login[l].token = 0
    BY <1>1, <1>9 DEF Human!Exchange, Human!agent, Human!AtLogin, LoginOK
  <2>2. /\ owner' \in Seq(Principals) /\ Len(owner') = Len(owner) + 1
        /\ \A n \in 1..Len(owner) : owner'[n] = owner[n]
    BY <1>2, <2>1, AppendProperties
  <2>3. Human!Issued' = 1..(Len(owner) + 1) /\ Human!MaybeToken \subseteq Human!MaybeToken'
        /\ Len(owner) + 1 \notin Human!MaybeToken
    BY <1>2, <2>2 DEF Human!Issued, Human!MaybeToken, Human!NoToken
  <2> DEFINE g == [login[l] EXCEPT !.point = IF arrives THEN "storing" ELSE "failed",
                                   !.token = IF arrives THEN Len(owner) + 1 ELSE 0]
  <2>4. login' = [login EXCEPT ![l] = g]
    BY <1>9, <2>2 DEF Human!Exchange, Human!SetLogin, Human!NoToken
  <2>5. g \in LoginState'
    <3>1. (IF arrives THEN Len(owner) + 1 ELSE 0) \in Human!MaybeToken'
      BY <1>2, <2>3 DEF Human!MaybeToken, Human!NoToken
    <3> QED BY <1>1, <3>1 DEF LoginState, Human!LoginPoints
  <2>6. login' \in [Logins -> LoginState']
    <3>1. LoginState \subseteq LoginState'
      BY <2>3 DEF LoginState
    <3> QED BY <1>1, <2>4, <2>5, <3>1
  <2>7. stored' \in Human!MaybeToken' /\ live' \subseteq Human!Issued'
    BY <1>2, <2>1, <2>2, <2>3 DEF Human!TypeOK
  <2>8. signOut' \in [SignOuts -> SignOutState']
    <3>1. SignOutState \subseteq SignOutState'
      BY <2>3 DEF SignOutState
    <3> QED BY <2>1, <3>1 DEF Human!TypeOK, SignOutState
  <2> HIDE DEF g
  <2>9. /\ request' = request /\ request' \in [Requests -> RequestState']
        /\ latch' \in denied' \cup {0}
        /\ Human!PrincipalOwnsToken' /\ Human!RefusedForCause'
        /\ latch' \in Human!MaybeToken' /\ session' \in Human!MaybeToken'
        /\ denied' \subseteq Human!Issued'
    BY <1>2, <2>1, <2>2, AgentUndisturbed
  <2>10. Human!TypeOK'
    BY <2>2, <2>6, <2>7, <2>8, <2>9 DEF Human!TypeOK, LoginState, SignOutState
  <2>11. ASSUME NEW m \in Logins PROVE LoginOK(m)'
    <3>1. CASE m # l
      <4>1. login'[m] = login[m] /\ login[m].token \in Human!MaybeToken
        BY <1>1, <2>4, <3>1 DEF LoginState
      <4> QED BY <2>1, <2>2, <2>3, <4>1 DEF LoginOK, Human!TypeOK
    <3>2. CASE m = l
      <4>1. login'[l].token # 0 => login'[l].token = Len(owner) + 1 /\ login'[l].point = "storing"
        BY <1>1, <2>4 DEF g
      <4>2. /\ login'[l].promise = "code" /\ ~login'[l].timedOut
            /\ login'[l].point \in {"storing", "failed"}
        BY <1>1, <2>1, <2>4 DEF g, LoginOK, LoginState
      <4>3. stored # Len(owner) + 1
        BY <2>3 DEF Human!TypeOK
      <4> QED BY <2>1, <3>2, <4>1, <4>2, <4>3 DEF LoginOK
    <3> QED BY <3>1, <3>2
  <2>12. TokensApart'
    <3>1. \A m \in Logins \ {l} : login'[m] = login[m] /\ login[m].token # Len(owner) + 1
      BY <1>1, <2>3, <2>4 DEF LoginState
    <3>2. login'[l].token \in {0, Len(owner) + 1}
      BY <1>1, <2>4 DEF g
    <3> QED BY <3>1, <3>2 DEF TokensApart
  <2>13. \A s \in SignOuts : SignOutOK(s)'
    BY <2>1, <2>2, <2>3 DEF SignOutOK, Human!TypeOK
  <2> QED BY <2>9, <2>10, <2>11, <2>12, <2>13
<1>10. CASE Human!Store(l)
  <2>1. login[l].point = "storing" /\ UNCHANGED <<owner, live, signOut, Human!agent>>
    BY <1>10 DEF Human!Store, Human!AtLogin
  <2>2. CASE UNCHANGED stored /\ Human!SetLogin(l, [login[l] EXCEPT !.point = "revoking"])
    <3> DEFINE g == [login[l] EXCEPT !.point = "revoking"]
    <3>1. g \in LoginState /\ g.token = login[l].token
      BY <1>1 DEF LoginState, Human!LoginPoints
    <3>2. LoginOK(l)'
      BY <1>1, <2>1, <2>2 DEF LoginOK, Human!SetLogin, LoginState
    <3> QED BY <1>3, <2>1, <2>2, <3>1, <3>2
  <2>3. CASE stored' = login[l].token
             /\ Human!SetLogin(l, [login[l] EXCEPT !.point = "stored"])
    <3> DEFINE g == [login[l] EXCEPT !.point = "stored"]
    <3>1. g \in LoginState /\ g.token = login[l].token /\ login' = [login EXCEPT ![l] = g]
      BY <1>1, <2>3 DEF LoginState, Human!LoginPoints, Human!SetLogin
    <3>2. login' \in [Logins -> LoginState]
      BY <1>1, <3>1
    <3>3. Human!TypeOK'
      BY <1>1, <2>1, <2>3, <3>2
         DEF Human!TypeOK, LoginState, Human!agent, Human!MaybeToken, Human!Issued
    <3>4. ASSUME NEW m \in Logins PROVE LoginOK(m)'
      <4>1. CASE m # l
        <5>1. login[m].token # 0 => login[m].token # login[l].token
          BY <4>1 DEF TokensApart
        <5> QED BY <1>1, <2>1, <2>3, <3>1, <4>1, <5>1 DEF LoginOK
      <4>2. CASE m = l
        BY <1>1, <2>1, <2>3, <3>1, <4>2 DEF LoginOK, LoginState
      <4> QED BY <4>1, <4>2
    <3>5. TokensApart'
      BY <1>1, <3>1 DEF TokensApart
    <3> QED BY <2>1, <3>3, <3>4, <3>5
            DEF SignOutOK, Human!PrincipalOwnsToken, Human!RefusedForCause, Human!agent,
                RequestState, Human!MaybeToken, Human!Issued
  <2> QED BY <1>10, <2>2, <2>3 DEF Human!Store
<1>11. CASE Human!RevokeIssued(l)
  <2>1. login[l].point = "revoking" /\ UNCHANGED <<stored, owner, signOut, Human!agent>>
    BY <1>11 DEF Human!RevokeIssued, Human!AtLogin
  <2>2. CASE UNCHANGED live /\ Human!SetLogin(l, [login[l] EXCEPT !.point = "unrevoked"])
    <3> DEFINE g == [login[l] EXCEPT !.point = "unrevoked"]
    <3>1. g \in LoginState /\ g.token = login[l].token
      BY <1>1 DEF LoginState, Human!LoginPoints
    <3>2. LoginOK(l)'
      BY <1>1, <2>1, <2>2 DEF LoginOK, Human!SetLogin, LoginState
    <3> QED BY <1>3, <2>1, <2>2, <3>1, <3>2
  <2>3. CASE live' = live \ {login[l].token}
             /\ Human!SetLogin(l, [login[l] EXCEPT !.point = "failed"])
    <3> DEFINE g == [login[l] EXCEPT !.point = "failed"]
    <3>1. g \in LoginState /\ g.token = login[l].token /\ login' = [login EXCEPT ![l] = g]
      BY <1>1, <2>3 DEF LoginState, Human!LoginPoints, Human!SetLogin
    <3>2. login' \in [Logins -> LoginState]
      BY <1>1, <3>1
    <3>3. Human!TypeOK'
      BY <1>1, <2>1, <2>3, <3>2
         DEF Human!TypeOK, LoginState, Human!agent, Human!MaybeToken, Human!Issued
    <3>4. ASSUME NEW m \in Logins PROVE LoginOK(m)'
      <4>1. CASE m # l
        BY <1>1, <2>1, <2>3, <3>1, <4>1 DEF LoginOK
      <4>2. CASE m = l
        BY <1>1, <2>1, <2>3, <3>1, <4>2 DEF LoginOK, LoginState
      <4> QED BY <4>1, <4>2
    <3>5. TokensApart'
      BY <1>1, <3>1 DEF TokensApart
    <3> QED BY <2>1, <2>3, <3>3, <3>4, <3>5
            DEF SignOutOK, Human!PrincipalOwnsToken, Human!RefusedForCause, Human!agent,
                RequestState, Human!MaybeToken, Human!Issued
  <2> QED BY <1>11, <2>2, <2>3 DEF Human!RevokeIssued
<1> QED BY <1>4, <1>5, <1>6, <1>7, <1>8, <1>9, <1>10, <1>11 DEF Human!LoginStep

LEMMA SignOutStepKeeps ==
  ASSUME HumanInv, NEW s \in SignOuts, Human!SignOutStep(s)
  PROVE  HumanInv'
<1> USE DEF HumanInv
<1>1. /\ signOut \in [SignOuts -> SignOutState] /\ signOut[s] \in SignOutState
      /\ stored \in Human!MaybeToken /\ 0 \notin live
  BY DEF Human!TypeOK, SignOutState, Human!Issued
<1>2. UNCHANGED <<owner, login, latch, session, request, denied>>
  BY DEF Human!SignOutStep, Human!ReadStored, Human!RevokeStored, Human!Delete, Human!agent
<1>3. ASSUME NEW g \in SignOutState, signOut' = [signOut EXCEPT ![s] = g],
             live' \subseteq live, stored' \in {stored, 0}, SignOutOK(s)'
      PROVE  HumanInv'
  <2>1. signOut' \in [SignOuts -> SignOutState]
    BY <1>1, <1>3
  <2>2. (\A l \in Logins : LoginOK(l)') /\ TokensApart'
        /\ stored' \in Human!MaybeToken' /\ live' \subseteq Human!Issued'
    BY <1>2, <1>3, Revoking
  <2>3. Human!TypeOK' /\ request' \in [Requests -> RequestState']
    BY <1>2, <2>1, <2>2
       DEF Human!TypeOK, SignOutState, Human!MaybeToken, Human!Issued, RequestState
  <2>4. ASSUME NEW u \in SignOuts PROVE SignOutOK(u)'
    BY <1>1, <1>3 DEF SignOutOK
  <2> QED BY <1>2, <2>2, <2>3, <2>4 DEF Human!PrincipalOwnsToken, Human!RefusedForCause
<1>4. CASE Human!ReadStored(s)
  <2> DEFINE g == [signOut[s] EXCEPT !.token = stored, !.revoked = stored = 0,
                     !.point = IF stored = 0 THEN "done" ELSE "revoking"]
  <2>1. g \in SignOutState /\ signOut' = [signOut EXCEPT ![s] = g] /\ UNCHANGED <<stored, live>>
    BY <1>1, <1>4 DEF Human!ReadStored, Human!SetSignOut, Human!NoToken, SignOutState
  <2>2. SignOutOK(s)'
    BY <1>1, <2>1 DEF SignOutOK, SignOutState
  <2> QED BY <1>3, <2>1, <2>2
<1>5. CASE Human!RevokeStored(s)
  <2>1. PICK reached \in BOOLEAN, confirmed \in BOOLEAN :
          /\ confirmed => reached /\ signOut[s].token \in live
          /\ live' = IF reached THEN live \ {signOut[s].token} ELSE live
          /\ Human!SetSignOut(s, [signOut[s] EXCEPT !.point = "deleting",
                                                    !.revoked = confirmed])
    BY <1>5 DEF Human!RevokeStored
  <2> DEFINE g == [signOut[s] EXCEPT !.point = "deleting", !.revoked = confirmed]
  <2>2. g \in SignOutState /\ signOut' = [signOut EXCEPT ![s] = g] /\ UNCHANGED stored
    BY <1>1, <1>5, <2>1 DEF Human!RevokeStored, Human!SetSignOut, SignOutState
  <2>3. SignOutOK(s)'
    BY <1>1, <2>1, <2>2 DEF SignOutOK, SignOutState
  <2> QED BY <1>3, <2>1, <2>2, <2>3
<1>6. CASE Human!Delete(s)
  <2> DEFINE g == [signOut[s] EXCEPT !.point = "done", !.removed = stored]
  <2>1. g \in SignOutState /\ signOut' = [signOut EXCEPT ![s] = g] /\ stored' = 0
        /\ live' = live /\ signOut[s].point = "deleting"
    BY <1>1, <1>6
       DEF Human!Delete, Human!AtSignOut, Human!SetSignOut, Human!NoToken, SignOutState
  <2>2. SignOutOK(s)'
    BY <1>1, <2>1 DEF SignOutOK, SignOutState
  <2> QED BY <1>3, <2>1, <2>2
<1> QED BY <1>4, <1>5, <1>6 DEF Human!SignOutStep

LEMMA AgentStepKeeps ==
  ASSUME HumanInv, NEW r \in Requests,
         Human!SendRequest(r) \/ \E status \in Human!Statuses : Human!AnswerRequest(r, status)
  PROVE  HumanInv'
<1> USE DEF HumanInv
<1>1. UNCHANGED <<stored, owner, live, login, signOut>>
  BY DEF Human!SendRequest, Human!AnswerRequest
<1>2. stored \in Human!MaybeToken /\ session \in Human!MaybeToken /\ latch \in Human!MaybeToken
      /\ denied \subseteq Human!Issued /\ Human!MaybeToken = 1..Len(owner) \cup {0}
      /\ owner \in Seq(Principals) /\ Human!Issued = 1..Len(owner)
  BY DEF Human!TypeOK, Human!MaybeToken, Human!Issued, Human!NoToken
<1>3. ASSUME NEW g \in RequestState, request' = [request EXCEPT ![r] = g],
             g.point \in {"sent", "answered"} => g.token # 0 /\ g.principal = owner[g.token],
             g.point = "refused" => g.token \in denied' \cup {0},
             latch' \in denied' \cup {0}, session' \in Human!MaybeToken,
             denied \subseteq denied', denied' \subseteq Human!Issued
      PROVE  HumanInv'
  <2>1. request' \in [Requests -> RequestState']
    BY <1>1, <1>3 DEF RequestState, Human!MaybeToken, Human!Issued
  <2>2. latch' \in Human!MaybeToken
    BY <1>3 DEF Human!MaybeToken, Human!NoToken
  <2>3. Human!TypeOK'
    BY <1>1, <1>3, <2>2 DEF Human!TypeOK, Human!MaybeToken, Human!Issued
  <2>4. \A q \in Requests : request'[q] = IF q = r THEN g ELSE request[q]
    BY <1>3
  <2>5. Human!PrincipalOwnsToken' /\ Human!RefusedForCause'
        /\ \A q \in Requests : request'[q].point \in {"sent", "answered"} => request'[q].token # 0
    BY <1>1, <1>3, <2>4 DEF Human!PrincipalOwnsToken, Human!RefusedForCause, Human!NoToken
  <2> QED BY <1>1, <1>3, <2>1, <2>3, <2>5 DEF LoginOK, TokensApart, SignOutOK
<1>4. CASE Human!SendRequest(r)
  <2> DEFINE refused == stored = 0 \/ stored = latch
             g == IF refused THEN [point |-> "refused", token |-> stored, principal |-> NoOne]
                  ELSE [point |-> "sent", token |-> stored, principal |-> owner[stored]]
  <2>1. /\ session' = IF stored = 0 THEN session ELSE stored
        /\ latch' = IF refused THEN latch ELSE 0
        /\ denied' = denied
    BY <1>4 DEF Human!SendRequest, Human!Credential, Human!Refused, Human!NoToken
  <2>2. request' = [request EXCEPT ![r] = g]
    <3>1. CASE refused
      BY <1>4, <3>1 DEF Human!SendRequest, Human!Refused, Human!NoToken
    <3>2. CASE ~refused
      <4>1. session' = stored
        BY <2>1, <3>2
      <4> QED BY <1>4, <3>2, <4>1 DEF Human!SendRequest, Human!Refused, Human!NoToken
    <3> QED BY <3>1, <3>2
  <2>3. g \in RequestState
    <3>1. stored # 0 => owner[stored] \in Principals
      BY <1>2, ElementOfSeq
    <3> QED BY <1>2, <3>1 DEF RequestState
  <2>4. stored = latch => stored \in denied \cup {0}
    OBVIOUS
  <2> QED BY <1>2, <1>3, <2>1, <2>2, <2>3, <2>4
<1>5. ASSUME NEW status \in Human!Statuses, Human!AnswerRequest(r, status) PROVE HumanInv'
  <2> DEFINE g == [request[r] EXCEPT !.point = "answered"]
  <2>1. /\ request[r].point = "sent" /\ request' = [request EXCEPT ![r] = g]
        /\ latch' = IF status = "denied" THEN request[r].token ELSE latch
        /\ denied' = IF status = "denied" THEN denied \cup {request[r].token} ELSE denied
        /\ session' = session
    BY <1>5 DEF Human!AnswerRequest, Human!Answered
  <2>2. g \in RequestState /\ g.token = request[r].token /\ g.principal = request[r].principal
        /\ g.point = "answered" /\ request[r].token \in 1..Len(owner)
    BY <1>2, <2>1 DEF RequestState
  <2>3. g.principal = owner[g.token]
    BY <2>1, <2>2 DEF Human!PrincipalOwnsToken
  <2> QED BY <1>2, <1>3, <2>1, <2>2, <2>3
<1> QED BY <1>4, <1>5

LEMMA HumanStep ==
  ASSUME HumanInv, [Human!Next]_humanVars
  PROVE  HumanInv'
<1>1. CASE Human!Expire
  <2>1. live' \subseteq live /\ UNCHANGED <<stored, owner, login, signOut, latch, session,
                                            request, denied>>
    BY <1>1 DEF Human!Expire, Human!agent
  <2>2. (\A l \in Logins : LoginOK(l)') /\ TokensApart' /\ live' \subseteq Human!Issued'
    BY <2>1, Revoking
  <2>3. Human!TypeOK' /\ request' \in [Requests -> RequestState']
    BY <2>1, <2>2 DEF HumanInv, Human!TypeOK, Human!MaybeToken, Human!Issued, RequestState
  <2> QED BY <2>1, <2>2, <2>3
          DEF HumanInv, SignOutOK, Human!PrincipalOwnsToken, Human!RefusedForCause
<1>2. CASE UNCHANGED humanVars
  BY <1>2 DEF humanVars, HumanInv, Human!TypeOK, RequestState, LoginOK, TokensApart, SignOutOK,
      Human!PrincipalOwnsToken, Human!RefusedForCause, Human!MaybeToken, Human!Issued
<1> QED BY <1>1, <1>2, LoginStepKeeps, SignOutStepKeeps, AgentStepKeeps DEF Human!Next

LEMMA HumanInitially == Human!Init => HumanInv
<1> SUFFICES ASSUME Human!Init PROVE HumanInv
  OBVIOUS
<1>1. owner = <<>> /\ Len(owner) = 0 /\ owner \in Seq(Principals)
  BY DEF Human!Init
<1>2. Human!TypeOK /\ request \in [Requests -> RequestState]
  BY <1>1 DEF Human!Init, Human!TypeOK, Human!MaybeToken, Human!Issued, Human!NoToken,
              Human!NewLogin, Human!NewSignOut, Human!NewRequest, Human!LoginPoints, RequestState
<1> QED BY <1>2 DEF HumanInv, Human!Init, Human!NewLogin, Human!NewSignOut, Human!NewRequest,
                    Human!NoToken, LoginOK, TokensApart, SignOutOK,
                    Human!PrincipalOwnsToken, Human!RefusedForCause

LEMMA HumanAlways == AnySpec => [](part = "human" => HumanInv)
<1> DEFINE Inv == part = "human" => HumanInv
<1>1. AnyInit => Inv
  BY HumanInitially DEF AnyInit
<1>2. Inv /\ [AnyNext]_all => Inv'
  <2> SUFFICES ASSUME Inv, [AnyNext]_all PROVE Inv'
    OBVIOUS
  <2>1. CASE HumanNext
    BY <2>1, HumanStep DEF HumanNext
  <2>2. CASE UNCHANGED <<part, humanVars>>
    BY <2>2, HumanStep
  <2> QED BY <2>1, <2>2
          DEF AnyNext, RecallNext, ClientsNext, PluginNext, ServiceNext, FileNext, all
<1> QED BY <1>1, <1>2, PTL DEF AnySpec

\* A login that failed or ran out of time leaves no session in the store nor, if the router
\* could be told, at the router; a session somebody was told is signed out is revoked:
\* for any number of logins and sign-outs that overlap.
THEOREM FailedLoginsLeaveNothing == AnySpec => []FailedLoginLeavesNothing
<1>1. (part = "human" => HumanInv) => FailedLoginLeavesNothing
  BY DEF HumanInv, LoginOK, SignOutOK, FailedLoginLeavesNothing,
         Human!FailedLoginLeavesNothing, Human!SignedOutIsRevoked, Human!NoToken
<1> QED BY <1>1, HumanAlways, PTL

\* A request carries the owner of its token, and is refused without asking the router only
\* for want of a session or after the router denied that very session.
THEOREM AlwaysRefusedForCause == AnySpec => []RefusedForCause
<1>1. (part = "human" => HumanInv) => RefusedForCause
  BY DEF HumanInv, RefusedForCause
<1> QED BY <1>1, HumanAlways, PTL

-----------------------------------------------------------------------------
(* The retain hooks of a session.  The code orders requests by an ordinal    *)
(* that starts again with every entry of inFlight; the history numbers them  *)
(* once and for all.  The two orders must agree among the requests of an     *)
(* entry (SameOrder), and an unanswered request must be newer than what was  *)
(* recorded in the one order just when it is in the other (NewerAgrees).     *)

RequestOf(d) == inFlight.requests[d]

UnansweredRequests == {d \in Plugin!Pending : ~RequestOf(d).answered}

SessionOK ==
  /\ inFlight = [ active |-> inFlight.active, requests |-> inFlight.requests,
                  nextOrdinal |-> inFlight.nextOrdinal,
                  retainedOrdinal |-> inFlight.retainedOrdinal,
                  ended |-> inFlight.ended ]
  /\ Plugin!Pending \subseteq Digests
  /\ inFlight.requests \in [Plugin!Pending -> [ordinal : Nat, number : Nat, answered : BOOLEAN]]
  /\ inFlight.nextOrdinal \in Nat
  /\ inFlight.retainedOrdinal \in Int
  /\ inFlight.active \in BOOLEAN
  /\ inFlight.ended \in BOOLEAN
  /\ inFlight.active <=> Plugin!Pending # {}
  /\ inFlight.retainedOrdinal < inFlight.nextOrdinal

HistoryOK ==
  /\ clock \in Nat
  /\ newest = [number |-> newest.number, digest |-> newest.digest]
  /\ newest.number \in 0 .. clock
  /\ \A d \in Plugin!Pending : RequestOf(d).number \in 1 .. clock

SameOrder ==
  /\ \A d \in Plugin!Pending : RequestOf(d).ordinal < inFlight.nextOrdinal
  /\ \A d, e \in Plugin!Pending :
       /\ RequestOf(d).ordinal < RequestOf(e).ordinal
            <=> RequestOf(d).number < RequestOf(e).number
       /\ RequestOf(d).ordinal = RequestOf(e).ordinal => d = e

NewerAgrees ==
  \A d \in UnansweredRequests :
    RequestOf(d).ordinal > inFlight.retainedOrdinal
      <=> RequestOf(d).number > newest.number

\* A request under way is the one its digest has an unanswered entry for.
SentOK == \A x \in sent :
            /\ x[1] \in UnansweredRequests
            /\ x = <<x[1], RequestOf(x[1]).number>>

HooksOK ==
  /\ hook \in [Hooks -> [point : {"new", "waiting", "resumed", "done"},
                         name : Plugin!HookNames, digest : Digests \cup {NoDigest}]]
  /\ retained \in Digests \cup {NoDigest}

HooksInv == SessionOK /\ HistoryOK /\ SameOrder /\ NewerAgrees /\ SentOK /\ HooksOK
        /\ Plugin!KeptIsNewest

-----------------------------------------------------------------------------
LEMMA HooksBegin == Plugin!Init => HooksInv
<1> SUFFICES ASSUME Plugin!Init PROVE HooksInv
  OBVIOUS
<1>1. /\ inFlight = Plugin!NoSession /\ retained = NoDigest /\ clock = 0 /\ sent = {}
      /\ newest = [number |-> 0, digest |-> NoDigest]
      /\ evictions = MaxEvictions /\ hook = [h \in Hooks |-> Plugin!NewHook]
  BY DEF Plugin!Init
<1>2. Plugin!Pending = {} /\ inFlight.requests = <<>> /\ DOMAIN <<>> = {}
  BY <1>1 DEF Plugin!Pending, Plugin!NoSession
<1>3. SessionOK
  BY <1>1, <1>2 DEF SessionOK, Plugin!NoSession
<1>4. HistoryOK /\ SameOrder /\ NewerAgrees /\ SentOK
  BY <1>1, <1>2 DEF HistoryOK, SameOrder, NewerAgrees, SentOK, UnansweredRequests
<1>5. HooksOK /\ Plugin!KeptIsNewest
  BY <1>1 DEF HooksOK, Plugin!KeptIsNewest, Plugin!NewHook, Plugin!HookNames
<1> QED BY <1>3, <1>4, <1>5 DEF HooksInv

\* A step that leaves the requests and the history alone: the session is at most
\* marked as ended, and what is retained at most forgotten.
LEMMA Untouched ==
  ASSUME HooksInv, HooksOK', UNCHANGED <<clock, newest, sent>>,
         inFlight' \in {inFlight, [inFlight EXCEPT !.ended = TRUE]},
         retained' \in {retained, NoDigest}
  PROVE  HooksInv'
<1>1. /\ inFlight'.active = inFlight.active
      /\ inFlight'.requests = inFlight.requests
      /\ inFlight'.nextOrdinal = inFlight.nextOrdinal
      /\ inFlight'.retainedOrdinal = inFlight.retainedOrdinal
      /\ inFlight'.ended \in {inFlight.ended, TRUE}
      /\ inFlight' = [ active |-> inFlight'.active, requests |-> inFlight'.requests,
                       nextOrdinal |-> inFlight'.nextOrdinal,
                       retainedOrdinal |-> inFlight'.retainedOrdinal,
                       ended |-> inFlight'.ended ]
  BY DEF HooksInv, SessionOK
<1>2. Plugin!Pending' = Plugin!Pending /\ UnansweredRequests' = UnansweredRequests
  BY <1>1 DEF Plugin!Pending, UnansweredRequests, RequestOf
<1>3. \A d : RequestOf(d)' = RequestOf(d)
  BY <1>1 DEF RequestOf
<1>4. SessionOK'
  BY <1>1, <1>2 DEF HooksInv, SessionOK
<1>5. HistoryOK' /\ SameOrder' /\ NewerAgrees' /\ SentOK'
  BY <1>1, <1>2, <1>3 DEF HooksInv, HistoryOK, SameOrder, NewerAgrees, SentOK
<1>6. Plugin!KeptIsNewest'
  BY DEF HooksInv, Plugin!KeptIsNewest
<1> QED BY <1>4, <1>5, <1>6 DEF HooksInv

LEMMA MarkedSession ==
  ASSUME NEW updated, NEW name
  PROVE  Plugin!Marked(updated, name) \in {updated, [updated EXCEPT !.ended = TRUE]}
BY DEF Plugin!Marked

-----------------------------------------------------------------------------
(* Hooks *)

LEMMA QuietHook ==
  ASSUME HooksInv, NEW h \in Hooks,
         \/ Plugin!SkipHook(h)
         \/ Plugin!ResumeHook(h)
         \/ \E name \in Plugin!HookNames, digest \in Digests :
              (Plugin!RepeatedHook(h, name, digest) \/ Plugin!JoiningHook(h, name, digest))
              /\ UNCHANGED evictions
  PROVE  HooksInv'
<1>1. /\ UNCHANGED <<clock, newest, sent>>
      /\ evictions' = evictions
      /\ inFlight' \in {inFlight, [inFlight EXCEPT !.ended = TRUE]}
      /\ retained' \in {retained, NoDigest}
  BY MarkedSession
  DEF Plugin!SkipHook, Plugin!ResumeHook, Plugin!RepeatedHook, Plugin!JoiningHook, Plugin!LeaveHook, Plugin!history
<1>2. hook' \in [Hooks -> [point : {"new", "waiting", "resumed", "done"},
                           name : Plugin!HookNames, digest : Digests \cup {NoDigest}]]
  BY DEF HooksInv, HooksOK, Plugin!SkipHook, Plugin!ResumeHook, Plugin!RepeatedHook, Plugin!JoiningHook
<1>3. HooksOK'
  BY <1>1, <1>2 DEF HooksInv, HooksOK
<1> QED BY <1>1, <1>3, Untouched

LEMMA RetainingHookInv ==
  ASSUME HooksInv, NEW h \in Hooks, NEW name \in Plugin!HookNames, NEW digest \in Digests,
         Plugin!RetainingHook(h, name, digest), UNCHANGED evictions
  PROVE  HooksInv'
<1> DEFINE updated == IF inFlight.active THEN Plugin!Marked(inFlight, name)
                      ELSE [Plugin!NoSession EXCEPT !.ended = name = "session_end"]
           added == Plugin!Request(updated.nextOrdinal, clock + 1)
<1>1. /\ digest \notin Plugin!Pending
      /\ inFlight' = Plugin!WithRequest(updated, digest, added)
      /\ clock' = clock + 1
      /\ sent' = sent \cup {<<digest, clock + 1>>}
      /\ retained' = retained /\ newest' = newest /\ evictions' = evictions
      /\ hook' = [hook EXCEPT ![h] = [point |-> "waiting", name |-> name, digest |-> digest]]
  BY DEF Plugin!RetainingHook
<1>2. /\ updated = [ active |-> updated.active, requests |-> updated.requests,
                     nextOrdinal |-> updated.nextOrdinal,
                     retainedOrdinal |-> updated.retainedOrdinal,
                     ended |-> updated.ended ]
      /\ updated.nextOrdinal \in Nat
      /\ updated.retainedOrdinal \in Int
      /\ updated.retainedOrdinal < updated.nextOrdinal
      /\ updated.ended \in BOOLEAN
      /\ DOMAIN updated.requests = Plugin!Pending
      /\ Plugin!Pending # {} => /\ updated.requests = inFlight.requests
                         /\ updated.nextOrdinal = inFlight.nextOrdinal
                         /\ updated.retainedOrdinal = inFlight.retainedOrdinal
  <2>1. CASE inFlight.active
    <3>1. updated \in {inFlight, [inFlight EXCEPT !.ended = TRUE]}
      BY <2>1, MarkedSession
    <3>2. /\ updated.active = inFlight.active
          /\ updated.requests = inFlight.requests
          /\ updated.nextOrdinal = inFlight.nextOrdinal
          /\ updated.retainedOrdinal = inFlight.retainedOrdinal
          /\ updated.ended \in {inFlight.ended, TRUE}
          /\ updated = [ active |-> updated.active, requests |-> updated.requests,
                         nextOrdinal |-> updated.nextOrdinal,
                         retainedOrdinal |-> updated.retainedOrdinal,
                         ended |-> updated.ended ]
      <4> HIDE DEF updated
      <4> QED BY <3>1 DEF HooksInv, SessionOK
    <3> HIDE DEF updated
    <3> QED BY <3>2 DEF HooksInv, SessionOK, Plugin!Pending
  <2>2. CASE ~inFlight.active
    <3> DEFINE last == (name = "session_end")
    <3>1. updated = [ active |-> FALSE, requests |-> <<>>, nextOrdinal |-> 0,
                      retainedOrdinal |-> -1, ended |-> last ]
      BY <2>2 DEF Plugin!NoSession
    <3>2. Plugin!Pending = {} /\ DOMAIN <<>> = {} /\ last \in BOOLEAN
      BY <2>2 DEF HooksInv, SessionOK
    <3> HIDE DEF updated, last
    <3> QED BY <3>1, <3>2
  <2> QED BY <2>1, <2>2 DEF HooksInv, SessionOK
<1> HIDE DEF updated
<1>3. /\ inFlight'.active = TRUE
      /\ inFlight'.nextOrdinal = updated.nextOrdinal + 1
      /\ inFlight'.retainedOrdinal = updated.retainedOrdinal
      /\ inFlight'.ended = updated.ended
      /\ inFlight'.requests = [d \in Plugin!Pending \cup {digest} |->
                                 IF d = digest THEN added ELSE updated.requests[d]]
      /\ inFlight' = [ active |-> inFlight'.active, requests |-> inFlight'.requests,
                       nextOrdinal |-> inFlight'.nextOrdinal,
                       retainedOrdinal |-> inFlight'.retainedOrdinal,
                       ended |-> inFlight'.ended ]
  BY <1>1, <1>2 DEF Plugin!WithRequest
<1>4. /\ Plugin!Pending' = Plugin!Pending \cup {digest}
      /\ RequestOf(digest)' = added
      /\ \A d \in Plugin!Pending : RequestOf(d)' = RequestOf(d)
      /\ UnansweredRequests' = UnansweredRequests \cup {digest}
  <2>1. DOMAIN inFlight'.requests = Plugin!Pending \cup {digest}
    BY <1>3
  <2>2. RequestOf(digest)' = added /\ ~added.answered
    BY <1>3 DEF RequestOf, Plugin!Request
  <2>3. ASSUME NEW d \in Plugin!Pending PROVE RequestOf(d)' = RequestOf(d)
    <3>1. inFlight'.requests[d] = updated.requests[d]
      BY <1>1, <1>3
    <3> QED BY <1>2, <3>1 DEF RequestOf
  <2>4. Plugin!Pending' = Plugin!Pending \cup {digest}
    BY <2>1 DEF Plugin!Pending
  <2>5. UnansweredRequests' = UnansweredRequests \cup {digest}
    <3> HIDE DEF added
    <3> QED BY <2>2, <2>3, <2>4 DEF UnansweredRequests
  <2> QED BY <2>2, <2>3, <2>4, <2>5
<1>5. /\ added \in [ordinal : Nat, number : Nat, answered : BOOLEAN]
      /\ added.ordinal = updated.nextOrdinal /\ added.number = clock + 1
  BY <1>2 DEF Plugin!Request, HooksInv, HistoryOK
<1>6. SessionOK'
  <2>1. \A d \in Plugin!Pending : updated.requests[d] \in [ordinal : Nat, number : Nat, answered : BOOLEAN]
    BY <1>2 DEF HooksInv, SessionOK
  <2>2. inFlight'.requests \in [Plugin!Pending' -> [ordinal : Nat, number : Nat, answered : BOOLEAN]]
    BY <1>3, <1>4, <1>5, <2>1
  <2>3. Plugin!Pending' \subseteq Digests /\ Plugin!Pending' # {}
    BY <1>4 DEF HooksInv, SessionOK
  <2>4. /\ inFlight'.nextOrdinal \in Nat
        /\ inFlight'.retainedOrdinal \in Int
        /\ inFlight'.retainedOrdinal < inFlight'.nextOrdinal
    <3>1. /\ updated.nextOrdinal \in Nat /\ updated.retainedOrdinal \in Int
          /\ updated.retainedOrdinal < updated.nextOrdinal
      BY <1>2
    <3>2. /\ inFlight'.nextOrdinal = updated.nextOrdinal + 1
          /\ inFlight'.retainedOrdinal = updated.retainedOrdinal
      BY <1>3
    <3> QED BY <3>1, <3>2
  <2>5. inFlight'.active \in BOOLEAN /\ inFlight'.ended \in BOOLEAN /\ inFlight'.active
    BY <1>2, <1>3
  <2>6. inFlight' = [ active |-> inFlight'.active, requests |-> inFlight'.requests,
                      nextOrdinal |-> inFlight'.nextOrdinal,
                      retainedOrdinal |-> inFlight'.retainedOrdinal,
                      ended |-> inFlight'.ended ]
    BY <1>3
  <2> QED BY <2>2, <2>3, <2>4, <2>5, <2>6 DEF SessionOK
<1>7. HistoryOK'
  BY <1>1, <1>4, <1>5 DEF HooksInv, HistoryOK
<1>8. SameOrder'
  <2>1. \A d \in Plugin!Pending : /\ RequestOf(d).ordinal \in Nat /\ RequestOf(d).number \in Nat
                           /\ RequestOf(d).ordinal < added.ordinal
                           /\ RequestOf(d).number < added.number
    BY <1>2, <1>5 DEF HooksInv, SessionOK, HistoryOK, SameOrder, RequestOf
  <2> QED BY <1>2, <1>3, <1>4, <1>5, <2>1 DEF HooksInv, SameOrder, SessionOK
<1>9. NewerAgrees'
  <2>1. added.ordinal > updated.retainedOrdinal /\ added.number > newest.number
    BY <1>2, <1>5 DEF HooksInv, HistoryOK
  <2>2. \A d \in UnansweredRequests : d \in Plugin!Pending /\ updated.retainedOrdinal = inFlight.retainedOrdinal
    BY <1>2 DEF UnansweredRequests
  <2> QED BY <1>1, <1>3, <1>4, <2>1, <2>2 DEF HooksInv, NewerAgrees
<1>10. SentOK'
  <2>1. \A d \in UnansweredRequests : d \in Plugin!Pending
    BY DEF UnansweredRequests
  <2>2. <<digest, clock + 1>>[1] = digest
    OBVIOUS
  <2> QED BY <1>1, <1>4, <1>5, <2>1, <2>2 DEF HooksInv, SentOK
<1>11. HooksOK' /\ Plugin!KeptIsNewest'
  BY <1>1 DEF HooksInv, HooksOK, Plugin!KeptIsNewest
<1> QED BY <1>6, <1>7, <1>8, <1>9, <1>10, <1>11 DEF HooksInv

-----------------------------------------------------------------------------
(* Requests *)

\* A request is answered; the recorded ordinal changes only to its own.
LEMMA Answer ==
  ASSUME HooksInv, NEW digest \in UnansweredRequests,
         NEW ordinal, ordinal \in {inFlight.retainedOrdinal, RequestOf(digest).ordinal},
         inFlight' = [inFlight EXCEPT !.requests[digest].answered = TRUE,
                                      !.retainedOrdinal = ordinal]
  PROVE  /\ Plugin!Pending' = Plugin!Pending
         /\ UnansweredRequests' = UnansweredRequests \ {digest}
         /\ \A d \in Plugin!Pending : /\ RequestOf(d)'.ordinal = RequestOf(d).ordinal
                               /\ RequestOf(d)'.number = RequestOf(d).number
         /\ inFlight'.retainedOrdinal = ordinal
         /\ inFlight'.nextOrdinal = inFlight.nextOrdinal
         /\ SessionOK' /\ SameOrder'
<1>1. /\ inFlight'.active = inFlight.active
      /\ inFlight'.nextOrdinal = inFlight.nextOrdinal
      /\ inFlight'.retainedOrdinal = ordinal
      /\ inFlight'.ended = inFlight.ended
      /\ inFlight'.requests = [inFlight.requests EXCEPT ![digest].answered = TRUE]
      /\ inFlight' = [ active |-> inFlight'.active, requests |-> inFlight'.requests,
                       nextOrdinal |-> inFlight'.nextOrdinal,
                       retainedOrdinal |-> inFlight'.retainedOrdinal,
                       ended |-> inFlight'.ended ]
  BY DEF HooksInv, SessionOK
<1>2. digest \in Plugin!Pending /\ Plugin!Pending' = Plugin!Pending
  BY <1>1 DEF UnansweredRequests, Plugin!Pending
<1>3. inFlight.requests \in [Plugin!Pending -> [ordinal : Nat, number : Nat, answered : BOOLEAN]]
  BY DEF HooksInv, SessionOK
<1>4. \A d \in Plugin!Pending :
        /\ RequestOf(d)'.ordinal = RequestOf(d).ordinal
        /\ RequestOf(d)'.number = RequestOf(d).number
        /\ RequestOf(d)'.answered = (d = digest \/ RequestOf(d).answered)
        /\ RequestOf(d)' \in [ordinal : Nat, number : Nat, answered : BOOLEAN]
  BY <1>1, <1>2, <1>3, ZenonT(40) DEF RequestOf
<1>5. UnansweredRequests' = UnansweredRequests \ {digest}
  BY <1>2, <1>4 DEF UnansweredRequests
<1>6. inFlight'.requests \in [Plugin!Pending' -> [ordinal : Nat, number : Nat, answered : BOOLEAN]]
  <2>1. inFlight'.requests = [d \in Plugin!Pending |-> RequestOf(d)']
    BY <1>1, <1>2, <1>3 DEF RequestOf
  <2> QED BY <1>2, <1>4, <2>1, ZenonT(90)
<1>7. ordinal \in Int /\ ordinal < inFlight.nextOrdinal
  BY <1>2, <1>3 DEF HooksInv, SessionOK, SameOrder, RequestOf
<1>8. SessionOK'
  BY <1>1, <1>2, <1>6, <1>7 DEF HooksInv, SessionOK
<1>9. SameOrder'
  BY <1>1, <1>2, <1>4 DEF HooksInv, SameOrder
<1> QED BY <1>1, <1>2, <1>4, <1>5, <1>8, <1>9

\* No request is under way any more for a digest that was answered.
LEMMA Withdrawn ==
  ASSUME HooksInv, NEW digest \in UnansweredRequests,
         sent' = sent \ {<<digest, RequestOf(digest).number>>},
         UnansweredRequests' = UnansweredRequests \ {digest},
         \A d \in UnansweredRequests : RequestOf(d)'.number = RequestOf(d).number
  PROVE  SentOK'
<1> SUFFICES ASSUME NEW x \in sent'
             PROVE  x[1] \in UnansweredRequests' /\ x = <<x[1], RequestOf(x[1])'.number>>
  BY DEF SentOK
<1>1. /\ x \in sent /\ x # <<digest, RequestOf(digest).number>>
      /\ x[1] \in UnansweredRequests /\ x = <<x[1], RequestOf(x[1]).number>>
  BY DEF HooksInv, SentOK
<1> QED BY <1>1

LEMMA AcceptedInv ==
  ASSUME HooksInv, NEW digest \in Digests, Plugin!Accepted(digest)
  PROVE  HooksInv'
<1> DEFINE added == RequestOf(digest)
           recorded == added.ordinal > inFlight.retainedOrdinal
           ordinal == IF recorded THEN added.ordinal ELSE inFlight.retainedOrdinal
<1>1. /\ digest \in UnansweredRequests
      /\ retained' = IF recorded THEN digest ELSE retained
      /\ inFlight' = [inFlight EXCEPT !.requests[digest].answered = TRUE,
                                      !.retainedOrdinal = ordinal]
      /\ newest' = IF added.number > newest.number
                   THEN [number |-> added.number, digest |-> digest]
                   ELSE newest
      /\ sent' = sent \ {<<digest, added.number>>}
      /\ hook' = hook /\ clock' = clock /\ evictions' = evictions
  BY DEF Plugin!Accepted, UnansweredRequests, RequestOf, HooksInv, SessionOK
<1>2. ordinal \in {inFlight.retainedOrdinal, RequestOf(digest).ordinal}
  OBVIOUS
<1>3. digest \in Plugin!Pending
  BY <1>1 DEF UnansweredRequests
<1>4. /\ Plugin!Pending' = Plugin!Pending
      /\ UnansweredRequests' = UnansweredRequests \ {digest}
      /\ \A d \in Plugin!Pending : /\ RequestOf(d)'.ordinal = RequestOf(d).ordinal
                            /\ RequestOf(d)'.number = RequestOf(d).number
      /\ inFlight'.retainedOrdinal = ordinal
      /\ inFlight'.nextOrdinal = inFlight.nextOrdinal
      /\ SessionOK' /\ SameOrder'
  <2> HIDE DEF ordinal
  <2> QED BY <1>1, <1>2, Answer
<1>5. recorded <=> added.number > newest.number
  BY <1>1 DEF HooksInv, NewerAgrees
<1>6. HistoryOK'
  BY <1>1, <1>3, <1>4 DEF HooksInv, HistoryOK
<1>7. NewerAgrees'
  <2>1. CASE recorded
    BY <1>1, <1>3, <1>4, <1>5, <2>1 DEF HooksInv, NewerAgrees, SameOrder, UnansweredRequests
  <2>2. CASE ~recorded
    BY <1>1, <1>4, <1>5, <2>2 DEF HooksInv, NewerAgrees, UnansweredRequests
  <2> QED BY <2>1, <2>2
<1>8. SentOK'
  <2>1. \A d \in UnansweredRequests : RequestOf(d)'.number = RequestOf(d).number
    BY <1>4 DEF UnansweredRequests
  <2> QED BY <1>1, <1>4, <2>1, Withdrawn
<1>9. HooksOK' /\ Plugin!KeptIsNewest'
  BY <1>1, <1>5 DEF HooksInv, HooksOK, Plugin!KeptIsNewest
<1> QED BY <1>4, <1>6, <1>7, <1>8, <1>9 DEF HooksInv

LEMMA FailedInv ==
  ASSUME HooksInv, NEW digest \in Digests, Plugin!Failed(digest)
  PROVE  HooksInv'
<1> DEFINE ordinal == inFlight.retainedOrdinal
<1>1. /\ digest \in UnansweredRequests
      /\ inFlight' = [inFlight EXCEPT !.requests[digest].answered = TRUE,
                                      !.retainedOrdinal = ordinal]
      /\ sent' = sent \ {<<digest, RequestOf(digest).number>>}
      /\ hook' = hook /\ clock' = clock /\ evictions' = evictions
      /\ retained' = retained /\ newest' = newest
  BY DEF Plugin!Failed, UnansweredRequests, RequestOf, HooksInv, SessionOK
<1>2. /\ Plugin!Pending' = Plugin!Pending
      /\ UnansweredRequests' = UnansweredRequests \ {digest}
      /\ \A d \in Plugin!Pending : /\ RequestOf(d)'.ordinal = RequestOf(d).ordinal
                            /\ RequestOf(d)'.number = RequestOf(d).number
      /\ inFlight'.retainedOrdinal = ordinal
      /\ inFlight'.nextOrdinal = inFlight.nextOrdinal
      /\ SessionOK' /\ SameOrder'
  BY <1>1, Answer
<1>3. HistoryOK' /\ NewerAgrees'
  BY <1>1, <1>2 DEF HooksInv, HistoryOK, NewerAgrees, UnansweredRequests
<1>4. SentOK'
  <2>1. \A d \in UnansweredRequests : RequestOf(d)'.number = RequestOf(d).number
    BY <1>2 DEF UnansweredRequests
  <2> QED BY <1>1, <1>2, <2>1, Withdrawn
<1>5. HooksOK' /\ Plugin!KeptIsNewest'
  BY <1>1 DEF HooksInv, HooksOK, Plugin!KeptIsNewest
<1> QED BY <1>2, <1>3, <1>4, <1>5 DEF HooksInv

LEMMA DrainInv ==
  ASSUME HooksInv, NEW digest \in Digests, Plugin!Drain(digest)
  PROVE  HooksInv'
<1> DEFINE rest == [d \in Plugin!Pending \ {digest} |-> inFlight.requests[d]]
<1>1. /\ digest \in Plugin!Pending /\ digest \notin UnansweredRequests
      /\ inFlight' = Plugin!Drained(rest)
      /\ retained' \in {retained, NoDigest}
      /\ hook' = [h \in Hooks |->
                    IF hook[h].point = "waiting" /\ hook[h].digest = digest
                    THEN [hook[h] EXCEPT !.point = "resumed"]
                    ELSE hook[h]]
      /\ UNCHANGED <<clock, newest, sent>> /\ evictions' = evictions
  BY DEF Plugin!Drain, UnansweredRequests, RequestOf, Plugin!history
<1>2. HooksOK'
  <2>1. hook' \in [Hooks -> [point : {"new", "waiting", "resumed", "done"},
                             name : Plugin!HookNames, digest : Digests \cup {NoDigest}]]
    BY <1>1 DEF HooksInv, HooksOK
  <2> QED BY <1>1, <2>1 DEF HooksInv, HooksOK
<1>3. Plugin!KeptIsNewest'
  BY <1>1 DEF HooksInv, Plugin!KeptIsNewest
<1>4. CASE Plugin!Pending = {digest}
  <2>1. inFlight' = Plugin!NoSession
    BY <1>1, <1>4 DEF Plugin!Drained
  <2>2. Plugin!Pending' = {} /\ inFlight'.requests = <<>> /\ DOMAIN <<>> = {} /\ UnansweredRequests' = {}
    BY <2>1 DEF Plugin!Pending, Plugin!NoSession, UnansweredRequests
  <2>3. SessionOK'
    BY <2>1, <2>2 DEF SessionOK, Plugin!NoSession
  <2>4. HistoryOK' /\ SameOrder' /\ NewerAgrees'
    BY <1>1, <2>2 DEF HooksInv, HistoryOK, SameOrder, NewerAgrees
  <2>5. sent' = {}
    BY <1>1, <1>4 DEF HooksInv, SentOK, UnansweredRequests
  <2>6. SentOK'
    BY <2>5 DEF SentOK
  <2> QED BY <1>2, <1>3, <2>3, <2>4, <2>6 DEF HooksInv
<1>5. CASE Plugin!Pending # {digest}
  <2>1. inFlight' = [inFlight EXCEPT !.requests = rest]
    BY <1>1, <1>5 DEF Plugin!Drained
  <2>2. /\ inFlight'.active = inFlight.active
        /\ inFlight'.requests = rest
        /\ inFlight'.nextOrdinal = inFlight.nextOrdinal
        /\ inFlight'.retainedOrdinal = inFlight.retainedOrdinal
        /\ inFlight'.ended = inFlight.ended
        /\ inFlight' = [ active |-> inFlight'.active, requests |-> inFlight'.requests,
                         nextOrdinal |-> inFlight'.nextOrdinal,
                         retainedOrdinal |-> inFlight'.retainedOrdinal,
                         ended |-> inFlight'.ended ]
    BY <2>1 DEF HooksInv, SessionOK
  <2>3. /\ Plugin!Pending' = Plugin!Pending \ {digest}
        /\ \A d \in Plugin!Pending' : RequestOf(d)' = RequestOf(d)
        /\ UnansweredRequests' = UnansweredRequests
    BY <1>1, <2>2 DEF Plugin!Pending, RequestOf, UnansweredRequests
  <2>4. rest \in [Plugin!Pending \ {digest} -> [ordinal : Nat, number : Nat, answered : BOOLEAN]]
    BY DEF HooksInv, SessionOK
  <2>5. SessionOK'
    BY <1>1, <1>5, <2>2, <2>3, <2>4 DEF HooksInv, SessionOK
  <2>6. HistoryOK' /\ SameOrder'
    BY <1>1, <2>2, <2>3 DEF HooksInv, HistoryOK, SameOrder
  <2>7. \A d \in UnansweredRequests : d \in Plugin!Pending'
    BY <1>1, <2>3 DEF UnansweredRequests
  <2>8. NewerAgrees' /\ SentOK'
    BY <1>1, <2>2, <2>3, <2>7 DEF HooksInv, NewerAgrees, SentOK
  <2> QED BY <1>2, <1>3, <2>5, <2>6, <2>8 DEF HooksInv
<1> QED BY <1>4, <1>5

-----------------------------------------------------------------------------
LEMMA HooksStep == HooksInv /\ [Plugin!Next]_(Plugin!vars) => HooksInv'
<1> SUFFICES ASSUME HooksInv, [Plugin!Next]_(Plugin!vars) PROVE HooksInv'
  OBVIOUS
<1>1. ASSUME NEW h \in Hooks, Plugin!SkipHook(h) \/ Plugin!ResumeHook(h) PROVE HooksInv'
  BY <1>1, QuietHook
<1>2. ASSUME NEW h \in Hooks, Plugin!RunHook(h) PROVE HooksInv'
  <2>1. PICK name \in Plugin!HookNames, digest \in Digests :
          /\ \/ Plugin!RepeatedHook(h, name, digest)
             \/ Plugin!JoiningHook(h, name, digest)
             \/ Plugin!RetainingHook(h, name, digest)
          /\ UNCHANGED evictions
    BY <1>2 DEF Plugin!RunHook
  <2> QED BY <2>1, QuietHook, RetainingHookInv
<1>3. ASSUME NEW digest \in Digests, Plugin!Accepted(digest) \/ Plugin!Failed(digest) \/ Plugin!Drain(digest)
      PROVE  HooksInv'
  BY <1>3, AcceptedInv, FailedInv, DrainInv
<1>4. CASE Plugin!Evict
  <2>1. HooksOK'
    BY <1>4 DEF Plugin!Evict, HooksInv, HooksOK
  <2> QED BY <1>4, <2>1, Untouched DEF Plugin!Evict, Plugin!history
<1>5. CASE UNCHANGED Plugin!vars
  <2>1. HooksOK'
    BY <1>5 DEF Plugin!vars, HooksInv, HooksOK
  <2> QED BY <1>5, <2>1, Untouched DEF Plugin!vars
<1> QED BY <1>1, <1>2, <1>3, <1>4, <1>5 DEF Plugin!Next, Plugin!Finished

-----------------------------------------------------------------------------
(* The end of a session *)

\* Some hook awaits each request.
WaitedFor ==
  \A d \in Plugin!Pending : \E h \in Hooks : hook[h].point = "waiting" /\ hook[h].digest = d

\* After a session_end the requests under way, if any, are the session's last,
\* and otherwise nothing is retained.
EndOK ==
  lastHook = "session_end" =>
    IF inFlight.active THEN inFlight.ended ELSE retained = NoDigest

\* A step that leaves the session alone and wakes no hook.
LEMMA EndUntouched ==
  ASSUME WaitedFor, EndOK, inFlight' = inFlight, lastHook' = lastHook,
         retained' \in {retained, NoDigest},
         \A h \in Hooks : hook[h].point = "waiting" => hook'[h] = hook[h]
  PROVE  WaitedFor' /\ EndOK'
BY DEF WaitedFor, EndOK, Plugin!Pending

LEMMA AnsweredEnd ==
  ASSUME HooksInv, WaitedFor, EndOK, NEW digest \in Plugin!Pending, NEW ordinal,
         inFlight' = [inFlight EXCEPT !.requests[digest].answered = TRUE,
                                      !.retainedOrdinal = ordinal],
         hook' = hook, lastHook' = lastHook
  PROVE  WaitedFor' /\ EndOK'
<1>1. /\ inFlight'.active = inFlight.active /\ inFlight'.ended = inFlight.ended
      /\ Plugin!Pending' = Plugin!Pending
      /\ inFlight.active
  BY DEF HooksInv, SessionOK, Plugin!Pending
<1> QED BY <1>1 DEF WaitedFor, EndOK

LEMMA RunHookEnd ==
  ASSUME HooksInv, WaitedFor, EndOK, NEW h \in Hooks, Plugin!RunHook(h)
  PROVE  WaitedFor' /\ EndOK'
<1>1. PICK name \in Plugin!HookNames, digest \in Digests :
        /\ \/ Plugin!RepeatedHook(h, name, digest)
           \/ Plugin!JoiningHook(h, name, digest)
           \/ Plugin!RetainingHook(h, name, digest)
        /\ lastHook' = name
  BY DEF Plugin!RunHook
<1>2. /\ hook[h].point = "new"
      /\ \A g \in Hooks \ {h} : hook'[g] = hook[g]
      /\ \A g \in Hooks : hook[g].point = "waiting" => hook'[g] = hook[g]
  BY <1>1 DEF Plugin!RunHook, Plugin!RepeatedHook, Plugin!JoiningHook, Plugin!RetainingHook, HooksInv, HooksOK
<1>3. CASE Plugin!RepeatedHook(h, name, digest) \/ Plugin!JoiningHook(h, name, digest)
  <2>1. /\ inFlight' = Plugin!Marked(inFlight, name)
        /\ name = "session_end" /\ ~inFlight.active => retained' = NoDigest
    <3>1. CASE Plugin!RepeatedHook(h, name, digest)
      BY <3>1 DEF Plugin!RepeatedHook, Plugin!LeaveHook
    <3>2. CASE Plugin!JoiningHook(h, name, digest)
      BY <3>2 DEF Plugin!JoiningHook, HooksInv, SessionOK
    <3> QED BY <1>3, <3>1, <3>2
  <2>2. /\ inFlight'.requests = inFlight.requests
        /\ inFlight'.active = inFlight.active
        /\ inFlight.active /\ name = "session_end" => inFlight'.ended
    BY <2>1 DEF Plugin!Marked, HooksInv, SessionOK
  <2>3. WaitedFor'
    BY <1>2, <2>2 DEF WaitedFor, Plugin!Pending
  <2>4. EndOK'
    BY <1>1, <2>1, <2>2 DEF EndOK
  <2> QED BY <2>3, <2>4
<1>4. CASE Plugin!RetainingHook(h, name, digest)
  <2> DEFINE updated == IF inFlight.active THEN Plugin!Marked(inFlight, name)
                        ELSE [Plugin!NoSession EXCEPT !.ended = name = "session_end"]
             added == Plugin!Request(updated.nextOrdinal, clock + 1)
  <2>1. /\ inFlight' = Plugin!WithRequest(updated, digest, added)
        /\ hook'[h].point = "waiting" /\ hook'[h].digest = digest
    BY <1>4 DEF Plugin!RetainingHook, HooksInv, HooksOK
  <2>2. /\ updated = [ active |-> updated.active, requests |-> updated.requests,
                       nextOrdinal |-> updated.nextOrdinal,
                       retainedOrdinal |-> updated.retainedOrdinal,
                       ended |-> updated.ended ]
        /\ DOMAIN updated.requests = Plugin!Pending
        /\ name = "session_end" => updated.ended
    <3>1. CASE inFlight.active
      BY <3>1 DEF Plugin!Marked, HooksInv, SessionOK, Plugin!Pending
    <3>2. CASE ~inFlight.active
      <4> DEFINE last == (name = "session_end")
      <4>1. updated = [ active |-> FALSE, requests |-> <<>>, nextOrdinal |-> 0,
                        retainedOrdinal |-> -1, ended |-> last ]
        BY <3>2 DEF Plugin!NoSession
      <4>2. Plugin!Pending = {} /\ DOMAIN <<>> = {}
        BY <3>2 DEF HooksInv, SessionOK
      <4>3. name = "session_end" => last
        OBVIOUS
      <4> HIDE DEF updated, last
      <4> QED BY <4>1, <4>2, <4>3
    <3> QED BY <3>1, <3>2
  <2> HIDE DEF updated, added
  <2>3. /\ inFlight'.active = TRUE
        /\ inFlight'.ended = updated.ended
        /\ Plugin!Pending' = Plugin!Pending \cup {digest}
    BY <2>1, <2>2 DEF Plugin!WithRequest, Plugin!Pending
  <2>4. WaitedFor'
    BY <1>2, <2>1, <2>3 DEF WaitedFor
  <2>5. EndOK'
    BY <1>1, <2>2, <2>3 DEF EndOK
  <2> QED BY <2>4, <2>5
<1> QED BY <1>1, <1>3, <1>4

LEMMA DrainEnd ==
  ASSUME HooksInv, WaitedFor, EndOK, NEW digest \in Digests, Plugin!Drain(digest)
  PROVE  WaitedFor' /\ EndOK'
<1> DEFINE rest == [d \in Plugin!Pending \ {digest} |-> inFlight.requests[d]]
<1>1. /\ digest \in Plugin!Pending /\ inFlight.active
      /\ inFlight' = Plugin!Drained(rest)
      /\ retained' = IF Plugin!Pending = {digest} /\ inFlight.ended THEN NoDigest ELSE retained
      /\ lastHook' = lastHook
      /\ \A h \in Hooks : hook[h].digest # digest => hook'[h] = hook[h]
  BY DEF Plugin!Drain, Plugin!history, HooksInv, SessionOK
<1>2. CASE Plugin!Pending = {digest}
  <2>1. inFlight' = Plugin!NoSession
    BY <1>2, <1>1 DEF Plugin!Drained
  <2>2. Plugin!Pending' = {} /\ inFlight'.active = FALSE
    BY <2>1 DEF Plugin!NoSession, Plugin!Pending
  <2> QED BY <1>1, <1>2, <2>2 DEF WaitedFor, EndOK
<1>3. CASE Plugin!Pending # {digest}
  <2>1. inFlight' = [inFlight EXCEPT !.requests = rest]
    BY <1>3, <1>1 DEF Plugin!Drained
  <2>2. /\ inFlight'.active = inFlight.active /\ inFlight'.ended = inFlight.ended
        /\ Plugin!Pending' = Plugin!Pending \ {digest}
    BY <2>1 DEF HooksInv, SessionOK, Plugin!Pending
  <2>3. WaitedFor'
    BY <1>1, <2>2 DEF WaitedFor
  <2>4. EndOK'
    BY <1>1, <2>2 DEF EndOK
  <2> QED BY <2>3, <2>4
<1> QED BY <1>2, <1>3

LEMMA EndNext ==
  ASSUME HooksInv, WaitedFor, EndOK, [Plugin!Next]_(Plugin!vars)
  PROVE  WaitedFor' /\ EndOK'
<1>1. ASSUME NEW h \in Hooks, Plugin!SkipHook(h) \/ Plugin!ResumeHook(h)
      PROVE  WaitedFor' /\ EndOK'
  <2>1. /\ inFlight' = inFlight /\ lastHook' = lastHook
        /\ retained' \in {retained, NoDigest}
        /\ \A g \in Hooks : hook[g].point = "waiting" => hook'[g] = hook[g]
    BY <1>1 DEF Plugin!SkipHook, Plugin!ResumeHook, Plugin!LeaveHook, Plugin!history, HooksInv, HooksOK
  <2> QED BY <2>1, EndUntouched
<1>2. ASSUME NEW digest \in Digests, Plugin!Accepted(digest) \/ Plugin!Failed(digest)
      PROVE  WaitedFor' /\ EndOK'
  <2>1. digest \in Plugin!Pending /\ hook' = hook /\ lastHook' = lastHook
    BY <1>2 DEF Plugin!Accepted, Plugin!Failed
  <2>2. PICK ordinal :
          inFlight' = [inFlight EXCEPT !.requests[digest].answered = TRUE,
                                       !.retainedOrdinal = ordinal]
    <3>1. CASE Plugin!Accepted(digest)
      <4> DEFINE ordinal == IF inFlight.requests[digest].ordinal > inFlight.retainedOrdinal
                            THEN inFlight.requests[digest].ordinal
                            ELSE inFlight.retainedOrdinal
      <4>1. inFlight' = [inFlight EXCEPT !.requests[digest].answered = TRUE,
                                         !.retainedOrdinal = ordinal]
        BY <3>1 DEF Plugin!Accepted, HooksInv, SessionOK
      <4> QED BY <4>1
    <3>2. CASE Plugin!Failed(digest)
      <4>1. inFlight' = [inFlight EXCEPT !.requests[digest].answered = TRUE,
                                         !.retainedOrdinal = inFlight.retainedOrdinal]
        BY <3>2 DEF Plugin!Failed, HooksInv, SessionOK
      <4> QED BY <4>1
    <3> QED BY <1>2, <3>1, <3>2
  <2> QED BY <2>1, <2>2, AnsweredEnd
<1>3. CASE Plugin!Evict \/ UNCHANGED Plugin!vars
  BY <1>3, EndUntouched DEF Plugin!Evict, Plugin!vars, Plugin!history
<1> QED BY <1>1, <1>2, <1>3, RunHookEnd, DrainEnd DEF Plugin!Next, Plugin!Finished

PluginInv == HooksInv /\ WaitedFor /\ EndOK

LEMMA PluginAlways == AnySpec => [](part = "plugin" => PluginInv)
<1> DEFINE Inv == part = "plugin" => PluginInv
<1>1. AnyInit => Inv
  BY HooksBegin
     DEF AnyInit, PluginInv, WaitedFor, EndOK, Plugin!Pending, Plugin!NoSession, Plugin!Init
<1>2. Inv /\ [AnyNext]_all => Inv'
  <2> SUFFICES ASSUME Inv, [AnyNext]_all PROVE Inv'
    OBVIOUS
  <2>1. ASSUME PluginInv, [Plugin!Next]_(Plugin!vars) PROVE PluginInv'
    BY <2>1, HooksStep, EndNext DEF PluginInv
  <2>2. CASE PluginNext
    BY <2>1, <2>2 DEF PluginNext
  <2>3. CASE UNCHANGED <<part, hookVars>>
    BY <2>1, <2>3 DEF hookVars, Plugin!vars
  <2> QED BY <2>2, <2>3
          DEF AnyNext, RecallNext, ClientsNext, HumanNext, ServiceNext, FileNext, all
<1> QED BY <1>1, <1>2, PTL DEF AnySpec

\* The digest kept of a session is that of the newest accepted request, in whatever order
\* the hooks run and their requests are answered (nextOrdinal and retainedOrdinal in
\* plugin.ts); no transcript is sent twice at a time, and an ended session is forgotten.
THEOREM AlwaysKeepsNewest == AnySpec => []KeptIsNewest
<1>1. PluginInv => Plugin!KeptIsNewest /\ Plugin!SentOnce /\ Plugin!EndedSessionForgotten
  BY DEF PluginInv, HooksInv, SentOK, Plugin!SentOnce, SessionOK, WaitedFor, EndOK,
         Plugin!EndedSessionForgotten, Plugin!AllDone
<1>2. (part = "plugin" => PluginInv) => KeptIsNewest
  BY <1>1 DEF KeptIsNewest
<1> QED BY <1>2, PluginAlways, PTL

-----------------------------------------------------------------------------
(* The service that schedules replays.  LatestCallWins is not inductive: at  *)
(* the end of a stop it needs that a start which came after the stop is      *)
(* still waiting (WaitingStart).                                             *)

WaitingStart ==
  stopping /\ runningRequested => \E c \in Callers : call[c] = "starting"

ServiceInv == TypeOK /\ LatestCallWins /\ WaitingStart

LEMMA NextService ==
  ASSUME ServiceInv, [Next]_vars
  PROVE  ServiceInv'
<1> USE DEF ServiceInv, TypeOK, LatestCallWins, WaitingStart
<1>1. ASSUME NEW c \in Callers, Start(c)
      PROVE  ServiceInv'
  BY <1>1 DEF Start, Schedule
<1>2. ASSUME NEW c \in Callers, Stop(c)
      PROVE  ServiceInv'
  BY <1>2 DEF Stop
<1>3. CASE Tick
  BY <1>3 DEF Tick
<1>4. ASSUME NEW flushed \in BOOLEAN, stopping, EndStop(flushed)
      PROVE  ServiceInv'
  <2>1. call' = [c \in Callers |-> "none"] /\ stopping' = FALSE
        /\ runningRequested' = runningRequested
    BY <1>4 DEF EndStop
  <2>2. CASE Restarting
    <3>1. flushTimer' = TRUE /\ activeFlush' = TRUE
      BY <1>4, <2>2 DEF EndStop, Schedule
    <3> QED BY <2>1, <2>2, <3>1 DEF Restarting
  <2>3. CASE ~Restarting
    <3>1. flushTimer' = flushTimer /\ activeFlush' = flushed
      BY <1>4, <2>3 DEF EndStop
    <3>2. ~runningRequested
      BY <1>4, <2>3 DEF Restarting
    <3> QED BY <1>4, <2>1, <3>1, <3>2
  <2> QED BY <2>2, <2>3
<1>5. CASE FlushEnds
  BY <1>4, <1>5 DEF FlushEnds
<1>6. CASE DeadlineExpires
  BY <1>4, <1>6 DEF DeadlineExpires
<1>7. CASE UNCHANGED vars
  BY <1>7 DEF vars
<1> QED BY <1>1, <1>2, <1>3, <1>5, <1>6, <1>7 DEF Next

LEMMA ServiceStarts == Init => ServiceInv
BY DEF Init, ServiceInv, TypeOK, LatestCallWins, WaitingStart

\* The invariant of the service, with the start that is to follow a stop.
LEMMA ServiceInvariance == Spec => []ServiceInv
BY ServiceStarts, NextService, PTL DEF Spec

\* A stop that waits has a flush to wait for and no interval.
THEOREM ServiceTypes == Spec => []TypeOK
<1>1. ServiceInv => TypeOK
  BY DEF ServiceInv
<1> QED BY <1>1, ServiceInvariance, PTL

\* The interval is set just when the latest call was a start, or a start waits.
THEOREM LatestCallAlwaysWins == Spec => []LatestCallWins
<1>1. ServiceInv => LatestCallWins
  BY DEF ServiceInv
<1> QED BY <1>1, ServiceInvariance, PTL

LEMMA FlushIsWanted ==
  ServiceInv /\ [Next]_vars =>
    [~activeFlush /\ activeFlush' => runningRequested']_vars
<1> SUFFICES ASSUME ServiceInv, Next, ~activeFlush, activeFlush'
             PROVE  runningRequested'
  OBVIOUS
<1> USE DEF ServiceInv, TypeOK, LatestCallWins
<1>1. ASSUME NEW c \in Callers, Start(c) \/ Stop(c)
      PROVE  runningRequested'
  BY <1>1 DEF Start, Stop
<1>2. CASE Tick
  BY <1>2 DEF Tick
<1>3. CASE FlushEnds
  BY <1>3 DEF FlushEnds
<1>4. CASE DeadlineExpires
  BY <1>4 DEF DeadlineExpires
<1> QED BY <1>1, <1>2, <1>3, <1>4 DEF Next

\* No flush begins while the host's latest call is a stop.
THEOREM NeverFlushesWhenStopped == Spec => NoFlushWhenStopped
BY FlushIsWanted, ServiceInvariance, PTL DEF Spec, NoFlushWhenStopped

LEMMA ServiceIn == AnySpec => Init /\ [][Next]_vars
<1>1. AnyInit => Init
  BY DEF AnyInit
<1>2. [AnyNext]_all => [Next]_vars
  BY DEF AnyNext, RecallNext, ClientsNext, HumanNext, PluginNext, ServiceNext, FileNext, all
<1> QED BY <1>1, <1>2, PTL DEF AnySpec

LEMMA ServiceAlways == AnySpec => []ServiceInv
BY ServiceIn, ServiceStarts, NextService, PTL

\* The service keeps both promises in the composition, where it rests unless it is
\* the part that was chosen.
THEOREM ServiceOfComposition == AnySpec => []LatestCallWins /\ NoFlushWhenStopped
<1>1. ServiceInv => LatestCallWins
  BY DEF ServiceInv
<1> QED BY <1>1, ServiceIn, ServiceAlways, FlushIsWanted, PTL DEF NoFlushWhenStopped

-----------------------------------------------------------------------------
(* The types of the parts *)

LEMMA RecallTyped == RecallInv => Recall!TypeOK
BY DEF RecallInv, RecallTypes, Recall!TypeOK

\* The evictions that are left to come are counted down.
Evictions == evictions \in Nat
LEMMA EvictionsCount == AnySpec => []Evictions
<1> USE DEF Evictions
<1>1. AnyInit => Evictions
  BY RouterConstants DEF AnyInit, Plugin!Init, Plugin!PluginConstants
<1>2. Evictions /\ [AnyNext]_all => Evictions'
  <2> SUFFICES ASSUME evictions \in Nat, [AnyNext]_all PROVE evictions' \in Nat
    OBVIOUS
  <2>1. ASSUME Plugin!Next PROVE evictions' = evictions \/ (evictions > 0 /\ evictions' = evictions - 1)
    <3>1. ASSUME NEW h \in Hooks, Plugin!SkipHook(h) \/ Plugin!RunHook(h) \/ Plugin!ResumeHook(h)
          PROVE  evictions' = evictions
      BY <3>1 DEF Plugin!SkipHook, Plugin!RunHook, Plugin!ResumeHook
    <3>2. ASSUME NEW d \in Digests, Plugin!Accepted(d) \/ Plugin!Failed(d) \/ Plugin!Drain(d)
          PROVE  evictions' = evictions
      BY <3>2 DEF Plugin!Accepted, Plugin!Failed, Plugin!Drain
    <3>3. CASE Plugin!Evict
      BY <3>3 DEF Plugin!Evict
    <3>4. CASE Plugin!Finished
      BY <3>4 DEF Plugin!Finished, Plugin!vars
    <3> QED BY <2>1, <3>1, <3>2, <3>3, <3>4 DEF Plugin!Next
  <2>2. CASE PluginNext
    BY <2>1, <2>2 DEF PluginNext
  <2>3. CASE UNCHANGED hookVars
    BY <2>3 DEF hookVars
  <2> QED BY <2>2, <2>3 DEF AnyNext, RecallNext, ClientsNext, HumanNext, ServiceNext, FileNext, all
<1> QED BY <1>1, <1>2, PTL DEF AnySpec

LEMMA PluginTyped == PluginInv /\ Evictions => Plugin!TypeOK
<1> SUFFICES ASSUME PluginInv, Evictions PROVE Plugin!TypeOK
  OBVIOUS
<1>1. /\ Plugin!Pending \subseteq Digests /\ inFlight.nextOrdinal \in Nat
      /\ inFlight.requests \in [Plugin!Pending -> [ordinal : Nat, number : Nat, answered : BOOLEAN]]
      /\ (inFlight.active <=> Plugin!Pending # {}) /\ inFlight.retainedOrdinal < inFlight.nextOrdinal
      /\ inFlight.ended \in BOOLEAN
  BY DEF PluginInv, HooksInv, SessionOK
<1>2. \A d, e \in Plugin!Pending :
        /\ inFlight.requests[d].ordinal < inFlight.nextOrdinal
        /\ inFlight.requests[d].ordinal = inFlight.requests[e].ordinal => d = e
  BY DEF PluginInv, HooksInv, SameOrder, RequestOf
<1>3. \A d \in Plugin!Pending : inFlight.requests[d].ordinal \in 0 .. inFlight.nextOrdinal - 1
  <2> TAKE d \in Plugin!Pending
  <2>1. inFlight.requests[d].ordinal \in Nat /\ inFlight.requests[d].ordinal < inFlight.nextOrdinal
    BY <1>1, <1>2
  <2> QED BY <1>1, <2>1
<1>4. /\ hook \in [Hooks -> [point : {"new", "waiting", "resumed", "done"},
                             name : Plugin!HookNames, digest : Digests \cup {NoDigest}]]
      /\ retained \in Digests \cup {NoDigest}
  BY DEF PluginInv, HooksInv, HooksOK
<1> QED BY <1>1, <1>2, <1>3, <1>4 DEF Plugin!TypeOK, Evictions

\* Whichever part is followed keeps its types; in the file, no two lines share a name
\* and only the last may lack its newline, after any tear or rewrite.
THEOREM AlwaysTyped == AnySpec => []TypesOK
<1> DEFINE Part == part \in {"recall", "clients", "human", "plugin", "service", "file"}
           Typed ==
             /\ part = "recall" => RecallInv
             /\ part = "clients" => ClientsInv
             /\ part = "human" => HumanInv
             /\ part = "plugin" => PluginInv /\ Evictions
             /\ part = "file" => FileInv
             /\ ServiceInv /\ Part
<1>1. AnySpec => [](part = "plugin" => PluginInv /\ Evictions)
  BY PluginAlways, EvictionsCount, PTL
<1>2. AnySpec => []Part
  <2>1. AnyInit => Part
    BY DEF AnyInit
  <2>2. Part /\ [AnyNext]_all => Part'
    BY DEF AnyNext, RecallNext, ClientsNext, HumanNext, PluginNext, ServiceNext, FileNext, all
  <2> QED BY <2>1, <2>2, PTL DEF AnySpec
<1>3. Typed => TypesOK
  <2> SUFFICES ASSUME Typed PROVE TypesOK
    OBVIOUS
  <2>1. part = "recall" => Recall!TypeOK
    BY RecallTyped
  <2>2. part = "clients" => Clients!TypeOK
    BY DEF ClientsInv
  <2>3. part = "human" => Human!TypeOK
    BY DEF HumanInv
  <2>4. part = "plugin" => Plugin!TypeOK
    BY PluginTyped
  <2>5. TypeOK
    BY DEF ServiceInv
  <2>6. part = "file" => File!TypeOK
    BY FileTyped
  <2> QED BY <2>1, <2>2, <2>3, <2>4, <2>5, <2>6 DEF TypesOK
<1> QED BY <1>1, <1>2, <1>3, RecallAlways, ClientsAlways, HumanAlways, ServiceAlways, FileAlways, PTL
=============================================================================
