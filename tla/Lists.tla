-------------------------------- MODULE Lists --------------------------------
(***************************************************************************)
(* The few operators on sequences and finite sets that the components use, *)
(* as the community modules define them.  A component that extended        *)
(* SequencesExt would bring the definitions of that module, and of the six *)
(* modules it extends, into each proof about a composition of components,  *)
(* once for every INSTANCE.                                                *)
(***************************************************************************)
EXTENDS Naturals, Sequences, FiniteSets

Max(S) == CHOOSE m \in S : \A n \in S : m >= n
Min(S) == CHOOSE m \in S : \A n \in S : m <= n

Last(s) == s[Len(s)]
Front(s) == SubSeq(s, 1, Len(s) - 1)
RemoveAt(s, n) == SubSeq(s, 1, n - 1) \o SubSeq(s, n + 1, Len(s))
IsPrefix(s, t) == Len(s) <= Len(t) /\ SubSeq(s, 1, Len(s)) = SubSeq(t, 1, Len(s))

\* The elements of a sequence, and a finite set as a sequence without repetition.
ToSet(s) == {s[n] : n \in DOMAIN s}
IsInjective(f) == \A x, y \in DOMAIN f : f[x] = f[y] => x = y
SetToSeq(S) == CHOOSE s \in [1 .. Cardinality(S) -> S] : IsInjective(s)

FlattenSeq(seqs) ==
  IF seqs = <<>> THEN <<>>
  ELSE LET upTo[n \in 1 .. Len(seqs)] == IF n = 1 THEN seqs[1] ELSE upTo[n - 1] \o seqs[n]
       IN upTo[Len(seqs)]
=============================================================================
