------------------------ MODULE MCRetainCoordinator ------------------------
(***************************************************************************)
(* Values for the constants of RetainCoordinator.  One file has a legacy   *)
(* row, written before operation ids existed; in another an operator has   *)
(* removed the last field of its state, and in the third two gates were    *)
(* left closed.                                                            *)
(***************************************************************************)
EXTENDS RetainCoordinator, TLC

CONSTANTS r1, r2, g1, g2, b1, w1, w2, u1, u2, d1, d2, bankA, bankB

\* Every write of the run is for one document.
MCOneDocument == [i \in Ids |-> IF i \in Barriers THEN NoDoc ELSE d1]

\* The legacy rows and the requests are for different documents.
MCTwoDocuments ==
  [i \in Ids |-> IF i \in Barriers THEN NoDoc
                 ELSE IF i \in Legacy THEN d1 ELSE d2]

LegacyRow(pos, state) ==
  [ pos |-> pos, bank |-> bankA, op |-> NoOp, attempts |-> 0, old |-> FALSE,
    state |-> state ]

ClosedGate ==
  [NoState EXCEPT !.present = TRUE, !.gate = "probe", !.protected = TRUE]

MCEmptyFile == { <<>> }

MCLegacyFiles ==
  { [i \in {g1} |-> LegacyRow(1, NoState)],
    [i \in {g1} |-> LegacyRow(1, [NoState EXCEPT !.present = TRUE])],
    [i \in {g1, g2} |-> LegacyRow(IF i = g1 THEN 1 ELSE 2, ClosedGate)] }

MCSymmetry ==
  Permutations({w1, w2}) \cup Permutations({u1, u2})
=============================================================================
