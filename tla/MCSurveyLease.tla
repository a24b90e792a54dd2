--------------------------- MODULE MCSurveyLease ---------------------------
(***************************************************************************)
(* Three contenders: a holder, a reclaimer and a third that moves in       *)
(* between the steps of the other two.                                     *)
(***************************************************************************)
EXTENDS SurveyLease, TLC

CONSTANTS c1, c2, c3

MCSymmetry == Permutations(Contenders)
=============================================================================
