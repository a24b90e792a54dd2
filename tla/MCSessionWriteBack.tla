------------------------- MODULE MCSessionWriteBack -------------------------
(* Constants for TLC. *)
EXTENDS SessionWriteBack, TLC

CONSTANTS h1, h2, a, b


OneHook == {h1}
TwoHooks == {h1, h2}
OneBank == {a}
TwoBanks == {a, b}

Interchangeable == Permutations(Banks)
=============================================================================
