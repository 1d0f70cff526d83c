----------------------------- MODULE MCTurnLoop -----------------------------
(* Small instances of TurnLoop for TLC.                                    *)
EXTENDS TurnLoop, TLC

Symmetry == Permutations(Requests) \cup Permutations(Loops)
=============================================================================
