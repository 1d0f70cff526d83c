----------------------------- MODULE MCApproval -----------------------------
(* Small instances of Approval for TLC.  Ordinary runs are interchangeable, *)
(* and so are the messages that decide alike.                              *)
EXTENDS Approval, TLC

Symmetry == Permutations(Origins) \cup Permutations(Texts)
=============================================================================
