--------------------------- MODULE MCSessionStore ---------------------------
(* The ids a store makes up are interchangeable, and so are the new runs.   *)
EXTENDS SessionStore, TLC

NewRuns == Runs \ LegacyRuns
StoreSymmetry == Permutations(Fresh) \cup Permutations(NewRuns)
=============================================================================
