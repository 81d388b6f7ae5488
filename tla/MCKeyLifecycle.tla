---------------------------- MODULE MCKeyLifecycle ----------------------------
(* KeyLifecycle for TLC.  DELETE requests are interchangeable.             *)
EXTENDS KeyLifecycle, TLC

DeleteSymmetry == Permutations(Deletes)
===============================================================================
