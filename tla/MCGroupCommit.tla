---------------------------- MODULE MCGroupCommit ----------------------------
(***************************************************************************)
(* Instances of GroupCommit for TLC.                                       *)
(***************************************************************************)
EXTENDS GroupCommit, TLC

CONSTANTS c1, c2, c3, pk1, a, b, g, h

Att(s, t, p) == [kind |-> "att", source |-> s, target |-> t, payload |-> p]

CallerSymmetry == Permutations(Callers)

\* A double vote, and a vote surrounded by another.
GroupDuties == {Att(1, 2, a), Att(1, 2, b), Att(0, 3, a)}

OneDuty == {Att(1, 2, a)}

Floors == {<<1, 3>>}
=============================================================================
