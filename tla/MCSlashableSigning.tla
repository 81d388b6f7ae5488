------------------------- MODULE MCSlashableSigning -------------------------
(***************************************************************************)
(* Instances of SlashableSigning for TLC.  Attestation duties cover double *)
(* votes and surrounds in both directions, block duties double proposals;  *)
(* files bring rows that conflict with them, with and without roots.       *)
(***************************************************************************)
EXTENDS SlashableSigning, Interchange, TLC

CONSTANTS t1, t2, pk1, a, b

Att(s, t, p) == [kind |-> "att", source |-> s, target |-> t, payload |-> p]

Blk(s, p) == [kind |-> "block", slot |-> s, payload |-> p]

TaskSymmetry == Permutations(Tasks)

\* Attestations: surround (0,3) around (1,2), a double vote at 2, a surround
\* of (2,3) only through its source.
AttestationDuties == {Att(0, 3, a), Att(1, 2, a), Att(1, 2, b), Att(2, 3, a)}

AttestationFiles ==
    {[atts |-> {[source |-> 1, target |-> 2, root |-> None]}, blocks |-> {}],
     [atts |-> {[source |-> 0, target |-> 1, root |-> None],
                [source |-> 2, target |-> 3, root |-> Att(2, 3, a)]}, blocks |-> {}]}

AttestationFloorPairs == {<<0, 2>>, <<0, 3>>, <<1, 2>>}

\* Blocks.
BlockDuties == {Blk(1, a), Blk(2, a), Blk(2, b), Blk(3, a)}

BlockFiles ==
    {[atts |-> {}, blocks |-> {[slot |-> 2, root |-> None]}],
     [atts |-> {}, blocks |-> {[slot |-> 1, root |-> Blk(1, a)], [slot |-> 1, root |-> None]}]}

\* Key manager: two votes for one target.
DoubleVote == {Att(0, 1, a), Att(0, 1, b)}

Local == {{"local"}}

LocalOrGrpc == {{"local"}, {"grpc"}}

AnyRegistry == {{"local"}, {"local", "http"}, {"grpc"}, {"local", "grpc"}}
=============================================================================
