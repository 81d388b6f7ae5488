------------------------------ MODULE MCSlotLoop ------------------------------
(* SlotLoop for TLC.  Before Gloas attestations and sync messages share a  *)
(* deadline and contributions come before aggregates; from Gloas on it is  *)
(* the other way round.                                                    *)
EXTENDS SlotLoop

Schedule ==
    [preGloas |-> [att |-> 1, sync |-> 1, contrib |-> 1, agg |-> 2, ptc |-> 2],
     gloas    |-> [att |-> 1, sync |-> 2, contrib |-> 2, agg |-> 2, ptc |-> 2]]

\* Back inside a slot or by more than one, and far enough ahead for old
\* duties to be evicted.
SkewSet == {0, -1, -4, 12}
==============================================================================
