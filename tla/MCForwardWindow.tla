--------------------------- MODULE MCForwardWindow ---------------------------
(***************************************************************************)
(* Instances of ForwardWindow for TLC.                                     *)
(***************************************************************************)
EXTENDS ForwardWindow

CONSTANT k1
=============================================================================
