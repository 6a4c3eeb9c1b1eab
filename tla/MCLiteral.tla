----------------------------- MODULE MCLiteral -----------------------------
(***************************************************************************)
(* Instances of HpackLiteral for TLC.  The octets a length continues with  *)
(* are those at the ends of the ranges of its groups, with and without the *)
(* bit that says more follow.                                              *)
(***************************************************************************)
EXTENDS HpackLiteral

MCLengthOctets == {0, 1, 3, 4, 127, 128, 129, 131, 132, 255}
=============================================================================
