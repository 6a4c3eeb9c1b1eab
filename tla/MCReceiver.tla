----------------------------- MODULE MCReceiver -----------------------------
(***************************************************************************)
(* Instances of HpackReceiver for TLC.  With UpdateBit 2, the indices 2, 3 *)
(* and 6 of an indexed field, and 2 and more of a field with incremental   *)
(* indexing, look like updates; 1, 4 and 5 do not.                         *)
(***************************************************************************)
EXTENDS HpackReceiver, TLC

CONSTANTS na, nb, v0, v1

MCNameSize  == (na :> 1) @@ (nb :> 2)
MCValueSize == (v0 :> 0) @@ (v1 :> 2)
MCStatic    == <<[nam |-> na, val |-> v0]>>
MCFields    == {[nam |-> na, val |-> v1], [nam |-> nb, val |-> v0]}
=============================================================================
