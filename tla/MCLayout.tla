------------------------------ MODULE MCLayout ------------------------------
(***************************************************************************)
(* Instances of HpackLayout for TLC.  An entry takes 10 to 14 cells of the *)
(* 36 there are at most: tables hold up to three entries, and one is too   *)
(* large for the smallest limit.  With 3 cells of padding the names of 1   *)
(* and 2 octets fit in it with their null character, the one of 3 does     *)
(* not.                                                                    *)
(***************************************************************************)
EXTENDS HpackLayout, TLC

CONSTANTS na, nb, nc, v0, v1

MCNameSize  == [n \in Name |-> CASE n = na -> 1 [] n = nb -> 2 [] n = nc -> 3]
MCValueSize == (v0 :> 0) @@ (v1 :> 2)
=============================================================================
