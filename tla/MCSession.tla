----------------------------- MODULE MCSession -----------------------------
(***************************************************************************)
(* Instances of HpackSession for TLC.  An entry takes 2 to 5 octets and    *)
(* the maximum is 9, so that a table holds up to four entries, a resize    *)
(* may evict some, all or none of them, and some fields fit in no table.   *)
(***************************************************************************)
EXTENDS HpackSession, TLC

CONSTANTS na, nb, v0, v1

MCNameSize  == (na :> 1) @@ (nb :> 2)
MCValueSize == (v0 :> 0) @@ (v1 :> 2)
MCStatic    == <<[nam |-> na, val |-> v0]>>
MCFields    == {[nam |-> na, val |-> v1], [nam |-> nb, val |-> v0]}
MCNoLimit   == {-1}
MCLimits    == {-1, 5}
=============================================================================
