------------------------------ MODULE MCBlocks ------------------------------
(***************************************************************************)
(* Instances of HpackBlocks for TLC.  A field takes 3, 4, 6 or 7 octets of *)
(* a buffer of 6: two of the smallest fit in it, the largest does not.     *)
(***************************************************************************)
EXTENDS HpackBlocks

CONSTANTS na, nb, nc, v0, v1

MCNameSize  == (na :> 1) @@ (nb :> 2) @@ (nc :> 1)
MCValueSize == (v0 :> 0) @@ (v1 :> 3)
MCStatic    == <<[nam |-> na, val |-> v0]>>

\* The field of an indexed one is looked up, so that any will do.
Plain(typ, num) ==
    [typ |-> typ, num |-> num, nput |-> <<>>, vput |-> <<>>,
     fld |-> IF typ = "UPD" THEN NoField ELSE [nam |-> na, val |-> v0]]

Literal(typ, num, nam, val, nput, vput) ==
    [typ |-> typ, num |-> num, fld |-> [nam |-> nam, val |-> val],
     nput |-> nput, vput |-> vput]

\* Strings are raw, but for a value whose 3 characters are Huffman coded.
MCIndexed == {Plain("IDX", n) : n \in 1..3}
MCUpdates == {Plain("UPD", n) : n \in {3, 8}}
MCLong    == Literal("DYN", 0, na, v1, <<1>>, <<1, 2>>)
MCShort   == Literal("DYN", 0, nb, v0, <<1, 1>>, <<>>)
MCNamed   == Literal("LIT", 2, na, v1, <<>>, <<1, 1, 1>>)
MCNever   == Literal("NVR", 0, nb, v0, <<1, 1>>, <<>>)
MCBad     == Literal("LIT", 0, nc, v0, <<1>>, <<>>)
MCEmpty   == Literal("LIT", 0, na, v0, <<>>, <<>>)

MCBlocks ==
    {<<r>> : r \in {MCLong, MCShort, MCNamed, MCNever, MCBad, MCEmpty}
                   \cup MCIndexed \cup MCUpdates}
    \cup {<<r, s>> : r \in MCUpdates,
                     s \in {MCShort, MCNamed, Plain("UPD", 8)} \cup MCIndexed}
    \cup {<<r, s>> : r \in {MCLong, Plain("IDX", 1)},
                     s \in {MCShort, MCNamed, MCBad, Plain("UPD", 8)}
                           \cup MCIndexed}
    \cup {<<MCLong, MCShort, Plain("IDX", 1)>>}
=============================================================================
