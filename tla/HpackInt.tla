------------------------------ MODULE HpackInt ------------------------------
(***************************************************************************)
(* Integers of an HPACK block (lib/hpack_int.c): a prefix of 4 to 7 bits,  *)
(* then groups of 7 bits, least significant first, whose high bit says     *)
(* that another follows.                                                   *)
(*                                                                         *)
(* The state of an integer that is being decoded survives the end of a     *)
(* block's piece.  It is a record int with the members of struct           *)
(* hpack_state it lives in:                                                *)
(*   bsy   more octets of the integer are expected                         *)
(*   v     the value so far, a uint16_t                                    *)
(*   m     the weight of the next group, a uint8_t                         *)
(***************************************************************************)
EXTENDS Integers, Sequences

Octet == 0..255
UINT16 == 65536     \* the values of a uint16_t, and
UINT8 == 256        \* of a uint8_t

IntState == [bsy : BOOLEAN, v : 0..(UINT16 - 1), m : 0..(UINT8 - 1)]
IntIdle == [bsy |-> FALSE, v |-> 0, m |-> 0]

Mask(pfx) == 2^pfx - 1
-----------------------------------------------------------------------------
(***************************************************************************)
(* HPI_decode: the octet that holds the prefix, and one pass of the loop   *)
(* over those that follow.  The sum is stored in 16 bits before it is      *)
(* compared with the previous one.                                         *)
(***************************************************************************)
IntPrefix(pfx, b) ==
    LET v == b % 2^pfx
    IN  [bsy |-> v = Mask(pfx), v |-> v, m |-> 0]

IntBoundShort(int, b) ==    \* mutant of IntGroup: a third group has no room
    LET n == (int.v + (b % 128) * 2^(int.m % 16)) % UINT16
    IN  IF (int.m >= 14 /\ b % 128 # 0) \/ n < int.v
        THEN [ret |-> "INT", int |-> int]
        ELSE [ret |-> "OK",
              int |-> [bsy |-> b >= 128, v |-> n, m |-> (int.m + 7) % UINT8]]

IntWeightEight(int, b) ==   \* mutant of IntGroup: a group weighs an octet
    LET n == (int.v + (b % 128) * 2^(int.m % 17)) % UINT16
    IN  IF (int.m > 16 /\ b % 128 # 0) \/ n < int.v
        THEN [ret |-> "INT", int |-> int]
        ELSE [ret |-> "OK",
              int |-> [bsy |-> b >= 128, v |-> n, m |-> (int.m + 8) % UINT8]]

IntGroup(int, b) ==
    LET bits == b % 128
        n    == IF int.m <= 16 THEN (int.v + bits * 2^int.m) % UINT16
                ELSE int.v
    IN  IF (int.m > 16 /\ bits # 0) \/ n < int.v
        THEN [ret |-> "INT", int |-> int]
        ELSE [ret |-> "OK",
              int |-> [bsy |-> b >= 128, v |-> n, m |-> (int.m + 7) % UINT8]]

\* The loop on to octet b, the i-th of the call: nothing is read behind an
\* error or the last group.  len is hpi.l, the octets read by this call.
GroupAfter(prev, b, i) ==
    LET nxt == IntGroup(prev.int, b)
    IN  IF prev.ret # "OK" \/ ~prev.int.bsy THEN prev
        ELSE [ret |-> nxt.ret, int |-> nxt.int,
              len |-> IF nxt.ret = "OK" THEN i ELSE prev.len]

\* The groups of blk, as many as there are.
IntGroups(int, blk) ==
    LET read[i \in 0..Len(blk)] ==
            IF i = 0 THEN [ret |-> "OK", int |-> int, len |-> 0]
            ELSE GroupAfter(read[i - 1], blk[i], i)
        end == read[Len(blk)]
    IN  IF end.ret = "OK" /\ end.int.bsy THEN [end EXCEPT !.ret = "BUF"]
        ELSE end

HPI_decode(int, pfx, blk) ==
    IF int.bsy THEN IntGroups(int, blk)
    ELSE [IntGroups(IntPrefix(pfx, Head(blk)), Tail(blk)) EXCEPT !.len = @ + 1]
-----------------------------------------------------------------------------
(***************************************************************************)
(* HPI_encode: pat is the pattern above the prefix in the first octet.     *)
(***************************************************************************)
\* The loop of HPI_encode, which shifts val until it has no more than 7 bits:
\* a uint16_t has up to three groups.
Groups(val) ==
    IF val < 128 THEN <<val>>
    ELSE IF val < 128 * 128 THEN <<128 + (val % 128), val \div 128>>
    ELSE <<128 + (val % 128), 128 + ((val \div 128) % 128),
           val \div (128 * 128)>>

EncodeMaskShort(pfx, pat, val) ==   \* mutant of HPI_encode: the mask is a value
    IF val <= Mask(pfx) THEN <<pat + val>>
    ELSE <<pat + Mask(pfx)>> \o Groups(val - Mask(pfx))

HPI_encode(pfx, pat, val) ==
    IF val < Mask(pfx) THEN <<pat + val>>
    ELSE <<pat + Mask(pfx)>> \o Groups(val - Mask(pfx))
=============================================================================
