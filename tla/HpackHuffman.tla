---------------------------- MODULE HpackHuffman ----------------------------
(***************************************************************************)
(* The Huffman code of HPACK strings: the code of inc/tbl/hpack_huffman.h, *)
(* the lookup tables that gen/hpack_huf_dec.c is to make of it, and the    *)
(* functions of lib/hpack_huf.c that use them.  The tables are derived     *)
(* here from the code; how the generator comes to them, with msk and ref,  *)
(* is not modelled.                                                        *)
(*                                                                         *)
(* The state of a string that is being decoded is a record huf:            *)
(*   node  the table in use, dec and oct: <<n, p>> is the table for codes  *)
(*         whose first n octets are p; the root is <<0, 0>>                *)
(*   bits  the bits not yet used, at the top of a uint16_t                 *)
(*   blen  their number                                                    *)
(* Characters are octets.                                                  *)
(***************************************************************************)
EXTENDS Integers, SequencesExt

EOS == 257          \* rank of the end of string, behind the 256 characters

\* The characters in the order of their codes.  A code is the one before it
\* plus one, made as long as it has to be.
ShortCodes ==       \* codes of 5 to 8 bits
    << 48, 49, 50, 97, 99, 101, 105, 111, 115, 116, 32, 37, 45, 46, 47, 51,
       52, 53, 54, 55, 56, 57, 61, 65, 95, 98, 100, 102, 103, 104, 108, 109,
       110, 112, 114, 117, 58, 66, 67, 68, 69, 70, 71, 72, 73, 74, 75, 76,
       77, 78, 79, 80, 81, 82, 83, 84, 85, 86, 87, 89, 106, 107, 113, 118,
       119, 120, 121, 122, 38, 42, 44, 59, 88, 90 >>

LongCodes ==        \* codes of 10 to 30 bits
    << 33, 34, 40, 41, 63, 39, 43, 124, 35, 62, 0, 36, 64, 91, 93, 126, 94,
       125, 60, 96, 123, 92, 195, 208, 128, 130, 131, 162, 184, 194, 224,
       226, 153, 161, 167, 172, 176, 177, 179, 209, 216, 217, 227, 229, 230,
       129, 132, 133, 134, 136, 146, 154, 156, 160, 163, 164, 169, 170, 173,
       178, 181, 185, 186, 187, 189, 190, 196, 198, 228, 232, 233, 1, 135,
       137, 138, 139, 140, 141, 143, 147, 149, 150, 151, 152, 155, 157, 158,
       165, 166, 168, 174, 175, 180, 182, 183, 188, 191, 197, 231, 239, 9,
       142, 144, 145, 148, 159, 171, 206, 215, 225, 236, 237, 199, 207, 234,
       235, 192, 193, 200, 201, 202, 205, 210, 213, 218, 219, 238, 240, 242,
       243, 255, 203, 204, 211, 212, 214, 221, 222, 223, 241, 244, 245, 246,
       247, 248, 250, 251, 252, 253, 254, 2, 3, 4, 5, 6, 7, 8, 11, 12, 14,
       15, 16, 17, 18, 19, 20, 21, 23, 24, 25, 26, 27, 28, 29, 30, 31, 127,
       220, 249, 10, 13, 22 >>

\* The codes of a length, in the order of the lengths: the rank of the first
\* one, its length, its value.
Lengths ==
    << <<1, 5, 0>>, <<11, 6, 20>>, <<37, 7, 92>>, <<69, 8, 248>>,
       <<75, 10, 1016>>, <<80, 11, 2042>>, <<83, 12, 4090>>,
       <<85, 13, 8184>>, <<91, 14, 16380>>, <<93, 15, 32764>>,
       <<96, 19, 524272>>, <<99, 20, 1048550>>, <<107, 21, 2097116>>,
       <<120, 22, 4194258>>, <<146, 23, 8388568>>, <<175, 24, 16777194>>,
       <<187, 25, 33554412>>, <<191, 26, 67108832>>, <<206, 27, 134217694>>,
       <<225, 28, 268435426>>, <<254, 30, 1073741820>> >>

LastRank(g) == IF g = Len(Lengths) THEN EOS ELSE Lengths[g + 1][1] - 1

\* The same as records: the codes of len bits, from code to last.
CodeGroups ==
    {[rank |-> Lengths[g][1], len |-> Lengths[g][2], code |-> Lengths[g][3],
      last |-> Lengths[g][3] + LastRank(g) - Lengths[g][1]] :
     g \in DOMAIN Lengths}

\* The rank of the code of n bits and this value, when there is one.
Ranks(groups, n, code) ==
    {g.rank + code - g.code :
        g \in {h \in groups : h.len = n /\ code \in h.code..h.last}}

Chars == ShortCodes \o LongCodes

\* An array of n elements.  The definitions below that build the tables take
\* what they are built from as parameters, and TLC builds each once.
Array(n, Op(_)) == <<>> \o [k \in 1..n |-> Op(k)]
-----------------------------------------------------------------------------
(***************************************************************************)
(* What dec_generate writes: a table has an entry for each value of the    *)
(* next bits of the codes that reach it, as many as they have, up to 8. An *)
(* entry that completes a code (dec_make_hit) has its character and the    *)
(* number of its bits left.  Others (dec_make_misses, an entry at a time   *)
(* here) use the whole octet and lead to another table, except for the end *)
(* of string, whose entry has len 0.                                       *)
(***************************************************************************)
Root == <<0, 0>>

\* Groups with a code whose first node[1] octets are node[2].
GroupsUnder(node) ==
    {g \in CodeGroups :
        LET left == g.len - 8 * node[1]
        IN  left > 0 /\ node[2] \in (g.code \div 2^left)..(g.last \div 2^left)}

HitKeepsLength(node, len, chr) ==   \* mutant of dec_make_hit: the whole code's
    [len |-> Min({8, len}), chr |-> chr, nxt |-> Root]

dec_make_hit(node, len, chr) ==
    [len |-> len - 8 * node[1], chr |-> chr, nxt |-> Root]

dec_make_miss(node, x) ==
    [len |-> 8, chr |-> -1, nxt |-> <<node[1] + 1, 256 * node[2] + x>>]

\* The table of a node: its entry for x is for the code that the first of the
\* bits of x complete, if any.
hph_dec(node, chars) ==
    LET groups  == GroupsUnder(node)
        width   == Min({8, Max({g.len : g \in groups}) - 8 * node[1]})
        hits(x) == UNION { {<<k, i>> : i \in Ranks(groups, 8 * node[1] + k,
                                2^k * node[2] + x \div 2^(width - k))} :
                           k \in 1..width }
        entry(hit, x) ==
            IF hit = {} THEN dec_make_miss(node, x)
            ELSE LET h == CHOOSE h \in hit : TRUE
                 IN  IF h[2] = EOS THEN [len |-> 0, chr |-> -1, nxt |-> Root]
                     ELSE dec_make_hit(node, 8 * node[1] + h[1], chars[h[2]])
        oct(j) == entry(hits(j - 1), j - 1)
    IN  [node |-> node, len |-> width, oct |-> Array(2^width, oct)]

\* The tables the codes of a group lead to from the root, by octets.
Under(g) ==
    UNION { {<<n, p>> : p \in (g.code \div 2^(g.len - 8 * n))
                               ..(g.last \div 2^(g.len - 8 * n))} :
            n \in {k \in 1..3 : g.len > 8 * k} }

Nodes == {Root} \cup UNION {Under(g) : g \in CodeGroups}

Tables == LET chars == Chars IN {hph_dec(node, chars) : node \in Nodes}
-----------------------------------------------------------------------------
HufIdle == [node |-> Root, bits |-> 0, blen |-> 0]

(***************************************************************************)
(* hph_decode_lookup: the codes completed by the bits at hand.  The result *)
(* has the characters put out, in order, and eos, set when the last lookup *)
(* did not complete a code.                                                *)
(***************************************************************************)
Lookups == [huf : [node : (0..3) \X Nat, bits : 0..65535, blen : Nat],
            eos : BOOLEAN, out : Seq(Nat)]

LookupOnce(tables, huf, eos, out) ==    \* mutant: one code per octet
    LET dec == CHOOSE t \in tables : t.node = huf.node
        ent == dec.oct[1 + huf.bits \div 2^(16 - dec.len)]
    IN  [ret |-> "OK", eos |-> FALSE, out |-> Append(out, ent.chr),
         huf |-> [huf EXCEPT !.bits = (@ * 2^ent.len) % 65536,
                             !.blen = @ - ent.len]]

hph_decode_lookup(tables, huf, eos, out) ==
    LET look[at \in Lookups] ==
            LET dec == CHOOSE t \in tables : t.node = at.huf.node
                ent == dec.oct[1 + at.huf.bits \div 2^(16 - dec.len)]
                nxt == [huf |-> [node |-> ent.nxt,
                                 bits |-> (at.huf.bits * 2^ent.len) % 65536,
                                 blen |-> at.huf.blen - ent.len],
                        eos |-> ent.nxt # Root,
                        out |-> IF ent.nxt = Root THEN Append(at.out, ent.chr)
                                ELSE at.out]
            IN  IF at.huf.blen < dec.oct[1].len
                THEN [ret |-> "OK", huf |-> at.huf, eos |-> at.eos, out |-> at.out]
                ELSE IF ent.len = 0
                THEN [ret |-> "HUF", huf |-> at.huf, eos |-> at.eos, out |-> at.out]
                ELSE IF at.huf.blen < ent.len
                THEN [ret |-> "OK", huf |-> at.huf, eos |-> at.eos, out |-> at.out]
                ELSE look[nxt]
    IN  look[[huf |-> huf, eos |-> eos, out |-> out]]

\* One pass of the loop of HPH_decode: an octet of the string.
HufOctet(tables, huf, eos, b) ==
    hph_decode_lookup(tables,
                      [huf EXCEPT !.bits = @ + b * 2^(8 - huf.blen),
                                  !.blen = @ + 8], eos, <<>>)

PaddingUnchecked(huf, eos) ==   \* mutant of HufEnd: padding is not compared
    ~eos

\* The end of HPH_decode: no code is cut short and the bits left are ones.
HufEnd(huf, eos) ==
    /\ ~eos
    /\ huf.blen > 0 => huf.bits = 65536 - 2^(16 - huf.blen)
-----------------------------------------------------------------------------
(***************************************************************************)
(* HPH_encode and HPH_size: the codes of the characters one after the      *)
(* other, filled with ones to a whole octet.                               *)
(***************************************************************************)
Rank(c) == CHOOSE i \in 1..256 : Chars[i] = c

BitsOf(c) ==
    LET i == Rank(c)
        g == CHOOSE g \in CodeGroups : i \in g.rank..(g.rank + g.last - g.code)
    IN  [k \in 1..g.len |-> ((g.code + i - g.rank) \div 2^(g.len - k)) % 2]

PadLength(n) == (8 - (n % 8)) % 8

PackOctet(bits, k) ==
    LET at(j) == bits[8 * (k - 1) + j]
    IN  at(1) * 128 + at(2) * 64 + at(3) * 32 + at(4) * 16
        + at(5) * 8 + at(6) * 4 + at(7) * 2 + at(8)

StringBits(str) == FlattenSeq([i \in DOMAIN str |-> BitsOf(str[i])])

HPH_size(str) == (Len(StringBits(str)) + 7) \div 8

HPH_encode(str) ==
    LET bits == StringBits(str)
        full == bits \o [k \in 1..PadLength(Len(bits)) |-> 1]
    IN  [k \in 1..(Len(full) \div 8) |-> PackOctet(full, k)]
=============================================================================
