---------------------------- MODULE HpackLiteral ----------------------------
(***************************************************************************)
(* A string literal, as hpack_decode_string reads it (lib/hpack.c), beside *)
(* the mathematics of RFC 7541 sections 5.1 and 5.2: the value of its      *)
(* length and, for a Huffman string, the characters of its bits.  The      *)
(* octets are any, and each may be the first of a call: a block may be cut *)
(* anywhere.                                                               *)
(*                                                                         *)
(* A step is an octet, one pass of the loops of HPI_decode and HPH_decode, *)
(* so that every octet can be tried in every state of the decoder; what    *)
(* hpack_decode_string does between them is in the step of the last octet  *)
(* of the length, and what ends HPH_decode in that of the last of the      *)
(* string.  A raw string is not followed: its octets are its characters.   *)
(***************************************************************************)
EXTENDS HpackInt, HpackHuffman

CONSTANTS
    LengthOctets,   \* octets a length may continue with
    MaxGroups,      \* bound on the number of octets it continues with
    MaxString       \* longest Huffman string that is followed

ASSUME LiteralAssumption ==
    /\ LengthOctets \subseteq Octet
    /\ MaxGroups \in Nat /\ MaxString \in Nat

VARIABLES
    phase,  \* what comes next: "BEGIN" a literal, "LEN" or "STR" octets
    ret,    \* the last result
    int,    \* the length being decoded
    isHuf,  \* whether the decoder takes the string for a Huffman string
    left,   \* str.len, octets of the string to come
    huf,    \* the Huffman decoder
    eos,    \* its local eos, lost at the end of a call
    meant   \* what the octets say: see Meaning

vars == <<phase, ret, int, isHuf, left, huf, eos, meant>>

(***************************************************************************)
(* Meaning of the octets so far.                                           *)
(*   huf     the first bit of the literal                                  *)
(*   val     the value of the length, or TooLarge when it is no uint16_t   *)
(*   groups  the number of octets of the length behind the first           *)
(*   n code  the bits behind the last complete code, their number and      *)
(*           their value as a number                                       *)
(*   same    whether each octet put out the characters its bits complete   *)
(***************************************************************************)
TooLarge == UINT16

Capped(n) == Min({n, TooLarge})

Grown(val, groups, b) ==
    IF b % 128 = 0 THEN val
    ELSE IF groups > 2 THEN TooLarge
    ELSE Capped(val + (b % 128) * 128^groups)

\* The code of 30 bits is the end of the string: nothing is read behind it.
ReadBits(groups, n, code, bits) ==
    LET read(acc, bit) ==
            LET more == 2 * acc.code + bit
                done == Ranks(groups, acc.n + 1, more)
            IN  IF acc.n = 30 THEN acc
                ELSE IF done \subseteq {EOS}
                THEN [acc EXCEPT !.n = @ + 1, !.code = more]
                ELSE [n |-> 0, code |-> 0,
                      out |-> Append(acc.out, Chars[Min(done)])]
    IN  FoldLeft(read, [n |-> n, code |-> code, out |-> <<>>], bits)

OctetBits(b) == [k \in 1..8 |-> (b \div 2^(8 - k)) % 2]

Meaning == [huf : BOOLEAN, val : 0..TooLarge, groups : 0..MaxGroups,
            n : 0..30, code : 0..(2^30 - 1), same : BOOLEAN]

NoMeaning == [huf |-> FALSE, val |-> 0, groups |-> 0,
              n |-> 0, code |-> 0, same |-> TRUE]

\* At the end of a string: fewer than 8 bits are left, all of them ones.
Padded == meant.n < 8 /\ meant.code = 2^meant.n - 1
-----------------------------------------------------------------------------
Init ==
    /\ phase = "BEGIN" /\ ret = "OK"
    /\ int = IntIdle /\ isHuf = FALSE /\ left = 0
    /\ huf = HufIdle /\ eos = FALSE
    /\ meant = NoMeaning

(***************************************************************************)
(* hpack_decode_string, once HPI_decode has returned: the string is set up *)
(* in the memory of the integer.                                           *)
(***************************************************************************)
SetUp(num, flag) ==
    /\ isHuf' = flag
    /\ huf' = HufIdle /\ eos' = FALSE
    /\ IF num.bsy
       THEN phase' = "LEN" /\ int' = num /\ UNCHANGED left
       ELSE IF flag /\ num.v \in 1..MaxString
       THEN phase' = "STR" /\ int' = num /\ left' = num.v
       ELSE phase' = "BEGIN" /\ int' = num /\ left' = 0

Begin(b) ==
    /\ phase = "BEGIN" /\ ret = "OK"
    /\ SetUp(IntPrefix(7, b), b >= 128)
    /\ meant' = [NoMeaning EXCEPT !.huf = b >= 128, !.val = b % 128]
    /\ UNCHANGED ret

(***************************************************************************)
(* An octet of the length.  The Huffman flag is read from the octet a call *)
(* starts with, before HPI_decode is called.                               *)
(***************************************************************************)
LengthFlag(b, cut) == IF cut THEN b >= 128 ELSE isHuf

Length(b, cut) ==
    LET nxt == IntGroup(int, b)
    IN  /\ phase = "LEN" /\ ret = "OK"
        /\ meant.groups < MaxGroups
        /\ meant' = [meant EXCEPT !.val = Grown(@, meant.groups, b),
                                  !.groups = @ + 1]
        /\ ret' = nxt.ret
        /\ IF nxt.ret = "OK" THEN SetUp(nxt.int, LengthFlag(b, cut))
           ELSE UNCHANGED <<phase, int, isHuf, left, huf, eos>>

(***************************************************************************)
(* An octet of a Huffman string, and the end of HPH_decode behind the last *)
(* one.                                                                    *)
(***************************************************************************)
\* eos is local to HPH_decode: a new call starts with none.
EosRead(cut) == IF cut THEN FALSE ELSE eos

StringOctet(tables, groups, b, cut) ==
    LET nxt  == HufOctet(tables, huf, EosRead(cut), b)
        math == ReadBits(groups, meant.n, meant.code, OctetBits(b))
        end  == left = 1 /\ ~HufEnd(nxt.huf, nxt.eos)
    IN  /\ huf' = nxt.huf /\ eos' = nxt.eos
        /\ ret' = IF nxt.ret = "OK" /\ ~end THEN "OK" ELSE "HUF"
        /\ meant' = [meant EXCEPT !.n = math.n, !.code = math.code,
                                  !.same = @ /\ math.out = nxt.out]

\* The tables are built once per step: TLC does not keep them.
String ==
    /\ phase = "STR" /\ ret = "OK"
    /\ \E tables \in {Tables}, groups \in {CodeGroups} :
        \E b \in Octet, cut \in BOOLEAN : StringOctet(tables, groups, b, cut)
    /\ left' = left - 1
    /\ phase' = IF left = 1 THEN "BEGIN" ELSE "STR"
    /\ UNCHANGED <<int, isHuf>>

Next ==
    \/ \E b \in Octet : Begin(b)
    \/ \E b \in LengthOctets, cut \in BOOLEAN : Length(b, cut)
    \/ String

Spec == Init /\ [][Next]_vars
-----------------------------------------------------------------------------
\* Behind an octet fewer than 8 bits are left, as HPH_decode asserts before the
\* next one and at the end of the string, unless it was refused with the end of
\* string in it.
TypeOK ==
    /\ phase \in {"BEGIN", "LEN", "STR"}
    /\ ret \in {"OK", "INT", "HUF"}
    /\ int \in IntState
    /\ isHuf \in BOOLEAN
    /\ left \in 0..MaxString
    /\ huf.node \in (0..3) \X Nat /\ huf.bits \in 0..(UINT16 - 1)
    /\ huf.blen \in IF meant.n = 30 THEN 0..15 ELSE 0..7
    /\ eos \in BOOLEAN
    /\ meant \in Meaning

\* HPI_decode returns the value of the octets, however long their sequence and
\* wherever it is cut, when that value is a uint16_t, and refuses none of these:
\* neither the 16-bit sum nor the 8-bit weight loses anything of them.
LengthExact ==
    /\ phase # "LEN" /\ meant.val < TooLarge => int.v = meant.val
    /\ ret = "INT" => meant.val = TooLarge

\* Behind LengthExact: as long as the value is a uint16_t the sum of
\* HPI_decode is exact, and its weight that of the group to come.  From the
\* third group on another has only zeros, or is too large, whatever the 8-bit
\* weight has become by then.
LengthRead ==
    /\ int \in IntState /\ meant.groups \in Nat /\ meant.val \in 0..TooLarge
    /\ meant.val < TooLarge => int.v = meant.val
    /\ ret = "INT" => meant.val = TooLarge
    /\ phase = "LEN" /\ ret = "OK" /\ meant.groups <= 2 =>
          int.m = 7 * meant.groups
    /\ meant.groups = 0 => meant.val <= IF phase = "LEN" THEN 127 ELSE 126
    /\ meant.groups = 1 => meant.val <= 254
    /\ meant.groups = 2 => meant.val <= 16510

\* What HPI_encode writes for the value that was read is read back by
\* HPI_decode, for every prefix, and no shorter than what was read is longer.
LengthWrites ==
    phase # "LEN" /\ meant.val < TooLarge =>
        /\ \A pfx \in 4..7 :
              LET out == HPI_encode(pfx, 0, int.v)
                  inp == HPI_decode(IntIdle, pfx, out)
              IN  /\ inp.ret = "OK" /\ inp.int.v = int.v
                      /\ inp.len = Len(out)
        /\ Len(HPI_encode(7, 0, int.v)) <= meant.groups + 1

\* A value that is no uint16_t is refused: "Decoding of an integer gives a
\* value too large" is what the result INT is for.
LargeRefused == phase # "LEN" => meant.val < TooLarge

\* The string is read as its first bit says, a Huffman string or not, wherever
\* the literal is cut.
ReadAsFlagged == phase # "LEN" => isHuf = meant.huf

\* The tables put out the characters the bits complete, octet by octet.
SameCharacters == meant.same

\* The decoder stands at the bits that do not complete a code: those its table
\* stands for and those at the top of the register, which holds no other: none
\* when none is left, as HPH_decode asserts of a string without padding.
Aligned ==
    /\ huf.bits % 2^(16 - huf.blen) = 0
    /\ ret = "OK" /\ phase = "STR" =>
          /\ meant.n = 8 * huf.node[1] + huf.blen
          /\ meant.code = huf.node[2] * 2^huf.blen
                          + huf.bits \div 2^(16 - huf.blen)

\* A Huffman string is refused when it holds the end of string, or ends with
\* anything but up to 7 ones behind its last character, and only then; a call
\* that starts within the string forgets nothing of it.
StringRefused ==
    /\ phase = "STR" => (ret = "HUF" <=> meant.n = 30)
    /\ phase = "BEGIN" /\ isHuf /\ int.v \in 1..MaxString =>
          (ret = "HUF" <=> ~Padded)
=============================================================================
