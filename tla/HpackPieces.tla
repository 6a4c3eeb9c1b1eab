----------------------------- MODULE HpackPieces -----------------------------
(***************************************************************************)
(* hpack_decode on a piece of a block (lib/hpack.c, lib/hpack_dec.c): what *)
(* it keeps between two calls, and the buffer it writes names and values   *)
(* to.                                                                     *)
(*                                                                         *)
(* An octet of a block is a record                                         *)
(*   rep  the representation it belongs to, [typ, num, fld, nput, vput]:   *)
(*        nput and vput are for literal strings and say of each octet      *)
(*        how many characters it completes, one where the string is not    *)
(*        Huffman coded (HpackLiteral has the octets themselves)           *)
(*   stp  the step of the decoder it is meant for                          *)
(*   n    of an integer, whether more octets follow; of a string, the      *)
(*        characters it completes                                          *)
(* The decoder reads rep.typ from the first octet, rep.num, the length and *)
(* the value of a string from the last one of each.  It does not read stp. *)
(*                                                                         *)
(* The decoder is a record d:                                              *)
(*   hp           the codec, a record of HpackMemory                       *)
(*   stp bsy typ left  of struct hpack_state; left is str.len              *)
(*   used         octets written to the buffer, ctx.buf - dec.buf          *)
(*   nam val      offsets of the current field in it, -1 for NULL          *)
(*   namsz name   fld.nam_sz, and the name that lies at nam                *)
(*   flds         the complete fields in the buffer, in order              *)
(*   heard        the fields the callback has been notified of             *)
(*   big          HPACK_CTX_TOO_BIG of ctx.flg                             *)
(*   ret          the error of the call, or "OK"                           *)
(***************************************************************************)
EXTENDS HpackDecoder, SequencesExt

CONSTANTS
    BufLen,     \* dec.buf_len
    IntMask     \* numbers from this one on take two octets

ASSUME PieceAssumption == BufLen \in Nat \ {0} /\ IntMask \in Nat \ {0}

Steps == {"FLD_INT", "NAM_LEN", "NAM_STR", "VAL_LEN", "VAL_STR"}
Seen  == [fld : Field, namsz : Nat, valsz : Nat]

Decoder == [hp    : Codec,
            stp   : Steps,
            bsy   : BOOLEAN,
            typ   : {"IDX", "DYN", "LIT", "NVR", "UPD"},
            left  : Nat,
            used  : Nat,
            nam   : Nat \cup {-1},
            val   : Nat \cup {-1},
            namsz : Nat,
            name  : Name \cup {NoField},
            flds  : Seq(Field),
            heard : Seq(Seen),
            big   : BOOLEAN,
            ret   : Results \cup {"SKP", "RSZ"}]

hpd_new(hp) ==
    [hp |-> hp, stp |-> "FLD_INT", bsy |-> FALSE, typ |-> "IDX", left |-> 0,
     used |-> 0, nam |-> -1, val |-> -1, namsz |-> 0, name |-> NoField,
     flds |-> <<>>, heard |-> <<>>, big |-> FALSE, ret |-> "OK"]

\* EXPECT.  What follows an error is not done: a decoder whose ret is not OK is
\* passed on as it is, which is what CALL does.
Fail(d, err) == [d EXCEPT !.ret = err]
-----------------------------------------------------------------------------
(***************************************************************************)
(* Octets of a representation.                                             *)
(***************************************************************************)
IntLen(num) == IF num < IntMask THEN 1 ELSE 2

IntOctets(rep, stp, num) ==
    LET last == [rep |-> rep, stp |-> stp, n |-> 0]
    IN  IF num < IntMask THEN <<last>> ELSE <<[last EXCEPT !.n = 1], last>>

StringOctets(rep, len, str, put) ==
    IntOctets(rep, len, Len(put))
    \o [i \in DOMAIN put |-> [rep |-> rep, stp |-> str, n |-> put[i]]]

IsLiteral(rep) == rep.typ \in {"DYN", "LIT", "NVR"}

Octets(rep) ==
    IntOctets(rep, "FLD_INT", rep.num)
    \o (IF IsLiteral(rep) /\ rep.num = 0
        THEN StringOctets(rep, "NAM_LEN", "NAM_STR", rep.nput) ELSE <<>>)
    \o (IF IsLiteral(rep)
        THEN StringOctets(rep, "VAL_LEN", "VAL_STR", rep.vput) ELSE <<>>)

\* Those of the first k representations.
FirstOctets(reps, k) ==
    LET first[i \in 0..k] ==
            IF i = 0 THEN <<>> ELSE first[i - 1] \o Octets(reps[i])
    IN  first[k]

BlockOctets(reps) == FirstOctets(reps, Len(reps))
-----------------------------------------------------------------------------
(***************************************************************************)
(* The buffer.  hpd_skip makes room for len octets: when the buffer is     *)
(* full, what lies before the current field is dropped.                    *)
(***************************************************************************)
SkipKeepsValue(d, len) ==   \* mutant of hpd_skip: fld.val is not moved
    LET fld == d.used - d.nam
    IN  IF BufLen - d.used >= len THEN d
        ELSE IF d.nam = 0 \/ BufLen < len + fld
        THEN [d EXCEPT !.big = TRUE, !.ret = "BIG"]
        ELSE [d EXCEPT !.big = TRUE, !.used = fld, !.nam = 0, !.flds = <<>>]

SkipOnce(d, len) ==         \* mutant: a second field that does not fit is BIG
    IF BufLen - d.used >= len THEN d
    ELSE IF d.nam = 0 \/ d.big \/ BufLen < len + d.used - d.nam
    THEN [d EXCEPT !.big = TRUE, !.ret = "BIG"]
    ELSE [d EXCEPT !.big = TRUE, !.used = d.used - d.nam, !.nam = 0,
                   !.val = IF @ < 0 THEN @ ELSE d.namsz + 1, !.flds = <<>>]

hpd_skip(d, len) ==
    LET fld == d.used - d.nam
    IN  IF BufLen - d.used >= len THEN d
        ELSE IF d.nam = 0 \/ BufLen < len + fld
        THEN [d EXCEPT !.big = TRUE, !.ret = "BIG"]
        ELSE [d EXCEPT !.big = TRUE, !.used = fld, !.nam = 0,
                       !.val = IF @ < 0 THEN @ ELSE d.namsz + 1,
                       !.flds = <<>>]

\* HPD_cat, HPD_putc and HPD_puts, with the null character of the last.  A
\* piece of a raw string is written an octet at a time here, and at once by
\* HPD_cat: the octets that fit by the end of it are the same.
HPD_cat(d, len) ==
    LET room == hpd_skip(d, len)
    IN  IF room.ret # "OK" THEN room ELSE [room EXCEPT !.used = @ + len]

\* HPD_notify, and the memset of ctx.fld behind a representation.
Notified(d, fld) ==
    LET seen == [fld |-> fld, namsz |-> d.namsz, valsz |-> d.used - d.val - 1]
    IN  [d EXCEPT !.flds = Append(@, fld), !.heard = Append(@, seen),
                  !.stp = "FLD_INT", !.nam = -1, !.val = -1, !.namsz = 0,
                  !.name = NoField]
-----------------------------------------------------------------------------
(***************************************************************************)
(* Fields.                                                                 *)
(***************************************************************************)
\* HPT_decode: an indexed field.
HPT_decode(d, idx) ==
    LET fld == HPT_field(d.hp, idx)
        nam == HPD_cat([d EXCEPT !.nam = d.used, !.namsz = NameSize[fld.nam]],
                       NameSize[fld.nam] + 1)
        val == HPD_cat([nam EXCEPT !.name = fld.nam, !.val = nam.used],
                       ValueSize[fld.val] + 1)
    IN  IF idx \notin Indices(d.hp) THEN Fail(d, "IDX")
        ELSE IF nam.ret # "OK" THEN nam
        ELSE IF val.ret # "OK" THEN val
        ELSE Notified(val, fld)

\* hpack_decode_field behind the name: it is checked, and the value comes.
NameDone(d, nam) ==
    IF nam \in BadName THEN Fail(d, "CHR")
    ELSE [d EXCEPT !.name = nam, !.val = d.used, !.stp = "VAL_LEN"]

NameNotMeasured(d, rep) ==  \* mutant of DecodeName: nam_sz counts the null
    LET cat == HPD_cat(d, 1)
    IN  IF cat.ret # "OK" THEN cat
        ELSE NameDone([cat EXCEPT !.namsz = cat.used - cat.nam], rep.fld.nam)

\* The literal name is complete but for its null character.
DecodeName(d, rep) ==
    LET cat == HPD_cat(d, 1)
    IN  IF cat.ret # "OK" THEN cat
        ELSE NameDone([cat EXCEPT !.namsz = cat.used - cat.nam - 1],
                      rep.fld.nam)

\* HPT_decode_name: the name lies in a table.
HPT_decode_name(d, idx) ==
    LET nam == HPT_field(d.hp, idx).nam
        cat == HPD_cat([d EXCEPT !.namsz = NameSize[nam]], NameSize[nam] + 1)
    IN  IF idx \notin Indices(d.hp) THEN Fail(d, "IDX")
        ELSE IF cat.ret # "OK" THEN cat
        ELSE NameDone(cat, nam)

SkippedNotIndexed(d, rep) ==    \* mutant of DecodeValue: not once fields are lost
    LET cat  == HPD_cat(d, 1)
        fld  == [nam |-> d.name, val |-> rep.fld.val]
        done == Notified(cat, fld)
    IN  IF cat.ret # "OK" THEN cat
        ELSE IF fld.val \in BadValue THEN Fail(cat, "CHR")
        ELSE IF d.typ # "DYN" \/ cat.big THEN done
        ELSE [done EXCEPT !.hp = HPT_index(@, fld)]

\* hpack_decode_field and hpack_decode_dynamic behind the value.
DecodeValue(d, rep) ==
    LET cat  == HPD_cat(d, 1)
        fld  == [nam |-> d.name, val |-> rep.fld.val]
        done == Notified(cat, fld)
    IN  IF cat.ret # "OK" THEN cat
        ELSE IF fld.val \in BadValue THEN Fail(cat, "CHR")
        ELSE IF d.typ # "DYN" THEN done
        ELSE [done EXCEPT !.hp = HPT_index(@, fld)]

\* hpack_decode_field, its first step, once the index is known.
BeginField(d, idx) ==
    LET fld == [d EXCEPT !.stp = "NAM_LEN", !.nam = d.used]
    IN  IF idx = 0 THEN fld ELSE HPT_decode_name(fld, idx)
-----------------------------------------------------------------------------
(***************************************************************************)
(* Strings: an octet of the length, an octet of the characters.            *)
(***************************************************************************)
StringDone(d, rep) ==
    IF d.stp = "NAM_STR" THEN DecodeName(d, rep) ELSE DecodeValue(d, rep)

EmptyWaits(d, rep) ==   \* mutant of BeginString: an empty value has an octet
    LET len == Len(IF d.stp = "NAM_LEN" THEN rep.nput ELSE rep.vput)
    IN  [d EXCEPT !.bsy = FALSE, !.left = len,
                  !.stp = IF @ = "NAM_LEN" THEN "NAM_STR" ELSE "VAL_STR"]

BeginString(d, rep) ==
    LET len == Len(IF d.stp = "NAM_LEN" THEN rep.nput ELSE rep.vput)
        str == [d EXCEPT !.bsy = FALSE, !.left = len,
                         !.stp = IF @ = "NAM_LEN" THEN "NAM_STR"
                                 ELSE "VAL_STR"]
    IN  IF len > 0 THEN str
        ELSE IF d.stp = "NAM_LEN" THEN Fail(str, "LEN")
        ELSE StringDone(str, rep)

StringOctet(d, oct) ==
    LET put == HPD_cat([d EXCEPT !.left = @ - 1], oct.n)
    IN  IF put.ret # "OK" \/ put.left > 0 THEN put ELSE StringDone(put, oct.rep)
-----------------------------------------------------------------------------
(***************************************************************************)
(* The head of the loop of hpack_decode, and the index or size of a        *)
(* representation.  A field that does not look like an update closes the   *)
(* head of the block.                                                      *)
(***************************************************************************)
BeginRep(d, rep) ==
    LET hp   == d.hp
        head == [d EXCEPT !.typ = rep.typ]
    IN  IF rep.typ = "UPD" /\ ~hp.upd THEN Fail(d, "UPD")
        ELSE IF LooksLikeUpdate(rep) THEN head
        ELSE IF hp.nxt >= 0 THEN Fail(d, "RSZ")
        ELSE [head EXCEPT !.hp = IF hp.min < 0 THEN [hp EXCEPT !.upd = FALSE]
                                 ELSE Abort(hp)]

DecodeUpdate(d, sz) ==
    LET upd == hpack_decode_update(d.hp, sz)
    IN  IF upd.ret \in {"OK", "BLK"} THEN [d EXCEPT !.hp = upd.hp]
        ELSE Fail(d, upd.ret)

IntDone(d, num) ==
    CASE d.typ = "UPD" -> DecodeUpdate(d, num)
      [] d.typ = "IDX" -> HPT_decode(d, num)
      [] OTHER         -> BeginField(d, num)

IntOctet(d, oct) ==
    IF oct.n = 1 THEN [d EXCEPT !.bsy = TRUE]
    ELSE IntDone([d EXCEPT !.bsy = FALSE], oct.rep.num)

RepOctet(d, oct) ==
    LET head == IF d.bsy THEN d ELSE BeginRep(d, oct.rep)
    IN  IF head.ret # "OK" THEN head ELSE IntOctet(head, oct)

LengthOctet(d, oct) ==
    IF oct.n = 1 THEN [d EXCEPT !.bsy = TRUE] ELSE BeginString(d, oct.rep)

DecodeOctet(d, oct) ==
    IF d.ret # "OK" THEN d
    ELSE CASE d.stp = "FLD_INT" -> RepOctet(d, oct)
           [] d.stp \in {"NAM_LEN", "VAL_LEN"} -> LengthOctet(d, oct)
           [] OTHER -> StringOctet(d, oct)
-----------------------------------------------------------------------------
(***************************************************************************)
(* A call: hpack_decode on some octets.  same says whether dec.buf is the  *)
(* buffer of the previous call; another one ends elsewhere.  The code,     *)
(* hpack_check_buffer, compares the ends only: a buffer with another start *)
(* and the same end passes, and hpd_skip moves a field to that start; such *)
(* a call is not modelled.  A call that is refused for its arguments       *)
(* leaves the codec usable, with ARG in ctx.res.                           *)
(***************************************************************************)
BufferKept(d, cut, same) ==     \* mutant of BeginCall: ctx.buf is not reset
    [d EXCEPT !.hp = BeginDecode(@, cut), !.ret = "OK",
              !.heard = IF d.hp.res = "BLK" THEN @ ELSE <<>>]

BeginCall(d, cut, same) ==
    LET wrong == IF d.hp.res = "BLK" THEN ~same ELSE d.hp.res = "OK" /\ d.big
        fresh == [d EXCEPT !.used = 0, !.flds = <<>>, !.heard = <<>>,
                           !.stp = "FLD_INT"]
    IN  IF wrong THEN [d EXCEPT !.hp.res = "ARG", !.ret = "ARG"]
        ELSE [IF d.hp.res = "BLK" THEN d ELSE fresh EXCEPT
                !.hp = BeginDecode(@, cut), !.ret = "OK"]

Partial(d) == d.bsy \/ d.stp # "FLD_INT"

SkippedAtOnce(d, cut) ==    \* mutant of EndCall: the flag is not looked at
    IF d.ret \notin {"OK", "ARG"}
    THEN [d EXCEPT !.hp = Defunct([@ EXCEPT !.res = d.ret])]
    ELSE IF d.ret = "OK" /\ Partial(d) /\ ~cut
    THEN [d EXCEPT !.hp = Defunct([@ EXCEPT !.res = "BUF"]), !.ret = "BUF"]
    ELSE [d EXCEPT !.ret = IF d.ret = "ARG" THEN @
                           ELSE IF cut THEN "BLK" ELSE "OK"]

EndCall(d, cut) ==
    IF d.ret = "ARG" THEN d
    ELSE IF d.ret # "OK"
    THEN [d EXCEPT !.hp = Defunct(IF d.ret = "RSZ" THEN @
                                  ELSE [@ EXCEPT !.res = d.ret])]
    ELSE IF Partial(d) /\ ~cut
    THEN [d EXCEPT !.hp = Defunct([@ EXCEPT !.res = "BUF"]), !.ret = "BUF"]
    ELSE [d EXCEPT !.ret = IF cut THEN "BLK" ELSE IF d.big THEN "SKP" ELSE "OK"]

DecodeOctets(d, octets) ==
    LET after[i \in 0..Len(octets)] ==
            IF i = 0 THEN d ELSE DecodeOctet(after[i - 1], octets[i])
    IN  after[Len(octets)]

DecodePiece(d, octets, cut, same) ==
    EndCall(DecodeOctets(BeginCall(d, cut, same), octets), cut)

\* hpack_skip: the flag is all it looks at, and all it changes.
hpack_skip(d) == [d EXCEPT !.big = FALSE]
=============================================================================
