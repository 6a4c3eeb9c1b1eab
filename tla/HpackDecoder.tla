---------------------------- MODULE HpackDecoder ----------------------------
(***************************************************************************)
(* hpack_decode (lib/hpack.c, "Decoder"), as an operator on the codec and  *)
(* the representations of HpackEncoder.                                    *)
(*                                                                         *)
(* One call decodes one whole representation, with dec->cut unless it is   *)
(* the last of its block.  A call on a longer part of a block is a         *)
(* sequence of such calls: the loop in hpack_decode starts each            *)
(* representation from the codec alone.                                    *)
(***************************************************************************)
EXTENDS HpackEncoder

CONSTANT UpdateBit  \* HPACK_PAT_UPD, the first octet's mark of an update: 32

ASSUME UpdateBitAssumption == UpdateBit \in Nat \ {0}

\* A call that fails leaves its result in ctx.res and the codec defunct; what
\* it has done to the sizes by then is never read again.
Refuse(hp, err) ==
    [hp |-> Defunct([hp EXCEPT !.res = err]), ret |-> err, fld |-> NoField]

Accept(hp, fld) == [hp |-> hp, ret |-> hp.res, fld |-> fld]
-----------------------------------------------------------------------------
OldMax(hp) ==   \* mutant of SettledMax: the resize is never taken over
    hp.max

\* The maximum the decoder holds the encoder to once the update is read.
SettledMax(hp) ==
    IF hp.min >= 0 /\ hp.min = hp.nxt THEN hp.nxt ELSE hp.max

\* Does the update say what the resizes since the last block call for?
ExpectedUpdate(hp, sz) ==
    hp.min >= 0 => IF hp.min < hp.nxt THEN sz = hp.min ELSE sz <= hp.nxt

SettleAlways(hp, sz) ==     \* mutant of Settle: without a resize that waits
    [hp EXCEPT !.max = hp.nxt, !.lim = sz,
               !.min = -1, !.nxt = -1, !.upd = FALSE]

\* The codec when the size has been accepted, before entries are evicted.
Settle(hp, sz) ==
    IF hp.min >= 0 /\ hp.min < hp.nxt
    THEN [hp EXCEPT !.min = hp.nxt, !.lim = sz]
    ELSE [hp EXCEPT !.max = SettledMax(hp), !.lim = sz,
                    !.min = -1, !.nxt = -1, !.upd = FALSE]

UpdateKeepsEntries(hp, sz) ==   \* mutant of hpack_decode_update: no eviction
    IF ~hp.upd \/ ~ExpectedUpdate(hp, sz) THEN Refuse(hp, "UPD")
    ELSE IF sz > SettledMax(hp) THEN Refuse(hp, "LEN")
    ELSE Accept(Settle(hp, sz), NoField)

UpdateUnbounded(hp, sz) ==      \* mutant: any size is accepted
    LET set == Settle(hp, sz)
    IN  IF ~hp.upd \/ ~ExpectedUpdate(hp, sz) THEN Refuse(hp, "UPD")
        ELSE Accept(HPT_adjust(set, set.len), NoField)

hpack_decode_update(hp, sz) ==
    LET set == Settle(hp, sz)
    IN  IF ~hp.upd \/ ~ExpectedUpdate(hp, sz) THEN Refuse(hp, "UPD")
        ELSE IF sz > SettledMax(hp) THEN Refuse(hp, "LEN")
        ELSE Accept(HPT_adjust(set, set.len), NoField)

hpack_decode_indexed(hp, rep) ==
    IF rep.num \notin Indices(hp) THEN Refuse(hp, "IDX")
    ELSE Accept(hp, HPT_field(hp, rep.num))

\* hpack_decode_field: the name, literal or from the tables, then the value.
\* A field with incremental indexing is then inserted.
hpack_decode_field(hp, rep) ==
    LET fld == [nam |-> IF rep.num = 0 THEN rep.fld.nam
                        ELSE HPT_field(hp, rep.num).nam,
                val |-> rep.fld.val]
    IN  IF rep.num # 0 /\ rep.num \notin Indices(hp) THEN Refuse(hp, "IDX")
        ELSE IF fld.nam \in BadName \/ fld.val \in BadValue
        THEN Refuse(hp, "CHR")
        ELSE Accept(IF rep.typ = "DYN" THEN HPT_index(hp, fld) ELSE hp, fld)
-----------------------------------------------------------------------------
BeginAnew(hp, cut) ==   \* mutant of BeginDecode: every call starts a block
    [hp EXCEPT !.res = IF cut THEN "BLK" ELSE "OK", !.upd = TRUE]

BeginDecode(hp, cut) ==
    IF ~hp.self \/ hp.res \notin {"OK", "BLK"} THEN Abort(hp)
    ELSE [hp EXCEPT !.res = IF cut THEN "BLK" ELSE "OK",
                    !.upd = IF hp.res = "BLK" THEN @ ELSE TRUE]

\* What hpack_decode takes for an update at the head of its loop: any octet
\* with HPACK_PAT_UPD set, which the 7-bit prefix of an indexed field and the
\* 6-bit prefix of a field with incremental indexing may have as well.
LooksLikeUpdate(rep) ==
    \/ rep.typ = "UPD"
    \/ rep.typ = "IDX" /\ (\/ rep.num >= 3 * UpdateBit
                           \/ rep.num >= UpdateBit /\ rep.num < 2 * UpdateBit)
    \/ rep.typ = "DYN" /\ rep.num >= UpdateBit

\* A representation that does not look like an update closes the head of the
\* block; by then the resizes must have been signalled.
hpack_decode(hp, rep) ==
    LET ctx  == BeginDecode(hp, rep.cut)
        body == IF LooksLikeUpdate(rep) THEN ctx
                ELSE IF ctx.min < 0 THEN [ctx EXCEPT !.upd = FALSE]
                ELSE Abort(ctx)
    IN  IF rep.typ = "UPD" THEN hpack_decode_update(ctx, rep.num)
        ELSE IF ~LooksLikeUpdate(rep) /\ ctx.nxt >= 0
        THEN [hp |-> Defunct(ctx), ret |-> "RSZ", fld |-> NoField]
        ELSE IF rep.typ = "IDX" THEN hpack_decode_indexed(body, rep)
        ELSE hpack_decode_field(body, rep)
-----------------------------------------------------------------------------
(***************************************************************************)
(* What the calls leave true of a decoder, as long as hpack_trim waits for *)
(* the resizes to be signalled and leaves the codec where it is: it is     *)
(* between two calls, its limit is one its peer may use, and there is      *)
(* memory for the maximum in force and for the one to come.                *)
(***************************************************************************)
DecoderHealthy(hp) ==
    /\ Healthy(hp)
    /\ hp.magic \in {"DECODER", "DEFUNCT"}
    /\ hp.magic = "DECODER" =>
          /\ hp.self /\ hp.res \in {"OK", "BLK"}
          /\ hp.lim <= hp.max
          /\ hp.max <= hp.mem /\ hp.nxt <= hp.mem

(***************************************************************************)
(* What the two ends have in common.  View is all that the next            *)
(* representation or acknowledgement depends on at a decoder: the table,   *)
(* the sizes but for the memory, and where in a block it is.               *)
(***************************************************************************)
Stage(hp) == IF hp.res = "OK" THEN "none" ELSE IF hp.upd THEN "head" ELSE "body"

View(hp) == [tbl |-> hp.tbl, len |-> hp.len, lim |-> HPACK_LIMIT(hp),
             max |-> hp.max, nxt |-> hp.nxt, min |-> hp.min, at |-> Stage(hp)]

\* An encoder between two calls, and the decoder that has read all it wrote.
Mirror(hp, view) ==
    /\ hp.tbl = view.tbl /\ hp.len = view.len /\ HPACK_LIMIT(hp) = view.lim
    /\ hp.max = view.max /\ hp.nxt = view.nxt /\ hp.min = view.min
    /\ hp.res = "OK" <=> view.at = "none"
=============================================================================
