---------------------------- MODULE HpackEncoder ----------------------------
(***************************************************************************)
(* hpack_encode (lib/hpack.c, "Encoder"), as an operator on the codec.     *)
(*                                                                         *)
(* A request is one struct hpack_field:                                    *)
(*   typ      "IDX", "DYN", "LIT" or "NVR", the type in flg, or "NONE"     *)
(*            when it has none of them                                     *)
(*   num      idx of an indexed field; nam_idx of another one that has     *)
(*            HPACK_FLG_NAM_IDX, otherwise 0                               *)
(*   nam val  the strings, used where the indices are not                  *)
(*   aut      HPACK_FLG_AUT_IDX                                            *)
(* A representation is what HPI_encode and hpack_encode_string write:      *)
(*   typ num  as above but "NONE", or "UPD" and a table size               *)
(*   fld      the field the application asked for: its literal strings are *)
(*            in the octets, the rest is what the indices must resolve to  *)
(*   cut      whether more of the block follows                            *)
(* One call encodes a list of one field.  A longer list is a sequence of   *)
(* such calls with cut set: the loop carries nothing from one field to the *)
(* next but the codec itself.                                              *)
(***************************************************************************)
EXTENDS HpackMemory

CONSTANTS
    EmptyValue,  \* the value ""
    BadName,     \* names HPV_token refuses
    BadValue,    \* values HPV_value refuses
    NoField      \* the field of a representation that has none

ASSUME StringAssumption ==
    /\ EmptyValue \in Value
    /\ BadName \subseteq Name
    /\ BadValue \subseteq Value
    /\ NoField \notin Field

\* The codecs accept the names of the static table.
ASSUME StaticAssumption ==
    \A i \in DOMAIN StaticTable : StaticTable[i].nam \notin BadName

Request == [typ : {"IDX", "DYN", "LIT", "NVR", "NONE"}, num : Nat,
            nam : Name, val : Value, aut : BOOLEAN]

Rep == [typ : {"IDX", "DYN", "LIT", "NVR"}, num : Nat,
        fld : Field, cut : BOOLEAN]
       \cup [typ : {"UPD"}, num : Nat, fld : {NoField}, cut : BOOLEAN]

UpdateRep(n) == [typ |-> "UPD", num |-> n, fld |-> NoField, cut |-> TRUE]
-----------------------------------------------------------------------------
(***************************************************************************)
(* Table updates at the head of a block.  hpack_cap chooses between the    *)
(* new maximum and the limit asked for with hpack_limit; ret is the size   *)
(* to signal.                                                              *)
(***************************************************************************)
CapSignalled(hp, max) ==    \* mutant of hpack_cap: the limit above max is sent
    IF hp.cap < 0 THEN [ret |-> max, lim |-> hp.lim]
    ELSE IF hp.cap > max THEN [ret |-> hp.cap, lim |-> -1]
    ELSE [ret |-> hp.cap, lim |-> hp.cap]

hpack_cap(hp, max) ==
    IF hp.cap < 0 THEN [ret |-> max, lim |-> hp.lim]
    ELSE IF hp.cap > max THEN [ret |-> max, lim |-> -1]
    ELSE [ret |-> hp.cap, lim |-> hp.cap]

LowestSkipped(hp) ==    \* mutant of EncodeLowest: only the last maximum is sent
    [hp |-> [hp EXCEPT !.min = hp.nxt], out |-> <<>>]

\* The smallest maximum since the last block, when it was raised again.
EncodeLowest(hp) ==
    LET low == [hp EXCEPT !.max = hp.min]
    IN  IF hp.upd /\ hp.min >= 0 /\ hp.min < hp.nxt
        THEN [hp  |-> [HPT_adjust(low, low.len) EXCEPT !.min = hp.nxt],
              out |-> <<UpdateRep(hp.min)>>]
        ELSE [hp |-> hp, out |-> <<>>]

MaximumUnasked(hp) ==   \* mutant of EncodeMaximum: sent without a resize
    LET top == [hp EXCEPT !.max = hp.nxt]
    IN  [hp |-> [HPT_adjust(top, top.len) EXCEPT !.min = -1, !.nxt = -1],
         out |-> <<UpdateRep(hp.nxt)>>]

\* The last maximum, or the limit below it.
EncodeMaximum(hp) ==
    LET cap == hpack_cap(hp, hp.nxt)
        top == [hp EXCEPT !.max = hp.nxt, !.lim = cap.lim]
    IN  IF hp.upd /\ hp.min >= 0
        THEN [hp  |-> [HPT_adjust(top, top.len) EXCEPT
                         !.min = -1, !.nxt = -1, !.upd = FALSE],
              out |-> <<UpdateRep(cap.ret)>>]
        ELSE [hp |-> hp, out |-> <<>>]

LimitKeepsCap(hp) ==    \* mutant of EncodeLimit: cap is not cleared
    LET soft == [hp EXCEPT !.lim = hp.cap]
    IN  IF ~(hp.upd /\ hp.cap >= 0) THEN [hp |-> hp, out |-> <<>>]
        ELSE IF hp.lim # -1 THEN [hp |-> Abort(hp), out |-> <<>>]
        ELSE IF hp.cap >= hp.max THEN [hp |-> hp, out |-> <<>>]
        ELSE [hp |-> HPT_adjust(soft, soft.len), out |-> <<UpdateRep(hp.cap)>>]

LimitKeepsEntries(hp) ==    \* mutant of EncodeLimit: nothing is evicted
    IF hp.upd /\ hp.cap >= 0 /\ hp.cap < hp.max
    THEN [hp  |-> [hp EXCEPT !.lim = hp.cap, !.cap = -1],
          out |-> <<UpdateRep(hp.cap)>>]
    ELSE [hp |-> hp, out |-> <<>>]

\* A limit that waits for a block and no resize to signal.
EncodeLimit(hp) ==
    LET soft == [hp EXCEPT !.lim = hp.cap]
    IN  IF ~(hp.upd /\ hp.cap >= 0) THEN [hp |-> hp, out |-> <<>>]
        ELSE IF hp.lim # -1 THEN [hp |-> Abort(hp), out |-> <<>>]
        ELSE IF hp.cap >= hp.max THEN [hp |-> hp, out |-> <<>>]
        ELSE [hp  |-> [HPT_adjust(soft, soft.len) EXCEPT !.cap = -1],
              out |-> <<UpdateRep(hp.cap)>>]

\* The calls to hpack_encode_update that hpack_encode makes, in order.
hpack_encode_update(hp) ==
    LET low == EncodeLowest(hp)
        top == EncodeMaximum(low.hp)
        cap == EncodeLimit(top.hp)
    IN  [hp |-> [cap.hp EXCEPT !.upd = FALSE],
         out |-> low.out \o top.out \o cap.out]
-----------------------------------------------------------------------------
(***************************************************************************)
(* hpack_auto_index: the requests the search may turn this one into.  Only *)
(* a name is looked up for a field that is never indexed.                  *)
(***************************************************************************)
hpack_auto_index(hp, req) ==
    LET never == req.typ = "NVR"
        key   == [nam |-> req.nam,
                  val |-> IF never THEN EmptyValue ELSE req.val]
    IN  IF ~req.aut \/ req.typ = "IDX" \/ req.num # 0 THEN {req}
        ELSE {[req EXCEPT !.typ = IF m.full /\ ~never THEN "IDX" ELSE @,
                          !.num = m.idx] : m \in HPT_search(hp, key)}

\* What the application asks for: an index stands for the entry it has when
\* the field is encoded.
Meant(hp, req) ==
    IF req.typ = "IDX" THEN HPT_field(hp, req.num)
    ELSE [nam |-> IF req.num = 0 THEN req.nam
                  ELSE HPT_field(hp, req.num).nam,
          val |-> req.val]

\* What hpack_encode_string refuses a string with.  "CHR" stands for both
\* results of HPV_token and HPV_value, "CHR" and "HDR": the codec is the same
\* after either.
hpack_encode_string(len, bad) ==
    IF len > MaxSize THEN "INT" ELSE IF bad THEN "CHR" ELSE "OK"

\* The result the field is refused with, or "OK": of hpack_encode_indexed, of
\* hpack_encode_field, or of hpack_encode itself when there is no type.  A name
\* index of 0 is refused as one beyond the tables is, which stands for both.
Refusal(hp, req) ==
    LET nam == hpack_encode_string(NameSize[req.nam], req.nam \in BadName)
        val == hpack_encode_string(ValueSize[req.val], req.val \in BadValue)
    IN  IF req.typ = "NONE" THEN "ARG"
        ELSE IF (req.typ = "IDX" \/ req.num # 0) /\ req.num \notin Indices(hp)
        THEN "IDX"
        ELSE IF req.typ = "IDX" THEN "OK"
        ELSE IF req.num = 0 /\ nam # "OK" THEN nam
        ELSE val

\* hpack_encode_dynamic, once the field is written: the name of an entry is in
\* the table, the others are not.
hpack_encode_dynamic(hp, req) ==
    IF req.num > Static THEN hpt_move_evicted(hp, Meant(hp, req))
    ELSE HPT_index(hp, Meant(hp, req))

\* The requests whose name hpt_move_evicted does not spoil, whatever is evicted.
NameStays(hp, req) ==
    req.typ = "DYN" /\ req.num > Static /\ req.num \in Indices(hp) =>
        NameSize[HPT_field(hp, req.num).nam] < Pad

(***************************************************************************)
(* hpack_encode(hp, enc) for a field req, after the automatic index has    *)
(* been resolved to use.  On error nothing that is still in the buffer is  *)
(* sent and the codec is defunct; a field without a type leaves ctx.res.   *)
(***************************************************************************)
BeginEncode(hp) ==
    IF ~hp.self \/ hp.res \notin {"OK", "BLK"} THEN Abort(hp)
    ELSE IF hp.res = "BLK" THEN hp
    ELSE [hp EXCEPT !.res = "BLK", !.upd = TRUE]

\* The codec when the field's turn comes, and what has been written so far.
EncodeHead(hp) == hpack_encode_update(BeginEncode(hp))

hpack_encode(hp, req, use, cut) ==
    LET head == EncodeHead(hp)
        err  == Refusal(head.hp, use)
        want == IF req.aut THEN [nam |-> req.nam, val |-> req.val]
                ELSE Meant(head.hp, use)
        done == IF use.typ = "DYN" THEN hpack_encode_dynamic(head.hp, use)
                ELSE head.hp
    IN  IF err # "OK"
        THEN [hp  |-> Defunct([head.hp EXCEPT
                                 !.res = IF err = "ARG" THEN @ ELSE err]),
              out |-> <<>>]
        ELSE [hp  |-> [done EXCEPT !.res = IF cut THEN "BLK" ELSE "OK"],
              out |-> Append(head.out, [typ |-> use.typ, num |-> use.num,
                                        fld |-> want, cut |-> cut])]
-----------------------------------------------------------------------------
(***************************************************************************)
(* What the calls leave true of an encoder when the application takes the  *)
(* precautions HpackSession names "limit", "memory", "trim", "move" and    *)
(* "names".                                                                *)
(* A limit in force is below the maximum, and nothing waits beside it; a   *)
(* limit that waits is above the resizes that do.  There is memory for the *)
(* size in force and for the one to come, but for a limit set at creation: *)
(* it bears on the first block, and the table is empty until then.         *)
(***************************************************************************)
LimitWaits(hp) ==
    /\ hp.res = "OK" /\ hp.tbl = <<>>
    /\ hp.cap >= 0 /\ hp.cap < hp.max /\ hp.cap <= hp.mem

EncoderHealthy(hp) ==
    /\ Healthy(hp)
    /\ hp.magic \in {"ENCODER", "DEFUNCT"}
    /\ hp.magic = "ENCODER" =>
          /\ hp.self /\ hp.res \in {"OK", "BLK"}
          /\ hp.lim >= 0 => hp.cap < 0 /\ hp.lim < hp.max /\ hp.nxt < 0
          /\ hp.cap >= 0 => /\ hp.nxt < hp.cap /\ hp.cap <= MaxSize
                            /\ hp.realloc \/ hp.cap <= hp.mem
          /\ hp.nxt <= hp.mem
          /\ HPACK_LIMIT(hp) <= hp.mem \/ LimitWaits(hp)

(***************************************************************************)
(* What "raise" and "list" add.  Inside a block nothing is left to signal; *)
(* the smallest maximum that waits is one the peer may be sent now, or is  *)
(* the last.  No entry has a name a decoder would refuse.                  *)
(***************************************************************************)
EncoderPrompt(hp) ==
    hp.magic = "ENCODER" =>
        /\ hp.res = "BLK" => hp.nxt < 0 /\ ~hp.upd
        /\ hp.min >= 0 => hp.min <= hp.max \/ hp.min = hp.nxt
        /\ \A i \in DOMAIN hp.tbl : hp.tbl[i].fld.nam \notin BadName
=============================================================================
