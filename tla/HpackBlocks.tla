----------------------------- MODULE HpackBlocks -----------------------------
(***************************************************************************)
(* An application that decodes header blocks as they come, in pieces, with *)
(* a buffer that may be too small, and with hpack_decode and a callback    *)
(* (tst/hdecode.c) or with hpack_decode_fields (tst/fdecode.c); beside it, *)
(* what the blocks say: a decoder that is given whole representations and  *)
(* needs no buffer (HpackDecoder).                                         *)
(*                                                                         *)
(* Discipline is the set of precautions the application takes:             *)
(*   "skip"     a message is skipped when, and only when, the last result  *)
(*              is SKP                                                     *)
(*   "buffer"   all the pieces of a block are given the same buffer        *)
(*   "iterate"  nothing is called while an iteration of                    *)
(*              hpack_decode_fields goes on                                *)
(***************************************************************************)
EXTENDS HpackPieces

CONSTANTS
    Discipline,     \* the precautions taken
    Apis,           \* "hpack_decode" or "hpack_decode_fields"
    InitialMax,     \* size the decoder is created with
    Sizes,          \* sizes the application resizes the table to
    Blocks          \* the blocks a peer may send

\* The sum of the first k numbers of s.  Of a string, the characters that its
\* first k octets complete.
SumOf(s, k) ==
    LET sum[i \in 0..k] == IF i = 0 THEN 0 ELSE sum[i - 1] + s[i]
    IN  sum[k]
Total(s) == SumOf(s, Len(s))

\* Representations, the strings of literals those of their field.
BlockRep ==
    {rep \in [typ : {"IDX", "DYN", "LIT", "NVR"}, num : Nat, fld : Field,
              nput : Seq(Nat), vput : Seq(Nat)] :
        IsLiteral(rep) =>
            /\ rep.nput # <<>> => Total(rep.nput) = NameSize[rep.fld.nam]
            /\ Total(rep.vput) = ValueSize[rep.fld.val]}
    \cup [typ : {"UPD"}, num : Nat, fld : {NoField},
          nput : {<<>>}, vput : {<<>>}]

ASSUME BlocksAssumption ==
    /\ Discipline \subseteq {"skip", "buffer", "iterate"}
    /\ Apis \subseteq {"hpack_decode", "hpack_decode_fields"}
    /\ InitialMax \in 0..MaxSize
    /\ Sizes \subseteq 0..MaxSize
    /\ Blocks \subseteq Seq(BlockRep) \ {<<>>}

VARIABLES
    api,    \* the function the application uses
    d,      \* the decoder
    todo,   \* octets of the block that have not come yet
    pos,    \* the field *pnam and *pval point to, 0 for NULL
    got,    \* the fields the application was given of the current block
    whole,  \* the codec of the decoder of whole representations
    want    \* what it makes of the block: see Outcome

vars == <<api, d, todo, pos, got, whole, want>>

(***************************************************************************)
(* What a block says: the codec it leaves, its fields up to the first      *)
(* error, and the error.                                                   *)
(***************************************************************************)
WholeRep(hp, rep, cut) ==
    LET out     == hpack_decode(hp, [typ |-> rep.typ, num |-> rep.num,
                                     fld |-> rep.fld, cut |-> cut])
        unnamed == IsLiteral(rep) /\ rep.num = 0 /\ rep.nput = <<>>
    IN  IF unnamed /\ out.ret # "RSZ" THEN Refuse(out.hp, "LEN") ELSE out

DecodeWhole(acc, rep, cut) ==
    LET res == WholeRep(acc.hp, rep, cut)
    IN  IF acc.ret # "OK" THEN acc
        ELSE [hp   |-> res.hp,
              ret  |-> IF res.ret = "BLK" THEN "OK" ELSE res.ret,
              flds |-> IF res.fld = NoField THEN acc.flds
                       ELSE Append(acc.flds, res.fld)]

\* What becomes of acc behind the k-th representation.
Outcome(acc, reps, k) ==
    LET out[i \in k..Len(reps)] ==
            IF i = k THEN acc
            ELSE DecodeWhole(out[i - 1], reps[i], i < Len(reps))
    IN  out[Len(reps)]

Nothing(hp) == [hp |-> hp, ret |-> "OK", flds |-> <<>>]

\* The octets of the buffer a field takes, and those of several.
Room(fld) == NameSize[fld.nam] + ValueSize[fld.val] + 2
Rooms(flds) == Total([i \in DOMAIN flds |-> Room(flds[i])])
AllFit(flds) == \A i \in DOMAIN flds : Room(flds[i]) <= BufLen

Fields(seen) == [i \in DOMAIN seen |-> seen[i].fld]
-----------------------------------------------------------------------------
Init ==
    /\ api \in Apis
    /\ d = hpd_new(hpack_decoder(InitialMax, -1, TRUE))
    /\ todo = <<>> /\ pos = 0 /\ got = <<>>
    /\ whole = d.hp
    /\ want = [flds |-> <<>>, errs |-> {}]

Working == d.hp.magic = "DECODER"
InBlock == todo # <<>>
Iterating == pos # 0

(***************************************************************************)
(* hpack_decode_fields: *pnam and *pval are set to the k-th field of the   *)
(* buffer, or to NULL behind the last one.                                 *)
(***************************************************************************)
FieldStays(e, given, k) ==      \* mutant of FieldAt: val + 1 is still nam
    LET more == k <= Len(e.flds)
    IN  /\ d' = [e EXCEPT !.hp.res = IF more THEN "FLD" ELSE "OK",
                          !.ret = IF more THEN "FLD" ELSE "OK"]
        /\ pos' = IF more THEN 1 ELSE 0
        /\ got' = IF k = 1 /\ more THEN <<e.flds[1]>> ELSE given

ResultStays(e, given, k) ==     \* mutant: ctx.res is not set behind the last
    LET more == k <= Len(e.flds)
    IN  /\ d' = [e EXCEPT !.hp.res = IF more THEN "FLD" ELSE @,
                          !.ret = IF more THEN "FLD" ELSE "OK"]
        /\ pos' = IF more THEN k ELSE 0
        /\ got' = IF more THEN Append(given, e.flds[k]) ELSE given

FieldAt(e, given, k) ==
    LET more == k <= Len(e.flds)
    IN  /\ d' = [e EXCEPT !.hp.res = IF more THEN "FLD" ELSE "OK",
                          !.ret = IF more THEN "FLD" ELSE "OK"]
        /\ pos' = IF more THEN k ELSE 0
        /\ got' = IF more THEN Append(given, e.flds[k]) ELSE given

\* A call for the first n octets of blk, all that is left of the block.
Decode(blk, n, same) ==
    LET e == DecodePiece(d, SubSeq(blk, 1, n), n < Len(blk), same)
    IN  /\ todo' = IF e.ret = "BLK" THEN SubSeq(blk, n + 1, Len(blk)) ELSE <<>>
        /\ IF api = "hpack_decode"
           THEN d' = e /\ pos' = 0 /\ got' = Fields(e.heard)
           ELSE IF d.hp.res \notin {"OK", "BLK"}
           THEN /\ d' = [d EXCEPT !.hp = Defunct(@), !.ret = "ARG"]
                /\ pos' = 0 /\ got' = <<>>
           ELSE IF e.ret = "OK" THEN FieldAt(e, <<>>, 1)
           ELSE d' = e /\ pos' = 0 /\ got' = <<>>

\* The octets of a block that come.  The peer may fail to send the end of its
\* last representation.
Lengths(reps) ==
    LET all == Len(BlockOctets(reps))
    IN  all - Len(Octets(Last(reps))) + 1 .. all

\* What the decoder should make of them, where out is what the block says.
Wanted(out, reps, len) ==
    [flds |-> out.flds,
     errs |-> ({out.ret} \ {"OK"})
              \cup IF len < Len(BlockOctets(reps)) THEN {"BUF"} ELSE {}]

\* The first piece of a block.
Begin(reps) ==
    /\ Working /\ ~InBlock
    /\ "skip" \in Discipline => ~d.big
    /\ "iterate" \in Discipline => ~Iterating
    /\ \E out \in {Outcome(Nothing(whole), reps, 0)}, len \in Lengths(reps) :
          /\ want' = Wanted(out, reps, len)
          /\ whole' = out.hp
          /\ \E n \in 1..len : Decode(SubSeq(BlockOctets(reps), 1, len), n, TRUE)
    /\ UNCHANGED api

Continue(n, same) ==
    /\ Working /\ InBlock
    /\ "buffer" \in Discipline => same
    /\ n \in 1..Len(todo)
    /\ Decode(todo, n, same)
    /\ UNCHANGED <<api, whole, want>>

NextField ==
    /\ Working /\ Iterating
    /\ FieldAt(d, got, pos + 1)
    /\ UNCHANGED <<api, todo, whole, want>>

Skip ==
    /\ Working
    /\ "skip" \in Discipline => d.ret = "SKP"
    /\ d.big
    /\ d' = hpack_skip(d)
    /\ UNCHANGED <<api, todo, pos, got, whole, want>>

\* The decoder is busy inside a block.
Resize(n) ==
    /\ Working
    /\ "iterate" \in Discipline => ~Iterating
    /\ d' = [d EXCEPT !.hp = hpack_resize(@, n, FALSE)]
    /\ whole' = IF InBlock THEN whole ELSE hpack_resize(whole, n, FALSE)
    /\ UNCHANGED <<api, todo, pos, got, want>>

Next ==
    \/ \E reps \in Blocks : Begin(reps)
    \/ \E n \in 1..Len(todo), same \in BOOLEAN : Continue(n, same)
    \/ NextField
    \/ Skip
    \/ \E n \in Sizes : Resize(n)

\* The loop around hpack_decode_fields runs to its end.
Spec == Init /\ [][Next]_vars /\ WF_vars(NextField)
-----------------------------------------------------------------------------
Rested(hp) == [hp EXCEPT !.res = "OK"]

Ended == ~InBlock /\ ~Iterating

TypeOK ==
    /\ api \in Apis /\ d \in Decoder
    /\ whole \in Codec /\ want.flds \in Seq(Field)
    /\ d.used <= BufLen /\ d.nam <= d.used /\ d.val <= d.used
    /\ pos \in 0..Len(d.flds)

\* No assertion fails, wherever blocks are cut and whatever is in them.
NoAbort == d.hp.magic # "ABORTED"

\* Wherever a block is cut, the decoder stands at the step that the next octet
\* is meant for, and knows how many octets of the string are to come.
InStep ==
    InBlock =>
        /\ d.stp = Head(todo).stp
        /\ d.bsy => Head(todo).n = 0
        /\ d.stp \in {"NAM_STR", "VAL_STR"} =>
              /\ d.left > 0
              /\ \A i \in 1..Min({d.left, Len(todo)}) : todo[i].stp = d.stp
              /\ d.left < Len(todo) => todo[d.left + 1].stp # d.stp

\* However a block is cut, and even when the buffer cannot hold it, the codec
\* is left as by whole representations: with the same table, sizes and pending
\* resizes, ready for the next block.
AsWhole == Working /\ Ended => Rested(d.hp) = Rested(whole)

\* The application is given the fields of the block in order.  It has had all
\* of them when the result is OK; hpack_decode_fields gives none of a message
\* that must be skipped or is not complete.
FieldsGiven ==
    /\ IsPrefix(got, want.flds)
    /\ Ended /\ d.ret = "OK" => got = want.flds
    /\ api = "hpack_decode" /\ d.ret = "SKP" => got = want.flds
    /\ api = "hpack_decode_fields" /\ d.ret \notin {"OK", "FLD"} => got = <<>>

\* The sizes a field is notified with are those of its strings, also when it
\* has been moved in the buffer before they were complete.
Measured ==
    \A i \in DOMAIN d.heard :
        LET seen == d.heard[i]
        IN  /\ seen.namsz = NameSize[seen.fld.nam]
            /\ seen.valsz = ValueSize[seen.fld.val]

\* Between two fields the buffer holds the last fields decoded and nothing
\* else, and all those of the block as long as none had to be dropped: the
\* strings that were notified still lie there.
BufferHolds ==
    Working /\ ~Partial(d) =>
        /\ d.used = Rooms(d.flds)
        /\ IsSuffix(d.flds, Fields(d.heard))
        /\ ~d.big /\ d.ret # "SKP" => d.flds = Fields(d.heard)

\* A block is decoded if its fields fit in the buffer together, skipped if they
\* fit but one by one, and refused if one does not; the errors it holds are
\* found, unless such a field comes before them.
ResultBySize ==
    Ended =>
        /\ d.ret = "OK"  <=> want.errs = {} /\ Rooms(want.flds) <= BufLen
        /\ d.ret = "SKP" <=> /\ want.errs = {} /\ AllFit(want.flds)
                             /\ Rooms(want.flds) > BufLen
        /\ d.ret = "BIG" => want.errs # {} \/ ~AllFit(want.flds)
        /\ d.ret \notin {"OK", "SKP", "BIG"} =>
              d.ret \in want.errs

(***************************************************************************)
(* The inductive invariant behind all of these.  Where the decoder stands  *)
(* in a representation tells what it knows of it, what lies in the buffer  *)
(* and what is still to come; and whole representations would make of what *)
(* is still to come, from the codec and the fields it has by now, what the *)
(* block says.                                                             *)
(***************************************************************************)
Admitted(hp, rep) ==
    IF rep.typ = "UPD" THEN hp.upd
    ELSE LooksLikeUpdate(rep) \/ (hp.min < 0 /\ hp.nxt < 0 /\ ~hp.upd)

NameOf(hp, rep) == IF rep.num = 0 THEN rep.fld.nam ELSE HPT_field(hp, rep.num).nam

\* The name of the current field is complete.
Named(e, rep) ==
    /\ IF rep.num = 0 THEN rep.nput # <<>> ELSE rep.num \in Indices(e.hp)
    /\ e.name = NameOf(e.hp, rep) /\ e.name \notin BadName
    /\ e.namsz = NameSize[e.name] /\ e.val = e.nam + e.namsz + 1

Idle(e) == e.stp = "FLD_INT" /\ ~e.bsy /\ e.nam = -1 /\ e.val = -1

\* Some octets of rep have been read, and more are to come.
Reading(e, rep) ==
    /\ e.typ = rep.typ /\ Admitted(e.hp, rep)
    /\ IF e.stp = "FLD_INT"
       THEN e.bsy /\ rep.num >= IntMask /\ e.nam = -1 /\ e.val = -1
       ELSE IsLiteral(rep) /\ e.nam >= 0
    /\ e.stp \in {"NAM_LEN", "NAM_STR"} => rep.num = 0 /\ e.val = -1
    /\ e.stp \in {"VAL_LEN", "VAL_STR"} => Named(e, rep)
    /\ e.stp = "NAM_LEN" =>
          e.used = e.nam /\ (e.bsy => Len(rep.nput) >= IntMask)
    /\ e.stp = "VAL_LEN" =>
          e.used = e.val /\ (e.bsy => Len(rep.vput) >= IntMask)
    /\ e.stp = "NAM_STR" =>
          /\ ~e.bsy /\ e.left \in 1..Len(rep.nput)
          /\ e.used = e.nam + SumOf(rep.nput, Len(rep.nput) - e.left)
    /\ e.stp = "VAL_STR" =>
          /\ ~e.bsy /\ e.left \in 1..Len(rep.vput)
          /\ e.used = e.val + SumOf(rep.vput, Len(rep.vput) - e.left)

\* How many octets of rep have been read.
NameEnd(rep) ==
    IntLen(rep.num)
    + IF rep.num = 0 THEN IntLen(Len(rep.nput)) + Len(rep.nput) ELSE 0
Place(e, rep) ==
    (IF e.bsy THEN 1 ELSE 0)
    + CASE e.stp = "FLD_INT" -> 0
        [] e.stp = "NAM_LEN" -> IntLen(rep.num)
        [] e.stp = "NAM_STR" -> NameEnd(rep) - e.left
        [] e.stp = "VAL_LEN" -> NameEnd(rep)
        [] e.stp = "VAL_STR" -> Len(Octets(rep)) - e.left

\* The buffer holds the last fields, behind those that were dropped, and what
\* there is of the current one.
Held(e) ==
    LET gone == Len(e.heard) - Len(e.flds)
    IN  /\ e.used <= BufLen
        /\ Rooms(e.flds) = IF e.nam < 0 THEN e.used ELSE e.nam
        /\ gone >= 0 /\ e.flds = SubSeq(Fields(e.heard), gone + 1, Len(e.heard))

\* Some were dropped when, and only when, not all would have fit.
Dropped(e) ==
    IF e.big THEN Rooms(Fields(e.heard)) + e.used - Rooms(e.flds) > BufLen
    ELSE Len(e.flds) = Len(e.heard)

\* What becomes of a decoder behind k representations.
Future(e, reps, k) ==
    Outcome([hp |-> [e.hp EXCEPT !.res = "BLK"], ret |-> "OK",
             flds |-> Fields(e.heard)], reps, k)

\* The last result ended a block, without an error.
BetweenBlocks ==
    /\ Idle(d) /\ Held(d)
    /\ d.hp.res = IF Iterating THEN "FLD" ELSE "OK"
    /\ d.ret \in IF Iterating THEN {"FLD"} ELSE {"OK", "SKP"}
    /\ whole = Rested(d.hp)
    /\ want.errs = {} /\ want.flds = Fields(d.heard)
    /\ IF d.ret = "SKP" THEN AllFit(want.flds) /\ Rooms(want.flds) > BufLen
       ELSE ~d.big /\ Dropped(d)
    /\ Iterating => api = "hpack_decode_fields"
    /\ got = IF Iterating THEN SubSeq(want.flds, 1, pos)
             ELSE IF api = "hpack_decode" \/ d.ret = "OK" THEN want.flds
             ELSE <<>>

\* The last result was BLK.
InsideBlock ==
    /\ d.ret = "BLK" /\ d.hp.res = "BLK" /\ ~Iterating
    /\ Held(d) /\ Dropped(d) /\ AllFit(Fields(d.heard))
    /\ got = IF api = "hpack_decode" THEN Fields(d.heard) ELSE <<>>
    /\ \E reps \in Blocks : \E k \in 0..Len(reps) - 1, len \in Lengths(reps) :
          LET rep == reps[k + 1]
              at  == Len(FirstOctets(reps, k)) + Place(d, rep)
              out == Future(d, reps, k)
          IN  /\ IF Idle(d) THEN TRUE ELSE Reading(d, rep)
              /\ at < len /\ todo = SubSeq(BlockOctets(reps), at + 1, len)
              /\ whole = out.hp /\ want = Wanted(out, reps, len)

\* The last result was an error: one the block holds, or of a field that does
\* not fit.
Failed ==
    /\ Ended /\ d.hp.magic = "DEFUNCT" /\ d.ret \notin {"OK", "SKP"}
    /\ IF d.ret = "BIG" THEN want.errs # {} \/ ~AllFit(want.flds)
       ELSE d.ret \in want.errs
    /\ IF api = "hpack_decode" THEN IsPrefix(got, want.flds) ELSE got = <<>>

Inductive ==
    /\ TypeOK
    /\ \A i \in DOMAIN d.heard :
          /\ d.heard[i].namsz = NameSize[d.heard[i].fld.nam]
          /\ d.heard[i].valsz = ValueSize[d.heard[i].fld.val]
    /\ Healthy(d.hp)
    /\ IF Working
       THEN /\ DecoderHealthy(Rested(d.hp)) /\ d.hp.realloc
            /\ IF InBlock THEN InsideBlock ELSE BetweenBlocks
       ELSE Failed

\* An iteration comes to an end, and has given every field by then.
IterationEnds == Iterating ~> Ended /\ d.ret = "OK" /\ got = want.flds
=============================================================================
