---------------------------- MODULE HpackSession ----------------------------
(***************************************************************************)
(* An encoder, a decoder and the ordered connection between them, driven   *)
(* by the applications that own them.                                      *)
(*                                                                         *)
(* The library runs in the caller's thread: each action is one call of its *)
(* API on one of the codecs.  The applications are those of HTTP/2: the    *)
(* decoder's side announces a new table size, the encoder's side calls     *)
(* hpack_resize as it acknowledges it, and the acknowledgement reaches the *)
(* decoder in order with the header blocks, where hpack_resize is called   *)
(* in turn (man/hpack_alloc.3.rst, RESIZING).                              *)
(*                                                                         *)
(* Discipline is the set of precautions the applications take beyond what  *)
(* the manual asks of them.  Each one avoids calls the code does not cope  *)
(* with:                                                                   *)
(*   "limit"   hpack_limit is not called again, nor followed by a resize   *)
(*             at or above it, once it bears on the next block             *)
(*   "memory"  hpack_limit asks for more than the allocation only where it *)
(*             makes the allocation grow                                   *)
(*   "raise"   no second resize above one that is itself above the maximum *)
(*   "trim"    hpack_trim waits until the resizes have been signalled      *)
(*   "move"    a realloc that shrinks a codec leaves it where it is        *)
(*   "list"    the tables are listed between blocks only                   *)
(*   "names"   a field to be indexed takes its name from an entry, by the  *)
(*             index given or the automatic one, only when the name with   *)
(*             its null character fits in the padding of an entry          *)
(***************************************************************************)
EXTENDS HpackDecoder

CONSTANTS
    Discipline,     \* the precautions taken
    InitialMax,     \* sizes the two codecs may be created with
    InitialLimits,  \* limits the encoder may be created with, -1 for none
    Resizes,        \* sizes the decoder's side may announce
    Limits,         \* sizes hpack_limit may be called with
    Reallocs,       \* whether memory managers have a realloc operation
    Failures,       \* whether an allocation may fail
    Fields,         \* the fields the applications exchange
    Literals,       \* the types given to the fields that are not indexed
    MaxWire         \* bound: items on the connection

ASSUME SessionAssumption ==
    /\ Discipline \subseteq
          {"limit", "memory", "raise", "trim", "move", "list", "names"}
    /\ InitialMax \subseteq 0..MaxSize
    /\ InitialLimits \subseteq (0..MaxSize) \cup {-1}
    /\ Resizes \subseteq Nat
    /\ Limits \subseteq Nat
    /\ Reallocs \subseteq BOOLEAN
    /\ Failures \subseteq BOOLEAN
    /\ Fields \subseteq Field
    /\ Literals \subseteq {"DYN", "LIT", "NVR", "NONE"}
    /\ MaxWire \in Nat

VARIABLES
    enc,    \* the encoder
    dec,    \* the decoder
    wire,   \* representations and acknowledgements on their way
    ret,    \* the result of the last call to hpack_decode
    got     \* the last field it gave, and the result it gave it with

vars == <<enc, dec, wire, ret, got>>

Ack == [typ : {"ACK"}, num : Nat]

Nothing == [fld |-> NoField, ret |-> "OK"]

TypeOK ==
    /\ enc \in Codec
    /\ dec \in Codec
    /\ wire \in Seq(Rep \cup Ack)
    /\ ret \in Results \cup {"RSZ"}
    /\ got \in [fld : Field \cup {NoField}, ret : Results]
-----------------------------------------------------------------------------
Init ==
    /\ \E max \in InitialMax, lim \in InitialLimits, r \in Reallocs :
          enc = hpack_encoder(max, lim, r)
    /\ \E rsz \in InitialMax \cup {-1}, r \in Reallocs :
          dec = hpack_decoder(enc.max, rsz, r)
    /\ wire = <<>>
    /\ ret = "OK"
    /\ got = Nothing
-----------------------------------------------------------------------------
(* Calls at the encoder's side.                                            *)

\* The precautions on hpack_resize: "raise" and "limit".
ResizeIsCareful(n) ==
    /\ "raise" \in Discipline =>
          enc.min < 0 \/ enc.min <= enc.max \/ n <= enc.min
    /\ "limit" \in Discipline => enc.lim < 0 /\ (enc.cap < 0 \/ n < enc.cap)

Acknowledge(n, oom) ==
    /\ enc.magic = "ENCODER"
    /\ enc.res = "OK"
    /\ ResizeIsCareful(n)
    /\ Len(wire) < MaxWire
    /\ enc' = hpack_resize(enc, n, oom)
    /\ wire' = IF Usable(enc') THEN Append(wire, [typ |-> "ACK", num |-> n])
               ELSE wire
    /\ UNCHANGED <<dec, ret, got>>

\* The precautions on hpack_limit: "limit" and "memory".
LimitIsCareful(n) ==
    /\ "limit" \in Discipline => enc.lim < 0 /\ enc.nxt < 0
    /\ "memory" \in Discipline =>
          n <= enc.mem \/ (enc.realloc /\ n >= enc.max)

Limit(n, oom) ==
    /\ enc.magic = "ENCODER"
    /\ LimitIsCareful(n)
    /\ enc' = hpack_limit(enc, n, oom)
    /\ UNCHANGED <<dec, wire, ret, got>>

AnyField == CHOOSE fld \in Fields : TRUE

\* The requests an application may make of the codec: any index, valid, zero
\* or just beyond the tables, and any of its fields, by name, by name index or
\* with the automatic index.  An indexed field has no strings of its own, and a
\* field without a type none of the name indices, which nothing looks at.
Requests(hp) ==
    {req \in [typ : Literals \cup {"IDX"}, num : 0..(Static + Len(hp.tbl) + 1),
              nam : Name, val : Value, aut : BOOLEAN] :
        /\ [nam |-> req.nam, val |-> req.val] \in Fields
        /\ req.typ = "IDX" => req.nam = AnyField.nam /\ req.val = AnyField.val
        /\ req.aut \/ req.typ = "NONE" => req.num = 0}

\* The precaution on hpack_encode: "names".
EncodeIsCareful(req) ==
    LET hp == EncodeHead(enc).hp
    IN  "names" \in Discipline =>
            \A use \in hpack_auto_index(hp, req) : NameStays(hp, use)

Encode(req, cut) ==
    /\ enc.magic = "ENCODER"
    /\ Len(wire) < MaxWire
    /\ EncodeIsCareful(req)
    /\ \E use \in hpack_auto_index(EncodeHead(enc).hp, req) :
          LET done == hpack_encode(enc, req, use, cut)
          IN  /\ enc' = done.hp
              /\ wire' = IF enc'.magic = "ENCODER" THEN wire \o done.out
                         ELSE wire
    /\ UNCHANGED <<dec, ret, got>>

TrimIsCareful(hp, moves) ==
    /\ "trim" \in Discipline => hp.nxt < 0
    /\ "move" \in Discipline => ~moves

TrimEncoder(oom, moves) ==
    /\ enc.magic = "ENCODER"
    /\ TrimIsCareful(enc, moves)
    /\ enc' = hpack_trim(enc, oom, moves)
    /\ UNCHANGED <<dec, wire, ret, got>>

ListEncoder ==
    /\ enc.magic = "ENCODER"
    /\ "list" \in Discipline => enc.res = "OK"
    /\ enc' = hpack_foreach(enc)
    /\ UNCHANGED <<dec, wire, ret, got>>
-----------------------------------------------------------------------------
(* Calls at the decoder's side.                                            *)

\* The acknowledgement arrives.
Resize(oom) ==
    /\ dec.magic = "DECODER"
    /\ wire # <<>>
    /\ Head(wire).typ = "ACK"
    /\ dec' = hpack_resize(dec, Head(wire).num, oom)
    /\ wire' = Tail(wire)
    /\ UNCHANGED <<enc, ret, got>>

Decode ==
    /\ dec.magic = "DECODER"
    /\ wire # <<>>
    /\ Head(wire).typ # "ACK"
    /\ LET done == hpack_decode(dec, Head(wire))
       IN  /\ dec' = done.hp
           /\ ret' = done.ret
           /\ got' = IF done.fld = NoField THEN got
                     ELSE [fld |-> done.fld, ret |-> done.ret]
    /\ wire' = Tail(wire)
    /\ UNCHANGED enc

TrimDecoder(oom, moves) ==
    /\ dec.magic = "DECODER"
    /\ TrimIsCareful(dec, moves)
    /\ dec' = hpack_trim(dec, oom, moves)
    /\ UNCHANGED <<enc, wire, ret, got>>

ListDecoder ==
    /\ dec.magic = "DECODER"
    /\ "list" \in Discipline => dec.res = "OK"
    /\ dec' = hpack_foreach(dec)
    /\ UNCHANGED <<enc, wire, ret, got>>

Next ==
    \/ \E n \in Resizes, oom \in Failures : Acknowledge(n, oom)
    \/ \E n \in Limits, oom \in Failures : Limit(n, oom)
    \/ \E req \in Requests(enc), cut \in BOOLEAN : Encode(req, cut)
    \/ \E oom \in Failures, moves \in BOOLEAN : TrimEncoder(oom, moves)
    \/ ListEncoder
    \/ \E oom \in Failures : Resize(oom)
    \/ Decode
    \/ \E oom \in Failures, moves \in BOOLEAN : TrimDecoder(oom, moves)
    \/ ListDecoder

Spec == Init /\ [][Next]_vars
-----------------------------------------------------------------------------
(***************************************************************************)
(* Safety.                                                                 *)
(***************************************************************************)

\* No assertion of the library fails, at either end: hpack_resize, hpack_trim
\* and hpack_encode assert relations between lim, cap, max, mem and len that
\* several earlier calls must have kept.
NoAbort == enc.magic # "ABORTED" /\ dec.magic # "ABORTED"

\* The decoder never refuses what its own peer sends: hpack_decode returns no
\* IDX, UPD, RSZ, LEN or CHR for a block hpack_encode produced, whatever was
\* resized, limited or evicted while it was on its way.
PeerAccepts == ret \in {"OK", "BLK"}

\* Whenever everything sent has been decoded, the two ends have the same
\* dynamic table, the same limit on it and the same resizes left to signal:
\* HPT_adjust and HPT_index have evicted the same entries at both.
InSync ==
    wire = <<>> /\ enc.magic = "ENCODER" /\ dec.magic = "DECODER" =>
        /\ enc.tbl = dec.tbl
        /\ enc.len = dec.len
        /\ HPACK_LIMIT(enc) = HPACK_LIMIT(dec)
        /\ enc.nxt = dec.nxt /\ enc.min = dec.min
        /\ enc.res = dec.res

\* The entries of a table lie back to back and end at sz.len, which is within
\* the limit: what hpt_dynamic, HPT_foreach and HPT_search assert as they
\* walk, after any sequence of insertions and evictions.
TablesSound == Sound(enc) /\ Sound(dec)

\* The inductive invariant behind TypeOK and TablesSound, with "names" among the
\* precautions: the resizes that wait are ordered as well, so that the size an
\* update settles on is a size.
Inductive ==
    /\ Healthy(enc)
    /\ Healthy(dec)
    /\ wire \in Seq(Rep \cup Ack)
    /\ ret \in Results \cup {"RSZ"}
    /\ got \in [fld : Field \cup {NoField}, ret : Results]

\* A table never outgrows its allocation and, once it holds anything, there is
\* memory for all the limit allows (hpack_resize asserts lim <= mem): the
\* memory hpack_encoder, hpack_limit, hpack_resize and hpack_trim leave is
\* enough by the time an encoded or decoded update raises the limit.
MemorySuffices ==
    \A hp \in {enc, dec} : Usable(hp) =>
        /\ hp.len <= hp.mem
        /\ hp.tbl # <<>> => HPACK_LIMIT(hp) <= hp.mem

\* The inductive invariant behind NoAbort and MemorySuffices: what the
\* precautions keep true of the sizes of each codec on its own.
Careful == EncoderHealthy(enc) /\ DecoderHealthy(dec)

(***************************************************************************)
(* The header lists arrive.                                                *)
(***************************************************************************)
IsField(item) == item.typ \notin {"UPD", "ACK"}

Given(item) == [fld |-> item.fld, ret |-> IF item.cut THEN "BLK" ELSE "OK"]

\* What the fields among some items give the application, in order.
FieldsIn(items) ==
    LET fields[i \in 0..Len(items)] ==
            IF i = 0 THEN <<>>
            ELSE IF IsField(items[i])
            THEN Append(fields[i - 1], Given(items[i]))
            ELSE fields[i - 1]
    IN  fields[Len(items)]

Sent == FieldsIn(wire)

Lists == INSTANCE HeaderLists WITH
            Item    <- [fld : Field, ret : {"OK", "BLK"}],
            pending <- Sent,
            arrived <- got

\* The session implements HeaderLists: whatever indices, automatic matches and
\* evictions the two codecs went through, each field comes out of hpack_decode
\* with the name and value it had at hpack_encode, in order, and the blocks
\* end where they ended.
ListsArrive == Lists!Spec
=============================================================================
