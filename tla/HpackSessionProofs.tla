------------------------- MODULE HpackSessionProofs -------------------------
(***************************************************************************)
(* The session, for every instance of its constants.  Whatever the         *)
(* applications do, the codecs keep their types and their tables sound.    *)
(* With the precautions no assertion fails and there is memory for what    *)
(* the limits allow, the two ends agree, and the header lists arrive.      *)
(***************************************************************************)
EXTENDS HpackSession, HpackMirrorProofs

\* The two codecs are healthy when they are created.
LEMMA InitInductive == Init => Inductive
<1> SUFFICES ASSUME Init PROVE Inductive
  OBVIOUS
<1> USE SessionAssumption, MaxSizeAssumption
<1>1. PICK max \in Nat, lim \in Nat \cup {-1}, r \in BOOLEAN :
         enc = hpack_encoder(max, lim, r)
  BY DEF Init
<1>2. Healthy(enc)
  <2>1. CASE lim < 0
    <3>1. enc = hpack_new("ENCODER", max, max, r)
      BY <1>1, <2>1 DEF hpack_encoder
    <3> QED
      BY <3>1, NewHealthy
  <2>2. CASE ~(lim < 0)
    <3>1. enc = [hpack_new("ENCODER", lim, max, r) EXCEPT !.cap = lim]
      BY <1>1, <2>2, Zenon DEF hpack_encoder
    <3>2. lim \in Nat
      BY <2>2
    <3> QED
      BY <3>1, <3>2, NewHealthy
  <2> QED
    BY <2>1, <2>2
<1>3. Healthy(dec)
  <2>1. PICK rsz \in Int, r2 \in BOOLEAN :
           dec = hpack_decoder(enc.max, rsz, r2)
    BY DEF Init
  <2>2. PICK m \in Nat : m = enc.max
    BY <1>2 DEF Healthy, Codec
  <2>3. PICK mem \in Nat : mem = IF rsz >= m THEN rsz ELSE m
    OBVIOUS
  <2>4. dec = hpack_new("DECODER", mem, m, r2)
    BY <2>1, <2>2, <2>3 DEF hpack_decoder
  <2> QED
    BY <2>4, NewHealthy
<1>4. /\ wire \in Seq(Rep \cup Ack)
      /\ ret \in Results \cup {"RSZ"}
      /\ got \in [fld : Field \cup {NoField}, ret : Results]
  BY DEF Init, Nothing, Results
<1> QED
  BY <1>2, <1>3, <1>4 DEF Inductive
-----------------------------------------------------------------------------
\* The requests the applications make are requests.
LEMMA RequestsType ==
    ASSUME NEW hp \in Codec, NEW q \in Requests(hp)
    PROVE  q \in Request
<1>1. q \in [typ : Literals \cup {"IDX"}, num : 0..(Static + Len(hp.tbl) + 1),
             nam : Name, val : Value, aut : BOOLEAN]
  BY Zenon DEF Requests
<1>2. Static + Len(hp.tbl) + 1 \in Nat
  BY SizeAssumption DEF Codec, Static
<1>3. 0..(Static + Len(hp.tbl) + 1) \subseteq Nat
  BY <1>2
<1>4. Literals \cup {"IDX"} \subseteq {"IDX", "DYN", "LIT", "NVR", "NONE"}
  BY SessionAssumption
<1> QED
  BY <1>1, <1>3, <1>4, Zenon DEF Request

\* The precaution without which a table does not keep its layout.
ShortNames == "names" \in Discipline

\* Every call on either codec keeps both healthy, and what is on the wire is
\* representations and acknowledgements.
LEMMA NextInductive ==
    ASSUME ShortNames
    PROVE  Inductive /\ [Next]_vars => Inductive'
<1> SUFFICES ASSUME Inductive, [Next]_vars PROVE Inductive'
  OBVIOUS
<1> USE DEF Inductive
<1> DEFINE Got == [fld : Field \cup {NoField}, ret : Results]
           Item == Rep \cup Ack
<1>1. ASSUME NEW n \in Resizes, NEW oom \in Failures, Acknowledge(n, oom)
      PROVE  Inductive'
  <2>1. n \in Nat
    BY SessionAssumption
  <2>2. Healthy(enc')
    BY <1>1, <2>1, ResizeHealthy DEF Acknowledge
  <2>3. wire' \in Seq(Item)
    <3>1. [typ |-> "ACK", num |-> n] \in Item
      BY <2>1 DEF Ack
    <3> QED
      BY <1>1, <3>1 DEF Acknowledge
  <2> QED
    BY <1>1, <2>2, <2>3 DEF Acknowledge
<1>2. ASSUME NEW n \in Limits, NEW oom \in Failures, Limit(n, oom)
      PROVE  Inductive'
  <2>1. n \in Nat
    BY SessionAssumption
  <2>2. Healthy(enc')
    BY <1>2, <2>1, LimitHealthy DEF Limit
  <2> QED
    BY <1>2, <2>2 DEF Limit
<1>3. ASSUME NEW req \in Requests(enc), NEW cut \in BOOLEAN, Encode(req, cut)
      PROVE  Inductive'
  <2>1. req \in Request
    BY RequestsType DEF Healthy
  <2>2. PICK use \in hpack_auto_index(EncodeHead(enc).hp, req) :
           LET done == hpack_encode(enc, req, use, cut)
           IN  /\ enc' = done.hp
               /\ wire' = IF enc'.magic = "ENCODER" THEN wire \o done.out
                          ELSE wire
    BY <1>3 DEF Encode
  <2>3. PICK done : done = hpack_encode(enc, req, use, cut)
    OBVIOUS
  <2>4. Healthy(done.hp) /\ done.out \in Seq(Rep)
    <3>1. NameStays(EncodeHead(enc).hp, use)
      BY <1>3, <2>2, Zenon DEF Encode, EncodeIsCareful, ShortNames
    <3> QED
      BY <2>1, <2>3, <3>1, EncodeHealthy
  <2>5. enc' = done.hp /\ wire' \in {wire \o done.out, wire}
    BY <2>2, <2>3
  <2>6. done.out \in Seq(Item)
    BY <2>4
  <2>7. wire' \in Seq(Item)
    <3>1. wire \in Seq(Item)
      OBVIOUS
    <3> HIDE DEF Item
    <3>2. wire \o done.out \in Seq(Item)
      BY <2>6, <3>1
    <3> QED
      BY <2>5, <3>1, <3>2
  <2> QED
    BY <1>3, <2>4, <2>5, <2>7 DEF Encode
<1>4. ASSUME NEW oom \in Failures, NEW moves \in BOOLEAN, TrimEncoder(oom, moves)
      PROVE  Inductive'
  <2>1. Healthy(enc')
    BY <1>4, TrimHealthy DEF TrimEncoder
  <2> QED
    BY <1>4, <2>1 DEF TrimEncoder
<1>5. ASSUME ListEncoder PROVE Inductive'
  <2>1. Healthy(enc')
    BY <1>5, ForeachHealthy DEF ListEncoder
  <2> QED
    BY <1>5, <2>1 DEF ListEncoder
<1>6. ASSUME wire # <<>>
      PROVE  Head(wire) \in Item /\ Tail(wire) \in Seq(Item)
  BY <1>6
<1>7. ASSUME NEW oom \in Failures, Resize(oom) PROVE Inductive'
  <2>1. Head(wire) \in Item /\ Tail(wire) \in Seq(Item)
        /\ Head(wire).typ = "ACK"
    BY <1>6, <1>7 DEF Resize
  <2>2. PICK n \in Nat : n = Head(wire).num
    BY <2>1 DEF Rep, Ack
  <2>3. Healthy(dec')
    BY <1>7, <2>2, ResizeHealthy DEF Resize
  <2> QED
    BY <1>7, <2>1, <2>3 DEF Resize
<1>8. ASSUME Decode PROVE Inductive'
  <2>1. Head(wire) \in Item /\ Tail(wire) \in Seq(Item)
        /\ Head(wire).typ # "ACK"
    BY <1>6, <1>8 DEF Decode
  <2>2. PICK rep \in Rep : rep = Head(wire)
    BY <2>1 DEF Ack
  <2>3. PICK done : done = hpack_decode(dec, rep)
    OBVIOUS
  <2>4. /\ Healthy(done.hp)
        /\ done.fld \in Field \cup {NoField}
        /\ done.ret \in Results \/ (done.ret = "RSZ" /\ done.fld = NoField)
    BY <2>3, DecodeHealthy
  <2>5. /\ dec' = done.hp /\ ret' = done.ret
        /\ got' = IF done.fld = NoField THEN got
                  ELSE [fld |-> done.fld, ret |-> done.ret]
        /\ wire' = Tail(wire) /\ enc' = enc
    BY <1>8, <2>2, <2>3 DEF Decode
  <2>6. got' \in Got
    <3>1. CASE done.fld = NoField
      BY <2>5, <3>1
    <3>2. CASE done.fld # NoField
      BY <2>4, <2>5, <3>2
    <3> QED
      BY <3>1, <3>2
  <2> QED
    BY <2>1, <2>4, <2>5, <2>6
<1>9. ASSUME NEW oom \in Failures, NEW moves \in BOOLEAN, TrimDecoder(oom, moves)
      PROVE  Inductive'
  <2>1. Healthy(dec')
    BY <1>9, TrimHealthy DEF TrimDecoder
  <2> QED
    BY <1>9, <2>1 DEF TrimDecoder
<1>10. ASSUME ListDecoder PROVE Inductive'
  <2>1. Healthy(dec')
    BY <1>10, ForeachHealthy DEF ListDecoder
  <2> QED
    BY <1>10, <2>1 DEF ListDecoder
<1>11. CASE UNCHANGED vars
  BY <1>11 DEF vars
<1> QED
  BY <1>1, <1>2, <1>3, <1>4, <1>5, <1>7, <1>8, <1>9, <1>10, <1>11 DEF Next

\* The inductive invariant says what the two properties say, and more.
LEMMA InductiveImplies == Inductive => TypeOK /\ TablesSound
BY DEF Inductive, Healthy, TypeOK, TablesSound

\* Where indexed names are short, every state of the session satisfies the
\* inductive invariant.
THEOREM SessionInductive ==
    ASSUME ShortNames
    PROVE  Spec => []Inductive
BY InitInductive, NextInductive, PTL DEF Spec

\* Where indexed names are short, the fields of both codecs, the wire and the
\* results keep their types through every call of the API.
THEOREM SessionTypeOK ==
    ASSUME ShortNames
    PROVE  Spec => []TypeOK
BY SessionInductive, InductiveImplies, PTL

\* When the names that entries lend to new ones fit in their padding, the tables
\* of both codecs stay laid out back to back and within the limit through any
\* sequence of insertions, evictions, resizes, limits and trims: the walks of
\* hpt_dynamic, HPT_foreach and HPT_search end at sz.len, and a header block
\* never makes a table larger than was agreed.  Longer names break the layout
\* (hpt_move_evicted).
THEOREM SessionTablesSound ==
    ASSUME ShortNames
    PROVE  Spec => []TablesSound
BY SessionInductive, InductiveImplies, PTL
-----------------------------------------------------------------------------
(***************************************************************************)
(* What the precautions on limits, memory and trimming are for.            *)
(***************************************************************************)
Precautions ==
    {"limit", "memory", "trim", "move", "names"} \subseteq Discipline

\* Both codecs are created with the memory their sizes call for.
LEMMA InitCareful == Init => Careful
<1> SUFFICES ASSUME Init PROVE Careful
  OBVIOUS
<1>1. PICK max \in Nat, lim \in Nat \cup {-1}, r \in BOOLEAN :
         enc = hpack_encoder(max, lim, r) /\ lim <= MaxSize
  BY SessionAssumption, MaxSizeAssumption DEF Init
<1>2. EncoderHealthy(enc) /\ enc.max = max
  BY <1>1, NewEncoder
<1>3. PICK rsz \in Nat \cup {-1}, r2 \in BOOLEAN :
         dec = hpack_decoder(enc.max, rsz, r2)
  BY SessionAssumption, MaxSizeAssumption DEF Init
<1>4. dec = hpack_decoder(max, rsz, r2)
  BY <1>2, <1>3, Zenon
<1>5. DecoderHealthy(dec)
  BY <1>4, NewDecoder
<1> QED
  BY <1>2, <1>5 DEF Careful

\* Every call the precautions allow keeps the sizes of its codec in agreement
\* with its memory.
LEMMA NextCareful ==
    ASSUME Precautions
    PROVE  Inductive /\ Careful /\ [Next]_vars => Careful'
<1> SUFFICES ASSUME Inductive, Careful, [Next]_vars PROVE Careful'
  OBVIOUS
<1>1. EncoderHealthy(enc) /\ DecoderHealthy(dec)
  BY DEF Careful
<1>2. wire \in Seq(Rep \cup Ack)
  BY DEF Inductive
<1>3. /\ "limit" \in Discipline /\ "memory" \in Discipline
      /\ "trim" \in Discipline /\ "move" \in Discipline
      /\ "names" \in Discipline
  BY DEF Precautions
<1>4. ASSUME NEW n \in Resizes, NEW oom \in Failures, Acknowledge(n, oom)
      PROVE  Careful'
  <2>1. n \in Nat
    BY SessionAssumption
  <2>2. enc.lim < 0 /\ (enc.cap < 0 \/ n < enc.cap)
    BY <1>3, <1>4 DEF Acknowledge, ResizeIsCareful
  <2>3. /\ enc.magic = "ENCODER" /\ enc.res = "OK"
        /\ enc' = hpack_resize(enc, n, oom) /\ dec' = dec
    BY <1>4 DEF Acknowledge
  <2>4. EncoderHealthy(enc')
    BY <1>1, <2>1, <2>2, <2>3, ResizeEncoder
  <2> QED
    BY <1>1, <2>3, <2>4 DEF Careful
<1>5. ASSUME NEW n \in Limits, NEW oom \in Failures, Limit(n, oom)
      PROVE  Careful'
  <2>1. n \in Nat
    BY SessionAssumption
  <2>2. /\ enc.lim < 0 /\ enc.nxt < 0
        /\ n <= enc.mem \/ (enc.realloc /\ n >= enc.max)
    BY <1>3, <1>5 DEF Limit, LimitIsCareful
  <2>3. /\ enc.magic = "ENCODER"
        /\ enc' = hpack_limit(enc, n, oom) /\ dec' = dec
    BY <1>5 DEF Limit
  <2>4. EncoderHealthy(enc')
    BY <1>1, <2>1, <2>2, <2>3, LimitEncoder
  <2> QED
    BY <1>1, <2>3, <2>4 DEF Careful
<1>6. ASSUME NEW req \in Requests(enc), NEW cut \in BOOLEAN, Encode(req, cut)
      PROVE  Careful'
  <2>1. req \in Request
    BY <1>1, RequestsType DEF EncoderHealthy, Healthy
  <2>2. PICK use \in hpack_auto_index(EncodeHead(enc).hp, req) :
           LET done == hpack_encode(enc, req, use, cut)
           IN  /\ enc' = done.hp
               /\ wire' = IF enc'.magic = "ENCODER" THEN wire \o done.out
                          ELSE wire
    BY <1>6 DEF Encode
  <2>3. PICK done : done = hpack_encode(enc, req, use, cut)
    OBVIOUS
  <2>4. enc.magic = "ENCODER" /\ dec' = dec /\ enc' = done.hp
    BY <1>6, <2>2, <2>3 DEF Encode
  <2>5. EncoderHealthy(done.hp)
    <3>1. NameStays(EncodeHead(enc).hp, use)
      BY <1>3, <1>6, <2>2, Zenon DEF Encode, EncodeIsCareful
    <3> QED
      BY <1>1, <2>1, <2>3, <2>4, <3>1, EncodeEncoder
  <2> QED
    BY <1>1, <2>4, <2>5 DEF Careful
<1>7. ASSUME NEW oom \in Failures, NEW moves \in BOOLEAN, TrimEncoder(oom, moves)
      PROVE  Careful'
  <2>1. /\ enc.magic = "ENCODER" /\ enc.nxt < 0 /\ moves = FALSE
        /\ enc' = hpack_trim(enc, oom, moves) /\ dec' = dec
    BY <1>3, <1>7 DEF TrimEncoder, TrimIsCareful
  <2>2. EncoderHealthy(enc')
    BY <1>1, <2>1, TrimEncoderHealthy, Zenon
  <2> QED
    BY <1>1, <2>1, <2>2 DEF Careful
<1>8. ASSUME ListEncoder PROVE Careful'
  <2>1. EncoderHealthy(enc') /\ dec' = dec
    BY <1>1, <1>8, ForeachEncoder DEF ListEncoder
  <2> QED
    BY <1>1, <2>1 DEF Careful
<1>9. ASSUME wire # <<>>
      PROVE  Head(wire) \in Rep \cup Ack
  BY <1>2, <1>9
<1>10. ASSUME NEW oom \in Failures, Resize(oom) PROVE Careful'
  <2>1. Head(wire) \in Rep \cup Ack /\ Head(wire).typ = "ACK"
    BY <1>9, <1>10 DEF Resize
  <2>2. PICK n \in Nat : n = Head(wire).num
    BY <2>1 DEF Rep, Ack
  <2>3. /\ dec.magic = "DECODER" /\ enc' = enc
        /\ dec' = hpack_resize(dec, n, oom)
    BY <1>10, <2>2 DEF Resize
  <2>4. DecoderHealthy(dec')
    BY <1>1, <2>3, ResizeDecoder
  <2> QED
    BY <1>1, <2>3, <2>4 DEF Careful
<1>11. ASSUME Decode PROVE Careful'
  <2>1. Head(wire) \in Rep \cup Ack /\ Head(wire).typ # "ACK"
    BY <1>9, <1>11 DEF Decode
  <2>2. PICK rep \in Rep : rep = Head(wire)
    BY <2>1 DEF Ack
  <2>3. PICK done : done = hpack_decode(dec, rep)
    OBVIOUS
  <2>4. dec.magic = "DECODER" /\ enc' = enc /\ dec' = done.hp
    BY <1>11, <2>2, <2>3 DEF Decode
  <2>5. DecoderHealthy(done.hp)
    BY <1>1, <2>3, <2>4, DecodeDecoder
  <2> QED
    BY <1>1, <2>4, <2>5 DEF Careful
<1>12. ASSUME NEW oom \in Failures, NEW moves \in BOOLEAN, TrimDecoder(oom, moves)
       PROVE  Careful'
  <2>1. /\ dec.magic = "DECODER" /\ dec.nxt < 0 /\ moves = FALSE
        /\ dec' = hpack_trim(dec, oom, moves) /\ enc' = enc
    BY <1>3, <1>12 DEF TrimDecoder, TrimIsCareful
  <2>2. DecoderHealthy(dec')
    BY <1>1, <2>1, TrimDecoderHealthy, Zenon
  <2> QED
    BY <1>1, <2>1, <2>2 DEF Careful
<1>13. ASSUME ListDecoder PROVE Careful'
  <2>1. DecoderHealthy(dec') /\ enc' = enc
    BY <1>1, <1>13, ForeachDecoder DEF ListDecoder
  <2> QED
    BY <1>1, <2>1 DEF Careful
<1>14. CASE UNCHANGED vars
  BY <1>1, <1>14 DEF vars, Careful
<1> QED
  BY <1>4, <1>5, <1>6, <1>7, <1>8, <1>10, <1>11, <1>12, <1>13, <1>14 DEF Next

\* What the precautions keep of the sizes says that no assertion has failed
\* and that the memory is enough.
LEMMA CarefulImplies == Careful => NoAbort /\ MemorySuffices
<1> SUFFICES ASSUME Careful PROVE NoAbort /\ MemorySuffices
  OBVIOUS
<1>1. EncoderHealthy(enc) /\ DecoderHealthy(dec)
  BY DEF Careful
<1>2. NoAbort
  BY <1>1 DEF NoAbort, EncoderHealthy, DecoderHealthy
<1>3. ASSUME NEW hp, EncoderHealthy(hp), hp.magic = "ENCODER"
      PROVE  /\ hp.len <= hp.mem
             /\ hp.tbl # <<>> => HPACK_LIMIT(hp) <= hp.mem
  <2>1. /\ hp \in Codec /\ LaidOut(hp) /\ hp.len <= HPACK_LIMIT(hp)
        /\ HPACK_LIMIT(hp) <= hp.mem \/ hp.tbl = <<>>
    BY <1>3 DEF EncoderHealthy, Healthy, Sound, Fits, LimitWaits
  <2>2. HPACK_LIMIT(hp) \in Nat
    BY <2>1, LimitType
  <2>3. hp.tbl = <<>> => hp.len = 0
    BY <2>1 DEF LaidOut, EndOf
  <2> QED
    BY <2>1, <2>2, <2>3 DEF Codec
<1>4. ASSUME NEW hp, DecoderHealthy(hp), hp.magic = "DECODER"
      PROVE  hp.len <= hp.mem /\ HPACK_LIMIT(hp) <= hp.mem
  <2>1. /\ hp \in Codec /\ hp.len <= HPACK_LIMIT(hp)
        /\ hp.lim <= hp.max /\ hp.max <= hp.mem
    BY <1>4 DEF DecoderHealthy, Healthy, Sound, Fits
  <2>2. HPACK_LIMIT(hp) <= hp.max /\ HPACK_LIMIT(hp) \in Nat
    BY <2>1, LimitType DEF HPACK_LIMIT, Codec
  <2> QED
    BY <2>1, <2>2 DEF Codec
<1>5. Usable(enc) => enc.magic = "ENCODER"
  BY <1>1 DEF Usable, EncoderHealthy
<1>6. Usable(dec) => dec.magic = "DECODER"
  BY <1>1 DEF Usable, DecoderHealthy
<1>7. MemorySuffices
  BY <1>1, <1>3, <1>4, <1>5, <1>6 DEF MemorySuffices
<1> QED
  BY <1>2, <1>7

\* With the precautions, the sizes of both codecs agree with their memory in
\* every state.
THEOREM SessionCareful ==
    ASSUME Precautions
    PROVE  Spec => []Careful
<1>1. ShortNames
  BY DEF Precautions, ShortNames
<1> QED
  BY <1>1, InitCareful, NextCareful, SessionInductive, PTL DEF Spec

\* With the precautions, no assertion of the library fails: not those of
\* hpack_resize on the limit and the memory, of hpack_trim on the limit, of
\* HPT_adjust, HPT_index and hpt_move_evicted, nor of hpack_encode and
\* hpack_decode on their context and the resizes that wait.  Neither "raise" nor
\* "list" is needed.
THEOREM SessionNoAbort ==
    ASSUME Precautions
    PROVE  Spec => []NoAbort
BY SessionCareful, CarefulImplies, PTL

\* With the precautions, a table never outgrows its allocation, and there is
\* memory for all its limit allows once it holds anything.
THEOREM SessionMemorySuffices ==
    ASSUME Precautions
    PROVE  Spec => []MemorySuffices
BY SessionCareful, CarefulImplies, PTL
-----------------------------------------------------------------------------
(***************************************************************************)
(* What all the precautions are for.                                       *)
(***************************************************************************)
AllPrecautions ==
    {"limit", "memory", "raise", "trim", "move", "list", "names"}
        \subseteq Discipline

\* The inductive invariant: what is on the connection takes the decoder from
\* where it is to the mirror of the encoder.
Synced ==
    /\ ret \in {"OK", "BLK"}
    /\ EncoderPrompt(enc)
    /\ \E a, b : /\ dec.magic = "DECODER" => View(dec) = a
                 /\ Leads(wire, a, b)
                 /\ enc.magic = "ENCODER" => Mirror(enc, b)

\* Two new codecs with the same maximum, and nothing between them.
LEMMA InitSynced == Init => Synced
<1> SUFFICES ASSUME Init PROVE Synced
  OBVIOUS
<1>1. PICK max \in Nat, lim \in Nat \cup {-1}, r \in BOOLEAN :
         enc = hpack_encoder(max, lim, r) /\ lim <= MaxSize
  BY SessionAssumption, MaxSizeAssumption DEF Init
<1>2. /\ enc.magic = "ENCODER" /\ enc.res = "OK" /\ enc.max = max
      /\ enc.lim = -1 /\ enc.nxt = -1 /\ enc.min = -1
      /\ enc.tbl = <<>> /\ enc.len = 0
  BY <1>1, NewEncoder
<1>3. PICK rsz \in Nat \cup {-1}, r2 \in BOOLEAN :
         dec = hpack_decoder(enc.max, rsz, r2)
  BY SessionAssumption, MaxSizeAssumption DEF Init
<1>4. dec = hpack_decoder(max, rsz, r2)
  BY <1>2, <1>3, Zenon
<1>5. /\ dec.res = "OK" /\ dec.max = max /\ dec.lim = -1 /\ dec.nxt = -1
      /\ dec.min = -1 /\ dec.tbl = <<>> /\ dec.len = 0
  BY <1>4, NewDecoder
<1>6. PICK a : a = View(dec)
  OBVIOUS
<1>7. Mirror(enc, a) /\ EncoderPrompt(enc)
  BY <1>2, <1>5, <1>6, NewMirror
<1>8. Leads(wire, a, a)
  BY LeadsNowhere DEF Init
<1>9. ret \in {"OK", "BLK"}
  BY DEF Init
<1> QED
  BY <1>6, <1>7, <1>8, <1>9 DEF Synced

\* Requests are proper: the automatic index is asked for where none is given.
LEMMA RequestsProper ==
    ASSUME NEW hp, NEW q \in Requests(hp)
    PROVE  Proper(q)
BY DEF Requests, Proper

\* A call at the encoder's side that its peer cannot tell.
LEMMA EncoderSynced ==
    ASSUME Synced, enc'.magic = "ENCODER" => SameSizes(enc', enc),
           UNCHANGED <<dec, wire, ret>>
    PROVE  Synced'
<1>1. PICK a, b : /\ dec.magic = "DECODER" => View(dec) = a
                  /\ Leads(wire, a, b)
                  /\ enc.magic = "ENCODER" => Mirror(enc, b)
  BY DEF Synced
<1>2. EncoderPrompt(enc')
  <2>1. CASE enc'.magic = "ENCODER"
    BY <2>1, SameMirror DEF Synced
  <2>2. CASE enc'.magic # "ENCODER"
    BY <2>2 DEF EncoderPrompt
  <2> QED
    BY <2>1, <2>2
<1>3. ASSUME enc'.magic = "ENCODER" PROVE Mirror(enc', b)
  <2>1. SameSizes(enc', enc)
    BY <1>3
  <2>2. enc.magic = "ENCODER"
    BY <1>3, <2>1 DEF SameSizes
  <2> QED
    BY <1>1, <2>1, <2>2, SameMirror
<1>4. /\ dec'.magic = "DECODER" => View(dec') = a
      /\ Leads(wire', a, b)
      /\ ret' \in {"OK", "BLK"}
  BY <1>1 DEF Synced
<1> QED
  BY <1>2, <1>3, <1>4 DEF Synced

\* A call at the decoder's side that leaves its view as it is.
LEMMA DecoderSynced ==
    ASSUME Synced, SameSizes(dec', dec), UNCHANGED <<enc, wire, ret>>
    PROVE  Synced'
<1>1. PICK a, b : /\ dec.magic = "DECODER" => View(dec) = a
                  /\ Leads(wire, a, b)
                  /\ enc.magic = "ENCODER" => Mirror(enc, b)
  BY DEF Synced
<1>2. View(dec') = View(dec) /\ dec'.magic = dec.magic
  BY SameMirror DEF SameSizes
<1> QED
  BY <1>1, <1>2 DEF Synced

\* Every call the precautions allow keeps the two ends on the way to agreement.
LEMMA NextSynced ==
    ASSUME AllPrecautions
    PROVE  Inductive /\ Careful /\ Synced /\ [Next]_vars => Synced'
<1> SUFFICES ASSUME Inductive, Careful, Synced, [Next]_vars PROVE Synced'
  OBVIOUS
<1>1. /\ EncoderHealthy(enc) /\ DecoderHealthy(dec)
      /\ enc \in Codec /\ dec \in Codec
  BY DEF Careful, EncoderHealthy, DecoderHealthy, Healthy
<1>2. wire \in Seq(Rep \cup Ack)
  BY DEF Inductive
<1>3. /\ "limit" \in Discipline /\ "memory" \in Discipline
      /\ "raise" \in Discipline /\ "trim" \in Discipline
      /\ "move" \in Discipline /\ "list" \in Discipline
      /\ "names" \in Discipline
  BY DEF AllPrecautions
<1>4. PICK a, b : /\ dec.magic = "DECODER" => View(dec) = a
                  /\ Leads(wire, a, b)
                  /\ enc.magic = "ENCODER" => Mirror(enc, b)
  BY DEF Synced
<1>5. EncoderPrompt(enc) /\ ret \in {"OK", "BLK"}
  BY DEF Synced
<1>6. ASSUME NEW n \in Resizes, NEW oom \in Failures, Acknowledge(n, oom)
      PROVE  Synced'
  <2>1. n \in Nat
    BY SessionAssumption
  <2>2. /\ enc.lim < 0 /\ (enc.cap < 0 \/ n < enc.cap)
        /\ enc.min < 0 \/ enc.min <= enc.max \/ n <= enc.min
    BY <1>3, <1>6 DEF Acknowledge, ResizeIsCareful
  <2>3. /\ enc.magic = "ENCODER" /\ enc.res = "OK"
        /\ enc' = hpack_resize(enc, n, oom)
        /\ wire' = IF Usable(enc')
                   THEN Append(wire, [typ |-> "ACK", num |-> n]) ELSE wire
        /\ dec' = dec /\ ret' = ret
    BY <1>6 DEF Acknowledge
  <2>4. /\ EncoderHealthy(enc')
        /\ enc'.magic = "ENCODER" => Resized(enc', enc, n)
    BY <1>1, <2>1, <2>2, <2>3, ResizeEncoder
  <2>5. CASE enc'.magic = "ENCODER"
    <3>1. PICK item : item = [typ |-> "ACK", num |-> n]
      OBVIOUS
    <3>2. Ordered(enc)
      BY <1>1 DEF EncoderHealthy, Healthy
    <3>3. PICK c : Leads(<<item>>, b, c) /\ Mirror(enc', c)
      BY <1>1, <1>4, <1>5, <2>1, <2>2, <2>3, <2>4, <2>5, <3>1, <3>2,
         ResizeLeads
    <3>4. EncoderPrompt(enc')
      BY <1>1, <1>4, <1>5, <2>1, <2>2, <2>3, <2>4, <2>5, <3>1, <3>2,
         ResizeLeads
    <3>5. item \in Rep \cup Ack
      BY <2>1, <3>1 DEF Ack
    <3>6. PICK S : S = Rep \cup Ack
      OBVIOUS
    <3>7. wire \in Seq(S) /\ <<item>> \in Seq(S) /\ item \in S
      BY <1>2, <3>5, <3>6
    <3>8. Leads(wire \o <<item>>, a, c)
      BY <1>4, <3>3, <3>7, LeadsOn
    <3>9. wire' = wire \o <<item>>
      <4>1. wire' = Append(wire, item)
        BY <2>3, <2>5, <3>1 DEF Usable
      <4> QED
        BY <3>7, <4>1
    <3>10. /\ dec'.magic = "DECODER" => View(dec') = a
           /\ Leads(wire', a, c) /\ ret' \in {"OK", "BLK"}
      BY <1>4, <1>5, <2>3, <3>8, <3>9
    <3> QED
      BY <3>3, <3>4, <3>10 DEF Synced
  <2>6. CASE enc'.magic # "ENCODER"
    <3>1. ~Usable(enc')
      BY <2>4, <2>6 DEF Usable, EncoderHealthy
    <3>2. wire' = wire
      BY <2>3, <3>1
    <3> QED
      BY <2>3, <2>6, <3>2, EncoderSynced
  <2> QED
    BY <2>5, <2>6
<1>7. ASSUME NEW n \in Limits, NEW oom \in Failures, Limit(n, oom)
      PROVE  Synced'
  <2>1. n \in Nat
    BY SessionAssumption
  <2>2. /\ enc.magic = "ENCODER"
        /\ enc' = hpack_limit(enc, n, oom)
        /\ dec' = dec /\ wire' = wire /\ ret' = ret
    BY <1>7 DEF Limit
  <2>3. enc'.magic = "ENCODER" => SameSizes(enc', enc)
    BY <1>1, <2>1, <2>2, LimitSame
  <2> QED
    BY <2>2, <2>3, EncoderSynced
<1>8. ASSUME NEW req \in Requests(enc), NEW cut \in BOOLEAN, Encode(req, cut)
      PROVE  Synced'
  <2>1. req \in Request /\ Proper(req)
    BY <1>1, RequestsType, RequestsProper
  <2>2. PICK use \in hpack_auto_index(EncodeHead(enc).hp, req) :
           LET done == hpack_encode(enc, req, use, cut)
           IN  /\ enc' = done.hp
               /\ wire' = IF enc'.magic = "ENCODER" THEN wire \o done.out
                          ELSE wire
    BY <1>8 DEF Encode
  <2>3. PICK done : done = hpack_encode(enc, req, use, cut)
    OBVIOUS
  <2>4. /\ enc.magic = "ENCODER" /\ dec' = dec /\ ret' = ret
        /\ enc' = done.hp
        /\ wire' = IF enc'.magic = "ENCODER" THEN wire \o done.out ELSE wire
    BY <1>8, <2>2, <2>3 DEF Encode
  <2>5. CASE enc'.magic = "ENCODER"
    <3> NameStays(EncodeHead(enc).hp, use)
      BY <1>3, <1>8, <2>2, Zenon DEF Encode, EncodeIsCareful
    <3>1. PICK c : Leads(done.out, b, c) /\ Mirror(done.hp, c)
      BY <1>1, <1>4, <1>5, <2>1, <2>3, <2>4, <2>5, EncodeLeads
    <3>2. EncoderPrompt(done.hp)
      BY <1>1, <1>4, <1>5, <2>1, <2>3, <2>4, <2>5, EncodeLeads
    <3>3. done.out \in Seq(Rep)
      BY <1>1, <2>1, <2>3, EncodeHealthy DEF EncoderHealthy
    <3>4. done.out \in Seq(Rep \cup Ack)
      BY <3>3
    <3>5. Leads(wire \o done.out, a, c)
      BY <1>2, <1>4, <3>1, <3>4, LeadsOn
    <3>6. wire' = wire \o done.out
      BY <2>4, <2>5
    <3>7. /\ dec'.magic = "DECODER" => View(dec') = a
          /\ Leads(wire', a, c) /\ ret' \in {"OK", "BLK"}
      BY <1>4, <1>5, <2>4, <3>5, <3>6
    <3> QED
      BY <2>4, <3>1, <3>2, <3>7 DEF Synced
  <2>6. CASE enc'.magic # "ENCODER"
    <3>1. wire' = wire
      BY <2>4, <2>6
    <3> QED
      BY <2>4, <2>6, <3>1, EncoderSynced
  <2> QED
    BY <2>5, <2>6
<1>9. ASSUME NEW oom \in Failures, NEW moves \in BOOLEAN, TrimEncoder(oom, moves)
      PROVE  Synced'
  <2>1. /\ enc.magic = "ENCODER" /\ enc.nxt < 0 /\ moves = FALSE
        /\ enc' = hpack_trim(enc, oom, moves)
        /\ dec' = dec /\ wire' = wire /\ ret' = ret
    BY <1>3, <1>9 DEF TrimEncoder, TrimIsCareful
  <2>2. SameSizes(enc', enc)
    <3>1. MemoryOnly(enc', enc)
      BY <1>1, <2>1, TrimEncoderHealthy, Zenon
    <3> QED
      BY <1>1, <3>1, MemorySame
  <2> QED
    BY <2>1, <2>2, EncoderSynced
<1>10. ASSUME ListEncoder PROVE Synced'
  <2>1. /\ enc.res = "OK" /\ enc' = hpack_foreach(enc)
        /\ dec' = dec /\ wire' = wire /\ ret' = ret
    BY <1>3, <1>10 DEF ListEncoder
  <2>2. SameSizes(enc', enc)
    BY <1>1, <2>1, ForeachSame
  <2> QED
    BY <2>1, <2>2, EncoderSynced
<1>11. ASSUME dec.magic = "DECODER", wire # <<>>
       PROVE  \E c : /\ Step(a, Head(wire), c) /\ Leads(Tail(wire), c, b)
                     /\ Head(wire) \in Rep \cup Ack
  <2>1. \E c : Step(a, Head(wire), c) /\ Leads(Tail(wire), c, b)
    BY <1>2, <1>4, <1>11, LeadsFrom
  <2>2. Head(wire) \in Rep \cup Ack
    BY <1>2, <1>11
  <2> QED
    BY <2>1, <2>2
<1>12. ASSUME NEW oom \in Failures, Resize(oom) PROVE Synced'
  <2>1. /\ dec.magic = "DECODER" /\ wire # <<>>
        /\ Head(wire).typ = "ACK"
        /\ dec' = hpack_resize(dec, Head(wire).num, oom)
        /\ wire' = Tail(wire) /\ enc' = enc /\ ret' = ret
    BY <1>12 DEF Resize
  <2>2. PICK c : /\ Step(a, Head(wire), c) /\ Leads(Tail(wire), c, b)
                 /\ Head(wire) \in Rep \cup Ack
    BY <1>11, <2>1
  <2>3. PICK n \in Nat : n = Head(wire).num
    BY <2>1, <2>2 DEF Rep, Ack
  <2>4. Awaits(a, n, c)
    BY <2>1, <2>2, <2>3 DEF Step
  <2>5. dec'.magic = "DECODER" => View(dec') = c
    BY <1>1, <1>4, <2>1, <2>3, <2>4, ResizeTaken
  <2>6. /\ Leads(wire', c, b) /\ ret' \in {"OK", "BLK"}
        /\ enc'.magic = "ENCODER" => Mirror(enc', b)
        /\ EncoderPrompt(enc')
    BY <1>4, <1>5, <2>1, <2>2
  <2> QED
    BY <2>5, <2>6 DEF Synced
<1>13. ASSUME Decode PROVE Synced'
  <2>1. PICK rep : rep = Head(wire)
    OBVIOUS
  <2>2. PICK done : done = hpack_decode(dec, rep)
    OBVIOUS
  <2>3. /\ dec.magic = "DECODER" /\ wire # <<>> /\ rep.typ # "ACK"
        /\ dec' = done.hp /\ ret' = done.ret
        /\ wire' = Tail(wire) /\ enc' = enc
    BY <1>13, <2>1, <2>2 DEF Decode
  <2>4. PICK c : Step(a, rep, c) /\ Leads(Tail(wire), c, b)
    BY <1>11, <2>1, <2>3
  <2>5. Reads(a, rep, c)
    BY <2>3, <2>4 DEF Step
  <2>6. View(done.hp) = c /\ done.ret = IF rep.cut THEN "BLK" ELSE "OK"
    BY <1>1, <1>4, <2>2, <2>3, <2>5 DEF Reads
  <2>7. /\ Leads(wire', c, b) /\ ret' \in {"OK", "BLK"}
        /\ enc'.magic = "ENCODER" => Mirror(enc', b)
        /\ EncoderPrompt(enc') /\ View(dec') = c
    BY <1>4, <1>5, <2>3, <2>4, <2>6
  <2> QED
    BY <2>7 DEF Synced
<1>14. ASSUME NEW oom \in Failures, NEW moves \in BOOLEAN, TrimDecoder(oom, moves)
       PROVE  Synced'
  <2>1. /\ dec.magic = "DECODER" /\ dec.nxt < 0 /\ moves = FALSE
        /\ dec' = hpack_trim(dec, oom, moves)
        /\ enc' = enc /\ wire' = wire /\ ret' = ret
    BY <1>3, <1>14 DEF TrimDecoder, TrimIsCareful
  <2>2. SameSizes(dec', dec)
    <3>1. MemoryOnly(dec', dec)
      BY <1>1, <2>1, TrimDecoderHealthy, Zenon
    <3> QED
      BY <1>1, <3>1, MemorySame
  <2> QED
    BY <2>1, <2>2, DecoderSynced
<1>15. ASSUME ListDecoder PROVE Synced'
  <2>1. /\ dec.res = "OK" /\ dec' = hpack_foreach(dec)
        /\ enc' = enc /\ wire' = wire /\ ret' = ret
    BY <1>3, <1>15 DEF ListDecoder
  <2>2. SameSizes(dec', dec)
    BY <1>1, <2>1, ForeachSame
  <2> QED
    BY <2>1, <2>2, DecoderSynced
<1>16. CASE UNCHANGED vars
  <2>1. enc' = enc /\ dec' = dec /\ wire' = wire /\ ret' = ret
    BY <1>16 DEF vars
  <2> QED
    BY <1>4, <1>5, <2>1 DEF Synced
<1> QED
  BY <1>6, <1>7, <1>8, <1>9, <1>10, <1>12, <1>13, <1>14, <1>15, <1>16 DEF Next

\* With nothing on its way, the decoder mirrors the encoder.
LEMMA SyncedImplies == Careful /\ Synced => PeerAccepts /\ InSync
<1> SUFFICES ASSUME Careful, Synced PROVE PeerAccepts /\ InSync
  OBVIOUS
<1>1. PeerAccepts
  BY DEF Synced, PeerAccepts
<1>2. ASSUME wire = <<>>, enc.magic = "ENCODER", dec.magic = "DECODER"
      PROVE  /\ enc.tbl = dec.tbl
             /\ enc.len = dec.len
             /\ HPACK_LIMIT(enc) = HPACK_LIMIT(dec)
             /\ enc.nxt = dec.nxt /\ enc.min = dec.min
             /\ enc.res = dec.res
  <2>1. PICK a, b : /\ View(dec) = a /\ Leads(wire, a, b) /\ Mirror(enc, b)
    BY <1>2 DEF Synced
  <2>2. a = b
    BY <1>2, <2>1, LeadsNowhere
  <2>3. /\ dec.tbl = a.tbl /\ dec.len = a.len /\ HPACK_LIMIT(dec) = a.lim
        /\ dec.nxt = a.nxt /\ dec.min = a.min /\ a.at = Stage(dec)
    BY <2>1, ViewSays
  <2>4. /\ enc.tbl = a.tbl /\ enc.len = a.len /\ HPACK_LIMIT(enc) = a.lim
        /\ enc.nxt = a.nxt /\ enc.min = a.min
        /\ enc.res = "OK" <=> a.at = "none"
    BY <2>1, <2>2 DEF Mirror
  <2>5. enc.res \in {"OK", "BLK"} /\ dec.res \in {"OK", "BLK"}
    BY <1>2 DEF Careful, EncoderHealthy, DecoderHealthy
  <2>6. enc.res = dec.res
    BY <2>3, <2>4, <2>5 DEF Stage
  <2> QED
    BY <2>3, <2>4, <2>6
<1> QED
  BY <1>1, <1>2 DEF InSync

\* With all the precautions, what is on the connection leads the decoder to
\* where the encoder is, in every state.
THEOREM SessionSynced ==
    ASSUME AllPrecautions
    PROVE  Spec => []Synced
<1>1. Precautions
  BY DEF AllPrecautions, Precautions
<1>2. Spec => []Careful
  BY <1>1, SessionCareful
<1>3. ShortNames
  BY DEF AllPrecautions, ShortNames
<1> QED
  BY <1>2, <1>3, InitSynced, NextSynced, SessionInductive, PTL DEF Spec

\* With all the precautions, hpack_decode never refuses what hpack_encode
\* wrote, whatever was resized, limited, trimmed, evicted or listed while it
\* was on its way.
THEOREM SessionPeerAccepts ==
    ASSUME AllPrecautions
    PROVE  Spec => []PeerAccepts
<1>1. Precautions
  BY DEF AllPrecautions, Precautions
<1> QED
  BY <1>1, SessionCareful, SessionSynced, SyncedImplies, PTL

\* With all the precautions, HPT_adjust and HPT_index evict the same entries
\* at both ends: once everything sent has been decoded, the two codecs have the
\* same table, the same limit and the same resizes left to signal.
THEOREM SessionInSync ==
    ASSUME AllPrecautions
    PROVE  Spec => []InSync
<1>1. Precautions
  BY DEF AllPrecautions, Precautions
<1> QED
  BY <1>1, SessionCareful, SessionSynced, SyncedImplies, PTL
-----------------------------------------------------------------------------
(***************************************************************************)
(* The fields among the items on the connection, gathered in order.        *)
(***************************************************************************)

\* What one more item adds.
Adds(fields, item) ==
    IF IsField(item) THEN Append(fields, Given(item)) ELSE fields

\* f has the fields among the first i items of w, for every i.
Gathers(w, f) ==
    /\ f[0] = <<>>
    /\ \A i \in 1..Len(w) : f[i] = Adds(f[i - 1], w[i])

\* Going along the items one by one reaches them all.
LEMMA Upto ==
    ASSUME NEW n \in Nat, NEW T, 0 \in T,
           \A i \in 0..n : i \in T /\ i < n => i + 1 \in T
    PROVE  \A i \in 0..n : i \in T
<1> SUFFICES ASSUME NEW k \in 0..n, k \notin T PROVE FALSE
  OBVIOUS
<1>1. PICK Out : Out = {i \in 0..n : i \notin T}
  OBVIOUS
<1>2. Out \subseteq Nat /\ Out # {}
  BY <1>1
<1>3. PICK m \in Out : \A i \in Out : m <= i
  BY <1>2, LeastNat
<1>4. m \in 0..n /\ m \notin T /\ m # 0
  BY <1>1, <1>3
<1>5. m - 1 \in 0..n /\ m - 1 < n /\ (m - 1) + 1 = m /\ ~(m <= m - 1)
  BY <1>4
<1>6. m - 1 \in T
  BY <1>1, <1>3, <1>5
<1> QED
  BY <1>4, <1>5, <1>6

\* FieldsIn is where gathering them ends.
LEMMA GathersEnd ==
    ASSUME NEW S, NEW w \in Seq(S)
    PROVE  \E f : Gathers(w, f) /\ FieldsIn(w) = f[Len(w)]
<1> DEFINE Run(f, n) ==
        f = [i \in 0..n |->
                IF i = 0 THEN <<>>
                ELSE IF IsField(w[i]) THEN Append(f[i - 1], Given(w[i]))
                ELSE f[i - 1]]
           T == {n \in 0..Len(w) : \E f : Run(f, n)}
<1>1. Len(w) \in Nat
  OBVIOUS
<1>2. 0 \in T
  <2>1. PICK f : f = [i \in 0..0 |-> <<>>]
    OBVIOUS
  <2>2. f = [i \in 0..0 |->
                IF i = 0 THEN <<>>
                ELSE IF IsField(w[i]) THEN Append(f[i - 1], Given(w[i]))
                ELSE f[i - 1]]
    <3>1. \A i \in 0..0 : i = 0
      OBVIOUS
    <3> QED
      BY <2>1, <3>1
  <2>3. 0 \in 0..Len(w)
    BY <1>1
  <2> QED
    BY <2>2, <2>3
<1>3. ASSUME NEW n \in 0..Len(w), n \in T, n < Len(w) PROVE n + 1 \in T
  <2>1. PICK f : Run(f, n)
    BY <1>3
  <2>2. PICK new : new = IF IsField(w[n + 1])
                         THEN Append(f[n], Given(w[n + 1])) ELSE f[n]
    OBVIOUS
  <2>3. PICK g : g = [i \in 0..n + 1 |-> IF i = n + 1 THEN new ELSE f[i]]
    OBVIOUS
  <2>4. /\ DOMAIN f = 0..n
        /\ \A i \in 0..n : f[i] = IF i = 0 THEN <<>>
                                  ELSE IF IsField(w[i])
                                  THEN Append(f[i - 1], Given(w[i]))
                                  ELSE f[i - 1]
    BY <2>1
  <2>5. g = [i \in 0..n + 1 |->
                IF i = 0 THEN <<>>
                ELSE IF IsField(w[i]) THEN Append(g[i - 1], Given(w[i]))
                ELSE g[i - 1]]
    <3>1. ASSUME NEW i \in 0..n + 1
          PROVE  g[i] = IF i = 0 THEN <<>>
                        ELSE IF IsField(w[i])
                        THEN Append(g[i - 1], Given(w[i])) ELSE g[i - 1]
      <4>1. CASE i = n + 1
        <5>1. g[i] = new /\ g[i - 1] = f[n] /\ i # 0
          BY <1>1, <2>3, <4>1
        <5> QED
          BY <2>2, <4>1, <5>1
      <4>2. CASE i # n + 1 /\ i # 0
        <5>1. g[i] = f[i] /\ g[i - 1] = f[i - 1] /\ i \in 0..n
          BY <1>1, <2>3, <4>2
        <5> QED
          BY <2>4, <4>2, <5>1
      <4>3. CASE i = 0
        <5>1. g[i] = f[i] /\ i \in 0..n
          BY <1>1, <2>3, <4>3
        <5> QED
          BY <2>4, <4>3, <5>1
      <4> QED
        BY <4>1, <4>2, <4>3
    <3> QED
      BY <2>3, <3>1
  <2>6. Run(g, n + 1)
    BY <2>5
  <2>7. n + 1 \in 0..Len(w)
    BY <1>1, <1>3
  <2> HIDE DEF Run
  <2> QED
    BY <2>6, <2>7
<1>4. Len(w) \in T
  <2> HIDE DEF T
  <2>1. \A n \in 0..Len(w) : n \in T
    BY <1>1, <1>2, <1>3, Upto
  <2> QED
    BY <1>1, <2>1
<1>5. FieldsIn(w) = (CHOOSE f : Run(f, Len(w)))[Len(w)]
  BY Zenon DEF FieldsIn
<1>6. PICK f : Run(f, Len(w)) /\ FieldsIn(w) = f[Len(w)]
  <2> HIDE DEF Run
  <2>1. \E f : Run(f, Len(w))
    BY <1>4
  <2>2. Run(CHOOSE f : Run(f, Len(w)), Len(w))
    BY <2>1, Zenon
  <2> QED
    BY <1>5, <2>2
<1>7. Gathers(w, f)
  <2>1. \A i \in 0..Len(w) : f[i] = IF i = 0 THEN <<>>
                                    ELSE IF IsField(w[i])
                                    THEN Append(f[i - 1], Given(w[i]))
                                    ELSE f[i - 1]
    BY <1>6
  <2>2. f[0] = <<>>
    BY <1>1, <2>1
  <2>3. ASSUME NEW i \in 1..Len(w) PROVE f[i] = Adds(f[i - 1], w[i])
    BY <1>1, <2>1 DEF Adds
  <2> QED
    BY <2>2, <2>3 DEF Gathers
<1> QED
  BY <1>6, <1>7

\* However they are gathered.
LEMMA GathersOnly ==
    ASSUME NEW S, NEW w \in Seq(S), NEW f, Gathers(w, f)
    PROVE  FieldsIn(w) = f[Len(w)]
<1>1. PICK g : Gathers(w, g) /\ FieldsIn(w) = g[Len(w)]
  BY GathersEnd
<1>2. PICK T : T = {i \in 0..Len(w) : f[i] = g[i]}
  OBVIOUS
<1>3. Len(w) \in Nat
  OBVIOUS
<1>4. 0 \in T
  BY <1>1, <1>2, <1>3 DEF Gathers
<1>5. ASSUME NEW i \in 0..Len(w), i \in T, i < Len(w) PROVE i + 1 \in T
  <2>1. i + 1 \in 1..Len(w) /\ i + 1 \in 0..Len(w) /\ (i + 1) - 1 = i
    BY <1>3, <1>5
  <2>2. f[i + 1] = Adds(f[i], w[i + 1]) /\ g[i + 1] = Adds(g[i], w[i + 1])
    BY <1>1, <2>1 DEF Gathers
  <2>3. f[i] = g[i]
    BY <1>2, <1>5
  <2> QED
    BY <1>2, <2>1, <2>2, <2>3
<1>6. Len(w) \in T
  <2>1. \A i \in 0..Len(w) : i \in T
    BY <1>3, <1>4, <1>5, Upto
  <2> QED
    BY <1>3, <2>1
<1> QED
  BY <1>1, <1>2, <1>6

\* They are what the application is given of the items of the sequence.
LEMMA GathersType ==
    ASSUME NEW S, NEW w \in Seq(S), NEW f, Gathers(w, f),
           NEW G, \A item \in S : IsField(item) => Given(item) \in G
    PROVE  \A i \in 0..Len(w) : f[i] \in Seq(G)
<1>1. PICK T : T = {i \in 0..Len(w) : f[i] \in Seq(G)}
  OBVIOUS
<1>2. Len(w) \in Nat
  OBVIOUS
<1>3. 0 \in T
  <2>1. f[0] = <<>>
    BY DEF Gathers
  <2>2. f[0] \in Seq(G)
    BY <2>1
  <2>3. 0 \in 0..Len(w)
    BY <1>2
  <2> QED
    BY <1>1, <2>2, <2>3
<1>4. ASSUME NEW i \in 0..Len(w), i \in T, i < Len(w) PROVE i + 1 \in T
  <2>1. i + 1 \in 1..Len(w) /\ i + 1 \in 0..Len(w) /\ (i + 1) - 1 = i
    BY <1>2, <1>4
  <2>2. f[i + 1] = Adds(f[i], w[i + 1])
    BY <2>1 DEF Gathers
  <2>3. f[i] \in Seq(G) /\ w[i + 1] \in S
    BY <1>1, <1>4, <2>1
  <2>4. f[i + 1] \in Seq(G)
    BY <2>2, <2>3 DEF Adds
  <2> QED
    BY <1>1, <2>1, <2>4
<1> QED
  BY <1>1, <1>2, <1>3, <1>4, Upto

\* Appending to the second of two sequences appends to the two together.
LEMMA AppendTogether ==
    ASSUME NEW G, NEW u \in Seq(G), NEW v \in Seq(G), NEW e \in G
    PROVE  u \o Append(v, e) = Append(u \o v, e)
OBVIOUS

\* What comes of the second of two sequences, one after the other.
LEMMA ConcatAt ==
    ASSUME NEW S, NEW w \in Seq(S), NEW x \in Seq(S), NEW k \in 1..Len(x)
    PROVE  (w \o x)[Len(w) + k] = x[k]
OBVIOUS

\* The fields among two sequences of items, one after the other.
LEMMA FieldsTogether ==
    ASSUME NEW S, NEW w \in Seq(S), NEW x \in Seq(S),
           NEW G, \A item \in S : IsField(item) => Given(item) \in G
    PROVE  /\ FieldsIn(w) \in Seq(G) /\ FieldsIn(x) \in Seq(G)
           /\ FieldsIn(w \o x) = FieldsIn(w) \o FieldsIn(x)
<1>1. PICK f : Gathers(w, f) /\ FieldsIn(w) = f[Len(w)]
  BY GathersEnd
<1>2. PICK g : Gathers(x, g) /\ FieldsIn(x) = g[Len(x)]
  BY GathersEnd
<1>3. PICK m \in Nat, n \in Nat : m = Len(w) /\ n = Len(x)
  OBVIOUS
<1>4. \A i \in 0..m : f[i] \in Seq(G)
  BY <1>1, <1>3, GathersType
<1>5. \A i \in 0..n : g[i] \in Seq(G)
  BY <1>2, <1>3, GathersType
<1>6. PICK F \in Seq(G) : F = f[m]
  BY <1>3, <1>4
<1>7. PICK h : h = [i \in 0..m + n |->
                       IF i <= m THEN f[i] ELSE F \o g[i - m]]
  OBVIOUS
<1>8. w \o x \in Seq(S) /\ Len(w \o x) = m + n
  BY <1>3
<1>9. Gathers(w \o x, h)
  <2>1. h[0] = <<>>
    <3>1. h[0] = f[0]
      BY <1>3, <1>7
    <3> QED
      BY <1>1, <3>1 DEF Gathers
  <2>2. ASSUME NEW i \in 1..m + n
        PROVE  h[i] = Adds(h[i - 1], (w \o x)[i])
    <3>1. CASE i <= m
      <4>1. i \in 1..m /\ i - 1 <= m /\ i - 1 \in 0..m + n /\ i \in 0..m + n
        BY <1>3, <3>1
      <4>2. f[i] = Adds(f[i - 1], w[i])
        BY <1>1, <1>3, <4>1 DEF Gathers
      <4>3. (w \o x)[i] = w[i]
        BY <1>3, <4>1
      <4>4. h[i] = f[i] /\ h[i - 1] = f[i - 1]
        BY <1>7, <3>1, <4>1
      <4> QED
        BY <4>2, <4>3, <4>4
    <3>2. CASE ~(i <= m)
      <4>1. PICK k \in 1..n : k = i - m
        <5>1. i - m \in 1..n
          BY <1>3, <3>2
        <5> QED
          BY <5>1
      <4>2. /\ i = m + k /\ k - 1 \in 0..n /\ i \in 0..m + n
            /\ i - 1 \in 0..m + n /\ (i - 1) - m = k - 1
        BY <1>3, <4>1
      <4>3. g[k] = Adds(g[k - 1], x[k])
        BY <1>2, <1>3, <4>1 DEF Gathers
      <4>4. (w \o x)[i] = x[k]
        BY <1>3, <4>2, ConcatAt
      <4>5. h[i] = F \o g[k]
        BY <1>7, <3>2, <4>1, <4>2
      <4>6. h[i - 1] = F \o g[k - 1]
        <5>1. CASE i - 1 <= m
          <6>1. i - 1 = m /\ k - 1 = 0
            BY <1>3, <3>2, <4>1, <4>2, <5>1
          <6>2. g[0] = <<>>
            BY <1>2 DEF Gathers
          <6>3. h[i - 1] = F
            BY <1>3, <1>6, <1>7, <4>2, <6>1
          <6>4. F \o <<>> = F
            BY <1>6
          <6> QED
            BY <6>1, <6>2, <6>3, <6>4
        <5>2. CASE ~(i - 1 <= m)
          BY <1>7, <4>2, <5>2
        <5> QED
          BY <5>1, <5>2
      <4>7. PICK u \in Seq(G) : u = g[k - 1]
        BY <1>5, <4>2
      <4>8. x[k] \in S
        BY <1>3, <4>1
      <4>9. F \o Adds(u, x[k]) = Adds(F \o u, x[k])
        <5>1. CASE IsField(x[k])
          <6>1. PICK e \in G : e = Given(x[k])
            BY <4>8, <5>1
          <6>2. F \o Append(u, e) = Append(F \o u, e)
            BY AppendTogether
          <6> QED
            BY <5>1, <6>1, <6>2 DEF Adds
        <5>2. CASE ~IsField(x[k])
          BY <5>2 DEF Adds
        <5> QED
          BY <5>1, <5>2
      <4> QED
        BY <4>3, <4>4, <4>5, <4>6, <4>7, <4>9
    <3> QED
      BY <3>1, <3>2
  <2> QED
    BY <1>8, <2>1, <2>2 DEF Gathers
<1>10. FieldsIn(w \o x) = h[m + n]
  BY <1>8, <1>9, GathersOnly
<1>11. g[0] = <<>> /\ F \o <<>> = F
  BY <1>2, <1>6 DEF Gathers
<1>12. h[m + n] = F \o g[n]
  <2>1. CASE n = 0
    <3>1. m + n = m /\ m <= m /\ m \in 0..m + n
      BY <1>3, <2>1
    <3>2. h[m + n] = f[m]
      BY <1>7, <3>1
    <3> QED
      BY <1>6, <1>11, <2>1, <3>2
  <2>2. CASE n # 0
    <3>1. ~(m + n <= m) /\ m + n \in 0..m + n /\ (m + n) - m = n
      BY <1>3, <2>2
    <3> QED
      BY <1>7, <3>1
  <2> QED
    BY <2>1, <2>2
<1>13. F = FieldsIn(w) /\ g[n] = FieldsIn(x)
  BY <1>1, <1>2, <1>3, <1>6
<1>14. n \in 0..n
  BY <1>3
<1> QED
  BY <1>5, <1>6, <1>10, <1>12, <1>13, <1>14

\* Items that are no fields give nothing, and one field what it says.
LEMMA FieldsOfNothing == FieldsIn(<<>>) = <<>>
<1>1. PICK w \in Seq(Nat) : w = <<>> /\ Len(w) = 0
  <2>1. <<>> \in Seq(Nat) /\ Len(<<>>) = 0
    OBVIOUS
  <2> QED
    BY <2>1
<1>2. PICK f : Gathers(w, f) /\ FieldsIn(w) = f[0]
  BY <1>1, GathersEnd
<1> QED
  BY <1>1, <1>2 DEF Gathers

\* Items that are no fields have none.
LEMMA FieldsOfNone ==
    ASSUME NEW S, NEW w \in Seq(S), \A item \in S : ~IsField(item)
    PROVE  FieldsIn(w) = <<>>
<1>1. FieldsIn(w) \in Seq({})
  <2>1. \A item \in S : IsField(item) => Given(item) \in {}
    OBVIOUS
  <2> QED
    BY <2>1, FieldsTogether
<1>2. ASSUME NEW v \in Seq({}) PROVE v = <<>>
  BY <1>2
<1> QED
  BY <1>1, <1>2

\* One item has its field, or none.
LEMMA FieldsOfOne ==
    ASSUME NEW item
    PROVE  FieldsIn(<<item>>) = IF IsField(item) THEN <<Given(item)>> ELSE <<>>
<1>1. PICK S : S = {item}
  OBVIOUS
<1>2. PICK w \in Seq(S) : w = <<item>> /\ Len(w) = 1 /\ w[1] = item
  <2>1. item \in S
    BY <1>1
  <2>2. <<item>> \in Seq(S) /\ Len(<<item>>) = 1 /\ <<item>>[1] = item
    BY <2>1
  <2> QED
    BY <2>2
<1>3. PICK f : Gathers(w, f) /\ FieldsIn(w) = f[1]
  BY <1>2, GathersEnd
<1>4. f[0] = <<>> /\ f[1] = Adds(f[0], item)
  BY <1>2, <1>3 DEF Gathers
<1>5. Append(<<>>, Given(item)) = <<Given(item)>>
  OBVIOUS
<1> QED
  BY <1>2, <1>3, <1>4, <1>5 DEF Adds
-----------------------------------------------------------------------------
(***************************************************************************)
(* The session implements HeaderLists.                                     *)
(***************************************************************************)
Gift == [fld : Field, ret : {"OK", "BLK"}]

\* What a field on the connection gives.
LEMMA GivenType ==
    ASSUME NEW item \in Rep \cup Ack
    PROVE  /\ IsField(item) => item.fld \in Field /\ Given(item) \in Gift
           /\ ~IsField(item) /\ item.typ # "ACK" => item.fld = NoField
<1>1. ASSUME IsField(item) PROVE item.fld \in Field
  BY <1>1 DEF IsField, Rep, Ack
<1>2. PICK r \in {"OK", "BLK"} : r = IF item.cut THEN "BLK" ELSE "OK"
  OBVIOUS
<1>3. Given(item) = [fld |-> item.fld, ret |-> r]
  BY <1>2, Zenon DEF Given
<1>4. ASSUME ~IsField(item), item.typ # "ACK" PROVE item.fld = NoField
  BY <1>4 DEF IsField, Rep, Ack
<1> QED
  BY <1>1, <1>3, <1>4 DEF Gift

\* The fields among the items of the connection.
LEMMA SentType ==
    ASSUME NEW w \in Seq(Rep \cup Ack), NEW x \in Seq(Rep \cup Ack)
    PROVE  /\ FieldsIn(w) \in Seq(Gift)
           /\ FieldsIn(w \o x) = FieldsIn(w) \o FieldsIn(x)
<1>1. \A item \in Rep \cup Ack : IsField(item) => Given(item) \in Gift
  BY GivenType
<1>2. PICK S, G : S = Rep \cup Ack /\ G = Gift
  OBVIOUS
<1>3. w \in Seq(S) /\ x \in Seq(S)
  BY <1>2
<1>4. \A item \in S : IsField(item) => Given(item) \in G
  BY <1>1, <1>2
<1> QED
  BY <1>2, <1>3, <1>4, FieldsTogether

\* A call of hpack_encode that succeeds writes one field, after the updates.
LEMMA EncodeGives ==
    ASSUME NEW hp, Healthy(hp), NEW req \in Request, NEW cut \in BOOLEAN,
           NEW use \in hpack_auto_index(EncodeHead(hp).hp, req),
           NEW e, e = hpack_encode(hp, req, use, cut),
           e.hp.magic = "ENCODER"
    PROVE  \E gift \in Gift : FieldsIn(e.out) = <<gift>>
<1>1. PICK head : head = EncodeHead(hp)
  OBVIOUS
<1>2. PICK h : h = head.hp
  OBVIOUS
<1>3. h \in Codec /\ head.out \in Seq(UpdateReps)
  BY <1>1, <1>2, HeadHealthy DEF Healthy
<1>4. use \in Request
  BY <1>1, <1>2, <1>3, AutoIndexType
<1>5. PICK err : err = Refusal(h, use)
  OBVIOUS
<1>6. CASE err # "OK"
  <2>1. h = EncodeHead(hp).hp
    BY <1>1, <1>2
  <2>2. PICK r \in Codec : e.hp = Defunct(r)
    BY <1>3, <1>5, <1>6, <2>1, EncodeRefused
  <2> QED
    BY <2>2 DEF Defunct, Codec
<1>7. CASE err = "OK"
  <2>1. PICK want : want = IF req.aut THEN [nam |-> req.nam, val |-> req.val]
                           ELSE Meant(h, use)
    OBVIOUS
  <2>2. Meant(h, use) \in Field
    BY <1>3, <1>4, <1>5, <1>7, MeantType
  <2>3. want \in Field
    BY <2>1, <2>2 DEF Field, Request
  <2>4. PICK item : item = [typ |-> use.typ, num |-> use.num,
                            fld |-> want, cut |-> cut]
    OBVIOUS
  <2>5. item \in Rep /\ IsField(item)
    <3>1. use.typ # "NONE"
      BY <1>4, <1>5, <1>7, RefusedNot
    <3> QED
      BY <1>4, <2>3, <2>4, <3>1 DEF Rep, Request, IsField
  <2>6. e.out = Append(head.out, item)
    BY <1>1, <1>2, <1>5, <1>7, <2>1, <2>4, Zenon DEF hpack_encode
  <2>7. FieldsIn(head.out) = <<>>
    <3>1. \A rep \in UpdateReps : ~IsField(rep)
      BY DEF UpdateReps, UpdateRep, IsField
    <3> QED
      BY <1>3, <3>1, FieldsOfNone
  <2>8. FieldsIn(<<item>>) = <<Given(item)>> /\ Given(item) \in Gift
    BY <2>5, FieldsOfOne, GivenType
  <2>9. PICK S : S = Rep \cup Ack
    OBVIOUS
  <2>10. PICK w \in Seq(S) : w = head.out
    <3>1. UpdateReps \subseteq S
      BY <2>9, UpdatesAreReps
    <3> QED
      BY <1>3, <3>1
  <2>11. PICK x \in Seq(S) : x = <<item>>
    <3>1. item \in S
      BY <2>5, <2>9
    <3>2. <<item>> \in Seq(S)
      BY <3>1
    <3> QED
      BY <3>2, Zenon
  <2>12. FieldsIn(w \o x) = FieldsIn(w) \o FieldsIn(x)
    BY <2>9, SentType
  <2>13. Append(w, item) = w \o <<item>>
    BY <2>5, <2>9
  <2>14. <<>> \o <<Given(item)>> = <<Given(item)>>
    OBVIOUS
  <2>15. FieldsIn(e.out) = <<Given(item)>>
    BY <2>6, <2>7, <2>8, <2>10, <2>11, <2>12, <2>13, <2>14
  <2> QED
    BY <2>8, <2>15
<1> QED
  BY <1>6, <1>7

\* Nothing is on the connection at first, and nothing has arrived.
LEMMA InitLists == Init => Lists!Init
<1> SUFFICES ASSUME Init PROVE Lists!Init
  OBVIOUS
<1>1. Nothing \notin Gift
  BY StringAssumption DEF Nothing, Gift
<1> QED
  BY <1>1, FieldsOfNothing DEF Init, Lists!Init, Sent, Gift

\* What is taken off the connection first is what was put on it first.
LEMMA FirstSent ==
    ASSUME wire \in Seq(Rep \cup Ack), wire # <<>>, wire' = Tail(wire)
    PROVE  /\ Head(wire) \in Rep \cup Ack
           /\ ~IsField(Head(wire)) => Sent' = Sent
           /\ IsField(Head(wire)) => /\ Sent # <<>>
                                     /\ Head(Sent) = Given(Head(wire))
                                     /\ Sent' = Tail(Sent)
<1>1. PICK S : S = Rep \cup Ack
  OBVIOUS
<1>2. PICK item \in S : item = Head(wire)
  BY <1>1
<1>3. PICK w \in Seq(S) : w = <<item>>
  <2>1. <<item>> \in Seq(S)
    BY <1>2
  <2> QED
    BY <2>1, Zenon
<1>4. PICK x \in Seq(S) : x = Tail(wire)
  BY <1>1
<1>5. wire = w \o x
  BY <1>1, <1>2, <1>3, <1>4
<1>6. Sent = FieldsIn(w) \o FieldsIn(x) /\ Sent' = FieldsIn(x)
  BY <1>1, <1>4, <1>5, SentType DEF Sent
<1>7. PICK rest \in Seq(Gift) : rest = FieldsIn(x)
  BY <1>1, SentType
<1>8. ASSUME ~IsField(item) PROVE Sent' = Sent
  <2>1. FieldsIn(w) = <<>>
    BY <1>3, <1>8, FieldsOfOne
  <2>2. <<>> \o rest = rest
    OBVIOUS
  <2> QED
    BY <1>6, <1>7, <2>1, <2>2
<1>9. ASSUME IsField(item)
      PROVE  Sent # <<>> /\ Head(Sent) = Given(item) /\ Sent' = Tail(Sent)
  <2>1. PICK gift \in Gift : gift = Given(item)
    BY <1>1, <1>9, GivenType
  <2>2. FieldsIn(w) = <<gift>>
    BY <1>3, <1>9, <2>1, FieldsOfOne
  <2>3. /\ <<gift>> \o rest # <<>> /\ Head(<<gift>> \o rest) = gift
        /\ Tail(<<gift>> \o rest) = rest
    OBVIOUS
  <2> QED
    BY <1>6, <1>7, <2>1, <2>2, <2>3
<1> QED
  BY <1>1, <1>2, <1>8, <1>9

\* A call that puts nothing on the connection and takes nothing off.
LEMMA ListsStutters ==
    ASSUME wire' = wire, got' = got
    PROVE  UNCHANGED Lists!vars
BY DEF Lists!vars, Sent

\* hpack_encode sends one field or fails, hpack_decode gives the first one sent
\* or takes an update, and no other call matters to the lists.
LEMMA NextLists ==
    ASSUME ShortNames
    PROVE  Inductive /\ Careful /\ Synced /\ [Next]_vars
               => [Lists!Next]_(Lists!vars)
<1> SUFFICES ASSUME Inductive, Careful, Synced, [Next]_vars
             PROVE  Lists!Next \/ UNCHANGED Lists!vars
  OBVIOUS
<1>1. /\ EncoderHealthy(enc) /\ DecoderHealthy(dec) /\ Healthy(enc)
      /\ enc \in Codec /\ dec \in Codec /\ wire \in Seq(Rep \cup Ack)
  BY DEF Inductive, Careful, EncoderHealthy, DecoderHealthy, Healthy
<1>2. ASSUME NEW n \in Resizes, NEW oom \in Failures, Acknowledge(n, oom)
      PROVE  UNCHANGED Lists!vars
  <2>1. n \in Nat
    BY SessionAssumption
  <2>2. PICK item \in Rep \cup Ack : /\ item = [typ |-> "ACK", num |-> n]
                                     /\ item.typ = "ACK"
    <3>1. [typ |-> "ACK", num |-> n] \in Ack
      BY <2>1 DEF Ack
    <3> QED
      BY <3>1
  <2>3. wire' \in {wire, Append(wire, item)} /\ got' = got
    BY <1>2, <2>2 DEF Acknowledge
  <2>4. CASE wire' = Append(wire, item)
    <3>1. PICK S : S = Rep \cup Ack
      OBVIOUS
    <3>2. PICK x \in Seq(S) : x = <<item>>
      <4>1. item \in S
        BY <3>1
      <4>2. <<item>> \in Seq(S)
        BY <4>1
      <4> QED
        BY <4>2, Zenon
    <3>3. wire' = wire \o x
      BY <1>1, <2>4, <3>1, <3>2
    <3>4. FieldsIn(x) = <<>>
      <4>1. ~IsField(item)
        BY <2>2 DEF IsField
      <4> QED
        BY <3>2, <4>1, FieldsOfOne
    <3>5. FieldsIn(wire \o x) = FieldsIn(wire) \o FieldsIn(x)
      BY <1>1, <3>1, SentType
    <3>6. FieldsIn(wire) \o <<>> = FieldsIn(wire)
      <4>1. PICK v \in Seq(Gift) : v = FieldsIn(wire)
        BY <1>1, SentType
      <4> QED
        BY <4>1
    <3>7. Sent' = Sent
      BY <3>3, <3>4, <3>5, <3>6 DEF Sent
    <3> QED
      BY <2>3, <3>7 DEF Lists!vars
  <2> QED
    BY <2>3, <2>4, ListsStutters
<1>3. ASSUME NEW req \in Requests(enc), NEW cut \in BOOLEAN, Encode(req, cut)
      PROVE  Lists!Next \/ UNCHANGED Lists!vars
  <2>1. req \in Request
    BY <1>1, RequestsType
  <2>2. PICK use \in hpack_auto_index(EncodeHead(enc).hp, req) :
           LET done == hpack_encode(enc, req, use, cut)
           IN  /\ enc' = done.hp
               /\ wire' = IF enc'.magic = "ENCODER" THEN wire \o done.out
                          ELSE wire
    BY <1>3 DEF Encode
  <2>3. PICK done : done = hpack_encode(enc, req, use, cut)
    OBVIOUS
  <2>4. /\ got' = got /\ enc' = done.hp
        /\ wire' = IF enc'.magic = "ENCODER" THEN wire \o done.out ELSE wire
    BY <1>3, <2>2, <2>3 DEF Encode
  <2>5. CASE enc'.magic = "ENCODER"
    <3>1. PICK gift \in Gift : FieldsIn(done.out) = <<gift>>
      BY <1>1, <2>1, <2>3, <2>4, <2>5, EncodeGives
    <3>2. done.out \in Seq(Rep \cup Ack)
      <4> NameStays(EncodeHead(enc).hp, use)
        BY <1>3, <2>2, Zenon DEF Encode, EncodeIsCareful, ShortNames
      <4>1. done.out \in Seq(Rep)
        BY <1>1, <2>1, <2>3, EncodeHealthy
      <4> QED
        BY <4>1
    <3>3. FieldsIn(wire \o done.out) = FieldsIn(wire) \o FieldsIn(done.out)
      BY <1>1, <3>2, SentType
    <3>4. PICK v \in Seq(Gift) : v = FieldsIn(wire)
      BY <1>1, SentType
    <3>5. v \o <<gift>> = Append(v, gift)
      OBVIOUS
    <3>6. Sent' = Append(Sent, gift)
      BY <2>4, <2>5, <3>1, <3>3, <3>4, <3>5 DEF Sent
    <3> QED
      BY <2>4, <3>6 DEF Lists!Next, Lists!Send, Gift
  <2>6. CASE enc'.magic # "ENCODER"
    BY <2>4, <2>6, ListsStutters
  <2> QED
    BY <2>5, <2>6
<1>4. ASSUME NEW oom \in Failures, Resize(oom) PROVE UNCHANGED Lists!vars
  <2>1. /\ wire # <<>> /\ wire' = Tail(wire) /\ got' = got
        /\ ~IsField(Head(wire))
    BY <1>4 DEF Resize, IsField
  <2> QED
    BY <1>1, <2>1, FirstSent DEF Lists!vars
<1>5. ASSUME Decode PROVE Lists!Next \/ UNCHANGED Lists!vars
  <2>1. PICK rep : rep = Head(wire)
    OBVIOUS
  <2>2. PICK done : done = hpack_decode(dec, rep)
    OBVIOUS
  <2>3. /\ dec.magic = "DECODER" /\ wire # <<>> /\ rep.typ # "ACK"
        /\ got' = IF done.fld = NoField THEN got
                  ELSE [fld |-> done.fld, ret |-> done.ret]
        /\ wire' = Tail(wire)
    BY <1>5, <2>1, <2>2 DEF Decode
  <2>4. PICK a, b : View(dec) = a /\ Leads(wire, a, b)
    BY <2>3 DEF Synced
  <2>5. PICK c : Step(a, rep, c)
    BY <1>1, <2>1, <2>3, <2>4, LeadsFrom
  <2>6. Reads(a, rep, c)
    BY <2>3, <2>5 DEF Step
  <2>7. done.fld = rep.fld /\ done.ret = IF rep.cut THEN "BLK" ELSE "OK"
    BY <1>1, <2>2, <2>3, <2>4, <2>6 DEF Reads
  <2>8. CASE IsField(rep)
    <3>1. rep.fld \in Field
      BY <1>1, <2>1, <2>3, <2>8, FirstSent, GivenType
    <3>2. got' = Given(rep)
      BY <2>3, <2>7, <3>1, StringAssumption, Zenon DEF Given
    <3>3. Sent # <<>> /\ Head(Sent) = Given(rep) /\ Sent' = Tail(Sent)
      BY <1>1, <2>1, <2>3, <2>8, FirstSent
    <3> QED
      BY <3>2, <3>3 DEF Lists!Next, Lists!Arrive
  <2>9. CASE ~IsField(rep)
    <3>1. rep.fld = NoField
      BY <1>1, <2>1, <2>3, <2>9, FirstSent, GivenType
    <3>2. got' = got /\ Sent' = Sent
      BY <1>1, <2>1, <2>3, <2>7, <2>9, <3>1, FirstSent
    <3> QED
      BY <3>2 DEF Lists!vars
  <2> QED
    BY <2>8, <2>9
<1>6. ASSUME \/ \E n \in Limits, oom \in Failures : Limit(n, oom)
             \/ \E oom \in Failures, moves \in BOOLEAN : TrimEncoder(oom, moves)
             \/ ListEncoder
             \/ \E oom \in Failures, moves \in BOOLEAN : TrimDecoder(oom, moves)
             \/ ListDecoder
             \/ UNCHANGED vars
      PROVE  UNCHANGED Lists!vars
  <2>1. wire' = wire /\ got' = got
    BY <1>6 DEF Limit, TrimEncoder, ListEncoder, TrimDecoder, ListDecoder, vars
  <2> QED
    BY <2>1, ListsStutters
<1> QED
  BY <1>2, <1>3, <1>4, <1>5, <1>6 DEF Next

\* With all the precautions, each field given to hpack_encode comes out of
\* hpack_decode with its name and its value, in order, and the blocks end where
\* they ended: the session is a queue of fields, whatever indices, automatic
\* matches and evictions the two codecs went through.
THEOREM SessionListsArrive ==
    ASSUME AllPrecautions
    PROVE  Spec => ListsArrive
<1>1. Precautions
  BY DEF AllPrecautions, Precautions
<1>2. Spec => []Careful
  BY <1>1, SessionCareful
<1>3. Spec => []Synced
  BY SessionSynced
<1>4. ShortNames
  BY DEF AllPrecautions, ShortNames
<1> QED
  BY <1>2, <1>3, <1>4, InitLists, NextLists, SessionInductive, PTL
     DEF Spec, ListsArrive, Lists!Spec
=============================================================================
