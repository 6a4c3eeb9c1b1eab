------------------------- MODULE HpackMirrorProofs --------------------------
(***************************************************************************)
(* An encoder and the decoder that reads what it writes.  The table a      *)
(* codec has after an eviction or an insertion depends on its table, its   *)
(* length and the limit in force only, and what a decoder does with a      *)
(* representation on its View only: so each thing hpack_encode writes      *)
(* takes a decoder from the mirror of the encoder before to the mirror of  *)
(* the encoder after.                                                      *)
(***************************************************************************)
EXTENDS HpackCodecProofs

(***************************************************************************)
(* An encoder alone.  One whose application takes the precautions on       *)
(* limits, memory and trimming stays healthy: no assertion of              *)
(* hpack_resize, hpack_trim, hpack_encode, HPT_adjust or HPT_index fails,  *)
(* and there is memory for what its limit allows.                          *)
(***************************************************************************)

\* The relations between the sizes of an encoder.
SizesAgree(hp) ==
    /\ hp.lim >= 0 => hp.cap < 0 /\ hp.lim < hp.max /\ hp.nxt < 0
    /\ hp.cap >= 0 => /\ hp.nxt < hp.cap /\ hp.cap <= MaxSize
                      /\ hp.realloc \/ hp.cap <= hp.mem
    /\ hp.nxt <= hp.mem

\* An encoder between two calls.
EncoderReady(hp) ==
    /\ Healthy(hp) /\ hp.magic = "ENCODER"
    /\ hp.self /\ hp.res \in {"OK", "BLK"}
    /\ SizesAgree(hp)
    /\ HPACK_LIMIT(hp) <= hp.mem \/ LimitWaits(hp)

\* A ready encoder is a healthy one, and the other way round.
LEMMA ReadyHealthy ==
    ASSUME NEW hp, EncoderReady(hp)
    PROVE  EncoderHealthy(hp) /\ hp \in Codec
BY DEF EncoderReady, EncoderHealthy, SizesAgree, Healthy

\* A healthy encoder that is not defunct is ready for a call.
LEMMA HealthyReady ==
    ASSUME NEW hp, EncoderHealthy(hp), hp.magic = "ENCODER"
    PROVE  EncoderReady(hp) /\ hp \in Codec
BY DEF EncoderReady, EncoderHealthy, SizesAgree, Healthy

\* A call that fails leaves the encoder defunct, and that is healthy.
LEMMA DefunctEncoder ==
    ASSUME NEW hp, Healthy(hp), hp.magic = "ENCODER", NEW r, r = Defunct(hp)
    PROVE  EncoderHealthy(r)
<1>1. Healthy(r)
  BY FailureHealthy
<1>2. r.magic = "DEFUNCT"
  BY DEF Defunct, Healthy, Codec
<1> QED
  BY <1>1, <1>2 DEF EncoderHealthy
-----------------------------------------------------------------------------
(***************************************************************************)
(* Creation, resizing, limiting, trimming and listing.                     *)
(***************************************************************************)

\* The table of an encoder is within its memory.
LEMMA EncoderRoom ==
    ASSUME NEW hp, EncoderHealthy(hp), hp.magic = "ENCODER"
    PROVE  hp.len <= hp.mem
<1>1. /\ hp \in Codec /\ LaidOut(hp) /\ Fits(hp)
      /\ HPACK_LIMIT(hp) <= hp.mem \/ LimitWaits(hp)
  BY DEF EncoderHealthy, Healthy, Sound
<1>2. HPACK_LIMIT(hp) \in Nat
  BY <1>1, LimitType
<1>3. CASE HPACK_LIMIT(hp) <= hp.mem
  BY <1>1, <1>2, <1>3 DEF Fits, Codec
<1>4. CASE LimitWaits(hp)
  BY <1>1, <1>4 DEF LimitWaits, LaidOut, EndOf, Codec
<1> QED
  BY <1>1, <1>3, <1>4

\* An encoder is created with memory for its maximum, or for the limit that
\* is to be in force by the time the table holds anything.
LEMMA NewEncoder ==
    ASSUME NEW max \in Nat, NEW lim \in Nat \cup {-1}, lim <= MaxSize,
           NEW realloc \in BOOLEAN, NEW r, r = hpack_encoder(max, lim, realloc)
    PROVE  /\ EncoderHealthy(r) /\ r.magic = "ENCODER"
           /\ r.res = "OK" /\ r.max = max /\ r.lim = -1
           /\ r.nxt = -1 /\ r.min = -1 /\ r.tbl = <<>> /\ r.len = 0
<1>1. CASE lim < 0
  <2>1. r = hpack_new("ENCODER", max, max, realloc)
    BY <1>1 DEF hpack_encoder
  <2>2. Healthy(r)
    BY <2>1, NewHealthy
  <2>3. /\ r.magic = "ENCODER" /\ r.self /\ r.res = "OK" /\ r.lim = -1
        /\ r.cap = -1 /\ r.max = max /\ r.mem = max /\ r.nxt = -1
        /\ r.min = -1 /\ r.tbl = <<>> /\ r.len = 0
    BY <2>1 DEF hpack_new
  <2>4. EncoderReady(r)
    BY <2>2, <2>3 DEF EncoderReady, SizesAgree, HPACK_LIMIT
  <2> QED
    BY <2>3, <2>4, ReadyHealthy
<1>2. CASE ~(lim < 0)
  <2>1. PICK cap \in Nat : cap = lim
    BY <1>2
  <2>2. r = [hpack_new("ENCODER", cap, max, realloc) EXCEPT !.cap = cap]
    BY <1>2, <2>1, Zenon DEF hpack_encoder
  <2>3. Healthy(r)
    BY <2>2, NewHealthy
  <2>4. /\ r.magic = "ENCODER" /\ r.self /\ r.res = "OK" /\ r.lim = -1
        /\ r.cap = cap /\ r.max = max /\ r.mem = cap /\ r.nxt = -1
        /\ r.min = -1 /\ r.tbl = <<>> /\ r.len = 0
    BY <2>2 DEF hpack_new
  <2>5. SizesAgree(r)
    BY <2>1, <2>4 DEF SizesAgree
  <2>6. HPACK_LIMIT(r) <= r.mem \/ LimitWaits(r)
    BY <2>1, <2>4 DEF HPACK_LIMIT, LimitWaits
  <2>7. EncoderReady(r)
    BY <2>3, <2>4, <2>5, <2>6 DEF EncoderReady
  <2> QED
    BY <2>4, <2>7, ReadyHealthy
<1> QED
  BY <1>1, <1>2

\* A resize below the limit that waits, and none in force: the assertions of
\* hpack_resize hold and memory is reserved for what the next block will need.
LEMMA ResizeEncoder ==
    ASSUME NEW hp, EncoderHealthy(hp), hp.magic = "ENCODER", hp.res = "OK",
           NEW len \in Nat, hp.lim < 0, hp.cap < 0 \/ len < hp.cap,
           NEW oom, NEW r, r = hpack_resize(hp, len, oom)
    PROVE  EncoderHealthy(r) /\ (r.magic = "ENCODER" => Resized(r, hp, len))
<1>1. EncoderReady(hp) /\ hp \in Codec /\ Healthy(hp)
  BY HealthyReady DEF EncoderHealthy
<1>2. SizesAgree(hp) /\ hp.self
  BY <1>1 DEF EncoderReady
<1>3. PICK mem \in Nat : mem = IF hp.cap >= 0 THEN hp.cap ELSE len
  BY <1>1 DEF Codec
<1>4. ResizeMemory(hp, len) = mem
  BY <1>1, <1>3 DEF ResizeMemory, Codec
<1>5. PICK room \in Nat : room = IF hp.realloc THEN MaxSize ELSE hp.mem
  BY <1>1, MaxSizeAssumption DEF Codec
<1>6. ResizeAsserts(hp, room)
  BY <1>1, <1>2, <1>5, MaxSizeAssumption DEF ResizeAsserts, SizesAgree, Codec
<1>7. PICK g : g = hpack_realloc(hp, mem, oom)
  OBVIOUS
<1>8. /\ g.hp = [hp EXCEPT !.mem = g.hp.mem]
      /\ hp.mem <= g.hp.mem
      /\ g.ret = "OK" => mem <= g.hp.mem
  BY <1>1, <1>2, <1>7, ReallocKeeps, EncoderRoom
<1>9. PICK gm \in Nat : gm = g.hp.mem
  <2>1. Healthy(g.hp)
    BY <1>1, <1>7, ReallocHealthy
  <2> QED
    BY <2>1 DEF Healthy, Codec
<1>10. PICK m \in Nat : m = Lowest(hp, len)
  BY <1>1 DEF Codec, Lowest
<1>11. \/ r = Defunct(hp)
       \/ /\ g.ret = "OK"
          /\ r = [g.hp EXCEPT !.nxt = len,
                              !.min = IF @ < 0 \/ @ > len THEN len ELSE @]
  BY <1>4, <1>5, <1>6, <1>7, Zenon DEF hpack_resize
<1>12. CASE r = Defunct(hp)
  <2>1. r.magic # "ENCODER"
    BY <1>1, <1>12 DEF Defunct, Codec
  <2> QED
    BY <1>1, <1>12, <2>1, DefunctEncoder
<1>13. CASE /\ g.ret = "OK"
            /\ r = [g.hp EXCEPT !.nxt = len,
                                !.min = IF @ < 0 \/ @ > len THEN len ELSE @]
  <2>1. r = [hp EXCEPT !.mem = gm, !.nxt = len, !.min = m]
    BY <1>1, <1>8, <1>9, <1>10, <1>13 DEF Codec, Lowest
  <2>2. /\ r.magic = "ENCODER" /\ r.self /\ r.res = "OK" /\ r.lim = hp.lim
        /\ r.cap = hp.cap /\ r.max = hp.max /\ r.mem = gm /\ r.nxt = len
        /\ r.realloc = hp.realloc /\ r.tbl = hp.tbl
    BY <1>1, <1>2, <2>1 DEF Codec
  <2>3. Healthy(r)
    BY <1>1, ResizeHealthy
  <2>4. hp.mem <= gm /\ mem <= gm /\ len <= mem
    BY <1>1, <1>3, <1>8, <1>9, <1>13 DEF Codec
  <2>5. SizesAgree(r)
    BY <1>1, <1>2, <1>3, <2>2, <2>4 DEF SizesAgree, Codec
  <2>6. HPACK_LIMIT(r) <= r.mem \/ LimitWaits(r)
    <3>1. HPACK_LIMIT(hp) <= hp.mem \/ LimitWaits(hp)
      BY <1>1 DEF EncoderReady
    <3>2. HPACK_LIMIT(r) = HPACK_LIMIT(hp) /\ HPACK_LIMIT(hp) \in Nat
      BY <1>1, <2>2, LimitType DEF HPACK_LIMIT
    <3>3. LimitWaits(hp) => LimitWaits(r)
      BY <1>1, <2>2, <2>4 DEF LimitWaits, Codec
    <3> QED
      BY <1>1, <2>2, <2>4, <3>1, <3>2, <3>3 DEF Codec
  <2>7. EncoderReady(r)
    BY <2>2, <2>3, <2>5, <2>6 DEF EncoderReady
  <2>8. Resized(r, hp, len)
    BY <1>10, <2>1, <2>2 DEF Resized
  <2> QED
    BY <2>7, <2>8, ReadyHealthy
<1> QED
  BY <1>11, <1>12, <1>13

\* A limit, asked for while none is in force and no resize waits, has memory
\* already or makes the allocation grow.
LEMMA LimitEncoder ==
    ASSUME NEW hp, EncoderHealthy(hp), hp.magic = "ENCODER",
           NEW len \in Nat, hp.lim < 0, hp.nxt < 0,
           len <= hp.mem \/ (hp.realloc /\ len >= hp.max),
           NEW oom, NEW r, r = hpack_limit(hp, len, oom)
    PROVE  EncoderHealthy(r)
<1>1. EncoderReady(hp) /\ hp \in Codec /\ Healthy(hp)
  BY HealthyReady DEF EncoderHealthy
<1>2. SizesAgree(hp) /\ hp.self /\ hp.res \in {"OK", "BLK"}
  BY <1>1 DEF EncoderReady
<1>3. PICK mem \in Nat :
         mem = IF len >= hp.max /\ hp.mem < hp.max THEN hp.max ELSE hp.mem
  BY <1>1 DEF Codec
<1>4. PICK g : g = hpack_realloc(hp, mem, oom)
  OBVIOUS
<1>5. /\ g.hp = [hp EXCEPT !.mem = g.hp.mem]
      /\ hp.mem <= g.hp.mem
      /\ g.ret = "OK" => mem <= g.hp.mem
      /\ g.ret \in {"OK", "REA", "OOM"}
  BY <1>1, <1>2, <1>4, ReallocKeeps, ReallocType, EncoderRoom
<1>6. PICK gm \in Nat : gm = g.hp.mem
  <2>1. Healthy(g.hp)
    BY <1>1, <1>4, ReallocHealthy
  <2> QED
    BY <2>1 DEF Healthy, Codec
<1>7. \/ r = hp
      \/ r = Defunct(hp)
      \/ /\ hp.res = "OK" /\ g.ret = "OK" /\ ~(len > MaxSize)
         /\ r = [g.hp EXCEPT !.cap = len]
  <2>1. r = IF hp.res # "OK" THEN (IF hp.res = "BLK" THEN hp ELSE Abort(hp))
            ELSE IF len > MaxSize THEN hp
            ELSE IF g.ret = "REA" THEN hp
            ELSE IF g.ret = "OOM" THEN Defunct(hp)
            ELSE [g.hp EXCEPT !.cap = len]
    BY <1>3, <1>4, Zenon DEF hpack_limit
  <2> QED
    BY <1>2, <1>5, <2>1, Zenon
<1>8. CASE r = hp
  BY <1>8
<1>9. CASE r = Defunct(hp)
  BY <1>1, <1>9, DefunctEncoder
<1>10. CASE /\ hp.res = "OK" /\ g.ret = "OK" /\ ~(len > MaxSize)
            /\ r = [g.hp EXCEPT !.cap = len]
  <2>1. r = [hp EXCEPT !.mem = gm, !.cap = len]
    BY <1>1, <1>5, <1>6, <1>10 DEF Codec
  <2>2. /\ r.magic = "ENCODER" /\ r.self /\ r.res = "OK" /\ r.lim = hp.lim
        /\ r.cap = len /\ r.max = hp.max /\ r.mem = gm /\ r.nxt = hp.nxt
        /\ r.realloc = hp.realloc /\ r.tbl = hp.tbl
    BY <1>1, <1>2, <1>10, <2>1 DEF Codec
  <2>3. Healthy(r)
    BY <1>1, LimitHealthy
  <2>4. hp.mem <= gm /\ mem <= gm
    BY <1>5, <1>6, <1>10
  <2>5. SizesAgree(r)
    BY <1>1, <1>10, <2>2, <2>4, MaxSizeAssumption DEF SizesAgree, Codec
  <2>6. HPACK_LIMIT(r) <= r.mem \/ LimitWaits(r)
    <3>1. HPACK_LIMIT(r) = hp.max /\ HPACK_LIMIT(hp) = hp.max
      BY <1>1, <2>2 DEF HPACK_LIMIT, Codec
    <3>2. hp.max <= hp.mem \/ LimitWaits(hp)
      BY <1>1, <3>1 DEF EncoderReady
    <3>3. CASE hp.max <= hp.mem
      BY <1>1, <2>2, <2>4, <3>1, <3>3 DEF Codec
    <3>4. CASE LimitWaits(hp) /\ len >= hp.max
      BY <1>1, <1>3, <2>2, <2>4, <3>1, <3>4 DEF Codec
    <3>5. CASE LimitWaits(hp) /\ len < hp.max
      <4>1. ~(len >= hp.max)
        BY <1>1, <3>5 DEF Codec
      <4>2. len <= hp.mem
        BY <4>1
      <4>3. len <= gm
        BY <1>1, <2>4, <4>2 DEF Codec
      <4> QED
        BY <2>2, <3>5, <4>3 DEF LimitWaits
    <3> QED
      BY <1>1, <3>2, <3>3, <3>4, <3>5 DEF Codec
  <2> QED
    BY <2>2, <2>3, <2>5, <2>6, ReadyHealthy DEF EncoderReady
<1> QED
  BY <1>7, <1>8, <1>9, <1>10

\* Trimming keeps memory for the size in force, which nothing is to replace.
LEMMA TrimEncoderHealthy ==
    ASSUME NEW hp, EncoderHealthy(hp), hp.magic = "ENCODER", hp.nxt < 0,
           NEW oom, NEW r, r = hpack_trim(hp, oom, FALSE)
    PROVE  EncoderHealthy(r) /\ MemoryOnly(r, hp)
<1>1. EncoderReady(hp) /\ hp \in Codec /\ Healthy(hp)
  BY HealthyReady DEF EncoderHealthy
<1>2. SizesAgree(hp) /\ hp.self /\ hp.res \in {"OK", "BLK"}
  BY <1>1 DEF EncoderReady
<1>3. PICK size \in Nat : size = HPACK_LIMIT(hp)
  BY <1>1, LimitType
<1>4. ~(hp.lim > hp.max)
  BY <1>1, <1>2 DEF SizesAgree, Codec
<1>5. \/ r = hp
      \/ hp.realloc /\ r = [hp EXCEPT !.mem = size, !.self = @ /\ ~FALSE]
  <2>1. hp.res # "OK" => hp.res = "BLK"
    BY <1>2
  <2> QED
    BY <1>3, <1>4, <2>1, Zenon DEF hpack_trim
<1>6. CASE r = hp
  BY <1>1, <1>6 DEF Codec, MemoryOnly
<1>7. CASE hp.realloc /\ r = [hp EXCEPT !.mem = size, !.self = @ /\ ~FALSE]
  <2>1. r = [hp EXCEPT !.mem = size]
    BY <1>1, <1>2, <1>7 DEF Codec
  <2>2. /\ r.magic = "ENCODER" /\ r.self /\ r.res = hp.res /\ r.lim = hp.lim
        /\ r.cap = hp.cap /\ r.max = hp.max /\ r.mem = size /\ r.nxt = hp.nxt
        /\ r.realloc = hp.realloc /\ r.tbl = hp.tbl
    BY <1>1, <1>2, <2>1 DEF Codec
  <2>3. Healthy(r)
    BY <1>1, TrimHealthy
  <2>4. SizesAgree(r)
    <3>1. r.realloc
      BY <1>7, <2>2, Zenon
    <3>2. r.nxt <= r.mem
      <4>1. PICK n \in Int : n = hp.nxt
        BY <1>1 DEF Codec
      <4>2. n < 0 /\ n <= size
        BY <4>1
      <4> QED
        BY <2>2, <4>1, <4>2
    <3>3. /\ r.lim >= 0 => r.cap < 0 /\ r.lim < r.max /\ r.nxt < 0
          /\ r.cap >= 0 => r.nxt < r.cap /\ r.cap <= MaxSize
      BY <1>2, <2>2 DEF SizesAgree
    <3> QED
      BY <3>1, <3>2, <3>3, Zenon DEF SizesAgree
  <2>5. HPACK_LIMIT(r) <= r.mem
    <3>1. HPACK_LIMIT(r) = HPACK_LIMIT(hp)
      BY <2>2, Zenon DEF HPACK_LIMIT
    <3>2. size <= size
      OBVIOUS
    <3> QED
      BY <1>3, <2>2, <3>1, <3>2, Zenon
  <2> QED
    BY <1>2, <2>1, <2>2, <2>3, <2>4, <2>5, ReadyHealthy
       DEF EncoderReady, MemoryOnly
<1> QED
  BY <1>5, <1>6, <1>7

\* Listing the tables leaves an encoder between blocks.
LEMMA ForeachEncoder ==
    ASSUME NEW hp, EncoderHealthy(hp), hp.magic = "ENCODER",
           NEW r, r = hpack_foreach(hp)
    PROVE  EncoderHealthy(r)
<1>1. EncoderReady(hp) /\ hp \in Codec /\ Healthy(hp)
  BY HealthyReady DEF EncoderHealthy
<1>2. Healthy(r)
  BY <1>1, ForeachHealthy
<1>3. /\ r.magic = "ENCODER" /\ r.self /\ r.res = "OK" /\ r.lim = hp.lim
      /\ r.cap = hp.cap /\ r.max = hp.max /\ r.mem = hp.mem
      /\ r.nxt = hp.nxt /\ r.realloc = hp.realloc /\ r.tbl = hp.tbl
  BY <1>1 DEF hpack_foreach, Codec
<1>4. SizesAgree(r) /\ (HPACK_LIMIT(r) <= r.mem \/ LimitWaits(r))
  BY <1>1, <1>3 DEF EncoderReady, SizesAgree, HPACK_LIMIT, LimitWaits
<1> QED
  BY <1>2, <1>3, <1>4, ReadyHealthy DEF EncoderReady
-----------------------------------------------------------------------------
(***************************************************************************)
(* hpack_encode.                                                           *)
(***************************************************************************)

\* An encoder within hpack_encode.  A limit that is beyond the memory is about
\* to be replaced.
InHead(hp) ==
    /\ Healthy(hp) /\ hp.magic = "ENCODER"
    /\ hp.self /\ hp.res = "BLK"
    /\ SizesAgree(hp)
    /\ \/ HPACK_LIMIT(hp) <= hp.mem
       \/ hp.upd /\ hp.cap >= 0 /\ hp.cap < hp.max /\ hp.cap <= hp.mem

\* HPT_adjust after the sizes have been set: no assertion fails.
LEMMA AdjustEncoder ==
    ASSUME NEW hp \in Codec, LaidOut(hp), Ordered(hp), hp.magic = "ENCODER",
           hp.lim <= hp.max, NEW a, a = HPT_adjust(hp, hp.len)
    PROVE  /\ Healthy(a) /\ a \in Codec /\ a.magic = "ENCODER"
           /\ a.realloc = hp.realloc /\ a.mem = hp.mem
           /\ a.max = hp.max /\ a.lim = hp.lim /\ a.cap = hp.cap
           /\ a.nxt = hp.nxt /\ a.min = hp.min /\ a.res = hp.res
           /\ a.upd = hp.upd /\ a.self = hp.self
<1>1. Healthy(a) /\ a \in Codec
  BY AdjustHealthy DEF Healthy
<1>2. hp.magic # "ABORTED"
  OBVIOUS
<1>3. TableOnly(a, hp)
  BY <1>2, FitKeeps, Zenon
<1> QED
  BY <1>1, <1>3, TableOnlySame

\* Signalling the smallest maximum, which the memory is enough for.
LEMMA LowestEncoder ==
    ASSUME NEW hp, InHead(hp), NEW e, e = EncodeLowest(hp)
    PROVE  InHead(e.hp)
<1>1. /\ hp \in Codec /\ LaidOut(hp) /\ Ordered(hp) /\ hp.magic = "ENCODER"
      /\ hp.self /\ hp.res = "BLK"
      /\ SizesAgree(hp) /\ Healthy(hp)
  BY DEF InHead, Healthy, Sound
<1>2. CASE hp.upd /\ hp.min >= 0 /\ hp.min < hp.nxt
  <2>1. PICK n \in Nat : n = hp.min
    BY <1>1, <1>2 DEF Codec
  <2>2. PICK x \in Nat : x = hp.nxt /\ n < x
    BY <1>1, <1>2, <2>1 DEF Codec
  <2>3. PICK low : low = [hp EXCEPT !.max = n]
    OBVIOUS
  <2>4. low \in Codec /\ LaidOut(low) /\ Ordered(low) /\ low.max = n
        /\ low.magic = "ENCODER" /\ low.self /\ low.res = "BLK"
        /\ low.mem = hp.mem /\ low.lim = hp.lim /\ low.cap = hp.cap
        /\ low.nxt = x /\ low.min = n /\ low.realloc = hp.realloc
    BY <1>1, <2>1, <2>2, <2>3 DEF Codec, LaidOut, Ordered
  <2>5. PICK a : a = HPT_adjust(low, low.len)
    OBVIOUS
  <2>6. hp.lim < 0 /\ hp.lim = -1 /\ n <= hp.mem
    BY <1>1, <2>1, <2>2 DEF SizesAgree, Codec
  <2>7. /\ Healthy(a) /\ a \in Codec /\ a.magic = "ENCODER"
        /\ a.realloc = hp.realloc /\ a.mem = hp.mem
        /\ a.max = n /\ a.lim = -1 /\ a.cap = hp.cap
        /\ a.nxt = x /\ a.res = "BLK" /\ a.self
    <3>1. low.lim <= low.max
      BY <2>4, <2>6
    <3> QED
      BY <2>4, <2>5, <2>6, <3>1, AdjustEncoder
  <2>8. PICK r : r = [a EXCEPT !.min = x]
    OBVIOUS
  <2>9. e = [hp |-> r, out |-> <<UpdateRep(n)>>]
    BY <1>2, <2>1, <2>2, <2>3, <2>5, <2>8, Zenon DEF EncodeLowest
  <2>10. e.hp = r
    BY <2>9
  <2>11. Healthy(r)
    BY <1>1, <2>10, LowestHealthy
  <2>12. /\ r.magic = "ENCODER" /\ r.realloc = hp.realloc /\ r.mem = hp.mem
         /\ r.max = n /\ r.lim = -1 /\ r.cap = hp.cap
         /\ r.nxt = x /\ r.res = "BLK" /\ r.self
    BY <2>7, <2>8 DEF Codec
  <2>13. SizesAgree(r)
    BY <1>1, <2>2, <2>12 DEF SizesAgree
  <2>14. HPACK_LIMIT(r) <= r.mem
    BY <2>6, <2>12 DEF HPACK_LIMIT
  <2> QED
    BY <2>10, <2>11, <2>12, <2>13, <2>14 DEF InHead
<1>3. CASE ~(hp.upd /\ hp.min >= 0 /\ hp.min < hp.nxt)
  BY <1>3 DEF EncodeLowest
<1> QED
  BY <1>2, <1>3

\* Signalling the last maximum: a limit that waits is above it, so that none
\* comes into force, and the memory is enough.  Without it no resize waits.
LEMMA MaximumEncoder ==
    ASSUME NEW hp, InHead(hp), NEW e, e = EncodeMaximum(hp)
    PROVE  InHead(e.hp) /\ (e.hp.upd => e.hp.nxt < 0)
<1>1. /\ hp \in Codec /\ LaidOut(hp) /\ Ordered(hp) /\ hp.magic = "ENCODER"
      /\ hp.self /\ hp.res = "BLK"
      /\ SizesAgree(hp) /\ Healthy(hp)
  BY DEF InHead, Healthy, Sound
<1>2. CASE hp.upd /\ hp.min >= 0
  <2>1. PICK n \in Nat : n = hp.nxt
    BY <1>1, <1>2 DEF Codec, Ordered
  <2>2. hp.lim = -1 /\ n <= hp.mem
    BY <1>1, <2>1 DEF SizesAgree, Codec
  <2>3. hpack_cap(hp, n) = [ret |-> n, lim |-> -1]
    BY <1>1, <2>1, <2>2 DEF hpack_cap, SizesAgree, Codec
  <2>4. PICK l \in Nat \cup {-1} : l = -1
    OBVIOUS
  <2>5. PICK top : top = [hp EXCEPT !.max = n, !.lim = l]
    OBVIOUS
  <2>6. top \in Codec /\ LaidOut(top) /\ Ordered(top) /\ top.max = n
        /\ top.magic = "ENCODER" /\ top.self /\ top.res = "BLK"
        /\ top.mem = hp.mem /\ top.lim = l /\ top.cap = hp.cap
        /\ top.realloc = hp.realloc
    BY <1>1, <2>5 DEF Codec, LaidOut, Ordered
  <2>7. PICK a : a = HPT_adjust(top, top.len)
    OBVIOUS
  <2>8. /\ Healthy(a) /\ a \in Codec /\ a.magic = "ENCODER"
        /\ a.realloc = hp.realloc /\ a.mem = hp.mem
        /\ a.max = n /\ a.lim = l /\ a.cap = hp.cap
        /\ a.res = "BLK" /\ a.self
    <3>1. top.lim <= top.max
      BY <2>4, <2>6
    <3> QED
      BY <2>6, <2>7, <3>1, AdjustEncoder
  <2>9. PICK r : r = [a EXCEPT !.min = -1, !.nxt = -1, !.upd = FALSE]
    OBVIOUS
  <2>10. e = [hp |-> r, out |-> <<UpdateRep(n)>>]
    <3>1. PICK c : c = hpack_cap(hp, n)
      OBVIOUS
    <3>2. c.lim = l /\ c.ret = n
      BY <2>3, <2>4, <3>1
    <3> QED
      BY <1>2, <2>1, <2>5, <2>7, <2>9, <3>1, <3>2, Zenon DEF EncodeMaximum
  <2>11. e.hp = r
    BY <2>10
  <2>12. Healthy(r)
    BY <1>1, <2>11, MaximumHealthy
  <2>13. /\ r.magic = "ENCODER" /\ r.realloc = hp.realloc /\ r.mem = hp.mem
         /\ r.max = n /\ r.lim = -1 /\ r.cap = hp.cap
         /\ r.nxt = -1 /\ r.res = "BLK" /\ r.self
    BY <2>4, <2>8, <2>9 DEF Codec
  <2>14. SizesAgree(r)
    BY <1>1, <2>1, <2>13 DEF SizesAgree, Codec
  <2>15. HPACK_LIMIT(r) <= r.mem
    BY <2>2, <2>13 DEF HPACK_LIMIT
  <2> QED
    BY <2>11, <2>12, <2>13, <2>14, <2>15 DEF InHead
<1>3. CASE ~(hp.upd /\ hp.min >= 0)
  <2>1. e.hp = hp
    BY <1>3 DEF EncodeMaximum
  <2>2. hp.upd => hp.nxt < 0
    BY <1>1, <1>3 DEF Ordered, Codec
  <2> QED
    BY <2>1, <2>2
<1> QED
  BY <1>2, <1>3

\* Signalling a limit without a resize: none is in force, and from now on the
\* memory is enough.
LEMMA SoftLimitEncoder ==
    ASSUME NEW hp, InHead(hp), hp.upd => hp.nxt < 0,
           NEW e, e = EncodeLimit(hp)
    PROVE  InHead(e.hp) /\ HPACK_LIMIT(e.hp) <= e.hp.mem
<1>1. /\ hp \in Codec /\ LaidOut(hp) /\ Ordered(hp) /\ hp.magic = "ENCODER"
      /\ hp.self /\ hp.res = "BLK"
      /\ SizesAgree(hp) /\ Healthy(hp)
  BY DEF InHead, Healthy, Sound
<1>2. \/ HPACK_LIMIT(hp) <= hp.mem
      \/ hp.upd /\ hp.cap >= 0 /\ hp.cap < hp.max /\ hp.cap <= hp.mem
  BY DEF InHead
<1>3. hp.cap >= 0 => hp.lim = -1
  BY <1>1 DEF SizesAgree, Codec
<1>4. CASE hp.upd /\ hp.cap >= 0 /\ ~(hp.cap >= hp.max)
  <2>1. PICK n \in Nat : n = hp.cap
    BY <1>1, <1>4 DEF Codec
  <2>2. hp.lim = -1 /\ n < hp.max /\ n <= hp.mem
    <3>1. HPACK_LIMIT(hp) = hp.max
      BY <1>3, <1>4 DEF HPACK_LIMIT
    <3> QED
      BY <1>1, <1>2, <1>3, <1>4, <2>1, <3>1 DEF Codec
  <2>3. PICK soft : soft = [hp EXCEPT !.lim = n]
    OBVIOUS
  <2>4. soft \in Codec /\ LaidOut(soft) /\ Ordered(soft) /\ soft.max = hp.max
        /\ soft.magic = "ENCODER" /\ soft.self /\ soft.res = "BLK"
        /\ soft.mem = hp.mem /\ soft.lim = n /\ soft.nxt = hp.nxt
    BY <1>1, <2>3 DEF Codec, LaidOut, Ordered
  <2>5. PICK a : a = HPT_adjust(soft, soft.len)
    OBVIOUS
  <2>6. /\ Healthy(a) /\ a \in Codec /\ a.magic = "ENCODER"
        /\ a.mem = hp.mem /\ a.max = hp.max /\ a.lim = n
        /\ a.nxt = hp.nxt /\ a.res = "BLK" /\ a.self
    <3>1. soft.lim <= soft.max
      BY <1>1, <2>2, <2>4 DEF Codec
    <3> QED
      BY <2>4, <2>5, <3>1, AdjustEncoder
  <2>7. PICK r : r = [a EXCEPT !.cap = -1]
    OBVIOUS
  <2>8. e = [hp |-> r, out |-> <<UpdateRep(n)>>]
    BY <1>3, <1>4, <2>1, <2>3, <2>5, <2>7, Zenon DEF EncodeLimit
  <2>9. e.hp = r
    BY <2>8
  <2>10. Healthy(r)
    BY <1>1, <2>9, SoftLimitHealthy
  <2>11. /\ r.magic = "ENCODER" /\ r.mem = hp.mem /\ r.max = hp.max
         /\ r.lim = n /\ r.cap = -1
         /\ r.nxt = hp.nxt /\ r.res = "BLK" /\ r.self
    BY <2>6, <2>7 DEF Codec
  <2>12. SizesAgree(r)
    BY <1>1, <1>4, <2>2, <2>11 DEF SizesAgree, Codec
  <2>13. HPACK_LIMIT(r) <= r.mem
    BY <2>2, <2>11 DEF HPACK_LIMIT
  <2> QED
    BY <2>9, <2>10, <2>11, <2>12, <2>13 DEF InHead
<1>5. CASE ~(hp.upd /\ hp.cap >= 0 /\ ~(hp.cap >= hp.max))
  <2>1. e.hp = hp
    BY <1>3, <1>5, Zenon DEF EncodeLimit
  <2>2. HPACK_LIMIT(hp) <= hp.mem
    BY <1>1, <1>2, <1>5 DEF Codec
  <2> QED
    BY <2>1, <2>2
<1> QED
  BY <1>4, <1>5

\* The head of a block leaves no update to be signalled before the field, and
\* memory for the size in force.
LEMMA HeadEncoder ==
    ASSUME NEW hp, EncoderHealthy(hp), hp.magic = "ENCODER",
           NEW h, h = EncodeHead(hp)
    PROVE  /\ EncoderReady(h.hp) /\ h.hp.res = "BLK"
           /\ HPACK_LIMIT(h.hp) <= h.hp.mem
<1>1. EncoderReady(hp) /\ hp \in Codec /\ Healthy(hp)
  BY HealthyReady DEF EncoderHealthy
<1>2. hp.self /\ hp.res \in {"OK", "BLK"} /\ SizesAgree(hp)
  BY <1>1 DEF EncoderReady
<1>3. PICK b : b = BeginEncode(hp)
  OBVIOUS
<1>4. InHead(b)
  <2>1. CASE hp.res = "BLK"
    <3>1. b = hp
      BY <1>2, <1>3, <2>1, Zenon DEF BeginEncode
    <3>2. HPACK_LIMIT(hp) <= hp.mem
      BY <1>1, <2>1 DEF EncoderReady, LimitWaits
    <3> QED
      BY <1>1, <1>2, <2>1, <3>1, <3>2 DEF InHead
  <2>2. CASE hp.res = "OK"
    <3>1. b = [hp EXCEPT !.res = "BLK", !.upd = TRUE]
      BY <1>2, <1>3, <2>2, Zenon DEF BeginEncode
    <3>2. Healthy(b)
      BY <1>1, <3>1, ContextHealthy DEF Results
    <3>3. /\ b.magic = "ENCODER" /\ b.realloc = hp.realloc /\ b.mem = hp.mem
          /\ b.max = hp.max /\ b.lim = hp.lim /\ b.cap = hp.cap
          /\ b.nxt = hp.nxt /\ b.self /\ b.res = "BLK" /\ b.upd
      BY <1>1, <1>2, <3>1 DEF Codec
    <3>4. SizesAgree(b)
      BY <1>2, <3>3, Zenon DEF SizesAgree
    <3>5. HPACK_LIMIT(b) = HPACK_LIMIT(hp)
      BY <3>3, Zenon DEF HPACK_LIMIT
    <3>6. HPACK_LIMIT(hp) <= hp.mem \/ LimitWaits(hp)
      BY <1>1 DEF EncoderReady
    <3> QED
      BY <3>2, <3>3, <3>4, <3>5, <3>6, Zenon DEF InHead, LimitWaits
  <2> QED
    BY <1>2, <2>1, <2>2
<1>5. PICK low : low = EncodeLowest(b)
  OBVIOUS
<1>6. InHead(low.hp)
  BY <1>4, <1>5, LowestEncoder
<1>7. PICK top : top = EncodeMaximum(low.hp)
  OBVIOUS
<1>8. InHead(top.hp) /\ (top.hp.upd => top.hp.nxt < 0)
  BY <1>6, <1>7, MaximumEncoder
<1>9. PICK cap : cap = EncodeLimit(top.hp)
  OBVIOUS
<1>10. PICK c : c = cap.hp
  OBVIOUS
<1>11. InHead(c) /\ HPACK_LIMIT(c) <= c.mem
  BY <1>8, <1>9, <1>10, SoftLimitEncoder, Zenon
<1>12. PICK r : r = [c EXCEPT !.upd = FALSE]
  OBVIOUS
<1>13. h.hp = r
  <2> DEFINE out == low.out \o top.out \o cap.out
  <2>1. h = [hp |-> r, out |-> out]
    BY <1>3, <1>5, <1>7, <1>9, <1>10, <1>12, Zenon
       DEF EncodeHead, hpack_encode_update
  <2> HIDE DEF out
  <2> QED
    BY <2>1
<1>14. Healthy(r)
  BY <1>1, <1>13, HeadHealthy
<1>15. /\ r.magic = "ENCODER" /\ r.realloc = c.realloc /\ r.mem = c.mem
       /\ r.max = c.max /\ r.lim = c.lim /\ r.cap = c.cap
       /\ r.nxt = c.nxt /\ r.self /\ r.res = "BLK"
  BY <1>11, <1>12 DEF InHead, Healthy, Codec
<1>16. SizesAgree(r)
  BY <1>11, <1>15, Zenon DEF InHead, SizesAgree
<1>17. HPACK_LIMIT(r) <= r.mem
  BY <1>11, <1>15, Zenon DEF HPACK_LIMIT
<1> QED
  BY <1>13, <1>14, <1>15, <1>16, <1>17, Zenon DEF EncoderReady

\* hpack_encode keeps an encoder healthy, whatever the request, when the name it
\* takes from the table stays whole.
LEMMA EncodeEncoder ==
    ASSUME NEW hp, EncoderHealthy(hp), hp.magic = "ENCODER",
           NEW req \in Request, NEW cut \in BOOLEAN,
           NEW use \in hpack_auto_index(EncodeHead(hp).hp, req),
           NameStays(EncodeHead(hp).hp, use),
           NEW e, e = hpack_encode(hp, req, use, cut)
    PROVE  EncoderHealthy(e.hp)
<1>1. Healthy(hp)
  BY DEF EncoderHealthy
<1>2. Healthy(e.hp)
  BY <1>1, EncodeHealthy
<1>3. PICK head : head = EncodeHead(hp)
  OBVIOUS
<1>4. PICK h : h = head.hp
  OBVIOUS
<1>5. /\ EncoderReady(h) /\ h.res = "BLK" /\ HPACK_LIMIT(h) <= h.mem
      /\ h \in Codec /\ LaidOut(h) /\ Healthy(h)
      /\ h.self /\ SizesAgree(h) /\ h.magic = "ENCODER"
  <2>1. EncoderReady(h) /\ h.res = "BLK" /\ HPACK_LIMIT(h) <= h.mem
    BY <1>3, <1>4, HeadEncoder
  <2> QED
    BY <2>1 DEF EncoderReady, Healthy, Sound
<1>6. PICK err : err = Refusal(h, use)
  OBVIOUS
<1>7. CASE err # "OK"
  <2>1. h = EncodeHead(hp).hp
    BY <1>3, <1>4
  <2>2. PICK r \in Codec : e.hp = Defunct(r) /\ r.magic = h.magic
    BY <1>5, <1>6, <1>7, <2>1, EncodeRefused
  <2>4. e.hp.magic = "DEFUNCT"
    BY <1>5, <2>2 DEF Defunct, Codec
  <2> QED
    BY <1>2, <2>4 DEF EncoderHealthy
<1>8. CASE err = "OK"
  <2>1. use \in Request
    BY <1>3, <1>4, <1>5, AutoIndexType
  <2>2. PICK fld \in Field : fld = Meant(h, use)
    BY <1>5, <1>6, <1>8, <2>1, MeantType
  <2>3. PICK done : done = IF use.typ = "DYN" THEN HPT_index(h, fld) ELSE h
    OBVIOUS
  <2>4. done \in Codec /\ TableOnly(done, h)
    <3>1. CASE use.typ = "DYN"
      <4>1. done = HPT_index(h, fld)
        BY <2>3, <3>1
      <4>2. h.lim <= h.max /\ h.magic # "ABORTED"
        BY <1>5 DEF SizesAgree, Codec
      <4>3. Healthy(done)
        BY <1>5, <4>1, IndexHealthy
      <4> QED
        BY <1>5, <4>1, <4>2, <4>3, IndexKeeps, Zenon DEF Healthy
    <3>2. CASE use.typ # "DYN"
      BY <1>5, <2>3, <3>2 DEF TableOnly, Codec
    <3> QED
      BY <3>1, <3>2
  <2>5. PICK res \in {"OK", "BLK"} : res = IF cut THEN "BLK" ELSE "OK"
    OBVIOUS
  <2>6. PICK r : r = [done EXCEPT !.res = res]
    OBVIOUS
  <2>7. e.hp = r
    <3> DEFINE item == [typ |-> use.typ, num |-> use.num,
                        fld |-> IF req.aut
                                THEN [nam |-> req.nam, val |-> req.val]
                                ELSE Meant(h, use),
                        cut |-> cut]
               out == Append(head.out, item)
    <3>1. done = IF use.typ = "DYN" THEN hpack_encode_dynamic(h, use) ELSE h
      BY <1>3, <1>4, <1>5, <1>6, <1>8, <2>1, <2>2, <2>3, DynamicIs
    <3>2. e = [hp |-> r, out |-> out]
      BY <1>3, <1>4, <1>6, <1>8, <2>5, <2>6, <3>1, Zenon DEF hpack_encode
    <3> HIDE DEF out
    <3> QED
      BY <3>2
  <2>8. /\ done.magic = h.magic /\ done.realloc = h.realloc
        /\ done.mem = h.mem /\ done.max = h.max /\ done.lim = h.lim
        /\ done.cap = h.cap /\ done.nxt = h.nxt /\ done.self = h.self
    BY <1>5, <2>4, TableOnlySame
  <2>9. /\ r.magic = "ENCODER" /\ r.realloc = h.realloc /\ r.mem = h.mem
        /\ r.max = h.max /\ r.lim = h.lim /\ r.cap = h.cap
        /\ r.nxt = h.nxt /\ r.self /\ r.res = res
    BY <1>5, <2>4, <2>6, <2>8 DEF Codec
  <2>10. SizesAgree(r)
    BY <1>5, <2>9, Zenon DEF SizesAgree
  <2>11. HPACK_LIMIT(r) <= r.mem
    BY <1>5, <2>9, Zenon DEF HPACK_LIMIT
  <2>12. EncoderReady(r)
    BY <1>2, <2>5, <2>7, <2>9, <2>10, <2>11 DEF EncoderReady
  <2> QED
    BY <2>7, <2>12, ReadyHealthy
<1> QED
  BY <1>7, <1>8
-----------------------------------------------------------------------------
(***************************************************************************)
(* What a decoder makes of the items on a connection.                      *)
(***************************************************************************)

\* A representation takes every decoder of one view to the other, with the
\* field the encoder was asked for.
Reads(a, rep, b) ==
    \A d : DecoderHealthy(d) /\ d.magic = "DECODER" /\ View(d) = a =>
        LET done == hpack_decode(d, rep)
        IN  /\ done.hp.magic = "DECODER" /\ View(done.hp) = b
            /\ done.fld = rep.fld
            /\ done.ret = IF rep.cut THEN "BLK" ELSE "OK"

\* An acknowledgement finds the decoder between two blocks.
Awaits(a, n, b) ==
    /\ a.at = "none"
    /\ b = [tbl |-> a.tbl, len |-> a.len, lim |-> a.lim, max |-> a.max,
            nxt |-> n, min |-> IF a.min < 0 \/ a.min > n THEN n ELSE a.min,
            at  |-> "none"]

Step(a, item, b) ==
    IF item.typ = "ACK" THEN Awaits(a, item.num, b) ELSE Reads(a, item, b)

\* The items w take a decoder from the view a to the view b.
Leads(w, a, b) ==
    \E run : /\ run[0] = a /\ run[Len(w)] = b
             /\ \A i \in 1..Len(w) : Step(run[i - 1], w[i], run[i])

\* Nothing on the connection, nothing to come.
LEMMA LeadsNowhere ==
    ASSUME NEW a, NEW b
    PROVE  Leads(<<>>, a, b) <=> a = b
<1>1. ASSUME a = b PROVE Leads(<<>>, a, b)
  <2>1. PICK run : run = [i \in {0} |-> a]
    OBVIOUS
  <2>2. run[0] = a /\ run[Len(<<>>)] = b
    BY <1>1, <2>1
  <2>3. \A i \in 1..Len(<<>>) : Step(run[i - 1], <<>>[i], run[i])
    OBVIOUS
  <2> QED
    BY <2>2, <2>3 DEF Leads
<1>2. ASSUME Leads(<<>>, a, b) PROVE a = b
  BY <1>2 DEF Leads
<1> QED
  BY <1>1, <1>2

\* One item.
LEMMA LeadsBy ==
    ASSUME NEW a, NEW b, NEW item, Step(a, item, b)
    PROVE  Leads(<<item>>, a, b)
<1>1. PICK run : run = [i \in {0, 1} |-> IF i = 0 THEN a ELSE b]
  OBVIOUS
<1>2. run[0] = a /\ run[1] = b
  BY <1>1
<1>3. Len(<<item>>) = 1 /\ <<item>>[1] = item
  OBVIOUS
<1>4. \A i \in 1..1 : i = 1 /\ i - 1 = 0
  OBVIOUS
<1>5. \A i \in 1..1 : Step(run[i - 1], <<item>>[i], run[i])
  BY <1>2, <1>3, <1>4
<1> QED
  BY <1>2, <1>3, <1>5 DEF Leads

\* What is written goes behind what is there.
LEMMA LeadsOn ==
    ASSUME NEW S, NEW w \in Seq(S), NEW x \in Seq(S), NEW a, NEW b, NEW c,
           Leads(w, a, b), Leads(x, b, c)
    PROVE  Leads(w \o x, a, c)
<1>1. PICK m \in Nat : m = Len(w)
  OBVIOUS
<1>2. PICK n \in Nat : n = Len(x)
  OBVIOUS
<1>3. PICK r : /\ r[0] = a /\ r[m] = b
               /\ \A i \in 1..m : Step(r[i - 1], w[i], r[i])
  BY <1>1 DEF Leads
<1>4. PICK s : /\ s[0] = b /\ s[n] = c
               /\ \A i \in 1..n : Step(s[i - 1], x[i], s[i])
  BY <1>2 DEF Leads
<1>5. PICK run : run = [i \in 0..(m + n) |-> IF i <= m THEN r[i] ELSE s[i - m]]
  OBVIOUS
<1>6. PICK z : z = w \o x
  OBVIOUS
<1>7. /\ Len(z) = m + n
      /\ \A i \in 1..(m + n) : z[i] = IF i <= m THEN w[i] ELSE x[i - m]
  BY <1>1, <1>2, <1>6
<1>8. \A i \in 0..m : run[i] = r[i]
  BY <1>5
<1>9. \A i \in 0..n : run[m + i] = s[i]
  <2> TAKE i \in 0..n
  <2>1. CASE i = 0
    BY <2>1, <1>3, <1>4, <1>8
  <2>2. CASE i # 0
    BY <2>2, <1>5
  <2> QED
    BY <2>1, <2>2
<1>10. run[0] = a /\ run[Len(z)] = c
  BY <1>3, <1>4, <1>7, <1>8, <1>9
<1>11. ASSUME NEW i \in 1..Len(z)
       PROVE  Step(run[i - 1], z[i], run[i])
  <2>1. CASE i <= m
    <3>1. i \in 1..m /\ i \in 0..m /\ i - 1 \in 0..m
      BY <2>1, <1>7
    <3>2. run[i - 1] = r[i - 1] /\ run[i] = r[i] /\ z[i] = w[i]
      BY <3>1, <1>7, <1>8
    <3> QED
      BY <3>1, <3>2, <1>3
  <2>2. CASE ~(i <= m)
    <3>1. PICK j \in 1..n : i = m + j /\ j - 1 \in 0..n /\ j \in 0..n
                            /\ i - 1 = m + (j - 1)
      <4>1. i - m \in 1..n
        BY <2>2, <1>7
      <4> QED
        BY <4>1
    <3>2. z[i] = x[j]
      <4>1. i - m = j
        BY <3>1
      <4> QED
        BY <4>1, <2>2, <1>7
    <3>3. run[i - 1] = s[j - 1] /\ run[i] = s[j]
      BY <3>1, <1>9
    <3> QED
      BY <3>1, <3>2, <3>3, <1>4
  <2> QED
    BY <2>1, <2>2
<1>12. Leads(z, a, c)
  BY <1>10, <1>11 DEF Leads
<1> QED
  BY <1>6, <1>12

\* What is read comes off the front.
LEMMA LeadsFrom ==
    ASSUME NEW S, NEW w \in Seq(S), w # <<>>, NEW a, NEW c, Leads(w, a, c)
    PROVE  \E b : Step(a, Head(w), b) /\ Leads(Tail(w), b, c)
<1>1. PICK n \in Nat : n = Len(w) /\ n >= 1 /\ n - 1 \in Nat
  OBVIOUS
<1>2. PICK r : /\ r[0] = a /\ r[n] = c
               /\ \A i \in 1..n : Step(r[i - 1], w[i], r[i])
  BY <1>1 DEF Leads
<1>3. Step(a, Head(w), r[1])
  <2>1. 1 \in 1..n /\ 1 - 1 = 0 /\ Head(w) = w[1]
    BY <1>1
  <2>2. Step(r[1 - 1], w[1], r[1])
    BY <1>2, <2>1
  <2> QED
    BY <1>2, <2>1, <2>2
<1>4. PICK t : t = Tail(w)
  OBVIOUS
<1>5. Len(t) = n - 1 /\ \A i \in 1..(n - 1) : t[i] = w[i + 1]
  BY <1>1, <1>4
<1>6. PICK run : run = [i \in 0..(n - 1) |-> r[i + 1]]
  OBVIOUS
<1>7. run[0] = r[1] /\ run[Len(t)] = c
  BY <1>1, <1>2, <1>5, <1>6
<1>8. ASSUME NEW i \in 1..Len(t)
      PROVE  Step(run[i - 1], t[i], run[i])
  <2>1. /\ i \in 0..(n - 1) /\ i - 1 \in 0..(n - 1) /\ i \in 1..(n - 1)
        /\ i + 1 \in 1..n /\ (i + 1) - 1 = i /\ (i - 1) + 1 = i
    BY <1>1, <1>5
  <2>2. run[i - 1] = r[i] /\ run[i] = r[i + 1] /\ t[i] = w[i + 1]
    BY <2>1, <1>5, <1>6
  <2>3. Step(r[(i + 1) - 1], w[i + 1], r[i + 1])
    BY <2>1, <1>2
  <2> QED
    BY <2>1, <2>2, <2>3
<1>9. Leads(t, r[1], c)
  BY <1>7, <1>8 DEF Leads
<1> QED
  BY <1>3, <1>4, <1>9
-----------------------------------------------------------------------------
(***************************************************************************)
(* Table updates.                                                          *)
(***************************************************************************)

\* What a view says of a decoder.
LEMMA ViewSays ==
    ASSUME NEW hp, NEW a, View(hp) = a
    PROVE  /\ hp.tbl = a.tbl /\ hp.len = a.len /\ HPACK_LIMIT(hp) = a.lim
           /\ hp.max = a.max /\ hp.nxt = a.nxt /\ hp.min = a.min
           /\ a.at = Stage(hp)
BY DEF View

\* A decoder at the head of a block that is sent a size it may be sent: the
\* sizes are settled, and the table is made to fit.
LEMMA UpdateTaken ==
    ASSUME NEW d, DecoderHealthy(d), d.magic = "DECODER", Stage(d) # "body",
           NEW sz \in Nat, ExpectedUpdate(d, sz), sz <= SettledMax(d),
           NEW done, done = hpack_decode(d, UpdateRep(sz))
    PROVE  \E s \in Codec :
             /\ s = Settle([d EXCEPT !.res = "BLK", !.upd = TRUE], sz)
             /\ done.hp = HPT_adjust(s, s.len) /\ TableOnly(done.hp, s)
             /\ done.hp.magic = "DECODER" /\ DecoderHealthy(done.hp)
             /\ done.ret = done.hp.res /\ done.fld = NoField
<1>1. PICK ctx : ctx = [d EXCEPT !.res = "BLK", !.upd = TRUE]
  OBVIOUS
<1>2. d \in Codec /\ d.res \in {"OK", "BLK"} /\ d.self
  BY DEF DecoderHealthy, Healthy
<1>3. BeginDecode(d, TRUE) = ctx
  <2>1. CASE d.res = "OK"
    BY <1>1, <1>2, <2>1, Zenon DEF BeginDecode
  <2>2. CASE d.res = "BLK"
    <3>1. d.upd = TRUE
      BY <1>2, <2>2 DEF Stage, Codec
    <3>2. BeginDecode(d, TRUE) = [d EXCEPT !.res = "BLK", !.upd = d.upd]
      BY <1>2, <2>2, Zenon DEF BeginDecode
    <3> QED
      BY <1>1, <3>1, <3>2
  <2> QED
    BY <1>2, <2>1, <2>2
<1>4. DecoderHealthy(ctx) /\ ctx.magic = "DECODER"
  BY <1>1, ContextDecoder
<1>5. /\ ctx.upd = TRUE /\ ctx.min = d.min /\ ctx.nxt = d.nxt
      /\ ctx.max = d.max
  BY <1>1, <1>2 DEF Codec
<1>6. ExpectedUpdate(ctx, sz) /\ sz <= SettledMax(ctx)
  BY <1>5 DEF ExpectedUpdate, SettledMax
<1>7. done = hpack_decode_update(ctx, sz)
  <2>1. /\ UpdateRep(sz).typ = "UPD" /\ UpdateRep(sz).num = sz
        /\ UpdateRep(sz).cut = TRUE
    BY DEF UpdateRep
  <2> QED
    BY <1>3, <2>1 DEF hpack_decode
<1>8. PICK s : s = Settle(ctx, sz)
  OBVIOUS
<1>9. /\ DecoderHealthy(done.hp) /\ done.hp.magic = "DECODER"
      /\ done.hp = HPT_adjust(s, s.len) /\ TableOnly(done.hp, s)
      /\ done.ret = done.hp.res /\ done.fld = NoField /\ s \in Codec
  BY <1>4, <1>5, <1>6, <1>7, <1>8, UpdateDecoder
<1> QED
  BY <1>1, <1>8, <1>9

\* The first of two updates: the smallest maximum comes, the last is awaited.
LEMMA ReadsLowest ==
    ASSUME NEW a, a.at # "body", NEW sz \in Nat, a.min = sz, sz < a.nxt,
           sz <= a.max,
           NEW x \in Codec, x.tbl = a.tbl, x.len = a.len,
           HPACK_LIMIT(x) = sz, x.lim <= x.max,
           NEW y, y = HPT_adjust(x, x.len),
           NEW b, b = [tbl |-> y.tbl, len |-> y.len, lim |-> sz,
                       max |-> a.max, nxt |-> a.nxt, min |-> a.nxt,
                       at |-> "head"]
    PROVE  Reads(a, UpdateRep(sz), b)
<1> SUFFICES ASSUME NEW d, DecoderHealthy(d), d.magic = "DECODER",
                    View(d) = a,
                    NEW done, done = hpack_decode(d, UpdateRep(sz))
             PROVE  /\ done.hp.magic = "DECODER" /\ View(done.hp) = b
                    /\ done.fld = NoField /\ done.ret = "BLK"
  BY DEF Reads, UpdateRep
<1>1. /\ d.tbl = a.tbl /\ d.len = a.len /\ HPACK_LIMIT(d) = a.lim
      /\ d.max = a.max /\ d.nxt = a.nxt /\ d.min = a.min
      /\ a.at = Stage(d)
  BY ViewSays
<1>2. d \in Codec /\ d.lim <= d.max
  BY DEF DecoderHealthy, Healthy
<1>3. PICK n \in Nat : n = d.nxt /\ sz < n
  BY <1>1, <1>2 DEF Codec
<1>4. ExpectedUpdate(d, sz)
  BY <1>1, <1>3 DEF ExpectedUpdate
<1>5. sz <= SettledMax(d)
  BY <1>1, <1>3 DEF SettledMax
<1>6. PICK s \in Codec :
         /\ s = Settle([d EXCEPT !.res = "BLK", !.upd = TRUE], sz)
         /\ done.hp = HPT_adjust(s, s.len) /\ TableOnly(done.hp, s)
         /\ done.hp.magic = "DECODER" /\ DecoderHealthy(done.hp)
         /\ done.ret = done.hp.res /\ done.fld = NoField
  BY <1>1, <1>4, <1>5, UpdateTaken
<1>7. PICK ctx : ctx = [d EXCEPT !.res = "BLK", !.upd = TRUE]
  OBVIOUS
<1>8. ctx \in Codec /\ ctx.min = sz /\ ctx.nxt = n
  BY <1>1, <1>2, <1>3, <1>7 DEF Codec, Results
<1>9. s = [ctx EXCEPT !.min = n, !.lim = sz]
  <2>1. ctx.min >= 0 /\ ctx.min < ctx.nxt
    BY <1>3, <1>8
  <2> QED
    BY <1>6, <1>7, <1>8, <2>1 DEF Settle
<1>10. /\ s.tbl = a.tbl /\ s.len = a.len /\ s.lim = sz /\ s.max = a.max
      /\ s.nxt = n /\ s.min = n /\ s.res = "BLK" /\ s.upd = TRUE
  BY <1>1, <1>2, <1>3, <1>7, <1>8, <1>9 DEF Codec
<1>11. PICK r : r = done.hp
  OBVIOUS
<1>12. r.tbl = y.tbl /\ r.len = y.len
  <2>1. HPACK_LIMIT(s) = sz /\ s.lim <= s.max
    BY <1>10 DEF HPACK_LIMIT
  <2>2. Alike(x, s)
    BY <1>10, <2>1 DEF Alike
  <2>3. x.len = s.len /\ x.len \in Int
    BY <1>10 DEF Codec
  <2>4. r = HPT_adjust(s, x.len)
    BY <1>6, <1>11, <2>3, Zenon
  <2> QED
    BY <2>1, <2>2, <2>3, <2>4, AdjustAlike
<1>13. /\ r.lim = sz /\ r.max = a.max /\ r.nxt = n /\ r.min = n
       /\ r.res = "BLK" /\ r.upd = TRUE
  BY <1>6, <1>10, <1>11, TableOnlySame
<1>14. HPACK_LIMIT(r) = sz /\ Stage(r) = "head"
  BY <1>13 DEF HPACK_LIMIT, Stage
<1>15. View(r) = b
  BY <1>1, <1>3, <1>12, <1>13, <1>14 DEF View
<1> QED
  BY <1>6, <1>11, <1>13, <1>15

\* The last update of a block, for the last maximum announced or for a limit
\* below it: nothing else is awaited.
LEMMA ReadsLast ==
    ASSUME NEW a, a.at # "body", NEW sz \in Nat,
           NEW max \in Nat, sz <= max,
           \/ a.min < 0 /\ a.max = max
           \/ a.min = max /\ a.nxt = max,
           NEW x \in Codec, x.tbl = a.tbl, x.len = a.len,
           HPACK_LIMIT(x) = sz, x.lim <= x.max,
           NEW y, y = HPT_adjust(x, x.len),
           NEW b, b = [tbl |-> y.tbl, len |-> y.len, lim |-> sz,
                       max |-> max, nxt |-> -1, min |-> -1,
                       at |-> "body"]
    PROVE  Reads(a, UpdateRep(sz), b)
<1> SUFFICES ASSUME NEW d, DecoderHealthy(d), d.magic = "DECODER",
                    View(d) = a,
                    NEW done, done = hpack_decode(d, UpdateRep(sz))
             PROVE  /\ done.hp.magic = "DECODER" /\ View(done.hp) = b
                    /\ done.fld = NoField /\ done.ret = "BLK"
  BY DEF Reads, UpdateRep
<1>1. /\ d.tbl = a.tbl /\ d.len = a.len /\ HPACK_LIMIT(d) = a.lim
      /\ d.max = a.max /\ d.nxt = a.nxt /\ d.min = a.min
      /\ a.at = Stage(d)
  BY ViewSays
<1>2. d \in Codec /\ d.lim <= d.max
  BY DEF DecoderHealthy, Healthy
<1>3. SettledMax(d) = max
  BY <1>1, <1>2 DEF SettledMax, Codec
<1>4. ExpectedUpdate(d, sz)
  BY <1>1, <1>2 DEF ExpectedUpdate, Codec
<1>5. ~(d.min >= 0 /\ d.min < d.nxt)
  BY <1>1, <1>2 DEF Codec
<1>6. PICK s \in Codec :
         /\ s = Settle([d EXCEPT !.res = "BLK", !.upd = TRUE], sz)
         /\ done.hp = HPT_adjust(s, s.len) /\ TableOnly(done.hp, s)
         /\ done.hp.magic = "DECODER" /\ DecoderHealthy(done.hp)
         /\ done.ret = done.hp.res /\ done.fld = NoField
  <2>1. sz <= SettledMax(d) /\ Stage(d) # "body"
    BY <1>1, <1>3
  <2> QED
    BY <1>4, <2>1, UpdateTaken
<1>7. PICK ctx : ctx = [d EXCEPT !.res = "BLK", !.upd = TRUE]
  OBVIOUS
<1>8. ctx \in Codec /\ ctx.min = d.min /\ ctx.nxt = d.nxt /\ ctx.max = d.max
  BY <1>2, <1>7 DEF Codec, Results
<1>9. s = [ctx EXCEPT !.max = max, !.lim = sz,
                      !.min = -1, !.nxt = -1, !.upd = FALSE]
  <2>1. ~(ctx.min >= 0 /\ ctx.min < ctx.nxt)
    BY <1>5, <1>8
  <2>2. SettledMax(ctx) = max
    BY <1>3, <1>8 DEF SettledMax
  <2> QED
    BY <1>6, <1>7, <1>8, <2>1, <2>2, Zenon DEF Settle
<1>10. /\ s.tbl = a.tbl /\ s.len = a.len /\ s.lim = sz /\ s.max = max
      /\ s.nxt = -1 /\ s.min = -1 /\ s.res = "BLK" /\ s.upd = FALSE
  BY <1>1, <1>2, <1>7, <1>8, <1>9 DEF Codec
<1>11. PICK r : r = done.hp
  OBVIOUS
<1>12. r.tbl = y.tbl /\ r.len = y.len
  <2>1. HPACK_LIMIT(s) = sz /\ s.lim <= s.max
    BY <1>10 DEF HPACK_LIMIT
  <2>2. Alike(x, s)
    BY <1>10, <2>1 DEF Alike
  <2>3. x.len = s.len /\ x.len \in Int
    BY <1>10 DEF Codec
  <2>4. r = HPT_adjust(s, x.len)
    BY <1>6, <1>11, <2>3, Zenon
  <2> QED
    BY <2>1, <2>2, <2>3, <2>4, AdjustAlike
<1>13. /\ r.lim = sz /\ r.max = max /\ r.nxt = -1 /\ r.min = -1
       /\ r.res = "BLK" /\ r.upd = FALSE
  BY <1>6, <1>10, <1>11, TableOnlySame
<1>14. HPACK_LIMIT(r) = sz /\ Stage(r) = "body"
  BY <1>13 DEF HPACK_LIMIT, Stage
<1>15. View(r) = b
  BY <1>12, <1>13, <1>14 DEF View
<1> QED
  BY <1>6, <1>11, <1>13, <1>15
-----------------------------------------------------------------------------
(***************************************************************************)
(* The head of a block at the encoder.                                     *)
(***************************************************************************)

\* The encoder while it writes table updates, and the decoder that has read
\* the ones written: only the maximum may differ, until the last update.
Abreast(hp, a) ==
    /\ hp.tbl = a.tbl /\ hp.len = a.len /\ HPACK_LIMIT(hp) = a.lim
    /\ hp.nxt = a.nxt /\ hp.min = a.min
    /\ hp.min < 0 => hp.max = a.max
    /\ hp.upd => a.at # "body"
    /\ ~hp.upd => hp.nxt < 0

\* The smallest maximum, if it is signalled, is one the decoder expects.
LEMMA LowestLeads ==
    ASSUME NEW hp, InHead(hp), NEW a, Abreast(hp, a), hp.max = a.max,
           hp.min >= 0 => hp.min <= hp.max \/ hp.min = hp.nxt,
           NEW e, e = EncodeLowest(hp)
    PROVE  /\ \E b : Leads(e.out, a, b) /\ Abreast(e.hp, b)
           /\ e.hp.min < 0 \/ e.hp.min = e.hp.nxt
<1>1. /\ hp \in Codec /\ LaidOut(hp) /\ Ordered(hp) /\ hp.magic = "ENCODER"
      /\ SizesAgree(hp) /\ Healthy(hp)
  BY DEF InHead, Healthy, Sound
<1>2. /\ hp.tbl = a.tbl /\ hp.len = a.len /\ HPACK_LIMIT(hp) = a.lim
      /\ hp.nxt = a.nxt /\ hp.min = a.min
  BY DEF Abreast
<1>3. CASE hp.upd /\ hp.min >= 0 /\ hp.min < hp.nxt
  <2>1. PICK n \in Nat : n = hp.min
    BY <1>1, <1>3 DEF Codec
  <2>2. PICK x \in Nat : x = hp.nxt /\ n < x
    BY <1>1, <1>3, <2>1 DEF Codec
  <2>3. hp.lim = -1 /\ n <= a.max /\ a.at # "body"
    BY <1>1, <1>3, <2>1, <2>2 DEF SizesAgree, Codec, Abreast
  <2>4. PICK low : low = [hp EXCEPT !.max = n]
    OBVIOUS
  <2>5. low \in Codec /\ LaidOut(low) /\ Ordered(low) /\ low.max = n
        /\ low.magic = "ENCODER" /\ low.lim = -1
        /\ low.tbl = hp.tbl /\ low.len = hp.len /\ low.nxt = x
        /\ low.upd = TRUE /\ low.min = n
    BY <1>1, <1>3, <2>1, <2>2, <2>3, <2>4 DEF Codec, LaidOut, Ordered
  <2>6. PICK y : y = HPT_adjust(low, low.len)
    OBVIOUS
  <2>7. /\ y \in Codec /\ y.max = n /\ y.lim = -1 /\ y.nxt = x
        /\ y.upd = TRUE
    <3>1. low.lim <= low.max
      BY <2>5
    <3> QED
      BY <2>5, <2>6, <3>1, AdjustEncoder
  <2>8. PICK r : r = [y EXCEPT !.min = x]
    OBVIOUS
  <2>9. e = [hp |-> r, out |-> <<UpdateRep(n)>>]
    BY <1>3, <2>1, <2>2, <2>4, <2>6, <2>8, Zenon DEF EncodeLowest
  <2>10. PICK b : b = [tbl |-> y.tbl, len |-> y.len, lim |-> n,
                       max |-> a.max, nxt |-> a.nxt, min |-> a.nxt,
                       at |-> "head"]
    OBVIOUS
  <2>11. Reads(a, UpdateRep(n), b)
    <3>1. HPACK_LIMIT(low) = n /\ low.lim <= low.max
      BY <2>5 DEF HPACK_LIMIT
    <3>2. low.tbl = a.tbl /\ low.len = a.len /\ a.min = n /\ n < a.nxt
      BY <1>2, <2>1, <2>2, <2>5
    <3> QED
      BY <2>3, <2>5, <2>6, <2>10, <3>1, <3>2, ReadsLowest
  <2>12. Leads(<<UpdateRep(n)>>, a, b)
    <3>1. UpdateRep(n).typ # "ACK"
      BY DEF UpdateRep
    <3> QED
      BY <2>11, <3>1, LeadsBy DEF Step
  <2>13. /\ r.tbl = y.tbl /\ r.len = y.len /\ r.max = n /\ r.lim = -1
         /\ r.nxt = x /\ r.min = x /\ r.upd = TRUE
    BY <2>7, <2>8 DEF Codec
  <2>14. HPACK_LIMIT(r) = n
    BY <2>13 DEF HPACK_LIMIT
  <2>15. Abreast(r, b)
    BY <1>2, <2>2, <2>10, <2>13, <2>14 DEF Abreast
  <2> QED
    BY <2>9, <2>12, <2>13, <2>15
<1>4. CASE ~(hp.upd /\ hp.min >= 0 /\ hp.min < hp.nxt)
  <2>1. e.hp = hp /\ e.out = <<>>
    BY <1>4 DEF EncodeLowest
  <2>2. Leads(e.out, a, a)
    BY <2>1, LeadsNowhere
  <2>3. hp.min < 0 \/ hp.min = hp.nxt
    BY <1>1, <1>4 DEF Ordered, Codec, Abreast
  <2> QED
    BY <2>1, <2>2, <2>3
<1> QED
  BY <1>3, <1>4

\* The last maximum, if it is signalled, ends what the decoder waits for.
LEMMA MaximumLeads ==
    ASSUME NEW hp, InHead(hp), NEW a, Abreast(hp, a),
           hp.min < 0 \/ hp.min = hp.nxt,
           NEW e, e = EncodeMaximum(hp)
    PROVE  \E b : Leads(e.out, a, b) /\ Abreast(e.hp, b) /\ e.hp.nxt < 0
<1>1. /\ hp \in Codec /\ LaidOut(hp) /\ Ordered(hp) /\ hp.magic = "ENCODER"
      /\ SizesAgree(hp) /\ Healthy(hp)
  BY DEF InHead, Healthy, Sound
<1>2. /\ hp.tbl = a.tbl /\ hp.len = a.len /\ HPACK_LIMIT(hp) = a.lim
      /\ hp.nxt = a.nxt /\ hp.min = a.min
  BY DEF Abreast
<1>3. CASE hp.upd /\ hp.min >= 0
  <2>1. PICK n \in Nat : n = hp.nxt /\ n = hp.min
    BY <1>1, <1>3 DEF Codec
  <2>2. hp.lim = -1 /\ a.at # "body"
    BY <1>1, <1>3, <2>1 DEF SizesAgree, Codec, Abreast
  <2>3. hpack_cap(hp, n) = [ret |-> n, lim |-> -1]
    BY <1>1, <2>1, <2>2 DEF hpack_cap, SizesAgree, Codec
  <2>4. PICK l \in Nat \cup {-1} : l = -1
    OBVIOUS
  <2>5. PICK top : top = [hp EXCEPT !.max = n, !.lim = l]
    OBVIOUS
  <2>6. top \in Codec /\ LaidOut(top) /\ Ordered(top) /\ top.max = n
        /\ top.magic = "ENCODER" /\ top.lim = -1
        /\ top.tbl = hp.tbl /\ top.len = hp.len
    BY <1>1, <2>4, <2>5 DEF Codec, LaidOut, Ordered
  <2>7. PICK y : y = HPT_adjust(top, top.len)
    OBVIOUS
  <2>8. y \in Codec /\ y.max = n /\ y.lim = -1
    <3>1. top.lim <= top.max
      BY <2>6
    <3> QED
      BY <2>6, <2>7, <3>1, AdjustEncoder
  <2>9. PICK r : r = [y EXCEPT !.min = -1, !.nxt = -1, !.upd = FALSE]
    OBVIOUS
  <2>10. e = [hp |-> r, out |-> <<UpdateRep(n)>>]
    <3>1. PICK c : c = hpack_cap(hp, n)
      OBVIOUS
    <3>2. c.lim = l /\ c.ret = n
      BY <2>3, <2>4, <3>1
    <3> QED
      BY <1>3, <2>1, <2>5, <2>7, <2>9, <3>1, <3>2, Zenon DEF EncodeMaximum
  <2>11. PICK b : b = [tbl |-> y.tbl, len |-> y.len, lim |-> n,
                       max |-> n, nxt |-> -1, min |-> -1, at |-> "body"]
    OBVIOUS
  <2>12. Reads(a, UpdateRep(n), b)
    <3>1. HPACK_LIMIT(top) = n /\ top.lim <= top.max
      BY <2>6 DEF HPACK_LIMIT
    <3>2. top.tbl = a.tbl /\ top.len = a.len /\ a.min = n /\ a.nxt = n
      BY <1>2, <2>1, <2>6
    <3>3. n <= n
      OBVIOUS
    <3> QED
      BY <2>2, <2>6, <2>7, <2>11, <3>1, <3>2, <3>3, ReadsLast
  <2>13. Leads(<<UpdateRep(n)>>, a, b)
    <3>1. UpdateRep(n).typ # "ACK"
      BY DEF UpdateRep
    <3> QED
      BY <2>12, <3>1, LeadsBy DEF Step
  <2>14. /\ r.tbl = y.tbl /\ r.len = y.len /\ r.max = n /\ r.lim = -1
         /\ r.nxt = -1 /\ r.min = -1 /\ r.upd = FALSE
    BY <2>8, <2>9 DEF Codec
  <2>15. HPACK_LIMIT(r) = n
    BY <2>14 DEF HPACK_LIMIT
  <2>16. Abreast(r, b)
    BY <2>11, <2>14, <2>15 DEF Abreast
  <2> QED
    BY <2>10, <2>13, <2>14, <2>16
<1>4. CASE ~(hp.upd /\ hp.min >= 0)
  <2>1. e.hp = hp /\ e.out = <<>>
    BY <1>4 DEF EncodeMaximum
  <2>2. Leads(e.out, a, a)
    BY <2>1, LeadsNowhere
  <2>3. hp.nxt < 0
    BY <1>1, <1>4 DEF Ordered, Codec, Abreast
  <2> QED
    BY <2>1, <2>2, <2>3
<1> QED
  BY <1>3, <1>4

\* Nothing is left to signal, at either end.
Level(hp, a) ==
    /\ hp.tbl = a.tbl /\ hp.len = a.len /\ HPACK_LIMIT(hp) = a.lim
    /\ hp.max = a.max
    /\ hp.nxt = -1 /\ hp.min = -1 /\ a.nxt = -1 /\ a.min = -1

\* A limit signalled on its own is below the maximum in force.
LEMMA SoftLimitLeads ==
    ASSUME NEW hp, InHead(hp), NEW a, Abreast(hp, a), hp.nxt < 0,
           NEW e, e = EncodeLimit(hp)
    PROVE  \E b : Leads(e.out, a, b) /\ Level(e.hp, b)
<1>1. /\ hp \in Codec /\ LaidOut(hp) /\ Ordered(hp) /\ hp.magic = "ENCODER"
      /\ SizesAgree(hp) /\ Healthy(hp)
  BY DEF InHead, Healthy, Sound
<1>2. /\ hp.tbl = a.tbl /\ hp.len = a.len /\ HPACK_LIMIT(hp) = a.lim
      /\ hp.nxt = a.nxt /\ hp.min = a.min
  BY DEF Abreast
<1>3. hp.nxt = -1 /\ hp.min = -1 /\ hp.max = a.max
  BY <1>1 DEF Ordered, Codec, Abreast
<1>4. hp.cap >= 0 => hp.lim = -1
  BY <1>1 DEF SizesAgree, Codec
<1>5. CASE hp.upd /\ hp.cap >= 0 /\ ~(hp.cap >= hp.max)
  <2>1. PICK n \in Nat : n = hp.cap
    BY <1>1, <1>5 DEF Codec
  <2>2. PICK x \in Nat : x = hp.max /\ n <= x
    BY <1>1, <1>5, <2>1 DEF Codec
  <2>3. PICK soft : soft = [hp EXCEPT !.lim = n]
    OBVIOUS
  <2>4. soft \in Codec /\ LaidOut(soft) /\ Ordered(soft) /\ soft.max = x
        /\ soft.magic = "ENCODER" /\ soft.lim = n
        /\ soft.tbl = hp.tbl /\ soft.len = hp.len
        /\ soft.nxt = -1 /\ soft.min = -1
    BY <1>1, <1>3, <2>2, <2>3 DEF Codec, LaidOut, Ordered
  <2>5. PICK y : y = HPT_adjust(soft, soft.len)
    OBVIOUS
  <2>6. y \in Codec /\ y.max = x /\ y.lim = n /\ y.nxt = -1 /\ y.min = -1
    <3>1. soft.lim <= soft.max
      BY <2>2, <2>4
    <3> QED
      BY <2>4, <2>5, <3>1, AdjustEncoder
  <2>7. PICK r : r = [y EXCEPT !.cap = -1]
    OBVIOUS
  <2>8. e = [hp |-> r, out |-> <<UpdateRep(n)>>]
    BY <1>4, <1>5, <2>1, <2>3, <2>5, <2>7, Zenon DEF EncodeLimit
  <2>9. PICK b : b = [tbl |-> y.tbl, len |-> y.len, lim |-> n,
                      max |-> x, nxt |-> -1, min |-> -1, at |-> "body"]
    OBVIOUS
  <2>10. Reads(a, UpdateRep(n), b)
    <3>1. HPACK_LIMIT(soft) = n /\ soft.lim <= soft.max
      BY <2>2, <2>4 DEF HPACK_LIMIT
    <3>2. soft.tbl = a.tbl /\ soft.len = a.len /\ a.min < 0 /\ a.max = x
      BY <1>2, <1>3, <2>2, <2>4
    <3>3. a.at # "body"
      BY <1>5 DEF Abreast
    <3> QED
      BY <2>2, <2>4, <2>5, <2>9, <3>1, <3>2, <3>3, ReadsLast
  <2>11. Leads(<<UpdateRep(n)>>, a, b)
    <3>1. UpdateRep(n).typ # "ACK"
      BY DEF UpdateRep
    <3> QED
      BY <2>10, <3>1, LeadsBy DEF Step
  <2>12. /\ r.tbl = y.tbl /\ r.len = y.len /\ r.max = x /\ r.lim = n
         /\ r.nxt = -1 /\ r.min = -1
    BY <2>6, <2>7 DEF Codec
  <2>13. HPACK_LIMIT(r) = n
    BY <2>12 DEF HPACK_LIMIT
  <2>14. Level(r, b)
    BY <2>9, <2>12, <2>13 DEF Level
  <2> QED
    BY <2>8, <2>11, <2>14
<1>6. CASE ~(hp.upd /\ hp.cap >= 0 /\ ~(hp.cap >= hp.max))
  <2>1. e = [hp |-> hp, out |-> <<>>]
    BY <1>4, <1>6, Zenon DEF EncodeLimit
  <2>2. Leads(e.out, a, a)
    BY <2>1, LeadsNowhere
  <2>3. Level(hp, a)
    BY <1>2, <1>3 DEF Level
  <2> QED
    BY <2>1, <2>2, <2>3
<1> QED
  BY <1>5, <1>6

(***************************************************************************)
(* The names in a table are those its fields came with.                    *)
(***************************************************************************)
Accepted(hp) == \A i \in DOMAIN hp.tbl : hp.tbl[i].fld.nam \notin BadName

\* Eviction keeps the names of the table accepted.
LEMMA AdjustAccepted ==
    ASSUME NEW hp \in Codec, Accepted(hp), NEW need \in Int,
           NEW r, r = HPT_adjust(hp, need)
    PROVE  Accepted(r)
<1>1. CASE r = Abort(hp)
  BY <1>1 DEF Abort, Accepted, Codec
<1>2. CASE r = Evict(hp, Kept(hp, need))
  <2>1. PICK k \in 0..Len(hp.tbl) : k = Kept(hp, need)
    BY KeptType
  <2>2. PICK l : l = hp.len - (EndOf(hp.tbl, Len(hp.tbl)) - EndOf(hp.tbl, k))
    OBVIOUS
  <2>3. r = [hp EXCEPT !.tbl = SubSeq(hp.tbl, 1, k), !.len = l]
    BY <1>2, <2>1, <2>2 DEF Evict
  <2>4. r.tbl = SubSeq(hp.tbl, 1, k) /\ hp.tbl \in Seq(Entry)
    BY <2>3 DEF Codec
  <2>5. \A i \in DOMAIN r.tbl : i \in DOMAIN hp.tbl /\ r.tbl[i] = hp.tbl[i]
    BY <2>4
  <2> QED
    BY <2>5 DEF Accepted
<1> QED
  BY <1>1, <1>2 DEF HPT_adjust

\* So does the insertion of a field whose name is accepted.
LEMMA IndexAccepted ==
    ASSUME NEW hp \in Codec, LaidOut(hp), Accepted(hp), NEW fld \in Field,
           fld.nam \notin BadName, NEW r, r = HPT_index(hp, fld)
    PROVE  Accepted(r)
<1>1. PICK need \in Int : need = hp.len + SizeOf(fld) /\ hp.len <= need
  BY SizeOfType DEF Codec
<1>2. PICK f : f = HPT_adjust(hp, need)
  OBVIOUS
<1>3. f \in Codec /\ Accepted(f)
  BY <1>1, <1>2, AdjustSound, AdjustAccepted
<1>4. CASE r = Abort(hp)
  BY <1>4 DEF Abort, Accepted, Codec
<1>5. CASE r = f
  BY <1>3, <1>5
<1>6. CASE r = Insert(f, fld)
  <2>1. PICK size \in Nat : size = SizeOf(fld)
    BY SizeOfType
  <2> DEFINE n == Len(f.tbl)
             new == [fld |-> fld, pos |-> 0]
             moved == [i \in DOMAIN f.tbl |-> [f.tbl[i] EXCEPT !.pos = @ + size]]
  <2>2. f.tbl \in Seq(Entry) /\ n \in Nat
    BY <1>3 DEF Codec
  <2>3. /\ moved \in Seq(Entry) /\ Len(moved) = n
        /\ \A i \in 1..n : moved[i].fld = f.tbl[i].fld
    <3>1. DOMAIN f.tbl = 1..n /\ \A i \in 1..n : f.tbl[i] \in Entry
      BY <2>2
    <3>2. \A i \in 1..n : [f.tbl[i] EXCEPT !.pos = @ + size] \in Entry
      BY <2>1, <3>1 DEF Entry
    <3>3. moved \in Seq(Entry) /\ Len(moved) = n
      BY <2>2, <3>1, <3>2
    <3> QED
      BY <3>1, <3>3 DEF Entry
  <2>4. new \in Entry
    BY DEF Entry
  <2>5. r.tbl = <<new>> \o moved
    BY <1>3, <1>6, <2>1 DEF Insert, Codec
  <2> HIDE DEF moved, new
  <2>6. /\ r.tbl \in Seq(Entry) /\ Len(r.tbl) = n + 1 /\ r.tbl[1] = new
        /\ \A i \in 1..n : r.tbl[i + 1] = moved[i]
    BY <2>2, <2>3, <2>4, <2>5
  <2> SUFFICES ASSUME NEW i \in DOMAIN r.tbl
               PROVE  r.tbl[i].fld.nam \notin BadName
    BY DEF Accepted
  <2>7. i \in 1..(n + 1)
    BY <2>6
  <2>8. CASE i = 1
    BY <2>6, <2>8 DEF new
  <2>9. CASE i # 1
    <3>1. PICK j \in 1..n : i = j + 1
      <4>1. i - 1 \in 1..n /\ (i - 1) + 1 = i
        BY <2>2, <2>7, <2>9
      <4> QED
        BY <4>1
    <3>2. r.tbl[i].fld = f.tbl[j].fld /\ j \in DOMAIN f.tbl
      BY <2>2, <2>3, <2>6, <3>1
    <3> QED
      BY <1>3, <3>2 DEF Accepted
  <2> QED
    BY <2>8, <2>9
<1> QED
  BY <1>1, <1>2, <1>4, <1>5, <1>6, Zenon DEF HPT_index

\* The updates at the head of a block only evict.
LEMMA UpdatesAccepted ==
    ASSUME NEW hp, Healthy(hp), Accepted(hp)
    PROVE  /\ Accepted(EncodeLowest(hp).hp)
           /\ Accepted(EncodeMaximum(hp).hp)
           /\ Accepted(EncodeLimit(hp).hp)
<1>1. hp \in Codec
  BY DEF Healthy
<1>2. ASSUME NEW max \in Nat, NEW lim \in Nat \cup {-1},
             NEW x, x = [hp EXCEPT !.max = max, !.lim = lim],
             NEW y, y = HPT_adjust(x, x.len)
      PROVE  y \in Codec /\ Accepted(y)
  <2>1. x \in Codec /\ LaidOut(x) /\ x.len \in Int /\ x.tbl = hp.tbl
    BY <1>1, <1>2 DEF Codec, LaidOut, Healthy, Sound
  <2>2. Accepted(x)
    BY <2>1 DEF Accepted
  <2>3. x.len <= x.len
    BY <2>1
  <2> QED
    BY <1>2, <2>1, <2>2, <2>3, AdjustAccepted, AdjustSound, Zenon
<1>3. Accepted(EncodeLowest(hp).hp)
  <2>1. CASE hp.upd /\ hp.min >= 0 /\ hp.min < hp.nxt
    <3>1. PICK l \in Nat \cup {-1} : l = hp.lim
      BY <1>1 DEF Codec
    <3>2. PICK n \in Nat : n = hp.min
      BY <1>1, <2>1 DEF Codec
    <3>3. PICK x : x = [hp EXCEPT !.max = n]
      OBVIOUS
    <3>4. x = [hp EXCEPT !.max = n, !.lim = l]
      BY <1>1, <3>1, <3>3 DEF Codec
    <3>5. PICK y : y = HPT_adjust(x, x.len)
      OBVIOUS
    <3>6. y \in Codec /\ Accepted(y)
      BY <1>2, <3>4, <3>5
    <3>7. EncodeLowest(hp).hp = [y EXCEPT !.min = hp.nxt]
      BY <2>1, <3>2, <3>3, <3>5 DEF EncodeLowest
    <3>8. EncodeLowest(hp).hp.tbl = y.tbl
      BY <3>6, <3>7 DEF Codec
    <3> QED
      BY <3>6, <3>8 DEF Accepted
  <2>2. CASE ~(hp.upd /\ hp.min >= 0 /\ hp.min < hp.nxt)
    BY <2>2 DEF EncodeLowest
  <2> QED
    BY <2>1, <2>2
<1>4. Accepted(EncodeMaximum(hp).hp)
  <2>1. CASE hp.upd /\ hp.min >= 0
    <3>1. PICK n \in Nat : n = hp.nxt
      BY <1>1, <2>1 DEF Healthy, Ordered, Codec
    <3>2. PICK c : c = hpack_cap(hp, n)
      OBVIOUS
    <3>3. PICK l \in Nat \cup {-1} : l = c.lim
      BY <1>1, <3>2, CapType
    <3>4. PICK x : x = [hp EXCEPT !.max = n, !.lim = l]
      OBVIOUS
    <3>5. PICK y : y = HPT_adjust(x, x.len)
      OBVIOUS
    <3>6. y \in Codec /\ Accepted(y)
      BY <1>2, <3>4, <3>5
    <3>7. EncodeMaximum(hp).hp
            = [y EXCEPT !.min = -1, !.nxt = -1, !.upd = FALSE]
      BY <2>1, <3>1, <3>2, <3>3, <3>4, <3>5 DEF EncodeMaximum
    <3>8. EncodeMaximum(hp).hp.tbl = y.tbl
      BY <3>6, <3>7 DEF Codec
    <3> QED
      BY <3>6, <3>8 DEF Accepted
  <2>2. CASE ~(hp.upd /\ hp.min >= 0)
    BY <2>2 DEF EncodeMaximum
  <2> QED
    BY <2>1, <2>2
<1>5. Accepted(EncodeLimit(hp).hp)
  <2>1. CASE EncodeLimit(hp).hp = hp
    BY <2>1
  <2>2. CASE EncodeLimit(hp).hp = Abort(hp)
    BY <1>1, <2>2 DEF Abort, Accepted, Codec
  <2>3. CASE EncodeLimit(hp).hp # hp /\ EncodeLimit(hp).hp # Abort(hp)
    <3>1. PICK n \in Nat : n = hp.cap
      BY <1>1, <2>3 DEF EncodeLimit, Codec
    <3>2. PICK m \in Nat : m = hp.max
      BY <1>1 DEF Codec
    <3>3. PICK x : x = [hp EXCEPT !.lim = n]
      OBVIOUS
    <3>4. x = [hp EXCEPT !.max = m, !.lim = n]
      BY <1>1, <3>2, <3>3 DEF Codec
    <3>5. PICK y : y = HPT_adjust(x, x.len)
      OBVIOUS
    <3>6. y \in Codec /\ Accepted(y)
      BY <1>2, <3>4, <3>5
    <3>7. EncodeLimit(hp).hp = [y EXCEPT !.cap = -1]
      BY <2>3, <3>1, <3>3, <3>5 DEF EncodeLimit
    <3>8. EncodeLimit(hp).hp.tbl = y.tbl
      BY <3>6, <3>7 DEF Codec
    <3> QED
      BY <3>6, <3>8 DEF Accepted
  <2> QED
    BY <2>1, <2>2, <2>3
<1> QED
  BY <1>3, <1>4, <1>5

\* Whatever the head of a block signals, the decoder takes, and is then level
\* with the encoder.
LEMMA HeadLeads ==
    ASSUME NEW hp, EncoderHealthy(hp), EncoderPrompt(hp),
           hp.magic = "ENCODER", NEW a, Mirror(hp, a),
           NEW h, h = EncodeHead(hp)
    PROVE  /\ \E b : Leads(h.out, a, b) /\ Level(h.hp, b)
           /\ Accepted(h.hp) /\ ~h.hp.upd
<1>1. EncoderReady(hp) /\ hp \in Codec /\ Healthy(hp)
  BY HealthyReady DEF EncoderHealthy
<1>2. hp.self /\ hp.res \in {"OK", "BLK"} /\ SizesAgree(hp)
  BY <1>1 DEF EncoderReady
<1>3. PICK x : x = BeginEncode(hp)
  OBVIOUS
<1>4. /\ InHead(x) /\ Accepted(x) /\ Abreast(x, a) /\ x.max = a.max
      /\ x.min >= 0 => x.min <= x.max \/ x.min = x.nxt
  <2>1. /\ hp.tbl = a.tbl /\ hp.len = a.len /\ HPACK_LIMIT(hp) = a.lim
        /\ hp.max = a.max /\ hp.nxt = a.nxt /\ hp.min = a.min
        /\ hp.res = "OK" <=> a.at = "none"
    BY DEF Mirror
  <2>2. /\ hp.res = "BLK" => hp.nxt < 0 /\ ~hp.upd
        /\ hp.min >= 0 => hp.min <= hp.max \/ hp.min = hp.nxt
        /\ Accepted(hp)
    BY DEF EncoderPrompt, Accepted
  <2>3. CASE hp.res = "BLK"
    <3>1. x = hp
      BY <1>2, <1>3, <2>3, Zenon DEF BeginEncode
    <3>2. HPACK_LIMIT(hp) <= hp.mem
      BY <1>1, <2>3 DEF EncoderReady, LimitWaits
    <3>3. InHead(x)
      BY <1>1, <1>2, <2>3, <3>1, <3>2 DEF InHead, EncoderReady
    <3>4. Abreast(x, a)
      BY <2>1, <2>2, <2>3, <3>1, Zenon DEF Abreast
    <3> QED
      BY <2>1, <2>2, <3>1, <3>3, <3>4
  <2>4. CASE hp.res = "OK"
    <3>1. x = [hp EXCEPT !.res = "BLK", !.upd = TRUE]
      BY <1>2, <1>3, <2>4, Zenon DEF BeginEncode
    <3>2. Healthy(x)
      BY <1>1, <3>1, ContextHealthy DEF Results
    <3>3. /\ x.magic = "ENCODER" /\ x.realloc = hp.realloc /\ x.mem = hp.mem
          /\ x.max = hp.max /\ x.lim = hp.lim /\ x.cap = hp.cap
          /\ x.nxt = hp.nxt /\ x.self /\ x.res = "BLK" /\ x.upd
          /\ x.min = hp.min /\ x.tbl = hp.tbl /\ x.len = hp.len
      BY <1>1, <1>2, <3>1 DEF Codec, EncoderReady
    <3>4. SizesAgree(x)
      BY <1>2, <3>3, Zenon DEF SizesAgree
    <3>5. HPACK_LIMIT(x) = HPACK_LIMIT(hp)
      BY <3>3, Zenon DEF HPACK_LIMIT
    <3>6. HPACK_LIMIT(hp) <= hp.mem \/ LimitWaits(hp)
      BY <1>1 DEF EncoderReady
    <3>7. InHead(x)
      BY <3>2, <3>3, <3>4, <3>5, <3>6, Zenon DEF InHead, LimitWaits
    <3>8. a.at # "body"
      BY <2>1, <2>4
    <3>9. Abreast(x, a)
      BY <2>1, <3>3, <3>5, <3>8, Zenon DEF Abreast
    <3>10. Accepted(x)
      BY <2>2, <3>3 DEF Accepted
    <3> QED
      BY <2>1, <2>2, <3>3, <3>7, <3>9, <3>10
  <2> QED
    BY <1>2, <2>3, <2>4
<1>5. PICK low : low = EncodeLowest(x)
  OBVIOUS
<1>6. PICK b : Leads(low.out, a, b) /\ Abreast(low.hp, b)
  BY <1>4, <1>5, LowestLeads
<1>7. /\ InHead(low.hp) /\ Accepted(low.hp)
      /\ low.hp.min < 0 \/ low.hp.min = low.hp.nxt
      /\ low.out \in Seq(UpdateReps)
  <2>1. Healthy(x)
    BY <1>4 DEF InHead
  <2>2. low.hp.min < 0 \/ low.hp.min = low.hp.nxt
    BY <1>4, <1>5, LowestLeads
  <2>3. Accepted(low.hp) /\ low.out \in Seq(UpdateReps)
    BY <1>4, <1>5, <2>1, UpdatesAccepted, LowestHealthy
  <2> QED
    BY <1>4, <1>5, <2>2, <2>3, LowestEncoder
<1>8. PICK top : top = EncodeMaximum(low.hp)
  OBVIOUS
<1>9. PICK c : Leads(top.out, b, c) /\ Abreast(top.hp, c) /\ top.hp.nxt < 0
  BY <1>6, <1>7, <1>8, MaximumLeads
<1>10. InHead(top.hp) /\ Accepted(top.hp) /\ top.out \in Seq(UpdateReps)
  <2>1. Healthy(low.hp)
    BY <1>7 DEF InHead
  <2>2. Accepted(top.hp) /\ top.out \in Seq(UpdateReps)
    BY <1>7, <1>8, <2>1, UpdatesAccepted, MaximumHealthy
  <2>3. PICK l : l = low.hp
    OBVIOUS
  <2>4. InHead(l) /\ top = EncodeMaximum(l)
    BY <1>7, <1>8, <2>3
  <2>5. InHead(top.hp)
    BY <2>4, MaximumEncoder
  <2> QED
    BY <2>2, <2>5
<1>11. PICK cap : cap = EncodeLimit(top.hp)
  OBVIOUS
<1>12. PICK d : Leads(cap.out, c, d) /\ Level(cap.hp, d)
  BY <1>9, <1>10, <1>11, SoftLimitLeads
<1>13. /\ cap.hp \in Codec /\ Accepted(cap.hp)
       /\ cap.out \in Seq(UpdateReps)
  <2>1. Healthy(top.hp)
    BY <1>10 DEF InHead
  <2> QED
    BY <1>10, <1>11, <2>1, UpdatesAccepted, SoftLimitHealthy DEF Healthy
<1>14. PICK y : y = cap.hp
  OBVIOUS
<1>15. PICK r : r = [y EXCEPT !.upd = FALSE]
  OBVIOUS
<1>16. PICK w \in Seq(UpdateReps) : w = low.out \o top.out
  <2>1. PICK u \in Seq(UpdateReps) : u = low.out
    BY <1>7
  <2>2. PICK v \in Seq(UpdateReps) : v = top.out
    BY <1>10
  <2>3. u \o v \in Seq(UpdateReps)
    OBVIOUS
  <2> QED
    BY <2>1, <2>2, <2>3
<1>17. h.hp = r /\ h.out = w \o cap.out
  <2> DEFINE out == w \o cap.out
  <2>1. h = [hp |-> r, out |-> out]
    BY <1>3, <1>5, <1>8, <1>11, <1>14, <1>15, <1>16, Zenon
       DEF EncodeHead, hpack_encode_update
  <2> HIDE DEF out
  <2>2. h.hp = r /\ h.out = out
    BY <2>1
  <2> QED
    BY <2>2 DEF out
<1>18. Leads(w, a, c)
  BY <1>6, <1>7, <1>9, <1>10, <1>16, LeadsOn
<1>19. Leads(w \o cap.out, a, d)
  BY <1>12, <1>13, <1>16, <1>18, LeadsOn
<1>20. /\ r.tbl = y.tbl /\ r.len = y.len /\ r.lim = y.lim /\ r.max = y.max
       /\ r.nxt = y.nxt /\ r.min = y.min /\ r.upd = FALSE
  BY <1>13, <1>14, <1>15 DEF Codec
<1>21. HPACK_LIMIT(r) = HPACK_LIMIT(y)
  BY <1>20, Zenon DEF HPACK_LIMIT
<1>22. Level(r, d) /\ Accepted(r)
  BY <1>12, <1>13, <1>14, <1>20, <1>21 DEF Level, Accepted
<1> QED
  BY <1>17, <1>19, <1>20, <1>22
-----------------------------------------------------------------------------
(***************************************************************************)
(* The field of a call to hpack_encode.                                    *)
(***************************************************************************)

\* What HPT_search finds has the name it looked for and, if it says so, the
\* value.
LEMMA SearchMeans ==
    ASSUME NEW hp \in Codec, NEW fld \in Field, NEW m \in HPT_search(hp, fld)
    PROVE  /\ m.idx # 0 => HPT_field(hp, m.idx).nam = fld.nam
           /\ m.full => m.idx # 0 /\ HPT_field(hp, m.idx) = fld
<1> DEFINE exact == {i \in Indices(hp) : HPT_field(hp, i) = fld}
           names == {i \in Indices(hp) : HPT_field(hp, i).nam = fld.nam}
<1>1. PICK n \in Nat : Indices(hp) = 1..n
  BY SizeAssumption DEF Indices, Static, Codec
<1>2. /\ m.idx \in IF exact # {} THEN {Min(exact)}
                   ELSE IF names = {} THEN {0}
                   ELSE IF Max(names) > Static THEN {Max(names)}
                   ELSE names
      /\ m.full \in {exact # {}}
  BY DEF HPT_search
<1>3. exact \subseteq names /\ names \subseteq 1..n
  BY <1>1
<1>4. \A i \in exact : HPT_field(hp, i) = fld
  OBVIOUS
<1>5. \A i \in names : HPT_field(hp, i).nam = fld.nam
  OBVIOUS
<1> HIDE DEF exact, names
<1>6. CASE exact # {}
  <2>1. exact \subseteq Nat /\ 0 \notin exact
    BY <1>1, <1>3
  <2>2. m.idx \in exact
    BY <1>2, <1>6, <2>1, MinOf
  <2> QED
    BY <1>4, <2>1, <2>2
<1>7. CASE exact = {}
  <2>1. m.full = FALSE
    BY <1>2, <1>7, Zenon
  <2>2. m.idx # 0 => m.idx \in names
    <3>1. CASE names = {}
      BY <1>2, <1>7, <3>1
    <3>2. CASE names # {}
      <4>1. names \subseteq 0..n
        BY <1>3
      <4>2. Max(names) \in names
        BY <3>2, <4>1, MaxOf
      <4> QED
        BY <1>2, <1>7, <3>2, <4>2
    <3> QED
      BY <3>1, <3>2
  <2> QED
    BY <1>5, <2>1, <2>2
<1> QED
  BY <1>6, <1>7

\* The automatic index is asked for where none is given.
Proper(req) == req.aut => req.num = 0

\* Whatever the automatic index turns a request into, it is the field asked
\* for that is written.
LEMMA AutoIndexMeans ==
    ASSUME NEW hp \in Codec, NEW req \in Request, Proper(req),
           NEW use \in hpack_auto_index(hp, req), Refusal(hp, use) = "OK"
    PROVE  /\ req.aut => Meant(hp, use) = [nam |-> req.nam, val |-> req.val]
           /\ use \in Request
<1>1. use \in Request
  BY AutoIndexType
<1>2. CASE ~req.aut
  BY <1>1, <1>2
<1>3. CASE req.aut
  <2>1. req.typ # "IDX" /\ req.num = 0
    <3>1. req.num = 0
      BY <1>3 DEF Proper
    <3>2. 0 \notin Indices(hp)
      BY DEF Indices
    <3>3. req.typ = "IDX" => use = req
      BY Zenon DEF hpack_auto_index
    <3>4. req.typ = "IDX" => Refusal(hp, use) = "IDX"
      BY <3>1, <3>2, <3>3 DEF Refusal
    <3> QED
      BY <3>1, <3>4
  <2>2. PICK never \in BOOLEAN : never = (req.typ = "NVR")
    OBVIOUS
  <2>3. PICK val \in Value : val = IF never THEN EmptyValue ELSE req.val
    BY StringAssumption DEF Request
  <2>4. PICK key \in Field : key = [nam |-> req.nam, val |-> val]
    BY DEF Request, Field
  <2>5. PICK m \in HPT_search(hp, key) :
          use = [req EXCEPT !.typ = IF m.full /\ ~never THEN "IDX" ELSE @,
                            !.num = m.idx]
    BY <1>3, <2>1, <2>2, <2>3, <2>4 DEF hpack_auto_index
  <2>6. /\ m.idx # 0 => HPT_field(hp, m.idx).nam = key.nam
        /\ m.full => m.idx # 0 /\ HPT_field(hp, m.idx) = key
    BY <2>4, SearchMeans
  <2>7. key.nam = req.nam /\ (~never => key = [nam |-> req.nam, val |-> req.val])
    BY <2>3, <2>4
  <2>8. CASE m.full /\ ~never
    <3>0. use = [req EXCEPT !.typ = "IDX", !.num = m.idx]
      BY <2>5, <2>8
    <3>1. use.typ = "IDX" /\ use.num = m.idx
      BY <3>0 DEF Request
    <3>2. Meant(hp, use) = HPT_field(hp, m.idx)
      BY <3>1 DEF Meant
    <3> QED
      BY <1>1, <1>3, <2>6, <2>7, <2>8, <3>2
  <2>9. CASE ~(m.full /\ ~never)
    <3>0. use = [req EXCEPT !.typ = req.typ, !.num = m.idx]
      BY <2>5, <2>9
    <3>1. /\ use.typ = req.typ /\ use.num = m.idx
          /\ use.nam = req.nam /\ use.val = req.val
      BY <3>0 DEF Request
    <3>2. Meant(hp, use) = [nam |-> IF m.idx = 0 THEN req.nam
                                    ELSE HPT_field(hp, m.idx).nam,
                            val |-> req.val]
      BY <2>1, <3>1 DEF Meant
    <3>3. (IF m.idx = 0 THEN req.nam ELSE HPT_field(hp, m.idx).nam) = req.nam
      BY <2>6, <2>7
    <3> QED
      BY <1>1, <1>3, <3>2, <3>3
  <2> QED
    BY <2>8, <2>9
<1> QED
  BY <1>2, <1>3

\* A name that an index stands for is one the codecs accept.
LEMMA NamesAccepted ==
    ASSUME NEW hp \in Codec, Accepted(hp), NEW i \in Indices(hp)
    PROVE  HPT_field(hp, i).nam \notin BadName
<1>1. PICK s \in Nat : s = Static /\ DOMAIN StaticTable = 1..s
  BY SizeAssumption DEF Static
<1>2. PICK n \in Nat : n = Len(hp.tbl) /\ DOMAIN hp.tbl = 1..n
  BY DEF Codec
<1>3. i \in 1..(s + n)
  BY <1>1, <1>2 DEF Indices
<1>4. CASE i <= s
  BY <1>1, <1>3, <1>4, StaticAssumption DEF HPT_field
<1>5. CASE ~(i <= s)
  <2>1. i - s \in DOMAIN hp.tbl
    BY <1>2, <1>3, <1>5
  <2> QED
    BY <1>1, <1>5, <2>1 DEF HPT_field, Accepted
<1> QED
  BY <1>4, <1>5

\* Between two codecs with the same table, the field written is the field read.
LEMMA FieldTaken ==
    ASSUME NEW h \in Codec, LaidOut(h), h.lim <= h.max, h.magic = "ENCODER",
           Accepted(h), NEW d, DecoderHealthy(d), d.magic = "DECODER",
           Alike(h, d), NEW use \in Request, Refusal(h, use) = "OK",
           NEW fld, fld = Meant(h, use),
           NEW item, item.typ = use.typ, item.num = use.num, item.fld = fld,
           NEW after, after = IF use.typ = "DYN" THEN HPT_index(h, fld) ELSE h,
           NEW done, done = IF item.typ = "IDX" THEN hpack_decode_indexed(d, item)
                            ELSE hpack_decode_field(d, item)
    PROVE  /\ done.fld = fld /\ done.ret = d.res
           /\ TableOnly(done.hp, d)
           /\ done.hp.tbl = after.tbl /\ done.hp.len = after.len
           /\ Accepted(after)
<1>1. /\ d \in Codec /\ LaidOut(d) /\ d.lim <= d.max /\ d.magic # "ABORTED"
      /\ h.magic # "ABORTED"
  BY DEF DecoderHealthy, Healthy, Sound
<1>2. d.tbl = h.tbl /\ d.len = h.len
  BY DEF Alike
<1>3. Indices(d) = Indices(h) /\ \A i : HPT_field(d, i) = HPT_field(h, i)
  BY <1>2 DEF Indices, HPT_field
<1>4. PICK num : num = use.num
  OBVIOUS
<1>5. /\ use.typ = "IDX" \/ num # 0 => num \in Indices(h)
      /\ use.typ # "IDX" => /\ num = 0 => use.nam \notin BadName
                            /\ use.val \notin BadValue
  BY <1>4, RefusedNot
<1>6. fld \in Field
  BY MeantType
<1>7. CASE use.typ = "IDX"
  <2>1. fld = HPT_field(d, num) /\ num \in Indices(d)
    BY <1>3, <1>4, <1>5, <1>7 DEF Meant
  <2>2. done = Accept(d, fld)
    BY <1>4, <1>7, <2>1 DEF hpack_decode_indexed
  <2>3. done.hp = d /\ done.ret = d.res /\ done.fld = fld
    BY <2>2 DEF Accept
  <2>4. after = h
    BY <1>7
  <2>5. TableOnly(d, d)
    BY <1>1 DEF TableOnly, Codec
  <2> QED
    BY <1>2, <2>3, <2>4, <2>5
<1>8. CASE use.typ # "IDX"
  <2>1. fld = [nam |-> IF num = 0 THEN use.nam ELSE HPT_field(h, num).nam,
               val |-> use.val]
    BY <1>4, <1>8 DEF Meant
  <2>2. num # 0 => num \in Indices(d)
    BY <1>3, <1>5
  <2>3. fld.nam \notin BadName /\ fld.val \notin BadValue
    <3>1. CASE num = 0
      BY <1>5, <1>8, <2>1, <3>1
    <3>2. CASE num # 0
      <4>1. HPT_field(h, num).nam \notin BadName
        BY <1>5, <3>2, NamesAccepted
      <4> QED
        BY <1>5, <1>8, <2>1, <3>2, <4>1
    <3> QED
      BY <3>1, <3>2
  <2>4. fld = [nam |-> IF item.num = 0 THEN item.fld.nam
                       ELSE HPT_field(d, item.num).nam,
               val |-> item.fld.val]
    <3>1. CASE num = 0
      BY <1>4, <2>1, <3>1
    <3>2. CASE num # 0
      BY <1>3, <1>4, <2>1, <3>2
    <3> QED
      BY <3>1, <3>2
  <2>5. PICK i : i = IF use.typ = "DYN" THEN HPT_index(d, fld) ELSE d
    OBVIOUS
  <2>6. done = Accept(i, fld)
    BY <1>4, <1>8, <2>2, <2>3, <2>4, <2>5, Zenon DEF hpack_decode_field
  <2>7. done.hp = i /\ done.ret = i.res /\ done.fld = fld
    BY <2>6 DEF Accept
  <2>8. CASE use.typ = "DYN"
    <3>1. after = HPT_index(h, fld) /\ i = HPT_index(d, fld)
      BY <2>5, <2>8
    <3>2. after.tbl = i.tbl /\ after.len = i.len
      BY <1>1, <1>6, <3>1, IndexAlike
    <3>3. TableOnly(i, d)
      BY <1>1, <1>6, <3>1, IndexKeeps, Zenon
    <3>4. Accepted(after)
      BY <1>6, <2>3, <3>1, IndexAccepted
    <3>5. i.res = d.res
      BY <1>1, <3>3, TableOnlySame
    <3> QED
      BY <2>7, <3>2, <3>3, <3>4, <3>5
  <2>9. CASE use.typ # "DYN"
    <3>1. after = h /\ i = d
      BY <2>5, <2>9
    <3>2. TableOnly(d, d)
      BY <1>1 DEF TableOnly, Codec
    <3> QED
      BY <1>2, <2>7, <3>1, <3>2
  <2> QED
    BY <2>8, <2>9
<1> QED
  BY <1>7, <1>8

\* A field that finds nothing left to signal is read as it is, and closes the
\* head of the block unless it looks like an update.
LEMMA BodyTaken ==
    ASSUME NEW d, DecoderHealthy(d), d.magic = "DECODER",
           d.nxt = -1, d.min = -1,
           NEW rep, rep.typ # "UPD", rep.cut \in BOOLEAN,
           NEW done, done = hpack_decode(d, rep)
    PROVE  \E body \in Codec :
             /\ DecoderHealthy(body) /\ body.magic = "DECODER"
             /\ body.tbl = d.tbl /\ body.len = d.len
             /\ HPACK_LIMIT(body) = HPACK_LIMIT(d) /\ body.max = d.max
             /\ body.nxt = -1 /\ body.min = -1
             /\ body.res = IF rep.cut THEN "BLK" ELSE "OK"
             /\ body.upd <=> LooksLikeUpdate(rep) /\ Stage(d) # "body"
             /\ done = IF rep.typ = "IDX" THEN hpack_decode_indexed(body, rep)
                       ELSE hpack_decode_field(body, rep)
<1>1. PICK cut \in BOOLEAN : cut = rep.cut
  OBVIOUS
<1>2. d \in Codec /\ d.res \in {"OK", "BLK"}
  BY DEF DecoderHealthy, Healthy
<1>3. PICK ctx : ctx = BeginDecode(d, cut)
  OBVIOUS
<1>4. DecoderHealthy(ctx) /\ ctx.magic = "DECODER" /\ Begun(ctx, d, cut)
  BY <1>3, BeginDecoder
<1>5. ctx \in Codec
  BY <1>4 DEF DecoderHealthy, Healthy
<1>6. /\ ctx.max = d.max /\ ctx.lim = d.lim /\ ctx.nxt = -1 /\ ctx.min = -1
      /\ ctx.res = (IF cut THEN "BLK" ELSE "OK")
      /\ ctx.upd = (IF d.res = "BLK" THEN d.upd ELSE TRUE)
      /\ ctx.tbl = d.tbl /\ ctx.len = d.len
  <2>1. Begun(ctx, d, cut) /\ d \in Codec /\ cut \in BOOLEAN
    BY <1>2, <1>4
  <2>2. /\ ctx.max = d.max /\ ctx.lim = d.lim
        /\ ctx.nxt = d.nxt /\ ctx.min = d.min
        /\ ctx.tbl = d.tbl /\ ctx.len = d.len
    BY <2>1 DEF Begun, Codec
  <2>3. /\ ctx.res = IF cut THEN "BLK" ELSE "OK"
        /\ ctx.upd = IF d.res = "BLK" THEN d.upd ELSE TRUE
    BY <2>1, BegunSame, Zenon
  <2> QED
    BY <2>2, <2>3
<1>7. PICK looks \in BOOLEAN : looks <=> LooksLikeUpdate(rep)
  OBVIOUS
<1>8. PICK upd \in BOOLEAN : upd <=> ctx.upd /\ looks
  OBVIOUS
<1>9. PICK body : body = [ctx EXCEPT !.upd = upd]
  OBVIOUS
<1>10. body = IF LooksLikeUpdate(rep) THEN ctx
              ELSE IF ctx.min < 0 THEN [ctx EXCEPT !.upd = FALSE]
              ELSE Abort(ctx)
  <2>1. CASE LooksLikeUpdate(rep)
    <3>1. upd = ctx.upd
      BY <1>5, <1>7, <1>8, <2>1 DEF Codec
    <3> QED
      BY <1>5, <1>9, <2>1, <3>1 DEF Codec
  <2>2. CASE ~LooksLikeUpdate(rep)
    <3>1. upd = FALSE /\ ctx.min < 0
      BY <1>6, <1>7, <1>8, <2>2
    <3> QED
      BY <1>9, <2>2, <3>1
  <2> QED
    BY <2>1, <2>2
<1>11. done = IF rep.typ = "IDX" THEN hpack_decode_indexed(body, rep)
              ELSE hpack_decode_field(body, rep)
  <2>1. ~(ctx.nxt >= 0)
    BY <1>6
  <2> QED
    BY <1>1, <1>3, <1>10, <2>1, Zenon DEF hpack_decode
<1>12. DecoderHealthy(body) /\ body.magic = "DECODER" /\ body \in Codec
  <2>1. body = [ctx EXCEPT !.res = ctx.res, !.upd = upd]
    BY <1>5, <1>9 DEF Codec
  <2>2. ctx.res \in {"OK", "BLK"}
    BY <1>6
  <2>3. DecoderHealthy(body) /\ body.magic = "DECODER"
    BY <1>4, <2>1, <2>2, ContextDecoder
  <2> QED
    BY <2>3 DEF DecoderHealthy, Healthy
<1>13. /\ body.max = d.max /\ body.lim = d.lim /\ body.nxt = -1
       /\ body.min = -1 /\ body.tbl = d.tbl /\ body.len = d.len
       /\ body.res = ctx.res /\ body.upd = upd
  BY <1>5, <1>6, <1>9 DEF Codec
<1>14. HPACK_LIMIT(body) = HPACK_LIMIT(d)
  BY <1>13, Zenon DEF HPACK_LIMIT
<1>15. ctx.upd <=> Stage(d) # "body"
  <2>1. CASE d.res = "BLK"
    <3>1. ctx.upd = d.upd /\ d.upd \in BOOLEAN
      BY <1>2, <1>6, <2>1 DEF Codec
    <3>2. CASE d.upd
      BY <2>1, <3>1, <3>2 DEF Stage
    <3>3. CASE ~d.upd
      BY <2>1, <3>1, <3>3 DEF Stage
    <3> QED
      BY <3>2, <3>3
  <2>2. CASE d.res = "OK"
    BY <1>6, <2>2 DEF Stage
  <2> QED
    BY <1>2, <2>1, <2>2
<1>16. body.upd <=> LooksLikeUpdate(rep) /\ Stage(d) # "body"
  BY <1>7, <1>8, <1>13, <1>15
<1> QED
  BY <1>1, <1>6, <1>11, <1>12, <1>13, <1>14, <1>16

\* What a decoder level with the encoder makes of the field.
LEMMA FieldReads ==
    ASSUME NEW h \in Codec, LaidOut(h), h.lim <= h.max, h.magic = "ENCODER",
           Accepted(h), NEW a, Level(h, a),
           NEW use \in Request, Refusal(h, use) = "OK", NEW cut \in BOOLEAN,
           NEW fld, fld = Meant(h, use),
           NEW item, item = [typ |-> use.typ, num |-> use.num,
                             fld |-> fld, cut |-> cut],
           NEW after, after = IF use.typ = "DYN" THEN HPT_index(h, fld) ELSE h,
           NEW b, b = [tbl |-> after.tbl, len |-> after.len, lim |-> a.lim,
                       max |-> a.max, nxt |-> -1, min |-> -1,
                       at |-> IF ~cut THEN "none"
                              ELSE IF LooksLikeUpdate(item) /\ a.at # "body"
                              THEN "head" ELSE "body"]
    PROVE  Reads(a, item, b)
<1> SUFFICES ASSUME NEW d, DecoderHealthy(d), d.magic = "DECODER",
                    View(d) = a,
                    NEW done, done = hpack_decode(d, item)
             PROVE  /\ done.hp.magic = "DECODER" /\ View(done.hp) = b
                    /\ done.fld = item.fld
                    /\ done.ret = IF item.cut THEN "BLK" ELSE "OK"
  BY DEF Reads
<1>1. /\ d.tbl = a.tbl /\ d.len = a.len /\ HPACK_LIMIT(d) = a.lim
      /\ d.max = a.max /\ d.nxt = a.nxt /\ d.min = a.min
      /\ a.at = Stage(d)
  BY ViewSays
<1>2. /\ h.tbl = a.tbl /\ h.len = a.len /\ HPACK_LIMIT(h) = a.lim
      /\ a.nxt = -1 /\ a.min = -1
  BY DEF Level
<1>3. /\ item.typ = use.typ /\ item.num = use.num /\ item.fld = fld
      /\ item.cut = cut /\ item.typ # "UPD"
  BY DEF Request
<1>4. PICK body \in Codec :
        /\ DecoderHealthy(body) /\ body.magic = "DECODER"
        /\ body.tbl = d.tbl /\ body.len = d.len
        /\ HPACK_LIMIT(body) = HPACK_LIMIT(d) /\ body.max = d.max
        /\ body.nxt = -1 /\ body.min = -1
        /\ body.res = IF item.cut THEN "BLK" ELSE "OK"
        /\ body.upd <=> LooksLikeUpdate(item) /\ Stage(d) # "body"
        /\ done = IF item.typ = "IDX" THEN hpack_decode_indexed(body, item)
                  ELSE hpack_decode_field(body, item)
  <2>1. d.nxt = -1 /\ d.min = -1
    BY <1>1, <1>2
  <2>2. item.cut \in BOOLEAN
    BY <1>3
  <2> QED
    BY <1>3, <2>1, <2>2, BodyTaken
<1>5. Alike(h, body)
  BY <1>1, <1>2, <1>4 DEF Alike
<1>6. PICK r : r = done.hp
  OBVIOUS
<1>7. /\ done.fld = fld /\ done.ret = body.res
      /\ TableOnly(r, body)
      /\ r.tbl = after.tbl /\ r.len = after.len
  BY <1>3, <1>4, <1>5, <1>6, FieldTaken
<1>8. /\ r.magic = "DECODER" /\ r.max = body.max /\ r.lim = body.lim
      /\ r.nxt = -1 /\ r.min = -1 /\ r.res = body.res /\ r.upd = body.upd
  BY <1>4, <1>7, TableOnlySame
<1>9. HPACK_LIMIT(r) = a.lim
  <2>1. HPACK_LIMIT(r) = HPACK_LIMIT(body)
    BY <1>8, Zenon DEF HPACK_LIMIT
  <2> QED
    BY <1>1, <1>4, <2>1
<1>10. Stage(r) = IF ~cut THEN "none"
                  ELSE IF LooksLikeUpdate(item) /\ a.at # "body"
                  THEN "head" ELSE "body"
  <2>1. CASE cut
    <3>1. r.res = "BLK"
      BY <1>3, <1>4, <1>8, <2>1
    <3>2. r.upd <=> LooksLikeUpdate(item) /\ a.at # "body"
      BY <1>1, <1>4, <1>8
    <3> QED
      BY <2>1, <3>1, <3>2, Zenon DEF Stage
  <2>2. CASE ~cut
    <3>1. r.res = "OK"
      BY <1>3, <1>4, <1>8, <2>2
    <3> QED
      BY <2>2, <3>1 DEF Stage
  <2> QED
    BY <2>1, <2>2
<1>11. View(r) = b
  <2>1. r.tbl = after.tbl /\ r.len = after.len /\ r.max = a.max
    BY <1>1, <1>4, <1>7, <1>8
  <2> QED
    BY <1>8, <1>9, <1>10, <2>1, Zenon DEF View
<1> QED
  BY <1>3, <1>4, <1>6, <1>7, <1>8, <1>11

\* hpack_encode takes the decoder with it, and leaves an encoder ready for the
\* next call.
LEMMA EncodeLeads ==
    ASSUME NEW hp, EncoderHealthy(hp), EncoderPrompt(hp),
           hp.magic = "ENCODER", NEW a, Mirror(hp, a),
           NEW req \in Request, Proper(req), NEW cut \in BOOLEAN,
           NEW use \in hpack_auto_index(EncodeHead(hp).hp, req),
           NameStays(EncodeHead(hp).hp, use),
           NEW e, e = hpack_encode(hp, req, use, cut),
           e.hp.magic = "ENCODER"
    PROVE  /\ \E b : Leads(e.out, a, b) /\ Mirror(e.hp, b)
           /\ EncoderPrompt(e.hp)
<1>1. PICK head : head = EncodeHead(hp)
  OBVIOUS
<1>2. PICK h : h = head.hp
  OBVIOUS
<1>3. /\ EncoderReady(h) /\ h.res = "BLK"
      /\ h \in Codec /\ LaidOut(h) /\ h.magic = "ENCODER" /\ h.lim <= h.max
      /\ Accepted(h) /\ ~h.upd
  <2>1. EncoderReady(h) /\ h.res = "BLK"
    BY <1>1, <1>2, HeadEncoder
  <2>2. Accepted(h) /\ ~h.upd
    BY <1>1, <1>2, HeadLeads
  <2> QED
    BY <2>1, <2>2 DEF EncoderReady, Healthy, Sound, SizesAgree, Codec
<1>4. PICK c : Leads(head.out, a, c) /\ Level(h, c)
  BY <1>1, <1>2, HeadLeads
<1>5. PICK err : err = Refusal(h, use)
  OBVIOUS
<1>6. err = "OK"
  <2> SUFFICES ASSUME err # "OK" PROVE FALSE
    OBVIOUS
  <2>1. h = EncodeHead(hp).hp
    BY <1>1, <1>2
  <2>2. PICK r \in Codec : e.hp = Defunct(r) /\ r.magic = h.magic
    BY <1>3, <1>5, <2>1, EncodeRefused
  <2>5. e.hp.magic = "DEFUNCT"
    BY <1>3, <2>2 DEF Defunct, Codec
  <2> QED
    BY <2>5
<1>7. /\ use \in Request
      /\ req.aut => Meant(h, use) = [nam |-> req.nam, val |-> req.val]
  BY <1>1, <1>2, <1>3, <1>5, <1>6, AutoIndexMeans
<1>8. PICK fld \in Field : fld = Meant(h, use)
  BY <1>3, <1>5, <1>6, <1>7, MeantType
<1>9. PICK after : after = IF use.typ = "DYN" THEN HPT_index(h, fld) ELSE h
  OBVIOUS
<1>10. PICK item : item = [typ |-> use.typ, num |-> use.num,
                           fld |-> fld, cut |-> cut]
  OBVIOUS
<1>11. after \in Codec /\ TableOnly(after, h) /\ Accepted(after)
  <2>1. CASE use.typ = "DYN"
    <3>1. after = HPT_index(h, fld)
      BY <1>9, <2>1
    <3>2. Healthy(after)
      BY <1>3, <3>1, IndexHealthy DEF EncoderReady
    <3>3. h.magic # "ABORTED"
      BY <1>3
    <3>4. TableOnly(after, h)
      BY <1>3, <3>1, <3>3, IndexKeeps, Zenon
    <3>5. fld.nam \notin BadName
      <4>1. PICK num : num = use.num
        OBVIOUS
      <4>2. fld = [nam |-> IF num = 0 THEN use.nam ELSE HPT_field(h, num).nam,
                   val |-> use.val]
        BY <1>8, <2>1, <4>1 DEF Meant
      <4>3. /\ num # 0 => num \in Indices(h)
            /\ num = 0 => use.nam \notin BadName
        BY <1>5, <1>6, <2>1, <4>1, RefusedNot
      <4>4. CASE num = 0
        BY <4>2, <4>3, <4>4
      <4>5. CASE num # 0
        <5>1. HPT_field(h, num).nam \notin BadName
          BY <1>3, <4>3, <4>5, NamesAccepted
        <5> QED
          BY <4>2, <4>5, <5>1
      <4> QED
        BY <4>4, <4>5
    <3>6. Accepted(after)
      BY <1>3, <3>1, <3>5, IndexAccepted
    <3> QED
      BY <3>2, <3>4, <3>6 DEF Healthy
  <2>2. CASE use.typ # "DYN"
    BY <1>3, <1>9, <2>2 DEF TableOnly, Codec
  <2> QED
    BY <2>1, <2>2
<1>12. PICK at : at = IF ~cut THEN "none"
                      ELSE IF LooksLikeUpdate(item) /\ c.at # "body"
                      THEN "head" ELSE "body"
  OBVIOUS
<1>13. PICK b : b = [tbl |-> after.tbl, len |-> after.len, lim |-> c.lim,
                     max |-> c.max, nxt |-> -1, min |-> -1, at |-> at]
  OBVIOUS
<1>14. Reads(c, item, b)
  <2>1. b = [tbl |-> after.tbl, len |-> after.len, lim |-> c.lim,
             max |-> c.max, nxt |-> -1, min |-> -1,
             at |-> IF ~cut THEN "none"
                    ELSE IF LooksLikeUpdate(item) /\ c.at # "body"
                    THEN "head" ELSE "body"]
    BY <1>12, <1>13, Zenon
  <2>2. Refusal(h, use) = "OK"
    BY <1>5, <1>6
  <2> QED
    BY <1>3, <1>4, <1>7, <1>8, <1>9, <1>10, <2>1, <2>2, FieldReads
<1>15. Leads(<<item>>, c, b)
  <2>1. item.typ # "ACK"
    BY <1>7, <1>10 DEF Request
  <2> QED
    BY <1>14, <2>1, LeadsBy DEF Step
<1>16. PICK res \in {"OK", "BLK"} : res = IF cut THEN "BLK" ELSE "OK"
  OBVIOUS
<1>17. PICK r : r = [after EXCEPT !.res = res]
  OBVIOUS
<1>18. e.hp = r /\ e.out = Append(head.out, item)
  <2>1. item = [typ |-> use.typ, num |-> use.num,
                fld |-> IF req.aut THEN [nam |-> req.nam, val |-> req.val]
                        ELSE Meant(h, use),
                cut |-> cut]
    BY <1>7, <1>8, <1>10
  <2> DEFINE out == Append(head.out, item)
  <2>2. e = [hp |-> r, out |-> out]
    <3>1. after = IF use.typ = "DYN" THEN hpack_encode_dynamic(h, use) ELSE h
      BY <1>1, <1>2, <1>3, <1>5, <1>6, <1>7, <1>8, <1>9, DynamicIs
    <3> QED
      BY <1>1, <1>2, <1>5, <1>6, <1>16, <1>17, <2>1, <3>1, Zenon
         DEF hpack_encode
  <2> HIDE DEF out
  <2>3. e.hp = r /\ e.out = out
    BY <2>2
  <2> QED
    BY <2>3 DEF out
<1>19. Leads(e.out, a, b)
  <2>1. head.out \in Seq(UpdateReps)
    BY <1>1, HeadHealthy DEF EncoderHealthy
  <2>2. PICK S : S = UpdateReps \cup {item}
    OBVIOUS
  <2>3. PICK w \in Seq(S) : w = head.out
    BY <2>1, <2>2
  <2>4. PICK x \in Seq(S) : x = <<item>>
    <3>1. item \in S
      BY <2>2
    <3>2. <<item>> \in Seq(S)
      BY <3>1
    <3> QED
      BY <3>2, Zenon
  <2>5. Leads(w \o x, a, b)
    BY <1>4, <1>15, <2>3, <2>4, LeadsOn
  <2>6. Append(w, item) = w \o <<item>>
    BY <2>2, <2>3
  <2> QED
    BY <1>18, <2>3, <2>4, <2>5, <2>6
<1>20. /\ after.max = h.max /\ after.lim = h.lim /\ after.nxt = h.nxt
       /\ after.min = h.min /\ after.upd = h.upd
  BY <1>3, <1>11, TableOnlySame
<1>21. /\ r.tbl = after.tbl /\ r.len = after.len /\ r.max = h.max
       /\ r.lim = h.lim /\ r.nxt = h.nxt /\ r.min = h.min
       /\ r.upd = h.upd /\ r.res = res
  BY <1>11, <1>16, <1>17, <1>20 DEF Codec
<1>22. HPACK_LIMIT(r) = HPACK_LIMIT(h)
  BY <1>21, Zenon DEF HPACK_LIMIT
<1>23. h.max = c.max /\ HPACK_LIMIT(h) = c.lim /\ h.nxt = -1 /\ h.min = -1
  BY <1>4 DEF Level
<1>24. r.res = "OK" <=> b.at = "none"
  <2>1. r.res = "OK" <=> ~cut
    BY <1>16, <1>21
  <2>2. b.at = "none" <=> ~cut
    BY <1>12, <1>13
  <2> QED
    BY <2>1, <2>2
<1>25. Mirror(r, b)
  BY <1>13, <1>21, <1>22, <1>23, <1>24 DEF Mirror
<1>26. EncoderPrompt(r)
  <2>1. r.nxt < 0 /\ ~r.upd /\ ~(r.min >= 0)
    BY <1>3, <1>21, <1>23
  <2>2. Accepted(r)
    BY <1>11, <1>21 DEF Accepted
  <2> QED
    BY <2>1, <2>2 DEF EncoderPrompt, Accepted
<1> QED
  BY <1>18, <1>19, <1>25, <1>26
-----------------------------------------------------------------------------
(***************************************************************************)
(* The other calls.                                                        *)
(***************************************************************************)

\* What a call leaves alone, as far as its peer can tell.
SameSizes(r, hp) ==
    /\ r.magic = hp.magic
    /\ r.tbl = hp.tbl /\ r.len = hp.len /\ r.lim = hp.lim
    /\ r.max = hp.max /\ r.nxt = hp.nxt /\ r.min = hp.min
    /\ r.res = hp.res
    /\ hp.res # "OK" => r.upd = hp.upd

\* A call that changes no size leaves the mirror and the peer's view alone.
LEMMA SameMirror ==
    ASSUME NEW hp, NEW r, SameSizes(r, hp)
    PROVE  /\ \A a : Mirror(hp, a) => Mirror(r, a)
           /\ EncoderPrompt(hp) => EncoderPrompt(r)
           /\ View(r) = View(hp)
<1>1. HPACK_LIMIT(r) = HPACK_LIMIT(hp)
  BY DEF HPACK_LIMIT, SameSizes
<1>2. \A a : Mirror(hp, a) => Mirror(r, a)
  BY <1>1, Zenon DEF Mirror, SameSizes
<1>3. EncoderPrompt(hp) => EncoderPrompt(r)
  <2> SUFFICES ASSUME EncoderPrompt(hp), r.magic = "ENCODER"
               PROVE  /\ r.res = "BLK" => r.nxt < 0 /\ ~r.upd
                      /\ r.min >= 0 => r.min <= r.max \/ r.min = r.nxt
                      /\ \A i \in DOMAIN r.tbl :
                            r.tbl[i].fld.nam \notin BadName
    BY DEF EncoderPrompt
  <2>1. /\ hp.res = "BLK" => hp.nxt < 0 /\ ~hp.upd
        /\ hp.min >= 0 => hp.min <= hp.max \/ hp.min = hp.nxt
        /\ \A i \in DOMAIN hp.tbl : hp.tbl[i].fld.nam \notin BadName
    BY DEF EncoderPrompt, SameSizes
  <2> QED
    BY <2>1 DEF SameSizes
<1>4. Stage(r) = Stage(hp)
  BY Zenon DEF Stage, SameSizes
<1>5. View(r) = View(hp)
  BY <1>1, <1>4, Zenon DEF View, SameSizes
<1> QED
  BY <1>2, <1>3, <1>5

\* hpack_trim and the listing of the tables between blocks are the codec's own
\* business.
LEMMA MemorySame ==
    ASSUME NEW hp \in Codec, NEW r, MemoryOnly(r, hp)
    PROVE  SameSizes(r, hp)
BY MemoryOnlySame DEF SameSizes

\* Listing the tables is such a call.
LEMMA ForeachSame ==
    ASSUME NEW hp \in Codec, hp.res = "OK", NEW r, r = hpack_foreach(hp)
    PROVE  SameSizes(r, hp)
BY DEF hpack_foreach, SameSizes, Codec

\* So is a limit, until the next block.
LEMMA LimitSame ==
    ASSUME NEW hp, EncoderHealthy(hp), hp.magic = "ENCODER",
           NEW len \in Nat, NEW oom, NEW r, r = hpack_limit(hp, len, oom),
           r.magic = "ENCODER"
    PROVE  SameSizes(r, hp)
<1>1. /\ hp \in Codec /\ hp.self /\ hp.res \in {"OK", "BLK"}
      /\ Healthy(hp)
  BY DEF EncoderHealthy, Healthy
<1>2. SameSizes(hp, hp)
  BY DEF SameSizes
<1>3. PICK mem \in Nat :
        mem = IF len >= hp.max /\ hp.mem < hp.max THEN hp.max ELSE hp.mem
  BY <1>1 DEF Codec
<1>4. PICK g : g = hpack_realloc(hp, mem, oom)
  OBVIOUS
<1>5. /\ g.hp = [hp EXCEPT !.mem = g.hp.mem]
      /\ g.ret \in {"OK", "REA", "OOM"}
  BY <1>1, <1>3, <1>4, ReallocKeeps, ReallocType, EncoderRoom
<1>6. \/ r = hp \/ r = Defunct(hp)
      \/ r = [g.hp EXCEPT !.cap = len]
  BY <1>1, <1>3, <1>4, Zenon DEF hpack_limit
<1>7. Defunct(hp).magic # "ENCODER"
  BY <1>1 DEF Defunct, Codec
<1>8. CASE r = [g.hp EXCEPT !.cap = len]
  <2>1. PICK m : g.hp = [hp EXCEPT !.mem = m]
    BY <1>5
  <2> QED
    BY <1>1, <1>8, <2>1 DEF SameSizes, Codec
<1> QED
  BY <1>2, <1>6, <1>7, <1>8

\* An acknowledgement the precaution "raise" allows: what the encoder will
\* signal stays something the decoder will take.
LEMMA ResizeLeads ==
    ASSUME NEW hp, hp \in Codec, Ordered(hp), hp.magic = "ENCODER",
           hp.res = "OK", EncoderPrompt(hp), NEW len \in Nat,
           hp.min < 0 \/ hp.min <= hp.max \/ len <= hp.min,
           NEW r, Resized(r, hp, len), NEW a, Mirror(hp, a),
           NEW item, item = [typ |-> "ACK", num |-> len]
    PROVE  /\ \E b : Leads(<<item>>, a, b) /\ Mirror(r, b)
           /\ EncoderPrompt(r)
<1>1. /\ r.magic = hp.magic /\ r.max = hp.max /\ r.lim = hp.lim
      /\ r.nxt = len /\ r.min = Lowest(hp, len) /\ r.res = hp.res
      /\ r.tbl = hp.tbl /\ r.len = hp.len
  BY ResizedSame
<1>2. /\ hp.tbl = a.tbl /\ hp.len = a.len /\ HPACK_LIMIT(hp) = a.lim
      /\ hp.max = a.max /\ hp.nxt = a.nxt /\ hp.min = a.min
      /\ a.at = "none"
  BY DEF Mirror
<1>3. PICK b : b = [tbl |-> a.tbl, len |-> a.len, lim |-> a.lim,
                    max |-> a.max, nxt |-> len,
                    min |-> IF a.min < 0 \/ a.min > len THEN len ELSE a.min,
                    at |-> "none"]
  OBVIOUS
<1>4. Leads(<<item>>, a, b)
  <2>1. Awaits(a, item.num, b)
    BY <1>2, <1>3 DEF Awaits
  <2> QED
    BY <2>1, LeadsBy DEF Step
<1>5. HPACK_LIMIT(r) = HPACK_LIMIT(hp)
  BY <1>1, Zenon DEF HPACK_LIMIT
<1>6. r.min = IF a.min < 0 \/ a.min > len THEN len ELSE a.min
  BY <1>1, <1>2 DEF Lowest
<1>7. Mirror(r, b)
  BY <1>1, <1>2, <1>3, <1>5, <1>6, Zenon DEF Mirror
<1>8. EncoderPrompt(r)
  <2>1. \A i \in DOMAIN r.tbl : r.tbl[i].fld.nam \notin BadName
    BY <1>1 DEF EncoderPrompt
  <2>2. r.min <= r.max \/ r.min = r.nxt
    <3>1. CASE hp.min < 0 \/ hp.min > len
      BY <1>1, <3>1 DEF Lowest
    <3>2. CASE ~(hp.min < 0 \/ hp.min > len)
      <4>1. r.min = hp.min /\ (hp.min <= hp.max \/ len = hp.min)
        BY <1>1, <3>2 DEF Lowest, Codec
      <4> QED
        BY <1>1, <4>1
    <3> QED
      BY <3>1, <3>2
  <2> QED
    BY <1>1, <2>1, <2>2 DEF EncoderPrompt
<1> QED
  BY <1>4, <1>7, <1>8

\* The acknowledgement reaches the decoder where it is awaited.
LEMMA ResizeTaken ==
    ASSUME NEW d, DecoderHealthy(d), d.magic = "DECODER", NEW a, View(d) = a,
           NEW len \in Nat, NEW b, Awaits(a, len, b),
           NEW oom, NEW r, r = hpack_resize(d, len, oom), r.magic = "DECODER"
    PROVE  View(r) = b
<1>1. /\ d.tbl = a.tbl /\ d.len = a.len /\ HPACK_LIMIT(d) = a.lim
      /\ d.max = a.max /\ d.nxt = a.nxt /\ d.min = a.min
      /\ a.at = Stage(d)
  BY ViewSays
<1>2. d \in Codec /\ d.res \in {"OK", "BLK"}
  BY DEF DecoderHealthy, Healthy
<1>3. d.res = "OK"
  BY <1>1, <1>2 DEF Stage, Awaits
<1>4. Resized(r, d, len)
  BY <1>3, ResizeDecoder
<1>5. /\ r.max = d.max /\ r.lim = d.lim
      /\ r.nxt = len /\ r.min = Lowest(d, len) /\ r.res = "OK"
      /\ r.tbl = d.tbl /\ r.len = d.len
  BY <1>2, <1>3, <1>4, ResizedSame
<1>6. HPACK_LIMIT(r) = HPACK_LIMIT(d)
  BY <1>5, Zenon DEF HPACK_LIMIT
<1>7. Stage(r) = "none"
  BY <1>5 DEF Stage
<1>8. r.min = IF a.min < 0 \/ a.min > len THEN len ELSE a.min
  BY <1>1, <1>5 DEF Lowest
<1> QED
  BY <1>1, <1>5, <1>6, <1>7, <1>8, Zenon DEF View, Awaits

\* Two codecs that have just been created agree.
LEMMA NewMirror ==
    ASSUME NEW e, NEW d, e.magic = "ENCODER", e.res = "OK", d.res = "OK",
           e.max = d.max, e.lim = -1, d.lim = -1, e.nxt = -1, d.nxt = -1,
           e.min = -1, d.min = -1, e.tbl = <<>>, d.tbl = <<>>,
           e.len = 0, d.len = 0
    PROVE  Mirror(e, View(d)) /\ EncoderPrompt(e)
<1>1. HPACK_LIMIT(e) = HPACK_LIMIT(d)
  BY DEF HPACK_LIMIT
<1>2. View(d).at = "none"
  BY DEF View, Stage
<1>3. Mirror(e, View(d))
  BY <1>1, <1>2 DEF Mirror, View
<1> QED
  BY <1>3 DEF EncoderPrompt
=============================================================================
