------------------------ MODULE HpackReceiverProofs ------------------------
(***************************************************************************)
(* A decoder holds against any peer: for all tables, sizes and fields, and *)
(* whatever is sent, no assertion fails and the application's sizes are    *)
(* kept to.                                                                *)
(***************************************************************************)
EXTENDS HpackReceiver, HpackCodecProofs

\* What the peer sends are representations.
LEMMA RepsAreReps == Reps \subseteq Rep
<1> SUFFICES ASSUME NEW rep \in Reps PROVE rep \in Rep
  OBVIOUS
<1>1. Fields \subseteq Field /\ Updates \subseteq Nat
      /\ 0..MaxIndex \subseteq Nat
  BY ReceiverAssumption
<1>2. (CHOOSE f \in Fields : TRUE) \in Fields
  BY ReceiverAssumption
<1>3. CASE rep \in [typ : {"IDX"}, num : 0..MaxIndex,
                    fld : {CHOOSE f \in Fields : TRUE}, cut : BOOLEAN]
  BY <1>1, <1>2, <1>3 DEF Rep
<1>4. CASE rep \in [typ : {"DYN", "LIT", "NVR"}, num : 0..MaxIndex,
                    fld : Fields, cut : BOOLEAN]
  BY <1>1, <1>4 DEF Rep
<1>5. CASE rep \in [typ : {"UPD"}, num : Updates, fld : {NoField}, cut : BOOLEAN]
  BY <1>1, <1>5 DEF Rep
<1> QED
  BY <1>3, <1>4, <1>5 DEF Reps

\* The decoder is created with the size the application starts from.
LEMMA InitHolds == Init => Inductive
<1> SUFFICES ASSUME Init PROVE Inductive
  OBVIOUS
<1>1. InitialMax \in Nat
  BY ReceiverAssumption, MaxSizeAssumption
<1>2. dec = hpack_decoder(InitialMax, -1, TRUE)
  BY DEF Init
<1>3. PICK rsz \in Nat \cup {-1} : rsz = -1
  OBVIOUS
<1>4. PICK realloc \in BOOLEAN : realloc = TRUE
  OBVIOUS
<1>5. dec = hpack_decoder(InitialMax, rsz, realloc)
  BY <1>2, <1>3, <1>4, Zenon
<1>6. DecoderHealthy(dec) /\ dec.max = InitialMax /\ dec.nxt = -1
  BY <1>1, <1>5, NewDecoder
<1>7. told = InitialMax /\ body = "none"
  BY DEF Init
<1> HIDE DEF Init
<1> QED
  BY <1>1, <1>6, <1>7 DEF Inductive
-----------------------------------------------------------------------------
\* A size is announced: it waits, unless a block is in progress.
LEMMA AnnounceHolds ==
    ASSUME Inductive, NEW n \in Announced, NEW oom, Announce(n, oom)
    PROVE  Inductive'
<1>1. n \in Nat
  BY ReceiverAssumption
<1>2. /\ DecoderHealthy(dec) /\ dec.magic = "DECODER"
      /\ dec.res \in {"OK", "BLK"} /\ dec \in Codec
  BY DEF Announce, Inductive, DecoderHealthy, Healthy
<1>3. PICK r : r = dec'
  OBVIOUS
<1>4. r = hpack_resize(dec, n, oom)
  BY <1>3 DEF Announce
<1>5. /\ DecoderHealthy(r)
      /\ r.magic = "DECODER" =>
           IF dec.res = "BLK" THEN r = dec ELSE Resized(r, dec, n)
  BY <1>1, <1>2, <1>4, ResizeDecoder, Zenon
<1>6. told' = (IF dec.res = "OK" THEN n ELSE told) /\ body' = body
  BY DEF Announce
<1>7. told' \in Nat /\ body' \in {"none", "masked", "plain"}
  BY <1>1, <1>6 DEF Inductive
<1>8. ASSUME r.magic = "DECODER"
      PROVE  /\ told' = IF r.nxt < 0 THEN r.max ELSE r.nxt
             /\ body' # "none" => r.res = "BLK"
             /\ body' = "plain" => r.nxt < 0 /\ ~r.upd
  <2>1. CASE dec.res = "BLK"
    BY <1>2, <1>5, <1>6, <1>8, <2>1 DEF Inductive
  <2>2. CASE dec.res = "OK"
    <3>1. body = "none"
      BY <1>2, <2>2 DEF Inductive
    <3>2. r.nxt = n
      BY <1>1, <1>2, <1>5, <1>8, <2>2, ResizedSame
    <3> QED
      BY <1>1, <1>6, <2>2, <3>1, <3>2
  <2> QED
    BY <1>2, <2>1, <2>2
<1> QED
  BY <1>3, <1>5, <1>7, <1>8 DEF Inductive

\* A representation is decoded.
LEMMA ReceiveHolds ==
    ASSUME Inductive, NEW rep \in Reps, Receive(rep)
    PROVE  Inductive'
<1>1. rep \in Rep /\ rep.cut \in BOOLEAN /\ rep.num \in Nat
  BY RepsAreReps DEF Rep
<1>2. /\ DecoderHealthy(dec) /\ dec.magic = "DECODER"
      /\ dec.res \in {"OK", "BLK"} /\ dec \in Codec /\ Ordered(dec)
  BY DEF Receive, Inductive, DecoderHealthy, Healthy
<1>3. PICK d : d = hpack_decode(dec, rep)
  OBVIOUS
<1>4. PICK ctx : ctx = BeginDecode(dec, rep.cut)
  OBVIOUS
<1>5. PICK r : r = dec'
  OBVIOUS
<1>6. r = d.hp
  BY <1>3, <1>5 DEF Receive
<1>7. /\ DecoderHealthy(d.hp)
      /\ d.hp.magic = "DECODER" =>
           /\ d.ret = d.hp.res
           /\ IF rep.typ = "UPD"
              THEN /\ ctx.upd /\ ExpectedUpdate(ctx, rep.num)
                   /\ rep.num <= SettledMax(ctx)
                   /\ d.fld = NoField
                   /\ TableOnly(d.hp, Settle(ctx, rep.num))
              ELSE /\ ~LooksLikeUpdate(rep) => ctx.nxt < 0
                   /\ TableOnly(d.hp, HeadOf(ctx, rep))
  BY <1>1, <1>2, <1>3, <1>4, DecodeDecoder, Zenon
<1>8. ctx \in Codec /\ Begun(ctx, dec, rep.cut)
  BY <1>1, <1>2, <1>4, BeginDecoder DEF DecoderHealthy, Healthy
<1>9. /\ ctx.res = IF rep.cut THEN "BLK" ELSE "OK"
      /\ ctx.upd = IF dec.res = "BLK" THEN dec.upd ELSE TRUE
      /\ ctx.nxt = dec.nxt /\ ctx.min = dec.min /\ ctx.max = dec.max
  <2>1. PICK cut \in BOOLEAN : cut = rep.cut
    BY <1>1
  <2>2. Begun(ctx, dec, cut) /\ dec \in Codec
    BY <1>2, <1>8, <2>1
  <2>3. /\ ctx.res = IF cut THEN "BLK" ELSE "OK"
        /\ ctx.upd = IF dec.res = "BLK" THEN dec.upd ELSE TRUE
        /\ ctx.nxt = dec.nxt /\ ctx.min = dec.min /\ ctx.max = dec.max
    BY <2>2, BegunSame, Zenon
  <2> QED
    BY <2>1, <2>3, Zenon
<1>10. /\ body' = IF ~rep.cut THEN "none"
                   ELSE IF rep.typ = "UPD" THEN body
                   ELSE IF LooksLikeUpdate(rep) /\ body # "plain" THEN "masked"
                   ELSE "plain"
       /\ told' = told
  BY DEF Receive
<1>11. told' \in Nat /\ body' \in {"none", "masked", "plain"}
  BY <1>1, <1>10 DEF Inductive
<1>12. /\ body' # "none" => rep.cut
       /\ rep.typ = "UPD" => body' \in {"none", body}
       /\ body' = "plain" =>
            body = "plain" \/ (rep.typ # "UPD" /\ ~LooksLikeUpdate(rep))
  <2>1. body' # "none" => rep.cut
    BY <1>10, Zenon
  <2>2. rep.typ = "UPD" => body' \in {"none", body}
    BY <1>10
  <2>3. body' = "plain" =>
          body = "plain" \/ (rep.typ # "UPD" /\ ~LooksLikeUpdate(rep))
    BY <1>10, Zenon
  <2> QED
    BY <2>1, <2>2, <2>3
<1>13. ASSUME r.magic = "DECODER"
       PROVE  /\ told' = IF r.nxt < 0 THEN r.max ELSE r.nxt
              /\ body' # "none" => r.res = "BLK"
              /\ body' = "plain" => r.nxt < 0 /\ ~r.upd
  <2>1. CASE rep.typ = "UPD"
    <3>1. PICK s : s = Settle(ctx, rep.num)
      OBVIOUS
    <3>2. TableOnly(r, s) /\ ctx.upd
      BY <1>6, <1>7, <1>13, <2>1, <3>1
    <3>3. CASE ctx.min >= 0 /\ ctx.min < ctx.nxt
      <4>1. s = [ctx EXCEPT !.min = ctx.nxt, !.lim = rep.num]
        BY <3>1, <3>3 DEF Settle
      <4>2. s \in Codec /\ s.nxt = ctx.nxt /\ s.max = ctx.max
            /\ s.res = ctx.res /\ s.upd = ctx.upd
        BY <1>1, <1>8, <3>3, <4>1 DEF Codec
      <4>3. r.nxt = ctx.nxt /\ r.max = ctx.max /\ r.res = ctx.res
            /\ r.upd = ctx.upd
        BY <3>2, <4>2, TableOnlySame
      <4> QED
        BY <1>2, <1>9, <1>10, <1>12, <2>1, <3>2, <4>3 DEF Inductive
    <3>4. CASE ~(ctx.min >= 0 /\ ctx.min < ctx.nxt)
      <4>1. PICK m \in Nat : m = SettledMax(ctx)
        BY <1>8 DEF SettledMax, Codec
      <4>2. s = [ctx EXCEPT !.max = m, !.lim = rep.num,
                            !.min = -1, !.nxt = -1, !.upd = FALSE]
        BY <3>1, <3>4, <4>1, Zenon DEF Settle
      <4>3. s \in Codec /\ s.nxt = -1 /\ s.max = m /\ s.res = ctx.res
            /\ s.upd = FALSE
        BY <1>1, <1>8, <4>2 DEF Codec
      <4>4. r.nxt = -1 /\ r.max = m /\ r.res = ctx.res /\ r.upd = FALSE
        BY <3>2, <4>3, TableOnlySame
      <4>5. m = IF dec.nxt < 0 THEN dec.max ELSE dec.nxt
        BY <1>2, <1>8, <1>9, <3>4, <4>1 DEF SettledMax, Ordered, Codec
      <4> QED
        BY <1>2, <1>9, <1>10, <1>12, <2>1, <4>4, <4>5 DEF Inductive
    <3> QED
      BY <3>3, <3>4
  <2>2. CASE rep.typ # "UPD"
    <3>1. PICK upd \in BOOLEAN : upd = (ctx.upd /\ LooksLikeUpdate(rep))
      BY <1>8 DEF Codec
    <3>2. PICK b : b = HeadOf(ctx, rep)
      OBVIOUS
    <3>3. TableOnly(r, b) /\ (~LooksLikeUpdate(rep) => ctx.nxt < 0)
      BY <1>6, <1>7, <1>13, <2>2, <3>2
    <3>4. b \in Codec /\ b.nxt = ctx.nxt /\ b.max = ctx.max /\ b.res = ctx.res
          /\ b.upd = upd
      BY <1>8, <3>1, <3>2, HeadOfSame
    <3>5. r.nxt = ctx.nxt /\ r.max = ctx.max /\ r.res = ctx.res /\ r.upd = upd
      BY <3>3, <3>4, TableOnlySame
    <3>6. body = "plain" => ~ctx.upd /\ ctx.nxt < 0
      BY <1>2, <1>9 DEF Inductive
    <3> QED
      BY <1>1, <1>2, <1>9, <1>10, <1>12, <3>1, <3>3, <3>5, <3>6 DEF Inductive
  <2> QED
    BY <2>1, <2>2
<1> QED
  BY <1>5, <1>6, <1>7, <1>11, <1>13 DEF Inductive

\* Memory is given back.
LEMMA TrimHolds ==
    ASSUME Inductive, NEW oom, Trim(oom)
    PROVE  Inductive'
<1>1. /\ DecoderHealthy(dec) /\ dec.magic = "DECODER" /\ dec.nxt < 0
      /\ dec \in Codec
  BY DEF Trim, Inductive, DecoderHealthy, Healthy
<1>2. PICK r : r = dec'
  OBVIOUS
<1>3. r = hpack_trim(dec, oom, FALSE) /\ told' = told /\ body' = body
  BY <1>2 DEF Trim
<1>4. DecoderHealthy(r) /\ MemoryOnly(r, dec)
  BY <1>1, <1>3, TrimDecoderHealthy, Zenon
<1>5. r.nxt = dec.nxt /\ r.max = dec.max /\ r.res = dec.res /\ r.upd = dec.upd
  BY <1>1, <1>4, MemoryOnlySame
<1> QED
  BY <1>1, <1>2, <1>3, <1>4, <1>5 DEF Inductive

\* Every step keeps the invariant.
LEMMA NextHolds == Inductive /\ [Next]_vars => Inductive'
<1> SUFFICES ASSUME Inductive, [Next]_vars PROVE Inductive'
  OBVIOUS
<1>1. CASE UNCHANGED vars
  BY <1>1 DEF vars, Inductive
<1> QED
  BY <1>1, AnnounceHolds, ReceiveHolds, TrimHolds DEF Next
-----------------------------------------------------------------------------
\* The inductive invariant says what the properties of the runs say.
LEMMA InductiveImplies ==
    Inductive => /\ TypeOK /\ DecoderHolds /\ TableHolds /\ HeldToSize
                 /\ UpdatesBeforePlain
<1> SUFFICES ASSUME Inductive
             PROVE  /\ TypeOK /\ DecoderHolds /\ TableHolds /\ HeldToSize
                    /\ UpdatesBeforePlain
  OBVIOUS
<1>1. DecoderHealthy(dec) /\ Healthy(dec) /\ dec \in Codec /\ Sound(dec)
  BY DEF Inductive, DecoderHealthy, Healthy
<1>2. dec.magic \in {"DECODER", "DEFUNCT"}
  BY <1>1 DEF DecoderHealthy
<1>3. TypeOK /\ DecoderHolds
  BY <1>1, <1>2 DEF Inductive, TypeOK, DecoderHolds
<1>4. ASSUME Usable(dec)
      PROVE  /\ dec.magic = "DECODER" /\ dec.lim <= dec.max
             /\ HPACK_LIMIT(dec) <= dec.max
             /\ dec.max <= dec.mem /\ dec.len <= HPACK_LIMIT(dec)
  BY <1>1, <1>2, <1>4
     DEF Usable, DecoderHealthy, HPACK_LIMIT, Sound, Fits, Codec
<1>5. TableHolds
  BY <1>1, <1>4, LimitType DEF TableHolds, Codec
<1>6. HeldToSize
  BY <1>1, <1>4 DEF HeldToSize, Inductive
<1>7. UpdatesBeforePlain
  BY <1>4 DEF UpdatesBeforePlain, Inductive
<1> QED
  BY <1>3, <1>5, <1>6, <1>7

\* Every state a decoder reaches, whatever its peer sends, satisfies the
\* inductive invariant.
THEOREM ReceiverInductive == Spec => []Inductive
BY InitHolds, NextHolds, PTL DEF Spec

\* The decoder keeps its types.
THEOREM ReceiverTypeOK == Spec => []TypeOK
BY ReceiverInductive, InductiveImplies, PTL

\* No peer makes an assertion of hpack_decode, hpack_resize, HPT_adjust or
\* HPT_index fail, when the application trims its decoder as Trim says.
THEOREM ReceiverDecoderHolds == Spec => []DecoderHolds
BY ReceiverInductive, InductiveImplies, PTL

\* Whatever is inserted and signalled, the table is laid out back to back,
\* within its limit and within the memory allocated.
THEOREM ReceiverTableHolds == Spec => []TableHolds
BY ReceiverInductive, InductiveImplies, PTL

\* Whenever no resize waits to be signalled, hpack_decode_update has taken over
\* the last size the application told the peer, and the limit is within it.  A
\* block that opens with a masked index may leave a resize waiting.
THEOREM ReceiverHeldToSize == Spec => []HeldToSize
BY ReceiverInductive, InductiveImplies, PTL

\* Past the first field that does not look like an update, no update is missing
\* and hpack_decode accepts none.
THEOREM ReceiverUpdatesBeforePlain == Spec => []UpdatesBeforePlain
BY ReceiverInductive, InductiveImplies, PTL
=============================================================================
