-------------------------- MODULE HpackCodecProofs --------------------------
(***************************************************************************)
(* hpack_encode and hpack_decode keep a codec healthy, for every request,  *)
(* every representation and every size.  A decoder stays healthy whatever  *)
(* it is given to decode, and no assertion of it fails; what each call     *)
(* leaves of the sizes and of the context.                                 *)
(***************************************************************************)
EXTENDS HpackDecoder, Intervals

(***************************************************************************)
(* Sizes and eviction.                                                     *)
(***************************************************************************)

\* An entry takes at least one octet.
LEMMA SizeOfType ==
    ASSUME NEW fld \in Field
    PROVE  SizeOf(fld) \in Nat \ {0}
BY SizeAssumption DEF SizeOf, Field

\* The ends of a table's entries are offsets.
LEMMA EndOfType ==
    ASSUME NEW tbl \in Seq(Entry), NEW k \in 0..Len(tbl)
    PROVE  EndOf(tbl, k) \in Nat
<1>1. CASE k = 0
  BY <1>1 DEF EndOf
<1>2. CASE k # 0
  <2>1. tbl[k] \in Entry
    BY <1>2
  <2>2. tbl[k].pos \in Nat /\ tbl[k].fld \in Field
    BY <2>1 DEF Entry
  <2> QED
    BY <1>2, <2>2, SizeOfType DEF EndOf
<1> QED
  BY <1>1, <1>2

\* The limit in force is a size.
LEMMA LimitType ==
    ASSUME NEW hp \in Codec
    PROVE  HPACK_LIMIT(hp) \in Nat
BY DEF Codec, HPACK_LIMIT

\* Eviction stops at a number of entries that fit, or at the empty table.
LEMMA KeptType ==
    ASSUME NEW hp \in Codec, NEW len \in Int
    PROVE  /\ Kept(hp, len) \in 0..Len(hp.tbl)
           /\ \/ Kept(hp, len) = 0
              \/ len - (EndOf(hp.tbl, Len(hp.tbl)) - EndOf(hp.tbl, Kept(hp, len)))
                   <= HPACK_LIMIT(hp)
<1> DEFINE left(k) == len - (EndOf(hp.tbl, Len(hp.tbl)) - EndOf(hp.tbl, k))
           S == {k \in 0..Len(hp.tbl) : k = 0 \/ left(k) <= HPACK_LIMIT(hp)}
<1>1. Len(hp.tbl) \in Nat
  BY DEF Codec
<1>2. 0 \in S
  BY <1>1
<1>3. Max(S) \in S
  BY <1>1, <1>2, MaxOf
<1>4. Kept(hp, len) = Max(S)
  BY DEF Kept
<1> QED
  BY <1>3, <1>4
-----------------------------------------------------------------------------
(***************************************************************************)
(* HPT_adjust and HPT_index.                                               *)
(***************************************************************************)

\* The k newest entries of a table that is laid out end where the shortened
\* table says it ends, and nothing but the table and its length changes.
LEMMA EvictSound ==
    ASSUME NEW hp \in Codec, LaidOut(hp), NEW k \in 0..Len(hp.tbl)
    PROVE  LET r == Evict(hp, k) IN
           /\ r \in Codec /\ LaidOut(r)
           /\ r = [hp EXCEPT !.tbl = r.tbl, !.len = r.len]
           /\ r.len = EndOf(hp.tbl, k)
<1> DEFINE r == Evict(hp, k)
           cut == SubSeq(hp.tbl, 1, k)
<1>1. hp.tbl \in Seq(Entry) /\ Len(hp.tbl) \in Nat /\ hp.len \in Int
  BY DEF Codec
<1>2. cut \in Seq(Entry) /\ Len(cut) = k /\ \A i \in 1..k : cut[i] = hp.tbl[i]
  BY <1>1
<1>3. /\ EndOf(hp.tbl, k) \in Nat
      /\ EndOf(hp.tbl, Len(hp.tbl)) \in Nat
      /\ hp.len = EndOf(hp.tbl, Len(hp.tbl))
  BY <1>1, EndOfType DEF LaidOut
<1>4. hp.len - (EndOf(hp.tbl, Len(hp.tbl)) - EndOf(hp.tbl, k)) = EndOf(hp.tbl, k)
  BY <1>3
<1>5. r = [hp EXCEPT !.tbl = cut, !.len = EndOf(hp.tbl, k)]
  BY <1>4, Zenon DEF Evict
<1> HIDE DEF r, cut
<1>6. cut \in Seq(Entry) /\ EndOf(hp.tbl, k) \in Int
  BY <1>2, <1>3
<1>7. r \in Codec /\ r.tbl = cut /\ r.len = EndOf(hp.tbl, k)
  <2>1. PICK e \in Int : e = EndOf(hp.tbl, k)
    BY <1>6
  <2>2. r = [hp EXCEPT !.tbl = cut, !.len = e]
    BY <1>5, <2>1
  <2>3. r \in Codec /\ r.tbl = cut /\ r.len = e
    BY <1>6, <2>2 DEF Codec
  <2> QED
    BY <2>1, <2>3
<1>8. \A i \in 0..k : EndOf(cut, i) = EndOf(hp.tbl, i)
  BY <1>1, <1>2 DEF EndOf
<1>9. LaidOut(r)
  <2>1. DOMAIN cut = 1..k /\ \A i \in 1..k : i \in DOMAIN hp.tbl /\ i - 1 \in 0..k
    BY <1>1, <1>2
  <2>2. \A i \in DOMAIN r.tbl : r.tbl[i].pos = EndOf(r.tbl, i - 1)
    BY <2>1, <1>2, <1>7, <1>8 DEF LaidOut
  <2>3. k \in 0..k
    OBVIOUS
  <2> QED
    BY <2>2, <2>3, <1>2, <1>7, <1>8 DEF LaidOut
<1>10. r = [hp EXCEPT !.tbl = r.tbl, !.len = r.len]
  BY <1>5, <1>7
<1> QED
  BY <1>7, <1>9, <1>10 DEF r

\* HPT_adjust makes room for the octets asked for beyond sz.len or empties the
\* table; the codec keeps everything else, unless the assertion at its head
\* fails.
LEMMA AdjustSound ==
    ASSUME NEW hp \in Codec, LaidOut(hp), NEW need \in Int, hp.len <= need,
           NEW r, r = HPT_adjust(hp, need)
    PROVE  /\ r \in Codec /\ LaidOut(r)
           /\ \/ r = [hp EXCEPT !.magic = "ABORTED"]
              \/ /\ r = [hp EXCEPT !.tbl = r.tbl, !.len = r.len]
                 /\ \/ r.len = 0
                    \/ r.len + (need - hp.len) <= HPACK_LIMIT(hp)
<1>1. CASE hp.lim <= hp.max \/ hp.nxt > hp.max
  <2>1. hp.len \in Int /\ Len(hp.tbl) \in Nat /\ hp.tbl \in Seq(Entry)
    BY DEF Codec
  <2>2. PICK k : k = Kept(hp, need)
    OBVIOUS
  <2>3. /\ k \in 0..Len(hp.tbl)
        /\ \/ k = 0
           \/ need - (EndOf(hp.tbl, Len(hp.tbl)) - EndOf(hp.tbl, k))
                 <= HPACK_LIMIT(hp)
    BY <2>2, KeptType
  <2>4. r = Evict(hp, k)
    BY <1>1, <2>2 DEF HPT_adjust
  <2>5. /\ r \in Codec /\ LaidOut(r)
        /\ r = [hp EXCEPT !.tbl = r.tbl, !.len = r.len]
        /\ r.len = EndOf(hp.tbl, k)
    BY <2>3, <2>4, EvictSound, Zenon
  <2>6. /\ hp.len = EndOf(hp.tbl, Len(hp.tbl))
        /\ EndOf(hp.tbl, Len(hp.tbl)) \in Nat /\ EndOf(hp.tbl, k) \in Nat
        /\ HPACK_LIMIT(hp) \in Nat
    BY <2>1, <2>3, EndOfType, LimitType DEF LaidOut
  <2>7. r.len = 0 \/ r.len + (need - hp.len) <= HPACK_LIMIT(hp)
    <3>1. CASE k = 0
      BY <3>1, <2>5 DEF EndOf
    <3>2. CASE need - (EndOf(hp.tbl, Len(hp.tbl)) - EndOf(hp.tbl, k))
                 <= HPACK_LIMIT(hp)
      BY <3>2, <2>1, <2>5, <2>6
    <3> QED
      BY <3>1, <3>2, <2>3
  <2> QED
    BY <2>5, <2>7, Zenon
<1>2. CASE ~(hp.lim <= hp.max \/ hp.nxt > hp.max)
  <2>1. r = [hp EXCEPT !.magic = "ABORTED"]
    BY <1>2 DEF HPT_adjust, Abort
  <2>2. r \in Codec /\ LaidOut(r)
    BY <2>1 DEF Codec, LaidOut
  <2> QED
    BY <2>1, <2>2
<1> QED
  BY <1>1, <1>2, Zenon

\* Inserting keeps the layout: the entries move up by the size of the new one.
LEMMA InsertSound ==
    ASSUME NEW hp \in Codec, LaidOut(hp), NEW fld \in Field,
           NEW r, r = Insert(hp, fld)
    PROVE  /\ r \in Codec /\ LaidOut(r)
           /\ r = [hp EXCEPT !.tbl = r.tbl, !.len = r.len]
           /\ r.len = hp.len + SizeOf(fld)
<1>1. PICK size \in Nat : size = SizeOf(fld)
  BY SizeOfType
<1>2. PICK l \in Int : l = hp.len + size
  BY DEF Codec
<1>3. hp.tbl \in Seq(Entry) /\ Len(hp.tbl) \in Nat /\ hp.len \in Int
  BY DEF Codec
<1> DEFINE n == Len(hp.tbl)
           new == [fld |-> fld, pos |-> 0]
           moved == [i \in DOMAIN hp.tbl |-> [hp.tbl[i] EXCEPT !.pos = @ + size]]
           tbl == <<new>> \o moved
<1>4. /\ moved \in Seq(Entry) /\ Len(moved) = n
      /\ \A i \in 1..n : /\ moved[i].fld = hp.tbl[i].fld
                         /\ moved[i].pos = hp.tbl[i].pos + size
                         /\ hp.tbl[i].pos \in Nat
                         /\ hp.tbl[i].fld \in Field
  <2>1. DOMAIN hp.tbl = 1..n /\ \A i \in 1..n : hp.tbl[i] \in Entry
    BY <1>3
  <2>2. \A i \in 1..n : [hp.tbl[i] EXCEPT !.pos = @ + size] \in Entry
    BY <2>1, <1>1 DEF Entry
  <2>3. moved \in Seq(Entry) /\ Len(moved) = n
    BY <2>1, <2>2, <1>3
  <2> QED
    BY <2>1, <2>3 DEF Entry
<1>5. new \in Entry
  BY DEF Entry
<1> HIDE DEF moved, new
<1>6. /\ tbl \in Seq(Entry) /\ Len(tbl) = n + 1 /\ tbl[1] = new
      /\ \A i \in 1..n : tbl[i + 1] = moved[i]
  BY <1>3, <1>4, <1>5
<1> USE DEF new
<1>7. r = [hp EXCEPT !.tbl = tbl, !.len = l]
  BY <1>1, <1>2, Zenon DEF Insert, moved
<1> HIDE DEF tbl
<1>8. r \in Codec /\ r.tbl = tbl /\ r.len = l
  BY <1>6, <1>7 DEF Codec
<1>9. \A i \in 0..n : EndOf(tbl, i + 1) = EndOf(hp.tbl, i) + size
  <2> TAKE i \in 0..n
  <2>1. CASE i = 0
    BY <2>1, <1>1, <1>6 DEF EndOf
  <2>2. CASE i # 0
    <3>1. i \in 1..n
      BY <2>2, <1>3
    <3>2. tbl[i + 1].fld = hp.tbl[i].fld /\ tbl[i + 1].pos = hp.tbl[i].pos + size
      BY <3>1, <1>4, <1>6
    <3>3. SizeOf(hp.tbl[i].fld) \in Nat
      BY <3>1, <1>4, SizeOfType
    <3> QED
      BY <3>1, <3>2, <3>3, <1>4 DEF EndOf
  <2> QED
    BY <2>1, <2>2
<1>10. LaidOut(r)
  <2>1. ASSUME NEW i \in DOMAIN tbl PROVE tbl[i].pos = EndOf(tbl, i - 1)
    <3>1. i \in 1..(n + 1)
      BY <1>3, <1>6
    <3>2. CASE i = 1
      BY <3>2, <1>6 DEF EndOf
    <3>3. CASE i # 1
      <4>0. i - 1 \in 1..n /\ DOMAIN hp.tbl = 1..n
        BY <3>1, <3>3, <1>3
      <4>1. PICK j \in 1..n : i = j + 1 /\ j \in DOMAIN hp.tbl /\ j - 1 \in 0..n
        BY <4>0, <3>1, <1>3
      <4>2. tbl[i].pos = hp.tbl[j].pos + size
        BY <4>1, <1>4, <1>6
      <4>3. hp.tbl[j].pos = EndOf(hp.tbl, j - 1)
        BY <4>1 DEF LaidOut
      <4>4. EndOf(tbl, (j - 1) + 1) = EndOf(hp.tbl, j - 1) + size
        BY <4>1, <1>9
      <4>5. (j - 1) + 1 = i - 1
        BY <4>1
      <4> QED
        BY <4>2, <4>3, <4>4, <4>5
    <3> QED
      BY <3>2, <3>3
  <2>2. hp.len = EndOf(hp.tbl, n)
    BY DEF LaidOut
  <2>3. EndOf(tbl, n + 1) = EndOf(hp.tbl, n) + size
    BY <1>3, <1>9
  <2>4. r.len = EndOf(tbl, Len(tbl))
    BY <2>2, <2>3, <1>2, <1>6, <1>8
  <2> QED
    BY <2>1, <2>4, <1>8 DEF LaidOut
<1>11. r = [hp EXCEPT !.tbl = r.tbl, !.len = r.len]
  BY <1>7, <1>8
<1> QED
  BY <1>1, <1>2, <1>8, <1>10, <1>11

\* HPT_index of a field whose name lies outside the table.
LEMMA IndexOutside ==
    ASSUME NEW hp \in Codec, LaidOut(hp), NEW fld \in Field,
           NEW r, r = HPT_index(hp, fld)
    PROVE  /\ r \in Codec /\ LaidOut(r) /\ r.min = hp.min /\ r.nxt = hp.nxt
           /\ \/ r.magic = "ABORTED"
              \/ /\ r = [hp EXCEPT !.tbl = r.tbl, !.len = r.len]
                 /\ r.len <= HPACK_LIMIT(hp)
<1>1. PICK size \in Nat : size = SizeOf(fld)
  BY SizeOfType
<1>2. hp.len \in Int /\ HPACK_LIMIT(hp) \in Nat
  BY LimitType DEF Codec
<1>3. PICK need \in Int : need = hp.len + size
  BY <1>2
<1>4. PICK fit : fit = HPT_adjust(hp, need)
  OBVIOUS
<1>5. hp.len <= need
  BY <1>1, <1>2, <1>3
<1>6. /\ fit \in Codec /\ LaidOut(fit)
      /\ \/ fit = [hp EXCEPT !.magic = "ABORTED"]
         \/ /\ fit = [hp EXCEPT !.tbl = fit.tbl, !.len = fit.len]
            /\ \/ fit.len = 0
               \/ fit.len + (need - hp.len) <= HPACK_LIMIT(hp)
  BY <1>4, <1>5, AdjustSound, Zenon
<1>7. r = IF hp.lim > hp.max THEN Abort(hp)
          ELSE IF size > HPACK_LIMIT(hp) THEN fit
          ELSE Insert(fit, fld)
  BY <1>1, <1>3, <1>4, Zenon DEF HPT_index
<1>8. fit.len \in Int /\ (fit.magic = "ABORTED" \/ fit.len = 0
                          \/ fit.len + size <= HPACK_LIMIT(hp))
  <2>1. fit.len \in Int
    BY <1>6 DEF Codec
  <2>2. CASE fit = [hp EXCEPT !.magic = "ABORTED"]
    BY <2>1, <2>2 DEF Codec
  <2>3. CASE fit.len + (need - hp.len) <= HPACK_LIMIT(hp)
    BY <2>1, <2>3, <1>1, <1>2, <1>3
  <2> QED
    BY <1>6, <2>1, <2>2, <2>3, Zenon
<1> DEFINE Same(x) == x.min = hp.min /\ x.nxt = hp.nxt
<1>8a. fit \in Codec /\ Same(fit)
  BY <1>6 DEF Codec
<1>9. CASE hp.lim > hp.max
  <2>1. r = [hp EXCEPT !.magic = "ABORTED"]
    BY <1>7, <1>9 DEF Abort
  <2> QED
    BY <2>1 DEF Codec, LaidOut
<1>10. CASE ~(hp.lim > hp.max) /\ size > HPACK_LIMIT(hp)
  <2>1. r = fit
    BY <1>7, <1>10, Zenon
  <2>2. CASE fit.magic = "ABORTED"
    BY <1>6, <1>8a, <2>1, <2>2, Zenon
  <2>3. CASE fit.magic # "ABORTED"
    <3>1. fit = [hp EXCEPT !.tbl = fit.tbl, !.len = fit.len]
      <4>1. fit # [hp EXCEPT !.magic = "ABORTED"]
        BY <2>3 DEF Codec
      <4> QED
        BY <4>1, <1>6, Zenon
    <3>2. fit.len <= HPACK_LIMIT(hp)
      BY <1>1, <1>2, <1>8, <2>3
    <3> QED
      BY <1>6, <1>8a, <2>1, <3>1, <3>2, Zenon
  <2> QED
    BY <2>2, <2>3
<1>11. CASE ~(hp.lim > hp.max) /\ ~(size > HPACK_LIMIT(hp))
  <2>1. r = Insert(fit, fld)
    BY <1>7, <1>11, Zenon
  <2>2. /\ r \in Codec /\ LaidOut(r)
        /\ r = [fit EXCEPT !.tbl = r.tbl, !.len = r.len]
        /\ r.len = fit.len + SizeOf(fld)
    BY <1>6, <2>1, InsertSound, Zenon
  <2>5. Same(r)
    BY <1>8a, <2>2 DEF Codec
  <2>3. CASE fit.magic = "ABORTED"
    <3>1. r.magic = "ABORTED"
      BY <2>2, <2>3, <1>6 DEF Codec
    <3> QED
      BY <2>2, <2>5, <3>1, Zenon
  <2>4. CASE fit.magic # "ABORTED"
    <3>1. fit = [hp EXCEPT !.tbl = fit.tbl, !.len = fit.len]
      <4>1. fit # [hp EXCEPT !.magic = "ABORTED"]
        BY <2>4 DEF Codec
      <4> QED
        BY <4>1, <1>6, Zenon
    <3>2. r = [hp EXCEPT !.tbl = r.tbl, !.len = r.len]
      BY <3>1, <2>2 DEF Codec
    <3>3. r.len <= HPACK_LIMIT(hp)
      BY <1>1, <1>2, <1>8, <1>11, <2>2, <2>4
    <3> QED
      BY <2>2, <2>5, <3>2, <3>3, Zenon
  <2> QED
    BY <2>3, <2>4
<1> QED
  BY <1>9, <1>10, <1>11

\* HPT_index leaves a table that is laid out and within the limit, whatever the
\* field, the limit and the entries it evicts, unless an assertion fails: for a
\* field whose name lies outside the table, as those of a decoder, and for one
\* whose name lies in it, evicted or not, and fits in the padding of an entry.
LEMMA IndexSound ==
    ASSUME NEW hp \in Codec, LaidOut(hp), NEW fld \in Field, NEW r,
           \/ r = HPT_index(hp, fld)
           \/ r = hpt_move_evicted(hp, fld) /\ NameSize[fld.nam] < Pad
    PROVE  /\ r \in Codec /\ LaidOut(r) /\ r.min = hp.min /\ r.nxt = hp.nxt
           /\ \/ r.magic = "ABORTED"
              \/ /\ r = [hp EXCEPT !.tbl = r.tbl, !.len = r.len]
                 /\ r.len <= HPACK_LIMIT(hp)
<1>1. CASE r = HPT_index(hp, fld)
  BY <1>1, IndexOutside
<1>2. CASE r = hpt_move_evicted(hp, fld) /\ NameSize[fld.nam] < Pad
  <2>1. ~(NameSize[fld.nam] >= Pad) /\ ~(NameSize[fld.nam] >= Chunk)
    BY <1>2, SizeAssumption DEF Field
  <2>2. r = HPT_index(hp, fld)
    BY <1>2, <2>1, Zenon DEF hpt_move_evicted
  <2> QED
    BY <2>2, IndexOutside
<1> QED
  BY <1>1, <1>2
-----------------------------------------------------------------------------
(***************************************************************************)
(* The calls that only move the sizes around.                              *)
(***************************************************************************)

\* A call that leaves the table and the sizes that bear on it alone keeps the
\* codec healthy.
LEMMA HealthySame ==
    ASSUME NEW hp, Healthy(hp), NEW r \in Codec,
           r.tbl = hp.tbl, r.len = hp.len, r.max = hp.max, r.lim = hp.lim,
           Ordered(r), r.magic # "ABORTED" => hp.magic # "ABORTED"
    PROVE  Healthy(r)
BY DEF Healthy, Sound, LaidOut, Fits, HPACK_LIMIT

\* A failed assertion and an error leave the tables as they are.
LEMMA FailureHealthy ==
    ASSUME NEW hp, Healthy(hp)
    PROVE  Healthy(Abort(hp)) /\ Healthy(Defunct(hp))
<1>1. PICK a : a = Abort(hp)
  OBVIOUS
<1>2. PICK d : d = Defunct(hp)
  OBVIOUS
<1>3. hp \in Codec /\ Ordered(hp)
  BY DEF Healthy
<1>4. Healthy(a)
  <2>1. a = [hp EXCEPT !.magic = "ABORTED"]
    BY <1>1 DEF Abort
  <2>2. a \in Codec /\ Ordered(a) /\ a.magic = "ABORTED"
        /\ a.tbl = hp.tbl /\ a.len = hp.len /\ a.max = hp.max /\ a.lim = hp.lim
    BY <1>3, <2>1 DEF Codec, Ordered
  <2> QED
    BY <2>2, HealthySame
<1>5. Healthy(d)
  <2>1. PICK m \in {"ABORTED", "DEFUNCT"} :
           /\ m # "ABORTED" => hp.magic # "ABORTED"
           /\ d = [hp EXCEPT !.magic = m]
    BY <1>2 DEF Defunct
  <2>2. d \in Codec /\ Ordered(d) /\ d.magic = m
        /\ d.tbl = hp.tbl /\ d.len = hp.len /\ d.max = hp.max /\ d.lim = hp.lim
    BY <1>3, <2>1 DEF Codec, Ordered
  <2> QED
    BY <2>1, <2>2, HealthySame
<1> QED
  BY <1>1, <1>2, <1>4, <1>5

\* A codec starts with an empty table, which is healthy whatever its limit.
LEMMA NewHealthy ==
    ASSUME NEW magic \in {"ENCODER", "DECODER"}, NEW mem \in Nat, NEW max \in Nat,
           NEW realloc \in BOOLEAN, NEW cap \in Nat \cup {-1}, NEW r,
           \/ r = hpack_new(magic, mem, max, realloc)
           \/ r = [hpack_new(magic, mem, max, realloc) EXCEPT !.cap = cap]
    PROVE  Healthy(r)
<1>1. r \in Codec /\ r.tbl = <<>> /\ r.len = 0 /\ r.min = -1 /\ r.nxt = -1
  <2>1. PICK n : n = hpack_new(magic, mem, max, realloc)
    OBVIOUS
  <2>2. <<>> \in Seq(Entry)
    OBVIOUS
  <2>3. n \in Codec /\ n.tbl = <<>> /\ n.len = 0 /\ n.min = -1 /\ n.nxt = -1
    BY <2>1, <2>2 DEF hpack_new, Codec, Results
  <2>4. r = n \/ r = [n EXCEPT !.cap = cap]
    BY <2>1
  <2> QED
    BY <2>3, <2>4 DEF Codec
<1>2. LaidOut(r) /\ Ordered(r)
  BY <1>1 DEF LaidOut, Ordered, EndOf
<1>3. Fits(r)
  BY <1>1, LimitType DEF Fits
<1> QED
  BY <1>1, <1>2, <1>3 DEF Healthy, Sound

\* hpack_realloc fails, or the memory asked for is there, or its assertion on the
\* length of the table does not hold.
LEMMA ReallocType ==
    ASSUME NEW hp \in Codec, NEW mem \in Nat, NEW oom, NEW g,
           g = hpack_realloc(hp, mem, oom)
    PROVE  /\ g.ret \in {"OK", "REA", "OOM"}
           /\ g.ret = "OK" => mem <= g.hp.mem \/ g.hp = Abort(hp)
<1>1. CASE mem <= hp.mem \/ hp.len > mem
  BY <1>1 DEF hpack_realloc
<1>2. CASE ~(mem <= hp.mem \/ hp.len > mem) /\ (~hp.realloc \/ oom)
  BY <1>2 DEF hpack_realloc
<1>3. CASE ~(mem <= hp.mem \/ hp.len > mem) /\ ~(~hp.realloc \/ oom)
  BY <1>3 DEF hpack_realloc, Codec
<1> QED
  BY <1>1, <1>2, <1>3

\* hpack_realloc changes nothing but the memory, which keeps the codec healthy, if
\* its assertion holds.
LEMMA ReallocHealthy ==
    ASSUME NEW hp, Healthy(hp), NEW mem \in Nat, NEW oom, NEW g,
           g = hpack_realloc(hp, mem, oom)
    PROVE  Healthy(g.hp)
<1>1. hp \in Codec /\ Ordered(hp)
  BY DEF Healthy
<1>2. CASE g.hp = hp
  BY <1>2
<1>3. CASE g.hp = [hp EXCEPT !.mem = mem, !.self = TRUE]
  <2>1. PICK r : r = g.hp
    OBVIOUS
  <2>2. /\ r \in Codec /\ Ordered(r) /\ r.magic = hp.magic
        /\ r.tbl = hp.tbl /\ r.len = hp.len /\ r.max = hp.max /\ r.lim = hp.lim
    BY <1>1, <1>3, <2>1 DEF Codec, Ordered
  <2>3. Healthy(r)
    BY <2>2, HealthySame
  <2> QED
    BY <2>1, <2>3
<1>4. CASE g.hp = Abort(hp)
  BY <1>4, FailureHealthy
<1>5. \/ g.hp = hp \/ g.hp = Abort(hp)
      \/ g.hp = [hp EXCEPT !.mem = mem, !.self = TRUE]
  BY Zenon DEF hpack_realloc
<1> QED
  BY <1>2, <1>3, <1>4, <1>5

\* The memory an encoder or a decoder is to have after a resize is a size.
LEMMA ResizeMemoryType ==
    ASSUME NEW hp \in Codec, NEW len \in Nat
    PROVE  ResizeMemory(hp, len) \in Nat
BY DEF ResizeMemory, Codec

\* hpack_resize records the new size beside the ones that wait already.
LEMMA ResizeHealthy ==
    ASSUME NEW hp, Healthy(hp), NEW len \in Nat, NEW oom, NEW r,
           r = hpack_resize(hp, len, oom)
    PROVE  Healthy(r)
<1>1. hp \in Codec
  BY DEF Healthy
<1>2. PICK mem \in Nat : mem = ResizeMemory(hp, len)
  BY <1>1, ResizeMemoryType
<1>3. PICK grown : grown = hpack_realloc(hp, mem, oom)
  OBVIOUS
<1>4. PICK g : g = grown.hp
  OBVIOUS
<1>5. Healthy(g)
  BY <1>3, <1>4, ReallocHealthy
<1>6. \/ r \in {hp, Abort(hp), Defunct(hp)}
      \/ r = [g EXCEPT !.nxt = len,
                       !.min = IF @ < 0 \/ @ > len THEN len ELSE @]
  BY <1>2, <1>3, <1>4, Zenon DEF hpack_resize
<1>7. CASE r \in {hp, Abort(hp), Defunct(hp)}
  BY <1>7, FailureHealthy
<1>8. CASE r = [g EXCEPT !.nxt = len,
                         !.min = IF @ < 0 \/ @ > len THEN len ELSE @]
  <2>1. g \in Codec
    BY <1>5 DEF Healthy
  <2>2. PICK m : m = IF g.min < 0 \/ g.min > len THEN len ELSE g.min
    OBVIOUS
  <2>3. m \in Nat /\ m <= len
    BY <2>1, <2>2 DEF Codec
  <2>4. r = [g EXCEPT !.nxt = len, !.min = m]
    BY <2>2, <1>8, Zenon
  <2>5. r \in Codec /\ r.min = m /\ r.nxt = len
    BY <2>1, <2>3, <2>4 DEF Codec
  <2>6. /\ r.magic = g.magic /\ r.tbl = g.tbl /\ r.len = g.len
        /\ r.max = g.max /\ r.lim = g.lim
    BY <2>1, <2>4 DEF Codec
  <2>7. Ordered(r)
    BY <2>3, <2>5 DEF Ordered
  <2> QED
    BY <1>5, <2>5, <2>6, <2>7, HealthySame
<1> QED
  BY <1>6, <1>7, <1>8

\* hpack_limit leaves the limit in cap, for the next block.
LEMMA LimitHealthy ==
    ASSUME NEW hp, Healthy(hp), NEW len \in Nat, NEW oom, NEW r,
           r = hpack_limit(hp, len, oom)
    PROVE  Healthy(r)
<1>1. hp \in Codec
  BY DEF Healthy
<1>2. PICK mem \in Nat :
         mem = IF len >= hp.max /\ hp.mem < hp.max THEN hp.max ELSE hp.mem
  BY <1>1 DEF Codec
<1>3. PICK grown : grown = hpack_realloc(hp, mem, oom)
  OBVIOUS
<1>4. PICK g : g = grown.hp
  OBVIOUS
<1>5. Healthy(g) /\ grown.ret \in {"OK", "REA", "OOM"}
  BY <1>1, <1>3, <1>4, ReallocHealthy, ReallocType
<1>6. \/ r \in {hp, Abort(hp), Defunct(hp)}
      \/ r = [g EXCEPT !.cap = len]
  <2>1. r = IF hp.res # "OK" THEN (IF hp.res = "BLK" THEN hp ELSE Abort(hp))
            ELSE IF len > MaxSize THEN hp
            ELSE IF grown.ret = "REA" THEN hp
            ELSE IF grown.ret = "OOM" THEN Defunct(hp)
            ELSE [g EXCEPT !.cap = len]
    BY <1>2, <1>3, <1>4, Zenon DEF hpack_limit
  <2> QED
    BY <1>5, <2>1, Zenon
<1>7. CASE r \in {hp, Abort(hp), Defunct(hp)}
  BY <1>7, FailureHealthy
<1>8. CASE r = [g EXCEPT !.cap = len]
  <2>1. /\ r \in Codec /\ Ordered(r) /\ r.magic = g.magic
        /\ r.tbl = g.tbl /\ r.len = g.len /\ r.max = g.max /\ r.lim = g.lim
    BY <1>5, <1>8 DEF Codec, Ordered, Healthy
  <2> QED
    BY <1>5, <2>1, HealthySame
<1> QED
  BY <1>6, <1>7, <1>8

\* hpack_trim gives memory back, never entries.
LEMMA TrimHealthy ==
    ASSUME NEW hp, Healthy(hp), NEW oom, NEW moves \in BOOLEAN, NEW r,
           r = hpack_trim(hp, oom, moves)
    PROVE  Healthy(r)
<1>1. hp \in Codec /\ Ordered(hp)
  BY DEF Healthy
<1>2. PICK size \in Nat :
         size = IF hp.magic = "ENCODER" THEN HPACK_LIMIT(hp) ELSE hp.max
  BY <1>1, LimitType DEF Codec
<1>3. \/ r \in {hp, Abort(hp)}
      \/ r = [hp EXCEPT !.mem = size, !.self = @ /\ ~moves]
  BY <1>2, Zenon DEF hpack_trim
<1>4. CASE r \in {hp, Abort(hp)}
  BY <1>4, FailureHealthy
<1>5. CASE r = [hp EXCEPT !.mem = size, !.self = @ /\ ~moves]
  <2>1. PICK s \in BOOLEAN : r = [hp EXCEPT !.mem = size, !.self = s]
    BY <1>1, <1>5 DEF Codec
  <2>2. /\ r \in Codec /\ Ordered(r) /\ r.magic = hp.magic
        /\ r.tbl = hp.tbl /\ r.len = hp.len /\ r.max = hp.max /\ r.lim = hp.lim
    BY <1>1, <2>1 DEF Codec, Ordered
  <2> QED
    BY <2>2, HealthySame
<1> QED
  BY <1>3, <1>4, <1>5

\* Listing the tables changes none of them.
LEMMA ForeachHealthy ==
    ASSUME NEW hp, Healthy(hp), NEW r, r = hpack_foreach(hp)
    PROVE  Healthy(r)
<1>1. hp \in Codec /\ Ordered(hp)
  BY DEF Healthy
<1>2. /\ r \in Codec /\ Ordered(r) /\ r.magic = hp.magic
      /\ r.tbl = hp.tbl /\ r.len = hp.len /\ r.max = hp.max /\ r.lim = hp.lim
  BY <1>1 DEF hpack_foreach, Codec, Ordered, Results
<1> QED
  BY <1>2, HealthySame
-----------------------------------------------------------------------------
\* Once the sizes are set, HPT_adjust makes the table fit them: the codec was
\* healthy before but for the length of its table.
LEMMA AdjustHealthy ==
    ASSUME NEW hp \in Codec, LaidOut(hp), Ordered(hp),
           NEW r, r = HPT_adjust(hp, hp.len)
    PROVE  Healthy(r) /\ r.min = hp.min /\ r.nxt = hp.nxt
<1>1. PICK need \in Int : need = hp.len
  BY DEF Codec
<1>2. need <= need /\ need - need = 0 /\ HPACK_LIMIT(hp) \in Nat
  BY <1>1, LimitType
<1>3. /\ r \in Codec /\ LaidOut(r)
      /\ \/ r = [hp EXCEPT !.magic = "ABORTED"]
         \/ /\ r = [hp EXCEPT !.tbl = r.tbl, !.len = r.len]
            /\ \/ r.len = 0
               \/ r.len + (need - hp.len) <= HPACK_LIMIT(hp)
  BY <1>1, <1>2, AdjustSound, Zenon
<1>4. CASE r = [hp EXCEPT !.magic = "ABORTED"]
  <2>1. r.magic = "ABORTED" /\ r.min = hp.min /\ r.nxt = hp.nxt
    BY <1>4 DEF Codec
  <2> QED
    BY <1>3, <2>1 DEF Healthy, Sound, Ordered
<1>5. CASE /\ r = [hp EXCEPT !.tbl = r.tbl, !.len = r.len]
           /\ r.len = 0 \/ r.len + (need - hp.len) <= HPACK_LIMIT(hp)
  <2>1. /\ r.min = hp.min /\ r.nxt = hp.nxt /\ r.max = hp.max /\ r.lim = hp.lim
    BY <1>5 DEF Codec
  <2>2. HPACK_LIMIT(r) = HPACK_LIMIT(hp)
    BY <2>1 DEF HPACK_LIMIT
  <2>3. r.len \in Int
    BY <1>3 DEF Codec
  <2>4. Fits(r)
    BY <1>1, <1>2, <1>5, <2>2, <2>3 DEF Fits
  <2> QED
    BY <1>3, <2>1, <2>4 DEF Healthy, Sound, Ordered
<1> QED
  BY <1>3, <1>4, <1>5, Zenon

\* An insertion keeps the codec healthy.
LEMMA IndexHealthy ==
    ASSUME NEW hp, Healthy(hp), NEW fld \in Field,
           NEW r, r = HPT_index(hp, fld)
    PROVE  Healthy(r)
<1>1. hp \in Codec /\ LaidOut(hp) /\ Ordered(hp)
  BY DEF Healthy, Sound
<1>2. /\ r \in Codec /\ LaidOut(r) /\ r.min = hp.min /\ r.nxt = hp.nxt
      /\ \/ r.magic = "ABORTED"
         \/ /\ r = [hp EXCEPT !.tbl = r.tbl, !.len = r.len]
            /\ r.len <= HPACK_LIMIT(hp)
  <2>1. r \in Codec /\ LaidOut(r) /\ r.min = hp.min /\ r.nxt = hp.nxt
    BY <1>1, IndexSound, Zenon
  <2>2. \/ r.magic = "ABORTED"
        \/ /\ r = [hp EXCEPT !.tbl = r.tbl, !.len = r.len]
           /\ r.len <= HPACK_LIMIT(hp)
    BY <1>1, IndexSound, ZenonT(60)
  <2> QED
    BY <2>1, <2>2
<1>3. Ordered(r)
  BY <1>1, <1>2 DEF Ordered
<1>4. CASE r.magic = "ABORTED"
  BY <1>2, <1>3, <1>4 DEF Healthy, Sound
<1>5. CASE /\ r = [hp EXCEPT !.tbl = r.tbl, !.len = r.len]
           /\ r.len <= HPACK_LIMIT(hp)
  <2>1. r.max = hp.max /\ r.lim = hp.lim
    BY <1>1, <1>5 DEF Codec
  <2>2. Fits(r)
    BY <1>5, <2>1 DEF Fits, HPACK_LIMIT
  <2> QED
    BY <1>2, <1>3, <2>2 DEF Healthy, Sound
<1> QED
  BY <1>2, <1>4, <1>5
-----------------------------------------------------------------------------
(***************************************************************************)
(* The encoder.                                                            *)
(***************************************************************************)

\* The updates an encoder writes.
UpdateReps == {UpdateRep(n) : n \in Nat}

\* They are representations.
LEMMA UpdatesAreReps == UpdateReps \subseteq Rep
<1>1. ASSUME NEW n \in Nat PROVE UpdateRep(n) \in Rep
  BY DEF UpdateRep, Rep
<1> QED
  BY <1>1 DEF UpdateReps

\* The size chosen between the new maximum and the limit is a size.
LEMMA CapType ==
    ASSUME NEW hp \in Codec, NEW max \in Nat
    PROVE  /\ hpack_cap(hp, max).ret \in Nat
           /\ hpack_cap(hp, max).lim \in Nat \cup {-1}
BY DEF hpack_cap, Codec

\* Signalling the smallest maximum.
LEMMA LowestHealthy ==
    ASSUME NEW hp, Healthy(hp), NEW e, e = EncodeLowest(hp)
    PROVE  Healthy(e.hp) /\ e.out \in Seq(UpdateReps)
<1>1. hp \in Codec /\ LaidOut(hp) /\ Ordered(hp)
  BY DEF Healthy, Sound
<1>2. CASE hp.upd /\ hp.min >= 0 /\ hp.min < hp.nxt
  <2>1. PICK n \in Nat : n = hp.min
    BY <1>1, <1>2 DEF Codec
  <2>2. PICK low : low = [hp EXCEPT !.max = n]
    OBVIOUS
  <2>3. low \in Codec /\ LaidOut(low) /\ Ordered(low) /\ low.nxt = hp.nxt
    BY <1>1, <2>2 DEF Codec, LaidOut, Ordered
  <2>4. PICK a : a = HPT_adjust(low, low.len)
    OBVIOUS
  <2>5. Healthy(a) /\ a.nxt = hp.nxt
    BY <2>3, <2>4, AdjustHealthy
  <2>6. PICK r : r = [a EXCEPT !.min = hp.nxt]
    OBVIOUS
  <2>7. e = [hp |-> r, out |-> <<UpdateRep(n)>>]
    BY <1>2, <2>1, <2>2, <2>4, <2>6, Zenon DEF EncodeLowest
  <2>8. r \in Codec /\ r.min = hp.nxt /\ r.nxt = hp.nxt
    BY <2>5, <2>6, <1>1 DEF Codec, Healthy
  <2>9. /\ r.magic = a.magic /\ r.tbl = a.tbl /\ r.len = a.len
        /\ r.max = a.max /\ r.lim = a.lim
    BY <2>5, <2>6 DEF Codec, Healthy
  <2>10. Ordered(r)
    BY <1>1, <2>8 DEF Ordered, Codec
  <2>11. Healthy(r)
    BY <2>5, <2>8, <2>9, <2>10, HealthySame
  <2>12. e.hp = r /\ e.out = <<UpdateRep(n)>> /\ UpdateRep(n) \in UpdateReps
    BY <2>7 DEF UpdateReps
  <2> QED
    BY <2>11, <2>12
<1>3. CASE ~(hp.upd /\ hp.min >= 0 /\ hp.min < hp.nxt)
  <2>1. e.hp = hp /\ e.out = <<>>
    BY <1>3 DEF EncodeLowest
  <2> QED
    BY <2>1
<1> QED
  BY <1>2, <1>3

\* Signalling the last maximum, or the limit below it.
LEMMA MaximumHealthy ==
    ASSUME NEW hp, Healthy(hp), NEW e, e = EncodeMaximum(hp)
    PROVE  Healthy(e.hp) /\ e.out \in Seq(UpdateReps)
<1>1. hp \in Codec /\ LaidOut(hp) /\ Ordered(hp)
  BY DEF Healthy, Sound
<1>2. CASE hp.upd /\ hp.min >= 0
  <2>1. PICK n \in Nat : n = hp.nxt
    BY <1>1, <1>2 DEF Codec, Ordered
  <2>2. PICK c : c = hpack_cap(hp, n)
    OBVIOUS
  <2>3. PICK l \in Nat \cup {-1} : l = c.lim
    BY <1>1, <2>1, <2>2, CapType
  <2>4. PICK s \in Nat : s = c.ret
    BY <1>1, <2>1, <2>2, CapType
  <2>5. PICK top : top = [hp EXCEPT !.max = n, !.lim = l]
    OBVIOUS
  <2>6. top \in Codec /\ LaidOut(top) /\ Ordered(top)
    BY <1>1, <2>5 DEF Codec, LaidOut, Ordered
  <2>7. PICK a : a = HPT_adjust(top, top.len)
    OBVIOUS
  <2>8. Healthy(a)
    BY <2>6, <2>7, AdjustHealthy
  <2>9. PICK r : r = [a EXCEPT !.min = -1, !.nxt = -1, !.upd = FALSE]
    OBVIOUS
  <2>10. e = [hp |-> r, out |-> <<UpdateRep(s)>>]
    BY <1>2, <2>1, <2>2, <2>3, <2>4, <2>5, <2>7, <2>9, Zenon
       DEF EncodeMaximum
  <2>11. r \in Codec /\ r.min = -1 /\ r.nxt = -1
    BY <2>8, <2>9 DEF Codec, Healthy
  <2>12. /\ r.magic = a.magic /\ r.tbl = a.tbl /\ r.len = a.len
         /\ r.max = a.max /\ r.lim = a.lim
    BY <2>8, <2>9 DEF Codec, Healthy
  <2>13. Ordered(r)
    BY <2>11 DEF Ordered
  <2>14. Healthy(r)
    BY <2>8, <2>11, <2>12, <2>13, HealthySame
  <2>15. e.hp = r /\ e.out = <<UpdateRep(s)>> /\ UpdateRep(s) \in UpdateReps
    BY <2>10 DEF UpdateReps
  <2> QED
    BY <2>14, <2>15
<1>3. CASE ~(hp.upd /\ hp.min >= 0)
  <2>1. e.hp = hp /\ e.out = <<>>
    BY <1>3 DEF EncodeMaximum
  <2> QED
    BY <2>1
<1> QED
  BY <1>2, <1>3

\* Signalling a limit without a resize.
LEMMA SoftLimitHealthy ==
    ASSUME NEW hp, Healthy(hp), NEW e, e = EncodeLimit(hp)
    PROVE  Healthy(e.hp) /\ e.out \in Seq(UpdateReps)
<1>1. hp \in Codec /\ LaidOut(hp) /\ Ordered(hp)
  BY DEF Healthy, Sound
<1>2. CASE hp.upd /\ hp.cap >= 0 /\ hp.lim = -1 /\ ~(hp.cap >= hp.max)
  <2>1. PICK n \in Nat : n = hp.cap
    BY <1>1, <1>2 DEF Codec
  <2>2. PICK soft : soft = [hp EXCEPT !.lim = n]
    OBVIOUS
  <2>3. soft \in Codec /\ LaidOut(soft) /\ Ordered(soft)
    BY <1>1, <2>2 DEF Codec, LaidOut, Ordered
  <2>4. PICK a : a = HPT_adjust(soft, soft.len)
    OBVIOUS
  <2>5. Healthy(a)
    BY <2>3, <2>4, AdjustHealthy
  <2>6. PICK r : r = [a EXCEPT !.cap = -1]
    OBVIOUS
  <2>7. e = [hp |-> r, out |-> <<UpdateRep(n)>>]
    BY <1>2, <2>1, <2>2, <2>4, <2>6, Zenon DEF EncodeLimit
  <2>8. r \in Codec /\ r.min = a.min /\ r.nxt = a.nxt
    BY <2>5, <2>6 DEF Codec, Healthy
  <2>9. /\ r.magic = a.magic /\ r.tbl = a.tbl /\ r.len = a.len
        /\ r.max = a.max /\ r.lim = a.lim
    BY <2>5, <2>6 DEF Codec, Healthy
  <2>10. Ordered(r)
    BY <2>5, <2>8 DEF Ordered, Healthy
  <2>11. Healthy(r)
    BY <2>5, <2>8, <2>9, <2>10, HealthySame
  <2>12. e.hp = r /\ e.out = <<UpdateRep(n)>> /\ UpdateRep(n) \in UpdateReps
    BY <2>7 DEF UpdateReps
  <2> QED
    BY <2>11, <2>12
<1>3. CASE ~(hp.upd /\ hp.cap >= 0 /\ hp.lim = -1 /\ ~(hp.cap >= hp.max))
  <2>1. e.hp \in {hp, Abort(hp)} /\ e.out = <<>>
    BY <1>3 DEF EncodeLimit
  <2> QED
    BY <2>1, FailureHealthy
<1> QED
  BY <1>2, <1>3

\* A codec that differs in ctx.res and ctx.flg only is as healthy.
LEMMA ContextHealthy ==
    ASSUME NEW hp, Healthy(hp), NEW res \in Results, NEW upd \in BOOLEAN,
           NEW r, r = [hp EXCEPT !.res = res, !.upd = upd]
    PROVE  Healthy(r)
<1>1. hp \in Codec /\ Ordered(hp)
  BY DEF Healthy
<1>2. /\ r \in Codec /\ Ordered(r) /\ r.magic = hp.magic
      /\ r.tbl = hp.tbl /\ r.len = hp.len /\ r.max = hp.max /\ r.lim = hp.lim
  BY <1>1 DEF Codec, Ordered
<1> QED
  BY <1>2, HealthySame

\* The same, for one of the two.
LEMMA ResultHealthy ==
    ASSUME NEW hp, Healthy(hp), NEW res \in Results,
           NEW r, r = [hp EXCEPT !.res = res]
    PROVE  Healthy(r)
<1>1. hp \in Codec /\ hp.upd \in BOOLEAN
  BY DEF Healthy, Codec
<1>2. r = [hp EXCEPT !.res = res, !.upd = hp.upd]
  BY <1>1 DEF Codec
<1> QED
  BY <1>1, <1>2, ContextHealthy

\* The head of a block: the codec is healthy when the first field's turn
\* comes, and only updates have been written.
LEMMA HeadHealthy ==
    ASSUME NEW hp, Healthy(hp), NEW h, h = EncodeHead(hp)
    PROVE  Healthy(h.hp) /\ h.out \in Seq(UpdateReps)
<1>1. PICK b : b = BeginEncode(hp)
  OBVIOUS
<1>2. Healthy(b)
  <2>1. b \in {hp, Abort(hp)} \/ b = [hp EXCEPT !.res = "BLK", !.upd = TRUE]
    BY <1>1, Zenon DEF BeginEncode
  <2>2. CASE b = [hp EXCEPT !.res = "BLK", !.upd = TRUE]
    <3>1. "BLK" \in Results
      BY DEF Results
    <3> QED
      BY <2>2, <3>1, ContextHealthy
  <2> QED
    BY <2>1, <2>2, FailureHealthy
<1>3. PICK low : low = EncodeLowest(b)
  OBVIOUS
<1>4. Healthy(low.hp) /\ low.out \in Seq(UpdateReps)
  BY <1>2, <1>3, LowestHealthy
<1>5. PICK top : top = EncodeMaximum(low.hp)
  OBVIOUS
<1>6. Healthy(top.hp) /\ top.out \in Seq(UpdateReps)
  BY <1>4, <1>5, MaximumHealthy
<1>7. PICK cap : cap = EncodeLimit(top.hp)
  OBVIOUS
<1>8. Healthy(cap.hp) /\ cap.out \in Seq(UpdateReps)
  BY <1>6, <1>7, SoftLimitHealthy
<1>9. PICK c : c = cap.hp
  OBVIOUS
<1>10. PICK r : r = [c EXCEPT !.upd = FALSE]
  OBVIOUS
<1> DEFINE out == low.out \o top.out \o cap.out
<1>11. h = [hp |-> r, out |-> out]
  BY <1>1, <1>3, <1>5, <1>7, <1>9, <1>10, Zenon
     DEF EncodeHead, hpack_encode_update
<1>12. Healthy(r)
  <2>1. c \in Codec /\ c.res \in Results
    BY <1>8, <1>9 DEF Healthy, Codec
  <2>2. r = [c EXCEPT !.res = c.res, !.upd = FALSE]
    BY <1>10, <2>1 DEF Codec
  <2> QED
    BY <1>8, <1>9, <2>1, <2>2, ContextHealthy
<1>13. out \in Seq(UpdateReps)
  BY <1>4, <1>6, <1>8
<1> HIDE DEF out
<1>14. h.hp = r /\ h.out = out
  BY <1>11
<1> QED
  BY <1>12, <1>13, <1>14

\* Search results are indices, and 0 only when nothing matched.
LEMMA SearchType ==
    ASSUME NEW hp \in Codec, NEW fld, NEW m \in HPT_search(hp, fld)
    PROVE  m.idx \in Nat /\ m.full \in BOOLEAN
<1> DEFINE exact == {i \in Indices(hp) : HPT_field(hp, i) = fld}
           names == {i \in Indices(hp) : HPT_field(hp, i).nam = fld.nam}
           idx   == IF exact # {} THEN {Min(exact)}
                    ELSE IF names = {} THEN {0}
                    ELSE IF Max(names) > Static THEN {Max(names)}
                    ELSE names
<1>1. PICK n \in Nat : n = Static + Len(hp.tbl)
  BY SizeAssumption DEF Codec, Static
<1>2. exact \subseteq Nat /\ names \subseteq 0..n /\ names \subseteq Nat
  BY <1>1 DEF Indices
<1>3. m \in [idx : idx, full : {exact # {}}]
  BY DEF HPT_search
<1> HIDE DEF exact, names
<1>4. exact # {} => Min(exact) \in Nat
  BY <1>2, MinOf
<1>5. names # {} => Max(names) \in Nat
  BY <1>1, <1>2, MaxOf
<1>6. idx \subseteq Nat
  <2>1. \/ exact # {} /\ idx = {Min(exact)}
        \/ idx = {0}
        \/ names # {} /\ idx = {Max(names)}
        \/ idx = names
    BY Zenon
  <2> HIDE DEF idx
  <2>2. CASE exact # {} /\ idx = {Min(exact)}
    BY <1>4, <2>2
  <2>3. CASE idx = {0}
    BY <2>3
  <2>4. CASE names # {} /\ idx = {Max(names)}
    BY <1>5, <2>4
  <2>5. CASE idx = names
    BY <1>2, <2>5
  <2> QED
    BY <2>1, <2>2, <2>3, <2>4, <2>5
<1> HIDE DEF idx
<1>7. m.idx \in idx /\ m.full = (exact # {})
  BY <1>3
<1> QED
  BY <1>6, <1>7

\* What the automatic index makes of a request is a request.
LEMMA AutoIndexType ==
    ASSUME NEW hp \in Codec, NEW req \in Request,
           NEW use \in hpack_auto_index(hp, req)
    PROVE  use \in Request
<1>1. CASE use = req
  BY <1>1
<1>2. CASE use # req
  <2> DEFINE never == req.typ = "NVR"
             key   == [nam |-> req.nam,
                       val |-> IF never THEN EmptyValue ELSE req.val]
  <2>1. use \in {[req EXCEPT !.typ = IF m.full /\ ~never THEN "IDX" ELSE @,
                             !.num = m.idx] : m \in HPT_search(hp, key)}
    BY <1>2, Zenon DEF hpack_auto_index
  <2>2. PICK m \in HPT_search(hp, key) :
           use = [req EXCEPT !.typ = IF m.full /\ ~never THEN "IDX" ELSE @,
                             !.num = m.idx]
    BY <2>1, Zenon
  <2>3. PICK i \in Nat : i = m.idx
    BY SearchType
  <2>4. PICK t \in {"IDX", req.typ} :
           use = [req EXCEPT !.typ = t, !.num = i]
    BY <2>2, <2>3
  <2> QED
    BY <2>4 DEF Request
<1> QED
  BY <1>1, <1>2

\* An index that is not refused resolves to a field.
LEMMA FieldType ==
    ASSUME NEW hp \in Codec, NEW idx \in Indices(hp)
    PROVE  HPT_field(hp, idx) \in Field
<1>1. /\ Static \in Nat /\ StaticTable \in Seq(Field)
      /\ hp.tbl \in Seq(Entry) /\ Len(hp.tbl) \in Nat
  BY SizeAssumption DEF Codec, Static
<1>2. idx \in 1..(Static + Len(hp.tbl))
  BY DEF Indices
<1>3. CASE idx <= Static
  <2>1. idx \in 1..Len(StaticTable)
    BY <1>1, <1>2, <1>3 DEF Static
  <2> QED
    BY <1>1, <1>3, <2>1 DEF HPT_field
<1>4. CASE ~(idx <= Static)
  <2>1. PICK j \in 1..Len(hp.tbl) : j = idx - Static
    BY <1>1, <1>2, <1>4
  <2>2. hp.tbl[j] \in Entry
    BY <1>1
  <2> QED
    BY <1>4, <2>1, <2>2 DEF HPT_field, Entry
<1> QED
  BY <1>3, <1>4

\* A request is refused with a result.
LEMMA RefusalType ==
    ASSUME NEW hp, NEW req
    PROVE  Refusal(hp, req) \in Results
BY DEF Refusal, hpack_encode_string, Results

\* An accepted request has a type, an index that resolves and strings that pass.
LEMMA RefusedNot ==
    ASSUME NEW hp, NEW req, Refusal(hp, req) = "OK"
    PROVE  /\ req.typ # "NONE"
           /\ req.typ = "IDX" \/ req.num # 0 => req.num \in Indices(hp)
           /\ req.typ # "IDX" => /\ req.num = 0 => req.nam \notin BadName
                                 /\ req.val \notin BadValue
BY DEF Refusal, hpack_encode_string

\* What an accepted request asks for is a field.
LEMMA MeantType ==
    ASSUME NEW hp \in Codec, NEW req \in Request, Refusal(hp, req) = "OK"
    PROVE  Meant(hp, req) \in Field
<1>1. req.typ = "IDX" \/ req.num # 0 => req.num \in Indices(hp)
  BY DEF Refusal
<1>2. req.nam \in Name /\ req.val \in Value
  BY DEF Request
<1>3. CASE req.typ = "IDX"
  BY <1>1, <1>3, FieldType DEF Meant
<1>4. CASE req.typ # "IDX" /\ req.num = 0
  <2>1. Meant(hp, req) = [nam |-> req.nam, val |-> req.val]
    BY <1>4 DEF Meant
  <2> QED
    BY <1>2, <2>1 DEF Field
<1>5. CASE req.typ # "IDX" /\ req.num # 0
  <2>1. PICK f \in Field : f = HPT_field(hp, req.num)
    BY <1>1, <1>5, FieldType
  <2>2. Meant(hp, req) = [nam |-> f.nam, val |-> req.val]
    BY <1>5, <2>1 DEF Meant
  <2> QED
    BY <1>2, <2>1, <2>2 DEF Field
<1> QED
  BY <1>3, <1>4, <1>5

\* A name that stays whole while the table moves over it is indexed as one that
\* lies outside.
LEMMA DynamicIs ==
    ASSUME NEW hp \in Codec, NEW req \in Request, req.typ = "DYN",
           Refusal(hp, req) = "OK", NameStays(hp, req)
    PROVE  hpack_encode_dynamic(hp, req) = HPT_index(hp, Meant(hp, req))
<1>1. CASE ~(req.num > Static)
  BY <1>1, Zenon DEF hpack_encode_dynamic
<1>2. CASE req.num > Static
  <2>1. req.num # 0 /\ req.num \in Indices(hp)
    <3>1. Static \in Nat
      BY SizeAssumption DEF Static
    <3>2. req.num # 0
      BY <1>2, <3>1
    <3> QED
      BY <3>2 DEF Refusal
  <2>2. PICK f \in Field : f = HPT_field(hp, req.num)
    BY <2>1, FieldType
  <2>3. PICK fld \in Field : fld = Meant(hp, req)
    BY MeantType
  <2>4. fld.nam = f.nam
    BY <2>1, <2>2, <2>3 DEF Meant
  <2>5. NameSize[fld.nam] < Pad
    BY <1>2, <2>1, <2>2, <2>4, Zenon DEF NameStays
  <2>6. ~(NameSize[fld.nam] >= Pad) /\ ~(NameSize[fld.nam] >= Chunk)
    BY <2>3, <2>5, SizeAssumption DEF Field
  <2>7. hpt_move_evicted(hp, fld) = HPT_index(hp, fld)
    BY <2>6, Zenon DEF hpt_move_evicted
  <2> QED
    BY <1>2, <2>3, <2>7, Zenon DEF hpack_encode_dynamic
<1> QED
  BY <1>1, <1>2

\* A request that is refused leaves a defunct codec, whose fields but the result
\* are those of the one it was given, and nothing is written.
LEMMA EncodeRefused ==
    ASSUME NEW hp, NEW h \in Codec, h = EncodeHead(hp).hp,
           NEW req, NEW use, NEW err, err = Refusal(h, use), err # "OK", NEW cut,
           NEW e, e = hpack_encode(hp, req, use, cut)
    PROVE  /\ \E r \in Codec : /\ e.hp = Defunct(r)
                               /\ r.magic = h.magic
                               /\ Healthy(h) => Healthy(r)
           /\ e.out = <<>>
<1>1. err \in Results
  BY RefusalType
<1>2. PICK res \in Results : res = IF err = "ARG" THEN h.res ELSE err
  BY <1>1 DEF Codec
<1>3. [h EXCEPT !.res = IF err = "ARG" THEN @ ELSE err] = [h EXCEPT !.res = res]
  BY <1>2 DEF Codec
<1>4. e = [hp  |-> Defunct([h EXCEPT !.res = IF err = "ARG" THEN @ ELSE err]),
           out |-> <<>>]
  BY Zenon DEF hpack_encode
<1>5. e.hp = Defunct([h EXCEPT !.res = IF err = "ARG" THEN @ ELSE err])
      /\ e.out = <<>>
  BY <1>4
<1>6. PICK r : r = [h EXCEPT !.res = res]
  OBVIOUS
<1>7. r \in Codec /\ r.magic = h.magic
  BY <1>6 DEF Codec
<1>8. Healthy(h) => Healthy(r)
  BY <1>6, ResultHealthy
<1> QED
  BY <1>3, <1>5, <1>6, <1>7, <1>8, Zenon

\* hpack_encode keeps the codec healthy and writes representations, when the name
\* it takes from the table stays whole.
LEMMA EncodeHealthy ==
    ASSUME NEW hp, Healthy(hp), NEW req \in Request, NEW cut \in BOOLEAN,
           NEW use \in hpack_auto_index(EncodeHead(hp).hp, req),
           NameStays(EncodeHead(hp).hp, use),
           NEW e, e = hpack_encode(hp, req, use, cut)
    PROVE  Healthy(e.hp) /\ e.out \in Seq(Rep)
<1>1. PICK head : head = EncodeHead(hp)
  OBVIOUS
<1>2. PICK h : h = head.hp
  OBVIOUS
<1>3. Healthy(h) /\ h \in Codec /\ head.out \in Seq(Rep)
  <2>1. Healthy(h) /\ head.out \in Seq(UpdateReps)
    BY <1>1, <1>2, HeadHealthy
  <2> QED
    BY <2>1, UpdatesAreReps DEF Healthy
<1>4. use \in Request
  BY <1>1, <1>2, <1>3, AutoIndexType
<1>5. PICK err : err = Refusal(h, use)
  OBVIOUS
<1>7. CASE err # "OK"
  <2>1. h = EncodeHead(hp).hp
    BY <1>1, <1>2
  <2>2. PICK r \in Codec : e.hp = Defunct(r) /\ (Healthy(h) => Healthy(r))
    BY <1>3, <1>5, <1>7, <2>1, EncodeRefused
  <2>3. e.out = <<>>
    BY <1>3, <1>5, <1>7, <2>1, EncodeRefused
  <2> QED
    BY <1>3, <2>2, <2>3, FailureHealthy
<1>8. CASE err = "OK"
  <2>1. PICK want : want = IF req.aut THEN [nam |-> req.nam, val |-> req.val]
                           ELSE Meant(h, use)
    OBVIOUS
  <2>2. Meant(h, use) \in Field
    BY <1>3, <1>4, <1>5, <1>8, MeantType
  <2>3. want \in Field
    BY <2>1, <2>2 DEF Field, Request
  <2>4. PICK done : done = IF use.typ = "DYN" THEN HPT_index(h, Meant(h, use))
                           ELSE h
    OBVIOUS
  <2>5. Healthy(done)
    BY <1>3, <2>2, <2>4, IndexHealthy
  <2>6. PICK res : res = IF cut THEN "BLK" ELSE "OK"
    OBVIOUS
  <2>7. PICK r : r = [done EXCEPT !.res = res]
    OBVIOUS
  <2>8. Healthy(r)
    BY <2>5, <2>6, <2>7, ResultHealthy DEF Results
  <2>9. PICK item : item = [typ |-> use.typ, num |-> use.num,
                            fld |-> want, cut |-> cut]
    OBVIOUS
  <2>10. item \in Rep
    <3>1. use.typ # "NONE"
      BY <1>5, <1>8 DEF Refusal
    <3> QED
      BY <1>4, <2>3, <2>9, <3>1 DEF Rep, Request
  <2> DEFINE out == Append(head.out, item)
  <2>11. e = [hp |-> r, out |-> out]
    <3>1. done = IF use.typ = "DYN" THEN hpack_encode_dynamic(h, use) ELSE h
      BY <1>1, <1>2, <1>3, <1>4, <1>5, <1>8, <2>4, DynamicIs
    <3> QED
      BY <1>1, <1>2, <1>5, <1>8, <2>1, <2>6, <2>7, <2>9, <3>1, Zenon
         DEF hpack_encode
  <2>12. out \in Seq(Rep)
    BY <1>3, <2>10
  <2> HIDE DEF out
  <2>13. e.hp = r /\ e.out = out
    BY <2>11
  <2> QED
    BY <2>8, <2>12, <2>13
<1> QED
  BY <1>7, <1>8
-----------------------------------------------------------------------------
(***************************************************************************)
(* The decoder.                                                            *)
(***************************************************************************)

\* A failed call leaves its result and a defunct codec.
LEMMA RefuseHealthy ==
    ASSUME NEW hp, Healthy(hp), NEW err \in Results, NEW d,
           d = Refuse(hp, err)
    PROVE  Healthy(d.hp) /\ d.ret \in Results /\ d.fld = NoField
<1>1. PICK r : r = [hp EXCEPT !.res = err]
  OBVIOUS
<1>2. Healthy(r)
  BY <1>1, ResultHealthy
<1>3. d.hp = Defunct(r) /\ d.ret = err /\ d.fld = NoField
  BY <1>1 DEF Refuse
<1> QED
  BY <1>2, <1>3, FailureHealthy

\* An accepted representation returns the state of the block.
LEMMA AcceptHealthy ==
    ASSUME NEW hp, Healthy(hp), NEW fld, NEW d, d = Accept(hp, fld)
    PROVE  Healthy(d.hp) /\ d.ret \in Results /\ d.fld = fld
BY DEF Accept, Healthy, Codec

\* hpack_decode_update keeps the codec healthy: the sizes it settles on are
\* within the type, and the table is made to fit them.
LEMMA DecodeUpdateHealthy ==
    ASSUME NEW hp, Healthy(hp), NEW sz \in Nat,
           NEW d, d = hpack_decode_update(hp, sz)
    PROVE  Healthy(d.hp) /\ d.ret \in Results /\ d.fld = NoField
<1>1. hp \in Codec /\ LaidOut(hp) /\ Ordered(hp)
  BY DEF Healthy, Sound
<1>2. PICK set : set = Settle(hp, sz)
  OBVIOUS
<1>3. set \in Codec /\ LaidOut(set) /\ Ordered(set)
  <2>1. CASE hp.min >= 0 /\ hp.min < hp.nxt
    <3>1. set = [hp EXCEPT !.min = hp.nxt, !.lim = sz]
      BY <1>2, <2>1 DEF Settle
    <3>2. PICK n \in Nat : n = hp.nxt
      BY <1>1, <2>1 DEF Codec, Ordered
    <3>3. set = [hp EXCEPT !.min = n, !.lim = sz]
      BY <3>1, <3>2
    <3>4. set \in Codec /\ set.min = n /\ set.nxt = n
          /\ set.tbl = hp.tbl /\ set.len = hp.len
      BY <1>1, <3>2, <3>3 DEF Codec
    <3> QED
      BY <1>1, <3>4 DEF LaidOut, Ordered
  <2>2. CASE ~(hp.min >= 0 /\ hp.min < hp.nxt)
    <3>1. PICK m \in Nat : m = SettledMax(hp)
      BY <1>1 DEF SettledMax, Codec
    <3>2. set = [hp EXCEPT !.max = m, !.lim = sz,
                           !.min = -1, !.nxt = -1, !.upd = FALSE]
      BY <1>2, <2>2, <3>1, Zenon DEF Settle
    <3>3. set \in Codec /\ set.min = -1 /\ set.nxt = -1
          /\ set.tbl = hp.tbl /\ set.len = hp.len
      BY <1>1, <3>2 DEF Codec
    <3> QED
      BY <1>1, <3>3 DEF LaidOut, Ordered
  <2> QED
    BY <2>1, <2>2
<1>4. PICK a : a = HPT_adjust(set, set.len)
  OBVIOUS
<1>5. Healthy(a)
  BY <1>3, <1>4, AdjustHealthy
<1>6. d \in {Refuse(hp, "UPD"), Refuse(hp, "LEN"), Accept(a, NoField)}
  BY <1>2, <1>4, Zenon DEF hpack_decode_update
<1>7. "UPD" \in Results /\ "LEN" \in Results
  BY DEF Results
<1> QED
  BY <1>5, <1>6, <1>7, RefuseHealthy, AcceptHealthy

\* An indexed field comes from the tables.
LEMMA DecodeIndexedHealthy ==
    ASSUME NEW hp, Healthy(hp), NEW rep \in Rep,
           NEW d, d = hpack_decode_indexed(hp, rep)
    PROVE  Healthy(d.hp) /\ d.ret \in Results /\ d.fld \in Field \cup {NoField}
<1>1. hp \in Codec /\ "IDX" \in Results
  BY DEF Healthy, Results
<1>2. CASE rep.num \notin Indices(hp)
  <2>1. d = Refuse(hp, "IDX")
    BY <1>2 DEF hpack_decode_indexed
  <2> QED
    BY <1>1, <2>1, RefuseHealthy
<1>3. CASE rep.num \in Indices(hp)
  <2>1. PICK f \in Field : f = HPT_field(hp, rep.num)
    BY <1>1, <1>3, FieldType
  <2>2. d = Accept(hp, f)
    BY <1>3, <2>1 DEF hpack_decode_indexed
  <2> QED
    BY <2>2, AcceptHealthy
<1> QED
  BY <1>2, <1>3

\* A literal field, whatever its name comes from, is inserted whole or not at
\* all.
LEMMA DecodeFieldHealthy ==
    ASSUME NEW hp, Healthy(hp), NEW rep \in Rep, rep.typ # "UPD",
           NEW d, d = hpack_decode_field(hp, rep)
    PROVE  Healthy(d.hp) /\ d.ret \in Results /\ d.fld \in Field \cup {NoField}
<1>1. hp \in Codec /\ "IDX" \in Results /\ "CHR" \in Results
  BY DEF Healthy, Results
<1>2. rep.fld \in Field
  BY DEF Rep
<1>3. CASE rep.num # 0 /\ rep.num \notin Indices(hp)
  <2>1. d = Refuse(hp, "IDX")
    BY <1>3 DEF hpack_decode_field
  <2> QED
    BY <1>1, <2>1, RefuseHealthy
<1>4. CASE ~(rep.num # 0 /\ rep.num \notin Indices(hp))
  <2>1. PICK fld : fld = [nam |-> IF rep.num = 0 THEN rep.fld.nam
                                  ELSE HPT_field(hp, rep.num).nam,
                          val |-> rep.fld.val]
    OBVIOUS
  <2>2. fld \in Field
    <3>1. rep.num # 0 => HPT_field(hp, rep.num) \in Field
      BY <1>1, <1>4, FieldType
    <3> QED
      BY <1>2, <2>1, <3>1 DEF Field
  <2>3. PICK i : i = IF rep.typ = "DYN" THEN HPT_index(hp, fld) ELSE hp
    OBVIOUS
  <2>4. Healthy(i)
    BY <2>2, <2>3, IndexHealthy
  <2>5. d \in {Refuse(hp, "CHR"), Accept(i, fld)}
    BY <1>4, <2>1, <2>3, Zenon DEF hpack_decode_field
  <2> QED
    BY <1>1, <2>2, <2>4, <2>5, RefuseHealthy, AcceptHealthy
<1> QED
  BY <1>3, <1>4

\* hpack_decode keeps the codec healthy, whatever it is given to decode.
LEMMA DecodeHealthy ==
    ASSUME NEW hp, Healthy(hp), NEW rep \in Rep,
           NEW d, d = hpack_decode(hp, rep)
    PROVE  /\ Healthy(d.hp)
           /\ d.fld \in Field \cup {NoField}
           /\ d.ret \in Results \/ (d.ret = "RSZ" /\ d.fld = NoField)
<1>1. PICK ctx : ctx = BeginDecode(hp, rep.cut)
  OBVIOUS
<1>2. Healthy(ctx) /\ ctx \in Codec
  <2>1. CASE ~hp.self \/ hp.res \notin {"OK", "BLK"}
    BY <1>1, <2>1, FailureHealthy DEF BeginDecode, Healthy
  <2>2. CASE ~(~hp.self \/ hp.res \notin {"OK", "BLK"})
    <3>1. hp.upd \in BOOLEAN
      BY DEF Healthy, Codec
    <3>2. PICK res \in Results : res = IF rep.cut THEN "BLK" ELSE "OK"
      BY DEF Results
    <3>3. PICK upd \in BOOLEAN : upd = IF hp.res = "BLK" THEN hp.upd ELSE TRUE
      BY <3>1
    <3>4. ctx = [hp EXCEPT !.res = res, !.upd = upd]
      BY <1>1, <2>2, <3>2, <3>3, Zenon DEF BeginDecode
    <3> QED
      BY <3>4, ContextHealthy DEF Healthy
  <2> QED
    BY <2>1, <2>2
<1>3. PICK body : body = IF LooksLikeUpdate(rep) THEN ctx
                         ELSE IF ctx.min < 0 THEN [ctx EXCEPT !.upd = FALSE]
                         ELSE Abort(ctx)
  OBVIOUS
<1>4. Healthy(body)
  <2>1. CASE body = [ctx EXCEPT !.upd = FALSE]
    <3>1. ctx.res \in Results
          /\ body = [ctx EXCEPT !.res = ctx.res, !.upd = FALSE]
      BY <1>2, <2>1 DEF Codec
    <3> QED
      BY <1>2, <3>1, ContextHealthy
  <2>2. CASE body \in {ctx, Abort(ctx)}
    BY <1>2, <2>2, FailureHealthy
  <2> QED
    BY <1>3, <2>1, <2>2
<1>5. rep.num \in Nat /\ rep.typ \in {"IDX", "DYN", "LIT", "NVR", "UPD"}
  BY DEF Rep
<1>6. \/ rep.typ = "UPD" /\ d = hpack_decode_update(ctx, rep.num)
      \/ d = [hp |-> Defunct(ctx), ret |-> "RSZ", fld |-> NoField]
      \/ d = hpack_decode_indexed(body, rep)
      \/ rep.typ # "UPD" /\ d = hpack_decode_field(body, rep)
  BY <1>1, <1>3, Zenon DEF hpack_decode
<1>7. CASE rep.typ = "UPD" /\ d = hpack_decode_update(ctx, rep.num)
  BY <1>2, <1>5, <1>7, DecodeUpdateHealthy
<1>8. CASE d = [hp |-> Defunct(ctx), ret |-> "RSZ", fld |-> NoField]
  BY <1>2, <1>8, FailureHealthy
<1>9. CASE d = hpack_decode_indexed(body, rep)
  BY <1>4, <1>9, DecodeIndexedHealthy
<1>10. CASE rep.typ # "UPD" /\ d = hpack_decode_field(body, rep)
  BY <1>4, <1>10, DecodeFieldHealthy
<1> QED
  BY <1>6, <1>7, <1>8, <1>9, <1>10
-----------------------------------------------------------------------------
(***************************************************************************)
(* The table, when no assertion fails.                                     *)
(***************************************************************************)

\* A codec that differs in its table only.
TableOnly(r, hp) == r = [hp EXCEPT !.tbl = r.tbl, !.len = r.len]

\* What it shares with the other.
LEMMA TableOnlySame ==
    ASSUME NEW hp \in Codec, NEW r, TableOnly(r, hp)
    PROVE  /\ r.magic = hp.magic /\ r.realloc = hp.realloc /\ r.mem = hp.mem
           /\ r.max = hp.max /\ r.lim = hp.lim /\ r.cap = hp.cap
           /\ r.nxt = hp.nxt /\ r.min = hp.min /\ r.res = hp.res
           /\ r.upd = hp.upd /\ r.self = hp.self
BY DEF TableOnly, Codec

\* A codec that differs in its memory only.
MemoryOnly(r, hp) == r = [hp EXCEPT !.mem = r.mem]

\* What it shares with the other.
LEMMA MemoryOnlySame ==
    ASSUME NEW hp \in Codec, NEW r, MemoryOnly(r, hp)
    PROVE  /\ r.magic = hp.magic /\ r.realloc = hp.realloc
           /\ r.max = hp.max /\ r.lim = hp.lim /\ r.cap = hp.cap
           /\ r.nxt = hp.nxt /\ r.min = hp.min /\ r.res = hp.res
           /\ r.upd = hp.upd /\ r.self = hp.self
           /\ r.tbl = hp.tbl /\ r.len = hp.len
BY DEF MemoryOnly, Codec

\* A codec that hpack_resize has told a size of.
Lowest(hp, len) == IF hp.min < 0 \/ hp.min > len THEN len ELSE hp.min
Resized(r, hp, len) ==
    r = [hp EXCEPT !.mem = r.mem, !.nxt = len, !.min = Lowest(hp, len)]

\* What hpack_resize leaves as it was.
LEMMA ResizedSame ==
    ASSUME NEW hp \in Codec, NEW len \in Nat, NEW r, Resized(r, hp, len)
    PROVE  /\ r.magic = hp.magic /\ r.realloc = hp.realloc
           /\ r.max = hp.max /\ r.lim = hp.lim /\ r.cap = hp.cap
           /\ r.nxt = len /\ r.min = Lowest(hp, len) /\ r.res = hp.res
           /\ r.upd = hp.upd /\ r.self = hp.self
           /\ r.tbl = hp.tbl /\ r.len = hp.len
BY DEF Resized, Codec

\* A codec at the beginning of a call of hpack_decode.
Begun(r, hp, cut) ==
    r = [hp EXCEPT !.res = IF cut THEN "BLK" ELSE "OK",
                   !.upd = IF hp.res = "BLK" THEN hp.upd ELSE TRUE]

\* What hpack_decode begins with.
LEMMA BegunSame ==
    ASSUME NEW hp \in Codec, NEW cut \in BOOLEAN, NEW r, Begun(r, hp, cut)
    PROVE  /\ r.magic = hp.magic /\ r.realloc = hp.realloc /\ r.mem = hp.mem
           /\ r.max = hp.max /\ r.lim = hp.lim /\ r.cap = hp.cap
           /\ r.nxt = hp.nxt /\ r.min = hp.min /\ r.self = hp.self
           /\ r.res = IF cut THEN "BLK" ELSE "OK"
           /\ r.upd = IF hp.res = "BLK" THEN hp.upd ELSE TRUE
           /\ r.tbl = hp.tbl /\ r.len = hp.len
BY DEF Begun, Codec

\* A codec once hpack_decode has seen what the representation looks like.
HeadOf(ctx, rep) == [ctx EXCEPT !.upd = ctx.upd /\ LooksLikeUpdate(rep)]

\* Only the head of the block is closed.
LEMMA HeadOfSame ==
    ASSUME NEW ctx \in Codec, NEW rep, NEW r, r = HeadOf(ctx, rep)
    PROVE  /\ r \in Codec
           /\ r.magic = ctx.magic /\ r.realloc = ctx.realloc
           /\ r.mem = ctx.mem /\ r.max = ctx.max /\ r.lim = ctx.lim
           /\ r.cap = ctx.cap /\ r.nxt = ctx.nxt /\ r.min = ctx.min
           /\ r.res = ctx.res /\ r.self = ctx.self
           /\ r.tbl = ctx.tbl /\ r.len = ctx.len
           /\ r.upd = (ctx.upd /\ LooksLikeUpdate(rep))
<1>1. PICK upd \in BOOLEAN : upd = (ctx.upd /\ LooksLikeUpdate(rep))
  BY DEF Codec
<1>2. r = [ctx EXCEPT !.upd = upd]
  BY <1>1, Zenon DEF HeadOf
<1>3. r \in Codec /\ r.upd = upd
  BY <1>1, <1>2 DEF Codec
<1> QED
  BY <1>1, <1>2, <1>3 DEF Codec

\* HPT_adjust changes the table and its length only when the limit is within
\* the maximum.
LEMMA AdjustKeeps ==
    ASSUME NEW hp \in Codec, LaidOut(hp), hp.lim <= hp.max,
           hp.magic # "ABORTED", NEW need \in Int, hp.len <= need,
           NEW r, r = HPT_adjust(hp, need)
    PROVE  TableOnly(r, hp)
<1>1. PICK k : k = Kept(hp, need)
  OBVIOUS
<1>2. r = Evict(hp, k)
  BY <1>1 DEF HPT_adjust
<1>3. k \in 0..Len(hp.tbl)
  BY <1>1, KeptType
<1> QED
  BY <1>2, <1>3, EvictSound, Zenon DEF TableOnly

\* It does so when it is asked for no more than the table has.
LEMMA FitKeeps ==
    ASSUME NEW hp \in Codec, LaidOut(hp), hp.lim <= hp.max,
           hp.magic # "ABORTED", NEW r, r = HPT_adjust(hp, hp.len)
    PROVE  TableOnly(r, hp)
<1>1. PICK need \in Int : need = hp.len
  BY DEF Codec
<1>2. hp.len <= need /\ r = HPT_adjust(hp, need)
  BY <1>1
<1> QED
  BY <1>2, AdjustKeeps, Zenon

\* HPT_index as well.
LEMMA IndexKeeps ==
    ASSUME NEW hp \in Codec, LaidOut(hp), hp.lim <= hp.max,
           hp.magic # "ABORTED", NEW fld \in Field,
           NEW r, r = HPT_index(hp, fld)
    PROVE  TableOnly(r, hp)
<1>1. PICK size \in Nat : size = SizeOf(fld)
  BY SizeOfType
<1>2. PICK need \in Int : need = hp.len + size
  BY DEF Codec
<1>3. hp.len <= need /\ hp.lim \in Int /\ hp.max \in Int
  BY <1>1, <1>2 DEF Codec
<1>4. PICK fit : fit = HPT_adjust(hp, need)
  OBVIOUS
<1>5. TableOnly(fit, hp)
  BY <1>3, <1>4, AdjustKeeps, Zenon
<1>6. ~(hp.lim > hp.max)
  BY <1>3
<1>7. r \in {fit, Insert(fit, fld)}
  BY <1>1, <1>2, <1>4, <1>6, Zenon DEF HPT_index
<1>8. fit \in Codec /\ LaidOut(fit)
  BY <1>3, <1>4, AdjustSound, Zenon
<1>9. CASE r = Insert(fit, fld)
  <2>1. TableOnly(r, fit)
    BY <1>8, <1>9, InsertSound, Zenon DEF TableOnly
  <2> QED
    BY <2>1, <1>5 DEF Codec, TableOnly
<1> QED
  BY <1>5, <1>7, <1>9

\* hpack_realloc changes the memory, and only to what was asked for: its
\* assertion holds of a table that is within the memory.
LEMMA ReallocKeeps ==
    ASSUME NEW hp \in Codec, hp.self, hp.len <= hp.mem, NEW mem \in Nat, NEW oom,
           NEW g, g = hpack_realloc(hp, mem, oom)
    PROVE  /\ g.hp = [hp EXCEPT !.mem = g.hp.mem]
           /\ g.hp.mem = IF g.hp.mem = hp.mem THEN hp.mem ELSE mem
           /\ hp.mem <= g.hp.mem
           /\ g.hp.mem # hp.mem => hp.realloc
           /\ g.ret = "OK" => mem <= g.hp.mem
<1>0. mem <= hp.mem \/ ~(hp.len > mem)
  BY DEF Codec
<1>1. CASE mem <= hp.mem
  <2>1. g = [hp |-> hp, ret |-> "OK"]
    BY <1>1 DEF hpack_realloc
  <2> QED
    BY <1>1, <2>1 DEF Codec
<1>2. CASE ~(mem <= hp.mem) /\ (~hp.realloc \/ oom)
  <2>1. g.hp = hp /\ g.ret # "OK"
    BY <1>0, <1>2 DEF hpack_realloc
  <2> QED
    BY <2>1 DEF Codec
<1>3. CASE ~(mem <= hp.mem) /\ hp.realloc /\ ~oom
  <2>1. g = [hp |-> [hp EXCEPT !.mem = mem, !.self = TRUE], ret |-> "OK"]
    BY <1>0, <1>3 DEF hpack_realloc
  <2>2. [hp EXCEPT !.mem = mem, !.self = TRUE] = [hp EXCEPT !.mem = mem]
    BY DEF Codec
  <2> QED
    BY <1>3, <2>1, <2>2 DEF Codec
<1> QED
  BY <1>1, <1>2, <1>3
-----------------------------------------------------------------------------
(***************************************************************************)
(* Creation, resizing and trimming of a decoder.                           *)
(***************************************************************************)

\* A decoder is created with memory for its maximum.
LEMMA NewDecoder ==
    ASSUME NEW max \in Nat, NEW rsz \in Nat \cup {-1}, NEW realloc \in BOOLEAN,
           NEW r, r = hpack_decoder(max, rsz, realloc)
    PROVE  /\ DecoderHealthy(r) /\ r.magic = "DECODER"
           /\ r.res = "OK" /\ r.max = max /\ r.lim = -1
           /\ r.nxt = -1 /\ r.min = -1 /\ r.tbl = <<>> /\ r.len = 0
<1>1. PICK mem \in Nat : mem = (IF rsz >= max THEN rsz ELSE max) /\ max <= mem
  OBVIOUS
<1>2. r = hpack_new("DECODER", mem, max, realloc)
  BY <1>1 DEF hpack_decoder
<1>3. Healthy(r)
  BY <1>2, NewHealthy
<1>4. /\ r.magic = "DECODER" /\ r.self /\ r.res = "OK" /\ r.lim = -1
      /\ r.max = max /\ r.mem = mem /\ r.nxt = -1 /\ r.min = -1
      /\ r.tbl = <<>> /\ r.len = 0
  BY <1>2 DEF hpack_new
<1> QED
  BY <1>1, <1>3, <1>4 DEF DecoderHealthy

\* The table of a decoder is within its memory.
LEMMA DecoderRoom ==
    ASSUME NEW hp, DecoderHealthy(hp), hp.magic = "DECODER"
    PROVE  hp.len <= hp.mem
<1>1. hp \in Codec /\ Fits(hp) /\ hp.lim <= hp.max /\ hp.max <= hp.mem
  BY DEF DecoderHealthy, Healthy, Sound
<1> QED
  BY <1>1 DEF Fits, HPACK_LIMIT, Codec

\* A resize is recorded, refused for a block in progress, or leaves the decoder
\* defunct; the memory is there once it is recorded.
LEMMA ResizeDecoder ==
    ASSUME NEW hp, DecoderHealthy(hp), hp.magic = "DECODER",
           NEW len \in Nat, NEW oom, NEW r, r = hpack_resize(hp, len, oom)
    PROVE  /\ DecoderHealthy(r)
           /\ r.magic = "DECODER" =>
                IF hp.res = "BLK" THEN r = hp ELSE Resized(r, hp, len)
<1>1. hp \in Codec /\ hp.self /\ hp.res \in {"OK", "BLK"}
  BY DEF DecoderHealthy, Healthy
<1>2. Healthy(r)
  BY ResizeHealthy DEF DecoderHealthy
<1>3. PICK g : g = hpack_realloc(hp, len, oom)
  OBVIOUS
<1>4. /\ g.hp = [hp EXCEPT !.mem = g.hp.mem]
      /\ hp.mem <= g.hp.mem
      /\ g.ret = "OK" => len <= g.hp.mem
  BY <1>1, <1>3, ReallocKeeps, DecoderRoom
<1>5. ResizeMemory(hp, len) = len
  BY DEF ResizeMemory
<1>6. \A room : ResizeAsserts(hp, room)
  BY DEF ResizeAsserts
<1>7. PICK m \in Nat : m = Lowest(hp, len)
  BY <1>1 DEF Codec, Lowest
<1>8. PICK gm \in Nat : gm = g.hp.mem
  <2>1. Healthy(g.hp)
    BY <1>3, ReallocHealthy DEF DecoderHealthy
  <2> QED
    BY <2>1 DEF Healthy, Codec
<1>9. \/ hp.res = "BLK" /\ r = hp
      \/ hp.res = "OK" /\ r = Defunct(hp)
      \/ /\ hp.res = "OK" /\ g.ret = "OK"
         /\ r = [g.hp EXCEPT !.nxt = len,
                             !.min = IF @ < 0 \/ @ > len THEN len ELSE @]
  BY <1>1, <1>3, <1>5, <1>6, Zenon DEF hpack_resize
<1>10. CASE r = hp /\ hp.res = "BLK"
  BY <1>10
<1>11. CASE r = Defunct(hp)
  <2>1. r.magic = "DEFUNCT"
    BY <1>1, <1>11 DEF Defunct, Codec
  <2> QED
    BY <1>2, <2>1 DEF DecoderHealthy
<1>12. CASE /\ hp.res = "OK" /\ g.ret = "OK"
            /\ r = [g.hp EXCEPT !.nxt = len,
                                !.min = IF @ < 0 \/ @ > len THEN len ELSE @]
  <2>1. r = [hp EXCEPT !.mem = gm, !.nxt = len, !.min = m]
    BY <1>1, <1>4, <1>7, <1>8, <1>12 DEF Codec, Lowest
  <2>2. /\ r.magic = "DECODER" /\ r.self /\ r.res = "OK" /\ r.lim = hp.lim
        /\ r.max = hp.max /\ r.mem = gm /\ r.nxt = len
    BY <1>1, <1>12, <2>1 DEF Codec
  <2>3. hp.max <= gm /\ len <= gm
    <3>1. hp.max <= hp.mem /\ hp.max \in Nat /\ hp.mem \in Nat
      BY <1>1 DEF DecoderHealthy, Codec
    <3> QED
      BY <3>1, <1>4, <1>8, <1>12
  <2>4. DecoderHealthy(r)
    BY <1>2, <2>2, <2>3 DEF DecoderHealthy
  <2>5. Resized(r, hp, len)
    BY <1>7, <2>1, <2>2 DEF Resized
  <2> QED
    BY <1>12, <2>4, <2>5
<1> QED
  BY <1>9, <1>10, <1>11, <1>12

\* Trimming keeps memory for the maximum, which nothing is to replace.
LEMMA TrimDecoderHealthy ==
    ASSUME NEW hp, DecoderHealthy(hp), hp.magic = "DECODER", hp.nxt < 0,
           NEW oom, NEW r, r = hpack_trim(hp, oom, FALSE)
    PROVE  /\ DecoderHealthy(r)
           /\ MemoryOnly(r, hp)
<1>1. /\ hp \in Codec /\ hp.self /\ hp.res \in {"OK", "BLK"}
      /\ hp.lim <= hp.max /\ hp.lim \in Int /\ hp.max \in Nat
      /\ hp.max <= hp.mem
  BY DEF DecoderHealthy, Healthy, Codec
<1>2. Healthy(r)
  BY TrimHealthy DEF DecoderHealthy
<1>3. \/ r = hp
      \/ r = [hp EXCEPT !.mem = hp.max, !.self = @ /\ ~FALSE]
  <2>1. hp.magic # "ENCODER" /\ ~(hp.lim > hp.max)
        /\ (hp.res # "OK" => hp.res = "BLK")
    BY <1>1
  <2> QED
    BY <2>1, Zenon DEF hpack_trim
<1>4. CASE r = hp
  BY <1>1, <1>4 DEF Codec, MemoryOnly
<1>5. CASE r = [hp EXCEPT !.mem = hp.max, !.self = @ /\ ~FALSE]
  <2>1. r = [hp EXCEPT !.mem = hp.max]
    BY <1>1, <1>5 DEF Codec
  <2>2. /\ r.magic = "DECODER" /\ r.self /\ r.res = hp.res /\ r.lim = hp.lim
        /\ r.max = hp.max /\ r.mem = hp.max /\ r.nxt = hp.nxt
    BY <1>1, <2>1 DEF Codec
  <2>3. hp.nxt <= hp.max /\ hp.max <= hp.max
    BY <1>1 DEF Codec
  <2> QED
    BY <1>1, <1>2, <2>1, <2>2, <2>3 DEF DecoderHealthy, MemoryOnly
<1> QED
  BY <1>3, <1>4, <1>5

\* Listing the tables leaves a decoder between blocks.
LEMMA ForeachDecoder ==
    ASSUME NEW hp, DecoderHealthy(hp), hp.magic = "DECODER",
           NEW r, r = hpack_foreach(hp)
    PROVE  DecoderHealthy(r)
<1>1. hp \in Codec
  BY DEF DecoderHealthy, Healthy
<1>2. Healthy(r)
  BY ForeachHealthy DEF DecoderHealthy
<1>3. /\ r.magic = "DECODER" /\ r.self /\ r.res = "OK" /\ r.lim = hp.lim
      /\ r.max = hp.max /\ r.mem = hp.mem /\ r.nxt = hp.nxt
  BY <1>1 DEF hpack_foreach, Codec
<1> QED
  BY <1>2, <1>3 DEF DecoderHealthy
-----------------------------------------------------------------------------
(***************************************************************************)
(* hpack_decode.  A call that is refused leaves the decoder defunct.       *)
(***************************************************************************)

\* A refusal, by any of the functions below hpack_decode.
LEMMA RefuseDecoder ==
    ASSUME NEW hp, Healthy(hp), hp.magic = "DECODER", NEW err \in Results,
           NEW d, d = Refuse(hp, err)
    PROVE  DecoderHealthy(d.hp) /\ d.hp.magic # "DECODER"
<1>1. Healthy(d.hp)
  BY RefuseHealthy
<1>2. d.hp = Defunct([hp EXCEPT !.res = err])
  BY DEF Refuse
<1>3. d.hp.magic = "DEFUNCT"
  BY <1>2 DEF Defunct, Healthy, Codec
<1> QED
  BY <1>1, <1>3 DEF DecoderHealthy

\* A decoder that differs in its context only is as healthy.
LEMMA ContextDecoder ==
    ASSUME NEW hp, DecoderHealthy(hp), hp.magic = "DECODER",
           NEW res \in {"OK", "BLK"}, NEW upd \in BOOLEAN,
           NEW r, r = [hp EXCEPT !.res = res, !.upd = upd]
    PROVE  DecoderHealthy(r) /\ r.magic = "DECODER"
<1>1. Healthy(r)
  BY ContextHealthy DEF DecoderHealthy, Results
<1>2. /\ r.magic = "DECODER" /\ r.self = hp.self /\ r.res = res
      /\ r.lim = hp.lim /\ r.max = hp.max /\ r.mem = hp.mem /\ r.nxt = hp.nxt
  BY DEF DecoderHealthy, Healthy, Codec
<1> QED
  BY <1>1, <1>2 DEF DecoderHealthy

\* hpack_decode begins with a decoder that is between two calls.
LEMMA BeginDecoder ==
    ASSUME NEW hp, DecoderHealthy(hp), hp.magic = "DECODER",
           NEW cut \in BOOLEAN, NEW r, r = BeginDecode(hp, cut)
    PROVE  /\ DecoderHealthy(r) /\ r.magic = "DECODER"
           /\ Begun(r, hp, cut)
<1>1. hp \in Codec /\ hp.self /\ hp.res \in {"OK", "BLK"}
  BY DEF DecoderHealthy, Healthy
<1>2. PICK res \in {"OK", "BLK"} : res = IF cut THEN "BLK" ELSE "OK"
  OBVIOUS
<1>3. PICK upd \in BOOLEAN : upd = IF hp.res = "BLK" THEN hp.upd ELSE TRUE
  BY <1>1 DEF Codec
<1>4. r = [hp EXCEPT !.res = res, !.upd = upd]
  BY <1>1, <1>2, <1>3, Zenon DEF BeginDecode
<1>5. Begun(r, hp, cut)
  BY <1>2, <1>3, <1>4, Zenon DEF Begun
<1>6. DecoderHealthy(r) /\ r.magic = "DECODER"
  BY <1>4, ContextDecoder
<1> QED
  BY <1>5, <1>6

\* An update that is accepted replaces the limit by the size it signals, and
\* the maximum by the last size announced once that one has come.
LEMMA UpdateDecoder ==
    ASSUME NEW hp, DecoderHealthy(hp), hp.magic = "DECODER", NEW sz \in Nat,
           NEW d, d = hpack_decode_update(hp, sz), NEW s, s = Settle(hp, sz)
    PROVE  /\ DecoderHealthy(d.hp)
           /\ d.hp.magic = "DECODER" =>
                /\ hp.upd /\ ExpectedUpdate(hp, sz) /\ sz <= SettledMax(hp)
                /\ d.hp = HPT_adjust(s, s.len)
                /\ TableOnly(d.hp, s)
                /\ d.ret = d.hp.res /\ d.fld = NoField
                /\ s \in Codec /\ LaidOut(s)
           /\ hp.upd /\ ExpectedUpdate(hp, sz) /\ sz <= SettledMax(hp)
                => d.hp.magic = "DECODER"
<1>1. /\ hp \in Codec /\ LaidOut(hp) /\ Ordered(hp) /\ Healthy(hp)
      /\ hp.self /\ hp.res \in {"OK", "BLK"}
      /\ hp.lim <= hp.max /\ hp.max <= hp.mem /\ hp.nxt <= hp.mem
  BY DEF DecoderHealthy, Healthy, Sound
<1>2. Healthy(d.hp)
  BY <1>1, DecodeUpdateHealthy
<1>3. CASE ~hp.upd \/ ~ExpectedUpdate(hp, sz) \/ sz > SettledMax(hp)
  <2>1. d = Refuse(hp, "UPD") \/ d = Refuse(hp, "LEN")
    BY <1>3 DEF hpack_decode_update
  <2>2. "UPD" \in Results /\ "LEN" \in Results
    BY DEF Results
  <2>3. ~(hp.upd /\ ExpectedUpdate(hp, sz) /\ sz <= SettledMax(hp))
    <3>1. SettledMax(hp) \in Int
      BY <1>1 DEF SettledMax, Codec
    <3> QED
      BY <1>3, <3>1
  <2> QED
    BY <1>1, <2>1, <2>2, <2>3, RefuseDecoder
<1>4. CASE hp.upd /\ ExpectedUpdate(hp, sz) /\ ~(sz > SettledMax(hp))
  <2>1. PICK m \in Nat : m = SettledMax(hp)
    BY <1>1 DEF SettledMax, Codec
  <2>2. /\ s \in Codec /\ LaidOut(s) /\ s.lim <= s.max
        /\ s.magic = "DECODER" /\ s.self /\ s.res = hp.res
        /\ s.max <= s.mem /\ s.nxt <= s.mem
    <3>1. CASE hp.min >= 0 /\ hp.min < hp.nxt
      <4>1. s = [hp EXCEPT !.min = hp.nxt, !.lim = sz]
        BY <3>1 DEF Settle
      <4>2. PICK n \in Nat : n = hp.nxt
        BY <1>1, <3>1 DEF Codec, Ordered
      <4>3. s = [hp EXCEPT !.min = n, !.lim = sz]
        BY <4>1, <4>2
      <4>4. /\ s \in Codec /\ s.tbl = hp.tbl /\ s.len = hp.len /\ s.lim = sz
            /\ s.magic = "DECODER" /\ s.self /\ s.res = hp.res
            /\ s.max = hp.max /\ s.mem = hp.mem /\ s.nxt = hp.nxt
        BY <1>1, <4>2, <4>3 DEF Codec
      <4>5. m = hp.max
        BY <1>1, <2>1, <3>1 DEF SettledMax, Codec
      <4> QED
        BY <1>1, <1>4, <2>1, <4>4, <4>5 DEF LaidOut
    <3>2. CASE ~(hp.min >= 0 /\ hp.min < hp.nxt)
      <4>1. s = [hp EXCEPT !.max = m, !.lim = sz,
                           !.min = -1, !.nxt = -1, !.upd = FALSE]
        BY <2>1, <3>2, Zenon DEF Settle
      <4>2. /\ s \in Codec /\ s.tbl = hp.tbl /\ s.len = hp.len /\ s.lim = sz
            /\ s.magic = "DECODER" /\ s.self /\ s.res = hp.res
            /\ s.max = m /\ s.mem = hp.mem /\ s.nxt = -1
        BY <1>1, <4>1 DEF Codec
      <4>3. m <= hp.mem /\ hp.mem \in Nat
        BY <1>1, <2>1 DEF SettledMax, Codec
      <4> QED
        BY <1>1, <1>4, <2>1, <4>2, <4>3 DEF LaidOut
    <3> QED
      BY <3>1, <3>2
  <2>3. PICK a : a = HPT_adjust(s, s.len)
    OBVIOUS
  <2>4. s \in Codec /\ LaidOut(s) /\ s.lim <= s.max /\ s.magic # "ABORTED"
    BY <2>2
  <2>5. TableOnly(a, s)
    BY <2>3, <2>4, FitKeeps, Zenon
  <2>7. d = Accept(a, NoField)
    BY <1>4, <2>3 DEF hpack_decode_update
  <2>8. d.hp = a /\ d.ret = a.res /\ d.fld = NoField
    BY <2>7 DEF Accept
  <2>9. /\ a.magic = "DECODER" /\ a.self /\ a.res = hp.res /\ a.lim = s.lim
        /\ a.max = s.max /\ a.mem = s.mem /\ a.nxt = s.nxt
    BY <2>2, <2>5, TableOnlySame
  <2>10. DecoderHealthy(a)
    BY <1>1, <1>2, <2>2, <2>8, <2>9 DEF DecoderHealthy
  <2>11. sz <= SettledMax(hp)
    BY <1>4, <2>1
  <2> QED
    BY <1>4, <2>2, <2>3, <2>5, <2>8, <2>9, <2>10, <2>11
<1> QED
  BY <1>3, <1>4

\* A field, indexed or literal, changes nothing but the table.
LEMMA FieldDecoder ==
    ASSUME NEW hp, DecoderHealthy(hp), hp.magic = "DECODER",
           NEW rep \in Rep, rep.typ # "UPD", NEW d,
           d = IF rep.typ = "IDX" THEN hpack_decode_indexed(hp, rep)
               ELSE hpack_decode_field(hp, rep)
    PROVE  /\ DecoderHealthy(d.hp)
           /\ d.hp.magic = "DECODER" =>
                /\ TableOnly(d.hp, hp)
                /\ d.ret = hp.res
<1>1. /\ hp \in Codec /\ LaidOut(hp) /\ Healthy(hp) /\ hp.lim <= hp.max
      /\ hp.magic # "ABORTED"
  BY DEF DecoderHealthy, Healthy, Sound
<1>2. "IDX" \in Results /\ "CHR" \in Results
  BY DEF Results
<1>3. rep.fld \in Field
  BY DEF Rep
<1>4. \/ d \in {Refuse(hp, "IDX"), Refuse(hp, "CHR")}
      \/ \E fld : d = Accept(hp, fld)
      \/ \E fld \in Field : d = Accept(HPT_index(hp, fld), fld)
  <2>1. CASE rep.typ = "IDX"
    BY <2>1, Zenon DEF hpack_decode_indexed
  <2>2. CASE rep.typ # "IDX" /\ rep.num # 0 /\ rep.num \notin Indices(hp)
    BY <2>2, Zenon DEF hpack_decode_field
  <2>3. CASE /\ rep.typ # "IDX"
             /\ ~(rep.num # 0 /\ rep.num \notin Indices(hp))
    <3>1. PICK fld : fld = [nam |-> IF rep.num = 0 THEN rep.fld.nam
                                    ELSE HPT_field(hp, rep.num).nam,
                            val |-> rep.fld.val]
      OBVIOUS
    <3>2. fld \in Field
      <4>1. rep.num # 0 => HPT_field(hp, rep.num) \in Field
        BY <1>1, <2>3, FieldType
      <4> QED
        BY <1>3, <3>1, <4>1 DEF Field
    <3>3. d \in {Refuse(hp, "CHR"), Accept(HPT_index(hp, fld), fld),
                 Accept(hp, fld)}
      BY <2>3, <3>1, Zenon DEF hpack_decode_field
    <3> QED
      BY <3>2, <3>3
  <2> QED
    BY <2>1, <2>2, <2>3
<1>5. CASE d \in {Refuse(hp, "IDX"), Refuse(hp, "CHR")}
  BY <1>1, <1>2, <1>5, RefuseDecoder
<1>6. ASSUME NEW fld, d = Accept(hp, fld)
      PROVE  /\ DecoderHealthy(d.hp)
             /\ TableOnly(d.hp, hp)
             /\ d.ret = hp.res
  <2>1. d.hp = hp /\ d.ret = hp.res
    BY <1>6 DEF Accept
  <2> QED
    BY <1>1, <2>1 DEF Codec, TableOnly
<1>7. ASSUME NEW fld \in Field, d = Accept(HPT_index(hp, fld), fld)
      PROVE  /\ DecoderHealthy(d.hp)
             /\ TableOnly(d.hp, hp)
             /\ d.ret = hp.res
  <2>1. PICK i : i = HPT_index(hp, fld)
    OBVIOUS
  <2>2. d.hp = i /\ d.ret = i.res
    BY <1>7, <2>1 DEF Accept
  <2>3. Healthy(i)
    BY <1>1, <2>1, IndexHealthy
  <2>4. TableOnly(i, hp)
    BY <1>1, <2>1, IndexKeeps, Zenon
  <2>5. /\ i.magic = "DECODER" /\ i.self = hp.self /\ i.res = hp.res
        /\ i.lim = hp.lim /\ i.max = hp.max /\ i.mem = hp.mem
        /\ i.nxt = hp.nxt
    BY <1>1, <2>4, TableOnlySame
  <2>6. DecoderHealthy(i)
    BY <2>3, <2>5 DEF DecoderHealthy
  <2> QED
    BY <2>2, <2>4, <2>5, <2>6
<1> QED
  BY <1>4, <1>5, <1>6, <1>7

\* hpack_decode keeps a decoder healthy, whatever the representation: no
\* assertion fails.  Unless it is refused, an update settles the sizes and a
\* field leaves them alone; a field that does not look like an update finds no
\* resize that waits and closes the head of the block.
LEMMA DecodeDecoder ==
    ASSUME NEW hp, DecoderHealthy(hp), hp.magic = "DECODER", NEW rep \in Rep,
           NEW d, d = hpack_decode(hp, rep),
           NEW ctx, ctx = BeginDecode(hp, rep.cut)
    PROVE  /\ DecoderHealthy(d.hp)
           /\ d.hp.magic = "DECODER" =>
                /\ d.ret = d.hp.res
                /\ IF rep.typ = "UPD"
                   THEN /\ ctx.upd /\ ExpectedUpdate(ctx, rep.num)
                        /\ rep.num <= SettledMax(ctx)
                        /\ d.fld = NoField
                        /\ TableOnly(d.hp, Settle(ctx, rep.num))
                   ELSE /\ ~LooksLikeUpdate(rep) => ctx.nxt < 0
                        /\ TableOnly(d.hp, HeadOf(ctx, rep))
<1>1. rep.cut \in BOOLEAN /\ rep.num \in Nat
  BY DEF Rep
<1>2. DecoderHealthy(ctx) /\ ctx.magic = "DECODER"
  BY <1>1, BeginDecoder
<1>3. ctx \in Codec /\ Ordered(ctx) /\ ctx.res \in {"OK", "BLK"}
  BY <1>2 DEF DecoderHealthy, Healthy
<1>4. CASE rep.typ = "UPD"
  <2>1. PICK n \in Nat : n = rep.num
    BY <1>1
  <2>2. PICK s : s = Settle(ctx, n)
    OBVIOUS
  <2>3. d = hpack_decode_update(ctx, n)
    BY <1>4, <2>1 DEF hpack_decode
  <2>4. /\ DecoderHealthy(d.hp)
        /\ d.hp.magic = "DECODER" =>
             /\ ctx.upd /\ ExpectedUpdate(ctx, n) /\ n <= SettledMax(ctx)
             /\ TableOnly(d.hp, s)
             /\ d.ret = d.hp.res /\ d.fld = NoField
    BY <1>2, <2>1, <2>2, <2>3, UpdateDecoder
  <2> QED
    BY <1>4, <2>1, <2>2, <2>4
<1>5. CASE rep.typ # "UPD" /\ ~LooksLikeUpdate(rep) /\ ctx.nxt >= 0
  <2>1. d = [hp |-> Defunct(ctx), ret |-> "RSZ", fld |-> NoField]
    BY <1>5, Zenon DEF hpack_decode
  <2>2. d.hp = Defunct(ctx)
    BY <2>1
  <2>3. d.hp.magic = "DEFUNCT"
    BY <1>2, <1>3, <2>2 DEF Defunct, Codec
  <2>4. Healthy(d.hp)
    BY <1>2, <2>2, FailureHealthy DEF DecoderHealthy
  <2> QED
    BY <2>3, <2>4 DEF DecoderHealthy
<1>6. CASE rep.typ # "UPD" /\ ~(~LooksLikeUpdate(rep) /\ ctx.nxt >= 0)
  <2>1. ~LooksLikeUpdate(rep) => ctx.min < 0 /\ ctx.nxt < 0
    BY <1>3, <1>6 DEF Ordered, Codec
  <2>2. PICK upd \in BOOLEAN : upd = (ctx.upd /\ LooksLikeUpdate(rep))
    BY <1>3 DEF Codec
  <2>3. PICK body : body = [ctx EXCEPT !.upd = upd]
    OBVIOUS
  <2>4. body = IF LooksLikeUpdate(rep) THEN ctx
               ELSE IF ctx.min < 0 THEN [ctx EXCEPT !.upd = FALSE]
               ELSE Abort(ctx)
    <3>1. CASE LooksLikeUpdate(rep)
      <4>1. upd = ctx.upd
        BY <1>3, <2>2, <3>1 DEF Codec
      <4> QED
        BY <1>3, <2>3, <3>1, <4>1 DEF Codec
    <3>2. CASE ~LooksLikeUpdate(rep)
      <4>1. upd = FALSE
        BY <2>2, <3>2
      <4> QED
        BY <2>1, <2>3, <3>2, <4>1
    <3> QED
      BY <3>1, <3>2
  <2>5. DecoderHealthy(body) /\ body.magic = "DECODER" /\ body.res = ctx.res
    <3>1. body = [ctx EXCEPT !.res = ctx.res, !.upd = upd]
      BY <1>3, <2>3 DEF Codec
    <3>2. DecoderHealthy(body) /\ body.magic = "DECODER"
      BY <1>2, <1>3, <3>1, ContextDecoder
    <3> QED
      BY <1>3, <2>3, <3>2 DEF Codec
  <2>6. d = IF rep.typ = "IDX" THEN hpack_decode_indexed(body, rep)
            ELSE hpack_decode_field(body, rep)
    BY <1>6, <2>4, Zenon DEF hpack_decode
  <2>7. /\ DecoderHealthy(d.hp)
        /\ d.hp.magic = "DECODER" =>
             /\ TableOnly(d.hp, body)
             /\ d.ret = body.res
    BY <1>6, <2>5, <2>6, FieldDecoder
  <2>8. body \in Codec /\ body = HeadOf(ctx, rep)
    BY <1>3, <2>2, <2>3 DEF Codec, HeadOf
  <2>9. d.hp.magic = "DECODER" => d.ret = d.hp.res
    BY <2>7, <2>8, TableOnlySame
  <2> QED
    BY <1>6, <2>1, <2>7, <2>8, <2>9
<1> QED
  BY <1>4, <1>5, <1>6
-----------------------------------------------------------------------------
(***************************************************************************)
(* Two codecs with the same table and the same limit.                      *)
(***************************************************************************)

\* What HPT_adjust and HPT_index depend on.
Alike(hp, g) ==
    hp.tbl = g.tbl /\ hp.len = g.len /\ HPACK_LIMIT(hp) = HPACK_LIMIT(g)

\* Both evict the same entries.
LEMMA AdjustAlike ==
    ASSUME NEW hp \in Codec, NEW g \in Codec, Alike(hp, g),
           hp.lim <= hp.max, g.lim <= g.max, NEW need \in Int,
           NEW r, r = HPT_adjust(hp, need), NEW s, s = HPT_adjust(g, need)
    PROVE  r.tbl = s.tbl /\ r.len = s.len
<1>1. hp.tbl = g.tbl /\ hp.len = g.len /\ HPACK_LIMIT(hp) = HPACK_LIMIT(g)
  BY DEF Alike
<1>2. Kept(hp, need) = Kept(g, need)
  BY <1>1, Zenon DEF Kept
<1>3. PICK k : k = Kept(hp, need)
  OBVIOUS
<1>4. r = Evict(hp, k) /\ s = Evict(g, k)
  BY <1>2, <1>3 DEF HPT_adjust
<1>5. PICK l : l = hp.len - (EndOf(hp.tbl, Len(hp.tbl)) - EndOf(hp.tbl, k))
  OBVIOUS
<1>6. /\ r = [hp EXCEPT !.tbl = SubSeq(hp.tbl, 1, k), !.len = l]
      /\ s = [g EXCEPT !.tbl = SubSeq(hp.tbl, 1, k), !.len = l]
  BY <1>1, <1>4, <1>5, Zenon DEF Evict
<1> QED
  BY <1>6 DEF Codec

\* Both insert the same entry, or none.
LEMMA IndexAlike ==
    ASSUME NEW hp \in Codec, NEW g \in Codec, Alike(hp, g),
           hp.lim <= hp.max, g.lim <= g.max, LaidOut(hp), LaidOut(g),
           hp.magic # "ABORTED", g.magic # "ABORTED", NEW fld \in Field,
           NEW r, r = HPT_index(hp, fld), NEW s, s = HPT_index(g, fld)
    PROVE  r.tbl = s.tbl /\ r.len = s.len
<1>1. hp.tbl = g.tbl /\ hp.len = g.len /\ HPACK_LIMIT(hp) = HPACK_LIMIT(g)
  BY DEF Alike
<1>2. PICK size \in Nat : size = SizeOf(fld)
  BY SizeOfType
<1>3. PICK need \in Int : need = hp.len + size
  BY DEF Codec
<1>4. hp.len <= need /\ g.len <= need
  BY <1>1, <1>2, <1>3 DEF Codec
<1>5. PICK f : f = HPT_adjust(hp, need)
  OBVIOUS
<1>6. PICK e : e = HPT_adjust(g, need)
  OBVIOUS
<1>7. f.tbl = e.tbl /\ f.len = e.len
  BY <1>5, <1>6, AdjustAlike
<1>8. f \in Codec /\ e \in Codec
  BY <1>4, <1>5, <1>6, AdjustSound, Zenon
<1>9. ~(hp.lim > hp.max) /\ ~(g.lim > g.max)
  BY DEF Codec
<1>10. /\ r = IF size > HPACK_LIMIT(hp) THEN f ELSE Insert(f, fld)
       /\ s = IF size > HPACK_LIMIT(hp) THEN e ELSE Insert(e, fld)
  BY <1>1, <1>2, <1>3, <1>5, <1>6, <1>9, Zenon DEF HPT_index
<1>11. CASE size > HPACK_LIMIT(hp)
  BY <1>7, <1>10, <1>11
<1>12. CASE ~(size > HPACK_LIMIT(hp))
  <2> DEFINE moved == [i \in DOMAIN f.tbl |->
                         [f.tbl[i] EXCEPT !.pos = @ + SizeOf(fld)]]
             tbl == <<[fld |-> fld, pos |-> 0]>> \o moved
             len == f.len + SizeOf(fld)
  <2>1. r = Insert(f, fld) /\ s = Insert(e, fld)
    BY <1>10, <1>12
  <2>2. /\ r = [f EXCEPT !.tbl = tbl, !.len = len]
        /\ s = [e EXCEPT !.tbl = tbl, !.len = len]
    BY <1>7, <2>1, Zenon DEF Insert
  <2> HIDE DEF tbl, len
  <2> QED
    BY <1>8, <2>2 DEF Codec
<1> QED
  BY <1>11, <1>12
=============================================================================
