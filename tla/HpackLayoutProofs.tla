------------------------- MODULE HpackLayoutProofs -------------------------
(***************************************************************************)
(* The octets of an encoder's table, for any memory, limits and strings:   *)
(* as long as names are short they are the entries of a dynamic table.     *)
(***************************************************************************)
EXTENDS HpackLayout, Intervals, TLAPS

\* A name with its null character fits in the padding of an entry, and in tmp.
ShortNames == \A nam \in Name : NameSize[nam] < Pad /\ NameSize[nam] < Chunk

(***************************************************************************)
(* Sizes.                                                                  *)
(***************************************************************************)

\* Those of a field, and of its entry.
LEMMA SizesType ==
    ASSUME NEW fld \in Field
    PROVE  /\ Pad \in Nat /\ Header = 4 + Pad
           /\ NameSize[fld.nam] \in Nat /\ NameSize[fld.nam] > 0
           /\ ValueSize[fld.val] \in Nat
           /\ SizeOf(fld) = Header + NameSize[fld.nam] + ValueSize[fld.val] + 2
           /\ SizeOf(fld) \in Nat /\ SizeOf(fld) > Header
<1>1. fld.nam \in Name /\ fld.val \in Value
  BY DEF Field
<1>2. /\ NameSize[fld.nam] \in Nat /\ NameSize[fld.nam] > 0
      /\ ValueSize[fld.val] \in Nat /\ Pad \in Nat
  BY <1>1, LayoutAssumption
<1> QED
  BY <1>2 DEF SizeOf, Overhead, Header
-----------------------------------------------------------------------------
(***************************************************************************)
(* Entries: what an entry is depends on the cells it takes, but for its    *)
(* padding.                                                                *)
(***************************************************************************)

\* The cells of fld at off are in m2 at off2, where pre2 links the entry.
Moved(m, off, m2, off2, fld, pre2) ==
    /\ m2[off2 + 1] = Cell("pre_sz", pre2)
    /\ m2[off2] = m[off] /\ m2[off2 + 2] = m[off + 2] /\ m2[off2 + 3] = m[off + 3]
    /\ \A j \in Header..(SizeOf(fld) - 1) : m2[off2 + j] = m[off + j]

\* An entry that is moved.
LEMMA EntryMoved ==
    ASSUME NEW m, NEW off \in Nat, NEW m2, NEW off2 \in Nat, NEW fld \in Field,
           NEW pre, NEW pre2, EntryAt(m, off, fld, pre),
           Moved(m, off, m2, off2, fld, pre2)
    PROVE  EntryAt(m2, off2, fld, pre2)
<1>1. PICK h \in Nat : h = Header
  BY SizesType
<1>2. PICK ns \in Nat : ns = NameSize[fld.nam]
  BY SizesType
<1>3. PICK vs \in Nat : vs = ValueSize[fld.val]
  BY SizesType
<1>4. SizeOf(fld) = h + ns + vs + 2
  BY <1>1, <1>2, <1>3, SizesType
<1>5. \A j \in h..(h + ns + vs + 1) : m2[off2 + j] = m[off + j]
  BY <1>1, <1>4 DEF Moved
<1>6. ASSUME NEW i \in 0..ns
      PROVE  m2[off2 + h + i] = m[off + h + i]
  <2>1. PICK j : j = h + i
    OBVIOUS
  <2>2. j \in h..(h + ns + vs + 1)
    BY <2>1
  <2>3. off2 + h + i = off2 + j /\ off + h + i = off + j
    BY <2>1
  <2> QED
    BY <1>5, <2>2, <2>3
<1>7. ASSUME NEW i \in 0..vs
      PROVE  m2[off2 + h + ns + 1 + i] = m[off + h + ns + 1 + i]
  <2>1. PICK j : j = h + ns + 1 + i
    OBVIOUS
  <2>2. j \in h..(h + ns + vs + 1)
    BY <2>1
  <2>3. off2 + h + ns + 1 + i = off2 + j /\ off + h + ns + 1 + i = off + j
    BY <2>1
  <2> QED
    BY <1>5, <2>2, <2>3
<1>8. \A i \in 0..NameSize[fld.nam] :
         m2[off2 + Header + i] = String(fld.nam, NameSize[fld.nam])[i]
  BY <1>1, <1>2, <1>6, Zenon DEF EntryAt
<1>9. \A i \in 0..ValueSize[fld.val] :
         m2[off2 + Header + NameSize[fld.nam] + 1 + i]
         = String(fld.val, ValueSize[fld.val])[i]
  BY <1>1, <1>2, <1>3, <1>7, Zenon DEF EntryAt
<1> QED
  BY <1>8, <1>9, Zenon DEF EntryAt, Moved
-----------------------------------------------------------------------------
(***************************************************************************)
(* Copying and moving cells.                                               *)
(***************************************************************************)

Copied(c, m, to, cells) ==
    /\ DOMAIN c = DOMAIN m
    /\ \A i \in DOMAIN m : i - to \in DOMAIN cells => c[i] = cells[i - to]
    /\ \A i \in DOMAIN m : i - to \notin DOMAIN cells => c[i] = m[i]

MovedTo(c, m, to, from, n) ==
    /\ DOMAIN c = DOMAIN m
    /\ \A i \in DOMAIN m : i \in to..(to + n - 1) => c[i] = m[i - to + from]
    /\ \A i \in DOMAIN m : i \notin to..(to + n - 1) => c[i] = m[i]

\* memcpy.
LEMMA CopyIs ==
    ASSUME NEW m, NEW to, NEW cells
    PROVE  Copied(Copy(m, to, cells), m, to, cells)
BY DEF Copy, Copied

\* memmove.
LEMMA MoveIs ==
    ASSUME NEW m, NEW to, NEW from, NEW n
    PROVE  MovedTo(Move(m, to, from, n), m, to, from, n)
BY DEF Move, MovedTo

\* What lies behind the table is forgotten.
LEMMA ForgetIs ==
    ASSUME NEW m, NEW size \in Int
    PROVE  /\ DOMAIN Forget(m, size) = DOMAIN m
           /\ \A i \in DOMAIN m : i < size => Forget(m, size)[i] = m[i]
BY DEF Forget
-----------------------------------------------------------------------------
(***************************************************************************)
(* A table: n entries that take size cells.                                *)
(***************************************************************************)
Laid(m, flds, end, n, size) ==
    /\ DOMAIN m = 0..(Memory - 1)
    /\ flds \in Seq(Field) /\ n = Len(flds) /\ n \in Nat
    /\ size \in Nat /\ size <= Memory /\ end[n] = size
    /\ \A k \in 0..n : end[k] \in Nat /\ end[k] <= size
    /\ Lie(m, flds, end)

\* The k-th of them.
Entry(m, flds, end, n, size, k, off, fld) ==
    /\ fld = flds[k] /\ fld \in Field /\ off = end[k - 1] /\ off \in Nat
    /\ end[k] = off + SizeOf(fld) /\ off + SizeOf(fld) <= size
    /\ EntryAt(m, off, fld, IF k = 1 THEN 0 ELSE SizeOf(flds[k - 1]))
    /\ Member(m, off, "pre_sz") = (IF k = 1 THEN 0 ELSE SizeOf(flds[k - 1]))
    /\ Member(m, off, "nam_sz") = NameSize[fld.nam]
    /\ Member(m, off, "val_sz") = ValueSize[fld.val]
    /\ Span(m, off) = SizeOf(fld)

\* It is reached at the end of the one before.
LEMMA EntryIs ==
    ASSUME NEW m, NEW flds, NEW end, NEW n, NEW size,
           Laid(m, flds, end, n, size), NEW k \in 1..n
    PROVE  Entry(m, flds, end, n, size, k, end[k - 1], flds[k])
<1>1. /\ flds \in Seq(Field) /\ n \in Nat /\ n = Len(flds) /\ size \in Nat
      /\ size <= Memory /\ DOMAIN m = 0..(Memory - 1)
  BY DEF Laid
<1>2. k \in 0..n /\ k - 1 \in 0..n /\ k \in 1..Len(flds)
  BY <1>1
<1>3. /\ end[k - 1] \in Nat /\ end[k] \in Nat /\ end[k] <= size
  BY <1>2 DEF Laid
<1>4. /\ end[k] = end[k - 1] + SizeOf(flds[k])
      /\ EntryAt(m, end[k - 1], flds[k],
                 IF k = 1 THEN 0 ELSE SizeOf(flds[k - 1]))
  BY <1>2, Zenon DEF Laid, Lie
<1>5. PICK fld : fld = flds[k]
  OBVIOUS
<1>6. fld \in Field
  BY <1>1, <1>2, <1>5
<1>7. PICK off \in Nat : off = end[k - 1]
  BY <1>3
<1>8. PICK pre : pre = IF k = 1 THEN 0 ELSE SizeOf(flds[k - 1])
  OBVIOUS
<1>9. EntryAt(m, off, fld, pre)
  BY <1>4, <1>5, <1>7, <1>8
<1>10. off + SizeOf(fld) <= size /\ end[k] = off + SizeOf(fld)
  BY <1>3, <1>4, <1>5, <1>7
<1>11. off + 1 \in DOMAIN m /\ off + 2 \in DOMAIN m /\ off + 3 \in DOMAIN m
  BY <1>1, <1>6, <1>10, SizesType, LayoutAssumption
<1>12. /\ m[off + 1] = Cell("pre_sz", pre)
       /\ m[off + 2] = Cell("nam_sz", NameSize[fld.nam])
       /\ m[off + 3] = Cell("val_sz", ValueSize[fld.val])
  BY <1>9 DEF EntryAt
<1>13. /\ Member(m, off, "pre_sz") = pre
       /\ Member(m, off, "nam_sz") = NameSize[fld.nam]
       /\ Member(m, off, "val_sz") = ValueSize[fld.val]
  BY <1>11, <1>12 DEF Member, Cell
<1>14. Span(m, off) = SizeOf(fld)
  BY <1>13 DEF Span, SizeOf
<1> QED
  BY <1>5, <1>6, <1>7, <1>8, <1>9, <1>10, <1>13, <1>14 DEF Entry
-----------------------------------------------------------------------------
(***************************************************************************)
(* The walks.                                                              *)
(***************************************************************************)
DynamicRun(f, m, idx) ==
    f = [k \in 1..idx |-> IF k = 1 THEN 0 ELSE f[k - 1] + Span(m, f[k - 1])]

\* From the start of the memory by the sizes of the entries.
LEMMA DynamicIs ==
    ASSUME NEW m, NEW flds, NEW end, NEW n, NEW size,
           Laid(m, flds, end, n, size), NEW idx \in 1..n
    PROVE  hpt_dynamic(m, idx) = end[idx - 1]
<1>1. n \in Nat /\ idx \in Nat /\ 1 <= idx /\ idx <= n /\ end[0] = 0
  BY DEF Laid, Lie
<1>2. ASSUME NEW k \in 1..(n - 1)
      PROVE  end[k] = end[k - 1] + Span(m, end[k - 1])
  <2>1. k \in 1..n
    BY <1>1
  <2> QED
    BY <2>1, EntryIs DEF Entry
<1>3. PICK f : f = [k \in 1..idx |-> end[k - 1]]
  OBVIOUS
<1>4. ASSUME NEW k \in 1..idx
      PROVE  f[k] = IF k = 1 THEN 0 ELSE f[k - 1] + Span(m, f[k - 1])
  <2>1. CASE k = 1
    BY <1>1, <1>3, <2>1
  <2>2. CASE k # 1
    <3>1. PICK j : j = k - 1
      OBVIOUS
    <3>2. j \in 1..(n - 1) /\ j \in 1..idx
      BY <1>1, <2>2, <3>1
    <3>3. f[k] = end[j] /\ f[j] = end[j - 1]
      BY <1>3, <3>1, <3>2
    <3>4. end[j] = end[j - 1] + Span(m, end[j - 1])
      BY <1>2, <3>2
    <3>5. f[k] = f[j] + Span(m, f[j])
      BY <3>3, <3>4, Zenon
    <3> QED
      BY <2>2, <3>1, <3>5
  <2> QED
    BY <2>1, <2>2
<1>5. DynamicRun(f, m, idx)
  BY <1>3, <1>4 DEF DynamicRun
<1>6. PICK g : g = CHOOSE h : DynamicRun(h, m, idx)
  OBVIOUS
<1>7. DynamicRun(g, m, idx)
  BY <1>5, <1>6, Zenon
<1>8. hpt_dynamic(m, idx) = g[idx]
  BY <1>6, Zenon DEF hpt_dynamic, DynamicRun
<1>9. \A k \in 1..idx : g[k] = IF k = 1 THEN 0 ELSE g[k - 1] + Span(m, g[k - 1])
  BY <1>7 DEF DynamicRun
<1> DEFINE T == {k \in 1..idx : g[k] = end[k - 1]}
<1>10. 1 \in T
  BY <1>1, <1>9
<1>11. ASSUME NEW k \in 1..(idx - 1), k \in T PROVE k + 1 \in T
  <2>1. PICK j : j = k + 1
    OBVIOUS
  <2>2. j \in 1..idx /\ j # 1 /\ j - 1 = k /\ k \in 1..(n - 1)
    BY <1>1, <2>1
  <2>3. g[j] = g[k] + Span(m, g[k])
    BY <1>9, <2>2
  <2>4. g[k] = end[k - 1]
    BY <1>11
  <2>5. g[j] = end[k]
    BY <1>2, <2>2, <2>3, <2>4
  <2> QED
    BY <2>1, <2>2, <2>5
<1>12. idx \in T
  <2> HIDE DEF T
  <2> QED
    BY <1>1, <1>10, <1>11, Reaches DEF Climbs
<1> QED
  BY <1>8, <1>12

BackRun(f, m, count) ==
    f = [k \in 1..count |-> IF k = count THEN hpt_dynamic(m, count)
                            ELSE f[k + 1] - Member(m, f[k + 1], "pre_sz")]

GoneRun(f, back, m, count) ==
    f = [k \in 0..count |-> IF k = count THEN 0
                            ELSE f[k + 1] + Span(m, back[k + 1])]

\* From the oldest entry by the links.
LEMMA BackIs ==
    ASSUME NEW m, NEW flds, NEW end, NEW n, NEW size,
           Laid(m, flds, end, n, size),
           NEW g, g = CHOOSE f : BackRun(f, m, n)
    PROVE  \A k \in 1..n : g[k] = end[k - 1]
<1>1. n \in Nat /\ end[0] = 0 /\ \A k \in 0..n : end[k] \in Nat
  BY DEF Laid, Lie
<1>2. ASSUME NEW k \in 1..(n - 1)
      PROVE  end[k - 1] = end[k] - Member(m, end[k], "pre_sz")
  <2>1. k \in 1..n /\ k + 1 \in 1..n /\ k + 1 # 1 /\ (k + 1) - 1 = k
    BY <1>1
  <2>2. Entry(m, flds, end, n, size, k, end[k - 1], flds[k])
    BY <2>1, EntryIs
  <2>3. PICK j \in 1..n : j = k + 1
    BY <2>1
  <2>4. Entry(m, flds, end, n, size, j, end[j - 1], flds[j])
    BY EntryIs
  <2>5. j # 1 /\ j - 1 = k
    BY <2>1, <2>3
  <2>6. Member(m, end[k], "pre_sz") = SizeOf(flds[k])
    BY <2>4, <2>5 DEF Entry
  <2>7. end[k] = end[k - 1] + SizeOf(flds[k]) /\ flds[k] \in Field /\ end[k - 1] \in Nat
    BY <2>2 DEF Entry
  <2>8. PICK sz \in Nat : sz = SizeOf(flds[k])
    BY <2>7, SizesType
  <2> QED
    BY <2>6, <2>7, <2>8
<1>3. PICK f : f = [k \in 1..n |-> end[k - 1]]
  OBVIOUS
<1>4. ASSUME NEW k \in 1..n
      PROVE  f[k] = IF k = n THEN hpt_dynamic(m, n)
                    ELSE f[k + 1] - Member(m, f[k + 1], "pre_sz")
  <2>1. CASE k = n
    <3>1. hpt_dynamic(m, k) = end[k - 1]
      BY DynamicIs
    <3> QED
      BY <1>3, <2>1, <3>1
  <2>2. CASE k # n
    <3>1. PICK j : j = k + 1
      OBVIOUS
    <3>2. j \in 1..n /\ k \in 1..(n - 1) /\ j - 1 = k
      BY <1>1, <2>2, <3>1
    <3>3. f[k] = end[k - 1] /\ f[j] = end[k]
      BY <1>3, <3>2
    <3>4. f[k] = f[j] - Member(m, f[j], "pre_sz")
      BY <1>2, <3>2, <3>3
    <3> QED
      BY <2>2, <3>1, <3>4
  <2> QED
    BY <2>1, <2>2
<1>5. BackRun(f, m, n)
  BY <1>3, <1>4 DEF BackRun
<1>6. BackRun(g, m, n)
  BY <1>5, Zenon
<1>7. \A k \in 1..n : g[k] = IF k = n THEN hpt_dynamic(m, n)
                             ELSE g[k + 1] - Member(m, g[k + 1], "pre_sz")
  BY <1>6 DEF BackRun
<1> DEFINE T == {i \in 0..(n - 1) : g[n - i] = end[(n - i) - 1]}
<1> SUFFICES ASSUME n > 0 PROVE \A k \in 1..n : g[k] = end[k - 1]
  BY <1>1
<1>8. 0 \in T
  <2>1. n \in 1..n
    BY <1>1
  <2>2. hpt_dynamic(m, n) = end[n - 1]
    BY <2>1, DynamicIs
  <2>3. g[n] = end[n - 1]
    BY <1>7, <2>1, <2>2
  <2> QED
    BY <1>1, <2>1, <2>3
<1>9. ASSUME NEW i \in 0..((n - 1) - 1), i \in T PROVE i + 1 \in T
  <2>1. PICK j : j = n - i
    OBVIOUS
  <2>2. PICK k : k = j - 1
    OBVIOUS
  <2>3. /\ k \in 1..n /\ k # n /\ k + 1 = j /\ k \in 1..(n - 1)
        /\ n - (i + 1) = k /\ i + 1 \in 0..(n - 1)
    BY <1>1, <2>1, <2>2
  <2>4. g[j] = end[k]
    BY <1>9, <2>1, <2>2
  <2>5. g[k] = g[j] - Member(m, g[j], "pre_sz")
    BY <1>7, <2>3
  <2>6. g[k] = end[k - 1]
    BY <1>2, <2>3, <2>4, <2>5
  <2> QED
    BY <2>3, <2>6
<1>10. \A i \in 0..(n - 1) : i \in T
  <2>1. Climbs(T, 0, n - 1)
    <3> HIDE DEF T
    <3> QED
      BY <1>8, <1>9 DEF Climbs
  <2> HIDE DEF T
  <2> QED
    BY <1>1, <2>1, Reaches
<1>11. ASSUME NEW k \in 1..n PROVE g[k] = end[k - 1]
  <2>1. PICK i : i = n - k
    OBVIOUS
  <2>2. i \in 0..(n - 1) /\ n - i = k
    BY <1>1, <2>1
  <2> QED
    BY <1>10, <2>2
<1> QED
  BY <1>11

\* What has gone behind each entry.
LEMMA GoneIs ==
    ASSUME NEW m, NEW flds, NEW end, NEW n, NEW size,
           Laid(m, flds, end, n, size),
           NEW back, \A k \in 1..n : back[k] = end[k - 1],
           NEW g, g = CHOOSE f : GoneRun(f, back, m, n)
    PROVE  \A k \in 0..n : g[k] = size - end[k]
<1>1. /\ n \in Nat /\ size \in Nat /\ end[n] = size
      /\ \A k \in 0..n : end[k] \in Nat
  BY DEF Laid
<1>2. ASSUME NEW k \in 0..(n - 1)
      PROVE  size - end[k] = (size - end[k + 1]) + Span(m, back[k + 1])
  <2>1. PICK j \in 1..n : j = k + 1
    BY <1>1
  <2>2. Entry(m, flds, end, n, size, j, end[j - 1], flds[j])
    BY EntryIs
  <2>3. j - 1 = k
    BY <1>1, <2>1
  <2>4. /\ end[j] = end[k] + SizeOf(flds[j]) /\ flds[j] \in Field
        /\ end[k] \in Nat /\ Span(m, end[k]) = SizeOf(flds[j])
    BY <2>2, <2>3 DEF Entry
  <2>5. PICK sz \in Nat : sz = SizeOf(flds[j])
    BY <2>4, SizesType
  <2>6. back[j] = end[k]
    BY <2>3
  <2>7. Span(m, back[j]) = sz
    BY <2>4, <2>5, <2>6
  <2>8. size - end[k] = (size - end[j]) + sz
    BY <1>1, <2>4, <2>5
  <2> QED
    BY <2>1, <2>7, <2>8
<1>3. PICK f : f = [k \in 0..n |-> size - end[k]]
  OBVIOUS
<1>4. ASSUME NEW k \in 0..n
      PROVE  f[k] = IF k = n THEN 0 ELSE f[k + 1] + Span(m, back[k + 1])
  <2>1. CASE k = n
    BY <1>1, <1>3, <2>1
  <2>2. CASE k # n
    <3>1. k \in 0..(n - 1) /\ k + 1 \in 0..n
      BY <1>1, <2>2
    <3>2. f[k] = size - end[k] /\ f[k + 1] = size - end[k + 1]
      BY <1>3, <3>1
    <3>3. f[k] = f[k + 1] + Span(m, back[k + 1])
      BY <1>2, <3>1, <3>2
    <3> QED
      BY <2>2, <3>3
  <2> QED
    BY <2>1, <2>2
<1>5. GoneRun(f, back, m, n)
  BY <1>3, <1>4 DEF GoneRun
<1>6. GoneRun(g, back, m, n)
  BY <1>5, Zenon
<1>7. \A k \in 0..n : g[k] = IF k = n THEN 0 ELSE g[k + 1] + Span(m, back[k + 1])
  BY <1>6 DEF GoneRun
<1> DEFINE T == {i \in 0..n : g[n - i] = size - end[n - i]}
<1>8. 0 \in T
  BY <1>1, <1>7
<1>9. ASSUME NEW i \in 0..(n - 1), i \in T PROVE i + 1 \in T
  <2>1. PICK k : k = n - (i + 1)
    OBVIOUS
  <2>2. k \in 0..(n - 1) /\ k + 1 = n - i /\ i + 1 \in 0..n /\ k \in 0..n /\ k # n
    BY <1>1, <2>1
  <2>3. g[k + 1] = size - end[k + 1]
    BY <1>9, <2>2
  <2>4. g[k] = g[k + 1] + Span(m, back[k + 1])
    BY <1>7, <2>2
  <2>5. g[k] = size - end[k]
    BY <1>2, <2>2, <2>3, <2>4
  <2> QED
    BY <2>1, <2>2, <2>5
<1>10. \A i \in 0..n : i \in T
  <2>1. Climbs(T, 0, n)
    <3> HIDE DEF T
    <3> QED
      BY <1>8, <1>9 DEF Climbs
  <2> HIDE DEF T
  <2> QED
    BY <1>1, <2>1, Reaches
<1>11. ASSUME NEW k \in 0..n PROVE g[k] = size - end[k]
  <2>1. PICK i : i = n - k
    OBVIOUS
  <2>2. i \in 0..n /\ n - i = k
    BY <1>1, <2>1
  <2> QED
    BY <1>10, <2>2
<1> QED
  BY <1>11
-----------------------------------------------------------------------------
(***************************************************************************)
(* Eviction.                                                               *)
(***************************************************************************)
\* With left entries need octets are within the limit, or none are left; with
\* more of them they are not.
Fits(end, size, need, limit, k) == k = 0 \/ need - (size - end[k]) <= limit
MostLeft(left, end, n, size, need, limit) ==
    /\ left \in 0..n /\ Fits(end, size, need, limit, left)
    /\ \A k \in 0..n : Fits(end, size, need, limit, k) => k <= left

\* HPT_adjust stops at the last entry that fits, where that entry ends.
LEMMA AdjustIs ==
    ASSUME NEW m, NEW flds, NEW end, NEW n, NEW size,
           Laid(m, flds, end, n, size), NEW need \in Int, NEW limit \in Int
    PROVE  \E left \in 0..n :
              /\ MostLeft(left, end, n, size, need, limit)
              /\ HPT_adjust(m, n, size, need, limit)
                 = [cnt |-> left, len |-> end[left]]
<1>1. n \in Nat /\ size \in Nat /\ \A k \in 0..n : end[k] \in Nat
  BY DEF Laid
<1> DEFINE back == CHOOSE f : BackRun(f, m, n)
           gone == CHOOSE f : GoneRun(f, back, m, n)
           S    == {k \in 0..n : k = 0 \/ need - gone[k] <= limit}
           left == Max(S)
<1>8. HPT_adjust(m, n, size, need, limit)
      = [cnt |-> left, len |-> size - gone[left]]
  BY Zenon DEF HPT_adjust, BackRun, GoneRun
<1>2. back = CHOOSE f : BackRun(f, m, n)
  OBVIOUS
<1>4. gone = CHOOSE f : GoneRun(f, back, m, n)
  OBVIOUS
<1>6. S = {k \in 0..n : k = 0 \/ need - gone[k] <= limit}
  OBVIOUS
<1>7. left = Max(S)
  OBVIOUS
<1> HIDE DEF back, gone, S, left
<1>3. \A k \in 1..n : back[k] = end[k - 1]
  BY <1>2, BackIs
<1>5. \A k \in 0..n : gone[k] = size - end[k]
  BY <1>3, <1>4, GoneIs
<1>9. S \subseteq 0..n /\ S # {}
  <2>1. 0 \in S
    BY <1>1, <1>6
  <2> QED
    BY <1>6, <2>1
<1>10. left \in S /\ \A k \in S : left >= k
  BY <1>1, <1>7, <1>9, MaxOf
<1>11. left \in 0..n /\ size - gone[left] = end[left]
  BY <1>1, <1>5, <1>9, <1>10
<1>12. ASSUME NEW k \in 0..n
       PROVE  k \in S <=> Fits(end, size, need, limit, k)
  <2>1. gone[k] = size - end[k]
    BY <1>5
  <2> QED
    BY <1>6, <2>1 DEF Fits
<1>13. \A k \in 0..n : Fits(end, size, need, limit, k) => k <= left
  BY <1>10, <1>11, <1>12
<1>14. MostLeft(left, end, n, size, need, limit)
  BY <1>10, <1>11, <1>12, <1>13 DEF MostLeft
<1> QED
  BY <1>8, <1>11, <1>14

\* What is left are the first entries, as long as their cells are kept.
LEMMA PrefixLaid ==
    ASSUME NEW m, NEW flds, NEW end, NEW n, NEW size,
           Laid(m, flds, end, n, size), NEW left \in 0..n,
           NEW m2, DOMAIN m2 = DOMAIN m,
           \A i \in DOMAIN m : i < end[left] => m2[i] = m[i]
    PROVE  Laid(m2, SubSeq(flds, 1, left), end, left, end[left])
<1>1. /\ flds \in Seq(Field) /\ n \in Nat /\ n = Len(flds) /\ size \in Nat
      /\ size <= Memory /\ DOMAIN m = 0..(Memory - 1) /\ Memory \in Nat
  BY LayoutAssumption DEF Laid
<1>2. left \in Nat /\ left <= n
  BY <1>1
<1>3. PICK first : first = SubSeq(flds, 1, left)
  OBVIOUS
<1>4. /\ first \in Seq(Field) /\ Len(first) = left
      /\ \A k \in 1..left : first[k] = flds[k]
  BY <1>1, <1>2, <1>3
<1>5. /\ \A k \in 0..n : end[k] \in Nat /\ end[k] <= size
      /\ end[0] = 0
  BY DEF Laid, Lie
<1>6. PICK lt \in Nat : lt = end[left]
  BY <1>5
<1> DEFINE T == {i \in 0..left : end[left - i] <= lt}
<1>7. \A i \in 0..left : i \in T
  <2>1. 0 \in T
    BY <1>2, <1>6
  <2>2. ASSUME NEW i \in 0..(left - 1), i \in T PROVE i + 1 \in T
    <3>1. PICK k : k = left - i
      OBVIOUS
    <3>2. k \in 1..n /\ k - 1 = left - (i + 1) /\ i + 1 \in 0..left
      BY <1>1, <1>2, <3>1
    <3>3. Entry(m, flds, end, n, size, k, end[k - 1], flds[k])
      BY <3>2, EntryIs
    <3>4. /\ end[k] = end[k - 1] + SizeOf(flds[k]) /\ flds[k] \in Field
          /\ end[k - 1] \in Nat
      BY <3>3 DEF Entry
    <3>5. PICK sz \in Nat : sz = SizeOf(flds[k])
      BY <3>4, SizesType
    <3>6. end[k] <= lt
      BY <2>2, <3>1
    <3>7. end[k - 1] <= lt
      BY <3>4, <3>5, <3>6
    <3> QED
      BY <3>2, <3>7
  <2>3. Climbs(T, 0, left)
    <3> HIDE DEF T
    <3> QED
      BY <2>1, <2>2 DEF Climbs
  <2> HIDE DEF T
  <2> QED
    BY <1>2, <2>3, Reaches
<1>8. ASSUME NEW k \in 0..left PROVE end[k] \in Nat /\ end[k] <= lt
  <2>1. PICK i : i = left - k
    OBVIOUS
  <2>2. i \in 0..left /\ left - i = k /\ k \in 0..n
    BY <1>1, <1>2, <2>1
  <2> QED
    BY <1>5, <1>7, <2>2
<1>9. ASSUME NEW k \in 1..left
      PROVE  /\ end[k] = end[k - 1] + SizeOf(first[k])
             /\ EntryAt(m2, end[k - 1], first[k],
                        IF k = 1 THEN 0 ELSE SizeOf(first[k - 1]))
  <2>1. k \in 1..n /\ k \in 0..left
    BY <1>1, <1>2
  <2>2. Entry(m, flds, end, n, size, k, end[k - 1], flds[k])
    BY <2>1, EntryIs
  <2>3. PICK fld \in Field : fld = flds[k]
    BY <2>2 DEF Entry
  <2>4. PICK off \in Nat : off = end[k - 1]
    BY <2>2 DEF Entry
  <2>5. PICK pre : pre = IF k = 1 THEN 0 ELSE SizeOf(flds[k - 1])
    OBVIOUS
  <2>6. EntryAt(m, off, fld, pre) /\ end[k] = off + SizeOf(fld)
    BY <2>2, <2>3, <2>4, <2>5 DEF Entry
  <2>7. off + SizeOf(fld) <= lt /\ lt <= Memory
    BY <1>1, <1>5, <1>6, <1>8, <2>1, <2>6
  <2>8. PICK sz \in Nat : sz = SizeOf(fld)
    BY SizesType
  <2>9. PICK h \in Nat : h = Header
    BY SizesType
  <2>10. h >= 4 /\ h < sz
    BY <2>8, <2>9, SizesType
  <2>11. \A j \in 0..(sz - 1) : m2[off + j] = m[off + j]
    <3>1. ASSUME NEW j \in 0..(sz - 1) PROVE m2[off + j] = m[off + j]
      <4>1. PICK i : i = off + j
        OBVIOUS
      <4>2. i \in DOMAIN m /\ i < lt
        BY <1>1, <2>7, <2>8, <4>1
      <4> QED
        BY <1>6, <4>1, <4>2
    <3> QED
      BY <3>1
  <2>12. m2[off] = m[off] /\ \A j \in 1..3 : m2[off + j] = m[off + j]
    <3>1. m2[off + 0] = m[off + 0] /\ off + 0 = off
      BY <2>10, <2>11
    <3> QED
      BY <2>10, <2>11, <3>1
  <2>13. m[off + 1] = Cell("pre_sz", pre)
    BY <2>6 DEF EntryAt
  <2>14. \A j \in h..(sz - 1) : m2[off + j] = m[off + j]
    BY <2>10, <2>11
  <2>15. Moved(m, off, m2, off, fld, pre)
    BY <2>8, <2>9, <2>12, <2>13, <2>14 DEF Moved
  <2>16. EntryAt(m2, off, fld, pre)
    BY <2>6, <2>15, EntryMoved
  <2>17. first[k] = fld
    BY <1>4, <2>3
  <2>18. pre = IF k = 1 THEN 0 ELSE SizeOf(first[k - 1])
    <3>1. CASE k = 1
      BY <2>5, <3>1
    <3>2. CASE k # 1
      <4>1. k - 1 \in 1..left
        BY <1>2, <3>2
      <4> QED
        BY <1>4, <2>5, <3>2, <4>1
    <3> QED
      BY <3>1, <3>2
  <2> QED
    BY <2>4, <2>6, <2>16, <2>17, <2>18
<1>10. Lie(m2, first, end)
  BY <1>4, <1>5, <1>9, Zenon DEF Lie
<1>11. lt <= Memory
  BY <1>1, <1>5, <1>6
<1> QED
  BY <1>1, <1>2, <1>3, <1>4, <1>6, <1>8, <1>10, <1>11 DEF Laid
-----------------------------------------------------------------------------
(***************************************************************************)
(* Making room.                                                            *)
(***************************************************************************)
\* One piece of a name, from its octet at from to the one at to.
Piece(m, nam, from, to, size) ==
    Copy(Move(m, to, from, size), Header,
         [i \in 0..(to - from - 1) |-> m[nam + from + i]])

UpRun(f, m, nam, namsz, size, pieces) ==
    f = [p \in 0..pieces |->
            IF p = 0 THEN m
            ELSE Piece(f[p - 1], nam, Min({(p - 1) * Chunk, namsz}),
                       Min({p * Chunk, namsz}), size)]

\* The smaller of two numbers.
LEMMA LeastOfTwo ==
    ASSUME NEW a \in Nat, NEW b \in Nat, a <= b
    PROVE  Min({a, b}) = a
<1>1. Min({a, b}) = CHOOSE x \in {a, b} : \A y \in {a, b} : x <= y
  BY DEF Min
<1>2. a \in {a, b} /\ \A y \in {a, b} : a <= y
  OBVIOUS
<1>3. \A x \in {a, b} : (\A y \in {a, b} : x <= y) => x = a
  OBVIOUS
<1> QED
  BY <1>1, <1>2, <1>3, Zenon

\* A name that fits in tmp is taken in one piece.
LEMMA OnePiece ==
    ASSUME NEW m, NEW nam \in Nat, NEW namsz \in Nat, namsz > 0,
           namsz <= Chunk, NEW need, NEW size
    PROVE  hpt_move_evicted(m, nam, namsz, need, size)
           = Move(Piece(m, nam, 0, namsz, size), need, namsz, size)
<1>1. Chunk \in Nat /\ Chunk > 0
  BY LayoutAssumption
<1>2. PICK pieces : pieces = (namsz + Chunk - 1) \div Chunk
  OBVIOUS
<1>3. pieces = 1
  BY <1>1, <1>2
<1>4. Min({0 * Chunk, namsz}) = 0 /\ Min({1 * Chunk, namsz}) = namsz
  <2>1. Min({0, namsz}) = 0 /\ Min({namsz, Chunk}) = namsz
    BY <1>1, LeastOfTwo
  <2>2. 0 * Chunk = 0 /\ 1 * Chunk = Chunk
    BY <1>1
  <2>3. {Chunk, namsz} = {namsz, Chunk}
    OBVIOUS
  <2> QED
    BY <2>1, <2>2, <2>3
<1>5. PICK u : u = Piece(m, nam, 0, namsz, size)
  OBVIOUS
<1>6. PICK f : f = [p \in 0..1 |-> IF p = 0 THEN m ELSE u]
  OBVIOUS
<1>7. ASSUME NEW p \in 0..1
      PROVE  f[p] = IF p = 0 THEN m
                    ELSE Piece(f[p - 1], nam, Min({(p - 1) * Chunk, namsz}),
                               Min({p * Chunk, namsz}), size)
  <2>1. CASE p = 0
    BY <1>6, <2>1
  <2>2. CASE p = 1
    <3>1. p - 1 = 0 /\ p # 0 /\ 0 \in 0..1
      BY <2>2
    <3>2. f[p] = u /\ f[0] = m
      BY <1>6, <3>1
    <3> QED
      BY <1>4, <1>5, <2>2, <3>1, <3>2, Zenon
  <2> QED
    BY <2>1, <2>2
<1>8. UpRun(f, m, nam, namsz, size, 1)
  BY <1>6, <1>7 DEF UpRun
<1>9. PICK g : g = CHOOSE h : UpRun(h, m, nam, namsz, size, 1)
  OBVIOUS
<1>10. UpRun(g, m, nam, namsz, size, 1)
  BY <1>8, <1>9, Zenon
<1>11. g[0] = m
  BY <1>10 DEF UpRun
<1>12. g[1] = Piece(g[0], nam, Min({0 * Chunk, namsz}),
                    Min({1 * Chunk, namsz}), size)
  <2>1. g[1] = Piece(g[1 - 1], nam, Min({(1 - 1) * Chunk, namsz}),
                     Min({1 * Chunk, namsz}), size)
    BY <1>10 DEF UpRun
  <2>2. 1 - 1 = 0
    OBVIOUS
  <2> QED
    BY <2>1, <2>2, Zenon
<1>13. g[1] = u
  BY <1>4, <1>5, <1>11, <1>12, Zenon
<1>14. hpt_move_evicted(m, nam, namsz, need, size)
       = Move((CHOOSE h : UpRun(h, m, nam, namsz, size,
                                (namsz + Chunk - 1) \div Chunk))
              [(namsz + Chunk - 1) \div Chunk], need, namsz, size)
  BY Zenon DEF hpt_move_evicted, UpRun, Piece
<1> QED
  BY <1>2, <1>3, <1>5, <1>9, <1>13, <1>14, Zenon

\* A string lies at an offset.
StringLies(m, at, str, size) ==
    \A i \in 0..size : at + i \in DOMAIN m /\ m[at + i] = String(str, size)[i]

\* Room has been made for fld: the first size cells have moved behind it, but
\* for padding, the newest entry is linked to it, and its name is there.
Roomy(r, m, fld, size) ==
    /\ DOMAIN r = DOMAIN m
    /\ \A j \in 0..(size - 1) : j # 1 /\ j \notin 4..(Header - 1)
          => r[SizeOf(fld) + j] = m[j]
    /\ size > 0 => r[SizeOf(fld) + 1] = Cell("pre_sz", SizeOf(fld))
    /\ \A i \in 0..NameSize[fld.nam] :
          r[Header + i] = String(fld.nam, NameSize[fld.nam])[i]

\* The newest entry is linked to the one to come.
LinkedTo(lnk, m, need) ==
    /\ DOMAIN lnk = DOMAIN m /\ lnk[1] = Cell("pre_sz", need)
    /\ \A i \in DOMAIN m : i # 1 => lnk[i] = m[i]

\* By a write of its pre_sz.
LEMMA LinkIs ==
    ASSUME NEW m, 1 \in DOMAIN m, NEW need
    PROVE  LinkedTo(Copy(m, 1, [i \in {0} |-> Cell("pre_sz", need)]), m, need)
<1>1. PICK one : one = [i \in {0} |-> Cell("pre_sz", need)]
  OBVIOUS
<1>2. PICK lnk : lnk = Copy(m, 1, one)
  OBVIOUS
<1>3. Copied(lnk, m, 1, one)
  BY <1>2, CopyIs, Zenon
<1>4. DOMAIN one = {0} /\ one[0] = Cell("pre_sz", need)
  BY <1>1
<1>5. DOMAIN lnk = DOMAIN m
  BY <1>3 DEF Copied
<1>6. lnk[1] = Cell("pre_sz", need)
  BY <1>3, <1>4 DEF Copied
<1>7. \A i \in DOMAIN m : i # 1 => lnk[i] = m[i]
  BY <1>3, <1>4 DEF Copied
<1> QED
  BY <1>1, <1>2, <1>5, <1>6, <1>7, Zenon DEF LinkedTo

\* The entries that stay are moved, and the name is that of the application.
LEMMA RoomGiven ==
    ASSUME NEW m, DOMAIN m = 0..(Memory - 1), NEW fld \in Field,
           NEW size \in Nat, size = 0 \/ size > Header,
           size + SizeOf(fld) <= Memory
    PROVE  Roomy(MakeRoom(m, fld, -1, size), m, fld, size)
<1>1. PICK need \in Nat : need = SizeOf(fld)
  BY SizesType
<1>2. PICK ns \in Nat : ns = NameSize[fld.nam]
  BY SizesType
<1>3. PICK h \in Nat : h = Header
  BY SizesType
<1>4. h >= 4 /\ h + ns + 1 < need /\ Memory \in Nat /\ size + need <= Memory
  <2>1. PICK vs \in Nat : vs = ValueSize[fld.val]
    BY SizesType
  <2>2. h >= 4 /\ need = h + ns + vs + 2
    BY <1>1, <1>2, <1>3, <2>1, SizesType
  <2>3. Memory \in Nat
    BY LayoutAssumption
  <2> QED
    BY <1>1, <2>2, <2>3
<1>5. PICK lnk : lnk = Copy(m, 1, [i \in {0} |-> Cell("pre_sz", need)])
  OBVIOUS
<1>6. /\ DOMAIN lnk = DOMAIN m /\ lnk[1] = Cell("pre_sz", need)
      /\ \A i \in DOMAIN m : i # 1 => lnk[i] = m[i]
  <2>1. 1 \in DOMAIN m
    BY <1>4
  <2>2. LinkedTo(lnk, m, need)
    BY <1>5, <2>1, LinkIs, Zenon
  <2> QED
    BY <2>2, Zenon DEF LinkedTo
<1>7. PICK mv : mv = Move(lnk, need, 0, size)
  OBVIOUS
<1>8. /\ DOMAIN mv = DOMAIN m
      /\ \A j \in 0..(size - 1) : mv[need + j] = lnk[j]
  <2>3. MovedTo(mv, lnk, need, 0, size)
    BY <1>7, MoveIs, Zenon
  <2>1. /\ DOMAIN mv = DOMAIN m
        /\ \A i \in DOMAIN m :
              i \in need..(need + size - 1) => mv[i] = lnk[i - need + 0]
    BY <1>6, <2>3, Zenon DEF MovedTo
  <2>2. ASSUME NEW j \in 0..(size - 1) PROVE mv[need + j] = lnk[j]
    <3>1. PICK i : i = need + j
      OBVIOUS
    <3>2. i \in DOMAIN m /\ i \in need..(need + size - 1) /\ i - need + 0 = j
      BY <1>4, <3>1
    <3> QED
      BY <2>1, <3>1, <3>2
  <2> QED
    BY <2>1, <2>2
<1>9. PICK str : str = String(fld.nam, ns)
  OBVIOUS
<1>10. DOMAIN str = 0..ns
  BY <1>9 DEF String
<1>11. PICK r : r = Copy(mv, h, str)
  OBVIOUS
<1>12. /\ DOMAIN r = DOMAIN m
       /\ \A i \in DOMAIN m : i - h \in 0..ns => r[i] = str[i - h]
       /\ \A i \in DOMAIN m : i - h \notin 0..ns => r[i] = mv[i]
  <2>1. Copied(r, mv, h, str)
    BY <1>11, CopyIs, Zenon
  <2> QED
    BY <1>8, <1>10, <2>1, Zenon DEF Copied
<1>13. MakeRoom(m, fld, -1, size) = r
  BY <1>1, <1>2, <1>3, <1>5, <1>7, <1>9, <1>11 DEF MakeRoom
<1>14. ASSUME NEW j \in 0..(size - 1) PROVE r[need + j] = lnk[j]
  <2>1. PICK i : i = need + j
    OBVIOUS
  <2>2. i \in DOMAIN m /\ i - h \notin 0..ns
    BY <1>4, <2>1
  <2> QED
    BY <1>8, <1>12, <2>1, <2>2
<1>15. \A j \in 0..(size - 1) : j # 1 /\ j \notin 4..(h - 1) => r[need + j] = m[j]
  <2>1. \A j \in 0..(size - 1) : j \in DOMAIN m
    BY <1>4
  <2> QED
    BY <1>6, <1>14, <2>1
<1>16. size > 0 => r[need + 1] = Cell("pre_sz", need)
  <2>1. size > 0 => 1 \in 0..(size - 1)
    BY <1>3, <1>4
  <2> QED
    BY <1>6, <1>14, <2>1
<1>17. \A i \in 0..ns : r[h + i] = str[i]
  <2>1. ASSUME NEW i \in 0..ns PROVE r[h + i] = str[i]
    <3>1. PICK q : q = h + i
      OBVIOUS
    <3>2. q \in DOMAIN m /\ q - h = i
      BY <1>4, <3>1
    <3> QED
      BY <1>12, <3>1, <3>2
  <2> QED
    BY <2>1
<1>18. Roomy(r, m, fld, size)
  BY <1>1, <1>2, <1>3, <1>9, <1>12, <1>15, <1>16, <1>17, Zenon DEF Roomy
<1> QED
  BY <1>13, <1>18

\* The name is that of an entry, evicted or not, and the table moves over it.
LEMMA RoomMoved ==
    ASSUME ShortNames, NEW m, DOMAIN m = 0..(Memory - 1), NEW fld \in Field,
           NEW size \in Nat, size = 0 \/ size > Header,
           size + SizeOf(fld) <= Memory, NEW from \in Nat, from > 1,
           StringLies(m, from, fld.nam, NameSize[fld.nam])
    PROVE  Roomy(MakeRoom(m, fld, from, size), m, fld, size)
<1>1. PICK need \in Nat : need = SizeOf(fld)
  BY SizesType
<1>2. PICK ns \in Nat : ns = NameSize[fld.nam]
  BY SizesType
<1>3. PICK h \in Nat : h = Header
  BY SizesType
<1>4. h >= 4 /\ h + ns + 1 < need /\ Memory \in Nat /\ size + need <= Memory
  <2>1. PICK vs \in Nat : vs = ValueSize[fld.val]
    BY SizesType
  <2>2. h >= 4 /\ need = h + ns + vs + 2
    BY <1>1, <1>2, <1>3, <2>1, SizesType
  <2>3. Memory \in Nat
    BY LayoutAssumption
  <2> QED
    BY <1>1, <2>2, <2>3
<1>5. PICK namsz \in Nat : namsz = ns + 1
  OBVIOUS
<1>6. namsz > 0 /\ namsz <= Chunk /\ h - namsz >= 4
  <2>1. fld.nam \in Name /\ ns < Pad /\ ns < Chunk
    BY <1>2 DEF Field, ShortNames
  <2>2. Pad \in Nat /\ h = 4 + Pad /\ Chunk \in Nat
    BY <1>3, SizesType, LayoutAssumption
  <2> QED
    BY <1>5, <2>1, <2>2
<1>7. PICK lnk : lnk = Copy(m, 1, [i \in {0} |-> Cell("pre_sz", need)])
  OBVIOUS
<1>8. /\ DOMAIN lnk = DOMAIN m /\ lnk[1] = Cell("pre_sz", need)
      /\ \A i \in DOMAIN m : i # 1 => lnk[i] = m[i]
  <2>1. 1 \in DOMAIN m
    BY <1>4
  <2>2. LinkedTo(lnk, m, need)
    BY <1>7, <2>1, LinkIs, Zenon
  <2> QED
    BY <2>2, Zenon DEF LinkedTo
<1>9. PICK mv : mv = Move(lnk, namsz, 0, size)
  OBVIOUS
<1>10. /\ DOMAIN mv = DOMAIN m
       /\ \A j \in 0..(size - 1) : mv[namsz + j] = lnk[j]
  <2>1. MovedTo(mv, lnk, namsz, 0, size)
    BY <1>9, MoveIs, Zenon
  <2>2. /\ DOMAIN mv = DOMAIN m
        /\ \A i \in DOMAIN m :
              i \in namsz..(namsz + size - 1) => mv[i] = lnk[i - namsz + 0]
    BY <1>8, <2>1, Zenon DEF MovedTo
  <2>3. ASSUME NEW j \in 0..(size - 1) PROVE mv[namsz + j] = lnk[j]
    <3>1. PICK i : i = namsz + j
      OBVIOUS
    <3>2. /\ i \in DOMAIN m /\ i \in namsz..(namsz + size - 1)
          /\ i - namsz + 0 = j
      BY <1>4, <1>5, <3>1
    <3> QED
      BY <2>2, <3>1, <3>2
  <2> QED
    BY <2>2, <2>3
<1>11. PICK tmp : tmp = [i \in 0..(namsz - 0 - 1) |-> lnk[from + 0 + i]]
  OBVIOUS
<1>12. PICK str : str = String(fld.nam, ns)
  OBVIOUS
<1>13. DOMAIN tmp = 0..ns /\ \A i \in 0..ns : tmp[i] = str[i]
  <2>1. namsz - 0 - 1 = ns
    BY <1>5
  <2>2. DOMAIN tmp = 0..ns /\ \A i \in 0..ns : tmp[i] = lnk[from + 0 + i]
    BY <1>11, <2>1
  <2>3. ASSUME NEW i \in 0..ns PROVE tmp[i] = str[i]
    <3>1. PICK q : q = from + i
      OBVIOUS
    <3>2. q \in DOMAIN m /\ m[q] = str[i]
      BY <1>2, <1>12, <3>1 DEF StringLies
    <3>3. q # 1 /\ from + 0 + i = q
      BY <3>1
    <3>4. lnk[q] = m[q]
      BY <1>8, <3>2, <3>3
    <3> QED
      BY <2>2, <3>2, <3>3, <3>4
  <2> QED
    BY <2>2, <2>3
<1>14. PICK up : up = Copy(mv, h, tmp)
  OBVIOUS
<1>15. /\ DOMAIN up = DOMAIN m
       /\ \A i \in DOMAIN m : i - h \in 0..ns => up[i] = tmp[i - h]
       /\ \A i \in DOMAIN m : i - h \notin 0..ns => up[i] = mv[i]
  <2>1. Copied(up, mv, h, tmp)
    BY <1>14, CopyIs, Zenon
  <2> QED
    BY <1>10, <1>13, <2>1, Zenon DEF Copied
<1>16. PICK r : r = Move(up, need, namsz, size)
  OBVIOUS
<1>17. /\ DOMAIN r = DOMAIN m
       /\ \A i \in DOMAIN m :
             i \in need..(need + size - 1) => r[i] = up[i - need + namsz]
       /\ \A i \in DOMAIN m : i \notin need..(need + size - 1) => r[i] = up[i]
  <2>1. MovedTo(r, up, need, namsz, size)
    BY <1>16, MoveIs, Zenon
  <2> QED
    BY <1>15, <2>1, Zenon DEF MovedTo
<1>18. up = Piece(lnk, from, 0, namsz, size)
  BY <1>3, <1>9, <1>11, <1>14, Zenon DEF Piece
<1>19. hpt_move_evicted(lnk, from, namsz, need, size) = r
  BY <1>6, <1>16, <1>18, OnePiece
<1>20. MakeRoom(m, fld, from, size)
       = hpt_move_evicted(lnk, from, namsz, need, size)
  BY <1>1, <1>2, <1>5, <1>7 DEF MakeRoom
<1>21. ASSUME NEW j \in 0..(size - 1), j \notin (h - namsz)..(h - 1)
       PROVE  r[need + j] = lnk[j]
  <2>1. PICK i : i = need + j
    OBVIOUS
  <2>2. PICK q : q = namsz + j
    OBVIOUS
  <2>3. i \in DOMAIN m /\ i \in need..(need + size - 1) /\ i - need + namsz = q
    BY <1>4, <1>5, <2>1, <2>2
  <2>4. q \in DOMAIN m /\ q - h \notin 0..ns
    BY <1>4, <1>5, <1>21, <2>2
  <2>5. r[i] = up[q] /\ up[q] = mv[q]
    BY <1>15, <1>17, <2>3, <2>4
  <2> QED
    BY <1>10, <2>1, <2>2, <2>5
<1>22. \A j \in 0..(size - 1) : j # 1 /\ j \notin 4..(h - 1) => r[need + j] = m[j]
  <2>1. ASSUME NEW j \in 0..(size - 1), j # 1, j \notin 4..(h - 1)
        PROVE  r[need + j] = m[j]
    <3>1. j \in DOMAIN m /\ j \notin (h - namsz)..(h - 1)
      BY <1>4, <1>6, <2>1
    <3> QED
      BY <1>8, <1>21, <2>1, <3>1
  <2> QED
    BY <2>1
<1>23. size > 0 => r[need + 1] = Cell("pre_sz", need)
  <2>1. size > 0 => 1 \in 0..(size - 1)
    BY <1>3, <1>4
  <2>2. 1 \notin (h - namsz)..(h - 1)
    BY <1>6
  <2> QED
    BY <1>8, <1>21, <2>1, <2>2
<1>24. \A i \in 0..ns : r[h + i] = str[i]
  <2>1. ASSUME NEW i \in 0..ns PROVE r[h + i] = str[i]
    <3>1. PICK q : q = h + i
      OBVIOUS
    <3>2. q \in DOMAIN m /\ q - h = i /\ q \notin need..(need + size - 1)
      BY <1>4, <3>1
    <3>3. r[q] = up[q] /\ up[q] = tmp[i]
      BY <1>15, <1>17, <3>2
    <3> QED
      BY <1>13, <3>1, <3>3
  <2> QED
    BY <2>1
<1>25. Roomy(r, m, fld, size)
  BY <1>1, <1>2, <1>3, <1>12, <1>17, <1>22, <1>23, <1>24, Zenon DEF Roomy
<1> QED
  BY <1>19, <1>20, <1>25

\* The new entry is written, nothing behind it.
LEMMA WriteIs ==
    ASSUME NEW m, NEW r, DOMAIN m = 0..(Memory - 1), NEW fld \in Field,
           NEW size \in Nat, size + SizeOf(fld) <= Memory,
           Roomy(r, m, fld, size)
    PROVE  /\ DOMAIN Write(r, fld) = DOMAIN m
           /\ EntryAt(Write(r, fld), 0, fld, 0)
           /\ \A i \in DOMAIN m : i >= SizeOf(fld) => Write(r, fld)[i] = r[i]
<1>1. PICK need \in Nat : need = SizeOf(fld)
  BY SizesType
<1>2. PICK ns \in Nat : ns = NameSize[fld.nam]
  BY SizesType
<1>3. PICK vs \in Nat : vs = ValueSize[fld.val]
  BY SizesType
<1>4. PICK h \in Nat : h = Header
  BY SizesType
<1>5. /\ h >= 4 /\ need = h + ns + vs + 2 /\ Memory \in Nat /\ need <= Memory
  <2>1. h >= 4 /\ need = h + ns + vs + 2
    BY <1>1, <1>2, <1>3, <1>4, SizesType
  <2>2. Memory \in Nat
    BY LayoutAssumption
  <2> QED
    BY <1>1, <2>1, <2>2
<1>6. PICK str : str = String(fld.val, vs)
  OBVIOUS
<1>7. DOMAIN str = 0..vs
  BY <1>6 DEF String
<1>8. PICK hdr : hdr = HeaderOf(fld)
  OBVIOUS
<1>9. /\ DOMAIN hdr = 0..3 /\ hdr[0] = Cell("magic", 0)
      /\ hdr[1] = Cell("pre_sz", 0) /\ hdr[2] = Cell("nam_sz", ns)
      /\ hdr[3] = Cell("val_sz", vs)
  BY <1>2, <1>3, <1>8 DEF HeaderOf
<1>10. PICK at \in Nat : at = h + ns + 1
  BY <1>5
<1>11. PICK c : c = Copy(r, at, str)
  OBVIOUS
<1>12. DOMAIN r = DOMAIN m
  BY DEF Roomy
<1>13. /\ DOMAIN c = DOMAIN m
       /\ \A i \in DOMAIN m : i - at \in 0..vs => c[i] = str[i - at]
       /\ \A i \in DOMAIN m : i - at \notin 0..vs => c[i] = r[i]
  <2>1. Copied(c, r, at, str)
    BY <1>11, CopyIs, Zenon
  <2> QED
    BY <1>7, <1>12, <2>1, Zenon DEF Copied
<1>14. PICK w : w = Copy(c, 0, hdr)
  OBVIOUS
<1>15. /\ DOMAIN w = DOMAIN m
       /\ \A i \in DOMAIN m : i - 0 \in 0..3 => w[i] = hdr[i - 0]
       /\ \A i \in DOMAIN m : i - 0 \notin 0..3 => w[i] = c[i]
  <2>1. Copied(w, c, 0, hdr)
    BY <1>14, CopyIs, Zenon
  <2> QED
    BY <1>9, <1>13, <2>1, Zenon DEF Copied
<1>16. Write(r, fld) = w
  BY <1>2, <1>3, <1>4, <1>6, <1>8, <1>10, <1>11, <1>14 DEF Write
<1>17. \A i \in 0..3 : w[i] = hdr[i]
  <2>1. ASSUME NEW i \in 0..3 PROVE w[i] = hdr[i]
    <3>1. i \in DOMAIN m /\ i - 0 = i
      BY <1>5
    <3> QED
      BY <1>15, <3>1
  <2> QED
    BY <2>1
<1>18. \A i \in 0..ns : w[h + i] = r[h + i]
  <2>1. ASSUME NEW i \in 0..ns PROVE w[h + i] = r[h + i]
    <3>1. PICK q : q = h + i
      OBVIOUS
    <3>2. q \in DOMAIN m /\ q - 0 \notin 0..3 /\ q - at \notin 0..vs
      BY <1>5, <1>10, <3>1
    <3> QED
      BY <1>13, <1>15, <3>1, <3>2
  <2> QED
    BY <2>1
<1>19. \A i \in 0..vs : w[h + ns + 1 + i] = str[i]
  <2>1. ASSUME NEW i \in 0..vs PROVE w[h + ns + 1 + i] = str[i]
    <3>1. PICK q : q = h + ns + 1 + i
      OBVIOUS
    <3>2. q \in DOMAIN m /\ q - 0 \notin 0..3 /\ q - at = i
      BY <1>5, <1>10, <3>1
    <3> QED
      BY <1>13, <1>15, <3>1, <3>2
  <2> QED
    BY <2>1
<1>20. \A i \in DOMAIN m : i >= need => w[i] = r[i]
  <2>1. ASSUME NEW i \in DOMAIN m, i >= need PROVE w[i] = r[i]
    <3>1. i \in Int
      BY <1>5
    <3>2. i - 0 \notin 0..3 /\ i - at \notin 0..vs
      BY <1>5, <1>10, <2>1, <3>1
    <3> QED
      BY <1>13, <1>15, <3>2
  <2> QED
    BY <2>1
<1>21. w[0] = Cell("magic", 0) /\ w[0 + 1] = Cell("pre_sz", 0)
       /\ w[0 + 2] = Cell("nam_sz", ns) /\ w[0 + 3] = Cell("val_sz", vs)
  BY <1>9, <1>17
<1>22. \A i \in 0..ns : w[0 + h + i] = String(fld.nam, NameSize[fld.nam])[i]
  <2>1. 0 + h = h
    OBVIOUS
  <2>2. \A i \in 0..ns : r[h + i] = String(fld.nam, NameSize[fld.nam])[i]
    BY <1>2, <1>4, Zenon DEF Roomy
  <2> QED
    BY <1>18, <2>1, <2>2, Zenon
<1>23. \A i \in 0..vs : w[0 + h + ns + 1 + i] = String(fld.val, ValueSize[fld.val])[i]
  <2>1. 0 + h = h
    OBVIOUS
  <2> QED
    BY <1>3, <1>6, <1>19, <2>1, Zenon
<1>24. EntryAt(w, 0, fld, 0)
  BY <1>2, <1>3, <1>4, <1>21, <1>22, <1>23, Zenon DEF EntryAt
<1> QED
  BY <1>1, <1>15, <1>16, <1>20, <1>24

\* An entry of the table is behind the new one.
LEMMA Behind ==
    ASSUME NEW m, NEW flds, NEW end, NEW n, NEW size,
           Laid(m, flds, end, n, size), NEW k \in 1..n,
           NEW fld \in Field, size + SizeOf(fld) <= Memory,
           NEW r, Roomy(r, m, fld, size),
           NEW x, \A i \in DOMAIN m : /\ i >= SizeOf(fld)
                                      /\ i < size + SizeOf(fld)
                                      => x[i] = r[i]
    PROVE  EntryAt(x, SizeOf(fld) + end[k - 1], flds[k],
                   IF k = 1 THEN SizeOf(fld) ELSE SizeOf(flds[k - 1]))
<1>1. Entry(m, flds, end, n, size, k, end[k - 1], flds[k])
  BY EntryIs
<1>2. PICK old \in Field : old = flds[k]
  BY <1>1 DEF Entry
<1>3. PICK off \in Nat : off = end[k - 1]
  BY <1>1 DEF Entry
<1>4. PICK pre : pre = IF k = 1 THEN 0 ELSE SizeOf(flds[k - 1])
  OBVIOUS
<1>5. EntryAt(m, off, old, pre) /\ off + SizeOf(old) <= size
  BY <1>1, <1>2, <1>3, <1>4 DEF Entry
<1>6. PICK need \in Nat : need = SizeOf(fld)
  BY SizesType
<1>7. PICK sz \in Nat : sz = SizeOf(old)
  BY SizesType
<1>8. PICK h \in Nat : h = Header
  BY SizesType
<1>9. h >= 4 /\ sz > h
  BY <1>7, <1>8, SizesType
<1>10. /\ size \in Nat /\ Memory \in Nat /\ DOMAIN m = 0..(Memory - 1)
       /\ end[0] = 0 /\ n \in Nat
  BY LayoutAssumption DEF Laid, Lie
<1>11. k # 1 => off > h
  <2>1. SUFFICES ASSUME k # 1 PROVE off > h
    OBVIOUS
  <2>2. PICK j \in 1..n : j = k - 1
    BY <1>10, <2>1
  <2>3. Entry(m, flds, end, n, size, j, end[j - 1], flds[j])
    BY EntryIs
  <2>4. PICK bef \in Nat : bef = end[j - 1]
    BY <2>3 DEF Entry
  <2>5. flds[j] \in Field /\ end[j] = bef + SizeOf(flds[j])
    BY <2>3, <2>4 DEF Entry
  <2>6. PICK sj \in Nat : sj = SizeOf(flds[j]) /\ sj > h
    BY <1>8, <2>5, SizesType
  <2> QED
    BY <1>3, <2>2, <2>5, <2>6
<1>12. k = 1 => off = 0
  BY <1>3, <1>10
<1>13. ASSUME NEW j \in 0..(sz - 1)
       PROVE  x[need + off + j] = r[need + off + j]
  <2>1. PICK i : i = need + off + j
    OBVIOUS
  <2>2. size + need <= Memory /\ off + sz <= size
    BY <1>5, <1>6, <1>7
  <2>3. i \in DOMAIN m /\ i >= need /\ i < size + need
    BY <1>10, <2>1, <2>2
  <2> QED
    BY <1>6, <2>1, <2>3
<1>14. ASSUME NEW j \in 0..(sz - 1), off + j # 1, off + j \notin 4..(h - 1)
       PROVE  x[need + off + j] = m[off + j]
  <2>1. PICK i : i = off + j
    OBVIOUS
  <2>2. i \in 0..(size - 1) /\ i # 1 /\ i \notin 4..(h - 1)
    BY <1>5, <1>7, <1>10, <1>14, <2>1
  <2>3. r[need + i] = m[i]
    BY <1>6, <1>8, <2>2, Zenon DEF Roomy
  <2>4. need + off + j = need + i
    BY <2>1
  <2> QED
    BY <1>13, <2>1, <2>3, <2>4
<1>15. PICK pre2 : pre2 = IF k = 1 THEN need ELSE SizeOf(flds[k - 1])
  OBVIOUS
<1>16. x[need + off + 1] = Cell("pre_sz", pre2)
  <2>1. 1 \in 0..(sz - 1)
    BY <1>9
  <2>2. CASE k = 1
    <3>1. size > 0 /\ need + off + 1 = need + 1
      BY <1>5, <1>7, <1>9, <1>10, <1>12, <2>2
    <3>2. r[need + 1] = Cell("pre_sz", need)
      BY <1>6, <3>1 DEF Roomy
    <3> QED
      BY <1>13, <1>15, <2>1, <2>2, <3>1, <3>2
  <2>3. CASE k # 1
    <3>1. off + 1 # 1 /\ off + 1 \notin 4..(h - 1)
      BY <1>9, <1>11, <2>3
    <3>2. m[off + 1] = Cell("pre_sz", pre) /\ pre = pre2
      BY <1>4, <1>5, <1>15, <2>3 DEF EntryAt
    <3> QED
      BY <1>14, <2>1, <3>1, <3>2
  <2> QED
    BY <2>2, <2>3
<1>17. \A j \in {0, 2, 3} \cup h..(sz - 1) : x[need + off + j] = m[off + j]
  <2>1. ASSUME NEW j \in {0, 2, 3} \cup h..(sz - 1)
        PROVE  x[need + off + j] = m[off + j]
    <3>1. j \in 0..(sz - 1) /\ off + j # 1 /\ off + j \notin 4..(h - 1)
      BY <1>9, <1>11, <1>12
    <3> QED
      BY <1>14, <3>1
  <2> QED
    BY <2>1
<1>18. PICK off2 \in Nat : off2 = need + off
  OBVIOUS
<1>19. x[off2] = m[off] /\ x[off2 + 2] = m[off + 2] /\ x[off2 + 3] = m[off + 3]
  <2>1. x[off2 + 0] = m[off + 0]
    BY <1>17, <1>18
  <2>2. off2 + 0 = off2 /\ off + 0 = off
    OBVIOUS
  <2> QED
    BY <1>17, <1>18, <2>1, <2>2
<1>20. \A j \in h..(sz - 1) : x[off2 + j] = m[off + j]
  BY <1>17, <1>18
<1>21. Moved(m, off, x, off2, old, pre2)
  BY <1>7, <1>8, <1>16, <1>18, <1>19, <1>20 DEF Moved
<1>22. EntryAt(x, off2, old, pre2)
  BY <1>5, <1>21, EntryMoved
<1> QED
  BY <1>2, <1>3, <1>6, <1>15, <1>18, <1>22

\* Where the entries of a table end once one of need octets is added.
WithNew(end, need, n) == [k \in 0..(n + 1) |-> IF k = 0 THEN 0 ELSE need + end[k - 1]]

\* The table with its new entry.
LEMMA NewLaid ==
    ASSUME NEW m, NEW flds, NEW end, NEW n, NEW size,
           Laid(m, flds, end, n, size),
           NEW fld \in Field, size + SizeOf(fld) <= Memory,
           NEW r, Roomy(r, m, fld, size)
    PROVE  Laid(Forget(Write(r, fld), size + SizeOf(fld)), <<fld>> \o flds,
                WithNew(end, SizeOf(fld), n), n + 1, size + SizeOf(fld))
<1>1. /\ size \in Nat /\ Memory \in Nat /\ DOMAIN m = 0..(Memory - 1)
      /\ end[0] = 0 /\ n \in Nat /\ flds \in Seq(Field) /\ n = Len(flds)
      /\ end[n] = size
  BY LayoutAssumption DEF Laid, Lie
<1>2. \A k \in 0..n : end[k] \in Nat /\ end[k] <= size
  BY DEF Laid
<1>3. PICK need \in Nat : need = SizeOf(fld) /\ need > 4
  BY SizesType
<1>4. size + need <= Memory
  BY <1>3
<1>5. PICK w : w = Write(r, fld)
  OBVIOUS
<1>6. /\ DOMAIN w = DOMAIN m /\ EntryAt(w, 0, fld, 0)
      /\ \A i \in DOMAIN m : i >= need => w[i] = r[i]
  BY <1>1, <1>3, <1>5, WriteIs
<1>7. PICK total \in Nat : total = size + need
  BY <1>1
<1>8. PICK x : x = Forget(w, total)
  OBVIOUS
<1>9. DOMAIN x = DOMAIN m /\ \A i \in DOMAIN m : i < total => x[i] = w[i]
  BY <1>6, <1>8, ForgetIs
<1>10. PICK e : e = WithNew(end, need, n)
  OBVIOUS
<1>11. e[0] = 0 /\ \A k \in 1..(n + 1) : e[k] = need + end[k - 1]
  BY <1>1, <1>10 DEF WithNew
<1>12. PICK all : all = <<fld>> \o flds
  OBVIOUS
<1>13. /\ all \in Seq(Field) /\ Len(all) = n + 1 /\ all[1] = fld
       /\ \A k \in 1..n : all[k + 1] = flds[k]
  BY <1>1, <1>12
<1>14. e[1] = need /\ e[n + 1] = total
  <2>1. 1 - 1 = 0 /\ (n + 1) - 1 = n /\ 1 \in 1..(n + 1) /\ n + 1 \in 1..(n + 1)
    BY <1>1
  <2>2. e[1] = need + end[0] /\ e[n + 1] = need + end[n]
    BY <1>11, <2>1
  <2> QED
    BY <1>1, <1>7, <2>2
<1>15. EntryAt(x, 0, fld, 0)
  <2>1. PICK sz \in Nat : sz = need
    OBVIOUS
  <2>2. \A j \in 0..(need - 1) : x[j] = w[j]
    BY <1>1, <1>4, <1>7, <1>9
  <2>3. \A j \in 0..(need - 1) : x[0 + j] = w[0 + j]
    BY <2>2
  <2>4. Header \in Nat /\ Header < need
    BY <1>3, SizesType
  <2>5. w[0 + 1] = Cell("pre_sz", 0)
    BY <1>6 DEF EntryAt
  <2>6. Moved(w, 0, x, 0, fld, 0)
    <3>1. x[0] = w[0] /\ \A j \in 1..3 : x[0 + j] = w[0 + j]
      BY <1>3, <2>2, <2>3
    <3>2. \A j \in Header..(SizeOf(fld) - 1) : x[0 + j] = w[0 + j]
      BY <1>3, <2>3, <2>4
    <3> QED
      BY <2>5, <3>1, <3>2 DEF Moved
  <2> QED
    BY <1>6, <2>6, EntryMoved
<1>16. ASSUME NEW k \in 1..n
       PROVE  EntryAt(x, need + end[k - 1], flds[k],
                      IF k = 1 THEN need ELSE SizeOf(flds[k - 1]))
  <2>1. \A i \in DOMAIN m : i >= SizeOf(fld) /\ i < size + SizeOf(fld)
           => x[i] = r[i]
    BY <1>3, <1>6, <1>7, <1>9
  <2>2. EntryAt(x, SizeOf(fld) + end[k - 1], flds[k],
                IF k = 1 THEN SizeOf(fld) ELSE SizeOf(flds[k - 1]))
    BY <2>1, Behind
  <2> QED
    BY <1>3, <2>2, Zenon
<1>17. ASSUME NEW k \in 1..(n + 1)
       PROVE  /\ e[k] = e[k - 1] + SizeOf(all[k])
              /\ EntryAt(x, e[k - 1], all[k],
                         IF k = 1 THEN 0 ELSE SizeOf(all[k - 1]))
  <2>1. CASE k = 1
    <3>1. e[1] = e[0] + SizeOf(all[1])
      BY <1>3, <1>11, <1>13, <1>14
    <3>2. EntryAt(x, e[0], all[1], 0)
      BY <1>11, <1>13, <1>15
    <3> QED
      BY <2>1, <3>1, <3>2
  <2>2. CASE k # 1
    <3>1. PICK j \in 1..n : j = k - 1
      BY <1>1, <2>2
    <3>2. k = j + 1
      BY <3>1
    <3>3. Entry(m, flds, end, n, size, j, end[j - 1], flds[j])
      BY EntryIs
    <3>4. PICK off \in Nat : off = end[j - 1]
      BY <3>3 DEF Entry
    <3>5. flds[j] \in Field /\ end[j] = off + SizeOf(flds[j])
      BY <3>3, <3>4 DEF Entry
    <3>6. PICK sz \in Nat : sz = SizeOf(flds[j])
      BY <3>5, SizesType
    <3>7. e[j] = need + off /\ e[k] = need + end[j] /\ all[k] = flds[j]
      <4>1. j \in 1..(n + 1)
        BY <1>1
      <4>2. e[j] = need + end[j - 1] /\ e[k] = need + end[k - 1]
        BY <1>11, <4>1, Zenon
      <4>3. all[j + 1] = flds[j]
        BY <1>13, Zenon
      <4> QED
        BY <3>1, <3>2, <3>4, <4>2, <4>3, Zenon
    <3>8. e[k] = e[j] + SizeOf(all[k])
      BY <3>5, <3>6, <3>7
    <3>9. (IF j = 1 THEN need ELSE SizeOf(flds[j - 1])) = SizeOf(all[j])
      <4>1. CASE j = 1
        BY <1>3, <1>13, <4>1
      <4>2. CASE j # 1
        <5>1. PICK i \in 1..n : i = j - 1
          BY <1>1, <4>2
        <5>2. all[i + 1] = flds[i] /\ i + 1 = j
          BY <1>13, <5>1
        <5> QED
          BY <4>2, <5>1, <5>2
      <4> QED
        BY <4>1, <4>2
    <3>10. EntryAt(x, e[j], all[k], SizeOf(all[j]))
      <4>1. EntryAt(x, need + end[j - 1], flds[j], SizeOf(all[j]))
        BY <1>16, <3>9
      <4> QED
        BY <3>4, <3>7, <4>1
    <3> QED
      BY <2>2, <3>1, <3>8, <3>10
  <2> QED
    BY <2>1, <2>2
<1>18. Lie(x, all, e)
  BY <1>11, <1>13, <1>17, Zenon DEF Lie
<1>19. \A k \in 0..(n + 1) : e[k] \in Nat /\ e[k] <= total
  <2>1. ASSUME NEW k \in 0..(n + 1) PROVE e[k] \in Nat /\ e[k] <= total
    <3>1. CASE k = 0
      BY <1>11, <3>1
    <3>2. CASE k # 0
      <4>1. k \in 1..(n + 1) /\ k - 1 \in 0..n
        BY <1>1, <3>2
      <4>2. e[k] = need + end[k - 1] /\ end[k - 1] \in Nat /\ end[k - 1] <= size
        BY <1>2, <1>11, <4>1
      <4> QED
        BY <1>1, <1>7, <4>2
    <3> QED
      BY <3>1, <3>2
  <2> QED
    BY <2>1
<1>20. n + 1 \in Nat /\ total <= Memory
  BY <1>1, <1>4, <1>7
<1>21. Laid(x, all, e, n + 1, total)
  BY <1>1, <1>9, <1>13, <1>14, <1>18, <1>19, <1>20 DEF Laid
<1> QED
  BY <1>3, <1>5, <1>7, <1>8, <1>10, <1>12, <1>21
-----------------------------------------------------------------------------
(***************************************************************************)
(* Reading.                                                                *)
(***************************************************************************)
\* What Read looks for.
Sought(m, set, sizes, at, s) ==
    \E from \in {at} :
        IF s = Garbage THEN \A t \in set : ~ StringLies(m, from, t, sizes[t])
        ELSE StringLies(m, from, s, sizes[s])

\* No two strings lie at one offset: their first octets would be the same.
LEMMA OneString ==
    ASSUME NEW set, NEW sizes, sizes \in [set -> Nat], "nul" \notin set,
           \A s, t \in set : sizes[s] = 0 /\ sizes[t] = 0 => s = t,
           NEW m, NEW at \in Nat, NEW s \in set, NEW t \in set,
           StringLies(m, at, s, sizes[s]), StringLies(m, at, t, sizes[t])
    PROVE  s = t
<1>1. sizes[s] \in Nat /\ sizes[t] \in Nat
  OBVIOUS
<1>2. m[at] = String(s, sizes[s])[0] /\ m[at] = String(t, sizes[t])[0]
  <2>1. 0 \in 0..sizes[s] /\ 0 \in 0..sizes[t] /\ at + 0 = at
    BY <1>1
  <2> QED
    BY <2>1 DEF StringLies
<1>3. String(s, sizes[s])[0] = IF sizes[s] > 0 THEN Cell(s, 0) ELSE Nul
  BY <1>1 DEF String
<1>4. String(t, sizes[t])[0] = IF sizes[t] > 0 THEN Cell(t, 0) ELSE Nul
  BY <1>1 DEF String
<1>5. CASE sizes[s] > 0 /\ sizes[t] > 0
  <2>1. Cell(s, 0) = Cell(t, 0)
    BY <1>2, <1>3, <1>4, <1>5
  <2> QED
    BY <2>1 DEF Cell
<1>6. CASE sizes[s] = 0 /\ sizes[t] = 0
  BY <1>6
<1>7. CASE sizes[s] > 0 /\ sizes[t] = 0
  <2>1. ~ (sizes[t] > 0)
    BY <1>7
  <2>2. Cell(s, 0) = Nul
    BY <1>2, <1>3, <1>4, <1>7, <2>1, Zenon
  <2> QED
    BY <2>2 DEF Cell, Nul
<1>8. CASE sizes[s] = 0 /\ sizes[t] > 0
  <2>1. ~ (sizes[s] > 0)
    BY <1>8
  <2>2. Cell(t, 0) = Nul
    BY <1>2, <1>3, <1>4, <1>8, <2>1, Zenon
  <2> QED
    BY <2>2 DEF Cell, Nul
<1> QED
  BY <1>1, <1>5, <1>6, <1>7, <1>8

\* The string that lies at an offset is the one read there.
LEMMA ReadIs ==
    ASSUME NEW set, NEW sizes, sizes \in [set -> Nat], "nul" \notin set,
           Garbage \notin set,
           \A s, t \in set : sizes[s] = 0 /\ sizes[t] = 0 => s = t,
           NEW m, NEW at \in Nat, NEW str \in set,
           StringLies(m, at, str, sizes[str])
    PROVE  Read(m, set, sizes, at) = str
<1>1. PICK got : got = Read(m, set, sizes, at)
  OBVIOUS
<1>2. got = CHOOSE s \in set \cup {Garbage} : Sought(m, set, sizes, at, s)
  BY <1>1, Zenon DEF Read, Sought, StringLies
<1>3. Sought(m, set, sizes, at, str)
  BY Zenon DEF Sought
<1>4. got \in set \cup {Garbage} /\ Sought(m, set, sizes, at, got)
  BY <1>2, <1>3, Zenon
<1>5. got # Garbage
  BY <1>4, Zenon DEF Sought
<1>6. got \in set /\ StringLies(m, at, got, sizes[got])
  BY <1>4, <1>5, Zenon DEF Sought
<1>7. got = str
  BY <1>6, OneString
<1> QED
  BY <1>1, <1>7

\* What is read where no string lies is garbage, and of a set otherwise.
LEMMA ReadLies ==
    ASSUME NEW set, NEW sizes, Garbage \notin set, NEW m, NEW at,
           Read(m, set, sizes, at) # Garbage
    PROVE  /\ Read(m, set, sizes, at) \in set
           /\ StringLies(m, at, Read(m, set, sizes, at),
                         sizes[Read(m, set, sizes, at)])
<1>1. PICK got : got = Read(m, set, sizes, at)
  OBVIOUS
<1>2. got = CHOOSE s \in set \cup {Garbage} : Sought(m, set, sizes, at, s)
  BY <1>1, Zenon DEF Read, Sought, StringLies
<1>3. \E s \in set \cup {Garbage} : Sought(m, set, sizes, at, s)
  <2>1. CASE \E t \in set : StringLies(m, at, t, sizes[t])
    BY <2>1, Zenon DEF Sought
  <2>2. CASE ~ \E t \in set : StringLies(m, at, t, sizes[t])
    BY <2>2, Zenon DEF Sought
  <2> QED
    BY <2>1, <2>2
<1>4. got \in set \cup {Garbage} /\ Sought(m, set, sizes, at, got)
  BY <1>2, <1>3, Zenon
<1>5. got # Garbage
  BY <1>1
<1>6. got \in set /\ StringLies(m, at, got, sizes[got])
  BY <1>4, <1>5, Zenon DEF Sought
<1> QED
  BY <1>1, <1>6, Zenon

\* An entry is read as the field it was written for.
LEMMA FieldIs ==
    ASSUME NEW m, NEW flds, NEW end, NEW n, NEW size,
           Laid(m, flds, end, n, size), NEW k \in 1..n
    PROVE  HPT_field(m, end[k - 1]) = flds[k]
<1>1. Entry(m, flds, end, n, size, k, end[k - 1], flds[k])
  BY EntryIs
<1>2. PICK fld \in Field : fld = flds[k]
  BY <1>1 DEF Entry
<1>3. PICK off \in Nat : off = end[k - 1]
  BY <1>1 DEF Entry
<1>4. PICK pre : EntryAt(m, off, fld, pre)
  BY <1>1, <1>2, <1>3 DEF Entry
<1>5. /\ off + SizeOf(fld) <= size
      /\ Member(m, off, "nam_sz") = NameSize[fld.nam]
  BY <1>1, <1>2, <1>3 DEF Entry
<1>6. PICK ns \in Nat : ns = NameSize[fld.nam]
  BY SizesType
<1>7. PICK vs \in Nat : vs = ValueSize[fld.val]
  BY SizesType
<1>8. PICK h \in Nat : h = Header
  BY SizesType
<1>9. PICK hi \in Nat : hi = size
  BY DEF Laid
<1>10. /\ off + h + ns + vs + 2 <= hi /\ hi <= Memory /\ Memory \in Nat
       /\ DOMAIN m = 0..(Memory - 1)
  <2>1. SizeOf(fld) = h + ns + vs + 2
    BY <1>6, <1>7, <1>8, SizesType
  <2>2. off + (h + ns + vs + 2) <= hi
    BY <1>5, <1>9, <2>1
  <2>3. hi <= Memory /\ Memory \in Nat /\ DOMAIN m = 0..(Memory - 1)
    BY <1>9, LayoutAssumption DEF Laid
  <2> QED
    BY <2>2, <2>3
<1>11. PICK at \in Nat : at = off + h
  OBVIOUS
<1>12. PICK va \in Nat : va = off + h + ns + 1
  OBVIOUS
<1>13. StringLies(m, at, fld.nam, NameSize[fld.nam])
  <2>1. ASSUME NEW i \in 0..ns
        PROVE  at + i \in DOMAIN m /\ m[at + i] = String(fld.nam, ns)[i]
    <3>1. at + i \in DOMAIN m
      BY <1>10, <1>11
    <3>2. m[off + h + i] = String(fld.nam, ns)[i]
      BY <1>4, <1>6, <1>8, Zenon DEF EntryAt
    <3> QED
      BY <1>11, <3>1, <3>2, Zenon
  <2> QED
    BY <1>6, <2>1 DEF StringLies
<1>14. StringLies(m, va, fld.val, ValueSize[fld.val])
  <2>1. ASSUME NEW i \in 0..vs
        PROVE  va + i \in DOMAIN m /\ m[va + i] = String(fld.val, vs)[i]
    <3>1. va + i \in DOMAIN m
      BY <1>10, <1>12
    <3>2. m[off + h + ns + 1 + i] = String(fld.val, vs)[i]
      BY <1>4, <1>6, <1>7, <1>8, Zenon DEF EntryAt
    <3> QED
      BY <1>12, <3>1, <3>2, Zenon
  <2> QED
    BY <1>7, <2>1 DEF StringLies
<1>15. fld.nam \in Name /\ fld.val \in Value /\ fld = [nam |-> fld.nam, val |-> fld.val]
  BY DEF Field
<1>16. Read(m, Name, NameSize, at) = fld.nam
  <2>1. /\ NameSize \in [Name -> Nat] /\ "nul" \notin Name /\ Garbage \notin Name
        /\ \A s \in Name : NameSize[s] # 0
    BY LayoutAssumption
  <2> QED
    BY <1>13, <1>15, <2>1, ReadIs
<1>17. Read(m, Value, ValueSize, va) = fld.val
  <2>1. /\ ValueSize \in [Value -> Nat] /\ "nul" \notin Value
        /\ Garbage \notin Value
        /\ \A v, w \in Value : ValueSize[v] = 0 /\ ValueSize[w] = 0 => v = w
    BY LayoutAssumption
  <2> QED
    BY <1>14, <1>15, <2>1, ReadIs
<1>18. HPT_field(m, off) = [nam |-> Read(m, Name, NameSize, at),
                            val |-> Read(m, Value, ValueSize, va)]
  BY <1>5, <1>6, <1>8, <1>11, <1>12, Zenon DEF HPT_field
<1> QED
  BY <1>2, <1>3, <1>15, <1>16, <1>17, <1>18
-----------------------------------------------------------------------------
(***************************************************************************)
(* The operations.                                                         *)
(***************************************************************************)
\* A table of no entries.
LEMMA EmptyLaid ==
    ASSUME NEW m, DOMAIN m = 0..(Memory - 1), NEW end, end[0] = 0
    PROVE  Laid(m, <<>>, end, 0, 0)
<1>1. Memory \in Nat
  BY LayoutAssumption
<1>2. <<>> \in Seq(Field) /\ Len(<<>>) = 0
  OBVIOUS
<1>3. Lie(m, <<>>, end)
  BY <1>2 DEF Lie
<1> QED
  BY <1>1, <1>2, <1>3 DEF Laid

\* Entries are evicted to make room, or for the limit, and what is behind those
\* left is forgotten.
LEMMA Evict ==
    ASSUME NEW m, NEW flds, NEW end, NEW n, NEW size,
           Laid(m, flds, end, n, size), NEW left \in 0..n
    PROVE  /\ end[left] \in Nat
           /\ Laid(m, SubSeq(flds, 1, left), end, left, end[left])
           /\ Laid(Forget(m, end[left]), SubSeq(flds, 1, left), end, left,
                   end[left])
<1>1. end[left] \in Nat
  BY DEF Laid
<1>2. Laid(m, SubSeq(flds, 1, left), end, left, end[left])
  BY PrefixLaid
<1>3. PICK x : x = Forget(m, end[left])
  OBVIOUS
<1>4. DOMAIN x = DOMAIN m /\ \A i \in DOMAIN m : i < end[left] => x[i] = m[i]
  BY <1>1, <1>3, ForgetIs
<1>5. Laid(x, SubSeq(flds, 1, left), end, left, end[left])
  BY <1>4, PrefixLaid
<1> QED
  BY <1>1, <1>2, <1>3, <1>5

\* Where the name of a field to index lies: with the application, or whole in
\* the table.
Source(from, m, nam) ==
    \/ from = -1
    \/ from \in Nat /\ from > 1 /\ StringLies(m, from, nam, NameSize[nam])

\* A table in which fld has been indexed, as many as left of the others staying.
Indexed(m, flds, end, n, size, fld, limit) ==
    /\ size <= limit
    /\ IF SizeOf(fld) > limit THEN Laid(m, <<>>, end, n, size)
       ELSE Laid(m, <<fld>> \o flds, end, n, size)

\* HPT_index: what stays, and the new entry when it fits.
LEMMA IndexStep ==
    ASSUME ShortNames, NEW flds, NEW end, Laid(mem, flds, end, cnt, len),
           lim \in Limits, NEW fld \in Field, NEW from,
           Source(from, mem, fld.nam), HPT_index(fld, from)
    PROVE  \E left \in 0..cnt : \E e :
              /\ MostLeft(left, end, cnt, len, len + SizeOf(fld), lim)
              /\ Indexed(mem', SubSeq(flds, 1, left), e, cnt', len', fld, lim)
<1>1. PICK need \in Nat : need = SizeOf(fld) /\ need > 0
  BY SizesType
<1>2. PICK limit \in Nat : limit = lim /\ limit <= Memory
  BY LayoutAssumption
<1>3. /\ len \in Nat /\ Memory \in Nat /\ cnt \in Nat /\ DOMAIN mem = 0..(Memory - 1)
      /\ end[0] = 0 /\ \A k \in 0..cnt : end[k] \in Nat
  BY LayoutAssumption DEF Laid, Lie
<1>4. PICK left \in 0..cnt :
        /\ MostLeft(left, end, cnt, len, len + need, limit)
        /\ HPT_adjust(mem, cnt, len, len + need, limit)
           = [cnt |-> left, len |-> end[left]]
  BY <1>3, AdjustIs
<1>5. PICK first : first = SubSeq(flds, 1, left)
  OBVIOUS
<1>6. PICK size \in Nat : size = end[left]
  BY <1>3
<1>7. /\ Laid(mem, first, end, left, size)
      /\ Laid(Forget(mem, size), first, end, left, size)
  BY <1>5, <1>6, Evict
<1>8. left = 0 \/ size + need <= limit
  <2>1. left = 0 \/ (len + need) - (len - size) <= limit
    BY <1>4, <1>6 DEF MostLeft, Fits
  <2> QED
    BY <1>3, <2>1
<1>9. left = 0 => size = 0
  BY <1>3, <1>6
<1>10. CASE need > limit
  <2>1. left = 0 /\ size = 0
    BY <1>8, <1>9, <1>10
  <2>2. cnt' = left /\ len' = size /\ mem' = Forget(mem, size)
    <3>1. /\ cnt' = [cnt |-> left, len |-> size].cnt
          /\ len' = [cnt |-> left, len |-> size].len
          /\ mem' = Forget(mem, [cnt |-> left, len |-> size].len)
      BY <1>1, <1>2, <1>4, <1>6, <1>10, Zenon DEF HPT_index
    <3> QED
      BY <3>1
  <2>3. first = <<>>
    BY <1>5, <1>7, <2>1 DEF Laid
  <2>4. Laid(mem', <<>>, end, cnt', len') /\ len' <= limit
    BY <1>7, <2>1, <2>2, <2>3
  <2>5. Indexed(mem', first, end, cnt', len', fld, limit)
    BY <1>1, <1>10, <2>4, Zenon DEF Indexed
  <2> QED
    BY <1>1, <1>2, <1>4, <1>5, <2>5
<1>11. CASE ~ (need > limit)
  <2>1. size + need <= limit /\ size + need <= Memory
    BY <1>2, <1>3, <1>8, <1>9, <1>11
  <2>2. PICK r : r = MakeRoom(mem, fld, from, size)
    OBVIOUS
  <2>3. /\ cnt' = left + 1 /\ len' = size + need
        /\ mem' = Forget(Write(r, fld), size + need)
    <3>1. /\ cnt' = [cnt |-> left, len |-> size].cnt + 1
          /\ len' = [cnt |-> left, len |-> size].len + need
          /\ \E m \in {MakeRoom(mem, fld, from, [cnt |-> left, len |-> size].len)} :
                mem' = Forget(Write(m, fld), [cnt |-> left, len |-> size].len + need)
      BY <1>1, <1>2, <1>4, <1>6, <1>11, Zenon DEF HPT_index
    <3> QED
      BY <2>2, <3>1
  <2>4. size = 0 \/ size > Header
    <3>1. CASE left = 0
      BY <1>9, <3>1
    <3>2. CASE left # 0
      <4>1. left \in 1..left /\ left \in Nat
        BY <1>3, <3>2
      <4>2. Entry(mem, first, end, left, size, left, end[left - 1], first[left])
        BY <1>7, <4>1, EntryIs
      <4>3. PICK off \in Nat : off = end[left - 1]
        BY <4>2 DEF Entry
      <4>4. first[left] \in Field /\ off + SizeOf(first[left]) <= size
        BY <4>2, <4>3 DEF Entry
      <4>5. PICK sz \in Nat : sz = SizeOf(first[left]) /\ sz > Header
        BY <4>4, SizesType
      <4>6. PICK h \in Nat : h = Header
        BY SizesType
      <4>7. off + sz <= size /\ sz > h
        BY <4>4, <4>5, <4>6
      <4>8. size > h
        BY <4>7
      <4> QED
        BY <4>6, <4>8
    <3> QED
      BY <3>1, <3>2
  <2>5. Roomy(r, mem, fld, size)
    <3>1. size + SizeOf(fld) <= Memory
      BY <1>1, <2>1
    <3>2. CASE from = -1
      BY <1>3, <2>2, <2>4, <3>1, <3>2, RoomGiven
    <3>3. CASE /\ from \in Nat /\ from > 1
               /\ StringLies(mem, from, fld.nam, NameSize[fld.nam])
      BY <1>3, <2>2, <2>4, <3>1, <3>3, RoomMoved
    <3> QED
      BY <3>2, <3>3 DEF Source
  <2>6. PICK e : e = WithNew(end, need, left)
    OBVIOUS
  <2>7. Laid(mem', <<fld>> \o first, e, cnt', len')
    BY <1>1, <1>7, <2>1, <2>3, <2>5, <2>6, NewLaid
  <2>8. len' <= limit
    BY <2>1, <2>3
  <2>9. Indexed(mem', first, e, cnt', len', fld, limit)
    BY <1>1, <1>11, <2>7, <2>8, Zenon DEF Indexed
  <2> QED
    BY <1>1, <1>2, <1>4, <1>5, <2>9
<1> QED
  BY <1>10, <1>11

\* HPACK_resize and HPACK_limit: what stays.
LEMMA LimitStep ==
    ASSUME NEW flds, NEW end, Laid(mem, flds, end, cnt, len),
           NEW n \in Limits, Limit(n)
    PROVE  \E left \in 0..cnt :
              /\ MostLeft(left, end, cnt, len, len, n)
              /\ Laid(mem', SubSeq(flds, 1, left), end, cnt', len')
              /\ len' <= n
<1>1. n \in Nat
  BY LayoutAssumption
<1>2. /\ len \in Nat /\ cnt \in Nat /\ end[0] = 0
      /\ \A k \in 0..cnt : end[k] \in Nat
  BY DEF Laid, Lie
<1>3. PICK left \in 0..cnt :
        /\ MostLeft(left, end, cnt, len, len, n)
        /\ HPT_adjust(mem, cnt, len, len, n) = [cnt |-> left, len |-> end[left]]
  BY <1>1, <1>2, AdjustIs
<1>4. PICK size \in Nat : size = end[left]
  BY <1>2
<1>5. cnt' = left /\ len' = size /\ mem' = Forget(mem, size)
  <2>1. /\ cnt' = [cnt |-> left, len |-> size].cnt
        /\ len' = [cnt |-> left, len |-> size].len
        /\ mem' = Forget(mem, [cnt |-> left, len |-> size].len)
    BY <1>3, <1>4, Zenon DEF Limit
  <2> QED
    BY <2>1
<1>6. Laid(Forget(mem, size), SubSeq(flds, 1, left), end, left, size)
  BY <1>4, Evict
<1>7. size <= n
  <2>1. left = 0 \/ len - (len - size) <= n
    BY <1>3, <1>4 DEF MostLeft, Fits
  <2> QED
    BY <1>1, <1>2, <1>4, <2>1
<1> QED
  BY <1>3, <1>5, <1>6, <1>7

\* The name of an entry lies in the table, behind a header.
LEMMA NameLies ==
    ASSUME NEW m, NEW flds, NEW end, NEW n, NEW size,
           Laid(m, flds, end, n, size), NEW k \in 1..n, NEW nam,
           nam = Read(m, Name, NameSize, hpt_dynamic(m, k) + Header),
           nam # Garbage
    PROVE  /\ nam = flds[k].nam /\ nam \in Name
           /\ Source(hpt_dynamic(m, k) + Header, m, nam)
<1>1. hpt_dynamic(m, k) = end[k - 1]
  BY DynamicIs
<1>2. Entry(m, flds, end, n, size, k, end[k - 1], flds[k])
  BY EntryIs
<1>3. PICK off \in Nat : off = end[k - 1]
  BY <1>2 DEF Entry
<1>4. flds[k] \in Field
  BY <1>2 DEF Entry
<1>5. Header \in Nat /\ Header >= 4
  BY <1>4, SizesType
<1>6. nam \in Name /\ StringLies(m, off + Header, nam, NameSize[nam])
  <2>1. Garbage \notin Name
    BY LayoutAssumption
  <2> QED
    BY <1>1, <1>3, <2>1, ReadLies
<1>7. off + Header \in Nat /\ off + Header > 1
  BY <1>5
<1>8. HPT_field(m, off) = flds[k]
  BY <1>3, FieldIs
<1>9. nam = flds[k].nam
  BY <1>1, <1>3, <1>8 DEF HPT_field
<1> QED
  BY <1>1, <1>3, <1>6, <1>7, <1>9 DEF Source
-----------------------------------------------------------------------------
(***************************************************************************)
(* The fields of the table are those of a dynamic table.                   *)
(***************************************************************************)
SumRun(f, fields, k) ==
    f = [i \in 0..k |-> IF i = 0 THEN 0
                        ELSE f[i - 1] + [g \in Field |-> SizeOf(g)][fields[i]]]

\* The k newest entries end where their sizes add up to.
LEMMA TotalIs ==
    ASSUME NEW m, NEW flds, NEW end, NEW n, NEW size,
           Laid(m, flds, end, n, size), NEW k \in 0..n
    PROVE  Abstract!Total(flds, k) = end[k]
<1>1. n \in Nat /\ k \in Nat /\ k <= n /\ end[0] = 0
  BY DEF Laid, Lie
<1> DEFINE sizes == [g \in Field |-> SizeOf(g)]
<1>2. ASSUME NEW i \in 1..n PROVE end[i] = end[i - 1] + sizes[flds[i]]
  <2>1. Entry(m, flds, end, n, size, i, end[i - 1], flds[i])
    BY EntryIs
  <2>2. flds[i] \in Field /\ end[i] = end[i - 1] + SizeOf(flds[i])
    BY <2>1 DEF Entry
  <2> QED
    BY <2>2
<1> HIDE DEF sizes
<1>3. PICK f : f = [i \in 0..k |-> end[i]]
  OBVIOUS
<1>4. ASSUME NEW i \in 0..k
      PROVE  f[i] = IF i = 0 THEN 0 ELSE f[i - 1] + sizes[flds[i]]
  <2>1. CASE i = 0
    BY <1>1, <1>3, <2>1
  <2>2. CASE i # 0
    <3>1. i \in 1..n /\ i - 1 \in 0..k
      BY <1>1, <2>2
    <3>2. f[i] = end[i] /\ f[i - 1] = end[i - 1]
      BY <1>3, <3>1
    <3> QED
      BY <1>2, <2>2, <3>1, <3>2
  <2> QED
    BY <2>1, <2>2
<1>5. SumRun(f, flds, k)
  BY <1>3, <1>4 DEF SumRun, sizes
<1>6. PICK s : s = CHOOSE h : SumRun(h, flds, k)
  OBVIOUS
<1>7. SumRun(s, flds, k)
  BY <1>5, <1>6, Zenon
<1>8. Abstract!Total(flds, k) = s[k]
  BY <1>6, Zenon DEF Abstract!Total, SumRun
<1>9. \A i \in 0..k : s[i] = IF i = 0 THEN 0 ELSE s[i - 1] + sizes[flds[i]]
  BY <1>7 DEF SumRun, sizes
<1> DEFINE T == {i \in 0..k : s[i] = end[i]}
<1>10. 0 \in T
  BY <1>1, <1>9
<1>11. ASSUME NEW i \in 0..(k - 1), i \in T PROVE i + 1 \in T
  <2>1. PICK j : j = i + 1
    OBVIOUS
  <2>2. j \in 0..k /\ j \in 1..n /\ j # 0 /\ j - 1 = i
    BY <1>1, <2>1
  <2>3. s[j] = s[i] + sizes[flds[j]] /\ end[j] = end[i] + sizes[flds[j]]
    BY <1>2, <1>9, <2>2
  <2>4. s[j] = end[j]
    BY <1>11, <2>3
  <2> QED
    BY <2>1, <2>2, <2>4
<1>12. k \in T
  <2>1. Climbs(T, 0, k)
    <3> HIDE DEF T
    <3> QED
      BY <1>10, <1>11 DEF Climbs
  <2> HIDE DEF T
  <2> QED
    BY <1>1, <2>1, Reaches
<1> QED
  BY <1>8, <1>12

\* HPT_adjust keeps as many of the newest fields as fit.
LEMMA NewestIs ==
    ASSUME NEW m, NEW flds, NEW end, NEW n, NEW size,
           Laid(m, flds, end, n, size), NEW need \in Int, NEW limit \in Int,
           NEW left, MostLeft(left, end, n, size, need, limit),
           NEW room, room = limit - (need - size)
    PROVE  Abstract!Newest(flds, room) = SubSeq(flds, 1, left)
<1>1. /\ n \in Nat /\ n = Len(flds) /\ size \in Nat
      /\ \A k \in 0..n : end[k] \in Nat
  BY DEF Laid
<1>2. PICK S : S = {k \in 0..n : k = 0 \/ Abstract!Total(flds, k) <= room}
  OBVIOUS
<1>3. ASSUME NEW k \in 0..n
      PROVE  k \in S <=> Fits(end, size, need, limit, k)
  <2>1. Abstract!Total(flds, k) = end[k]
    BY TotalIs
  <2>2. end[k] <= room <=> need - (size - end[k]) <= limit
    BY <1>1
  <2> QED
    BY <1>2, <2>1, <2>2 DEF Fits
<1>4. left \in 0..n /\ left \in S /\ \A k \in S : k <= left
  BY <1>2, <1>3 DEF MostLeft
<1>5. S \subseteq 0..n /\ S # {}
  BY <1>2, <1>4
<1>6. PICK most : most = Max(S)
  OBVIOUS
<1>7. most \in S /\ \A k \in S : most >= k
  BY <1>1, <1>5, <1>6, MaxOf
<1>8. most = left
  <2>1. most \in 0..n /\ most >= left /\ left >= most
    BY <1>4, <1>5, <1>7
  <2> QED
    BY <1>1, <1>4, <2>1
<1>9. Abstract!Max(S) = most
  BY <1>6, Zenon DEF Abstract!Max, Max
<1>10. Abstract!Newest(flds, room) = SubSeq(flds, 1, Abstract!Max(S))
  BY <1>1, <1>2, Zenon DEF Abstract!Newest
<1> QED
  BY <1>8, <1>9, <1>10

\* The table as it is read.
LEMMA TableIs ==
    ASSUME NEW m, NEW flds, NEW end, NEW n, NEW size,
           Laid(m, flds, end, n, size)
    PROVE  [k \in 1..n |-> HPT_field(m, hpt_dynamic(m, k))] = flds
<1>1. flds \in Seq(Field) /\ n = Len(flds)
  BY DEF Laid
<1>2. ASSUME NEW k \in 1..n PROVE HPT_field(m, hpt_dynamic(m, k)) = flds[k]
  <2>1. hpt_dynamic(m, k) = end[k - 1]
    BY DynamicIs
  <2>2. HPT_field(m, end[k - 1]) = flds[k]
    BY FieldIs
  <2> QED
    BY <2>1, <2>2
<1> QED
  BY <1>1, <1>2
-----------------------------------------------------------------------------
(***************************************************************************)
(* The inductive invariant: fields lie in the memory, within the limit.    *)
(***************************************************************************)
Good(flds, end) ==
    /\ Laid(mem, flds, end, cnt, len)
    /\ lim \in Limits /\ len <= lim

\* An empty table is one.
LEMMA InitGood ==
    ASSUME Init
    PROVE  Good(<<>>, [k \in 0..0 |-> 0])
<1>1. lim \in Limits /\ len = 0 /\ cnt = 0 /\ DOMAIN mem = 0..(Memory - 1)
  BY DEF Init
<1>2. Laid(mem, <<>>, [k \in 0..0 |-> 0], cnt, len)
  BY <1>1, EmptyLaid
<1>3. lim \in Nat
  BY <1>1, LayoutAssumption
<1> QED
  BY <1>1, <1>2, <1>3 DEF Good

\* HPT_index keeps it, and does what a dynamic table does.
LEMMA IndexGood ==
    ASSUME ShortNames, NEW flds, NEW end, Good(flds, end), NEW fld \in Field,
           NEW from, Source(from, mem, fld.nam), HPT_index(fld, from),
           UNCHANGED lim
    PROVE  \E e : Good(IF SizeOf(fld) > lim THEN <<>>
                       ELSE <<fld>> \o Abstract!Newest(flds, lim - SizeOf(fld)),
                       e)'
<1>1. Laid(mem, flds, end, cnt, len) /\ lim \in Limits /\ lim \in Nat /\ len \in Nat
  BY LayoutAssumption DEF Good, Laid
<1>2. PICK left \in 0..cnt :
        \E e : /\ MostLeft(left, end, cnt, len, len + SizeOf(fld), lim)
               /\ Indexed(mem', SubSeq(flds, 1, left), e, cnt', len', fld, lim)
  BY <1>1, IndexStep
<1>3. PICK e :
        /\ MostLeft(left, end, cnt, len, len + SizeOf(fld), lim)
        /\ Indexed(mem', SubSeq(flds, 1, left), e, cnt', len', fld, lim)
  BY <1>2
<1>4. PICK need \in Nat : need = SizeOf(fld)
  BY SizesType
<1>5. Abstract!Newest(flds, lim - need) = SubSeq(flds, 1, left)
  <2>1. lim - need = lim - ((len + need) - len)
    BY <1>1
  <2>2. len + need \in Int /\ lim \in Int
    BY <1>1
  <2> QED
    BY <1>1, <1>3, <1>4, <2>1, <2>2, NewestIs
<1>6. lim' = lim
  OBVIOUS
<1>7. len' <= lim' /\ lim' \in Limits
  BY <1>1, <1>3, <1>6 DEF Indexed
<1>8. CASE need > lim
  <2>1. Laid(mem', <<>>, e, cnt', len')
    BY <1>3, <1>4, <1>8 DEF Indexed
  <2>2. Good(<<>>, e)'
    BY <1>7, <2>1 DEF Good
  <2> QED
    BY <1>4, <1>6, <1>8, <2>2
<1>9. CASE ~ (need > lim)
  <2>1. Laid(mem', <<fld>> \o SubSeq(flds, 1, left), e, cnt', len')
    BY <1>3, <1>4, <1>9 DEF Indexed
  <2>2. Good(<<fld>> \o Abstract!Newest(flds, lim - SizeOf(fld)), e)'
    BY <1>4, <1>5, <1>6, <1>7, <2>1 DEF Good
  <2> QED
    BY <1>4, <1>6, <1>9, <2>2
<1> QED
  BY <1>8, <1>9

\* So does a new limit.
LEMMA LimitGood ==
    ASSUME NEW flds, NEW end, Good(flds, end), NEW n \in Limits, Limit(n)
    PROVE  Good(Abstract!Newest(flds, n), end)'
<1>1. Laid(mem, flds, end, cnt, len) /\ n \in Nat /\ len \in Nat
  BY LayoutAssumption DEF Good, Laid
<1>2. PICK left \in 0..cnt :
        /\ MostLeft(left, end, cnt, len, len, n)
        /\ Laid(mem', SubSeq(flds, 1, left), end, cnt', len')
        /\ len' <= n
  BY <1>1, LimitStep
<1>3. Abstract!Newest(flds, n) = SubSeq(flds, 1, left)
  <2>1. n = n - (len - len) /\ len \in Int /\ n \in Int
    BY <1>1
  <2> QED
    BY <1>1, <1>2, <2>1, NewestIs
<1>4. lim' = n
  BY DEF Limit
<1> QED
  BY <1>2, <1>3, <1>4 DEF Good

\* What a dynamic table holds when it held flds: a field has been added, or a
\* limit given.
Added(flds, fld) ==
    IF SizeOf(fld) > lim THEN <<>>
    ELSE <<fld>> \o Abstract!Newest(flds, lim - SizeOf(fld))
Holds(flds, more) ==
    \/ more = flds /\ lim' = lim
    \/ lim' = lim /\ \E fld \in Field : more = Added(flds, fld)
    \/ lim' \in Limits /\ more = Abstract!Newest(flds, lim')

\* Every step keeps the invariant, and is one of a dynamic table.
LEMMA StepGood ==
    ASSUME ShortNames, NEW flds, NEW end, Good(flds, end), [Next]_vars
    PROVE  \E more, e : Good(more, e)' /\ Holds(flds, more)
<1>1. ASSUME NEW fld \in Field, Index(fld)
      PROVE  \E more, e : Good(more, e)' /\ Holds(flds, more)
  <2>1. HPT_index(fld, -1) /\ lim' = lim
    BY <1>1 DEF Index
  <2>2. Source(-1, mem, fld.nam)
    BY DEF Source
  <2>3. PICK more : more = Added(flds, fld)
    OBVIOUS
  <2>4. PICK e : Good(more, e)'
    BY <2>1, <2>2, <2>3, IndexGood DEF Added
  <2>5. Holds(flds, more)
    BY <2>1, <2>3, Zenon DEF Holds
  <2> QED
    BY <2>4, <2>5
<1>2. ASSUME NEW k \in 1..cnt, NEW val \in Value, IndexNamed(k, val)
      PROVE  \E more, e : Good(more, e)' /\ Holds(flds, more)
  <2>1. PICK nam :
          /\ nam = Read(mem, Name, NameSize, NameAt(k)) /\ nam # Garbage
          /\ HPT_index([nam |-> nam, val |-> val], NameAt(k)) /\ lim' = lim
    BY <1>2 DEF IndexNamed
  <2>2. PICK from : from = NameAt(k)
    OBVIOUS
  <2>3. Laid(mem, flds, end, cnt, len)
    BY DEF Good
  <2>4. nam \in Name /\ Source(from, mem, nam)
    BY <2>1, <2>2, <2>3, NameLies DEF NameAt
  <2>5. PICK fld \in Field : fld = [nam |-> nam, val |-> val]
    BY <2>4 DEF Field
  <2>6. fld.nam = nam
    BY <2>5
  <2>7. HPT_index(fld, from) /\ lim' = lim /\ Source(from, mem, fld.nam)
    BY <2>1, <2>2, <2>4, <2>5, <2>6
  <2>8. PICK more : more = Added(flds, fld)
    OBVIOUS
  <2>9. PICK e : Good(more, e)'
    BY <2>7, <2>8, IndexGood DEF Added
  <2>10. Holds(flds, more)
    BY <2>7, <2>8, Zenon DEF Holds
  <2> QED
    BY <2>9, <2>10
<1>3. ASSUME NEW n \in Limits, Limit(n)
      PROVE  \E more, e : Good(more, e)' /\ Holds(flds, more)
  <2>1. lim' = n
    BY <1>3 DEF Limit
  <2>2. PICK more : more = Abstract!Newest(flds, n)
    OBVIOUS
  <2>3. Good(more, end)'
    BY <1>3, <2>2, LimitGood
  <2>4. Holds(flds, more)
    BY <2>1, <2>2, Zenon DEF Holds
  <2> QED
    BY <2>3, <2>4
<1>4. CASE UNCHANGED vars
  <2>1. mem' = mem /\ len' = len /\ cnt' = cnt /\ lim' = lim
    BY <1>4 DEF vars
  <2>2. Good(flds, end)'
    BY <2>1 DEF Good
  <2>3. Holds(flds, flds)
    BY <2>1 DEF Holds
  <2> QED
    BY <2>2, <2>3
<1> QED
  BY <1>1, <1>2, <1>3, <1>4 DEF Next

Sound == \E flds, end : Good(flds, end)

\* So the memory always holds a table.
LEMMA AlwaysSound ==
    ASSUME ShortNames
    PROVE  Spec => []Sound
<1>1. Init => Sound
  BY InitGood DEF Sound
<1>2. Sound /\ [Next]_vars => Sound'
  BY StepGood DEF Sound
<1> QED
  BY <1>1, <1>2, PTL DEF Spec
-----------------------------------------------------------------------------
(***************************************************************************)
(* What follows.                                                           *)
(***************************************************************************)
\* The members of the structure are those of a table.
LEMMA GoodType ==
    ASSUME NEW flds, NEW end, Good(flds, end)
    PROVE  TypeOK
<1>1. Memory \in Nat /\ len \in Nat
  BY LayoutAssumption DEF Good, Laid
<1> QED
  BY <1>1 DEF Good, Laid, TypeOK

\* The invariant TLC checks is that one, with the fields and the ends of the
\* entries as they are read.
LEMMA GoodInductive ==
    ASSUME NEW flds, NEW end, Good(flds, end)
    PROVE  Inductive
<1>1. Laid(mem, flds, end, cnt, len) /\ len <= lim
  BY DEF Good
<1>2. /\ flds \in Seq(Field) /\ Len(flds) = cnt /\ cnt \in Nat /\ len = end[cnt]
      /\ Lie(mem, flds, end)
  BY <1>1 DEF Laid
<1>3. Table = flds
  <2>1. [k \in 1..cnt |-> HPT_field(mem, hpt_dynamic(mem, k))] = flds
    BY <1>1, TableIs
  <2> QED
    BY <2>1 DEF Table
<1>4. PICK ends : ends = [k \in 0..cnt |->
                             IF k = 0 THEN 0
                             ELSE hpt_dynamic(mem, k)
                                  + Span(mem, hpt_dynamic(mem, k))]
  OBVIOUS
<1>5. ASSUME NEW k \in 0..cnt PROVE ends[k] = end[k]
  <2>1. CASE k = 0
    BY <1>2, <1>4, <2>1 DEF Lie
  <2>2. CASE k # 0
    <3>1. k \in 1..cnt
      BY <1>2, <2>2
    <3>2. Entry(mem, flds, end, cnt, len, k, end[k - 1], flds[k])
      BY <1>1, <3>1, EntryIs
    <3>3. hpt_dynamic(mem, k) = end[k - 1]
      BY <1>1, <3>1, DynamicIs
    <3>4. ends[k] = end[k - 1] + Span(mem, end[k - 1])
      BY <1>4, <2>2, <3>3
    <3> QED
      BY <3>2, <3>4 DEF Entry
  <2> QED
    BY <2>1, <2>2
<1>6. Lie(mem, flds, ends) /\ len = ends[cnt]
  <2>1. ends[0] = 0 /\ len = ends[cnt]
    BY <1>2, <1>5 DEF Lie
  <2>2. ASSUME NEW k \in 1..Len(flds)
        PROVE  /\ ends[k] = ends[k - 1] + SizeOf(flds[k])
               /\ EntryAt(mem, ends[k - 1], flds[k],
                          IF k = 1 THEN 0 ELSE SizeOf(flds[k - 1]))
    <3>1. k \in 0..cnt /\ k - 1 \in 0..cnt
      BY <1>2
    <3>2. ends[k] = end[k] /\ ends[k - 1] = end[k - 1]
      BY <1>5, <3>1
    <3>3. /\ end[k] = end[k - 1] + SizeOf(flds[k])
          /\ EntryAt(mem, end[k - 1], flds[k],
                     IF k = 1 THEN 0 ELSE SizeOf(flds[k - 1]))
      BY <1>2, Zenon DEF Lie
    <3> QED
      BY <3>2, <3>3
  <2> QED
    BY <2>1, <2>2 DEF Lie
<1>7. TypeOK
  BY GoodType
<1> QED
  BY <1>1, <1>2, <1>3, <1>4, <1>6, <1>7, Zenon DEF Inductive

\* Every walk reaches entries, linked to one another.
LEMMA GoodLinked ==
    ASSUME NEW flds, NEW end, Good(flds, end)
    PROVE  Linked
<1>1. Laid(mem, flds, end, cnt, len)
  BY DEF Good
<1>2. cnt \in Nat /\ len \in Nat /\ len = end[cnt] /\ end[0] = 0
  BY <1>1 DEF Laid, Lie
<1>3. ASSUME NEW k \in 1..cnt
      PROVE  /\ hpt_dynamic(mem, k) < len
             /\ mem[hpt_dynamic(mem, k)] = Cell("magic", 0)
             /\ Member(mem, hpt_dynamic(mem, k), "nam_sz") > 0
             /\ mem[hpt_dynamic(mem, k) + 1]
                = Cell("pre_sz", IF k = 1 THEN 0
                                 ELSE hpt_dynamic(mem, k)
                                      - hpt_dynamic(mem, k - 1))
  <2>1. Entry(mem, flds, end, cnt, len, k, end[k - 1], flds[k])
    BY <1>1, EntryIs
  <2>2. PICK off \in Nat : off = end[k - 1]
    BY <2>1 DEF Entry
  <2>3. PICK fld \in Field : fld = flds[k]
    BY <2>1 DEF Entry
  <2>4. hpt_dynamic(mem, k) = off
    BY <1>1, <2>2, DynamicIs
  <2>5. PICK sz \in Nat : sz = SizeOf(fld) /\ sz > 0
    BY SizesType
  <2>6. off + sz <= len /\ Member(mem, off, "nam_sz") = NameSize[fld.nam]
    BY <2>1, <2>2, <2>3, <2>5 DEF Entry
  <2>7. PICK pre : pre = IF k = 1 THEN 0 ELSE SizeOf(flds[k - 1])
    OBVIOUS
  <2>8. EntryAt(mem, off, fld, pre)
    BY <2>1, <2>2, <2>3, <2>7 DEF Entry
  <2>9. NameSize[fld.nam] > 0
    BY SizesType
  <2>10. off < len
    BY <1>2, <2>5, <2>6
  <2>11. k # 1 => pre = off - hpt_dynamic(mem, k - 1)
    <3>1. SUFFICES ASSUME k # 1 PROVE pre = off - hpt_dynamic(mem, k - 1)
      OBVIOUS
    <3>2. PICK j \in 1..cnt : j = k - 1
      BY <1>2, <3>1
    <3>3. Entry(mem, flds, end, cnt, len, j, end[j - 1], flds[j])
      BY <1>1, EntryIs
    <3>4. PICK bef \in Nat : bef = end[j - 1]
      BY <3>3 DEF Entry
    <3>5. flds[j] \in Field /\ end[j] = bef + SizeOf(flds[j])
      BY <3>3, <3>4 DEF Entry
    <3>6. PICK sj \in Nat : sj = SizeOf(flds[j])
      BY <3>5, SizesType
    <3>7. hpt_dynamic(mem, j) = bef
      BY <1>1, <3>4, DynamicIs
    <3>8. pre = sj /\ off = bef + sj
      BY <2>2, <2>7, <3>1, <3>2, <3>5, <3>6
    <3> QED
      BY <3>2, <3>7, <3>8
  <2>12. mem[off] = Cell("magic", 0) /\ mem[off + 1] = Cell("pre_sz", pre)
    BY <2>8 DEF EntryAt
  <2>13. pre = IF k = 1 THEN 0 ELSE hpt_dynamic(mem, k) - hpt_dynamic(mem, k - 1)
    BY <2>4, <2>7, <2>11
  <2> QED
    BY <2>4, <2>6, <2>9, <2>10, <2>12, <2>13
<1>4. len = IF cnt = 0 THEN 0
            ELSE hpt_dynamic(mem, cnt) + Span(mem, hpt_dynamic(mem, cnt))
  <2>1. CASE cnt = 0
    BY <1>2, <2>1
  <2>2. CASE cnt # 0
    <3>1. cnt \in 1..cnt
      BY <1>2, <2>2
    <3>2. Entry(mem, flds, end, cnt, len, cnt, end[cnt - 1], flds[cnt])
      BY <1>1, <3>1, EntryIs
    <3>3. hpt_dynamic(mem, cnt) = end[cnt - 1]
      BY <1>1, <3>1, DynamicIs
    <3>4. end[cnt] = end[cnt - 1] + Span(mem, end[cnt - 1])
      BY <3>2 DEF Entry
    <3> QED
      BY <1>2, <2>2, <3>3, <3>4
  <2> QED
    BY <2>1, <2>2
<1> QED
  BY <1>3, <1>4, Zenon DEF Linked

\* Strings are whole, of the sizes in the headers.
LEMMA GoodStrings ==
    ASSUME NEW flds, NEW end, Good(flds, end)
    PROVE  StringsWhole
<1>1. Laid(mem, flds, end, cnt, len)
  BY DEF Good
<1>2. ASSUME NEW k \in 1..cnt
      PROVE  /\ HPT_field(mem, hpt_dynamic(mem, k)) \in Field
             /\ Span(mem, hpt_dynamic(mem, k))
                = SizeOf(HPT_field(mem, hpt_dynamic(mem, k)))
  <2>1. hpt_dynamic(mem, k) = end[k - 1]
    BY <1>1, DynamicIs
  <2>2. HPT_field(mem, end[k - 1]) = flds[k]
    BY <1>1, FieldIs
  <2>3. Entry(mem, flds, end, cnt, len, k, end[k - 1], flds[k])
    BY <1>1, EntryIs
  <2>4. flds[k] \in Field /\ Span(mem, end[k - 1]) = SizeOf(flds[k])
    BY <2>3 DEF Entry
  <2> QED
    BY <2>1, <2>2, <2>4
<1> QED
  BY <1>2 DEF StringsWhole
-----------------------------------------------------------------------------
(***************************************************************************)
(* The theorems.                                                           *)
(***************************************************************************)
\* The memory of a table holds fields that lie one behind the other, linked,
\* with their names and values whole, whatever HPT_index, HPT_adjust and
\* hpt_move_evicted have written, moved and evicted.
THEOREM LayoutInductive ==
    ASSUME ShortNames
    PROVE  Spec => []Inductive
<1>1. Sound => Inductive
  BY GoodInductive DEF Sound
<1> QED
  BY <1>1, AlwaysSound, PTL

\* sz.len stays within the memory allocated, and the limit is one of those
\* given.
THEOREM LayoutTypeOK ==
    ASSUME ShortNames
    PROVE  Spec => []TypeOK
<1>1. Sound => TypeOK
  BY GoodType DEF Sound
<1> QED
  BY <1>1, AlwaysSound, PTL

\* No assertion of HPT_foreach, HPT_search, hpt_dynamic and HPT_adjust fails:
\* headers are where the walks look for them, each linked to the one before by
\* pre_sz, and the last entry ends at sz.len.
THEOREM LayoutLinked ==
    ASSUME ShortNames
    PROVE  Spec => []Linked
<1>1. Sound => Linked
  BY GoodLinked DEF Sound
<1> QED
  BY <1>1, AlwaysSound, PTL

\* HPT_field gives whole strings, of the lengths in the header, also after
\* hpt_move_evicted has copied one out of the way of the table.
THEOREM LayoutStringsWhole ==
    ASSUME ShortNames
    PROVE  Spec => []StringsWhole
<1>1. Sound => StringsWhole
  BY GoodStrings DEF Sound
<1> QED
  BY <1>1, AlwaysSound, PTL

\* The table as it is read, when fields lie in the memory.
LEMMA GoodTable ==
    ASSUME NEW flds, NEW end
    PROVE  /\ Good(flds, end) => Table = flds
           /\ Good(flds, end)' => Table' = flds
<1>1. ASSUME Good(flds, end) PROVE Table = flds
  <2>1. Laid(mem, flds, end, cnt, len)
    BY <1>1 DEF Good
  <2>2. [k \in 1..cnt |-> HPT_field(mem, hpt_dynamic(mem, k))] = flds
    BY <2>1, TableIs
  <2> QED
    BY <2>2 DEF Table
<1>2. ASSUME Good(flds, end)' PROVE Table' = flds
  <2>1. Laid(mem', flds, end, cnt', len')
    BY <1>2 DEF Good
  <2>2. [k \in 1..cnt' |-> HPT_field(mem', hpt_dynamic(mem', k))] = flds
    BY <2>1, TableIs
  <2> QED
    BY <2>2 DEF Table
<1> QED
  BY <1>1, <1>2

\* HPT_index, HPT_adjust and what they call implement the dynamic table of
\* RFC 7541: the fields read in the memory are those added last, as many as fit
\* in the limit.
THEOREM LayoutImplementsTable ==
    ASSUME ShortNames
    PROVE  Spec => ImplementsTable
<1>1. Init => Abstract!Init
  <2>1. SUFFICES ASSUME Init PROVE Abstract!Init
    OBVIOUS
  <2>2. Table = <<>>
    BY <2>1, InitGood, GoodTable
  <2>3. lim \in Limits
    BY <2>1 DEF Init
  <2> QED
    BY <2>2, <2>3 DEF Abstract!Init
<1>2. Sound /\ [Next]_vars => [Abstract!Next]_<<Table, lim>>
  <2>1. SUFFICES ASSUME Sound, [Next]_vars
                 PROVE  [Abstract!Next]_<<Table, lim>>
    OBVIOUS
  <2>2. PICK flds, end : Good(flds, end)
    BY <2>1 DEF Sound
  <2>3. PICK more, e : Good(more, e)' /\ Holds(flds, more)
    BY <2>1, <2>2, StepGood
  <2>4. Table = flds /\ Table' = more
    BY <2>2, <2>3, GoodTable
  <2>5. CASE more = flds /\ lim' = lim
    BY <2>4, <2>5
  <2>6. CASE lim' = lim /\ \E fld \in Field : more = Added(flds, fld)
    <3>1. PICK fld \in Field : more = Added(flds, fld)
      BY <2>6
    <3>2. [f \in Field |-> SizeOf(f)][fld] = SizeOf(fld)
      OBVIOUS
    <3>3. Abstract!Add(fld)
      BY <2>4, <2>6, <3>1, <3>2, Zenon DEF Abstract!Add, Added
    <3> QED
      BY <3>3 DEF Abstract!Next
  <2>7. CASE lim' \in Limits /\ more = Abstract!Newest(flds, lim')
    <3>1. Abstract!SetLimit(lim')
      BY <2>4, <2>7, Zenon DEF Abstract!SetLimit
    <3> QED
      BY <2>7, <3>1 DEF Abstract!Next
  <2> QED
    BY <2>3, <2>5, <2>6, <2>7 DEF Holds
<1> QED
  BY <1>1, <1>2, AlwaysSound, PTL DEF Spec, ImplementsTable, Abstract!Spec
=============================================================================
