------------------------- MODULE HpackBlocksProofs -------------------------
(***************************************************************************)
(* Blocks in pieces, for every cut, every buffer and every set of blocks:  *)
(* the decoder that reads octets makes of them what the one that reads     *)
(* whole representations does.                                             *)
(***************************************************************************)
EXTENDS HpackBlocks, HpackCodecProofs, SequenceTheorems

(***************************************************************************)
(* Recursive functions over an interval.                                   *)
(***************************************************************************)

SumRun(f, s, k) == f = [i \in 0..k |-> IF i = 0 THEN 0 ELSE f[i - 1] + s[i]]

\* SumOf is the end of a run.
LEMMA SumRuns ==
    ASSUME NEW s, NEW k \in Nat
    PROVE  \E f : SumRun(f, s, k) /\ SumOf(s, k) = f[k]
<1> DEFINE T == {m \in 0..k : \E f : SumRun(f, s, m)}
<1>1. 0 \in T
  <2>1. SumRun([i \in 0..0 |-> 0], s, 0)
    BY DEF SumRun
  <2> QED
    BY <2>1
<1>2. ASSUME NEW m \in 0..(k - 1), m \in T PROVE m + 1 \in T
  <2>1. PICK f : SumRun(f, s, m)
    BY <1>2
  <2>2. PICK g : g = [i \in 0..(m + 1) |-> IF i <= m THEN f[i] ELSE f[m] + s[i]]
    OBVIOUS
  <2>3. \A i \in 0..m : f[i] = IF i = 0 THEN 0 ELSE f[i - 1] + s[i]
    BY <2>1 DEF SumRun
  <2>4. \A i \in 0..(m + 1) : g[i] = IF i = 0 THEN 0 ELSE g[i - 1] + s[i]
    BY <2>2, <2>3
  <2>5. SumRun(g, s, m + 1)
    BY <2>2, <2>4 DEF SumRun
  <2> QED
    BY <2>5
<1>3. k \in T
  <2> HIDE DEF T
  <2> QED
    BY <1>1, <1>2, Reaches DEF Climbs
<1>4. SumOf(s, k) = (CHOOSE f : SumRun(f, s, k))[k]
  BY Zenon DEF SumOf, SumRun
<1>5. SumRun(CHOOSE f : SumRun(f, s, k), s, k)
  BY <1>3, Zenon
<1> QED
  BY <1>4, <1>5

\* Two runs agree as far as both go.
LEMMA SumRunsAgree ==
    ASSUME NEW s, NEW t, NEW k \in Nat, NEW l \in Nat, k <= l, NEW f, NEW g,
           SumRun(f, s, k), SumRun(g, t, l), \A i \in 1..k : s[i] = t[i]
    PROVE  f[k] = g[k]
<1> DEFINE T == {m \in 0..k : f[m] = g[m]}
<1>1. \A i \in 0..k : f[i] = IF i = 0 THEN 0 ELSE f[i - 1] + s[i]
  BY DEF SumRun
<1>2. \A i \in 0..l : g[i] = IF i = 0 THEN 0 ELSE g[i - 1] + t[i]
  BY DEF SumRun
<1>3. 0 \in T
  BY <1>1, <1>2
<1>4. ASSUME NEW m \in 0..(k - 1), m \in T PROVE m + 1 \in T
  BY <1>1, <1>2, <1>4
<1>5. k \in T
  <2> HIDE DEF T
  <2>1. Climbs(T, 0, k)
    BY <1>3, <1>4 DEF Climbs
  <2> QED
    BY <2>1, Reaches
<1> QED
  BY <1>5

\* A sum one longer.
LEMMA SumOfNext ==
    ASSUME NEW s
    PROVE  /\ SumOf(s, 0) = 0
           /\ \A k \in Nat : SumOf(s, k + 1) = SumOf(s, k) + s[k + 1]
<1>1. PICK f : SumRun(f, s, 0) /\ SumOf(s, 0) = f[0]
  BY SumRuns
<1>2. SumOf(s, 0) = 0
  BY <1>1 DEF SumRun
<1>3. ASSUME NEW k \in Nat PROVE SumOf(s, k + 1) = SumOf(s, k) + s[k + 1]
  <2>1. PICK g : SumRun(g, s, k) /\ SumOf(s, k) = g[k]
    BY SumRuns
  <2>2. PICK h : SumRun(h, s, k + 1) /\ SumOf(s, k + 1) = h[k + 1]
    BY SumRuns
  <2>3. g[k] = h[k]
    BY <2>1, <2>2, SumRunsAgree
  <2>4. h[k + 1] = h[k] + s[k + 1]
    BY <2>2 DEF SumRun
  <2> QED
    BY <2>1, <2>2, <2>3, <2>4
<1> QED
  BY <1>2, <1>3

\* A sum depends on what it adds.
LEMMA SumOfSame ==
    ASSUME NEW s, NEW t, NEW k \in Nat, \A i \in 1..k : s[i] = t[i]
    PROVE  SumOf(s, k) = SumOf(t, k)
<1>1. PICK f : SumRun(f, s, k) /\ SumOf(s, k) = f[k]
  BY SumRuns
<1>2. PICK g : SumRun(g, t, k) /\ SumOf(t, k) = g[k]
  BY SumRuns
<1> QED
  BY <1>1, <1>2, SumRunsAgree

\* Of natural numbers it is one, and the longer sum is the larger.
LEMMA SumOfType ==
    ASSUME NEW s \in Seq(Nat)
    PROVE  /\ \A k \in 0..Len(s) : SumOf(s, k) \in Nat
           /\ \A k \in 0..Len(s) : SumOf(s, k) <= Total(s)
           /\ \A k \in 1..Len(s) : s[k] <= Total(s)
<1> DEFINE n == Len(s)
           T == {k \in 0..n : SumOf(s, k) \in Nat}
<1>0. n \in Nat /\ \A k \in 1..n : s[k] \in Nat
  OBVIOUS
<1> HIDE DEF n
<1>1. 0 \in T
  BY <1>0, SumOfNext
<1>2. ASSUME NEW k \in 0..(n - 1), k \in T PROVE k + 1 \in T
  <2>1. SumOf(s, k + 1) = SumOf(s, k) + s[k + 1]
    BY SumOfNext
  <2>2. s[k + 1] \in Nat
    BY <1>0
  <2> QED
    BY <1>0, <1>2, <2>1, <2>2
<1>3. \A k \in 0..n : k \in T
  <2> HIDE DEF T
  <2>1. Climbs(T, 0, n)
    BY <1>1, <1>2 DEF Climbs
  <2> QED
    BY <1>0, <2>1, Reaches
<1>4. \A k \in 0..n : SumOf(s, k) \in Nat
  BY <1>3
<1>5. ASSUME NEW k \in 0..n PROVE SumOf(s, k) <= SumOf(s, n)
  <2> DEFINE U == {m \in k..n : SumOf(s, k) <= SumOf(s, m)}
  <2>1. k \in U
    BY <1>4
  <2>2. ASSUME NEW m \in k..(n - 1), m \in U PROVE m + 1 \in U
    <3>1. SumOf(s, m + 1) = SumOf(s, m) + s[m + 1]
      BY SumOfNext
    <3>2. s[m + 1] \in Nat /\ SumOf(s, m) \in Nat /\ SumOf(s, k) \in Nat
      BY <1>0, <1>4
    <3> QED
      BY <1>0, <2>2, <3>1, <3>2
  <2>3. \A m \in k..n : m \in U
    <3> HIDE DEF U
    <3>1. Climbs(U, k, n)
      BY <2>1, <2>2 DEF Climbs
    <3> QED
      BY <1>0, <3>1, Reaches
  <2> QED
    BY <1>0, <2>3
<1>6. ASSUME NEW k \in 1..n PROVE s[k] <= SumOf(s, n)
  <2>1. PICK j \in 0..(n - 1) : k = j + 1
    BY <1>0
  <2>2. SumOf(s, k) = SumOf(s, j) + s[k]
    BY <2>1, SumOfNext
  <2>3. SumOf(s, j) \in Nat /\ s[k] \in Nat /\ SumOf(s, n) \in Nat
    BY <1>0, <1>4
  <2>4. SumOf(s, k) <= SumOf(s, n)
    BY <1>0, <1>5
  <2> QED
    BY <2>2, <2>3, <2>4
<1> QED
  BY <1>4, <1>5, <1>6 DEF n, Total
-----------------------------------------------------------------------------
(***************************************************************************)
(* The octets of representations.                                          *)
(***************************************************************************)
Octet == [rep : BlockRep, stp : Steps, n : Nat]

FirstRun(f, reps, k) ==
    f = [i \in 0..k |-> IF i = 0 THEN <<>> ELSE f[i - 1] \o Octets(reps[i])]

\* FirstOctets is the end of a run.
LEMMA FirstRuns ==
    ASSUME NEW reps, NEW k \in Nat
    PROVE  \E f : FirstRun(f, reps, k) /\ FirstOctets(reps, k) = f[k]
<1> DEFINE T == {m \in 0..k : \E f : FirstRun(f, reps, m)}
<1>1. 0 \in T
  <2>1. FirstRun([i \in 0..0 |-> <<>>], reps, 0)
    BY DEF FirstRun
  <2> QED
    BY <2>1
<1>2. ASSUME NEW m \in 0..(k - 1), m \in T PROVE m + 1 \in T
  <2>1. PICK f : FirstRun(f, reps, m)
    BY <1>2
  <2>2. PICK g : g = [i \in 0..(m + 1) |->
                        IF i <= m THEN f[i] ELSE f[m] \o Octets(reps[i])]
    OBVIOUS
  <2>3. \A i \in 0..m : f[i] = IF i = 0 THEN <<>>
                               ELSE f[i - 1] \o Octets(reps[i])
    BY <2>1 DEF FirstRun
  <2>4. \A i \in 0..(m + 1) : g[i] = IF i = 0 THEN <<>>
                                     ELSE g[i - 1] \o Octets(reps[i])
    BY <2>2, <2>3
  <2>5. FirstRun(g, reps, m + 1)
    BY <2>2, <2>4 DEF FirstRun
  <2> QED
    BY <2>5
<1>3. k \in T
  <2> HIDE DEF T
  <2>1. Climbs(T, 0, k)
    BY <1>1, <1>2 DEF Climbs
  <2> QED
    BY <2>1, Reaches
<1>4. FirstOctets(reps, k) = (CHOOSE f : FirstRun(f, reps, k))[k]
  BY Zenon DEF FirstOctets, FirstRun
<1>5. FirstRun(CHOOSE f : FirstRun(f, reps, k), reps, k)
  BY <1>3, Zenon
<1> QED
  BY <1>4, <1>5

\* Those of one more representation.
LEMMA FirstNext ==
    ASSUME NEW reps
    PROVE  /\ FirstOctets(reps, 0) = <<>>
           /\ \A k \in Nat : FirstOctets(reps, k + 1)
                             = FirstOctets(reps, k) \o Octets(reps[k + 1])
<1>1. PICK f : FirstRun(f, reps, 0) /\ FirstOctets(reps, 0) = f[0]
  BY FirstRuns
<1>2. FirstOctets(reps, 0) = <<>>
  BY <1>1 DEF FirstRun
<1>3. ASSUME NEW k \in Nat
      PROVE  FirstOctets(reps, k + 1)
             = FirstOctets(reps, k) \o Octets(reps[k + 1])
  <2>1. PICK g : FirstRun(g, reps, k) /\ FirstOctets(reps, k) = g[k]
    BY FirstRuns
  <2>2. PICK h : FirstRun(h, reps, k + 1) /\ FirstOctets(reps, k + 1) = h[k + 1]
    BY FirstRuns
  <2>3. \A i \in 0..k : g[i] = IF i = 0 THEN <<>>
                               ELSE g[i - 1] \o Octets(reps[i])
    BY <2>1 DEF FirstRun
  <2>4. \A i \in 0..(k + 1) : h[i] = IF i = 0 THEN <<>>
                                     ELSE h[i - 1] \o Octets(reps[i])
    BY <2>2 DEF FirstRun
  <2> DEFINE T == {m \in 0..k : g[m] = h[m]}
  <2>5. 0 \in T
    BY <2>3, <2>4
  <2>6. ASSUME NEW m \in 0..(k - 1), m \in T PROVE m + 1 \in T
    BY <2>3, <2>4, <2>6
  <2>7. k \in T
    <3> HIDE DEF T
    <3>1. Climbs(T, 0, k)
      BY <2>5, <2>6 DEF Climbs
    <3> QED
      BY <3>1, Reaches
  <2>8. h[k + 1] = h[k] \o Octets(reps[k + 1])
    <3>1. k + 1 \in 0..(k + 1) /\ k + 1 # 0 /\ (k + 1) - 1 = k
      OBVIOUS
    <3> QED
      BY <2>4, <3>1, Zenon
  <2> QED
    BY <2>1, <2>2, <2>7, <2>8
<1> QED
  BY <1>2, <1>3

\* o is a of length m, and b of length n.
Concat(o, a, m, b, n) ==
    /\ Len(o) = m + n
    /\ \A j \in 1..m : o[j] = a[j]
    /\ \A j \in 1..n : o[m + j] = b[j]

\* Concatenation, by what it is made of.
LEMMA ConcatIs ==
    ASSUME NEW S, NEW a \in Seq(S), NEW b \in Seq(S), NEW m \in Nat,
           Len(a) = m, NEW n \in Nat, Len(b) = n
    PROVE  a \o b \in Seq(S) /\ Concat(a \o b, a, m, b, n)
BY DEF Concat

Oct(rep, stp, n) == [rep |-> rep, stp |-> stp, n |-> n]

\* An octet, read.
LEMMA OctIs ==
    ASSUME NEW rep \in BlockRep, NEW stp \in Steps, NEW n \in Nat,
           NEW o, o = Oct(rep, stp, n)
    PROVE  o \in Octet /\ o.rep = rep /\ o.stp = stp /\ o.n = n
BY DEF Oct, Octet

\* An integer takes one octet or two.
LEMMA IntLenType ==
    ASSUME NEW num \in Nat
    PROVE  /\ IntLen(num) \in Nat /\ IntLen(num) \in {1, 2}
           /\ IntLen(num) = 2 <=> num >= IntMask
BY PieceAssumption DEF IntLen

\* o is an integer of m octets from k + 1 on.
IntAt(o, k, rep, stp, m) ==
    \A i \in 1..m : o[k + i] = Oct(rep, stp, IF i < m THEN 1 ELSE 0)

\* The octets of an integer.
LEMMA IntOctetsAre ==
    ASSUME NEW rep \in BlockRep, NEW stp \in Steps, NEW num \in Nat
    PROVE  /\ IntOctets(rep, stp, num) \in Seq(Octet)
           /\ Len(IntOctets(rep, stp, num)) = IntLen(num)
           /\ IntAt(IntOctets(rep, stp, num), 0, rep, stp, IntLen(num))
<1>0. IntMask \in Nat
  BY PieceAssumption
<1>1. PICK last \in Octet : last = Oct(rep, stp, 0)
  BY OctIs
<1>2. PICK more \in Octet : more = Oct(rep, stp, 1)
  BY OctIs
<1>3. [last EXCEPT !.n = 1] = more
  BY <1>1, <1>2 DEF Oct
<1>4. PICK o : o = IntOctets(rep, stp, num)
  OBVIOUS
<1>5. o = IF num < IntMask THEN <<last>> ELSE <<more, last>>
  BY <1>1, <1>3, <1>4, Zenon DEF IntOctets, Oct
<1>6. CASE num < IntMask
  <2>1. o = <<last>> /\ IntLen(num) = 1
    BY <1>5, <1>6 DEF IntLen
  <2>2. o \in Seq(Octet) /\ Len(o) = 1 /\ o[1] = last
    BY <2>1
  <2>3. IntAt(o, 0, rep, stp, 1)
    BY <1>1, <2>2 DEF IntAt
  <2> QED
    BY <1>4, <2>1, <2>2, <2>3, Zenon
<1>7. CASE ~(num < IntMask)
  <2>1. o = <<more, last>> /\ IntLen(num) = 2
    BY <1>5, <1>7 DEF IntLen
  <2>2. o \in Seq(Octet) /\ Len(o) = 2 /\ o[1] = more /\ o[2] = last
    BY <2>1
  <2>3. IntAt(o, 0, rep, stp, 2)
    BY <1>1, <1>2, <2>2 DEF IntAt
  <2> QED
    BY <1>4, <2>1, <2>2, <2>3, Zenon
<1> QED
  BY <1>6, <1>7

\* o has the octets of a string from k + 1 on: m of the length, the l of put.
StringAt(o, k, rep, len, m, str, put, l) ==
    /\ IntAt(o, k, rep, len, m)
    /\ \A i \in 1..l : o[k + m + i] = Oct(rep, str, put[i])

\* What part of a sequence has, the whole has further on.
LEMMA IntMoved ==
    ASSUME NEW o, NEW b, NEW k \in Nat, NEW n \in Nat,
           \A j \in 1..n : o[k + j] = b[j],
           NEW rep, NEW stp, NEW m \in Nat, m <= n, IntAt(b, 0, rep, stp, m)
    PROVE  IntAt(o, k, rep, stp, m)
<1>1. \A i \in 1..m : b[0 + i] = Oct(rep, stp, IF i < m THEN 1 ELSE 0)
  BY Zenon DEF IntAt
<1>2. \A i \in 1..m : 0 + i = i /\ i \in 1..n
  OBVIOUS
<1>3. \A i \in 1..m : o[k + i] = Oct(rep, stp, IF i < m THEN 1 ELSE 0)
  BY <1>1, <1>2, Zenon
<1> QED
  BY <1>3, Zenon DEF IntAt

\* A string lies in a sequence where it lies in a part of it.
LEMMA StringMoved ==
    ASSUME NEW o, NEW b, NEW k \in Nat, NEW m \in Nat, NEW l \in Nat,
           NEW n \in Nat, m + l <= n, \A j \in 1..n : o[k + j] = b[j],
           NEW rep, NEW len, NEW str, NEW put,
           StringAt(b, 0, rep, len, m, str, put, l)
    PROVE  StringAt(o, k, rep, len, m, str, put, l)
<1>1. IntAt(b, 0, rep, len, m)
  BY Zenon DEF StringAt
<1>2. IntAt(o, k, rep, len, m)
  <2>1. m <= n
    OBVIOUS
  <2> QED
    BY <1>1, <2>1, IntMoved
<1>3. \A i \in 1..l : b[0 + m + i] = Oct(rep, str, put[i])
  BY Zenon DEF StringAt
<1>4. \A i \in 1..l : /\ 0 + m + i \in 1..n
                      /\ k + (0 + m + i) = k + m + i
  OBVIOUS
<1>5. \A i \in 1..l : o[k + m + i] = Oct(rep, str, put[i])
  <2>1. TAKE i \in 1..l
  <2>2. o[k + (0 + m + i)] = b[0 + m + i]
    BY <1>4, Zenon
  <2> QED
    BY <1>3, <1>4, <2>2, Zenon
<1> QED
  BY <1>2, <1>5, Zenon DEF StringAt

\* o is such a string.
StringIs(o, rep, len, m, str, put, l) ==
    /\ o \in Seq(Octet) /\ Len(o) = m + l
    /\ StringAt(o, 0, rep, len, m, str, put, l)

\* The octets of a string: those of its length, and its own.
LEMMA StringOctetsAre ==
    ASSUME NEW rep \in BlockRep, NEW len \in Steps, NEW str \in Steps,
           NEW put \in Seq(Nat), NEW l \in Nat, Len(put) = l,
           NEW m \in Nat, IntLen(l) = m
    PROVE  StringIs(StringOctets(rep, len, str, put), rep, len, m, str, put, l)
<1>0. DOMAIN put = 1..l /\ \A i \in 1..l : put[i] \in Nat
  OBVIOUS
<1>1. PICK a : a = IntOctets(rep, len, l)
  OBVIOUS
<1>2. a \in Seq(Octet) /\ Len(a) = m /\ IntAt(a, 0, rep, len, m)
  <2>1. Len(a) = IntLen(l) /\ IntAt(a, 0, rep, len, IntLen(l)) /\ a \in Seq(Octet)
    BY <1>1, IntOctetsAre, Zenon
  <2> QED
    BY <2>1, Zenon
<1>3. PICK b : b = [i \in 1..l |-> Oct(rep, str, put[i])]
  OBVIOUS
<1>4. b \in Seq(Octet) /\ Len(b) = l
  <2>1. \A i \in 1..l : Oct(rep, str, put[i]) \in Octet
    BY <1>0, OctIs
  <2> QED
    BY <1>0, <1>3, <2>1
<1>5. PICK o : o = a \o b
  OBVIOUS
<1>6. StringOctets(rep, len, str, put) = o
  <2>1. Len(put) = l
    OBVIOUS
  <2> QED
    BY <1>0, <1>1, <1>3, <1>5, <2>1, Zenon DEF StringOctets, Oct
<1>7. o \in Seq(Octet) /\ Concat(o, a, m, b, l)
  BY <1>2, <1>4, <1>5, ConcatIs, Zenon
<1>8. /\ Len(o) = m + l
      /\ \A i \in 1..m : o[i] = a[i]
      /\ \A i \in 1..l : o[m + i] = b[i]
  BY <1>7, Zenon DEF Concat
<1>9. IntAt(o, 0, rep, len, m)
  <2>1. \A i \in 1..m : o[0 + i] = a[i]
    BY <1>8
  <2>2. m <= m
    OBVIOUS
  <2> QED
    BY <1>2, <2>1, <2>2, IntMoved
<1>10. \A i \in 1..l : o[0 + m + i] = Oct(rep, str, put[i])
  <2>1. \A i \in 1..l : b[i] = Oct(rep, str, put[i])
    BY <1>3
  <2>2. \A i \in 1..l : 0 + m + i = m + i
    OBVIOUS
  <2> QED
    BY <1>8, <2>1, <2>2, ZenonT(60)
<1>11. StringAt(o, 0, rep, len, m, str, put, l)
  BY <1>9, <1>10, Zenon DEF StringAt
<1> QED
  BY <1>6, <1>7, <1>8, <1>11, Zenon DEF StringIs

\* The representations, read.
LEMMA BlockRepType ==
    ASSUME NEW rep \in BlockRep
    PROVE  /\ rep.typ \in {"IDX", "DYN", "LIT", "NVR", "UPD"} /\ rep.num \in Nat
           /\ rep.nput \in Seq(Nat) /\ rep.vput \in Seq(Nat)
           /\ rep.typ = "UPD" => rep.fld = NoField
           /\ rep.typ # "UPD" => rep.fld \in Field
           /\ IsLiteral(rep) =>
                 /\ rep.typ # "UPD" /\ rep.typ # "IDX"
                 /\ rep.nput # <<>> => Total(rep.nput) = NameSize[rep.fld.nam]
                 /\ Total(rep.vput) = ValueSize[rep.fld.val]
<1> DEFINE Coded == [typ : {"IDX", "DYN", "LIT", "NVR"}, num : Nat, fld : Field,
                     nput : Seq(Nat), vput : Seq(Nat)]
           Update == [typ : {"UPD"}, num : Nat, fld : {NoField},
                      nput : {<<>>}, vput : {<<>>}]
<1>1. CASE rep \in Update
  <2>1. rep.typ = "UPD" /\ rep.num \in Nat /\ rep.fld = NoField
        /\ rep.nput = <<>> /\ rep.vput = <<>>
    BY <1>1
  <2>2. <<>> \in Seq(Nat) /\ ~IsLiteral(rep)
    BY <2>1 DEF IsLiteral
  <2> QED
    BY <2>1, <2>2
<1>2. CASE /\ rep \in Coded
           /\ IsLiteral(rep) =>
                 /\ rep.nput # <<>> => Total(rep.nput) = NameSize[rep.fld.nam]
                 /\ Total(rep.vput) = ValueSize[rep.fld.val]
  <2>1. /\ rep.typ \in {"IDX", "DYN", "LIT", "NVR"} /\ rep.num \in Nat
        /\ rep.fld \in Field /\ rep.nput \in Seq(Nat) /\ rep.vput \in Seq(Nat)
    BY <1>2
  <2>2. IsLiteral(rep) => rep.typ # "IDX"
    BY DEF IsLiteral
  <2> QED
    BY <1>2, <2>1, <2>2
<1> QED
  BY <1>1, <1>2, Zenon DEF BlockRep

\* The lengths of the parts of a representation: its index or size; the name's
\* length and the name; the value's length and the value; and where the value
\* begins.
Parts(rep, i, n, nl, v, vl, e) ==
    /\ IntLen(rep.num) = i /\ Len(rep.nput) = nl /\ IntLen(nl) = n
    /\ Len(rep.vput) = vl /\ IntLen(vl) = v /\ NameEnd(rep) = e

\* Numbers take an octet or two, and a literal name comes before its value.
Shape(rep, i, n, nl, v, vl, e) ==
    /\ Parts(rep, i, n, nl, v, vl, e)
    /\ i \in {1, 2} /\ (i = 2 <=> rep.num >= IntMask)
    /\ n \in {1, 2} /\ (n = 2 <=> nl >= IntMask)
    /\ v \in {1, 2} /\ (v = 2 <=> vl >= IntMask)
    /\ e = IF rep.num = 0 THEN i + n + nl ELSE i

\* They are lengths.
LEMMA PartsOf ==
    ASSUME NEW rep \in BlockRep
    PROVE  \E i, n, nl, v, vl, e \in Nat : Shape(rep, i, n, nl, v, vl, e)
<1>1. PICK num \in Nat : num = rep.num
  BY BlockRepType
<1>2. PICK nl \in Nat : Len(rep.nput) = nl
  BY BlockRepType
<1>3. PICK vl \in Nat : Len(rep.vput) = vl
  BY BlockRepType
<1>4. PICK i \in Nat : /\ IntLen(num) = i /\ i \in {1, 2}
                       /\ (i = 2 <=> num >= IntMask)
  BY IntLenType
<1>5. PICK n \in Nat : /\ IntLen(nl) = n /\ n \in {1, 2}
                       /\ (n = 2 <=> nl >= IntMask)
  BY IntLenType
<1>6. PICK v \in Nat : /\ IntLen(vl) = v /\ v \in {1, 2}
                       /\ (v = 2 <=> vl >= IntMask)
  BY IntLenType
<1>7. PICK e \in Nat : e = IF num = 0 THEN i + n + nl ELSE i
  OBVIOUS
<1>8. NameEnd(rep) = e
  <2>1. NameEnd(rep) = i + IF num = 0 THEN n + nl ELSE 0
    BY <1>1, <1>2, <1>4, <1>5, Zenon DEF NameEnd
  <2> QED
    BY <1>7, <2>1
<1>9. Parts(rep, i, n, nl, v, vl, e)
  BY <1>1, <1>2, <1>3, <1>4, <1>5, <1>6, <1>8, Zenon DEF Parts
<1>10. Shape(rep, i, n, nl, v, vl, e)
  BY <1>1, <1>4, <1>5, <1>6, <1>7, <1>9 DEF Shape
<1> QED
  BY <1>10, Zenon

\* o has the octets of rep.
LaidAs(rep, o, i, n, nl, v, vl, e) ==
    /\ o \in Seq(Octet) /\ IntAt(o, 0, rep, "FLD_INT", i)
    /\ ~IsLiteral(rep) => Len(o) = i
    /\ IsLiteral(rep) =>
         /\ Len(o) = e + v + vl
         /\ StringAt(o, e, rep, "VAL_LEN", v, "VAL_STR", rep.vput, vl)
    /\ IsLiteral(rep) /\ rep.num = 0 =>
         StringAt(o, i, rep, "NAM_LEN", n, "NAM_STR", rep.nput, nl)

\* The octets of a representation: where its strings begin and end.
LEMMA OctetsAre ==
    ASSUME NEW rep \in BlockRep, NEW i \in Nat, NEW n \in Nat, NEW nl \in Nat,
           NEW v \in Nat, NEW vl \in Nat, NEW e \in Nat,
           Parts(rep, i, n, nl, v, vl, e)
    PROVE  LaidAs(rep, Octets(rep), i, n, nl, v, vl, e)
<1>0. /\ "FLD_INT" \in Steps /\ "NAM_LEN" \in Steps /\ "NAM_STR" \in Steps
      /\ "VAL_LEN" \in Steps /\ "VAL_STR" \in Steps
  BY DEF Steps
<1>1. /\ IntLen(rep.num) = i /\ Len(rep.nput) = nl /\ IntLen(nl) = n
      /\ Len(rep.vput) = vl /\ IntLen(vl) = v /\ NameEnd(rep) = e
  BY Zenon DEF Parts
<1>2. rep.num \in Nat /\ rep.nput \in Seq(Nat) /\ rep.vput \in Seq(Nat)
  BY BlockRepType
<1>3. PICK a : a = IntOctets(rep, "FLD_INT", rep.num)
  OBVIOUS
<1>4. a \in Seq(Octet) /\ Len(a) = i /\ IntAt(a, 0, rep, "FLD_INT", i)
  BY <1>0, <1>1, <1>2, <1>3, IntOctetsAre, Zenon
<1>5. PICK b : b = StringOctets(rep, "NAM_LEN", "NAM_STR", rep.nput)
  OBVIOUS
<1>6. /\ b \in Seq(Octet) /\ Len(b) = n + nl
      /\ StringAt(b, 0, rep, "NAM_LEN", n, "NAM_STR", rep.nput, nl)
  <2>1. PICK put \in Seq(Nat) : put = rep.nput
    BY <1>2, Zenon
  <2>2. Len(put) = nl /\ IntLen(nl) = n
    BY <1>1, <2>1, Zenon
  <2>3. StringIs(StringOctets(rep, "NAM_LEN", "NAM_STR", put),
                 rep, "NAM_LEN", n, "NAM_STR", put, nl)
    BY <1>0, <2>2, StringOctetsAre, Zenon
  <2> QED
    BY <1>5, <2>1, <2>3, Zenon DEF StringIs
<1>7. PICK c : c = StringOctets(rep, "VAL_LEN", "VAL_STR", rep.vput)
  OBVIOUS
<1>8. /\ c \in Seq(Octet) /\ Len(c) = v + vl
      /\ StringAt(c, 0, rep, "VAL_LEN", v, "VAL_STR", rep.vput, vl)
  <2>1. PICK put \in Seq(Nat) : put = rep.vput
    BY <1>2, Zenon
  <2>2. Len(put) = vl /\ IntLen(vl) = v
    BY <1>1, <2>1, Zenon
  <2>3. StringIs(StringOctets(rep, "VAL_LEN", "VAL_STR", put),
                 rep, "VAL_LEN", v, "VAL_STR", put, vl)
    BY <1>0, <2>2, StringOctetsAre, Zenon
  <2> QED
    BY <1>7, <2>1, <2>3, Zenon DEF StringIs
<1>9. PICK o : o = Octets(rep)
  OBVIOUS
<1>10. o = (a \o (IF IsLiteral(rep) /\ rep.num = 0 THEN b ELSE <<>>))
           \o (IF IsLiteral(rep) THEN c ELSE <<>>)
  BY <1>3, <1>5, <1>7, <1>9, Zenon DEF Octets
<1>11. PICK bl \in Nat : bl = n + nl
  OBVIOUS
<1>12. PICK cl \in Nat : cl = v + vl
  OBVIOUS
<1>13. e = i + IF rep.num = 0 THEN bl ELSE 0
  BY <1>1, <1>11, Zenon DEF NameEnd
<1>14. ASSUME NEW ab \in Seq(Octet), Len(ab) = e, o = ab \o c, IsLiteral(rep)
       PROVE  /\ o \in Seq(Octet) /\ Len(o) = e + v + vl
              /\ \A j \in 1..e : o[j] = ab[j]
              /\ StringAt(o, e, rep, "VAL_LEN", v, "VAL_STR", rep.vput, vl)
  <2>1. Len(c) = cl
    BY <1>8, <1>12, Zenon
  <2>2. o \in Seq(Octet) /\ Concat(o, ab, e, c, cl)
    BY <1>8, <1>14, <2>1, ConcatIs, Zenon
  <2>3. /\ Len(o) = e + cl
        /\ \A j \in 1..e : o[j] = ab[j]
        /\ \A j \in 1..cl : o[e + j] = c[j]
    BY <2>2, Zenon DEF Concat
  <2>4. v + vl <= cl /\ e + cl = e + v + vl
    BY <1>12
  <2>5. StringAt(o, e, rep, "VAL_LEN", v, "VAL_STR", rep.vput, vl)
    BY <1>8, <2>3, <2>4, StringMoved, Zenon
  <2> QED
    BY <2>2, <2>3, <2>4, <2>5, Zenon
<1>15. CASE ~IsLiteral(rep)
  <2>1. o = (a \o <<>>) \o <<>>
    BY <1>10, <1>15
  <2>2. o = a
    BY <1>4, <2>1
  <2>3. o \in Seq(Octet) /\ Len(o) = i /\ IntAt(o, 0, rep, "FLD_INT", i)
    BY <1>4, <2>2, Zenon
  <2> QED
    BY <1>9, <1>15, <2>3, Zenon DEF LaidAs
<1>16. CASE IsLiteral(rep) /\ rep.num # 0
  <2>1. o = (a \o <<>>) \o c
    BY <1>10, <1>16
  <2>2. o = a \o c
    BY <1>4, <2>1
  <2>3. e = i
    BY <1>13, <1>16
  <2>4. /\ o \in Seq(Octet) /\ Len(o) = e + v + vl
        /\ \A j \in 1..e : o[j] = a[j]
        /\ StringAt(o, e, rep, "VAL_LEN", v, "VAL_STR", rep.vput, vl)
    BY <1>4, <1>14, <1>16, <2>2, <2>3, Zenon
  <2>5. IntAt(o, 0, rep, "FLD_INT", i)
    <3>1. \A j \in 1..i : o[0 + j] = a[j]
      BY <2>3, <2>4
    <3>2. i <= i
      OBVIOUS
    <3> QED
      BY <1>4, <3>1, <3>2, IntMoved
  <2> QED
    BY <1>9, <1>16, <2>4, <2>5, Zenon DEF LaidAs
<1>17. CASE IsLiteral(rep) /\ rep.num = 0
  <2>1. PICK ab : ab = a \o b
    OBVIOUS
  <2>2. o = ab \o c
    BY <1>10, <1>17, <2>1
  <2>3. Len(b) = bl
    BY <1>6, <1>11, Zenon
  <2>4. ab \in Seq(Octet) /\ Concat(ab, a, i, b, bl)
    BY <1>4, <1>6, <2>1, <2>3, ConcatIs, Zenon
  <2>5. /\ Len(ab) = i + bl
        /\ \A j \in 1..i : ab[j] = a[j]
        /\ \A j \in 1..bl : ab[i + j] = b[j]
    BY <2>4, Zenon DEF Concat
  <2>6. e = i + bl
    BY <1>13, <1>17
  <2>7. /\ o \in Seq(Octet) /\ Len(o) = e + v + vl
        /\ \A j \in 1..e : o[j] = ab[j]
        /\ StringAt(o, e, rep, "VAL_LEN", v, "VAL_STR", rep.vput, vl)
    BY <1>14, <1>17, <2>2, <2>4, <2>5, <2>6, Zenon
  <2>8. IntAt(o, 0, rep, "FLD_INT", i)
    <3>1. \A j \in 1..i : j \in 1..e /\ 0 + j = j
      BY <2>6
    <3>2. \A j \in 1..i : o[0 + j] = a[j]
      BY <2>5, <2>7, <3>1, Zenon
    <3>3. i <= i
      OBVIOUS
    <3> QED
      BY <1>4, <3>2, <3>3, IntMoved
  <2>9. StringAt(o, i, rep, "NAM_LEN", n, "NAM_STR", rep.nput, nl)
    <3>1. \A j \in 1..bl : i + j \in 1..e
      BY <2>6
    <3>2. \A j \in 1..bl : o[i + j] = b[j]
      BY <2>5, <2>7, <3>1, Zenon
    <3>3. n + nl <= bl
      BY <1>11
    <3> QED
      BY <1>6, <3>2, <3>3, StringMoved, Zenon
  <2> QED
    BY <1>9, <1>17, <2>7, <2>8, <2>9, Zenon DEF LaidAs
<1> QED
  BY <1>15, <1>16, <1>17, Zenon

\* It has octets.
LEMMA OctetsType ==
    ASSUME NEW rep \in BlockRep
    PROVE  Octets(rep) \in Seq(Octet) /\ Len(Octets(rep)) \in Nat \ {0}
<1>0. PICK i, n, nl, v, vl, e \in Nat : Shape(rep, i, n, nl, v, vl, e)
  BY PartsOf, Zenon
<1>1. /\ Parts(rep, i, n, nl, v, vl, e) /\ i \in {1, 2} /\ n \in {1, 2}
      /\ v \in {1, 2} /\ e = IF rep.num = 0 THEN i + n + nl ELSE i
  BY <1>0 DEF Shape
<1>2. PICK o : o = Octets(rep)
  OBVIOUS
<1>3. LaidAs(rep, o, i, n, nl, v, vl, e)
  BY <1>1, <1>2, OctetsAre, Zenon
<1>4. /\ o \in Seq(Octet)
      /\ ~IsLiteral(rep) => Len(o) = i
      /\ IsLiteral(rep) => Len(o) = e + v + vl
  BY <1>3, Zenon DEF LaidAs
<1>5. i # 0 /\ v # 0 /\ e + v + vl \in Nat \ {0}
  BY <1>1
<1>6. Len(o) \in Nat \ {0}
  BY <1>1, <1>4, <1>5
<1> QED
  BY <1>2, <1>4, <1>6, Zenon

\* All octets of a are those of o.
Starts(a, o) == Len(a) <= Len(o) /\ \A j \in 1..Len(a) : o[j] = a[j]

\* The octets of the first k representations begin the block.
LEMMA FirstStarts ==
    ASSUME NEW reps \in Seq(BlockRep), NEW k \in 0..Len(reps)
    PROVE  /\ FirstOctets(reps, k) \in Seq(Octet)
           /\ Starts(FirstOctets(reps, k), BlockOctets(reps))
           /\ k < Len(reps) =>
                /\ reps[k + 1] \in BlockRep
                /\ Concat(FirstOctets(reps, k + 1),
                          FirstOctets(reps, k), Len(FirstOctets(reps, k)),
                          Octets(reps[k + 1]), Len(Octets(reps[k + 1])))
<1>1. PICK len \in Nat : len = Len(reps)
  OBVIOUS
<1>2. \A i \in 1..len : reps[i] \in BlockRep
  BY <1>1
<1> DEFINE T == {m \in 0..len : FirstOctets(reps, m) \in Seq(Octet)}
<1>3. FirstOctets(reps, 0) = <<>>
  BY FirstNext
<1>4. 0 \in T
  <2>1. <<>> \in Seq(Octet) /\ 0 \in 0..len
    OBVIOUS
  <2> QED
    BY <1>3, <2>1, Zenon
<1>5. ASSUME NEW m \in 0..(len - 1), m \in T
      PROVE  /\ m + 1 \in T /\ reps[m + 1] \in BlockRep
             /\ Concat(FirstOctets(reps, m + 1),
                       FirstOctets(reps, m), Len(FirstOctets(reps, m)),
                       Octets(reps[m + 1]), Len(Octets(reps[m + 1])))
  <2>1. reps[m + 1] \in BlockRep
    BY <1>2
  <2>2. PICK o \in Seq(Octet) : o = Octets(reps[m + 1])
    BY <2>1, OctetsType
  <2>3. PICK a \in Seq(Octet) : a = FirstOctets(reps, m)
    BY <1>5
  <2>4. m \in Nat
    OBVIOUS
  <2>5. FirstOctets(reps, m + 1) = a \o o
    BY <2>2, <2>3, <2>4, FirstNext, Zenon
  <2>6. Len(a) \in Nat /\ Len(o) \in Nat
    OBVIOUS
  <2>7. a \o o \in Seq(Octet) /\ Concat(a \o o, a, Len(a), o, Len(o))
    BY <2>6, ConcatIs, Zenon
  <2>8. m + 1 \in 0..len
    OBVIOUS
  <2> QED
    BY <2>1, <2>2, <2>3, <2>5, <2>7, <2>8, Zenon
<1>6. \A m \in 0..len : m \in T
  <2>1. Climbs(T, 0, len)
    BY <1>4, <1>5, Zenon DEF Climbs
  <2> HIDE DEF T
  <2> QED
    BY <1>1, <2>1, Reaches
<1>7. FirstOctets(reps, k) \in Seq(Octet)
  BY <1>1, <1>6
<1>8. Starts(FirstOctets(reps, k), BlockOctets(reps))
  <2> DEFINE U == {m \in k..len : Starts(FirstOctets(reps, k), FirstOctets(reps, m))}
  <2>1. PICK a \in Seq(Octet) : a = FirstOctets(reps, k)
    BY <1>7
  <2>2. k \in U
    <3>1. Starts(a, a)
      BY DEF Starts
    <3> QED
      BY <1>1, <2>1, <3>1
  <2>3. ASSUME NEW m \in k..(len - 1), m \in U PROVE m + 1 \in U
    <3>1. PICK b \in Seq(Octet) : b = FirstOctets(reps, m)
      BY <1>6
    <3>2. PICK o : o = FirstOctets(reps, m + 1)
      OBVIOUS
    <3>3. PICK c \in Seq(Octet) : c = Octets(reps[m + 1])
      BY <1>2, OctetsType
    <3>4. m \in 0..(len - 1) /\ m \in 0..len
      OBVIOUS
    <3>5. Concat(o, b, Len(b), c, Len(c))
      BY <1>5, <1>6, <3>1, <3>2, <3>3, <3>4, Zenon
    <3>6. Len(o) = Len(b) + Len(c) /\ \A j \in 1..Len(b) : o[j] = b[j]
      BY <3>5, Zenon DEF Concat
    <3>7. Len(a) <= Len(b) /\ \A j \in 1..Len(a) : b[j] = a[j]
      BY <2>1, <2>3, <3>1 DEF Starts
    <3>8. Starts(a, o)
      BY <3>6, <3>7 DEF Starts
    <3> QED
      BY <2>1, <3>2, <3>8
  <2>4. \A m \in k..len : m \in U
    <3>1. Climbs(U, k, len)
      BY <2>2, <2>3 DEF Climbs
    <3> HIDE DEF U
    <3> QED
      BY <1>1, <3>1, Reaches
  <2>5. len \in U
    BY <1>1, <2>4
  <2> QED
    BY <1>1, <2>5 DEF BlockOctets
<1>9. ASSUME k < Len(reps) PROVE k \in 0..(len - 1) /\ k \in T
  BY <1>1, <1>6, <1>9
<1> QED
  BY <1>5, <1>7, <1>8, <1>9, Zenon

\* The octets of a representation within the block.
LEMMA OctetsInBlock ==
    ASSUME NEW reps \in Seq(BlockRep), NEW k \in 0..Len(reps), k < Len(reps),
           NEW m \in Nat, NEW o \in Seq(Octet),
           Len(FirstOctets(reps, k)) = m, o = Octets(reps[k + 1])
    PROVE  /\ Len(FirstOctets(reps, k + 1)) = m + Len(o)
           /\ m + Len(o) <= Len(BlockOctets(reps))
           /\ \A j \in 1..Len(o) : BlockOctets(reps)[m + j] = o[j]
<1>1. PICK a \in Seq(Octet) : a = FirstOctets(reps, k)
  BY FirstStarts, Zenon
<1>2. k + 1 \in 0..Len(reps)
  OBVIOUS
<1>3. PICK b \in Seq(Octet) : b = FirstOctets(reps, k + 1)
  BY <1>2, FirstStarts, Zenon
<1>4. Concat(b, a, m, o, Len(o))
  BY <1>1, <1>3, FirstStarts, Zenon
<1>5. Len(b) = m + Len(o) /\ \A j \in 1..Len(o) : b[m + j] = o[j]
  BY <1>4, Zenon DEF Concat
<1>6. PICK all : all = BlockOctets(reps)
  OBVIOUS
<1>7. Starts(b, all)
  BY <1>2, <1>3, <1>6, FirstStarts, Zenon
<1>8. Len(b) <= Len(all) /\ \A j \in 1..Len(b) : all[j] = b[j]
  BY <1>7, Zenon DEF Starts
<1>9. \A j \in 1..Len(o) : m + j \in 1..Len(b)
  BY <1>5
<1> QED
  BY <1>3, <1>5, <1>6, <1>8, <1>9
-----------------------------------------------------------------------------
(***************************************************************************)
(* Fields and the room they take.                                          *)
(***************************************************************************)

\* The fields the callback has seen.
LEMMA FieldsType ==
    ASSUME NEW heard \in Seq(Seen)
    PROVE  /\ Fields(heard) \in Seq(Field) /\ Len(Fields(heard)) = Len(heard)
           /\ \A i \in 1..Len(heard) : Fields(heard)[i] = heard[i].fld
<1>1. \A i \in 1..Len(heard) : heard[i] \in Seen
  OBVIOUS
<1>2. \A seen \in Seen : seen.fld \in Field
  BY DEF Seen
<1>3. \A i \in 1..Len(heard) : heard[i].fld \in Field
  BY <1>1, <1>2, Zenon
<1> QED
  BY <1>3 DEF Fields

\* One more.
LEMMA FieldsAppend ==
    ASSUME NEW heard \in Seq(Seen), NEW seen \in Seen
    PROVE  Fields(Append(heard, seen)) = Append(Fields(heard), seen.fld)
<1>1. PICK n \in Nat : n = Len(heard)
  OBVIOUS
<1>2. PICK more \in Seq(Seen) : more = Append(heard, seen)
  BY AppendProperties, Zenon
<1>3. Len(more) = n + 1 /\ more[n + 1] = seen /\ \A i \in 1..n : more[i] = heard[i]
  BY <1>1, <1>2
<1>4. /\ Fields(more) \in Seq(Field) /\ Len(Fields(more)) = n + 1
      /\ \A i \in 1..(n + 1) : Fields(more)[i] = more[i].fld
  BY <1>3, FieldsType
<1>5. /\ Fields(heard) \in Seq(Field) /\ Len(Fields(heard)) = n
      /\ \A i \in 1..n : Fields(heard)[i] = heard[i].fld
  BY <1>1, FieldsType
<1>6. PICK f \in Seq(Field) : f = Fields(heard)
  BY <1>5
<1>7. PICK g \in Seq(Field) : g = Fields(more)
  BY <1>4
<1>8. PICK h \in Seq(Field) : h = Append(f, seen.fld)
  <2>1. seen.fld \in Field
    BY DEF Seen
  <2> QED
    BY <2>1, AppendProperties, Zenon
<1>9. /\ Len(h) = n + 1 /\ h[n + 1] = seen.fld
      /\ \A i \in 1..n : h[i] = f[i]
  BY <1>5, <1>6, <1>8
<1>10. Len(g) = n + 1 /\ \A i \in 1..(n + 1) : g[i] = h[i]
  BY <1>3, <1>4, <1>5, <1>6, <1>7, <1>9, SMTT(60)
<1>11. g = h
  BY <1>9, <1>10
<1> QED
  BY <1>2, <1>6, <1>7, <1>8, <1>11

\* A field takes room.
LEMMA RoomType ==
    ASSUME NEW fld \in Field
    PROVE  /\ NameSize[fld.nam] \in Nat \ {0} /\ ValueSize[fld.val] \in Nat
           /\ Room(fld) \in Nat \ {0}
BY SizeAssumption DEF Field, Room

\* Several take as much as each of them together, and no less than any.
LEMMA RoomsType ==
    ASSUME NEW flds \in Seq(Field)
    PROVE  /\ Rooms(flds) \in Nat
           /\ Rooms(flds) = SumOf([i \in 1..Len(flds) |-> Room(flds[i])], Len(flds))
           /\ Rooms(flds) <= BufLen => AllFit(flds)
           /\ Rooms(<<>>) = 0
<1>1. PICK n \in Nat : n = Len(flds)
  OBVIOUS
<1>2. \A i \in 1..n : Room(flds[i]) \in Nat
  BY <1>1, RoomType
<1>3. PICK s : s = [i \in 1..n |-> Room(flds[i])]
  OBVIOUS
<1>4. s \in Seq(Nat) /\ Len(s) = n /\ \A i \in 1..n : s[i] = Room(flds[i])
  BY <1>2, <1>3
<1>5. DOMAIN flds = 1..n
  BY <1>1
<1>6. Rooms(flds) = Total(s)
  BY <1>3, <1>5, Zenon DEF Rooms
<1>7. Total(s) = SumOf(s, n)
  BY <1>4, Zenon DEF Total
<1>8. Total(s) \in Nat /\ \A i \in 1..n : s[i] <= Total(s)
  <2>1. n \in 0..Len(s) /\ 1..n = 1..Len(s)
    BY <1>4
  <2> QED
    BY <1>4, <1>7, <2>1, SumOfType, Zenon
<1>9. BufLen \in Nat
  BY PieceAssumption
<1>10. ASSUME Total(s) <= BufLen PROVE \A i \in 1..n : Room(flds[i]) <= BufLen
  BY <1>2, <1>4, <1>8, <1>9, <1>10
<1>11. Rooms(<<>>) = 0
  <2>1. PICK z : z = [i \in DOMAIN <<>> |-> Room(<<>>[i])]
    OBVIOUS
  <2>2. z = <<>> /\ Len(z) = 0
    BY <2>1
  <2>3. Rooms(<<>>) = SumOf(z, Len(z))
    BY <2>1, Zenon DEF Rooms, Total
  <2> QED
    BY <2>2, <2>3, SumOfNext, Zenon
<1> QED
  BY <1>1, <1>3, <1>5, <1>6, <1>7, <1>8, <1>10, <1>11, Zenon DEF AllFit

\* One more field.
LEMMA RoomsAppend ==
    ASSUME NEW flds \in Seq(Field), NEW fld \in Field
    PROVE  /\ Rooms(Append(flds, fld)) = Rooms(flds) + Room(fld)
           /\ AllFit(Append(flds, fld)) <=> AllFit(flds) /\ Room(fld) <= BufLen
<1>1. PICK n \in Nat : n = Len(flds)
  OBVIOUS
<1>2. PICK more \in Seq(Field) : more = Append(flds, fld)
  BY AppendProperties, Zenon
<1>3. Len(more) = n + 1 /\ more[n + 1] = fld /\ \A i \in 1..n : more[i] = flds[i]
  BY <1>1, <1>2
<1>4. PICK s : s = [i \in 1..n |-> Room(flds[i])]
  OBVIOUS
<1>5. PICK t : t = [i \in 1..(n + 1) |-> Room(more[i])]
  OBVIOUS
<1>6. Rooms(flds) = SumOf(s, n) /\ Rooms(more) = SumOf(t, n + 1)
  BY <1>1, <1>3, <1>4, <1>5, RoomsType, Zenon
<1>7. SumOf(t, n + 1) = SumOf(t, n) + t[n + 1]
  BY SumOfNext
<1>8. t[n + 1] = Room(fld)
  BY <1>3, <1>5
<1>9. \A i \in 1..n : t[i] = s[i]
  BY <1>3, <1>4, <1>5
<1>10. SumOf(t, n) = SumOf(s, n)
  BY <1>9, SumOfSame
<1>11. AllFit(more) <=> AllFit(flds) /\ Room(fld) <= BufLen
  <2>1. DOMAIN more = 1..(n + 1) /\ DOMAIN flds = 1..n
    BY <1>1, <1>3
  <2>2. AllFit(more) <=> \A i \in 1..(n + 1) : Room(more[i]) <= BufLen
    BY <2>1, Zenon DEF AllFit
  <2>3. AllFit(flds) <=> \A i \in 1..n : Room(flds[i]) <= BufLen
    BY <2>1, Zenon DEF AllFit
  <2> QED
    BY <1>3, <2>2, <2>3
<1> QED
  BY <1>2, <1>6, <1>7, <1>8, <1>10, <1>11, Zenon
-----------------------------------------------------------------------------
(***************************************************************************)
(* What a block says, one representation after another.                    *)
(***************************************************************************)
OutRun(f, acc, reps, k, n) ==
    f = [i \in k..n |-> IF i = k THEN acc
                        ELSE DecodeWhole(f[i - 1], reps[i], i < Len(reps))]

\* What a run is.
OutSteps(f, acc, reps, k, n) ==
    \A i \in k..n : f[i] = IF i = k THEN acc
                           ELSE DecodeWhole(f[i - 1], reps[i], i < Len(reps))

\* A run takes these steps,
LEMMA OutRunIs ==
    ASSUME NEW f, NEW acc, NEW reps, NEW k \in Int, NEW n \in Int,
           OutRun(f, acc, reps, k, n)
    PROVE  OutSteps(f, acc, reps, k, n)
BY DEF OutRun, OutSteps

\* and what takes them is a run.
LEMMA OutRunOf ==
    ASSUME NEW f, NEW acc, NEW reps, NEW k \in Int, NEW n \in Int,
           f = [i \in k..n |-> f[i]], OutSteps(f, acc, reps, k, n)
    PROVE  OutRun(f, acc, reps, k, n)
BY DEF OutRun, OutSteps

\* Outcome is the end of one.
LEMMA OutcomeRuns ==
    ASSUME NEW acc, NEW reps, Len(reps) \in Nat, NEW k \in 0..Len(reps)
    PROVE  \E f : /\ OutRun(f, acc, reps, k, Len(reps))
                  /\ Outcome(acc, reps, k) = f[Len(reps)]
<1>0. PICK len \in Nat : len = Len(reps)
  OBVIOUS
<1>6. k \in Int /\ \A m \in k..len : m \in Int /\ m + 1 \in Int
  BY <1>0
<1> DEFINE T == {m \in k..len : \E f : OutRun(f, acc, reps, k, m)}
<1>1. k \in T
  <2>1. PICK f : f = [i \in k..k |-> acc]
    OBVIOUS
  <2>2. /\ f = [i \in k..k |-> f[i]]
        /\ \A i \in k..k :
              f[i] = IF i = k THEN acc
                     ELSE DecodeWhole(f[i - 1], reps[i], i < Len(reps))
    BY <2>1
  <2>3. OutRun(f, acc, reps, k, k)
    BY <1>6, <2>2, OutRunOf, Zenon DEF OutSteps
  <2> QED
    BY <1>0, <2>3
<1>2. ASSUME NEW m \in k..(len - 1), m \in T PROVE m + 1 \in T
  <2>1. PICK f : OutRun(f, acc, reps, k, m)
    BY <1>2
  <2>2. PICK g : g = [i \in k..(m + 1) |->
                        IF i <= m THEN f[i]
                        ELSE DecodeWhole(f[m], reps[i], i < Len(reps))]
    OBVIOUS
  <2>3. \A i \in k..m :
           f[i] = IF i = k THEN acc
                  ELSE DecodeWhole(f[i - 1], reps[i], i < Len(reps))
    <3>1. m \in Int
      BY <1>6
    <3>2. OutSteps(f, acc, reps, k, m)
      BY <1>6, <2>1, <3>1, OutRunIs, Zenon
    <3> QED
      BY <3>2 DEF OutSteps
  <2>4. \A i \in k..(m + 1) :
           g[i] = IF i = k THEN acc
                  ELSE DecodeWhole(g[i - 1], reps[i], i < Len(reps))
    BY <2>2, <2>3
  <2>5. OutRun(g, acc, reps, k, m + 1)
    <3>1. m + 1 \in Int
      OBVIOUS
    <3>2. g = [i \in k..(m + 1) |-> g[i]]
      BY <2>2
    <3> QED
      BY <1>6, <2>4, <3>1, <3>2, OutRunOf, Zenon DEF OutSteps
  <2> QED
    BY <2>5
<1>3. len \in T
  <2> HIDE DEF T
  <2> QED
    BY <1>0, <1>1, <1>2, Reaches DEF Climbs
<1>4. Outcome(acc, reps, k)
      = (CHOOSE f : OutRun(f, acc, reps, k, Len(reps)))[Len(reps)]
  BY Zenon DEF Outcome, OutRun
<1>5. OutRun(CHOOSE f : OutRun(f, acc, reps, k, Len(reps)), acc, reps, k, Len(reps))
  BY <1>0, <1>3, Zenon
<1> QED
  BY <1>4, <1>5, Zenon

\* Nothing comes behind the last representation.
LEMMA OutcomeLast ==
    ASSUME NEW acc, NEW reps, NEW k \in Nat, Len(reps) = k
    PROVE  Outcome(acc, reps, k) = acc
<1>1. PICK f : OutRun(f, acc, reps, k, k) /\ Outcome(acc, reps, k) = f[k]
  <2>1. Len(reps) \in Nat /\ k \in 0..Len(reps)
    OBVIOUS
  <2> QED
    BY <2>1, OutcomeRuns, Zenon
<1>2. f[k] = acc
  <2>1. k \in Int /\ k \in k..k
    OBVIOUS
  <2>2. OutSteps(f, acc, reps, k, k)
    BY <1>1, <2>1, OutRunIs, Zenon
  <2> QED
    BY <2>1, <2>2 DEF OutSteps
<1> QED
  BY <1>1, <1>2

\* Before it, one is decoded, and then the others.
LEMMA OutcomeNext ==
    ASSUME NEW acc, NEW reps, NEW len \in Nat, Len(reps) = len,
           NEW k \in 0..len, k < len
    PROVE  Outcome(acc, reps, k)
           = Outcome(DecodeWhole(acc, reps[k + 1], k + 1 < len), reps, k + 1)
<1>1. len \in 0..len /\ k + 1 \in 0..len
  OBVIOUS
<1>0. k \in Int /\ k + 1 \in Int /\ len \in Int
  OBVIOUS
<1>2. PICK f : OutRun(f, acc, reps, k, len) /\ Outcome(acc, reps, k) = f[len]
  BY OutcomeRuns, Zenon
<1>3. PICK next : next = DecodeWhole(acc, reps[k + 1], k + 1 < len)
  OBVIOUS
<1>4. PICK g : OutRun(g, next, reps, k + 1, len)
               /\ Outcome(next, reps, k + 1) = g[len]
  BY <1>1, OutcomeRuns, Zenon
<1>5. \A i \in k..len : f[i] = IF i = k THEN acc
                               ELSE DecodeWhole(f[i - 1], reps[i], i < len)
  <2>1. OutSteps(f, acc, reps, k, len)
    BY <1>0, <1>2, OutRunIs, Zenon
  <2> QED
    BY <2>1 DEF OutSteps
<1>6. \A i \in (k + 1)..len : g[i] = IF i = k + 1 THEN next
                                     ELSE DecodeWhole(g[i - 1], reps[i], i < len)
  <2>1. OutSteps(g, next, reps, k + 1, len)
    BY <1>0, <1>4, OutRunIs, Zenon
  <2> QED
    BY <2>1 DEF OutSteps
<1>7. f[k] = acc /\ f[k + 1] = next
  <2>1. f[k] = acc
    BY <1>5
  <2>2. k + 1 \in k..len /\ k + 1 # k /\ (k + 1) - 1 = k
    OBVIOUS
  <2> QED
    BY <1>3, <1>5, <2>1, <2>2, Zenon
<1> DEFINE T == {m \in (k + 1)..len : f[m] = g[m]}
<1>8. k + 1 \in T
  BY <1>1, <1>6, <1>7
<1>9. ASSUME NEW m \in (k + 1)..(len - 1), m \in T PROVE m + 1 \in T
  <2>1. /\ m + 1 \in k..len /\ m + 1 \in (k + 1)..len
        /\ m + 1 # k /\ m + 1 # k + 1 /\ (m + 1) - 1 = m
    OBVIOUS
  <2>2. f[m + 1] = DecodeWhole(f[m], reps[m + 1], m + 1 < len)
    BY <1>5, <2>1, Zenon
  <2>3. g[m + 1] = DecodeWhole(g[m], reps[m + 1], m + 1 < len)
    BY <1>6, <2>1, Zenon
  <2>4. f[m] = g[m]
    BY <1>9
  <2> QED
    BY <2>1, <2>2, <2>3, <2>4, Zenon
<1>10. len \in T
  <2>1. Climbs(T, k + 1, len)
    BY <1>8, <1>9 DEF Climbs
  <2> HIDE DEF T
  <2> QED
    BY <2>1, Reaches
<1> QED
  BY <1>2, <1>3, <1>4, <1>10, Zenon

\* What is made of a representation is of its type, whatever it is.
LEMMA WholeHealthy ==
    ASSUME NEW hp, Healthy(hp), NEW rep \in BlockRep, NEW cut \in BOOLEAN,
           NEW w, w = WholeRep(hp, rep, cut)
    PROVE  /\ Healthy(w.hp) /\ w.fld \in Field \cup {NoField}
           /\ w.ret \in Results \cup {"RSZ"}
<1>1. PICK r : r = [typ |-> rep.typ, num |-> rep.num, fld |-> rep.fld,
                    cut |-> cut]
  OBVIOUS
<1>2. r \in Rep
  <2>1. CASE rep.typ = "UPD"
    BY <1>1, <2>1, BlockRepType DEF Rep
  <2>2. CASE rep.typ # "UPD"
    BY <1>1, <2>2, BlockRepType DEF Rep
  <2> QED
    BY <2>1, <2>2
<1>3. PICK out : out = hpack_decode(hp, r)
  OBVIOUS
<1>4. /\ Healthy(out.hp) /\ out.fld \in Field \cup {NoField}
      /\ out.ret \in Results \/ (out.ret = "RSZ" /\ out.fld = NoField)
  BY <1>2, <1>3, DecodeHealthy
<1>5. w = out \/ w = Refuse(out.hp, "LEN")
  BY <1>1, <1>3, Zenon DEF WholeRep
<1>6. CASE w = out
  BY <1>4, <1>6
<1>7. CASE w = Refuse(out.hp, "LEN")
  <2>1. "LEN" \in Results
    BY DEF Results
  <2>2. Healthy(w.hp) /\ w.ret \in Results /\ w.fld = NoField
    BY <1>4, <1>7, <2>1, RefuseHealthy
  <2> QED
    BY <2>2
<1> QED
  BY <1>5, <1>6, <1>7

Verdict == Results \cup {"RSZ"}

\* What a block may say.
Sane(acc) ==
    /\ Healthy(acc.hp) /\ acc.flds \in Seq(Field) /\ acc.ret \in Verdict

\* Nothing is taken back.
LEMMA DecodeWholeSane ==
    ASSUME NEW acc, Sane(acc), NEW rep \in BlockRep, NEW cut \in BOOLEAN,
           NEW w, w = DecodeWhole(acc, rep, cut)
    PROVE  Sane(w) /\ Starts(acc.flds, w.flds)
<1>1. PICK flds \in Seq(Field) : flds = acc.flds
  BY DEF Sane
<1>2. Starts(flds, flds)
  BY DEF Starts
<1>3. CASE acc.ret # "OK"
  <2>1. w = acc
    BY <1>3, Zenon DEF DecodeWhole
  <2> QED
    BY <1>1, <1>2, <2>1
<1>4. CASE acc.ret = "OK"
  <2>1. PICK res : res = WholeRep(acc.hp, rep, cut)
    OBVIOUS
  <2>2. Healthy(acc.hp)
    BY DEF Sane
  <2>3. /\ Healthy(res.hp) /\ res.fld \in Field \cup {NoField}
        /\ res.ret \in Verdict
    BY <2>1, <2>2, WholeHealthy DEF Verdict
  <2>4. w = [hp   |-> res.hp,
             ret  |-> IF res.ret = "BLK" THEN "OK" ELSE res.ret,
             flds |-> IF res.fld = NoField THEN acc.flds
                      ELSE Append(acc.flds, res.fld)]
    BY <1>4, <2>1, Zenon DEF DecodeWhole
  <2>5. w.ret \in Verdict /\ Healthy(w.hp)
    BY <2>3, <2>4 DEF Verdict, Results
  <2>6. CASE res.fld = NoField
    <3>1. w.flds = flds
      BY <1>1, <2>4, <2>6
    <3> QED
      BY <1>1, <1>2, <2>5, <3>1 DEF Sane
  <2>7. CASE res.fld # NoField
    <3>1. res.fld \in Field
      BY <2>3, <2>7
    <3>2. PICK more \in Seq(Field) : more = Append(flds, res.fld)
      BY <3>1, AppendProperties, Zenon
    <3>3. w.flds = more
      BY <1>1, <2>4, <2>7, <3>2
    <3>4. Starts(flds, more)
      BY <3>2 DEF Starts
    <3> QED
      BY <1>1, <2>5, <3>3, <3>4 DEF Sane
  <2> QED
    BY <2>6, <2>7
<1> QED
  BY <1>3, <1>4

\* What begins a beginning.
LEMMA StartsStarts ==
    ASSUME NEW a, NEW b, NEW c, Starts(a, b), Starts(b, c),
           Len(a) \in Nat, Len(b) \in Nat, Len(c) \in Nat
    PROVE  Starts(a, c)
BY DEF Starts

\* Nor behind several of them; an error is the last word.
LEMMA OutcomeSane ==
    ASSUME NEW acc, Sane(acc), NEW reps \in Seq(BlockRep),
           NEW k \in 0..Len(reps), NEW out, out = Outcome(acc, reps, k)
    PROVE  /\ Sane(out) /\ Starts(acc.flds, out.flds)
           /\ acc.ret # "OK" => out = acc
<1>1. PICK len \in Nat : len = Len(reps)
  OBVIOUS
<1>2. k \in Int /\ len \in Int /\ len \in k..len
  BY <1>1
<1>3. PICK f : OutRun(f, acc, reps, k, len) /\ out = f[len]
  BY <1>1, OutcomeRuns, Zenon
<1>4. OutSteps(f, acc, reps, k, len)
  BY <1>2, <1>3, OutRunIs, Zenon
<1>5. \A i \in k..len : f[i] = IF i = k THEN acc
                               ELSE DecodeWhole(f[i - 1], reps[i], i < Len(reps))
  BY <1>4 DEF OutSteps
<1> DEFINE T == {m \in k..len : /\ Sane(f[m]) /\ Starts(acc.flds, f[m].flds)
                                /\ acc.ret # "OK" => f[m] = acc}
<1>6. k \in T
  <2>1. f[k] = acc
    BY <1>1, <1>5
  <2>2. acc.flds \in Seq(Field)
    BY DEF Sane
  <2>3. Starts(acc.flds, acc.flds)
    BY <2>2 DEF Starts
  <2> QED
    BY <1>1, <2>1, <2>3
<1>7. ASSUME NEW m \in k..(len - 1), m \in T PROVE m + 1 \in T
  <2>1. PICK a : a = f[m]
    OBVIOUS
  <2>2. PICK cut \in BOOLEAN : cut = (m + 1 < Len(reps))
    <3>1. (m + 1 < Len(reps)) \in BOOLEAN
      OBVIOUS
    <3> QED
      BY <3>1, Zenon
  <2>3. m + 1 \in k..len /\ m + 1 # k /\ (m + 1) - 1 = m /\ m + 1 \in 1..Len(reps)
    BY <1>1
  <2>4. PICK w : w = f[m + 1]
    OBVIOUS
  <2>5. w = DecodeWhole(a, reps[m + 1], cut)
    BY <1>5, <2>1, <2>2, <2>3, <2>4, Zenon
  <2>6. reps[m + 1] \in BlockRep
    BY <2>3
  <2>7. Sane(a) /\ Starts(acc.flds, a.flds) /\ (acc.ret # "OK" => a = acc)
    BY <1>7, <2>1
  <2>8. Sane(w) /\ Starts(a.flds, w.flds)
    BY <2>5, <2>6, <2>7, DecodeWholeSane
  <2>9. acc.flds \in Seq(Field) /\ a.flds \in Seq(Field) /\ w.flds \in Seq(Field)
    BY <2>7, <2>8 DEF Sane
  <2>10. Starts(acc.flds, w.flds)
    <3>1. Len(acc.flds) \in Nat /\ Len(a.flds) \in Nat /\ Len(w.flds) \in Nat
      BY <2>9
    <3> QED
      BY <2>7, <2>8, <3>1, StartsStarts
  <2>11. acc.ret # "OK" => w = acc
    BY <2>5, <2>7, Zenon DEF DecodeWhole
  <2> QED
    BY <2>3, <2>4, <2>8, <2>10, <2>11, Zenon
<1>8. len \in T
  <2>1. Climbs(T, k, len)
    BY <1>6, <1>7 DEF Climbs
  <2> HIDE DEF T
  <2> QED
    BY <1>1, <1>2, <2>1, Reaches
<1> QED
  BY <1>3, <1>8, Zenon
-----------------------------------------------------------------------------
(***************************************************************************)
(* A call sets ctx.res before it reads anything, and nothing that it reads *)
(* depends on it.                                                          *)
(***************************************************************************)
At(hp, res) == [hp EXCEPT !.res = res]

\* A decoder within a call, or between two.
Able(hp) == DecoderHealthy(hp) /\ hp.magic = "DECODER" /\ hp.realloc

\* All else is the same.
LEMMA AtIs ==
    ASSUME NEW hp \in Codec, NEW res \in Results, NEW r, r = At(hp, res)
    PROVE  /\ r \in Codec /\ r.res = res
           /\ r.magic = hp.magic /\ r.realloc = hp.realloc /\ r.mem = hp.mem
           /\ r.max = hp.max /\ r.lim = hp.lim /\ r.cap = hp.cap
           /\ r.nxt = hp.nxt /\ r.min = hp.min /\ r.upd = hp.upd
           /\ r.self = hp.self /\ r.tbl = hp.tbl /\ r.len = hp.len
           /\ Indices(r) = Indices(hp) /\ HPACK_LIMIT(r) = HPACK_LIMIT(hp)
           /\ At(hp, hp.res) = hp
           /\ \A res2 : At(r, res2) = At(hp, res2)
           /\ \A i : HPT_field(r, i) = HPT_field(hp, i)
BY DEF At, Codec, Indices, HPACK_LIMIT, HPT_field

\* A decoder can be read.
LEMMA AbleIs ==
    ASSUME NEW hp, Able(hp)
    PROVE  /\ hp \in Codec /\ Healthy(hp) /\ LaidOut(hp) /\ Ordered(hp)
           /\ hp.self /\ hp.res \in {"OK", "BLK"} /\ hp.lim <= hp.max
           /\ hp.max <= hp.mem /\ hp.nxt <= hp.mem /\ DecoderHealthy(hp)
           /\ hp.magic = "DECODER" /\ hp.realloc
BY DEF Able, DecoderHealthy, Healthy, Sound

\* It is as good with another result.
LEMMA AbleAt ==
    ASSUME NEW hp, Able(hp), NEW res \in {"OK", "BLK"}, NEW r, r = At(hp, res)
    PROVE  Able(r)
<1>1. hp \in Codec /\ DecoderHealthy(hp) /\ hp.magic = "DECODER"
  BY AbleIs
<1>2. PICK upd \in BOOLEAN : upd = hp.upd
  BY <1>1 DEF Codec
<1>3. DecoderHealthy(r) /\ r.magic = "DECODER"
  <2>1. r = [hp EXCEPT !.res = res, !.upd = upd]
    BY <1>1, <1>2 DEF At, Codec
  <2> QED
    BY <1>1, <2>1, ContextDecoder, ZenonT(60)
<1>4. r.realloc = hp.realloc
  BY <1>1 DEF At, Codec
<1> QED
  BY <1>3, <1>4 DEF Able

\* A codec that differs in its table only, from one that differs in the result.
LEMMA TableOnlyAt ==
    ASSUME NEW hp \in Codec, NEW res \in Results, NEW r, TableOnly(r, hp),
           NEW s, TableOnly(s, At(hp, res)), r.tbl = s.tbl, r.len = s.len
    PROVE  s = At(r, res)
<1>1. r = [hp EXCEPT !.tbl = s.tbl, !.len = s.len]
  BY DEF TableOnly
<1>2. s = [[hp EXCEPT !.res = res] EXCEPT !.tbl = s.tbl, !.len = s.len]
  BY Zenon DEF TableOnly, At
<1>3. PICK tbl : tbl = s.tbl
  OBVIOUS
<1>4. PICK len : len = s.len
  OBVIOUS
<1>5. /\ r = [hp EXCEPT !.tbl = tbl, !.len = len]
      /\ s = [[hp EXCEPT !.res = res] EXCEPT !.tbl = tbl, !.len = len]
  BY <1>1, <1>2, <1>3, <1>4, Zenon
<1> QED
  BY <1>5 DEF At, Codec

\* An insertion.
LEMMA IndexAt ==
    ASSUME NEW hp, Able(hp), NEW res \in {"OK", "BLK"}, NEW fld \in Field,
           NEW r, r = HPT_index(hp, fld)
    PROVE  Able(r) /\ HPT_index(At(hp, res), fld) = At(r, res)
<1>1. /\ hp \in Codec /\ Healthy(hp) /\ LaidOut(hp) /\ hp.lim <= hp.max
      /\ hp.magic # "ABORTED"
  BY AbleIs
<1>2. PICK g : g = At(hp, res)
  OBVIOUS
<1>3. res \in Results
  BY DEF Results
<1>4. /\ g \in Codec /\ LaidOut(g) /\ g.lim <= g.max /\ g.magic # "ABORTED"
  BY <1>2, AbleAt, AbleIs
<1>5. Alike(hp, g)
  BY <1>1, <1>2, <1>3, AtIs DEF Alike
<1>6. PICK s : s = HPT_index(g, fld)
  OBVIOUS
<1>7. TableOnly(r, hp) /\ TableOnly(s, g)
  BY <1>1, <1>4, <1>6, IndexKeeps
<1>8. r.tbl = s.tbl /\ r.len = s.len
  BY <1>1, <1>4, <1>5, <1>6, IndexAlike
<1>9. s = At(r, res)
  BY <1>1, <1>2, <1>3, <1>7, <1>8, TableOnlyAt
<1>10. Healthy(r)
  BY <1>1, IndexHealthy
<1>11. /\ r.magic = hp.magic /\ r.realloc = hp.realloc /\ r.mem = hp.mem
       /\ r.max = hp.max /\ r.lim = hp.lim /\ r.nxt = hp.nxt
       /\ r.res = hp.res /\ r.self = hp.self
  BY <1>1, <1>7, TableOnlySame
<1>12. Able(r)
  BY <1>10, <1>11 DEF Able, DecoderHealthy
<1> QED
  BY <1>2, <1>6, <1>9, <1>12

\* An update: it is refused either way, or accepted either way.
LEMMA UpdateAt ==
    ASSUME NEW hp, Able(hp), NEW res \in {"OK", "BLK"}, NEW sz \in Nat,
           NEW u, u = hpack_decode_update(hp, sz),
           NEW v, v = hpack_decode_update(At(hp, res), sz)
    PROVE  /\ v.fld = NoField
           /\ \/ u.ret \in {"UPD", "LEN"} /\ v.ret = u.ret
              \/ /\ u.ret = hp.res /\ v.ret = res
                 /\ Able(u.hp) /\ v.hp = At(u.hp, res)
<1>1. /\ hp \in Codec /\ DecoderHealthy(hp) /\ hp.magic = "DECODER"
      /\ hp.realloc /\ hp.res \in {"OK", "BLK"}
  BY AbleIs
<1>2. PICK g : g = At(hp, res)
  OBVIOUS
<1>3. res \in Results
  BY DEF Results
<1>4. /\ g \in Codec /\ DecoderHealthy(g) /\ g.magic = "DECODER" /\ g.res = res
  BY <1>1, <1>2, <1>3, AbleAt, AbleIs, AtIs
<1>5. PICK s : s = Settle(hp, sz)
  OBVIOUS
<1>6. PICK t : t = Settle(g, sz)
  OBVIOUS
<1>7. /\ g.upd = hp.upd /\ SettledMax(g) = SettledMax(hp)
      /\ ExpectedUpdate(g, sz) = ExpectedUpdate(hp, sz)
  <2>1. /\ g.upd = hp.upd /\ g.min = hp.min /\ g.nxt = hp.nxt /\ g.max = hp.max
    BY <1>1, <1>2, <1>3, AtIs
  <2> QED
    BY <2>1, Zenon DEF SettledMax, ExpectedUpdate
<1>8. /\ s \in Codec /\ t = At(s, res) /\ s.magic = hp.magic
      /\ s.realloc = hp.realloc /\ s.res = hp.res
  <2>1. SettledMax(hp) \in Nat
    BY <1>1 DEF SettledMax, Codec
  <2>2. PICK max \in Nat : max = SettledMax(hp)
    BY <2>1
  <2>3. /\ g.min = hp.min /\ g.nxt = hp.nxt /\ g = [hp EXCEPT !.res = res]
    BY <1>1, <1>2, <1>3, AtIs DEF At
  <2>4. CASE hp.min >= 0 /\ hp.min < hp.nxt
    <3>1. /\ s = [hp EXCEPT !.min = hp.nxt, !.lim = sz]
          /\ t = [g EXCEPT !.min = hp.nxt, !.lim = sz]
      BY <1>5, <1>6, <2>3, <2>4, Zenon DEF Settle
    <3>2. PICK nxt \in Nat : nxt = hp.nxt
      BY <1>1, <2>4 DEF Codec
    <3> QED
      BY <1>1, <2>3, <3>1, <3>2 DEF Codec, At
  <2>5. CASE ~(hp.min >= 0 /\ hp.min < hp.nxt)
    <3>1. /\ s = [hp EXCEPT !.max = max, !.lim = sz,
                            !.min = -1, !.nxt = -1, !.upd = FALSE]
          /\ t = [g EXCEPT !.max = max, !.lim = sz,
                           !.min = -1, !.nxt = -1, !.upd = FALSE]
      BY <1>5, <1>6, <1>7, <2>2, <2>3, <2>5, Zenon DEF Settle
    <3> QED
      BY <1>1, <2>3, <3>1 DEF Codec, At
  <2> QED
    BY <2>4, <2>5
<1>9. CASE ~hp.upd \/ ~ExpectedUpdate(hp, sz)
  <2>1. u = Refuse(hp, "UPD") /\ v = Refuse(g, "UPD")
    BY <1>2, <1>7, <1>9, Zenon DEF hpack_decode_update
  <2> QED
    BY <2>1 DEF Refuse
<1>10. CASE ~(~hp.upd \/ ~ExpectedUpdate(hp, sz)) /\ sz > SettledMax(hp)
  <2>1. u = Refuse(hp, "LEN") /\ v = Refuse(g, "LEN")
    BY <1>2, <1>7, <1>10, Zenon DEF hpack_decode_update
  <2> QED
    BY <2>1 DEF Refuse
<1>11. CASE ~(~hp.upd \/ ~ExpectedUpdate(hp, sz)) /\ ~(sz > SettledMax(hp))
  <2>1. /\ u = Accept(HPT_adjust(s, s.len), NoField)
        /\ v = Accept(HPT_adjust(t, t.len), NoField)
    BY <1>2, <1>5, <1>6, <1>7, <1>11, Zenon DEF hpack_decode_update
  <2>2. PICK r : r = HPT_adjust(s, s.len)
    OBVIOUS
  <2>3. PICK q : q = HPT_adjust(t, t.len)
    OBVIOUS
  <2>4. /\ u.hp = r /\ u.ret = r.res /\ v.hp = q /\ v.ret = q.res
        /\ v.fld = NoField
    BY <2>1, <2>2, <2>3 DEF Accept
  <2>5. DecoderHealthy(r) /\ DecoderHealthy(q)
    BY <1>1, <1>2, <1>4, <1>5, <1>6, <2>4, UpdateDecoder
  <2>6. t \in Codec /\ t.magic = "DECODER" /\ s.magic = "DECODER" /\ t.len = s.len
    BY <1>1, <1>3, <1>8, AtIs
  <2>7. r.magic = "DECODER" /\ q.magic = "DECODER"
    <3>1. r.magic \in {s.magic, "ABORTED"}
      BY <1>8, <2>2 DEF HPT_adjust, Evict, Abort, Codec
    <3>2. q.magic \in {t.magic, "ABORTED"}
      BY <2>3, <2>6 DEF HPT_adjust, Evict, Abort, Codec
    <3> QED
      BY <2>5, <2>6, <3>1, <3>2 DEF DecoderHealthy
  <2>8. TableOnly(r, s) /\ TableOnly(q, t)
    BY <1>1, <1>2, <1>4, <1>5, <1>6, <2>4, <2>7, UpdateDecoder
  <2>9. /\ r.magic = s.magic /\ r.realloc = s.realloc /\ r.res = s.res
        /\ r.lim = s.lim /\ r.max = s.max
    BY <1>8, <2>8, TableOnlySame
  <2>10. q.lim = t.lim /\ q.max = t.max
    BY <2>6, <2>8, TableOnlySame
  <2>11. s.lim <= s.max /\ t.lim <= t.max
    BY <2>5, <2>7, <2>9, <2>10 DEF DecoderHealthy
  <2>12. PICK need \in Int : need = s.len
    BY <1>8 DEF Codec
  <2>13. Alike(s, t)
    BY <1>3, <1>8, AtIs DEF Alike
  <2>14. r.tbl = q.tbl /\ r.len = q.len
    BY <1>8, <2>2, <2>3, <2>6, <2>11, <2>12, <2>13, AdjustAlike
  <2>15. q = At(r, res)
    BY <1>3, <1>8, <2>8, <2>14, TableOnlyAt
  <2>16. Able(r)
    BY <1>1, <1>8, <2>5, <2>7, <2>9 DEF Able
  <2>17. r \in Codec /\ q.res = res
    BY <1>3, <2>15, <2>16, AbleIs, AtIs
  <2> QED
    BY <1>8, <2>4, <2>9, <2>15, <2>16, <2>17
<1> QED
  BY <1>9, <1>10, <1>11
-----------------------------------------------------------------------------
(***************************************************************************)
(* A representation, read whole inside a block.                            *)
(***************************************************************************)
Result(cut) == IF cut THEN "BLK" ELSE "OK"
AsRep(rep, cut) == [typ |-> rep.typ, num |-> rep.num, fld |-> rep.fld, cut |-> cut]
Unnamed(rep) == IsLiteral(rep) /\ rep.num = 0 /\ rep.nput = <<>>
Early(hp, rep) == rep.typ # "UPD" /\ ~LooksLikeUpdate(rep) /\ hp.nxt >= 0

\* The head of the block, opened or closed.
Headed(hp, rep) == IF LooksLikeUpdate(rep) THEN hp ELSE [hp EXCEPT !.upd = FALSE]

Body(hp, r) == IF r.typ = "IDX" THEN hpack_decode_indexed(hp, r)
               ELSE hpack_decode_field(hp, r)

\* The head, read.
LEMMA HeadedIs ==
    ASSUME NEW hp, Able(hp), NEW rep, NEW h, h = Headed(hp, rep)
    PROVE  /\ Able(h) /\ Indices(h) = Indices(hp) /\ h.min = hp.min /\ h.nxt = hp.nxt
           /\ h.res = hp.res /\ h.tbl = hp.tbl
           /\ \A i : HPT_field(h, i) = HPT_field(hp, i)
           /\ h.upd = (hp.upd /\ LooksLikeUpdate(rep))
           /\ \A res \in Results : At(h, res) = Headed(At(hp, res), rep)
<1>1. hp \in Codec /\ DecoderHealthy(hp) /\ hp.magic = "DECODER"
      /\ hp.realloc /\ hp.res \in {"OK", "BLK"}
  BY AbleIs
<1>2. CASE LooksLikeUpdate(rep)
  <2>1. h = hp
    BY <1>2 DEF Headed
  <2>2. \A res : At(h, res) = Headed(At(hp, res), rep)
    BY <1>2, <2>1 DEF Headed
  <2>3. h.upd = (hp.upd /\ LooksLikeUpdate(rep))
    BY <1>1, <1>2, <2>1 DEF Codec
  <2> QED
    BY <2>1, <2>2, <2>3
<1>3. CASE ~LooksLikeUpdate(rep)
  <2>1. h = [hp EXCEPT !.upd = FALSE]
    BY <1>3 DEF Headed
  <2>2. h = [hp EXCEPT !.res = hp.res, !.upd = FALSE]
    BY <1>1, <2>1 DEF Codec
  <2>3. PICK res \in {"OK", "BLK"} : res = hp.res
    BY <1>1
  <2>4. DecoderHealthy(h) /\ h.magic = "DECODER"
    <3>0. PICK upd \in BOOLEAN : upd = FALSE
      OBVIOUS
    <3>1. h = [hp EXCEPT !.res = res, !.upd = upd]
      BY <2>2, <2>3, <3>0, Zenon
    <3>2. /\ DecoderHealthy(hp) /\ hp.magic = "DECODER"
          /\ res \in {"OK", "BLK"} /\ upd \in BOOLEAN
      BY <1>1, <2>3, <3>0
    <3> QED
      BY <3>1, <3>2, ContextDecoder, ZenonT(60)
  <2>5. h.realloc = hp.realloc
    BY <1>1, <2>1 DEF Codec
  <2>6. Able(h)
    BY <1>1, <2>4, <2>5 DEF Able
  <2>7. /\ h.upd = FALSE /\ h.tbl = hp.tbl /\ h.min = hp.min /\ h.nxt = hp.nxt
        /\ h.res = hp.res
    BY <1>1, <2>1 DEF Codec
  <2>8. \A r \in Results : At(h, r) = Headed(At(hp, r), rep)
    BY <1>1, <1>3, <2>1 DEF At, Headed, Codec
  <2> QED
    BY <1>3, <2>6, <2>7, <2>8 DEF Indices, HPT_field
<1> QED
  BY <1>2, <1>3

\* out is what hpack_decode makes of r, where g is the codec it begins with.
Decoded(out, hp, rep, r, g) ==
    /\ rep.typ = "UPD" => out = hpack_decode_update(g, rep.num)
    /\ Early(hp, rep) => out.ret = "RSZ" /\ out.fld = NoField
    /\ rep.typ # "UPD" /\ ~Early(hp, rep) => out = Body(Headed(g, rep), r)

\* hpack_decode inside a block, by the codec it finds there.
LEMMA InsideIs ==
    ASSUME NEW hp, Able(hp), NEW rep \in BlockRep, NEW cut \in BOOLEAN
    PROVE  Decoded(hpack_decode(At(hp, "BLK"), AsRep(rep, cut)),
                   hp, rep, AsRep(rep, cut), At(hp, Result(cut)))
<1>14. PICK g : g = At(hp, Result(cut))
  OBVIOUS
<1>15. PICK r : r = AsRep(rep, cut)
  OBVIOUS
<1>16. PICK out : out = hpack_decode(At(hp, "BLK"), r)
  OBVIOUS
<1>1. /\ hp \in Codec /\ hp.self /\ Ordered(hp)
  BY AbleIs
<1>2. PICK h : h = At(hp, "BLK")
  OBVIOUS
<1>3. "BLK" \in Results /\ Result(cut) \in Results
  BY DEF Results, Result
<1>4. /\ h \in Codec /\ h.self = hp.self /\ h.res = "BLK"
      /\ At(h, Result(cut)) = g
  <2>1. h \in Codec /\ h.self = hp.self /\ h.res = "BLK"
    BY <1>1, <1>2, <1>3, AtIs
  <2>2. \A res : At(h, res) = At(hp, res)
    BY <1>1, <1>2 DEF At, Codec
  <2> QED
    BY <1>14, <2>1, <2>2
<1>5. g \in Codec /\ g.nxt = hp.nxt /\ g.min = hp.min
  BY <1>1, <1>3, <1>14, AtIs
<1>6. r.typ = rep.typ /\ r.num = rep.num /\ r.cut = cut
  BY <1>15 DEF AsRep
<1>7. BeginDecode(h, cut) = g
  <2>1. BeginDecode(h, cut) = [h EXCEPT !.res = IF cut THEN "BLK" ELSE "OK",
                                        !.upd = h.upd]
    BY <1>1, <1>4 DEF BeginDecode
  <2>2. [h EXCEPT !.res = Result(cut), !.upd = h.upd] = At(h, Result(cut))
    BY <1>4 DEF At, Codec
  <2> QED
    BY <1>4, <2>1, <2>2, Zenon DEF Result
<1>8. LooksLikeUpdate(r) = LooksLikeUpdate(rep)
  BY <1>6, Zenon DEF LooksLikeUpdate
<1>9. LooksLikeUpdate(rep) \/ rep.typ # "UPD"
  BY DEF LooksLikeUpdate
<1>10. ASSUME rep.typ = "UPD"
       PROVE  out = hpack_decode_update(g, rep.num)
  <2>1. out = hpack_decode_update(g, rep.num)
    BY <1>2, <1>6, <1>7, <1>10, <1>16, Zenon DEF hpack_decode
  <2> QED
    BY <2>1
<1>11. ASSUME Early(hp, rep)
       PROVE  out.ret = "RSZ" /\ out.fld = NoField
  <2>1. rep.typ # "UPD" /\ ~LooksLikeUpdate(rep) /\ hp.nxt >= 0
    BY <1>11 DEF Early
  <2>2. out = [hp |-> Defunct(g), ret |-> "RSZ", fld |-> NoField]
    BY <1>2, <1>5, <1>6, <1>7, <1>8, <1>16, <2>1, Zenon DEF hpack_decode
  <2> QED
    BY <2>2
<1>12. ASSUME rep.typ # "UPD", ~Early(hp, rep)
       PROVE  out = Body(Headed(g, rep), r)
  <2>1. ~(~LooksLikeUpdate(rep) /\ hp.nxt >= 0)
    BY <1>12 DEF Early
  <2>2. ~LooksLikeUpdate(rep) => hp.min < 0
    BY <1>1, <2>1 DEF Ordered, Codec
  <2>3. Headed(g, rep) = IF LooksLikeUpdate(rep) THEN g
                         ELSE IF g.min < 0 THEN [g EXCEPT !.upd = FALSE]
                         ELSE Abort(g)
    BY <1>5, <2>2 DEF Headed
  <2>4. out = IF rep.typ = "IDX"
              THEN hpack_decode_indexed(Headed(g, rep), r)
              ELSE hpack_decode_field(Headed(g, rep), r)
    BY <1>2, <1>5, <1>6, <1>7, <1>8, <1>12, <1>16, <2>1, <2>3, Zenon DEF hpack_decode
  <2>5. out = Body(Headed(g, rep), r)
    BY <1>6, <2>4 DEF Body
  <2> QED
    BY <2>5
<1>13. Decoded(out, hp, rep, r, g)
  BY <1>10, <1>11, <1>12, Zenon DEF Decoded
<1> QED
  BY <1>13, <1>14, <1>15, <1>16, Zenon

\* What a field says, and what the codec is behind it.
Blame(hp, rep) ==
    IF rep.num \notin Indices(hp) /\ (rep.typ = "IDX" \/ rep.num # 0) THEN "IDX"
    ELSE IF rep.typ = "IDX" THEN "OK"
    ELSE IF NameOf(hp, rep) \in BadName \/ rep.fld.val \in BadValue THEN "CHR"
    ELSE "OK"
Refused(hp, rep) == IF Unnamed(rep) THEN "LEN" ELSE Blame(hp, rep)
Given(hp, rep) ==
    IF rep.typ = "IDX" THEN HPT_field(hp, rep.num)
    ELSE [nam |-> NameOf(hp, rep), val |-> rep.fld.val]
After(hp, rep) ==
    IF rep.typ = "DYN" THEN HPT_index(hp, Given(hp, rep)) ELSE hp

\* They depend on the table.
LEMMA GivenSame ==
    ASSUME NEW hp, NEW g, NEW rep, Indices(hp) = Indices(g),
           \A i : HPT_field(hp, i) = HPT_field(g, i)
    PROVE  /\ Blame(hp, rep) = Blame(g, rep) /\ Given(hp, rep) = Given(g, rep)
           /\ Refused(hp, rep) = Refused(g, rep) /\ NameOf(hp, rep) = NameOf(g, rep)
<1>1. NameOf(hp, rep) = NameOf(g, rep)
  BY DEF NameOf
<1>2. Blame(hp, rep) = Blame(g, rep) /\ Given(hp, rep) = Given(g, rep)
  BY <1>1, Zenon DEF Blame, Given
<1> QED
  BY <1>1, <1>2, Zenon DEF Refused

\* A field that is not refused is one.
LEMMA GivenType ==
    ASSUME NEW hp \in Codec, NEW rep \in BlockRep, rep.typ # "UPD",
           Blame(hp, rep) = "OK"
    PROVE  Given(hp, rep) \in Field
<1>1. rep.fld.nam \in Name /\ rep.fld.val \in Value
  BY BlockRepType DEF Field
<1>2. CASE rep.typ = "IDX"
  <2>1. rep.num \in Indices(hp)
    BY <1>2 DEF Blame
  <2>2. HPT_field(hp, rep.num) \in Field
    BY <2>1, FieldType
  <2> QED
    BY <1>2, <2>2 DEF Given
<1>3. CASE rep.typ # "IDX"
  <2>1. NameOf(hp, rep) \in Name
    <3>1. CASE rep.num = 0
      BY <1>1, <3>1 DEF NameOf
    <3>2. CASE rep.num # 0
      <4>1. rep.num \in Indices(hp)
        BY <3>2 DEF Blame
      <4>2. HPT_field(hp, rep.num) \in Field
        BY <4>1, FieldType
      <4>3. NameOf(hp, rep) = HPT_field(hp, rep.num).nam
        BY <3>2 DEF NameOf
      <4> QED
        BY <4>2, <4>3 DEF Field
    <3> QED
      BY <3>1, <3>2
  <2>2. Given(hp, rep) = [nam |-> NameOf(hp, rep), val |-> rep.fld.val]
    BY <1>3 DEF Given
  <2> QED
    BY <1>1, <2>1, <2>2 DEF Field
<1> QED
  BY <1>2, <1>3

\* The decoding of a field, by what it says.
LEMMA BodyIs ==
    ASSUME NEW hp, NEW rep, NEW cut, rep.typ # "UPD",
           NEW p, p = Body(hp, AsRep(rep, cut))
    PROVE  IF Blame(hp, rep) = "OK"
           THEN p = Accept(After(hp, rep), Given(hp, rep))
           ELSE /\ p = Refuse(hp, Blame(hp, rep))
                /\ Blame(hp, rep) \in {"IDX", "CHR"}
<1>1. PICK r : r = AsRep(rep, cut)
  OBVIOUS
<1>2. r.typ = rep.typ /\ r.num = rep.num /\ r.fld = rep.fld
  BY <1>1 DEF AsRep
<1>3. CASE rep.typ = "IDX"
  <2>1. p = IF rep.num \notin Indices(hp) THEN Refuse(hp, "IDX")
            ELSE Accept(hp, HPT_field(hp, rep.num))
    BY <1>1, <1>2, <1>3, Zenon DEF Body, hpack_decode_indexed
  <2>2. After(hp, rep) = hp /\ Given(hp, rep) = HPT_field(hp, rep.num)
    BY <1>3 DEF After, Given
  <2> QED
    BY <1>3, <2>1, <2>2 DEF Blame
<1>4. CASE rep.typ # "IDX"
  <2> DEFINE fld == [nam |-> IF rep.num = 0 THEN rep.fld.nam
                             ELSE HPT_field(hp, rep.num).nam,
                     val |-> rep.fld.val]
  <2>1. p = IF rep.num # 0 /\ rep.num \notin Indices(hp) THEN Refuse(hp, "IDX")
            ELSE IF fld.nam \in BadName \/ fld.val \in BadValue
            THEN Refuse(hp, "CHR")
            ELSE Accept(IF rep.typ = "DYN" THEN HPT_index(hp, fld) ELSE hp, fld)
    BY <1>1, <1>2, <1>4, Zenon DEF Body, hpack_decode_field
  <2>2. fld = Given(hp, rep) /\ fld.nam = NameOf(hp, rep) /\ fld.val = rep.fld.val
    BY <1>4 DEF Given, NameOf
  <2> HIDE DEF fld
  <2>3. p = IF rep.num # 0 /\ rep.num \notin Indices(hp) THEN Refuse(hp, "IDX")
            ELSE IF NameOf(hp, rep) \in BadName \/ rep.fld.val \in BadValue
            THEN Refuse(hp, "CHR")
            ELSE Accept(After(hp, rep), Given(hp, rep))
    BY <2>1, <2>2, Zenon DEF After
  <2>4. CASE rep.num # 0 /\ rep.num \notin Indices(hp)
    BY <1>4, <2>3, <2>4 DEF Blame
  <2>5. CASE /\ ~(rep.num # 0 /\ rep.num \notin Indices(hp))
             /\ NameOf(hp, rep) \in BadName \/ rep.fld.val \in BadValue
    BY <1>4, <2>3, <2>5 DEF Blame
  <2>6. CASE /\ ~(rep.num # 0 /\ rep.num \notin Indices(hp))
             /\ ~(NameOf(hp, rep) \in BadName \/ rep.fld.val \in BadValue)
    BY <1>4, <2>3, <2>6 DEF Blame
  <2> QED
    BY <2>4, <2>5, <2>6
<1> QED
  BY <1>3, <1>4

\* A field that is accepted leaves a decoder, whatever the result.
LEMMA AfterAble ==
    ASSUME NEW hp, Able(hp), NEW rep \in BlockRep, rep.typ # "UPD",
           Blame(hp, rep) = "OK", NEW res \in {"OK", "BLK"}
    PROVE  /\ Able(After(hp, rep))
           /\ After(At(hp, res), rep) = At(After(hp, rep), res)
<1>1. hp \in Codec /\ res \in Results
  BY AbleIs DEF Results
<1>2. PICK fld \in Field : fld = Given(hp, rep)
  BY <1>1, GivenType
<1>3. PICK g : g = At(hp, res)
  OBVIOUS
<1>4. Indices(g) = Indices(hp) /\ \A i : HPT_field(g, i) = HPT_field(hp, i)
  <2>1. g.tbl = hp.tbl
    BY <1>1, <1>3, AtIs
  <2> QED
    BY <2>1, Zenon DEF Indices, HPT_field
<1>5. Given(g, rep) = fld
  BY <1>2, <1>4, GivenSame
<1>6. CASE rep.typ = "DYN"
  <2>1. After(hp, rep) = HPT_index(hp, fld) /\ After(g, rep) = HPT_index(g, fld)
    BY <1>2, <1>5, <1>6 DEF After
  <2> QED
    BY <1>3, <2>1, IndexAt
<1>7. CASE rep.typ # "DYN"
  BY <1>3, <1>7 DEF After
<1> QED
  BY <1>6, <1>7

\* A field behind the head of its block, read whole.
LEMMA WholeField ==
    ASSUME NEW hp, Able(hp), NEW rep \in BlockRep, rep.typ # "UPD",
           ~Early(hp, rep), NEW cut \in BOOLEAN,
           NEW w, w = WholeRep(At(hp, "BLK"), rep, cut),
           NEW h, h = Headed(hp, rep)
    PROVE  /\ w = WholeRep(At(h, "BLK"), rep, cut)
           /\ IF Refused(h, rep) = "OK"
              THEN /\ w.ret = Result(cut) /\ w.fld = Given(h, rep)
                   /\ Given(h, rep) \in Field /\ Able(After(h, rep))
                   /\ w.hp = At(After(h, rep), Result(cut))
              ELSE /\ w.ret = Refused(h, rep) /\ w.fld = NoField
                   /\ Refused(h, rep) \in {"LEN", "IDX", "CHR"}
<1>1. PICK res \in {"OK", "BLK"} : res = Result(cut)
  BY DEF Result
<1>2. hp \in Codec /\ res \in Results
  BY AbleIs DEF Results
<1>3. PICK r : r = AsRep(rep, cut)
  OBVIOUS
<1>4. PICK g : g = At(hp, res)
  OBVIOUS
<1>5. Able(g)
  BY <1>4, AbleAt
<1>6. /\ Able(h) /\ h.nxt = hp.nxt /\ At(h, res) = Headed(g, rep)
      /\ Headed(At(h, res), rep) = At(h, res)
  <2>1. Able(h) /\ h.nxt = hp.nxt
    BY HeadedIs, Zenon
  <2>2. At(h, res) = Headed(g, rep)
    BY <1>2, <1>4, HeadedIs, SMTT(60)
  <2>3. Headed(Headed(g, rep), rep) = Headed(g, rep)
    BY <1>5, AbleIs DEF Headed, Codec
  <2> QED
    BY <2>1, <2>2, <2>3
<1>7. ~Early(h, rep)
  BY <1>6 DEF Early
<1>8. PICK b : b = At(h, res)
  OBVIOUS
<1>9. PICK p : p = Body(b, r)
  OBVIOUS
<1>10. hpack_decode(At(hp, "BLK"), r) = p
  BY <1>1, <1>3, <1>4, <1>6, <1>8, <1>9, InsideIs, Zenon DEF Decoded
<1>11. hpack_decode(At(h, "BLK"), r) = p
  BY <1>1, <1>3, <1>6, <1>7, <1>8, <1>9, InsideIs, Zenon DEF Decoded
<1>12. /\ w = IF Unnamed(rep) /\ p.ret # "RSZ" THEN Refuse(p.hp, "LEN") ELSE p
       /\ WholeRep(At(h, "BLK"), rep, cut) = w
  <2>1. /\ w = IF Unnamed(rep) /\ p.ret # "RSZ" THEN Refuse(p.hp, "LEN") ELSE p
    BY <1>3, <1>10, Zenon DEF WholeRep, AsRep, Unnamed
  <2>2. WholeRep(At(h, "BLK"), rep, cut)
        = IF Unnamed(rep) /\ p.ret # "RSZ" THEN Refuse(p.hp, "LEN") ELSE p
    BY <1>3, <1>11, Zenon DEF WholeRep, AsRep, Unnamed
  <2> QED
    BY <2>1, <2>2
<1>13. /\ Blame(b, rep) = Blame(h, rep) /\ Given(b, rep) = Given(h, rep)
  <2>1. h \in Codec
    BY <1>6, AbleIs
  <2>2. b.tbl = h.tbl
    BY <1>2, <1>8, <2>1, AtIs
  <2>3. Indices(b) = Indices(h) /\ \A i : HPT_field(b, i) = HPT_field(h, i)
    BY <2>2, Zenon DEF Indices, HPT_field
  <2> QED
    BY <2>3, GivenSame, SMTT(60)
<1>14. IF Blame(h, rep) = "OK"
       THEN p = Accept(After(b, rep), Given(h, rep))
       ELSE p = Refuse(b, Blame(h, rep)) /\ Blame(h, rep) \in {"IDX", "CHR"}
  BY <1>3, <1>9, <1>13, BodyIs
<1>15. CASE Blame(h, rep) = "OK"
  <2>1. Able(After(h, rep)) /\ After(b, rep) = At(After(h, rep), res)
    BY <1>6, <1>8, <1>15, AfterAble
  <2>2. Given(h, rep) \in Field
    BY <1>6, <1>15, AbleIs, GivenType
  <2>3. After(h, rep) \in Codec
    BY <2>1, AbleIs
  <2>4. At(After(h, rep), res).res = res
    BY <1>2, <2>3, AtIs
  <2>5. p.ret = res /\ p.fld = Given(h, rep) /\ p.hp = At(After(h, rep), res)
    BY <1>14, <1>15, <2>1, <2>4 DEF Accept
  <2>6. res # "RSZ"
    OBVIOUS
  <2>7. CASE Unnamed(rep)
    <3>1. w = Refuse(p.hp, "LEN") /\ Refused(h, rep) = "LEN"
      BY <1>12, <2>5, <2>6, <2>7 DEF Refused
    <3> QED
      BY <1>12, <3>1 DEF Refuse
  <2>8. CASE ~Unnamed(rep)
    <3>1. w = p /\ Refused(h, rep) = "OK"
      BY <1>12, <1>15, <2>8 DEF Refused
    <3> QED
      BY <1>1, <1>12, <2>1, <2>2, <2>5, <3>1
  <2> QED
    BY <2>7, <2>8
<1>16. CASE Blame(h, rep) # "OK"
  <2>1. /\ p.ret = Blame(h, rep) /\ p.fld = NoField
        /\ Blame(h, rep) \in {"IDX", "CHR"}
    BY <1>14, <1>16 DEF Refuse
  <2>2. CASE Unnamed(rep)
    <3>1. w = Refuse(p.hp, "LEN") /\ Refused(h, rep) = "LEN"
      BY <1>12, <2>1, <2>2 DEF Refused
    <3> QED
      BY <1>12, <3>1 DEF Refuse
  <2>3. CASE ~Unnamed(rep)
    <3>1. w = p /\ Refused(h, rep) = Blame(h, rep)
      BY <1>12, <2>3 DEF Refused
    <3> QED
      BY <1>12, <2>1, <3>1
  <2> QED
    BY <2>2, <2>3
<1> QED
  BY <1>15, <1>16

\* A field that comes too early.
LEMMA WholeEarly ==
    ASSUME NEW hp, Able(hp), NEW rep \in BlockRep, Early(hp, rep),
           NEW cut \in BOOLEAN, NEW w, w = WholeRep(At(hp, "BLK"), rep, cut)
    PROVE  w.ret = "RSZ" /\ w.fld = NoField
<1>1. PICK out : out = hpack_decode(At(hp, "BLK"), AsRep(rep, cut))
  OBVIOUS
<1>2. out.ret = "RSZ" /\ out.fld = NoField
  BY <1>1, InsideIs, Zenon DEF Decoded
<1>3. w = IF Unnamed(rep) /\ out.ret # "RSZ" THEN Refuse(out.hp, "LEN") ELSE out
  BY <1>1, Zenon DEF WholeRep, AsRep, Unnamed
<1> QED
  BY <1>2, <1>3

\* An update.
LEMMA WholeUpdate ==
    ASSUME NEW hp, Able(hp), NEW rep \in BlockRep, rep.typ = "UPD",
           NEW cut \in BOOLEAN, NEW w, w = WholeRep(At(hp, "BLK"), rep, cut),
           NEW u, u = hpack_decode_update(hp, rep.num)
    PROVE  /\ w.fld = NoField
           /\ IF u.ret \in {"OK", "BLK"}
              THEN w.ret = Result(cut) /\ Able(u.hp) /\ w.hp = At(u.hp, Result(cut))
              ELSE w.ret = u.ret /\ u.ret \in {"UPD", "LEN"}
           /\ ~hp.upd => u.ret = "UPD"
<1>1. PICK res \in {"OK", "BLK"} : res = Result(cut)
  BY DEF Result
<1>2. PICK v : v = hpack_decode_update(At(hp, res), rep.num)
  OBVIOUS
<1>3. PICK out : out = hpack_decode(At(hp, "BLK"), AsRep(rep, cut))
  OBVIOUS
<1>4. out = v
  BY <1>1, <1>2, <1>3, InsideIs, Zenon DEF Decoded
<1>5. ~Unnamed(rep)
  BY DEF Unnamed, IsLiteral
<1>6. w = v
  <2>1. w = IF Unnamed(rep) /\ out.ret # "RSZ" THEN Refuse(out.hp, "LEN") ELSE out
    BY <1>3, Zenon DEF WholeRep, AsRep, Unnamed
  <2> QED
    BY <1>4, <1>5, <2>1
<1>7. rep.num \in Nat
  BY BlockRepType
<1>8. /\ v.fld = NoField
      /\ \/ u.ret \in {"UPD", "LEN"} /\ v.ret = u.ret
         \/ /\ u.ret = hp.res /\ v.ret = res
            /\ Able(u.hp) /\ v.hp = At(u.hp, res)
  BY <1>2, <1>7, UpdateAt
<1>9. hp.res \in {"OK", "BLK"}
  BY AbleIs
<1>10. ASSUME ~hp.upd PROVE u.ret = "UPD"
  <2>1. u = Refuse(hp, "UPD")
    BY <1>10, Zenon DEF hpack_decode_update
  <2> QED
    BY <2>1 DEF Refuse
<1> QED
  BY <1>1, <1>6, <1>8, <1>9, <1>10
-----------------------------------------------------------------------------
(***************************************************************************)
(* The buffer.                                                             *)
(***************************************************************************)

\* A decoder, read.
LEMMA DecoderIs ==
    ASSUME NEW e \in Decoder
    PROVE  /\ e.hp \in Codec /\ e.stp \in Steps /\ e.bsy \in BOOLEAN
           /\ e.typ \in {"IDX", "DYN", "LIT", "NVR", "UPD"} /\ e.left \in Nat
           /\ e.used \in Nat /\ e.nam \in Nat \cup {-1} /\ e.val \in Nat \cup {-1}
           /\ e.namsz \in Nat /\ e.name \in Name \cup {NoField}
           /\ e.flds \in Seq(Field) /\ e.heard \in Seq(Seen)
           /\ e.big \in BOOLEAN /\ e.ret \in Results \cup {"SKP", "RSZ"}
BY DEF Decoder

\* Held and Dropped, but for the record.
HeldAs(used, nam, flds, heard) ==
    LET gone == Len(heard) - Len(flds)
    IN  /\ used <= BufLen
        /\ Rooms(flds) = IF nam < 0 THEN used ELSE nam
        /\ gone >= 0 /\ flds = SubSeq(Fields(heard), gone + 1, Len(heard))
DroppedAs(used, flds, heard, big) ==
    IF big THEN Rooms(Fields(heard)) + used - Rooms(flds) > BufLen
    ELSE Len(flds) = Len(heard)

\* They are the ones about a decoder.
LEMMA HeldIs ==
    ASSUME NEW e
    PROVE  /\ Held(e) <=> HeldAs(e.used, e.nam, e.flds, e.heard)
           /\ Dropped(e) <=> DroppedAs(e.used, e.flds, e.heard, e.big)
BY Zenon DEF Held, HeldAs, Dropped, DroppedAs

\* As long as nothing has been dropped, the buffer has all the fields.
LEMMA NoneDropped ==
    ASSUME NEW flds \in Seq(Field), NEW heard \in Seq(Seen), NEW used, NEW nam,
           HeldAs(used, nam, flds, heard), Len(flds) = Len(heard)
    PROVE  flds = Fields(heard)
<1>1. PICK n \in Nat : n = Len(heard)
  OBVIOUS
<1>2. PICK f \in Seq(Field) : f = Fields(heard)
  BY FieldsType
<1>3. Len(f) = n
  BY <1>1, <1>2, FieldsType
<1>4. flds = SubSeq(f, (n - n) + 1, n)
  BY <1>1, <1>2, Zenon DEF HeldAs
<1>5. (n - n) + 1 = 1
  OBVIOUS
<1>6. flds = SubSeq(f, 1, n)
  BY <1>4, <1>5
<1>7. flds = f
  BY <1>3, <1>6
<1> QED
  BY <1>2, <1>7

\* A decoder before and after octets are put in the buffer.
AsBefore(r, e) ==
    /\ r.hp = e.hp /\ r.stp = e.stp /\ r.bsy = e.bsy /\ r.typ = e.typ
    /\ r.left = e.left /\ r.namsz = e.namsz /\ r.name = e.name
    /\ r.heard = e.heard

Put(r, e, len) ==
    /\ r \in Decoder /\ r.ret = "OK" /\ AsBefore(r, e) /\ Held(r) /\ Dropped(r)
    /\ r.nam \in Nat /\ r.used - r.nam = e.used - e.nam + len
    /\ e.val = -1 => r.val = -1
    /\ e.val = e.nam + e.namsz + 1 => r.val = r.nam + r.namsz + 1

TooBig(r, e, len) ==
    /\ r = [e EXCEPT !.big = TRUE, !.ret = "BIG"]
    /\ BufLen < e.used - e.nam + len

\* Nothing is lost of the current field, and nothing is dropped that it leaves
\* room for.
LEMMA CatIs ==
    ASSUME NEW e \in Decoder, e.ret = "OK", Held(e), Dropped(e),
           NEW nam \in Nat, e.nam = nam, nam <= e.used, NEW len \in Nat
    PROVE  Put(HPD_cat(e, len), e, len) \/ TooBig(HPD_cat(e, len), e, len)
<1>1. PICK r : r = HPD_cat(e, len)
  OBVIOUS
<1>2. PICK room : room = hpd_skip(e, len)
  OBVIOUS
<1>3. PICK used \in Nat : used = e.used
  BY DecoderIs
<1>4. BufLen \in Nat /\ used <= BufLen
  BY <1>3, PieceAssumption DEF Held
<1>5. r = IF room.ret # "OK" THEN room ELSE [room EXCEPT !.used = room.used + len]
  BY <1>1, <1>2, Zenon DEF HPD_cat
<1>6. room = IF BufLen - used >= len THEN e
             ELSE IF nam = 0 \/ BufLen < len + (used - nam)
             THEN [e EXCEPT !.big = TRUE, !.ret = "BIG"]
             ELSE [e EXCEPT !.big = TRUE, !.used = used - nam, !.nam = 0,
                            !.val = IF e.val < 0 THEN e.val ELSE e.namsz + 1,
                            !.flds = <<>>]
  BY <1>2, <1>3, Zenon DEF hpd_skip
<1>7. /\ HeldAs(used, nam, e.flds, e.heard)
      /\ DroppedAs(used, e.flds, e.heard, e.big)
  BY <1>3, HeldIs
<1>8. PICK flds \in Seq(Field) : flds = e.flds
  BY DecoderIs
<1>9. PICK heard \in Seq(Seen) : heard = e.heard
  BY DecoderIs
<1>10. Rooms(flds) = nam
  BY <1>7, <1>8 DEF HeldAs
<1>11. PICK all \in Nat : all = Rooms(Fields(heard))
  BY FieldsType, RoomsType
<1>12. CASE BufLen - used >= len
  <2>0. PICK more \in Nat : more = used + len
    OBVIOUS
  <2>1. r = [e EXCEPT !.used = more]
    BY <1>3, <1>5, <1>6, <1>12, <2>0
  <2>2. /\ r \in Decoder /\ r.used = more /\ r.nam = nam /\ r.flds = flds
        /\ r.heard = heard /\ r.big = e.big /\ r.ret = "OK" /\ AsBefore(r, e)
        /\ r.val = e.val /\ r.namsz = e.namsz
    <3>1. r \in Decoder
      BY <2>1 DEF Decoder
    <3>2. r.used = more /\ r.nam = nam /\ r.flds = flds /\ r.heard = heard
          /\ r.big = e.big /\ r.ret = "OK" /\ r.val = e.val
      BY <1>8, <1>9, <2>1 DEF Decoder
    <3>3. AsBefore(r, e) /\ r.namsz = e.namsz
      BY <2>1 DEF Decoder, AsBefore
    <3> QED
      BY <3>1, <3>2, <3>3
  <2>3. more <= BufLen
    BY <1>4, <1>12, <2>0
  <2>4. HeldAs(more, nam, flds, heard)
    <3>1. Rooms(flds) = IF nam < 0 THEN more ELSE nam
      BY <1>10
    <3>2. LET gone == Len(heard) - Len(flds)
          IN  gone >= 0 /\ flds = SubSeq(Fields(heard), gone + 1, Len(heard))
      BY <1>7, <1>8, <1>9, Zenon DEF HeldAs
    <3> QED
      BY <2>3, <3>1, <3>2, Zenon DEF HeldAs
  <2>5. DroppedAs(more, flds, heard, e.big)
    BY <1>4, <1>7, <1>8, <1>9, <1>10, <1>11, <2>0 DEF DroppedAs
  <2>6. Held(r) /\ Dropped(r)
    BY <2>2, <2>4, <2>5, HeldIs
  <2>7. r.used - r.nam = e.used - e.nam + len
    BY <1>3, <2>0, <2>2
  <2> QED
    BY <1>1, <2>2, <2>6, <2>7 DEF Put
<1>13. CASE ~(BufLen - used >= len) /\ (nam = 0 \/ BufLen < len + (used - nam))
  <2>1. r = [e EXCEPT !.big = TRUE, !.ret = "BIG"]
    <3>1. room = [e EXCEPT !.big = TRUE, !.ret = "BIG"]
      BY <1>6, <1>13
    <3>2. room.ret = "BIG"
      BY <3>1 DEF Decoder
    <3> QED
      BY <1>5, <3>1, <3>2
  <2>2. BufLen < used - nam + len
    BY <1>4, <1>13
  <2> QED
    BY <1>1, <1>3, <2>1, <2>2 DEF TooBig
<1>14. CASE ~(BufLen - used >= len) /\ ~(nam = 0 \/ BufLen < len + (used - nam))
  <2>1. PICK val \in Nat \cup {-1} :
           val = IF e.val < 0 THEN e.val ELSE e.namsz + 1
    BY DecoderIs
  <2>2. used - nam \in Nat
    BY <1>3
  <2>3. room = [e EXCEPT !.big = TRUE, !.used = used - nam, !.nam = 0,
                         !.val = val, !.flds = <<>>]
    BY <1>6, <1>14, <2>1
  <2>4. PICK more \in Nat : more = used - nam + len
    BY <2>2
  <2>5. r = [e EXCEPT !.big = TRUE, !.used = more, !.nam = 0,
                      !.val = val, !.flds = <<>>]
    <3>1. room.ret = "OK" /\ room.used = used - nam
      BY <2>3 DEF Decoder
    <3>2. r = [room EXCEPT !.used = more]
      BY <1>5, <2>4, <3>1
    <3> QED
      BY <2>3, <3>2 DEF Decoder
  <2>6. /\ r \in Decoder /\ r.used = more /\ r.nam = 0 /\ r.flds = <<>>
        /\ r.heard = heard /\ r.big = TRUE /\ r.ret = "OK" /\ AsBefore(r, e)
        /\ r.val = val /\ r.namsz = e.namsz
    <3>1. r \in Decoder
      <4>0. <<>> \in Seq(Field)
        OBVIOUS
      <4>1. PICK none \in Seq(Field) : none = <<>>
        BY <4>0, Zenon
      <4>2. r = [e EXCEPT !.big = TRUE, !.used = more, !.nam = 0,
                          !.val = val, !.flds = none]
        BY <2>5, <4>1
      <4> QED
        BY <4>2 DEF Decoder
    <3>2. r.used = more /\ r.nam = 0 /\ r.flds = <<>> /\ r.heard = heard
          /\ r.big = TRUE /\ r.ret = "OK" /\ r.val = val
      BY <1>9, <2>5 DEF Decoder
    <3>3. AsBefore(r, e) /\ r.namsz = e.namsz
      BY <2>5 DEF Decoder, AsBefore
    <3> QED
      BY <3>1, <3>2, <3>3
  <2>7. more <= BufLen
    BY <1>4, <1>14, <2>4
  <2>8. Rooms(<<>>) = 0
    BY <1>8, RoomsType
  <2>9. HeldAs(more, 0, <<>>, heard)
    <3>1. PICK n \in Nat : n = Len(heard)
      OBVIOUS
    <3>2. PICK f \in Seq(Field) : f = Fields(heard)
      BY FieldsType
    <3>3. <<>> = SubSeq(f, (n - 0) + 1, n)
      BY <3>1, <3>2
    <3>4. Len(<<>>) = 0
      OBVIOUS
    <3> QED
      BY <2>7, <2>8, <3>1, <3>2, <3>3, <3>4 DEF HeldAs
  <2>10. all + more > BufLen
    <3>1. CASE e.big
      <4>1. all + used - nam > BufLen
        BY <1>7, <1>8, <1>9, <1>10, <1>11, <3>1 DEF DroppedAs
      <4> QED
        BY <1>4, <2>4, <4>1
    <3>2. CASE ~e.big
      <4>1. Len(flds) = Len(heard)
        BY <1>7, <1>8, <1>9, <3>2 DEF DroppedAs
      <4>2. flds = Fields(heard)
        BY <1>7, <1>8, <1>9, <4>1, NoneDropped
      <4>3. all = nam
        BY <1>10, <1>11, <4>2
      <4> QED
        BY <1>4, <1>14, <2>4, <4>3
    <3> QED
      BY <3>1, <3>2
  <2>11. DroppedAs(more, <<>>, heard, TRUE)
    BY <1>4, <1>11, <2>8, <2>10 DEF DroppedAs
  <2>12. Held(r) /\ Dropped(r)
    BY <2>6, <2>9, <2>11, HeldIs
  <2>13. r.used - r.nam = e.used - e.nam + len
    BY <1>3, <2>4, <2>6
  <2>14. /\ e.val = -1 => r.val = -1
         /\ e.val = e.nam + e.namsz + 1 => r.val = r.nam + r.namsz + 1
    <3>1. e.val \in Nat \cup {-1} /\ e.namsz \in Nat
      BY DecoderIs
    <3> QED
      BY <2>1, <2>6, <3>1
  <2> QED
    BY <1>1, <2>6, <2>12, <2>13, <2>14 DEF Put
<1> QED
  BY <1>12, <1>13, <1>14

\* The sizes that were notified.
Measures(heard) ==
    \A i \in 1..Len(heard) :
        /\ heard[i].namsz = NameSize[heard[i].fld.nam]
        /\ heard[i].valsz = ValueSize[heard[i].fld.val]

\* A decoder to which nothing bad has happened.
Live(e) ==
    /\ e \in Decoder /\ Able(e.hp) /\ e.ret = "OK" /\ Held(e) /\ Dropped(e)
    /\ AllFit(Fields(e.heard)) /\ Measures(e.heard)

\* It, and what is in the buffer of the current field.
Filled(e, fld) ==
    /\ e.nam \in Nat /\ e.namsz = NameSize[fld.nam]
    /\ e.val = e.nam + e.namsz + 1
    /\ e.used = e.val + ValueSize[fld.val] + 1

\* r is e, notified of fld.
Noted(r, e, fld) ==
    /\ Live(r) /\ Idle(r) /\ r.hp = e.hp
    /\ Fields(r.heard) = Append(Fields(e.heard), fld)

\* The field that has been decoded is the last one in the buffer.
LEMMA NotifiedIs ==
    ASSUME NEW e, Live(e), NEW fld \in Field, Filled(e, fld), ~e.bsy
    PROVE  Noted(Notified(e, fld), e, fld)
<1>1. PICK r : r = Notified(e, fld)
  OBVIOUS
<1>2. PICK used \in Nat : used = e.used
  BY DecoderIs DEF Live
<1>3. PICK nam \in Nat : nam = e.nam
  BY DEF Filled
<1>4. PICK ns \in Nat : ns = NameSize[fld.nam]
  BY RoomType
<1>5. PICK vs \in Nat : vs = ValueSize[fld.val]
  BY RoomType
<1>6. e.namsz = ns /\ e.val = nam + ns + 1 /\ used = nam + ns + vs + 2
  BY <1>2, <1>3, <1>4, <1>5 DEF Filled
<1>7. Room(fld) = ns + vs + 2
  BY <1>4, <1>5 DEF Room
<1>8. PICK seen : seen = [fld |-> fld, namsz |-> ns, valsz |-> vs]
  OBVIOUS
<1>9. seen \in Seen /\ seen.fld = fld /\ seen.namsz = ns /\ seen.valsz = vs
  BY <1>8 DEF Seen
<1>10. PICK flds \in Seq(Field) : flds = e.flds
  BY DecoderIs DEF Live
<1>11. PICK heard \in Seq(Seen) : heard = e.heard
  BY DecoderIs DEF Live
<1>12. PICK flds2 \in Seq(Field) : flds2 = Append(flds, fld)
  BY AppendProperties, Zenon
<1>13. PICK heard2 \in Seq(Seen) : heard2 = Append(heard, seen)
  BY <1>9, AppendProperties, Zenon
<1>14. r = [e EXCEPT !.flds = flds2, !.heard = heard2,
                     !.stp = "FLD_INT", !.nam = -1, !.val = -1, !.namsz = 0,
                     !.name = NoField]
  <2>1. e.used - e.val - 1 = vs
    BY <1>2, <1>6
  <2>2. [fld |-> fld, namsz |-> e.namsz, valsz |-> e.used - e.val - 1] = seen
    BY <1>6, <1>8, <2>1
  <2> QED
    BY <1>1, <1>10, <1>11, <1>12, <1>13, <2>2, Zenon DEF Notified
<1>15. e \in Decoder /\ e.ret = "OK" /\ Able(e.hp)
  BY DEF Live
<1>16. /\ r \in Decoder /\ r.hp = e.hp /\ r.ret = "OK" /\ r.used = used
       /\ r.flds = flds2 /\ r.heard = heard2 /\ r.big = e.big /\ Idle(r)
       /\ r.nam = -1
  <2>1. r \in Decoder
    BY <1>14, <1>15 DEF Decoder, Steps
  <2>2. /\ r.hp = e.hp /\ r.ret = "OK" /\ r.used = used
        /\ r.flds = flds2 /\ r.heard = heard2 /\ r.big = e.big
    BY <1>2, <1>14, <1>15 DEF Decoder
  <2>3. r.stp = "FLD_INT" /\ ~r.bsy /\ r.nam = -1 /\ r.val = -1
    BY <1>14, <1>15 DEF Decoder
  <2> QED
    BY <2>1, <2>2, <2>3 DEF Idle
<1>17. PICK f \in Seq(Field) : f = Fields(heard)
  BY FieldsType
<1>18. Len(f) = Len(heard)
  BY <1>17, FieldsType
<1>19. Fields(heard2) = Append(f, fld)
  BY <1>9, <1>13, <1>17, FieldsAppend
<1>20. PICK f2 \in Seq(Field) : f2 = Fields(heard2)
  BY FieldsType
<1>21. /\ HeldAs(used, nam, flds, heard)
       /\ DroppedAs(used, flds, heard, e.big)
  BY <1>2, <1>3, <1>10, <1>11, HeldIs DEF Live
<1>22. PICK all \in Nat : all = Rooms(f)
  BY RoomsType
<1>23. Rooms(flds) = nam /\ used <= BufLen
  BY <1>21 DEF HeldAs
<1>24. Rooms(flds2) = used
  BY <1>6, <1>7, <1>12, <1>23, RoomsAppend
<1>25. Rooms(f2) = all + (used - nam)
  BY <1>6, <1>7, <1>19, <1>20, <1>22, RoomsAppend
<1>26. Held(r)
  <2>1. PICK n \in Nat : n = Len(heard)
    OBVIOUS
  <2>2. PICK m \in Nat : m = Len(flds)
    OBVIOUS
  <2>3. n - m >= 0 /\ flds = SubSeq(f, (n - m) + 1, n)
    BY <1>17, <1>21, <2>1, <2>2, Zenon DEF HeldAs
  <2>4. Len(heard2) = n + 1 /\ Len(flds2) = m + 1
    BY <1>12, <1>13, <2>1, <2>2
  <2>5. f2 = Append(f, fld) /\ Len(f) = n
    BY <1>18, <1>19, <1>20, <2>1
  <2>6. PICK k \in Nat : k = n - m
    BY <2>3
  <2>7. flds = SubSeq(f, k + 1, n) /\ k + m = n
    BY <2>3, <2>6
  <2>8. Append(flds, fld) = SubSeq(f2, k + 1, n + 1)
    BY <2>2, <2>5, <2>7
  <2>9. flds2 = SubSeq(f2, k + 1, n + 1) /\ (n + 1) - (m + 1) = k
    BY <1>12, <2>7, <2>8
  <2>10. HeldAs(used, -1, flds2, heard2)
    BY <1>20, <1>23, <1>24, <2>4, <2>9, SMTT(60) DEF HeldAs
  <2> QED
    BY <1>16, <2>10, HeldIs
<1>27. Dropped(r)
  <2>1. CASE e.big
    <3>1. all + used - nam > BufLen
      BY <1>11, <1>17, <1>21, <1>22, <1>23, <2>1 DEF DroppedAs
    <3>2. Rooms(f2) + used - Rooms(flds2) > BufLen
      BY <1>24, <1>25, <3>1, PieceAssumption
    <3>3. DroppedAs(used, flds2, heard2, e.big)
      BY <1>20, <2>1, <3>2 DEF DroppedAs
    <3> QED
      BY <1>16, <3>3, HeldIs
  <2>2. CASE ~e.big
    <3>1. Len(flds) = Len(heard)
      BY <1>21, <2>2 DEF DroppedAs
    <3>2. Len(flds2) = Len(heard2)
      BY <1>12, <1>13, <3>1
    <3>3. DroppedAs(used, flds2, heard2, e.big)
      BY <2>2, <3>2 DEF DroppedAs
    <3> QED
      BY <1>16, <3>3, HeldIs
  <2> QED
    BY <2>1, <2>2
<1>28. AllFit(f2)
  <2>1. AllFit(f)
    BY <1>11, <1>17 DEF Live
  <2>2. Room(fld) <= BufLen
    BY <1>6, <1>7, <1>23, PieceAssumption
  <2> QED
    BY <1>19, <1>20, <2>1, <2>2, RoomsAppend
<1>29. Measures(heard2)
  <2>1. PICK n \in Nat : n = Len(heard)
    OBVIOUS
  <2>2. Len(heard2) = n + 1 /\ heard2[n + 1] = seen /\ \A i \in 1..n : heard2[i] = heard[i]
    BY <1>13, <2>1
  <2>3. \A i \in 1..n : /\ heard[i].namsz = NameSize[heard[i].fld.nam]
                        /\ heard[i].valsz = ValueSize[heard[i].fld.val]
    BY <1>11, <2>1 DEF Live, Measures
  <2>4. ASSUME NEW i \in 1..(n + 1)
        PROVE  /\ heard2[i].namsz = NameSize[heard2[i].fld.nam]
               /\ heard2[i].valsz = ValueSize[heard2[i].fld.val]
    <3>1. CASE i = n + 1
      BY <1>4, <1>5, <1>9, <2>2, <3>1
    <3>2. CASE i # n + 1
      <4>1. i \in 1..n
        BY <3>2
      <4> QED
        BY <2>2, <2>3, <4>1
    <3> QED
      BY <3>1, <3>2
  <2> QED
    BY <2>2, <2>4 DEF Measures
<1>30. Live(r)
  BY <1>15, <1>16, <1>20, <1>26, <1>27, <1>28, <1>29 DEF Live
<1> QED
  BY <1>1, <1>11, <1>16, <1>17, <1>19, <1>30 DEF Noted
-----------------------------------------------------------------------------
(***************************************************************************)
(* An octet.  w is what the decoder of whole representations makes of the  *)
(* one it belongs to, from the codec there is.                             *)
(***************************************************************************)

\* rep has been let in.
Opened(e, rep, w, cut) ==
    /\ Live(e) /\ Admitted(e.hp, rep) /\ e.typ = rep.typ
    /\ w = WholeRep(At(e.hp, "BLK"), rep, cut)

\* The offsets lie in the buffer.
Fit(e) == e.nam <= e.used /\ e.val <= e.used
Within(e) ==
    /\ e \in Decoder /\ Able(e.hp) /\ e.used <= BufLen /\ Fit(e)
    /\ Measures(e.heard)

\* The field does not fit in the buffer.
Long(w) == w.ret \in {"OK", "BLK"} /\ w.fld \in Field /\ Room(w.fld) > BufLen
Wrong(w) == w.ret \notin {"OK", "BLK"} /\ w.fld = NoField

\* It is refused, or does not fit.
Stopped(r, e, w) ==
    /\ Within(r) /\ r.heard = e.heard /\ r.ret \notin {"OK", "BLK", "SKP"}
    /\ IF r.ret = "BIG" THEN Long(w) \/ Wrong(w) ELSE r.ret = w.ret /\ Wrong(w)

\* It has been read.
Finished(r, e, w, cut) ==
    /\ Live(r) /\ Idle(r) /\ w.ret = Result(cut) /\ w.hp = At(r.hp, Result(cut))
    /\ IF w.fld = NoField THEN r.heard = e.heard
       ELSE Fields(r.heard) = Append(Fields(e.heard), w.fld)
    /\ w.fld \in Field \cup {NoField}

\* A live decoder, read.
LEMMA LiveIs ==
    ASSUME NEW e, Live(e)
    PROVE  /\ e \in Decoder /\ e.ret = "OK" /\ Able(e.hp) /\ e.hp \in Codec
           /\ e.used \in Nat /\ e.used <= BufLen /\ e.namsz \in Nat
           /\ e.nam \in Nat \cup {-1} /\ e.val \in Nat \cup {-1}
           /\ e.left \in Nat /\ Held(e) /\ Dropped(e)
           /\ e.heard \in Seq(Seen) /\ Measures(e.heard)
BY DecoderIs DEF Live, Held

\* What matters of it is the buffer.
LEMMA LiveAs ==
    ASSUME NEW e, Live(e), NEW r, r \in Decoder, r.hp = e.hp, r.ret = "OK",
           Held(r), Dropped(r), r.heard = e.heard
    PROVE  /\ Live(r)
           /\ \A rep, w, cut : Opened(e, rep, w, cut) /\ r.typ = e.typ
                                 => Opened(r, rep, w, cut)
BY DEF Live, Opened

\* The buffer may be the same, with a field begun behind it.
LEMMA LiveSame ==
    ASSUME NEW e, Live(e), NEW r, r \in Decoder, r.hp = e.hp, r.ret = "OK",
           r.used = e.used, r.flds = e.flds, r.big = e.big, r.heard = e.heard,
           r.nam = e.nam \/ (e.nam = -1 /\ r.nam = e.used)
    PROVE  /\ Live(r)
           /\ \A rep, w, cut : Opened(e, rep, w, cut) /\ r.typ = e.typ
                                 => Opened(r, rep, w, cut)
<1>1. e.used \in Nat /\ HeldAs(e.used, e.nam, e.flds, e.heard)
      /\ DroppedAs(e.used, e.flds, e.heard, e.big)
  BY LiveIs, HeldIs
<1>2. HeldAs(e.used, r.nam, e.flds, e.heard)
  <2>1. Rooms(e.flds) = IF e.nam < 0 THEN e.used ELSE e.nam
    BY <1>1, Zenon DEF HeldAs
  <2>2. e.nam \in Nat \cup {-1}
    BY LiveIs
  <2>3. Rooms(e.flds) = IF r.nam < 0 THEN e.used ELSE r.nam
    BY <1>1, <2>1, <2>2
  <2>4. /\ e.used <= BufLen
        /\ LET gone == Len(e.heard) - Len(e.flds)
           IN  /\ gone >= 0
               /\ e.flds = SubSeq(Fields(e.heard), gone + 1, Len(e.heard))
    BY <1>1, Zenon DEF HeldAs
  <2> QED
    BY <2>3, <2>4, Zenon DEF HeldAs
<1>3. Held(r) /\ Dropped(r)
  BY <1>1, <1>2, HeldIs
<1> QED
  BY <1>3, LiveAs

\* What a field says, once it has been let in.
LEMMA OpenedField ==
    ASSUME NEW e, NEW rep \in BlockRep, rep.typ # "UPD", NEW w,
           NEW cut \in BOOLEAN, Opened(e, rep, w, cut)
    PROVE  IF Refused(e.hp, rep) = "OK"
           THEN /\ w.ret = Result(cut) /\ w.fld = Given(e.hp, rep)
                /\ Given(e.hp, rep) \in Field /\ Able(After(e.hp, rep))
                /\ w.hp = At(After(e.hp, rep), Result(cut))
           ELSE /\ w.ret = Refused(e.hp, rep) /\ w.fld = NoField
                /\ Refused(e.hp, rep) \in {"LEN", "IDX", "CHR"}
<1>1. PICK hp : hp = e.hp
  OBVIOUS
<1>2. Able(hp) /\ hp \in Codec
  BY <1>1, LiveIs DEF Opened
<1>3. LooksLikeUpdate(rep) \/ (hp.min < 0 /\ hp.nxt < 0 /\ ~hp.upd)
  BY <1>1 DEF Opened, Admitted
<1>4. ~Early(hp, rep)
  BY <1>2, <1>3 DEF Early, Codec
<1>5. Headed(hp, rep) = hp
  BY <1>2, <1>3 DEF Headed, Codec
<1>6. w = WholeRep(At(hp, "BLK"), rep, cut)
  BY <1>1 DEF Opened
<1> QED
  BY <1>1, <1>2, <1>4, <1>5, <1>6, WholeField

\* A result of a call that is an error.
Errors == {"BIG", "IDX", "LEN", "CHR", "UPD", "RSZ"}

\* What fails stays where it was.
FailedAs(r, e, err) == Within(r) /\ r.heard = e.heard /\ r.ret = err

\* The result alone changes with an error.
LEMMA FailWithin ==
    ASSUME NEW e, Live(e), Fit(e), NEW err \in Errors, NEW big \in BOOLEAN
    PROVE  FailedAs([e EXCEPT !.big = big, !.ret = err], e, err)
<1>0. PICK r : r = [e EXCEPT !.big = big, !.ret = err]
  OBVIOUS
<1>1. e \in Decoder /\ Able(e.hp) /\ e.used <= BufLen /\ Measures(e.heard)
  BY LiveIs
<1>2. r \in Decoder
  <2>1. err \in Results \cup {"SKP", "RSZ"}
    BY DEF Errors, Results
  <2> QED
    BY <1>0, <1>1, <2>1 DEF Decoder
<1>3. /\ r.hp = e.hp /\ r.used = e.used /\ r.nam = e.nam /\ r.val = e.val
      /\ r.heard = e.heard /\ r.ret = err
  BY <1>0, <1>1 DEF Decoder
<1>4. FailedAs(r, e, err)
  BY <1>1, <1>2, <1>3 DEF FailedAs, Within, Fit
<1> QED
  BY <1>0, <1>4

\* A field that is refused.
LEMMA StopsErr ==
    ASSUME NEW e, NEW rep \in BlockRep, rep.typ # "UPD", NEW w,
           NEW cut \in BOOLEAN, Opened(e, rep, w, cut), Fit(e),
           Refused(e.hp, rep) # "OK"
    PROVE  Stopped(Fail(e, Refused(e.hp, rep)), e, w)
<1>1. PICK err : err = Refused(e.hp, rep)
  OBVIOUS
<1>2. w.ret = err /\ w.fld = NoField /\ err \in {"LEN", "IDX", "CHR"}
  BY <1>1, OpenedField
<1>3. PICK r : r = [e EXCEPT !.ret = err]
  OBVIOUS
<1>4. Fail(e, err) = r
  BY <1>3 DEF Fail
<1>5. Live(e) /\ err \in Errors
  BY <1>2 DEF Opened, Errors
<1>6. Within(r) /\ r.heard = e.heard /\ r.ret = err
  <2>1. e \in Decoder
    BY <1>5, LiveIs
  <2>2. PICK big \in BOOLEAN : big = e.big
    BY <2>1 DEF Decoder
  <2>3. r = [e EXCEPT !.big = big, !.ret = err]
    BY <1>3, <2>1, <2>2 DEF Decoder
  <2>4. FailedAs([e EXCEPT !.big = big, !.ret = err], e, err)
    BY <1>5, FailWithin, Zenon
  <2> QED
    BY <2>3, <2>4 DEF FailedAs
<1>7. Stopped(r, e, w)
  BY <1>2, <1>6 DEF Stopped, Wrong
<1> QED
  BY <1>1, <1>4, <1>7

\* One that does not fit: it takes no less than what there is of it.
LEMMA StopsBig ==
    ASSUME NEW e, NEW rep \in BlockRep, rep.typ # "UPD", NEW w,
           NEW cut \in BOOLEAN, Opened(e, rep, w, cut), Fit(e),
           NEW len \in Nat, NEW r, TooBig(r, e, len),
           Refused(e.hp, rep) = "OK"
             => e.used - e.nam + len <= Room(Given(e.hp, rep))
    PROVE  Stopped(r, e, w)
<1>1. Live(e) /\ "BIG" \in Errors
  BY DEF Opened, Errors
<1>2. r = [e EXCEPT !.big = TRUE, !.ret = "BIG"]
  BY DEF TooBig
<1>3. Within(r) /\ r.heard = e.heard /\ r.ret = "BIG"
  <2>1. PICK big \in BOOLEAN : big = TRUE
    OBVIOUS
  <2>2. r = [e EXCEPT !.big = big, !.ret = "BIG"]
    BY <1>2, <2>1
  <2>3. FailedAs([e EXCEPT !.big = big, !.ret = "BIG"], e, "BIG")
    BY <1>1, FailWithin, Zenon
  <2> QED
    BY <2>2, <2>3 DEF FailedAs
<1>4. CASE Refused(e.hp, rep) = "OK"
  <2>1. PICK fld \in Field : fld = Given(e.hp, rep)
    BY <1>4, OpenedField
  <2>2. w.fld = fld /\ w.ret = Result(cut)
    BY <1>4, <2>1, OpenedField
  <2>3. BufLen < e.used - e.nam + len
    BY DEF TooBig
  <2>4. Room(fld) \in Nat /\ e.used \in Int /\ e.nam \in Int /\ BufLen \in Nat
    BY <1>1, LiveIs, RoomType, PieceAssumption
  <2>5. Room(fld) > BufLen
    BY <1>4, <2>1, <2>3, <2>4
  <2>6. Long(w)
    BY <2>2, <2>5 DEF Long, Result
  <2> QED
    BY <1>3, <2>6 DEF Stopped
<1>5. CASE Refused(e.hp, rep) # "OK"
  <2>1. Wrong(w)
    BY <1>5, OpenedField DEF Wrong
  <2> QED
    BY <1>3, <2>1 DEF Stopped
<1> QED
  BY <1>4, <1>5

\* A literal whose name is known.
LEMMA NamedIs ==
    ASSUME NEW e, NEW rep \in BlockRep, Live(e), IsLiteral(rep), Named(e, rep),
           e.nam \in Nat
    PROVE  /\ [nam |-> e.name, val |-> rep.fld.val] = Given(e.hp, rep)
           /\ Refused(e.hp, rep) = IF rep.fld.val \in BadValue THEN "CHR" ELSE "OK"
           /\ e.val = e.nam + e.namsz + 1 /\ e.namsz = NameSize[e.name]
           /\ NameOf(e.hp, rep) = e.name /\ e.val \in Nat
           /\ rep.typ # "UPD" /\ rep.typ # "IDX"
           /\ Given(e.hp, rep).nam = e.name /\ Given(e.hp, rep).val = rep.fld.val
<1>1. rep.typ # "IDX" /\ rep.typ # "UPD"
  BY DEF IsLiteral
<1>2. /\ IF rep.num = 0 THEN rep.nput # <<>> ELSE rep.num \in Indices(e.hp)
      /\ e.name = NameOf(e.hp, rep) /\ e.name \notin BadName
      /\ e.namsz = NameSize[e.name] /\ e.val = e.nam + e.namsz + 1
  BY DEF Named
<1>3. Given(e.hp, rep) = [nam |-> e.name, val |-> rep.fld.val]
  BY <1>1, <1>2 DEF Given
<1>4. ~Unnamed(rep)
  BY <1>2 DEF Unnamed
<1>5. Blame(e.hp, rep) = IF rep.fld.val \in BadValue THEN "CHR" ELSE "OK"
  BY <1>1, <1>2 DEF Blame
<1>6. e.namsz \in Nat
  BY LiveIs
<1> QED
  BY <1>1, <1>2, <1>3, <1>4, <1>5, <1>6 DEF Refused

\* The end of a value, and of its field.
LEMMA ValueDone ==
    ASSUME NEW e, NEW rep \in BlockRep, IsLiteral(rep), NEW w,
           NEW cut \in BOOLEAN, Opened(e, rep, w, cut), Named(e, rep), ~e.bsy,
           e.nam \in Nat, e.used = e.val + ValueSize[rep.fld.val],
           NEW r, r = DecodeValue(e, rep)
    PROVE  Stopped(r, e, w) \/ Finished(r, e, w, cut)
<1>1. /\ Live(e) /\ e \in Decoder /\ e.ret = "OK" /\ Held(e) /\ Dropped(e)
      /\ e.used \in Nat /\ e.typ = rep.typ
  BY LiveIs DEF Opened
<1>2. PICK fld : fld = Given(e.hp, rep)
  OBVIOUS
<1>3. /\ [nam |-> e.name, val |-> rep.fld.val] = fld
      /\ Refused(e.hp, rep) = IF rep.fld.val \in BadValue THEN "CHR" ELSE "OK"
      /\ e.val = e.nam + e.namsz + 1 /\ e.namsz = NameSize[e.name]
      /\ rep.typ # "UPD" /\ rep.typ # "IDX" /\ fld.nam = e.name
      /\ fld.val = rep.fld.val /\ e.val \in Nat
  BY <1>1, <1>2, NamedIs
<1>4. rep.fld \in Field
  BY <1>3, BlockRepType
<1>5. PICK vs \in Nat : vs = ValueSize[rep.fld.val]
  BY <1>4, RoomType
<1>6. e.namsz \in Nat /\ e.nam <= e.used /\ Fit(e)
      /\ e.used - e.nam = e.namsz + 1 + vs
  <2>1. PICK nsz \in Nat : nsz = e.namsz
    BY <1>1, LiveIs
  <2>2. PICK nam \in Nat : nam = e.nam
    OBVIOUS
  <2>3. e.val = nam + nsz + 1
    BY <1>3, <2>1, <2>2
  <2>4. e.used = nam + nsz + 1 + vs
    BY <1>5, <2>3
  <2>5. Fit(e) /\ e.nam <= e.used
    BY <2>2, <2>3, <2>4 DEF Fit
  <2> QED
    BY <2>1, <2>2, <2>4, <2>5
<1>7. PICK c : c = HPD_cat(e, 1)
  OBVIOUS
<1>8. Put(c, e, 1) \/ TooBig(c, e, 1)
  <2>1. PICK nam \in Nat : nam = e.nam
    OBVIOUS
  <2>2. nam <= e.used /\ 1 \in Nat
    BY <1>6, <2>1
  <2> QED
    BY <1>1, <1>7, <2>1, <2>2, CatIs
<1>9. r = IF c.ret # "OK" THEN c
          ELSE IF fld.val \in BadValue THEN Fail(c, "CHR")
          ELSE IF e.typ # "DYN" THEN Notified(c, fld)
          ELSE [Notified(c, fld) EXCEPT !.hp = HPT_index(@, fld)]
  BY <1>3, <1>7, Zenon DEF DecodeValue
<1>10. CASE TooBig(c, e, 1)
  <2>1. c.ret = "BIG"
    BY <1>1, <1>10 DEF TooBig, Decoder
  <2>2. r = c
    BY <1>9, <2>1
  <2>3. ASSUME Refused(e.hp, rep) = "OK"
        PROVE  e.used - e.nam + 1 <= Room(Given(e.hp, rep))
    <3>1. Room(fld) = e.namsz + vs + 2
      BY <1>3, <1>5 DEF Room
    <3> QED
      BY <1>2, <1>6, <3>1
  <2>4. 1 \in Nat
    OBVIOUS
  <2>5. Stopped(c, e, w)
    BY <1>3, <1>6, <1>10, <2>3, <2>4, StopsBig
  <2> QED
    BY <2>2, <2>5
<1>11. CASE Put(c, e, 1)
  <2>1. /\ c \in Decoder /\ c.ret = "OK" /\ AsBefore(c, e) /\ Held(c) /\ Dropped(c)
        /\ c.nam \in Nat /\ c.used - c.nam = e.used - e.nam + 1
        /\ c.val = c.nam + c.namsz + 1
    BY <1>3, <1>11 DEF Put
  <2>2. /\ c.hp = e.hp /\ c.typ = e.typ /\ c.heard = e.heard /\ c.bsy = e.bsy
        /\ c.namsz = e.namsz
    BY <2>1 DEF AsBefore
  <2>3. Live(c) /\ Opened(c, rep, w, cut)
    BY <1>1, <2>1, <2>2, LiveAs
  <2>4. c.used \in Nat /\ c.used = c.val + vs + 1 /\ Fit(c)
    <3>1. c.used \in Nat
      BY <2>3, LiveIs
    <3> QED
      BY <1>6, <2>1, <2>2, <3>1 DEF Fit
  <2>5. CASE fld.val \in BadValue
    <3>1. r = Fail(c, "CHR")
      BY <1>9, <2>1, <2>5
    <3>2. Refused(c.hp, rep) = "CHR"
      BY <1>3, <2>2, <2>5
    <3>3. Stopped(r, c, w)
      BY <1>3, <2>3, <2>4, <3>1, <3>2, StopsErr
    <3> QED
      BY <2>2, <3>3 DEF Stopped
  <2>6. CASE fld.val \notin BadValue
    <3>1. /\ w.ret = Result(cut) /\ w.fld = fld /\ fld \in Field
          /\ Able(After(e.hp, rep)) /\ w.hp = At(After(e.hp, rep), Result(cut))
      <4>1. Refused(e.hp, rep) = "OK"
        BY <1>3, <2>6
      <4> QED
        BY <1>2, <1>3, <4>1, OpenedField
    <3>2. Filled(c, fld)
      BY <1>3, <1>5, <2>1, <2>2, <2>4 DEF Filled
    <3>3. PICK done : done = Notified(c, fld)
      OBVIOUS
    <3>4. Noted(done, c, fld)
      BY <2>2, <2>3, <3>1, <3>2, <3>3, NotifiedIs
    <3>5. /\ Live(done) /\ Idle(done) /\ done.hp = e.hp
          /\ Fields(done.heard) = Append(Fields(e.heard), fld)
      BY <2>2, <3>4 DEF Noted
    <3>6. fld # NoField
      BY <3>1, StringAssumption
    <3>7. CASE e.typ # "DYN"
      <4>1. r = done
        BY <1>9, <2>1, <2>6, <3>3, <3>7
      <4>2. After(e.hp, rep) = e.hp
        BY <1>1, <3>7 DEF After
      <4> QED
        BY <3>1, <3>5, <3>6, <4>1, <4>2 DEF Finished
    <3>8. CASE e.typ = "DYN"
      <4>1. PICK hp : hp = HPT_index(e.hp, fld)
        OBVIOUS
      <4>2. r = [done EXCEPT !.hp = hp]
        BY <1>9, <2>1, <2>6, <3>3, <3>5, <3>8, <4>1
      <4>3. After(e.hp, rep) = hp
        BY <1>1, <1>2, <3>8, <4>1 DEF After
      <4>4. Able(hp) /\ hp \in Codec
        BY <3>1, <4>3, AbleIs
      <4>5. done \in Decoder
        BY <3>5, LiveIs
      <4>6. /\ r \in Decoder /\ r.hp = hp /\ r.ret = done.ret /\ r.used = done.used
            /\ r.flds = done.flds /\ r.heard = done.heard /\ r.big = done.big
            /\ r.nam = done.nam
        <5>1. r \in Decoder
          BY <4>2, <4>4, <4>5 DEF Decoder
        <5> QED
          BY <4>2, <4>5, <5>1 DEF Decoder
      <4>7. Idle(r)
        BY <3>5, <4>2, <4>5 DEF Idle, Decoder
      <4>8. Held(r) /\ Dropped(r)
        BY <3>5, <4>6, HeldIs DEF Live
      <4>9. Live(r)
        BY <3>5, <4>4, <4>6, <4>8 DEF Live
      <4> QED
        BY <3>1, <3>5, <3>6, <4>3, <4>6, <4>7, <4>9 DEF Finished
    <3> QED
      BY <3>7, <3>8
  <2> QED
    BY <2>5, <2>6
<1> QED
  BY <1>8, <1>10, <1>11

\* The name of a literal.
LEMMA NameOfType ==
    ASSUME NEW hp \in Codec, NEW rep \in BlockRep, rep.typ # "UPD",
           rep.num = 0 \/ rep.num \in Indices(hp)
    PROVE  NameOf(hp, rep) \in Name
<1>1. CASE rep.num = 0
  BY <1>1, BlockRepType DEF NameOf, Field
<1>2. CASE rep.num # 0
  <2>1. HPT_field(hp, rep.num) \in Field
    BY <1>2, FieldType
  <2>2. NameOf(hp, rep) = HPT_field(hp, rep.num).nam
    BY <1>2 DEF NameOf
  <2> QED
    BY <2>1, <2>2 DEF Field
<1> QED
  BY <1>1, <1>2

\* The name of the field is there.
NameThere(hp, rep) ==
    IF rep.num = 0 THEN rep.nput # <<>> ELSE rep.num \in Indices(hp)

\* r, behind e, has the name of the field and waits for its value.
Valued(r, e, rep, w, cut) ==
    /\ Opened(r, rep, w, cut) /\ r.heard = e.heard
    /\ r.stp = "VAL_LEN" /\ ~r.bsy /\ r.nam \in Nat /\ Named(r, rep)
    /\ r.used = r.val

\* What the name says of the field.
LEMMA NameSays ==
    ASSUME NEW hp, NEW rep, IsLiteral(rep), NameThere(hp, rep)
    PROVE  /\ rep.typ # "UPD" /\ rep.typ # "IDX"
           /\ NameOf(hp, rep) \in BadName => Refused(hp, rep) = "CHR"
           /\ Given(hp, rep).nam = NameOf(hp, rep)
           /\ rep.num = 0 \/ rep.num \in Indices(hp)
<1>1. rep.typ # "UPD" /\ rep.typ # "IDX"
  BY DEF IsLiteral
<1>2. ~Unnamed(rep) /\ (rep.num = 0 \/ rep.num \in Indices(hp))
  BY DEF Unnamed, NameThere
<1>3. Refused(hp, rep) = Blame(hp, rep)
  BY <1>2 DEF Refused
<1>4. NameOf(hp, rep) \in BadName => Blame(hp, rep) = "CHR"
  BY <1>1, <1>2 DEF Blame
<1>5. Given(hp, rep).nam = NameOf(hp, rep)
  BY <1>1 DEF Given
<1> QED
  BY <1>1, <1>2, <1>3, <1>4, <1>5

\* The end of a name.
LEMMA NameEnds ==
    ASSUME NEW e, NEW rep \in BlockRep, IsLiteral(rep), NEW w,
           NEW cut \in BOOLEAN, Opened(e, rep, w, cut), NameThere(e.hp, rep),
           ~e.bsy, e.nam \in Nat, e.val = -1, NEW nam, nam = NameOf(e.hp, rep),
           e.namsz = NameSize[nam], e.used = e.nam + e.namsz + 1,
           NEW r, r = NameDone(e, nam)
    PROVE  Stopped(r, e, w) \/ Valued(r, e, rep, w, cut)
<1>1. /\ Live(e) /\ e \in Decoder /\ e.ret = "OK" /\ e.used \in Nat
      /\ e.typ = rep.typ /\ e.namsz \in Nat /\ e.hp \in Codec
  BY LiveIs DEF Opened
<1>2. /\ rep.typ # "UPD" /\ rep.typ # "IDX"
      /\ nam \in BadName => Refused(e.hp, rep) = "CHR"
      /\ rep.num = 0 \/ rep.num \in Indices(e.hp)
  BY NameSays
<1>3. Fit(e)
  BY <1>1 DEF Fit
<1>4. CASE nam \in BadName
  <2>1. r = Fail(e, "CHR")
    BY <1>4 DEF NameDone
  <2> QED
    BY <1>2, <1>3, <1>4, <2>1, StopsErr
<1>5. CASE nam \notin BadName
  <2>1. PICK name \in Name : name = nam
    BY <1>1, <1>2, NameOfType
  <2>2. PICK used \in Nat : used = e.used
    BY <1>1
  <2>3. r = [e EXCEPT !.name = name, !.val = used, !.stp = "VAL_LEN"]
    BY <1>5, <2>1, <2>2 DEF NameDone
  <2>4. r \in Decoder
    BY <1>1, <2>3 DEF Decoder, Steps
  <2>5. /\ r.hp = e.hp /\ r.ret = "OK" /\ r.used = used /\ r.flds = e.flds
        /\ r.big = e.big /\ r.heard = e.heard /\ r.nam = e.nam /\ r.typ = e.typ
    BY <1>1, <2>2, <2>3 DEF Decoder
  <2>6. r.stp = "VAL_LEN" /\ r.bsy = e.bsy /\ r.name = name /\ r.val = used
        /\ r.namsz = e.namsz
    BY <1>1, <2>3 DEF Decoder
  <2>7. Opened(r, rep, w, cut)
    BY <1>1, <2>2, <2>4, <2>5, LiveSame
  <2>8. Named(r, rep)
    BY <1>5, <2>1, <2>2, <2>5, <2>6 DEF Named, NameThere
  <2>9. Valued(r, e, rep, w, cut)
    BY <2>2, <2>5, <2>6, <2>7, <2>8 DEF Valued
  <2> QED
    BY <2>9
<1> QED
  BY <1>4, <1>5

\* What stops behind e2 stops behind e, and so does a name that ends.
LEMMA SameHeard ==
    ASSUME NEW r, NEW e, NEW e2, e2.heard = e.heard, NEW rep, NEW w, NEW cut
    PROVE  /\ Stopped(r, e2, w) => Stopped(r, e, w)
           /\ Valued(r, e2, rep, w, cut) => Valued(r, e, rep, w, cut)
           /\ Finished(r, e2, w, cut) => Finished(r, e, w, cut)
BY DEF Stopped, Valued, Finished

\* A literal name, complete but for its null character.
LEMMA LiteralName ==
    ASSUME NEW e, NEW rep \in BlockRep, IsLiteral(rep), NEW w,
           NEW cut \in BOOLEAN, Opened(e, rep, w, cut), rep.num = 0,
           rep.nput # <<>>, ~e.bsy, e.nam \in Nat, e.val = -1,
           e.used = e.nam + NameSize[rep.fld.nam], NEW r, r = DecodeName(e, rep)
    PROVE  Stopped(r, e, w) \/ Valued(r, e, rep, w, cut)
<1>1. /\ Live(e) /\ e \in Decoder /\ e.ret = "OK" /\ e.used \in Nat
      /\ e.typ = rep.typ /\ Held(e) /\ Dropped(e)
  BY LiveIs DEF Opened
<1>2. NameThere(e.hp, rep) /\ NameOf(e.hp, rep) = rep.fld.nam
  BY DEF NameThere, NameOf
<1>3. /\ rep.typ # "UPD" /\ Given(e.hp, rep).nam = rep.fld.nam
  BY <1>2, NameSays
<1>4. rep.fld \in Field
  BY <1>3, BlockRepType
<1>5. PICK ns \in Nat : ns = NameSize[rep.fld.nam]
  BY <1>4, RoomType
<1>6. PICK nam \in Nat : nam = e.nam
  OBVIOUS
<1>7. nam <= e.used /\ 1 \in Nat /\ Fit(e) /\ e.used - e.nam = ns
  BY <1>1, <1>5, <1>6 DEF Fit
<1>8. PICK c : c = HPD_cat(e, 1)
  OBVIOUS
<1>9. Put(c, e, 1) \/ TooBig(c, e, 1)
  BY <1>1, <1>6, <1>7, <1>8, CatIs
<1>10. CASE TooBig(c, e, 1)
  <2>1. c.ret = "BIG"
    BY <1>1, <1>10 DEF TooBig, Decoder
  <2>2. r = c
    BY <1>8, <2>1, Zenon DEF DecodeName
  <2>3. ASSUME Refused(e.hp, rep) = "OK"
        PROVE  e.used - e.nam + 1 <= Room(Given(e.hp, rep))
    <3>1. PICK fld \in Field : fld = Given(e.hp, rep)
      BY <1>3, <2>3, OpenedField
    <3>2. PICK vs \in Nat : vs = ValueSize[fld.val]
      BY RoomType
    <3>3. Room(fld) = ns + vs + 2
      BY <1>3, <1>5, <3>1, <3>2 DEF Room
    <3> QED
      BY <1>7, <3>1, <3>3
  <2>4. Stopped(c, e, w)
    BY <1>3, <1>7, <1>10, <2>3, StopsBig
  <2> QED
    BY <2>2, <2>4
<1>11. CASE Put(c, e, 1)
  <2>1. /\ c \in Decoder /\ c.ret = "OK" /\ AsBefore(c, e) /\ Held(c) /\ Dropped(c)
        /\ c.nam \in Nat /\ c.used - c.nam = e.used - e.nam + 1 /\ c.val = -1
    BY <1>11 DEF Put
  <2>2. /\ c.hp = e.hp /\ c.typ = e.typ /\ c.heard = e.heard /\ c.bsy = e.bsy
    BY <2>1 DEF AsBefore
  <2>3. Live(c) /\ Opened(c, rep, w, cut)
    BY <1>1, <2>1, <2>2, LiveAs
  <2>4. c.used \in Nat
    BY <2>3, LiveIs
  <2>5. c.used - c.nam - 1 = ns
    BY <1>7, <2>1, <2>4
  <2>6. PICK c2 : c2 = [c EXCEPT !.namsz = ns]
    OBVIOUS
  <2>7. r = NameDone(c2, rep.fld.nam)
    BY <1>8, <2>1, <2>5, <2>6, Zenon DEF DecodeName
  <2>8. c2 \in Decoder
    BY <2>1, <2>6 DEF Decoder
  <2>9. /\ c2.hp = c.hp /\ c2.ret = "OK" /\ c2.used = c.used /\ c2.flds = c.flds
        /\ c2.big = c.big /\ c2.heard = c.heard /\ c2.nam = c.nam
        /\ c2.typ = c.typ /\ c2.bsy = c.bsy /\ c2.val = c.val /\ c2.namsz = ns
    BY <2>1, <2>6 DEF Decoder
  <2>10. Opened(c2, rep, w, cut)
    BY <2>3, <2>8, <2>9, LiveSame
  <2>11. c2.used = c2.nam + c2.namsz + 1
    BY <2>1, <2>4, <2>5, <2>9
  <2>12. Stopped(r, c2, w) \/ Valued(r, c2, rep, w, cut)
    BY <1>2, <1>5, <2>1, <2>2, <2>7, <2>9, <2>10, <2>11, NameEnds
  <2> QED
    BY <2>2, <2>9, <2>12, SameHeard
<1> QED
  BY <1>9, <1>10, <1>11

\* A name from a table.
LEMMA TableName ==
    ASSUME NEW e, NEW rep \in BlockRep, IsLiteral(rep), NEW w,
           NEW cut \in BOOLEAN, Opened(e, rep, w, cut), rep.num # 0,
           ~e.bsy, e.nam \in Nat, e.val = -1, e.used = e.nam,
           NEW r, r = HPT_decode_name(e, rep.num)
    PROVE  Stopped(r, e, w) \/ Valued(r, e, rep, w, cut)
<1>1. /\ Live(e) /\ e \in Decoder /\ e.ret = "OK" /\ e.used \in Nat
      /\ e.typ = rep.typ /\ Held(e) /\ Dropped(e) /\ e.hp \in Codec
  BY LiveIs DEF Opened
<1>2. rep.typ # "UPD" /\ rep.typ # "IDX" /\ ~Unnamed(rep)
  BY DEF IsLiteral, Unnamed
<1>3. Fit(e)
  BY <1>1 DEF Fit
<1>4. CASE rep.num \notin Indices(e.hp)
  <2>1. r = Fail(e, "IDX")
    BY <1>4, Zenon DEF HPT_decode_name
  <2>2. Refused(e.hp, rep) = "IDX"
    BY <1>2, <1>4 DEF Refused, Blame
  <2> QED
    BY <1>2, <1>3, <2>1, <2>2, StopsErr
<1>5. CASE rep.num \in Indices(e.hp)
  <2>1. NameThere(e.hp, rep) /\ NameOf(e.hp, rep) = HPT_field(e.hp, rep.num).nam
    BY <1>5 DEF NameThere, NameOf
  <2>2. PICK fld \in Field : fld = HPT_field(e.hp, rep.num)
    BY <1>1, <1>5, FieldType
  <2>3. PICK ns \in Nat : ns = NameSize[fld.nam]
    BY RoomType
  <2>4. PICK nam \in Nat : nam = e.nam
    OBVIOUS
  <2>5. PICK e2 : e2 = [e EXCEPT !.namsz = ns]
    OBVIOUS
  <2>6. e2 \in Decoder
    BY <1>1, <2>5 DEF Decoder
  <2>7. /\ e2.hp = e.hp /\ e2.ret = "OK" /\ e2.used = nam /\ e2.flds = e.flds
        /\ e2.big = e.big /\ e2.heard = e.heard /\ e2.nam = nam
        /\ e2.typ = e.typ /\ e2.bsy = e.bsy /\ e2.val = -1 /\ e2.namsz = ns
    BY <1>1, <2>4, <2>5 DEF Decoder
  <2>8. Live(e2) /\ Opened(e2, rep, w, cut)
    BY <1>1, <2>4, <2>6, <2>7, LiveSame
  <2>9. Held(e2) /\ Dropped(e2) /\ Fit(e2) /\ ns + 1 \in Nat /\ nam <= e2.used
    BY <2>7, <2>8, LiveIs DEF Fit
  <2>10. PICK c : c = HPD_cat(e2, ns + 1)
    OBVIOUS
  <2>11. Put(c, e2, ns + 1) \/ TooBig(c, e2, ns + 1)
    BY <2>6, <2>7, <2>9, <2>10, CatIs
  <2>12. r = IF c.ret # "OK" THEN c ELSE NameDone(c, fld.nam)
    BY <1>5, <2>2, <2>3, <2>5, <2>10, Zenon DEF HPT_decode_name
  <2>13. CASE TooBig(c, e2, ns + 1)
    <3>1. c.ret = "BIG"
      BY <2>6, <2>13 DEF TooBig, Decoder
    <3>2. ASSUME Refused(e2.hp, rep) = "OK"
          PROVE  e2.used - e2.nam + (ns + 1) <= Room(Given(e2.hp, rep))
      <4>1. PICK given \in Field : given = Given(e2.hp, rep)
        BY <1>2, <2>8, <3>2, OpenedField
      <4>2. given.nam = fld.nam
        BY <2>1, <2>2, <2>7, <4>1, NameSays
      <4>3. PICK vs \in Nat : vs = ValueSize[given.val]
        BY RoomType
      <4>4. Room(given) = ns + vs + 2
        BY <2>3, <4>2, <4>3 DEF Room
      <4> QED
        BY <2>7, <4>1, <4>4
    <3>3. Stopped(c, e2, w)
      BY <1>2, <2>8, <2>9, <2>13, <3>2, StopsBig
    <3>4. r = c
      BY <2>12, <3>1
    <3> QED
      BY <2>7, <3>3, <3>4, SameHeard
  <2>14. CASE Put(c, e2, ns + 1)
    <3>1. /\ c \in Decoder /\ c.ret = "OK" /\ AsBefore(c, e2) /\ Held(c)
          /\ Dropped(c) /\ c.nam \in Nat
          /\ c.used - c.nam = e2.used - e2.nam + (ns + 1) /\ c.val = -1
      BY <2>7, <2>14 DEF Put
    <3>2. /\ c.hp = e2.hp /\ c.typ = e2.typ /\ c.heard = e2.heard
          /\ c.bsy = e2.bsy /\ c.namsz = e2.namsz
      BY <3>1 DEF AsBefore
    <3>3. Live(c) /\ Opened(c, rep, w, cut)
      BY <2>8, <3>1, <3>2, LiveAs
    <3>4. c.used \in Nat
      BY <3>3, LiveIs
    <3>5. c.used = c.nam + c.namsz + 1
      BY <2>7, <3>1, <3>2, <3>4
    <3>6. r = NameDone(c, fld.nam)
      BY <2>12, <3>1
    <3>7. NameThere(c.hp, rep) /\ fld.nam = NameOf(c.hp, rep)
          /\ c.namsz = NameSize[fld.nam] /\ ~c.bsy
      BY <2>1, <2>2, <2>3, <2>7, <3>2
    <3>8. Stopped(r, c, w) \/ Valued(r, c, rep, w, cut)
      BY <3>1, <3>3, <3>5, <3>6, <3>7, NameEnds
    <3> QED
      BY <2>7, <3>2, <3>8, SameHeard
  <2> QED
    BY <2>11, <2>13, <2>14
<1> QED
  BY <1>4, <1>5

\* A field from a table.
LEMMA TableField ==
    ASSUME NEW e, NEW rep \in BlockRep, rep.typ = "IDX", NEW w,
           NEW cut \in BOOLEAN, Opened(e, rep, w, cut), Idle(e),
           NEW r, r = HPT_decode(e, rep.num)
    PROVE  Stopped(r, e, w) \/ Finished(r, e, w, cut)
<1>1. /\ Live(e) /\ e \in Decoder /\ e.ret = "OK" /\ e.used \in Nat
      /\ e.typ = rep.typ /\ Held(e) /\ Dropped(e) /\ e.hp \in Codec
      /\ e.nam = -1 /\ e.val = -1 /\ ~e.bsy
  BY LiveIs DEF Opened, Idle
<1>2. rep.typ # "UPD" /\ ~Unnamed(rep)
  BY DEF IsLiteral, Unnamed
<1>3. Fit(e)
  BY <1>1 DEF Fit
<1>4. CASE rep.num \notin Indices(e.hp)
  <2>1. r = Fail(e, "IDX")
    BY <1>4, Zenon DEF HPT_decode
  <2>2. Refused(e.hp, rep) = "IDX"
    BY <1>2, <1>4 DEF Refused, Blame
  <2> QED
    BY <1>2, <1>3, <2>1, <2>2, StopsErr
<1>5. CASE rep.num \in Indices(e.hp)
  <2>1. PICK fld \in Field : fld = HPT_field(e.hp, rep.num)
    BY <1>1, <1>5, FieldType
  <2>2. PICK ns \in Nat : ns = NameSize[fld.nam]
    BY RoomType
  <2>3. PICK vs \in Nat : vs = ValueSize[fld.val]
    BY RoomType
  <2>4. Room(fld) = ns + vs + 2
    BY <2>2, <2>3 DEF Room
  <2>5. Refused(e.hp, rep) = "OK" /\ Given(e.hp, rep) = fld
        /\ After(e.hp, rep) = e.hp
    BY <1>2, <1>5, <2>1 DEF Refused, Blame, Given, After
  <2>6. w.ret = Result(cut) /\ w.fld = fld /\ w.hp = At(e.hp, Result(cut))
    BY <1>2, <2>5, OpenedField
  <2>7. PICK used \in Nat : used = e.used
    BY <1>1
  <2>8. PICK e2 : e2 = [e EXCEPT !.nam = used, !.namsz = ns]
    OBVIOUS
  <2>9. e2 \in Decoder
    BY <1>1, <2>8 DEF Decoder
  <2>10. /\ e2.hp = e.hp /\ e2.ret = "OK" /\ e2.used = used /\ e2.flds = e.flds
         /\ e2.big = e.big /\ e2.heard = e.heard /\ e2.nam = used
         /\ e2.typ = e.typ /\ e2.bsy = e.bsy /\ e2.val = -1 /\ e2.namsz = ns
    BY <1>1, <2>7, <2>8 DEF Decoder
  <2>11. Live(e2) /\ Opened(e2, rep, w, cut)
    BY <1>1, <2>7, <2>9, <2>10, LiveSame
  <2>12. Held(e2) /\ Dropped(e2) /\ Fit(e2) /\ ns + 1 \in Nat /\ vs + 1 \in Nat
         /\ used <= e2.used
    BY <2>10, <2>11, LiveIs DEF Fit
  <2>13. PICK c : c = HPD_cat(e2, ns + 1)
    OBVIOUS
  <2>14. Put(c, e2, ns + 1) \/ TooBig(c, e2, ns + 1)
    BY <2>9, <2>10, <2>12, <2>13, CatIs
  <2>15. PICK c2 : c2 = [c EXCEPT !.name = fld.nam, !.val = c.used]
    OBVIOUS
  <2>16. PICK v : v = HPD_cat(c2, vs + 1)
    OBVIOUS
  <2>17. r = IF c.ret # "OK" THEN c ELSE IF v.ret # "OK" THEN v
             ELSE Notified(v, fld)
    BY <1>5, <2>1, <2>2, <2>3, <2>7, <2>8, <2>13, <2>15, <2>16, Zenon DEF HPT_decode
  <2>18. CASE TooBig(c, e2, ns + 1)
    <3>1. c.ret = "BIG"
      BY <2>9, <2>18 DEF TooBig, Decoder
    <3>2. e2.used - e2.nam + (ns + 1) <= Room(Given(e2.hp, rep))
      BY <2>4, <2>5, <2>10
    <3>3. Stopped(c, e2, w)
      BY <1>2, <2>11, <2>12, <2>18, <3>2, StopsBig
    <3>4. r = c
      BY <2>17, <3>1
    <3> QED
      BY <2>10, <3>3, <3>4, SameHeard
  <2>19. CASE Put(c, e2, ns + 1)
    <3>1. /\ c \in Decoder /\ c.ret = "OK" /\ AsBefore(c, e2) /\ Held(c)
          /\ Dropped(c) /\ c.nam \in Nat
          /\ c.used - c.nam = e2.used - e2.nam + (ns + 1) /\ c.val = -1
      BY <2>10, <2>19 DEF Put
    <3>2. /\ c.hp = e2.hp /\ c.typ = e2.typ /\ c.heard = e2.heard
          /\ c.bsy = e2.bsy /\ c.namsz = e2.namsz
      BY <3>1 DEF AsBefore
    <3>3. Live(c) /\ Opened(c, rep, w, cut)
      BY <2>11, <3>1, <3>2, LiveAs
    <3>4. PICK cu \in Nat : cu = c.used
      BY <3>3, LiveIs
    <3>5. PICK cn \in Nat : cn = c.nam
      BY <3>1
    <3>6. cu = cn + ns + 1
      BY <2>10, <3>1, <3>4, <3>5
    <3>7. fld.nam \in Name
      BY DEF Field
    <3>8. PICK name \in Name : name = fld.nam
      BY <3>7
    <3>9. c2 = [c EXCEPT !.name = name, !.val = cu]
      BY <2>15, <3>4, <3>8
    <3>10. c2 \in Decoder
      BY <3>1, <3>9 DEF Decoder
    <3>11. /\ c2.hp = c.hp /\ c2.ret = "OK" /\ c2.used = cu /\ c2.flds = c.flds
           /\ c2.big = c.big /\ c2.heard = c.heard /\ c2.nam = cn
           /\ c2.typ = c.typ /\ c2.bsy = c.bsy /\ c2.val = cu
           /\ c2.namsz = c.namsz
      BY <3>1, <3>4, <3>5, <3>9 DEF Decoder
    <3>12. Live(c2) /\ Opened(c2, rep, w, cut)
      BY <3>3, <3>4, <3>5, <3>10, <3>11, <3>1, LiveSame
    <3>13. Held(c2) /\ Dropped(c2) /\ Fit(c2) /\ cn <= c2.used
      BY <3>6, <3>11, <3>12, LiveIs DEF Fit
    <3>14. Put(v, c2, vs + 1) \/ TooBig(v, c2, vs + 1)
      BY <2>12, <2>16, <3>10, <3>11, <3>13, CatIs
    <3>15. CASE TooBig(v, c2, vs + 1)
      <4>1. v.ret = "BIG"
        BY <3>10, <3>15 DEF TooBig, Decoder
      <4>2. c2.used - c2.nam + (vs + 1) <= Room(Given(c2.hp, rep))
        BY <2>4, <2>5, <2>10, <3>2, <3>6, <3>11
      <4>3. Stopped(v, c2, w)
        BY <1>2, <2>12, <3>12, <3>13, <3>15, <4>2, StopsBig
      <4>4. r = v
        BY <2>17, <3>1, <4>1
      <4> QED
        BY <2>10, <3>2, <3>11, <4>3, <4>4, SameHeard
    <3>16. CASE Put(v, c2, vs + 1)
      <4>1. c2.val = c2.nam + c2.namsz + 1
        BY <2>10, <3>2, <3>6, <3>11
      <4>2. /\ v \in Decoder /\ v.ret = "OK" /\ AsBefore(v, c2) /\ Held(v)
            /\ Dropped(v) /\ v.nam \in Nat
            /\ v.used - v.nam = c2.used - c2.nam + (vs + 1)
            /\ v.val = v.nam + v.namsz + 1
        BY <3>16, <4>1 DEF Put
      <4>3. /\ v.hp = c2.hp /\ v.typ = c2.typ /\ v.heard = c2.heard
            /\ v.bsy = c2.bsy /\ v.namsz = c2.namsz
        BY <4>2 DEF AsBefore
      <4>4. Live(v)
        BY <3>12, <4>2, <4>3, LiveAs
      <4>5. v.used \in Nat
        BY <4>4, LiveIs
      <4>6. Filled(v, fld)
        BY <2>2, <2>3, <2>10, <3>2, <3>6, <3>11, <4>2, <4>3, <4>5 DEF Filled
      <4>7. r = Notified(v, fld)
        BY <2>17, <3>1, <4>2
      <4>8. ~v.bsy
        BY <1>1, <2>10, <3>2, <3>11, <4>3
      <4>9. Noted(r, v, fld)
        BY <4>4, <4>6, <4>7, <4>8, NotifiedIs
      <4>10. /\ Live(r) /\ Idle(r) /\ r.hp = e.hp
             /\ Fields(r.heard) = Append(Fields(e.heard), fld)
        BY <2>10, <3>2, <3>11, <4>3, <4>9 DEF Noted
      <4>11. fld # NoField
        BY StringAssumption
      <4> QED
        BY <2>6, <4>10, <4>11 DEF Finished
    <3> QED
      BY <3>14, <3>15, <3>16
  <2> QED
    BY <2>14, <2>18, <2>19
<1> QED
  BY <1>4, <1>5

\* An update.
LEMMA UpdateDone ==
    ASSUME NEW e, NEW rep \in BlockRep, rep.typ = "UPD", NEW w,
           NEW cut \in BOOLEAN, Opened(e, rep, w, cut), Idle(e),
           NEW r, r = DecodeUpdate(e, rep.num)
    PROVE  Stopped(r, e, w) \/ Finished(r, e, w, cut)
<1>1. /\ Live(e) /\ e \in Decoder /\ e.ret = "OK" /\ e.used \in Nat
      /\ Held(e) /\ Dropped(e) /\ Able(e.hp) /\ e.nam = -1 /\ e.val = -1
  BY LiveIs DEF Opened, Idle
<1>2. PICK u : u = hpack_decode_update(e.hp, rep.num)
  OBVIOUS
<1>3. w = WholeRep(At(e.hp, "BLK"), rep, cut)
  BY DEF Opened
<1>4. /\ w.fld = NoField
      /\ IF u.ret \in {"OK", "BLK"}
         THEN w.ret = Result(cut) /\ Able(u.hp) /\ w.hp = At(u.hp, Result(cut))
         ELSE w.ret = u.ret /\ u.ret \in {"UPD", "LEN"}
  BY <1>1, <1>2, <1>3, WholeUpdate
<1>5. r = IF u.ret \in {"OK", "BLK"} THEN [e EXCEPT !.hp = u.hp]
          ELSE Fail(e, u.ret)
  BY <1>2, Zenon DEF DecodeUpdate
<1>6. CASE u.ret \in {"OK", "BLK"}
  <2>1. PICK hp \in Codec : hp = u.hp
    BY <1>4, <1>6, AbleIs
  <2>2. r = [e EXCEPT !.hp = hp]
    BY <1>5, <1>6, <2>1
  <2>3. r \in Decoder
    BY <1>1, <2>2 DEF Decoder
  <2>4. /\ r.hp = hp /\ r.ret = "OK" /\ r.used = e.used /\ r.flds = e.flds
        /\ r.heard = e.heard /\ r.big = e.big /\ r.nam = e.nam
    BY <1>1, <2>2 DEF Decoder
  <2>5. Idle(r)
    BY <1>1, <2>2 DEF Idle, Decoder
  <2>6. Held(r) /\ Dropped(r)
    BY <1>1, <2>4, HeldIs
  <2>7. Live(r)
    BY <1>1, <1>4, <1>6, <2>1, <2>3, <2>4, <2>6 DEF Live
  <2> QED
    BY <1>4, <1>6, <2>1, <2>4, <2>5, <2>7 DEF Finished
<1>7. CASE u.ret \notin {"OK", "BLK"}
  <2>1. PICK err \in Errors : err = u.ret
    BY <1>4, <1>7 DEF Errors
  <2>2. PICK big \in BOOLEAN : big = e.big
    BY <1>1 DEF Decoder
  <2>3. r = [e EXCEPT !.big = big, !.ret = err]
    BY <1>1, <1>5, <1>7, <2>1, <2>2 DEF Fail, Decoder
  <2>4. Fit(e)
    BY <1>1 DEF Fit
  <2>5. FailedAs([e EXCEPT !.big = big, !.ret = err], e, err)
    BY <1>1, <2>4, FailWithin, Zenon
  <2>6. FailedAs(r, e, err)
    BY <2>3, <2>5
  <2>7. err # "BIG" /\ err \notin {"OK", "BLK", "SKP"}
    BY <1>4, <1>7, <2>1
  <2> QED
    BY <1>4, <1>7, <2>1, <2>6, <2>7 DEF FailedAs, Stopped, Wrong
<1> QED
  BY <1>6, <1>7

\* r, behind e, waits for the name of a literal.
Unread(r, e, rep, w, cut) ==
    /\ Opened(r, rep, w, cut) /\ r.heard = e.heard
    /\ r.stp = "NAM_LEN" /\ ~r.bsy /\ r.nam \in Nat /\ r.used = r.nam
    /\ r.val = -1

\* A literal, behind its index.
LEMMA FieldBegins ==
    ASSUME NEW e, NEW rep \in BlockRep, IsLiteral(rep), NEW w,
           NEW cut \in BOOLEAN, Opened(e, rep, w, cut), Idle(e),
           NEW r, r = BeginField(e, rep.num)
    PROVE  \/ Stopped(r, e, w)
           \/ rep.num = 0 /\ Unread(r, e, rep, w, cut)
           \/ rep.num # 0 /\ Valued(r, e, rep, w, cut)
<1>1. /\ Live(e) /\ e \in Decoder /\ e.ret = "OK" /\ e.nam = -1 /\ e.val = -1
      /\ ~e.bsy
  BY LiveIs DEF Opened, Idle
<1>2. PICK used \in Nat : used = e.used
  BY <1>1, LiveIs
<1>3. PICK e2 : e2 = [e EXCEPT !.stp = "NAM_LEN", !.nam = used]
  OBVIOUS
<1>4. e2 \in Decoder
  BY <1>1, <1>3 DEF Decoder, Steps
<1>5. /\ e2.hp = e.hp /\ e2.ret = "OK" /\ e2.used = used /\ e2.flds = e.flds
      /\ e2.big = e.big /\ e2.heard = e.heard /\ e2.nam = used
      /\ e2.typ = e.typ /\ e2.bsy = e.bsy /\ e2.val = -1 /\ e2.stp = "NAM_LEN"
  BY <1>1, <1>2, <1>3 DEF Decoder
<1>6. Live(e2) /\ Opened(e2, rep, w, cut)
  BY <1>1, <1>2, <1>4, <1>5, LiveSame
<1>7. r = IF rep.num = 0 THEN e2 ELSE HPT_decode_name(e2, rep.num)
  BY <1>2, <1>3, Zenon DEF BeginField
<1>8. CASE rep.num = 0
  BY <1>1, <1>5, <1>6, <1>7, <1>8 DEF Unread
<1>9. CASE rep.num # 0
  <2>1. r = HPT_decode_name(e2, rep.num)
    BY <1>7, <1>9
  <2>2. Stopped(r, e2, w) \/ Valued(r, e2, rep, w, cut)
    BY <1>1, <1>5, <1>6, <1>9, <2>1, TableName
  <2> QED
    BY <1>5, <1>9, <2>2, SameHeard
<1> QED
  BY <1>8, <1>9

\* A representation, behind its index or size.
LEMMA IntDoneIs ==
    ASSUME NEW e, NEW rep \in BlockRep, NEW w,
           NEW cut \in BOOLEAN, Opened(e, rep, w, cut), Idle(e),
           NEW r, r = IntDone(e, rep.num)
    PROVE  \/ Stopped(r, e, w)
           \/ ~IsLiteral(rep) /\ Finished(r, e, w, cut)
           \/ IsLiteral(rep) /\ rep.num = 0 /\ Unread(r, e, rep, w, cut)
           \/ IsLiteral(rep) /\ rep.num # 0 /\ Valued(r, e, rep, w, cut)
<1>1. e.typ = rep.typ
  BY DEF Opened
<1>2. rep.typ \in {"IDX", "DYN", "LIT", "NVR", "UPD"}
  BY BlockRepType
<1>3. CASE rep.typ = "UPD"
  <2>1. r = DecodeUpdate(e, rep.num) /\ ~IsLiteral(rep)
    BY <1>1, <1>3 DEF IntDone, IsLiteral
  <2> QED
    BY <1>3, <2>1, UpdateDone
<1>4. CASE rep.typ = "IDX"
  <2>1. r = HPT_decode(e, rep.num) /\ ~IsLiteral(rep)
    BY <1>1, <1>4 DEF IntDone, IsLiteral
  <2> QED
    BY <1>4, <2>1, TableField
<1>5. CASE rep.typ \in {"DYN", "LIT", "NVR"}
  <2>1. r = BeginField(e, rep.num) /\ IsLiteral(rep)
    BY <1>1, <1>5 DEF IntDone, IsLiteral
  <2> QED
    BY <2>1, FieldBegins
<1> QED
  BY <1>2, <1>3, <1>4, <1>5

\* r, behind e, has let rep in.
Entered(r, e, rep, w, cut) ==
    /\ Opened(r, rep, w, cut) /\ Idle(r) /\ r.heard = e.heard

\* The first octet of a representation.
LEMMA RepBegins ==
    ASSUME NEW e, Live(e), Idle(e), NEW rep \in BlockRep, NEW cut \in BOOLEAN,
           NEW w, w = WholeRep(At(e.hp, "BLK"), rep, cut),
           NEW r, r = BeginRep(e, rep)
    PROVE  Stopped(r, e, w) \/ Entered(r, e, rep, w, cut)
<1>1. /\ e \in Decoder /\ e.ret = "OK" /\ e.nam = -1 /\ e.val = -1 /\ ~e.bsy
      /\ e.stp = "FLD_INT" /\ e.used \in Nat
      /\ Held(e) /\ Dropped(e)
  BY LiveIs DEF Idle
<1>2. PICK hp : hp = e.hp
  OBVIOUS
<1>3. Able(hp) /\ hp \in Codec /\ Ordered(hp)
  BY <1>2, LiveIs, AbleIs
<1>4. PICK typ \in {"IDX", "DYN", "LIT", "NVR", "UPD"} : typ = rep.typ
  BY BlockRepType
<1>5. Fit(e)
  BY <1>1 DEF Fit
<1>6. PICK head : head = [e EXCEPT !.typ = typ]
  OBVIOUS
<1>7. r = IF rep.typ = "UPD" /\ ~hp.upd THEN Fail(e, "UPD")
          ELSE IF LooksLikeUpdate(rep) THEN head
          ELSE IF hp.nxt >= 0 THEN Fail(e, "RSZ")
          ELSE [head EXCEPT !.hp = IF hp.min < 0 THEN [hp EXCEPT !.upd = FALSE]
                                   ELSE Abort(hp)]
  BY <1>2, <1>4, <1>6, Zenon DEF BeginRep
<1>8. ASSUME NEW err \in Errors, r = Fail(e, err), w.ret = err, err # "BIG",
             w.fld = NoField
      PROVE  Stopped(r, e, w)
  <2>1. PICK big \in BOOLEAN : big = e.big
    BY <1>1 DEF Decoder
  <2>2. r = [e EXCEPT !.big = big, !.ret = err]
    BY <1>1, <1>8, <2>1 DEF Fail, Decoder
  <2>3. FailedAs([e EXCEPT !.big = big, !.ret = err], e, err)
    BY <1>5, FailWithin, Zenon
  <2>4. FailedAs(r, e, err)
    BY <2>2, <2>3
  <2>5. err \notin {"OK", "BLK", "SKP"}
    BY DEF Errors
  <2> QED
    BY <1>8, <2>4, <2>5 DEF FailedAs, Stopped, Wrong
<1>9. "UPD" \in Errors /\ "RSZ" \in Errors
  BY DEF Errors
<1>10. ASSUME NEW g, Able(g), r = [e EXCEPT !.hp = g, !.typ = typ],
              Admitted(g, rep), w = WholeRep(At(g, "BLK"), rep, cut)
       PROVE  Entered(r, e, rep, w, cut)
  <2>1. PICK h \in Codec : h = g
    BY <1>10, AbleIs
  <2>2. r = [e EXCEPT !.hp = h, !.typ = typ]
    BY <1>10, <2>1
  <2>3. r \in Decoder
    BY <1>1, <2>2 DEF Decoder
  <2>4. /\ r.hp = h /\ r.ret = "OK" /\ r.used = e.used /\ r.flds = e.flds
        /\ r.heard = e.heard /\ r.big = e.big /\ r.nam = e.nam /\ r.typ = typ
    BY <1>1, <2>2 DEF Decoder
  <2>5. Idle(r)
    BY <1>1, <2>2 DEF Idle, Decoder
  <2>6. Held(r) /\ Dropped(r)
    BY <1>1, <2>4, HeldIs
  <2>7. Live(r)
    BY <1>10, <2>1, <2>3, <2>4, <2>6 DEF Live
  <2>8. Opened(r, rep, w, cut)
    BY <1>4, <1>10, <2>1, <2>4, <2>7 DEF Opened
  <2> QED
    BY <2>4, <2>5, <2>8 DEF Entered
<1>11. CASE rep.typ = "UPD" /\ ~hp.upd
  <2>1. PICK u : u = hpack_decode_update(hp, rep.num)
    OBVIOUS
  <2>2. rep.typ = "UPD" /\ w = WholeRep(At(hp, "BLK"), rep, cut)
    BY <1>2, <1>11
  <2>3. /\ w.fld = NoField
        /\ IF u.ret \in {"OK", "BLK"}
           THEN w.ret = Result(cut) /\ Able(u.hp) /\ w.hp = At(u.hp, Result(cut))
           ELSE w.ret = u.ret /\ u.ret \in {"UPD", "LEN"}
        /\ ~hp.upd => u.ret = "UPD"
    BY <1>3, <2>1, <2>2, WholeUpdate
  <2>4. w.ret = "UPD" /\ w.fld = NoField /\ r = Fail(e, "UPD")
    BY <1>7, <1>11, <2>3
  <2> QED
    BY <1>8, <1>9, <2>4
<1>12. CASE ~(rep.typ = "UPD" /\ ~hp.upd) /\ LooksLikeUpdate(rep)
  <2>1. r = head
    BY <1>7, <1>12
  <2>2. r = [e EXCEPT !.hp = hp, !.typ = typ]
    BY <1>1, <1>2, <1>6, <2>1 DEF Decoder
  <2>3. Admitted(hp, rep)
    BY <1>12 DEF Admitted
  <2> QED
    BY <1>2, <1>3, <1>10, <2>2, <2>3
<1>13. CASE ~LooksLikeUpdate(rep) /\ hp.nxt >= 0
  <2>1. rep.typ # "UPD"
    BY <1>13 DEF LooksLikeUpdate
  <2>2. r = Fail(e, "RSZ")
    BY <1>7, <1>13, <2>1
  <2>3. Early(hp, rep)
    BY <1>13, <2>1 DEF Early
  <2>4. w.ret = "RSZ" /\ w.fld = NoField
    BY <1>2, <1>3, <2>3, WholeEarly
  <2> QED
    BY <1>8, <1>9, <2>2, <2>4
<1>14. CASE ~LooksLikeUpdate(rep) /\ ~(hp.nxt >= 0)
  <2>1. rep.typ # "UPD"
    BY <1>14 DEF LooksLikeUpdate
  <2>2. hp.min < 0 /\ hp.nxt < 0
    BY <1>3, <1>14 DEF Ordered, Codec
  <2>3. PICK h : h = Headed(hp, rep)
    OBVIOUS
  <2>4. h = [hp EXCEPT !.upd = FALSE]
    BY <1>14, <2>3 DEF Headed
  <2>5. r = [head EXCEPT !.hp = h]
    BY <1>7, <1>14, <2>1, <2>2, <2>4
  <2>6. r = [e EXCEPT !.hp = h, !.typ = typ]
    BY <1>1, <1>6, <2>5 DEF Decoder
  <2>7. Able(h) /\ h.min = hp.min /\ h.nxt = hp.nxt
        /\ h.upd = (hp.upd /\ LooksLikeUpdate(rep))
    BY <1>3, <2>3, HeadedIs
  <2>8. Admitted(h, rep)
    BY <1>14, <2>1, <2>2, <2>7 DEF Admitted
  <2>9. ~Early(hp, rep)
    BY <1>14 DEF Early
  <2>10. w = WholeRep(At(h, "BLK"), rep, cut)
    BY <1>2, <1>3, <2>1, <2>3, <2>9, WholeField
  <2> QED
    BY <1>10, <2>6, <2>7, <2>8, <2>10
<1> QED
  BY <1>11, <1>12, <1>13, <1>14

\* r, behind e, is within rep.
Going(r, e, rep, w, cut) ==
    Opened(r, rep, w, cut) /\ Reading(r, rep) /\ r.heard = e.heard

\* So it is when it waits for a name or a value.
LEMMA GoingOn ==
    ASSUME NEW r, NEW e, NEW rep, IsLiteral(rep), NEW w, NEW cut
    PROVE  /\ Unread(r, e, rep, w, cut) /\ rep.num = 0
                => Going(r, e, rep, w, cut) /\ r.stp = "NAM_LEN" /\ ~r.bsy
           /\ Valued(r, e, rep, w, cut)
                => Going(r, e, rep, w, cut) /\ r.stp = "VAL_LEN" /\ ~r.bsy
<1>1. ASSUME Unread(r, e, rep, w, cut), rep.num = 0
      PROVE  Going(r, e, rep, w, cut) /\ r.stp = "NAM_LEN" /\ ~r.bsy
  <2>1. Opened(r, rep, w, cut) /\ r.heard = e.heard
        /\ r.stp = "NAM_LEN" /\ ~r.bsy /\ r.nam \in Nat /\ r.used = r.nam
        /\ r.val = -1
    BY <1>1 DEF Unread
  <2>2. r.typ = rep.typ /\ Admitted(r.hp, rep)
    BY <2>1 DEF Opened
  <2>3. Reading(r, rep)
    BY <1>1, <2>1, <2>2 DEF Reading
  <2> QED
    BY <2>1, <2>3 DEF Going
<1>2. ASSUME Valued(r, e, rep, w, cut)
      PROVE  Going(r, e, rep, w, cut) /\ r.stp = "VAL_LEN" /\ ~r.bsy
  <2>1. Opened(r, rep, w, cut) /\ r.heard = e.heard
        /\ r.stp = "VAL_LEN" /\ ~r.bsy /\ r.nam \in Nat /\ Named(r, rep)
        /\ r.used = r.val
    BY <1>2 DEF Valued
  <2>2. r.typ = rep.typ /\ Admitted(r.hp, rep)
    BY <2>1 DEF Opened
  <2>3. Reading(r, rep)
    BY <2>1, <2>2 DEF Reading
  <2> QED
    BY <2>1, <2>3 DEF Going
<1> QED
  BY <1>1, <1>2

\* The end of the length of a name.
LEMMA NameLength ==
    ASSUME NEW e, NEW rep \in BlockRep, NEW w, NEW cut \in BOOLEAN,
           Opened(e, rep, w, cut), Reading(e, rep), e.stp = "NAM_LEN",
           NEW r, r = BeginString(e, rep)
    PROVE  \/ Stopped(r, e, w)
           \/ /\ Going(r, e, rep, w, cut) /\ r.stp = "NAM_STR" /\ ~r.bsy
              /\ r.left = Len(rep.nput)
<1>1. /\ Live(e) /\ e \in Decoder /\ e.ret = "OK" /\ e.typ = rep.typ
      /\ e.used \in Nat /\ e.nam \in Nat \cup {-1} /\ Admitted(e.hp, rep)
  BY LiveIs DEF Opened
<1>2. IsLiteral(rep) /\ rep.num = 0 /\ e.val = -1 /\ e.nam >= 0 /\ e.used = e.nam
  BY DEF Reading
<1>3. rep.nput \in Seq(Nat) /\ rep.typ # "UPD"
  BY <1>2, BlockRepType
<1>4. PICK len \in Nat : len = Len(rep.nput)
  BY <1>3
<1>5. PICK e2 : e2 = [e EXCEPT !.bsy = FALSE, !.left = len, !.stp = "NAM_STR"]
  OBVIOUS
<1>6. e2 \in Decoder
  BY <1>1, <1>5 DEF Decoder, Steps
<1>7. /\ e2.hp = e.hp /\ e2.ret = "OK" /\ e2.used = e.used /\ e2.flds = e.flds
      /\ e2.big = e.big /\ e2.heard = e.heard /\ e2.nam = e.nam
      /\ e2.typ = e.typ /\ ~e2.bsy /\ e2.val = -1 /\ e2.stp = "NAM_STR"
      /\ e2.left = len
  BY <1>1, <1>2, <1>5 DEF Decoder
<1>8. Live(e2) /\ Opened(e2, rep, w, cut)
  BY <1>1, <1>6, <1>7, LiveSame
<1>9. r = IF len > 0 THEN e2 ELSE Fail(e2, "LEN")
  BY <1>4, <1>5, Zenon DEF BeginString
<1>10. CASE len = 0
  <2>1. rep.nput = <<>>
    BY <1>3, <1>4, <1>10, EmptySeq
  <2>2. Refused(e2.hp, rep) = "LEN"
    BY <1>2, <2>1 DEF Refused, Unnamed
  <2>3. r = Fail(e2, "LEN")
    BY <1>9, <1>10
  <2>4. Fit(e2)
    BY <1>1, <1>2, <1>7 DEF Fit
  <2>5. Stopped(r, e2, w)
    BY <1>3, <1>8, <2>2, <2>3, <2>4, StopsErr
  <2> QED
    BY <1>7, <2>5, SameHeard
<1>11. CASE len > 0
  <2>1. r = e2
    BY <1>9, <1>11
  <2>2. SumOf(rep.nput, len - len) = 0
    <3>1. len - len = 0
      OBVIOUS
    <3> QED
      BY <3>1, SumOfNext
  <2>3. e2.used = e2.nam + SumOf(rep.nput, len - len)
    BY <1>1, <1>2, <1>7, <2>2
  <2>4. len \in 1..len
    BY <1>11
  <2>5. Reading(e2, rep)
    BY <1>1, <1>2, <1>4, <1>7, <2>3, <2>4 DEF Reading
  <2> QED
    BY <1>4, <1>7, <1>8, <2>1, <2>5 DEF Going
<1> QED
  BY <1>10, <1>11

\* The end of the length of a value.
LEMMA ValueLength ==
    ASSUME NEW e, NEW rep \in BlockRep, NEW w, NEW cut \in BOOLEAN,
           Opened(e, rep, w, cut), Reading(e, rep), e.stp = "VAL_LEN",
           NEW r, r = BeginString(e, rep)
    PROVE  \/ Stopped(r, e, w)
           \/ Len(rep.vput) = 0 /\ Finished(r, e, w, cut)
           \/ /\ Going(r, e, rep, w, cut) /\ r.stp = "VAL_STR" /\ ~r.bsy
              /\ r.left = Len(rep.vput)
<1>1. /\ Live(e) /\ e \in Decoder /\ e.ret = "OK" /\ e.typ = rep.typ
      /\ e.used \in Nat /\ e.nam \in Nat \cup {-1} /\ Admitted(e.hp, rep)
      /\ e.namsz \in Nat
  BY LiveIs DEF Opened
<1>2. IsLiteral(rep) /\ Named(e, rep) /\ e.nam >= 0 /\ e.used = e.val
  BY DEF Reading
<1>3. rep.vput \in Seq(Nat) /\ rep.typ # "UPD"
      /\ Total(rep.vput) = ValueSize[rep.fld.val]
  BY <1>2, BlockRepType
<1>4. PICK len \in Nat : len = Len(rep.vput)
  BY <1>3
<1>5. PICK e2 : e2 = [e EXCEPT !.bsy = FALSE, !.left = len, !.stp = "VAL_STR"]
  OBVIOUS
<1>6. e2 \in Decoder
  BY <1>1, <1>5 DEF Decoder, Steps
<1>7. /\ e2.hp = e.hp /\ e2.ret = "OK" /\ e2.used = e.used /\ e2.flds = e.flds
      /\ e2.big = e.big /\ e2.heard = e.heard /\ e2.nam = e.nam
      /\ e2.typ = e.typ /\ ~e2.bsy /\ e2.val = e.val /\ e2.stp = "VAL_STR"
      /\ e2.left = len /\ e2.name = e.name /\ e2.namsz = e.namsz
  BY <1>1, <1>5 DEF Decoder
<1>8. Live(e2) /\ Opened(e2, rep, w, cut)
  BY <1>1, <1>6, <1>7, LiveSame
<1>9. r = IF len > 0 THEN e2 ELSE DecodeValue(e2, rep)
  <2>1. /\ e.stp # "NAM_LEN" /\ len = Len(IF e.stp = "NAM_LEN" THEN rep.nput
                                          ELSE rep.vput)
    BY <1>4
  <2>2. e2 = [e EXCEPT !.bsy = FALSE, !.left = len,
                       !.stp = IF e.stp = "NAM_LEN" THEN "NAM_STR" ELSE "VAL_STR"]
    BY <1>5, <2>1
  <2>3. r = IF len > 0 THEN e2 ELSE StringDone(e2, rep)
    BY <2>1, <2>2, Zenon DEF BeginString
  <2>4. StringDone(e2, rep) = DecodeValue(e2, rep)
    BY <1>7 DEF StringDone
  <2> QED
    BY <2>3, <2>4
<1>10. Named(e2, rep)
  BY <1>2, <1>7, Zenon DEF Named
<1>11. SumOf(rep.vput, 0) = 0
  BY SumOfNext
<1>12. e2.nam \in Nat /\ e2.used = e2.val /\ e2.val \in Nat
  BY <1>1, <1>2, <1>7
<1>13. CASE len = 0
  <2>1. ValueSize[rep.fld.val] = 0
    BY <1>3, <1>4, <1>11, <1>13 DEF Total
  <2>2. e2.used = e2.val + ValueSize[rep.fld.val]
    BY <1>12, <2>1
  <2>3. r = DecodeValue(e2, rep)
    BY <1>9, <1>13
  <2>4. Stopped(r, e2, w) \/ Finished(r, e2, w, cut)
    BY <1>2, <1>7, <1>8, <1>10, <1>12, <2>2, <2>3, ValueDone
  <2> QED
    BY <1>4, <1>7, <1>13, <2>4, SameHeard
<1>14. CASE len > 0
  <2>1. r = e2
    BY <1>9, <1>14
  <2>2. SumOf(rep.vput, len - len) = 0
    <3>1. len - len = 0
      OBVIOUS
    <3> QED
      BY <1>11, <3>1
  <2>3. e2.used = e2.val + SumOf(rep.vput, len - len)
    BY <1>12, <2>2
  <2>4. len \in 1..len
    BY <1>14
  <2>5. Reading(e2, rep)
    BY <1>1, <1>2, <1>4, <1>7, <1>10, <2>3, <2>4 DEF Reading
  <2> QED
    BY <1>4, <1>7, <1>8, <2>1, <2>5 DEF Going
<1> QED
  BY <1>13, <1>14

\* A string and its next octet: what it completes so far.
LEMMA OneMore ==
    ASSUME NEW s \in Seq(Nat), NEW left \in 1..Len(s)
    PROVE  LET k == Len(s) - left
           IN  /\ k + 1 \in 1..Len(s) /\ s[k + 1] \in Nat
               /\ SumOf(s, k) \in Nat /\ SumOf(s, k + 1) \in Nat
               /\ SumOf(s, k) + s[k + 1] = SumOf(s, k + 1)
               /\ SumOf(s, k + 1) <= Total(s) /\ Total(s) \in Nat
               /\ left = 1 => SumOf(s, k + 1) = Total(s)
<1>1. PICK len \in Nat : len = Len(s)
  OBVIOUS
<1>10. left \in 1..len
  BY <1>1
<1>2. PICK k \in 0..(len - 1) : k = len - left
  BY <1>10
<1>11. k \in Nat /\ k + 1 \in 1..len /\ k \in 0..len /\ k + 1 \in 0..len
  OBVIOUS
<1>3. s[k + 1] \in Nat
  BY <1>1, <1>11
<1>4. \A j \in 0..len : SumOf(s, j) \in Nat /\ SumOf(s, j) <= Total(s)
  BY <1>1, SumOfType
<1>5. SumOf(s, k + 1) = SumOf(s, k) + s[k + 1]
  BY <1>11, SumOfNext
<1>6. Total(s) = SumOf(s, len)
  BY <1>1 DEF Total
<1>7. SumOf(s, k) \in Nat /\ SumOf(s, k + 1) \in Nat
      /\ SumOf(s, k + 1) <= Total(s)
  BY <1>4, <1>11
<1>8. Total(s) \in Nat
  <2>1. len \in 0..len
    OBVIOUS
  <2> QED
    BY <1>4, <1>6, <2>1
<1>9. left = 1 => k + 1 = len
  BY <1>2, <1>10
<1> QED
  BY <1>1, <1>2, <1>3, <1>5, <1>6, <1>7, <1>8, <1>9, <1>11


\* An octet of a name.
LEMMA NameOctet ==
    ASSUME NEW e, NEW rep \in BlockRep, NEW w, NEW cut \in BOOLEAN,
           Opened(e, rep, w, cut), Reading(e, rep), e.stp = "NAM_STR",
           NEW oct, oct.rep = rep,
           oct.n = rep.nput[Len(rep.nput) - e.left + 1],
           NEW r, r = StringOctet(e, oct)
    PROVE  \/ Stopped(r, e, w)
           \/ e.left = 1 /\ Valued(r, e, rep, w, cut)
           \/ /\ Going(r, e, rep, w, cut) /\ r.stp = "NAM_STR" /\ ~r.bsy
              /\ r.left = e.left - 1
<1>1. /\ Live(e) /\ e \in Decoder /\ e.ret = "OK" /\ e.typ = rep.typ
      /\ e.used \in Nat /\ e.nam \in Nat \cup {-1} /\ Admitted(e.hp, rep)
  BY LiveIs DEF Opened
<1>2. /\ IsLiteral(rep) /\ rep.num = 0 /\ e.val = -1 /\ e.nam >= 0 /\ ~e.bsy
      /\ e.left \in 1..Len(rep.nput)
      /\ e.used = e.nam + SumOf(rep.nput, Len(rep.nput) - e.left)
  BY DEF Reading
<1>3. rep.nput \in Seq(Nat) /\ rep.typ # "UPD" /\ rep.typ # "IDX"
      /\ (rep.nput # <<>> => Total(rep.nput) = NameSize[rep.fld.nam])
  BY <1>2, BlockRepType
<1>4. PICK s \in Seq(Nat) : s = rep.nput
  BY <1>3
<1>5. PICK len \in Nat : len = Len(s)
  OBVIOUS
<1>6. PICK left \in 1..len : left = e.left
  BY <1>2, <1>4, <1>5
<1>7. rep.nput # <<>>
  BY <1>4, <1>5, <1>6
<1>8. PICK k \in 0..(len - 1) : k = len - left
  OBVIOUS
<1>9. PICK n \in Nat : n = s[k + 1]
  BY <1>5, <1>8
<1>10. oct.n = n
  BY <1>4, <1>5, <1>6, <1>8, <1>9
<1>11. PICK sum \in Nat : sum = SumOf(s, k)
  BY <1>5, <1>6, <1>8, OneMore
<1>12. PICK more \in Nat : more = SumOf(s, k + 1)
  BY <1>5, <1>6, <1>8, OneMore
<1>13. PICK ns \in Nat : ns = NameSize[rep.fld.nam]
  BY <1>3, BlockRepType, RoomType
<1>14. sum + n = more /\ more <= ns /\ (left = 1 => more = ns)
  BY <1>3, <1>4, <1>5, <1>6, <1>7, <1>8, <1>9, <1>11, <1>12, <1>13, OneMore, ZenonT(60)
<1>15. PICK e2 : e2 = [e EXCEPT !.left = left - 1]
  OBVIOUS
<1>16. PICK rest \in Nat : rest = left - 1
  OBVIOUS
<1>17. e2 \in Decoder
  BY <1>1, <1>15, <1>16 DEF Decoder
<1>18. /\ e2.hp = e.hp /\ e2.ret = "OK" /\ e2.used = e.used /\ e2.flds = e.flds
       /\ e2.big = e.big /\ e2.heard = e.heard /\ e2.nam = e.nam
       /\ e2.typ = e.typ /\ ~e2.bsy /\ e2.val = -1 /\ e2.stp = "NAM_STR"
       /\ e2.left = rest
  BY <1>1, <1>2, <1>15, <1>16 DEF Decoder
<1>19. Live(e2) /\ Opened(e2, rep, w, cut) /\ Held(e2) /\ Dropped(e2)
  BY <1>1, <1>17, <1>18, LiveSame, LiveIs
<1>20. PICK nam \in Nat : nam = e2.nam
  BY <1>1, <1>2, <1>18
<1>21. e2.used = nam + sum /\ nam <= e2.used /\ Fit(e2)
  <2>1. e.used = e.nam + sum
    BY <1>2, <1>4, <1>5, <1>6, <1>8, <1>11, Zenon
  <2>2. e2.used = nam + sum
    BY <1>18, <1>20, <2>1, Zenon
  <2>3. e2.val = -1 /\ e2.nam = nam
    BY <1>18, <1>20
  <2> QED
    BY <2>2, <2>3 DEF Fit
<1>22. PICK c : c = HPD_cat(e2, n)
  OBVIOUS
<1>23. Put(c, e2, n) \/ TooBig(c, e2, n)
  BY <1>17, <1>18, <1>19, <1>20, <1>21, <1>22, CatIs
<1>24. r = IF c.ret # "OK" \/ c.left > 0 THEN c ELSE StringDone(c, rep)
  BY <1>6, <1>10, <1>15, <1>22, Zenon DEF StringOctet
<1>25. CASE TooBig(c, e2, n)
  <2>1. c.ret = "BIG"
    BY <1>17, <1>25 DEF TooBig, Decoder
  <2>2. ASSUME Refused(e2.hp, rep) = "OK"
        PROVE  e2.used - e2.nam + n <= Room(Given(e2.hp, rep))
    <3>1. PICK fld \in Field : fld = Given(e2.hp, rep)
      BY <1>3, <1>19, <2>2, OpenedField
    <3>2. fld.nam = rep.fld.nam
      BY <1>2, <1>3, <3>1 DEF Given, NameOf
    <3>3. PICK vs \in Nat : vs = ValueSize[fld.val]
      BY RoomType
    <3>4. Room(fld) = ns + vs + 2
      BY <1>13, <3>2, <3>3 DEF Room
    <3> QED
      BY <1>14, <1>20, <1>21, <3>1, <3>4, SMTT(60)
  <2>3. Stopped(c, e2, w)
    BY <1>3, <1>19, <1>21, <1>25, <2>2, StopsBig
  <2>4. r = c
    BY <1>24, <2>1
  <2> QED
    BY <1>18, <2>3, <2>4, SameHeard
<1>26. CASE Put(c, e2, n)
  <2>1. /\ c \in Decoder /\ c.ret = "OK" /\ AsBefore(c, e2) /\ Held(c)
        /\ Dropped(c) /\ c.nam \in Nat
        /\ c.used - c.nam = e2.used - e2.nam + n /\ c.val = -1
    BY <1>18, <1>26 DEF Put
  <2>2. /\ c.hp = e2.hp /\ c.typ = e2.typ /\ c.heard = e2.heard
        /\ c.bsy = e2.bsy /\ c.stp = e2.stp /\ c.left = e2.left
    BY <2>1 DEF AsBefore
  <2>3. Live(c) /\ Opened(c, rep, w, cut)
    BY <1>19, <2>1, <2>2, LiveAs
  <2>4. c.used = c.nam + more
    <3>1. PICK cu \in Nat : cu = c.used
      BY <2>3, LiveIs
    <3>2. PICK cn \in Nat : cn = c.nam
      BY <2>1
    <3>3. PICK used \in Nat : used = e2.used /\ used = nam + sum
      BY <1>21
    <3>5. c.used - c.nam = e2.used - e2.nam + n
      BY <2>1
    <3>6. cu - cn = used - nam + n
      BY <1>20, <3>1, <3>2, <3>3, <3>5, Zenon
    <3>4. cu = cn + more
      BY <1>14, <3>3, <3>6
    <3> QED
      BY <3>1, <3>2, <3>4
  <2>5. CASE left = 1
    <3>1. ~(c.left > 0)
      BY <1>16, <1>18, <2>2, <2>5
    <3>2. r = DecodeName(c, rep)
      BY <1>18, <1>24, <2>1, <2>2, <3>1 DEF StringDone
    <3>3. c.used = c.nam + NameSize[rep.fld.nam]
      BY <1>13, <1>14, <2>4, <2>5
    <3>4. Stopped(r, c, w) \/ Valued(r, c, rep, w, cut)
      BY <1>2, <1>7, <1>18, <2>1, <2>2, <2>3, <3>2, <3>3, LiteralName
    <3> QED
      BY <1>6, <1>18, <2>2, <2>5, <3>4, SameHeard
  <2>6. CASE left # 1
    <3>1. rest > 0 /\ rest \in 1..len /\ len - rest = k + 1
      BY <1>8, <1>16, <2>6
    <3>2. r = c
      BY <1>18, <1>24, <2>2, <3>1
    <3>3. c.used = c.nam + SumOf(s, len - rest)
      BY <1>12, <2>4, <3>1
    <3>4. Reading(c, rep)
      BY <1>1, <1>2, <1>4, <1>5, <1>18, <2>1, <2>2, <3>1, <3>3 DEF Reading
    <3> QED
      BY <1>6, <1>16, <1>18, <2>2, <2>3, <3>2, <3>4 DEF Going
  <2> QED
    BY <2>5, <2>6
<1> QED
  BY <1>23, <1>25, <1>26

\* An octet of a value.
LEMMA ValueOctet ==
    ASSUME NEW e, NEW rep \in BlockRep, NEW w, NEW cut \in BOOLEAN,
           Opened(e, rep, w, cut), Reading(e, rep), e.stp = "VAL_STR",
           NEW oct, oct.rep = rep,
           oct.n = rep.vput[Len(rep.vput) - e.left + 1],
           NEW r, r = StringOctet(e, oct)
    PROVE  \/ Stopped(r, e, w)
           \/ e.left = 1 /\ Finished(r, e, w, cut)
           \/ /\ Going(r, e, rep, w, cut) /\ r.stp = "VAL_STR" /\ ~r.bsy
              /\ r.left = e.left - 1
<1>1. /\ Live(e) /\ e \in Decoder /\ e.ret = "OK" /\ e.typ = rep.typ
      /\ e.used \in Nat /\ e.nam \in Nat \cup {-1} /\ Admitted(e.hp, rep)
      /\ e.namsz \in Nat
  BY LiveIs DEF Opened
<1>2. /\ IsLiteral(rep) /\ Named(e, rep) /\ e.nam >= 0 /\ ~e.bsy
      /\ e.left \in 1..Len(rep.vput)
      /\ e.used = e.val + SumOf(rep.vput, Len(rep.vput) - e.left)
  BY DEF Reading
<1>3. rep.vput \in Seq(Nat) /\ rep.typ # "UPD" /\ rep.typ # "IDX"
      /\ Total(rep.vput) = ValueSize[rep.fld.val] /\ rep.fld \in Field
  BY <1>2, BlockRepType
<1>4. PICK s \in Seq(Nat) : s = rep.vput
  BY <1>3
<1>5. PICK len \in Nat : len = Len(s)
  OBVIOUS
<1>6. PICK left \in 1..len : left = e.left
  BY <1>2, <1>4, <1>5
<1>7. PICK k \in 0..(len - 1) : k = len - left
  OBVIOUS
<1>8. PICK n \in Nat : n = s[k + 1]
  BY <1>5, <1>7
<1>9. oct.n = n
  BY <1>4, <1>5, <1>6, <1>7, <1>8
<1>10. PICK sum \in Nat : sum = SumOf(s, k)
  BY <1>5, <1>6, <1>7, OneMore
<1>11. PICK more \in Nat : more = SumOf(s, k + 1)
  BY <1>5, <1>6, <1>7, OneMore
<1>12. PICK vs \in Nat : vs = ValueSize[rep.fld.val]
  BY <1>3, RoomType
<1>13. sum + n = more /\ more <= vs /\ (left = 1 => more = vs)
  BY <1>3, <1>4, <1>5, <1>6, <1>7, <1>8, <1>10, <1>11, <1>12, OneMore, ZenonT(60)
<1>14. PICK nam \in Nat : nam = e.nam
  BY <1>1, <1>2
<1>15. /\ e.val = nam + e.namsz + 1 /\ e.val \in Nat
       /\ e.namsz = NameSize[e.name] /\ Given(e.hp, rep).nam = e.name
       /\ Given(e.hp, rep).val = rep.fld.val
  BY <1>1, <1>2, <1>14, NamedIs
<1>16. PICK e2 : e2 = [e EXCEPT !.left = left - 1]
  OBVIOUS
<1>17. PICK rest \in Nat : rest = left - 1
  OBVIOUS
<1>18. e2 \in Decoder
  BY <1>1, <1>16, <1>17 DEF Decoder
<1>19. /\ e2.hp = e.hp /\ e2.ret = "OK" /\ e2.used = e.used /\ e2.flds = e.flds
       /\ e2.big = e.big /\ e2.heard = e.heard /\ e2.nam = nam
       /\ e2.typ = e.typ /\ ~e2.bsy /\ e2.val = e.val /\ e2.stp = "VAL_STR"
       /\ e2.left = rest /\ e2.namsz = e.namsz /\ e2.name = e.name
  BY <1>1, <1>2, <1>14, <1>16, <1>17 DEF Decoder
<1>20. Live(e2) /\ Opened(e2, rep, w, cut) /\ Held(e2) /\ Dropped(e2)
  BY <1>1, <1>14, <1>18, <1>19, LiveSame, LiveIs
<1>27. PICK nsz \in Nat : nsz = e.namsz
  BY <1>1
<1>28. PICK val \in Nat : val = e.val
  BY <1>15
<1>29. PICK used \in Nat : used = e.used
  BY <1>1
<1>30. val = nam + nsz + 1 /\ used = val + sum
  BY <1>2, <1>4, <1>5, <1>6, <1>7, <1>10, <1>15, <1>27, <1>28, <1>29, Zenon
<1>31. used = nam + nsz + 1 + sum /\ nam <= used /\ val <= used
  BY <1>30
<1>21. e2.used = used /\ nam <= e2.used /\ Fit(e2)
  BY <1>19, <1>28, <1>29, <1>31, Zenon DEF Fit
<1>22. PICK c : c = HPD_cat(e2, n)
  OBVIOUS
<1>23. Put(c, e2, n) \/ TooBig(c, e2, n)
  BY <1>18, <1>19, <1>20, <1>21, <1>22, CatIs
<1>24. r = IF c.ret # "OK" \/ c.left > 0 THEN c ELSE StringDone(c, rep)
  BY <1>6, <1>9, <1>16, <1>22, Zenon DEF StringOctet
<1>25. CASE TooBig(c, e2, n)
  <2>1. c.ret = "BIG"
    BY <1>18, <1>25 DEF TooBig, Decoder
  <2>2. ASSUME Refused(e2.hp, rep) = "OK"
        PROVE  e2.used - e2.nam + n <= Room(Given(e2.hp, rep))
    <3>1. PICK fld : fld = Given(e2.hp, rep)
      OBVIOUS
    <3>2. fld.nam = e.name /\ fld.val = rep.fld.val
      BY <1>15, <1>19, <3>1
    <3>3. Room(fld) = nsz + vs + 2
      BY <1>12, <1>15, <1>27, <3>2, Zenon DEF Room
    <3>4. used - nam + n <= nsz + vs + 2
      BY <1>13, <1>31
    <3> QED
      BY <1>19, <1>21, <3>1, <3>3, <3>4, Zenon
  <2>3. Stopped(c, e2, w)
    BY <1>3, <1>20, <1>21, <1>25, <2>2, StopsBig
  <2>4. r = c /\ e2.heard = e.heard
    BY <1>19, <1>24, <2>1
  <2>5. Stopped(r, e2, w)
    BY <2>3, <2>4
  <2> QED
    BY <2>4, <2>5, SameHeard
<1>26. CASE Put(c, e2, n)
  <2>1. /\ c \in Decoder /\ c.ret = "OK" /\ AsBefore(c, e2) /\ Held(c)
        /\ Dropped(c) /\ c.nam \in Nat
        /\ c.used - c.nam = e2.used - e2.nam + n
        /\ c.val = c.nam + c.namsz + 1
    BY <1>15, <1>19, <1>26 DEF Put
  <2>2. /\ c.hp = e2.hp /\ c.typ = e2.typ /\ c.heard = e2.heard
        /\ c.bsy = e2.bsy /\ c.stp = e2.stp /\ c.left = e2.left
        /\ c.namsz = e2.namsz /\ c.name = e2.name
    BY <2>1 DEF AsBefore
  <2>3. Live(c) /\ Opened(c, rep, w, cut)
    BY <1>20, <2>1, <2>2, LiveAs
  <2>4. c.used = c.val + more
    <3>1. PICK cu \in Nat : cu = c.used
      BY <2>3, LiveIs
    <3>2. PICK cn \in Nat : cn = c.nam
      BY <2>1
    <3>3. c.namsz = nsz
      BY <1>19, <1>27, <2>2, Zenon
    <3>4. cu - cn = used - nam + n
      BY <1>19, <1>21, <2>1, <3>1, <3>2, Zenon
    <3>5. cu = cn + nsz + 1 + more
      <4>1. sum + n = more
        BY <1>13
      <4>2. used = nam + nsz + 1 + sum
        BY <1>31
      <4>3. PICK grown : grown = used - nam + n
        OBVIOUS
      <4>4. grown = nsz + 1 + more
        BY <4>1, <4>2, <4>3
      <4>5. cu - cn = grown
        BY <3>4, <4>3, Zenon
      <4> QED
        BY <4>4, <4>5, SMTT(60)
    <3>6. c.val = cn + nsz + 1
      BY <2>1, <3>2, <3>3
    <3> QED
      BY <3>1, <3>5, <3>6
  <2>5. Named(c, rep)
    <3>1. /\ IF rep.num = 0 THEN rep.nput # <<>> ELSE rep.num \in Indices(e.hp)
          /\ e.name = NameOf(e.hp, rep) /\ e.name \notin BadName
          /\ e.namsz = NameSize[e.name]
      BY <1>2 DEF Named
    <3> QED
      BY <1>19, <2>1, <2>2, <3>1 DEF Named
  <2>6. CASE left = 1
    <3>1. ~(c.left > 0)
      BY <1>17, <1>19, <2>2, <2>6
    <3>2. r = DecodeValue(c, rep)
      BY <1>19, <1>24, <2>1, <2>2, <3>1 DEF StringDone
    <3>3. c.used = c.val + ValueSize[rep.fld.val]
      BY <1>12, <1>13, <2>4, <2>6
    <3>4. Stopped(r, c, w) \/ Finished(r, c, w, cut)
      BY <1>2, <1>19, <2>1, <2>2, <2>3, <2>5, <3>2, <3>3, ValueDone
    <3> QED
      BY <1>6, <1>19, <2>2, <2>6, <3>4, SameHeard
  <2>7. CASE left # 1
    <3>1. rest > 0 /\ rest \in 1..len /\ len - rest = k + 1
      BY <1>7, <1>17, <2>7
    <3>2. r = c
      BY <1>19, <1>24, <2>2, <3>1
    <3>3. c.used = c.val + SumOf(s, len - rest)
      BY <1>11, <2>4, <3>1
    <3>4. Reading(c, rep)
      BY <1>1, <1>2, <1>4, <1>5, <1>19, <2>1, <2>2, <2>5, <3>1, <3>3 DEF Reading
    <3> QED
      BY <1>6, <1>17, <1>19, <2>2, <2>3, <3>2, <3>4 DEF Going
  <2> QED
    BY <2>6, <2>7
<1> QED
  BY <1>23, <1>25, <1>26
-----------------------------------------------------------------------------
(***************************************************************************)
(* The octet a decoder waits for.                                          *)
(***************************************************************************)

\* p octets of rep have been read: b of a number of two octets, or all but left
\* of a string.
Places(p, e, rep, b, i, len, en) ==
    /\ e.bsy <=> b = 1
    /\ e.stp = "FLD_INT" => p = b
    /\ e.stp = "NAM_LEN" => p = b + i
    /\ e.stp = "NAM_STR" => p = b + (en - e.left)
    /\ e.stp = "VAL_LEN" => p = b + en
    /\ e.stp = "VAL_STR" => p = b + (len - e.left)

\* Where a decoder stands.
LEMMA PlaceIs ==
    ASSUME NEW e \in Decoder, NEW rep, NEW i, NEW n, NEW nl, NEW v, NEW vl,
           NEW en, Parts(rep, i, n, nl, v, vl, en)
    PROVE  \E b \in {0, 1} :
              Places(Place(e, rep), e, rep, b, i, Len(Octets(rep)), en)
<1>1. PICK b \in {0, 1} : b = IF e.bsy THEN 1 ELSE 0
  OBVIOUS
<1>2. IntLen(rep.num) = i /\ NameEnd(rep) = en
  BY Zenon DEF Parts
<1>3. e.bsy \in BOOLEAN
  BY DecoderIs
<1>4. PICK len : len = Len(Octets(rep))
  OBVIOUS
<1>5. PICK p : p = Place(e, rep)
  OBVIOUS
<1>6. p = b + CASE e.stp = "FLD_INT" -> 0
                [] e.stp = "NAM_LEN" -> i
                [] e.stp = "NAM_STR" -> en - e.left
                [] e.stp = "VAL_LEN" -> en
                [] e.stp = "VAL_STR" -> len - e.left
  BY <1>1, <1>2, <1>4, <1>5, Zenon DEF Place
<1>7. Places(p, e, rep, b, i, len, en)
  BY <1>1, <1>3, <1>6 DEF Places
<1> QED
  BY <1>4, <1>5, <1>7

\* x is the octet e waits for, the one behind the first p of len.
Next1(x, p, len, e, rep, i, n, nl, v, vl, en, b) ==
    /\ p \in Nat /\ p < len /\ x \in Octet /\ x.rep = rep /\ x.stp = e.stp
    /\ e.stp = "FLD_INT" =>
          p = b /\ x.n = IF b + 1 < i THEN 1 ELSE 0
    /\ e.stp = "NAM_LEN" =>
          p = b + i /\ x.n = IF b + 1 < n THEN 1 ELSE 0
    /\ e.stp = "VAL_LEN" =>
          p = b + en /\ x.n = IF b + 1 < v THEN 1 ELSE 0
    /\ e.stp = "NAM_STR" =>
          p = en - e.left /\ b = 0 /\ x.n = rep.nput[nl - e.left + 1]
    /\ e.stp = "VAL_STR" =>
          p = len - e.left /\ b = 0 /\ x.n = rep.vput[vl - e.left + 1]

\* e stands there, and the octets of rep are o.
Posed(o, p, len, e, rep, i, n, nl, v, vl, en, b) ==
    /\ Shape(rep, i, n, nl, v, vl, en) /\ Places(p, e, rep, b, i, len, en)
    /\ i \in Nat /\ n \in Nat /\ nl \in Nat /\ v \in Nat /\ vl \in Nat /\ en \in Nat
    /\ o = Octets(rep) /\ len \in Nat /\ Len(o) = len /\ b \in {0, 1}

\* It is there, and it is meant for the step.
LEMMA NextIs ==
    ASSUME NEW e \in Decoder, NEW rep \in BlockRep,
           Idle(e) \/ Reading(e, rep),
           NEW i, NEW n, NEW nl, NEW v, NEW vl, NEW en, NEW o, NEW len, NEW p,
           NEW b, Posed(o, p, len, e, rep, i, n, nl, v, vl, en, b)
    PROVE  Next1(o[p + 1], p, len, e, rep, i, n, nl, v, vl, en, b)
<1>15. /\ Shape(rep, i, n, nl, v, vl, en) /\ Places(p, e, rep, b, i, len, en)
       /\ o = Octets(rep) /\ Len(o) = len
  BY Zenon DEF Posed
<1>16. /\ i \in Nat /\ n \in Nat /\ nl \in Nat /\ v \in Nat /\ vl \in Nat
       /\ en \in Nat /\ len \in Nat /\ b \in {0, 1}
  BY Zenon DEF Posed
<1> USE <1>16
<1>17. /\ Parts(rep, i, n, nl, v, vl, en)
       /\ i = 2 <=> rep.num >= IntMask
       /\ n = 2 <=> nl >= IntMask
       /\ v = 2 <=> vl >= IntMask
       /\ en = IF rep.num = 0 THEN i + n + nl ELSE i
  BY <1>15, Zenon DEF Shape
<1>0. i \in {1, 2} /\ n \in {1, 2} /\ v \in {1, 2}
  BY <1>15, Zenon DEF Shape
<1> USE <1>0
<1>1. LaidAs(rep, o, i, n, nl, v, vl, en)
  BY <1>15, <1>17, OctetsAre, Zenon
<1>2. /\ o \in Seq(Octet) /\ IntAt(o, 0, rep, "FLD_INT", i)
      /\ ~IsLiteral(rep) => len = i
      /\ IsLiteral(rep) =>
           /\ len = en + v + vl
           /\ StringAt(o, en, rep, "VAL_LEN", v, "VAL_STR", rep.vput, vl)
      /\ IsLiteral(rep) /\ rep.num = 0 =>
           StringAt(o, i, rep, "NAM_LEN", n, "NAM_STR", rep.nput, nl)
  BY <1>1, <1>15, Zenon DEF LaidAs
<1>3. \A j \in 1..i : o[0 + j] = Oct(rep, "FLD_INT", IF j < i THEN 1 ELSE 0)
  BY <1>2, Zenon DEF IntAt
<1>4. ASSUME IsLiteral(rep), rep.num = 0
      PROVE  /\ \A j \in 1..n : o[i + j] = Oct(rep, "NAM_LEN", IF j < n THEN 1 ELSE 0)
             /\ \A j \in 1..nl : o[i + n + j] = Oct(rep, "NAM_STR", rep.nput[j])
  BY <1>2, <1>4, Zenon DEF StringAt, IntAt
<1>5. ASSUME IsLiteral(rep)
      PROVE  /\ \A j \in 1..v : o[en + j] = Oct(rep, "VAL_LEN", IF j < v THEN 1 ELSE 0)
             /\ \A j \in 1..vl : o[en + v + j] = Oct(rep, "VAL_STR", rep.vput[j])
  BY <1>2, <1>5, Zenon DEF StringAt, IntAt
<1>6. /\ Len(rep.nput) = nl /\ Len(rep.vput) = vl
      /\ rep.nput \in Seq(Nat) /\ rep.vput \in Seq(Nat)
  BY <1>17, BlockRepType DEF Parts
<1>7. \A x \in 1..len : o[x] \in Octet
  BY <1>2, <1>15
<1>8. ASSUME NEW m, o[p + 1] = Oct(rep, e.stp, m), p \in Nat, p < len
      PROVE  /\ p \in Nat /\ p < len /\ o[p + 1] \in Octet
             /\ o[p + 1].rep = rep /\ o[p + 1].stp = e.stp /\ o[p + 1].n = m
  <2>1. p + 1 \in 1..len
    BY <1>8
  <2>2. /\ o[p + 1].rep = rep /\ o[p + 1].stp = e.stp /\ o[p + 1].n = m
    BY <1>8 DEF Oct
  <2> QED
    BY <1>7, <1>8, <2>1, <2>2
<1>9. e.left \in Nat /\ e.stp \in Steps
  BY DecoderIs
<1>10. CASE e.stp = "FLD_INT"
  <2>1. p = b /\ (b = 1 => i = 2)
    <3>1. p = b /\ (e.bsy <=> b = 1)
      BY <1>10, <1>15 DEF Places
    <3>2. e.bsy => rep.num >= IntMask
      BY <1>10 DEF Idle, Reading
    <3> QED
      BY <1>17, <3>1, <3>2
  <2>2. b + 1 \in 1..i /\ 0 + (b + 1) = p + 1
    BY <2>1
  <2>3. o[p + 1] = Oct(rep, "FLD_INT", IF b + 1 < i THEN 1 ELSE 0)
    BY <1>3, <2>2, Zenon
  <2>4. p \in Nat /\ p < len
    <3>1. len = i \/ len = en + v + vl
      BY <1>2
    <3>2. en >= i
      BY <1>17
    <3> QED
      BY <2>1, <2>2, <3>1, <3>2
  <2>5. /\ p \in Nat /\ p < len /\ o[p + 1] \in Octet
        /\ o[p + 1].rep = rep /\ o[p + 1].stp = e.stp
        /\ o[p + 1].n = IF b + 1 < i THEN 1 ELSE 0
    BY <1>8, <1>10, <2>3, <2>4, Zenon
  <2> QED
    BY <1>10, <2>1, <2>5, Zenon DEF Next1
<1>11. CASE e.stp = "NAM_LEN"
  <2>1. Reading(e, rep)
    BY <1>11 DEF Idle
  <2>2. IsLiteral(rep) /\ rep.num = 0 /\ (e.bsy => Len(rep.nput) >= IntMask)
    BY <1>11, <2>1 DEF Reading
  <2>3. p = b + i /\ (b = 1 => n = 2)
    <3>1. p = b + i /\ (e.bsy <=> b = 1)
      BY <1>11, <1>15 DEF Places
    <3> QED
      BY <1>6, <1>17, <2>2, <3>1
  <2>4. b + 1 \in 1..n /\ i + (b + 1) = p + 1
    BY <2>3
  <2>5. o[p + 1] = Oct(rep, "NAM_LEN", IF b + 1 < n THEN 1 ELSE 0)
    BY <1>4, <2>2, <2>4, Zenon
  <2>6. p \in Nat /\ p < len
    <3>1. len = en + v + vl /\ en = i + n + nl
      BY <1>2, <1>17, <2>2
    <3> QED
      BY <2>3, <2>4, <3>1
  <2>7. /\ p \in Nat /\ p < len /\ o[p + 1] \in Octet
        /\ o[p + 1].rep = rep /\ o[p + 1].stp = e.stp
        /\ o[p + 1].n = IF b + 1 < n THEN 1 ELSE 0
    BY <1>8, <1>11, <2>5, <2>6, Zenon
  <2> QED
    BY <1>11, <2>3, <2>7 DEF Next1
<1>12. CASE e.stp = "VAL_LEN"
  <2>1. Reading(e, rep)
    BY <1>12 DEF Idle
  <2>2. IsLiteral(rep) /\ (e.bsy => Len(rep.vput) >= IntMask)
    BY <1>12, <2>1 DEF Reading
  <2>3. p = b + en /\ (b = 1 => v = 2)
    <3>1. p = b + en /\ (e.bsy <=> b = 1)
      BY <1>12, <1>15 DEF Places
    <3> QED
      BY <1>6, <1>17, <2>2, <3>1
  <2>4. b + 1 \in 1..v /\ en + (b + 1) = p + 1
    BY <2>3
  <2>5. o[p + 1] = Oct(rep, "VAL_LEN", IF b + 1 < v THEN 1 ELSE 0)
    BY <1>5, <2>2, <2>4, Zenon
  <2>6. p \in Nat /\ p < len
    <3>1. len = en + v + vl
      BY <1>2, <2>2
    <3> QED
      BY <2>3, <2>4, <3>1
  <2>7. /\ p \in Nat /\ p < len /\ o[p + 1] \in Octet
        /\ o[p + 1].rep = rep /\ o[p + 1].stp = e.stp
        /\ o[p + 1].n = IF b + 1 < v THEN 1 ELSE 0
    BY <1>8, <1>12, <2>5, <2>6, Zenon
  <2> QED
    BY <1>12, <2>3, <2>7 DEF Next1
<1>13. CASE e.stp = "NAM_STR"
  <2>1. Reading(e, rep)
    BY <1>13 DEF Idle
  <2>2. IsLiteral(rep) /\ rep.num = 0 /\ ~e.bsy /\ e.left \in 1..Len(rep.nput)
    BY <1>13, <2>1 DEF Reading
  <2>3. PICK left \in 1..nl : left = e.left
    BY <1>6, <2>2
  <2>4. p = en - left /\ b = 0
    BY <1>13, <1>15, <2>2, <2>3, SMTT(60) DEF Places
  <2>5. en = i + n + nl
    BY <1>17, <2>2
  <2>6. nl - left + 1 \in 1..nl /\ i + n + (nl - left + 1) = p + 1
    BY <2>4, <2>5
  <2>7. o[p + 1] = Oct(rep, "NAM_STR", rep.nput[nl - left + 1])
    BY <1>4, <2>2, <2>6, Zenon
  <2>8. p \in Nat /\ p < len
    <3>1. len = en + v + vl
      BY <1>2, <2>2
    <3> QED
      BY <2>4, <2>5, <3>1
  <2>9. /\ p \in Nat /\ p < len /\ o[p + 1] \in Octet
        /\ o[p + 1].rep = rep /\ o[p + 1].stp = e.stp
        /\ o[p + 1].n = rep.nput[nl - left + 1]
    BY <1>8, <1>13, <2>7, <2>8, Zenon
  <2> QED
    BY <1>13, <2>3, <2>4, <2>9 DEF Next1
<1>14. CASE e.stp = "VAL_STR"
  <2>1. Reading(e, rep)
    BY <1>14 DEF Idle
  <2>2. IsLiteral(rep) /\ ~e.bsy /\ e.left \in 1..Len(rep.vput)
    BY <1>14, <2>1 DEF Reading
  <2>3. PICK left \in 1..vl : left = e.left
    BY <1>6, <2>2
  <2>4. p = len - left /\ b = 0
    BY <1>14, <1>15, <2>2, <2>3, SMTT(60) DEF Places
  <2>5. len = en + v + vl
    BY <1>2, <2>2
  <2>6. vl - left + 1 \in 1..vl /\ en + v + (vl - left + 1) = p + 1
    BY <2>4, <2>5
  <2>7. o[p + 1] = Oct(rep, "VAL_STR", rep.vput[vl - left + 1])
    BY <1>5, <2>2, <2>6, Zenon
  <2>8. p \in Nat /\ p < len
    BY <2>4, <2>5
  <2>9. /\ p \in Nat /\ p < len /\ o[p + 1] \in Octet
        /\ o[p + 1].rep = rep /\ o[p + 1].stp = e.stp
        /\ o[p + 1].n = rep.vput[vl - left + 1]
    BY <1>8, <1>14, <2>7, <2>8, Zenon
  <2> QED
    BY <1>14, <2>3, <2>4, <2>9 DEF Next1
<1> QED
  BY <1>9, <1>10, <1>11, <1>12, <1>13, <1>14 DEF Steps

\* The parts of rep, numbers all of them.
Sized(rep, i, n, nl, v, vl, en) ==
    /\ Shape(rep, i, n, nl, v, vl, en)
    /\ i \in Nat /\ n \in Nat /\ nl \in Nat /\ v \in Nat /\ vl \in Nat /\ en \in Nat

\* How long rep is, and its parts.
Layout(rep, i, n, nl, v, vl, en, len) ==
    /\ Shape(rep, i, n, nl, v, vl, en)
    /\ i \in Nat /\ n \in Nat /\ nl \in Nat /\ v \in Nat /\ vl \in Nat /\ en \in Nat
    /\ len \in Nat /\ Len(Octets(rep)) = len
    /\ ~IsLiteral(rep) => len = i
    /\ IsLiteral(rep) => len = en + v + vl

\* All that there is to know about it.
Survey(e, rep, i, n, nl, v, vl, en, p, len, b) ==
    /\ Layout(rep, i, n, nl, v, vl, en, len)
    /\ p \in Nat /\ b \in {0, 1} /\ Place(e, rep) = p /\ (e.bsy <=> b = 1)
    /\ Next1(Octets(rep)[p + 1], p, len, e, rep, i, n, nl, v, vl, en, b)

\* It can be known of every decoder that reads a representation.
LEMMA Surveyed ==
    ASSUME NEW e \in Decoder, NEW rep \in BlockRep, Idle(e) \/ Reading(e, rep),
           NEW i, NEW n, NEW nl, NEW v, NEW vl, NEW en,
           Sized(rep, i, n, nl, v, vl, en)
    PROVE  \E p, len \in Nat, b \in {0, 1} :
              Survey(e, rep, i, n, nl, v, vl, en, p, len, b)
<1>0. /\ Shape(rep, i, n, nl, v, vl, en)
      /\ i \in Nat /\ n \in Nat /\ nl \in Nat /\ v \in Nat /\ vl \in Nat /\ en \in Nat
  BY Zenon DEF Sized
<1>1. Parts(rep, i, n, nl, v, vl, en)
  BY <1>0, Zenon DEF Shape
<1>2. PICK o : o = Octets(rep)
  OBVIOUS
<1>3. PICK len \in Nat : Len(o) = len
  BY <1>2, OctetsType
<1>4. PICK p : p = Place(e, rep)
  OBVIOUS
<1>5. PICK b \in {0, 1} : Places(p, e, rep, b, i, len, en)
  BY <1>1, <1>2, <1>3, <1>4, PlaceIs, Zenon
<1>6. Next1(o[p + 1], p, len, e, rep, i, n, nl, v, vl, en, b)
  <2>1. Posed(o, p, len, e, rep, i, n, nl, v, vl, en, b)
    BY <1>0, <1>2, <1>3, <1>5, Zenon DEF Posed
  <2> QED
    BY <2>1, NextIs, Zenon
<1>7. LaidAs(rep, o, i, n, nl, v, vl, en)
  BY <1>0, <1>1, <1>2, OctetsAre, Zenon
<1>8. /\ ~IsLiteral(rep) => len = i
      /\ IsLiteral(rep) => len = en + v + vl
  BY <1>3, <1>7, Zenon DEF LaidAs
<1>9. p \in Nat
  BY <1>6, Zenon DEF Next1
<1>10. Survey(e, rep, i, n, nl, v, vl, en, p, len, b)
  <2>1. Next1(Octets(rep)[p + 1], p, len, e, rep, i, n, nl, v, vl, en, b)
    BY <1>2, <1>6
  <2>2. Len(Octets(rep)) = len /\ Place(e, rep) = p
    BY <1>2, <1>3, <1>4
  <2>3. e.bsy <=> b = 1
    BY <1>5 DEF Places
  <2>4. Layout(rep, i, n, nl, v, vl, en, len)
    BY <1>0, <1>8, <2>2, Zenon DEF Layout
  <2> QED
    BY <1>5, <1>9, <2>1, <2>2, <2>3, <2>4, Zenon DEF Survey
<1>11. PICK q \in Nat : q = p
  BY <1>9
<1>12. Survey(e, rep, i, n, nl, v, vl, en, q, len, b)
  BY <1>10, <1>11
<1> QED
  BY <1>12, Zenon

\* What becomes of e: at octets of rep have been read.
Onward(r, e, rep, w, cut, at) ==
    \/ Stopped(r, e, w)
    \/ Finished(r, e, w, cut) /\ at = Len(Octets(rep))
    \/ Going(r, e, rep, w, cut) /\ Place(r, rep) = at

\* The place of r.
Behind(at, r, i, en, len) ==
    \A b \in {0, 1} : (r.bsy <=> b = 1) =>
       at = b + CASE r.stp = "FLD_INT" -> 0
                  [] r.stp = "NAM_LEN" -> i
                  [] r.stp = "NAM_STR" -> en - r.left
                  [] r.stp = "VAL_LEN" -> en
                  [] r.stp = "VAL_STR" -> len - r.left

\* Where it goes on.
LEMMA GoesTo ==
    ASSUME NEW r, NEW e, NEW rep, NEW w, NEW cut, Going(r, e, rep, w, cut),
           NEW i, NEW n, NEW nl, NEW v, NEW vl, NEW en,
           Parts(rep, i, n, nl, v, vl, en),
           NEW len, Len(Octets(rep)) = len, NEW at, Behind(at, r, i, en, len)
    PROVE  Onward(r, e, rep, w, cut, at)
<1>1. r \in Decoder
  BY LiveIs DEF Going, Opened
<1>2. PICK b \in {0, 1} : b = IF r.bsy THEN 1 ELSE 0
  OBVIOUS
<1>3. r.bsy \in BOOLEAN
  BY <1>1, DecoderIs
<1>4. r.bsy <=> b = 1
  BY <1>2, <1>3
<1>5. IntLen(rep.num) = i /\ NameEnd(rep) = en
  BY Zenon DEF Parts
<1>6. Place(r, rep) = b + CASE r.stp = "FLD_INT" -> 0
                            [] r.stp = "NAM_LEN" -> i
                            [] r.stp = "NAM_STR" -> en - r.left
                            [] r.stp = "VAL_LEN" -> en
                            [] r.stp = "VAL_STR" -> len - r.left
  BY <1>2, <1>5, Zenon DEF Place
<1>7. Place(r, rep) = at
  BY <1>4, <1>6, Zenon DEF Behind
<1> QED
  BY <1>7 DEF Onward

\* A number that another octet follows.
LEMMA MoreOctets ==
    ASSUME NEW e, NEW rep, NEW w, NEW cut, Opened(e, rep, w, cut), ~e.bsy,
           \/ e.stp = "FLD_INT" /\ Idle(e) /\ rep.num >= IntMask
           \/ /\ e.stp = "NAM_LEN" /\ Reading(e, rep)
              /\ Len(rep.nput) >= IntMask
           \/ /\ e.stp = "VAL_LEN" /\ Reading(e, rep)
              /\ Len(rep.vput) >= IntMask,
           NEW r, r = [e EXCEPT !.bsy = TRUE]
    PROVE  Going(r, e, rep, w, cut) /\ r.stp = e.stp /\ r.bsy
<1>1. /\ Live(e) /\ e \in Decoder /\ e.ret = "OK" /\ e.typ = rep.typ
      /\ Admitted(e.hp, rep)
  BY LiveIs DEF Opened
<1>2. r \in Decoder
  BY <1>1 DEF Decoder
<1>3. /\ r.hp = e.hp /\ r.ret = "OK" /\ r.used = e.used /\ r.flds = e.flds
      /\ r.big = e.big /\ r.heard = e.heard /\ r.nam = e.nam
      /\ r.typ = e.typ /\ r.bsy = TRUE /\ r.val = e.val /\ r.stp = e.stp
      /\ r.namsz = e.namsz /\ r.name = e.name /\ r.left = e.left
  BY <1>1 DEF Decoder
<1>4. Opened(r, rep, w, cut)
  BY <1>1, <1>2, <1>3, LiveSame
<1>5. CASE e.stp = "FLD_INT" /\ Idle(e) /\ rep.num >= IntMask
  <2>1. e.nam = -1 /\ e.val = -1
    BY <1>5 DEF Idle
  <2>2. Reading(r, rep)
    BY <1>1, <1>3, <1>5, <2>1 DEF Reading
  <2> QED
    BY <1>3, <1>4, <2>2 DEF Going
<1>6. CASE e.stp = "NAM_LEN" /\ Reading(e, rep) /\ Len(rep.nput) >= IntMask
  <2>1. /\ IsLiteral(rep) /\ e.nam >= 0 /\ rep.num = 0 /\ e.val = -1
        /\ e.used = e.nam
    BY <1>6 DEF Reading
  <2>2. Reading(r, rep)
    BY <1>1, <1>3, <1>6, <2>1 DEF Reading
  <2> QED
    BY <1>3, <1>4, <2>2 DEF Going
<1>7. CASE e.stp = "VAL_LEN" /\ Reading(e, rep) /\ Len(rep.vput) >= IntMask
  <2>1. IsLiteral(rep) /\ e.nam >= 0 /\ Named(e, rep) /\ e.used = e.val
    BY <1>7 DEF Reading
  <2>2. Named(r, rep)
    BY <1>3, <2>1, Zenon DEF Named
  <2>3. Reading(r, rep)
    BY <1>1, <1>3, <1>7, <2>1, <2>2 DEF Reading
  <2> QED
    BY <1>3, <1>4, <2>3 DEF Going
<1> QED
  BY <1>5, <1>6, <1>7

\* e behind, a decoder that has read all of the index or size.
LEMMA IntEnds ==
    ASSUME NEW e, NEW h, h.heard = e.heard, NEW rep \in BlockRep, NEW w,
           NEW cut \in BOOLEAN, Opened(h, rep, w, cut), Idle(h),
           NEW i, NEW n, NEW nl, NEW v, NEW vl, NEW en, NEW len,
           Layout(rep, i, n, nl, v, vl, en, len)
    PROVE  Onward(IntDone(h, rep.num), e, rep, w, cut, i)
<1> DEFINE r == IntDone(h, rep.num)
<1>1. /\ Parts(rep, i, n, nl, v, vl, en) /\ (rep.num # 0 => en = i)
      /\ i \in Nat /\ len \in Nat /\ en \in Nat /\ Len(Octets(rep)) = len
      /\ ~IsLiteral(rep) => len = i
  BY DEF Shape, Layout
<1>2. \/ Stopped(r, h, w)
      \/ ~IsLiteral(rep) /\ Finished(r, h, w, cut)
      \/ IsLiteral(rep) /\ rep.num = 0 /\ Unread(r, h, rep, w, cut)
      \/ IsLiteral(rep) /\ rep.num # 0 /\ Valued(r, h, rep, w, cut)
  BY IntDoneIs, Zenon
<1> HIDE DEF r
<1>3. CASE Stopped(r, h, w)
  BY <1>3, SameHeard, Zenon DEF Onward, r
<1>4. CASE ~IsLiteral(rep) /\ Finished(r, h, w, cut)
  <2>1. Finished(r, e, w, cut)
    BY <1>4, SameHeard, Zenon
  <2> QED
    BY <1>1, <1>4, <2>1, Zenon DEF Onward, r
<1>5. CASE IsLiteral(rep) /\ rep.num = 0 /\ Unread(r, h, rep, w, cut)
  <2>1. Going(r, h, rep, w, cut) /\ r.stp = "NAM_LEN" /\ ~r.bsy
    BY <1>5, GoingOn, Zenon
  <2>2. Going(r, e, rep, w, cut)
    BY <2>1 DEF Going
  <2>3. Behind(i, r, i, en, len)
    BY <1>1, <2>1 DEF Behind
  <2>4. Onward(r, e, rep, w, cut, i)
    BY <1>1, <2>2, <2>3, GoesTo, Zenon
  <2> QED
    BY <2>4 DEF r
<1>6. CASE IsLiteral(rep) /\ rep.num # 0 /\ Valued(r, h, rep, w, cut)
  <2>1. Going(r, h, rep, w, cut) /\ r.stp = "VAL_LEN" /\ ~r.bsy
    BY <1>6, GoingOn, Zenon
  <2>2. Going(r, e, rep, w, cut)
    BY <2>1 DEF Going
  <2>3. Behind(i, r, i, en, len)
    BY <1>1, <1>6, <2>1 DEF Behind
  <2>4. Onward(r, e, rep, w, cut, i)
    BY <1>1, <2>2, <2>3, GoesTo, Zenon
  <2> QED
    BY <2>4 DEF r
<1> QED
  BY <1>2, <1>3, <1>4, <1>5, <1>6, Zenon

\* An octet of an index or size.
LEMMA ReadInt ==
    ASSUME NEW e, Live(e), NEW rep \in BlockRep, NEW cut \in BOOLEAN,
           NEW w, w = WholeRep(At(e.hp, "BLK"), rep, cut),
           Idle(e) \/ Reading(e, rep), e.stp = "FLD_INT",
           NEW i, NEW n, NEW nl, NEW v, NEW vl, NEW en, NEW p, NEW len, NEW b,
           Survey(e, rep, i, n, nl, v, vl, en, p, len, b),
           NEW x, x = Octets(rep)[p + 1]
    PROVE  Onward(DecodeOctet(e, x), e, rep, w, cut, p + 1)
<1> DEFINE r == DecodeOctet(e, x)
<1>1. /\ Layout(rep, i, n, nl, v, vl, en, len)
      /\ e.bsy <=> b = 1
      /\ p \in Nat /\ b \in {0, 1}
      /\ Next1(x, p, len, e, rep, i, n, nl, v, vl, en, b)
  BY Zenon DEF Survey
<1>2. x.rep = rep /\ p = b /\ x.n = IF b + 1 < i THEN 1 ELSE 0
  BY <1>1, Zenon DEF Next1
<1>3. /\ i \in {1, 2} /\ (i = 2 <=> rep.num >= IntMask)
      /\ Parts(rep, i, n, nl, v, vl, en) /\ Len(Octets(rep)) = len
      /\ len \in Nat /\ en \in Nat
  BY <1>1, Zenon DEF Shape, Layout
<1>4. e \in Decoder /\ e.ret = "OK" /\ e.bsy \in BOOLEAN
  BY LiveIs, DecoderIs
<1>5. r = RepOctet(e, x)
  BY <1>4, Zenon DEF DecodeOctet
<1>6. CASE ~e.bsy
  <2>1. Idle(e) /\ b = 0
    BY <1>1, <1>6 DEF Reading
  <2>2. PICK h : h = BeginRep(e, rep)
    OBVIOUS
  <2>3. Stopped(h, e, w) \/ Entered(h, e, rep, w, cut)
    BY <2>1, <2>2, RepBegins, Zenon
  <2>4. r = IF h.ret # "OK" THEN h ELSE IntOctet(h, x)
    BY <1>2, <1>5, <1>6, <2>2, Zenon DEF RepOctet
  <2>5. CASE Stopped(h, e, w)
    <3>1. h.ret # "OK"
      <4>1. Wrong(w) \/ Long(w) \/ h.ret = "BIG"
        BY <2>5, Zenon DEF Stopped
      <4>2. h.ret # "BIG" => h.ret = w.ret /\ Wrong(w)
        BY <2>5, Zenon DEF Stopped
      <4> QED
        BY <4>2, Zenon DEF Wrong
    <3>2. r = h
      BY <2>4, <3>1, Zenon
    <3> QED
      BY <2>5, <3>2 DEF Onward
  <2>6. CASE Entered(h, e, rep, w, cut)
    <3>1. Opened(h, rep, w, cut) /\ Idle(h) /\ h.heard = e.heard
      BY <2>6 DEF Entered
    <3>2. h \in Decoder /\ h.ret = "OK" /\ h.bsy = FALSE /\ h.stp = "FLD_INT"
      <4>1. Live(h)
        BY <3>1, Zenon DEF Opened
      <4>2. h \in Decoder /\ h.ret = "OK"
        BY <4>1, LiveIs, Zenon
      <4>3. h.bsy \in BOOLEAN
        BY <4>2, DecoderIs
      <4> QED
        BY <3>1, <4>2, <4>3 DEF Idle
    <3>3. r = IntOctet(h, x)
      BY <2>4, <3>2, Zenon
    <3>4. CASE i = 2
      <4>1. x.n = 1 /\ p + 1 = 1
        BY <1>2, <2>1, <3>4
      <4>2. r = [h EXCEPT !.bsy = TRUE]
        BY <3>3, <4>1, Zenon DEF IntOctet
      <4>3. Going(r, h, rep, w, cut) /\ r.stp = "FLD_INT" /\ r.bsy
        BY <1>3, <3>1, <3>2, <3>4, <4>2, MoreOctets
      <4>4. Going(r, e, rep, w, cut)
        BY <3>1, <4>3 DEF Going
      <4>5. Behind(1, r, i, en, len)
        BY <1>3, <4>3 DEF Behind
      <4>6. Onward(r, e, rep, w, cut, 1)
        BY <1>1, <1>3, <4>4, <4>5, GoesTo, Zenon
      <4> QED
        BY <4>1, <4>6
    <3>5. CASE i = 1
      <4>1. x.n = 0 /\ p + 1 = i
        BY <1>2, <2>1, <3>5
      <4>2. h = [h EXCEPT !.bsy = FALSE]
        BY <3>2 DEF Decoder
      <4>3. r = IntDone(h, rep.num)
        <5>1. r = IntDone([h EXCEPT !.bsy = FALSE], x.rep.num)
          BY <3>3, <4>1 DEF IntOctet
        <5> QED
          BY <1>2, <4>2, <5>1, Zenon
      <4>4. Onward(IntDone(h, rep.num), e, rep, w, cut, i)
        BY <1>1, <3>1, IntEnds, Zenon
      <4> QED
        BY <4>1, <4>3, <4>4
    <3> QED
      BY <1>3, <3>4, <3>5
  <2> QED
    BY <2>3, <2>5, <2>6
<1>7. CASE e.bsy
  <2>1. Reading(e, rep) /\ b = 1
    BY <1>1, <1>7 DEF Idle
  <2>2. /\ e.typ = rep.typ /\ Admitted(e.hp, rep) /\ rep.num >= IntMask
        /\ e.nam = -1 /\ e.val = -1
    BY <2>1 DEF Reading
  <2>3. PICK h : h = [e EXCEPT !.bsy = FALSE]
    OBVIOUS
  <2>4. h \in Decoder
    BY <1>4, <2>3 DEF Decoder
  <2>5. /\ h.hp = e.hp /\ h.ret = "OK" /\ h.used = e.used /\ h.flds = e.flds
        /\ h.big = e.big /\ h.heard = e.heard /\ h.nam = e.nam /\ h.val = e.val
        /\ h.typ = e.typ /\ h.stp = e.stp /\ h.bsy = FALSE
    BY <1>4, <2>3 DEF Decoder
  <2>6. Opened(e, rep, w, cut)
    BY <2>2 DEF Opened
  <2>7. Opened(h, rep, w, cut)
    BY <2>4, <2>5, <2>6, LiveSame
  <2>8. Idle(h)
    BY <2>2, <2>5 DEF Idle
  <2>9. i = 2
    BY <1>3, <2>2
  <2>10. x.n = 0 /\ p + 1 = i
    BY <1>2, <2>1, <2>9
  <2>11. r = IntDone(h, rep.num)
    <3>1. r = IntOctet(e, x)
      BY <1>2, <1>4, <1>5, <1>7, Zenon DEF RepOctet
    <3> QED
      <4>1. r = IntDone([e EXCEPT !.bsy = FALSE], x.rep.num)
        BY <2>10, <3>1 DEF IntOctet
      <4> QED
        BY <1>2, <2>3, <4>1, Zenon
  <2>12. Onward(IntDone(h, rep.num), e, rep, w, cut, i)
    BY <1>1, <2>5, <2>7, <2>8, IntEnds, Zenon
  <2> QED
    BY <2>10, <2>11, <2>12
<1> QED
  BY <1>6, <1>7

\* An octet of the length of a name.
LEMMA ReadNameLength ==
    ASSUME NEW e, NEW rep \in BlockRep, NEW cut \in BOOLEAN, NEW w,
           Opened(e, rep, w, cut), Reading(e, rep), e.stp = "NAM_LEN",
           NEW i, NEW n, NEW nl, NEW v, NEW vl, NEW en, NEW p, NEW len, NEW b,
           Survey(e, rep, i, n, nl, v, vl, en, p, len, b),
           NEW x, x = Octets(rep)[p + 1]
    PROVE  Onward(DecodeOctet(e, x), e, rep, w, cut, p + 1)
<1> DEFINE r == DecodeOctet(e, x)
<1>1. /\ Layout(rep, i, n, nl, v, vl, en, len)
      /\ e.bsy <=> b = 1
      /\ p \in Nat /\ b \in {0, 1}
      /\ Next1(x, p, len, e, rep, i, n, nl, v, vl, en, b)
  BY Zenon DEF Survey
<1>2. x.rep = rep /\ p = b + i /\ x.n = IF b + 1 < n THEN 1 ELSE 0
  BY <1>1, Zenon DEF Next1
<1>3. /\ Shape(rep, i, n, nl, v, vl, en) /\ Len(Octets(rep)) = len
      /\ i \in Nat /\ n \in Nat /\ nl \in Nat /\ v \in Nat /\ vl \in Nat
      /\ en \in Nat /\ len \in Nat
      /\ IsLiteral(rep) => len = en + v + vl
  BY <1>1, Zenon DEF Layout
<1>4. /\ n \in {1, 2} /\ (n = 2 <=> nl >= IntMask)
      /\ Parts(rep, i, n, nl, v, vl, en) /\ (rep.num = 0 => en = i + n + nl)
  BY <1>3 DEF Shape
<1>5. Len(rep.nput) = nl /\ Len(rep.vput) = vl
  BY <1>4, Zenon DEF Parts
<1>6. e \in Decoder /\ e.ret = "OK" /\ e.bsy \in BOOLEAN /\ IsLiteral(rep)
  <2>1. Live(e) /\ e.stp # "FLD_INT"
    BY DEF Opened
  <2> QED
    BY <2>1, LiveIs, DecoderIs DEF Reading
<1>7. r = LengthOctet(e, x)
  BY <1>6 DEF DecodeOctet
<1>8. CASE b + 1 < n
  <2>1. b = 0 /\ x.n = 1 /\ nl >= IntMask /\ p + 1 = 1 + i
    BY <1>1, <1>2, <1>3, <1>4, <1>8
  <2>2. ~e.bsy
    BY <1>1, <2>1
  <2>3. r = [e EXCEPT !.bsy = TRUE]
    BY <1>7, <2>1, Zenon DEF LengthOctet
  <2>4. Going(r, e, rep, w, cut) /\ r.stp = "NAM_LEN" /\ r.bsy
    BY <1>5, <2>1, <2>2, <2>3, MoreOctets
  <2>5. Behind(1 + i, r, i, en, len)
    BY <1>3, <2>4 DEF Behind
  <2>6. Onward(r, e, rep, w, cut, 1 + i)
    BY <1>3, <1>4, <2>4, <2>5, GoesTo, Zenon
  <2> QED
    BY <2>1, <2>6
<1>9. CASE ~(b + 1 < n)
  <2>1. x.n = 0
    BY <1>2, <1>9
  <2>2. b + 1 = n
    <3>1. e.bsy => nl >= IntMask
      BY <1>5 DEF Reading
    <3> QED
      BY <1>1, <1>4, <1>9, <3>1
  <2>3. r = BeginString(e, rep)
    BY <1>2, <1>7, <2>1 DEF LengthOctet
  <2>4. \/ Stopped(r, e, w)
        \/ /\ Going(r, e, rep, w, cut) /\ r.stp = "NAM_STR" /\ ~r.bsy
           /\ r.left = Len(rep.nput)
    BY <2>3, NameLength, SMTT(60)
  <2>5. CASE Stopped(r, e, w)
    BY <2>5 DEF Onward
  <2>6. CASE /\ Going(r, e, rep, w, cut) /\ r.stp = "NAM_STR" /\ ~r.bsy
             /\ r.left = Len(rep.nput)
    <3>1. rep.num = 0
      BY DEF Reading
    <3>2. p + 1 = en - nl
      BY <1>2, <1>3, <1>4, <2>2, <3>1, <1>1
    <3>3. Behind(en - nl, r, i, en, len)
      BY <1>3, <1>5, <2>6 DEF Behind
    <3>4. Onward(r, e, rep, w, cut, en - nl)
      BY <1>3, <1>4, <2>6, <3>3, GoesTo, Zenon
    <3> QED
      BY <3>2, <3>4
  <2> QED
    BY <2>4, <2>5, <2>6, Zenon
<1> QED
  BY <1>8, <1>9

\* An octet of the length of a value.
LEMMA ReadValueLength ==
    ASSUME NEW e, NEW rep \in BlockRep, NEW cut \in BOOLEAN, NEW w,
           Opened(e, rep, w, cut), Reading(e, rep), e.stp = "VAL_LEN",
           NEW i, NEW n, NEW nl, NEW v, NEW vl, NEW en, NEW p, NEW len, NEW b,
           Survey(e, rep, i, n, nl, v, vl, en, p, len, b),
           NEW x, x = Octets(rep)[p + 1]
    PROVE  Onward(DecodeOctet(e, x), e, rep, w, cut, p + 1)
<1> DEFINE r == DecodeOctet(e, x)
<1>1. /\ Layout(rep, i, n, nl, v, vl, en, len)
      /\ e.bsy <=> b = 1
      /\ p \in Nat /\ b \in {0, 1}
      /\ Next1(x, p, len, e, rep, i, n, nl, v, vl, en, b)
  BY Zenon DEF Survey
<1>2. x.rep = rep /\ p = b + en /\ x.n = IF b + 1 < v THEN 1 ELSE 0
  BY <1>1, Zenon DEF Next1
<1>3. /\ Shape(rep, i, n, nl, v, vl, en) /\ Len(Octets(rep)) = len
      /\ i \in Nat /\ n \in Nat /\ nl \in Nat /\ v \in Nat /\ vl \in Nat
      /\ en \in Nat /\ len \in Nat
      /\ IsLiteral(rep) => len = en + v + vl
  BY <1>1, Zenon DEF Layout
<1>4. /\ v \in {1, 2} /\ (v = 2 <=> vl >= IntMask)
      /\ Parts(rep, i, n, nl, v, vl, en) /\ (rep.num = 0 => en = i + n + nl)
  BY <1>3 DEF Shape
<1>5. Len(rep.nput) = nl /\ Len(rep.vput) = vl
  BY <1>4, Zenon DEF Parts
<1>6. e \in Decoder /\ e.ret = "OK" /\ e.bsy \in BOOLEAN /\ IsLiteral(rep)
  <2>1. Live(e) /\ e.stp # "FLD_INT"
    BY DEF Opened
  <2> QED
    BY <2>1, LiveIs, DecoderIs DEF Reading
<1>7. r = LengthOctet(e, x)
  BY <1>6 DEF DecodeOctet
<1>8. CASE b + 1 < v
  <2>1. b = 0 /\ x.n = 1 /\ vl >= IntMask /\ p + 1 = 1 + en
    BY <1>1, <1>2, <1>3, <1>4, <1>8
  <2>2. ~e.bsy
    BY <1>1, <2>1
  <2>3. r = [e EXCEPT !.bsy = TRUE]
    BY <1>7, <2>1, Zenon DEF LengthOctet
  <2>4. Going(r, e, rep, w, cut) /\ r.stp = "VAL_LEN" /\ r.bsy
    BY <1>5, <2>1, <2>2, <2>3, MoreOctets
  <2>5. Behind(1 + en, r, i, en, len)
    BY <1>3, <2>4 DEF Behind
  <2>6. Onward(r, e, rep, w, cut, 1 + en)
    BY <1>3, <1>4, <2>4, <2>5, GoesTo, Zenon
  <2> QED
    BY <2>1, <2>6
<1>9. CASE ~(b + 1 < v)
  <2>1. x.n = 0
    BY <1>2, <1>9
  <2>2. b + 1 = v
    <3>1. e.bsy => vl >= IntMask
      BY <1>5 DEF Reading
    <3> QED
      BY <1>1, <1>4, <1>9, <3>1
  <2>3. r = BeginString(e, rep)
    BY <1>2, <1>7, <2>1 DEF LengthOctet
  <2>4. \/ Stopped(r, e, w)
        \/ Len(rep.vput) = 0 /\ Finished(r, e, w, cut)
        \/ /\ Going(r, e, rep, w, cut) /\ r.stp = "VAL_STR" /\ ~r.bsy
           /\ r.left = Len(rep.vput)
    BY <2>3, ValueLength, SMTT(60)
  <2>5. CASE Stopped(r, e, w)
    BY <2>5 DEF Onward
  <2>6. CASE Len(rep.vput) = 0 /\ Finished(r, e, w, cut)
    <3>1. p + 1 = len
      BY <1>1, <1>2, <1>3, <1>5, <1>6, <2>2, <2>6
    <3> QED
      BY <1>3, <2>6, <3>1, Zenon DEF Onward
  <2>7. CASE /\ Going(r, e, rep, w, cut) /\ r.stp = "VAL_STR" /\ ~r.bsy
             /\ r.left = Len(rep.vput)
    <3>1. p + 1 = len - vl
      BY <1>1, <1>2, <1>3, <1>6, <2>2
    <3>2. Behind(len - vl, r, i, en, len)
      BY <1>3, <1>5, <2>7 DEF Behind
    <3>3. Onward(r, e, rep, w, cut, len - vl)
      BY <1>3, <1>4, <2>7, <3>2, GoesTo, Zenon
    <3> QED
      BY <3>1, <3>3
  <2> QED
    BY <2>4, <2>5, <2>6, <2>7, Zenon
<1> QED
  BY <1>8, <1>9

\* An octet of a name.
LEMMA ReadName ==
    ASSUME NEW e, NEW rep \in BlockRep, NEW cut \in BOOLEAN, NEW w,
           Opened(e, rep, w, cut), Reading(e, rep), e.stp = "NAM_STR",
           NEW i, NEW n, NEW nl, NEW v, NEW vl, NEW en, NEW p, NEW len, NEW b,
           Survey(e, rep, i, n, nl, v, vl, en, p, len, b),
           NEW x, x = Octets(rep)[p + 1]
    PROVE  Onward(DecodeOctet(e, x), e, rep, w, cut, p + 1)
<1> DEFINE r == DecodeOctet(e, x)
<1>1. /\ Layout(rep, i, n, nl, v, vl, en, len)
      /\ p \in Nat
      /\ Next1(x, p, len, e, rep, i, n, nl, v, vl, en, b)
  BY Zenon DEF Survey
<1>2. x.rep = rep /\ p = en - e.left /\ x.n = rep.nput[nl - e.left + 1]
  BY <1>1, Zenon DEF Next1
<1>3. /\ Shape(rep, i, n, nl, v, vl, en) /\ Len(Octets(rep)) = len
      /\ i \in Nat /\ en \in Nat /\ len \in Nat
  BY <1>1, Zenon DEF Layout
<1>4. Parts(rep, i, n, nl, v, vl, en)
  BY <1>3 DEF Shape
<1>5. Len(rep.nput) = nl
  BY <1>4, Zenon DEF Parts
<1>6. e \in Decoder /\ e.ret = "OK" /\ IsLiteral(rep) /\ e.left \in Nat
  <2>1. Live(e) /\ e.stp # "FLD_INT"
    BY DEF Opened
  <2> QED
    BY <2>1, LiveIs, DecoderIs DEF Reading
<1>7. r = StringOctet(e, x)
  BY <1>6 DEF DecodeOctet
<1>8. \/ Stopped(r, e, w)
      \/ e.left = 1 /\ Valued(r, e, rep, w, cut)
      \/ /\ Going(r, e, rep, w, cut) /\ r.stp = "NAM_STR" /\ ~r.bsy
         /\ r.left = e.left - 1
  BY <1>2, <1>5, <1>7, NameOctet
<1>9. CASE Stopped(r, e, w)
  BY <1>9 DEF Onward
<1>10. CASE e.left = 1 /\ Valued(r, e, rep, w, cut)
  <2>1. Going(r, e, rep, w, cut) /\ r.stp = "VAL_LEN" /\ ~r.bsy
    BY <1>6, <1>10, GoingOn, Zenon
  <2>2. p + 1 = en
    BY <1>2, <1>3, <1>10
  <2>3. Behind(en, r, i, en, len)
    BY <1>3, <2>1 DEF Behind
  <2>4. Onward(r, e, rep, w, cut, en)
    BY <1>3, <1>4, <2>1, <2>3, GoesTo, Zenon
  <2> QED
    BY <2>2, <2>4
<1>11. CASE /\ Going(r, e, rep, w, cut) /\ r.stp = "NAM_STR" /\ ~r.bsy
            /\ r.left = e.left - 1
  <2>1. Behind(p + 1, r, i, en, len)
    BY <1>1, <1>2, <1>3, <1>6, <1>11 DEF Behind
  <2> QED
    BY <1>3, <1>4, <1>11, <2>1, GoesTo, Zenon
<1> QED
  BY <1>8, <1>9, <1>10, <1>11, Zenon

\* An octet of a value.
LEMMA ReadValue ==
    ASSUME NEW e, NEW rep \in BlockRep, NEW cut \in BOOLEAN, NEW w,
           Opened(e, rep, w, cut), Reading(e, rep), e.stp = "VAL_STR",
           NEW i, NEW n, NEW nl, NEW v, NEW vl, NEW en, NEW p, NEW len, NEW b,
           Survey(e, rep, i, n, nl, v, vl, en, p, len, b),
           NEW x, x = Octets(rep)[p + 1]
    PROVE  Onward(DecodeOctet(e, x), e, rep, w, cut, p + 1)
<1> DEFINE r == DecodeOctet(e, x)
<1>1. /\ Layout(rep, i, n, nl, v, vl, en, len)
      /\ p \in Nat
      /\ Next1(x, p, len, e, rep, i, n, nl, v, vl, en, b)
  BY Zenon DEF Survey
<1>2. x.rep = rep /\ p = len - e.left /\ x.n = rep.vput[vl - e.left + 1]
  BY <1>1, Zenon DEF Next1
<1>3. /\ Shape(rep, i, n, nl, v, vl, en) /\ Len(Octets(rep)) = len
      /\ i \in Nat /\ en \in Nat /\ len \in Nat
  BY <1>1, Zenon DEF Layout
<1>4. Parts(rep, i, n, nl, v, vl, en)
  BY <1>3 DEF Shape
<1>5. Len(rep.vput) = vl
  BY <1>4, Zenon DEF Parts
<1>6. e \in Decoder /\ e.ret = "OK" /\ IsLiteral(rep) /\ e.left \in Nat
  <2>1. Live(e) /\ e.stp # "FLD_INT"
    BY DEF Opened
  <2> QED
    BY <2>1, LiveIs, DecoderIs DEF Reading
<1>7. r = StringOctet(e, x)
  BY <1>6 DEF DecodeOctet
<1>8. \/ Stopped(r, e, w)
      \/ e.left = 1 /\ Finished(r, e, w, cut)
      \/ /\ Going(r, e, rep, w, cut) /\ r.stp = "VAL_STR" /\ ~r.bsy
         /\ r.left = e.left - 1
  BY <1>2, <1>5, <1>7, ValueOctet
<1>9. CASE Stopped(r, e, w)
  BY <1>9 DEF Onward
<1>10. CASE e.left = 1 /\ Finished(r, e, w, cut)
  <2>1. p + 1 = len
    BY <1>2, <1>3, <1>10
  <2> QED
    BY <1>3, <1>10, <2>1, Zenon DEF Onward
<1>11. CASE /\ Going(r, e, rep, w, cut) /\ r.stp = "VAL_STR" /\ ~r.bsy
            /\ r.left = e.left - 1
  <2>1. Behind(p + 1, r, i, en, len)
    BY <1>1, <1>2, <1>3, <1>6, <1>11 DEF Behind
  <2> QED
    BY <1>3, <1>4, <1>11, <2>1, GoesTo, Zenon
<1> QED
  BY <1>8, <1>9, <1>10, <1>11, Zenon

\* An octet, whatever it belongs to.
LEMMA OctetRead ==
    ASSUME NEW e, Live(e), NEW rep \in BlockRep, NEW cut \in BOOLEAN,
           NEW w, w = WholeRep(At(e.hp, "BLK"), rep, cut),
           Idle(e) \/ Reading(e, rep), NEW q, q = Place(e, rep)
    PROVE  /\ q \in Nat /\ q < Len(Octets(rep))
           /\ Onward(DecodeOctet(e, Octets(rep)[q + 1]), e, rep, w, cut, q + 1)
<1>1. e \in Decoder /\ e.stp \in Steps
  BY LiveIs, DecoderIs
<1>2. PICK i, n, nl, v, vl, en \in Nat : Shape(rep, i, n, nl, v, vl, en)
  BY PartsOf, Zenon
<1>8. Sized(rep, i, n, nl, v, vl, en)
  BY <1>2, Zenon DEF Sized
<1>3. PICK p, len \in Nat, b \in {0, 1} :
         Survey(e, rep, i, n, nl, v, vl, en, p, len, b)
  BY <1>1, <1>8, Surveyed, Zenon
<1>4. /\ Next1(Octets(rep)[p + 1], p, len, e, rep, i, n, nl, v, vl, en, b)
      /\ p = q /\ Layout(rep, i, n, nl, v, vl, en, len)
  BY <1>3, Zenon DEF Survey
<1>5. p < len /\ Len(Octets(rep)) = len
  BY <1>4, Zenon DEF Next1, Layout
<1>6. PICK x : x = Octets(rep)[p + 1]
  OBVIOUS
<1>7. Onward(DecodeOctet(e, x), e, rep, w, cut, p + 1)
  <2>1. CASE e.stp = "FLD_INT"
    BY <1>3, <1>6, <2>1, ReadInt, Zenon
  <2>2. ASSUME e.stp # "FLD_INT"
        PROVE  Reading(e, rep) /\ Opened(e, rep, w, cut)
    <3>1. Reading(e, rep)
      BY <2>2 DEF Idle
    <3>2. Admitted(e.hp, rep) /\ e.typ = rep.typ
      BY <3>1, Zenon DEF Reading
    <3> QED
      BY <3>1, <3>2 DEF Opened
  <2>3. CASE e.stp = "NAM_LEN"
    BY <1>3, <1>6, <2>2, <2>3, ReadNameLength, Zenon
  <2>4. CASE e.stp = "VAL_LEN"
    BY <1>3, <1>6, <2>2, <2>4, ReadValueLength, Zenon
  <2>5. CASE e.stp = "NAM_STR"
    BY <1>3, <1>6, <2>2, <2>5, ReadName, Zenon
  <2>6. CASE e.stp = "VAL_STR"
    BY <1>3, <1>6, <2>2, <2>6, ReadValue, Zenon
  <2> QED
    BY <1>1, <2>1, <2>3, <2>4, <2>5, <2>6 DEF Steps
<1> QED
  BY <1>4, <1>5, <1>6, <1>7

\* What whole representations are refused for.
LEMMA WholeRet ==
    ASSUME NEW hp, Able(hp), NEW rep \in BlockRep, NEW cut \in BOOLEAN,
           NEW w, w = WholeRep(At(hp, "BLK"), rep, cut)
    PROVE  w.ret \in Errors \cup {"OK", "BLK"}
<1>1. Result(cut) \in {"OK", "BLK"}
  BY DEF Result
<1>2. CASE rep.typ = "UPD"
  <2>1. PICK u : u = hpack_decode_update(hp, rep.num)
    OBVIOUS
  <2>2. IF u.ret \in {"OK", "BLK"}
        THEN w.ret = Result(cut) /\ Able(u.hp) /\ w.hp = At(u.hp, Result(cut))
        ELSE w.ret = u.ret /\ u.ret \in {"UPD", "LEN"}
    BY <1>2, <2>1, WholeUpdate
  <2> QED
    BY <1>1, <2>2 DEF Errors
<1>3. CASE Early(hp, rep)
  <2>1. w.ret = "RSZ"
    BY <1>3, WholeEarly, Zenon
  <2> QED
    BY <2>1 DEF Errors
<1>4. CASE rep.typ # "UPD" /\ ~Early(hp, rep)
  <2>1. PICK h : h = Headed(hp, rep)
    OBVIOUS
  <2>2. \/ w.ret = Result(cut)
        \/ w.ret = Refused(h, rep) /\ Refused(h, rep) \in {"LEN", "IDX", "CHR"}
    BY <1>4, <2>1, WholeField, SMTT(60)
  <2> QED
    BY <1>1, <2>2 DEF Errors
<1> QED
  BY <1>2, <1>3, <1>4

\* A decoder in a call that is to return res unless it fails.
Within1(e, res) ==
    "hp" \in DOMAIN e /\ "res" \in DOMAIN e.hp /\ e.hp.res = res

\* No octet changes that.
LEMMA ResultKept ==
    ASSUME NEW res, NEW e0, Within1(e0, res), NEW x0
    PROVE  Within1(DecodeOctet(e0, x0), res)
<1>1. ASSUME NEW e, Within1(e, res), NEW len
      PROVE  Within1(HPD_cat(e, len), res)
  BY <1>1 DEF Within1, HPD_cat, hpd_skip
<1>2. ASSUME NEW e, Within1(e, res), NEW fld
      PROVE  Within1(Notified(e, fld), res)
  BY <1>2 DEF Within1, Notified
<1>3. ASSUME NEW e, Within1(e, res), NEW err
      PROVE  Within1(Fail(e, err), res)
  BY <1>3 DEF Within1, Fail
<1>4. ASSUME NEW hp, "res" \in DOMAIN hp, hp.res = res, NEW len
      PROVE  "res" \in DOMAIN HPT_adjust(hp, len) /\ HPT_adjust(hp, len).res = res
  BY <1>4 DEF HPT_adjust, Evict, Abort
<1>5. ASSUME NEW hp, "res" \in DOMAIN hp, hp.res = res, NEW fld
      PROVE  "res" \in DOMAIN HPT_index(hp, fld) /\ HPT_index(hp, fld).res = res
  <2>1. PICK fit : fit = HPT_adjust(hp, hp.len + SizeOf(fld))
    OBVIOUS
  <2>2. "res" \in DOMAIN fit /\ fit.res = res
    BY <1>4, <1>5, <2>1, Zenon
  <2>3. HPT_index(hp, fld) \in {Abort(hp), fit, Insert(fit, fld)}
    BY <2>1 DEF HPT_index
  <2>4. "res" \in DOMAIN Abort(hp) /\ Abort(hp).res = res
    BY <1>5 DEF Abort
  <2>5. "res" \in DOMAIN Insert(fit, fld) /\ Insert(fit, fld).res = res
    BY <2>2 DEF Insert
  <2> QED
    BY <2>2, <2>3, <2>4, <2>5
<1>6. ASSUME NEW e, Within1(e, res), NEW nam
      PROVE  Within1(NameDone(e, nam), res)
  <2>1. Within1([e EXCEPT !.name = nam, !.val = e.used, !.stp = "VAL_LEN"], res)
    BY <1>6 DEF Within1
  <2> QED
    BY <1>3, <1>6, <2>1, Zenon DEF NameDone
<1>7. ASSUME NEW e, Within1(e, res), NEW rep
      PROVE  Within1(DecodeName(e, rep), res)
  <2>1. PICK cat : cat = HPD_cat(e, 1)
    OBVIOUS
  <2>2. Within1(cat, res)
    BY <1>1, <1>7, <2>1, Zenon
  <2>3. Within1([cat EXCEPT !.namsz = cat.used - cat.nam - 1], res)
    BY <2>2 DEF Within1
  <2>4. Within1(NameDone([cat EXCEPT !.namsz = cat.used - cat.nam - 1],
                         rep.fld.nam), res)
    BY <1>6, <2>3, Zenon
  <2> QED
    BY <2>1, <2>2, <2>4, Zenon DEF DecodeName
<1>8. ASSUME NEW e, Within1(e, res), NEW rep
      PROVE  Within1(DecodeValue(e, rep), res)
  <2>1. PICK cat : cat = HPD_cat(e, 1)
    OBVIOUS
  <2>2. PICK fld : fld = [nam |-> e.name, val |-> rep.fld.val]
    OBVIOUS
  <2>3. PICK done : done = Notified(cat, fld)
    OBVIOUS
  <2>4. Within1(cat, res)
    BY <1>1, <1>8, <2>1, Zenon
  <2>5. Within1(done, res)
    BY <1>2, <2>3, <2>4, Zenon
  <2>6. Within1([done EXCEPT !.hp = HPT_index(@, fld)], res)
    BY <1>5, <2>5 DEF Within1
  <2>7. Within1(Fail(cat, "CHR"), res)
    BY <1>3, <2>4, Zenon
  <2> QED
    BY <2>1, <2>2, <2>3, <2>4, <2>5, <2>6, <2>7, Zenon DEF DecodeValue
<1>9. ASSUME NEW e, Within1(e, res), NEW idx
      PROVE  Within1(HPT_decode_name(e, idx), res)
  <2>1. PICK nam : nam = HPT_field(e.hp, idx).nam
    OBVIOUS
  <2>2. Within1([e EXCEPT !.namsz = NameSize[nam]], res)
    BY <1>9 DEF Within1
  <2>3. PICK cat : cat = HPD_cat([e EXCEPT !.namsz = NameSize[nam]], NameSize[nam] + 1)
    OBVIOUS
  <2>4. Within1(cat, res)
    BY <1>1, <2>2, <2>3, Zenon
  <2>5. Within1(NameDone(cat, nam), res)
    BY <1>6, <2>4, Zenon
  <2>6. Within1(Fail(e, "IDX"), res)
    BY <1>3, <1>9, Zenon
  <2> QED
    BY <2>1, <2>3, <2>4, <2>5, <2>6, Zenon DEF HPT_decode_name
<1>10. ASSUME NEW e, Within1(e, res), NEW idx
       PROVE  Within1(HPT_decode(e, idx), res)
  <2>1. PICK fld : fld = HPT_field(e.hp, idx)
    OBVIOUS
  <2>2. PICK e1 : e1 = [e EXCEPT !.nam = e.used, !.namsz = NameSize[fld.nam]]
    OBVIOUS
  <2>3. Within1(e1, res)
    BY <1>10, <2>2 DEF Within1
  <2>4. PICK nam : nam = HPD_cat(e1, NameSize[fld.nam] + 1)
    OBVIOUS
  <2>5. Within1(nam, res)
    BY <1>1, <2>3, <2>4, Zenon
  <2>6. PICK e2 : e2 = [nam EXCEPT !.name = fld.nam, !.val = nam.used]
    OBVIOUS
  <2>7. Within1(e2, res)
    BY <2>5, <2>6 DEF Within1
  <2>8. PICK val : val = HPD_cat(e2, ValueSize[fld.val] + 1)
    OBVIOUS
  <2>9. Within1(val, res)
    BY <1>1, <2>7, <2>8, Zenon
  <2>10. Within1(Notified(val, fld), res)
    BY <1>2, <2>9, Zenon
  <2>11. Within1(Fail(e, "IDX"), res)
    BY <1>3, <1>10, Zenon
  <2> QED
    BY <2>1, <2>2, <2>4, <2>5, <2>6, <2>8, <2>9, <2>10, <2>11, Zenon DEF HPT_decode
<1>11. ASSUME NEW e, Within1(e, res), NEW idx
       PROVE  Within1(BeginField(e, idx), res)
  <2>1. PICK fld : fld = [e EXCEPT !.stp = "NAM_LEN", !.nam = e.used]
    OBVIOUS
  <2>2. Within1(fld, res)
    BY <1>11, <2>1 DEF Within1
  <2> QED
    BY <1>9, <2>1, <2>2, Zenon DEF BeginField
<1>12. ASSUME NEW e, Within1(e, res), NEW rep
       PROVE  Within1(StringDone(e, rep), res)
  BY <1>7, <1>8, <1>12, Zenon DEF StringDone
<1>13. ASSUME NEW e, Within1(e, res), NEW rep
       PROVE  Within1(BeginString(e, rep), res)
  <2>1. PICK len : len = Len(IF e.stp = "NAM_LEN" THEN rep.nput ELSE rep.vput)
    OBVIOUS
  <2>2. PICK str : str = [e EXCEPT !.bsy = FALSE, !.left = len,
                         !.stp = IF e.stp = "NAM_LEN" THEN "NAM_STR"
                                 ELSE "VAL_STR"]
    OBVIOUS
  <2>3. Within1(str, res)
    BY <1>13, <2>2 DEF Within1
  <2>4. Within1(Fail(str, "LEN"), res) /\ Within1(StringDone(str, rep), res)
    BY <1>3, <1>12, <2>3, Zenon
  <2> QED
    BY <2>1, <2>2, <2>3, <2>4, Zenon DEF BeginString
<1>14. ASSUME NEW e, Within1(e, res), NEW oct
       PROVE  Within1(StringOctet(e, oct), res)
  <2>1. PICK e1 : e1 = [e EXCEPT !.left = @ - 1]
    OBVIOUS
  <2>2. Within1(e1, res)
    BY <1>14, <2>1 DEF Within1
  <2>3. Within1(HPD_cat(e1, oct.n), res)
    BY <1>1, <2>2, Zenon
  <2>4. Within1(StringDone(HPD_cat(e1, oct.n), oct.rep), res)
    BY <1>12, <2>3, Zenon
  <2> QED
    BY <2>1, <2>3, <2>4, Zenon DEF StringOctet
<1>15. ASSUME NEW e, Within1(e, res), NEW sz
       PROVE  Within1(DecodeUpdate(e, sz), res)
  <2>1. PICK hp : hp = e.hp
    OBVIOUS
  <2>2. "res" \in DOMAIN hp /\ hp.res = res
    BY <1>15, <2>1 DEF Within1
  <2>3. PICK set : set = Settle(hp, sz)
    OBVIOUS
  <2>4. "res" \in DOMAIN set /\ set.res = res
    BY <2>2, <2>3 DEF Settle
  <2>5. PICK fit : fit = HPT_adjust(set, set.len)
    OBVIOUS
  <2>6. "res" \in DOMAIN fit /\ fit.res = res
    BY <1>4, <2>4, <2>5, Zenon
  <2>7. PICK upd : upd = hpack_decode_update(hp, sz)
    OBVIOUS
  <2>8. upd \in {Refuse(hp, "UPD"), Refuse(hp, "LEN"), Accept(fit, NoField)}
    BY <2>3, <2>5, <2>7 DEF hpack_decode_update
  <2>9. upd.ret \in {"OK", "BLK"} => upd.hp = fit
    BY <2>8 DEF Refuse, Accept
  <2>10. Within1([e EXCEPT !.hp = fit], res)
    BY <1>15, <2>6 DEF Within1
  <2>11. DecodeUpdate(e, sz) = IF upd.ret \in {"OK", "BLK"}
                               THEN [e EXCEPT !.hp = upd.hp] ELSE Fail(e, upd.ret)
    BY <2>1, <2>7, Zenon DEF DecodeUpdate
  <2>12. Within1(Fail(e, upd.ret), res)
    BY <1>3, <1>15, Zenon
  <2> QED
    BY <2>9, <2>10, <2>11, <2>12, Zenon
<1>16. ASSUME NEW e, Within1(e, res), NEW num
       PROVE  Within1(IntDone(e, num), res)
  <2>1. /\ Within1(DecodeUpdate(e, num), res) /\ Within1(HPT_decode(e, num), res)
        /\ Within1(BeginField(e, num), res)
    BY <1>10, <1>11, <1>15, <1>16, Zenon
  <2> QED
    BY <2>1, Zenon DEF IntDone
<1>17. ASSUME NEW e, Within1(e, res), NEW oct
       PROVE  Within1(IntOctet(e, oct), res)
  <2>1. Within1([e EXCEPT !.bsy = TRUE], res) /\ Within1([e EXCEPT !.bsy = FALSE], res)
    BY <1>17 DEF Within1
  <2> QED
    BY <1>16, <2>1, Zenon DEF IntOctet
<1>18. ASSUME NEW e, Within1(e, res), NEW rep
       PROVE  Within1(BeginRep(e, rep), res)
  <2>1. PICK head : head = [e EXCEPT !.typ = rep.typ]
    OBVIOUS
  <2>2. Within1(head, res)
    BY <1>18, <2>1 DEF Within1
  <2>3. PICK hp : hp = e.hp
    OBVIOUS
  <2>4. "res" \in DOMAIN hp /\ hp.res = res
    BY <1>18, <2>3 DEF Within1
  <2>5. Within1([head EXCEPT !.hp = [hp EXCEPT !.upd = FALSE]], res)
    BY <2>2, <2>4 DEF Within1
  <2>6. Within1([head EXCEPT !.hp = Abort(hp)], res)
    BY <2>2, <2>4 DEF Within1, Abort
  <2>7. Within1(Fail(e, "UPD"), res) /\ Within1(Fail(e, "RSZ"), res)
    BY <1>3, <1>18, Zenon
  <2>8. BeginRep(e, rep) \in {Fail(e, "UPD"), head, Fail(e, "RSZ"),
                              [head EXCEPT !.hp = [hp EXCEPT !.upd = FALSE]],
                              [head EXCEPT !.hp = Abort(hp)]}
    BY <2>1, <2>3 DEF BeginRep
  <2> QED
    BY <2>2, <2>5, <2>6, <2>7, <2>8
<1>19. Within1(RepOctet(e0, x0), res)
  <2>1. Within1(BeginRep(e0, x0.rep), res)
    BY <1>18, Zenon
  <2>2. Within1(IntOctet(e0, x0), res) /\ Within1(IntOctet(BeginRep(e0, x0.rep), x0), res)
    BY <1>17, <2>1, Zenon
  <2> QED
    BY <2>1, <2>2, Zenon DEF RepOctet
<1>20. Within1(LengthOctet(e0, x0), res)
  <2>1. Within1([e0 EXCEPT !.bsy = TRUE], res)
    BY DEF Within1
  <2> QED
    BY <1>13, <2>1, Zenon DEF LengthOctet
<1>21. Within1(StringOctet(e0, x0), res)
  BY <1>14, Zenon
<1>22. DecodeOctet(e0, x0) \in {e0, RepOctet(e0, x0), LengthOctet(e0, x0),
                                StringOctet(e0, x0)}
  BY DEF DecodeOctet
<1> QED
  BY <1>19, <1>20, <1>21, <1>22

(***************************************************************************)
(* What becomes of a block.                                                *)
(***************************************************************************)

\* What whole representations would have, where e is.
Acc(e) == [hp |-> At(e.hp, "BLK"), ret |-> "OK", flds |-> Fields(e.heard)]

\* at octets of the block have been read, and more are to come; out is what the
\* block says.
Ahead(e, reps, k, at, out) ==
    /\ Live(e) /\ k \in Nat /\ k < Len(reps)
    /\ Idle(e) \/ Reading(e, reps[k + 1])
    /\ at = Len(FirstOctets(reps, k)) + Place(e, reps[k + 1])
    /\ out = Outcome(Acc(e), reps, k)

\* No more are to come.
AllRead(e, reps, at, out) ==
    /\ Live(e) /\ Idle(e) /\ at = Len(BlockOctets(reps))
    /\ out = [hp |-> At(e.hp, "OK"), ret |-> "OK", flds |-> Fields(e.heard)]

\* One has been refused, or its field does not fit.
Broken(e, out) ==
    /\ Within(e) /\ e.ret \in Errors /\ Starts(Fields(e.heard), out.flds)
    /\ IF e.ret = "BIG" THEN out.ret # "OK" \/ ~AllFit(out.flds)
       ELSE out.ret = e.ret

\* That is what a block may say.
LEMMA AccSane ==
    ASSUME NEW e, Live(e)
    PROVE  Sane(Acc(e)) /\ Fields(e.heard) \in Seq(Field)
<1>1. e.heard \in Seq(Seen) /\ Able(e.hp)
  BY LiveIs
<1>2. Fields(e.heard) \in Seq(Field)
  BY <1>1, FieldsType
<1>3. Able(At(e.hp, "BLK"))
  BY <1>1, AbleAt
<1>4. Healthy(At(e.hp, "BLK"))
  BY <1>3, AbleIs
<1>5. "OK" \in Verdict
  BY DEF Verdict, Results
<1> QED
  BY <1>2, <1>4, <1>5 DEF Sane, Acc

\* What the next representation makes of it.
AccOf(e, w) ==
    [hp   |-> w.hp, ret |-> IF w.ret = "BLK" THEN "OK" ELSE w.ret,
     flds |-> IF w.fld = NoField THEN Fields(e.heard)
              ELSE Append(Fields(e.heard), w.fld)]

\* The next representation, and what it says.
Next2(e, reps, k, rep, cut, w) ==
    /\ rep = reps[k + 1] /\ cut = (k + 1 < Len(reps))
    /\ w = WholeRep(At(e.hp, "BLK"), rep, cut)

Says(e, reps, k, out, rep, cut, w) ==
    /\ out = Outcome(AccOf(e, w), reps, k + 1) /\ Sane(AccOf(e, w))
    /\ k \in Nat /\ Len(reps) \in Nat /\ k < Len(reps) /\ rep \in BlockRep
    /\ cut \in BOOLEAN /\ Live(e)

\* The rest of the block comes behind it.
LEMMA AccNext ==
    ASSUME NEW e, NEW reps \in Seq(BlockRep), NEW k, NEW at, NEW out,
           Ahead(e, reps, k, at, out), NEW rep, NEW cut, NEW w,
           Next2(e, reps, k, rep, cut, w)
    PROVE  Says(e, reps, k, out, rep, cut, w)
<1> rep = reps[k + 1] /\ cut = (k + 1 < Len(reps))
    /\ w = WholeRep(At(e.hp, "BLK"), rep, cut)
  BY DEF Next2
<1>1. Live(e) /\ k \in Nat /\ k < Len(reps) /\ out = Outcome(Acc(e), reps, k)
  BY Zenon DEF Ahead
<1>2. PICK len \in Nat : len = Len(reps)
  BY LenProperties
<1>3. k \in 0..len /\ k < len
  BY <1>1, <1>2
<1>4. rep \in BlockRep
  BY <1>1, <1>2, <1>3, ElementOfSeq
<1>8. Outcome(Acc(e), reps, k)
      = Outcome(DecodeWhole(Acc(e), reps[k + 1], k + 1 < len), reps, k + 1)
  BY <1>2, <1>3, OutcomeNext, Zenon
<1>5. out = Outcome(DecodeWhole(Acc(e), rep, cut), reps, k + 1)
  BY <1>1, <1>2, <1>8
<1>6. DecodeWhole(Acc(e), rep, cut) = AccOf(e, w)
  BY DEF DecodeWhole, Acc, AccOf
<1>7. Sane(AccOf(e, w))
  <2>1. cut \in BOOLEAN
    BY <1>2, <1>3
  <2>2. Sane(Acc(e))
    BY <1>1, AccSane
  <2>3. Sane(DecodeWhole(Acc(e), rep, cut))
    BY <1>4, <2>1, <2>2, DecodeWholeSane, Zenon
  <2> QED
    BY <1>6, <2>3
<1> QED
  BY <1>1, <1>2, <1>3, <1>4, <1>5, <1>6, <1>7 DEF Says

\* What the block says begins with what the next representation does.
LEMMA AheadSays ==
    ASSUME NEW acc, Sane(acc), NEW reps \in Seq(BlockRep), NEW k \in Nat,
           k < Len(reps), NEW out, out = Outcome(acc, reps, k + 1)
    PROVE  /\ Sane(out) /\ Starts(acc.flds, out.flds)
           /\ acc.ret # "OK" => out = acc
<1>1. PICK n \in 0..Len(reps) : n = k + 1
  BY LenProperties
<1>2. out = Outcome(acc, reps, n)
  BY <1>1
<1> QED
  BY <1>2, OutcomeSane, Zenon

\* A field that does not fit is still one of what begins with it.
LEMMA NoneFits ==
    ASSUME NEW flds \in Seq(Field), NEW fld \in Field, Room(fld) > BufLen,
           NEW all \in Seq(Field), Starts(Append(flds, fld), all)
    PROVE  ~AllFit(all) /\ Starts(flds, all)
<1>1. PICK n \in Nat : n = Len(flds)
  BY LenProperties
<1>2. PICK more \in Seq(Field) : more = Append(flds, fld)
  BY AppendProperties, Zenon
<1>3. Len(more) = n + 1 /\ more[n + 1] = fld /\ \A j \in 1..n : more[j] = flds[j]
  BY <1>1, <1>2, AppendProperties
<1>4. n + 1 <= Len(all) /\ \A j \in 1..(n + 1) : all[j] = more[j]
  BY <1>2, <1>3 DEF Starts
<1>5. n + 1 \in DOMAIN all
  BY <1>4, LenProperties
<1>6. all[n + 1] = fld
  BY <1>3, <1>4
<1>7. BufLen \in Nat /\ Room(fld) \in Nat
  BY PieceAssumption, RoomType
<1>8. ~(Room(all[n + 1]) <= BufLen)
  BY <1>6, <1>7
<1>9. ~AllFit(all)
  BY <1>5, <1>8, Zenon DEF AllFit
<1>10. Len(all) \in Nat
  BY LenProperties
<1>11. Starts(flds, all)
  BY <1>1, <1>3, <1>4, <1>10 DEF Starts
<1> QED
  BY <1>9, <1>11

\* A representation that stops the decoder.
LEMMA AheadStops ==
    ASSUME NEW e, NEW reps \in Seq(BlockRep), NEW k, NEW at, NEW out,
           Ahead(e, reps, k, at, out), NEW rep, NEW cut, NEW w,
           Next2(e, reps, k, rep, cut, w), NEW r, Stopped(r, e, w)
    PROVE  Broken(r, out)
<1>12. Says(e, reps, k, out, rep, cut, w)
  BY AccNext, Zenon
<1>1. PICK acc : acc = AccOf(e, w)
  OBVIOUS
<1>2. /\ out = Outcome(acc, reps, k + 1) /\ Sane(acc) /\ k \in Nat
      /\ k < Len(reps) /\ rep \in BlockRep /\ cut \in BOOLEAN /\ Live(e)
  BY <1>1, <1>12 DEF Says
<1>3. Sane(out) /\ Starts(acc.flds, out.flds) /\ (acc.ret # "OK" => out = acc)
  BY <1>2, AheadSays
<1>4. PICK seen : seen = Fields(e.heard)
  OBVIOUS
<1>5. /\ acc.ret = IF w.ret = "BLK" THEN "OK" ELSE w.ret
      /\ acc.flds = IF w.fld = NoField THEN seen ELSE Append(seen, w.fld)
  BY <1>1, <1>4 DEF AccOf
<1>6. seen \in Seq(Field) /\ out.flds \in Seq(Field)
  BY <1>2, <1>3, <1>4, AccSane DEF Sane
<1>7. w.ret \in Errors \cup {"OK", "BLK"}
  <2>1. Able(e.hp)
    BY <1>2, LiveIs
  <2>2. w = WholeRep(At(e.hp, "BLK"), rep, cut)
    BY DEF Next2
  <2> QED
    BY <1>2, <2>1, <2>2, WholeRet, Zenon
<1>8. /\ Within(r) /\ r.heard = e.heard /\ r.ret \notin {"OK", "BLK", "SKP"}
      /\ IF r.ret = "BIG" THEN Long(w) \/ Wrong(w) ELSE r.ret = w.ret /\ Wrong(w)
  BY Zenon DEF Stopped
<1>9. r.ret \in Errors
  BY <1>7, <1>8 DEF Errors
<1>10. CASE Wrong(w)
  <2>1. w.ret \notin {"OK", "BLK"} /\ w.fld = NoField
    BY <1>10 DEF Wrong
  <2>2. acc.ret = w.ret /\ acc.flds = seen /\ acc.ret # "OK"
    BY <1>5, <2>1
  <2>3. out = acc
    BY <1>3, <2>2
  <2>4. out.ret = w.ret /\ out.ret # "OK" /\ Starts(seen, out.flds)
    BY <1>3, <2>2, <2>3
  <2> QED
    BY <1>4, <1>8, <1>9, <2>4, Zenon DEF Broken
<1>11. CASE ~Wrong(w)
  <2>1. Long(w) /\ r.ret = "BIG"
    BY <1>8, <1>11
  <2>2. w.fld \in Field /\ Room(w.fld) > BufLen
    BY <2>1 DEF Long
  <2>3. w.fld # NoField
    BY <2>2, StringAssumption
  <2>4. acc.flds = Append(seen, w.fld)
    BY <1>5, <2>3
  <2>5. Starts(Append(seen, w.fld), out.flds)
    BY <1>3, <2>4
  <2>6. ~AllFit(out.flds) /\ Starts(seen, out.flds)
    BY <1>6, <2>2, <2>5, NoneFits
  <2> QED
    BY <1>4, <1>8, <1>9, <2>1, <2>6, Zenon DEF Broken
<1> QED
  BY <1>10, <1>11

\* What is left of a block whose beginning has been read.
Stands(e, reps, at, out) ==
    \/ \E k \in Nat : Ahead(e, reps, k, at, out)
    \/ AllRead(e, reps, at, out)
    \/ Broken(e, out)

\* Where a representation ends, and where a decoder is in one.
RepEnd(reps, k) == Len(FirstOctets(reps, k + 1))
PlaceIn(reps, k, e, rep) == Len(FirstOctets(reps, k)) + Place(e, rep)

\* A representation that has been read.
LEMMA AheadEnds ==
    ASSUME NEW e, NEW reps \in Seq(BlockRep), NEW k, NEW at, NEW out,
           Ahead(e, reps, k, at, out), NEW rep, NEW cut, NEW w,
           Next2(e, reps, k, rep, cut, w), NEW r, Finished(r, e, w, cut)
    PROVE  Stands(r, reps, RepEnd(reps, k), out)
<1>1. Says(e, reps, k, out, rep, cut, w)
  BY AccNext, Zenon
<1>2. /\ out = Outcome(AccOf(e, w), reps, k + 1)
      /\ k \in Nat /\ Len(reps) \in Nat /\ k < Len(reps) /\ rep \in BlockRep
      /\ cut \in BOOLEAN
  BY <1>1, Zenon DEF Says
<1>3. /\ Live(r) /\ Idle(r) /\ w.ret = Result(cut) /\ w.hp = At(r.hp, Result(cut))
      /\ w.fld = NoField => r.heard = e.heard
      /\ w.fld # NoField => Fields(r.heard) = Append(Fields(e.heard), w.fld)
  BY DEF Finished
<1>4. AccOf(e, w) = [hp |-> At(r.hp, Result(cut)), ret |-> "OK",
                     flds |-> Fields(r.heard)]
  BY <1>3 DEF AccOf, Result
<1>5. cut = (k + 1 < Len(reps))
  BY DEF Next2
<1>8. PICK n \in Nat : n = k + 1
  BY <1>2
<1>9. PICK to : to = RepEnd(reps, k)
  OBVIOUS
<1>10. to = Len(FirstOctets(reps, n))
  BY <1>8, <1>9 DEF RepEnd
<1>11. out = Outcome(AccOf(e, w), reps, n)
  BY <1>2, <1>8
<1>6. ASSUME cut PROVE Ahead(r, reps, n, to, out)
  <2>1. AccOf(e, w) = Acc(r)
    BY <1>4, <1>6 DEF Result, Acc
  <2>2. out = Outcome(Acc(r), reps, n)
    BY <1>11, <2>1, Zenon
  <2>4. Place(r, reps[n + 1]) = 0
    <3>1. r.stp = "FLD_INT" /\ ~r.bsy
      BY <1>3 DEF Idle
    <3> QED
      BY <3>1 DEF Place
  <2>5. to \in Nat
    <3>1. n <= Len(reps)
      BY <1>2, <1>8
    <3>2. FirstOctets(reps, n) \in Seq(Octet)
      BY <1>2, <3>1, FirstStarts
    <3> QED
      BY <1>10, <3>2, LenProperties
  <2>6. to = Len(FirstOctets(reps, n)) + Place(r, reps[n + 1])
    BY <1>10, <2>4, <2>5
  <2>7. n < Len(reps)
    BY <1>2, <1>5, <1>6, <1>8
  <2> QED
    BY <1>3, <2>2, <2>6, <2>7, Zenon DEF Ahead
<1>7. ASSUME ~cut PROVE AllRead(r, reps, to, out)
  <2>5. ~(k + 1 < Len(reps))
    BY <1>5, <1>7, Zenon
  <2>3. k + 1 = Len(reps)
    BY <1>2, <2>5
  <2>1. n = Len(reps)
    BY <1>8, <2>3
  <2>2. PICK acc : acc = AccOf(e, w)
    OBVIOUS
  <2>4. out = acc
    <3>1. out = Outcome(acc, reps, n) /\ Len(reps) = n
      BY <1>11, <2>1, <2>2
    <3> QED
      BY <3>1, OutcomeLast, Zenon
  <2>7. acc = [hp |-> At(r.hp, "OK"), ret |-> "OK", flds |-> Fields(r.heard)]
    BY <1>4, <1>7, <2>2 DEF Result
  <2>6. to = Len(BlockOctets(reps))
    BY <1>10, <2>1 DEF BlockOctets
  <2> QED
    BY <1>3, <2>4, <2>6, <2>7, Zenon DEF AllRead
<1>12. Stands(r, reps, to, out)
  BY <1>2, <1>6, <1>7, Zenon DEF Stands
<1> QED
  BY <1>9, <1>12

\* One that goes on.
LEMMA AheadGoes ==
    ASSUME NEW e, NEW reps \in Seq(BlockRep), NEW k, NEW at, NEW out,
           Ahead(e, reps, k, at, out), NEW rep, NEW cut, NEW w,
           Next2(e, reps, k, rep, cut, w), NEW r, Going(r, e, rep, w, cut)
    PROVE  Stands(r, reps, PlaceIn(reps, k, r, rep), out)
<1>1. Says(e, reps, k, out, rep, cut, w)
  BY AccNext, Zenon
<1>2. /\ out = Outcome(AccOf(e, w), reps, k + 1)
      /\ k \in Nat /\ Len(reps) \in Nat /\ k < Len(reps) /\ rep \in BlockRep
      /\ cut \in BOOLEAN
  BY <1>1, Zenon DEF Says
<1>3. Opened(r, rep, w, cut) /\ Reading(r, rep) /\ r.heard = e.heard
  BY DEF Going
<1>4. Live(r) /\ w = WholeRep(At(r.hp, "BLK"), rep, cut)
  BY <1>3 DEF Opened
<1>5. rep = reps[k + 1] /\ cut = (k + 1 < Len(reps))
  BY DEF Next2
<1>6. DecodeWhole(Acc(r), rep, cut) = AccOf(e, w)
  BY <1>3, <1>4 DEF DecodeWhole, Acc, AccOf
<1>7. PICK len \in Nat : len = Len(reps)
  BY <1>2
<1>8. k \in 0..len /\ k < len
  BY <1>2, <1>7
<1>9. Outcome(Acc(r), reps, k)
      = Outcome(DecodeWhole(Acc(r), reps[k + 1], k + 1 < len), reps, k + 1)
  BY <1>7, <1>8, OutcomeNext, Zenon
<1>10. out = Outcome(Acc(r), reps, k)
  BY <1>2, <1>5, <1>6, <1>7, <1>9
<1>11. PICK to : to = PlaceIn(reps, k, r, rep)
  OBVIOUS
<1>12. to = Len(FirstOctets(reps, k)) + Place(r, reps[k + 1])
  BY <1>5, <1>11 DEF PlaceIn
<1>13. Reading(r, reps[k + 1])
  BY <1>3, <1>5
<1>14. Ahead(r, reps, k, to, out)
  BY <1>2, <1>4, <1>10, <1>12, <1>13, Zenon DEF Ahead
<1>15. Stands(r, reps, to, out)
  BY <1>2, <1>14, Zenon DEF Stands
<1> QED
  BY <1>11, <1>15

\* The next octet of the block, in a representation that goes on.
LEMMA AheadStep ==
    ASSUME NEW e, NEW reps \in Seq(BlockRep), NEW k \in Nat, NEW at, NEW out,
           Ahead(e, reps, k, at, out)
    PROVE  /\ at \in Nat /\ at < Len(BlockOctets(reps))
           /\ Stands(DecodeOctet(e, BlockOctets(reps)[at + 1]), reps, at + 1, out)
<1>1. PICK rep : rep = reps[k + 1]
  OBVIOUS
<1>2. PICK cut : cut = (k + 1 < Len(reps))
  OBVIOUS
<1>3. PICK w : w = WholeRep(At(e.hp, "BLK"), rep, cut)
  OBVIOUS
<1>4. Next2(e, reps, k, rep, cut, w)
  BY <1>1, <1>2, <1>3 DEF Next2
<1>5. Says(e, reps, k, out, rep, cut, w)
  BY <1>4, AccNext, Zenon
<1>6. /\ Live(e) /\ Len(reps) \in Nat /\ k < Len(reps) /\ rep \in BlockRep
      /\ cut \in BOOLEAN
  BY <1>5, Zenon DEF Says
<1>7. /\ Idle(e) \/ Reading(e, rep)
      /\ at = Len(FirstOctets(reps, k)) + Place(e, rep)
  BY <1>1, Zenon DEF Ahead
<1>8. PICK q : q = Place(e, rep)
  OBVIOUS
<1>9. PICK o : o = Octets(rep)
  OBVIOUS
<1>10. q \in Nat /\ q < Len(Octets(rep))
       /\ Onward(DecodeOctet(e, Octets(rep)[q + 1]), e, rep, w, cut, q + 1)
  BY <1>3, <1>6, <1>7, <1>8, OctetRead, Zenon
<1>11. PICK len \in Nat : len = Len(o)
  BY <1>6, <1>9, OctetsType
<1>12. o \in Seq(Octet)
  BY <1>6, <1>9, OctetsType
<1>13. PICK m \in Nat : m = Len(FirstOctets(reps, k))
  <2>1. FirstOctets(reps, k) \in Seq(Octet)
    BY <1>6, FirstStarts
  <2> QED
    BY <2>1, LenProperties
<1>14. /\ Len(FirstOctets(reps, k + 1)) = m + len
       /\ m + len <= Len(BlockOctets(reps))
       /\ \A j \in 1..len : BlockOctets(reps)[m + j] = o[j]
  <2>1. k \in 0..Len(reps)
    BY <1>6
  <2>2. o = Octets(reps[k + 1])
    BY <1>1, <1>9
  <2> QED
    BY <1>6, <1>11, <1>12, <1>13, <2>1, <2>2, OctetsInBlock
<1>15. q + 1 \in 1..len /\ at = m + q /\ at + 1 = m + (q + 1)
  BY <1>7, <1>8, <1>9, <1>10, <1>11, <1>13, SMTT(60)
<1>16. BlockOctets(reps)[at + 1] = o[q + 1]
  BY <1>14, <1>15
<1>17. PICK r : r = DecodeOctet(e, BlockOctets(reps)[at + 1])
  OBVIOUS
<1>18. Onward(r, e, rep, w, cut, q + 1)
  BY <1>9, <1>10, <1>16, <1>17
<1>19. \/ Stopped(r, e, w)
       \/ Finished(r, e, w, cut) /\ q + 1 = len
       \/ Going(r, e, rep, w, cut) /\ Place(r, rep) = q + 1
  BY <1>9, <1>11, <1>18 DEF Onward
<1>20. ASSUME Stopped(r, e, w) PROVE Stands(r, reps, at + 1, out)
  <2>1. Broken(r, out)
    BY <1>4, <1>20, AheadStops, Zenon
  <2> QED
    BY <2>1, Zenon DEF Stands
<1>21. ASSUME Finished(r, e, w, cut), q + 1 = len
       PROVE  Stands(r, reps, at + 1, out)
  <2>1. at + 1 = RepEnd(reps, k)
    BY <1>14, <1>15, <1>21 DEF RepEnd
  <2>2. Stands(r, reps, RepEnd(reps, k), out)
    BY <1>4, <1>21, AheadEnds, Zenon
  <2> QED
    BY <2>1, <2>2
<1>22. ASSUME Going(r, e, rep, w, cut), Place(r, rep) = q + 1
       PROVE  Stands(r, reps, at + 1, out)
  <2>1. at + 1 = PlaceIn(reps, k, r, rep)
    BY <1>13, <1>15, <1>22 DEF PlaceIn
  <2>2. Stands(r, reps, PlaceIn(reps, k, r, rep), out)
    BY <1>4, <1>22, AheadGoes, Zenon
  <2> QED
    BY <2>1, <2>2
<1>23. Stands(r, reps, at + 1, out)
  BY <1>19, <1>20, <1>21, <1>22, Zenon
<1>24. at \in Nat /\ at < Len(BlockOctets(reps))
  <2>1. Len(BlockOctets(reps)) \in Nat
    <3>1. BlockOctets(reps) = FirstOctets(reps, Len(reps))
      BY DEF BlockOctets
    <3>2. FirstOctets(reps, Len(reps)) \in Seq(Octet)
      BY <1>6, FirstStarts
    <3> QED
      BY <3>1, <3>2, LenProperties
  <2> QED
    BY <1>14, <1>15, <2>1
<1> QED
  BY <1>17, <1>23, <1>24

\* The next octet of the block, wherever the decoder stands.
LEMMA StandsStep ==
    ASSUME NEW e, NEW reps \in Seq(BlockRep), NEW at, NEW out,
           Stands(e, reps, at, out), NEW n \in Nat, n = Len(BlockOctets(reps)),
           at \in Nat, at < n
    PROVE  Stands(DecodeOctet(e, BlockOctets(reps)[at + 1]), reps, at + 1, out)
<1>1. ASSUME NEW k \in Nat, Ahead(e, reps, k, at, out)
      PROVE  Stands(DecodeOctet(e, BlockOctets(reps)[at + 1]), reps, at + 1, out)
  BY <1>1, AheadStep, Zenon
<1>2. ~AllRead(e, reps, at, out)
  BY DEF AllRead
<1>3. ASSUME Broken(e, out)
      PROVE  Stands(DecodeOctet(e, BlockOctets(reps)[at + 1]), reps, at + 1, out)
  <2>1. e.ret # "OK"
    BY <1>3 DEF Broken, Errors
  <2>2. DecodeOctet(e, BlockOctets(reps)[at + 1]) = e
    BY <2>1, Zenon DEF DecodeOctet
  <2> QED
    BY <1>3, <2>2, Zenon DEF Stands
<1> QED
  BY <1>1, <1>2, <1>3, Zenon DEF Stands

\* DecodeOctets: the decoders after each of them.
OctetsRun(f, e, o, n) ==
    f = [i \in 0..n |-> IF i = 0 THEN e ELSE DecodeOctet(f[i - 1], o[i])]

OctetsSteps(f, e, o, n) ==
    f[0] = e /\ \A i \in 1..n : f[i] = DecodeOctet(f[i - 1], o[i])

\* There is such a function, and DecodeOctets is its last value.
LEMMA OctetsRuns ==
    ASSUME NEW e, NEW o, NEW n \in Nat, Len(o) = n
    PROVE  \E f : OctetsSteps(f, e, o, n) /\ DecodeOctets(e, o) = f[n]
<1> DEFINE T == {m \in 0..n : \E f : OctetsRun(f, e, o, m)}
<1>1. 0 \in T
  <2>1. PICK f : f = [i \in 0..0 |-> e]
    OBVIOUS
  <2>2. OctetsRun(f, e, o, 0)
    BY <2>1 DEF OctetsRun
  <2> QED
    BY <2>2
<1>2. ASSUME NEW m \in 0..(n - 1), m \in T PROVE m + 1 \in T
  <2>1. PICK f : OctetsRun(f, e, o, m)
    BY <1>2
  <2>2. PICK g : g = [i \in 0..(m + 1) |->
                        IF i <= m THEN f[i] ELSE DecodeOctet(f[m], o[i])]
    OBVIOUS
  <2>3. \A i \in 0..m : f[i] = IF i = 0 THEN e ELSE DecodeOctet(f[i - 1], o[i])
    BY <2>1 DEF OctetsRun
  <2>4. \A i \in 0..(m + 1) :
           g[i] = IF i = 0 THEN e ELSE DecodeOctet(g[i - 1], o[i])
    BY <2>2, <2>3, SMTT(60)
  <2>5. OctetsRun(g, e, o, m + 1)
    BY <2>2, <2>4 DEF OctetsRun
  <2> QED
    BY <2>5
<1>3. n \in T
  <2> HIDE DEF T
  <2>1. Climbs(T, 0, n)
    BY <1>1, <1>2 DEF Climbs
  <2> QED
    BY <2>1, Reaches
<1>4. DecodeOctets(e, o) = (CHOOSE f : OctetsRun(f, e, o, Len(o)))[Len(o)]
  BY Zenon DEF DecodeOctets, OctetsRun
<1>5. OctetsRun(CHOOSE f : OctetsRun(f, e, o, n), e, o, n)
  BY <1>3, Zenon
<1>6. PICK f : f = CHOOSE h : OctetsRun(h, e, o, n)
  OBVIOUS
<1>7. OctetsRun(f, e, o, n) /\ DecodeOctets(e, o) = f[n]
  BY <1>4, <1>5, <1>6
<1>8. OctetsSteps(f, e, o, n)
  BY <1>7 DEF OctetsRun, OctetsSteps
<1> QED
  BY <1>7, <1>8

\* Where a decoder stands, and the result it works under.
Where(e, res, reps, at, out) == Stands(e, reps, at, out) /\ Within1(e, res)

\* The octets of the block from at on.
From(o, n, reps, at) ==
    /\ Len(o) = n /\ at \in Nat /\ at + n <= Len(BlockOctets(reps))
    /\ \A i \in 1..n : o[i] = BlockOctets(reps)[at + i]

\* A call leaves the decoder standing where its octets end.
LEMMA OctetsRead ==
    ASSUME NEW e, NEW res, NEW reps \in Seq(BlockRep), NEW at, NEW out,
           Where(e, res, reps, at, out), NEW n \in Nat, NEW o,
           From(o, n, reps, at)
    PROVE  Where(DecodeOctets(e, o), res, reps, at + n, out)
<1>1. /\ Len(o) = n /\ at \in Nat /\ at + n <= Len(BlockOctets(reps))
      /\ \A i \in 1..n : o[i] = BlockOctets(reps)[at + i]
  BY DEF From
<1>2. PICK f : OctetsSteps(f, e, o, n) /\ DecodeOctets(e, o) = f[n]
  BY <1>1, OctetsRuns
<1>3. f[0] = e /\ \A i \in 1..n : f[i] = DecodeOctet(f[i - 1], o[i])
  BY <1>2 DEF OctetsSteps
<1>4. PICK all \in Nat : all = Len(BlockOctets(reps))
  <2>1. BlockOctets(reps) = FirstOctets(reps, Len(reps)) /\ Len(reps) \in Nat
    BY LenProperties DEF BlockOctets
  <2>2. FirstOctets(reps, Len(reps)) \in Seq(Octet)
    BY <2>1, FirstStarts
  <2> QED
    BY <2>1, <2>2, LenProperties
<1> DEFINE T == {m \in 0..n : Where(f[m], res, reps, at + m, out)}
<1>5. 0 \in T
  <2>1. at + 0 = at
    BY <1>1
  <2> QED
    BY <1>3, <2>1
<1>6. ASSUME NEW m \in 0..(n - 1), m \in T PROVE m + 1 \in T
  <2>1. PICK g : g = f[m]
    OBVIOUS
  <2>2. PICK to \in Nat : to = at + m
    BY <1>1
  <2>3. Where(g, res, reps, to, out)
    BY <1>6, <2>1, <2>2
  <2>4. Stands(g, reps, to, out) /\ Within1(g, res)
    BY <2>3 DEF Where
  <2>5. to < all
    BY <1>1, <1>4, <2>2
  <2>6. Stands(DecodeOctet(g, BlockOctets(reps)[to + 1]), reps, to + 1, out)
    BY <1>4, <2>4, <2>5, StandsStep, Zenon
  <2>7. Within1(DecodeOctet(g, BlockOctets(reps)[to + 1]), res)
    BY <2>4, ResultKept, Zenon
  <2>8. /\ m + 1 \in 1..n /\ (m + 1) - 1 = m /\ at + (m + 1) = to + 1
        /\ at + (m + 1) \in Nat
    BY <1>1, <2>2
  <2>9. o[m + 1] = BlockOctets(reps)[to + 1]
    BY <1>1, <2>8
  <2>10. f[m + 1] = DecodeOctet(g, BlockOctets(reps)[to + 1])
    BY <1>3, <2>1, <2>8, <2>9
  <2>11. Where(f[m + 1], res, reps, at + (m + 1), out)
    BY <2>6, <2>7, <2>8, <2>10 DEF Where
  <2> QED
    BY <2>8, <2>11
<1>7. n \in T
  <2> HIDE DEF T
  <2>1. Climbs(T, 0, n)
    BY <1>5, <1>6 DEF Climbs
  <2> QED
    BY <2>1, Reaches
<1> QED
  BY <1>2, <1>7

(***************************************************************************)
(* How a call ends.                                                        *)
(***************************************************************************)

\* What a call that fails leaves.
Ruined(r) ==
    /\ r \in Decoder /\ Healthy(r.hp) /\ r.hp.magic = "DEFUNCT"
    /\ r.used <= BufLen /\ Fit(r) /\ Measures(r.heard)

RuinedAs(r, e, ret) == Ruined(r) /\ r.ret = ret /\ r.heard = e.heard

\* The error a call fails with.
LEMMA Ruins ==
    ASSUME NEW e, Within(e), NEW err \in Results,
           NEW hp, hp = e.hp \/ hp = At(e.hp, err),
           NEW ret \in Results \cup {"SKP", "RSZ"}
    PROVE  RuinedAs([e EXCEPT !.hp = Defunct(hp), !.ret = ret], e, ret)
<1>1. /\ e \in Decoder /\ Able(e.hp) /\ e.used <= BufLen /\ Fit(e)
      /\ Measures(e.heard)
  BY DEF Within
<1>2. Healthy(e.hp) /\ e.hp.magic = "DECODER" /\ e.hp \in Codec
  BY <1>1, AbleIs
<1>3. Healthy(hp)
  <2>1. Healthy(At(e.hp, err))
    BY <1>2, ResultHealthy, Zenon DEF At
  <2> QED
    BY <1>2, <2>1
<1>4. hp.magic = "DECODER"
  BY <1>2, AtIs
<1>5. PICK g : g = Defunct(hp)
  OBVIOUS
<1>6. Healthy(g) /\ g.magic = "DEFUNCT"
  <2>1. hp \in Codec
    BY <1>3 DEF Healthy
  <2>2. g.magic = "DEFUNCT"
    BY <1>4, <1>5, <2>1 DEF Defunct, Codec
  <2> QED
    BY <1>3, <1>5, <2>2, FailureHealthy
<1>7. g \in Codec
  BY <1>6 DEF Healthy
<1>8. PICK r : r = [e EXCEPT !.hp = g, !.ret = ret]
  OBVIOUS
<1>9. r \in Decoder
  BY <1>1, <1>7, <1>8 DEF Decoder
<1>10. /\ r.hp = g /\ r.ret = ret /\ r.used = e.used /\ r.nam = e.nam
       /\ r.val = e.val /\ r.heard = e.heard
  BY <1>1, <1>8 DEF Decoder
<1>11. Fit(r)
  BY <1>1, <1>10 DEF Fit
<1>12. Ruined(r)
  BY <1>1, <1>6, <1>9, <1>10, <1>11 DEF Ruined
<1> QED
  BY <1>5, <1>8, <1>10, <1>12 DEF RuinedAs

\* The strings of the current field lie in what has been written.
LEMMA ReadingFits ==
    ASSUME NEW e, Live(e), NEW rep \in BlockRep, Idle(e) \/ Reading(e, rep)
    PROVE  Fit(e)
<1>1. /\ e.used \in Nat /\ e.nam \in Nat \cup {-1} /\ e.val \in Nat \cup {-1}
      /\ e.namsz \in Nat /\ e.stp \in Steps
  BY LiveIs, DecoderIs
<1>2. CASE e.nam = -1 /\ e.val = -1
  BY <1>1, <1>2 DEF Fit
<1>3. CASE ~(e.nam = -1 /\ e.val = -1)
  <2>1. Reading(e, rep)
    BY <1>3 DEF Idle
  <2>2. e.stp # "FLD_INT" /\ e.nam \in Nat
    BY <1>1, <1>3, <2>1 DEF Reading
  <2>3. CASE e.stp = "NAM_LEN"
    <3>1. e.used = e.nam /\ e.val = -1
      BY <2>1, <2>3 DEF Reading
    <3> QED
      BY <1>1, <3>1 DEF Fit
  <2>4. CASE e.stp = "NAM_STR"
    <3>1. /\ e.val = -1 /\ e.left \in 1..Len(rep.nput)
          /\ e.used = e.nam + SumOf(rep.nput, Len(rep.nput) - e.left)
      BY <2>1, <2>4 DEF Reading
    <3>2. SumOf(rep.nput, Len(rep.nput) - e.left) \in Nat
      BY <3>1, OneMore, BlockRepType
    <3> QED
      BY <1>1, <2>2, <3>1, <3>2 DEF Fit
  <2>5. CASE e.stp \in {"VAL_LEN", "VAL_STR"}
    <3>1. e.val = e.nam + e.namsz + 1
      BY <2>1, <2>5 DEF Reading, Named
    <3>2. e.used >= e.val
      <4>1. CASE e.stp = "VAL_LEN"
        <5>1. e.used = e.val
          BY <2>1, <4>1 DEF Reading
        <5> QED
          BY <1>1, <5>1
      <4>2. CASE e.stp = "VAL_STR"
        <5>1. /\ e.left \in 1..Len(rep.vput)
              /\ e.used = e.val + SumOf(rep.vput, Len(rep.vput) - e.left)
          BY <2>1, <4>2 DEF Reading
        <5>2. SumOf(rep.vput, Len(rep.vput) - e.left) \in Nat
          BY <5>1, OneMore, BlockRepType
        <5> QED
          BY <1>1, <5>1, <5>2
      <4> QED
        BY <2>5, <4>1, <4>2
    <3> QED
      BY <1>1, <2>2, <3>1, <3>2 DEF Fit
  <2> QED
    BY <1>1, <2>2, <2>3, <2>4, <2>5 DEF Steps
<1> QED
  BY <1>2, <1>3

\* A live decoder may still fail.
LEMMA LiveWithin ==
    ASSUME NEW e, Live(e), Fit(e)
    PROVE  Within(e)
BY LiveIs DEF Within

\* After an error.
LEMMA BrokenEnds ==
    ASSUME NEW e, NEW out, Broken(e, out), NEW cut
    PROVE  RuinedAs(EndCall(e, cut), e, e.ret)
<1>1. Within(e) /\ e.ret \in Errors
  BY DEF Broken
<1>2. e.ret # "ARG" /\ e.ret # "OK"
  BY <1>1 DEF Errors
<1>3. EndCall(e, cut)
      = [e EXCEPT !.hp = Defunct(IF e.ret = "RSZ" THEN @ ELSE At(@, e.ret))]
  BY <1>2 DEF EndCall, At
<1>4. PICK hp : hp = IF e.ret = "RSZ" THEN e.hp ELSE At(e.hp, e.ret)
  OBVIOUS
<1>5. PICK err \in Results : hp = e.hp \/ hp = At(e.hp, err)
  <2>1. "BIG" \in Results
    BY DEF Results
  <2>2. e.ret # "RSZ" => e.ret \in Results
    BY <1>1 DEF Errors, Results
  <2> QED
    BY <1>4, <2>1, <2>2
<1>6. e \in Decoder
  BY <1>1 DEF Within
<1>7. EndCall(e, cut) = [e EXCEPT !.hp = Defunct(hp), !.ret = e.ret]
  BY <1>3, <1>4, <1>6 DEF Decoder
<1>8. e.ret \in Results \cup {"SKP", "RSZ"}
  BY <1>6, DecoderIs
<1>9. RuinedAs([e EXCEPT !.hp = Defunct(hp), !.ret = e.ret], e, e.ret)
  BY <1>1, <1>5, <1>8, Ruins, Zenon
<1> QED
  BY <1>7, <1>9

\* Where a representation is incomplete.
LEMMA ShortEnds ==
    ASSUME NEW e, Live(e), NEW rep \in BlockRep, Reading(e, rep)
    PROVE  RuinedAs(EndCall(e, FALSE), e, "BUF")
<1>1. Partial(e)
  BY DEF Reading, Partial
<1>2. e.ret = "OK" /\ e \in Decoder
  BY LiveIs
<1>3. EndCall(e, FALSE) = [e EXCEPT !.hp = Defunct(At(@, "BUF")), !.ret = "BUF"]
  BY <1>1, <1>2 DEF EndCall, At
<1>4. PICK hp : hp = At(e.hp, "BUF")
  OBVIOUS
<1>5. EndCall(e, FALSE) = [e EXCEPT !.hp = Defunct(hp), !.ret = "BUF"]
  BY <1>3, <1>4
<1>6. "BUF" \in Results
  BY DEF Results
<1>7. Within(e)
  BY ReadingFits, LiveWithin, Zenon
<1>8. RuinedAs([e EXCEPT !.hp = Defunct(hp), !.ret = "BUF"], e, "BUF")
  BY <1>4, <1>6, <1>7, Ruins, Zenon
<1> QED
  BY <1>5, <1>8

\* Where more is to come, and where nothing is.
LEMMA LiveEnds ==
    ASSUME NEW e, Live(e)
    PROVE  /\ EndCall(e, TRUE) = [e EXCEPT !.ret = "BLK"]
           /\ Idle(e) => EndCall(e, FALSE)
                         = [e EXCEPT !.ret = IF e.big THEN "SKP" ELSE "OK"]
<1>1. e.ret = "OK"
  BY LiveIs
<1>2. EndCall(e, TRUE) = [e EXCEPT !.ret = "BLK"]
  BY <1>1 DEF EndCall
<1>3. ASSUME Idle(e)
      PROVE  EndCall(e, FALSE) = [e EXCEPT !.ret = IF e.big THEN "SKP" ELSE "OK"]
  <2>1. ~Partial(e)
    BY <1>3 DEF Idle, Partial
  <2> QED
    BY <1>1, <2>1 DEF EndCall
<1> QED
  BY <1>2, <1>3

\* The last representation begins behind all others, and is not left out.
LEMMA LengthIs ==
    ASSUME NEW reps \in Seq(BlockRep), NEW len, len \in Lengths(reps),
           NEW k \in Nat, k < Len(reps)
    PROVE  /\ Len(BlockOctets(reps)) \in Nat /\ len \in Nat
           /\ len <= Len(BlockOctets(reps))
           /\ Len(FirstOctets(reps, k)) \in Nat
           /\ Len(FirstOctets(reps, k)) < len
<1>1. PICK l \in Nat : l = Len(reps) - 1 /\ l + 1 = Len(reps) /\ k <= l
  BY LenProperties
<1>2. PICK o \in Seq(Octet) : o = Octets(reps[l + 1])
  BY <1>1, FirstStarts, OctetsType
<1>3. \A i \in 0..(l + 1) : Len(FirstOctets(reps, i)) \in Nat
  BY <1>1, FirstStarts, LenProperties
<1>4. \A i \in 0..l : /\ reps[i + 1] \in BlockRep
                      /\ Len(FirstOctets(reps, i + 1))
                         = Len(FirstOctets(reps, i)) + Len(Octets(reps[i + 1]))
  <2> SUFFICES ASSUME NEW i \in 0..l
               PROVE  /\ reps[i + 1] \in BlockRep
                      /\ Len(FirstOctets(reps, i + 1))
                         = Len(FirstOctets(reps, i)) + Len(Octets(reps[i + 1]))
    OBVIOUS
  <2>1. i \in 0..Len(reps) /\ i < Len(reps)
    BY <1>1
  <2> QED
    BY <2>1, FirstStarts DEF Concat
<1>5. \A i \in 0..l : Len(Octets(reps[i + 1])) \in Nat \ {0}
  BY <1>4, OctetsType
<1> DEFINE T == {i \in k..l : Len(FirstOctets(reps, k)) <= Len(FirstOctets(reps, i))}
<1>6. k \in T
  BY <1>1, <1>3
<1>7. ASSUME NEW i \in k..(l - 1), i \in T PROVE i + 1 \in T
  <2>1. i \in 0..l /\ i \in 0..(l + 1) /\ i + 1 \in 0..(l + 1) /\ k \in 0..(l + 1)
    BY <1>1
  <2>2. PICK a \in Nat, b \in Nat, c \in Nat :
           /\ a = Len(FirstOctets(reps, k)) /\ b = Len(FirstOctets(reps, i))
           /\ c = Len(FirstOctets(reps, i + 1))
    BY <1>3, <2>1, Zenon
  <2>3. PICK n \in Nat : n = Len(Octets(reps[i + 1]))
    BY <1>5, <2>1
  <2>4. c = b + n
    BY <1>4, <2>1, <2>2, <2>3
  <2>5. a <= b
    BY <1>7, <2>2
  <2>6. a <= c
    BY <2>4, <2>5
  <2> QED
    BY <1>1, <2>2, <2>6
<1>8. l \in T
  <2> HIDE DEF T
  <2>1. Climbs(T, k, l)
    BY <1>6, <1>7 DEF Climbs
  <2>2. k \in Int /\ l \in Int
    BY <1>1
  <2> QED
    BY <1>1, <2>1, <2>2, Reaches
<1>9. /\ Last(reps) = reps[l + 1]
      /\ BlockOctets(reps) = FirstOctets(reps, l + 1)
  BY <1>1 DEF Last, BlockOctets
<1>10. PICK all \in Nat, m \in Nat, n \in Nat :
          /\ all = Len(BlockOctets(reps)) /\ m = Len(FirstOctets(reps, l))
          /\ n = Len(Octets(reps[l + 1]))
  <2>1. l \in 0..l /\ l \in 0..(l + 1) /\ l + 1 \in 0..(l + 1)
    BY <1>1
  <2>2. /\ Len(BlockOctets(reps)) \in Nat /\ Len(FirstOctets(reps, l)) \in Nat
        /\ Len(Octets(reps[l + 1])) \in Nat
    <3>1. Len(FirstOctets(reps, l + 1)) \in Nat
      BY <1>3, <2>1, Zenon
    <3> QED
      BY <1>3, <1>5, <1>9, <2>1, <3>1
  <2> QED
    BY <2>2, Zenon
<1>11. all = m + n
  BY <1>4, <1>9, <1>10
<1>12. len \in (all - n + 1)..all
  BY <1>9, <1>10 DEF Lengths
<1> QED
  BY <1>1, <1>3, <1>8, <1>10, <1>11, <1>12, SMTT(60)

\* A call that fails, for an error of the block or a field that does not fit.
Fails(r, wants) ==
    /\ Ruined(r) /\ r.ret \notin {"OK", "SKP", "BLK", "FLD"}
    /\ Starts(Fields(r.heard), wants.flds)
    /\ IF r.ret = "BIG" THEN wants.errs # {} \/ ~AllFit(wants.flds)
       ELSE r.ret \in wants.errs

\* One that waits for more octets.
Waits(r, reps, at, out) ==
    \E e : \E k \in Nat : /\ Ahead(e, reps, k, at, out) /\ e.hp.res = "BLK"
                          /\ r = [e EXCEPT !.ret = "BLK"]

\* One that has decoded the block.
Succeeds(r, out, wants) ==
    \E e : /\ Live(e) /\ Idle(e) /\ e.hp.res = "OK"
           /\ out = [hp |-> At(e.hp, "OK"), ret |-> "OK", flds |-> Fields(e.heard)]
           /\ r = [e EXCEPT !.ret = IF e.big THEN "SKP" ELSE "OK"]
           /\ wants.errs = {} /\ wants.flds = Fields(e.heard)

\* An error that has been met.
LEMMA BrokenFails ==
    ASSUME NEW e, NEW out, Broken(e, out), NEW reps, NEW len, NEW cut
    PROVE  Fails(EndCall(e, cut), Wanted(out, reps, len))
<1>1. PICK r : r = EndCall(e, cut)
  OBVIOUS
<1>2. Ruined(r) /\ r.ret = e.ret /\ r.heard = e.heard
  BY <1>1, BrokenEnds, Zenon DEF RuinedAs
<1>3. /\ e.ret \in Errors /\ Starts(Fields(e.heard), out.flds)
      /\ IF e.ret = "BIG" THEN out.ret # "OK" \/ ~AllFit(out.flds)
         ELSE out.ret = e.ret
  BY DEF Broken
<1>4. PICK wants : wants = Wanted(out, reps, len)
  OBVIOUS
<1>5. wants.flds = out.flds /\ (out.ret # "OK" => out.ret \in wants.errs)
  BY <1>4 DEF Wanted
<1>6. e.ret \notin {"OK", "SKP", "BLK", "FLD"}
  BY <1>3 DEF Errors
<1>7. IF r.ret = "BIG" THEN wants.errs # {} \/ ~AllFit(wants.flds)
      ELSE r.ret \in wants.errs
  BY <1>2, <1>3, <1>5, <1>6
<1>8. Starts(Fields(r.heard), wants.flds)
  BY <1>2, <1>3, <1>5
<1>9. r.ret \notin {"OK", "SKP", "BLK", "FLD"}
  BY <1>2, <1>6
<1>10. Fails(r, wants)
  BY <1>2, <1>7, <1>8, <1>9, Zenon DEF Fails
<1> QED
  BY <1>1, <1>4, <1>10

\* A block whose last representation is incomplete.
LEMMA ShortFails ==
    ASSUME NEW e, NEW reps \in Seq(BlockRep), NEW k \in Nat, NEW len, NEW out,
           Ahead(e, reps, k, len, out), len \in Lengths(reps)
    PROVE  Fails(EndCall(e, FALSE), Wanted(out, reps, len))
<1>1. /\ Live(e) /\ k < Len(reps)
      /\ Idle(e) \/ Reading(e, reps[k + 1])
      /\ len = Len(FirstOctets(reps, k)) + Place(e, reps[k + 1])
      /\ out = Outcome(Acc(e), reps, k)
  BY DEF Ahead
<1>2. len \in Nat /\ len < Len(BlockOctets(reps))
  BY AheadStep, Zenon
<1>3. Len(FirstOctets(reps, k)) \in Nat /\ Len(FirstOctets(reps, k)) < len
  BY <1>1, LengthIs
<1>4. ~Idle(e)
  <2>1. ASSUME Idle(e) PROVE Place(e, reps[k + 1]) = 0
    BY <2>1 DEF Idle, Place
  <2> QED
    BY <1>1, <1>2, <1>3, <2>1
<1>5. Live(e) /\ Reading(e, reps[k + 1])
  BY <1>1, <1>4 DEF Ahead
<1>6. reps[k + 1] \in BlockRep
  BY <1>1, FirstStarts, LenProperties
<1>7. PICK r : r = EndCall(e, FALSE)
  OBVIOUS
<1>8. Ruined(r) /\ r.ret = "BUF" /\ r.heard = e.heard
  BY <1>5, <1>6, <1>7, ShortEnds, Zenon DEF RuinedAs
<1>9. PICK wants : wants = Wanted(out, reps, len)
  OBVIOUS
<1>10. wants.flds = out.flds /\ "BUF" \in wants.errs
  BY <1>2, <1>9 DEF Wanted
<1>11. Starts(Fields(e.heard), out.flds)
  <2>1. PICK acc : acc = Acc(e)
    OBVIOUS
  <2>2. Sane(acc)
    BY <1>5, <2>1, AccSane
  <2>3. acc.flds = Fields(e.heard)
    BY <2>1 DEF Acc
  <2>4. k \in 0..Len(reps)
    BY <1>1, LenProperties
  <2>5. out = Outcome(acc, reps, k)
    BY <2>1 DEF Ahead
  <2> QED
    BY <2>2, <2>3, <2>4, <2>5, OutcomeSane
<1>12. Fails(r, wants)
  BY <1>8, <1>10, <1>11 DEF Fails
<1> QED
  BY <1>7, <1>9, <1>12

\* Where a call ends: its octets end at at, the block at len.
EndsAt(at, len, cut, reps) ==
    /\ at \in Nat /\ at <= len /\ len \in Lengths(reps) /\ cut = (at < len)

\* What becomes of it.
LEMMA CallEnds ==
    ASSUME NEW e, NEW reps \in Seq(BlockRep), NEW at, NEW out, NEW len, NEW cut,
           EndsAt(at, len, cut, reps), Where(e, Result(cut), reps, at, out)
    PROVE  \/ Fails(EndCall(e, cut), Wanted(out, reps, len))
           \/ cut /\ Waits(EndCall(e, cut), reps, at, out)
           \/ ~cut /\ Succeeds(EndCall(e, cut), out, Wanted(out, reps, len))
<1>1. /\ at \in Nat /\ at <= len /\ len \in Lengths(reps) /\ cut = (at < len)
  BY DEF EndsAt
<1>2. Stands(e, reps, at, out) /\ e.hp.res = Result(cut)
  BY Zenon DEF Where, Within1
<1>3. ASSUME Broken(e, out)
      PROVE  Fails(EndCall(e, cut), Wanted(out, reps, len))
  BY <1>3, BrokenFails, Zenon
<1>4. ASSUME cut, NEW k \in Nat, Ahead(e, reps, k, at, out)
      PROVE  Waits(EndCall(e, cut), reps, at, out)
  <2>1. Live(e)
    BY <1>4 DEF Ahead
  <2>2. EndCall(e, cut) = [e EXCEPT !.ret = "BLK"]
    BY <1>1, <1>4, <2>1, LiveEnds
  <2>3. e.hp.res = "BLK"
    BY <1>2, <1>4 DEF Result
  <2> QED
    BY <1>4, <2>2, <2>3, Zenon DEF Waits
<1>5. PICK all \in Nat : all = Len(BlockOctets(reps))
  <2>1. BlockOctets(reps) = FirstOctets(reps, Len(reps)) /\ Len(reps) \in Nat
    BY LenProperties DEF BlockOctets
  <2>2. FirstOctets(reps, Len(reps)) \in Seq(Octet)
    BY <2>1, FirstStarts
  <2> QED
    BY <2>1, <2>2, LenProperties
<1>6. len \in Int /\ len <= all
  <2>1. len \in (all - Len(Octets(Last(reps))) + 1)..all
    BY <1>1, <1>5 DEF Lengths
  <2> QED
    BY <2>1
<1>7. ASSUME ~cut PROVE at = len
  <2>1. ~(at < len)
    BY <1>1, <1>7, Zenon
  <2> QED
    BY <1>1, <1>6, <2>1
<1>8. ASSUME ~cut, NEW k \in Nat, Ahead(e, reps, k, at, out)
      PROVE  Fails(EndCall(e, cut), Wanted(out, reps, len))
  <2>1. Ahead(e, reps, k, len, out) /\ cut = FALSE
    BY <1>1, <1>7, <1>8
  <2>2. Fails(EndCall(e, FALSE), Wanted(out, reps, len))
    BY <1>1, <2>1, ShortFails, Zenon
  <2> QED
    BY <2>1, <2>2
<1>9. ASSUME AllRead(e, reps, at, out)
      PROVE  ~cut /\ Succeeds(EndCall(e, cut), out, Wanted(out, reps, len))
  <2>1. /\ Live(e) /\ Idle(e) /\ at = all
        /\ out = [hp |-> At(e.hp, "OK"), ret |-> "OK", flds |-> Fields(e.heard)]
    BY <1>5, <1>9 DEF AllRead
  <2>8. len = all /\ ~(at < len)
    BY <1>1, <1>6, <2>1
  <2>9. cut = FALSE
    <3>4. (at < len) \in BOOLEAN
      OBVIOUS
    <3>1. PICK c \in BOOLEAN : c = (at < len)
      BY <3>4, Zenon
    <3>2. c = FALSE
      BY <2>8, <3>1
    <3>3. cut = c
      BY <1>1, <3>1, Zenon
    <3> QED
      BY <3>2, <3>3
  <2>2. cut = FALSE /\ len = all
    BY <2>8, <2>9
  <2>3. EndCall(e, cut) = [e EXCEPT !.ret = IF e.big THEN "SKP" ELSE "OK"]
    BY <2>1, <2>2, LiveEnds
  <2>4. PICK wants : wants = Wanted(out, reps, len)
    OBVIOUS
  <2>5. wants.errs = {} /\ wants.flds = Fields(e.heard)
    <3>1. out.ret = "OK" /\ out.flds = Fields(e.heard)
      BY <2>1
    <3>2. ~(len < Len(BlockOctets(reps)))
      BY <1>5, <2>2
    <3> QED
      BY <2>4, <3>1, <3>2 DEF Wanted
  <2>6. e.hp.res = "OK"
    BY <1>2, <2>2 DEF Result
  <2>7. Succeeds(EndCall(e, cut), out, wants)
    BY <2>1, <2>3, <2>5, <2>6, Zenon DEF Succeeds
  <2> QED
    BY <2>2, <2>4, <2>7
<1> QED
  BY <1>2, <1>3, <1>4, <1>8, <1>9, Zenon DEF Stands

(***************************************************************************)
(* How a call begins.                                                      *)
(***************************************************************************)

\* A decoder that differs in the results of the call and of the codec only.
Again(r, e, res, ret) ==
    /\ r \in Decoder /\ r.hp = At(e.hp, res) /\ r.ret = ret
    /\ r.stp = e.stp /\ r.bsy = e.bsy /\ r.typ = e.typ /\ r.left = e.left
    /\ r.used = e.used /\ r.nam = e.nam /\ r.val = e.val
    /\ r.namsz = e.namsz /\ r.name = e.name /\ r.flds = e.flds
    /\ r.heard = e.heard /\ r.big = e.big

\* It is one such.
LEMMA AgainIs ==
    ASSUME NEW e \in Decoder, NEW res \in Results,
           NEW ret \in Results \cup {"SKP", "RSZ"},
           NEW r, r = [e EXCEPT !.hp = At(e.hp, res), !.ret = ret]
    PROVE  Again(r, e, res, ret)
<1>1. PICK hp \in Codec : hp = At(e.hp, res)
  BY DecoderIs, AtIs
<1>2. r = [e EXCEPT !.hp = hp, !.ret = ret]
  BY <1>1
<1>3. r \in Decoder
  BY <1>2 DEF Decoder
<1>4. r.hp = hp /\ r.ret = ret
  BY <1>2 DEF Decoder
<1>5. /\ r.stp = e.stp /\ r.bsy = e.bsy /\ r.typ = e.typ /\ r.left = e.left
      /\ r.used = e.used /\ r.nam = e.nam /\ r.val = e.val
      /\ r.namsz = e.namsz /\ r.name = e.name /\ r.flds = e.flds
      /\ r.heard = e.heard /\ r.big = e.big
  BY <1>2 DEF Decoder
<1> QED
  BY <1>1, <1>3, <1>4, <1>5 DEF Again

\* Where it stands is where it stood.
LEMMA AgainStands ==
    ASSUME NEW e \in Decoder, NEW res \in Results, NEW ret, NEW r,
           Again(r, e, res, ret)
    PROVE  /\ Idle(r) <=> Idle(e)
           /\ Held(r) <=> Held(e)
           /\ Dropped(r) <=> Dropped(e)
           /\ Acc(r) = Acc(e)
           /\ \A rep : Place(r, rep) = Place(e, rep)
           /\ \A rep : Reading(e, rep) => Reading(r, rep)
<1>1. /\ r.hp = At(e.hp, res)
      /\ r.stp = e.stp /\ r.bsy = e.bsy /\ r.typ = e.typ /\ r.left = e.left
      /\ r.used = e.used /\ r.nam = e.nam /\ r.val = e.val
      /\ r.namsz = e.namsz /\ r.name = e.name /\ r.flds = e.flds
      /\ r.heard = e.heard /\ r.big = e.big
  BY DEF Again
<1>2. e.hp \in Codec
  BY DecoderIs
<1>3. Idle(r) <=> Idle(e)
  BY <1>1, Zenon DEF Idle
<1>4. Held(r) <=> Held(e)
  BY <1>1, HeldIs, Zenon
<1>5. Dropped(r) <=> Dropped(e)
  BY <1>1, HeldIs, Zenon
<1>6. \A x : At(r.hp, x) = At(e.hp, x)
  BY <1>1, <1>2, AtIs
<1>7. Acc(r) = Acc(e)
  BY <1>1, <1>6, Zenon DEF Acc
<1>8. ASSUME NEW rep PROVE Place(r, rep) = Place(e, rep)
  BY <1>1, Zenon DEF Place
<1>9. ASSUME NEW rep, Reading(e, rep) PROVE Reading(r, rep)
  <2>1. /\ r.hp.upd = e.hp.upd /\ r.hp.min = e.hp.min /\ r.hp.nxt = e.hp.nxt
        /\ Indices(r.hp) = Indices(e.hp)
        /\ \A i : HPT_field(r.hp, i) = HPT_field(e.hp, i)
    BY <1>1, <1>2, AtIs
  <2>2. Admitted(e.hp, rep) => Admitted(r.hp, rep)
    BY <2>1, Zenon DEF Admitted
  <2>3. Named(e, rep) => Named(r, rep)
    BY <1>1, <2>1, Zenon DEF Named, NameOf
  <2> QED
    BY <1>1, <1>9, <2>2, <2>3, Zenon DEF Reading
<1> QED
  BY <1>3, <1>4, <1>5, <1>7, <1>8, <1>9

\* What a decoder is between two calls.
Settled(e) ==
    /\ e \in Decoder /\ Able(e.hp) /\ Held(e) /\ Dropped(e)
    /\ AllFit(Fields(e.heard)) /\ Measures(e.heard)

\* A call for more of a block goes on from where the last one ended.
LEMMA BlockContinues ==
    ASSUME NEW e, Settled(e), e.hp.res = "BLK", NEW reps, NEW k \in Nat,
           k < Len(reps), Idle(e) \/ Reading(e, reps[k + 1]),
           NEW at, at = Len(FirstOctets(reps, k)) + Place(e, reps[k + 1]),
           NEW out, out = Outcome(Acc(e), reps, k), NEW cut \in BOOLEAN
    PROVE  Where(BeginCall(e, cut, TRUE), Result(cut), reps, at, out)
<1>1. /\ e \in Decoder /\ Able(e.hp) /\ Held(e) /\ Dropped(e)
      /\ AllFit(Fields(e.heard)) /\ Measures(e.heard)
  BY DEF Settled
<1>2. e.hp \in Codec /\ e.hp.self /\ e.hp.res = "BLK"
  BY <1>1, AbleIs
<1>3. PICK res \in {"OK", "BLK"} : res = Result(cut)
  BY DEF Result
<1>4. BeginDecode(e.hp, cut) = At(e.hp, res)
  <2>1. BeginDecode(e.hp, cut) = [e.hp EXCEPT !.res = res, !.upd = @]
    BY <1>2, <1>3 DEF BeginDecode, Result
  <2> QED
    BY <1>2, <2>1 DEF At, Codec
<1>5. PICK r : r = BeginCall(e, cut, TRUE)
  OBVIOUS
<1>6. r = [e EXCEPT !.hp = BeginDecode(@, cut), !.ret = "OK"]
  BY <1>2, <1>5 DEF BeginCall
<1>7. r = [e EXCEPT !.hp = At(e.hp, res), !.ret = "OK"]
  BY <1>4, <1>6
<1>8. "OK" \in Results \cup {"SKP", "RSZ"} /\ res \in Results
  BY DEF Results
<1>9. Again(r, e, res, "OK")
  BY <1>1, <1>7, <1>8, AgainIs, Zenon
<1>10. /\ r \in Decoder /\ r.hp = At(e.hp, res) /\ r.ret = "OK"
       /\ r.heard = e.heard
  BY <1>9 DEF Again
<1>11. /\ Idle(r) <=> Idle(e)
       /\ Held(r) <=> Held(e)
       /\ Dropped(r) <=> Dropped(e)
       /\ Acc(r) = Acc(e)
       /\ \A rep : Place(r, rep) = Place(e, rep)
       /\ \A rep : Reading(e, rep) => Reading(r, rep)
  BY <1>1, <1>8, <1>9, AgainStands
<1>12. Able(r.hp)
  BY <1>1, <1>10, AbleAt
<1>13. Live(r)
  BY <1>1, <1>10, <1>11, <1>12 DEF Live
<1>14. at = Len(FirstOctets(reps, k)) + Place(r, reps[k + 1])
  BY <1>11, Zenon
<1>15. Ahead(r, reps, k, at, out)
  BY <1>11, <1>13, <1>14, Zenon DEF Ahead
<1>16. Within1(r, Result(cut))
  <2>1. r.hp.res = Result(cut) /\ "res" \in DOMAIN r.hp /\ "hp" \in DOMAIN r
    BY <1>2, <1>3, <1>10 DEF At, Codec, Decoder
  <2> QED
    BY <2>1 DEF Within1
<1>17. Where(r, Result(cut), reps, at, out)
  BY <1>15, <1>16, Zenon DEF Where, Stands
<1> QED
  BY <1>5, <1>17

\* At the beginning of a block, what the last one left does not matter.
LEMMA FirstWhole ==
    ASSUME NEW hp, Able(hp), hp.res = "OK", NEW rep, NEW cut \in BOOLEAN
    PROVE  WholeRep(BeginDecode(hp, TRUE), rep, cut) = WholeRep(hp, rep, cut)
<1>0. PICK g : g = BeginDecode(hp, TRUE)
  OBVIOUS
<1>1. hp \in Codec /\ hp.self
  BY AbleIs
<1>2. g = [hp EXCEPT !.res = "BLK", !.upd = TRUE]
  BY <1>0, <1>1 DEF BeginDecode
<1>3. g.res = "BLK" /\ g.self /\ g.upd = TRUE /\ g \in Codec
  BY <1>1, <1>2 DEF Codec, Results
<1>4. PICK res \in {"OK", "BLK"} : res = IF cut THEN "BLK" ELSE "OK"
  OBVIOUS
<1>5. BeginDecode(g, cut) = [g EXCEPT !.res = res, !.upd = @]
  BY <1>3, <1>4 DEF BeginDecode
<1>6. BeginDecode(hp, cut) = [hp EXCEPT !.res = res, !.upd = TRUE]
  BY <1>1, <1>4 DEF BeginDecode
<1>7. BeginDecode(g, cut) = BeginDecode(hp, cut)
  <2>1. [g EXCEPT !.res = res, !.upd = @] = [g EXCEPT !.res = res, !.upd = TRUE]
    BY <1>3
  <2>2. [g EXCEPT !.res = res, !.upd = TRUE] = [hp EXCEPT !.res = res, !.upd = TRUE]
    BY <1>1, <1>2 DEF Codec
  <2> QED
    BY <1>5, <1>6, <2>1, <2>2
<1>8. PICK r : r = [typ |-> rep.typ, num |-> rep.num, fld |-> rep.fld, cut |-> cut]
  OBVIOUS
<1>9. r.cut = cut
  BY <1>8
<1>10. hpack_decode(g, r) = hpack_decode(hp, r)
  BY <1>7, <1>9, Zenon DEF hpack_decode
<1>11. WholeRep(g, rep, cut) = WholeRep(hp, rep, cut)
  BY <1>8, <1>10, Zenon DEF WholeRep
<1> QED
  BY <1>0, <1>11

\* Nothing has been decoded yet.
Afresh(r, hp) ==
    /\ Live(r) /\ Idle(r) /\ r.hp = hp /\ r.heard = <<>>

\* A call for a block begins it in an empty buffer.
LEMMA CallAfresh ==
    ASSUME NEW e \in Decoder, Able(e.hp), e.hp.res = "OK", ~e.big, Idle(e),
           NEW cut \in BOOLEAN
    PROVE  Afresh(BeginCall(e, cut, TRUE), BeginDecode(e.hp, cut))
<1>1. PICK hp : hp = BeginDecode(e.hp, cut)
  OBVIOUS
<1>2. Able(hp)
  <2>1. DecoderHealthy(hp) /\ hp.magic = "DECODER" /\ Begun(hp, e.hp, cut)
    <3>1. DecoderHealthy(e.hp) /\ e.hp.magic = "DECODER"
      BY AbleIs
    <3> QED
      BY <1>1, <3>1, BeginDecoder
  <2>2. hp.realloc = e.hp.realloc
    <3>1. e.hp \in Codec
      BY AbleIs
    <3>2. PICK res, upd : hp = [e.hp EXCEPT !.res = res, !.upd = upd]
      BY <2>1 DEF Begun
    <3> QED
      BY <3>1, <3>2 DEF Codec
  <2> QED
    BY <2>1, <2>2, AbleIs DEF Able
<1>3. hp \in Codec
  BY <1>2, AbleIs
<1>4. e.nam = -1 /\ e.val = -1 /\ ~e.bsy /\ e.bsy \in BOOLEAN
  BY DecoderIs DEF Idle
<1>5. PICK r : r = BeginCall(e, cut, TRUE)
  OBVIOUS
<1>6. r = [e EXCEPT !.used = 0, !.flds = <<>>, !.heard = <<>>,
                    !.stp = "FLD_INT", !.hp = hp, !.ret = "OK"]
  <2>1. r = [[e EXCEPT !.used = 0, !.flds = <<>>, !.heard = <<>>,
                       !.stp = "FLD_INT"]
               EXCEPT !.hp = BeginDecode(@, cut), !.ret = "OK"]
    BY <1>5 DEF BeginCall
  <2> QED
    BY <1>1, <2>1 DEF Decoder
<1>7. "OK" \in Results /\ "FLD_INT" \in Steps
  BY DEF Results, Steps
<1>8. <<>> \in Seq(Field) /\ <<>> \in Seq(Seen) /\ Len(<<>>) = 0
  OBVIOUS
<1>9. r \in Decoder
  BY <1>3, <1>6, <1>7, <1>8 DEF Decoder
<1>10. /\ r.hp = hp /\ r.ret = "OK" /\ r.used = 0 /\ r.flds = <<>>
       /\ r.heard = <<>> /\ r.stp = "FLD_INT" /\ r.nam = -1 /\ r.val = -1
       /\ ~r.bsy /\ ~r.big
  BY <1>4, <1>6 DEF Decoder
<1>11. Fields(<<>>) \in Seq(Field) /\ Len(Fields(<<>>)) = 0
  BY <1>8, FieldsType
<1>12. Fields(<<>>) = <<>>
  BY <1>11
<1>13. HeldAs(0, -1, <<>>, <<>>)
  <2>1. Rooms(<<>>) = 0
    BY <1>8, RoomsType
  <2>2. SubSeq(<<>>, 1, 0) = <<>>
    OBVIOUS
  <2>3. 0 <= BufLen
    BY PieceAssumption
  <2> QED
    BY <1>8, <1>12, <2>1, <2>2, <2>3 DEF HeldAs
<1>14. DroppedAs(0, <<>>, <<>>, FALSE)
  BY DEF DroppedAs
<1>15. Held(r)
  BY <1>10, <1>13, HeldIs, Zenon
<1>16. Dropped(r)
  <2>1. r.big = FALSE
    BY <1>9, <1>10, DecoderIs
  <2> QED
    BY <1>10, <1>14, <2>1, HeldIs, Zenon
<1>17. AllFit(Fields(<<>>)) /\ Measures(<<>>)
  BY <1>8, <1>12 DEF AllFit, Measures
<1>18. Live(r)
  BY <1>2, <1>9, <1>10, <1>15, <1>16, <1>17 DEF Live
<1>19. Idle(r)
  BY <1>10 DEF Idle
<1> QED
  BY <1>1, <1>5, <1>10, <1>18, <1>19 DEF Afresh

\* What the block says, said of the codec once hpack_decode has begun.
LEMMA SaysAfresh ==
    ASSUME NEW hp, Able(hp), hp.res = "OK", NEW cut \in BOOLEAN, NEW r,
           Afresh(r, BeginDecode(hp, cut)),
           NEW reps \in Seq(BlockRep), 0 < Len(reps)
    PROVE  Outcome(Nothing(hp), reps, 0) = Outcome(Acc(r), reps, 0)
<1>1. PICK g : g = BeginDecode(hp, TRUE)
  OBVIOUS
<1>2. hp \in Codec /\ hp.self
  BY AbleIs
<1>3. At(BeginDecode(hp, cut), "BLK") = g
  BY <1>1, <1>2 DEF At, BeginDecode, Codec
<1>4. Fields(<<>>) = <<>>
  <2>1. <<>> \in Seq(Seen) /\ Len(<<>>) = 0
    OBVIOUS
  <2>2. Fields(<<>>) \in Seq(Field) /\ Len(Fields(<<>>)) = 0
    BY <2>1, FieldsType
  <2> QED
    BY <2>2
<1>5. PICK acc : acc = Acc(r)
  OBVIOUS
<1>6. acc.hp = g /\ acc.ret = "OK" /\ acc.flds = <<>>
  BY <1>3, <1>4, <1>5 DEF Acc, Afresh
<1>7. PICK none : none = Nothing(hp)
  OBVIOUS
<1>8. none.hp = hp /\ none.ret = "OK" /\ none.flds = <<>>
  BY <1>7 DEF Nothing
<1>9. PICK len \in Nat : len = Len(reps) /\ 0 < len
  BY LenProperties
<1>10. PICK c \in BOOLEAN : c = (0 + 1 < len)
  <2>1. (0 + 1 < len) \in BOOLEAN
    OBVIOUS
  <2> QED
    BY <2>1, Zenon
<1>11. PICK rep : rep = reps[0 + 1]
  OBVIOUS
<1>12. WholeRep(acc.hp, rep, c) = WholeRep(none.hp, rep, c)
  <2>1. WholeRep(BeginDecode(hp, TRUE), rep, c) = WholeRep(hp, rep, c)
    BY FirstWhole, Zenon
  <2> QED
    BY <1>1, <1>6, <1>8, <2>1
<1>13. DecodeWhole(acc, rep, c) = DecodeWhole(none, rep, c)
  BY <1>6, <1>8, <1>12, Zenon DEF DecodeWhole
<1>14. 0 \in 0..len
  BY <1>9
<1>15. Outcome(acc, reps, 0) = Outcome(DecodeWhole(acc, reps[0 + 1], 0 + 1 < len), reps, 0 + 1)
  BY <1>9, <1>14, OutcomeNext, Zenon
<1>16. Outcome(none, reps, 0) = Outcome(DecodeWhole(none, reps[0 + 1], 0 + 1 < len), reps, 0 + 1)
  BY <1>9, <1>14, OutcomeNext, Zenon
<1>17. Outcome(none, reps, 0) = Outcome(acc, reps, 0)
  BY <1>10, <1>11, <1>13, <1>15, <1>16, Zenon
<1> QED
  BY <1>5, <1>7, <1>17

\* A call for a block stands at its beginning.
LEMMA BlockBegins ==
    ASSUME NEW e \in Decoder, Able(e.hp), e.hp.res = "OK", ~e.big, Idle(e),
           NEW reps \in Seq(BlockRep), 0 < Len(reps), NEW cut \in BOOLEAN,
           NEW out, out = Outcome(Nothing(e.hp), reps, 0)
    PROVE  Where(BeginCall(e, cut, TRUE), Result(cut), reps, 0, out)
<1>1. PICK r : r = BeginCall(e, cut, TRUE)
  OBVIOUS
<1>2. Afresh(r, BeginDecode(e.hp, cut))
  BY <1>1, CallAfresh
<1>3. Live(r) /\ Idle(r) /\ r.hp = BeginDecode(e.hp, cut)
  BY <1>2 DEF Afresh
<1>4. out = Outcome(Acc(r), reps, 0)
  BY <1>2, SaysAfresh
<1>5. Place(r, reps[0 + 1]) = 0
  BY <1>3 DEF Idle, Place
<1>6. FirstOctets(reps, 0) = <<>>
  BY FirstNext
<1>7. 0 = Len(FirstOctets(reps, 0)) + Place(r, reps[0 + 1])
  BY <1>5, <1>6
<1>8. 0 \in Nat
  OBVIOUS
<1>9. Ahead(r, reps, 0, 0, out)
  BY <1>3, <1>4, <1>7, <1>8, Zenon DEF Ahead
<1>10. Within1(r, Result(cut))
  <2>1. e.hp \in Codec /\ e.hp.self
    BY AbleIs
  <2>2. r.hp.res = Result(cut) /\ "res" \in DOMAIN r.hp
    BY <1>3, <2>1 DEF BeginDecode, Result, Codec
  <2>3. "hp" \in DOMAIN r
    BY <1>3, LiveIs DEF Decoder
  <2> QED
    BY <2>2, <2>3 DEF Within1
<1> QED
  BY <1>1, <1>8, <1>9, <1>10, Zenon DEF Where, Stands

(***************************************************************************)
(* The octets of a call, and those that are left.                          *)
(***************************************************************************)

\* t is what s has from a on, up to b.
Slice(t, s, a, b) ==
    Len(t) = b - a /\ \A i \in 1..(b - a) : t[i] = s[a + i]

\* A subsequence is.
LEMMA SliceIs ==
    ASSUME NEW S, NEW s \in Seq(S), NEW a \in Nat, NEW b \in Nat,
           b <= Len(s), a <= b, NEW t, t = SubSeq(s, a + 1, b)
    PROVE  t \in Seq(S) /\ Slice(t, s, a, b)
<1>1. \A i \in (a + 1)..b : s[i] \in S
  BY LenProperties, ElementOfSeq
<1>2. a + 1 \in Int /\ b \in Int
  OBVIOUS
<1>3. /\ t \in Seq(S)
      /\ Len(t) = IF a + 1 <= b THEN b - (a + 1) + 1 ELSE 0
      /\ \A i \in 1..(b - (a + 1) + 1) : t[i] = s[(a + 1) + i - 1]
  BY <1>1, <1>2, SubSeqProperties
<1>4. b - (a + 1) + 1 = b - a
  OBVIOUS
<1>5. \A i \in 1..(b - a) : t[i] = s[a + i]
  BY <1>3, <1>4
<1>6. Len(t) = b - a
  BY <1>3
<1> QED
  BY <1>3, <1>5, <1>6 DEF Slice

\* t is what s holds from a on, up to b.
Cut(t, s, a, b) == t = SubSeq(s, a + 1, b)
Parted(t, s, a, b, n, m) ==
    /\ Len(t) = b - a
    /\ Len(SubSeq(t, 1, n)) = n /\ \A i \in 1..n : SubSeq(t, 1, n)[i] = s[a + i]
    /\ SubSeq(t, n + 1, Len(t)) = SubSeq(s, m + 1, b)

\* What is left of what was left.
LEMMA CutParts ==
    ASSUME NEW S, NEW s \in Seq(S), NEW a \in Nat, NEW b \in Nat,
           b <= Len(s), NEW t, Cut(t, s, a, b),
           NEW n \in Nat, NEW m \in Nat, m = a + n, m <= b
    PROVE  Parted(t, s, a, b, n, m)
<1>18. a <= b
  OBVIOUS
<1>19. t = SubSeq(s, a + 1, b)
  BY DEF Cut
<1>1. t \in Seq(S) /\ Slice(t, s, a, b)
  BY <1>18, <1>19, SliceIs
<1>2. PICK l \in Nat : l = b - a
  OBVIOUS
<1>3. Len(t) = l /\ \A i \in 1..l : t[i] = s[a + i]
  BY <1>1, <1>2 DEF Slice
<1>4. PICK u : u = SubSeq(t, 1, n)
  OBVIOUS
<1>5. u \in Seq(S) /\ Slice(u, t, 0, n)
  <2>1. u = SubSeq(t, 0 + 1, n) /\ n <= Len(t) /\ 0 <= n
    BY <1>2, <1>3, <1>4
  <2> QED
    BY <1>1, <2>1, SliceIs
<1>6. Len(u) = n /\ \A i \in 1..n : u[i] = t[i]
  BY <1>5 DEF Slice
<1>7. \A i \in 1..n : u[i] = s[a + i]
  BY <1>2, <1>3, <1>6
<1>9. PICK v : v = SubSeq(t, n + 1, l)
  OBVIOUS
<1>10. v \in Seq(S) /\ Slice(v, t, n, l)
  <2>1. n <= l /\ l <= Len(t)
    BY <1>2, <1>3
  <2> QED
    BY <1>1, <1>9, <2>1, SliceIs
<1>12. PICK w : w = SubSeq(s, m + 1, b)
  OBVIOUS
<1>13. w \in Seq(S) /\ Slice(w, s, m, b)
  BY <1>12, SliceIs
<1>14. Len(v) = l - n /\ Len(w) = l - n
  BY <1>2, <1>10, <1>13 DEF Slice
<1>15. \A i \in 1..(l - n) : v[i] = w[i]
  <2>1. ASSUME NEW i \in 1..(l - n) PROVE v[i] = w[i]
    <3>1. v[i] = t[n + i]
      BY <1>10 DEF Slice
    <3>2. i \in 1..(b - m)
      BY <1>2
    <3>3. w[i] = s[m + i]
      BY <1>13, <3>2 DEF Slice
    <3>4. n + i \in 1..l /\ a + (n + i) = m + i
      BY <1>2
    <3>5. t[n + i] = s[a + (n + i)]
      BY <1>3, <3>4
    <3> QED
      BY <3>1, <3>3, <3>4, <3>5
  <2> QED
    BY <2>1
<1>16. v = w
  BY <1>10, <1>13, <1>14, <1>15, SeqEqual
<1>17. SubSeq(t, n + 1, Len(t)) = v
  BY <1>3, <1>9
<1>20. Len(t) = b - a
  BY <1>1 DEF Slice
<1> QED
  BY <1>4, <1>6, <1>7, <1>12, <1>16, <1>17, <1>20, Zenon DEF Parted

\* The first elements of a sequence.
LEMMA FrontIs ==
    ASSUME NEW S, NEW t \in Seq(S), NEW n \in Nat, n <= Len(t)
    PROVE  /\ SubSeq(t, 1, n) \in Seq(S) /\ Len(SubSeq(t, 1, n)) = n
           /\ \A i \in 1..n : SubSeq(t, 1, n)[i] = t[i]
<1>1. PICK v : v = SubSeq(t, 0 + 1, n)
  OBVIOUS
<1>2. 0 \in Nat /\ 0 <= n
  OBVIOUS
<1>3. v \in Seq(S) /\ Slice(v, t, 0, n)
  BY <1>1, <1>2, SliceIs
<1>4. Len(v) = n /\ \A i \in 1..n : v[i] = t[i]
  BY <1>3 DEF Slice
<1> QED
  BY <1>1, <1>3, <1>4

\* A sequence that another one begins with.
LEMMA StartsPrefix ==
    ASSUME NEW S, NEW s \in Seq(S), NEW t \in Seq(S)
    PROVE  /\ Starts(s, t) => IsPrefix(s, t) /\ s = SubSeq(t, 1, Len(s))
           /\ \A n \in 0..Len(t) : IsPrefix(SubSeq(t, 1, n), t)
<1>1. PICK l \in Nat, m \in Nat : l = Len(s) /\ m = Len(t)
  BY LenProperties
<1>2. ASSUME NEW n \in 0..m, NEW u \in Seq(S), Len(u) = n,
             \A i \in 1..n : u[i] = t[i]
      PROVE  IsPrefix(u, t) /\ u = SubSeq(t, 1, n)
  <2>0. n \in Nat /\ n <= Len(t) /\ n <= Len(u)
    BY <1>1, <1>2
  <2>1. PICK v : v = SubSeq(t, 1, n)
    OBVIOUS
  <2>2. v \in Seq(S) /\ Len(v) = n /\ \A i \in 1..n : v[i] = t[i]
    BY <2>0, <2>1, FrontIs
  <2>3. u = v
    BY <1>2, <2>2, SeqEqual
  <2>4. PICK w : w = SubSeq(u, 1, n)
    OBVIOUS
  <2>5. w \in Seq(S) /\ Len(w) = n /\ \A i \in 1..n : w[i] = u[i]
    BY <1>2, <2>0, <2>4, FrontIs
  <2>6. w = u
    BY <1>2, <2>5, SeqEqual
  <2>7. IsPrefix(u, t)
    BY <1>2, <2>0, <2>1, <2>3, <2>4, <2>6 DEF IsPrefix
  <2> QED
    BY <2>1, <2>3, <2>7
<1>3. ASSUME Starts(s, t) PROVE IsPrefix(s, t) /\ s = SubSeq(t, 1, l)
  <2>1. l \in 0..m /\ \A i \in 1..l : s[i] = t[i]
    BY <1>1, <1>3 DEF Starts
  <2> QED
    BY <1>1, <1>2, <2>1
<1>4. ASSUME NEW n \in 0..m PROVE IsPrefix(SubSeq(t, 1, n), t)
  <2>1. PICK v : v = SubSeq(t, 1, n)
    OBVIOUS
  <2>2. n \in Nat /\ n <= Len(t)
    BY <1>1
  <2>3. v \in Seq(S) /\ Len(v) = n /\ \A i \in 1..n : v[i] = t[i]
    BY <2>1, <2>2, FrontIs
  <2>4. IsPrefix(v, t)
    BY <1>2, <2>3
  <2> QED
    BY <2>1, <2>4
<1> QED
  BY <1>1, <1>3, <1>4

(***************************************************************************)
(* The inductive invariant, of any values of the variables.                *)
(***************************************************************************)

\* In any state.
Common(e, ps, wh) ==
    /\ e \in Decoder /\ wh \in Codec /\ e.used <= BufLen /\ Fit(e)
    /\ ps \in 0..Len(e.flds) /\ Measures(e.heard) /\ Healthy(e.hp)

\* What is still to come of a block, td, makes of e what the block says.
Left(e, reps, k, len, td, wh, wa) ==
    LET rep == reps[k + 1]
        at  == Len(FirstOctets(reps, k)) + Place(e, rep)
        out == Outcome(Acc(e), reps, k)
    IN  /\ IF Idle(e) THEN TRUE ELSE Reading(e, rep)
        /\ at < len /\ td = SubSeq(BlockOctets(reps), at + 1, len)
        /\ wh = out.hp /\ wa = Wanted(out, reps, len)

Inside2(e, a, td, g, wh, wa) ==
    /\ e.ret = "BLK" /\ e.hp.res = "BLK"
    /\ Held(e) /\ Dropped(e) /\ AllFit(Fields(e.heard))
    /\ g = IF a = "hpack_decode" THEN Fields(e.heard) ELSE <<>>
    /\ \E reps \in Blocks : \E k \in 0..Len(reps) - 1, len \in Lengths(reps) :
          Left(e, reps, k, len, td, wh, wa)

Between2(e, a, ps, g, wh, wa) ==
    /\ Idle(e) /\ Held(e)
    /\ e.hp.res = IF ps # 0 THEN "FLD" ELSE "OK"
    /\ e.ret \in IF ps # 0 THEN {"FLD"} ELSE {"OK", "SKP"}
    /\ wh = At(e.hp, "OK")
    /\ wa.errs = {} /\ wa.flds = Fields(e.heard)
    /\ IF e.ret = "SKP" THEN AllFit(wa.flds) /\ Rooms(wa.flds) > BufLen
       ELSE ~e.big /\ Dropped(e)
    /\ ps # 0 => a = "hpack_decode_fields"
    /\ g = IF ps # 0 THEN SubSeq(wa.flds, 1, ps)
           ELSE IF a = "hpack_decode" \/ e.ret = "OK" THEN wa.flds
           ELSE <<>>

Failed2(e, a, ps, td, g, wa) ==
    /\ td = <<>> /\ ps = 0 /\ e.hp.magic = "DEFUNCT" /\ e.ret \notin {"OK", "SKP"}
    /\ IF e.ret = "BIG" THEN wa.errs # {} \/ ~AllFit(wa.flds)
       ELSE e.ret \in wa.errs
    /\ IF a = "hpack_decode" THEN IsPrefix(g, wa.flds) ELSE g = <<>>

\* The three kinds of states.
InsideState(e, a, ps, td, g, wh, wa) ==
    /\ Common(e, ps, wh) /\ Able(At(e.hp, "OK")) /\ td # <<>> /\ ps = 0
    /\ Inside2(e, a, td, g, wh, wa)
BetweenState(e, a, ps, td, g, wh, wa) ==
    /\ Common(e, ps, wh) /\ Able(At(e.hp, "OK")) /\ td = <<>>
    /\ Between2(e, a, ps, g, wh, wa)
FailedState(e, a, ps, td, g, wh, wa) ==
    Common(e, ps, wh) /\ Failed2(e, a, ps, td, g, wa)

Good2(e, a, ps, td, g, wh, wa) ==
    \/ InsideState(e, a, ps, td, g, wh, wa)
    \/ BetweenState(e, a, ps, td, g, wh, wa)
    \/ FailedState(e, a, ps, td, g, wh, wa)

\* A decoder that can be read is not defunct, and the other way round.
LEMMA AbleOK ==
    ASSUME NEW hp, Healthy(hp)
    PROVE  /\ Able(At(hp, "OK")) <=> /\ hp.magic = "DECODER"
                                     /\ DecoderHealthy(Rested(hp)) /\ hp.realloc
           /\ At(hp, "OK") = Rested(hp)
           /\ Able(At(hp, "OK")) /\ hp.res \in {"OK", "BLK"} => Able(hp)
<1>1. hp \in Codec
  BY DEF Healthy
<1>2. PICK r : r = At(hp, "OK")
  OBVIOUS
<1>3. r = Rested(hp)
  BY <1>2 DEF At, Rested
<1>4. /\ r.magic = hp.magic /\ r.realloc = hp.realloc
      /\ \A res : At(r, res) = At(hp, res)
      /\ At(hp, hp.res) = hp
  BY <1>1, <1>2, AtIs DEF Results
<1>5. ASSUME Able(r), hp.res \in {"OK", "BLK"} PROVE Able(hp)
  <2>1. Able(At(r, hp.res))
    BY <1>5, AbleAt, Zenon
  <2> QED
    BY <1>4, <2>1
<1>6. Able(r) <=> /\ hp.magic = "DECODER" /\ DecoderHealthy(r) /\ hp.realloc
  BY <1>4 DEF Able
<1> QED
  BY <1>2, <1>3, <1>5, <1>6

Good ==
    /\ api \in Apis /\ want.flds \in Seq(Field)
    /\ Good2(d, api, pos, todo, got, whole, want)

\* The invariant, unfolded.
LEMMA InductiveUnfolds == Inductive => Good
<1> SUFFICES ASSUME Inductive PROVE Good
  OBVIOUS
<1>4. api \in Apis /\ want.flds \in Seq(Field)
  BY DEF Inductive, TypeOK
<1> SUFFICES Good2(d, api, pos, todo, got, whole, want)
  BY <1>4 DEF Good
<1>1. Common(d, pos, whole)
  <2>1. d \in Decoder /\ d.heard \in Seq(Seen)
    BY DecoderIs DEF Inductive, TypeOK
  <2>2. DOMAIN d.heard = 1..Len(d.heard)
    BY <2>1, LenProperties
  <2> QED
    BY <2>1, <2>2 DEF Inductive, TypeOK, Common, Fit, Measures
<1>2. CASE ~Working
  <2>1. Failed
    BY <1>2 DEF Inductive
  <2>2. Failed2(d, api, pos, todo, got, want)
    BY <2>1, Zenon DEF Failed, Failed2, Ended, InBlock, Iterating
  <2> QED
    BY <1>1, <2>2, Zenon DEF Good2, FailedState
<1>3. CASE Working
  <2>1. Able(At(d.hp, "OK")) /\ At(d.hp, "OK") = Rested(d.hp)
    BY <1>3, AbleOK DEF Inductive, Working
  <2>2. CASE InBlock
    <3>1. InsideBlock
      BY <1>3, <2>2 DEF Inductive
    <3>2. pos = 0 /\ todo # <<>>
      BY <2>2, <3>1 DEF InsideBlock, Iterating, InBlock
    <3>3. Inside2(d, api, todo, got, whole, want)
      BY <3>1, Zenon DEF InsideBlock, Inside2, Left, Future, Acc, At
    <3> QED
      BY <1>1, <2>1, <3>2, <3>3, Zenon DEF Good2, InsideState
  <2>3. CASE ~InBlock
    <3>1. BetweenBlocks
      BY <1>3, <2>3 DEF Inductive
    <3>2. todo = <<>>
      BY <2>3 DEF InBlock
    <3>3. Between2(d, api, pos, got, whole, want)
      BY <2>1, <3>1, Zenon DEF BetweenBlocks, Between2, Iterating
    <3> QED
      BY <1>1, <2>1, <3>2, <3>3, Zenon DEF Good2, BetweenState
  <2> QED
    BY <2>2, <2>3
<1> QED
  BY <1>2, <1>3

\* And folded again.
LEMMA InductiveFolds == Good => Inductive
<1> SUFFICES ASSUME Good PROVE Inductive
  OBVIOUS
<1>1. Common(d, pos, whole)
  BY DEF Good, Good2, InsideState, BetweenState, FailedState
<1>2. /\ TypeOK /\ Healthy(d.hp)
      /\ \A i \in DOMAIN d.heard :
            /\ d.heard[i].namsz = NameSize[d.heard[i].fld.nam]
            /\ d.heard[i].valsz = ValueSize[d.heard[i].fld.val]
  <2>1. d \in Decoder /\ d.heard \in Seq(Seen)
    BY <1>1, DecoderIs DEF Common
  <2>2. DOMAIN d.heard = 1..Len(d.heard)
    BY <2>1, LenProperties
  <2> QED
    BY <1>1, <2>2 DEF Good, TypeOK, Common, Fit, Measures
<1>3. At(d.hp, "OK") = Rested(d.hp)
  BY <1>2, AbleOK
<1>4. ASSUME Able(At(d.hp, "OK"))
      PROVE  Working /\ DecoderHealthy(Rested(d.hp)) /\ d.hp.realloc
  BY <1>2, <1>4, AbleOK DEF Working
<1>5. CASE InsideState(d, api, pos, todo, got, whole, want)
  <2>1. /\ Able(At(d.hp, "OK")) /\ todo # <<>> /\ pos = 0
        /\ Inside2(d, api, todo, got, whole, want)
    BY <1>5 DEF InsideState
  <2>2. InsideBlock
    BY <2>1, Zenon DEF InsideBlock, Inside2, Left, Future, Acc, At, Iterating
  <2>3. InBlock
    BY <2>1 DEF InBlock
  <2> QED
    BY <1>2, <1>4, <2>1, <2>2, <2>3 DEF Inductive
<1>6. CASE BetweenState(d, api, pos, todo, got, whole, want)
  <2>1. /\ Able(At(d.hp, "OK")) /\ todo = <<>>
        /\ Between2(d, api, pos, got, whole, want)
    BY <1>6 DEF BetweenState
  <2>2. BetweenBlocks
    BY <1>3, <2>1, Zenon DEF BetweenBlocks, Between2, Iterating
  <2>3. ~InBlock
    BY <2>1 DEF InBlock
  <2> QED
    BY <1>2, <1>4, <2>1, <2>2, <2>3 DEF Inductive
<1>7. CASE FailedState(d, api, pos, todo, got, whole, want)
  <2>1. Failed2(d, api, pos, todo, got, want)
    BY <1>7 DEF FailedState
  <2>2. Failed
    BY <2>1, Zenon DEF Failed, Failed2, Ended, InBlock, Iterating
  <2>3. ~Working
    BY <2>1 DEF Failed2, Working
  <2> QED
    BY <1>2, <2>2, <2>3 DEF Inductive
<1> QED
  BY <1>5, <1>6, <1>7 DEF Good, Good2

(***************************************************************************)
(* What the application is given.                                          *)
(***************************************************************************)

\* FieldAt, of any values.
FieldIs(e, given, k, r, ps, g) ==
    LET more == k <= Len(e.flds)
    IN  /\ r = [e EXCEPT !.hp.res = IF more THEN "FLD" ELSE "OK",
                         !.ret = IF more THEN "FLD" ELSE "OK"]
        /\ ps = IF more THEN k ELSE 0
        /\ g = IF more THEN Append(given, e.flds[k]) ELSE given

\* A block has been decoded, and its fields fit in the buffer.
Quiet(e, wh, wa) ==
    /\ e \in Decoder /\ Healthy(e.hp) /\ Able(At(e.hp, "OK"))
    /\ wh = At(e.hp, "OK") /\ Idle(e) /\ Held(e) /\ ~e.big /\ Dropped(e)
    /\ Measures(e.heard) /\ wa.errs = {} /\ wa.flds = Fields(e.heard)

\* All of them are in the buffer.
LEMMA QuietFields ==
    ASSUME NEW e, NEW wh, NEW wa, Quiet(e, wh, wa)
    PROVE  e.flds \in Seq(Field) /\ wa.flds = e.flds
<1>1. /\ e \in Decoder /\ Held(e) /\ ~e.big /\ Dropped(e)
      /\ wa.flds = Fields(e.heard)
  BY DEF Quiet
<1>2. e.flds \in Seq(Field) /\ e.heard \in Seq(Seen)
  BY <1>1, DecoderIs
<1>3. HeldAs(e.used, e.nam, e.flds, e.heard)
  BY <1>1, HeldIs, Zenon
<1>4. Len(e.flds) = Len(e.heard)
  BY <1>1 DEF Dropped
<1>5. e.flds = Fields(e.heard)
  BY <1>2, <1>3, <1>4, NoneDropped, Zenon
<1> QED
  BY <1>1, <1>2, <1>5

\* The first fields of the buffer, and one more.
LEMMA OneMoreField ==
    ASSUME NEW S, NEW s \in Seq(S), NEW k \in Nat, 1 <= k
    PROVE  /\ k <= Len(s) => Append(SubSeq(s, 1, k - 1), s[k]) = SubSeq(s, 1, k)
           /\ k = Len(s) + 1 => SubSeq(s, 1, k - 1) = s
<1>1. PICK l \in Nat : l = Len(s)
  BY LenProperties
<1>2. PICK m \in Nat : m = k - 1 /\ k = m + 1
  OBVIOUS
<1>3. ASSUME k <= l PROVE Append(SubSeq(s, 1, m), s[k]) = SubSeq(s, 1, k)
  <2>0. m <= Len(s) /\ k <= Len(s)
    BY <1>1, <1>2, <1>3
  <2>8. /\ SubSeq(s, 1, m) \in Seq(S) /\ Len(SubSeq(s, 1, m)) = m
        /\ \A i \in 1..m : SubSeq(s, 1, m)[i] = s[i]
    BY <2>0, FrontIs
  <2>9. /\ SubSeq(s, 1, k) \in Seq(S) /\ Len(SubSeq(s, 1, k)) = k
        /\ \A i \in 1..k : SubSeq(s, 1, k)[i] = s[i]
    BY <2>0, FrontIs
  <2>1. PICK u \in Seq(S) : /\ u = SubSeq(s, 1, m) /\ Len(u) = m
                            /\ \A i \in 1..m : u[i] = s[i]
    BY <2>8, Zenon
  <2>2. PICK v \in Seq(S) : /\ v = SubSeq(s, 1, k) /\ Len(v) = k
                            /\ \A i \in 1..k : v[i] = s[i]
    BY <2>9, Zenon
  <2>3. s[k] \in S
    BY <1>1, <1>3, ElementOfSeq
  <2>4. PICK w \in Seq(S) : w = Append(u, s[k])
    BY <2>3, AppendProperties
  <2>5. /\ Len(w) = m + 1 /\ w[m + 1] = s[k]
        /\ \A i \in 1..m : w[i] = u[i]
    BY <2>1, <2>3, <2>4, AppendProperties
  <2>6. \A i \in 1..k : w[i] = v[i]
    BY <1>2, <2>1, <2>2, <2>5
  <2>7. w = v
    BY <1>2, <2>2, <2>5, <2>6, SeqEqual
  <2> QED
    BY <2>1, <2>2, <2>4, <2>7
<1>4. ASSUME k = l + 1 PROVE SubSeq(s, 1, m) = s
  <2>1. m = l
    BY <1>2, <1>4
  <2>2. PICK u \in Seq(S) : /\ u = SubSeq(s, 1, m) /\ Len(u) = m
                            /\ \A i \in 1..m : u[i] = s[i]
    BY <1>1, <2>1, FrontIs
  <2>3. u = s
    BY <1>1, <2>1, <2>2, SeqEqual
  <2> QED
    BY <2>2, <2>3
<1> QED
  BY <1>1, <1>2, <1>3, <1>4

\* The application is given the k-th field, or is told that there is none.
LEMMA GivesField ==
    ASSUME NEW e, NEW wh, NEW wa, Quiet(e, wh, wa), NEW k \in Nat, 1 <= k,
           k <= Len(e.flds) + 1, NEW r, NEW ps, NEW g, NEW given,
           given = SubSeq(wa.flds, 1, k - 1), FieldIs(e, given, k, r, ps, g)
    PROVE  BetweenState(r, "hpack_decode_fields", ps, <<>>, g, wh, wa)
<1>1. /\ e \in Decoder /\ Healthy(e.hp) /\ Able(At(e.hp, "OK"))
      /\ wh = At(e.hp, "OK") /\ Idle(e) /\ Held(e) /\ ~e.big /\ Dropped(e)
      /\ Measures(e.heard) /\ wa.errs = {} /\ wa.flds = Fields(e.heard)
  BY DEF Quiet
<1>2. PICK flds \in Seq(Field) : flds = e.flds /\ flds = wa.flds
  BY QuietFields
<1>3. PICK res \in {"FLD", "OK"} : res = IF k <= Len(flds) THEN "FLD" ELSE "OK"
  OBVIOUS
<1>4. PICK given2 : given2 = SubSeq(flds, 1, k - 1)
  OBVIOUS
<1>5. given2 = given
  BY <1>2, <1>4
<1>6. /\ r = [e EXCEPT !.hp.res = res, !.ret = res]
      /\ ps = IF k <= Len(flds) THEN k ELSE 0
      /\ g = IF k <= Len(flds) THEN Append(given, flds[k]) ELSE given
  BY <1>2, <1>3 DEF FieldIs
<1>7. e.hp \in Codec
  BY <1>1, DecoderIs
<1>8. r = [e EXCEPT !.hp = At(e.hp, res), !.ret = res]
  BY <1>1, <1>6, <1>7 DEF At, Decoder
<1>9. res \in Results /\ res \in Results \cup {"SKP", "RSZ"} /\ "OK" \in Results
  BY DEF Results
<1>10. Again(r, e, res, res)
  BY <1>1, <1>8, <1>9, AgainIs, Zenon
<1>11. /\ r \in Decoder /\ r.hp = At(e.hp, res) /\ r.ret = res
       /\ r.used = e.used /\ r.flds = flds /\ r.heard = e.heard
       /\ r.nam = e.nam /\ r.val = e.val /\ r.big = e.big
  BY <1>2, <1>10 DEF Again
<1>12. Idle(r) /\ Held(r) /\ Dropped(r)
  BY <1>1, <1>9, <1>10, AgainStands
<1>13. Healthy(r.hp)
  <2>1. Healthy(At(e.hp, res))
    BY <1>1, <1>9, ResultHealthy, Zenon DEF At
  <2> QED
    BY <1>11, <2>1
<1>14. At(r.hp, "OK") = At(e.hp, "OK") /\ r.hp.res = res
  BY <1>7, <1>9, <1>11, AtIs
<1>15. wh \in Codec
  BY <1>1, AbleIs
<1>16. e.used <= BufLen
  BY <1>1 DEF Held
<1>17. Fit(r)
  <2>1. r.nam = -1 /\ r.val = -1 /\ r.used \in Nat
    BY <1>11, <1>12, DecoderIs DEF Idle
  <2> QED
    BY <2>1 DEF Fit
<1>18. PICK l \in Nat : l = Len(flds)
  BY LenProperties
<1>19. ps \in 0..Len(r.flds) /\ (ps # 0 <=> k <= l)
  BY <1>6, <1>11, <1>18
<1>20. Common(r, ps, wh)
  BY <1>1, <1>11, <1>13, <1>15, <1>16, <1>17, <1>19 DEF Common
<1>21. g = IF ps # 0 THEN SubSeq(wa.flds, 1, ps) ELSE wa.flds
  <2>1. CASE k <= l
    <3>1. g = Append(SubSeq(flds, 1, k - 1), flds[k])
      BY <1>4, <1>5, <1>6, <1>18, <2>1
    <3>2. g = SubSeq(flds, 1, k)
      BY <1>18, <2>1, <3>1, OneMoreField
    <3>3. ps # 0 /\ ps = k
      BY <1>6, <1>18, <2>1
    <3> QED
      BY <1>2, <3>2, <3>3
  <2>2. CASE ~(k <= l)
    <3>1. k = l + 1
      BY <1>2, <1>18, <2>2
    <3>2. g = SubSeq(flds, 1, k - 1)
      BY <1>4, <1>5, <1>6, <1>18, <2>2
    <3>3. g = flds
      BY <1>18, <3>1, <3>2, OneMoreField
    <3>4. ps = 0
      BY <1>6, <1>18, <2>2
    <3> QED
      BY <1>2, <3>3, <3>4
  <2> QED
    BY <2>1, <2>2
<1>22. r.hp.res = IF ps # 0 THEN "FLD" ELSE "OK"
  BY <1>3, <1>14, <1>18, <1>19
<1>23. r.ret = IF ps # 0 THEN "FLD" ELSE "OK"
  BY <1>3, <1>11, <1>18, <1>19
<1>24. Between2(r, "hpack_decode_fields", ps, g, wh, wa)
  BY <1>1, <1>11, <1>12, <1>14, <1>21, <1>22, <1>23 DEF Between2
<1> QED
  BY <1>1, <1>14, <1>20, <1>24, Zenon DEF BetweenState

\* What a call that ends with e leaves to the application.
Delivers(e, a, r, ps, g) ==
    IF a = "hpack_decode" \/ e.ret # "OK"
    THEN r = e /\ ps = 0 /\ g = IF a = "hpack_decode" THEN Fields(e.heard) ELSE <<>>
    ELSE FieldIs(e, <<>>, 1, r, ps, g)

\* A call that fails.
LEMMA FailsGood ==
    ASSUME NEW e, NEW wa, Fails(e, wa), wa.flds \in Seq(Field),
           NEW wh \in Codec, NEW a, NEW r, NEW ps, NEW g, Delivers(e, a, r, ps, g)
    PROVE  e.ret # "BLK" /\ FailedState(r, a, ps, <<>>, g, wh, wa)
<1>1. /\ Ruined(e) /\ e.ret \notin {"OK", "SKP", "BLK", "FLD"}
      /\ Starts(Fields(e.heard), wa.flds)
      /\ IF e.ret = "BIG" THEN wa.errs # {} \/ ~AllFit(wa.flds)
         ELSE e.ret \in wa.errs
  BY DEF Fails
<1>2. r = e /\ ps = 0 /\ g = IF a = "hpack_decode" THEN Fields(e.heard) ELSE <<>>
  BY <1>1 DEF Delivers
<1>3. /\ e \in Decoder /\ Healthy(e.hp) /\ e.hp.magic = "DEFUNCT"
      /\ e.used <= BufLen /\ Fit(e) /\ Measures(e.heard)
  BY <1>1 DEF Ruined
<1>4. Fields(e.heard) \in Seq(Field) /\ e.flds \in Seq(Field)
  BY <1>3, DecoderIs, FieldsType
<1>5. ps \in 0..Len(e.flds)
  BY <1>2, <1>4, LenProperties
<1>6. Common(e, ps, wh)
  BY <1>3, <1>5 DEF Common
<1>7. IsPrefix(Fields(e.heard), wa.flds)
  BY <1>1, <1>4, StartsPrefix
<1>8. Failed2(e, a, ps, <<>>, g, wa)
  BY <1>1, <1>2, <1>3, <1>7 DEF Failed2
<1>9. FailedState(e, a, ps, <<>>, g, wh, wa)
  BY <1>6, <1>8, Zenon DEF FailedState
<1> QED
  BY <1>1, <1>2, <1>9

\* One that waits.
LEMMA WaitsGood ==
    ASSUME NEW e, NEW reps, reps \in Blocks, NEW at, NEW out,
           Waits(e, reps, at, out), NEW len, len \in Lengths(reps), at < len,
           NEW a, NEW r, NEW ps, NEW g, Delivers(e, a, r, ps, g)
    PROVE  /\ e.ret = "BLK"
           /\ InsideState(r, a, ps, SubSeq(BlockOctets(reps), at + 1, len), g,
                          out.hp, Wanted(out, reps, len))
<1>a. PICK e2 : \E k \in Nat : /\ Ahead(e2, reps, k, at, out) /\ e2.hp.res = "BLK"
                               /\ e = [e2 EXCEPT !.ret = "BLK"]
  BY Zenon DEF Waits
<1>1. PICK k \in Nat : /\ Ahead(e2, reps, k, at, out) /\ e2.hp.res = "BLK"
                      /\ e = [e2 EXCEPT !.ret = "BLK"]
  BY <1>a, Zenon
<1>2. reps \in Seq(BlockRep)
  BY BlocksAssumption
<1>3. /\ Live(e2) /\ k < Len(reps)
      /\ Idle(e2) \/ Reading(e2, reps[k + 1])
      /\ at = Len(FirstOctets(reps, k)) + Place(e2, reps[k + 1])
      /\ out = Outcome(Acc(e2), reps, k)
  BY <1>1, Zenon DEF Ahead
<1>4. /\ e2 \in Decoder /\ Able(e2.hp) /\ Held(e2) /\ Dropped(e2)
      /\ AllFit(Fields(e2.heard)) /\ Measures(e2.heard) /\ e2.used <= BufLen
  BY <1>3, LiveIs DEF Live
<1>5. e2.hp \in Codec /\ Healthy(e2.hp)
  BY <1>4, AbleIs
<1>6. At(e2.hp, "BLK") = e2.hp
  BY <1>1, <1>5, AtIs DEF Results
<1>7. Again(e, e2, "BLK", "BLK")
  <2>1. e = [e2 EXCEPT !.hp = At(e2.hp, "BLK"), !.ret = "BLK"]
    BY <1>1, <1>4, <1>6 DEF Decoder
  <2>2. "BLK" \in Results /\ "BLK" \in Results \cup {"SKP", "RSZ"}
    BY DEF Results
  <2> QED
    BY <1>4, <2>1, <2>2, AgainIs, Zenon
<1>8. /\ e \in Decoder /\ e.hp = e2.hp /\ e.ret = "BLK" /\ e.used = e2.used
      /\ e.nam = e2.nam /\ e.val = e2.val /\ e.heard = e2.heard
  BY <1>6, <1>7 DEF Again
<1>9. /\ Idle(e) <=> Idle(e2)
      /\ Held(e) /\ Dropped(e) /\ Acc(e) = Acc(e2)
      /\ Place(e, reps[k + 1]) = Place(e2, reps[k + 1])
      /\ Reading(e2, reps[k + 1]) => Reading(e, reps[k + 1])
  <2>1. "BLK" \in Results
    BY DEF Results
  <2> QED
    BY <1>4, <1>7, <2>1, AgainStands
<1>10. e.ret # "OK"
  BY <1>8
<1>11. r = e /\ ps = 0 /\ g = IF a = "hpack_decode" THEN Fields(e.heard) ELSE <<>>
  BY <1>10 DEF Delivers
<1>12. Sane(out)
  <2>1. k \in 0..Len(reps)
    BY <1>2, <1>3, LenProperties
  <2>2. Sane(Acc(e2))
    BY <1>3, AccSane
  <2> QED
    BY <1>2, <1>3, <2>1, <2>2, OutcomeSane
<1>13. out.hp \in Codec
  BY <1>12 DEF Sane, Healthy
<1>14. Fit(e)
  <2>1. reps[k + 1] \in BlockRep
    BY <1>2, <1>3, FirstStarts, LenProperties
  <2>2. Fit(e2)
    BY <1>3, <2>1, ReadingFits, Zenon
  <2> QED
    BY <1>8, <2>2 DEF Fit
<1>15. e.flds \in Seq(Field)
  BY <1>8, DecoderIs
<1>16. ps \in 0..Len(e.flds)
  BY <1>11, <1>15, LenProperties
<1>17. Common(e, ps, out.hp)
  BY <1>4, <1>5, <1>8, <1>13, <1>14, <1>16 DEF Common
<1>18. Able(At(e.hp, "OK"))
  BY <1>4, <1>8, AbleAt
<1>19. PICK td : td = SubSeq(BlockOctets(reps), at + 1, len)
  OBVIOUS
<1>20. at \in Nat /\ at < Len(BlockOctets(reps))
  BY <1>1, <1>2, AheadStep, Zenon
<1>21. td # <<>>
  <2>1. BlockOctets(reps) \in Seq(Octet)
    <3>1. BlockOctets(reps) = FirstOctets(reps, Len(reps)) /\ Len(reps) \in Nat
      BY <1>2, LenProperties DEF BlockOctets
    <3> QED
      BY <1>2, <3>1, FirstStarts
  <2>2. len \in Nat /\ len <= Len(BlockOctets(reps))
    BY <1>2, <1>3, LengthIs
  <2>3. at <= len
    BY <1>20, <2>2
  <2>4. Slice(td, BlockOctets(reps), at, len)
    BY <1>19, <1>20, <2>1, <2>2, <2>3, SliceIs
  <2>5. Len(td) = len - at
    BY <2>4 DEF Slice
  <2> QED
    BY <1>20, <2>2, <2>5
<1>22. PICK wa : wa = Wanted(out, reps, len)
  OBVIOUS
<1>23. Left(e, reps, k, len, td, out.hp, wa)
  <2>1. at = Len(FirstOctets(reps, k)) + Place(e, reps[k + 1])
    BY <1>3, <1>9
  <2>2. out = Outcome(Acc(e), reps, k)
    BY <1>3, <1>9
  <2>3. Idle(e) \/ Reading(e, reps[k + 1])
    BY <1>3, <1>9
  <2> QED
    BY <1>19, <1>22, <2>1, <2>2, <2>3 DEF Left
<1>24. k \in 0..Len(reps) - 1
  BY <1>2, <1>3, LenProperties
<1>25. Inside2(e, a, td, g, out.hp, wa)
  <2>1. e.ret = "BLK" /\ e.hp.res = "BLK" /\ AllFit(Fields(e.heard))
    BY <1>1, <1>4, <1>8
  <2> QED
    BY <1>9, <1>11, <1>23, <1>24, <2>1, Zenon DEF Inside2
<1>26. InsideState(e, a, ps, td, g, out.hp, wa)
  BY <1>11, <1>17, <1>18, <1>21, <1>25, Zenon DEF InsideState
<1> QED
  BY <1>8, <1>11, <1>19, <1>22, <1>26

\* One that ends the block.
LEMMA SucceedsGood ==
    ASSUME NEW e, NEW out, NEW wa, Succeeds(e, out, wa),
           NEW a, a \in {"hpack_decode", "hpack_decode_fields"},
           NEW r, NEW ps, NEW g, Delivers(e, a, r, ps, g)
    PROVE  e.ret # "BLK" /\ BetweenState(r, a, ps, <<>>, g, out.hp, wa)
<1>1. PICK e2 : /\ Live(e2) /\ Idle(e2) /\ e2.hp.res = "OK"
                /\ out = [hp |-> At(e2.hp, "OK"), ret |-> "OK", flds |-> Fields(e2.heard)]
                /\ e = [e2 EXCEPT !.ret = IF e2.big THEN "SKP" ELSE "OK"]
                /\ wa.errs = {} /\ wa.flds = Fields(e2.heard)
  BY Zenon DEF Succeeds
<1>2. /\ e2 \in Decoder /\ Able(e2.hp) /\ Held(e2) /\ Dropped(e2)
      /\ AllFit(Fields(e2.heard)) /\ Measures(e2.heard) /\ e2.used <= BufLen
      /\ e2.used \in Nat
  BY <1>1, LiveIs DEF Live
<1>3. e2.hp \in Codec /\ Healthy(e2.hp)
  BY <1>2, AbleIs
<1>4. At(e2.hp, "OK") = e2.hp
  BY <1>1, <1>3, AtIs DEF Results
<1>5. PICK ret : ret = IF e2.big THEN "SKP" ELSE "OK"
  OBVIOUS
<1>6. Again(e, e2, "OK", ret)
  <2>1. e = [e2 EXCEPT !.hp = At(e2.hp, "OK"), !.ret = ret]
    BY <1>1, <1>2, <1>4, <1>5 DEF Decoder
  <2>2. "OK" \in Results /\ ret \in Results \cup {"SKP", "RSZ"}
    BY <1>5 DEF Results
  <2> QED
    BY <1>2, <2>1, <2>2, AgainIs, Zenon
<1>7. /\ e \in Decoder /\ e.hp = e2.hp /\ e.ret = ret /\ e.used = e2.used
      /\ e.heard = e2.heard /\ e.flds = e2.flds /\ e.big = e2.big
      /\ e.nam = e2.nam /\ e.val = e2.val
  BY <1>4, <1>6 DEF Again
<1>8. Idle(e) /\ Held(e) /\ Dropped(e)
  <2>1. "OK" \in Results
    BY DEF Results
  <2> QED
    BY <1>1, <1>2, <1>6, <2>1, AgainStands
<1>9. Fit(e)
  BY <1>2, <1>7, <1>8 DEF Fit, Idle
<1>10. out.hp = e.hp /\ out.hp = At(e.hp, "OK") /\ out.hp \in Codec
  BY <1>1, <1>3, <1>4, <1>7
<1>11. Able(At(e.hp, "OK"))
  BY <1>2, <1>4, <1>7
<1>12. e.flds \in Seq(Field) /\ Measures(e.heard) /\ Healthy(e.hp)
  BY <1>2, <1>3, <1>7, DecoderIs
<1>13. wa.errs = {} /\ wa.flds = Fields(e.heard) /\ AllFit(wa.flds)
  BY <1>1, <1>2, <1>7
<1>14. e.ret # "BLK" /\ e.ret = IF e.big THEN "SKP" ELSE "OK"
  BY <1>5, <1>7
<1>15. Common(e, 0, out.hp)
  <2>1. 0 \in 0..Len(e.flds)
    BY <1>12, LenProperties
  <2>2. e.used <= BufLen
    BY <1>2, <1>7
  <2> QED
    BY <1>7, <1>9, <1>10, <1>12, <2>1, <2>2 DEF Common
<1>16. e.hp.res = "OK"
  BY <1>1, <1>7
<1>17. CASE e.big
  <2>1. e.ret = "SKP"
    BY <1>14, <1>17
  <2>2. r = e /\ ps = 0 /\ g = IF a = "hpack_decode" THEN Fields(e.heard) ELSE <<>>
    BY <2>1 DEF Delivers
  <2>3. Rooms(wa.flds) > BufLen
    <3>1. Rooms(Fields(e.heard)) + e.used - Rooms(e.flds) > BufLen
      BY <1>8, <1>17 DEF Dropped
    <3>2. Rooms(e.flds) = e.used
      BY <1>8 DEF Held, Idle
    <3>3. Rooms(e.flds) \in Nat /\ Rooms(Fields(e.heard)) \in Nat
      BY <1>7, <1>12, DecoderIs, FieldsType, RoomsType
    <3>4. BufLen \in Nat
      BY PieceAssumption
    <3>5. Rooms(Fields(e.heard)) > BufLen
      BY <3>1, <3>2, <3>3, <3>4
    <3> QED
      BY <1>13, <3>5
  <2>4. g = IF a = "hpack_decode" \/ e.ret = "OK" THEN wa.flds ELSE <<>>
    BY <1>13, <2>1, <2>2
  <2>5. Between2(e, a, 0, g, out.hp, wa)
    BY <1>8, <1>10, <1>13, <1>16, <2>1, <2>3, <2>4 DEF Between2
  <2>6. BetweenState(e, a, 0, <<>>, g, out.hp, wa)
    BY <1>11, <1>15, <2>5, Zenon DEF BetweenState
  <2> QED
    BY <1>14, <2>2, <2>6
<1>18. CASE ~e.big /\ a = "hpack_decode"
  <2>1. e.ret = "OK"
    BY <1>14, <1>18
  <2>2. r = e /\ ps = 0 /\ g = Fields(e.heard)
    BY <1>18 DEF Delivers
  <2>3. g = IF a = "hpack_decode" \/ e.ret = "OK" THEN wa.flds ELSE <<>>
    BY <1>13, <2>1, <2>2
  <2>4. Between2(e, a, 0, g, out.hp, wa)
    BY <1>8, <1>10, <1>13, <1>16, <1>18, <2>1, <2>3 DEF Between2
  <2>5. BetweenState(e, a, 0, <<>>, g, out.hp, wa)
    BY <1>11, <1>15, <2>4, Zenon DEF BetweenState
  <2> QED
    BY <1>14, <2>2, <2>5
<1>19. CASE ~e.big /\ a # "hpack_decode"
  <2>1. e.ret = "OK" /\ a = "hpack_decode_fields"
    BY <1>14, <1>19
  <2>2. FieldIs(e, <<>>, 1, r, ps, g)
    BY <1>19, <2>1 DEF Delivers
  <2>3. Quiet(e, out.hp, wa)
    BY <1>7, <1>8, <1>10, <1>11, <1>12, <1>13, <1>19 DEF Quiet
  <2>4. wa.flds \in Seq(Field)
    BY <1>7, <1>13, DecoderIs, FieldsType
  <2>5. <<>> = SubSeq(wa.flds, 1, 1 - 1)
    BY <2>4
  <2>6. 1 \in Nat /\ 1 <= 1 /\ 1 <= Len(e.flds) + 1
    BY <1>12, LenProperties
  <2>7. BetweenState(r, "hpack_decode_fields", ps, <<>>, g, out.hp, wa)
    BY <2>2, <2>3, <2>5, <2>6, GivesField
  <2> QED
    BY <1>14, <2>1, <2>7
<1> QED
  BY <1>17, <1>18, <1>19

\* What is left of len octets of a block behind a call that ends with e.
Rest(e, reps, at, len) ==
    IF e.ret = "BLK" THEN SubSeq(BlockOctets(reps), at + 1, len) ELSE <<>>

\* A call leaves a decoder that is as good as the one it was given.
LEMMA CallGood ==
    ASSUME NEW e, NEW reps, reps \in Blocks, NEW at, NEW out, Sane(out),
           NEW len, NEW cut, EndsAt(at, len, cut, reps),
           Where(e, Result(cut), reps, at, out),
           NEW a, a \in {"hpack_decode", "hpack_decode_fields"},
           NEW r, NEW ps, NEW g, Delivers(EndCall(e, cut), a, r, ps, g)
    PROVE  Good2(r, a, ps, Rest(EndCall(e, cut), reps, at, len), g, out.hp,
                 Wanted(out, reps, len))
<1>1. reps \in Seq(BlockRep)
  BY BlocksAssumption
<1>2. PICK f : f = EndCall(e, cut)
  OBVIOUS
<1>3. PICK wa : wa = Wanted(out, reps, len)
  OBVIOUS
<1>4. \/ Fails(f, wa)
      \/ cut /\ Waits(f, reps, at, out)
      \/ ~cut /\ Succeeds(f, out, wa)
  BY <1>1, <1>2, <1>3, CallEnds
<1>5. Delivers(f, a, r, ps, g)
  BY <1>2
<1>6. out.hp \in Codec /\ wa.flds \in Seq(Field)
  BY <1>3 DEF Sane, Healthy, Wanted
<1>7. CASE Fails(f, wa)
  <2>1. f.ret # "BLK" /\ FailedState(r, a, ps, <<>>, g, out.hp, wa)
    BY <1>5, <1>6, <1>7, FailsGood
  <2>2. Rest(f, reps, at, len) = <<>>
    BY <2>1 DEF Rest
  <2> QED
    BY <1>2, <1>3, <2>1, <2>2 DEF Good2
<1>8. CASE cut /\ Waits(f, reps, at, out)
  <2>1. at < len /\ len \in Lengths(reps)
    BY <1>8 DEF EndsAt
  <2>2. /\ f.ret = "BLK"
        /\ InsideState(r, a, ps, SubSeq(BlockOctets(reps), at + 1, len), g,
                       out.hp, Wanted(out, reps, len))
    BY <1>5, <1>8, <2>1, WaitsGood
  <2>3. Rest(f, reps, at, len) = SubSeq(BlockOctets(reps), at + 1, len)
    BY <2>2 DEF Rest
  <2> QED
    BY <1>2, <2>2, <2>3 DEF Good2
<1>9. CASE ~cut /\ Succeeds(f, out, wa)
  <2>1. f.ret # "BLK" /\ BetweenState(r, a, ps, <<>>, g, out.hp, wa)
    BY <1>5, <1>9, SucceedsGood
  <2>2. Rest(f, reps, at, len) = <<>>
    BY <2>1 DEF Rest
  <2> QED
    BY <1>2, <1>3, <2>1, <2>2 DEF Good2
<1> QED
  BY <1>4, <1>7, <1>8, <1>9

\* What a call is given, and what it leaves.
Piece(f, e, s, n, cut) == f = DecodePiece(e, SubSeq(s, 1, n), cut, TRUE)
Rest2(f, s, n) == IF f.ret = "BLK" THEN SubSeq(s, n + 1, Len(s)) ELSE <<>>
Fits2(at, n, len, reps) ==
    at \in Nat /\ n \in Nat /\ at + n <= len /\ len \in Lengths(reps)

Taken(s, reps, at, n, len, m) ==
    /\ From(SubSeq(s, 1, n), n, reps, at) /\ Len(s) = len - at
    /\ len \in Nat /\ at \in Nat /\ n \in Nat /\ m \in Nat /\ m = at + n
    /\ SubSeq(s, n + 1, Len(s)) = SubSeq(BlockOctets(reps), m + 1, len)

\* The octets of a call, and what they leave of the block.
LEMMA PieceIs ==
    ASSUME NEW reps \in Seq(BlockRep), 0 < Len(reps), NEW at, NEW n, NEW len,
           Fits2(at, n, len, reps), NEW s, Cut(s, BlockOctets(reps), at, len)
    PROVE  \E m : Taken(s, reps, at, n, len, m)
<1>1. at \in Nat /\ n \in Nat /\ at + n <= len /\ len \in Lengths(reps)
  BY DEF Fits2
<1>2. /\ Len(BlockOctets(reps)) \in Nat /\ len \in Nat
      /\ len <= Len(BlockOctets(reps))
  <2>1. 0 \in Nat
    OBVIOUS
  <2> QED
    BY <1>1, <2>1, LengthIs
<1>3. BlockOctets(reps) \in Seq(Octet)
  <2>1. BlockOctets(reps) = FirstOctets(reps, Len(reps)) /\ Len(reps) \in 0..Len(reps)
    BY LenProperties DEF BlockOctets
  <2> QED
    BY <2>1, FirstStarts
<1>4. PICK m \in Nat : m = at + n
  BY <1>1
<1>5. m <= len /\ m <= Len(BlockOctets(reps))
  BY <1>1, <1>2, <1>4
<1>6. Parted(s, BlockOctets(reps), at, len, n, m)
  BY <1>1, <1>2, <1>3, <1>4, <1>5, CutParts, Zenon
<1>7. at + n <= Len(BlockOctets(reps))
  BY <1>4, <1>5
<1>8. From(SubSeq(s, 1, n), n, reps, at)
  BY <1>1, <1>6, <1>7, Zenon DEF Parted, From
<1> QED
  BY <1>1, <1>2, <1>4, <1>6, <1>8, Zenon DEF Parted, Taken

\* A call on what comes next of a block.
LEMMA PieceGood ==
    ASSUME NEW e, NEW reps, reps \in Blocks, NEW at, NEW out, Sane(out),
           NEW n, NEW len, Fits2(at, n, len, reps),
           NEW s, Cut(s, BlockOctets(reps), at, len),
           NEW cut \in BOOLEAN, cut = (n < Len(s)),
           Where(BeginCall(e, cut, TRUE), Result(cut), reps, at, out),
           NEW a, a \in {"hpack_decode", "hpack_decode_fields"},
           NEW f, Piece(f, e, s, n, cut),
           NEW r, NEW ps, NEW g, Delivers(f, a, r, ps, g)
    PROVE  Good2(r, a, ps, Rest2(f, s, n), g, out.hp, Wanted(out, reps, len))
<1>1. reps \in Seq(BlockRep) /\ reps # <<>>
  BY BlocksAssumption
<1>2. 0 < Len(reps)
  BY <1>1, EmptySeq, LenProperties
<1>6. PICK m : Taken(s, reps, at, n, len, m)
  BY <1>1, <1>2, PieceIs, Zenon
<1>3. /\ From(SubSeq(s, 1, n), n, reps, at) /\ Len(s) = len - at
      /\ len \in Nat /\ at \in Nat /\ n \in Nat /\ m \in Nat /\ m = at + n
      /\ SubSeq(s, n + 1, Len(s)) = SubSeq(BlockOctets(reps), m + 1, len)
  BY <1>6, Zenon DEF Taken
<1>4. PICK o : o = SubSeq(s, 1, n)
  OBVIOUS
<1>5. PICK b : b = BeginCall(e, cut, TRUE)
  OBVIOUS
<1>7. PICK h : h = DecodeOctets(b, o)
  OBVIOUS
<1>8. Where(h, Result(cut), reps, m, out)
  <2>1. From(o, n, reps, at)
    BY <1>3, <1>4
  <2>2. Where(b, Result(cut), reps, at, out)
    BY <1>5
  <2>3. Where(DecodeOctets(b, o), Result(cut), reps, at + n, out)
    BY <1>1, <1>3, <2>1, <2>2, OctetsRead, Zenon
  <2> QED
    BY <1>3, <1>7, <2>3
<1>9. f = EndCall(h, cut)
  BY <1>4, <1>5, <1>7, Zenon DEF Piece, DecodePiece
<1>10. EndsAt(m, len, cut, reps)
  <2>5. PICK q : q = Len(s)
    OBVIOUS
  <2>6. /\ q = len - at /\ len \in Nat /\ at \in Nat /\ n \in Nat
        /\ m \in Nat /\ m = at + n
    BY <1>3, <2>5
  <2>7. (n < q) <=> (m < len)
    BY <2>6
  <2>1. (n < Len(s)) <=> (m < len)
    BY <2>5, <2>7
  <2>2. (m < len) \in BOOLEAN /\ (n < Len(s)) \in BOOLEAN
    OBVIOUS
  <2>8. cut <=> (m < len)
    BY <2>1, Zenon
  <2>9. PICK c \in BOOLEAN : c = (m < len)
    BY <2>2, Zenon
  <2>10. cut <=> c
    BY <2>8, <2>9, Zenon
  <2>11. cut = c
    BY <2>10
  <2>3. cut = (m < len)
    BY <2>9, <2>11, Zenon
  <2>4. m <= len /\ len \in Lengths(reps) /\ m \in Nat
    BY <1>3 DEF Fits2
  <2> QED
    BY <2>3, <2>4, Zenon DEF EndsAt
<1>11. Delivers(EndCall(h, cut), a, r, ps, g)
  BY <1>9
<1>12. Good2(r, a, ps, Rest(EndCall(h, cut), reps, m, len), g, out.hp,
             Wanted(out, reps, len))
  BY <1>8, <1>10, <1>11, CallGood, Zenon
<1>13. Rest(f, reps, m, len) = Rest2(f, s, n)
  BY <1>3 DEF Rest, Rest2
<1> QED
  BY <1>9, <1>12, <1>13

\* The first call of a block.
LEMMA BeginGood ==
    ASSUME NEW e, NEW a, a \in {"hpack_decode", "hpack_decode_fields"},
           NEW g0, NEW wh, NEW wa, BetweenState(e, a, 0, <<>>, g0, wh, wa), ~e.big,
           NEW reps, reps \in Blocks, NEW n, NEW len, Fits2(0, n, len, reps),
           NEW out, out = Outcome(Nothing(wh), reps, 0),
           NEW s, s = SubSeq(BlockOctets(reps), 1, len),
           NEW f, Piece(f, e, s, n, n < Len(s)),
           NEW r, NEW ps, NEW g, Delivers(f, a, r, ps, g)
    PROVE  /\ Good2(r, a, ps, Rest2(f, s, n), g, out.hp, Wanted(out, reps, len))
           /\ Wanted(out, reps, len).flds \in Seq(Field)
<1>1. reps \in Seq(BlockRep) /\ reps # <<>>
  BY BlocksAssumption
<1>2. 0 < Len(reps)
  BY <1>1, EmptySeq, LenProperties
<1>3. Common(e, 0, wh) /\ Able(At(e.hp, "OK")) /\ Between2(e, a, 0, g0, wh, wa)
  BY Zenon DEF BetweenState
<1>4. Idle(e) /\ e.hp.res = "OK" /\ wh = At(e.hp, "OK")
  BY <1>3 DEF Between2
<1>5. e \in Decoder /\ Healthy(e.hp) /\ e.hp \in Codec
  BY <1>3 DEF Common, Healthy
<1>6. wh = e.hp /\ Able(e.hp)
  BY <1>3, <1>4, <1>5, AtIs DEF Results
<1>7. out = Outcome(Nothing(e.hp), reps, 0)
  BY <1>6
<1>8. Sane(out)
  <2>1. Sane(Nothing(e.hp))
    BY <1>5 DEF Sane, Nothing, Verdict, Results
  <2>2. 0 \in 0..Len(reps)
    BY <1>2, LenProperties
  <2> QED
    BY <1>1, <1>7, <2>1, <2>2, OutcomeSane
<1>9. (n < Len(s)) \in BOOLEAN
  OBVIOUS
<1>10. PICK cut \in BOOLEAN : cut = (n < Len(s))
  BY <1>9, Zenon
<1>11. Where(BeginCall(e, cut, TRUE), Result(cut), reps, 0, out)
  BY <1>1, <1>2, <1>4, <1>5, <1>6, <1>7, BlockBegins, Zenon
<1>12. Piece(f, e, s, n, cut)
  BY <1>10
<1>13. Cut(s, BlockOctets(reps), 0, len)
  BY DEF Cut
<1>14. Wanted(out, reps, len).flds \in Seq(Field)
  BY <1>8 DEF Wanted, Sane
<1> QED
  BY <1>8, <1>10, <1>11, <1>12, <1>13, <1>14, PieceGood, Zenon

\* How much of a representation has been read.
LEMMA PlaceNat ==
    ASSUME NEW e \in Decoder, NEW rep \in BlockRep, Idle(e) \/ Reading(e, rep)
    PROVE  Place(e, rep) \in Nat /\ Place(e, rep) < Len(Octets(rep))
<1>1. PICK i, n, nl, v, vl, en \in Nat : Shape(rep, i, n, nl, v, vl, en)
  BY PartsOf, Zenon
<1>2. Sized(rep, i, n, nl, v, vl, en)
  BY <1>1, Zenon DEF Sized
<1>3. PICK p, len \in Nat, b \in {0, 1} :
         Survey(e, rep, i, n, nl, v, vl, en, p, len, b)
  BY <1>2, Surveyed, Zenon
<1>4. /\ Next1(Octets(rep)[p + 1], p, len, e, rep, i, n, nl, v, vl, en, b)
      /\ p = Place(e, rep) /\ Layout(rep, i, n, nl, v, vl, en, len)
  BY <1>3, Zenon DEF Survey
<1>5. p < len /\ Len(Octets(rep)) = len
  BY <1>4, Zenon DEF Next1, Layout
<1> QED
  BY <1>4, <1>5

\* The next one.
LEMMA ContinueGood ==
    ASSUME NEW e, NEW a, a \in {"hpack_decode", "hpack_decode_fields"},
           NEW s, NEW g0, NEW wh, NEW wa, InsideState(e, a, 0, s, g0, wh, wa),
           NEW n \in 1..Len(s), NEW f, Piece(f, e, s, n, n < Len(s)),
           NEW r, NEW ps, NEW g, Delivers(f, a, r, ps, g)
    PROVE  Good2(r, a, ps, Rest2(f, s, n), g, wh, wa)
<1>1. Common(e, 0, wh) /\ Able(At(e.hp, "OK")) /\ Inside2(e, a, s, g0, wh, wa)
  BY Zenon DEF InsideState
<1>2. PICK reps \in Blocks : \E k \in 0..Len(reps) - 1, len \in Lengths(reps) :
                                Left(e, reps, k, len, s, wh, wa)
  BY <1>1 DEF Inside2
<1>3. PICK k \in 0..Len(reps) - 1, len \in Lengths(reps) :
              Left(e, reps, k, len, s, wh, wa)
  BY <1>2, Zenon
<1>4. reps \in Seq(BlockRep) /\ reps # <<>>
  BY <1>2, BlocksAssumption
<1>5. 0 < Len(reps) /\ k \in Nat /\ k < Len(reps)
  BY <1>3, <1>4, EmptySeq, LenProperties
<1>6. PICK at : at = Len(FirstOctets(reps, k)) + Place(e, reps[k + 1])
  OBVIOUS
<1>7. PICK out : out = Outcome(Acc(e), reps, k)
  OBVIOUS
<1>8. /\ Idle(e) \/ Reading(e, reps[k + 1])
      /\ at < len /\ s = SubSeq(BlockOctets(reps), at + 1, len)
      /\ wh = out.hp /\ wa = Wanted(out, reps, len)
  BY <1>3, <1>6, <1>7 DEF Left
<1>9. /\ e.hp.res = "BLK" /\ Held(e) /\ Dropped(e) /\ AllFit(Fields(e.heard))
  BY <1>1 DEF Inside2
<1>10. e \in Decoder /\ Healthy(e.hp) /\ e.hp \in Codec /\ Measures(e.heard)
  BY <1>1 DEF Common, Healthy
<1>11. Able(e.hp)
  BY <1>1, <1>9, <1>10, AbleOK
<1>12. Settled(e)
  BY <1>9, <1>10, <1>11 DEF Settled
<1>13. (n < Len(s)) \in BOOLEAN
  OBVIOUS
<1>14. PICK cut \in BOOLEAN : cut = (n < Len(s))
  BY <1>13, Zenon
<1>15. Where(BeginCall(e, cut, TRUE), Result(cut), reps, at, out)
  BY <1>5, <1>6, <1>7, <1>8, <1>9, <1>12, BlockContinues
<1>16. Sane(out)
  <2>1. Sane(Acc(e))
    <3>1. Fields(e.heard) \in Seq(Field)
      BY <1>10, DecoderIs, FieldsType
    <3>2. Able(At(e.hp, "BLK"))
      BY <1>11, AbleAt
    <3>3. Healthy(At(e.hp, "BLK"))
      BY <3>2, AbleIs
    <3> QED
      BY <3>1, <3>3 DEF Sane, Acc, Verdict, Results
  <2>2. k \in 0..Len(reps)
    BY <1>4, <1>5, LenProperties
  <2> QED
    BY <1>4, <1>7, <2>1, <2>2, OutcomeSane
<1>17. Piece(f, e, s, n, cut)
  BY <1>14
<1>18. Fits2(at, n, len, reps)
  <2>1. /\ Len(BlockOctets(reps)) \in Nat /\ len \in Nat
        /\ len <= Len(BlockOctets(reps))
    BY <1>3, <1>4, <1>5, LengthIs
  <2>2. at \in Nat
    <3>1. Len(FirstOctets(reps, k)) \in Nat
      BY <1>3, <1>4, <1>5, LengthIs
    <3>2. reps[k + 1] \in BlockRep
      BY <1>4, <1>5, FirstStarts
    <3>3. Place(e, reps[k + 1]) \in Nat
      BY <1>8, <1>10, <3>2, PlaceNat
    <3> QED
      BY <1>6, <3>1, <3>3
  <2>3. BlockOctets(reps) \in Seq(Octet)
    <3>1. BlockOctets(reps) = FirstOctets(reps, Len(reps)) /\ Len(reps) \in 0..Len(reps)
      BY <1>4, LenProperties DEF BlockOctets
    <3> QED
      BY <1>4, <3>1, FirstStarts
  <2>4. at <= len
    BY <1>8, <2>1, <2>2
  <2>5. Slice(s, BlockOctets(reps), at, len)
    BY <1>8, <2>1, <2>2, <2>3, <2>4, SliceIs
  <2>6. Len(s) = len - at
    BY <2>5 DEF Slice
  <2>7. n \in Nat /\ at + n <= len
    BY <2>1, <2>2, <2>6
  <2> QED
    BY <1>3, <2>2, <2>7 DEF Fits2
<1> QED
  <2>1. Cut(s, BlockOctets(reps), at, len)
    BY <1>8 DEF Cut
  <2> QED
    BY <1>2, <1>8, <1>14, <1>15, <1>16, <1>17, <1>18, <2>1, PieceGood

\* The precautions that hdecode.c and fdecode.c take.
Precautions == {"skip", "buffer", "iterate"} \subseteq Discipline

\* The two functions.
LEMMA ApiIs ==
    ASSUME api \in Apis
    PROVE  api \in {"hpack_decode", "hpack_decode_fields"}
BY BlocksAssumption

\* A new decoder.
LEMMA NewGood ==
    ASSUME NEW hp, Able(hp), hp.res = "OK", hp \in Codec, NEW a,
           NEW wa, wa = [flds |-> <<>>, errs |-> {}]
    PROVE  BetweenState(hpd_new(hp), a, 0, <<>>, <<>>, hp, wa)
<1>1. PICK e : e = hpd_new(hp)
  OBVIOUS
<1>2. /\ e.hp = hp /\ e.stp = "FLD_INT" /\ e.bsy = FALSE /\ e.used = 0
      /\ e.nam = -1 /\ e.val = -1 /\ e.flds = <<>> /\ e.heard = <<>>
      /\ e.big = FALSE /\ e.ret = "OK"
  BY <1>1 DEF hpd_new
<1>3. e \in Decoder
  <2>1. /\ "FLD_INT" \in Steps /\ <<>> \in Seq(Field) /\ <<>> \in Seq(Seen)
        /\ "OK" \in Results \cup {"SKP", "RSZ"}
    BY DEF Steps, Results
  <2> QED
    BY <1>1, <2>1 DEF hpd_new, Decoder
<1>4. Fields(<<>>) = <<>>
  <2>1. <<>> \in Seq(Seen)
    OBVIOUS
  <2>2. Fields(<<>>) \in Seq(Field) /\ Len(Fields(<<>>)) = 0
    BY <2>1, FieldsType
  <2> QED
    BY <2>2, EmptySeq
<1>5. Rooms(<<>>) = 0 /\ AllFit(<<>>)
  <2>1. <<>> \in Seq(Field)
    OBVIOUS
  <2>2. Rooms(<<>>) = 0 /\ (Rooms(<<>>) <= BufLen => AllFit(<<>>))
    BY <2>1, RoomsType
  <2>3. 0 <= BufLen
    BY PieceAssumption
  <2> QED
    BY <2>2, <2>3
<1>6. BufLen \in Nat
  BY PieceAssumption
<1>7. Idle(e)
  BY <1>2 DEF Idle
<1>8. Held(e) /\ Dropped(e)
  <2>1. SubSeq(Fields(<<>>), 0 + 1, 0) = <<>>
    BY <1>4
  <2>2. Len(<<>>) = 0
    OBVIOUS
  <2> QED
    BY <1>2, <1>4, <1>5, <1>6, <2>1, <2>2 DEF Held, Dropped
<1>9. Healthy(hp) /\ At(hp, "OK") = hp
  BY AbleIs, AtIs DEF Results
<1>10. Common(e, 0, hp)
  <2>1. 0 \in 0..Len(<<>>) /\ Measures(<<>>) /\ 0 <= BufLen
    BY <1>6 DEF Measures
  <2>2. Fit(e)
    BY <1>2 DEF Fit
  <2> QED
    BY <1>2, <1>3, <1>9, <2>1, <2>2 DEF Common
<1>11. Between2(e, a, 0, <<>>, hp, wa)
  BY <1>2, <1>4, <1>7, <1>8, <1>9 DEF Between2
<1> QED
  BY <1>1, <1>2, <1>9, <1>10, <1>11 DEF BetweenState

\* What hpack_resize makes of a decoder between two blocks.
LEMMA ResizeIs ==
    ASSUME NEW hp, Able(hp), hp.res = "OK", NEW n \in 0..MaxSize,
           NEW r, r = hpack_resize(hp, n, FALSE)
    PROVE  Able(r) /\ r.res = "OK" /\ r \in Codec
<1>1. /\ hp \in Codec /\ DecoderHealthy(hp) /\ hp.magic = "DECODER" /\ hp.realloc
      /\ n \in Nat /\ n <= MaxSize
  BY AbleIs, MaxSizeAssumption
<1>2. ResizeMemory(hp, n) = n
  BY <1>1 DEF ResizeMemory
<1>3. ResizeAsserts(hp, MaxSize)
  BY <1>1 DEF ResizeAsserts
<1>4. PICK g : g = hpack_realloc(hp, n, FALSE)
  OBVIOUS
<1>5. g.ret = "OK" /\ g.hp \in Codec /\ g.hp.res = "OK"
      /\ g.hp.magic = "DECODER" /\ g.hp.realloc
  <2>1. CASE n <= hp.mem
    BY <1>1, <1>4, <2>1 DEF hpack_realloc
  <2>2. CASE ~(n <= hp.mem)
    <3>1. ~(hp.len > n)
      BY <1>1, <2>2, DecoderRoom DEF Codec
    <3>2. g = [hp |-> [hp EXCEPT !.mem = n, !.self = TRUE], ret |-> "OK"]
      BY <1>1, <1>4, <2>2, <3>1, Zenon DEF hpack_realloc
    <3> QED
      BY <1>1, <3>2 DEF Codec
  <2> QED
    BY <2>1, <2>2
<1>6. r = [g.hp EXCEPT !.nxt = n, !.min = IF g.hp.min < 0 \/ g.hp.min > n
                                           THEN n ELSE g.hp.min]
  <2>1. PICK room : room = IF hp.realloc THEN MaxSize ELSE hp.mem
    OBVIOUS
  <2>2. PICK mem : mem = ResizeMemory(hp, n)
    OBVIOUS
  <2>3. PICK q : q = hpack_realloc(hp, mem, FALSE)
    OBVIOUS
  <2>4. room = MaxSize /\ mem = n /\ q = g
    BY <1>1, <1>2, <1>4, <2>1, <2>2, <2>3
  <2>5. PICK done : done = [q.hp EXCEPT !.nxt = n,
                       !.min = IF q.hp.min < 0 \/ q.hp.min > n THEN n ELSE q.hp.min]
    OBVIOUS
  <2>6. done = [q.hp EXCEPT !.nxt = n, !.min = IF @ < 0 \/ @ > n THEN n ELSE @]
    BY <1>5, <2>4, <2>5 DEF Codec
  <2>7. r = IF hp.res # "OK" THEN (IF hp.res = "BLK" THEN hp ELSE Abort(hp))
            ELSE IF ~ResizeAsserts(hp, room) THEN Abort(hp)
            ELSE IF mem > room \/ q.ret # "OK" THEN Defunct(hp)
            ELSE done
    BY <2>1, <2>2, <2>3, <2>6, Zenon DEF hpack_resize
  <2>8. ~(mem > room) /\ q.ret = "OK"
    BY <1>1, <1>5, <2>4, MaxSizeAssumption
  <2>9. ResizeAsserts(hp, room)
    BY <1>3, <2>4
  <2>10. r = done
    BY <2>7, <2>8, <2>9, Zenon
  <2> QED
    BY <2>4, <2>5, <2>10
<1>7. r.magic = "DECODER" /\ r.realloc /\ r.res = "OK"
  <2>1. PICK low : low = IF g.hp.min < 0 \/ g.hp.min > n THEN n ELSE g.hp.min
    OBVIOUS
  <2>2. r = [g.hp EXCEPT !.nxt = n, !.min = low]
    BY <1>6, <2>1, Zenon
  <2> QED
    BY <1>5, <2>2 DEF Codec
<1>8. DecoderHealthy(r)
  BY <1>1, ResizeDecoder
<1> QED
  BY <1>7, <1>8, AbleIs DEF Able

\* A decoder between two blocks whose codec changes.
LEMMA BetweenMoves ==
    ASSUME NEW e, NEW a, NEW g, NEW wh, NEW wa,
           BetweenState(e, a, 0, <<>>, g, wh, wa),
           NEW hp, Able(hp), hp.res = "OK", hp \in Codec,
           NEW r, r = [e EXCEPT !.hp = hp]
    PROVE  BetweenState(r, a, 0, <<>>, g, hp, wa)
<1>1. Common(e, 0, wh) /\ Between2(e, a, 0, g, wh, wa)
  BY Zenon DEF BetweenState
<1>2. /\ e \in Decoder /\ e.used <= BufLen /\ Fit(e) /\ 0 \in 0..Len(e.flds)
      /\ Measures(e.heard)
  BY <1>1 DEF Common
<1>3. r \in Decoder
  BY <1>2 DEF Decoder
<1>4. /\ r.hp = hp /\ r.stp = e.stp /\ r.bsy = e.bsy /\ r.used = e.used
      /\ r.nam = e.nam /\ r.val = e.val /\ r.flds = e.flds
      /\ r.heard = e.heard /\ r.big = e.big /\ r.ret = e.ret
  BY <1>2 DEF Decoder
<1>5. Idle(r) <=> Idle(e)
  BY <1>4 DEF Idle
<1>6. (Held(r) <=> Held(e)) /\ (Dropped(r) <=> Dropped(e))
  BY <1>4, HeldIs
<1>7. Healthy(hp) /\ At(hp, "OK") = hp
  BY AbleIs, AtIs DEF Results
<1>8. Fit(r)
  BY <1>2, <1>4 DEF Fit
<1>9. Common(r, 0, hp)
  BY <1>2, <1>3, <1>4, <1>7, <1>8 DEF Common
<1>10. Between2(r, a, 0, g, hp, wa)
  BY <1>1, <1>4, <1>5, <1>6, <1>7 DEF Between2
<1> QED
  BY <1>4, <1>7, <1>9, <1>10 DEF BetweenState

\* A message that is skipped.
LEMMA SkipGood ==
    ASSUME NEW e, NEW a, NEW ps, NEW g, NEW wh, NEW wa, e.ret = "SKP",
           BetweenState(e, a, ps, <<>>, g, wh, wa), NEW r, r = hpack_skip(e)
    PROVE  BetweenState(r, a, ps, <<>>, g, wh, wa)
<1>1. /\ Common(e, ps, wh) /\ Between2(e, a, ps, g, wh, wa)
      /\ Able(At(e.hp, "OK"))
  BY Zenon DEF BetweenState
<1>2. /\ e \in Decoder /\ e.used <= BufLen /\ Fit(e) /\ ps \in 0..Len(e.flds)
      /\ Measures(e.heard) /\ Healthy(e.hp) /\ wh \in Codec
  BY <1>1 DEF Common
<1>3. r \in Decoder
  BY <1>2 DEF Decoder, hpack_skip
<1>4. /\ r.hp = e.hp /\ r.stp = e.stp /\ r.bsy = e.bsy /\ r.used = e.used
      /\ r.nam = e.nam /\ r.val = e.val /\ r.flds = e.flds
      /\ r.heard = e.heard /\ r.ret = e.ret
  BY <1>2 DEF Decoder, hpack_skip
<1>5. Idle(r) <=> Idle(e)
  BY <1>4 DEF Idle
<1>6. Held(r) <=> Held(e)
  BY <1>4, HeldIs
<1>7. Fit(r)
  BY <1>2, <1>4 DEF Fit
<1>8. Common(r, ps, wh)
  BY <1>2, <1>3, <1>4, <1>7 DEF Common
<1>9. Between2(r, a, ps, g, wh, wa)
  BY <1>1, <1>4, <1>5, <1>6 DEF Between2
<1> QED
  BY <1>1, <1>4, <1>8, <1>9 DEF BetweenState

\* A call on the first n octets of s, by the names of its effects.
LEMMA DecodeDelivers ==
    ASSUME NEW s, NEW n, NEW same, same = TRUE, Decode(s, n, same),
           d.hp.res \in {"OK", "BLK"}
    PROVE  \E f : /\ Piece(f, d, s, n, n < Len(s))
                  /\ Delivers(f, api, d', pos', got') /\ todo' = Rest2(f, s, n)
<1>1. PICK f : f = DecodePiece(d, SubSeq(s, 1, n), n < Len(s), TRUE)
  OBVIOUS
<1>2. Piece(f, d, s, n, n < Len(s))
  BY <1>1, Zenon DEF Piece
<1>3. /\ todo' = IF f.ret = "BLK" THEN SubSeq(s, n + 1, Len(s)) ELSE <<>>
      /\ IF api = "hpack_decode"
         THEN d' = f /\ pos' = 0 /\ got' = Fields(f.heard)
         ELSE IF f.ret = "OK" THEN FieldAt(f, <<>>, 1)
         ELSE d' = f /\ pos' = 0 /\ got' = <<>>
  BY <1>1 DEF Decode
<1>4. FieldAt(f, <<>>, 1) => FieldIs(f, <<>>, 1, d', pos', got')
  BY Zenon DEF FieldAt, FieldIs
<1>5. Delivers(f, api, d', pos', got')
  BY <1>3, <1>4 DEF Delivers
<1>6. todo' = Rest2(f, s, n)
  BY <1>3, Zenon DEF Rest2
<1> QED
  BY <1>2, <1>5, <1>6, Zenon

\* A decoder that works is in a block or between two.
LEMMA WorksIn ==
    ASSUME Good, Working
    PROVE  /\ InsideState(d, api, pos, todo, got, whole, want)
              \/ BetweenState(d, api, pos, todo, got, whole, want)
           /\ InBlock => InsideState(d, api, 0, todo, got, whole, want) /\ pos = 0
           /\ ~InBlock => BetweenState(d, api, pos, <<>>, got, whole, want)
<1>1. ~FailedState(d, api, pos, todo, got, whole, want)
  BY DEF FailedState, Failed2, Working
<1>2. \/ InsideState(d, api, pos, todo, got, whole, want)
      \/ BetweenState(d, api, pos, todo, got, whole, want)
  BY <1>1, Zenon DEF Good, Good2
<1>3. InsideState(d, api, pos, todo, got, whole, want) => todo # <<>> /\ pos = 0
  BY Zenon DEF InsideState
<1>4. BetweenState(d, api, pos, todo, got, whole, want) => todo = <<>>
  BY Zenon DEF BetweenState
<1> QED
  BY <1>2, <1>3, <1>4 DEF InBlock

\* The initial state.
LEMMA InitGood == Init => Good
<1> SUFFICES ASSUME Init PROVE Good
  OBVIOUS
<1>1. PICK hp : hp = hpack_decoder(InitialMax, -1, TRUE)
  OBVIOUS
<1>2. InitialMax \in Nat /\ -1 \in Nat \cup {-1} /\ TRUE \in BOOLEAN
  BY BlocksAssumption, MaxSizeAssumption
<1>3. DecoderHealthy(hp) /\ hp.magic = "DECODER" /\ hp.res = "OK"
  <2>1. PICK rsz \in Nat \cup {-1} : rsz = -1
    BY <1>2
  <2>2. PICK yes \in BOOLEAN : yes = TRUE
    OBVIOUS
  <2>3. hp = hpack_decoder(InitialMax, rsz, yes)
    BY <1>1, <2>1, <2>2
  <2> QED
    BY <1>2, <2>3, NewDecoder
<1>4. hp.realloc
  BY <1>1 DEF hpack_decoder, hpack_new
<1>5. Able(hp)
  BY <1>3, <1>4 DEF Able
<1>6. hp \in Codec
  BY <1>5, AbleIs
<1>7. d = hpd_new(hp) /\ d.hp = hp
  BY <1>1 DEF Init, hpd_new
<1>8. PICK wa : wa = [flds |-> <<>>, errs |-> {}]
  OBVIOUS
<1>9. BetweenState(hpd_new(hp), api, 0, <<>>, <<>>, hp, wa)
  BY <1>3, <1>5, <1>6, <1>8, NewGood
<1>10. /\ api \in Apis /\ todo = <<>> /\ pos = 0 /\ got = <<>> /\ whole = hp
       /\ want = wa
  BY <1>7, <1>8 DEF Init
<1>11. BetweenState(d, api, pos, todo, got, whole, want)
  BY <1>7, <1>9, <1>10
<1>12. want.flds \in Seq(Field)
  BY <1>8, <1>10
<1> QED
  BY <1>10, <1>11, <1>12 DEF Good, Good2

\* The first piece of a block.
LEMMA BeginKeeps ==
    ASSUME Precautions, Good, NEW reps \in Blocks, Begin(reps)
    PROVE  Good'
<1>1. Working /\ ~InBlock /\ ~d.big /\ ~Iterating /\ api' = api
  BY DEF Begin, Precautions
<1>2. pos = 0
  BY <1>1 DEF Iterating
<1>3. BetweenState(d, api, 0, <<>>, got, whole, want)
  BY <1>1, <1>2, WorksIn
<1>13. PICK out \in {Outcome(Nothing(whole), reps, 0)} :
         \E len \in Lengths(reps) :
            /\ want' = Wanted(out, reps, len) /\ whole' = out.hp
            /\ \E n \in 1..len : Decode(SubSeq(BlockOctets(reps), 1, len), n, TRUE)
  BY Zenon DEF Begin
<1>14. PICK len \in Lengths(reps) :
         /\ want' = Wanted(out, reps, len) /\ whole' = out.hp
         /\ \E n \in 1..len : Decode(SubSeq(BlockOctets(reps), 1, len), n, TRUE)
  BY <1>13, Zenon
<1>4. /\ out = Outcome(Nothing(whole), reps, 0)
      /\ want' = Wanted(out, reps, len) /\ whole' = out.hp
      /\ \E n \in 1..len : Decode(SubSeq(BlockOctets(reps), 1, len), n, TRUE)
  BY <1>13, <1>14, Zenon
<1>5. PICK s : s = SubSeq(BlockOctets(reps), 1, len)
  OBVIOUS
<1>6. PICK n \in 1..len : Decode(s, n, TRUE)
  BY <1>4, <1>5
<1>7. d.hp.res \in {"OK", "BLK"}
  BY <1>3 DEF BetweenState, Between2
<1>8. PICK f : /\ Piece(f, d, s, n, n < Len(s))
               /\ Delivers(f, api, d', pos', got') /\ todo' = Rest2(f, s, n)
  BY <1>6, <1>7, DecodeDelivers
<1>9. Fits2(0, n, len, reps)
  <2>1. reps \in Seq(BlockRep) /\ reps # <<>>
    BY BlocksAssumption
  <2>2. 0 \in Nat /\ 0 < Len(reps)
    BY <2>1, EmptySeq, LenProperties
  <2>3. len \in Nat
    BY <2>1, <2>2, LengthIs
  <2>4. n \in Nat /\ 0 + n <= len
    BY <2>3
  <2> QED
    BY <2>2, <2>4 DEF Fits2
<1>10. api \in Apis /\ api \in {"hpack_decode", "hpack_decode_fields"}
  BY ApiIs DEF Good
<1>11. /\ Good2(d', api, pos', Rest2(f, s, n), got', out.hp, Wanted(out, reps, len))
       /\ Wanted(out, reps, len).flds \in Seq(Field)
  BY <1>1, <1>3, <1>4, <1>5, <1>8, <1>9, <1>10, BeginGood, Zenon
<1>12. /\ Good2(d', api', pos', todo', got', whole', want')
       /\ want'.flds \in Seq(Field)
  BY <1>1, <1>4, <1>8, <1>11
<1> QED
  BY <1>1, <1>10, <1>12 DEF Good

\* The next ones.
LEMMA ContinueKeeps ==
    ASSUME Precautions, Good, NEW n, NEW same \in BOOLEAN, Continue(n, same)
    PROVE  Good'
<1>1. /\ Working /\ InBlock /\ same = TRUE /\ n \in 1..Len(todo)
      /\ Decode(todo, n, same)
      /\ api' = api /\ whole' = whole /\ want' = want
  BY DEF Continue, Precautions
<1>2. InsideState(d, api, 0, todo, got, whole, want)
  BY <1>1, WorksIn
<1>3. d.hp.res \in {"OK", "BLK"}
  BY <1>2 DEF InsideState, Inside2
<1>4. PICK f : /\ Piece(f, d, todo, n, n < Len(todo))
               /\ Delivers(f, api, d', pos', got') /\ todo' = Rest2(f, todo, n)
  BY <1>1, <1>3, DecodeDelivers
<1>5. api \in Apis /\ api \in {"hpack_decode", "hpack_decode_fields"}
  BY ApiIs DEF Good
<1>6. Good2(d', api, pos', Rest2(f, todo, n), got', whole, want)
  BY <1>1, <1>2, <1>4, <1>5, ContinueGood, Zenon
<1>7. Good2(d', api', pos', todo', got', whole', want')
  BY <1>1, <1>4, <1>6
<1> QED
  BY <1>1, <1>5, <1>7 DEF Good

\* The next field of hpack_decode_fields.
LEMMA NextFieldKeeps ==
    ASSUME Precautions, Good, NextField
    PROVE  Good'
<1>1. /\ Working /\ pos # 0 /\ FieldAt(d, got, pos + 1)
      /\ api' = api /\ todo' = todo /\ whole' = whole /\ want' = want
  BY DEF NextField, Iterating
<1>2. ~InsideState(d, api, pos, todo, got, whole, want)
  BY <1>1 DEF InsideState
<1>3. BetweenState(d, api, pos, todo, got, whole, want)
  BY <1>1, <1>2, WorksIn, Zenon
<1>4. /\ Common(d, pos, whole) /\ Between2(d, api, pos, got, whole, want)
      /\ Able(At(d.hp, "OK")) /\ todo = <<>>
  BY <1>3, Zenon DEF BetweenState
<1>5. /\ Idle(d) /\ Held(d) /\ d.ret = "FLD" /\ whole = At(d.hp, "OK")
      /\ want.errs = {} /\ want.flds = Fields(d.heard)
      /\ api = "hpack_decode_fields" /\ got = SubSeq(want.flds, 1, pos)
      /\ ~d.big /\ Dropped(d)
  BY <1>1, <1>4 DEF Between2
<1>6. Quiet(d, whole, want)
  BY <1>4, <1>5 DEF Quiet, Common
<1>7. PICK k : k = pos + 1
  OBVIOUS
<1>8. pos \in 0..Len(d.flds) /\ d.flds \in Seq(Field)
  BY <1>4, DecoderIs DEF Common
<1>9. k \in Nat /\ 1 <= k /\ k <= Len(d.flds) + 1 /\ pos = k - 1
  BY <1>7, <1>8, LenProperties
<1>10. FieldIs(d, got, k, d', pos', got')
  BY <1>1, <1>7, Zenon DEF FieldAt, FieldIs
<1>11. got = SubSeq(want.flds, 1, k - 1)
  BY <1>5, <1>9
<1>12. BetweenState(d', "hpack_decode_fields", pos', <<>>, got', whole, want)
  BY <1>6, <1>9, <1>10, <1>11, GivesField
<1>13. Good2(d', api', pos', todo', got', whole', want')
  BY <1>1, <1>4, <1>5, <1>12 DEF Good2
<1> QED
  BY <1>1, <1>13 DEF Good

\* hpack_skip.
LEMMA SkipKeeps ==
    ASSUME Precautions, Good, Skip
    PROVE  Good'
<1>1. /\ Working /\ d.ret = "SKP" /\ d' = hpack_skip(d)
      /\ api' = api /\ todo' = todo /\ pos' = pos /\ got' = got
      /\ whole' = whole /\ want' = want
  BY DEF Skip, Precautions
<1>2. ~InsideState(d, api, pos, todo, got, whole, want)
  BY <1>1 DEF InsideState, Inside2
<1>3. BetweenState(d, api, pos, todo, got, whole, want)
  BY <1>1, <1>2, WorksIn, Zenon
<1>4. todo = <<>>
  BY <1>3 DEF BetweenState
<1>5. BetweenState(d', api, pos, <<>>, got, whole, want)
  BY <1>1, <1>3, <1>4, SkipGood
<1>6. Good2(d', api', pos', todo', got', whole', want')
  BY <1>1, <1>4, <1>5 DEF Good2
<1> QED
  BY <1>1, <1>6 DEF Good

\* hpack_resize.
LEMMA ResizeKeeps ==
    ASSUME Precautions, Good, NEW n \in Sizes, Resize(n)
    PROVE  Good'
<1>1. /\ Working /\ pos = 0 /\ d' = [d EXCEPT !.hp = hpack_resize(@, n, FALSE)]
      /\ whole' = IF InBlock THEN whole ELSE hpack_resize(whole, n, FALSE)
      /\ api' = api /\ todo' = todo /\ pos' = pos /\ got' = got
      /\ want' = want
  BY DEF Resize, Precautions, Iterating
<1>2. CASE InBlock
  <2>1. InsideState(d, api, 0, todo, got, whole, want)
    BY <1>1, <1>2, WorksIn
  <2>2. d \in Decoder /\ d.hp.res = "BLK"
    BY <2>1 DEF InsideState, Common, Inside2
  <2>3. hpack_resize(d.hp, n, FALSE) = d.hp
    BY <2>2, Zenon DEF hpack_resize
  <2>4. d' = d
    BY <1>1, <2>2, <2>3 DEF Decoder
  <2>5. Good2(d', api', pos', todo', got', whole', want')
    BY <1>1, <1>2, <2>4 DEF Good
  <2> QED
    BY <1>1, <2>5 DEF Good
<1>3. CASE ~InBlock
  <2>1. BetweenState(d, api, 0, <<>>, got, whole, want)
    BY <1>1, <1>3, WorksIn
  <2>2. /\ d \in Decoder /\ d.hp.res = "OK" /\ whole = At(d.hp, "OK")
        /\ Able(At(d.hp, "OK")) /\ d.hp \in Codec
    BY <2>1 DEF BetweenState, Common, Between2, Healthy
  <2>3. whole = d.hp /\ Able(d.hp)
    BY <2>2, AtIs DEF Results
  <2>4. PICK hp : hp = hpack_resize(d.hp, n, FALSE)
    OBVIOUS
  <2>5. n \in 0..MaxSize
    BY BlocksAssumption
  <2>6. Able(hp) /\ hp.res = "OK" /\ hp \in Codec
    BY <2>2, <2>3, <2>4, <2>5, ResizeIs
  <2>7. d' = [d EXCEPT !.hp = hp] /\ whole' = hp
    BY <1>1, <1>3, <2>3, <2>4
  <2>8. BetweenState(d', api, 0, <<>>, got, hp, want)
    BY <2>1, <2>6, <2>7, BetweenMoves
  <2>9. todo = <<>>
    BY <1>3 DEF InBlock
  <2>10. Good2(d', api', pos', todo', got', whole', want')
    BY <1>1, <2>7, <2>8, <2>9 DEF Good2
  <2> QED
    BY <1>1, <2>10 DEF Good
<1> QED
  BY <1>2, <1>3

\* Every step keeps the decoder what it should be.
LEMMA NextGood ==
    ASSUME Precautions, Good, [Next]_vars
    PROVE  Good'
<1>1. ASSUME NEW reps \in Blocks, Begin(reps) PROVE Good'
  BY <1>1, BeginKeeps
<1>2. ASSUME NEW n \in 1..Len(todo), NEW same \in BOOLEAN, Continue(n, same)
      PROVE  Good'
  BY <1>2, ContinueKeeps
<1>3. CASE NextField
  BY <1>3, NextFieldKeeps
<1>4. CASE Skip
  BY <1>4, SkipKeeps
<1>5. ASSUME NEW n \in Sizes, Resize(n) PROVE Good'
  BY <1>5, ResizeKeeps
<1>6. CASE UNCHANGED vars
  BY <1>6 DEF vars, Good
<1> QED
  BY <1>1, <1>2, <1>3, <1>4, <1>5, <1>6 DEF Next

(***************************************************************************)
(* What the invariant says of every property.                              *)
(***************************************************************************)

\* The three states of a decoder.
LEMMA GoodIs ==
    ASSUME Good
    PROVE  /\ api \in Apis /\ want.flds \in Seq(Field) /\ Common(d, pos, whole)
           /\ d \in Decoder /\ d.heard \in Seq(Seen) /\ d.flds \in Seq(Field)
           /\ Fields(d.heard) \in Seq(Field) /\ Len(Fields(d.heard)) = Len(d.heard)
           /\ \/ InsideState(d, api, pos, todo, got, whole, want)
              \/ BetweenState(d, api, pos, todo, got, whole, want)
              \/ FailedState(d, api, pos, todo, got, whole, want)
<1>1. Common(d, pos, whole)
  BY DEF Good, Good2, InsideState, BetweenState, FailedState
<1>2. d \in Decoder
  BY <1>1 DEF Common
<1> QED
  BY <1>1, <1>2, DecoderIs, FieldsType DEF Good, Good2

\* No assertion has failed.
LEMMA GoodNoAbort == Good => NoAbort
<1> SUFFICES ASSUME Good PROVE NoAbort
  OBVIOUS
<1>1. Common(d, pos, whole)
  BY GoodIs
<1>2. Healthy(d.hp)
  BY <1>1 DEF Common
<1>3. CASE Able(At(d.hp, "OK"))
  BY <1>2, <1>3, AbleOK DEF NoAbort
<1>4. CASE FailedState(d, api, pos, todo, got, whole, want)
  BY <1>4 DEF FailedState, Failed2, NoAbort
<1> QED
  BY <1>3, <1>4, GoodIs DEF InsideState, BetweenState

\* The codec between two blocks.
LEMMA GoodAsWhole == Good => AsWhole
<1> SUFFICES ASSUME Good, Working, Ended PROVE Rested(d.hp) = Rested(whole)
  BY DEF AsWhole
<1>1. todo = <<>> /\ pos = 0
  BY DEF Ended, InBlock, Iterating
<1>2. BetweenState(d, api, pos, todo, got, whole, want)
  BY <1>1, WorksIn DEF InsideState
<1>3. whole = At(d.hp, "OK") /\ d.hp \in Codec
  BY <1>2 DEF BetweenState, Between2, Common, Healthy
<1>4. At(whole, "OK") = At(d.hp, "OK")
  BY <1>3, AtIs DEF Results
<1> QED
  BY <1>4 DEF Rested, At

\* Sizes of fields.
LEMMA GoodMeasured == Good => Measured
<1> SUFFICES ASSUME Good PROVE Measured
  OBVIOUS
<1>1. Measures(d.heard) /\ d.heard \in Seq(Seen)
  BY GoodIs DEF Common
<1>2. DOMAIN d.heard = 1..Len(d.heard)
  BY <1>1, LenProperties
<1> QED
  BY <1>1, <1>2 DEF Measures, Measured

\* The fields that have been notified are the first of the block.
LEMMA InsidePrefix ==
    ASSUME Good, InsideState(d, api, pos, todo, got, whole, want)
    PROVE  Starts(Fields(d.heard), want.flds)
<1>1. /\ Common(d, pos, whole) /\ Able(At(d.hp, "OK"))
      /\ Inside2(d, api, todo, got, whole, want)
  BY DEF InsideState
<1>2. PICK reps \in Blocks : \E k \in 0..Len(reps) - 1, len \in Lengths(reps) :
                                Left(d, reps, k, len, todo, whole, want)
  BY <1>1 DEF Inside2
<1>3. PICK k \in 0..Len(reps) - 1, len \in Lengths(reps) :
              Left(d, reps, k, len, todo, whole, want)
  BY <1>2, Zenon
<1>4. PICK out : out = Outcome(Acc(d), reps, k)
  OBVIOUS
<1>5. want = Wanted(out, reps, len)
  BY <1>3, <1>4 DEF Left
<1>6. d.hp.res = "BLK" /\ d.hp \in Codec /\ Healthy(d.hp)
  BY <1>1 DEF Inside2, Common, Healthy
<1>7. Healthy(At(d.hp, "BLK"))
  BY <1>6, AtIs DEF Results
<1>8. Sane(Acc(d))
  BY <1>7, GoodIs DEF Sane, Acc, Verdict, Results
<1>9. reps \in Seq(BlockRep) /\ k \in 0..Len(reps)
  BY <1>2, <1>3, BlocksAssumption, LenProperties
<1>10. Starts(Acc(d).flds, out.flds)
  BY <1>4, <1>8, <1>9, OutcomeSane
<1> QED
  BY <1>5, <1>10 DEF Acc, Wanted

\* The fields the application is given.
LEMMA GoodFieldsGiven == Good => FieldsGiven
<1> SUFFICES ASSUME Good PROVE FieldsGiven
  OBVIOUS
<1>1. /\ want.flds \in Seq(Field) /\ Fields(d.heard) \in Seq(Field)
      /\ Len(Fields(d.heard)) = Len(d.heard)
  BY GoodIs
<1>2. IsPrefix(<<>>, want.flds)
  <2>1. SubSeq(want.flds, 1, 0) = <<>> /\ 0 \in 0..Len(want.flds)
    BY <1>1, LenProperties
  <2> QED
    BY <1>1, <2>1, StartsPrefix
<1>3. IsPrefix(want.flds, want.flds)
  <2>1. Starts(want.flds, want.flds)
    BY <1>1, LenProperties DEF Starts
  <2> QED
    BY <1>1, <2>1, StartsPrefix
<1>4. CASE InsideState(d, api, pos, todo, got, whole, want)
  <2>1. /\ todo # <<>> /\ d.ret = "BLK"
        /\ got = IF api = "hpack_decode" THEN Fields(d.heard) ELSE <<>>
    BY <1>4 DEF InsideState, Inside2
  <2>2. IsPrefix(Fields(d.heard), want.flds)
    BY <1>1, <1>4, InsidePrefix, StartsPrefix
  <2>3. IsPrefix(got, want.flds)
    BY <1>2, <2>1, <2>2
  <2>4. ~Ended
    BY <2>1 DEF Ended, InBlock
  <2> QED
    BY <2>1, <2>3, <2>4 DEF FieldsGiven
<1>5. CASE BetweenState(d, api, pos, todo, got, whole, want)
  <2>1. /\ d.ret \in IF pos # 0 THEN {"FLD"} ELSE {"OK", "SKP"}
        /\ want.flds = Fields(d.heard) /\ Held(d)
        /\ got = IF pos # 0 THEN SubSeq(want.flds, 1, pos)
                 ELSE IF api = "hpack_decode" \/ d.ret = "OK" THEN want.flds
                 ELSE <<>>
    BY <1>5 DEF BetweenState, Between2
  <2>2. pos \in 0..Len(want.flds)
    <3>1. pos \in 0..Len(d.flds) /\ d.flds \in Seq(Field) /\ d.heard \in Seq(Seen)
      BY GoodIs DEF Common
    <3>2. Len(d.heard) - Len(d.flds) >= 0
      BY <2>1 DEF Held
    <3>3. Len(want.flds) = Len(d.heard) /\ Len(d.heard) \in Nat /\ Len(d.flds) \in Nat
      BY <1>1, <2>1, <3>1, LenProperties
    <3>4. pos \in 0..Len(d.heard)
      BY <3>1, <3>2, <3>3
    <3> QED
      BY <3>3, <3>4
  <2>3. IsPrefix(SubSeq(want.flds, 1, pos), want.flds)
    BY <1>1, <2>2, StartsPrefix
  <2>4. IsPrefix(got, want.flds)
    BY <1>2, <1>3, <2>1, <2>3
  <2>5. Ended => pos = 0
    BY DEF Ended, Iterating
  <2> QED
    BY <2>1, <2>4, <2>5 DEF FieldsGiven
<1>6. CASE FailedState(d, api, pos, todo, got, whole, want)
  <2>1. /\ d.ret \notin {"OK", "SKP"}
        /\ IF api = "hpack_decode" THEN IsPrefix(got, want.flds) ELSE got = <<>>
    BY <1>6 DEF FailedState, Failed2
  <2>2. IsPrefix(got, want.flds)
    BY <1>2, <2>1
  <2> QED
    BY <2>1, <2>2 DEF FieldsGiven
<1> QED
  BY <1>4, <1>5, <1>6, GoodIs

\* A sequence backwards.
LEMMA ReverseIs ==
    ASSUME NEW S, NEW s \in Seq(S), NEW n \in Nat, Len(s) = n
    PROVE  /\ Reverse(s) \in Seq(S) /\ Len(Reverse(s)) = n
           /\ \A i \in 1..n : Reverse(s)[i] = s[(n - i) + 1]
<1>1. Reverse(s) = [i \in 1..n |-> s[(n - i) + 1]]
  BY DEF Reverse
<1>2. \A i \in 1..n : s[(n - i) + 1] \in S
  <2>1. ASSUME NEW i \in 1..n PROVE s[(n - i) + 1] \in S
    <3>1. PICK j : j = (n - i) + 1
      OBVIOUS
    <3>2. j \in 1..Len(s)
      BY <3>1
    <3>3. s[j] \in S
      BY <3>2, ElementOfSeq
    <3> QED
      BY <3>1, <3>3
  <2> QED
    BY <2>1
<1>3. PICK u : u = Reverse(s)
  OBVIOUS
<1>4. /\ u = [i \in 1..n |-> u[i]] /\ \A i \in 1..n : u[i] \in S
      /\ \A i \in 1..n : u[i] = s[(n - i) + 1]
  BY <1>1, <1>2, <1>3
<1>5. u \in Seq(S) /\ Len(u) = n
  BY <1>4
<1> QED
  BY <1>3, <1>4, <1>5

\* What ends a sequence, backwards, is how it begins backwards.
LEMMA EndIsSuffix ==
    ASSUME NEW S, NEW t \in Seq(S), NEW n \in Nat, Len(t) = n,
           NEW a \in Nat, a <= n, NEW s, Cut(s, t, a, n)
    PROVE  IsSuffix(s, t)
<1>1. n <= Len(t)
  OBVIOUS
<1>2. s \in Seq(S) /\ Slice(s, t, a, n)
  BY <1>1, SliceIs DEF Cut
<1>3. PICK l \in Nat : l = n - a
  OBVIOUS
<1>4. Len(s) = l /\ \A i \in 1..l : s[i] = t[a + i]
  BY <1>2, <1>3 DEF Slice
<1>5. PICK u : u = Reverse(s)
  OBVIOUS
<1>6. PICK v : v = Reverse(t)
  OBVIOUS
<1>7. /\ u \in Seq(S) /\ Len(u) = l
      /\ \A i \in 1..l : u[i] = s[(l - i) + 1]
  BY <1>2, <1>4, <1>5, ReverseIs
<1>8. /\ v \in Seq(S) /\ Len(v) = n
      /\ \A i \in 1..n : v[i] = t[(n - i) + 1]
  BY <1>6, ReverseIs
<1>9. \A i \in 1..l : v[i] = u[i]
  <2>1. ASSUME NEW i \in 1..l PROVE v[i] = u[i]
    <3>1. PICK j : j = (l - i) + 1
      OBVIOUS
    <3>2. j \in 1..l /\ i \in 1..n /\ a + j = (n - i) + 1
      BY <1>3, <3>1
    <3>3. u[i] = s[j]
      BY <1>7, <3>1
    <3>4. v[i] = t[a + j]
      BY <1>8, <3>2
    <3>5. s[j] = t[a + j]
      BY <1>4, <3>2
    <3> QED
      BY <3>3, <3>4, <3>5
  <2> QED
    BY <2>1
<1>10. Starts(u, v)
  BY <1>3, <1>7, <1>8, <1>9 DEF Starts
<1>11. IsPrefix(u, v)
  BY <1>7, <1>8, <1>10, StartsPrefix
<1> QED
  BY <1>5, <1>6, <1>11 DEF IsSuffix

\* The buffer between two fields.
LEMMA GoodBufferHolds == Good => BufferHolds
<1> SUFFICES ASSUME Good, Working, ~Partial(d)
             PROVE  /\ d.used = Rooms(d.flds)
                    /\ IsSuffix(d.flds, Fields(d.heard))
                    /\ ~d.big /\ d.ret # "SKP" => d.flds = Fields(d.heard)
  BY DEF BufferHolds
<1>1. Held(d) /\ d.nam = -1 /\ (~d.big /\ d.ret # "SKP" => Dropped(d))
  <2>1. CASE InsideState(d, api, pos, todo, got, whole, want)
    <3>1. Inside2(d, api, todo, got, whole, want)
      BY <2>1 DEF InsideState
    <3>2. PICK reps : \E k, len : Left(d, reps, k, len, todo, whole, want)
      BY <3>1, Zenon DEF Inside2
    <3>3. PICK k, len : Left(d, reps, k, len, todo, whole, want)
      BY <3>2, Zenon
    <3>4. Idle(d) \/ Reading(d, reps[k + 1])
      BY <3>3 DEF Left
    <3>5. ~d.bsy /\ d.stp = "FLD_INT"
      BY DEF Partial
    <3>6. d.nam = -1
      BY <3>4, <3>5 DEF Idle, Reading
    <3> QED
      BY <3>1, <3>6 DEF Inside2
  <2>2. CASE BetweenState(d, api, pos, todo, got, whole, want)
    BY <2>2 DEF BetweenState, Between2, Idle
  <2> QED
    BY <2>1, <2>2, WorksIn
<1>2. /\ d.flds \in Seq(Field) /\ d.heard \in Seq(Seen)
      /\ Fields(d.heard) \in Seq(Field) /\ Len(Fields(d.heard)) = Len(d.heard)
  BY GoodIs
<1>3. d.used = Rooms(d.flds)
  BY <1>1 DEF Held
<1>4. IsSuffix(d.flds, Fields(d.heard))
  <2>1. PICK gone : gone = Len(d.heard) - Len(d.flds)
    OBVIOUS
  <2>2. gone >= 0 /\ d.flds = SubSeq(Fields(d.heard), gone + 1, Len(d.heard))
    BY <1>1, <2>1 DEF Held
  <2>3. PICK n \in Nat : n = Len(d.heard)
    BY <1>2, LenProperties
  <2>4. gone \in Nat /\ gone <= n
    <3>1. PICK l \in Nat : l = Len(d.flds)
      BY <1>2, LenProperties
    <3>2. gone = n - l
      BY <2>1, <2>3, <3>1
    <3>3. gone >= 0
      BY <2>2
    <3> QED
      BY <3>2, <3>3
  <2>5. Cut(d.flds, Fields(d.heard), gone, n)
    BY <2>2, <2>3, Zenon DEF Cut
  <2>6. Len(Fields(d.heard)) = n
    BY <1>2, <2>3
  <2> QED
    BY <1>2, <2>3, <2>4, <2>5, <2>6, EndIsSuffix
<1>5. ASSUME ~d.big, d.ret # "SKP" PROVE d.flds = Fields(d.heard)
  <2>1. HeldAs(d.used, d.nam, d.flds, d.heard)
    BY <1>1, HeldIs
  <2>2. Len(d.flds) = Len(d.heard)
    BY <1>1, <1>5 DEF Dropped
  <2> QED
    BY <1>2, <2>1, <2>2, NoneDropped
<1> QED
  BY <1>3, <1>4, <1>5

\* The result of a block.
LEMMA GoodResultBySize == Good => ResultBySize
<1> SUFFICES ASSUME Good, Ended
             PROVE  /\ d.ret = "OK"  <=> want.errs = {} /\ Rooms(want.flds) <= BufLen
                    /\ d.ret = "SKP" <=> /\ want.errs = {} /\ AllFit(want.flds)
                                         /\ Rooms(want.flds) > BufLen
                    /\ d.ret = "BIG" => want.errs # {} \/ ~AllFit(want.flds)
                    /\ d.ret \notin {"OK", "SKP", "BIG"} => d.ret \in want.errs
  BY DEF ResultBySize
<1>1. todo = <<>> /\ pos = 0
  BY DEF Ended, InBlock, Iterating
<1>2. PICK n \in Nat : n = Rooms(want.flds)
  BY GoodIs, RoomsType
<1>3. n <= BufLen => AllFit(want.flds)
  BY <1>2, GoodIs, RoomsType
<1>4. BufLen \in Nat
  BY PieceAssumption
<1>5. CASE BetweenState(d, api, pos, todo, got, whole, want)
  <2>1. Between2(d, api, 0, got, whole, want)
    BY <1>1, <1>5 DEF BetweenState
  <2>2. /\ d.ret \in {"OK", "SKP"} /\ want.errs = {} /\ want.flds = Fields(d.heard)
        /\ Held(d) /\ d.nam = -1
        /\ IF d.ret = "SKP" THEN AllFit(want.flds) /\ Rooms(want.flds) > BufLen
           ELSE ~d.big /\ Dropped(d)
    BY <2>1 DEF Between2, Idle
  <2>3. ASSUME d.ret = "OK" PROVE n <= BufLen
    <3>1. HeldAs(d.used, d.nam, d.flds, d.heard)
      BY <2>2, HeldIs
    <3>2. Len(d.flds) = Len(d.heard)
      BY <2>2, <2>3 DEF Dropped
    <3>3. d.flds = want.flds
      BY <2>2, <3>1, <3>2, GoodIs, NoneDropped
    <3>4. d.used = n /\ d.used <= BufLen
      BY <1>2, <2>2, <3>3 DEF Held
    <3> QED
      BY <3>4
  <2>4. d.ret = "SKP" => AllFit(want.flds) /\ n > BufLen
    BY <1>2, <2>2
  <2>5. ~(n > BufLen /\ n <= BufLen)
    BY <1>4
  <2> QED
    BY <1>2, <1>4, <2>2, <2>3, <2>4, <2>5
<1>6. CASE FailedState(d, api, pos, todo, got, whole, want)
  <2>1. /\ d.ret \notin {"OK", "SKP"}
        /\ IF d.ret = "BIG" THEN want.errs # {} \/ ~AllFit(want.flds)
           ELSE d.ret \in want.errs
    BY <1>6 DEF FailedState, Failed2
  <2>2. want.errs # {} \/ ~AllFit(want.flds)
    BY <2>1
  <2> QED
    BY <1>2, <1>3, <2>1, <2>2
<1>7. ~InsideState(d, api, pos, todo, got, whole, want)
  BY <1>1 DEF InsideState
<1> QED
  BY <1>5, <1>6, <1>7, GoodIs

\* The smaller of two numbers.
LEMMA MinIs ==
    ASSUME NEW a \in Nat, NEW b \in Nat, NEW i, i \in 1..Min({a, b})
    PROVE  i \in Nat /\ 1 <= i /\ i <= a /\ i <= b
<1>1. \E x \in {a, b} : \A y \in {a, b} : x <= y
  <2>1. CASE a <= b
    BY <2>1
  <2>2. CASE ~(a <= b)
    BY <2>2
  <2> QED
    BY <2>1, <2>2
<1>2. PICK m : m = Min({a, b})
  OBVIOUS
<1>3. m \in {a, b} /\ \A y \in {a, b} : m <= y
  BY <1>1, <1>2 DEF Min
<1>4. m \in Nat /\ m <= a /\ m <= b /\ i \in 1..m
  BY <1>2, <1>3
<1> QED
  BY <1>4

\* The octets of a string behind the next one, and the one behind it.
Runs(o, p, e, len) ==
    /\ \A i \in 1..e.left : p + i <= len /\ o[p + i].stp = e.stp
    /\ e.stp = "NAM_STR" => p + e.left + 1 <= len /\ o[p + e.left + 1].stp # e.stp
    /\ e.stp = "VAL_STR" => p + e.left = len

\* A string in the name of a representation.
LEMMA NameRuns ==
    ASSUME NEW e \in Decoder, NEW rep \in BlockRep, Reading(e, rep),
           e.stp = "NAM_STR",
           NEW i \in Nat, NEW n \in Nat, NEW nl \in Nat, NEW v \in Nat,
           NEW vl \in Nat, NEW en \in Nat, Shape(rep, i, n, nl, v, vl, en),
           NEW o, LaidAs(rep, o, i, n, nl, v, vl, en),
           NEW len \in Nat, Len(o) = len, NEW p, p = en - e.left
    PROVE  e.left \in 1..nl /\ Runs(o, p, e, len)
<1>1. IsLiteral(rep) /\ rep.num = 0 /\ e.left \in 1..Len(rep.nput)
  BY DEF Reading
<1>2. /\ Len(rep.nput) = nl /\ v \in {1, 2} /\ en = i + n + nl
  BY <1>1 DEF Shape, Parts
<1>3. PICK l \in Nat : l = e.left
  BY DecoderIs
<1>4. l \in 1..nl /\ p = en - l /\ en + v + vl = len
  BY <1>1, <1>2, <1>3 DEF LaidAs
<1>5. /\ \A j \in 1..nl : o[i + n + j] = Oct(rep, "NAM_STR", rep.nput[j])
      /\ \A j \in 1..v : o[en + j] = Oct(rep, "VAL_LEN", IF j < v THEN 1 ELSE 0)
  BY <1>1 DEF LaidAs, StringAt, IntAt
<1>6. ASSUME NEW j \in 1..l PROVE p + j <= len /\ o[p + j].stp = "NAM_STR"
  <2>1. PICK k : k = nl - l + j
    OBVIOUS
  <2>2. k \in 1..nl /\ p + j = i + n + k /\ p + j <= len
    BY <1>2, <1>4, <2>1, SMTT(60)
  <2>3. o[i + n + k] = Oct(rep, "NAM_STR", rep.nput[k])
    BY <1>5, <2>2
  <2> QED
    BY <2>2, <2>3 DEF Oct
<1>7. p + l + 1 <= len /\ o[p + l + 1].stp # "NAM_STR"
  <2>1. 1 \in 1..v /\ p + l + 1 = en + 1 /\ p + l + 1 <= len
    BY <1>2, <1>4
  <2>2. o[en + 1] = Oct(rep, "VAL_LEN", IF 1 < v THEN 1 ELSE 0)
    BY <1>5, <2>1
  <2> QED
    BY <2>1, <2>2 DEF Oct
<1> QED
  BY <1>3, <1>4, <1>6, <1>7 DEF Runs

\* A string in its value.
LEMMA ValueRuns ==
    ASSUME NEW e \in Decoder, NEW rep \in BlockRep, Reading(e, rep),
           e.stp = "VAL_STR",
           NEW i \in Nat, NEW n \in Nat, NEW nl \in Nat, NEW v \in Nat,
           NEW vl \in Nat, NEW en \in Nat, Shape(rep, i, n, nl, v, vl, en),
           NEW o, LaidAs(rep, o, i, n, nl, v, vl, en),
           NEW len \in Nat, Len(o) = len, NEW p, p = len - e.left
    PROVE  e.left \in 1..vl /\ Runs(o, p, e, len)
<1>1. IsLiteral(rep) /\ e.left \in 1..Len(rep.vput)
  BY DEF Reading
<1>2. Len(rep.vput) = vl
  BY <1>1 DEF Shape, Parts
<1>3. PICK l \in Nat : l = e.left
  BY DecoderIs
<1>4. l \in 1..vl /\ p = len - l /\ en + v + vl = len
  BY <1>1, <1>2, <1>3 DEF LaidAs
<1>5. \A j \in 1..vl : o[en + v + j] = Oct(rep, "VAL_STR", rep.vput[j])
  BY <1>1 DEF LaidAs, StringAt
<1>6. ASSUME NEW j \in 1..l PROVE p + j <= len /\ o[p + j].stp = "VAL_STR"
  <2>1. PICK k : k = vl - l + j
    OBVIOUS
  <2>2. k \in 1..vl /\ p + j = en + v + k /\ p + j <= len
    BY <1>4, <2>1
  <2>3. o[en + v + k] = Oct(rep, "VAL_STR", rep.vput[k])
    BY <1>5, <2>2
  <2> QED
    BY <2>2, <2>3 DEF Oct
<1>7. p + l = len
  BY <1>4
<1> QED
  BY <1>3, <1>4, <1>6, <1>7 DEF Runs

\* A representation begins with its index.
LEMMA FirstStep ==
    ASSUME NEW reps \in Seq(BlockRep), NEW k \in Nat, k < Len(reps),
           NEW m \in Nat, m = Len(FirstOctets(reps, k))
    PROVE  BlockOctets(reps)[m + 1].stp = "FLD_INT"
<1>1. PICK rep : rep = reps[k + 1]
  OBVIOUS
<1>2. rep \in BlockRep /\ k \in 0..Len(reps)
  BY <1>1, FirstStarts, LenProperties
<1>3. PICK i, n, nl, v, vl, en \in Nat : Shape(rep, i, n, nl, v, vl, en)
  BY <1>2, PartsOf, Zenon
<1>4. Parts(rep, i, n, nl, v, vl, en) /\ i \in {1, 2}
  BY <1>3, Zenon DEF Shape
<1>5. PICK o : o = Octets(rep)
  OBVIOUS
<1>6. LaidAs(rep, o, i, n, nl, v, vl, en)
  BY <1>2, <1>4, <1>5, OctetsAre
<1>7. o \in Seq(Octet) /\ Len(o) \in Nat \ {0}
  BY <1>2, <1>5, OctetsType
<1>8. o[1] = Oct(rep, "FLD_INT", IF 1 < i THEN 1 ELSE 0)
  BY <1>4, <1>6 DEF LaidAs, IntAt
<1>9. 1 \in 1..Len(o)
  BY <1>7
<1>10. o = Octets(reps[k + 1])
  BY <1>1, <1>5
<1>11. /\ Len(FirstOctets(reps, k + 1)) = m + Len(o)
       /\ \A j \in 1..Len(o) : BlockOctets(reps)[m + j] = o[j]
  <2>1. Len(FirstOctets(reps, k)) = m
    OBVIOUS
  <2> QED
    BY <1>2, <1>7, <1>10, <2>1, OctetsInBlock
<1>12. BlockOctets(reps)[m + 1] = o[1]
  BY <1>9, <1>11
<1> QED
  BY <1>8, <1>12 DEF Oct

\* The step of the decoder and the octets to come.
AsMeant(e, s) ==
    /\ e.stp = s[1].stp
    /\ e.bsy => s[1].n = 0
    /\ e.stp \in {"NAM_STR", "VAL_STR"} =>
          /\ e.left > 0
          /\ \A i \in 1..Min({e.left, Len(s)}) : s[i].stp = e.stp
          /\ e.left < Len(s) => s[e.left + 1].stp # e.stp

\* Inside a block.
LEMMA StepIsMeant ==
    ASSUME NEW e \in Decoder, NEW reps \in Seq(BlockRep), NEW k \in Nat,
           k < Len(reps), NEW rep, rep = reps[k + 1],
           Idle(e) \/ Reading(e, rep),
           NEW at, at = Len(FirstOctets(reps, k)) + Place(e, rep),
           NEW len \in Nat, len <= Len(BlockOctets(reps)), at < len,
           NEW s, Slice(s, BlockOctets(reps), at, len)
    PROVE  AsMeant(e, s)
<1>1. rep \in BlockRep /\ k \in 0..Len(reps)
  BY FirstStarts, LenProperties
<1>2. PICK i, n, nl, v, vl, en \in Nat : Shape(rep, i, n, nl, v, vl, en)
  BY <1>1, PartsOf, Zenon
<1>3. Sized(rep, i, n, nl, v, vl, en)
  BY <1>2, Zenon DEF Sized
<1>4. PICK p, l \in Nat, b \in {0, 1} :
         Survey(e, rep, i, n, nl, v, vl, en, p, l, b)
  BY <1>1, <1>3, Surveyed, Zenon
<1>5. PICK o : o = Octets(rep)
  OBVIOUS
<1>6. /\ Next1(o[p + 1], p, l, e, rep, i, n, nl, v, vl, en, b)
      /\ Place(e, rep) = p /\ (e.bsy <=> b = 1)
      /\ Layout(rep, i, n, nl, v, vl, en, l)
  BY <1>4, <1>5, Zenon DEF Survey
<1>7. p \in Nat /\ p < l /\ Len(o) = l /\ l \in Nat
  BY <1>5, <1>6 DEF Next1, Layout
<1>8. PICK m \in Nat : m = Len(FirstOctets(reps, k))
  BY <1>1, FirstStarts, LenProperties
<1>9. at = m + p
  BY <1>6, <1>8
<1>10. o \in Seq(Octet)
  BY <1>1, <1>5, OctetsType
<1>11. /\ Len(FirstOctets(reps, k + 1)) = m + l
       /\ \A j \in 1..l : BlockOctets(reps)[m + j] = o[j]
  <2>1. o = Octets(reps[k + 1])
    BY <1>5
  <2>2. /\ Len(FirstOctets(reps, k + 1)) = m + Len(o)
        /\ \A j \in 1..Len(o) : BlockOctets(reps)[m + j] = o[j]
    BY <1>1, <1>8, <1>10, <2>1, OctetsInBlock, SMTT(60)
  <2> QED
    BY <1>7, <2>2
<1>12. PICK h \in Nat : h = len - at
  BY <1>7, <1>8, <1>9
<1>13. Len(s) = h /\ h > 0 /\ \A j \in 1..h : s[j] = BlockOctets(reps)[at + j]
  BY <1>7, <1>8, <1>9, <1>12, SMTT(60) DEF Slice
<1>14. ASSUME NEW j \in 1..h, p + j <= l PROVE s[j] = o[p + j]
  <2>1. PICK q : q = p + j
    OBVIOUS
  <2>2. q \in 1..l /\ at + j = m + q
    BY <1>7, <1>9, <1>14, <2>1
  <2> QED
    BY <1>11, <1>13, <2>1, <2>2
<1>15. s[1] = o[p + 1]
  <2>1. 1 \in 1..h /\ p + 1 <= l
    BY <1>7, <1>13
  <2> QED
    BY <1>14, <2>1
<1>16. e.stp = s[1].stp
  BY <1>6, <1>15 DEF Next1
<1>17. ASSUME e.bsy PROVE s[1].n = 0
  <2>1. b = 1
    BY <1>6, <1>17
  <2>2. i \in {1, 2} /\ n \in {1, 2} /\ v \in {1, 2}
    BY <1>2 DEF Shape
  <2>3. e.stp \in Steps
    BY DecoderIs
  <2>4. PICK x : x = o[p + 1]
    OBVIOUS
  <2>5. /\ e.stp = "FLD_INT" => x.n = IF b + 1 < i THEN 1 ELSE 0
        /\ e.stp = "NAM_LEN" => x.n = IF b + 1 < n THEN 1 ELSE 0
        /\ e.stp = "VAL_LEN" => x.n = IF b + 1 < v THEN 1 ELSE 0
        /\ e.stp # "NAM_STR" /\ e.stp # "VAL_STR"
    <3>1. Next1(x, p, l, e, rep, i, n, nl, v, vl, en, b)
      BY <1>6, <2>4
    <3>2. /\ e.stp = "FLD_INT" => x.n = IF b + 1 < i THEN 1 ELSE 0
          /\ e.stp = "NAM_LEN" => x.n = IF b + 1 < n THEN 1 ELSE 0
          /\ e.stp = "VAL_LEN" => x.n = IF b + 1 < v THEN 1 ELSE 0
          /\ e.stp = "NAM_STR" => b = 0
          /\ e.stp = "VAL_STR" => b = 0
      BY <3>1, Zenon DEF Next1
    <3>3. b # 0
      BY <2>1
    <3> QED
      BY <3>2, <3>3, Zenon
  <2>6. ~(b + 1 < i) /\ ~(b + 1 < n) /\ ~(b + 1 < v)
    BY <2>1, <2>2
  <2>7. x.n = 0
    BY <2>3, <2>5, <2>6 DEF Steps
  <2> QED
    BY <1>15, <2>4, <2>7
<1>18. ASSUME e.stp \in {"NAM_STR", "VAL_STR"}
       PROVE  /\ e.left > 0
              /\ \A j \in 1..Min({e.left, Len(s)}) : s[j].stp = e.stp
              /\ e.left < Len(s) => s[e.left + 1].stp # e.stp
  <2>1. Reading(e, rep)
    BY <1>18 DEF Idle
  <2>2. LaidAs(rep, o, i, n, nl, v, vl, en)
    <3>1. Parts(rep, i, n, nl, v, vl, en)
      BY <1>2, Zenon DEF Shape
    <3> QED
      BY <1>1, <1>5, <3>1, OctetsAre
  <2>3. e.left \in Nat /\ e.left > 0 /\ Runs(o, p, e, l)
    <3>1. CASE e.stp = "NAM_STR"
      <4>1. p = en - e.left
        BY <1>6, <3>1 DEF Next1
      <4>2. e.left \in 1..nl /\ Runs(o, p, e, l)
        BY <1>1, <1>2, <1>7, <2>1, <2>2, <3>1, <4>1, NameRuns
      <4> QED
        BY <4>2
    <3>2. CASE e.stp = "VAL_STR"
      <4>1. p = l - e.left
        BY <1>6, <3>2 DEF Next1
      <4>2. e.left \in 1..vl /\ Runs(o, p, e, l)
        BY <1>1, <1>2, <1>7, <2>1, <2>2, <3>2, <4>1, ValueRuns
      <4> QED
        BY <4>2
    <3> QED
      BY <1>18, <3>1, <3>2
  <2>4. PICK c \in Nat : c = e.left
    BY <2>3
  <2>5. ASSUME NEW j \in 1..Min({e.left, Len(s)}) PROVE s[j].stp = e.stp
    <3>1. j \in 1..Min({c, h})
      BY <1>13, <2>4
    <3>2. j \in Nat /\ 1 <= j /\ j <= c /\ j <= h
      BY <3>1, MinIs
    <3>3. j \in 1..h /\ j \in 1..e.left
      BY <2>4, <3>2
    <3>4. p + j <= l /\ o[p + j].stp = e.stp
      BY <2>3, <3>3 DEF Runs
    <3> QED
      BY <1>14, <3>3, <3>4
  <2>6. ASSUME c < h PROVE s[c + 1].stp # e.stp
    <3>1. PICK c1 \in 1..h : c1 = c + 1
      BY <2>6
    <3>2. CASE e.stp = "NAM_STR"
      <4>1. p + c + 1 <= l /\ o[p + c + 1].stp # e.stp
        BY <2>3, <2>4, <3>2 DEF Runs
      <4>2. p + c1 = p + c + 1
        BY <1>7, <3>1
      <4> QED
        BY <1>14, <3>1, <4>1, <4>2
    <3>3. CASE e.stp = "VAL_STR"
      <4>1. p + c = l
        BY <2>3, <2>4, <3>3 DEF Runs
      <4>2. PICK m2 \in Nat : m2 = m + l
        BY <1>7
      <4>3. at + c1 = m2 + 1 /\ m2 < len
        BY <1>7, <1>9, <1>12, <3>1, <4>1, <4>2, <2>6, SMTT(60)
      <4>4. PICK k2 \in Nat : k2 = k + 1
        OBVIOUS
      <4>5. Len(FirstOctets(reps, k2)) = m2
        BY <1>11, <4>2, <4>4
      <4>6. k2 < Len(reps)
        <5>1. CASE k2 = Len(reps)
          <6>1. Len(BlockOctets(reps)) = m2
            BY <4>5, <5>1 DEF BlockOctets
          <6> QED
            BY <4>3, <6>1
        <5>2. Len(reps) \in Nat
          BY LenProperties
        <5> QED
          BY <4>4, <5>1, <5>2
      <4>7. BlockOctets(reps)[m2 + 1].stp = "FLD_INT"
        BY <4>5, <4>6, FirstStep
      <4>8. s[c1] = BlockOctets(reps)[at + c1]
        BY <1>13, <3>1
      <4> QED
        BY <3>1, <3>3, <4>3, <4>7, <4>8
    <3> QED
      BY <1>18, <3>2, <3>3
  <2> QED
    BY <1>13, <2>3, <2>4, <2>5, <2>6
<1> QED
  BY <1>16, <1>17, <1>18 DEF AsMeant

\* The octet that comes is meant for the step the decoder stands at.
LEMMA GoodInStep == Good => InStep
<1> SUFFICES ASSUME Good, InBlock
             PROVE  /\ d.stp = Head(todo).stp
                    /\ d.bsy => Head(todo).n = 0
                    /\ d.stp \in {"NAM_STR", "VAL_STR"} =>
                          /\ d.left > 0
                          /\ \A i \in 1..Min({d.left, Len(todo)}) : todo[i].stp = d.stp
                          /\ d.left < Len(todo) => todo[d.left + 1].stp # d.stp
  BY DEF InStep
<1>1. InsideState(d, api, pos, todo, got, whole, want)
  BY GoodIs DEF InBlock, BetweenState, FailedState, Failed2
<1>2. Inside2(d, api, todo, got, whole, want)
  BY <1>1 DEF InsideState
<1>3. PICK reps \in Blocks : \E k \in 0..Len(reps) - 1, len \in Lengths(reps) :
                                Left(d, reps, k, len, todo, whole, want)
  BY <1>2 DEF Inside2
<1>4. PICK k \in 0..Len(reps) - 1, len \in Lengths(reps) :
              Left(d, reps, k, len, todo, whole, want)
  BY <1>3, Zenon
<1>5. PICK rep : rep = reps[k + 1]
  OBVIOUS
<1>6. PICK at : at = Len(FirstOctets(reps, k)) + Place(d, rep)
  OBVIOUS
<1>7. /\ Idle(d) \/ Reading(d, rep)
      /\ at < len /\ todo = SubSeq(BlockOctets(reps), at + 1, len)
  BY <1>4, <1>5, <1>6 DEF Left
<1>8. reps \in Seq(BlockRep) /\ k \in Nat /\ k < Len(reps) /\ d \in Decoder
  BY <1>3, <1>4, BlocksAssumption, LenProperties, GoodIs
<1>9. /\ Len(BlockOctets(reps)) \in Nat /\ len \in Nat
      /\ len <= Len(BlockOctets(reps)) /\ Len(FirstOctets(reps, k)) \in Nat
  BY <1>4, <1>8, LengthIs
<1>10. rep \in BlockRep /\ k \in 0..Len(reps)
  BY <1>5, <1>8, FirstStarts, LenProperties
<1>11. Place(d, rep) \in Nat
  BY <1>7, <1>8, <1>10, PlaceNat
<1>12. at \in Nat
  BY <1>6, <1>9, <1>11
<1>13. BlockOctets(reps) \in Seq(Octet)
  <2>1. BlockOctets(reps) = FirstOctets(reps, Len(reps)) /\ Len(reps) \in 0..Len(reps)
    BY <1>8, LenProperties DEF BlockOctets
  <2> QED
    BY <1>8, <2>1, FirstStarts
<1>14. at <= len
  BY <1>7, <1>9, <1>12
<1>15. todo \in Seq(Octet) /\ Slice(todo, BlockOctets(reps), at, len)
  BY <1>7, <1>9, <1>12, <1>13, <1>14, SliceIs
<1>16. AsMeant(d, todo)
  BY <1>5, <1>6, <1>7, <1>8, <1>9, <1>15, StepIsMeant
<1>17. Head(todo) = todo[1]
  OBVIOUS
<1> QED
  BY <1>16, <1>17 DEF AsMeant

\* Every state of a decoder, however its blocks are cut and whatever they say,
\* satisfies the inductive invariant, when the application skips what it must
\* skip, keeps its buffer and runs its iterations to the end.
THEOREM BlocksInductive ==
    ASSUME Precautions
    PROVE  Spec => []Inductive
<1>1. Init => Good
  BY InitGood
<1>2. Good /\ [Next]_vars => Good'
  BY NextGood
<1>3. Good => Inductive
  BY InductiveFolds
<1> QED
  BY <1>1, <1>2, <1>3, PTL DEF Spec

\* The decoder keeps its types, and within its buffer.
THEOREM BlocksTypeOK ==
    ASSUME Precautions
    PROVE  Spec => []TypeOK
<1>1. Inductive => TypeOK
  BY DEF Inductive
<1> QED
  BY <1>1, BlocksInductive, PTL

\* No assertion of hpack_decode, hpack_decode_fields, hpack_skip, hpack_resize
\* or the table fails, wherever blocks are cut.
THEOREM BlocksNoAbort ==
    ASSUME Precautions
    PROVE  Spec => []NoAbort
BY BlocksInductive, InductiveUnfolds, GoodNoAbort, PTL

\* The step and the length the decoder keeps between two pieces are those of
\* the next octet of the block.
THEOREM BlocksInStep ==
    ASSUME Precautions
    PROVE  Spec => []InStep
BY BlocksInductive, InductiveUnfolds, GoodInStep, PTL

\* Between two blocks the codec is the one whole representations leave, also
\* when the message had to be skipped.
THEOREM BlocksAsWhole ==
    ASSUME Precautions
    PROVE  Spec => []AsWhole
BY BlocksInductive, InductiveUnfolds, GoodAsWhole, PTL

\* The application is given the fields of the block, in their order, and all of
\* them with an OK.
THEOREM BlocksFieldsGiven ==
    ASSUME Precautions
    PROVE  Spec => []FieldsGiven
BY BlocksInductive, InductiveUnfolds, GoodFieldsGiven, PTL

\* The sizes a field is notified with are those of its two strings.
THEOREM BlocksMeasured ==
    ASSUME Precautions
    PROVE  Spec => []Measured
BY BlocksInductive, InductiveUnfolds, GoodMeasured, PTL

\* The buffer holds the last fields of the block, and all of them until one has
\* to be dropped.
THEOREM BlocksBufferHolds ==
    ASSUME Precautions
    PROVE  Spec => []BufferHolds
BY BlocksInductive, InductiveUnfolds, GoodBufferHolds, PTL

\* What the block says and the room its fields take decide on the result.
THEOREM BlocksResultBySize ==
    ASSUME Precautions
    PROVE  Spec => []ResultBySize
BY BlocksInductive, InductiveUnfolds, GoodResultBySize, PTL
=============================================================================
