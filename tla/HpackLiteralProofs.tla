------------------------- MODULE HpackLiteralProofs -------------------------
(***************************************************************************)
(* The integer representation, for every octet, every number of groups and *)
(* every value of 16 bits.  The Huffman strings of HpackLiteral are left   *)
(* to TLC: what they say of the code depends on its 257 entries.           *)
(***************************************************************************)
EXTENDS HpackLiteral, TLAPS

\* The weights IntGroup uses are numbers.
LEMMA Weights == \A m \in 0..16 : 2^m \in Nat
<1> SUFFICES ASSUME NEW m \in 0..16 PROVE 2^m \in Nat
  OBVIOUS
<1>1. CASE m = 0
  BY <1>1
<1>2. CASE m = 1
  BY <1>2
<1>3. CASE m = 2
  BY <1>3
<1>4. CASE m = 3
  BY <1>4
<1>5. CASE m = 4
  BY <1>5
<1>6. CASE m = 5
  BY <1>6
<1>7. CASE m = 6
  BY <1>7
<1>8. CASE m = 7
  BY <1>8
<1>9. CASE m = 8
  BY <1>9
<1>10. CASE m = 9
  BY <1>10
<1>11. CASE m = 10
  BY <1>11
<1>12. CASE m = 11
  BY <1>12
<1>13. CASE m = 12
  BY <1>13
<1>14. CASE m = 13
  BY <1>14
<1>15. CASE m = 14
  BY <1>15
<1>16. CASE m = 15
  BY <1>16
<1>17. CASE m = 16
  BY <1>17
<1> QED
  BY <1>1, <1>2, <1>3, <1>4, <1>5, <1>6, <1>7, <1>8, <1>9,
     <1>10, <1>11, <1>12, <1>13, <1>14, <1>15, <1>16, <1>17

\* The widths are numbers: their value is seldom needed.
LEMMA Widths == UINT16 \in Nat /\ UINT8 \in Nat /\ UINT16 > 127 /\ UINT8 > 21
BY DEF UINT16, UINT8

\* The smaller of two numbers.
LEMMA CappedIs ==
    ASSUME NEW n \in Nat
    PROVE  Capped(n) = IF n < TooLarge THEN n ELSE TooLarge
<1>1. PICK m \in Nat : m = IF n < TooLarge THEN n ELSE TooLarge
  BY DEF TooLarge, UINT16
<1>2. m \in {n, TooLarge} /\ \A y \in {n, TooLarge} : m <= y
  BY <1>1 DEF TooLarge, UINT16
<1>3. \A x \in {n, TooLarge} : (\A y \in {n, TooLarge} : x <= y) => x = m
  BY <1>1 DEF TooLarge, UINT16
<1>4. Capped(n) = m
  BY <1>2, <1>3 DEF Capped, Min
<1> QED
  BY <1>1, <1>4

\* The prefix is the value, or says that groups follow.
LEMMA PrefixRead ==
    ASSUME NEW b \in Octet, NEW i, i = IntPrefix(7, b)
    PROVE  /\ i \in IntState /\ i.v = b % 128 /\ i.m = 0
           /\ i.bsy <=> b % 128 = 127
<1>1. 2^7 = 128 /\ Mask(7) = 127
  BY DEF Mask
<1>2. PICK v \in 0..127 : v = b % 128
  BY DEF Octet
<1>3. PICK bsy \in BOOLEAN : bsy <=> v = 127
  <2>1. (v = 127) \in BOOLEAN
    OBVIOUS
  <2> QED
    BY <2>1
<1>4. i = [bsy |-> bsy, v |-> v, m |-> 0]
  BY <1>1, <1>2, <1>3, Zenon DEF IntPrefix
<1>5. v \in 0..(UINT16 - 1) /\ 0 \in 0..(UINT8 - 1)
  BY Widths
<1> QED
  BY <1>2, <1>3, <1>4, <1>5 DEF IntState

\* What is stored in 16 bits.
LEMMA Remainder ==
    ASSUME NEW n \in Nat
    PROVE  /\ n % UINT16 \in 0..(UINT16 - 1)
           /\ n < UINT16 => n % UINT16 = n
<1>1. n % UINT16 \in Nat /\ n % UINT16 < UINT16
  BY DEF UINT16
<1>2. n < UINT16 => n % UINT16 = n
  BY DEF UINT16
<1> QED
  BY <1>1, <1>2, Widths

\* A group that goes on with integer i at a weight of m bits makes it sum.
Continues(i, b, m, sum) ==
    /\ i \in IntState /\ i.m = m /\ m \in {0, 7, 14}
    /\ b \in Octet
    /\ sum = i.v + (b % 128) * 2^m

\* It does as long as the sum is exact, and is refused only when it is not.
LEMMA GroupExact ==
    ASSUME NEW i, NEW b, NEW m, NEW sum, Continues(i, b, m, sum),
           NEW r, r = IntGroup(i, b)
    PROVE  /\ r.ret \in {"OK", "INT"}
           /\ r.ret = "OK" => /\ r.int \in IntState
                              /\ r.int.m = m + 7
                              /\ sum < UINT16 => r.int.v = sum
                              /\ r.int.bsy <=> b >= 128
           /\ sum < UINT16 => r.ret = "OK"
<1>0. i \in IntState /\ i.m = m /\ m \in {0, 7, 14} /\ b \in Octet
  BY DEF Continues
<1>1. PICK bits \in 0..127 : bits = b % 128
  BY <1>0 DEF Octet
<1>10. PICK w \in Nat : w = 2^m
  <2>1. CASE m = 0
    BY <2>1
  <2>2. CASE m = 7
    BY <2>2
  <2>3. CASE m = 14
    BY <2>3
  <2> QED
    BY <1>0, <2>1, <2>2, <2>3
<1>11. PICK v \in Nat : v = i.v
  <2>1. i.v \in 0..(UINT16 - 1)
    BY <1>0 DEF IntState
  <2> QED
    BY <2>1, Widths
<1>12. sum = v + bits * w
  BY <1>1, <1>10, <1>11, Zenon DEF Continues
<1>13. sum \in Nat
  BY <1>1, <1>10, <1>11, <1>12
<1>2. PICK n \in 0..(UINT16 - 1) : n = sum % UINT16 /\ (sum < UINT16 => n = sum)
  BY <1>13, Remainder
<1>3. PICK next \in 0..(UINT8 - 1) : next = (m + 7) % UINT8 /\ next = m + 7
  BY <1>0 DEF UINT8
<1>4. PICK bsy \in BOOLEAN : bsy <=> b >= 128
  <2>1. (b >= 128) \in BOOLEAN
    BY <1>0
  <2> QED
    BY <2>1
<1>5. m <= 16 /\ ~(m > 16)
  BY <1>0
<1>6. r = IF n < v THEN [ret |-> "INT", int |-> i]
          ELSE [ret |-> "OK", int |-> [bsy |-> bsy, v |-> n, m |-> next]]
  <2> DEFINE sum16 == IF i.m <= 16 THEN (i.v + (b % 128) * 2^i.m) % UINT16
                      ELSE i.v
  <2>1. r = IF (i.m > 16 /\ b % 128 # 0) \/ sum16 < i.v
            THEN [ret |-> "INT", int |-> i]
            ELSE [ret |-> "OK", int |-> [bsy |-> b >= 128, v |-> sum16,
                                         m |-> (i.m + 7) % UINT8]]
    BY Zenon DEF IntGroup
  <2>2. sum16 = n
    <3>1. sum16 = (i.v + (b % 128) * 2^i.m) % UINT16
      BY <1>0, <1>5, Zenon
    <3>2. i.v + (b % 128) * 2^i.m = sum
      BY <1>0, Zenon DEF Continues
    <3> HIDE DEF sum16
    <3> QED
      BY <1>2, <3>1, <3>2, Zenon
  <2> HIDE DEF sum16
  <2>3. (b >= 128) = bsy
    BY <1>4
  <2> QED
    BY <1>0, <1>3, <1>5, <1>11, <2>1, <2>2, <2>3, Zenon
<1>7. sum < UINT16 => ~(n < v)
  <2>1. PICK prod \in Nat : prod = bits * w
    BY <1>1
  <2>2. sum = v + prod
    BY <1>12, <2>1, Zenon
  <2>3. ~(sum < v)
    BY <2>1, <2>2
  <2> QED
    BY <1>2, <2>3, Zenon
<1>8. CASE n < v
  BY <1>6, <1>7, <1>8
<1>9. CASE ~(n < v)
  <2>1. PICK j \in IntState : j = [bsy |-> bsy, v |-> n, m |-> next]
    BY DEF IntState
  <2>2. r = [ret |-> "OK", int |-> j] /\ j.m = m + 7 /\ j.v = n /\ j.bsy = bsy
    BY <1>3, <1>6, <1>9, <2>1
  <2>3. r.ret = "OK" /\ r.int = j /\ (j.bsy <=> b >= 128)
    BY <1>4, <2>2
  <2> QED
    BY <1>2, <2>2, <2>3, Zenon
<1> QED
  BY <1>8, <1>9

\* Behind the third group, only zeros leave the value as it is.
LEMMA GroupBeyond ==
    ASSUME NEW i \in IntState, NEW b \in Octet, NEW r, r = IntGroup(i, b)
    PROVE  /\ r.ret \in {"OK", "INT"}
           /\ r.ret = "OK" => r.int \in IntState
           /\ b % 128 = 0 => r.ret = "OK" /\ r.int.v = i.v
<1>1. PICK bits \in 0..127 : bits = b % 128
  BY DEF Octet
<1>2. PICK v \in 0..(UINT16 - 1), m \in 0..(UINT8 - 1) : v = i.v /\ m = i.m
  BY DEF IntState
<1>3. PICK n \in 0..(UINT16 - 1) :
         /\ n = IF m <= 16 THEN (v + bits * 2^m) % UINT16 ELSE v
         /\ bits = 0 => n = v
  <2>1. CASE m <= 16
    <3>1. PICK w \in Nat : w = 2^m
      <4>1. m \in 0..16
        BY <1>2, <2>1
      <4> QED
        BY <4>1, Weights
    <3>2. PICK prod \in Nat : prod = bits * w /\ (bits = 0 => prod = 0)
      BY <1>1, <3>1
    <3>3. PICK all \in Nat : all = v + prod
      BY <1>2, <3>2
    <3>4. all % UINT16 \in 0..(UINT16 - 1)
      BY Remainder
    <3>5. bits = 0 => all < UINT16 /\ all = v
      <4>1. v \in 0..(UINT16 - 1)
        BY <1>2
      <4>2. v >= 0 /\ v < UINT16
        BY <4>1, Widths
      <4> QED
        BY <3>2, <3>3, <4>2
    <3>6. bits = 0 => all % UINT16 = v
      BY <3>5, Remainder
    <3> QED
      BY <2>1, <3>1, <3>2, <3>3, <3>4, <3>6
  <2>2. CASE ~(m <= 16)
    BY <1>2, <2>2
  <2> QED
    BY <2>1, <2>2
<1>4. PICK next \in 0..(UINT8 - 1) : next = (m + 7) % UINT8
  BY <1>2 DEF UINT8
<1>5. PICK bsy \in BOOLEAN : bsy <=> b >= 128
  <2>1. (b >= 128) \in BOOLEAN
    OBVIOUS
  <2> QED
    BY <2>1
<1>6. PICK j \in IntState : j = [bsy |-> bsy, v |-> n, m |-> next] /\ j.v = n
  <2>1. [bsy |-> bsy, v |-> n, m |-> next] \in IntState
    BY DEF IntState
  <2> QED
    BY <2>1
<1>7. r = IF (m > 16 /\ bits # 0) \/ n < v THEN [ret |-> "INT", int |-> i]
          ELSE [ret |-> "OK", int |-> j]
  <2> DEFINE sum16 == IF i.m <= 16 THEN (i.v + (b % 128) * 2^i.m) % UINT16
                      ELSE i.v
  <2>1. r = IF (i.m > 16 /\ b % 128 # 0) \/ sum16 < i.v
            THEN [ret |-> "INT", int |-> i]
            ELSE [ret |-> "OK", int |-> [bsy |-> b >= 128, v |-> sum16,
                                         m |-> (i.m + 7) % UINT8]]
    BY Zenon DEF IntGroup
  <2>2. sum16 = n
    BY <1>1, <1>2, <1>3
  <2> HIDE DEF sum16
  <2>3. (b >= 128) = bsy
    BY <1>5
  <2> QED
    BY <1>1, <1>2, <1>4, <1>6, <2>1, <2>2, <2>3, Zenon
<1>8. bits = 0 => ~((m > 16 /\ bits # 0) \/ n < v)
  BY <1>2, <1>3
<1>9. CASE (m > 16 /\ bits # 0) \/ n < v
  BY <1>1, <1>7, <1>8, <1>9
<1>10. CASE ~((m > 16 /\ bits # 0) \/ n < v)
  <2>1. r = [ret |-> "OK", int |-> j]
    BY <1>7, <1>10, Zenon
  <2> QED
    BY <1>1, <1>2, <1>3, <1>6, <2>1
<1> QED
  BY <1>9, <1>10

-----------------------------------------------------------------------------
(***************************************************************************)
(* The invariant: LengthRead, where the octets' meaning is a record.       *)
(***************************************************************************)
LengthInv == LengthRead /\ DOMAIN meant = DOMAIN NoMeaning

\* What the set-up of a string does with the length it read.
LEMMA SetUpGives ==
    ASSUME NEW num, NEW flag, SetUp(num, flag)
    PROVE  /\ int' = num
           /\ num.bsy => phase' = "LEN"
           /\ ~num.bsy => phase' # "LEN"
<1>1. CASE num.bsy
  BY <1>1 DEF SetUp
<1>2. CASE ~num.bsy /\ flag /\ num.v \in 1..MaxString
  BY <1>2 DEF SetUp
<1>3. CASE ~num.bsy /\ ~(flag /\ num.v \in 1..MaxString)
  BY <1>3 DEF SetUp
<1> QED
  BY <1>1, <1>2, <1>3

\* The invariant of the length holds at the start.
LEMMA InitLength == Init => LengthInv
<1> SUFFICES ASSUME Init PROVE LengthInv
  OBVIOUS
<1>1. int \in IntState /\ int.v = 0
  BY DEF Init, IntIdle, IntState, UINT16, UINT8
<1>2. meant.groups = 0 /\ meant.val = 0 /\ phase = "BEGIN" /\ ret = "OK"
  BY DEF Init, NoMeaning
<1>3. DOMAIN meant = DOMAIN NoMeaning
  BY DEF Init
<1> QED
  BY <1>1, <1>2, <1>3 DEF LengthInv, LengthRead, TooLarge, UINT16

\* The octet of the prefix.
LEMMA BeginLength ==
    ASSUME LengthInv, NEW b \in Octet, Begin(b)
    PROVE  LengthInv'
<1>1. PICK i : i = IntPrefix(7, b) /\ SetUp(i, b >= 128)
  BY DEF Begin
<1>2. i \in IntState /\ i.v = b % 128 /\ i.m = 0 /\ (i.bsy <=> b % 128 = 127)
  BY <1>1, PrefixRead
<1>3. /\ int' = i
      /\ i.bsy => phase' = "LEN"
      /\ ~i.bsy => phase' # "LEN"
  BY <1>1, SetUpGives
<1>4. PICK v \in 0..127 : v = b % 128
  BY DEF Octet
<1>5. /\ meant'.val = v /\ meant'.groups = 0
      /\ DOMAIN meant' = DOMAIN NoMeaning
  BY <1>4 DEF Begin, NoMeaning
<1>6. ret' = "OK"
  BY DEF Begin
<1>7. (i.bsy <=> v = 127) /\ i.v = v
  BY <1>2, <1>4
<1>8. v <= IF phase' = "LEN" THEN 127 ELSE 126
  BY <1>3, <1>4, <1>7
<1>9. v \in 0..TooLarge
  <2>1. v >= 0 /\ v <= 65536
    BY <1>4
  <2> QED
    BY <2>1 DEF TooLarge, UINT16
<1>10. int' \in IntState /\ int'.v = v /\ int'.m = 0
  BY <1>2, <1>3, <1>7
<1> QED
  BY <1>5, <1>6, <1>8, <1>9, <1>10 DEF LengthInv, LengthRead

\* An octet behind it.
LEMMA NextLength ==
    ASSUME LengthInv, NEW b \in Octet, NEW cut \in BOOLEAN, Length(b, cut)
    PROVE  LengthInv'
<1>1. PICK r : r = IntGroup(int, b)
  OBVIOUS
<1>2. PICK g \in Nat, v \in Nat :
         g = meant.groups /\ v = meant.val /\ v <= TooLarge
  <2>1. meant.groups \in Nat /\ meant.val \in 0..TooLarge
    BY DEF LengthInv, LengthRead
  <2>2. TooLarge \in Nat
    BY DEF TooLarge, UINT16
  <2>3. meant.val \in Nat /\ meant.val <= TooLarge
    BY <2>1, <2>2
  <2> QED
    BY <2>1, <2>3
<1>0. TooLarge = 65536 /\ UINT16 = 65536 /\ v \in Nat /\ v <= 65536
  BY <1>2 DEF TooLarge, UINT16
<1>3. PICK bits \in 0..127 : bits = b % 128
  BY DEF Octet
<1>4. /\ phase = "LEN" /\ ret = "OK" /\ ret' = r.ret
      /\ meant' = [meant EXCEPT !.val = Grown(v, g, b), !.groups = g + 1]
  BY <1>1, <1>2, Zenon DEF Length
<1>5. /\ meant'.groups = g + 1 /\ meant'.val = Grown(v, g, b)
      /\ DOMAIN meant' = DOMAIN NoMeaning
  BY <1>4 DEF LengthInv, NoMeaning
<1>6. /\ r.ret = "OK" => /\ int' = r.int
                         /\ r.int.bsy => phase' = "LEN"
                         /\ ~r.int.bsy => phase' # "LEN"
      /\ r.ret # "OK" => int' = int /\ phase' = phase
  <2>1. CASE r.ret = "OK"
    <3>1. SetUp(r.int, LengthFlag(b, cut))
      BY <1>1, <2>1, Zenon DEF Length
    <3> QED
      BY <2>1, <3>1, SetUpGives, Zenon
  <2>2. CASE r.ret # "OK"
    BY <1>1, <2>2, Zenon DEF Length
  <2> QED
    BY <2>1, <2>2
<1>7. int \in IntState
  BY DEF LengthInv, LengthRead
<1>8. CASE g \in 0..2
  <2>1. v < TooLarge /\ int.v = v /\ int.m = 7 * g
    <3>1. v <= 16510
      <4>1. CASE g = 0
        BY <1>2, <1>4, <4>1 DEF LengthInv, LengthRead
      <4>2. CASE g = 1
        BY <1>2, <4>2 DEF LengthInv, LengthRead
      <4>3. CASE g = 2
        BY <1>2, <4>3 DEF LengthInv, LengthRead
      <4> QED
        BY <1>8, <4>1, <4>2, <4>3
    <3>2. v < TooLarge
      BY <1>0, <3>1
    <3>3. meant.groups <= 2 /\ meant.val < TooLarge
      BY <1>2, <1>8, <3>2
    <3>4. int.v = meant.val /\ int.m = 7 * meant.groups
      BY <1>4, <3>3 DEF LengthInv, LengthRead
    <3> QED
      BY <1>2, <3>2, <3>4
  <2>2. PICK w \in Nat : w = 128^g
    <3>1. CASE g = 0
      BY <3>1
    <3>2. CASE g = 1
      BY <3>2
    <3>3. CASE g = 2
      BY <3>3
    <3> QED
      BY <1>8, <3>1, <3>2, <3>3
  <2>3. PICK sum \in Nat : sum = v + bits * w
    BY <1>2, <1>3, <2>2, <1>0
  <2>4. Continues(int, b, 7 * g, sum)
    <3>1. (b % 128) * 2^(7 * g) = bits * w
      <4>1. CASE g = 0
        BY <1>3, <2>2, <4>1
      <4>2. CASE g = 1
        BY <1>3, <2>2, <4>2
      <4>3. CASE g = 2
        BY <1>3, <2>2, <4>3
      <4> QED
        BY <1>8, <4>1, <4>2, <4>3
    <3>2. sum = int.v + (b % 128) * 2^(7 * g)
      BY <2>1, <2>3, <3>1, Zenon
    <3>3. 7 * g \in {0, 7, 14}
      BY <1>8
    <3> QED
      BY <1>7, <2>1, <3>2, <3>3, Zenon DEF Continues
  <2>5. /\ r.ret \in {"OK", "INT"}
        /\ r.ret = "OK" => /\ r.int \in IntState
                           /\ r.int.m = 7 * g + 7
                           /\ sum < UINT16 => r.int.v = sum
                           /\ r.int.bsy <=> b >= 128
        /\ sum < UINT16 => r.ret = "OK"
    BY <1>1, <2>4, GroupExact
  <2>6. meant'.val = IF sum < TooLarge THEN sum ELSE TooLarge
    <3>1. CASE bits = 0
      <4>1. Grown(v, g, b) = v
        BY <1>3, <3>1 DEF Grown
      <4>2. sum = v
        BY <1>2, <2>2, <2>3, <3>1, <1>0
      <4> QED
        BY <1>5, <2>1, <4>1, <4>2
    <3>2. CASE bits # 0
      <4>1. Grown(v, g, b) = Capped(v + (b % 128) * 128^g)
        BY <1>3, <1>8, <3>2 DEF Grown
      <4>2. Grown(v, g, b) = Capped(sum)
        BY <1>3, <2>2, <2>3, <4>1
      <4> QED
        BY <1>5, <4>2, CappedIs
    <3> QED
      BY <3>1, <3>2
  <2>7. /\ g + 1 = 1 => sum <= 254
        /\ g + 1 = 2 => sum <= 16510
    <3>1. CASE g = 0
      <4>1. w = 1 /\ v <= 127
        BY <1>2, <1>4, <2>2, <3>1 DEF LengthInv, LengthRead
      <4> QED
        BY <1>2, <1>3, <2>3, <3>1, <4>1, <1>0
    <3>2. CASE g = 1
      <4>1. w = 128 /\ v <= 254
        BY <1>2, <2>2, <3>2 DEF LengthInv, LengthRead
      <4> QED
        BY <1>2, <1>3, <2>3, <3>2, <4>1, <1>0
    <3> QED
      BY <1>8, <3>1, <3>2
  <2>8. meant'.val \in 0..TooLarge
    <3>1. meant'.val \in Nat /\ meant'.val <= TooLarge
      BY <2>3, <2>6, <1>0
    <3>2. TooLarge \in Nat
      BY DEF TooLarge, UINT16
    <3> QED
      BY <3>1, <3>2
  <2>9. meant'.val < TooLarge => int'.v = meant'.val
    BY <1>6, <2>3, <2>5, <2>6, <1>0
  <2>10. ret' = "INT" => meant'.val = TooLarge
    BY <1>4, <2>5, <2>6, <1>0
  <2>11. int' \in IntState
    BY <1>6, <1>7, <2>5
  <2>12. ret' = "OK" => int'.m = 7 * meant'.groups
    BY <1>4, <1>5, <1>6, <2>5
  <2>13. /\ meant'.groups \in Nat /\ meant'.groups # 0
         /\ meant'.groups = 1 => meant'.val <= 254
         /\ meant'.groups = 2 => meant'.val <= 16510
    BY <1>2, <1>5, <2>3, <2>6, <2>7, <1>0
  <2> QED
    BY <1>5, <2>8, <2>9, <2>10, <2>11, <2>12, <2>13
       DEF LengthInv, LengthRead
<1>9. CASE g > 2
  <2>1. /\ r.ret \in {"OK", "INT"}
        /\ r.ret = "OK" => r.int \in IntState
        /\ bits = 0 => r.ret = "OK" /\ r.int.v = int.v
    BY <1>1, <1>3, <1>7, GroupBeyond
  <2>2. meant'.val = IF bits = 0 THEN v ELSE TooLarge
    BY <1>3, <1>5, <1>9 DEF Grown
  <2>3. meant'.val < TooLarge => bits = 0 /\ v < TooLarge
    BY <2>2, <1>0
  <2>4. v < TooLarge => int.v = v
    BY <1>2 DEF LengthInv, LengthRead
  <2>5. meant'.val < TooLarge => int'.v = meant'.val
    BY <1>6, <2>1, <2>2, <2>3, <2>4
  <2>6. ret' = "INT" => meant'.val = TooLarge
    BY <1>4, <2>1, <2>2
  <2>7. int' \in IntState
    BY <1>6, <1>7, <2>1
  <2>8. meant'.val \in 0..TooLarge
    <3>1. meant'.val \in Nat /\ meant'.val <= TooLarge
      BY <1>2, <2>2, <1>0
    <3>2. TooLarge \in Nat
      BY DEF TooLarge, UINT16
    <3> QED
      BY <3>1, <3>2
  <2>9. meant'.groups \in Nat /\ meant'.groups > 2
    BY <1>2, <1>5, <1>9
  <2>10. /\ meant'.groups \notin {0, 1, 2}
         /\ ~(meant'.groups <= 2)
    BY <2>9
  <2> QED
    BY <1>5, <2>5, <2>6, <2>7, <2>8, <2>9, <2>10 DEF LengthInv, LengthRead
<1> QED
  BY <1>2, <1>8, <1>9

\* An octet of the string leaves the length alone.
LEMMA StringLength ==
    ASSUME LengthInv, String
    PROVE  LengthInv'
<1>1. /\ phase = "STR" /\ phase' \in {"BEGIN", "STR"}
      /\ int' = int
  BY DEF String
<1>2. PICK tables, groups, b, cut : StringOctet(tables, groups, b, cut)
  BY DEF String
<1>3. /\ ret' \in {"OK", "HUF"}
      /\ \E n, code, same :
            meant' = [meant EXCEPT !.n = n, !.code = code, !.same = same]
  BY <1>2, Zenon DEF StringOctet
<1>4. /\ meant'.val = meant.val /\ meant'.groups = meant.groups
      /\ DOMAIN meant' = DOMAIN NoMeaning
  BY <1>3 DEF LengthInv, NoMeaning
<1> QED
  BY <1>1, <1>3, <1>4 DEF LengthInv, LengthRead

\* LengthRead holds, however many octets a length has and whatever they are.
\* HPI_decode, lib/hpack_int.c.
THEOREM LiteralLengthRead == Spec => []LengthRead
<1>1. ASSUME LengthInv, [Next]_vars PROVE LengthInv'
  <2>1. CASE \E b \in Octet : Begin(b)
    BY <1>1, <2>1, BeginLength
  <2>2. CASE \E b \in LengthOctets, cut \in BOOLEAN : Length(b, cut)
    BY <1>1, <2>2, NextLength, LiteralAssumption
  <2>3. CASE String
    BY <1>1, <2>3, StringLength
  <2>4. CASE UNCHANGED vars
    BY <1>1, <2>4 DEF vars, LengthInv, LengthRead
  <2> QED
    BY <1>1, <2>1, <2>2, <2>3, <2>4 DEF Next
<1>2. LengthInv => LengthRead
  BY DEF LengthInv
<1> QED
  BY <1>1, <1>2, InitLength, PTL DEF Spec

\* HPI_decode returns the value of the octets, when it is a uint16_t, and
\* refuses none of these: for octets of any kind and number, cut anywhere.
THEOREM LiteralLengthExact == Spec => []LengthExact
<1>1. LengthRead => LengthExact
  BY DEF LengthRead, LengthExact
<1> QED
  BY <1>1, LiteralLengthRead, PTL
-----------------------------------------------------------------------------
(***************************************************************************)
(* Writing and reading back.                                               *)
(***************************************************************************)
\* IntGroups is the last of up to three groups, one after the other.
LEMMA GroupsRun ==
    ASSUME NEW int0, NEW blk, NEW n \in 0..3, n = Len(blk),
           NEW d0, d0 = [ret |-> "OK", int |-> int0, len |-> 0],
           NEW d1, d1 = GroupAfter(d0, blk[1], 1),
           NEW d2, d2 = GroupAfter(d1, blk[2], 2),
           NEW d3, d3 = GroupAfter(d2, blk[3], 3),
           NEW end, end = IF n = 0 THEN d0 ELSE IF n = 1 THEN d1
                          ELSE IF n = 2 THEN d2 ELSE d3
    PROVE  end.ret = "OK" /\ ~end.int.bsy => IntGroups(int0, blk) = end
<1> DEFINE Run(f) ==
        f = [i \in 0..Len(blk) |->
                IF i = 0 THEN [ret |-> "OK", int |-> int0, len |-> 0]
                ELSE GroupAfter(f[i - 1], blk[i], i)]
           End(last) ==
        IF last.ret = "OK" /\ last.int.bsy THEN [last EXCEPT !.ret = "BUF"]
        ELSE last
<1>1. IntGroups(int0, blk) = End((CHOOSE f : Run(f))[Len(blk)])
  BY Zenon DEF IntGroups
<1>2. PICK g : g = [i \in 0..n |-> IF i = 0 THEN d0 ELSE IF i = 1 THEN d1
                                   ELSE IF i = 2 THEN d2 ELSE d3]
  OBVIOUS
<1>3. Run(g)
  <2>1. ASSUME NEW i \in 0..n
        PROVE  g[i] = IF i = 0 THEN d0 ELSE GroupAfter(g[i - 1], blk[i], i)
    <3>1. CASE i = 0
      BY <1>2, <3>1
    <3>2. CASE i = 1
      <4>1. g[i] = d1 /\ g[i - 1] = d0
        BY <1>2, <3>2
      <4> QED
        BY <3>2, <4>1
    <3>3. CASE i = 2
      <4>1. g[i] = d2 /\ g[i - 1] = d1
        BY <1>2, <3>3
      <4> QED
        BY <3>3, <4>1
    <3>4. CASE i = 3
      <4>1. g[i] = d3 /\ g[i - 1] = d2
        BY <1>2, <3>4
      <4> QED
        BY <3>4, <4>1
    <3> QED
      BY <3>1, <3>2, <3>3, <3>4
  <2>2. g = [i \in 0..n |-> IF i = 0 THEN d0
                            ELSE GroupAfter(g[i - 1], blk[i], i)]
    BY <1>2, <2>1
  <2> QED
    BY <2>2
<1>4. PICK f : Run(f) /\ IntGroups(int0, blk) = End(f[n])
  <2> HIDE DEF Run, End
  <2>1. Run(CHOOSE f : Run(f))
    BY <1>3, Zenon
  <2> QED
    BY <1>1, <2>1
<1>5. \A i \in 0..n : f[i] = IF i = 0 THEN d0
                             ELSE GroupAfter(f[i - 1], blk[i], i)
  BY <1>4
<1>6. f[0] = d0
  BY <1>5
<1>7. n >= 1 => f[1] = d1
  <2>1. n >= 1 => f[1] = GroupAfter(f[0], blk[1], 1)
    BY <1>5
  <2> QED
    BY <1>6, <2>1
<1>8. n >= 2 => f[2] = d2
  <2>1. n >= 2 => f[2] = GroupAfter(f[1], blk[2], 2)
    BY <1>5
  <2> QED
    BY <1>7, <2>1
<1>9. n >= 3 => f[3] = d3
  <2>1. n >= 3 => f[3] = GroupAfter(f[2], blk[3], 3)
    BY <1>5
  <2> QED
    BY <1>8, <2>1
<1>10. f[n] = end
  BY <1>6, <1>7, <1>8, <1>9
<1> QED
  BY <1>4, <1>10

\* A group that is read in its turn: its bits, at their weight, are added.
LEMMA GroupTaken ==
    ASSUME NEW i, NEW b, NEW m, NEW sum, Continues(i, b, m, sum),
           sum < UINT16, i.bsy,
           NEW p, p.ret = "OK", p.int = i, NEW k
    PROVE  \E j \in IntState :
               /\ GroupAfter(p, b, k) = [ret |-> "OK", int |-> j, len |-> k]
               /\ j.v = sum /\ j.m = m + 7 /\ (j.bsy <=> b >= 128)
<1>1. PICK r : r = IntGroup(i, b)
  OBVIOUS
<1>2. /\ r.ret = "OK" => /\ r.int \in IntState
                         /\ r.int.m = m + 7
                         /\ sum < UINT16 => r.int.v = sum
                         /\ r.int.bsy <=> b >= 128
      /\ sum < UINT16 => r.ret = "OK"
  <2>1. /\ r.ret \in {"OK", "INT"}
        /\ r.ret = "OK" => /\ r.int \in IntState
                           /\ r.int.m = m + 7
                           /\ sum < UINT16 => r.int.v = sum
                           /\ r.int.bsy <=> b >= 128
        /\ sum < UINT16 => r.ret = "OK"
    BY <1>1, GroupExact
  <2> QED
    BY <2>1, Zenon
<1>3. GroupAfter(p, b, k) = [ret |-> "OK", int |-> r.int, len |-> k]
  <2>1. GroupAfter(p, b, k) = [ret |-> r.ret, int |-> r.int,
                               len |-> IF r.ret = "OK" THEN k ELSE p.len]
    BY <1>1, Zenon DEF GroupAfter
  <2> QED
    BY <1>2, <2>1, Zenon
<1> QED
  BY <1>2, <1>3, Zenon

\* The last seven bits of a number, and the others.
LEMMA SevenBits ==
    ASSUME NEW w \in Nat
    PROVE  \E q \in Nat : \E r \in 0..127 :
               w = q * 128 + r /\ w % 128 = r /\ w \div 128 = q
<1>1. PICK q \in Nat : q = w \div 128 /\ 128 * q <= w /\ w < 128 * q + 128
  OBVIOUS
<1>2. PICK r \in Nat : r = w - 128 * q
  BY <1>1
<1>3. r \in 0..127 /\ w = q * 128 + r
  BY <1>1, <1>2
<1>4. (q * 128 + r) % 128 = r
  BY <1>3
<1> QED
  BY <1>1, <1>3, <1>4

\* An octet of them, with the bit that says whether another follows.
LEMMA SevenOctet ==
    ASSUME NEW r \in 0..127
    PROVE  /\ r \in Octet /\ r % 128 = r /\ ~(r >= 128)
           /\ 128 + r \in Octet /\ (128 + r) % 128 = r /\ 128 + r >= 128
BY DEF Octet

\* The groups of a number, added to what the prefix stands for.
LEMMA GroupsRead ==
    ASSUME NEW i \in IntState, i.bsy, i.m = 0,
           NEW v \in Nat, v = i.v, NEW w \in Nat, v + w < UINT16
    PROVE  \E j \in IntState :
               /\ IntGroups(i, Groups(w))
                  = [ret |-> "OK", int |-> j, len |-> Len(Groups(w))]
               /\ j.v = v + w
<1>1. PICK d0 : d0 = [ret |-> "OK", int |-> i, len |-> 0]
  OBVIOUS
<1>2. PICK q \in Nat, lo \in 0..127 :
         w = q * 128 + lo /\ w % 128 = lo /\ w \div 128 = q
  BY SevenBits
<1>3. PICK hi \in Nat, mid \in 0..127 :
         q = hi * 128 + mid /\ q % 128 = mid /\ q \div 128 = hi
  BY SevenBits
<1>4. w \div (128 * 128) = hi
  <2>1. w \div (128 * 128) = (w \div 128) \div 128
    OBVIOUS
  <2>2. w \div (128 * 128) = q \div 128
    BY <1>2, <2>1
  <2> QED
    BY <1>3, <2>2
<1>5. hi < 128
  BY <1>2, <1>3 DEF UINT16
<1>6. 2^0 = 1 /\ 2^7 = 128 /\ 2^14 = 128 * 128
  OBVIOUS
<1>7. CASE w < 128
  <2>1. Groups(w) = <<lo>> /\ w = lo
    BY <1>2, <1>7 DEF Groups
  <2>2. Continues(i, lo, 0, v + w)
    <3>1. lo \in Octet /\ lo % 128 = lo /\ v + w = v + lo * 1
      BY <2>1, SevenOctet
    <3> QED
      BY <1>6, <3>1 DEF Continues
  <2>3. PICK j \in IntState :
           /\ GroupAfter(d0, lo, 1) = [ret |-> "OK", int |-> j, len |-> 1]
           /\ j.v = v + w /\ (j.bsy <=> lo >= 128)
    BY <1>1, <2>2, GroupTaken
  <2>4. PICK d1 : d1 = [ret |-> "OK", int |-> j, len |-> 1]
    OBVIOUS
  <2>5. d1 = GroupAfter(d0, Groups(w)[1], 1) /\ Len(Groups(w)) = 1
    BY <2>1, <2>3, <2>4
  <2>6. d1.ret = "OK" /\ ~d1.int.bsy
    BY <2>3, <2>4, SevenOctet
  <2>7. IntGroups(i, Groups(w)) = d1
    BY <1>1, <2>5, <2>6, GroupsRun
  <2> QED
    BY <2>3, <2>4, <2>5, <2>7
<1>8. CASE w >= 128 /\ w < 128 * 128
  <2>1. hi = 0 /\ q = mid
    BY <1>2, <1>3, <1>8
  <2>2. Groups(w) = <<128 + lo, mid>>
    BY <1>2, <1>8, <2>1 DEF Groups
  <2>3. PICK s1 \in Nat : s1 = v + lo /\ s1 < UINT16 /\ v + w = s1 + mid * 128
    BY <1>2, <2>1 DEF UINT16
  <2>4. Continues(i, 128 + lo, 0, s1)
    <3>1. s1 = v + lo * 1
      BY <2>3
    <3>2. 128 + lo \in Octet /\ (128 + lo) % 128 = lo
      BY SevenOctet
    <3>3. s1 = i.v + ((128 + lo) % 128) * 2^0
      BY <1>6, <3>1, <3>2, Zenon
    <3> QED
      BY <3>2, <3>3 DEF Continues
  <2>5. PICK j \in IntState :
           /\ GroupAfter(d0, 128 + lo, 1) = [ret |-> "OK", int |-> j, len |-> 1]
           /\ j.v = s1 /\ j.m = 7 /\ j.bsy
    <3>1. 0 + 7 = 7 /\ 128 + lo >= 128
      OBVIOUS
    <3> QED
      BY <1>1, <2>3, <2>4, <3>1, GroupTaken
  <2>6. PICK d1 : d1 = [ret |-> "OK", int |-> j, len |-> 1]
    OBVIOUS
  <2>7. Continues(j, mid, 7, v + w)
    <3>1. mid \in Octet /\ mid % 128 = mid
      BY SevenOctet
    <3>2. v + w = j.v + (mid % 128) * 2^7
      BY <1>6, <2>3, <2>5, <3>1, Zenon
    <3> QED
      BY <2>5, <3>1, <3>2, Zenon DEF Continues
  <2>8. PICK jj \in IntState :
           /\ GroupAfter(d1, mid, 2) = [ret |-> "OK", int |-> jj, len |-> 2]
           /\ jj.v = v + w /\ (jj.bsy <=> mid >= 128)
    BY <2>5, <2>6, <2>7, GroupTaken
  <2>9. PICK d2 : d2 = [ret |-> "OK", int |-> jj, len |-> 2]
    OBVIOUS
  <2>10. /\ d1 = GroupAfter(d0, Groups(w)[1], 1)
         /\ d2 = GroupAfter(d1, Groups(w)[2], 2)
         /\ Len(Groups(w)) = 2
    BY <2>2, <2>5, <2>6, <2>8, <2>9
  <2>11. d2.ret = "OK" /\ ~d2.int.bsy
    BY <2>8, <2>9, SevenOctet
  <2>12. IntGroups(i, Groups(w)) = d2
    BY <1>1, <2>10, <2>11, GroupsRun
  <2> QED
    BY <2>8, <2>9, <2>10, <2>12
<1>9. CASE w >= 128 * 128
  <2>1. Groups(w) = <<128 + lo, 128 + mid, hi>>
    BY <1>2, <1>3, <1>4, <1>9 DEF Groups
  <2>2. PICK s1 \in Nat, s2 \in Nat :
           /\ s1 = v + lo /\ s2 = s1 + mid * 128
           /\ v + w = s2 + hi * (128 * 128)
    BY <1>2, <1>3
  <2>3. s1 < UINT16 /\ s2 < UINT16
    BY <1>5, <2>2 DEF UINT16
  <2>4. Continues(i, 128 + lo, 0, s1)
    <3>1. s1 = v + lo * 1
      BY <2>2
    <3>2. 128 + lo \in Octet /\ (128 + lo) % 128 = lo
      BY SevenOctet
    <3>3. s1 = i.v + ((128 + lo) % 128) * 2^0
      BY <1>6, <3>1, <3>2, Zenon
    <3> QED
      BY <3>2, <3>3 DEF Continues
  <2>5. PICK j \in IntState :
           /\ GroupAfter(d0, 128 + lo, 1) = [ret |-> "OK", int |-> j, len |-> 1]
           /\ j.v = s1 /\ j.m = 7 /\ j.bsy
    <3>1. 0 + 7 = 7 /\ 128 + lo >= 128
      OBVIOUS
    <3> QED
      BY <1>1, <2>3, <2>4, <3>1, GroupTaken
  <2>6. PICK d1 : d1 = [ret |-> "OK", int |-> j, len |-> 1]
    OBVIOUS
  <2>7. Continues(j, 128 + mid, 7, s2)
    BY <1>6, <2>2, <2>5, SevenOctet DEF Continues
  <2>8. PICK jj \in IntState :
           /\ GroupAfter(d1, 128 + mid, 2)
              = [ret |-> "OK", int |-> jj, len |-> 2]
           /\ jj.v = s2 /\ jj.m = 14 /\ jj.bsy
    <3>1. 7 + 7 = 14 /\ 128 + mid >= 128
      OBVIOUS
    <3> QED
      BY <2>3, <2>5, <2>6, <2>7, <3>1, GroupTaken
  <2>9. PICK d2 : d2 = [ret |-> "OK", int |-> jj, len |-> 2]
    OBVIOUS
  <2>10. hi \in 0..127
    BY <1>5
  <2>11. Continues(jj, hi, 14, v + w)
    BY <1>6, <2>2, <2>8, <2>10, SevenOctet DEF Continues
  <2>12. PICK jjj \in IntState :
           /\ GroupAfter(d2, hi, 3) = [ret |-> "OK", int |-> jjj, len |-> 3]
           /\ jjj.v = v + w /\ (jjj.bsy <=> hi >= 128)
    BY <2>8, <2>9, <2>11, GroupTaken
  <2>13. PICK d3 : d3 = [ret |-> "OK", int |-> jjj, len |-> 3]
    OBVIOUS
  <2>14. /\ d1 = GroupAfter(d0, Groups(w)[1], 1)
         /\ d2 = GroupAfter(d1, Groups(w)[2], 2)
         /\ d3 = GroupAfter(d2, Groups(w)[3], 3)
         /\ Len(Groups(w)) = 3
    BY <2>1, <2>5, <2>6, <2>8, <2>9, <2>12, <2>13
  <2>15. d3.ret = "OK" /\ ~d3.int.bsy
    BY <2>10, <2>12, <2>13, SevenOctet
  <2>16. IntGroups(i, Groups(w)) = d3
    BY <1>1, <2>14, <2>15, GroupsRun
  <2> QED
    BY <2>12, <2>13, <2>14, <2>16
<1> QED
  BY <1>7, <1>8, <1>9

\* The groups of a number: a uint16_t has up to three.
LEMMA GroupsType ==
    ASSUME NEW w \in Nat
    PROVE  /\ Groups(w) \in Seq(Int)
           /\ w < 128 => Len(Groups(w)) = 1
           /\ w >= 128 /\ w < 128 * 128 => Len(Groups(w)) = 2
           /\ w >= 128 * 128 => Len(Groups(w)) = 3
<1>1. PICK lo \in Int, q \in Int, mid \in Int, hi \in Int :
         /\ lo = 128 + (w % 128) /\ q = w \div 128
         /\ mid = 128 + ((w \div 128) % 128) /\ hi = w \div (128 * 128)
  <2>1. w \div 128 \in Int /\ w % 128 \in Int /\ w \div (128 * 128) \in Int
    OBVIOUS
  <2>2. (w \div 128) % 128 \in Int
    OBVIOUS
  <2> QED
    BY <2>1, <2>2
<1>2. Groups(w) = IF w < 128 THEN <<w>>
                  ELSE IF w < 128 * 128 THEN <<lo, q>> ELSE <<lo, mid, hi>>
  BY <1>1, Zenon DEF Groups
<1>3. CASE w < 128
  BY <1>2, <1>3
<1>4. CASE w >= 128 /\ w < 128 * 128
  BY <1>2, <1>4
<1>5. CASE w >= 128 * 128
  BY <1>2, <1>5
<1> QED
  BY <1>3, <1>4, <1>5

\* A prefix holds the numbers up to its mask.
Holds(pfx, mask) == Mask(pfx) = mask /\ \A b \in 0..mask : b % 2^pfx = b

\* The masks of the four prefixes, and that they keep what fits in them.
LEMMA MaskIs ==
    ASSUME NEW pfx \in 4..7
    PROVE  \E mask \in {15, 31, 63, 127} : Holds(pfx, mask)
<1>1. CASE pfx = 4
  <2>1. Holds(pfx, 15)
    BY <1>1 DEF Holds, Mask
  <2> QED
    BY <2>1
<1>2. CASE pfx = 5
  <2>1. Holds(pfx, 31)
    BY <1>2 DEF Holds, Mask
  <2> QED
    BY <2>1
<1>3. CASE pfx = 6
  <2>1. Holds(pfx, 63)
    BY <1>3 DEF Holds, Mask
  <2> QED
    BY <2>1
<1>4. CASE pfx = 7
  <2>1. Holds(pfx, 127)
    BY <1>4 DEF Holds, Mask
  <2> QED
    BY <2>1
<1> QED
  BY <1>1, <1>2, <1>3, <1>4

\* What HPI_encode writes, HPI_decode reads, with any prefix.
LEMMA ReadBack ==
    ASSUME NEW pfx \in 4..7, NEW v \in Nat, v < UINT16,
           NEW out, out = HPI_encode(pfx, 0, v),
           NEW inp, inp = HPI_decode(IntIdle, pfx, out)
    PROVE  inp.ret = "OK" /\ inp.int.v = v /\ inp.len = Len(out)
<1>1. PICK mask \in {15, 31, 63, 127} :
         Mask(pfx) = mask /\ \A b \in 0..mask : b % 2^pfx = b
  <2>1. \E mask \in {15, 31, 63, 127} : Holds(pfx, mask)
    BY MaskIs
  <2> QED
    BY <2>1, Zenon DEF Holds
<1>2. ~IntIdle.bsy
  BY DEF IntIdle
<1>3. inp = [IntGroups(IntPrefix(pfx, Head(out)), Tail(out))
                EXCEPT !.len = @ + 1]
  BY <1>2, Zenon DEF HPI_decode
<1>4. out = IF v < mask THEN <<0 + v>> ELSE <<0 + mask>> \o Groups(v - mask)
  BY <1>1, Zenon DEF HPI_encode
<1>5. CASE v < mask
  <2>1. Head(out) = v /\ Tail(out) = <<>> /\ Len(out) = 1
    <3>1. 0 + v = v
      OBVIOUS
    <3>2. out = <<v>>
      BY <1>4, <1>5, <3>1, Zenon
    <3>3. Head(<<v>>) = v
      OBVIOUS
    <3>4. Tail(<<v>>) = <<>>
      OBVIOUS
    <3>5. Len(<<v>>) = 1
      OBVIOUS
    <3> QED
      BY <3>2, <3>3, <3>4, <3>5, Zenon
  <2>2. PICK i : i = [bsy |-> FALSE, v |-> v, m |-> 0]
    OBVIOUS
  <2>3. IntPrefix(pfx, v) = i
    <3>1. v % 2^pfx = v /\ (v = mask) = FALSE
      BY <1>1, <1>5
    <3> QED
      BY <1>1, <2>2, <3>1, Zenon DEF IntPrefix
  <2>4. PICK blk : blk = Tail(out)
    OBVIOUS
  <2>5. PICK d0 : d0 = [ret |-> "OK", int |-> i, len |-> 0]
    OBVIOUS
  <2>6. 0 = Len(blk)
    BY <2>1, <2>4
  <2>7. IntGroups(i, blk) = d0
    <3>1. d0.ret = "OK" /\ ~d0.int.bsy
      BY <2>2, <2>5
    <3> QED
      BY <2>5, <2>6, <3>1, GroupsRun
  <2>8. inp = [d0 EXCEPT !.len = @ + 1]
    BY <1>3, <2>1, <2>3, <2>4, <2>7, Zenon
  <2>9. inp = [ret |-> "OK", int |-> i, len |-> 1]
    BY <2>5, <2>8
  <2>10. inp.ret = "OK" /\ inp.int = i /\ inp.len = 1 /\ i.v = v
    <3>1. inp.ret = "OK" /\ inp.int = i /\ inp.len = 1
      BY <2>9
    <3>2. i.v = v
      BY <2>2
    <3> QED
      BY <3>1, <3>2
  <2> QED
    BY <2>1, <2>10, Zenon
<1>6. CASE ~(v < mask)
  <2>1. PICK w \in Nat : w = v - mask /\ mask + w = v
    BY <1>6
  <2>2. PICK n \in Nat, grp \in Seq(Int) : grp = Groups(w) /\ n = Len(grp)
    BY GroupsType
  <2>3. out = <<mask>> \o grp
    <3>1. 0 + mask = mask
      OBVIOUS
    <3> QED
      BY <1>4, <1>6, <2>1, <2>2, <3>1, Zenon
  <2>4. Head(out) = mask /\ Tail(out) = grp /\ Len(out) = n + 1
    <3>1. <<mask>> \in Seq(Int)
      OBVIOUS
    <3> QED
      BY <2>2, <2>3, <3>1
  <2>5. PICK i : i = [bsy |-> TRUE, v |-> mask, m |-> 0]
    OBVIOUS
  <2>6. IntPrefix(pfx, mask) = i
    <3>1. mask % 2^pfx = mask /\ (mask = mask) = TRUE
      BY <1>1
    <3> QED
      BY <1>1, <2>5, <3>1, Zenon DEF IntPrefix
  <2>7. i \in IntState /\ i.bsy /\ i.m = 0 /\ i.v = mask
    <3>1. mask \in 0..(UINT16 - 1) /\ 0 \in 0..(UINT8 - 1)
      BY Widths
    <3> QED
      BY <2>5, <3>1 DEF IntState
  <2>8. PICK j \in IntState :
           /\ IntGroups(i, Groups(w))
              = [ret |-> "OK", int |-> j, len |-> Len(Groups(w))]
           /\ j.v = mask + w
    <3>1. mask \in Nat /\ mask = i.v /\ mask + w < UINT16
      BY <2>1, <2>7
    <3> QED
      BY <2>7, <3>1, GroupsRead
  <2>9. IntGroups(IntPrefix(pfx, Head(out)), Tail(out))
        = [ret |-> "OK", int |-> j, len |-> n]
    BY <2>2, <2>4, <2>6, <2>8, Zenon
  <2>10. inp = [ret |-> "OK", int |-> j, len |-> n + 1]
    BY <1>3, <2>9
  <2> QED
    BY <2>1, <2>4, <2>8, <2>10
<1> QED
  BY <1>5, <1>6

\* The octets it takes behind a prefix of 7 bits.
LEMMA WrittenLength ==
    ASSUME NEW v \in Nat
    PROVE  /\ v <= 126 => Len(HPI_encode(7, 0, v)) <= 1
           /\ v <= 254 => Len(HPI_encode(7, 0, v)) <= 2
           /\ v <= 16510 => Len(HPI_encode(7, 0, v)) <= 3
           /\ Len(HPI_encode(7, 0, v)) <= 4
<1>1. Mask(7) = 127
  BY DEF Mask
<1>2. PICK out : out = HPI_encode(7, 0, v)
  OBVIOUS
<1>3. CASE v < 127
  <2>1. out = <<0 + v>>
    BY <1>1, <1>2, <1>3, Zenon DEF HPI_encode
  <2>2. PICK n \in Nat : n = Len(out) /\ n <= 1 /\ n <= 2 /\ n <= 3 /\ n <= 4
    <3>1. Len(out) = 1
      BY <2>1
    <3> QED
      BY <3>1
  <2>3. Len(HPI_encode(7, 0, v)) = n
    BY <1>2, <2>2
  <2> QED
    BY <2>2, <2>3
<1>4. CASE ~(v < 127)
  <2>1. PICK w \in Nat : w = v - 127
    BY <1>4
  <2>2. PICK n \in Nat, grp \in Seq(Int) :
           /\ grp = Groups(w) /\ n = Len(grp) /\ n <= 3
           /\ w < 128 => n = 1
           /\ w < 128 * 128 => n <= 2
    <3>1. PICK grp \in Seq(Int) : grp = Groups(w)
      BY GroupsType
    <3>2. PICK n \in Nat : n = Len(grp)
      OBVIOUS
    <3>3. /\ w < 128 => n = 1
          /\ w >= 128 /\ w < 128 * 128 => n = 2
          /\ w >= 128 * 128 => n = 3
      BY <3>1, <3>2, GroupsType
    <3>4. n <= 3 /\ (w < 128 => n = 1) /\ (w < 128 * 128 => n <= 2)
      BY <3>3
    <3> QED
      BY <3>1, <3>2, <3>4
  <2>3. out = <<0 + 127>> \o grp
    BY <1>1, <1>2, <1>4, <2>1, <2>2, Zenon DEF HPI_encode
  <2>4. Len(out) = n + 1
    <3>1. <<0 + 127>> \in Seq(Int) /\ Len(<<0 + 127>>) = 1
      OBVIOUS
    <3> QED
      BY <2>2, <2>3, <3>1
  <2>5. /\ ~(v <= 126)
        /\ v <= 254 => n = 1
        /\ v <= 16510 => n <= 2
    BY <1>4, <2>1, <2>2
  <2>6. /\ v <= 254 => Len(out) <= 2
        /\ v <= 16510 => Len(out) <= 3
        /\ Len(out) <= 4
    BY <2>2, <2>4, <2>5
  <2>7. Len(HPI_encode(7, 0, v)) = Len(out)
    BY <1>2
  <2> QED
    BY <2>5, <2>6, <2>7
<1> QED
  BY <1>3, <1>4

\* What HPI_encode writes for the value that was read is read back, for every
\* prefix, and is no longer than what was read.  HPI_encode and HPI_decode,
\* lib/hpack_int.c.
THEOREM LiteralLengthWrites == Spec => []LengthWrites
<1>1. ASSUME LengthRead PROVE LengthWrites
  <2> SUFFICES ASSUME phase # "LEN", meant.val < TooLarge
               PROVE  /\ \A pfx \in 4..7 :
                            LET out == HPI_encode(pfx, 0, int.v)
                                inp == HPI_decode(IntIdle, pfx, out)
                            IN  /\ inp.ret = "OK" /\ inp.int.v = int.v
                                /\ inp.len = Len(out)
                      /\ Len(HPI_encode(7, 0, int.v)) <= meant.groups + 1
    BY Zenon DEF LengthWrites
  <2>1. PICK v \in Nat : v = int.v /\ v < UINT16
    <3>1. int.v \in 0..(UINT16 - 1)
      BY <1>1 DEF LengthRead, IntState
    <3>2. int.v \in Nat /\ int.v < UINT16
      BY <3>1, Widths
    <3> QED
      BY <3>2
  <2>2. PICK g \in Nat : g = meant.groups
    BY <1>1 DEF LengthRead
  <2>3. meant.val = v
    BY <1>1, <2>1 DEF LengthRead
  <2>4. ASSUME NEW pfx \in 4..7
        PROVE  LET out == HPI_encode(pfx, 0, v)
                   inp == HPI_decode(IntIdle, pfx, out)
               IN  /\ inp.ret = "OK" /\ inp.int.v = v
                   /\ inp.len = Len(out)
    <3>1. PICK out, inp : /\ out = HPI_encode(pfx, 0, v)
                          /\ inp = HPI_decode(IntIdle, pfx, out)
      OBVIOUS
    <3>2. inp.ret = "OK" /\ inp.int.v = v /\ inp.len = Len(out)
      BY <2>1, <3>1, ReadBack
    <3> QED
      BY <3>1, <3>2, Zenon
  <2>5. Len(HPI_encode(7, 0, v)) <= g + 1
    <3>1. PICK n : n = Len(HPI_encode(7, 0, v))
      OBVIOUS
    <3>2. /\ v <= 126 => n <= 1
          /\ v <= 254 => n <= 2
          /\ v <= 16510 => n <= 3
          /\ n <= 4
      BY <3>1, WrittenLength
    <3>3. /\ g = 0 => v <= 126
          /\ g = 1 => v <= 254
          /\ g = 2 => v <= 16510
      BY <1>1, <2>2, <2>3 DEF LengthRead
    <3>4. CASE g = 0
      BY <3>1, <3>2, <3>3, <3>4
    <3>5. CASE g = 1
      BY <3>1, <3>2, <3>3, <3>5
    <3>6. CASE g = 2
      BY <3>1, <3>2, <3>3, <3>6
    <3>7. CASE g > 2
      BY <3>1, <3>2, <3>7
    <3> QED
      BY <3>4, <3>5, <3>6, <3>7
  <2> QED
    BY <2>1, <2>2, <2>4, <2>5, Zenon
<1> QED
  BY <1>1, LiteralLengthRead, PTL
=============================================================================
