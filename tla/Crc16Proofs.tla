---------------------------- MODULE Crc16Proofs ----------------------------
(***************************************************************************)
(* For every register and every byte, and so for packets of any length and *)
(* any bytes: the tables and the register in two bytes compute the         *)
(* remainder of the division, and a change of a byte or of two neighbours  *)
(* is noticed.                                                             *)
(*                                                                         *)
(* A set of bits is known by its members, so each lemma says which they    *)
(* are.  DividedHalf is what four bits of the division come to; the table  *)
(* is compared with it bit by bit, and that it can be undone is why no     *)
(* change is lost.                                                         *)
(***************************************************************************)
EXTENDS Crc16, TLAPS

Registers == [high : Byte, low : Byte]

-----------------------------------------------------------------------------
(* Bits, and the tables.                                                   *)

LEMMA XorDef ==
  ASSUME NEW x, NEW y, NEW i
  PROVE  i \in Xor(x, y) <=> ~(i \in x <=> i \in y)
  BY DEF Xor

\* The bits of a number are the digits of its division by two.
LEMMA BitByBit ==
  ASSUME NEW n \in Nat
  PROVE  /\ Bits(n) \subseteq 0..7
         /\ 0 \in Bits(n) <=> n % 2 = 1
         /\ 1 \in Bits(n) <=> (n \div 2) % 2 = 1
         /\ 2 \in Bits(n) <=> (n \div 4) % 2 = 1
         /\ 3 \in Bits(n) <=> (n \div 8) % 2 = 1
         /\ 4 \in Bits(n) <=> (n \div 16) % 2 = 1
         /\ 5 \in Bits(n) <=> (n \div 32) % 2 = 1
         /\ 6 \in Bits(n) <=> (n \div 64) % 2 = 1
         /\ 7 \in Bits(n) <=> (n \div 128) % 2 = 1
  <1>1. /\ Weight[1] = 1 /\ Weight[2] = 2 /\ Weight[3] = 4 /\ Weight[4] = 8
        /\ Weight[5] = 16 /\ Weight[6] = 32 /\ Weight[7] = 64 /\ Weight[8] = 128
    BY DEF Weight
  <1>2. n \div 1 = n
    OBVIOUS
  <1>3. \A i \in 0..7 : i \in Bits(n) <=> (n \div Weight[i + 1]) % 2 = 1
    BY DEF Bits
  <1>4. Bits(n) \subseteq 0..7
    BY DEF Bits
  <1>5. 0 \in Bits(n) <=> n % 2 = 1
    BY <1>1, <1>2, <1>3
  <1>6. /\ 1 \in Bits(n) <=> (n \div 2) % 2 = 1
        /\ 2 \in Bits(n) <=> (n \div 4) % 2 = 1
        /\ 3 \in Bits(n) <=> (n \div 8) % 2 = 1
        /\ 4 \in Bits(n) <=> (n \div 16) % 2 = 1
    BY <1>1, <1>3
  <1>7. /\ 5 \in Bits(n) <=> (n \div 32) % 2 = 1
        /\ 6 \in Bits(n) <=> (n \div 64) % 2 = 1
        /\ 7 \in Bits(n) <=> (n \div 128) % 2 = 1
    BY <1>1, <1>3
  <1> QED BY <1>4, <1>5, <1>6, <1>7

\* What the tables hold for the four bits t: the bits, and the bits again five
\* places up; the last of these falls into the high byte.
HighOf(t) == {i \in 0..7 : i - 4 \in t \/ (i = 0 /\ 3 \in t)}
LowOf(t) == {i \in 0..7 : i \in t \/ i - 5 \in t}

LEMMA Values ==
  ASSUME NEW t \in SUBSET (0..3)
  PROVE Value(t) = (IF 0 \in t THEN 1 ELSE 0) + (IF 1 \in t THEN 2 ELSE 0) +
        (IF 2 \in t THEN 4 ELSE 0) + (IF 3 \in t THEN 8 ELSE 0)
  BY DEF Value, Weight

\* The tables hold what four bits of the division come to.
LEMMA Tables ==
  ASSUME NEW t \in SUBSET (0..3)
  PROVE  /\ Bits(LookupHigh[Value(t) + 1]) = HighOf(t)
         /\ Bits(LookupLow[Value(t) + 1]) = LowOf(t)
  <1> DEFINE v == Value(t)
  <1>1. v \in 0..15
    BY Values
  <1>2. /\ 0 \in t <=> v \in {1, 3, 5, 7, 9, 11, 13, 15}
        /\ 1 \in t <=> v \in {2, 3, 6, 7, 10, 11, 14, 15}
        /\ 2 \in t <=> v \in {4, 5, 6, 7, 12, 13, 14, 15}
        /\ 3 \in t <=> v \in 8..15
    BY Values
  <1> HIDE DEF v
  <1>3. LookupHigh[v + 1] \in Nat /\ LookupLow[v + 1] \in Nat
    BY <1>1 DEF LookupHigh, LookupLow
  <1>4. Bits(LookupHigh[v + 1]) = HighOf(t)
    <2> DEFINE n == LookupHigh[v + 1]
    <2>1. /\ 0 \in Bits(n) <=> v \in 8..15
          /\ 1 \notin Bits(n) /\ 2 \notin Bits(n) /\ 3 \notin Bits(n)
          /\ 4 \in Bits(n) <=> v \in {1, 3, 5, 7, 9, 11, 13, 15}
          /\ 5 \in Bits(n) <=> v \in {2, 3, 6, 7, 10, 11, 14, 15}
          /\ 6 \in Bits(n) <=> v \in {4, 5, 6, 7, 12, 13, 14, 15}
          /\ 7 \in Bits(n) <=> v \in 8..15
      BY <1>1, <1>3, BitByBit DEF LookupHigh
    <2>2. Bits(n) \subseteq 0..7
      BY <1>3, BitByBit
    <2> HIDE DEF n
    <2>3. Bits(n) = HighOf(t)
      BY <1>2, <2>1, <2>2 DEF HighOf
    <2> QED BY <2>3 DEF n
  <1>5. Bits(LookupLow[v + 1]) = LowOf(t)
    <2> DEFINE n == LookupLow[v + 1]
    <2>1. /\ 0 \in Bits(n) <=> v \in {1, 3, 5, 7, 9, 11, 13, 15}
          /\ 1 \in Bits(n) <=> v \in {2, 3, 6, 7, 10, 11, 14, 15}
          /\ 2 \in Bits(n) <=> v \in {4, 5, 6, 7, 12, 13, 14, 15}
          /\ 3 \in Bits(n) <=> v \in 8..15
          /\ 4 \notin Bits(n)
          /\ 5 \in Bits(n) <=> v \in {1, 3, 5, 7, 9, 11, 13, 15}
          /\ 6 \in Bits(n) <=> v \in {2, 3, 6, 7, 10, 11, 14, 15}
          /\ 7 \in Bits(n) <=> v \in {4, 5, 6, 7, 12, 13, 14, 15}
      BY <1>1, <1>3, BitByBit DEF LookupLow
    <2>2. Bits(n) \subseteq 0..7
      BY <1>3, BitByBit
    <2> HIDE DEF n
    <2>3. Bits(n) = LowOf(t)
      BY <1>2, <2>1, <2>2 DEF LowOf
    <2> QED BY <2>3 DEF n
  <1> QED BY <1>4, <1>5 DEF v

-----------------------------------------------------------------------------
(* The division.                                                           *)

LEMMA BitStep ==
  ASSUME NEW r \in SUBSET (0..15)
  PROVE  /\ DivideBit(r) \in SUBSET (0..15)
         /\ \A i \in 0..15 : i \in DivideBit(r) <=>
              IF 15 \in r /\ i \in {0, 5, 12} THEN i - 1 \notin r ELSE i - 1 \in r
  <1>1. \A i \in 0..16 : i \in Doubled(r) <=> i - 1 \in r
    BY DEF Doubled
  <1>2. Doubled(r) \subseteq 0..16
    BY DEF Doubled
  <1>3. \A i : i \in Polynomial <=> i \in {0, 5, 12, 16}
    BY DEF Polynomial
  <1> QED BY <1>1, <1>2, <1>3, XorDef DEF DivideBit

\* Four bits: the others move up by four places, and the upper four are added at
\* each place of the polynomial: 0, 5 and 12.
DividedHalf(r) ==
  {i \in 0..15 : CASE i \in 0..3 -> i + 12 \in r
                   [] i \in 5..8 -> ~(i - 4 \in r <=> i + 7 \in r)
                   [] i \in 12..15 -> ~(i - 4 \in r <=> i \in r)
                   [] OTHER -> i - 4 \in r}

LEMMA HalfStep ==
  ASSUME NEW r \in SUBSET (0..15)
  PROVE  DivideHalf(r) = DividedHalf(r)
  <1> DEFINE r1 == DivideBit(r)
             r2 == DivideBit(r1)
             r3 == DivideBit(r2)
             r4 == DivideBit(r3)
  <1>1. r1 \in SUBSET (0..15)
    BY BitStep
  <1>2. r2 \in SUBSET (0..15)
    BY <1>1, BitStep
  <1>3. r3 \in SUBSET (0..15)
    BY <1>2, BitStep
  <1>4. r4 \in SUBSET (0..15)
    BY <1>3, BitStep
  <1>5. \A i \in 0..15 : i \in r1 <=>
              IF 15 \in r /\ i \in {0, 5, 12} THEN i - 1 \notin r ELSE i - 1 \in r
    BY BitStep
  <1>6. \A i \in 0..15 : i \in r2 <=>
              IF 15 \in r1 /\ i \in {0, 5, 12} THEN i - 1 \notin r1 ELSE i - 1 \in r1
    BY <1>1, BitStep
  <1>7. \A i \in 0..15 : i \in r3 <=>
              IF 15 \in r2 /\ i \in {0, 5, 12} THEN i - 1 \notin r2 ELSE i - 1 \in r2
    BY <1>2, BitStep
  <1>8. \A i \in 0..15 : i \in r4 <=>
              IF 15 \in r3 /\ i \in {0, 5, 12} THEN i - 1 \notin r3 ELSE i - 1 \in r3
    BY <1>3, BitStep
  <1>9. DivideHalf(r) = r4
    BY DEF DivideHalf
  <1> HIDE DEF r1, r2, r3, r4
  <1> QED BY <1>1, <1>2, <1>3, <1>4, <1>5, <1>6, <1>7, <1>8, <1>9 DEF DividedHalf

-----------------------------------------------------------------------------
(* The register.                                                           *)

\* The bits of the two bytes as those of one number.
LEMMA WholeBits ==
  ASSUME NEW crc \in Registers
  PROVE  /\ Whole(crc) \in SUBSET (0..15)
         /\ \A i \in 0..15 : i \in Whole(crc) <=> i \in crc.low \/ i - 8 \in crc.high
  BY DEF Whole, Registers, Byte

\* The halves of a byte.
LEMMA Halves ==
  ASSUME NEW b \in Byte
  PROVE  /\ HighHalf(b) \in SUBSET (0..3) /\ LowHalf(b) \in SUBSET (0..3)
         /\ \A i \in 0..3 : i \in HighHalf(b) <=> i + 4 \in b
         /\ \A i \in 0..3 : i \in LowHalf(b) <=> i \in b
  <1>1. \A i \in 0..7 : i + 4 \in b => i \in 0..3
    BY DEF Byte
  <1> QED BY <1>1 DEF HighHalf, LowHalf, ShiftRight

\* The index of the tables: the upper half of the high byte, and four bits.
Index(crc, val) == Xor(HighHalf(crc.high), val)

LEMMA IndexBits ==
  ASSUME NEW crc \in Registers, NEW val \in SUBSET (0..3)
  PROVE  /\ Index(crc, val) \in SUBSET (0..3)
         /\ \A i \in 0..3 :
              i \in Index(crc, val) <=> ~(i + 4 \in crc.high <=> i \in val)
  <1> DEFINE b == crc.high
             h == HighHalf(b)
  <1>1. b \in Byte
    BY DEF Registers
  <1>2. h \in SUBSET (0..3) /\ \A i \in 0..3 : i \in h <=> i + 4 \in b
    <2> HIDE DEF b
    <2> QED BY <1>1, Halves
  <1>3. Index(crc, val) = Xor(h, val)
    BY DEF Index
  <1> HIDE DEF h
  <1>4. Xor(h, val) \in SUBSET (0..3)
    BY <1>2 DEF Xor
  <1>5. \A i \in 0..3 : i \in Xor(h, val) <=> ~(i \in h <=> i \in val)
    BY XorDef
  <1> QED BY <1>2, <1>3, <1>4, <1>5

\* Four bits by the table, bit by bit.
LEMMA RegisterBits ==
  ASSUME NEW crc \in Registers, NEW val \in SUBSET (0..3)
  PROVE  /\ CRC16_Update4Bits(crc, val) \in Registers
         /\ LET t == Index(crc, val) IN
            \A i \in 0..7 :
              /\ i \in CRC16_Update4Bits(crc, val).high <=>
                   ~((i - 4 \in crc.high \/ i + 4 \in crc.low)
                     <=> (i - 4 \in t \/ (i = 0 /\ 3 \in t)))
              /\ i \in CRC16_Update4Bits(crc, val).low <=>
                   ~(i - 4 \in crc.low <=> (i \in t \/ i - 5 \in t))
  <1> DEFINE t == Index(crc, val)
             high == Xor(Shifted(crc).high, HighOf(t))
             low == Xor(Shifted(crc).low, LowOf(t))
  <1>1. crc.high \in SUBSET (0..7) /\ crc.low \in SUBSET (0..7)
    BY DEF Registers, Byte
  <1>2. t \in SUBSET (0..3)
    BY IndexBits
  <1>3. CRC16_Update4Bits(crc, val) = [high |-> high, low |-> low]
    <2>1. /\ Bits(LookupHigh[Value(t) + 1]) = HighOf(t)
          /\ Bits(LookupLow[Value(t) + 1]) = LowOf(t)
      BY <1>2, Tables
    <2> QED BY <2>1, Zenon DEF CRC16_Update4Bits, Index, HighHalf
  <1>4. Shifted(crc).high = ShiftLeft(crc.high, 4) \cup ShiftRight(crc.low, 4)
        /\ Shifted(crc).low = ShiftLeft(crc.low, 4)
    BY DEF Shifted
  <1> HIDE DEF t
  <1>5. high \in Byte /\ low \in Byte
    BY <1>4 DEF Xor, ShiftLeft, ShiftRight, HighOf, LowOf, Byte
  <1>6. \A i \in 0..7 : i \in high <=>
                   ~((i - 4 \in crc.high \/ i + 4 \in crc.low)
                     <=> (i - 4 \in t \/ (i = 0 /\ 3 \in t)))
    BY <1>4, XorDef DEF ShiftLeft, ShiftRight, HighOf
  <1>7. \A i \in 0..7 : i \in low <=>
                   ~(i - 4 \in crc.low <=> (i \in t \/ i - 5 \in t))
    BY <1>4, XorDef DEF ShiftLeft, LowOf
  <1> HIDE DEF high, low
  <1> QED BY <1>3, <1>5, <1>6, <1>7 DEF Registers, t

\* The dividend with four more bits at its upper end.
Fed(r, val) == Xor(r, {i + 12 : i \in val})

LEMMA FedBits ==
  ASSUME NEW r \in SUBSET (0..15), NEW val \in SUBSET (0..3)
  PROVE  /\ Fed(r, val) \in SUBSET (0..15)
         /\ \A i \in 0..15 : i \in Fed(r, val) <=> ~(i \in r <=> i - 12 \in val)
  <1>1. \A i \in 0..15 : i \in {j + 12 : j \in val} <=> i - 12 \in val
    OBVIOUS
  <1>2. {j + 12 : j \in val} \subseteq 0..15
    OBVIOUS
  <1> QED BY <1>1, <1>2, XorDef DEF Fed

\* Four bits by the table are four bits of the division.
LEMMA HalfByTable ==
  ASSUME NEW crc \in Registers, NEW val \in SUBSET (0..3)
  PROVE  Whole(CRC16_Update4Bits(crc, val)) = DivideHalf(Fed(Whole(crc), val))
  <1> DEFINE t == Index(crc, val)
             new == CRC16_Update4Bits(crc, val)
             fed == Fed(Whole(crc), val)
  <1>0. crc.high \in SUBSET (0..7) /\ crc.low \in SUBSET (0..7)
    BY DEF Registers, Byte
  <1>1. new \in Registers
    BY RegisterBits
  <1>2. \A i \in 0..7 :
              /\ i \in new.high <=>
                   ~((i - 4 \in crc.high \/ i + 4 \in crc.low)
                     <=> (i - 4 \in t \/ (i = 0 /\ 3 \in t)))
              /\ i \in new.low <=>
                   ~(i - 4 \in crc.low <=> (i \in t \/ i - 5 \in t))
    BY RegisterBits
  <1>3. \A i \in 0..3 : i \in t <=> ~(i + 4 \in crc.high <=> i \in val)
    BY IndexBits
  <1>4. t \in SUBSET (0..3)
    BY IndexBits
  <1>5. fed \in SUBSET (0..15) /\ DivideHalf(fed) = DividedHalf(fed)
    BY WholeBits, FedBits, HalfStep
  <1>6. \A i \in 0..15 : i \in fed <=> ~(i \in Whole(crc) <=> i - 12 \in val)
    BY WholeBits, FedBits
  <1>8. \A i \in 0..15 : i \in Whole(crc) <=> i \in crc.low \/ i - 8 \in crc.high
    BY WholeBits
  <1>9. /\ Whole(new) \in SUBSET (0..15)
        /\ \A i \in 0..15 : i \in Whole(new) <=> i \in new.low \/ i - 8 \in new.high
    BY <1>1, WholeBits
  <1>10. new.high \in SUBSET (0..7) /\ new.low \in SUBSET (0..7)
    BY <1>1 DEF Registers, Byte
  <1> HIDE DEF t, new, fed
  <1>11. \A i \in 0..15 : i \in Whole(new) <=> i \in DividedHalf(fed)
    BY <1>2, <1>3, <1>4, <1>5, <1>6, <1>0, <1>8, <1>9, <1>10 DEF DividedHalf
  <1>12. DividedHalf(fed) \subseteq 0..15
    BY DEF DividedHalf
  <1>13. Whole(new) = DividedHalf(fed)
    BY <1>9, <1>11, <1>12
  <1> QED BY <1>5, <1>13 DEF new, fed

\* The byte val at the upper end of the dividend.
FedByte(r, val) == Xor(r, {i + 8 : i \in val})

LEMMA FedByteBits ==
  ASSUME NEW r \in SUBSET (0..15), NEW val \in Byte
  PROVE  /\ FedByte(r, val) \in SUBSET (0..15)
         /\ \A i \in 0..15 : i \in FedByte(r, val) <=> ~(i \in r <=> i - 8 \in val)
  <1> DEFINE upper == {j + 8 : j \in val}
  <1>1. upper \in SUBSET (0..15) /\ \A i \in 0..15 : i \in upper <=> i - 8 \in val
    BY DEF Byte
  <1>2. FedByte(r, val) = Xor(r, upper)
    BY DEF FedByte
  <1> HIDE DEF upper
  <1>3. Xor(r, upper) \in SUBSET (0..15)
    BY <1>1 DEF Xor
  <1>4. \A i \in 0..15 : i \in Xor(r, upper) <=> ~(i \in r <=> i \in upper)
    BY XorDef
  <1> QED BY <1>1, <1>2, <1>3, <1>4

\* For every register and every byte CRC16_Update is the division of what the
\* register holds, continued by that byte (CRC16_Update, the two tables).
THEOREM UpdateDivides ==
  ASSUME NEW crc \in Registers, NEW val \in Byte
  PROVE  /\ CRC16_Update(crc, val) \in Registers
         /\ Whole(CRC16_Update(crc, val)) = DivideByte(Whole(crc), val)
  <1> DEFINE hi == HighHalf(val)
             lo == LowHalf(val)
             mid == CRC16_Update4Bits(crc, hi)
             r == Whole(crc)
             fed == Fed(r, hi)
             whole == FedByte(r, val)
  <1>1. /\ hi \in SUBSET (0..3) /\ lo \in SUBSET (0..3)
        /\ \A i \in 0..3 : i \in hi <=> i + 4 \in val
        /\ \A i \in 0..3 : i \in lo <=> i \in val
    BY Halves
  <1>2. mid \in Registers /\ Whole(mid) = DivideHalf(fed)
    BY <1>1, RegisterBits, HalfByTable
  <1>3. /\ CRC16_Update(crc, val) \in Registers
        /\ Whole(CRC16_Update(crc, val)) = DivideHalf(Fed(Whole(mid), lo))
    <2>1. CRC16_Update(crc, val) = CRC16_Update4Bits(mid, lo)
      BY DEF CRC16_Update
    <2> HIDE DEF mid, lo
    <2> QED BY <1>1, <1>2, <2>1, RegisterBits, HalfByTable
  <1>4. r \in SUBSET (0..15)
    BY WholeBits
  <1>5. /\ fed \in SUBSET (0..15)
        /\ \A i \in 0..15 : i \in fed <=> ~(i \in r <=> i - 12 \in hi)
    BY <1>1, <1>4, FedBits
  <1>6. /\ whole \in SUBSET (0..15)
        /\ \A i \in 0..15 : i \in whole <=> ~(i \in r <=> i - 8 \in val)
    BY <1>4, FedByteBits
  <1>7. DivideByte(r, val) = DivideHalf(DivideHalf(whole))
    BY DEF DivideByte, FedByte
  <1> HIDE DEF hi, lo, mid, r, fed, whole
  <1>8. DivideHalf(fed) = DividedHalf(fed) /\ DivideHalf(whole) = DividedHalf(whole)
    BY <1>5, <1>6, HalfStep
  <1>9. DividedHalf(fed) \in SUBSET (0..15) /\ DividedHalf(whole) \in SUBSET (0..15)
    BY DEF DividedHalf
  <1>10. /\ Fed(DividedHalf(fed), lo) \in SUBSET (0..15)
         /\ \A i \in 0..15 : i \in Fed(DividedHalf(fed), lo) <=>
              ~(i \in DividedHalf(fed) <=> i - 12 \in lo)
    BY <1>1, <1>9, FedBits
  <1>11. val \in SUBSET (0..7)
    BY DEF Byte
  <1>12. \A i \in 0..15 : i \in Fed(DividedHalf(fed), lo) <=> i \in DividedHalf(whole)
    BY <1>1, <1>4, <1>5, <1>6, <1>10, <1>11 DEF DividedHalf
  <1>13. Fed(DividedHalf(fed), lo) = DividedHalf(whole)
    BY <1>9, <1>10, <1>12
  <1> QED BY <1>2, <1>3, <1>7, <1>8, <1>13 DEF r

-----------------------------------------------------------------------------
(* The division can be undone.                                             *)

LEMMA HalfInjective ==
  ASSUME NEW r \in SUBSET (0..15), NEW s \in SUBSET (0..15),
         DivideHalf(r) = DivideHalf(s)
  PROVE  r = s
  <1>1. DividedHalf(r) = DividedHalf(s)
    BY HalfStep
  <1>2. \A i \in 0..15 : i \in DividedHalf(r) <=> i \in DividedHalf(s)
    BY <1>1
  <1>3. \A i \in 12..15 : i \in r <=> i \in s
    <2>1. \A i \in 0..3 : i + 12 \in r <=> i + 12 \in s
      BY <1>2 DEF DividedHalf
    <2> QED BY <2>1
  <1>4. \A i \in 0..11 : i \in r <=> i \in s
    <2>1. \A i \in 4..15 : i - 4 \in r <=> i - 4 \in s
      BY <1>2, <1>3 DEF DividedHalf
    <2> QED BY <2>1
  <1>5. \A i \in 0..15 : i \in r <=> i \in s
    BY <1>3, <1>4
  <1> QED BY <1>5

LEMMA ByteInjective ==
  ASSUME NEW r \in SUBSET (0..15), NEW s \in SUBSET (0..15),
         NEW b \in Byte, NEW c \in Byte,
         DivideByte(r, b) = DivideByte(s, c)
  PROVE  FedByte(r, b) = FedByte(s, c)
  <1> DEFINE x == FedByte(r, b)
             y == FedByte(s, c)
  <1>1. x \in SUBSET (0..15) /\ y \in SUBSET (0..15)
    BY FedByteBits
  <1>2. DivideHalf(DivideHalf(x)) = DivideHalf(DivideHalf(y))
    BY DEF DivideByte, FedByte
  <1> HIDE DEF x, y
  <1>3. DivideHalf(x) \in SUBSET (0..15) /\ DivideHalf(y) \in SUBSET (0..15)
    BY <1>1, HalfStep DEF DividedHalf
  <1>4. DivideHalf(x) = DivideHalf(y)
    BY <1>2, <1>3, HalfInjective
  <1>5. x = y
    BY <1>1, <1>4, HalfInjective
  <1> QED BY <1>5 DEF x, y

\* Of two dividends that differ in the upper byte, the lower byte of the results
\* tells which was which.
LEMMA LowByteTells ==
  ASSUME NEW x \in SUBSET (0..15), NEW y \in SUBSET (0..15),
         \A i \in 0..7 : i \in x <=> i \in y,
         \A i \in 0..7 :
           i \in DivideHalf(DivideHalf(x)) <=> i \in DivideHalf(DivideHalf(y))
  PROVE  x = y
  <1> DEFINE u == DivideHalf(x)
             v == DivideHalf(y)
  <1>1. u = DividedHalf(x) /\ v = DividedHalf(y)
    BY HalfStep
  <1>2. u \in SUBSET (0..15) /\ v \in SUBSET (0..15)
    BY <1>1 DEF DividedHalf
  <1> HIDE DEF u, v
  <1>3. \A i \in 0..7 : i \in DividedHalf(u) <=> i \in DividedHalf(v)
    BY <1>2, HalfStep DEF u, v
  <1>4. \A i \in 0..3 : i + 12 \in u <=> i + 12 \in v
    BY <1>3 DEF DividedHalf
  <1>5. \A i \in 0..3 : i \in u <=> i \in v
    <2>1. \A i \in 4..7 : i - 4 \in u <=> i - 4 \in v
      BY <1>3, <1>4 DEF DividedHalf
    <2> QED BY <2>1
  <1>6. \A i \in 0..3 : i + 12 \in x <=> i + 12 \in y
    BY <1>1, <1>5 DEF DividedHalf
  <1>7. \A i \in 12..15 : i - 4 \in x <=> i - 4 \in y
    BY <1>1, <1>4, <1>6 DEF DividedHalf
  <1>8. \A i \in 0..15 : i \in x <=> i \in y
    BY <1>6, <1>7
  <1> QED BY <1>8

\* The two bytes make one number of it.
LEMMA WholeInjective ==
  ASSUME NEW x \in Registers, NEW y \in Registers,
         \A i \in 0..15 : i \in Whole(x) <=> i \in Whole(y)
  PROVE  x = y
  <1>1. /\ x.high \in SUBSET (0..7) /\ x.low \in SUBSET (0..7)
        /\ y.high \in SUBSET (0..7) /\ y.low \in SUBSET (0..7)
    BY DEF Registers, Byte
  <1>2. /\ \A i \in 0..15 : i \in Whole(x) <=> i \in x.low \/ i - 8 \in x.high
        /\ \A i \in 0..15 : i \in Whole(y) <=> i \in y.low \/ i - 8 \in y.high
    BY WholeBits
  <1>3. \A i \in 0..7 : i \in x.low <=> i \in y.low
    BY <1>1, <1>2
  <1>4. \A i \in 0..7 : i \in x.high <=> i \in y.high
    <2>1. \A i \in 8..15 : i - 8 \in x.high <=> i - 8 \in y.high
      BY <1>1, <1>2
    <2> QED BY <2>1
  <1>5. x.low = y.low /\ x.high = y.high
    BY <1>1, <1>3, <1>4
  <1> QED BY <1>5 DEF Registers

\* Two registers that differ differ after the same byte.
LEMMA SameByteTells ==
  ASSUME NEW x \in Registers, NEW y \in Registers, NEW b \in Byte,
         CRC16_Update(x, b) = CRC16_Update(y, b)
  PROVE  x = y
  <1>1. FedByte(Whole(x), b) = FedByte(Whole(y), b)
    <2>1. DivideByte(Whole(x), b) = DivideByte(Whole(y), b)
      BY UpdateDivides
    <2> QED BY <2>1, WholeBits, ByteInjective
  <1>2. \A i \in 0..15 : i \in Whole(x) <=> i \in Whole(y)
    BY <1>1, WholeBits, FedByteBits
  <1> QED BY <1>2, WholeInjective

\* A register tells one byte from another ...
LEMMA OtherByteTells ==
  ASSUME NEW x \in Registers, NEW b \in Byte, NEW c \in Byte,
         CRC16_Update(x, b) = CRC16_Update(x, c)
  PROVE  b = c
  <1>1. FedByte(Whole(x), b) = FedByte(Whole(x), c)
    <2>1. DivideByte(Whole(x), b) = DivideByte(Whole(x), c)
      BY UpdateDivides
    <2> QED BY <2>1, WholeBits, ByteInjective
  <1>2. \A i \in 8..15 : i - 8 \in b <=> i - 8 \in c
    BY <1>1, WholeBits, FedByteBits
  <1>3. \A i \in 0..7 : i \in b <=> i \in c
    BY <1>2
  <1> QED BY <1>3 DEF Byte

\* ... and still does after one more byte on either side.
LEMMA NeighbourTells ==
  ASSUME NEW x \in Registers, NEW b \in Byte, NEW c \in Byte,
         NEW d \in Byte, NEW e \in Byte,
         CRC16_Update(CRC16_Update(x, b), d) = CRC16_Update(CRC16_Update(x, c), e)
  PROVE  b = c
  <1> DEFINE y == CRC16_Update(x, b)
             z == CRC16_Update(x, c)
             r == FedByte(Whole(x), b)
             s == FedByte(Whole(x), c)
  <1>1. /\ y \in Registers /\ Whole(y) = DivideHalf(DivideHalf(r))
        /\ z \in Registers /\ Whole(z) = DivideHalf(DivideHalf(s))
    BY UpdateDivides DEF DivideByte, FedByte
  <1>2. r \in SUBSET (0..15) /\ s \in SUBSET (0..15)
    BY WholeBits, FedByteBits
  <1>3. \A i \in 0..7 : i \in r <=> i \in s
    <2>1. \A i \in 0..7 : i - 8 \notin b /\ i - 8 \notin c
      BY DEF Byte
    <2> QED BY <2>1, WholeBits, FedByteBits
  <1>4. CRC16_Update(y, d) = CRC16_Update(z, e)
    OBVIOUS
  <1> HIDE DEF y, z, r, s
  <1>5. FedByte(Whole(y), d) = FedByte(Whole(z), e)
    <2>1. DivideByte(Whole(y), d) = DivideByte(Whole(z), e)
      BY <1>1, <1>4, UpdateDivides
    <2> QED BY <1>1, <2>1, WholeBits, ByteInjective
  <1>6. \A i \in 0..7 : i \in Whole(y) <=> i \in Whole(z)
    <2>1. \A i \in 0..7 : i - 8 \notin d /\ i - 8 \notin e
      BY DEF Byte
    <2> QED BY <1>1, <1>5, <2>1, WholeBits, FedByteBits
  <1>7. r = s
    BY <1>1, <1>2, <1>3, <1>6, LowByteTells
  <1>8. \A i \in 8..15 : i - 8 \in b <=> i - 8 \in c
    BY <1>7, WholeBits, FedByteBits DEF r, s
  <1>9. \A i \in 0..7 : i \in b <=> i \in c
    BY <1>8
  <1> QED BY <1>9 DEF Byte

-----------------------------------------------------------------------------
(* The invariant: the registers of the two sides are the same, or differ   *)
(* since the last byte by that byte alone, or differ.                      *)

CrcInv ==
  /\ bytesIn \in Nat
  /\ sent \in Registers /\ received \in Registers
  /\ remainder = Whole(sent)
  /\ changed \in {"no", "last", "before"}
  /\ changed = "no" => received = sent
  /\ changed = "last" =>
       \E x \in Registers, b, c \in Byte :
         b # c /\ sent = CRC16_Update(x, b) /\ received = CRC16_Update(x, c)
  /\ changed = "before" => received # sent

LEMMA CrcInvInit == CrcInit => CrcInv
  <1> SUFFICES ASSUME CrcInit PROVE CrcInv
    OBVIOUS
  <1>1. CRC16_Init \in Registers
    BY DEF CRC16_Init, Registers, Byte
  <1>2. \A i \in 0..15 : i \in Whole(CRC16_Init)
    BY <1>1, WholeBits DEF CRC16_Init
  <1>3. Whole(CRC16_Init) = 0..15
    BY <1>1, <1>2, WholeBits
  <1> QED BY <1>1, <1>3 DEF CrcInit, CrcInv

LEMMA Differs ==
  ASSUME CrcInv, changed # "no" PROVE sent # received
  BY OtherByteTells DEF CrcInv

LEMMA PutByteInv ==
  ASSUME CrcInv, NEW b \in Byte, PutByte(b)
  PROVE  bytesIn' \in Nat /\ sent' \in Registers /\ remainder' = Whole(sent')
  BY UpdateDivides DEF CrcInv, PutByte

LEMMA IntactInv == ASSUME CrcInv, NEW b \in Byte, Intact(b) PROVE CrcInv'
  <1>1. bytesIn' \in Nat /\ sent' \in Registers /\ remainder' = Whole(sent')
    BY PutByteInv DEF Intact
  <1>2. sent' = CRC16_Update(sent, b) /\ received' = CRC16_Update(received, b)
    BY DEF Intact, PutByte
  <1>3. received' \in Registers
    BY <1>2, UpdateDivides DEF CrcInv
  <1>4. CASE changed = "no"
    BY <1>1, <1>2, <1>3, <1>4 DEF CrcInv, Intact, Whole
  <1>5. CASE changed # "no"
    <2>1. sent' # received'
      BY <1>2, <1>5, Differs, SameByteTells DEF CrcInv
    <2>2. changed' = "before"
      BY <1>5 DEF Intact
    <2> QED BY <1>1, <1>3, <2>1, <2>2 DEF CrcInv, Whole
  <1> QED BY <1>4, <1>5

LEMMA ChangedInv ==
  ASSUME CrcInv, NEW b \in Byte, NEW c \in Byte, Changed(b, c) PROVE CrcInv'
  <1>1. bytesIn' \in Nat /\ sent' \in Registers /\ remainder' = Whole(sent')
    BY PutByteInv DEF Changed
  <1>2. /\ sent' = CRC16_Update(sent, b) /\ received' = CRC16_Update(received, c)
        /\ b # c
    BY DEF Changed, PutByte
  <1>3. received' \in Registers
    BY <1>2, UpdateDivides DEF CrcInv
  <1>4. CASE changed = "no"
    <2>1. changed' = "last" /\ received = sent /\ sent \in Registers
      BY <1>4 DEF Changed, CrcInv
    <2> QED BY <1>1, <1>2, <1>3, <2>1 DEF CrcInv, Whole
  <1>5. CASE changed = "last"
    <2>1. PICK x \in Registers, d \in Byte, e \in Byte :
            d # e /\ sent = CRC16_Update(x, d) /\ received = CRC16_Update(x, e)
      BY <1>5 DEF CrcInv
    <2>2. sent' # received'
      BY <1>2, <2>1, NeighbourTells
    <2>3. changed' = "before"
      BY <1>5 DEF Changed
    <2> QED BY <1>1, <1>3, <2>2, <2>3 DEF CrcInv, Whole
  <1> QED BY <1>4, <1>5 DEF CrcInv, Changed

LEMMA CrcAlways == CrcSpec => []CrcInv
  <1>1. CrcInv /\ [CrcNext]_cvars => CrcInv'
    <2> SUFFICES ASSUME CrcInv, [CrcNext]_cvars PROVE CrcInv'
      OBVIOUS
    <2>1. CASE UNCHANGED cvars
      BY <2>1 DEF CrcInv, cvars, Whole
    <2>2. ASSUME NEW b \in Bytes, Intact(b) PROVE CrcInv'
      BY <2>2, BytesAssumption, IntactInv
    <2>3. ASSUME NEW b \in Bytes, NEW c \in Bytes, Changed(b, c) PROVE CrcInv'
      BY <2>3, BytesAssumption, ChangedInv
    <2> QED BY <2>1, <2>2, <2>3 DEF CrcNext
  <1> QED BY <1>1, CrcInvInit, PTL DEF CrcSpec

\* What CRC16_Generate returns is the remainder of the division, for packets of any
\* bytes and any length (CRC16_Generate).
THEOREM TablesDivide == CrcSpec => []IsTheRemainder
  <1>1. CrcInv => IsTheRemainder
    BY DEF CrcInv, IsTheRemainder
  <1> QED BY <1>1, CrcAlways, PTL

\* A packet in which a byte or two neighbours were changed is not taken, whatever
\* its length (the CRC is compared in HandlePacketRev0 and HandlePacketRev1).
THEOREM BurstsAreNoticed == CrcSpec => []ChangeIsNoticed
  <1>1. CrcInv => ChangeIsNoticed
    <2> SUFFICES ASSUME CrcInv, changed # "no" PROVE Whole(sent) # Whole(received)
      BY DEF ChangeIsNoticed
    <2>1. sent # received /\ sent \in Registers /\ received \in Registers
      BY Differs DEF CrcInv
    <2> QED BY <2>1, WholeInjective
  <1> QED BY <1>1, CrcAlways, PTL

=============================================================================
