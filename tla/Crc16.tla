-------------------------------- MODULE Crc16 --------------------------------
(***************************************************************************)
(* CRC16_Generate, four bits at a time through two tables and two bytes of *)
(* register, for a packet as its sensor made it and as the receiver got    *)
(* it.  The reference is the definition of the CRC: the remainder of a     *)
(* division by x^16 + x^12 + x^5 + 1, one bit at a time.                   *)
(*                                                                         *)
(* A byte is the set of its bits that are one: 0 is the lowest.  The       *)
(* exclusive or is then the symmetric difference.                          *)
(***************************************************************************)
EXTENDS Integers

CONSTANTS
  Bytes,     \* bound: the bytes in a packet
  MaxLength  \* bound: its length

Byte == SUBSET (0..7)

ASSUME BytesAssumption == Bytes \subseteq Byte /\ MaxLength \in Nat

VARIABLES
  bytesIn,  \* bytes that both sides have put in
  sent,      \* [high, low]: the sensor's CRC register
  received,  \* the receiver's
  remainder, \* reference: the remainder of what was sent
  changed    \* history: no byte was changed on the way, the last one that was
             \* put in was, or one before it

cvars == <<bytesIn, sent, received, remainder, changed>>

Xor(x, y) == (x \ y) \cup (y \ x)
ShiftLeft(x, n) == {i \in 0..7 : i - n \in x}
ShiftRight(x, n) == {i \in 0..7 : i + n \in x}

\* The four bits t as a number, and a number as a byte.
Weight == <<1, 2, 4, 8, 16, 32, 64, 128>>
Value(t) == LET bit(i) == IF i \in t THEN Weight[i + 1] ELSE 0
            IN  bit(0) + bit(1) + bit(2) + bit(3)
Bits(n) == {i \in 0..7 : (n \div Weight[i + 1]) % 2 = 1}

LookupHigh == <<  0,  16,  32,  48,  64,  80,  96, 112,
                129, 145, 161, 177, 193, 209, 225, 241>>
LookupLow  == <<  0,  33,  66,  99, 132, 165, 198, 231,
                  8,  41,  74, 107, 140, 173, 206, 239>>

CRC16_Init == [high |-> 0..7, low |-> 0..7]

\* Mutant of Shifted: the low byte's upper half is not carried over.
ShiftedApart(crc) == [high |-> ShiftLeft(crc.high, 4), low |-> ShiftLeft(crc.low, 4)]

\* The register, four bits further to the left, in two bytes.
Shifted(crc) ==
  [high |-> ShiftLeft(crc.high, 4) \cup ShiftRight(crc.low, 4),
   low |-> ShiftLeft(crc.low, 4)]

CRC16_Update4Bits(crc, val) ==
  LET t == Xor(ShiftRight(crc.high, 4), val) IN
  [high |-> Xor(Shifted(crc).high, Bits(LookupHigh[Value(t) + 1])),
   low  |-> Xor(Shifted(crc).low, Bits(LookupLow[Value(t) + 1]))]

HighHalf(val) == ShiftRight(val, 4)
LowHalf(val) == val \cap 0..3

\* Mutant of CRC16_Update: the low half of the byte goes first.
CRC16_UpdateLowFirst(crc, val) ==
  CRC16_Update4Bits(CRC16_Update4Bits(crc, LowHalf(val)), HighHalf(val))

CRC16_Update(crc, val) ==
  CRC16_Update4Bits(CRC16_Update4Bits(crc, HighHalf(val)), LowHalf(val))

\* Reference: one bit of the division, and the eight bits of a byte, of which
\* the dividend gets those of the byte at its upper end.
Polynomial == {16, 12, 5, 0}
Doubled(r) == {i + 1 : i \in r}
DivideBit(r) == IF 15 \in r THEN Xor(Doubled(r), Polynomial) ELSE Doubled(r)
DivideHalf(r) == DivideBit(DivideBit(DivideBit(DivideBit(r))))
DivideByte(r, val) == DivideHalf(DivideHalf(Xor(r, {i + 8 : i \in val})))

CrcInit ==
  /\ bytesIn = 0 /\ changed = "no"
  /\ sent = CRC16_Init /\ received = CRC16_Init /\ remainder = 0..15

\* The next byte of the packet, as it was sent.
PutByte(b) ==
  /\ bytesIn < MaxLength
  /\ bytesIn' = bytesIn + 1
  /\ sent' = CRC16_Update(sent, b)
  /\ remainder' = DivideByte(remainder, b)

Intact(b) ==
  /\ PutByte(b)
  /\ received' = CRC16_Update(received, b)
  /\ changed' = IF changed = "no" THEN "no" ELSE "before"

\* External: the radio changes a byte, or two that are neighbours.
Changed(b, c) ==
  /\ changed # "before" /\ b # c
  /\ PutByte(b)
  /\ received' = CRC16_Update(received, c)
  /\ changed' = IF changed = "no" THEN "last" ELSE "before"

CrcNext ==
  \/ \E b \in Bytes : Intact(b)
  \/ \E b, c \in Bytes : Changed(b, c)

CrcSpec == CrcInit /\ [][CrcNext]_cvars

-----------------------------------------------------------------------------
(* Properties.                                                             *)

\* What CRC16_Generate returns: the two bytes of the register, in one.
Whole(crc) == crc.low \cup {i + 8 : i \in crc.high}

\* The tables and the two bytes of register compute the CCITT remainder
\* (CRC16_Update4Bits, CRC16_LookupHigh, CRC16_LookupLow).
IsTheRemainder == Whole(sent) = remainder

\* A change of one byte of a packet or of two neighbours is noticed, whatever
\* follows (CRC16_Generate, compared in HandlePacketRev0 and HandlePacketRev1).
ChangeIsNoticed == changed # "no" => Whole(sent) # Whole(received)

=============================================================================
