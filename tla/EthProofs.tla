------------------------------ MODULE EthProofs -----------------------------
(***************************************************************************)
(* Proofs about the CRC of crc.asm and the Ethernet transmitter that uses  *)
(* it, for messages of every length, every size of the buffer and every    *)
(* sequence of frames.                                                     *)
(***************************************************************************)
EXTENDS Eth, WellFoundedInduction, SequenceTheorems, TLAPS

(***************************************************************************)
(* The CRC: the byte-wise loop over the table computes what the bit-wise   *)
(* definition of IEEE 802.3 does.                                          *)
(*                                                                         *)
(* Eight steps of the definition are eight shifts of the register with the *)
(* byte added to it (BitsAreShifts).  A shift is linear (ShiftXor), and    *)
(* eight shifts of a register without its low byte only move it            *)
(* (HighPartShifts); so eight shifts are the table's entry of the low byte *)
(* and the rest moved by eight (StepIsShifts).  The two loops then agree   *)
(* after each byte, by induction over the message.                         *)
(***************************************************************************)

\* Induction over the natural numbers, with the property as a set: the least
\* number outside of the set would be the successor of one inside.
LEMMA SetInduction ==
    ASSUME NEW T, 0 \in T, \A n \in Nat : n \in T => n + 1 \in T
    PROVE  Nat \subseteq T
<1> DEFINE rest == Nat \ T
<1>1. SUFFICES ASSUME rest # {} PROVE FALSE
  OBVIOUS
<1>2. PICK x \in rest : \A y \in rest : ~(<<y, x>> \in OpToRel(<, Nat))
  <2>1. rest \subseteq Nat
    OBVIOUS
  <2> HIDE DEF rest
  <2> QED
    BY <1>1, <2>1, WFMin, NatLessThanWellFounded
<1>3. x - 1 \in rest /\ x \in Nat
  OBVIOUS
<1>4. <<x - 1, x>> \in OpToRel(<, Nat)
  BY <1>3 DEF OpToRel
<1> QED
  BY <1>2, <1>3, <1>4

-----------------------------------------------------------------------------
\* Registers and bytes are sets of natural numbers.
Word32 == SUBSET Bits(32)

\* The bits of a register that is moved by n.
LEMMA ShiftRightBits ==
    ASSUME NEW a \in SUBSET Nat, NEW n \in Nat
    PROVE  /\ ShiftRight(a, n) \in SUBSET Nat
           /\ \A k \in Nat : k \in ShiftRight(a, n) <=> k + n \in a
<1>1. ShiftRight(a, n) \in SUBSET Nat
  BY DEF ShiftRight
<1>2. ASSUME NEW k \in Nat PROVE k \in ShiftRight(a, n) <=> k + n \in a
  <2>1. k \in ShiftRight(a, n) => k + n \in a
    BY DEF ShiftRight
  <2>2. ASSUME k + n \in a PROVE k \in ShiftRight(a, n)
    <3>1. k + n >= n /\ (k + n) - n = k
      OBVIOUS
    <3> QED
      BY <2>2, <3>1 DEF ShiftRight
  <2> QED
    BY <2>1, <2>2
<1> QED
  BY <1>1, <1>2

\* Exclusive or of bit sets, bit by bit.
LEMMA XorBits ==
    ASSUME NEW a, NEW b
    PROVE  /\ \A k : k \in Xor(a, b) <=> ~(k \in a <=> k \in b)
           /\ Xor(a, b) \subseteq a \cup b
BY DEF Xor

\* Sets of natural numbers with the same members are the same.
LEMMA SameBits ==
    ASSUME NEW a \in SUBSET Nat, NEW b \in SUBSET Nat, \A k \in Nat : k \in a <=> k \in b
    PROVE  a = b
OBVIOUS

\* Moving distributes over exclusive or.
LEMMA ShiftRightXor ==
    ASSUME NEW a \in SUBSET Nat, NEW b \in SUBSET Nat, NEW n \in Nat
    PROVE  ShiftRight(Xor(a, b), n) = Xor(ShiftRight(a, n), ShiftRight(b, n))
<1>1. Xor(a, b) \in SUBSET Nat
  BY XorBits
<1>2. /\ ShiftRight(Xor(a, b), n) \in SUBSET Nat /\ ShiftRight(a, n) \in SUBSET Nat
      /\ ShiftRight(b, n) \in SUBSET Nat
  BY <1>1, ShiftRightBits
<1>3. Xor(ShiftRight(a, n), ShiftRight(b, n)) \in SUBSET Nat
  BY <1>2, XorBits
<1>4. ASSUME NEW k \in Nat
      PROVE  k \in ShiftRight(Xor(a, b), n) <=> k \in Xor(ShiftRight(a, n), ShiftRight(b, n))
  <2>1. k \in ShiftRight(Xor(a, b), n) <=> ~(k + n \in a <=> k + n \in b)
    BY <1>1, ShiftRightBits, XorBits
  <2>2. /\ k \in ShiftRight(a, n) <=> k + n \in a
        /\ k \in ShiftRight(b, n) <=> k + n \in b
    BY ShiftRightBits
  <2> QED
    BY <2>1, <2>2, XorBits
<1> QED
  BY <1>2, <1>3, <1>4, SameBits

\* Moving twice.
LEMMA ShiftRightTwice ==
    ASSUME NEW a \in SUBSET Nat, NEW n \in Nat, NEW m \in Nat
    PROVE  ShiftRight(ShiftRight(a, n), m) = ShiftRight(a, n + m)
<1>1. ShiftRight(a, n) \in SUBSET Nat /\ ShiftRight(a, n + m) \in SUBSET Nat
  BY ShiftRightBits
<1>2. ShiftRight(ShiftRight(a, n), m) \in SUBSET Nat
  BY <1>1, ShiftRightBits
<1>3. ASSUME NEW k \in Nat
      PROVE  k \in ShiftRight(ShiftRight(a, n), m) <=> k \in ShiftRight(a, n + m)
  <2>1. k \in ShiftRight(ShiftRight(a, n), m) <=> k + m \in ShiftRight(a, n)
    BY <1>1, ShiftRightBits
  <2>2. k + m \in ShiftRight(a, n) <=> (k + m) + n \in a
    <3>1. k + m \in Nat
      OBVIOUS
    <3> QED
      BY <3>1, ShiftRightBits
  <2>3. k \in ShiftRight(a, n + m) <=> k + (n + m) \in a
    BY ShiftRightBits
  <2>4. (k + m) + n = k + (n + m)
    OBVIOUS
  <2> QED
    BY <2>1, <2>2, <2>3, <2>4
<1> QED
  BY <1>1, <1>2, <1>3, SameBits

\* Exclusive or is associative and commutative, and undoes itself.
LEMMA XorAlgebra ==
    ASSUME NEW a, NEW b, NEW c
    PROVE  /\ Xor(Xor(a, b), c) = Xor(a, Xor(b, c))
           /\ Xor(a, b) = Xor(b, a)
           /\ Xor(a, a) = {} /\ Xor(a, {}) = a /\ Xor({}, a) = a
BY DEF Xor

-----------------------------------------------------------------------------
\* The polynomial is in the register's width.
LEMMA PolynomialBits == Polynomial \in Word32 /\ Polynomial \in SUBSET Nat
BY DEF Polynomial, Word32, Bits

\* A shift of the register keeps sets of bits, and the width of the register.
LEMMA ShiftType ==
    /\ \A c \in SUBSET Nat : Shift(c) \in SUBSET Nat
    /\ \A c \in Word32 : Shift(c) \in Word32
<1>1. ASSUME NEW c \in SUBSET Nat PROVE Shift(c) \in SUBSET Nat
  <2>1. ShiftRight(c, 1) \in SUBSET Nat
    BY ShiftRightBits
  <2> QED
    BY <2>1, PolynomialBits, XorBits, ZenonT(40) DEF Shift
<1>2. ASSUME NEW c \in Word32 PROVE Shift(c) \in Word32
  <2>1. ShiftRight(c, 1) \in Word32
    BY DEF ShiftRight, Word32, Bits
  <2>2. Xor(ShiftRight(c, 1), Polynomial) \subseteq ShiftRight(c, 1) \cup Polynomial
    BY XorBits
  <2>3. Xor(ShiftRight(c, 1), Polynomial) \in Word32
    BY <2>1, <2>2, PolynomialBits DEF Word32
  <2> QED
    BY <2>1, <2>3 DEF Shift
<1> QED
  BY <1>1, <1>2

\* A shift is linear.
LEMMA ShiftXor ==
    ASSUME NEW a \in SUBSET Nat, NEW b \in SUBSET Nat
    PROVE  Shift(Xor(a, b)) = Xor(Shift(a), Shift(b))
<1> DEFINE A == ShiftRight(a, 1)
           B == ShiftRight(b, 1)
           P == Polynomial
<1>1. ShiftRight(Xor(a, b), 1) = Xor(A, B)
  BY ShiftRightXor
<1>2. 0 \in Xor(a, b) <=> ~(0 \in a <=> 0 \in b)
  BY XorBits
<1>3. /\ Xor(Xor(A, P), Xor(B, P)) = Xor(A, B)
      /\ Xor(Xor(A, P), B) = Xor(Xor(A, B), P)
      /\ Xor(A, Xor(B, P)) = Xor(Xor(A, B), P)
  <2> HIDE DEF A, B, P
  <2> QED
    BY DEF Xor
<1>4. CASE 0 \in a /\ 0 \in b
  BY <1>1, <1>2, <1>3, <1>4 DEF Shift
<1>5. CASE 0 \in a /\ 0 \notin b
  BY <1>1, <1>2, <1>3, <1>5 DEF Shift
<1>6. CASE 0 \notin a /\ 0 \in b
  BY <1>1, <1>2, <1>3, <1>6 DEF Shift
<1>7. CASE 0 \notin a /\ 0 \notin b
  BY <1>1, <1>2, <1>3, <1>7 DEF Shift
<1> QED
  BY <1>4, <1>5, <1>6, <1>7

\* Eight shifts are linear, too.
LEMMA EightShiftsXor ==
    ASSUME NEW a \in SUBSET Nat, NEW b \in SUBSET Nat
    PROVE  EightShifts(Xor(a, b)) = Xor(EightShifts(a), EightShifts(b))
<1> DEFINE a1 == Shift(a)
           a2 == Shift(a1)
           a3 == Shift(a2)
           a4 == Shift(a3)
           a5 == Shift(a4)
           a6 == Shift(a5)
           a7 == Shift(a6)
           b1 == Shift(b)
           b2 == Shift(b1)
           b3 == Shift(b2)
           b4 == Shift(b3)
           b5 == Shift(b4)
           b6 == Shift(b5)
           b7 == Shift(b6)
<1>1. /\ a1 \in SUBSET Nat /\ a2 \in SUBSET Nat /\ a3 \in SUBSET Nat /\ a4 \in SUBSET Nat
      /\ a5 \in SUBSET Nat /\ a6 \in SUBSET Nat /\ a7 \in SUBSET Nat
  BY ShiftType
<1>2. /\ b1 \in SUBSET Nat /\ b2 \in SUBSET Nat /\ b3 \in SUBSET Nat /\ b4 \in SUBSET Nat
      /\ b5 \in SUBSET Nat /\ b6 \in SUBSET Nat /\ b7 \in SUBSET Nat
  BY ShiftType
<1>3. /\ Shift(Xor(a, b)) = Xor(a1, b1)
      /\ Shift(Xor(a1, b1)) = Xor(a2, b2)
      /\ Shift(Xor(a2, b2)) = Xor(a3, b3)
      /\ Shift(Xor(a3, b3)) = Xor(a4, b4)
      /\ Shift(Xor(a4, b4)) = Xor(a5, b5)
      /\ Shift(Xor(a5, b5)) = Xor(a6, b6)
      /\ Shift(Xor(a6, b6)) = Xor(a7, b7)
      /\ Shift(Xor(a7, b7)) = Xor(Shift(a7), Shift(b7))
  BY <1>1, <1>2, ShiftXor
<1>4. EightShifts(a) = Shift(a7) /\ EightShifts(b) = Shift(b7)
  BY DEF EightShifts
<1> QED
  BY <1>3, <1>4 DEF EightShifts

\* A register without its low n bits is only moved by a shift.
LEMMA HighPartShift ==
    ASSUME NEW c \in SUBSET Nat, NEW n \in Nat, \A i \in c : i >= n + 1
    PROVE  Shift(ShiftRight(c, n)) = ShiftRight(c, n + 1)
<1>1. 0 \notin ShiftRight(c, n)
  <2>1. ~(0 + n \in c)
    OBVIOUS
  <2> QED
    BY <2>1, ShiftRightBits
<1>2. Shift(ShiftRight(c, n)) = ShiftRight(ShiftRight(c, n), 1)
  BY <1>1 DEF Shift
<1> QED
  BY <1>2, ShiftRightTwice

\* Eight shifts of a register without its low byte.
LEMMA HighPartShifts ==
    ASSUME NEW c \in SUBSET Nat, \A i \in c : i >= 8
    PROVE  EightShifts(c) = ShiftRight(c, 8)
<1>1. ShiftRight(c, 0) = c
  <2>1. ShiftRight(c, 0) \in SUBSET Nat /\ \A k \in Nat : k \in ShiftRight(c, 0) <=> k + 0 \in c
    BY ShiftRightBits
  <2>2. \A k \in Nat : k + 0 = k
    OBVIOUS
  <2> QED
    BY <2>1, <2>2, SameBits
<1>2. /\ Shift(c) = ShiftRight(c, 1)
      /\ Shift(ShiftRight(c, 1)) = ShiftRight(c, 2)
      /\ Shift(ShiftRight(c, 2)) = ShiftRight(c, 3)
      /\ Shift(ShiftRight(c, 3)) = ShiftRight(c, 4)
      /\ Shift(ShiftRight(c, 4)) = ShiftRight(c, 5)
      /\ Shift(ShiftRight(c, 5)) = ShiftRight(c, 6)
      /\ Shift(ShiftRight(c, 6)) = ShiftRight(c, 7)
      /\ Shift(ShiftRight(c, 7)) = ShiftRight(c, 8)
  <2>1. ASSUME NEW n \in 0 .. 7 PROVE Shift(ShiftRight(c, n)) = ShiftRight(c, n + 1)
    <3>1. n \in Nat /\ \A i \in c : i >= n + 1
      OBVIOUS
    <3> QED
      BY <3>1, HighPartShift
  <2>2. /\ Shift(ShiftRight(c, 0)) = ShiftRight(c, 0 + 1)
        /\ Shift(ShiftRight(c, 1)) = ShiftRight(c, 1 + 1)
        /\ Shift(ShiftRight(c, 2)) = ShiftRight(c, 2 + 1)
        /\ Shift(ShiftRight(c, 3)) = ShiftRight(c, 3 + 1)
        /\ Shift(ShiftRight(c, 4)) = ShiftRight(c, 4 + 1)
        /\ Shift(ShiftRight(c, 5)) = ShiftRight(c, 5 + 1)
        /\ Shift(ShiftRight(c, 6)) = ShiftRight(c, 6 + 1)
        /\ Shift(ShiftRight(c, 7)) = ShiftRight(c, 7 + 1)
    BY <2>1
  <2> QED
    BY <1>1, <2>2
<1> QED
  BY <1>2 DEF EightShifts

-----------------------------------------------------------------------------
\* The turn of the loops of crc.asm, for every register: the table's entry and
\* the rest moved are eight shifts of the register with the byte added.
LEMMA StepIsShifts ==
    ASSUME NEW c \in Word32, NEW byte \in Byte
    PROVE  Step(c, byte) = EightShifts(Xor(c, byte))
<1> DEFINE low == Xor(Octet(c, 0), byte)
           high == {i \in c : i >= 8}
<1>1. c \in SUBSET Nat /\ byte \in SUBSET Nat /\ byte \in SUBSET Bits(8)
  BY DEF Word32, Byte, Bits
<1>2. high \in SUBSET Nat /\ \A i \in high : i >= 8
  BY <1>1
<1>3. Octet(c, 0) = {i \in c : i < 8}
  <2>1. \A k \in Nat : k \in ShiftRight(c, 0) <=> k + 0 \in c
    BY <1>1, ShiftRightBits
  <2>2. ShiftRight(c, 0) \in SUBSET Nat
    BY <1>1, ShiftRightBits
  <2>3. \A k \in Nat : k \in ShiftRight(c, 0) <=> k \in c
    BY <2>1
  <2>4. Octet(c, 0) \in SUBSET Nat /\ {i \in c : i < 8} \in SUBSET Nat
    BY <1>1, <2>2 DEF Octet
  <2>5. \A k \in Nat : k \in Octet(c, 0) <=> k \in {i \in c : i < 8}
    BY <2>3 DEF Octet, Bits
  <2> QED
    BY <2>4, <2>5, SameBits
<1>4. low \in Byte /\ low \in SUBSET Nat
  <2>1. Octet(c, 0) \in SUBSET Bits(8)
    BY DEF Octet
  <2>2. low \in SUBSET Bits(8)
    <3>1. low \subseteq Octet(c, 0) \cup byte
      BY XorBits
    <3> HIDE DEF low
    <3> QED
      BY <1>1, <2>1, <3>1
  <2> HIDE DEF low
  <2> QED
    BY <2>2 DEF Byte, Bits
<1>5. Xor(c, byte) = Xor(low, high)
  <2>1. Xor(Octet(c, 0), high) = c
    <3>1. \A k \in Nat : k \in Octet(c, 0) <=> k \in c /\ k < 8
      BY <1>3
    <3>2. \A k \in Nat : k \in high <=> k \in c /\ ~(k < 8)
      BY <1>1
    <3>3. Octet(c, 0) \in SUBSET Nat
      BY <1>1, <1>3
    <3> HIDE DEF high
    <3>4. Xor(Octet(c, 0), high) \in SUBSET Nat
      <4>1. Xor(Octet(c, 0), high) \subseteq Octet(c, 0) \cup high
        BY XorBits
      <4> QED
        BY <1>2, <3>3, <4>1
    <3>5. \A k \in Nat : k \in Xor(Octet(c, 0), high) <=> k \in c
      BY <3>1, <3>2, XorBits
    <3> QED
      BY <1>1, <3>4, <3>5, SameBits
  <2>2. Xor(Xor(Octet(c, 0), byte), high) = Xor(Xor(Octet(c, 0), high), byte)
    BY DEF Xor
  <2> QED
    BY <2>1, <2>2
<1>6. EightShifts(Xor(low, high)) = Xor(EightShifts(low), EightShifts(high))
  <2> HIDE DEF low, high
  <2> QED
    BY <1>2, <1>4, EightShiftsXor
<1>7. EightShifts(high) = ShiftRight(high, 8)
  <2> HIDE DEF high
  <2> QED
    BY <1>2, HighPartShifts
<1>8. ShiftRight(high, 8) = ShiftRight(c, 8)
  BY <1>1 DEF ShiftRight
<1>9. Table[low] = EightShifts(low)
  <2> HIDE DEF low
  <2> QED
    BY <1>4, TablesAssumption
<1>10. Step(c, byte) = Xor(ShiftRight(c, 8), Table[low])
  BY DEF Step
<1>11. Xor(EightShifts(low), ShiftRight(c, 8)) = Xor(ShiftRight(c, 8), EightShifts(low))
  BY XorAlgebra
<1> QED
  BY <1>5, <1>6, <1>7, <1>8, <1>9, <1>10, <1>11

\* A step of the definition with the message bit 0 of m, and a shift of the
\* register with m added, differ by the rest of m.
LEMMA BitIsShift ==
    ASSUME NEW c \in SUBSET Nat, NEW m \in SUBSET Nat
    PROVE  Shift(Xor(c, m)) = Xor(ReferenceBit(c, 0 \in m), ShiftRight(m, 1))
<1> DEFINE C == ShiftRight(c, 1)
           M == ShiftRight(m, 1)
           P == Polynomial
<1>1. ShiftRight(Xor(c, m), 1) = Xor(C, M)
  BY ShiftRightXor
<1>2. 0 \in Xor(c, m) <=> ~(0 \in c <=> 0 \in m)
  BY XorBits
<1>3. Xor(Xor(C, P), M) = Xor(Xor(C, M), P)
  <2> HIDE DEF C, M, P
  <2> QED
    BY DEF Xor
<1>4. CASE (0 \in c) # (0 \in m)
  BY <1>1, <1>2, <1>3, <1>4 DEF Shift, ReferenceBit
<1>5. CASE (0 \in c) = (0 \in m)
  BY <1>1, <1>2, <1>3, <1>5 DEF Shift, ReferenceBit
<1> QED
  BY <1>4, <1>5

\* The definition's register after the eight bits of a byte.
EightBits(c, byte) ==
    ReferenceBit(ReferenceBit(ReferenceBit(ReferenceBit(ReferenceBit(ReferenceBit(
        ReferenceBit(ReferenceBit(c, 0 \in byte), 1 \in byte), 2 \in byte), 3 \in byte),
            4 \in byte), 5 \in byte), 6 \in byte), 7 \in byte)

\* A step of the definition keeps the register a register.
LEMMA ReferenceBitType ==
    ASSUME NEW c \in Word32, NEW bit
    PROVE  ReferenceBit(c, bit) \in Word32
<1>1. ShiftRight(c, 1) \in Word32
  BY DEF ShiftRight, Word32, Bits
<1>2. Xor(ShiftRight(c, 1), Polynomial) \subseteq ShiftRight(c, 1) \cup Polynomial
  BY XorBits
<1>3. Xor(ShiftRight(c, 1), Polynomial) \in Word32
  BY <1>1, <1>2, PolynomialBits DEF Word32
<1> QED
  BY <1>1, <1>3 DEF ReferenceBit

\* Eight bits of the definition are eight shifts of the register with the byte added.
LEMMA BitsAreShifts ==
    ASSUME NEW c \in Word32, NEW byte \in Byte
    PROVE  EightBits(c, byte) = EightShifts(Xor(c, byte)) /\ EightBits(c, byte) \in Word32
<1> DEFINE m(n) == ShiftRight(byte, n)
           c1 == ReferenceBit(c, 0 \in byte)
           c2 == ReferenceBit(c1, 1 \in byte)
           c3 == ReferenceBit(c2, 2 \in byte)
           c4 == ReferenceBit(c3, 3 \in byte)
           c5 == ReferenceBit(c4, 4 \in byte)
           c6 == ReferenceBit(c5, 5 \in byte)
           c7 == ReferenceBit(c6, 6 \in byte)
           c8 == ReferenceBit(c7, 7 \in byte)
<1>1. /\ c1 \in Word32 /\ c2 \in Word32 /\ c3 \in Word32 /\ c4 \in Word32
      /\ c5 \in Word32 /\ c6 \in Word32 /\ c7 \in Word32 /\ c8 \in Word32
  BY ReferenceBitType
<1>2. byte \in SUBSET Nat
  BY DEF Byte, Bits
<1>3. \A r \in Word32 : r \in SUBSET Nat
  BY DEF Word32, Bits
<1>4. ASSUME NEW n \in Nat
      PROVE  /\ m(n) \in SUBSET Nat /\ (0 \in m(n)) = (n \in byte)
             /\ ShiftRight(m(n), 1) = m(n + 1)
  <2>1. 0 \in ShiftRight(byte, n) <=> 0 + n \in byte
    BY <1>2, ShiftRightBits
  <2>2. 0 + n = n
    OBVIOUS
  <2>3. m(n) \in SUBSET Nat
    BY <1>2, ShiftRightBits
  <2>4. ShiftRight(m(n), 1) = m(n + 1)
    BY <1>2, ShiftRightTwice
  <2>5. (0 \in m(n)) = (n \in byte)
    BY <2>1, <2>2
  <2> QED
    BY <2>3, <2>4, <2>5
<1>5. ASSUME NEW r \in Word32, NEW n \in Nat
      PROVE  Shift(Xor(r, m(n))) = Xor(ReferenceBit(r, n \in byte), m(n + 1))
  <2>1. Shift(Xor(r, m(n))) = Xor(ReferenceBit(r, 0 \in m(n)), ShiftRight(m(n), 1))
    BY <1>3, <1>4, BitIsShift
  <2> QED
    BY <1>4, <2>1
<1>6. m(0) = byte /\ m(8) = {}
  <2>1. \A k \in Nat : (k \in m(0) <=> k + 0 \in byte) /\ (k \in m(8) <=> k + 8 \in byte)
    BY <1>2, ShiftRightBits
  <2>2. \A k \in Nat : (k \in m(0) <=> k \in byte) /\ k \notin m(8)
    BY <2>1 DEF Byte, Bits
  <2>3. m(0) \in SUBSET Nat /\ m(8) \in SUBSET Nat
    BY <1>4
  <2> HIDE DEF m
  <2>4. m(0) = byte
    BY <1>2, <2>2, <2>3, SameBits
  <2>5. m(8) = {}
    BY <2>2, <2>3
  <2> QED
    BY <2>4, <2>5
<1> HIDE DEF m
<1>7. /\ Shift(Xor(c, m(0))) = Xor(c1, m(1))
      /\ Shift(Xor(c1, m(1))) = Xor(c2, m(2))
      /\ Shift(Xor(c2, m(2))) = Xor(c3, m(3))
      /\ Shift(Xor(c3, m(3))) = Xor(c4, m(4))
  <2> HIDE DEF c1, c2, c3, c4
  <2>1. /\ Shift(Xor(c, m(0))) = Xor(ReferenceBit(c, 0 \in byte), m(0 + 1))
        /\ Shift(Xor(c1, m(1))) = Xor(ReferenceBit(c1, 1 \in byte), m(1 + 1))
        /\ Shift(Xor(c2, m(2))) = Xor(ReferenceBit(c2, 2 \in byte), m(2 + 1))
        /\ Shift(Xor(c3, m(3))) = Xor(ReferenceBit(c3, 3 \in byte), m(3 + 1))
    BY <1>1, <1>5
  <2> QED
    BY <2>1 DEF c1, c2, c3, c4
<1>8. /\ Shift(Xor(c4, m(4))) = Xor(c5, m(5))
      /\ Shift(Xor(c5, m(5))) = Xor(c6, m(6))
      /\ Shift(Xor(c6, m(6))) = Xor(c7, m(7))
      /\ Shift(Xor(c7, m(7))) = Xor(c8, m(8))
  <2> HIDE DEF c4, c5, c6, c7, c8
  <2>1. /\ Shift(Xor(c4, m(4))) = Xor(ReferenceBit(c4, 4 \in byte), m(4 + 1))
        /\ Shift(Xor(c5, m(5))) = Xor(ReferenceBit(c5, 5 \in byte), m(5 + 1))
        /\ Shift(Xor(c6, m(6))) = Xor(ReferenceBit(c6, 6 \in byte), m(6 + 1))
        /\ Shift(Xor(c7, m(7))) = Xor(ReferenceBit(c7, 7 \in byte), m(7 + 1))
    BY <1>1, <1>5
  <2> QED
    BY <2>1 DEF c5, c6, c7, c8
<1>9. EightShifts(Xor(c, byte)) = Xor(c8, {})
  <2> HIDE DEF c1, c2, c3, c4, c5, c6, c7, c8
  <2> QED
    BY <1>6, <1>7, <1>8 DEF EightShifts
<1>10. Xor(c8, {}) = c8 /\ EightBits(c, byte) = c8
  BY XorAlgebra DEF EightBits
<1> QED
  BY <1>1, <1>9, <1>10

-----------------------------------------------------------------------------
\* Induction up to a bound.
LEMMA BoundedInduction ==
    ASSUME NEW N \in Nat, NEW T, 0 \in T, \A n \in 0 .. N - 1 : n \in T => n + 1 \in T
    PROVE  0 .. N \subseteq T
<1> DEFINE U == {n \in Nat : n <= N => n \in T}
<1>1. 0 \in U
  OBVIOUS
<1>2. \A n \in Nat : n \in U => n + 1 \in U
  OBVIOUS
<1>3. Nat \subseteq U
  <2> HIDE DEF U
  <2> QED
    BY <1>1, <1>2, SetInduction
<1> QED
  BY <1>3

\* The values in D of a loop over n = 1 .. N that starts with a and computes
\* F[n] of the value before.
Values(N, D, a, F) ==
    {g \in [0 .. N -> D] : g[0] = a /\ \A n \in 1 .. N : g[n] = F[n][g[n - 1]]}

\* Such a loop has values.
LEMMA LoopExists ==
    ASSUME NEW N \in Nat, NEW D, NEW a \in D, NEW F \in [1 .. N -> [D -> D]]
    PROVE  Values(N, D, a, F) # {}
<1> DEFINE Loop(g, m) == g[0] = a /\ \A n \in 1 .. m : g[n] = F[n][g[n - 1]]
           T == {m \in 0 .. N : \E g \in [0 .. m -> D] : Loop(g, m)}
<1>1. 0 \in T
  <2> DEFINE g == [n \in 0 .. 0 |-> a]
  <2>1. g \in [0 .. 0 -> D] /\ Loop(g, 0)
    OBVIOUS
  <2> HIDE DEF g, Loop
  <2> QED
    BY <2>1
<1>2. ASSUME NEW m \in 0 .. N - 1, m \in T PROVE m + 1 \in T
  <2>1. PICK g \in [0 .. m -> D] : Loop(g, m)
    BY <1>2
  <2> DEFINE h == [n \in 0 .. m + 1 |-> IF n = m + 1 THEN F[m + 1][g[m]] ELSE g[n]]
  <2>2. F[m + 1][g[m]] \in D
    BY <2>1
  <2>3. h \in [0 .. m + 1 -> D] /\ h[0] = a
    BY <2>1, <2>2
  <2>4. ASSUME NEW n \in 1 .. m + 1 PROVE h[n] = F[n][h[n - 1]]
    <3>1. CASE n = m + 1
      <4>1. h[n] = F[n][g[m]] /\ n - 1 = m
        BY <3>1
      <4>2. h[m] = g[m]
        OBVIOUS
      <4> HIDE DEF h
      <4> QED
        BY <4>1, <4>2
    <3>2. CASE n # m + 1
      <4>1. h[n] = g[n] /\ n \in 1 .. m
        BY <3>2
      <4>2. h[n - 1] = g[n - 1]
        BY <3>2
      <4>3. g[n] = F[n][g[n - 1]]
        BY <2>1, <4>1
      <4> HIDE DEF h
      <4> QED
        BY <4>1, <4>2, <4>3
    <3> QED
      BY <3>1, <3>2
  <2>5. Loop(h, m + 1)
    BY <2>3, <2>4
  <2>6. \E k \in [0 .. m + 1 -> D] : Loop(k, m + 1)
    <3> HIDE DEF h, Loop
    <3> QED
      BY <2>3, <2>5
  <2> QED
    BY <2>6
<1>3. N \in T
  <2> HIDE DEF T
  <2>1. 0 .. N \subseteq T
    BY <1>1, <1>2, BoundedInduction
  <2> QED
    BY <2>1
<1> QED
  BY <1>3 DEF Values

\* A turn of the loop keeps the register a register.
LEMMA StepType ==
    ASSUME NEW c \in Word32, NEW byte \in Byte
    PROVE  Step(c, byte) \in Word32
<1>1. Xor(c, byte) \in Word32
  <2>1. Xor(c, byte) \subseteq c \cup byte
    BY XorBits
  <2>2. byte \in Word32
    BY DEF Byte, Word32, Bits
  <2> QED
    BY <2>1, <2>2 DEF Word32
<1>2. EightShifts(Xor(c, byte)) \in Word32
  BY <1>1, ShiftType DEF EightShifts
<1> QED
  BY <1>2, StepIsShifts

\* The loop of crc_update, from its first register on, turn by turn.
LEMMA RegistersLoop ==
    ASSUME NEW c \in Word32, NEW s \in Seq(Byte)
    PROVE  /\ Registers(c, s)[0] = c
           /\ \A n \in 1 .. Len(s) : Registers(c, s)[n] = Step(Registers(c, s)[n - 1], s[n])
           /\ \A n \in 0 .. Len(s) : Registers(c, s)[n] \in Word32
<1> DEFINE N == Len(s)
           F == [n \in 1 .. N |-> [r \in Word32 |-> Step(r, s[n])]]
           Unrolled(g) == [n \in 0 .. N |-> IF n = 0 THEN c ELSE Step(g[n - 1], s[n])]
           reg == Registers(c, s)
<1>1. N \in Nat /\ \A n \in 1 .. N : s[n] \in Byte
  OBVIOUS
<1>2. F \in [1 .. N -> [Word32 -> Word32]]
  BY <1>1, StepType
<1>3. PICK g \in [0 .. N -> Word32] : g[0] = c /\ \A n \in 1 .. N : g[n] = F[n][g[n - 1]]
  <2>1. Values(N, Word32, c, F) # {}
    <3> HIDE DEF N, F
    <3> QED
      BY <1>1, <1>2, LoopExists
  <2> QED
    BY <2>1 DEF Values
<1>4. g = Unrolled(g)
  <2>1. ASSUME NEW n \in 0 .. N
        PROVE  g[n] = IF n = 0 THEN c ELSE Step(g[n - 1], s[n])
    <3>1. CASE n = 0
      BY <1>3, <3>1
    <3>2. CASE n # 0
      <4>1. n \in 1 .. N /\ n - 1 \in 0 .. N
        BY <1>1, <3>2
      <4>2. g[n] = F[n][g[n - 1]] /\ g[n - 1] \in Word32
        BY <1>3, <4>1
      <4>3. F[n][g[n - 1]] = Step(g[n - 1], s[n])
        BY <4>1, <4>2
      <4> QED
        BY <3>2, <4>2, <4>3
    <3> QED
      BY <3>1, <3>2
  <2> QED
    BY <1>3, <2>1
<1>5. reg = Unrolled(reg)
  <2>1. reg = CHOOSE h : h = Unrolled(h)
    BY DEF Registers
  <2>2. \E h : h = Unrolled(h)
    BY <1>4
  <2> HIDE DEF Unrolled, reg
  <2> QED
    BY <2>1, <2>2
<1> HIDE DEF reg
<1>6. reg[0] = c /\ \A n \in 1 .. N : reg[n] = Step(reg[n - 1], s[n])
  <2>1. reg[0] = c
    BY <1>1, <1>5
  <2>2. ASSUME NEW n \in 1 .. N PROVE reg[n] = Step(reg[n - 1], s[n])
    BY <1>1, <1>5
  <2> QED
    BY <2>1, <2>2
<1>7. \A n \in 0 .. N : reg[n] \in Word32
  <2> DEFINE T == {n \in 0 .. N : reg[n] \in Word32}
  <2>1. 0 \in T
    BY <1>1, <1>6
  <2>2. ASSUME NEW n \in 0 .. N - 1, n \in T PROVE n + 1 \in T
    <3>1. n + 1 \in 1 .. N /\ (n + 1) - 1 = n
      BY <1>1
    <3>2. reg[n + 1] = Step(reg[n], s[n + 1])
      BY <1>6, <3>1
    <3>3. Step(reg[n], s[n + 1]) \in Word32
      BY <1>1, <2>2, <3>1, StepType
    <3> QED
      BY <1>1, <3>1, <3>2, <3>3
  <2>3. 0 .. N \subseteq T
    <3> HIDE DEF T, N
    <3> QED
      BY <1>1, <2>1, <2>2, BoundedInduction
  <2> QED
    BY <2>3
<1> QED
  BY <1>6, <1>7 DEF reg

\* The loop of the definition, bit by bit.
LEMMA ReferenceLoop ==
    ASSUME NEW s \in Seq(Byte)
    PROVE  /\ ReferenceRegisters(s)[0] = Ones
           /\ \A n \in 1 .. 8 * Len(s) :
                ReferenceRegisters(s)[n] =
                    ReferenceBit(ReferenceRegisters(s)[n - 1],
                                 (n - 1) % 8 \in s[(n - 1) \div 8 + 1])
<1> DEFINE N == 8 * Len(s)
           bit(n) == (n - 1) % 8 \in s[(n - 1) \div 8 + 1]
           F == [n \in 1 .. N |-> [r \in Word32 |-> ReferenceBit(r, bit(n))]]
           Unrolled(g) == [n \in 0 .. N |-> IF n = 0 THEN Ones ELSE ReferenceBit(g[n - 1], bit(n))]
           reg == ReferenceRegisters(s)
<1>1. N \in Nat /\ Ones \in Word32
  BY DEF Ones, Word32
<1>2. reg = CHOOSE h : h = Unrolled(h)
  BY DEF ReferenceRegisters
<1> HIDE DEF N, bit, reg
<1>3. F \in [1 .. N -> [Word32 -> Word32]]
  BY ReferenceBitType
<1>4. PICK g \in [0 .. N -> Word32] : g[0] = Ones /\ \A n \in 1 .. N : g[n] = F[n][g[n - 1]]
  <2>1. Values(N, Word32, Ones, F) # {}
    <3> HIDE DEF F
    <3> QED
      BY <1>1, <1>3, LoopExists
  <2> QED
    BY <2>1 DEF Values
<1>5. g = Unrolled(g)
  <2>1. ASSUME NEW n \in 0 .. N
        PROVE  g[n] = IF n = 0 THEN Ones ELSE ReferenceBit(g[n - 1], bit(n))
    <3>1. CASE n = 0
      BY <1>4, <3>1
    <3>2. CASE n # 0
      <4>1. n \in 1 .. N /\ n - 1 \in 0 .. N
        BY <1>1, <3>2
      <4>2. g[n] = F[n][g[n - 1]] /\ g[n - 1] \in Word32
        BY <1>4, <4>1
      <4>3. F[n][g[n - 1]] = ReferenceBit(g[n - 1], bit(n))
        BY <4>1, <4>2
      <4> QED
        BY <3>2, <4>2, <4>3
    <3> QED
      BY <3>1, <3>2
  <2> QED
    BY <1>4, <2>1
<1>6. reg = Unrolled(reg)
  <2>1. \E h : h = Unrolled(h)
    BY <1>5
  <2> HIDE DEF Unrolled
  <2> QED
    BY <1>2, <2>1
<1>7. reg[0] = Ones
  BY <1>1, <1>6
<1>8. ASSUME NEW n \in 1 .. N PROVE reg[n] = ReferenceBit(reg[n - 1], bit(n))
  BY <1>1, <1>6
<1> QED
  BY <1>7, <1>8 DEF reg, N, bit

\* After every byte the loop over the table and the definition agree.
LEMMA LoopsAgree ==
    ASSUME NEW s \in Seq(Byte), NEW k \in 0 .. Len(s)
    PROVE  ReferenceRegisters(s)[8 * k] = Registers(Ones, s)[k]
<1> DEFINE ref == ReferenceRegisters(s)
           tab == Registers(Ones, s)
           T == {n \in 0 .. Len(s) : ref[8 * n] = tab[n]}
<1>1. Len(s) \in Nat /\ Ones \in Word32
  BY DEF Ones, Word32
<1>2. /\ ref[0] = Ones
      /\ \A n \in 1 .. 8 * Len(s) :
            ref[n] = ReferenceBit(ref[n - 1], (n - 1) % 8 \in s[(n - 1) \div 8 + 1])
  BY ReferenceLoop
<1>3. /\ tab[0] = Ones
      /\ \A n \in 1 .. Len(s) : tab[n] = Step(tab[n - 1], s[n])
      /\ \A n \in 0 .. Len(s) : tab[n] \in Word32
  BY <1>1, RegistersLoop
<1> HIDE DEF ref, tab
<1>4. 0 \in T
  BY <1>1, <1>2, <1>3
<1>5. ASSUME NEW n \in 0 .. Len(s) - 1, n \in T PROVE n + 1 \in T
  <2> DEFINE byte == s[n + 1]
  <2>1. byte \in Byte /\ tab[n] \in Word32 /\ n + 1 \in 1 .. Len(s) /\ (n + 1) - 1 = n
    BY <1>1, <1>3
  <2>2. tab[n + 1] = Step(tab[n], byte)
    BY <1>3, <2>1
  <2>3. ref[8 * n] = tab[n]
    BY <1>5
  <2>4. ASSUME NEW j \in 0 .. 7
        PROVE  ref[8 * n + j + 1] = ReferenceBit(ref[8 * n + j], j \in byte)
    <3>1. 8 * n + j + 1 \in 1 .. 8 * Len(s) /\ (8 * n + j + 1) - 1 = 8 * n + j
      BY <1>1
    <3>2. (8 * n + j) % 8 = j /\ (8 * n + j) \div 8 = n
      OBVIOUS
    <3> QED
      BY <1>2, <3>1, <3>2
  <2>5. /\ ref[8 * n + 1] = ReferenceBit(ref[8 * n], 0 \in byte)
        /\ ref[8 * n + 2] = ReferenceBit(ref[8 * n + 1], 1 \in byte)
        /\ ref[8 * n + 3] = ReferenceBit(ref[8 * n + 2], 2 \in byte)
        /\ ref[8 * n + 4] = ReferenceBit(ref[8 * n + 3], 3 \in byte)
        /\ ref[8 * n + 5] = ReferenceBit(ref[8 * n + 4], 4 \in byte)
        /\ ref[8 * n + 6] = ReferenceBit(ref[8 * n + 5], 5 \in byte)
        /\ ref[8 * n + 7] = ReferenceBit(ref[8 * n + 6], 6 \in byte)
        /\ ref[8 * n + 8] = ReferenceBit(ref[8 * n + 7], 7 \in byte)
    <3> HIDE DEF byte
    <3>1. /\ 8 * n + 0 = 8 * n
          /\ 8 * n + 0 + 1 = 8 * n + 1 /\ 8 * n + 1 + 1 = 8 * n + 2
          /\ 8 * n + 2 + 1 = 8 * n + 3 /\ 8 * n + 3 + 1 = 8 * n + 4
          /\ 8 * n + 4 + 1 = 8 * n + 5 /\ 8 * n + 5 + 1 = 8 * n + 6
          /\ 8 * n + 6 + 1 = 8 * n + 7 /\ 8 * n + 7 + 1 = 8 * n + 8
      OBVIOUS
    <3>2. /\ ref[8 * n + 0 + 1] = ReferenceBit(ref[8 * n + 0], 0 \in byte)
          /\ ref[8 * n + 1 + 1] = ReferenceBit(ref[8 * n + 1], 1 \in byte)
          /\ ref[8 * n + 2 + 1] = ReferenceBit(ref[8 * n + 2], 2 \in byte)
          /\ ref[8 * n + 3 + 1] = ReferenceBit(ref[8 * n + 3], 3 \in byte)
          /\ ref[8 * n + 4 + 1] = ReferenceBit(ref[8 * n + 4], 4 \in byte)
          /\ ref[8 * n + 5 + 1] = ReferenceBit(ref[8 * n + 5], 5 \in byte)
          /\ ref[8 * n + 6 + 1] = ReferenceBit(ref[8 * n + 6], 6 \in byte)
          /\ ref[8 * n + 7 + 1] = ReferenceBit(ref[8 * n + 7], 7 \in byte)
      BY <2>4
    <3> QED
      BY <3>1, <3>2
  <2>6. ref[8 * n + 8] = EightBits(ref[8 * n], byte)
    <3> HIDE DEF byte
    <3> QED
      BY <2>5 DEF EightBits
  <2>7. EightBits(tab[n], byte) = Step(tab[n], byte)
    BY <2>1, BitsAreShifts, StepIsShifts
  <2>8. 8 * n + 8 = 8 * (n + 1) /\ n + 1 \in 0 .. Len(s)
    BY <1>1
  <2> QED
    BY <2>2, <2>3, <2>6, <2>7, <2>8
<1>6. 0 .. Len(s) \subseteq T
  <2> HIDE DEF T
  <2> QED
    BY <1>1, <1>4, <1>5, BoundedInduction
<1> QED
  BY <1>6 DEF ref, tab

\* crc.asm: crc_update over the table computes the CRC-32 of IEEE 802.3 (before
\* the final complement), for every message of every length.
THEOREM TableComputesCrc ==
    ASSUME NEW s \in Seq(Byte)
    PROVE  ReferenceCrc(s) = Ones \ crc_update(Ones, s)
<1>1. Len(s) \in 0 .. Len(s)
  OBVIOUS
<1> QED
  BY <1>1, LoopsAgree DEF ReferenceCrc, crc_update

-----------------------------------------------------------------------------
\* crc_update may be called for the parts of a message one after the other.
LEMMA UpdateInParts ==
    ASSUME NEW c \in Word32, NEW s \in Seq(Byte), NEW t \in Seq(Byte)
    PROVE  crc_update(crc_update(c, s), t) = crc_update(c, s \o t)
<1> DEFINE whole == Registers(c, s \o t)
           first == Registers(c, s)
           mid == crc_update(c, s)
           second == Registers(mid, t)
<1>1. /\ s \o t \in Seq(Byte) /\ Len(s \o t) = Len(s) + Len(t)
      /\ Len(s) \in Nat /\ Len(t) \in Nat
      /\ \A i \in 1 .. Len(s) : (s \o t)[i] = s[i]
      /\ \A i \in 1 .. Len(t) : (s \o t)[Len(s) + i] = t[i]
  OBVIOUS
<1>2. /\ first[0] = c /\ first[Len(s)] = mid
      /\ \A n \in 1 .. Len(s) : first[n] = Step(first[n - 1], s[n])
      /\ mid \in Word32
  BY <1>1, RegistersLoop DEF crc_update
<1>3. /\ whole[0] = c
      /\ \A n \in 1 .. Len(s) + Len(t) : whole[n] = Step(whole[n - 1], (s \o t)[n])
  <2> DEFINE u == s \o t
  <2>1. u \in Seq(Byte) /\ Len(u) = Len(s) + Len(t)
    BY <1>1
  <2> HIDE DEF u
  <2>2. /\ Registers(c, u)[0] = c
        /\ \A n \in 1 .. Len(u) : Registers(c, u)[n] = Step(Registers(c, u)[n - 1], u[n])
    BY <2>1, RegistersLoop
  <2> QED
    BY <2>1, <2>2 DEF u
<1>4. /\ second[0] = mid
      /\ \A n \in 1 .. Len(t) : second[n] = Step(second[n - 1], t[n])
  BY <1>2, RegistersLoop
<1> HIDE DEF whole, first, mid, second
<1>5. whole[Len(s)] = mid
  <2> DEFINE T == {n \in 0 .. Len(s) : whole[n] = first[n]}
  <2>1. 0 \in T
    BY <1>1, <1>2, <1>3
  <2>2. ASSUME NEW n \in 0 .. Len(s) - 1, n \in T PROVE n + 1 \in T
    <3>1. n + 1 \in 1 .. Len(s) /\ n + 1 \in 1 .. Len(s) + Len(t) /\ (n + 1) - 1 = n
      BY <1>1
    <3>2. whole[n + 1] = Step(whole[n], s[n + 1]) /\ first[n + 1] = Step(first[n], s[n + 1])
      BY <1>1, <1>2, <1>3, <3>1
    <3> QED
      BY <1>1, <2>2, <3>1, <3>2
  <2>3. 0 .. Len(s) \subseteq T
    <3> HIDE DEF T
    <3> QED
      BY <1>1, <2>1, <2>2, BoundedInduction
  <2> QED
    BY <1>1, <1>2, <2>3
<1>6. whole[Len(s) + Len(t)] = second[Len(t)]
  <2> DEFINE T == {n \in 0 .. Len(t) : whole[Len(s) + n] = second[n]}
  <2>1. 0 \in T
    BY <1>1, <1>4, <1>5
  <2>2. ASSUME NEW n \in 0 .. Len(t) - 1, n \in T PROVE n + 1 \in T
    <3>1. /\ n + 1 \in 1 .. Len(t) /\ (n + 1) - 1 = n
          /\ Len(s) + (n + 1) \in 1 .. Len(s) + Len(t)
          /\ (Len(s) + (n + 1)) - 1 = Len(s) + n
      BY <1>1
    <3>2. (s \o t)[Len(s) + (n + 1)] = t[n + 1]
      BY <1>1, <3>1
    <3>3. whole[Len(s) + (n + 1)] = Step(whole[Len(s) + n], t[n + 1])
      BY <1>3, <3>1, <3>2
    <3>4. second[n + 1] = Step(second[n], t[n + 1])
      BY <1>4, <3>1
    <3> QED
      BY <1>1, <2>2, <3>1, <3>3, <3>4
  <2>3. 0 .. Len(t) \subseteq T
    <3> HIDE DEF T
    <3> QED
      BY <1>1, <2>1, <2>2, BoundedInduction
  <2> QED
    BY <1>1, <2>3
<1> QED
  BY <1>1, <1>6 DEF crc_update, whole, mid, second

\* crc_update of one byte is one turn of the loop.
LEMMA UpdateByte ==
    ASSUME NEW c \in Word32, NEW byte \in Byte
    PROVE  crc_update(c, <<byte>>) = Step(c, byte) /\ Step(c, byte) \in Word32
<1>1. <<byte>> \in Seq(Byte) /\ Len(<<byte>>) = 1 /\ <<byte>>[1] = byte
  OBVIOUS
<1>2. /\ Registers(c, <<byte>>)[0] = c
      /\ \A n \in 1 .. 1 : Registers(c, <<byte>>)[n] =
                              Step(Registers(c, <<byte>>)[n - 1], <<byte>>[n])
  BY <1>1, RegistersLoop
<1>3. Registers(c, <<byte>>)[1] = Step(Registers(c, <<byte>>)[1 - 1], byte)
  BY <1>1, <1>2
<1> QED
  BY <1>1, <1>2, <1>3, StepType DEF crc_update

\* The register keeps its width.
LEMMA UpdateType ==
    ASSUME NEW c \in Word32, NEW s \in Seq(Byte)
    PROVE  crc_update(c, s) \in Word32
<1>1. Len(s) \in 0 .. Len(s)
  OBVIOUS
<1> QED
  BY <1>1, RegistersLoop DEF crc_update

\* eth.c:36: the table's entry 0xd9 is the one with 0xff on top.
LEMMA TableEntryD9 ==
    Table[{0, 3, 4, 6, 7}] = {4, 5, 6, 9, 11, 13, 14, 16, 17, 18, 19, 24, 25, 26, 27, 28, 29, 30, 31}
<1> DEFINE r0 == {0, 3, 4, 6, 7}
           r1 == {2, 3, 6, 8, 9, 15, 19, 20, 21, 23, 24, 26, 27, 29, 30, 31}
           r2 == {1, 2, 5, 7, 8, 14, 18, 19, 20, 22, 23, 25, 26, 28, 29, 30}
           r3 == {0, 1, 4, 6, 7, 13, 17, 18, 19, 21, 22, 24, 25, 27, 28, 29}
           r4 == {0, 3, 6, 8, 9, 12, 15, 16, 17, 18, 19, 28, 29, 30, 31}
           r5 == {2, 7, 9, 11, 14, 16, 17, 18, 19, 20, 21, 23, 24, 26, 28, 31}
           r6 == {1, 6, 8, 10, 13, 15, 16, 17, 18, 19, 20, 22, 23, 25, 27, 30}
           r7 == {0, 5, 7, 9, 12, 14, 15, 16, 17, 18, 19, 21, 22, 24, 26, 29}
           r8 == {4, 5, 6, 9, 11, 13, 14, 16, 17, 18, 19, 24, 25, 26, 27, 28, 29, 30, 31}
<1>1. Shift(r0) = r1
  <2>1. ShiftRight(r0, 1) = {2, 3, 5, 6}
    BY DEF ShiftRight
  <2>2. Xor({2, 3, 5, 6}, Polynomial) = r1
    BY DEF Xor, Polynomial
  <2> QED
    BY <2>1, <2>2 DEF Shift
<1>2. Shift(r1) = r2
  <2>1. ShiftRight(r1, 1) = {1, 2, 5, 7, 8, 14, 18, 19, 20, 22, 23, 25, 26, 28, 29, 30}
    BY DEF ShiftRight
  <2> QED
    BY <2>1 DEF Shift
<1>3. Shift(r2) = r3
  <2>1. ShiftRight(r2, 1) = {0, 1, 4, 6, 7, 13, 17, 18, 19, 21, 22, 24, 25, 27, 28, 29}
    BY DEF ShiftRight
  <2> QED
    BY <2>1 DEF Shift
<1>4. Shift(r3) = r4
  <2>1. ShiftRight(r3, 1) = {0, 3, 5, 6, 12, 16, 17, 18, 20, 21, 23, 24, 26, 27, 28}
    BY DEF ShiftRight
  <2>2. Xor({0, 3, 5, 6, 12, 16, 17, 18, 20, 21, 23, 24, 26, 27, 28}, Polynomial) = r4
    BY DEF Xor, Polynomial
  <2> QED
    BY <2>1, <2>2 DEF Shift
<1>5. Shift(r4) = r5
  <2>1. ShiftRight(r4, 1) = {2, 5, 7, 8, 11, 14, 15, 16, 17, 18, 27, 28, 29, 30}
    BY DEF ShiftRight
  <2>2. Xor({2, 5, 7, 8, 11, 14, 15, 16, 17, 18, 27, 28, 29, 30}, Polynomial) = r5
    BY DEF Xor, Polynomial
  <2> QED
    BY <2>1, <2>2 DEF Shift
<1>6. Shift(r5) = r6
  <2>1. ShiftRight(r5, 1) = {1, 6, 8, 10, 13, 15, 16, 17, 18, 19, 20, 22, 23, 25, 27, 30}
    BY DEF ShiftRight
  <2> QED
    BY <2>1 DEF Shift
<1>7. Shift(r6) = r7
  <2>1. ShiftRight(r6, 1) = {0, 5, 7, 9, 12, 14, 15, 16, 17, 18, 19, 21, 22, 24, 26, 29}
    BY DEF ShiftRight
  <2> QED
    BY <2>1 DEF Shift
<1>8. Shift(r7) = r8
  <2>1. ShiftRight(r7, 1) = {4, 6, 8, 11, 13, 14, 15, 16, 17, 18, 20, 21, 23, 25, 28}
    BY DEF ShiftRight
  <2>2. Xor({4, 6, 8, 11, 13, 14, 15, 16, 17, 18, 20, 21, 23, 25, 28}, Polynomial) = r8
    BY DEF Xor, Polynomial
  <2> QED
    BY <2>1, <2>2 DEF Shift
<1>9. EightShifts(r0) = r8
  <2> HIDE DEF r0, r1, r2, r3, r4, r5, r6, r7, r8
  <2> QED
    BY <1>1, <1>2, <1>3, <1>4, <1>5, <1>6, <1>7, <1>8 DEF EightShifts
<1>10. r0 \in Byte
  BY DEF Byte, Bits
<1> QED
  BY <1>9, <1>10, TablesAssumption

-----------------------------------------------------------------------------
\* Shifts lose nothing: the polynomial's top bit tells which way a shift went.
LEMMA ShiftInjective ==
    ASSUME NEW a \in Word32, NEW b \in Word32, a # b
    PROVE  Shift(a) # Shift(b)
<1> DEFINE d == Xor(a, b)
<1>1. a \in SUBSET Nat /\ b \in SUBSET Nat
  BY DEF Word32, Bits
<1>2. d # {} /\ d \in Word32
  <2>1. d # {}
    BY DEF Xor
  <2>2. d \subseteq a \cup b
    BY XorBits
  <2> HIDE DEF d
  <2> QED
    BY <2>1, <2>2 DEF Word32
<1>3. Shift(d) = Xor(Shift(a), Shift(b))
  BY <1>1, ShiftXor
<1> HIDE DEF d
<1>4. d \in SUBSET Nat
  BY <1>2 DEF Word32, Bits
<1>5. CASE 0 \in d
  <2>1. 31 \notin ShiftRight(d, 1)
    <3>1. 31 + 1 \notin d
      BY <1>2 DEF Word32, Bits
    <3> QED
      BY <1>4, <3>1, ShiftRightBits
  <2>2. 31 \in Xor(ShiftRight(d, 1), Polynomial)
    BY <2>1, XorBits DEF Polynomial
  <2> QED
    BY <1>3, <1>5, <2>2, XorAlgebra DEF Shift
<1>6. CASE 0 \notin d
  <2>1. PICK k \in d : TRUE
    BY <1>2
  <2>2. k - 1 \in Nat /\ (k - 1) + 1 = k
    BY <1>4, <1>6
  <2>3. k - 1 \in ShiftRight(d, 1)
    BY <1>4, <2>1, <2>2, ShiftRightBits
  <2> QED
    BY <1>3, <1>6, <2>3, XorAlgebra DEF Shift
<1> QED
  BY <1>5, <1>6

\* A turn of the loop tells registers and bytes apart.
LEMMA StepInjective ==
    ASSUME NEW a \in Word32, NEW b \in Word32, NEW x \in Byte, NEW y \in Byte,
           Xor(a, x) # Xor(b, y)
    PROVE  Step(a, x) # Step(b, y)
<1>1. Xor(a, x) \in Word32 /\ Xor(b, y) \in Word32
  <2>1. Xor(a, x) \subseteq a \cup x /\ Xor(b, y) \subseteq b \cup y
    BY XorBits
  <2>2. x \in Word32 /\ y \in Word32
    BY DEF Byte, Word32, Bits
  <2> QED
    BY <2>1, <2>2 DEF Word32
<1>2. ASSUME NEW r \in Word32, NEW q \in Word32, r # q
      PROVE  EightShifts(r) # EightShifts(q)
  BY <1>2, ShiftInjective, ShiftType DEF EightShifts
<1> QED
  BY <1>1, <1>2, StepIsShifts

\* crc.asm: a message and the same message with one byte changed, by one bit or
\* by more, leave different registers, wherever the byte is and however long
\* the message: no such error passes the comparison at the end.
THEOREM ChangedByteDetected ==
    ASSUME NEW c \in Word32, NEW s \in Seq(Byte), NEW i \in 1 .. Len(s),
           NEW byte \in Byte, byte # s[i]
    PROVE  crc_update(c, [s EXCEPT ![i] = byte]) # crc_update(c, s)
<1> DEFINE t == [s EXCEPT ![i] = byte]
           p == Registers(c, s)
           q == Registers(c, t)
<1>1. /\ t \in Seq(Byte) /\ Len(t) = Len(s) /\ t[i] = byte /\ Len(s) \in Nat
      /\ \A j \in 1 .. Len(s) : j # i => t[j] = s[j]
      /\ \A j \in 1 .. Len(s) : s[j] \in Byte /\ t[j] \in Byte
  OBVIOUS
<1> HIDE DEF t
<1>2. /\ p[0] = c
      /\ \A n \in 1 .. Len(s) : p[n] = Step(p[n - 1], s[n])
      /\ \A n \in 0 .. Len(s) : p[n] \in Word32
  BY RegistersLoop
<1>3. /\ q[0] = c
      /\ \A n \in 1 .. Len(s) : q[n] = Step(q[n - 1], t[n])
      /\ \A n \in 0 .. Len(s) : q[n] \in Word32
  BY <1>1, RegistersLoop
<1> HIDE DEF p, q
<1> DEFINE T == {n \in 0 .. Len(s) : IF n < i THEN p[n] = q[n] ELSE p[n] # q[n]}
<1>4. 0 \in T
  BY <1>1, <1>2, <1>3
<1>5. ASSUME NEW n \in 0 .. Len(s) - 1, n \in T PROVE n + 1 \in T
  <2>1. n + 1 \in 1 .. Len(s) /\ n + 1 \in 0 .. Len(s) /\ n \in 0 .. Len(s) /\ (n + 1) - 1 = n
    BY <1>1
  <2>2. p[n + 1] = Step(p[n], s[n + 1]) /\ q[n + 1] = Step(q[n], t[n + 1])
    BY <1>2, <1>3, <2>1
  <2>3. CASE n + 1 < i
    <3>1. p[n] = q[n] /\ t[n + 1] = s[n + 1]
      BY <1>1, <1>5, <2>1, <2>3
    <3> QED
      BY <2>1, <2>2, <2>3, <3>1
  <2>4. CASE n + 1 = i
    <3>1. p[n] = q[n] /\ t[n + 1] # s[n + 1]
      BY <1>1, <1>5, <2>1, <2>4
    <3>2. Xor(p[n], s[n + 1]) # Xor(q[n], t[n + 1])
      <4>1. ASSUME NEW r, NEW x, NEW y, x # y PROVE Xor(r, x) # Xor(r, y)
        BY <4>1 DEF Xor
      <4> QED
        BY <3>1, <4>1
    <3>3. p[n + 1] # q[n + 1]
      BY <1>1, <1>2, <1>3, <2>1, <2>2, <3>2, StepInjective
    <3> QED
      BY <2>1, <2>4, <3>3
  <2>5. CASE n + 1 > i
    <3>1. p[n] # q[n] /\ t[n + 1] = s[n + 1]
      BY <1>1, <1>5, <2>1, <2>5
    <3>2. Xor(p[n], s[n + 1]) # Xor(q[n], t[n + 1])
      <4>1. ASSUME NEW r, NEW x, NEW y, x # y PROVE Xor(x, r) # Xor(y, r)
        BY <4>1 DEF Xor
      <4> QED
        BY <3>1, <4>1
    <3>3. p[n + 1] # q[n + 1]
      BY <1>1, <1>2, <1>3, <2>1, <2>2, <3>2, StepInjective
    <3> QED
      BY <2>1, <2>5, <3>3
  <2> QED
    BY <2>1, <2>3, <2>4, <2>5
<1>6. 0 .. Len(s) \subseteq T
  <2> HIDE DEF T
  <2> QED
    BY <1>1, <1>4, <1>5, BoundedInduction
<1>7. p[Len(s)] # q[Len(s)]
  BY <1>1, <1>6
<1> QED
  BY <1>1, <1>7 DEF crc_update, p, q, t

\* Thirty-two shifts of the register with every bit set, evaluated one by one.
LEMMA ShiftsOfOnes ==
    EightShifts(EightShifts(EightShifts(EightShifts(Ones)))) = Residue
<1> DEFINE r0 == 0 .. 31
           r1 == {0, 1, 2, 3, 4, 6, 7, 10, 11, 12, 13, 14, 16, 17, 18, 22, 25, 28, 31}
           r2 == {0, 1, 2, 3, 6, 8, 10, 11, 12, 13, 16, 17, 19, 20, 23, 26, 29, 31}
           r3 == {0, 1, 2, 7, 8, 10, 11, 12, 16, 18, 20, 21, 22, 23, 24, 25, 26, 27, 28,
                  29, 31}
           r4 == {0, 1, 5, 6, 7, 8, 10, 11, 17, 22, 25, 28, 29, 31}
           r5 == {0, 4, 6, 7, 8, 10, 15, 16, 19, 20, 23, 26, 28, 29, 31}
           r6 == {3, 6, 7, 8, 14, 18, 20, 21, 22, 23, 24, 25, 26, 28, 29, 31}
           r7 == {2, 5, 6, 7, 13, 17, 19, 20, 21, 22, 23, 24, 25, 27, 28, 30}
           r8 == {1, 4, 5, 6, 12, 16, 18, 19, 20, 21, 22, 23, 24, 26, 27, 29}
           r9 == {0, 3, 4, 5, 11, 15, 17, 18, 19, 20, 21, 22, 23, 25, 26, 28}
           r10 == {2, 3, 4, 5, 8, 9, 10, 14, 15, 16, 17, 18, 22, 23, 25, 26, 29, 30, 31}
           r11 == {1, 2, 3, 4, 7, 8, 9, 13, 14, 15, 16, 17, 21, 22, 24, 25, 28, 29, 30}
           r12 == {0, 1, 2, 3, 6, 7, 8, 12, 13, 14, 15, 16, 20, 21, 23, 24, 27, 28, 29}
           r13 == {0, 1, 2, 6, 7, 8, 9, 11, 12, 13, 14, 21, 22, 24, 28, 29, 30, 31}
           r14 == {0, 1, 6, 7, 9, 10, 11, 12, 13, 15, 19, 24, 26, 28, 31}
           r15 == {0, 6, 10, 11, 12, 14, 15, 18, 19, 20, 21, 24, 25, 26, 29, 31}
           r16 == {8, 10, 11, 13, 14, 15, 17, 18, 21, 25, 26, 27, 28, 29, 31}
           r17 == {7, 9, 10, 12, 13, 14, 16, 17, 20, 24, 25, 26, 27, 28, 30}
           r18 == {6, 8, 9, 11, 12, 13, 15, 16, 19, 23, 24, 25, 26, 27, 29}
           r19 == {5, 7, 8, 10, 11, 12, 14, 15, 18, 22, 23, 24, 25, 26, 28}
           r20 == {4, 6, 7, 9, 10, 11, 13, 14, 17, 21, 22, 23, 24, 25, 27}
           r21 == {3, 5, 6, 8, 9, 10, 12, 13, 16, 20, 21, 22, 23, 24, 26}
           r22 == {2, 4, 5, 7, 8, 9, 11, 12, 15, 19, 20, 21, 22, 23, 25}
           r23 == {1, 3, 4, 6, 7, 8, 10, 11, 14, 18, 19, 20, 21, 22, 24}
           r24 == {0, 2, 3, 5, 6, 7, 9, 10, 13, 17, 18, 19, 20, 21, 23}
           r25 == {1, 2, 4, 6, 12, 15, 16, 17, 18, 21, 22, 23, 24, 26, 27, 29, 30, 31}
           r26 == {0, 1, 3, 5, 11, 14, 15, 16, 17, 20, 21, 22, 23, 25, 26, 28, 29, 30}
           r27 == {0, 2, 4, 5, 8, 9, 10, 13, 14, 16, 22, 23, 25, 26, 28, 30, 31}
           r28 == {1, 3, 4, 5, 7, 12, 13, 19, 20, 22, 23, 25, 26, 31}
           r29 == {0, 2, 3, 4, 6, 11, 12, 18, 19, 21, 22, 24, 25, 30}
           r30 == {1, 2, 3, 8, 9, 10, 11, 15, 17, 18, 19, 26, 27, 30, 31}
           r31 == {0, 1, 2, 7, 8, 9, 10, 14, 16, 17, 18, 25, 26, 29, 30}
           r32 == {0, 1, 5, 6, 7, 13, 16, 17, 19, 20, 21, 23, 25, 26, 27, 28, 30, 31}
<1>1. Shift(r0) = r1
  <2> DEFINE s == 0 .. 30
  <2>1. ShiftRight(r0, 1) = s
    <3>1. r0 \in SUBSET Nat /\ s \in SUBSET Nat /\ \A k \in Nat : k \in s <=> k + 1 \in r0
      OBVIOUS
    <3> HIDE DEF r0, s
    <3> QED
      BY <3>1, ShiftRightBits, SameBits
  <2>2. Xor(s, Polynomial) = r1
    BY DEF Xor, Polynomial
  <2> QED
    BY <2>1, <2>2 DEF Shift
<1>2. Shift(r1) = r2
  <2> DEFINE s == {0, 1, 2, 3, 5, 6, 9, 10, 11, 12, 13, 15, 16, 17, 21, 24, 27, 30}
  <2>1. ShiftRight(r1, 1) = s
    BY DEF ShiftRight
  <2>2. Xor(s, Polynomial) = r2
    BY DEF Xor, Polynomial
  <2> QED
    BY <2>1, <2>2 DEF Shift
<1>3. Shift(r2) = r3
  <2> DEFINE s == {0, 1, 2, 5, 7, 9, 10, 11, 12, 15, 16, 18, 19, 22, 25, 28, 30}
  <2>1. ShiftRight(r2, 1) = s
    <3>1. r2 \in SUBSET Nat /\ s \in SUBSET Nat /\ \A k \in Nat : k \in s <=> k + 1 \in r2
      OBVIOUS
    <3> HIDE DEF r2, s
    <3> QED
      BY <3>1, ShiftRightBits, SameBits
  <2>2. Xor(s, Polynomial) = r3
    BY DEF Xor, Polynomial
  <2> QED
    BY <2>1, <2>2 DEF Shift
<1>4. Shift(r3) = r4
  <2> DEFINE s == {0, 1, 6, 7, 9, 10, 11, 15, 17, 19, 20, 21, 22, 23, 24, 25, 26, 27,
                   28, 30}
  <2>1. ShiftRight(r3, 1) = s
    BY DEF ShiftRight
  <2>2. Xor(s, Polynomial) = r4
    BY DEF Xor, Polynomial
  <2> QED
    BY <2>1, <2>2 DEF Shift
<1>5. Shift(r4) = r5
  <2> DEFINE s == {0, 4, 5, 6, 7, 9, 10, 16, 21, 24, 27, 28, 30}
  <2>1. ShiftRight(r4, 1) = s
    BY DEF ShiftRight
  <2>2. Xor(s, Polynomial) = r5
    BY DEF Xor, Polynomial
  <2> QED
    BY <2>1, <2>2 DEF Shift
<1>6. Shift(r5) = r6
  <2> DEFINE s == {3, 5, 6, 7, 9, 14, 15, 18, 19, 22, 25, 27, 28, 30}
  <2>1. ShiftRight(r5, 1) = s
    BY DEF ShiftRight
  <2>2. Xor(s, Polynomial) = r6
    BY DEF Xor, Polynomial
  <2> QED
    BY <2>1, <2>2 DEF Shift
<1>7. Shift(r6) = r7
  BY DEF Shift, ShiftRight
<1>8. Shift(r7) = r8
  BY DEF Shift, ShiftRight
<1>9. Shift(r8) = r9
  BY DEF Shift, ShiftRight
<1>10. Shift(r9) = r10
  <2> DEFINE s == {2, 3, 4, 10, 14, 16, 17, 18, 19, 20, 21, 22, 24, 25, 27}
  <2>1. ShiftRight(r9, 1) = s
    BY DEF ShiftRight
  <2>2. Xor(s, Polynomial) = r10
    BY DEF Xor, Polynomial
  <2> QED
    BY <2>1, <2>2 DEF Shift
<1>11. Shift(r10) = r11
  BY SMTT(40) DEF Shift, ShiftRight
<1>12. Shift(r11) = r12
  BY DEF Shift, ShiftRight
<1>13. Shift(r12) = r13
  <2> DEFINE s == {0, 1, 2, 5, 6, 7, 11, 12, 13, 14, 15, 19, 20, 22, 23, 26, 27, 28}
  <2>1. ShiftRight(r12, 1) = s
    BY DEF ShiftRight
  <2>2. Xor(s, Polynomial) = r13
    BY DEF Xor, Polynomial
  <2> QED
    BY <2>1, <2>2 DEF Shift
<1>14. Shift(r13) = r14
  <2> DEFINE s == {0, 1, 5, 6, 7, 8, 10, 11, 12, 13, 20, 21, 23, 27, 28, 29, 30}
  <2>1. ShiftRight(r13, 1) = s
    BY DEF ShiftRight
  <2>2. Xor(s, Polynomial) = r14
    BY DEF Xor, Polynomial
  <2> QED
    BY <2>1, <2>2 DEF Shift
<1>15. Shift(r14) = r15
  <2> DEFINE s == {0, 5, 6, 8, 9, 10, 11, 12, 14, 18, 23, 25, 27, 30}
  <2>1. ShiftRight(r14, 1) = s
    BY DEF ShiftRight
  <2>2. Xor(s, Polynomial) = r15
    BY DEF Xor, Polynomial
  <2> QED
    BY <2>1, <2>2 DEF Shift
<1>16. Shift(r15) = r16
  <2> DEFINE s == {5, 9, 10, 11, 13, 14, 17, 18, 19, 20, 23, 24, 25, 28, 30}
  <2>1. ShiftRight(r15, 1) = s
    BY DEF ShiftRight
  <2>2. Xor(s, Polynomial) = r16
    BY DEF Xor, Polynomial
  <2> QED
    BY <2>1, <2>2 DEF Shift
<1>17. Shift(r16) = r17
  BY DEF Shift, ShiftRight
<1>18. Shift(r17) = r18
  BY DEF Shift, ShiftRight
<1>19. Shift(r18) = r19
  BY DEF Shift, ShiftRight
<1>20. Shift(r19) = r20
  BY DEF Shift, ShiftRight
<1>21. Shift(r20) = r21
  BY DEF Shift, ShiftRight
<1>22. Shift(r21) = r22
  BY DEF Shift, ShiftRight
<1>23. Shift(r22) = r23
  BY DEF Shift, ShiftRight
<1>24. Shift(r23) = r24
  BY DEF Shift, ShiftRight
<1>25. Shift(r24) = r25
  <2> DEFINE s == {1, 2, 4, 5, 6, 8, 9, 12, 16, 17, 18, 19, 20, 22}
  <2>1. ShiftRight(r24, 1) = s
    BY DEF ShiftRight
  <2>2. Xor(s, Polynomial) = r25
    BY DEF Xor, Polynomial
  <2> QED
    BY <2>1, <2>2 DEF Shift
<1>26. Shift(r25) = r26
  BY DEF Shift, ShiftRight
<1>27. Shift(r26) = r27
  <2> DEFINE s == {0, 2, 4, 10, 13, 14, 15, 16, 19, 20, 21, 22, 24, 25, 27, 28, 29}
  <2>1. ShiftRight(r26, 1) = s
    BY DEF ShiftRight
  <2>2. Xor(s, Polynomial) = r27
    BY DEF Xor, Polynomial
  <2> QED
    BY <2>1, <2>2 DEF Shift
<1>28. Shift(r27) = r28
  <2> DEFINE s == {1, 3, 4, 7, 8, 9, 12, 13, 15, 21, 22, 24, 25, 27, 29, 30}
  <2>1. ShiftRight(r27, 1) = s
    BY DEF ShiftRight
  <2>2. Xor(s, Polynomial) = r28
    BY DEF Xor, Polynomial
  <2> QED
    BY <2>1, <2>2 DEF Shift
<1>29. Shift(r28) = r29
  BY DEF Shift, ShiftRight
<1>30. Shift(r29) = r30
  <2> DEFINE s == {1, 2, 3, 5, 10, 11, 17, 18, 20, 21, 23, 24, 29}
  <2>1. ShiftRight(r29, 1) = s
    BY DEF ShiftRight
  <2>2. Xor(s, Polynomial) = r30
    BY DEF Xor, Polynomial
  <2> QED
    BY <2>1, <2>2 DEF Shift
<1>31. Shift(r30) = r31
  BY DEF Shift, ShiftRight
<1>32. Shift(r31) = r32
  <2> DEFINE s == {0, 1, 6, 7, 8, 9, 13, 15, 16, 17, 24, 25, 28, 29}
  <2>1. ShiftRight(r31, 1) = s
    BY DEF ShiftRight
  <2>2. Xor(s, Polynomial) = r32
    BY DEF Xor, Polynomial
  <2> QED
    BY <2>1, <2>2 DEF Shift
<1>33. Ones = r0 /\ Residue = r32
  BY DEF Ones, Bits, Residue
<1> HIDE DEF r0, r1, r2, r3, r4, r5, r6, r7, r8, r9, r10, r11, r12, r13, r14, r15, r16,
             r17, r18, r19, r20, r21, r22, r23, r24, r25, r26, r27, r28, r29, r30, r31, r32
<1>34. EightShifts(r0) = r8
  BY <1>1, <1>2, <1>3, <1>4, <1>5, <1>6, <1>7, <1>8 DEF EightShifts
<1>35. EightShifts(r8) = r16
  BY <1>9, <1>10, <1>11, <1>12, <1>13, <1>14, <1>15, <1>16 DEF EightShifts
<1>36. EightShifts(r16) = r24
  BY <1>17, <1>18, <1>19, <1>20, <1>21, <1>22, <1>23, <1>24 DEF EightShifts
<1>37. EightShifts(r24) = r32
  BY <1>25, <1>26, <1>27, <1>28, <1>29, <1>30, <1>31, <1>32 DEF EightShifts
<1> QED
  BY <1>33, <1>34, <1>35, <1>36, <1>37

\* The register with the rest of a word added, when its low byte is taken: the
\* word is moved by eight, and the sum is shifted eight times.
LEMMA TakeLowByte ==
    ASSUME NEW c \in Word32, NEW m \in Word32
    PROVE  /\ Octet(m, 0) \in Byte
           /\ ShiftRight(m, 8) \in Word32
           /\ EightShifts(Xor(c, m)) = Xor(Step(c, Octet(m, 0)), ShiftRight(m, 8))
<1> DEFINE low == Octet(m, 0)
           high == {i \in m : i >= 8}
<1>1. c \in SUBSET Nat /\ m \in SUBSET Nat
  BY DEF Word32, Bits
<1>2. low \in Byte /\ low \in SUBSET Nat
  BY DEF Octet, Byte, Bits
<1>3. high \in SUBSET Nat /\ \A i \in high : i >= 8
  BY <1>1
<1>4. m = Xor(low, high)
  <2>1. \A k \in Nat : k \in ShiftRight(m, 0) <=> k + 0 \in m
    BY <1>1, ShiftRightBits
  <2>2. \A k \in Nat : k \in low <=> k \in m /\ k < 8
    BY <2>1 DEF Octet, Bits
  <2>3. \A k \in Nat : k \in high <=> k \in m /\ ~(k < 8)
    BY <1>1
  <2> HIDE DEF low, high
  <2>4. Xor(low, high) \in SUBSET Nat
    <3>1. Xor(low, high) \subseteq low \cup high
      BY XorBits
    <3> QED
      BY <1>2, <1>3, <3>1
  <2>5. \A k \in Nat : k \in Xor(low, high) <=> k \in m
    BY <2>2, <2>3, XorBits
  <2> QED
    BY <1>1, <2>4, <2>5, SameBits
<1>5. ShiftRight(high, 8) = ShiftRight(m, 8)
  BY <1>1 DEF ShiftRight
<1>6. ShiftRight(m, 8) \in Word32
  BY DEF ShiftRight, Word32, Bits
<1> HIDE DEF low, high
<1>7. Xor(c, m) = Xor(Xor(c, low), high)
  BY <1>4, XorAlgebra
<1>8. Xor(c, low) \in SUBSET Nat
  <2>1. Xor(c, low) \subseteq c \cup low
    BY XorBits
  <2> QED
    BY <1>1, <1>2, <2>1
<1>9. EightShifts(Xor(Xor(c, low), high)) = Xor(EightShifts(Xor(c, low)), EightShifts(high))
  BY <1>3, <1>8, EightShiftsXor
<1>10. EightShifts(high) = ShiftRight(m, 8)
  BY <1>3, <1>5, HighPartShifts
<1>11. Step(c, low) = EightShifts(Xor(c, low))
  BY <1>2, StepIsShifts
<1> QED
  BY <1>2, <1>6, <1>7, <1>9, <1>10, <1>11 DEF low

\* The four bytes of a check sequence: the complement of the register, low byte first.
CheckSequence(c) == [i \in 1 .. 4 |-> Octet(Ones \ c, 8 * (i - 1))]

\* Whatever the register was, its check sequence leads to the residue.
LEMMA ResidueAfterCheckSequence ==
    ASSUME NEW c \in Word32
    PROVE  crc_update(c, CheckSequence(c)) = Residue /\ CheckSequence(c) \in Seq(Byte)
<1> DEFINE m == Ones \ c
           b(n) == Octet(m, n)
           c1 == Step(c, b(0))
           c2 == Step(c1, b(8))
           c3 == Step(c2, b(16))
           c4 == Step(c3, b(24))
           s == CheckSequence(c)
<1>1. m \in Word32 /\ m \in SUBSET Nat
  BY DEF Ones, Word32, Bits
<1>2. Xor(c, m) = Ones
  BY DEF Xor, Ones, Word32
<1> HIDE DEF m
<1>3. ASSUME NEW n \in Nat
      PROVE  b(n) \in Byte /\ Octet(ShiftRight(m, n), 0) = b(n)
  <2>1. ShiftRight(ShiftRight(m, n), 0) = ShiftRight(m, n + 0)
    BY <1>1, ShiftRightTwice
  <2>2. n + 0 = n
    OBVIOUS
  <2> QED
    BY <2>1, <2>2 DEF Octet, Byte
<1>4. c1 \in Word32 /\ c2 \in Word32 /\ c3 \in Word32 /\ c4 \in Word32
  BY <1>3, StepType
<1>5. /\ ShiftRight(m, 0) = m
      /\ ShiftRight(ShiftRight(m, 8), 8) = ShiftRight(m, 16)
      /\ ShiftRight(ShiftRight(m, 16), 8) = ShiftRight(m, 24)
      /\ ShiftRight(ShiftRight(m, 24), 8) = {}
  <2>1. /\ ShiftRight(ShiftRight(m, 8), 8) = ShiftRight(m, 8 + 8)
        /\ ShiftRight(ShiftRight(m, 16), 8) = ShiftRight(m, 16 + 8)
        /\ ShiftRight(ShiftRight(m, 24), 8) = ShiftRight(m, 24 + 8)
    BY <1>1, ShiftRightTwice
  <2>2. ShiftRight(m, 32) = {}
    BY <1>1 DEF ShiftRight, Word32, Bits
  <2>3. \A k \in Nat : k \in ShiftRight(m, 0) <=> k + 0 \in m
    BY <1>1, ShiftRightBits
  <2>4. ShiftRight(m, 0) = m
    <3>1. \A k \in Nat : k \in ShiftRight(m, 0) <=> k \in m
      BY <2>3
    <3>2. ShiftRight(m, 0) \in SUBSET Nat
      BY <1>1, ShiftRightBits
    <3> QED
      BY <1>1, <3>1, <3>2, SameBits
  <2> QED
    BY <2>1, <2>2, <2>4
<1>6. /\ ShiftRight(m, 8) \in Word32 /\ ShiftRight(m, 16) \in Word32
      /\ ShiftRight(m, 24) \in Word32
  BY <1>1 DEF ShiftRight, Word32, Bits
<1>7. /\ EightShifts(Xor(c, m)) = Xor(c1, ShiftRight(m, 8))
      /\ EightShifts(Xor(c1, ShiftRight(m, 8))) = Xor(c2, ShiftRight(m, 16))
      /\ EightShifts(Xor(c2, ShiftRight(m, 16))) = Xor(c3, ShiftRight(m, 24))
      /\ EightShifts(Xor(c3, ShiftRight(m, 24))) = Xor(c4, {})
  <2>1. Octet(m, 0) = b(0) /\ Octet(ShiftRight(m, 8), 0) = b(8)
        /\ Octet(ShiftRight(m, 16), 0) = b(16) /\ Octet(ShiftRight(m, 24), 0) = b(24)
    BY <1>3
  <2> HIDE DEF b
  <2>2. /\ EightShifts(Xor(c, m)) = Xor(Step(c, b(0)), ShiftRight(m, 8))
        /\ EightShifts(Xor(c1, ShiftRight(m, 8))) =
               Xor(Step(c1, b(8)), ShiftRight(ShiftRight(m, 8), 8))
        /\ EightShifts(Xor(c2, ShiftRight(m, 16))) =
               Xor(Step(c2, b(16)), ShiftRight(ShiftRight(m, 16), 8))
        /\ EightShifts(Xor(c3, ShiftRight(m, 24))) =
               Xor(Step(c3, b(24)), ShiftRight(ShiftRight(m, 24), 8))
    <3> HIDE DEF c1, c2, c3
    <3> QED
      BY <1>1, <1>4, <1>6, <2>1, TakeLowByte
  <2> QED
    BY <1>5, <2>2
<1>8. c4 = Residue
  <2>1. Xor(c4, {}) = c4
    BY XorAlgebra
  <2> HIDE DEF c1, c2, c3, c4
  <2> QED
    BY <1>2, <1>7, <2>1, ShiftsOfOnes
<1>9. /\ s \in Seq(Byte) /\ Len(s) = 4
      /\ s[1] = b(0) /\ s[2] = b(8) /\ s[3] = b(16) /\ s[4] = b(24)
  <2>1. s = [i \in 1 .. 4 |-> b(8 * (i - 1))]
    BY DEF CheckSequence, m
  <2>2. \A i \in 1 .. 4 : b(8 * (i - 1)) \in Byte
    BY <1>3
  <2> HIDE DEF b, s
  <2> QED
    BY <2>1, <2>2
<1> HIDE DEF s, b
<1>10. /\ Registers(c, s)[0] = c
       /\ \A n \in 1 .. 4 : Registers(c, s)[n] = Step(Registers(c, s)[n - 1], s[n])
  BY <1>9, RegistersLoop
<1>11. Registers(c, s)[1] = c1 /\ Registers(c, s)[2] = c2
       /\ Registers(c, s)[3] = c3 /\ Registers(c, s)[4] = c4
  <2>1. /\ Registers(c, s)[1] = Step(Registers(c, s)[1 - 1], b(0))
        /\ Registers(c, s)[2] = Step(Registers(c, s)[2 - 1], b(8))
        /\ Registers(c, s)[3] = Step(Registers(c, s)[3 - 1], b(16))
        /\ Registers(c, s)[4] = Step(Registers(c, s)[4 - 1], b(24))
    BY <1>9, <1>10
  <2> QED
    BY <1>10, <2>1
<1> QED
  BY <1>8, <1>9, <1>11 DEF crc_update, s

\* crc.asm:21: crc_check_relaxed accepts every message followed by its check
\* sequence, and that followed by any byte.
THEOREM OwnCheckSequenceAccepted ==
    ASSUME NEW s \in Seq(Byte)
    PROVE  LET f == s \o CheckSequence(crc_update(Ones, s)) IN
           /\ crc_check_relaxed(f)
           /\ \A byte \in Byte : crc_check_relaxed(Append(f, byte))
<1> DEFINE c == crc_update(Ones, s)
           f == s \o CheckSequence(c)
<1>1. Ones \in Word32 /\ c \in Word32
  <2>1. Ones \in Word32
    BY DEF Ones, Word32
  <2> QED
    BY <2>1, UpdateType
<1> HIDE DEF c
<1>2. crc_update(c, CheckSequence(c)) = Residue /\ CheckSequence(c) \in Seq(Byte)
  BY <1>1, ResidueAfterCheckSequence
<1>3. Len(CheckSequence(c)) = 4
  BY DEF CheckSequence
<1>4. f \in Seq(Byte) /\ Len(f) \in Nat /\ Len(f) >= 4
  <2>1. ASSUME NEW t \in Seq(Byte)
        PROVE  s \o t \in Seq(Byte) /\ Len(s \o t) = Len(s) + Len(t) /\ Len(s) \in Nat
    OBVIOUS
  <2>2. f \in Seq(Byte) /\ Len(f) = Len(s) + Len(CheckSequence(c)) /\ Len(s) \in Nat
    BY <1>2, <2>1, Zenon
  <2> HIDE DEF f
  <2> QED
    BY <1>3, <2>2
<1>5. crc_update(Ones, f) = Residue
  BY <1>1, <1>2, UpdateInParts DEF c
<1> HIDE DEF f
<1>6. crc_check_relaxed(f)
  <2> DEFINE g == SubSeq(f, 1, Len(f) - 1)
             last == f[Len(f)]
  <2>1. last \in Byte /\ g \in Seq(Byte) /\ f = g \o <<last>> /\ <<last>> \in Seq(Byte)
    BY <1>4
  <2> HIDE DEF g, last
  <2>2. crc_update(Ones, f) = crc_update(crc_update(Ones, g), <<last>>)
    BY <1>1, <2>1, UpdateInParts
  <2>3. crc_update(Ones, f) = Step(crc_update(Ones, g), last)
    BY <1>1, <2>1, <2>2, UpdateByte, UpdateType
  <2> QED
    BY <1>5, <2>3 DEF crc_check_relaxed, g, last
<1>7. ASSUME NEW byte \in Byte PROVE crc_check_relaxed(Append(f, byte))
  <2>1. SubSeq(Append(f, byte), 1, Len(Append(f, byte)) - 1) = f
    BY <1>4
  <2> QED
    BY <1>5, <2>1 DEF crc_check_relaxed
<1> QED
  BY <1>6, <1>7 DEF f, c

-----------------------------------------------------------------------------
(***************************************************************************)
(* The transmitter.  The invariant says what eth_transmit relies on from   *)
(* one call to the next: the preamble stands, and the buffer is zero       *)
(* between the last frame's data and the trailer, so clearing what the     *)
(* last frame covered clears everything.                                   *)
(***************************************************************************)

PreambleByte(i) == IF i = PREAMBLE_LEN - 1 THEN {0, 2, 4, 6, 7} ELSE {0, 2, 4, 6}

PreambleStands == \A i \in 0 .. PREAMBLE_LEN - 1 : buf[i] = bitmix(PreambleByte(i))

\* Behind the last frame's data and before the trailer there are zeroes.
PaddingClear == \A i \in PREAMBLE_LEN + Len(data) .. TX_BUF_LEN - 6 : buf[i] = Zero

\* The frame in the buffer is the one of data.
DataStands ==
    \A i \in 1 .. Len(data) : i <= Limit => buf[PREAMBLE_LEN + i - 1] = bitmix(data[i])
TrailerStands ==
    \A j \in 1 .. 5 : buf[TX_BUF_LEN - 6 + j] = Trailer(Covered(data))[j]

\* The adapter has sent a prefix of the buffer.
WireIsBuffer == \A i \in 1 .. Len(wire) : wire[i] = bitmix(buf[i - 1])

Transmitting == left > 0 \/ wire # <<>>

EthInv ==
    /\ TypeOK /\ last_frame_len = Len(data)
    /\ inited => PreambleStands /\ PaddingClear
    /\ Transmitting =>
         inited /\ Len(wire) + left = TX_BUF_LEN /\ DataStands /\ TrailerStands
    /\ WireIsBuffer

-----------------------------------------------------------------------------
\* The sizes of the buffer's parts.
LEMMA Sizes ==
    /\ TX_BUF_LEN \in Nat /\ PREAMBLE_LEN \in Nat /\ PREAMBLE_LEN > 0
    /\ Limit \in Nat /\ Body = Limit + 1 /\ TX_BUF_LEN = PREAMBLE_LEN + Limit + 5
    /\ MaxSize \in Nat /\ MaxSize <= Limit + 5 /\ Word \in Nat /\ Word > TX_BUF_LEN
    /\ Bytes \subseteq Byte
BY EthAssumption DEF Limit, Body, FCS_LEN

\* bitmix makes a byte of a byte and undoes itself: the adapter's wiring.
LEMMA BitmixByte ==
    ASSUME NEW byte \in Byte
    PROVE  /\ bitmix(byte) \in Byte /\ bitmix(bitmix(byte)) = byte
           /\ Not(byte) \in Byte /\ bitmix(Not(bitmix(byte))) = Not(byte)
<1>1. byte \subseteq 0 .. 7
  BY DEF Byte, Bits
<1>2. ASSUME NEW x, x \subseteq 0 .. 7
      PROVE  /\ bitmix(x) \subseteq 0 .. 7
             /\ \A i \in 0 .. 7 : i \in bitmix(x) <=> (IF i < 4 THEN 3 - i ELSE 11 - i) \in x
  <2>1. bitmix(x) \subseteq 0 .. 7
    BY <1>2 DEF bitmix
  <2>2. ASSUME NEW i \in 0 .. 7
        PROVE  i \in bitmix(x) <=> (IF i < 4 THEN 3 - i ELSE 11 - i) \in x
    <3> DEFINE k == IF i < 4 THEN 3 - i ELSE 11 - i
    <3>1. k \in 0 .. 7 /\ i = IF k < 4 THEN 3 - k ELSE 11 - k
      OBVIOUS
    <3>2. ASSUME i \in bitmix(x) PROVE k \in x
      <4>1. PICK j \in x : i = IF j < 4 THEN 3 - j ELSE 11 - j
        BY <3>2 DEF bitmix
      <4>2. j \in 0 .. 7
        BY <1>2
      <4>3. k = j
        BY <4>1, <4>2
      <4> QED
        BY <4>3
    <3>3. ASSUME k \in x PROVE i \in bitmix(x)
      <4> HIDE DEF k
      <4> QED
        BY <3>1, <3>3 DEF bitmix
    <3> QED
      BY <3>2, <3>3
  <2> QED
    BY <2>1, <2>2
<1>3. bitmix(byte) \subseteq 0 .. 7 /\ Not(byte) \subseteq 0 .. 7
      /\ Not(bitmix(byte)) \subseteq 0 .. 7
  <2>1. bitmix(byte) \subseteq 0 .. 7
    BY <1>1, <1>2
  <2> QED
    BY <2>1 DEF Not, Bits
<1>4. bitmix(bitmix(byte)) = byte
  <2>1. bitmix(bitmix(byte)) \subseteq 0 .. 7
    BY <1>2, <1>3
  <2>2. ASSUME NEW i \in 0 .. 7 PROVE i \in bitmix(bitmix(byte)) <=> i \in byte
    <3> DEFINE k == IF i < 4 THEN 3 - i ELSE 11 - i
    <3>1. k \in 0 .. 7 /\ i = IF k < 4 THEN 3 - k ELSE 11 - k
      OBVIOUS
    <3>2. i \in bitmix(bitmix(byte)) <=> k \in bitmix(byte)
      BY <1>2, <1>3
    <3> HIDE DEF k
    <3>3. k \in bitmix(byte) <=> i \in byte
      BY <1>1, <1>2, <3>1
    <3> QED
      BY <3>2, <3>3
  <2> QED
    BY <1>1, <2>1, <2>2
<1>5. bitmix(Not(bitmix(byte))) = Not(byte)
  <2>1. bitmix(Not(bitmix(byte))) \subseteq 0 .. 7
    BY <1>2, <1>3
  <2>2. ASSUME NEW i \in 0 .. 7 PROVE i \in bitmix(Not(bitmix(byte))) <=> i \in Not(byte)
    <3> DEFINE k == IF i < 4 THEN 3 - i ELSE 11 - i
    <3>1. k \in 0 .. 7 /\ i = IF k < 4 THEN 3 - k ELSE 11 - k
      OBVIOUS
    <3>2. i \in bitmix(Not(bitmix(byte))) <=> k \in Not(bitmix(byte))
      BY <1>2, <1>3
    <3> HIDE DEF k
    <3>3. k \in bitmix(byte) <=> i \in byte
      BY <1>1, <1>2, <3>1
    <3>4. k \in Not(bitmix(byte)) <=> k \notin bitmix(byte)
      BY <3>1 DEF Not, Bits
    <3>5. i \in Not(byte) <=> i \notin byte
      BY DEF Not, Bits
    <3> QED
      BY <3>2, <3>3, <3>4, <3>5
  <2> QED
    BY <1>3, <2>1, <2>2
<1> QED
  BY <1>3, <1>4, <1>5 DEF Byte, Bits

\* The trailer is five bytes.
LEMMA TrailerBytes ==
    ASSUME NEW c
    PROVE  \A j \in 1 .. 5 : Trailer(c)[j] \in Byte
<1> DEFINE adj == Adjusted(c)
           crc == crc_update(c, <<adj>>)
<1>1. adj \in Byte
  <2>1. {0, 3, 4, 6, 7} \in Byte /\ Octet(c, 0) \in Byte
    BY DEF Octet, Byte, Bits
  <2>2. adj \subseteq {0, 3, 4, 6, 7} \cup Octet(c, 0)
    BY XorBits DEF Adjusted
  <2> HIDE DEF adj
  <2> QED
    BY <2>1, <2>2 DEF Byte
<1>2. Octet(crc, 0) \in Byte /\ Octet(crc, 8) \in Byte /\ Octet(crc, 16) \in Byte
  BY DEF Octet, Byte
<1>3. Zero \in Byte
  BY DEF Zero, Byte
<1>4. Trailer(c) = <<bitmix(adj), Not(bitmix(Octet(crc, 0))), Not(bitmix(Octet(crc, 8))),
                     Not(bitmix(Octet(crc, 16))), Zero>>
  BY DEF Trailer
<1> HIDE DEF adj, crc
<1>5. /\ bitmix(adj) \in Byte /\ Not(bitmix(Octet(crc, 0))) \in Byte
      /\ Not(bitmix(Octet(crc, 8))) \in Byte /\ Not(bitmix(Octet(crc, 16))) \in Byte
  BY <1>1, <1>2, BitmixByte
<1> QED
  BY <1>3, <1>4, <1>5

-----------------------------------------------------------------------------
\* Before eth_init nothing is sent.
LEMMA InitInv == Init => EthInv
<1> SUFFICES ASSUME Init PROVE EthInv
  OBVIOUS
<1>1. PICK b \in Bytes : buf = [i \in Offsets |-> b]
  BY DEF Init
<1>2. buf \in [Offsets -> Byte]
  BY <1>1, Sizes
<1>3. data = <<>> /\ wire = <<>> /\ left = 0 /\ last_frame_len = 0 /\ inited = FALSE
  BY DEF Init
<1>4. data \in Seq(Bytes) /\ wire \in Seq(Byte) /\ Len(data) = 0 /\ Len(wire) = 0
  BY <1>3
<1>5. TypeOK
  <2>1. inited \in BOOLEAN
    BY <1>3
  <2>2. last_frame_len \in 0 .. MaxSize /\ Len(data) <= MaxSize /\ left \in 0 .. TX_BUF_LEN
    BY <1>3, <1>4, Sizes
  <2> QED
    BY <1>2, <1>4, <2>1, <2>2 DEF TypeOK
<1> QED
  BY <1>3, <1>4, <1>5 DEF EthInv, Transmitting, WireIsBuffer

\* eth_init writes the preamble and clears the buffer up to the check sequence.
LEMMA eth_initInv ==
    ASSUME EthInv, eth_init
    PROVE  EthInv'
<1>1. /\ data' = <<>> /\ wire' = <<>> /\ left' = 0 /\ last_frame_len' = 0 /\ inited' = TRUE
  BY Sizes DEF eth_init, Busy, EthInv, TypeOK
<1> DEFINE a == Filled(buf, 0, PREAMBLE_LEN - 1, bitmix({0, 2, 4, 6}))
           b == [a EXCEPT ![PREAMBLE_LEN - 1] = bitmix({0, 2, 4, 6, 7})]
<1>2. buf' = Filled(b, PREAMBLE_LEN, Body, Zero)
  BY DEF eth_init
<1>3. /\ bitmix({0, 2, 4, 6}) \in Byte /\ bitmix({0, 2, 4, 6, 7}) \in Byte
      /\ Zero \in Byte
  <2>1. {0, 2, 4, 6} \in Byte /\ {0, 2, 4, 6, 7} \in Byte /\ Zero \in Byte
    BY DEF Byte, Bits, Zero
  <2> QED
    BY <2>1, BitmixByte
<1>4. /\ a \in [Offsets -> Byte]
      /\ \A i \in 0 .. PREAMBLE_LEN - 2 : a[i] = bitmix({0, 2, 4, 6})
  BY <1>3, Sizes DEF Filled, EthInv, TypeOK, Offsets
<1> HIDE DEF a
<1>5. /\ b \in [Offsets -> Byte]
      /\ \A i \in 0 .. PREAMBLE_LEN - 1 : b[i] = bitmix(PreambleByte(i))
  <2>1. PREAMBLE_LEN - 1 \in Offsets
    BY Sizes DEF Offsets
  <2>2. b \in [Offsets -> Byte] /\ b[PREAMBLE_LEN - 1] = bitmix({0, 2, 4, 6, 7})
    BY <1>3, <1>4, <2>1
  <2>3. ASSUME NEW i \in 0 .. PREAMBLE_LEN - 1 PROVE b[i] = bitmix(PreambleByte(i))
    <3>1. CASE i = PREAMBLE_LEN - 1
      BY <2>2, <3>1 DEF PreambleByte
    <3>2. CASE i # PREAMBLE_LEN - 1
      <4>1. i \in 0 .. PREAMBLE_LEN - 2 /\ i \in Offsets
        BY <3>2, Sizes DEF Offsets
      <4> QED
        BY <1>4, <2>1, <3>2, <4>1 DEF PreambleByte
    <3> QED
      BY <3>1, <3>2
  <2> QED
    BY <2>2, <2>3
<1> HIDE DEF b
<1>6. /\ buf' \in [Offsets -> Byte]
      /\ \A i \in 0 .. PREAMBLE_LEN - 1 : buf'[i] = bitmix(PreambleByte(i))
      /\ \A i \in PREAMBLE_LEN .. TX_BUF_LEN - 6 : buf'[i] = Zero
  <2>1. buf' \in [Offsets -> Byte]
    BY <1>2, <1>3, <1>5 DEF Filled
  <2>2. ASSUME NEW i \in 0 .. PREAMBLE_LEN - 1 PROVE buf'[i] = bitmix(PreambleByte(i))
    <3>1. i \in Offsets /\ i \notin PREAMBLE_LEN .. PREAMBLE_LEN + Body - 1
      BY Sizes DEF Offsets
    <3> QED
      BY <1>2, <1>5, <3>1 DEF Filled
  <2>3. ASSUME NEW i \in PREAMBLE_LEN .. TX_BUF_LEN - 6 PROVE buf'[i] = Zero
    <3>1. i \in Offsets /\ i \in PREAMBLE_LEN .. PREAMBLE_LEN + Body - 1
      BY Sizes DEF Offsets
    <3> QED
      BY <1>2, <3>1 DEF Filled
  <2> QED
    BY <2>1, <2>2, <2>3
<1>7. data' \in Seq(Bytes) /\ wire' \in Seq(Byte) /\ Len(data') = 0 /\ Len(wire') = 0
  BY <1>1
<1>8. TypeOK'
  BY <1>1, <1>6, <1>7, Sizes DEF TypeOK
<1>9. PreambleStands'
  BY <1>6 DEF PreambleStands, PreambleByte
<1>10. PaddingClear'
  BY <1>6, <1>7, Sizes DEF PaddingClear
<1> QED
  BY <1>1, <1>7, <1>8, <1>9, <1>10 DEF EthInv, Transmitting, WireIsBuffer

\* eth_transmit leaves the preamble alone, copies the data, clears what the last
\* frame covered behind it and writes the trailer.
LEMMA eth_transmitInv ==
    ASSUME EthInv, NEW d \in Data, eth_transmit(d)
    PROVE  EthInv'
<1> DEFINE b == Cleared(Copied(buf, d), Len(d))
           t == Trailer(Covered(d))
<1>1. /\ inited /\ left = 0 /\ data' = d /\ wire' = <<>> /\ left' = TX_BUF_LEN
      /\ last_frame_len' = Len(d) /\ inited' = inited
      /\ buf' = [i \in Offsets |->
                   IF i >= TX_BUF_LEN - 5 THEN t[i - (TX_BUF_LEN - 5) + 1] ELSE b[i]]
  BY Sizes DEF eth_transmit, Busy, EthInv, TypeOK
<1>2. d \in Seq(Bytes) /\ Len(d) \in 0 .. MaxSize /\ DOMAIN d = 1 .. Len(d)
  <2>1. PICK n \in 0 .. MaxSize : d \in [1 .. n -> Bytes]
    BY DEF Data
  <2>2. n \in Nat
    BY Sizes
  <2>3. d \in Seq(Bytes) /\ Len(d) = n
    BY <2>1, <2>2
  <2> QED
    BY <2>1, <2>3
<1>3. \A j \in 1 .. Len(d) : d[j] \in Byte /\ bitmix(d[j]) \in Byte
  <2>1. ASSUME NEW j \in 1 .. Len(d) PROVE d[j] \in Byte
    BY <1>2, Sizes
  <2> QED
    BY <2>1, BitmixByte
<1> DEFINE a == Copied(buf, d)
           n == Len(d)
<1>4. /\ a \in [Offsets -> Byte]
      /\ \A i \in Offsets :
           /\ i < PREAMBLE_LEN => a[i] = buf[i]
           /\ i \in PREAMBLE_LEN .. PREAMBLE_LEN + n - 1 => a[i] = bitmix(d[i - PREAMBLE_LEN + 1])
           /\ i >= PREAMBLE_LEN + n => a[i] = buf[i]
  <2>1. buf \in [Offsets -> Byte] /\ Offsets \subseteq Int
    BY DEF EthInv, TypeOK, Offsets
  <2>2. ASSUME NEW i \in Offsets
        PROVE  /\ i - PREAMBLE_LEN + 1 \in DOMAIN d <=>
                     i \in PREAMBLE_LEN .. PREAMBLE_LEN + n - 1
    BY <1>2, <2>1, Sizes
  <2>3. a = [i \in Offsets |-> IF i - PREAMBLE_LEN + 1 \in DOMAIN d
                               THEN bitmix(d[i - PREAMBLE_LEN + 1]) ELSE buf[i]]
    BY DEF Copied
  <2> HIDE DEF a
  <2>4. a \in [Offsets -> Byte]
    BY <1>2, <1>3, <2>1, <2>3
  <2>5. \A i \in Offsets :
           /\ i < PREAMBLE_LEN => i \notin PREAMBLE_LEN .. PREAMBLE_LEN + n - 1
           /\ i >= PREAMBLE_LEN + n => i \notin PREAMBLE_LEN .. PREAMBLE_LEN + n - 1
    BY <1>2, <2>1, Sizes
  <2> HIDE DEF n
  <2> QED
    BY <2>2, <2>3, <2>4, <2>5
<1> HIDE DEF a
<1>5. last_frame_len = Len(data) /\ Len(data) \in Nat /\ PaddingClear /\ PreambleStands
  BY <1>1 DEF EthInv, TypeOK
<1>6. /\ b \in [Offsets -> Byte]
      /\ \A i \in Offsets :
           /\ i < PREAMBLE_LEN + n => b[i] = a[i]
           /\ i \in PREAMBLE_LEN + n .. TX_BUF_LEN - 6 => b[i] = Zero
  <2>1. Zero \in Byte
    BY DEF Zero, Byte
  <2>2. CASE n < last_frame_len
    <3>1. b = Filled(a, PREAMBLE_LEN + n, last_frame_len - n, Zero)
      BY <2>2 DEF Cleared, a
    <3>2. b \in [Offsets -> Byte]
      BY <1>4, <2>1, <3>1 DEF Filled
    <3>3. ASSUME NEW i \in Offsets, i < PREAMBLE_LEN + n PROVE b[i] = a[i]
      <4>1. i \notin PREAMBLE_LEN + n .. (PREAMBLE_LEN + n) + (last_frame_len - n) - 1
        BY <1>2, <3>3, Sizes DEF Offsets
      <4> HIDE DEF b, n
      <4> QED
        BY <3>1, <4>1 DEF Filled
    <3>4. ASSUME NEW i \in Offsets, i \in PREAMBLE_LEN + n .. TX_BUF_LEN - 6 PROVE b[i] = Zero
      <4>1. CASE i < PREAMBLE_LEN + last_frame_len
        <5>1. i \in PREAMBLE_LEN + n .. (PREAMBLE_LEN + n) + (last_frame_len - n) - 1
          BY <1>2, <1>5, <3>4, <4>1, Sizes
        <5> HIDE DEF b, n
        <5> QED
          BY <3>1, <5>1 DEF Filled
      <4>2. CASE ~(i < PREAMBLE_LEN + last_frame_len)
        <5>1. /\ i \notin PREAMBLE_LEN + n .. (PREAMBLE_LEN + n) + (last_frame_len - n) - 1
              /\ i \in PREAMBLE_LEN + Len(data) .. TX_BUF_LEN - 6 /\ i >= PREAMBLE_LEN + n
          BY <1>2, <1>5, <2>2, <3>4, <4>2, Sizes
        <5>2. a[i] = buf[i] /\ buf[i] = Zero
          BY <1>4, <1>5, <5>1 DEF PaddingClear
        <5> HIDE DEF b, n
        <5> QED
          BY <3>1, <5>1, <5>2 DEF Filled
      <4> QED
        BY <4>1, <4>2
    <3> QED
      BY <3>2, <3>3, <3>4
  <2>3. CASE ~(n < last_frame_len)
    <3>1. b = a
      BY <2>3 DEF Cleared, a
    <3>2. ASSUME NEW i \in Offsets, i \in PREAMBLE_LEN + n .. TX_BUF_LEN - 6 PROVE a[i] = Zero
      <4>1. i \in PREAMBLE_LEN + Len(data) .. TX_BUF_LEN - 6 /\ i >= PREAMBLE_LEN + n
        BY <1>2, <1>5, <2>3, <3>2, Sizes
      <4> QED
        BY <1>4, <1>5, <4>1 DEF PaddingClear
    <3> HIDE DEF b
    <3> QED
      BY <1>4, <3>1, <3>2
  <2> QED
    BY <2>2, <2>3
<1> HIDE DEF b
<1>7. \A j \in 1 .. 5 : t[j] \in Byte
  BY TrailerBytes
<1> HIDE DEF t
<1>8. /\ buf' \in [Offsets -> Byte]
      /\ \A i \in 0 .. TX_BUF_LEN - 6 : buf'[i] = b[i]
      /\ \A j \in 1 .. 5 : buf'[TX_BUF_LEN - 6 + j] = t[j]
  <2>1. \A i \in Offsets : i >= TX_BUF_LEN - 5 => i - (TX_BUF_LEN - 5) + 1 \in 1 .. 5
    BY Sizes DEF Offsets
  <2>2. buf' \in [Offsets -> Byte]
    BY <1>1, <1>6, <1>7, <2>1
  <2>3. \A i \in 0 .. TX_BUF_LEN - 6 : i \in Offsets /\ ~(i >= TX_BUF_LEN - 5)
    BY Sizes DEF Offsets
  <2>4. ASSUME NEW j \in 1 .. 5 PROVE buf'[TX_BUF_LEN - 6 + j] = t[j]
    <3>1. /\ TX_BUF_LEN - 6 + j \in Offsets /\ TX_BUF_LEN - 6 + j >= TX_BUF_LEN - 5
          /\ (TX_BUF_LEN - 6 + j) - (TX_BUF_LEN - 5) + 1 = j
      BY Sizes DEF Offsets
    <3> QED
      BY <1>1, <3>1
  <2> QED
    BY <1>1, <2>2, <2>3, <2>4
<1>9. wire' \in Seq(Byte) /\ Len(wire') = 0
  BY <1>1
<1>10. TypeOK'
  BY <1>1, <1>2, <1>8, <1>9, Sizes DEF TypeOK, EthInv
<1>11. PreambleStands'
  <2>1. ASSUME NEW i \in 0 .. PREAMBLE_LEN - 1 PROVE buf'[i] = buf[i]
    <3>1. i \in Offsets /\ i < PREAMBLE_LEN /\ i < PREAMBLE_LEN + n /\ i \in 0 .. TX_BUF_LEN - 6
      BY <1>2, Sizes DEF Offsets
    <3> QED
      BY <1>4, <1>6, <1>8, <3>1
  <2> QED
    BY <1>5, <2>1 DEF PreambleStands, PreambleByte
<1>12. PaddingClear'
  <2>1. ASSUME NEW i \in PREAMBLE_LEN + n .. TX_BUF_LEN - 6 PROVE buf'[i] = Zero
    <3>1. i \in Offsets /\ i \in 0 .. TX_BUF_LEN - 6
      BY <1>2, Sizes DEF Offsets
    <3> QED
      BY <1>6, <1>8, <3>1
  <2> QED
    BY <1>1, <2>1 DEF PaddingClear
<1>13. DataStands'
  <2>1. ASSUME NEW i \in 1 .. n, i <= Limit PROVE buf'[PREAMBLE_LEN + i - 1] = bitmix(d[i])
    <3> DEFINE k == PREAMBLE_LEN + i - 1
    <3>1. /\ k \in Offsets /\ k \in 0 .. TX_BUF_LEN - 6 /\ k < PREAMBLE_LEN + n
          /\ k \in PREAMBLE_LEN .. PREAMBLE_LEN + n - 1 /\ k - PREAMBLE_LEN + 1 = i
      BY <1>2, <2>1, Sizes DEF Offsets
    <3> HIDE DEF k
    <3>2. buf'[k] = bitmix(d[i])
      BY <1>4, <1>6, <1>8, <3>1
    <3> QED
      BY <3>2 DEF k
  <2> QED
    BY <1>1, <2>1 DEF DataStands
<1>14. TrailerStands'
  BY <1>1, <1>8 DEF TrailerStands, t, Trailer, Covered
<1> QED
  BY <1>1, <1>9, <1>10, <1>11, <1>12, <1>13, <1>14, Sizes
     DEF EthInv, Transmitting, WireIsBuffer

\* The adapter sends the next byte of the buffer.
LEMMA SendInv ==
    ASSUME EthInv, Send
    PROVE  EthInv'
<1> DEFINE x == bitmix(buf[TX_BUF_LEN - left])
<1>1. /\ left > 0 /\ wire' = Append(wire, x) /\ left' = left - 1
      /\ buf' = buf /\ last_frame_len' = last_frame_len /\ inited' = inited /\ data' = data
  BY DEF Send, Busy
<1>2. /\ left \in 1 .. TX_BUF_LEN /\ wire \in Seq(Byte) /\ buf \in [Offsets -> Byte]
      /\ Len(wire) + left = TX_BUF_LEN /\ inited /\ DataStands /\ TrailerStands
      /\ PreambleStands /\ PaddingClear /\ WireIsBuffer
  BY <1>1, Sizes DEF EthInv, TypeOK, Transmitting
<1>3. x \in Byte
  <2>1. TX_BUF_LEN - left \in Offsets
    BY <1>2, Sizes DEF Offsets
  <2> QED
    BY <1>2, <2>1, BitmixByte
<1> HIDE DEF x
<1>4. /\ wire' \in Seq(Byte) /\ Len(wire') = Len(wire) + 1 /\ wire'[Len(wire) + 1] = x
      /\ \A i \in 1 .. Len(wire) : wire'[i] = wire[i]
      /\ Len(wire) \in Nat
  BY <1>1, <1>2, <1>3
<1>5. TypeOK'
  <2>1. left' \in 0 .. TX_BUF_LEN
    BY <1>1, <1>2, Sizes
  <2> QED
    BY <1>1, <1>4, <2>1 DEF EthInv, TypeOK
<1>6. WireIsBuffer'
  <2>1. ASSUME NEW i \in 1 .. Len(wire) + 1 PROVE wire'[i] = bitmix(buf[i - 1])
    <3>1. CASE i \in 1 .. Len(wire)
      BY <1>2, <1>4, <3>1 DEF WireIsBuffer
    <3>2. CASE i = Len(wire) + 1
      <4>1. i - 1 = TX_BUF_LEN - left
        BY <1>2, <1>4, <3>2, Sizes
      <4> QED
        BY <1>4, <3>2, <4>1 DEF x
    <3> QED
      BY <1>4, <3>1, <3>2
  <2> QED
    BY <1>1, <1>4, <2>1 DEF WireIsBuffer
<1>7. /\ PreambleStands' /\ PaddingClear' /\ DataStands' /\ TrailerStands'
  BY <1>1, <1>2 DEF PreambleStands, PaddingClear, DataStands, TrailerStands
<1>8. Len(wire') + left' = TX_BUF_LEN
  BY <1>1, <1>2, <1>4, Sizes, SMTT(40)
<1> QED
  BY <1>1, <1>2, <1>5, <1>6, <1>7, <1>8 DEF EthInv

\* The invariant of the transmitter holds in every state.
THEOREM SpecEthInv == Spec => []EthInv
<1>1. Init => EthInv
  BY InitInv
<1>2. EthInv /\ [Next]_vars => EthInv'
  <2> SUFFICES ASSUME EthInv, [Next]_vars PROVE EthInv'
    OBVIOUS
  <2>1. CASE UNCHANGED vars
    BY <2>1 DEF vars, EthInv, TypeOK, PreambleStands, PaddingClear, DataStands,
                TrailerStands, WireIsBuffer, Transmitting
  <2> QED
    BY <2>1, eth_initInv, eth_transmitInv, SendInv DEF Next
<1> QED
  BY <1>1, <1>2, PTL DEF Spec

\* The variables of the transmitter keep their types.
THEOREM TypeCorrect == Spec => []TypeOK
<1>1. EthInv => TypeOK
  BY DEF EthInv
<1> QED
  BY <1>1, SpecEthInv, PTL

-----------------------------------------------------------------------------
\* What a frame that was sent looks like on the wire, byte by byte.
LEMMA WireBytes ==
    ASSUME EthInv, Sent
    PROVE  /\ wire \in Seq(Byte) /\ Len(wire) = TX_BUF_LEN
           /\ data \in Seq(Byte) /\ Len(data) \in 0 .. Limit
           /\ \A i \in 1 .. PREAMBLE_LEN : wire[i] = PreambleByte(i - 1)
           /\ \A i \in 1 .. Limit :
                wire[PREAMBLE_LEN + i] = IF i <= Len(data) THEN data[i] ELSE Zero
           /\ \A j \in 1 .. 5 :
                wire[PREAMBLE_LEN + Limit + j] = bitmix(Trailer(Covered(data))[j])
<1>1. /\ wire \in Seq(Byte) /\ Len(wire) = TX_BUF_LEN /\ inited
      /\ data \in Seq(Bytes) /\ Len(data) <= Limit /\ Len(data) \in Nat
      /\ PreambleStands /\ PaddingClear /\ WireIsBuffer
  BY DEF EthInv, TypeOK, Sent
<1>2. wire # <<>>
  BY <1>1, Sizes
<1>3. DataStands /\ TrailerStands
  BY <1>2 DEF EthInv, Transmitting
<1>4. data \in Seq(Byte) /\ \A i \in 1 .. Len(data) : data[i] \in Byte
  BY <1>1, Sizes
<1>5. ASSUME NEW i \in 1 .. PREAMBLE_LEN PROVE wire[i] = PreambleByte(i - 1)
  <2>1. i \in 1 .. Len(wire) /\ i - 1 \in 0 .. PREAMBLE_LEN - 1
    BY <1>1, Sizes
  <2>2. wire[i] = bitmix(bitmix(PreambleByte(i - 1)))
    BY <1>1, <2>1 DEF WireIsBuffer, PreambleStands
  <2>3. PreambleByte(i - 1) \in Byte
    BY DEF PreambleByte, Byte, Bits
  <2> QED
    BY <2>2, <2>3, BitmixByte
<1>6. ASSUME NEW i \in 1 .. Limit
      PROVE  wire[PREAMBLE_LEN + i] = IF i <= Len(data) THEN data[i] ELSE Zero
  <2>1. PREAMBLE_LEN + i \in 1 .. Len(wire) /\ (PREAMBLE_LEN + i) - 1 = PREAMBLE_LEN + i - 1
    BY <1>1, Sizes
  <2>2. wire[PREAMBLE_LEN + i] = bitmix(buf[PREAMBLE_LEN + i - 1])
    BY <1>1, <2>1 DEF WireIsBuffer
  <2>3. CASE i <= Len(data)
    <3>1. i \in 1 .. Len(data) /\ i <= Limit
      BY <1>1, <2>3, Sizes
    <3>2. buf[PREAMBLE_LEN + i - 1] = bitmix(data[i])
      BY <1>3, <3>1 DEF DataStands
    <3>3. bitmix(bitmix(data[i])) = data[i]
      BY <1>4, <3>1, BitmixByte
    <3> QED
      BY <2>2, <2>3, <3>2, <3>3
  <2>4. CASE ~(i <= Len(data))
    <3>1. PREAMBLE_LEN + i - 1 \in PREAMBLE_LEN + Len(data) .. TX_BUF_LEN - 6
      BY <1>1, <2>4, Sizes
    <3>2. buf[PREAMBLE_LEN + i - 1] = Zero
      BY <1>1, <3>1 DEF PaddingClear
    <3>3. bitmix(Zero) = Zero
      BY DEF bitmix, Zero
    <3> QED
      BY <2>2, <2>4, <3>2, <3>3
  <2> QED
    BY <2>3, <2>4
<1>7. ASSUME NEW j \in 1 .. 5
      PROVE  wire[PREAMBLE_LEN + Limit + j] = bitmix(Trailer(Covered(data))[j])
  <2>1. /\ PREAMBLE_LEN + Limit + j \in 1 .. Len(wire)
        /\ (PREAMBLE_LEN + Limit + j) - 1 = TX_BUF_LEN - 6 + j
    BY <1>1, Sizes
  <2> QED
    BY <1>1, <1>3, <2>1 DEF WireIsBuffer, TrailerStands
<1>8. Len(data) \in 0 .. Limit
  BY <1>1, Sizes
<1> QED
  BY <1>1, <1>4, <1>5, <1>6, <1>7, <1>8

\* The parts of the wire: SubSeq of what was sent.
LEMMA FrameBytes ==
    ASSUME EthInv, Sent
    PROVE  /\ Frame \in Seq(Byte) /\ Len(Frame) = Limit + 5
           /\ \A i \in 1 .. Limit + 5 : Frame[i] = wire[PREAMBLE_LEN + i]
<1>1. wire \in Seq(Byte) /\ Len(wire) = TX_BUF_LEN
  BY WireBytes
<1>2. /\ PREAMBLE_LEN + 1 \in 1 .. Len(wire) + 1 /\ TX_BUF_LEN \in 0 .. Len(wire)
      /\ TX_BUF_LEN - (PREAMBLE_LEN + 1) + 1 = Limit + 5
  BY <1>1, Sizes
<1> QED
  BY <1>1, <1>2, Sizes DEF Frame

\* eth.c:25: the wire carries the preamble, the data and zeroes; nothing of an
\* earlier frame, for frames of every length in every order.
THEOREM NothingOfEarlierFrames == Spec => []WireFrameIntact
<1>1. EthInv => WireFrameIntact
  <2> SUFFICES ASSUME EthInv, Sent
               PROVE  /\ SubSeq(wire, 1, PREAMBLE_LEN) =
                           [i \in 1 .. PREAMBLE_LEN |->
                               IF i = PREAMBLE_LEN THEN {0, 2, 4, 6, 7} ELSE {0, 2, 4, 6}]
                      /\ SubSeq(Frame, 1, Limit) =
                           [i \in 1 .. Limit |-> IF i <= Len(data) THEN data[i] ELSE Zero]
    BY DEF WireFrameIntact
  <2>1. wire \in Seq(Byte) /\ Len(wire) = TX_BUF_LEN /\ PREAMBLE_LEN \in 0 .. Len(wire)
    BY WireBytes, Sizes
  <2>2. SubSeq(wire, 1, PREAMBLE_LEN) = [i \in 1 .. PREAMBLE_LEN |-> wire[i]]
    BY <2>1, Sizes
  <2>3. \A i \in 1 .. PREAMBLE_LEN :
            wire[i] = IF i = PREAMBLE_LEN THEN {0, 2, 4, 6, 7} ELSE {0, 2, 4, 6}
    BY WireBytes, Sizes DEF PreambleByte
  <2>4. Frame \in Seq(Byte) /\ Len(Frame) = Limit + 5 /\ Limit \in 0 .. Len(Frame)
    BY FrameBytes, Sizes
  <2>5. SubSeq(Frame, 1, Limit) = [i \in 1 .. Limit |-> Frame[i]]
    BY <2>4, Sizes
  <2>6. \A i \in 1 .. Limit : Frame[i] = IF i <= Len(data) THEN data[i] ELSE Zero
    <3>1. \A i \in 1 .. Limit : i \in 1 .. Limit + 5
      BY Sizes
    <3> QED
      BY <3>1, FrameBytes, WireBytes
  <2> QED
    BY <2>2, <2>3, <2>5, <2>6
<1> QED
  BY <1>1, SpecEthInv, PTL

-----------------------------------------------------------------------------
\* A byte of the complemented register.
LEMMA OctetOfComplement ==
    ASSUME NEW c \in Word32, NEW n \in 0 .. 24
    PROVE  Octet(Ones \ c, n) = Not(Octet(c, n))
<1>1. c \in SUBSET Nat /\ Ones \ c \in SUBSET Nat /\ n \in Nat
  BY DEF Word32, Bits, Ones
<1>2. ASSUME NEW k \in 0 .. 7 PROVE k \in Octet(Ones \ c, n) <=> k \notin Octet(c, n)
  <2>1. k \in Nat /\ k + n \in Ones
    BY DEF Ones, Bits
  <2>2. k \in ShiftRight(Ones \ c, n) <=> k + n \in Ones \ c
    BY <1>1, <2>1, ShiftRightBits
  <2>3. k \in ShiftRight(c, n) <=> k + n \in c
    BY <1>1, <2>1, ShiftRightBits
  <2> QED
    BY <2>1, <2>2, <2>3 DEF Octet, Bits
<1>3. Octet(Ones \ c, n) \subseteq 0 .. 7 /\ Octet(c, n) \subseteq 0 .. 7
  BY DEF Octet, Bits
<1> QED
  BY <1>2, <1>3 DEF Not, Bits

\* eth.c:36: after the adjusting byte the top byte of the register is 0xff.
LEMMA TopByteSet ==
    ASSUME NEW c \in Word32
    PROVE  Adjusted(c) \in Byte /\ Octet(Step(c, Adjusted(c)), 24) = Bits(8)
<1> DEFINE entry == {0, 3, 4, 6, 7}
           low == Octet(c, 0)
           T == Table[entry]
<1>1. low \in Byte /\ entry \in Byte
  BY DEF Octet, Byte, Bits
<1>2. Adjusted(c) = Xor(entry, low) /\ Adjusted(c) \in Byte
  <2>1. Adjusted(c) = Xor(entry, low)
    BY DEF Adjusted
  <2> HIDE DEF entry, low
  <2>2. Xor(entry, low) \subseteq entry \cup low
    BY XorBits
  <2> QED
    BY <1>1, <2>1, <2>2 DEF Byte
<1>3. Xor(low, Xor(entry, low)) = entry
  <2> HIDE DEF entry, low
  <2> QED
    BY DEF Xor
<1>4. Step(c, Adjusted(c)) = Xor(ShiftRight(c, 8), T)
  <2> HIDE DEF entry
  <2> QED
    BY <1>2, <1>3 DEF Step
<1>5. T = {4, 5, 6, 9, 11, 13, 14, 16, 17, 18, 19, 24, 25, 26, 27, 28, 29, 30, 31}
  BY TableEntryD9
<1>6. c \in SUBSET Nat /\ ShiftRight(c, 8) \in SUBSET Nat /\ T \in SUBSET Nat
  <2>1. c \in SUBSET Nat
    BY DEF Word32, Bits
  <2> QED
    BY <1>5, <2>1, ShiftRightBits, SMTT(40)
<1> DEFINE r == Xor(ShiftRight(c, 8), T)
<1>7. r \in SUBSET Nat
  <2>1. r \subseteq ShiftRight(c, 8) \cup T
    BY XorBits
  <2> HIDE DEF r, T
  <2> QED
    BY <1>6, <2>1
<1>8. ASSUME NEW k \in 0 .. 7 PROVE k \in Octet(r, 24)
  <2>1. k + 24 \in T
    BY <1>5
  <2>2. (k + 24) + 8 \notin c /\ k + 24 \in Nat
    BY DEF Word32, Bits
  <2> HIDE DEF T
  <2>3. k + 24 \notin ShiftRight(c, 8)
    BY <1>6, <2>2, ShiftRightBits
  <2>4. k + 24 \in r
    BY <2>1, <2>3, XorBits
  <2> HIDE DEF r
  <2>5. k \in ShiftRight(r, 24)
    BY <1>7, <2>4, ShiftRightBits
  <2> QED
    BY <2>5 DEF Octet, Bits
<1>9. Octet(r, 24) \subseteq 0 .. 7
  BY DEF Octet, Bits
<1> HIDE DEF r
<1>10. Octet(r, 24) = Bits(8)
  BY <1>8, <1>9 DEF Bits
<1> QED
  BY <1>2, <1>4, <1>10 DEF r

\* The register after everything between the preamble and the check sequence.
LEMMA FrameRegister ==
    ASSUME EthInv, Sent
    PROVE  LET c == Covered(data) IN
           /\ c \in Word32 /\ SubSeq(Frame, 1, Body) \in Seq(Byte)
           /\ crc_update(Ones, SubSeq(Frame, 1, Body)) = crc_update(c, <<Adjusted(c)>>)
<1> DEFINE c == Covered(data)
           adj == Adjusted(c)
           m == Limit - Len(data)
           z == [i \in 1 .. m |-> Zero]
           s == SubSeq(Frame, 1, Body)
<1>1. /\ data \in Seq(Byte) /\ Len(data) \in 0 .. Limit /\ Limit \in Nat /\ Body = Limit + 1
      /\ m \in Nat /\ m % Word = m
  <2>1. data \in Seq(Byte) /\ Len(data) \in 0 .. Limit /\ Limit \in Nat /\ Body = Limit + 1
    BY WireBytes, Sizes
  <2>2. m \in Nat /\ m < Word /\ Word \in Nat
    BY <2>1, Sizes
  <2>3. m % Word = m
    <3> HIDE DEF m
    <3> QED
      BY <2>2
  <2> QED
    BY <2>1, <2>2, <2>3
<1>2. z \in Seq(Byte) /\ Len(z) = m /\ \A i \in 1 .. m : z[i] = Zero
  <2>1. Zero \in Byte
    BY DEF Zero, Byte
  <2> HIDE DEF m
  <2> QED
    BY <1>1, <2>1
<1>3. Ones \in Word32
  BY DEF Ones, Word32
<1>4. c = crc_update(crc_update(Ones, data), z)
  BY <1>1 DEF Covered, crc_update_zeroes
<1> HIDE DEF z, c
<1>5. c = crc_update(Ones, data \o z)
  BY <1>1, <1>2, <1>3, <1>4, UpdateInParts
<1>6. data \o z \in Seq(Byte) /\ Len(data \o z) = Limit
      /\ \A i \in 1 .. Limit :
            (data \o z)[i] = IF i <= Len(data) THEN data[i] ELSE Zero
  <2>1. ASSUME NEW i \in 1 .. Limit, ~(i <= Len(data))
        PROVE  i - Len(data) \in 1 .. m /\ i = Len(data) + (i - Len(data))
    BY <1>1, <2>1
  <2>2. Len(data) + m = Limit
    BY <1>1
  <2> HIDE DEF m
  <2> QED
    BY <1>1, <1>2, <2>1, <2>2
<1>7. c \in Word32 /\ adj \in Byte
  <2>1. c \in Word32
    BY <1>3, <1>5, <1>6, UpdateType
  <2> QED
    BY <2>1, TopByteSet
<1>8. Frame[Body] = adj
  <2>1. Body \in 1 .. Limit + 5 /\ PREAMBLE_LEN + Body = PREAMBLE_LEN + Limit + 1
    BY <1>1, Sizes
  <2>2. Frame[Body] = bitmix(Trailer(c)[1])
    BY <2>1, FrameBytes, WireBytes DEF c
  <2>3. Trailer(c)[1] = bitmix(adj)
    BY DEF Trailer
  <2> QED
    BY <1>7, <2>2, <2>3, BitmixByte
<1> HIDE DEF adj
<1>9. s \in Seq(Byte) /\ s = (data \o z) \o <<adj>>
  <2>1. Frame \in Seq(Byte) /\ Len(Frame) = Limit + 5 /\ Body \in 0 .. Len(Frame)
    BY <1>1, FrameBytes
  <2>2. s \in Seq(Byte) /\ Len(s) = Limit + 1 /\ \A i \in 1 .. Limit + 1 : s[i] = Frame[i]
    BY <1>1, <2>1
  <2>3. \A i \in 1 .. Limit : s[i] = (data \o z)[i]
    <3>1. \A i \in 1 .. Limit : i \in 1 .. Limit + 5 /\ i \in 1 .. Limit + 1
      BY <1>1
    <3> QED
      BY <1>6, <2>2, <3>1, FrameBytes, WireBytes
  <2>4. s[Limit + 1] = adj
    BY <1>1, <1>8, <2>2
  <2> DEFINE u == data \o z
  <2>5. u \in Seq(Byte) /\ Len(u) = Limit /\ \A i \in 1 .. Limit : s[i] = u[i]
    BY <1>6, <2>3
  <2> HIDE DEF u, s
  <2>6. s = u \o <<adj>>
    <3>1. u \o <<adj>> \in Seq(Byte) /\ Len(u \o <<adj>>) = Limit + 1
          /\ \A i \in 1 .. Limit + 1 : (u \o <<adj>>)[i] = IF i <= Limit THEN u[i] ELSE adj
      BY <1>1, <1>7, <2>5, SMTT(40)
    <3> DEFINE v == u \o <<adj>>
    <3>2. \A i \in 1 .. Limit + 1 : s[i] = v[i]
      BY <1>1, <2>4, <2>5, <3>1
    <3> HIDE DEF v
    <3>3. v \in Seq(Byte) /\ Len(v) = Limit + 1
      BY <3>1 DEF v
    <3> QED
      BY <2>2, <3>2, <3>3 DEF v
  <2> QED
    BY <2>2, <2>6 DEF u
<1>10. crc_update(Ones, (data \o z) \o <<adj>>) = crc_update(c, <<adj>>)
  <2> DEFINE u == data \o z
  <2>1. u \in Seq(Byte) /\ c = crc_update(Ones, u) /\ <<adj>> \in Seq(Byte)
    BY <1>5, <1>6, <1>7
  <2> HIDE DEF u
  <2>2. crc_update(Ones, u \o <<adj>>) = crc_update(c, <<adj>>)
    BY <1>3, <2>1, UpdateInParts
  <2> QED
    BY <2>2 DEF u
<1> QED
  BY <1>7, <1>9, <1>10 DEF c, adj

\* The check sequence on the wire.
LEMMA FrameCheckSequence ==
    ASSUME EthInv, Sent
    PROVE  LET crc == crc_update(Ones, SubSeq(Frame, 1, Body)) IN
           /\ crc \in Word32 /\ Octet(crc, 24) = Bits(8)
           /\ \A j \in 1 .. 4 : Frame[Body + j] = Octet(Ones \ crc, 8 * (j - 1))
<1> DEFINE c == Covered(data)
           adj == Adjusted(c)
           crc == crc_update(Ones, SubSeq(Frame, 1, Body))
           t == Trailer(c)
<1>1. c \in Word32 /\ crc = crc_update(c, <<adj>>)
  BY FrameRegister
<1>2. crc = Step(c, adj) /\ crc \in Word32 /\ Octet(crc, 24) = Bits(8)
  <2>1. adj \in Byte /\ Octet(Step(c, adj), 24) = Bits(8)
    BY <1>1, TopByteSet
  <2> HIDE DEF c, adj, crc
  <2> QED
    BY <1>1, <2>1, UpdateByte
<1>3. /\ t[2] = Not(bitmix(Octet(crc, 0))) /\ t[3] = Not(bitmix(Octet(crc, 8)))
      /\ t[4] = Not(bitmix(Octet(crc, 16))) /\ t[5] = Zero
  <2>1. t = <<bitmix(adj), Not(bitmix(Octet(crc, 0))), Not(bitmix(Octet(crc, 8))),
              Not(bitmix(Octet(crc, 16))), Zero>>
    BY <1>1 DEF Trailer
  <2> HIDE DEF t, crc, adj
  <2> QED
    BY <2>1
<1>4. \A j \in 1 .. 4 : Frame[Body + j] = bitmix(t[j + 1])
  <2>1. \A j \in 1 .. 4 :
           /\ Body + j \in 1 .. Limit + 5 /\ j + 1 \in 1 .. 5
           /\ PREAMBLE_LEN + (Body + j) = PREAMBLE_LEN + Limit + (j + 1)
    BY Sizes
  <2> QED
    BY <2>1, FrameBytes, WireBytes
<1> HIDE DEF t, crc, c, adj
<1>5. \A n \in {0, 8, 16, 24} : Octet(crc, n) \in Byte /\ Octet(Ones \ crc, n) = Not(Octet(crc, n))
  <2>1. \A n \in {0, 8, 16, 24} : n \in 0 .. 24
    OBVIOUS
  <2>2. \A n \in {0, 8, 16, 24} : Octet(crc, n) \in Byte
    BY DEF Octet, Byte
  <2> QED
    BY <1>2, <2>1, <2>2, OctetOfComplement
<1>6. /\ bitmix(t[2]) = Octet(Ones \ crc, 0) /\ bitmix(t[3]) = Octet(Ones \ crc, 8)
      /\ bitmix(t[4]) = Octet(Ones \ crc, 16)
  BY <1>3, <1>5, BitmixByte
<1>7. bitmix(t[5]) = Octet(Ones \ crc, 24)
  <2>1. Octet(Ones \ crc, 24) = {}
    BY <1>2, <1>5 DEF Not
  <2>2. bitmix(Zero) = {}
    BY DEF bitmix, Zero
  <2> QED
    BY <1>3, <2>1, <2>2
<1>8. /\ Frame[Body + 1] = Octet(Ones \ crc, 0) /\ Frame[Body + 2] = Octet(Ones \ crc, 8)
      /\ Frame[Body + 3] = Octet(Ones \ crc, 16) /\ Frame[Body + 4] = Octet(Ones \ crc, 24)
  <2>1. /\ Frame[Body + 1] = bitmix(t[1 + 1]) /\ Frame[Body + 2] = bitmix(t[2 + 1])
        /\ Frame[Body + 3] = bitmix(t[3 + 1]) /\ Frame[Body + 4] = bitmix(t[4 + 1])
    BY <1>4
  <2> QED
    BY <1>6, <1>7, <2>1
<1>9. ASSUME NEW j \in 1 .. 4 PROVE Frame[Body + j] = Octet(Ones \ crc, 8 * (j - 1))
  <2>1. /\ j = 1 => 8 * (j - 1) = 0
        /\ j = 2 => 8 * (j - 1) = 8
        /\ j = 3 => 8 * (j - 1) = 16
        /\ j = 4 => 8 * (j - 1) = 24
    OBVIOUS
  <2> QED
    BY <1>8, <2>1
<1> QED
  BY <1>2, <1>9 DEF crc

\* eth.c:36: the check sequence on the wire is the CRC-32 of everything between
\* the preamble and it, and its last byte is 0x00, for every buffer and frame.
THEOREM CheckSequenceCorrect == Spec => []FcsCorrect
<1>1. EthInv => FcsCorrect
  <2> SUFFICES ASSUME EthInv, Sent
               PROVE  LET fcs == ReferenceCrc(SubSeq(Frame, 1, Body)) IN
                      /\ SubSeq(Frame, Body + 1, Body + FCS_LEN) =
                             [i \in 1 .. FCS_LEN |-> Octet(fcs, 8 * (i - 1))]
                      /\ Octet(fcs, 24) = Zero
    BY DEF FcsCorrect
  <2> DEFINE s == SubSeq(Frame, 1, Body)
             crc == crc_update(Ones, s)
             fcs == ReferenceCrc(s)
  <2>1. fcs = Ones \ crc
    BY FrameRegister, TableComputesCrc
  <2>2. /\ crc \in Word32 /\ Octet(crc, 24) = Bits(8)
        /\ \A j \in 1 .. 4 : Frame[Body + j] = Octet(Ones \ crc, 8 * (j - 1))
    BY FrameCheckSequence
  <2> HIDE DEF fcs, crc
  <2>3. Octet(fcs, 24) = Zero
    <3>1. Octet(Ones \ crc, 24) = Not(Octet(crc, 24))
      <4>1. 24 \in 0 .. 24
        OBVIOUS
      <4> QED
        BY <2>2, <4>1, OctetOfComplement
    <3>2. Not(Bits(8)) = Zero
      BY DEF Not, Zero
    <3> QED
      BY <2>1, <2>2, <3>1, <3>2
  <2>4. Frame \in Seq(Byte) /\ Len(Frame) = Body + 4 /\ Body \in Nat
    BY FrameBytes, Sizes
  <2>5. SubSeq(Frame, Body + 1, Body + FCS_LEN) =
            [i \in 1 .. FCS_LEN |-> Octet(fcs, 8 * (i - 1))]
    <3> DEFINE f == Frame
               n == Body
               g == SubSeq(f, n + 1, n + 4)
    <3>1. g \in Seq(Byte) /\ Len(g) = 4 /\ \A i \in 1 .. 4 : g[i] = f[n + i]
      <4>1. f \in Seq(Byte) /\ Len(f) = n + 4 /\ n \in Nat
        BY <2>4
      <4> HIDE DEF f, n
      <4>2. g \in Seq(Byte) /\ Len(g) = 4
        BY <4>1
      <4>3. ASSUME NEW i \in 1 .. 4 PROVE g[i] = f[n + i]
        <5>1. g[i] = f[n + 1 + i - 1]
          BY <4>1
        <5>2. n + 1 + i - 1 = n + i
          BY <4>1
        <5> QED
          BY <5>1, <5>2
      <4> QED
        BY <4>2, <4>3
    <3> HIDE DEF g
    <3>2. g = [i \in 1 .. 4 |-> Octet(fcs, 8 * (i - 1))]
      BY <2>1, <2>2, <3>1
    <3> QED
      BY <3>2 DEF f, n, g, FCS_LEN
  <2> QED
    BY <2>3, <2>5 DEF fcs
<1> QED
  BY <1>1, SpecEthInv, PTL

\* f has the length of s and t together, its first n bytes are those of s and
\* the m behind them those of t.
Joined(f, s, t, n, m) ==
    /\ n \in Nat /\ m \in Nat
    /\ f \in Seq(Byte) /\ s \in Seq(Byte) /\ t \in Seq(Byte)
    /\ Len(s) = n /\ Len(t) = m /\ Len(f) = n + m
    /\ \A i \in 1 .. n : s[i] = f[i]
    /\ \A j \in 1 .. m : t[j] = f[n + j]

\* A sequence that agrees with s and then with t is s followed by t.
LEMMA SplitInTwo ==
    ASSUME NEW f, NEW s, NEW t, NEW n, NEW m, Joined(f, s, t, n, m)
    PROVE  f = s \o t
<1> USE DEF Joined
<1> DEFINE u == s \o t
<1>1. u \in Seq(Byte) /\ Len(u) = n + m
  OBVIOUS
<1>2. ASSUME NEW i \in 1 .. n PROVE u[i] = f[i]
  OBVIOUS
<1>3. ASSUME NEW i \in n + 1 .. n + m PROVE u[i] = f[i]
  <2>1. i - n \in 1 .. m /\ n + (i - n) = i
    OBVIOUS
  <2>2. u[i] = t[i - n]
    <3>1. i \in 1 .. Len(s) + Len(t) /\ ~ (i <= Len(s))
      OBVIOUS
    <3> QED
      BY <3>1, ConcatProperties
  <2> QED
    BY <2>1, <2>2
<1> HIDE DEF u
<1>4. \A i \in 1 .. n + m : u[i] = f[i]
  BY <1>2, <1>3
<1>5. u = f
  BY <1>1, <1>4
<1> QED
  BY <1>5 DEF u

\* crc.asm:21: crc_check_relaxed accepts every frame that eth_transmit sends, with
\* or without a byte behind it.
THEOREM OwnFramesAccepted == Spec => [](Sent => AcceptsFrame)
<1>1. EthInv => (Sent => AcceptsFrame)
  <2> SUFFICES ASSUME EthInv, Sent PROVE AcceptsFrame
    OBVIOUS
  <2> DEFINE s == SubSeq(Frame, 1, Body)
             crc == crc_update(Ones, s)
             t == CheckSequence(crc)
  <2>1. s \in Seq(Byte)
    BY FrameRegister
  <2>2. /\ crc \in Word32
        /\ \A j \in 1 .. 4 : Frame[Body + j] = Octet(Ones \ crc, 8 * (j - 1))
    BY FrameCheckSequence
  <2>3. Frame \in Seq(Byte) /\ Len(Frame) = Body + 4 /\ Body \in Nat
    BY FrameBytes, Sizes
  <2>4. Len(s) = Body /\ \A i \in 1 .. Body : s[i] = Frame[i]
    BY <2>3
  <2>5. t \in Seq(Byte) /\ Len(t) = 4 /\ \A j \in 1 .. 4 : t[j] = Frame[Body + j]
    <3>1. t \in Seq(Byte)
      BY <2>2, ResidueAfterCheckSequence
    <3> QED
      BY <2>2, <3>1 DEF CheckSequence
  <2> HIDE DEF s, t
  <2>6. Frame = s \o t
    <3> DEFINE f == Frame
               n == Body
    <3>1. n \in Nat /\ s \in Seq(Byte) /\ Len(s) = n /\ t \in Seq(Byte) /\ Len(t) = 4
      BY <2>1, <2>3, <2>4, <2>5
    <3>2. f \in Seq(Byte) /\ Len(f) = n + 4 /\ 4 \in Nat
      BY <2>3
    <3>3. (\A i \in 1 .. n : s[i] = f[i]) /\ \A j \in 1 .. 4 : t[j] = f[n + j]
      BY <2>4, <2>5
    <3> HIDE DEF f, n
    <3>4. Joined(f, s, t, n, 4)
      BY <3>1, <3>2, <3>3 DEF Joined
    <3>5. f = s \o t
      BY <3>4, SplitInTwo
    <3> QED
      BY <3>5 DEF f
  <2>7. /\ crc_check_relaxed(s \o t)
        /\ \A byte \in Byte : crc_check_relaxed(Append(s \o t, byte))
    BY <2>1, OwnCheckSequenceAccepted DEF t
  <2> QED
    BY <2>6, <2>7, Sizes DEF AcceptsFrame
<1> QED
  BY <1>1, SpecEthInv, PTL
=============================================================================
