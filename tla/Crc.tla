-------------------------------- MODULE Crc ---------------------------------
(***************************************************************************)
(* The CRC-32 of lib/crc.asm.  A byte is the set of its bits that are one, *)
(* a subset of 0..7, and the 32-bit register a subset of 0..31: exclusive  *)
(* or is then the symmetric difference and a shift renumbers the bits.     *)
(***************************************************************************)
EXTENDS Integers, Sequences

Bits(n) == 0 .. n - 1
Byte == SUBSET Bits(8)
Zero == {}

Xor(a, b) == (a \ b) \cup (b \ a)
Not(byte) == Bits(8) \ byte
ShiftRight(a, n) == {i - n : i \in {j \in a : j >= n}}

\* The byte of register c that holds bits n .. n + 7.
Octet(c, n) == ShiftRight(c, n) \cap Bits(8)

\* 0xEDB88320, and the initial value 0xffffffff.
Polynomial == {5, 8, 9, 15, 19, 20, 21, 23, 24, 26, 27, 29, 30, 31}
Ones == Bits(32)

\* One shift of the register.
Shift(c) == IF 0 \in c THEN Xor(ShiftRight(c, 1), Polynomial) ELSE ShiftRight(c, 1)

EightShifts(c) == Shift(Shift(Shift(Shift(Shift(Shift(Shift(Shift(c))))))))

\* The tables: bits 0 .. 7, 8 .. 15, 16 .. 23 and 24 .. 31 of the entry of each byte.
crc_table_0 == <<
    \h00, \h96, \h2C, \hBA, \h19, \h8F, \h35, \hA3, \h32, \hA4, \h1E, \h88, \h2B, \hBD, \h07, \h91,
    \h64, \hF2, \h48, \hDE, \h7D, \hEB, \h51, \hC7, \h56, \hC0, \h7A, \hEC, \h4F, \hD9, \h63, \hF5,
    \hC8, \h5E, \hE4, \h72, \hD1, \h47, \hFD, \h6B, \hFA, \h6C, \hD6, \h40, \hE3, \h75, \hCF, \h59,
    \hAC, \h3A, \h80, \h16, \hB5, \h23, \h99, \h0F, \h9E, \h08, \hB2, \h24, \h87, \h11, \hAB, \h3D,
    \h90, \h06, \hBC, \h2A, \h89, \h1F, \hA5, \h33, \hA2, \h34, \h8E, \h18, \hBB, \h2D, \h97, \h01,
    \hF4, \h62, \hD8, \h4E, \hED, \h7B, \hC1, \h57, \hC6, \h50, \hEA, \h7C, \hDF, \h49, \hF3, \h65,
    \h58, \hCE, \h74, \hE2, \h41, \hD7, \h6D, \hFB, \h6A, \hFC, \h46, \hD0, \h73, \hE5, \h5F, \hC9,
    \h3C, \hAA, \h10, \h86, \h25, \hB3, \h09, \h9F, \h0E, \h98, \h22, \hB4, \h17, \h81, \h3B, \hAD,
    \h20, \hB6, \h0C, \h9A, \h39, \hAF, \h15, \h83, \h12, \h84, \h3E, \hA8, \h0B, \h9D, \h27, \hB1,
    \h44, \hD2, \h68, \hFE, \h5D, \hCB, \h71, \hE7, \h76, \hE0, \h5A, \hCC, \h6F, \hF9, \h43, \hD5,
    \hE8, \h7E, \hC4, \h52, \hF1, \h67, \hDD, \h4B, \hDA, \h4C, \hF6, \h60, \hC3, \h55, \hEF, \h79,
    \h8C, \h1A, \hA0, \h36, \h95, \h03, \hB9, \h2F, \hBE, \h28, \h92, \h04, \hA7, \h31, \h8B, \h1D,
    \hB0, \h26, \h9C, \h0A, \hA9, \h3F, \h85, \h13, \h82, \h14, \hAE, \h38, \h9B, \h0D, \hB7, \h21,
    \hD4, \h42, \hF8, \h6E, \hCD, \h5B, \hE1, \h77, \hE6, \h70, \hCA, \h5C, \hFF, \h69, \hD3, \h45,
    \h78, \hEE, \h54, \hC2, \h61, \hF7, \h4D, \hDB, \h4A, \hDC, \h66, \hF0, \h53, \hC5, \h7F, \hE9,
    \h1C, \h8A, \h30, \hA6, \h05, \h93, \h29, \hBF, \h2E, \hB8, \h02, \h94, \h37, \hA1, \h1B, \h8D>>

crc_table_1 == <<
    \h00, \h30, \h61, \h51, \hC4, \hF4, \hA5, \h95, \h88, \hB8, \hE9, \hD9, \h4C, \h7C, \h2D, \h1D,
    \h10, \h20, \h71, \h41, \hD4, \hE4, \hB5, \h85, \h98, \hA8, \hF9, \hC9, \h5C, \h6C, \h3D, \h0D,
    \h20, \h10, \h41, \h71, \hE4, \hD4, \h85, \hB5, \hA8, \h98, \hC9, \hF9, \h6C, \h5C, \h0D, \h3D,
    \h30, \h00, \h51, \h61, \hF4, \hC4, \h95, \hA5, \hB8, \h88, \hD9, \hE9, \h7C, \h4C, \h1D, \h2D,
    \h41, \h71, \h20, \h10, \h85, \hB5, \hE4, \hD4, \hC9, \hF9, \hA8, \h98, \h0D, \h3D, \h6C, \h5C,
    \h51, \h61, \h30, \h00, \h95, \hA5, \hF4, \hC4, \hD9, \hE9, \hB8, \h88, \h1D, \h2D, \h7C, \h4C,
    \h61, \h51, \h00, \h30, \hA5, \h95, \hC4, \hF4, \hE9, \hD9, \h88, \hB8, \h2D, \h1D, \h4C, \h7C,
    \h71, \h41, \h10, \h20, \hB5, \h85, \hD4, \hE4, \hF9, \hC9, \h98, \hA8, \h3D, \h0D, \h5C, \h6C,
    \h83, \hB3, \hE2, \hD2, \h47, \h77, \h26, \h16, \h0B, \h3B, \h6A, \h5A, \hCF, \hFF, \hAE, \h9E,
    \h93, \hA3, \hF2, \hC2, \h57, \h67, \h36, \h06, \h1B, \h2B, \h7A, \h4A, \hDF, \hEF, \hBE, \h8E,
    \hA3, \h93, \hC2, \hF2, \h67, \h57, \h06, \h36, \h2B, \h1B, \h4A, \h7A, \hEF, \hDF, \h8E, \hBE,
    \hB3, \h83, \hD2, \hE2, \h77, \h47, \h16, \h26, \h3B, \h0B, \h5A, \h6A, \hFF, \hCF, \h9E, \hAE,
    \hC2, \hF2, \hA3, \h93, \h06, \h36, \h67, \h57, \h4A, \h7A, \h2B, \h1B, \h8E, \hBE, \hEF, \hDF,
    \hD2, \hE2, \hB3, \h83, \h16, \h26, \h77, \h47, \h5A, \h6A, \h3B, \h0B, \h9E, \hAE, \hFF, \hCF,
    \hE2, \hD2, \h83, \hB3, \h26, \h16, \h47, \h77, \h6A, \h5A, \h0B, \h3B, \hAE, \h9E, \hCF, \hFF,
    \hF2, \hC2, \h93, \hA3, \h36, \h06, \h57, \h67, \h7A, \h4A, \h1B, \h2B, \hBE, \h8E, \hDF, \hEF>>

crc_table_2 == <<
    \h00, \h07, \h0E, \h09, \h6D, \h6A, \h63, \h64, \hDB, \hDC, \hD5, \hD2, \hB6, \hB1, \hB8, \hBF,
    \hB7, \hB0, \hB9, \hBE, \hDA, \hDD, \hD4, \hD3, \h6C, \h6B, \h62, \h65, \h01, \h06, \h0F, \h08,
    \h6E, \h69, \h60, \h67, \h03, \h04, \h0D, \h0A, \hB5, \hB2, \hBB, \hBC, \hD8, \hDF, \hD6, \hD1,
    \hD9, \hDE, \hD7, \hD0, \hB4, \hB3, \hBA, \hBD, \h02, \h05, \h0C, \h0B, \h6F, \h68, \h61, \h66,
    \hDC, \hDB, \hD2, \hD5, \hB1, \hB6, \hBF, \hB8, \h07, \h00, \h09, \h0E, \h6A, \h6D, \h64, \h63,
    \h6B, \h6C, \h65, \h62, \h06, \h01, \h08, \h0F, \hB0, \hB7, \hBE, \hB9, \hDD, \hDA, \hD3, \hD4,
    \hB2, \hB5, \hBC, \hBB, \hDF, \hD8, \hD1, \hD6, \h69, \h6E, \h67, \h60, \h04, \h03, \h0A, \h0D,
    \h05, \h02, \h0B, \h0C, \h68, \h6F, \h66, \h61, \hDE, \hD9, \hD0, \hD7, \hB3, \hB4, \hBD, \hBA,
    \hB8, \hBF, \hB6, \hB1, \hD5, \hD2, \hDB, \hDC, \h63, \h64, \h6D, \h6A, \h0E, \h09, \h00, \h07,
    \h0F, \h08, \h01, \h06, \h62, \h65, \h6C, \h6B, \hD4, \hD3, \hDA, \hDD, \hB9, \hBE, \hB7, \hB0,
    \hD6, \hD1, \hD8, \hDF, \hBB, \hBC, \hB5, \hB2, \h0D, \h0A, \h03, \h04, \h60, \h67, \h6E, \h69,
    \h61, \h66, \h6F, \h68, \h0C, \h0B, \h02, \h05, \hBA, \hBD, \hB4, \hB3, \hD7, \hD0, \hD9, \hDE,
    \h64, \h63, \h6A, \h6D, \h09, \h0E, \h07, \h00, \hBF, \hB8, \hB1, \hB6, \hD2, \hD5, \hDC, \hDB,
    \hD3, \hD4, \hDD, \hDA, \hBE, \hB9, \hB0, \hB7, \h08, \h0F, \h06, \h01, \h65, \h62, \h6B, \h6C,
    \h0A, \h0D, \h04, \h03, \h67, \h60, \h69, \h6E, \hD1, \hD6, \hDF, \hD8, \hBC, \hBB, \hB2, \hB5,
    \hBD, \hBA, \hB3, \hB4, \hD0, \hD7, \hDE, \hD9, \h66, \h61, \h68, \h6F, \h0B, \h0C, \h05, \h02>>

crc_table_3 == <<
    \h00, \h77, \hEE, \h99, \h07, \h70, \hE9, \h9E, \h0E, \h79, \hE0, \h97, \h09, \h7E, \hE7, \h90,
    \h1D, \h6A, \hF3, \h84, \h1A, \h6D, \hF4, \h83, \h13, \h64, \hFD, \h8A, \h14, \h63, \hFA, \h8D,
    \h3B, \h4C, \hD5, \hA2, \h3C, \h4B, \hD2, \hA5, \h35, \h42, \hDB, \hAC, \h32, \h45, \hDC, \hAB,
    \h26, \h51, \hC8, \hBF, \h21, \h56, \hCF, \hB8, \h28, \h5F, \hC6, \hB1, \h2F, \h58, \hC1, \hB6,
    \h76, \h01, \h98, \hEF, \h71, \h06, \h9F, \hE8, \h78, \h0F, \h96, \hE1, \h7F, \h08, \h91, \hE6,
    \h6B, \h1C, \h85, \hF2, \h6C, \h1B, \h82, \hF5, \h65, \h12, \h8B, \hFC, \h62, \h15, \h8C, \hFB,
    \h4D, \h3A, \hA3, \hD4, \h4A, \h3D, \hA4, \hD3, \h43, \h34, \hAD, \hDA, \h44, \h33, \hAA, \hDD,
    \h50, \h27, \hBE, \hC9, \h57, \h20, \hB9, \hCE, \h5E, \h29, \hB0, \hC7, \h59, \h2E, \hB7, \hC0,
    \hED, \h9A, \h03, \h74, \hEA, \h9D, \h04, \h73, \hE3, \h94, \h0D, \h7A, \hE4, \h93, \h0A, \h7D,
    \hF0, \h87, \h1E, \h69, \hF7, \h80, \h19, \h6E, \hFE, \h89, \h10, \h67, \hF9, \h8E, \h17, \h60,
    \hD6, \hA1, \h38, \h4F, \hD1, \hA6, \h3F, \h48, \hD8, \hAF, \h36, \h41, \hDF, \hA8, \h31, \h46,
    \hCB, \hBC, \h25, \h52, \hCC, \hBB, \h22, \h55, \hC5, \hB2, \h2B, \h5C, \hC2, \hB5, \h2C, \h5B,
    \h9B, \hEC, \h75, \h02, \h9C, \hEB, \h72, \h05, \h95, \hE2, \h7B, \h0C, \h92, \hE5, \h7C, \h0B,
    \h86, \hF1, \h68, \h1F, \h81, \hF6, \h6F, \h18, \h88, \hFF, \h66, \h11, \h8F, \hF8, \h61, \h16,
    \hA0, \hD7, \h4E, \h39, \hA7, \hD0, \h49, \h3E, \hAE, \hD9, \h40, \h37, \hA9, \hDE, \h47, \h30,
    \hBD, \hCA, \h53, \h24, \hBA, \hCD, \h54, \h23, \hB3, \hC4, \h5D, \h2A, \hB4, \hC3, \h5A, \h2D>>

\* The number that a byte is, and the byte that a number is.
Number(byte) ==
    LET bit(i) == IF i \in byte THEN 2 ^ i ELSE 0
    IN  bit(0) + bit(1) + bit(2) + bit(3) + bit(4) + bit(5) + bit(6) + bit(7)
BitsOf(n) == {i \in Bits(8) : (n \div 2 ^ i) % 2 = 1}

Table ==
    [byte \in Byte |->
        LET entry(table, n) == {i + n : i \in BitsOf(table[Number(byte) + 1])} IN
        entry(crc_table_0, 0) \cup entry(crc_table_1, 8)
            \cup entry(crc_table_2, 16) \cup entry(crc_table_3, 24)]

\* The tables were generated from the polynomial and are written out in the
\* program: every entry is the register after eight shifts of its byte.
ASSUME TablesAssumption == \A byte \in Byte : Table[byte] = EightShifts(byte)

\* One turn of the loops: crc = (crc >> 8) ^ table[(uint8_t)crc ^ byte].
Step(c, byte) == Xor(ShiftRight(c, 8), Table[Xor(Octet(c, 0), byte)])

\* The loop of crc_update: register c after each of the bytes of s.
Registers(c, s) ==
    LET register[n \in 0 .. Len(s)] ==
            IF n = 0 THEN c ELSE Step(register[n - 1], s[n])
    IN  register

\* crc_update over the bytes of s, and over n zeroes.
crc_update(c, s) == Registers(c, s)[Len(s)]
crc_update_zeroes(c, n) == crc_update(c, [i \in 1 .. n |-> Zero])

\* The register after a message that ends with its own CRC: 0xdebb20e3.
Residue == {0, 1, 5, 6, 7, 13, 16, 17, 19, 20, 21, 23, 25, 26, 27, 28, 30, 31}

\* Mutant of crc_check_relaxed: the register is compared at the end only.
crc_check_strict(s) == crc_update(Ones, s) = Residue

\* crc_check_relaxed: the register is compared with the residue before the
\* last byte of the range and again after it.
crc_check_relaxed(s) ==
    LET before == crc_update(Ones, SubSeq(s, 1, Len(s) - 1)) IN
    before = Residue \/ Step(before, s[Len(s)]) = Residue

-----------------------------------------------------------------------------
(***************************************************************************)
(* The definition the program is compared with: the remainder of IEEE      *)
(* 802.3, one message bit at a time, low bit of each byte first.           *)
(***************************************************************************)
ReferenceBit(c, bit) ==
    IF (0 \in c) # bit THEN Xor(ShiftRight(c, 1), Polynomial) ELSE ShiftRight(c, 1)

ReferenceRegisters(s) ==
    LET register[n \in 0 .. 8 * Len(s)] ==
            IF n = 0 THEN Ones
            ELSE ReferenceBit(register[n - 1], (n - 1) % 8 \in s[(n - 1) \div 8 + 1])
    IN  register

ReferenceCrc(s) == Ones \ ReferenceRegisters(s)[8 * Len(s)]
=============================================================================
