-------------------------------- MODULE Eth ---------------------------------
(***************************************************************************)
(* The Ethernet transmitter of lib/eth.c.  Every frame fills the whole     *)
(* transmit buffer: preamble, data, zeroes, one byte chosen so that the    *)
(* frame check sequence ends with 0x00, and that sequence.  Only the part  *)
(* of the padding that the previous frame covered is cleared.              *)
(*                                                                         *)
(* The adapter is external: it sends the buffer from its first byte to its *)
(* last, undoing the wiring's permutation of the data lines that bitmix    *)
(* anticipates, and reports ETH_SR_TX_BUSY meanwhile.                      *)
(***************************************************************************)
EXTENDS Crc

CONSTANTS TX_BUF_LEN,   \* 1024 in the source
          PREAMBLE_LEN, \* 12 in the source
          Bytes,        \* the bytes of data, and what the buffer powers up with
          MaxSize,      \* bound: the longest frame asked for
          Word          \* 2 ^ 16 in the source: size_t and uint16_t

FCS_LEN == 4
\* The data and padding that eth_init clears, and the most data a frame carries.
Body == TX_BUF_LEN - PREAMBLE_LEN - FCS_LEN
Limit == Body - 1

ASSUME EthAssumption ==
    /\ PREAMBLE_LEN \in Nat \ {0} /\ TX_BUF_LEN \in Nat /\ Limit \in Nat
    /\ Bytes \subseteq Byte /\ Bytes # {}
    /\ Word \in Nat /\ Word > TX_BUF_LEN
    /\ MaxSize \in 0 .. TX_BUF_LEN - PREAMBLE_LEN

VARIABLES buf,            \* ETH_BUF
          last_frame_len,
          inited,         \* eth_init was called
          data,           \* the data of the last frame (history)
          left,           \* bytes of the buffer the adapter has still to send
          wire            \* what it sent of this frame, as the receiver sees it

vars == <<buf, last_frame_len, inited, data, left, wire>>

Offsets == 0 .. TX_BUF_LEN - 1

\* Mutant of bitmix: the halves are counted from one.
bitmixFromOne(byte) == {IF i < 4 THEN 4 - i ELSE 12 - i : i \in byte}

\* bitmix: the data lines are wired with each half of a byte reversed.
bitmix(byte) == {IF i < 4 THEN 3 - i ELSE 11 - i : i \in byte}

\* ETH_SR & ETH_SR_TX_BUSY.
Busy == left > 0

TypeOK ==
    /\ buf \in [Offsets -> Byte] /\ last_frame_len \in 0 .. MaxSize
    /\ inited \in BOOLEAN /\ data \in Seq(Bytes) /\ Len(data) <= MaxSize
    /\ left \in 0 .. TX_BUF_LEN /\ wire \in Seq(Byte)

Init ==
    /\ buf \in {[i \in Offsets |-> b] : b \in Bytes}
    /\ last_frame_len = 0 /\ inited = FALSE
    /\ data = <<>> /\ left = 0 /\ wire = <<>>

\* The bytes of buffer b from offset `from` on, n of them, become val.
Filled(b, from, n, val) ==
    [i \in Offsets |-> IF i \in from .. from + n - 1 THEN val ELSE b[i]]

\* eth_init writes the preamble and clears all but the check sequence.
eth_init ==
    /\ ~Busy
    /\ buf' = Filled([Filled(buf, 0, PREAMBLE_LEN - 1, bitmix({0, 2, 4, 6}))
                        EXCEPT ![PREAMBLE_LEN - 1] = bitmix({0, 2, 4, 6, 7})],
                     PREAMBLE_LEN, Body, Zero)
    /\ last_frame_len' = 0 /\ inited' = TRUE
    /\ data' = <<>> /\ wire' = <<>> /\ UNCHANGED left

\* Mutant of Cleared: only the first byte behind the data is cleared.
ClearedOne(b, size) ==
    IF size < last_frame_len THEN Filled(b, PREAMBLE_LEN + size, 1, Zero) ELSE b

\* bitmix_memcpy and the clearing of what the last frame left behind it.
Copied(b, d) ==
    [i \in Offsets |->
        IF i - PREAMBLE_LEN + 1 \in DOMAIN d THEN bitmix(d[i - PREAMBLE_LEN + 1])
        ELSE b[i]]
Cleared(b, size) ==
    IF size < last_frame_len
    THEN Filled(b, PREAMBLE_LEN + size, last_frame_len - size, Zero) ELSE b

\* Mutant of Covered: the zeroes take the place of the adjusting byte, too.
CoveredOneMore(d) ==
    crc_update_zeroes(crc_update(Ones, d), (Body - Len(d)) % Word)

\* The register after the data and the zeroes, the count of which wraps.
Covered(d) ==
    crc_update_zeroes(crc_update(Ones, d), (Limit - Len(d)) % Word)

\* The byte after the zeroes: the table's entry 0xd9 is the one with 0xff on top.
Adjusted(c) == Xor({0, 3, 4, 6, 7}, Octet(c, 0))

\* The bytes written behind the zeroes.
Trailer(c) ==
    LET adj == Adjusted(c)
        crc == crc_update(c, <<adj>>)
    IN  <<bitmix(adj), Not(bitmix(Octet(crc, 0))), Not(bitmix(Octet(crc, 8))),
          Not(bitmix(Octet(crc, 16))), Zero>>

\* eth_transmit does not look at ETH_SR: its caller does, and has called eth_init.
eth_transmit(d) ==
    /\ inited /\ ~Busy
    /\ LET b == Cleared(Copied(buf, d), Len(d))
           t == Trailer(Covered(d))
       IN  buf' = [i \in Offsets |->
                      IF i >= TX_BUF_LEN - 5 THEN t[i - (TX_BUF_LEN - 5) + 1] ELSE b[i]]
    /\ last_frame_len' = Len(d)
    /\ data' = d /\ left' = TX_BUF_LEN /\ wire' = <<>>
    /\ UNCHANGED inited

\* The adapter sends one byte.
Send ==
    /\ Busy
    /\ wire' = Append(wire, bitmix(buf[TX_BUF_LEN - left]))
    /\ left' = left - 1
    /\ UNCHANGED <<buf, last_frame_len, inited, data>>

Data == UNION {[1 .. n -> Bytes] : n \in 0 .. MaxSize}

Next ==
    \/ eth_init
    \/ \E d \in Data : eth_transmit(d)
    \/ Send

Spec == Init /\ [][Next]_vars

-----------------------------------------------------------------------------
\* A frame that fits has left the adapter.
Sent == inited /\ Len(wire) = TX_BUF_LEN /\ Len(data) <= Limit

Frame == SubSeq(wire, PREAMBLE_LEN + 1, TX_BUF_LEN)

\* eth.c:25 eth_transmit: whatever frames were sent before, longer ones and
\* ones that do not fit included, the wire carries the preamble, this frame's
\* data and zeroes up to the adjusting byte: nothing of an earlier frame.
WireFrameIntact ==
    Sent =>
        /\ SubSeq(wire, 1, PREAMBLE_LEN) =
               [i \in 1 .. PREAMBLE_LEN |->
                   IF i = PREAMBLE_LEN THEN {0, 2, 4, 6, 7} ELSE {0, 2, 4, 6}]
        /\ SubSeq(Frame, 1, Limit) =
               [i \in 1 .. Limit |-> IF i <= Len(data) THEN data[i] ELSE Zero]

\* eth.c:36 the adjusting byte: the check sequence on the wire is the CRC-32 of
\* everything between the preamble and it, and its last byte is 0x00.
FcsCorrect ==
    Sent =>
        LET fcs == ReferenceCrc(SubSeq(Frame, 1, Body)) IN
        /\ SubSeq(Frame, Body + 1, Body + FCS_LEN) =
               [i \in 1 .. FCS_LEN |-> Octet(fcs, 8 * (i - 1))]
        /\ Octet(fcs, 24) = Zero

AcceptsFrame ==
    /\ crc_check_relaxed(Frame)
    /\ \A byte \in Bytes : crc_check_relaxed(Append(Frame, byte))

RejectsFlippedBit ==
    \A i \in 1 .. Len(Frame), bit \in Bits(8) :
        ~crc_check_relaxed([Frame EXCEPT ![i] = Xor(@, {bit})])

\* crc.asm:21 crc_check_relaxed accepts what eth_transmit sent, followed by any
\* byte or by none, and rejects it with any one bit flipped.
ReceiverAccepts == Sent => AcceptsFrame /\ RejectsFlippedBit
=============================================================================
