---------------------------- MODULE Ps2Keyboard -----------------------------
(***************************************************************************)
(* The keyboard decoder of lib/ps2keyboard.c: the tables that turn         *)
(* scancodes into keys and keys into characters, and the state machine     *)
(* that reads a stream of scancodes.  Keys and characters are the numbers  *)
(* of include/libsys/ps2keyboard.h; a modifier mask is a set of bits.      *)
(***************************************************************************)
EXTENDS Integers, Sequences

PS2_READ_EMPTY == \hFF
PS2_CODE_RESEND == \hFE
PS2_CODE_ACK == \hFA
PS2_CODE_BAT_PASSED == \hAA
PS2_CODE_BUFFER_OVERRUN == \h00

PS2_KEY_RELEASE == \h80
PS2_ASCII_SCANCODE_MASK == \h8000

\* scancode[], eight codes a row from code 0; the codes after the last row are
\* no key.
ScancodeRows ==
   << 0,   9,   0,   5,   3,   1,   2,  12,   0,  10,   8,   6,   4,  14,  96,   0,
      0,  20,  17,   0,  19,  81,  49,   0,   0,   0,  90,  83,  65,  87,  50,   0,
      0,  67,  88,  68,  69,  52,  51,   0,   0,  32,  86,  70,  84,  82,  53,   0,
      0,  78,  66,  72,  71,  89,  54,   0,   0,   0,  77,  74,  85,  55,  56,   0,
      0,  44,  75,  73,  79,  48,  57,   0,   0,  46,  47,  76,  59,  80,  45,   0,
      0,   0,  34,   0,  91,  61,   0,   0,  15,  18,  16,  93,   0,   0,   0,   0,
      0,   0,   0,   0,   0,   0,  13,   0,   0, 109,   0, 112, 115,   0,   0,   0,
    108, 107, 110, 113, 114, 116, 121, 101,  11, 105, 111, 104, 103, 117, 118,   0,
      0,   0,   0,   7 >>

scancode == [c \in 0 .. 255 |-> IF c < Len(ScancodeRows) THEN ScancodeRows[c + 1] ELSE 0]

\* scancode_ext[], as pairs of a code and its key.
ExtendedPairs ==
    {<<\h11, 22>>, <<\h14, 25>>, <<\h1F, 21>>, <<\h27, 23>>, <<\h2F, 24>>,
     <<\h4A, 102>>, <<\h5A, 106>>, <<\h69, 29>>, <<\h6B, 97>>, <<\h6C, 28>>,
     <<\h70, 26>>, <<\h71, 27>>, <<\h72, 100>>, <<\h74, 98>>, <<\h75, 99>>,
     <<\h7A, 31>>, <<\h7D, 30>>}

KeyIn(pairs, c) ==
    IF \E p \in pairs : p[1] = c THEN (CHOOSE p \in pairs : p[1] = c)[2] ELSE 0

scancode_ext == [c \in 0 .. 255 |-> KeyIn(ExtendedPairs, c)]

Letters == 65 .. 90
Digits == 48 .. 57
NumPadDigits == 108 .. 117

\* NUM_DIV, NUM_MUL, NUM_SUB, NUM_ADD and NUM_DOT.
NumPadSigns == {<<102, 47>>, <<103, 42>>, <<104, 45>>, <<105, 43>>, <<107, 46>>}

\* Keys named after their own unshifted character:  ` - = [ ] ; \ , . / space
Signs == {96, 45, 61, 91, 93, 59, 92, 44, 46, 47, 32}

\* The numeric pad ignores shift.
NumPad(k) == IF k \in NumPadDigits THEN k - 60 ELSE KeyIn(NumPadSigns, k)

\* ps2_keymap[]; the keys QUOTE and PIPE are named after another character.
ps2_keymap ==
    [k \in 0 .. 127 |->
        CASE k \in Letters -> k + 32
          [] k \in Digits \cup Signs -> k
          [] k = 34 -> 39
          [] k = 124 -> 96
          [] OTHER -> NumPad(k)]

\* ps2_keymap_shift[]:  )!@#$%^&*(  over the digits, then  ~ _ + { } : | < > ?
ShiftedDigits == <<41, 33, 64, 35, 36, 37, 94, 38, 42, 40>>

ShiftedSigns ==
    {<<96, 126>>, <<45, 95>>, <<61, 43>>, <<91, 123>>, <<93, 125>>, <<59, 58>>,
     <<92, 124>>, <<44, 60>>, <<46, 62>>, <<47, 63>>, <<32, 32>>}

ps2_keymap_shift ==
    [k \in 0 .. 127 |->
        CASE k \in Letters -> k
          [] k \in Digits -> ShiftedDigits[k - 47]
          [] k \in Signs -> KeyIn(ShiftedSigns, k)
          [] k = 34 -> 34
          [] k = 124 -> 126
          [] OTHER -> NumPad(k)]

-----------------------------------------------------------------------------
(***************************************************************************)
(* ps2_get_key_event_with_code.  The decoder's state d has the flags       *)
(* `extended' and `release' and ps2_modifiers_mask.                        *)
(***************************************************************************)
DecoderStart == [extended |-> FALSE, release |-> FALSE, mask |-> {}]

\* Both keys of a pair share one bit of the mask.
ModifierOf(key) ==
    CASE key \in {17, 18} -> {"SHIFT"}
      [] key \in {19, 25} -> {"CTRL"}
      [] key \in {20, 22} -> {"ALT"}
      [] key \in {21, 23} -> {"WIN"}
      [] OTHER -> {}

KeyOf(d, code) == IF d.extended THEN scancode_ext[code] ELSE scancode[code]

IsPrefixCode(code) == code \in {\hF0, \hE0, \hE1}

\* The code completes an event.
Completes(code) ==
    ~IsPrefixCode(code)
        /\ code \notin {PS2_READ_EMPTY, PS2_CODE_BAT_PASSED, PS2_CODE_BUFFER_OVERRUN}

\* Mutant: the mask is not cleared on a release.
DecodedIgnoresRelease(d, code) ==
    [extended |-> code \in {\hE0, \hE1} \/ (d.extended /\ code = \hF0),
     release |-> code = \hF0,
     mask |-> IF Completes(code) THEN d.mask \cup ModifierOf(KeyOf(d, code)) ELSE d.mask]

Decoded(d, code) ==
    CASE code = PS2_READ_EMPTY -> d
      [] code \in {PS2_CODE_BAT_PASSED, PS2_CODE_BUFFER_OVERRUN} ->
            [d EXCEPT !.extended = FALSE, !.release = FALSE]
      [] code = \hF0 -> [d EXCEPT !.release = TRUE]
      [] code \in {\hE0, \hE1} -> [d EXCEPT !.extended = TRUE]
      [] Completes(code) ->
            [extended |-> FALSE, release |-> FALSE,
             mask |-> IF d.release THEN d.mask \ ModifierOf(KeyOf(d, code))
                      ELSE d.mask \cup ModifierOf(KeyOf(d, code))]

\* What the function returns: no event, a key, or a key and PS2_KEY_RELEASE.
Event(d, code) ==
    LET key == KeyOf(d, code) IN
    CASE ~Completes(code) -> 0
      [] Completes(code) /\ d.release /\ key # 0 -> key + PS2_KEY_RELEASE
      [] Completes(code) /\ ~(d.release /\ key # 0) -> key

IsPress(event) == event # 0 /\ event < PS2_KEY_RELEASE

\* Mutant: the shifted map is not consulted.
AsciiUnshifted(mask, event) ==
    LET char == ps2_keymap[event] IN
    IF mask \cap {"WIN", "ALT", "CTRL"} = {} /\ char # 0
    THEN char ELSE PS2_ASCII_SCANCODE_MASK + event

\* ps2_get_ascii of a press; `mask' is the mask after the event.
Ascii(mask, event) ==
    LET char == IF "SHIFT" \in mask THEN ps2_keymap_shift[event] ELSE ps2_keymap[event]
    IN  IF mask \cap {"WIN", "ALT", "CTRL"} = {} /\ char # 0
        THEN char ELSE PS2_ASCII_SCANCODE_MASK + event
=============================================================================
