-------------------------------- MODULE Ps2 ---------------------------------
(***************************************************************************)
(* The PS/2 port of lib/ps2.c between the decoder of lib/ps2keyboard.c and *)
(* a keyboard.  The program reads the keyboard, waits for a key, or calls  *)
(* ps2_reset, ps2_set_led_mask and ps2_set_rate; send_byte polls the port  *)
(* while keys are struck, transfers are garbled and the plug is pulled.    *)
(*                                                                         *)
(* The port and the keyboard are external.  The port holds one received    *)
(* byte (PS2_DATA, HAS_DATA, RECV_VALID) and receives nothing more until   *)
(* PS2_STATUS is cleared; a byte written to PS2_DATA goes out before the   *)
(* keyboard may send again.                                                *)
(***************************************************************************)
EXTENDS Ps2Keyboard

CONSTANTS Keys,       \* the keys the user strikes: pairs <<extended, code>>
          KeyCaps,    \* [Keys -> [key, plain, shifted]]: what is printed on them
          Args,       \* arguments of ps2_set_led_mask and ps2_set_rate
          Buffer,     \* bytes the keyboard's buffer holds
          MaxStrokes, \* bound: presses and releases
          MaxFaults   \* bound: garbled transfers and pulled plugs

\* No key's scancode is an answer, a prefix, or a byte that is no key's.
ASSUME Ps2Assumption ==
    /\ Keys \subseteq BOOLEAN \X {c \in 0 .. 255 : Completes(c) /\ c \notin {PS2_CODE_ACK, PS2_CODE_RESEND}}
    /\ DOMAIN KeyCaps = Keys
    /\ Args \subseteq 0 .. 127
    /\ Buffer \in Nat /\ MaxStrokes \in Nat /\ MaxFaults \in Nat

NoByte == -1
NoCall == <<>>
Exchanged == <<NoByte>>

VARIABLES port,     \* the received byte: [byte, valid]; byte NoByte: HAS_DATA is clear
          tx,       \* the byte written to PS2_DATA that the keyboard has not got
          kbd,      \* [plugged, down, queue, resp, last, mode, leds]
          pc,       \* where the program is
          todo,     \* the bytes this call still has to send
          call,     \* the bytes of the last call (history), NoCall once one was
                    \* refused, Exchanged once the keyboard was pulled out
          decoder,  \* extended, release and ps2_modifiers_mask
          typed,    \* what the user typed and was not reported yet (history)
          lost,     \* a code was lost or taken for an answer (history)
          paired,   \* bits of modifiers whose two keys were down together (history)
          strokes, faults

vars == <<port, tx, kbd, pc, todo, call, decoder, typed, lost, paired, strokes, faults>>
hostVars == <<pc, todo, call, decoder>>
history == <<typed, lost, paired>>

Empty == [byte |-> NoByte, valid |-> TRUE]
HasData == port.byte # NoByte

Sending == {"check", "start", "wait_response"}

Init ==
    /\ port = Empty /\ tx = NoByte
    /\ kbd = [plugged |-> TRUE, down |-> {}, queue |-> <<PS2_CODE_BAT_PASSED>>,
              resp |-> NoByte, last |-> PS2_CODE_BAT_PASSED,
              mode |-> "scan", leds |-> 0]
    /\ pc = "idle" /\ todo = <<>> /\ call = NoCall /\ decoder = DecoderStart
    /\ typed = <<>> /\ lost = FALSE /\ paired = {}
    /\ strokes = 0 /\ faults = 0

-----------------------------------------------------------------------------
(***************************************************************************)
(* The keyboard (external): scancode set 2.  A code that does not fit the  *)
(* buffer is replaced by PS2_CODE_BUFFER_OVERRUN at its end.               *)
(***************************************************************************)
MakeCode(k) == (IF k[1] THEN <<\hE0>> ELSE <<>>) \o <<k[2]>>
BreakCode(k) == (IF k[1] THEN <<\hE0>> ELSE <<>>) \o <<\hF0, k[2]>>

Fits(codes) == Len(kbd.queue) + Len(codes) < Buffer

Queued(codes) ==
    CASE Fits(codes) -> kbd.queue \o codes
      [] ~Fits(codes) /\ Len(kbd.queue) < Buffer ->
            Append(kbd.queue, PS2_CODE_BUFFER_OVERRUN)
      [] ~Fits(codes) /\ Len(kbd.queue) >= Buffer -> kbd.queue

IsAnswer(byte) == byte \in {PS2_CODE_ACK, PS2_CODE_RESEND}

\* The modifiers of the keyboard's layout and what they do to a key.
BitOf(k) ==
    CASE k \in {<<FALSE, \h12>>, <<FALSE, \h59>>} -> {"SHIFT"}
      [] k \in {<<FALSE, \h14>>, <<TRUE, \h14>>} -> {"CTRL"}
      [] k \in {<<FALSE, \h11>>, <<TRUE, \h11>>} -> {"ALT"}
      [] k \in {<<TRUE, \h1F>>, <<TRUE, \h27>>} -> {"WIN"}
      [] OTHER -> {}

Held(down) == UNION {BitOf(k) : k \in down}

Meant(k, down) ==
    LET cap == KeyCaps[k]
        char == IF "SHIFT" \in Held(down) THEN cap.shifted ELSE cap.plain
    IN  IF Held(down) \subseteq {"SHIFT"} /\ char # 0 THEN char
        ELSE PS2_ASCII_SCANCODE_MASK + cap.key

Struck(codes) ==
    /\ kbd.plugged /\ strokes < MaxStrokes
    /\ strokes' = strokes + 1
    /\ lost' = (lost \/ ~Fits(codes))
    /\ UNCHANGED <<port, tx, hostVars, faults>>

\* A key goes down, or is held long enough to repeat.
Press(k) ==
    LET down == kbd.down \cup {k} IN
    /\ Struck(MakeCode(k))
    /\ kbd' = [kbd EXCEPT !.down = down, !.queue = Queued(MakeCode(k))]
    /\ typed' = Append(typed, Meant(k, down))
    /\ paired' = paired \cup UNION {BitOf(k) \cap BitOf(j) : j \in kbd.down \ {k}}

Release(k) ==
    /\ k \in kbd.down
    /\ Struck(BreakCode(k))
    /\ kbd' = [kbd EXCEPT !.down = @ \ {k}, !.queue = Queued(BreakCode(k))]
    /\ UNCHANGED <<typed, paired>>

Fault == faults < MaxFaults /\ faults' = faults + 1
Clean == UNCHANGED faults

\* Answers go before scancodes.
KeyboardSends ==
    /\ kbd.plugged /\ ~HasData /\ tx = NoByte
    /\ \/ /\ kbd.resp # NoByte
          /\ kbd' = [kbd EXCEPT !.resp = NoByte, !.last = kbd.resp]
       \/ /\ kbd.resp = NoByte /\ kbd.queue # <<>>
          /\ kbd' = [kbd EXCEPT !.queue = Tail(@), !.last = Head(kbd.queue)]
    /\ \/ Clean /\ port' = [byte |-> kbd'.last, valid |-> TRUE]
       \/ Fault /\ port' = [byte |-> kbd'.last, valid |-> FALSE]
    /\ UNCHANGED <<tx, hostVars, history, strokes>>

\* What the keyboard makes of a byte it received.
Obeyed(byte) ==
    LET acknowledged == [kbd EXCEPT !.resp = PS2_CODE_ACK] IN
    CASE byte = PS2_CODE_RESEND /\ IsAnswer(kbd.last) -> [kbd EXCEPT !.resp = kbd.last]
      [] byte = PS2_CODE_RESEND /\ ~IsAnswer(kbd.last) ->
            [kbd EXCEPT !.queue = <<kbd.last>> \o @]
      [] byte = \hFF ->
            [acknowledged EXCEPT !.queue = <<PS2_CODE_BAT_PASSED>>, !.down = {},
                                 !.mode = "scan", !.leds = 0]
      [] byte = \hED -> [acknowledged EXCEPT !.mode = "led"]
      [] byte = \hF3 -> [acknowledged EXCEPT !.mode = "rate"]
      [] byte < 128 /\ kbd.mode = "led" ->
            [acknowledged EXCEPT !.mode = "scan", !.leds = byte]
      [] byte < 128 /\ kbd.mode = "rate" -> [acknowledged EXCEPT !.mode = "scan"]
      [] byte < 128 /\ kbd.mode = "scan" -> [kbd EXCEPT !.resp = PS2_CODE_RESEND]

Quiet == kbd.queue = <<>> /\ kbd.down = {}

\* A garbled byte is asked for again; a garbled request to resend is never
\* repeated, and a reset throws away what the keyboard had to say.
KeyboardReceives ==
    /\ kbd.plugged /\ tx # NoByte
    /\ tx' = NoByte
    /\ \/ Clean /\ kbd' = Obeyed(tx) /\ lost' = (lost \/ (tx = \hFF /\ ~Quiet))
       \/ /\ Fault
          /\ kbd' = [kbd EXCEPT !.resp = PS2_CODE_RESEND]
          /\ lost' = (lost \/ tx = PS2_CODE_RESEND)
    /\ UNCHANGED <<port, hostVars, typed, paired, strokes>>

Unplug ==
    /\ kbd.plugged /\ Fault
    /\ kbd' = [kbd EXCEPT !.plugged = FALSE, !.queue = <<>>, !.resp = NoByte, !.down = {}]
    /\ tx' = NoByte
    /\ call' = Exchanged
    /\ lost' = (lost \/ ~Quiet \/ tx = PS2_CODE_RESEND)
    /\ UNCHANGED <<port, pc, todo, decoder, typed, paired, strokes>>

Plug ==
    /\ ~kbd.plugged
    /\ kbd' = [kbd EXCEPT !.plugged = TRUE, !.queue = <<PS2_CODE_BAT_PASSED>>,
                          !.mode = "scan", !.leds = 0]
    /\ UNCHANGED <<port, tx, hostVars, history, strokes, faults>>

-----------------------------------------------------------------------------
(***************************************************************************)
(* ps2_read and the functions that decode what it returns.  The byte and   *)
(* its status do not change while HAS_DATA is set, so a read is one step.  *)
(***************************************************************************)
\* Mutant: a damaged byte is dropped and not asked for again.
ReadDropsDamaged(code) ==
    /\ code = IF HasData /\ port.valid THEN port.byte ELSE PS2_READ_EMPTY
    /\ port' = Empty
    /\ UNCHANGED <<tx, lost>>

ps2_read(code) ==
    /\ code = IF HasData /\ port.valid THEN port.byte ELSE PS2_READ_EMPTY
    /\ port' = Empty
    /\ tx' = IF HasData /\ ~port.valid THEN PS2_CODE_RESEND ELSE tx
    /\ UNCHANGED lost

Reports(event) ==
    typed' = IF IsPress(event) /\ typed # <<>> THEN Tail(typed) ELSE typed

\* ps2_get_ascii and ps2_get_key_event read one byte and return.
ps2_get_key_event ==
    /\ pc = "idle"
    /\ \E code \in {port.byte, PS2_READ_EMPTY} :
        /\ ps2_read(code)
        /\ decoder' = Decoded(decoder, code)
        /\ Reports(Event(decoder, code))
    /\ UNCHANGED <<kbd, pc, todo, call, paired, strokes, faults>>

WaitKey ==
    /\ pc = "idle"
    /\ pc' = "wait_key"
    /\ UNCHANGED <<port, tx, kbd, todo, call, decoder, history, strokes, faults>>

\* ps2_wait_key_pressed reads until a key goes down.
ps2_wait_key_pressed ==
    /\ pc = "wait_key"
    /\ \E code \in {port.byte, PS2_READ_EMPTY} :
        /\ ps2_read(code)
        /\ decoder' = Decoded(decoder, code)
        /\ Reports(Event(decoder, code))
        /\ pc' = IF IsPress(Event(decoder, code)) THEN "idle" ELSE "wait_key"
    /\ UNCHANGED <<kbd, todo, call, paired, strokes, faults>>

-----------------------------------------------------------------------------
(***************************************************************************)
(* send_byte, once for every byte of the call, whatever it returned for    *)
(* the byte before.                                                        *)
(***************************************************************************)
Begin(bytes) ==
    /\ pc = "idle"
    /\ pc' = "check" /\ todo' = bytes /\ call' = bytes
    /\ UNCHANGED <<port, tx, kbd, decoder, history, strokes, faults>>

ps2_reset == Begin(<<\hFF>>)
ps2_set_led_mask(mask) == Begin(<<\hED, mask>>)
ps2_set_rate(mask) == Begin(<<\hF3, mask>>)

\* This send_byte returns.
ByteDone ==
    /\ todo' = Tail(todo)
    /\ pc' = IF Tail(todo) = <<>> THEN "idle" ELSE "check"

\* It returns false when a byte is waiting, and the callers do not look.
Check ==
    /\ pc = "check"
    /\ IF HasData THEN ByteDone /\ call' = IF call = Exchanged THEN call ELSE NoCall
       ELSE pc' = "start" /\ UNCHANGED <<todo, call>>
    /\ UNCHANGED <<port, tx, kbd, decoder, history, strokes, faults>>

\* The write may catch a request to resend that is still on its way out.
Start ==
    /\ pc = "start"
    /\ tx' = Head(todo)
    /\ pc' = "wait_response"
    /\ lost' = (lost \/ tx = PS2_CODE_RESEND)
    /\ UNCHANGED <<port, kbd, todo, call, decoder, typed, paired, strokes, faults>>

\* Mutant: any answer ends the byte.
TakesAnyAnswer ==
    /\ pc = "wait_response" /\ HasData /\ port.valid
    /\ port' = Empty
    /\ ByteDone
    /\ lost' = (lost \/ ~IsAnswer(port.byte))
    /\ UNCHANGED <<tx, kbd, call, decoder, typed, paired, strokes, faults>>

\* Everything but an ACK, a scancode too, makes the driver send the byte again.
TakesAnswer ==
    /\ pc = "wait_response" /\ HasData /\ port.valid
    /\ port' = Empty
    /\ IF port.byte = PS2_CODE_ACK THEN ByteDone ELSE pc' = "start" /\ UNCHANGED todo
    /\ lost' = (lost \/ ~IsAnswer(port.byte))
    /\ UNCHANGED <<tx, kbd, call, decoder, typed, paired, strokes, faults>>

\* Mutant: a damaged answer is only cleared.
ClearsDamaged ==
    /\ pc = "wait_response" /\ HasData /\ ~port.valid
    /\ port' = Empty
    /\ UNCHANGED <<tx, kbd, hostVars, history, strokes, faults>>

AsksAgain ==
    /\ pc = "wait_response" /\ HasData /\ ~port.valid
    /\ port' = Empty /\ tx' = PS2_CODE_RESEND
    /\ UNCHANGED <<kbd, hostVars, history, strokes, faults>>

-----------------------------------------------------------------------------
Next ==
    \/ \E k \in Keys : Press(k) \/ Release(k)
    \/ KeyboardSends \/ KeyboardReceives
    \/ Unplug \/ Plug
    \/ ps2_get_key_event \/ WaitKey \/ ps2_wait_key_pressed
    \/ ps2_reset
    \/ \E a \in Args : ps2_set_led_mask(a) \/ ps2_set_rate(a)
    \/ Check \/ Start \/ TakesAnswer \/ AsksAgain

Spec == Init /\ [][Next]_vars

\* The polling loops of the code run on, the keyboard sends what it has and
\* takes what it is sent; nobody has to strike a key.
FairSpec ==
    /\ Spec
    /\ WF_vars(KeyboardSends) /\ WF_vars(KeyboardReceives)
    /\ WF_vars(Check) /\ WF_vars(Start) /\ WF_vars(TakesAnswer) /\ WF_vars(AsksAgain)
    /\ WF_vars(ps2_wait_key_pressed)

-----------------------------------------------------------------------------
(***************************************************************************)
(* The scancodes that are still on their way to the decoder, and what it   *)
(* will make of them.                                                      *)
(***************************************************************************)
Outstanding ==
    (IF HasData /\ ~IsAnswer(port.byte) THEN <<port.byte>> ELSE <<>>)
        \o (IF tx = PS2_CODE_RESEND /\ ~IsAnswer(kbd.last) THEN <<kbd.last>> ELSE <<>>)
        \o kbd.queue

\* One more code is read.
Read(r, code) ==
    LET d == Decoded(r.decoder, code)
        e == Event(r.decoder, code)
    IN  [decoder |-> d,
         text |-> IF IsPress(e) THEN Append(r.text, Ascii(d.mask, e)) ELSE r.text]

ReadingOf(d, codes) ==
    LET after[n \in 0 .. Len(codes)] ==
            IF n = 0 THEN [decoder |-> d, text |-> <<>>] ELSE Read(after[n - 1], codes[n])
    IN  after[Len(codes)]

Reading == ReadingOf(decoder, Outstanding)

\* The caps of the keys show what the tables of the decoder have for them.
KeyStruck(k) == IF k[1] THEN scancode_ext[k[2]] ELSE scancode[k[2]]
CapsPrinted ==
    \A k \in Keys :
        LET key == KeyStruck(k) IN
        /\ key # 0 /\ KeyCaps[k].key = key
        /\ KeyCaps[k].plain = ps2_keymap[key] /\ KeyCaps[k].shifted = ps2_keymap_shift[key]

\* At every moment, through garbled transfers and commands sent in between, the
\* scancodes under way will be read as exactly what the user typed, each key
\* with the modifiers held when it was struck, as long as no scancode was lost
\* and no modifier had both its keys down.
TypedTextArrives == ~lost /\ paired = {} => Reading.text = typed

\* Once the codes under way are read, ps2_modifiers_mask holds only modifiers
\* that are down; it misses one only if both of its keys were down together.
MaskFollowsKeys ==
    LET mask == Reading.decoder.mask IN
    ~lost => mask \subseteq Held(kbd.down) /\ Held(kbd.down) \ mask \subseteq paired

\* When ps2_set_led_mask has returned, neither byte was refused and no scancode
\* was taken for an answer, the keyboard shows the mask.
LedsAsAsked ==
    pc = "idle" /\ call # NoCall /\ Head(call) = \hED /\ ~lost
        => kbd.leds = call[2]

KeysWithCode == ({scancode[c] : c \in 0 .. 255} \cup {scancode_ext[c] : c \in 0 .. 255}) \ {0}

\* With the modifiers the decoder has seen, or shift the other way, the tables
\* reach every printable character of ASCII but \ and |, whose keys have entries
\* in the keymaps and none in scancode[]; under another modifier they reach none.
EveryCharacterHasAKey ==
    LET characters(mask) == {Ascii(mask, k) : k \in KeysWithCode} \cap 32 .. 126
    IN  IF decoder.mask \subseteq {"SHIFT"}
        THEN characters(decoder.mask) \cup characters({"SHIFT"} \ decoder.mask)
                = 32 .. 126 \ {92, 124}
        ELSE characters(decoder.mask) = {}

\* send_byte has no limit on its polls and sends its byte again after every
\* byte that is not an ACK.  It returns nevertheless, unless the keyboard is
\* pulled out or a scancode is taken for an answer: then the keyboard may get an
\* argument twice, refuse the second, and be sent it for ever.
SendReturns ==
    pc \in Sending ~>
        pc \notin Sending \/ lost \/ call = Exchanged \/ ~kbd.plugged

\* ps2_wait_key_pressed returns once a key was struck, unless its code is lost.
WaitReturns ==
    pc = "wait_key" /\ typed # <<>> ~> pc # "wait_key" \/ lost \/ ~kbd.plugged

\* Nothing is promised once a code is lost: runs stop there.
NothingLost == ~lost
=============================================================================
