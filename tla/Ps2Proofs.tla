----------------------------- MODULE Ps2Proofs ------------------------------
(***************************************************************************)
(* Proofs about the PS/2 port: what ps2_set_led_mask was told to show is   *)
(* shown when it has returned, and what the user typed is what the program *)
(* is told, for every set of keys and masks, every number of strokes and   *)
(* faults and every size of the keyboard's buffer.                         *)
(*                                                                         *)
(* The first argument is about the conversation of send_byte with the keyboard.  *)
(* At every place of the driver it is known whether the keyboard has       *)
(* obeyed the byte at hand, and as long as no scancode was taken for an    *)
(* answer, exactly one answer is under way after the byte was received: in *)
(* the keyboard, in the port, or to be sent again because it was garbled.  *)
(*                                                                         *)
(* The second follows the scancodes from the keyboard to the decoder.  A   *)
(* code is in the keyboard's queue, is asked for again, or waits in the    *)
(* port, in that order and nowhere twice; reading all of them ends between *)
(* two keys, with the text that was typed and the modifiers that are down. *)
(* A step of the keyboard or of the driver moves a code or nothing; a key  *)
(* adds codes at the end, and the decoder takes one from the front.        *)
(***************************************************************************)
EXTENDS Ps2, WellFoundedInduction, SequenceTheorems, TLAPS

Answers == {PS2_CODE_ACK, PS2_CODE_RESEND}
Codes == 0 .. 255 \ Answers

\* What the driver sends.
Sent == 0 .. 127 \cup {\hFF, \hED, \hF3, PS2_CODE_RESEND}

\* The bytes of a call, and what is left of them after the first.
Commands == {<<\hFF>>} \cup {<<\hED, a>> : a \in Args} \cup {<<\hF3, a>> : a \in Args}
Rests == {<<a>> : a \in Args}

PortType == [byte : Codes \cup Answers \cup {NoByte}, valid : BOOLEAN]

KbdType ==
    [plugged : BOOLEAN, down : SUBSET Keys, queue : Seq(Codes), resp : Answers \cup {NoByte},
     last : Codes \cup Answers, mode : {"scan", "led", "rate"}, leds : 0 .. 255]

Types ==
    /\ port \in PortType /\ kbd \in KbdType
    /\ tx \in Sent \cup {NoByte}
    /\ call \in {NoCall, Exchanged} \cup Commands
    /\ pc \in Sending \cup {"idle", "wait_key"}
    /\ IF pc \in Sending THEN todo \in Commands \cup Rests ELSE todo = <<>>

\* The mode in which the keyboard takes the argument of the call.
Wanted == IF call[1] = \hED THEN "led" ELSE "rate"

Shown == call \in Commands /\ call[1] = \hED => kbd.leds = call[2]

\* The keyboard is ready for the byte at hand, or has obeyed it.
Before ==
    call \in Commands =>
        todo = call \/ (Len(call) = 2 /\ todo = <<call[2]>> /\ kbd.mode = Wanted)

After ==
    call \in Commands =>
        IF todo = call THEN Len(call) = 2 => kbd.mode = Wanted
                       ELSE Len(call) = 2 /\ todo = <<call[2]>> /\ Shown

\* The port is not busy with an answer, nor with asking for one again.
NoAnswer ==
    /\ ~IsAnswer(port.byte)
    /\ tx = PS2_CODE_RESEND => ~IsAnswer(kbd.last)

Calm == kbd.resp = NoByte /\ tx \in {NoByte, PS2_CODE_RESEND} /\ NoAnswer

\* Answer a is under way.
Pending(a) ==
    \/ kbd.resp = a /\ tx \in {NoByte, PS2_CODE_RESEND} /\ NoAnswer
    \/ kbd.resp = NoByte /\ tx = NoByte /\ port.byte = a
    \/ kbd.resp = NoByte /\ ~HasData /\ tx = PS2_CODE_RESEND /\ kbd.last = a

\* The byte is on its way, was obeyed or refused, or a scancode stands in for
\* the answer.
Waiting ==
    \/ tx = Head(todo) /\ kbd.resp = NoByte /\ ~IsAnswer(port.byte) /\ Before
    \/ Pending(PS2_CODE_ACK) /\ After
    \/ Pending(PS2_CODE_RESEND) /\ Before
    \/ Calm

InStep ==
    /\ pc \in {"idle", "wait_key"} => Calm /\ Shown
    /\ pc \in {"check", "start"} => Calm /\ Before
    /\ pc = "wait_response" => Waiting
    /\ ~kbd.plugged /\ call \in Commands => pc \in Sending /\ todo = call /\ NoAnswer

\* The port holds what the keyboard sent last; an unplugged one says nothing.
Wired ==
    /\ HasData => port.byte = kbd.last
    /\ ~kbd.plugged => kbd.resp = NoByte

IInv == Types /\ Wired /\ (~lost => InStep)

-----------------------------------------------------------------------------
\* The codes the driver and the keyboard tell apart.
LEMMA CodeFacts ==
    /\ PS2_CODE_ACK = 250 /\ PS2_CODE_RESEND = 254 /\ NoByte = -1
    /\ PS2_CODE_BAT_PASSED = 170 /\ PS2_CODE_BUFFER_OVERRUN = 0
    /\ \hFF = 255 /\ \hED = 237 /\ \hF3 = 243 /\ \hE0 = 224 /\ \hF0 = 240
BY DEF PS2_CODE_ACK, PS2_CODE_RESEND, NoByte, PS2_CODE_BAT_PASSED, PS2_CODE_BUFFER_OVERRUN

\* The bytes of a call.
LEMMA CommandFacts ==
    /\ \A c \in Commands :
         /\ Len(c) \in {1, 2} /\ Head(c) = c[1] /\ c # NoCall /\ c # Exchanged
         /\ Len(c) = 1 => c = <<255>> /\ Tail(c) = <<>>
         /\ Len(c) = 2 => /\ c[1] \in {237, 243} /\ c[2] \in Args /\ c[2] \in 0 .. 127
                          /\ Tail(c) = <<c[2]>> /\ Tail(c) \in Rests /\ Tail(c) # <<>>
                          /\ Tail(c) # c
    /\ \A r \in Rests : Len(r) = 1 /\ Head(r) \in 0 .. 127 /\ Tail(r) = <<>>
<1>1. Args \subseteq 0 .. 127
  BY Ps2Assumption
<1>2. ASSUME NEW r \in Rests PROVE Len(r) = 1 /\ Head(r) \in 0 .. 127 /\ Tail(r) = <<>>
  <2>1. PICK a \in Args : r = <<a>>
    BY DEF Rests
  <2>2. Len(<<a>>) = 1 /\ Head(<<a>>) = a /\ Tail(<<a>>) = <<>>
    OBVIOUS
  <2> QED
    BY <1>1, <2>1, <2>2
<1>3. ASSUME NEW a \in Args, NEW x \in {237, 243}
      PROVE  LET c == <<x, a>> IN
             /\ Len(c) = 2 /\ Head(c) = c[1] /\ c # NoCall /\ c # Exchanged
             /\ c[1] = x /\ c[2] \in Args /\ c[2] \in 0 .. 127
             /\ Tail(c) = <<a>> /\ Tail(c) \in Rests /\ Tail(c) # <<>> /\ Tail(c) # c
  <2>1. Len(<<x, a>>) = 2 /\ Head(<<x, a>>) = x /\ Tail(<<x, a>>) = <<a>> /\ Len(<<a>>) = 1
    BY <1>1
  <2>2. <<x, a>> # NoCall /\ <<x, a>> # Exchanged /\ <<a>> # <<>> /\ <<a>> # <<x, a>>
    BY <2>1 DEF NoCall, Exchanged
  <2> QED
    BY <1>1, <2>1, <2>2 DEF Rests
<1>4. LET c == <<255>> IN
      /\ Len(c) = 1 /\ Head(c) = c[1] /\ c # NoCall /\ c # Exchanged /\ Tail(c) = <<>>
  BY DEF NoCall, Exchanged, NoByte
<1>5. ASSUME NEW c \in Commands
      PROVE  c = <<255>> \/ \E a \in Args, x \in {237, 243} : c = <<x, a>>
  BY CodeFacts DEF Commands
<1>6. ASSUME NEW c \in Commands
      PROVE  /\ Len(c) \in {1, 2} /\ Head(c) = c[1] /\ c # NoCall /\ c # Exchanged
             /\ Len(c) = 1 => c = <<255>> /\ Tail(c) = <<>>
             /\ Len(c) = 2 => /\ c[1] \in {237, 243} /\ c[2] \in Args /\ c[2] \in 0 .. 127
                              /\ Tail(c) = <<c[2]>> /\ Tail(c) \in Rests /\ Tail(c) # <<>>
                              /\ Tail(c) # c
  <2>1. CASE c = <<255>>
    BY <1>4, <2>1
  <2>2. ASSUME NEW a \in Args, NEW x \in {237, 243}, c = <<x, a>>
        PROVE  /\ Len(c) = 2 /\ Head(c) = c[1] /\ c # NoCall /\ c # Exchanged
               /\ c[1] \in {237, 243} /\ c[2] \in Args /\ c[2] \in 0 .. 127
               /\ Tail(c) = <<c[2]>> /\ Tail(c) \in Rests /\ Tail(c) # <<>>
               /\ Tail(c) # c
    BY <1>3, <2>2
  <2> QED
    BY <1>5, <2>1, <2>2
<1> QED
  BY <1>2, <1>6

-----------------------------------------------------------------------------
(* The types, and the wire.                                                *)

\* The scancodes of a key are codes, and the queue has no answers.
LEMMA CodesQueued ==
    ASSUME Types, NEW k \in Keys
    PROVE  Queued(MakeCode(k)) \in Seq(Codes) /\ Queued(BreakCode(k)) \in Seq(Codes)
<1>1. k[2] \in Codes /\ \hE0 \in Codes /\ \hF0 \in Codes /\ PS2_CODE_BUFFER_OVERRUN \in Codes
  BY Ps2Assumption, CodeFacts DEF Codes, Answers
<1>2. <<>> \in Seq(Codes) /\ <<\hE0>> \in Seq(Codes) /\ <<k[2]>> \in Seq(Codes)
      /\ <<\hF0, k[2]>> \in Seq(Codes)
  BY <1>1
<1>3. \A x, y \in Seq(Codes) : x \o y \in Seq(Codes)
  OBVIOUS
<1>4. MakeCode(k) \in Seq(Codes) /\ BreakCode(k) \in Seq(Codes)
  BY <1>2, <1>3 DEF MakeCode, BreakCode
<1>5. kbd.queue \in Seq(Codes)
  BY DEF Types, KbdType
<1>6. Buffer \in Nat /\ Len(kbd.queue) \in Nat
  BY <1>5, Ps2Assumption
<1>7. ASSUME NEW codes \in Seq(Codes) PROVE Queued(codes) \in Seq(Codes)
  <2>1. kbd.queue \o codes \in Seq(Codes)
    BY <1>5
  <2>2. Append(kbd.queue, PS2_CODE_BUFFER_OVERRUN) \in Seq(Codes)
    BY <1>1, <1>5
  <2> QED
    BY <1>5, <1>6, <2>1, <2>2 DEF Queued
<1> QED
  BY <1>4, <1>7

\* The keyboard after a byte from the driver.
LEMMA ObeyedType ==
    ASSUME Types, NEW b \in Sent
    PROVE  /\ Obeyed(b) \in KbdType
           /\ Obeyed(b).last = kbd.last /\ Obeyed(b).plugged = kbd.plugged
           /\ b = PS2_CODE_RESEND /\ IsAnswer(kbd.last) =>
                  /\ Obeyed(b).resp = kbd.last
                  /\ Obeyed(b).mode = kbd.mode /\ Obeyed(b).leds = kbd.leds
           /\ b = PS2_CODE_RESEND /\ ~IsAnswer(kbd.last) =>
                  /\ Obeyed(b).resp = kbd.resp
                  /\ Obeyed(b).mode = kbd.mode /\ Obeyed(b).leds = kbd.leds
           /\ b \in {\hFF, \hED, \hF3} => Obeyed(b).resp = PS2_CODE_ACK
           /\ b = \hED => Obeyed(b).mode = "led"
           /\ b = \hF3 => Obeyed(b).mode = "rate"
           /\ b \in 0 .. 127 /\ kbd.mode = "led" =>
                  Obeyed(b).resp = PS2_CODE_ACK /\ Obeyed(b).leds = b
           /\ b \in 0 .. 127 /\ kbd.mode = "rate" => Obeyed(b).resp = PS2_CODE_ACK
           /\ b \in 0 .. 127 /\ kbd.mode = "scan" =>
                  Obeyed(b).resp = PS2_CODE_RESEND /\ Obeyed(b).mode = kbd.mode
<1>1. kbd \in KbdType
  BY DEF Types
<1>2. kbd.last \in Codes \cup Answers /\ kbd.mode \in {"scan", "led", "rate"}
      /\ kbd.queue \in Seq(Codes)
  BY <1>1 DEF KbdType
<1> DEFINE o == Obeyed(b)
<1>3. CASE b = PS2_CODE_RESEND
  <2>0. b \notin 0 .. 127 /\ b # \hFF /\ b # \hED /\ b # \hF3 /\ ~(b < 128)
    BY <1>3, CodeFacts
  <2>1. CASE IsAnswer(kbd.last)
    <3>1. o = [kbd EXCEPT !.resp = kbd.last] /\ kbd.last \in Answers
      BY <1>3, <2>0, <2>1 DEF Obeyed, IsAnswer, Answers
    <3> HIDE DEF o
    <3>2. /\ o \in KbdType /\ o.last = kbd.last /\ o.plugged = kbd.plugged
          /\ o.resp = kbd.last /\ o.mode = kbd.mode /\ o.leds = kbd.leds
      BY <1>1, <3>1 DEF KbdType
    <3> QED
      BY <2>0, <2>1, <3>2 DEF o
  <2>2. CASE ~IsAnswer(kbd.last)
    <3>1. o = [kbd EXCEPT !.queue = <<kbd.last>> \o @]
      BY <1>3, <2>0, <2>2 DEF Obeyed, IsAnswer
    <3>2. kbd.last \in Codes
      BY <1>2, <2>2 DEF IsAnswer, Answers
    <3>3. <<kbd.last>> \o kbd.queue \in Seq(Codes)
      BY <1>2, <3>2
    <3> HIDE DEF o
    <3>4. /\ o \in KbdType /\ o.last = kbd.last /\ o.plugged = kbd.plugged
          /\ o.resp = kbd.resp /\ o.mode = kbd.mode /\ o.leds = kbd.leds
      BY <1>1, <3>1, <3>3 DEF KbdType
    <3> QED
      BY <2>0, <2>2, <3>4 DEF o
  <2> QED
    BY <2>1, <2>2
<1>4. CASE b = \hFF
  <2>0. b \notin 0 .. 127 /\ b # PS2_CODE_RESEND /\ b # \hED /\ b # \hF3
    BY <1>4, CodeFacts
  <2>1. o = [[kbd EXCEPT !.resp = PS2_CODE_ACK] EXCEPT
               !.queue = <<PS2_CODE_BAT_PASSED>>, !.down = {}, !.mode = "scan", !.leds = 0]
    BY <1>4, CodeFacts DEF Obeyed
  <2>2. <<PS2_CODE_BAT_PASSED>> \in Seq(Codes)
    BY CodeFacts DEF Codes, Answers
  <2>4. [kbd EXCEPT !.resp = PS2_CODE_ACK] \in KbdType
    BY <1>1 DEF KbdType, Answers
  <2>5. {} \in SUBSET Keys /\ 0 \in 0 .. 255 /\ "scan" \in {"scan", "led", "rate"}
    OBVIOUS
  <2> HIDE DEF o
  <2>6. ASSUME NEW r \in KbdType,
               o = [r EXCEPT !.queue = <<PS2_CODE_BAT_PASSED>>, !.down = {},
                             !.mode = "scan", !.leds = 0]
        PROVE  o \in KbdType /\ o.last = r.last /\ o.plugged = r.plugged /\ o.resp = r.resp
    BY <2>2, <2>5, <2>6 DEF KbdType
  <2>7. LET r == [kbd EXCEPT !.resp = PS2_CODE_ACK] IN
        r.last = kbd.last /\ r.plugged = kbd.plugged /\ r.resp = PS2_CODE_ACK
    BY <1>1 DEF KbdType
  <2>3. /\ o \in KbdType /\ o.last = kbd.last /\ o.plugged = kbd.plugged
        /\ o.resp = PS2_CODE_ACK
    BY <2>1, <2>4, <2>6, <2>7
  <2> QED
    BY <2>0, <2>3 DEF o
<1>5. ASSUME NEW to \in {"led", "rate"}, b = IF to = "led" THEN \hED ELSE \hF3
      PROVE  /\ o \in KbdType /\ o.last = kbd.last /\ o.plugged = kbd.plugged
             /\ o.resp = PS2_CODE_ACK /\ o.mode = to
  <2>0. b \notin 0 .. 127 /\ b # PS2_CODE_RESEND /\ b # \hFF /\ ~(b < 128)
    BY <1>5, CodeFacts
  <2>1. o = [[kbd EXCEPT !.resp = PS2_CODE_ACK] EXCEPT !.mode = to]
    <3>1. CASE to = "led"
      <4>1. b = \hED
        BY <1>5, <3>1
      <4> QED
        BY <2>0, <3>1, <4>1 DEF Obeyed
    <3>2. CASE to = "rate"
      <4>1. b = \hF3 /\ b # \hED
        BY <1>5, <3>2, CodeFacts
      <4> QED
        BY <2>0, <3>2, <4>1 DEF Obeyed
    <3> QED
      BY <3>1, <3>2
  <2> HIDE DEF o
  <2> QED
    BY <1>1, <2>1 DEF KbdType, Answers
<1>6. CASE b = \hED \/ b = \hF3
  <2>0. b \notin 0 .. 127 /\ b # PS2_CODE_RESEND /\ \hED # \hF3
    BY <1>6, CodeFacts
  <2>1. PICK to \in {"led", "rate"} : b = IF to = "led" THEN \hED ELSE \hF3
    BY <1>6
  <2>2. /\ o \in KbdType /\ o.last = kbd.last /\ o.plugged = kbd.plugged
        /\ o.resp = PS2_CODE_ACK /\ o.mode = to
    BY <1>5, <2>1
  <2> HIDE DEF o
  <2>3. (b = \hED => o.mode = "led") /\ (b = \hF3 => o.mode = "rate")
    BY <2>0, <2>1, <2>2
  <2> QED
    BY <2>0, <2>2, <2>3 DEF o
<1>7. CASE b \in 0 .. 127
  <2>0. b < 128 /\ b # PS2_CODE_RESEND /\ b # \hFF /\ b # \hED /\ b # \hF3 /\ b \in 0 .. 255
    BY <1>7, CodeFacts
  <2>1. CASE kbd.mode = "led"
    <3>1. o = [[kbd EXCEPT !.resp = PS2_CODE_ACK] EXCEPT !.mode = "scan", !.leds = b]
      BY <2>0, <2>1 DEF Obeyed
    <3> HIDE DEF o
    <3>2. /\ o \in KbdType /\ o.last = kbd.last /\ o.plugged = kbd.plugged
          /\ o.resp = PS2_CODE_ACK /\ o.leds = b
      BY <1>1, <2>0, <3>1 DEF KbdType, Answers
    <3> QED
      BY <2>0, <2>1, <3>2 DEF o
  <2>2. CASE kbd.mode = "rate"
    <3>1. o = [[kbd EXCEPT !.resp = PS2_CODE_ACK] EXCEPT !.mode = "scan"]
      BY <2>0, <2>2 DEF Obeyed
    <3> HIDE DEF o
    <3>2. /\ o \in KbdType /\ o.last = kbd.last /\ o.plugged = kbd.plugged
          /\ o.resp = PS2_CODE_ACK
      BY <1>1, <3>1 DEF KbdType, Answers
    <3> QED
      BY <2>0, <2>2, <3>2 DEF o
  <2>3. CASE kbd.mode = "scan"
    <3>1. o = [kbd EXCEPT !.resp = PS2_CODE_RESEND]
      BY <2>0, <2>3 DEF Obeyed
    <3> HIDE DEF o
    <3>2. /\ o \in KbdType /\ o.last = kbd.last /\ o.plugged = kbd.plugged
          /\ o.resp = PS2_CODE_RESEND /\ o.mode = kbd.mode
      BY <1>1, <3>1 DEF KbdType, Answers
    <3> QED
      BY <2>0, <2>3, <3>2 DEF o
  <2> QED
    BY <1>2, <2>1, <2>2, <2>3
<1> QED
  BY <1>3, <1>4, <1>6, <1>7 DEF Sent

-----------------------------------------------------------------------------
(* The steps.                                                              *)

\* The types of what the keyboard and the port hold, field by field.
LEMMA Fields ==
    ASSUME Types
    PROVE  /\ kbd.plugged \in BOOLEAN /\ kbd.down \in SUBSET Keys /\ kbd.queue \in Seq(Codes)
           /\ kbd.resp \in Answers \cup {NoByte} /\ kbd.last \in Codes \cup Answers
           /\ kbd.mode \in {"scan", "led", "rate"} /\ kbd.leds \in 0 .. 255
           /\ port.byte \in Codes \cup Answers \cup {NoByte} /\ port.valid \in BOOLEAN
BY DEF Types, KbdType, PortType

\* Nothing of the conversation changes: the port, the driver, and what the
\* keyboard remembers of it.
LEMMA SameTalk ==
    ASSUME IInv, kbd' \in KbdType, UNCHANGED <<port, tx, pc, todo, call>>, ~lost' => ~lost,
           kbd'.plugged = kbd.plugged, kbd'.resp = kbd.resp, kbd'.last = kbd.last,
           kbd'.mode = kbd.mode, kbd'.leds = kbd.leds
    PROVE  IInv'
<1>1. Types'
  BY DEF IInv, Types
<1>2. Wired'
  BY DEF IInv, Wired, HasData
<1>3. InStep => InStep'
  BY DEF InStep, Calm, Waiting, Pending, NoAnswer, Before, After, Shown, Wanted, HasData
<1> QED
  BY <1>1, <1>2, <1>3 DEF IInv

\* Keys are struck.
LEMMA StrikeStep ==
    ASSUME IInv, NEW k \in Keys, Press(k) \/ Release(k)
    PROVE  IInv'
<1>0. Types /\ kbd \in KbdType
  BY DEF IInv, Types
<1>1. /\ Queued(MakeCode(k)) \in Seq(Codes) /\ Queued(BreakCode(k)) \in Seq(Codes)
      /\ kbd.down \cup {k} \in SUBSET Keys /\ kbd.down \ {k} \in SUBSET Keys
  BY <1>0, CodesQueued, Fields
<1>2. PICK down \in SUBSET Keys, queue \in Seq(Codes) :
        kbd' = [kbd EXCEPT !.down = down, !.queue = queue]
  BY <1>1 DEF Press, Release
<1>3. UNCHANGED <<port, tx, pc, todo, call>> /\ (~lost' => ~lost)
  BY DEF Press, Release, Struck, hostVars
<1>4. /\ kbd' \in KbdType /\ kbd'.plugged = kbd.plugged /\ kbd'.resp = kbd.resp
      /\ kbd'.last = kbd.last /\ kbd'.mode = kbd.mode /\ kbd'.leds = kbd.leds
  BY <1>0, <1>2 DEF KbdType
<1> QED
  BY <1>3, <1>4, SameTalk

\* The keyboard sends an answer or a scancode.
LEMMA KeyboardSendsStep ==
    ASSUME IInv, KeyboardSends
    PROVE  IInv'
<1>0. Types /\ kbd \in KbdType /\ Wired
  BY DEF IInv, Types
<1>f. /\ kbd.queue \in Seq(Codes) /\ kbd.resp \in Answers \cup {NoByte}
      /\ kbd.last \in Codes \cup Answers
  BY <1>0, Fields
<1>1. /\ kbd.plugged /\ ~HasData /\ tx = NoByte
      /\ UNCHANGED <<tx, pc, todo, call, lost>>
  BY DEF KeyboardSends, hostVars, history
<1>c. NoByte \notin Answers /\ NoByte # PS2_CODE_RESEND /\ NoByte # PS2_CODE_ACK
  BY CodeFacts DEF Answers
<1>2. PICK v \in BOOLEAN : port' = [byte |-> kbd'.last, valid |-> v]
  BY DEF KeyboardSends
<1>3. port'.byte = kbd'.last /\ (kbd'.last \in Codes \cup Answers => port' \in PortType)
  BY <1>2 DEF PortType
<1>4. CASE kbd.resp # NoByte /\ kbd' = [kbd EXCEPT !.resp = NoByte, !.last = kbd.resp]
  <2>1. kbd.resp \in Answers
    BY <1>4, <1>f
  <2>2. /\ kbd' \in KbdType /\ kbd'.plugged = kbd.plugged /\ kbd'.resp = NoByte
        /\ kbd'.last = kbd.resp /\ kbd'.mode = kbd.mode /\ kbd'.leds = kbd.leds
    BY <1>0, <1>4, <2>1 DEF KbdType
  <2>3. Types'
    BY <1>0, <1>1, <1>3, <2>1, <2>2 DEF Types
  <2>4. Wired'
    BY <1>1, <1>3, <2>2 DEF Wired
  <2>5. InStep => InStep'
    <3> SUFFICES ASSUME InStep PROVE InStep'
      OBVIOUS
    <3>1. ~Calm
      BY <1>4 DEF Calm
    <3>2. pc = "wait_response"
      BY <1>0, <3>1 DEF InStep, Types, Sending
    <3>3. Waiting
      BY <3>2 DEF InStep
    <3>4. After => After'
      BY <1>1, <2>2 DEF After, Shown, Wanted
    <3>5. Before => Before'
      BY <1>1, <2>2 DEF Before, Wanted
    <3>6. \/ kbd.resp = PS2_CODE_ACK /\ After
          \/ kbd.resp = PS2_CODE_RESEND /\ Before
      BY <1>4, <3>1, <3>3 DEF Waiting, Pending
    <3>7. Waiting'
      BY <3>4, <3>5, <3>6, <1>1, <1>3, <2>2 DEF Waiting, Pending
    <3> QED
      BY <1>1, <2>2, <3>2, <3>7 DEF InStep
  <2> QED
    BY <1>1, <2>3, <2>4, <2>5 DEF IInv
<1>5. CASE /\ kbd.resp = NoByte /\ kbd.queue # <<>>
           /\ kbd' = [kbd EXCEPT !.queue = Tail(@), !.last = Head(kbd.queue)]
  <2>1. Head(kbd.queue) \in Codes /\ Tail(kbd.queue) \in Seq(Codes)
    BY <1>5, <1>f
  <2>2. /\ kbd' \in KbdType /\ kbd'.plugged = kbd.plugged /\ kbd'.resp = kbd.resp
        /\ kbd'.last \in Codes /\ kbd'.mode = kbd.mode /\ kbd'.leds = kbd.leds
    BY <1>0, <1>5, <2>1 DEF KbdType
  <2>3. Types'
    BY <1>0, <1>1, <1>3, <2>1, <2>2 DEF Types
  <2>4. Wired'
    BY <1>1, <1>3, <2>2 DEF Wired
  <2>5. ~IsAnswer(port'.byte)
    BY <1>3, <2>2 DEF Codes, Answers, IsAnswer
  <2>6. InStep => InStep'
    <3> SUFFICES ASSUME InStep PROVE InStep'
      OBVIOUS
    <3>1. Calm => Calm'
      BY <1>1, <1>5, <1>c, <2>2, <2>5 DEF Calm, NoAnswer, IsAnswer
    <3>2. Before => Before'
      BY <1>1, <2>2 DEF Before, Wanted
    <3>3. Shown => Shown'
      BY <1>1, <2>2 DEF Shown
    <3>4. ~Pending(PS2_CODE_ACK) /\ ~Pending(PS2_CODE_RESEND)
      BY <1>1, <1>5, <1>c DEF Pending, HasData
    <3>5. Waiting => Waiting'
      BY <1>1, <1>5, <2>2, <2>5, <3>1, <3>2, <3>4 DEF Waiting, IsAnswer
    <3> QED
      BY <1>1, <2>2, <3>1, <3>2, <3>3, <3>5 DEF InStep
  <2> QED
    BY <1>1, <2>3, <2>4, <2>6 DEF IInv
<1> QED
  BY <1>4, <1>5 DEF KeyboardSends

\* The byte at hand is an answer's request in no case.
LEMMA HeadOfTodo ==
    ASSUME Types, pc \in Sending
    PROVE  /\ Head(todo) \in 0 .. 127 \cup {255, 237, 243}
           /\ Head(todo) \in Sent /\ Head(todo) # PS2_CODE_RESEND /\ Head(todo) # NoByte
           /\ todo \in Commands => Head(todo) = todo[1] /\ Tail(todo) \in Rests \cup {<<>>}
           /\ todo \in Rests => Tail(todo) = <<>>
<1>1. todo \in Commands \cup Rests
  BY DEF Types
<1>2. CASE todo \in Commands
  <2>1. /\ Len(todo) \in {1, 2} /\ Head(todo) = todo[1]
        /\ Len(todo) = 1 => todo = <<255>> /\ Tail(todo) = <<>>
        /\ Len(todo) = 2 => todo[1] \in {237, 243} /\ Tail(todo) \in Rests
    BY <1>2, CommandFacts
  <2>2. Head(todo) \in {255, 237, 243} /\ Tail(todo) \in Rests \cup {<<>>}
    BY <2>1
  <2> QED
    BY <2>1, <2>2, CommandFacts, CodeFacts DEF Sent
<1>3. CASE todo \in Rests
  <2>1. Head(todo) \in 0 .. 127 /\ Tail(todo) = <<>>
    BY <1>3, CommandFacts
  <2>2. todo \notin Commands \/ (Head(todo) = todo[1] /\ Tail(todo) \in Rests \cup {<<>>})
    BY <2>1, CommandFacts
  <2>3. \A x \in 0 .. 127 : x \in Sent /\ x # PS2_CODE_RESEND /\ x # NoByte
    BY CodeFacts DEF Sent
  <2> QED
    BY <2>1, <2>2, <2>3
<1> QED
  BY <1>1, <1>2, <1>3

\* The keyboard obeys the byte at hand, or refuses it.
LEMMA ByteObeyed ==
    ASSUME Types, pc \in Sending, Before, kbd' = Obeyed(Head(todo)), UNCHANGED <<todo, call>>
    PROVE  \/ kbd'.resp = PS2_CODE_ACK /\ After'
           \/ kbd'.resp = PS2_CODE_RESEND /\ Before'
<1> DEFINE b == Head(todo)
<1>1. b \in 0 .. 127 \cup {255, 237, 243} /\ b \in Sent
  BY HeadOfTodo
<1>2. /\ b \in {255, 237, 243} => kbd'.resp = PS2_CODE_ACK
      /\ b = 237 => kbd'.mode = "led"
      /\ b = 243 => kbd'.mode = "rate"
      /\ b \in 0 .. 127 /\ kbd.mode = "led" => kbd'.resp = PS2_CODE_ACK /\ kbd'.leds = b
      /\ b \in 0 .. 127 /\ kbd.mode = "rate" => kbd'.resp = PS2_CODE_ACK
      /\ b \in 0 .. 127 /\ kbd.mode = "scan" =>
            kbd'.resp = PS2_CODE_RESEND /\ kbd'.mode = kbd.mode
  <2>1. \hFF = 255 /\ \hED = 237 /\ \hF3 = 243
    OBVIOUS
  <2> QED
    BY <1>1, <2>1, ObeyedType
<1>3. kbd.mode \in {"scan", "led", "rate"}
  BY Fields
<1>4. CASE call \notin Commands
  <2>1. Before' /\ After'
    BY <1>4 DEF Before, After
  <2> QED
    BY <1>1, <1>2, <1>3, <2>1
<1>5. CASE call \in Commands /\ Len(call) # 2
  <2>1. call = <<255>> /\ todo = call /\ b = 255
    <3>1. Len(call) = 1
      BY <1>5, CommandFacts
    <3>2. call = <<255>>
      BY <1>5, <3>1, CommandFacts
    <3>3. todo = call
      BY <1>5 DEF Before
    <3> QED
      BY <3>2, <3>3
  <2>2. After'
    BY <1>5, <2>1 DEF After
  <2> QED
    BY <1>2, <2>1, <2>2
<1>6. CASE call \in Commands /\ Len(call) = 2
  <2>1. /\ Head(call) = call[1] /\ call[1] \in {237, 243} /\ call[2] \in 0 .. 127
        /\ Tail(call) = <<call[2]>> /\ Tail(call) # call
    BY <1>6, CommandFacts
  <2>2. CASE todo = call
    <3>1. b \in {237, 243} /\ b = call[1]
      BY <2>1, <2>2
    <3>2. kbd'.resp = PS2_CODE_ACK /\ kbd'.mode = IF call[1] = 237 THEN "led" ELSE "rate"
      BY <1>2, <3>1
    <3>3. kbd'.mode = Wanted'
      BY <3>2 DEF Wanted
    <3>4. After'
      BY <2>2, <3>3 DEF After
    <3> QED
      BY <3>2, <3>4
  <2>3. CASE todo = <<call[2]>> /\ kbd.mode = Wanted
    <3>1. b = call[2] /\ b \in 0 .. 127 /\ todo # call
      <4>1. \A x : Head(<<x>>) = x
        OBVIOUS
      <4> QED
        BY <2>1, <2>3, <4>1
    <3>2. kbd'.resp = PS2_CODE_ACK /\ (call[1] = 237 => kbd'.leds = call[2])
      <4>1. CASE call[1] = 237
        <5>1. kbd.mode = "led"
          BY <2>3, <4>1 DEF Wanted
        <5> QED
          BY <1>2, <3>1, <5>1
      <4>2. CASE call[1] # 237
        <5>1. kbd.mode = "rate"
          BY <2>3, <4>2 DEF Wanted
        <5> QED
          BY <1>2, <3>1, <5>1, <4>2
      <4> QED
        BY <4>1, <4>2
    <3>3. Shown'
      BY <3>2 DEF Shown
    <3>4. After'
      BY <1>6, <2>3, <3>1, <3>3 DEF After
    <3> QED
      BY <3>2, <3>4
  <2> QED
    BY <1>6, <2>2, <2>3 DEF Before
<1> QED
  BY <1>4, <1>5, <1>6

\* The keyboard receives a byte.
LEMMA KeyboardReceivesStep ==
    ASSUME IInv, KeyboardReceives
    PROVE  IInv'
<1>0. Types /\ kbd \in KbdType /\ Wired
  BY DEF IInv, Types
<1>f. /\ kbd.resp \in Answers \cup {NoByte} /\ kbd.last \in Codes \cup Answers
  BY <1>0, Fields
<1>1. /\ kbd.plugged /\ tx # NoByte /\ tx' = NoByte
      /\ UNCHANGED <<port, pc, todo, call>>
  BY DEF KeyboardReceives, hostVars
<1>2. tx \in Sent
  BY <1>0, <1>1 DEF Types
<1>3. \/ /\ kbd' = Obeyed(tx) /\ (~lost' => ~lost)
      \/ /\ kbd' = [kbd EXCEPT !.resp = PS2_CODE_RESEND]
         /\ ~lost' => ~lost /\ tx # PS2_CODE_RESEND
  BY DEF KeyboardReceives
<1>4. kbd' \in KbdType /\ kbd'.plugged = kbd.plugged /\ kbd'.last = kbd.last
  <2>1. CASE kbd' = Obeyed(tx)
    BY <1>0, <1>2, <2>1, ObeyedType
  <2>2. CASE kbd' = [kbd EXCEPT !.resp = PS2_CODE_RESEND]
    BY <1>0, <2>2 DEF KbdType, Answers
  <2> QED
    BY <1>3, <2>1, <2>2
<1>5. Types'
  BY <1>0, <1>1, <1>4 DEF Types
<1>6. Wired'
  BY <1>0, <1>1, <1>4 DEF Wired, HasData
<1>c. NoByte \notin Answers /\ NoByte # PS2_CODE_RESEND /\ NoByte # PS2_CODE_ACK
  BY CodeFacts DEF Answers
<1>7. ASSUME ~lost' PROVE InStep'
  <2>1. InStep /\ (kbd' = Obeyed(tx) \/ tx # PS2_CODE_RESEND)
    BY <1>3, <1>7 DEF IInv
  <2>2. CASE tx = PS2_CODE_RESEND /\ IsAnswer(kbd.last)
    <3>1. /\ kbd'.resp = kbd.last /\ kbd'.mode = kbd.mode /\ kbd'.leds = kbd.leds
      BY <1>0, <1>2, <2>1, <2>2, ObeyedType
    <3>2. ~Calm /\ ~NoAnswer
      BY <2>2 DEF Calm, NoAnswer
    <3>3. pc = "wait_response" /\ Waiting
      BY <1>0, <2>1, <3>2 DEF InStep, Types, Sending
    <3>4. tx # Head(todo)
      BY <1>0, <2>2, <3>3, HeadOfTodo DEF Sending
    <3>5. /\ ~HasData
          /\ \/ kbd.last = PS2_CODE_ACK /\ After
             \/ kbd.last = PS2_CODE_RESEND /\ Before
      BY <1>1, <3>2, <3>3, <3>4 DEF Waiting, Pending
    <3>6. After => After'
      BY <1>1, <3>1 DEF After, Shown, Wanted
    <3>7. Before => Before'
      BY <1>1, <3>1 DEF Before, Wanted
    <3>8. NoAnswer'
      BY <1>1, <1>c, <3>5 DEF NoAnswer, HasData, IsAnswer
    <3>9. Waiting'
      BY <1>1, <3>1, <3>5, <3>6, <3>7, <3>8 DEF Waiting, Pending
    <3> QED
      BY <1>1, <1>4, <3>3, <3>9 DEF InStep
  <2>3. CASE tx = PS2_CODE_RESEND /\ ~IsAnswer(kbd.last)
    <3>1. /\ kbd'.resp = kbd.resp /\ kbd'.mode = kbd.mode /\ kbd'.leds = kbd.leds
      BY <1>0, <1>2, <2>1, <2>3, ObeyedType
    <3>2. NoAnswer => NoAnswer'
      BY <1>1, <1>c DEF NoAnswer, IsAnswer
    <3>3. Calm => Calm'
      BY <1>1, <3>1, <3>2 DEF Calm
    <3>4. Before => Before'
      BY <1>1, <3>1 DEF Before, Wanted
    <3>5. After => After'
      BY <1>1, <3>1 DEF After, Shown, Wanted
    <3>6. Shown => Shown'
      BY <1>1, <3>1 DEF Shown
    <3>7. ASSUME pc = "wait_response", Waiting PROVE Waiting'
      <4>1. tx # Head(todo)
        BY <1>0, <2>3, <3>7, HeadOfTodo DEF Sending
      <4>2. kbd.last # PS2_CODE_ACK /\ kbd.last # PS2_CODE_RESEND
        BY <2>3 DEF IsAnswer
      <4>3. \/ kbd.resp = PS2_CODE_ACK /\ NoAnswer /\ After
            \/ kbd.resp = PS2_CODE_RESEND /\ NoAnswer /\ Before
            \/ Calm
        BY <1>1, <3>7, <4>1, <4>2 DEF Waiting, Pending
      <4> QED
        BY <1>1, <3>1, <3>2, <3>3, <3>4, <3>5, <4>3 DEF Waiting, Pending
    <3> QED
      BY <1>1, <1>4, <2>1, <3>3, <3>4, <3>6, <3>7 DEF InStep
  <2>4. CASE tx # PS2_CODE_RESEND
    <3>1. ~Calm
      BY <1>1, <2>4 DEF Calm
    <3>2. pc = "wait_response" /\ Waiting
      BY <1>0, <2>1, <3>1 DEF InStep, Types, Sending
    <3>3. tx = Head(todo) /\ kbd.resp = NoByte /\ ~IsAnswer(port.byte) /\ Before
      BY <1>1, <2>4, <3>1, <3>2 DEF Waiting, Pending
    <3>4. NoAnswer'
      BY <1>1, <1>c, <3>3 DEF NoAnswer, IsAnswer
    <3>5. \/ kbd'.resp = PS2_CODE_ACK /\ After'
          \/ kbd'.resp = PS2_CODE_RESEND /\ Before'
      <4>1. CASE kbd' = Obeyed(tx)
        BY <1>0, <1>1, <3>2, <3>3, <4>1, ByteObeyed DEF Sending
      <4>2. CASE kbd' = [kbd EXCEPT !.resp = PS2_CODE_RESEND]
        <5>1. kbd'.resp = PS2_CODE_RESEND /\ kbd'.mode = kbd.mode
          BY <1>0, <4>2 DEF KbdType
        <5> QED
          BY <1>1, <3>3, <5>1 DEF Before, Wanted
      <4> QED
        BY <1>3, <4>1, <4>2
    <3>6. Waiting'
      BY <1>1, <3>4, <3>5 DEF Waiting, Pending
    <3> QED
      BY <1>1, <1>4, <3>2, <3>6 DEF InStep
  <2> QED
    BY <2>2, <2>3, <2>4
<1> QED
  BY <1>5, <1>6, <1>7 DEF IInv

\* The keyboard is pulled out: of the last call nothing is promised any more.
LEMMA UnplugStep ==
    ASSUME IInv, Unplug
    PROVE  IInv'
<1>0. Types /\ kbd \in KbdType /\ Wired
  BY DEF IInv, Types
<1>1. /\ tx' = NoByte /\ call' = Exchanged /\ UNCHANGED <<port, pc, todo>>
      /\ ~lost' => ~lost
  BY DEF Unplug
<1>2. /\ kbd' \in KbdType /\ ~kbd'.plugged /\ kbd'.resp = NoByte /\ kbd'.last = kbd.last
  <2>1. kbd' = [kbd EXCEPT !.plugged = FALSE, !.queue = <<>>, !.resp = NoByte, !.down = {}]
    BY DEF Unplug
  <2>2. {} \in SUBSET Keys /\ <<>> \in Seq(Codes)
    OBVIOUS
  <2>3. ~kbd'.plugged /\ kbd'.resp = NoByte /\ kbd'.last = kbd.last
    BY <1>0, <2>1 DEF KbdType
  <2>4. kbd' \in KbdType
    BY <1>0, <2>1, <2>2, ZenonT(40) DEF KbdType
  <2> QED
    BY <2>3, <2>4
<1>3. Types'
  BY <1>0, <1>1, <1>2 DEF Types
<1>4. Wired'
  BY <1>0, <1>1, <1>2 DEF Wired, HasData
<1>5. call' \notin Commands
  BY <1>1, CommandFacts
<1>6. Before' /\ After' /\ Shown'
  BY <1>5 DEF Before, After, Shown
<1>7. InStep => InStep'
  <2> SUFFICES ASSUME InStep PROVE InStep'
    OBVIOUS
  <2>1. tx' # PS2_CODE_RESEND
    BY <1>1, CodeFacts
  <2>2. ~IsAnswer(port.byte) => Calm'
    BY <1>1, <1>2, <2>1 DEF Calm, NoAnswer, IsAnswer
  <2>3. Calm => Calm'
    BY <2>2 DEF Calm, NoAnswer
  <2>4. Waiting'
    <3>1. port.byte = PS2_CODE_ACK => Pending(PS2_CODE_ACK)'
      BY <1>1, <1>2 DEF Pending
    <3>2. port.byte = PS2_CODE_RESEND => Pending(PS2_CODE_RESEND)'
      BY <1>1, <1>2 DEF Pending
    <3> QED
      BY <1>6, <2>2, <3>1, <3>2 DEF Waiting, IsAnswer
  <2> QED
    BY <1>1, <1>5, <1>6, <2>3, <2>4 DEF InStep
<1> QED
  BY <1>1, <1>3, <1>4, <1>7 DEF IInv

\* Another keyboard is plugged in.
LEMMA PlugStep ==
    ASSUME IInv, Plug
    PROVE  IInv'
<1>0. Types /\ kbd \in KbdType /\ Wired /\ ~kbd.plugged
  BY DEF IInv, Types, Plug
<1>1. UNCHANGED <<port, tx, pc, todo, call, lost>>
  BY DEF Plug, hostVars, history
<1>2. /\ kbd' \in KbdType /\ kbd'.plugged /\ kbd'.resp = kbd.resp /\ kbd'.last = kbd.last
  <2>1. kbd' = [kbd EXCEPT !.plugged = TRUE, !.queue = <<PS2_CODE_BAT_PASSED>>,
                           !.mode = "scan", !.leds = 0]
    BY DEF Plug
  <2>2. <<PS2_CODE_BAT_PASSED>> \in Seq(Codes)
    BY CodeFacts DEF Codes, Answers
  <2>3. kbd'.plugged /\ kbd'.resp = kbd.resp /\ kbd'.last = kbd.last
    BY <1>0, <2>1 DEF KbdType
  <2>4. TRUE \in BOOLEAN /\ "scan" \in {"scan", "led", "rate"} /\ 0 \in 0 .. 255
    OBVIOUS
  <2>5. ASSUME NEW t \in BOOLEAN,
               kbd' = [kbd EXCEPT !.plugged = t, !.queue = <<PS2_CODE_BAT_PASSED>>,
                                  !.mode = "scan", !.leds = 0]
        PROVE  kbd' \in KbdType
    BY <1>0, <2>2, <2>4, <2>5 DEF KbdType
  <2>6. kbd' \in KbdType
    BY <2>1, <2>4, <2>5
  <2> QED
    BY <2>3, <2>6
<1>3. Types'
  BY <1>0, <1>1, <1>2 DEF Types
<1>4. Wired'
  BY <1>0, <1>1, <1>2 DEF Wired, HasData
<1>5. kbd.resp = NoByte
  BY <1>0 DEF Wired
<1>6. InStep => InStep'
  <2> SUFFICES ASSUME InStep PROVE InStep'
    OBVIOUS
  <2>1. Calm => Calm'
    BY <1>1, <1>2 DEF Calm, NoAnswer
  <2>2. call \in Commands => pc \in Sending /\ todo = call /\ NoAnswer
    BY <1>0 DEF InStep
  <2>3. Before'
    BY <1>1, <2>2 DEF Before
  <2>4. pc \in {"idle", "wait_key"} => Shown'
    BY <1>1, <2>2 DEF Shown, Sending
  <2>5. Waiting => Waiting'
    <3>1. CASE call \in Commands
      <4>1. NoAnswer /\ NoByte \notin Answers
        BY <2>2, <3>1, CodeFacts DEF Answers
      <4>2. ~Pending(PS2_CODE_ACK) /\ ~Pending(PS2_CODE_RESEND)
        BY <1>5, <4>1 DEF Pending, NoAnswer, IsAnswer, Answers
      <4> QED
        BY <1>1, <1>2, <2>1, <2>3, <4>2 DEF Waiting, IsAnswer
    <3>2. CASE call \notin Commands
      <4>1. After'
        BY <1>1, <3>2 DEF After
      <4>2. NoAnswer => NoAnswer'
        BY <1>1, <1>2 DEF NoAnswer
      <4>3. Pending(PS2_CODE_ACK) => Pending(PS2_CODE_ACK)'
        BY <1>1, <1>2, <4>2 DEF Pending, HasData
      <4>4. Pending(PS2_CODE_RESEND) => Pending(PS2_CODE_RESEND)'
        BY <1>1, <1>2, <4>2 DEF Pending, HasData
      <4> QED
        BY <1>1, <1>2, <2>1, <2>3, <4>1, <4>3, <4>4 DEF Waiting, IsAnswer
    <3> QED
      BY <3>1, <3>2
  <2> QED
    BY <1>1, <1>2, <2>1, <2>3, <2>4, <2>5 DEF InStep
<1> QED
  BY <1>1, <1>3, <1>4, <1>6 DEF IInv

\* The driver reads the port between two calls, and asks for a garbled byte
\* again.
LEMMA ReadStep ==
    ASSUME IInv, ps2_get_key_event \/ ps2_wait_key_pressed
    PROVE  IInv'
<1>0. Types /\ Wired
  BY DEF IInv
<1>1. /\ pc \in {"idle", "wait_key"} /\ pc' \in {"idle", "wait_key"}
      /\ UNCHANGED <<kbd, todo, call, lost>> /\ port' = Empty
      /\ tx' = IF HasData /\ ~port.valid THEN PS2_CODE_RESEND ELSE tx
  BY DEF ps2_get_key_event, ps2_wait_key_pressed, ps2_read
<1>2. port' \in PortType /\ port'.byte = NoByte /\ ~IsAnswer(NoByte)
  BY <1>1, CodeFacts DEF Empty, PortType, IsAnswer
<1>3. tx' \in Sent \cup {NoByte}
  BY <1>0, <1>1 DEF Types, Sent
<1>4. Types'
  BY <1>0, <1>1, <1>2, <1>3 DEF Types, Sending
<1>5. Wired'
  BY <1>0, <1>1, <1>2 DEF Wired, HasData
<1>6. InStep => InStep'
  <2> SUFFICES ASSUME InStep PROVE InStep'
    OBVIOUS
  <2>1. Calm /\ Shown
    BY <1>1 DEF InStep
  <2>2. NoAnswer'
    BY <1>0, <1>1, <1>2, <2>1 DEF Calm, NoAnswer, Wired, IsAnswer
  <2>3. Calm'
    BY <1>1, <2>1, <2>2 DEF Calm
  <2>4. Shown'
    BY <1>1, <2>1 DEF Shown
  <2>5. ~(~kbd.plugged /\ call \in Commands)
    BY <1>1 DEF InStep, Sending
  <2> QED
    BY <1>1, <2>3, <2>4, <2>5 DEF InStep
<1> QED
  BY <1>1, <1>4, <1>5, <1>6 DEF IInv

\* ps2_wait_key_pressed begins.
LEMMA WaitKeyStep ==
    ASSUME IInv, WaitKey
    PROVE  IInv'
<1>1. pc = "idle" /\ pc' = "wait_key" /\ UNCHANGED <<port, tx, kbd, todo, call, lost>>
  BY DEF WaitKey, history
<1>2. Types'
  BY <1>1 DEF IInv, Types, Sending
<1>3. Wired'
  BY <1>1 DEF IInv, Wired, HasData
<1>4. InStep => InStep'
  BY <1>1 DEF InStep, Calm, NoAnswer, Shown, Sending
<1> QED
  BY <1>1, <1>2, <1>3, <1>4 DEF IInv

\* A call begins.
LEMMA BeginStep ==
    ASSUME IInv, NEW bytes \in Commands, Begin(bytes)
    PROVE  IInv'
<1>1. pc = "idle" /\ pc' = "check" /\ todo' = bytes /\ call' = bytes
      /\ UNCHANGED <<port, tx, kbd, lost>>
  BY DEF Begin, history
<1>2. Types'
  BY <1>1 DEF IInv, Types, Sending
<1>3. Wired'
  BY <1>1 DEF IInv, Wired, HasData
<1>4. InStep => InStep'
  <2>1. Calm => Calm' /\ NoAnswer'
    BY <1>1 DEF Calm, NoAnswer
  <2>2. Before'
    BY <1>1 DEF Before
  <2> QED
    BY <1>1, <2>1, <2>2 DEF InStep, Sending
<1> QED
  BY <1>1, <1>2, <1>3, <1>4 DEF IInv

\* send_byte returns: the next byte is at hand, or the call is over.
LEMMA ByteDoneTypes ==
    ASSUME Types, pc \in Sending, ByteDone
    PROVE  /\ pc' \in Sending \cup {"idle", "wait_key"}
           /\ IF pc' \in Sending THEN todo' \in Commands \cup Rests ELSE todo' = <<>>
           /\ pc' \in {"idle", "check"} /\ (pc' = "idle" <=> todo' = <<>>)
<1>1. todo \in Commands \cup Rests
  BY DEF Types
<1>2. Tail(todo) \in Rests \cup {<<>>}
  BY <1>1, HeadOfTodo
<1>3. todo' = Tail(todo) /\ pc' = IF Tail(todo) = <<>> THEN "idle" ELSE "check"
  BY DEF ByteDone
<1> QED
  BY <1>2, <1>3 DEF Sending

\* send_byte looks for a byte that is waiting.
LEMMA CheckStep ==
    ASSUME IInv, Check
    PROVE  IInv'
<1>0. Types /\ pc \in Sending /\ pc = "check"
  BY DEF IInv, Check, Sending
<1>1. UNCHANGED <<port, tx, kbd, lost>>
  BY DEF Check, history
<1>2. Wired'
  BY <1>1 DEF IInv, Wired, HasData
<1>3. InStep => Calm /\ Before
  BY <1>0 DEF InStep
<1>4. Calm => Calm'
  BY <1>1 DEF Calm, NoAnswer
<1>5. CASE HasData
  <2>1. ByteDone /\ call' \in {NoCall, Exchanged}
    BY <1>5 DEF Check
  <2>2. Types'
    BY <1>0, <1>1, <2>1, ByteDoneTypes DEF Types
  <2>3. call' \notin Commands
    BY <2>1, CommandFacts
  <2>4. pc' \in {"idle", "check"}
    BY <1>0, <2>1, ByteDoneTypes
  <2>5. Calm => InStep'
    BY <1>4, <2>3, <2>4 DEF InStep, Shown, Before
  <2> QED
    BY <1>1, <1>2, <1>3, <2>2, <2>5 DEF IInv
<1>6. CASE ~HasData
  <2>1. pc' = "start" /\ UNCHANGED <<todo, call>>
    BY <1>6 DEF Check
  <2>2. Types'
    BY <1>0, <1>1, <2>1 DEF Types, Sending
  <2>3. Before => Before'
    BY <1>1, <2>1 DEF Before, Wanted
  <2>4. NoAnswer => NoAnswer'
    BY <1>1 DEF NoAnswer
  <2>5. InStep => InStep'
    BY <1>1, <1>3, <1>4, <2>1, <2>3, <2>4 DEF InStep, Sending
  <2> QED
    BY <1>1, <1>2, <2>2, <2>5 DEF IInv
<1> QED
  BY <1>5, <1>6

\* send_byte writes its byte.
LEMMA StartStep ==
    ASSUME IInv, Start
    PROVE  IInv'
<1>0. Types /\ pc \in Sending /\ pc = "start"
  BY DEF IInv, Start, Sending
<1>1. /\ UNCHANGED <<port, kbd, todo, call>> /\ tx' = Head(todo) /\ pc' = "wait_response"
      /\ ~lost' => ~lost
  BY DEF Start
<1>2. tx' \in Sent /\ tx' # PS2_CODE_RESEND
  BY <1>0, <1>1, HeadOfTodo
<1>3. Types'
  BY <1>0, <1>1, <1>2 DEF Types, Sending
<1>4. Wired'
  BY <1>1 DEF IInv, Wired, HasData
<1>5. InStep => InStep'
  <2> SUFFICES ASSUME InStep PROVE InStep'
    OBVIOUS
  <2>1. Calm /\ Before
    BY <1>0 DEF InStep
  <2>2. Before'
    BY <1>1, <2>1 DEF Before, Wanted
  <2>3. NoAnswer'
    BY <1>1, <1>2, <2>1 DEF Calm, NoAnswer
  <2>4. Waiting'
    BY <1>1, <2>1, <2>2, <2>3 DEF Waiting, Calm, NoAnswer
  <2> QED
    BY <1>1, <2>3, <2>4 DEF InStep, Sending
<1> QED
  BY <1>1, <1>3, <1>4, <1>5 DEF IInv

\* send_byte takes a byte of the keyboard for its answer.
LEMMA TakesAnswerStep ==
    ASSUME IInv, TakesAnswer
    PROVE  IInv'
<1>0. Types /\ pc \in Sending /\ pc = "wait_response" /\ HasData
  BY DEF IInv, TakesAnswer, Sending
<1>1. /\ UNCHANGED <<tx, kbd, call>> /\ port' = Empty
      /\ ~lost' => ~lost /\ IsAnswer(port.byte)
      /\ IF port.byte = PS2_CODE_ACK THEN ByteDone ELSE pc' = "start" /\ UNCHANGED todo
  BY DEF TakesAnswer
<1>2. port' \in PortType /\ port'.byte = NoByte /\ ~IsAnswer(NoByte)
  BY <1>1, CodeFacts DEF Empty, PortType, IsAnswer
<1>3. Types'
  <2>1. CASE port.byte = PS2_CODE_ACK
    BY <1>0, <1>1, <1>2, <2>1, ByteDoneTypes DEF Types
  <2>2. CASE port.byte # PS2_CODE_ACK
    BY <1>0, <1>1, <1>2, <2>2 DEF Types, Sending
  <2> QED
    BY <2>1, <2>2
<1>4. Wired'
  BY <1>1, <1>2 DEF IInv, Wired, HasData
<1>5. ASSUME ~lost' PROVE InStep'
  <2>1. InStep /\ IsAnswer(port.byte) /\ Waiting
    BY <1>0, <1>1, <1>5 DEF IInv, InStep
  <2>2. ~NoAnswer /\ ~Calm
    BY <2>1 DEF NoAnswer, Calm
  <2>3. PS2_CODE_ACK # PS2_CODE_RESEND /\ NoByte # PS2_CODE_RESEND
    BY CodeFacts
  <2>4. /\ kbd.resp = NoByte /\ tx = NoByte
        /\ \/ port.byte = PS2_CODE_ACK /\ After
           \/ port.byte = PS2_CODE_RESEND /\ Before
    BY <1>0, <2>1, <2>2 DEF Waiting, Pending
  <2>5. Calm'
    BY <1>1, <1>2, <2>3, <2>4 DEF Calm, NoAnswer
  <2>6. kbd.plugged \/ call \notin Commands
    BY <2>1, <2>2 DEF InStep
  <2>7. CASE port.byte = PS2_CODE_RESEND
    <3>1. pc' = "start" /\ UNCHANGED todo /\ Before
      BY <1>1, <2>3, <2>4, <2>7
    <3>2. Before'
      BY <1>1, <3>1 DEF Before, Wanted
    <3> QED
      BY <1>1, <2>5, <2>6, <3>1, <3>2 DEF InStep
  <2>8. CASE port.byte = PS2_CODE_ACK
    <3>1. After /\ ByteDone
      BY <1>1, <2>3, <2>4, <2>8
    <3>2. pc' \in {"idle", "check"} /\ (pc' = "idle" <=> todo' = <<>>) /\ todo' = Tail(todo)
      BY <1>0, <3>1, ByteDoneTypes DEF ByteDone
    <3>3. CASE call \notin Commands
      <4>1. Shown' /\ Before'
        BY <1>1, <3>3 DEF Shown, Before
      <4> QED
        BY <1>1, <2>5, <2>6, <3>2, <4>1 DEF InStep
    <3>4. CASE call \in Commands /\ todo = call
      <4>1. CASE Len(call) = 2
        <5>1. todo' = <<call[2]>> /\ todo' # <<>>
          BY <3>2, <3>4, <4>1, CommandFacts
        <5>2. kbd.mode = Wanted
          BY <3>1, <3>4, <4>1 DEF After
        <5>3. Before'
          BY <1>1, <4>1, <5>1, <5>2 DEF Before, Wanted
        <5> QED
          BY <1>1, <2>5, <2>6, <3>2, <5>1, <5>3 DEF InStep
      <4>2. CASE Len(call) # 2
        <5>1. call = <<255>> /\ Tail(call) = <<>>
          BY <3>4, <4>2, CommandFacts
        <5>2. call[1] # \hED
          BY <5>1, CodeFacts
        <5>3. pc' = "idle" /\ Shown'
          BY <1>1, <3>2, <3>4, <5>1, <5>2 DEF Shown
        <5> QED
          BY <1>1, <2>5, <2>6, <5>3 DEF InStep
      <4> QED
        BY <4>1, <4>2
    <3>5. CASE call \in Commands /\ todo # call
      <4>1. Len(call) = 2 /\ todo = <<call[2]>> /\ Shown
        BY <3>1, <3>5 DEF After
      <4>2. \A x : Tail(<<x>>) = <<>>
        OBVIOUS
      <4>3. pc' = "idle"
        BY <3>2, <4>1, <4>2
      <4>4. Shown'
        BY <1>1, <4>1 DEF Shown
      <4> QED
        BY <1>1, <2>5, <2>6, <4>3, <4>4 DEF InStep
    <3> QED
      BY <3>3, <3>4, <3>5
  <2> QED
    BY <2>4, <2>7, <2>8
<1> QED
  BY <1>3, <1>4, <1>5 DEF IInv

\* send_byte asks for a garbled byte again.
LEMMA AsksAgainStep ==
    ASSUME IInv, AsksAgain
    PROVE  IInv'
<1>0. Types /\ Wired /\ pc = "wait_response" /\ HasData /\ port.byte = kbd.last
  BY DEF IInv, AsksAgain, Wired
<1>1. UNCHANGED <<kbd, pc, todo, call, lost>> /\ port' = Empty /\ tx' = PS2_CODE_RESEND
  BY DEF AsksAgain, hostVars, history
<1>2. port' \in PortType /\ port'.byte = NoByte /\ ~IsAnswer(NoByte) /\ ~HasData'
  BY <1>1, CodeFacts DEF Empty, PortType, IsAnswer, HasData
<1>3. Types'
  BY <1>0, <1>1, <1>2 DEF Types, Sent
<1>4. Wired'
  BY <1>0, <1>1, <1>2 DEF Wired
<1>5. InStep => InStep'
  <2> SUFFICES ASSUME InStep PROVE InStep'
    OBVIOUS
  <2>1. Waiting
    BY <1>0 DEF InStep
  <2>2. ~IsAnswer(port.byte) => NoAnswer'
    BY <1>0, <1>1, <1>2 DEF NoAnswer, IsAnswer
  <2>3. NoAnswer => NoAnswer'
    BY <2>2 DEF NoAnswer
  <2>4. Before => Before'
    BY <1>1 DEF Before, Wanted
  <2>5. After => After'
    BY <1>1 DEF After, Shown, Wanted
  <2>6. Pending(PS2_CODE_ACK) => Pending(PS2_CODE_ACK)'
    BY <1>0, <1>1, <1>2, <2>3 DEF Pending
  <2>7. Pending(PS2_CODE_RESEND) => Pending(PS2_CODE_RESEND)'
    BY <1>0, <1>1, <1>2, <2>3 DEF Pending
  <2>8. kbd.resp = NoByte /\ ~IsAnswer(port.byte) => Calm'
    BY <1>1, <2>2 DEF Calm
  <2>9. Waiting'
    BY <2>1, <2>4, <2>5, <2>6, <2>7, <2>8 DEF Waiting, Calm, NoAnswer
  <2> QED
    BY <1>0, <1>1, <2>3, <2>9 DEF InStep, Sending
<1> QED
  BY <1>1, <1>3, <1>4, <1>5 DEF IInv

-----------------------------------------------------------------------------
(* The theorem.                                                            *)

\* The driver and the keyboard start in step.
LEMMA InitInStep == Init => IInv
<1> SUFFICES ASSUME Init PROVE IInv
  OBVIOUS
<1>1. /\ port.byte = NoByte /\ tx = NoByte /\ pc = "idle" /\ todo = <<>> /\ call = NoCall
      /\ port \in PortType
  BY DEF Init, Empty, PortType
<1>2. /\ kbd.plugged /\ kbd.resp = NoByte /\ kbd \in KbdType
  <2>1. PS2_CODE_BAT_PASSED \in Codes /\ <<PS2_CODE_BAT_PASSED>> \in Seq(Codes)
    BY CodeFacts DEF Codes, Answers
  <2> QED
    BY <2>1 DEF Init, KbdType
<1>3. call \notin Commands
  BY <1>1, CommandFacts
<1>4. ~IsAnswer(NoByte) /\ NoByte # PS2_CODE_RESEND
  BY CodeFacts DEF IsAnswer
<1>5. Types
  BY <1>1, <1>2 DEF Types, Sending
<1>6. Wired
  BY <1>1, <1>2 DEF Wired, HasData
<1>7. InStep
  BY <1>1, <1>2, <1>3, <1>4 DEF InStep, Calm, NoAnswer, Shown
<1> QED
  BY <1>5, <1>6, <1>7 DEF IInv

\* Every step of the driver, the keyboard and the user leaves them in step.
LEMMA NextInStep == IInv /\ [Next]_vars => IInv'
<1> SUFFICES ASSUME IInv, [Next]_vars PROVE IInv'
  OBVIOUS
<1>1. CASE UNCHANGED vars
  <2>1. UNCHANGED <<port, tx, pc, todo, call, kbd, lost>>
    BY <1>1 DEF vars
  <2> QED
    BY <2>1, SameTalk DEF IInv, Types
<1>2. CASE Next
  <2>1. ASSUME NEW k \in Keys, Press(k) \/ Release(k) PROVE IInv'
    BY <2>1, StrikeStep
  <2>2. ASSUME ps2_reset PROVE IInv'
    BY <2>2, BeginStep DEF ps2_reset, Commands
  <2>3. ASSUME NEW a \in Args, ps2_set_led_mask(a) \/ ps2_set_rate(a) PROVE IInv'
    <3>1. <<\hED, a>> \in Commands /\ <<\hF3, a>> \in Commands
      BY DEF Commands
    <3> QED
      BY <2>3, <3>1, BeginStep DEF ps2_set_led_mask, ps2_set_rate
  <2> QED
    BY <1>2, <2>1, <2>2, <2>3, KeyboardSendsStep, KeyboardReceivesStep, UnplugStep, PlugStep,
       ReadStep, WaitKeyStep, CheckStep, StartStep, TakesAnswerStep, AsksAgainStep DEF Next
<1> QED
  BY <1>1, <1>2

\* When ps2_set_led_mask has returned, neither byte was refused by send_byte
\* and no scancode was lost or taken for an answer, the keyboard shows the
\* mask: through garbled transfers in both directions, keys struck meanwhile,
\* and whatever was left in the port by the read before.
THEOREM LedsAlwaysAsAsked == Spec => []LedsAsAsked
<1>1. IInv => LedsAsAsked
  <2> SUFFICES ASSUME IInv, pc = "idle", call # NoCall, Head(call) = \hED, ~lost
               PROVE  kbd.leds = call[2]
    BY DEF LedsAsAsked
  <2>1. Shown
    BY DEF IInv, InStep
  <2>2. Head(Exchanged) # \hED
    BY CodeFacts DEF Exchanged
  <2>3. call \in Commands
    BY <2>2 DEF IInv, Types
  <2>4. call[1] = \hED
    BY <2>3, CommandFacts
  <2> QED
    BY <2>1, <2>3, <2>4 DEF Shown
<1> QED
  BY <1>1, InitInStep, NextInStep, PTL DEF Spec

-----------------------------------------------------------------------------
(***************************************************************************)
(* What the decoder makes of the codes under way.                          *)
(***************************************************************************)
Bits == {"SHIFT", "CTRL", "ALT", "WIN"}
Decoders == [extended : BOOLEAN, release : BOOLEAN, mask : SUBSET Bits]
Chars == {Ascii(m, e) : m \in SUBSET Bits, e \in 1 .. 127}
Readings == [decoder : Decoders, text : Seq(Chars)]

\* The tables of the decoder hold numbers of keys.
LEMMA KeyNumbers ==
    \A c \in 0 .. 255 : scancode[c] \in 0 .. 127 /\ scancode_ext[c] \in 0 .. 127
<1>1. Len(ScancodeRows) = 132 /\ \A i \in 1 .. 132 : ScancodeRows[i] \in 0 .. 127
  BY SMTT(40) DEF ScancodeRows
<1>2. ASSUME NEW c \in 0 .. 255 PROVE scancode[c] \in 0 .. 127
  <2>1. scancode[c] = IF c < 132 THEN ScancodeRows[c + 1] ELSE 0
    BY <1>1, ZenonT(40) DEF scancode
  <2>2. c < 132 => c + 1 \in 1 .. 132
    OBVIOUS
  <2> QED
    BY <1>1, <2>1, <2>2
<1>3. \A p \in ExtendedPairs : p[2] \in 0 .. 127
  BY SMTT(40) DEF ExtendedPairs
<1>4. ASSUME NEW c \in 0 .. 255 PROVE scancode_ext[c] \in 0 .. 127
  <2>1. scancode_ext[c] = KeyIn(ExtendedPairs, c)
    BY DEF scancode_ext
  <2>2. CASE \E p \in ExtendedPairs : p[1] = c
    <3>1. PICK p \in ExtendedPairs : p = CHOOSE q \in ExtendedPairs : q[1] = c
      BY <2>2
    <3>2. KeyIn(ExtendedPairs, c) = p[2]
      BY <2>2, <3>1, Zenon DEF KeyIn
    <3> QED
      BY <1>3, <2>1, <3>2
  <2>3. CASE ~\E p \in ExtendedPairs : p[1] = c
    <3>1. KeyIn(ExtendedPairs, c) = 0
      BY <2>3, Zenon DEF KeyIn
    <3> QED
      BY <2>1, <3>1
  <2> QED
    BY <2>2, <2>3
<1> QED
  BY <1>2, <1>4

\* An entry of scancode_ext.
LEMMA ExtendedEntry ==
    ASSUME NEW p \in ExtendedPairs
    PROVE  p[1] \in 0 .. 255 /\ scancode_ext[p[1]] = p[2]
<1>1. p[1] \in 0 .. 255
  BY SMTT(40) DEF ExtendedPairs
<1>2. \A q \in ExtendedPairs : q[1] = p[1] => q[2] = p[2]
  BY SMTT(40) DEF ExtendedPairs
<1>3. PICK q \in ExtendedPairs :
        q = (CHOOSE r \in ExtendedPairs : r[1] = p[1]) /\ q[1] = p[1]
  OBVIOUS
<1>4. KeyIn(ExtendedPairs, p[1]) = q[2]
  BY <1>3, Zenon DEF KeyIn
<1> QED
  BY <1>1, <1>2, <1>3, <1>4 DEF scancode_ext

\* The bit the decoder knows a key by is the modifier of the keyboard's layout.
LEMMA ModifierKeys ==
    ASSUME NEW k \in BOOLEAN \X (0 .. 255)
    PROVE  /\ KeyStruck(k) \in 0 .. 127
           /\ BitOf(k) = ModifierOf(KeyStruck(k)) /\ BitOf(k) \in SUBSET Bits
<1> DEFINE c == k[2]
           key == KeyStruck(k)
<1>1. k[1] \in BOOLEAN /\ c \in 0 .. 255 /\ k = <<k[1], c>>
  <2>1. PICK b \in BOOLEAN, n \in 0 .. 255 : k = <<b, n>>
    OBVIOUS
  <2>2. k[1] = b /\ k[2] = n
    BY <2>1, Zenon
  <2> QED
    BY <2>1, <2>2
<1>2. key \in 0 .. 127
  <2>1. \A n \in 0 .. 255 : scancode[n] \in 0 .. 127 /\ scancode_ext[n] \in 0 .. 127
    BY KeyNumbers
  <2>2. scancode[c] \in 0 .. 127 /\ scancode_ext[c] \in 0 .. 127
    BY <1>1, <2>1, ZenonT(40)
  <2>3. key = scancode[c] \/ key = scancode_ext[c]
    BY DEF KeyStruck
  <2> QED
    BY <2>2, <2>3
<1>3. CASE k[1]
  <2>1. key = KeyIn(ExtendedPairs, c)
    BY <1>1, <1>3 DEF KeyStruck, scancode_ext
  <2>2. ASSUME NEW p \in ExtendedPairs, p[1] = c PROVE key = p[2]
    BY <1>1, <1>3, <2>2, ExtendedEntry DEF KeyStruck
  <2>3. <<17, 22>> \in ExtendedPairs /\ <<20, 25>> \in ExtendedPairs
        /\ <<31, 21>> \in ExtendedPairs /\ <<39, 23>> \in ExtendedPairs
    BY DEF ExtendedPairs
  <2>4. /\ c = 17 => key = 22
        /\ c = 20 => key = 25
        /\ c = 31 => key = 21
        /\ c = 39 => key = 23
    BY <2>2, <2>3
  <2>5. \A p \in ExtendedPairs : p[1] \notin {17, 20, 31, 39} => p[2] \notin 17 .. 23 \cup {25}
                                                                  \/ p[2] = 24
    BY SMTT(40) DEF ExtendedPairs
  <2>6. c \notin {17, 20, 31, 39} => key \notin {17, 18, 19, 25, 20, 22, 21, 23}
    <3>1. CASE \E p \in ExtendedPairs : p[1] = c
      BY <2>2, <2>5, <3>1
    <3>2. CASE ~\E p \in ExtendedPairs : p[1] = c
      BY <2>1, <3>2 DEF KeyIn
    <3> QED
      BY <3>1, <3>2
  <2> HIDE DEF key, c
  <2>7. BitOf(k) = CASE c = 20 -> {"CTRL"} [] c = 17 -> {"ALT"} [] c \in {31, 39} -> {"WIN"}
                     [] OTHER -> {}
    <3>1. k = <<TRUE, c>>
      BY <1>1, <1>3
    <3>2. BitOf(<<TRUE, c>>) = CASE c = 20 -> {"CTRL"} [] c = 17 -> {"ALT"}
                     [] c \in {31, 39} -> {"WIN"} [] OTHER -> {}
      BY <1>1 DEF BitOf
    <3> QED
      BY <3>1, <3>2
  <2>8. BitOf(k) = ModifierOf(key)
    BY <1>1, <2>4, <2>6, <2>7 DEF ModifierOf
  <2>9. BitOf(k) \in SUBSET Bits
    BY <1>1, <2>7 DEF Bits
  <2> QED
    BY <1>2, <2>8, <2>9 DEF key
<1>4. CASE ~k[1]
  <2>1. key = IF c < 132 THEN ScancodeRows[c + 1] ELSE 0
    <3>1. Len(ScancodeRows) = 132
      BY SMTT(40) DEF ScancodeRows
    <3>2. key = scancode[c]
      BY <1>1, <1>4 DEF KeyStruck
    <3> QED
      BY <1>1, <3>1, <3>2 DEF scancode
  <2>2. /\ ScancodeRows[18 + 1] = 17 /\ ScancodeRows[89 + 1] = 18
        /\ ScancodeRows[20 + 1] = 19 /\ ScancodeRows[17 + 1] = 20
    BY DEF ScancodeRows
  <2>3. \A i \in 1 .. 132 : ScancodeRows[i] \in {17, 18, 19, 25, 20, 22, 21, 23}
                                => i \in {19, 90, 21, 18}
    BY SMTT(60) DEF ScancodeRows
  <2> HIDE DEF key, c
  <2>4. /\ c = 18 => key = 17
        /\ c = 89 => key = 18
        /\ c = 20 => key = 19
        /\ c = 17 => key = 20
    BY <2>1, <2>2
  <2>5. c \notin {18, 89, 20, 17} => key \notin {17, 18, 19, 25, 20, 22, 21, 23}
    <3>1. CASE c < 132
      <4>1. c + 1 \in 1 .. 132 /\ key = ScancodeRows[c + 1]
        BY <1>1, <2>1, <3>1 DEF c
      <4>2. c \notin {18, 89, 20, 17} => c + 1 \notin {19, 90, 21, 18}
        BY <1>1 DEF c
      <4> QED
        BY <2>3, <4>1, <4>2
    <3>2. CASE ~(c < 132)
      BY <2>1, <3>2
    <3> QED
      BY <3>1, <3>2
  <2>6. k = <<FALSE, c>>
    BY <1>1, <1>4 DEF c
  <2>7. BitOf(<<FALSE, c>>) = CASE c \in {18, 89} -> {"SHIFT"} [] c = 20 -> {"CTRL"}
                                [] c = 17 -> {"ALT"} [] OTHER -> {}
    BY <1>1 DEF BitOf
  <2>8. BitOf(k) = CASE c \in {18, 89} -> {"SHIFT"} [] c = 20 -> {"CTRL"}
                     [] c = 17 -> {"ALT"} [] OTHER -> {}
    BY <2>6, <2>7
  <2>9. BitOf(k) = ModifierOf(key)
    BY <1>1, <2>4, <2>5, <2>8 DEF ModifierOf
  <2>10. BitOf(k) \in SUBSET Bits
    BY <1>1, <2>8 DEF Bits
  <2> QED
    BY <1>2, <2>9, <2>10 DEF key
<1> QED
  BY <1>3, <1>4

\* One code more is decoded.
LEMMA DecodedType ==
    ASSUME NEW d \in Decoders, NEW c \in 0 .. 255
    PROVE  /\ Decoded(d, c) \in Decoders
           /\ IsPress(Event(d, c)) => Event(d, c) \in 1 .. 127
<1>1. d.extended \in BOOLEAN /\ d.release \in BOOLEAN /\ d.mask \in SUBSET Bits
  BY DEF Decoders
<1>2. PICK key \in 0 .. 127 : key = KeyOf(d, c)
  <2>1. scancode[c] \in 0 .. 127 /\ scancode_ext[c] \in 0 .. 127
    BY KeyNumbers
  <2> QED
    BY <2>1 DEF KeyOf
<1>3. ModifierOf(key) \in SUBSET Bits
  BY DEF ModifierOf, Bits
<1>4. d.mask \ ModifierOf(key) \in SUBSET Bits /\ d.mask \cup ModifierOf(key) \in SUBSET Bits
  BY <1>1, <1>3
<1>5. Decoded(d, c) \in Decoders
  <2>1. CASE c = PS2_READ_EMPTY
    <3>1. Decoded(d, c) = d
      BY <2>1 DEF Decoded, PS2_READ_EMPTY, PS2_CODE_BAT_PASSED, PS2_CODE_BUFFER_OVERRUN,
                  Completes
    <3> QED
      BY <3>1
  <2>2. CASE c \in {PS2_CODE_BAT_PASSED, PS2_CODE_BUFFER_OVERRUN}
    <3>1. c # PS2_READ_EMPTY
      BY <2>2 DEF PS2_READ_EMPTY, PS2_CODE_BAT_PASSED, PS2_CODE_BUFFER_OVERRUN
    <3>2. Decoded(d, c) = [d EXCEPT !.extended = FALSE, !.release = FALSE]
      BY <2>2, <3>1 DEF Decoded, PS2_CODE_BAT_PASSED, PS2_CODE_BUFFER_OVERRUN, Completes
    <3> QED
      BY <3>2 DEF Decoders
  <2>3. CASE c = \hF0
    <3>1. c # PS2_READ_EMPTY /\ c \notin {PS2_CODE_BAT_PASSED, PS2_CODE_BUFFER_OVERRUN}
      BY <2>3 DEF PS2_READ_EMPTY, PS2_CODE_BAT_PASSED, PS2_CODE_BUFFER_OVERRUN
    <3>2. Decoded(d, c) = [d EXCEPT !.release = TRUE]
      BY <2>3, <3>1 DEF Decoded, Completes, IsPrefixCode
    <3> QED
      BY <3>2 DEF Decoders
  <2>4. CASE c \in {\hE0, \hE1}
    <3>1. c # PS2_READ_EMPTY /\ c \notin {PS2_CODE_BAT_PASSED, PS2_CODE_BUFFER_OVERRUN}
          /\ c # \hF0
      BY <2>4 DEF PS2_READ_EMPTY, PS2_CODE_BAT_PASSED, PS2_CODE_BUFFER_OVERRUN
    <3>2. Decoded(d, c) = [d EXCEPT !.extended = TRUE]
      BY <2>4, <3>1 DEF Decoded, Completes, IsPrefixCode
    <3> QED
      BY <3>2 DEF Decoders
  <2>5. CASE Completes(c)
    <3>1. Decoded(d, c) =
            [extended |-> FALSE, release |-> FALSE,
             mask |-> IF d.release THEN d.mask \ ModifierOf(key) ELSE d.mask \cup ModifierOf(key)]
      BY <1>2, <2>5 DEF Decoded, Completes, IsPrefixCode
    <3> QED
      BY <1>4, <3>1 DEF Decoders
  <2> QED
    BY <2>1, <2>2, <2>3, <2>4, <2>5 DEF Completes, IsPrefixCode
<1>6. ASSUME IsPress(Event(d, c)) PROVE Event(d, c) \in 1 .. 127
  <2>1. Completes(c)
    BY <1>6 DEF IsPress, Event
  <2>2. Event(d, c) \in {key, key + PS2_KEY_RELEASE}
    BY <1>2, <2>1 DEF Event
  <2>3. Event(d, c) # 0 /\ Event(d, c) < 128
    BY <1>6 DEF IsPress, PS2_KEY_RELEASE
  <2> QED
    BY <2>2, <2>3 DEF PS2_KEY_RELEASE
<1> QED
  BY <1>5, <1>6

\* A character that is read.
LEMMA CharRead == \A m \in SUBSET Bits, e \in 1 .. 127 : Ascii(m, e) \in Chars
BY DEF Chars

\* One code more is read.
LEMMA ReadType ==
    ASSUME NEW r \in Readings, NEW c \in 0 .. 255
    PROVE  Read(r, c) \in Readings
<1>1. r.decoder \in Decoders /\ r.text \in Seq(Chars)
  BY DEF Readings
<1>2. PICK d, e : d = Decoded(r.decoder, c) /\ e = Event(r.decoder, c)
  OBVIOUS
<1>3. d \in Decoders /\ (IsPress(e) => e \in 1 .. 127)
  BY <1>1, <1>2, DecodedType
<1>4. d.mask \in SUBSET Bits
  BY <1>3 DEF Decoders
<1>5. IsPress(e) => Append(r.text, Ascii(d.mask, e)) \in Seq(Chars)
  <2>1. IsPress(e) => Ascii(d.mask, e) \in Chars
    BY <1>3, <1>4, CharRead
  <2> QED
    BY <1>1, <2>1
<1>6. Read(r, c) = [decoder |-> d,
                    text |-> IF IsPress(e) THEN Append(r.text, Ascii(d.mask, e)) ELSE r.text]
  BY <1>2 DEF Read
<1> QED
  BY <1>1, <1>3, <1>5, <1>6 DEF Readings

\* The numbers up to n, one after another.
LEMMA Upwards ==
    ASSUME NEW n \in Nat, NEW T, 0 \in T, \A k \in 0 .. n - 1 : k \in T => k + 1 \in T
    PROVE  0 .. n \subseteq T
<1> DEFINE W == {k \in 0 .. n : k \notin T}
<1> SUFFICES ASSUME W # {} PROVE FALSE
  OBVIOUS
<1>1. W \subseteq Nat
  OBVIOUS
<1>2. PICK m \in W : \A y \in W : ~(<<y, m>> \in OpToRel(<, Nat))
  <2> HIDE DEF W
  <2> QED
    BY <1>1, WFMin, NatLessThanWellFounded
<1>3. m # 0 /\ m \in 0 .. n
  BY <1>2
<1>4. m - 1 \in 0 .. n - 1 /\ m - 1 + 1 = m /\ m - 1 < m
  BY <1>3
<1>5. <<m - 1, m>> \in OpToRel(<, Nat)
  <2>1. m \in Nat /\ m - 1 \in Nat
    BY <1>3, <1>4
  <2> QED
    BY <1>4, <2>1 DEF OpToRel
<1>6. m - 1 \in T
  <2>1. m - 1 \notin W
    BY <1>2, <1>5, Zenon
  <2>2. m - 1 \in 0 .. n
    BY <1>4
  <2> QED
    BY <2>1, <2>2
<1> QED
  BY <1>2, <1>4, <1>6

\* g is what was read after each number of codes, up to n.
Fresh(d) == [decoder |-> d, text |-> <<>>]
Reads(g, d, codes, n) == g[0] = Fresh(d) /\ \A i \in 1 .. n : g[i] = Read(g[i - 1], codes[i])

\* Codes are read one by one.
LEMMA ReadSteps ==
    ASSUME NEW d, NEW codes, NEW n \in Nat, n = Len(codes)
    PROVE  \E g : Reads(g, d, codes, n) /\ ReadingOf(d, codes) = g[n]
<1> DEFINE Body(h) == [i \in 0 .. Len(codes) |->
                         IF i = 0 THEN [decoder |-> d, text |-> <<>>]
                         ELSE Read(h[i - 1], codes[i])]
           after == CHOOSE h : h = Body(h)
           T == {m \in 0 .. n : \E g : Reads(g, d, codes, m)}
<1>1. ReadingOf(d, codes) = after[n]
  BY DEF ReadingOf
<1>2. ASSUME NEW h, NEW i \in 0 .. n
      PROVE  Body(h)[i] = IF i = 0 THEN Fresh(d) ELSE Read(h[i - 1], codes[i])
  BY DEF Fresh
<1>3. \A h : DOMAIN Body(h) = 0 .. n /\ Body(h) = [i \in 0 .. n |-> Body(h)[i]]
  OBVIOUS
<1> HIDE DEF Body
<1>4. 0 \in T
  <2>1. Reads([i \in {0} |-> Fresh(d)], d, codes, 0)
    BY DEF Reads
  <2>2. \E g : Reads(g, d, codes, 0)
    BY <2>1
  <2> QED
    BY <2>2
<1>5. ASSUME NEW m \in 0 .. n - 1, m \in T PROVE m + 1 \in T
  <2>1. PICK g : Reads(g, d, codes, m)
    BY <1>5
  <2> DEFINE h == [i \in 0 .. m + 1 |-> IF i = m + 1 THEN Read(g[m], codes[i]) ELSE g[i]]
  <2>2. h[0] = g[0]
    OBVIOUS
  <2>3. ASSUME NEW i \in 1 .. m + 1 PROVE h[i] = Read(h[i - 1], codes[i])
    <3>1. CASE i = m + 1
      <4>1. h[i] = Read(g[m], codes[i]) /\ i - 1 = m /\ h[m] = g[m]
        BY <3>1
      <4> HIDE DEF h
      <4> QED
        BY <3>1, <4>1
    <3>2. CASE i # m + 1
      <4>1. h[i] = g[i] /\ h[i - 1] = g[i - 1] /\ i \in 1 .. m
        BY <3>2
      <4> HIDE DEF h
      <4> QED
        BY <2>1, <4>1 DEF Reads
    <3> QED
      BY <3>1, <3>2
  <2> HIDE DEF h
  <2>4. Reads(h, d, codes, m + 1)
    BY <2>1, <2>2, <2>3 DEF Reads
  <2>5. m + 1 \in 0 .. n
    OBVIOUS
  <2> QED
    BY <2>4, <2>5
<1>6. n \in T
  <2> HIDE DEF T
  <2>1. 0 .. n \subseteq T
    BY <1>4, <1>5, Upwards
  <2> QED
    BY <2>1
<1>7. PICK g : Reads(g, d, codes, n)
  BY <1>6
<1> DEFINE f == [i \in 0 .. n |-> g[i]]
<1>8. f = Body(f)
  <2>1. ASSUME NEW i \in 0 .. n PROVE f[i] = Body(f)[i]
    <3>1. CASE i = 0
      BY <1>2, <1>7, <3>1 DEF Reads
    <3>2. CASE i # 0
      <4>1. i \in 1 .. n /\ f[i] = g[i] /\ f[i - 1] = g[i - 1]
        BY <3>2
      <4>2. g[i] = Read(g[i - 1], codes[i])
        BY <1>7, <4>1 DEF Reads
      <4> HIDE DEF f
      <4> QED
        BY <1>2, <3>2, <4>1, <4>2
    <3> QED
      BY <3>1, <3>2
  <2>2. DOMAIN f = 0 .. n /\ f = [i \in 0 .. n |-> f[i]]
    OBVIOUS
  <2> HIDE DEF f
  <2>3. [i \in 0 .. n |-> f[i]] = [i \in 0 .. n |-> Body(f)[i]]
    BY <2>1
  <2> QED
    BY <1>3, <2>2, <2>3
<1>9. after = Body(after)
  <2>1. \E h : h = Body(h)
    BY <1>8
  <2> QED
    BY <2>1
<1> HIDE DEF after
<1>10. Reads(after, d, codes, n)
  <2>1. ASSUME NEW i \in 0 .. n
        PROVE  after[i] = IF i = 0 THEN Fresh(d) ELSE Read(after[i - 1], codes[i])
    <3>1. after[i] = Body(after)[i]
      BY <1>9
    <3>2. Body(after)[i] = IF i = 0 THEN Fresh(d) ELSE Read(after[i - 1], codes[i])
      BY <1>2
    <3> QED
      BY <3>1, <3>2
  <2>2. after[0] = Fresh(d)
    <3>1. 0 \in 0 .. n
      OBVIOUS
    <3> QED
      BY <2>1, <3>1, Zenon
  <2>3. ASSUME NEW i \in 1 .. n PROVE after[i] = Read(after[i - 1], codes[i])
    <3>1. i \in 0 .. n /\ i # 0
      OBVIOUS
    <3> QED
      BY <2>1, <3>1
  <2> QED
    BY <2>2, <2>3 DEF Reads
<1> QED
  BY <1>1, <1>10

\* Everything read on the way is a reading.
LEMMA ReadsType ==
    ASSUME NEW d \in Decoders, NEW codes \in Seq(0 .. 255), NEW g, Reads(g, d, codes, Len(codes))
    PROVE  \A i \in 0 .. Len(codes) : g[i] \in Readings
<1> DEFINE T == {i \in 0 .. Len(codes) : g[i] \in Readings}
<1>1. PICK n \in Nat : n = Len(codes)
  OBVIOUS
<1>2. 0 \in T
  <2>1. <<>> \in Seq(Chars)
    OBVIOUS
  <2>2. Fresh(d) \in Readings
    BY <2>1 DEF Fresh, Readings
  <2> QED
    BY <2>2 DEF Reads
<1>3. ASSUME NEW k \in 0 .. n - 1, k \in T PROVE k + 1 \in T
  <2>1. g[k] \in Readings /\ k + 1 \in 1 .. n /\ k + 1 - 1 = k /\ codes[k + 1] \in 0 .. 255
    BY <1>1, <1>3
  <2>2. g[k + 1] = Read(g[k], codes[k + 1])
    BY <1>1, <2>1 DEF Reads
  <2>3. g[k + 1] \in Readings
    BY <2>1, <2>2, ReadType
  <2> QED
    BY <1>1, <2>1, <2>3
<1> HIDE DEF T
<1>4. 0 .. n \subseteq T
  BY <1>2, <1>3, Upwards
<1> QED
  BY <1>1, <1>4 DEF T

\* One code more at the end is read after the others.
LEMMA ReadLast ==
    ASSUME NEW d \in Decoders, NEW codes \in Seq(0 .. 255), NEW c \in 0 .. 255
    PROVE  /\ ReadingOf(d, codes) \in Readings
           /\ ReadingOf(d, Append(codes, c)) = Read(ReadingOf(d, codes), c)
<1>1. PICK n \in Nat, more \in Seq(0 .. 255) : n = Len(codes) /\ more = Append(codes, c)
  <2>1. Append(codes, c) \in Seq(0 .. 255) /\ Len(codes) \in Nat
    OBVIOUS
  <2> QED
    BY <2>1
<1>2. /\ n + 1 \in Nat /\ n + 1 = Len(more) /\ more[n + 1] = c
      /\ \A i \in 1 .. n : more[i] = codes[i]
  BY <1>1
<1>3. PICK g : Reads(g, d, codes, n) /\ ReadingOf(d, codes) = g[n]
  BY <1>1, ReadSteps, Zenon
<1>4. PICK h : Reads(h, d, more, n + 1) /\ ReadingOf(d, more) = h[n + 1]
  BY <1>2, ReadSteps, Zenon
<1> DEFINE T == {i \in 0 .. n : h[i] = g[i]}
<1>5. 0 \in T
  BY <1>3, <1>4 DEF Reads
<1>6. ASSUME NEW k \in 0 .. n - 1, k \in T PROVE k + 1 \in T
  <2>1. h[k] = g[k] /\ k + 1 \in 1 .. n /\ k + 1 \in 1 .. n + 1 /\ k + 1 - 1 = k
    BY <1>6
  <2>2. h[k + 1] = Read(h[k], more[k + 1]) /\ g[k + 1] = Read(g[k], codes[k + 1])
    BY <1>3, <1>4, <2>1 DEF Reads
  <2>3. more[k + 1] = codes[k + 1]
    BY <1>2, <2>1
  <2>4. h[k + 1] = g[k + 1] /\ k + 1 \in 0 .. n
    BY <2>1, <2>2, <2>3
  <2> QED
    BY <2>4
<1>7. h[n] = g[n]
  <2> HIDE DEF T
  <2>1. 0 .. n \subseteq T
    BY <1>5, <1>6, Upwards
  <2>2. n \in T
    BY <2>1
  <2> QED
    BY <2>2 DEF T
<1>8. h[n + 1] = Read(h[n], c)
  <2>1. n + 1 \in 1 .. n + 1 /\ n + 1 - 1 = n
    OBVIOUS
  <2> QED
    BY <1>2, <1>4, <2>1 DEF Reads
<1>9. g[n] \in Readings
  <2>1. \A i \in 0 .. n : g[i] \in Readings
    BY <1>1, <1>3, ReadsType
  <2> QED
    BY <2>1
<1> QED
  BY <1>1, <1>3, <1>4, <1>7, <1>8, <1>9

\* A reading with a text before it.
Preceded(text, r) == [decoder |-> r.decoder, text |-> text \o r.text]

\* The text before it does not change what is read.
LEMMA ReadPreceded ==
    ASSUME NEW text \in Seq(Chars), NEW r \in Readings, NEW c \in 0 .. 255
    PROVE  Read(Preceded(text, r), c) = Preceded(text, Read(r, c))
<1>1. r.decoder \in Decoders /\ r.text \in Seq(Chars)
  BY DEF Readings
<1>2. PICK d, e : d = Decoded(r.decoder, c) /\ e = Event(r.decoder, c)
  OBVIOUS
<1>3. Preceded(text, r).decoder = r.decoder /\ Preceded(text, r).text = text \o r.text
  BY DEF Preceded
<1>4. Read(r, c) = [decoder |-> d,
                    text |-> IF IsPress(e) THEN Append(r.text, Ascii(d.mask, e)) ELSE r.text]
  BY <1>2 DEF Read
<1>5. Read(Preceded(text, r), c) =
        [decoder |-> d,
         text |-> IF IsPress(e) THEN Append(text \o r.text, Ascii(d.mask, e))
                  ELSE text \o r.text]
  BY <1>2, <1>3 DEF Read
<1>6. ASSUME IsPress(e)
      PROVE  Append(text \o r.text, Ascii(d.mask, e)) = text \o Append(r.text, Ascii(d.mask, e))
  <2>1. d.mask \in SUBSET Bits /\ e \in 1 .. 127
    BY <1>1, <1>2, <1>6, DecodedType DEF Decoders
  <2>2. Ascii(d.mask, e) \in Chars
    BY <2>1, CharRead
  <2>3. PICK x \in Chars, s \in Seq(Chars) : x = Ascii(d.mask, e) /\ s = r.text
    BY <1>1, <2>2
  <2>4. text \o s \in Seq(Chars) /\ <<x>> \in Seq(Chars)
    OBVIOUS
  <2>5. Append(text \o s, x) = (text \o s) \o <<x>> /\ Append(s, x) = s \o <<x>>
    BY <2>4, AppendIsConcat
  <2>6. (text \o s) \o <<x>> = text \o (s \o <<x>>)
    BY <2>4, ConcatAssociative
  <2> QED
    BY <2>3, <2>5, <2>6
<1>7. Preceded(text, Read(r, c)) =
        [decoder |-> d,
         text |-> text \o (IF IsPress(e) THEN Append(r.text, Ascii(d.mask, e)) ELSE r.text)]
  BY <1>4 DEF Preceded
<1> QED
  <2>1. CASE IsPress(e)
    BY <1>5, <1>6, <1>7, <2>1
  <2>2. CASE ~IsPress(e)
    BY <1>5, <1>7, <2>2
  <2> QED
    BY <2>1, <2>2

\* The first code can be read before the others.
LEMMA ReadFirst ==
    ASSUME NEW d \in Decoders, NEW c \in 0 .. 255, NEW codes \in Seq(0 .. 255),
           NEW first, first = Read(Fresh(d), c)
    PROVE  /\ first \in Readings
           /\ ReadingOf(d, <<c>> \o codes) = Preceded(first.text, ReadingOf(first.decoder, codes))
<1>1. PICK n \in Nat, more \in Seq(0 .. 255) : n = Len(codes) /\ more = <<c>> \o codes
  <2>1. <<c>> \in Seq(0 .. 255)
    OBVIOUS
  <2>2. <<c>> \o codes \in Seq(0 .. 255) /\ Len(codes) \in Nat
    BY <2>1
  <2> QED
    BY <2>2
<1>2. /\ n + 1 \in Nat /\ n + 1 = Len(more) /\ more[1] = c
      /\ \A i \in 1 .. n : more[i + 1] = codes[i]
  BY <1>1
<1>3. first \in Readings /\ first.decoder \in Decoders /\ first.text \in Seq(Chars)
  <2>1. <<>> \in Seq(Chars)
    OBVIOUS
  <2>2. Fresh(d) \in Readings
    BY <2>1 DEF Fresh, Readings
  <2>3. first \in Readings
    BY <2>2, ReadType
  <2> QED
    BY <2>3 DEF Readings
<1>4. PICK g : Reads(g, first.decoder, codes, n) /\ ReadingOf(first.decoder, codes) = g[n]
  BY <1>1, ReadSteps, Zenon
<1>5. PICK h : Reads(h, d, more, n + 1) /\ ReadingOf(d, more) = h[n + 1]
  BY <1>2, ReadSteps, ZenonT(40)
<1>6. \A i \in 0 .. n : g[i] \in Readings
  BY <1>1, <1>3, <1>4, ReadsType
<1> DEFINE T == {i \in 0 .. n : h[i + 1] = Preceded(first.text, g[i])}
<1>7. 0 \in T
  <2>1. h[1] = Read(h[0], more[1])
    <3>1. 1 \in 1 .. n + 1 /\ 1 - 1 = 0
      OBVIOUS
    <3> QED
      BY <1>5, <3>1 DEF Reads
  <2>2. h[1] = first
    BY <1>2, <1>5, <2>1 DEF Reads
  <2>3. g[0] = Fresh(first.decoder)
    BY <1>4 DEF Reads
  <2>4. first.text \o <<>> = first.text
    BY <1>3
  <2>5. first = [decoder |-> first.decoder, text |-> first.text]
    BY <1>3 DEF Readings
  <2>6. h[0 + 1] = Preceded(first.text, g[0])
    BY <2>2, <2>3, <2>4, <2>5 DEF Preceded, Fresh
  <2> QED
    BY <2>6
<1>8. ASSUME NEW k \in 0 .. n - 1, k \in T PROVE k + 1 \in T
  <2>1. /\ h[k + 1] = Preceded(first.text, g[k]) /\ k + 1 \in 1 .. n /\ k + 2 \in 1 .. n + 1
        /\ k + 1 - 1 = k /\ k + 2 - 1 = k + 1 /\ k + 1 + 1 = k + 2 /\ k \in 0 .. n
        /\ codes[k + 1] \in 0 .. 255
    BY <1>1, <1>8
  <2>2. h[k + 2] = Read(h[k + 1], more[k + 2]) /\ g[k + 1] = Read(g[k], codes[k + 1])
    BY <1>4, <1>5, <2>1 DEF Reads
  <2>3. more[k + 2] = codes[k + 1]
    BY <1>2, <2>1
  <2>4. Read(Preceded(first.text, g[k]), codes[k + 1]) = Preceded(first.text, g[k + 1])
    BY <1>3, <1>6, <2>1, <2>2, ReadPreceded, ZenonT(40)
  <2>5. h[k + 1 + 1] = Preceded(first.text, g[k + 1]) /\ k + 1 \in 0 .. n
    BY <2>1, <2>2, <2>3, <2>4
  <2> QED
    BY <2>5
<1>9. h[n + 1] = Preceded(first.text, g[n])
  <2> HIDE DEF T
  <2>1. 0 .. n \subseteq T
    BY <1>7, <1>8, Upwards
  <2>2. n \in T
    BY <2>1
  <2> QED
    BY <2>2 DEF T
<1> QED
  BY <1>1, <1>3, <1>4, <1>5, <1>9

\* Reading r has these flags (1: set), this mask and this text.
At(r, ext, rel, mask, text) ==
    /\ r \in Readings
    /\ (r.decoder.extended <=> ext = 1) /\ (r.decoder.release <=> rel = 1)
    /\ r.decoder.mask = mask /\ r.text = text
Ext(k) == IF k[1] THEN 1 ELSE 0

\* The scancodes of a key.
LEMMA KeyCodes ==
    ASSUME NEW k \in Keys
    PROVE  /\ k \in BOOLEAN \X (0 .. 255) /\ k[1] \in BOOLEAN /\ k[2] \in 0 .. 255
           /\ Completes(k[2]) /\ ~IsAnswer(k[2])
<1>1. k \in BOOLEAN \X {c \in 0 .. 255 : Completes(c) /\ c \notin {PS2_CODE_ACK, PS2_CODE_RESEND}}
  BY Ps2Assumption
<1>2. PICK b \in BOOLEAN,
           n \in {c \in 0 .. 255 : Completes(c) /\ c \notin {PS2_CODE_ACK, PS2_CODE_RESEND}} :
        k = <<b, n>>
  BY <1>1
<1>3. k[1] = b /\ k[2] = n
  BY <1>2
<1> QED
  BY <1>2, <1>3 DEF IsAnswer

\* The codes that are no key of their own.
LEMMA PrefixRead ==
    ASSUME NEW r, NEW ext, NEW rel, NEW mask, NEW text, At(r, ext, rel, mask, text)
    PROVE  /\ At(Read(r, \hE0), 1, rel, mask, text)
           /\ At(Read(r, \hF0), ext, 1, mask, text)
           /\ At(Read(r, PS2_CODE_BAT_PASSED), 0, 0, mask, text)
<1>1. PICK d \in Decoders : d = r.decoder
  BY DEF At, Readings
<1>2. PS2_READ_EMPTY = 255 /\ PS2_CODE_BAT_PASSED = 170 /\ PS2_CODE_BUFFER_OVERRUN = 0
      /\ \hF0 = 240 /\ \hE0 = 224 /\ \hE1 = 225
  BY DEF PS2_READ_EMPTY, PS2_CODE_BAT_PASSED, PS2_CODE_BUFFER_OVERRUN
<1>d. \A c \in 0 .. 255 : Decoded(d, c) \in Decoders
  BY DecodedType, ZenonT(40)
<1>3. PICK e \in Decoders : e = Decoded(d, 224)
  BY <1>d
<1>4. PICK f \in Decoders : f = Decoded(d, 240)
  BY <1>d
<1>5. PICK g \in Decoders : g = Decoded(d, 170)
  BY <1>d
<1>6. e.extended /\ (e.release <=> d.release) /\ e.mask = d.mask
  <2>1. e = [d EXCEPT !.extended = TRUE]
    BY <1>2, <1>3 DEF Decoded, Completes, IsPrefixCode
  <2> QED
    BY <2>1 DEF Decoders
<1>7. (f.extended <=> d.extended) /\ f.release /\ f.mask = d.mask
  <2>1. f = [d EXCEPT !.release = TRUE]
    BY <1>2, <1>4 DEF Decoded, Completes, IsPrefixCode
  <2> QED
    BY <2>1 DEF Decoders
<1>8. ~g.extended /\ ~g.release /\ g.mask = d.mask
  <2>1. g = [d EXCEPT !.extended = FALSE, !.release = FALSE]
    BY <1>2, <1>5 DEF Decoded, Completes, IsPrefixCode
  <2> QED
    BY <2>1 DEF Decoders
<1>9. ASSUME NEW c \in {224, 240, 170}
      PROVE  Read(r, c) \in Readings /\ Read(r, c).decoder = Decoded(d, c) /\ Read(r, c).text = text
  <2>1. ~Completes(c) /\ c \in 0 .. 255
    BY <1>2 DEF Completes, IsPrefixCode
  <2>2. Event(d, c) = 0 /\ ~IsPress(0)
    BY <2>1 DEF Event, IsPress
  <2>3. Read(r, c).decoder = Decoded(d, c) /\ Read(r, c).text = r.text
    BY <1>1, <2>2 DEF Read
  <2>4. Read(r, c) \in Readings
    BY <2>1, ReadType DEF At
  <2> QED
    BY <2>3, <2>4 DEF At
<1>10. At(Read(r, 224), 1, rel, mask, text)
  BY <1>1, <1>3, <1>6, <1>9 DEF At
<1>11. At(Read(r, 240), ext, 1, mask, text)
  BY <1>1, <1>4, <1>7, <1>9 DEF At
<1>12. At(Read(r, 170), 0, 0, mask, text)
  BY <1>1, <1>5, <1>8, <1>9 DEF At
<1> QED
  BY <1>2, <1>10, <1>11, <1>12

\* The text when key k was struck.
Written(k, mask, text) ==
    IF KeyStruck(k) # 0 THEN Append(text, Ascii(mask, KeyStruck(k))) ELSE text

\* The code that completes a key.
LEMMA KeyRead ==
    ASSUME NEW k \in Keys, NEW mask, NEW text, NEW r, NEW rel \in {0, 1},
           At(r, Ext(k), rel, mask, text)
    PROVE  /\ rel = 1 => At(Read(r, k[2]), 0, 0, mask \ BitOf(k), text)
           /\ rel = 0 => At(Read(r, k[2]), 0, 0, mask \cup BitOf(k),
                            Written(k, mask \cup BitOf(k), text))
<1>0. r \in Readings /\ r.decoder \in Decoders /\ r.text = text /\ KeyStruck(k) \in 0 .. 127
  BY KeyCodes, ModifierKeys DEF At, Readings
<1>1. PICK d \in Decoders, c \in 0 .. 255, key \in 0 .. 127, q \in Readings :
        d = r.decoder /\ c = k[2] /\ key = KeyStruck(k) /\ q = Read(r, c)
  <2>1. k[2] \in 0 .. 255
    BY KeyCodes
  <2>2. Read(r, k[2]) \in Readings
    BY <1>0, <2>1, ReadType
  <2> QED
    BY <1>0, <2>1, <2>2
<1>2. Completes(c) /\ key \in 0 .. 127 /\ BitOf(k) = ModifierOf(key)
  BY <1>1, KeyCodes, ModifierKeys
<1>3. (d.extended <=> k[1]) /\ (d.release <=> rel = 1) /\ d.mask = mask
  BY <1>1, KeyCodes DEF At, Ext
<1>4. KeyOf(d, c) = key
  BY <1>1, <1>3 DEF KeyOf, KeyStruck
<1>5. PICK e \in Decoders : e = Decoded(d, c)
  BY DecodedType
<1>6. ~e.extended /\ ~e.release
      /\ e.mask = IF rel = 1 THEN mask \ BitOf(k) ELSE mask \cup BitOf(k)
  <2>1. e = [extended |-> FALSE, release |-> FALSE,
             mask |-> IF d.release THEN d.mask \ ModifierOf(KeyOf(d, c))
                      ELSE d.mask \cup ModifierOf(KeyOf(d, c))]
    BY <1>2, <1>5 DEF Decoded, Completes, IsPrefixCode
  <2>2. e.mask = IF d.release THEN d.mask \ ModifierOf(KeyOf(d, c))
                 ELSE d.mask \cup ModifierOf(KeyOf(d, c))
    BY <2>1
  <2>3. ~e.extended /\ ~e.release
    BY <2>1
  <2> QED
    BY <1>2, <1>3, <1>4, <2>2, <2>3
<1>7. Event(d, c) = IF rel = 1 /\ key # 0 THEN key + PS2_KEY_RELEASE ELSE key
  BY <1>2, <1>3, <1>4 DEF Event
<1>8. IsPress(Event(d, c)) <=> rel # 1 /\ key # 0
  BY <1>2, <1>7 DEF IsPress, PS2_KEY_RELEASE
<1>9. /\ q.decoder = e
      /\ q.text = IF IsPress(Event(d, c)) THEN Append(text, Ascii(e.mask, Event(d, c))) ELSE text
  BY <1>0, <1>1, <1>5 DEF Read
<1>f. ~q.decoder.extended /\ ~q.decoder.release
  BY <1>6, <1>9
<1>10. CASE rel = 1
  <2>1. q.text = text /\ q.decoder.mask = mask \ BitOf(k)
    BY <1>6, <1>8, <1>9, <1>10
  <2>2. At(q, 0, 0, mask \ BitOf(k), text)
    BY <1>f, <2>1 DEF At
  <2> QED
    BY <1>1, <1>10, <2>2
<1>11. CASE rel = 0
  <2>1. q.text = Written(k, mask \cup BitOf(k), text) /\ q.decoder.mask = mask \cup BitOf(k)
    BY <1>1, <1>6, <1>7, <1>8, <1>9, <1>11 DEF Written
  <2>2. At(q, 0, 0, mask \cup BitOf(k), Written(k, mask \cup BitOf(k), text))
    BY <1>f, <2>1 DEF At
  <2> QED
    BY <1>1, <1>11, <2>2
<1> QED
  BY <1>10, <1>11

\* Short sequences of bytes.
LEMMA ShortBytes ==
    \A x, y \in 0 .. 255 :
        <<x>> \in Seq(0 .. 255) /\ <<x, y>> \in Seq(0 .. 255) /\ <<x>> \o <<y>> = <<x, y>>
<1> SUFFICES ASSUME NEW x \in 0 .. 255, NEW y \in 0 .. 255
             PROVE  /\ <<x>> \in Seq(0 .. 255) /\ <<x, y>> \in Seq(0 .. 255)
                    /\ <<x>> \o <<y>> = <<x, y>>
  OBVIOUS
<1>1. <<x>> \in Seq(0 .. 255)
  OBVIOUS
<1>2. <<x, y>> \in Seq(0 .. 255)
  OBVIOUS
<1>3. <<x>> \o <<y>> = <<x, y>>
  <2>0. <<y>> \in Seq(0 .. 255)
    OBVIOUS
  <2>1. PICK s \in Seq(0 .. 255), t \in Seq(0 .. 255) : s = <<x>> /\ t = <<y>>
    BY <1>1, <2>0
  <2>s. s \o t \in Seq(0 .. 255)
    OBVIOUS
  <2>u. PICK u \in Seq(0 .. 255) : u = s \o t
    BY <2>s
  <2>2. Len(u) = 2 /\ u[1] = x /\ u[2] = y
    BY <2>1, <2>u
  <2>3. u = <<x, y>>
    BY <2>2
  <2> QED
    BY <2>1, <2>u, <2>3
<1> QED
  BY <1>1, <1>2, <1>3

\* One sequence of bytes after another.
LEMMA ThreeJoined == \A s, t, u \in Seq(0 .. 255) : s \o (t \o u) = (s \o t) \o u
BY ConcatAssociative

\* One sequence of bytes after another, and one byte after a sequence.
LEMMA Joined ==
    /\ \A s, t \in Seq(0 .. 255) : s \o t \in Seq(0 .. 255)
    /\ \A s \in Seq(0 .. 255) : s \o <<>> = s
    /\ \A s \in Seq(0 .. 255), x \in 0 .. 255 : s \o <<x>> = Append(s, x) /\ Append(s, x) \in Seq(0 .. 255)
<1>1. ASSUME NEW s \in Seq(0 .. 255), NEW x \in 0 .. 255
      PROVE  s \o <<x>> = Append(s, x) /\ Append(s, x) \in Seq(0 .. 255)
  BY AppendIsConcat
<1>2. ASSUME NEW s \in Seq(0 .. 255), NEW t \in Seq(0 .. 255)
      PROVE  s \o t \in Seq(0 .. 255) /\ s \o <<>> = s
  OBVIOUS
<1> QED
  BY <1>1, <1>2

\* The codes of a press or a release, read after codes that end between two keys.
LEMMA KeysRead ==
    ASSUME NEW d \in Decoders, NEW codes \in Seq(0 .. 255), NEW k \in Keys, NEW mask, NEW text,
           At(ReadingOf(d, codes), 0, 0, mask, text)
    PROVE  /\ At(ReadingOf(d, codes \o MakeCode(k)), 0, 0, mask \cup BitOf(k),
                 Written(k, mask \cup BitOf(k), text))
           /\ At(ReadingOf(d, codes \o BreakCode(k)), 0, 0, mask \ BitOf(k), text)
<1>1. PICK c \in 0 .. 255, x \in 0 .. 255, y \in 0 .. 255 : c = k[2] /\ x = \hE0 /\ y = \hF0
  BY KeyCodes
<1>2. ASSUME NEW s \in Seq(0 .. 255), NEW z \in 0 .. 255
      PROVE  /\ ReadingOf(d, Append(s, z)) = Read(ReadingOf(d, s), z)
             /\ s \o <<z>> = Append(s, z) /\ Append(s, z) \in Seq(0 .. 255)
  <2>1. ReadingOf(d, Append(s, z)) = Read(ReadingOf(d, s), z)
    BY ReadLast
  <2>2. s \o <<z>> = Append(s, z) /\ Append(s, z) \in Seq(0 .. 255)
    BY Joined, Zenon
  <2> QED
    BY <2>1, <2>2
<1>3. PICK e \in Seq(0 .. 255) : e = IF k[1] THEN <<x>> ELSE <<>>
  <2>1. <<x>> \in Seq(0 .. 255) /\ <<>> \in Seq(0 .. 255)
    OBVIOUS
  <2> QED
    BY <2>1
<1>4. PICK lead \in Seq(0 .. 255) : lead = codes \o e
  BY Joined
<1>5. At(ReadingOf(d, lead), Ext(k), 0, mask, text)
  <2>1. CASE k[1]
    <3>1. lead = Append(codes, x)
      BY <1>2, <1>3, <1>4, <2>1
    <3>2. ReadingOf(d, lead) = Read(ReadingOf(d, codes), x)
      BY <1>2, <3>1
    <3>3. At(Read(ReadingOf(d, codes), x), 1, 0, mask, text)
      BY <1>1, PrefixRead
    <3> QED
      BY <2>1, <3>2, <3>3 DEF Ext
  <2>2. CASE ~k[1]
    <3>1. lead = codes
      BY <1>3, <1>4, <2>2, Joined
    <3> QED
      BY <2>2, <3>1 DEF Ext
  <2> QED
    BY <2>1, <2>2
<1>6. PICK more \in Seq(0 .. 255) : more = Append(lead, y)
  BY <1>2
<1>t. ASSUME NEW u \in Seq(0 .. 255) PROVE codes \o (e \o u) = lead \o u
  <2>1. codes \o (e \o u) = (codes \o e) \o u
    BY ThreeJoined
  <2> QED
    BY <1>4, <2>1
<1>7. codes \o MakeCode(k) = Append(lead, c)
  <2>1. MakeCode(k) = e \o <<c>> /\ <<c>> \in Seq(0 .. 255)
    BY <1>1, <1>3 DEF MakeCode
  <2>2. codes \o (e \o <<c>>) = lead \o <<c>>
    BY <1>t, <2>1
  <2>3. lead \o <<c>> = Append(lead, c)
    BY <1>2
  <2> QED
    BY <2>1, <2>2, <2>3
<1>8. codes \o BreakCode(k) = Append(more, c)
  <2>1. <<y>> \in Seq(0 .. 255) /\ <<c>> \in Seq(0 .. 255) /\ <<y, c>> = <<y>> \o <<c>>
        /\ <<y, c>> \in Seq(0 .. 255)
    BY ShortBytes, Zenon
  <2>2. BreakCode(k) = e \o <<y, c>>
    BY <1>1, <1>3 DEF BreakCode
  <2>3. codes \o (e \o <<y, c>>) = lead \o <<y, c>>
    BY <1>t, <2>1
  <2>4. lead \o (<<y>> \o <<c>>) = (lead \o <<y>>) \o <<c>>
    <3>1. PICK s, t \in Seq(0 .. 255) : s = <<y>> /\ t = <<c>>
      BY <2>1
    <3>2. lead \o (s \o t) = (lead \o s) \o t
      BY ThreeJoined, SMTT(30)
    <3> QED
      BY <3>1, <3>2
  <2>5. lead \o <<y>> = more
    BY <1>2, <1>6
  <2>6. more \o <<c>> = Append(more, c)
    BY <1>2
  <2> QED
    BY <2>1, <2>2, <2>3, <2>4, <2>5, <2>6
<1>9. At(ReadingOf(d, Append(lead, c)), 0, 0, mask \cup BitOf(k), Written(k, mask \cup BitOf(k), text))
  <2>1. PICK r : r = ReadingOf(d, lead)
    OBVIOUS
  <2>2. At(Read(r, k[2]), 0, 0, mask \cup BitOf(k), Written(k, mask \cup BitOf(k), text))
    BY <1>5, <2>1, KeyRead
  <2>3. ReadingOf(d, Append(lead, c)) = Read(r, c)
    BY <1>2, <2>1
  <2> QED
    BY <1>1, <2>2, <2>3
<1>10. At(ReadingOf(d, Append(more, c)), 0, 0, mask \ BitOf(k), text)
  <2>1. PICK r : r = ReadingOf(d, more)
    OBVIOUS
  <2>2. r = Read(ReadingOf(d, lead), y)
    BY <1>2, <1>6, <2>1
  <2>3. At(r, Ext(k), 1, mask, text)
    BY <1>1, <1>5, <2>2, PrefixRead
  <2>4. At(Read(r, k[2]), 0, 0, mask \ BitOf(k), text)
    BY <2>3, KeyRead
  <2>5. ReadingOf(d, Append(more, c)) = Read(r, c)
    BY <1>2, <2>1
  <2> QED
    BY <1>1, <2>4, <2>5
<1> QED
  BY <1>7, <1>8, <1>9, <1>10

-----------------------------------------------------------------------------
(***************************************************************************)
(* The codes under way.                                                    *)
(***************************************************************************)
\* Byte b in the port, last to be sent again if t asks for it, and the queue.
Under(b, t, last, queue) ==
    (IF b # NoByte /\ ~IsAnswer(b) THEN <<b>> ELSE <<>>)
        \o (IF t = PS2_CODE_RESEND /\ ~IsAnswer(last) THEN <<last>> ELSE <<>>)
        \o queue

\* Which bytes are codes.
LEMMA CodeOrAnswer ==
    /\ \A b \in Codes \cup Answers \cup {NoByte} : b # NoByte /\ ~IsAnswer(b) <=> b \in Codes
    /\ \A b \in Codes \cup Answers : ~IsAnswer(b) <=> b \in Codes
BY CodeFacts DEF Codes, Answers, IsAnswer

\* Nothing to or before an empty sequence.
LEMMA NothingJoined ==
    /\ \A s \in Seq(Codes) : <<>> \o s = s /\ s \o <<>> = s
    /\ <<>> \o <<>> = <<>> /\ \A c \in Codes : <<c>> \in Seq(Codes)
<1>1. \A s \in Seq(Codes) : <<>> \o s = s /\ s \o <<>> = s
  OBVIOUS
<1>2. <<>> \o <<>> = <<>>
  OBVIOUS
<1>3. \A c \in Codes : <<c>> \in Seq(Codes)
  OBVIOUS
<1> QED
  BY <1>1, <1>2, <1>3

\* Nothing is under way but the keyboard's queue.
LEMMA UnderQueue ==
    ASSUME NEW b \in Codes \cup Answers \cup {NoByte}, NEW t, NEW last \in Codes \cup Answers,
           NEW queue \in Seq(Codes), b \notin Codes, ~(t = PS2_CODE_RESEND /\ last \in Codes)
    PROVE  Under(b, t, last, queue) = queue
BY CodeOrAnswer, NothingJoined DEF Under

\* A code waits in the port.
LEMMA UnderOne ==
    ASSUME NEW b \in Codes \cup Answers \cup {NoByte}, NEW t, NEW last \in Codes \cup Answers,
           NEW queue \in Seq(Codes), b \in Codes, ~(t = PS2_CODE_RESEND /\ last \in Codes)
    PROVE  Under(b, t, last, queue) = <<b>> \o queue
BY CodeOrAnswer, NothingJoined DEF Under

\* A code is asked for again.
LEMMA UnderAgain ==
    ASSUME NEW b \in Codes \cup Answers \cup {NoByte}, NEW t, NEW last \in Codes \cup Answers,
           NEW queue \in Seq(Codes), b \notin Codes, t = PS2_CODE_RESEND, last \in Codes
    PROVE  Under(b, t, last, queue) = <<last>> \o queue
BY CodeOrAnswer, NothingJoined DEF Under

\* Sequences of codes.
LEMMA CodesJoined == \A s, t, u \in Seq(Codes) : s \o (t \o u) = (s \o t) \o u
BY ConcatAssociative

\* Codes are bytes.
LEMMA CodesAreBytes == \A s \in Seq(Codes) : s \in Seq(0 .. 255)
<1> SUFFICES ASSUME NEW s \in Seq(Codes) PROVE s \in Seq(0 .. 255)
  OBVIOUS
<1>1. Len(s) \in Nat /\ DOMAIN s = 1 .. Len(s) /\ s = [i \in 1 .. Len(s) |-> s[i]]
      /\ \A i \in 1 .. Len(s) : s[i] \in Codes
  OBVIOUS
<1>2. \A i \in 1 .. Len(s) : s[i] \in 0 .. 255
  BY <1>1 DEF Codes
<1>3. PICK n \in Nat : n = Len(s)
  BY <1>1
<1>4. s \in [1 .. n -> 0 .. 255]
  BY <1>1, <1>2, <1>3
<1>5. s \in UNION {[1 .. m -> 0 .. 255] : m \in Nat}
  BY <1>4
<1>6. Seq(0 .. 255) = UNION {[1 .. m -> 0 .. 255] : m \in Nat}
  BY SeqDef
<1> QED
  BY <1>5, <1>6, Zenon

\* What is sent more comes after what is under way.
LEMMA UnderMore ==
    ASSUME Types
    PROVE  /\ Under(port.byte, tx, kbd.last, kbd.queue) \in Seq(0 .. 255)
           /\ \A more \in Seq(Codes) :
                Under(port.byte, tx, kbd.last, kbd.queue \o more)
                    = Under(port.byte, tx, kbd.last, kbd.queue) \o more
<1>1. PICK b, t, last, queue :
        b = port.byte /\ t = tx /\ last = kbd.last /\ queue = kbd.queue
  OBVIOUS
<1>t. /\ queue \in Seq(Codes) /\ last \in Codes \cup Answers
      /\ b \in Codes \cup Answers \cup {NoByte}
  BY <1>1, Fields
<1>2. (b # NoByte /\ ~IsAnswer(b) => b \in Codes) /\ (~IsAnswer(last) => last \in Codes)
  BY <1>t, CodeFacts DEF Codes, Answers, IsAnswer
<1>3. \A c \in Codes : <<c>> \in Seq(Codes)
  OBVIOUS
<1>e. <<>> \in Seq(Codes)
  OBVIOUS
<1>4. PICK x \in Seq(Codes) : x = IF b # NoByte /\ ~IsAnswer(b) THEN <<b>> ELSE <<>>
  <2>1. (IF b # NoByte /\ ~IsAnswer(b) THEN <<b>> ELSE <<>>) \in Seq(Codes)
    BY <1>2, <1>3, <1>e, Zenon
  <2> QED
    BY <2>1, Zenon
<1>5. PICK y \in Seq(Codes) :
        y = IF t = PS2_CODE_RESEND /\ ~IsAnswer(last) THEN <<last>> ELSE <<>>
  <2>1. (IF t = PS2_CODE_RESEND /\ ~IsAnswer(last) THEN <<last>> ELSE <<>>) \in Seq(Codes)
    BY <1>2, <1>3, <1>e, Zenon
  <2> QED
    BY <2>1, Zenon
<1>6. PICK z \in Seq(Codes) : z = x \o y
  <2>1. x \o y \in Seq(Codes)
    OBVIOUS
  <2> QED
    BY <2>1, Zenon
<1>7. \A q : Under(b, t, last, q) = z \o q
  BY <1>4, <1>5, <1>6 DEF Under
<1>8. ASSUME NEW more \in Seq(Codes) PROVE z \o (queue \o more) = (z \o queue) \o more
  BY <1>t, CodesJoined
<1>9. z \o queue \in Seq(Codes)
  BY <1>t
<1>10. /\ Under(b, t, last, queue) \in Seq(0 .. 255)
       /\ \A more \in Seq(Codes) :
            Under(b, t, last, queue \o more) = Under(b, t, last, queue) \o more
  BY <1>7, <1>8, <1>9, CodesAreBytes
<1> QED
  BY <1>1, <1>10

\* The types of what is under way.
LEMMA OutstandingIs ==
    ASSUME Types
    PROVE  /\ Outstanding = Under(port.byte, tx, kbd.last, kbd.queue)
           /\ Outstanding \in Seq(0 .. 255)
<1>1. /\ kbd.queue \in Seq(Codes) /\ kbd.last \in Codes \cup Answers
      /\ port.byte \in Codes \cup Answers \cup {NoByte}
  BY Fields
<1>2. Outstanding = Under(port.byte, tx, kbd.last, kbd.queue)
  BY DEF Outstanding, Under, HasData
<1> QED
  BY <1>1, <1>2, UnderMore

\* Nothing under way changes, and the decoder does not.
LEMMA SameReading ==
    ASSUME Outstanding' = Outstanding, decoder' = decoder
    PROVE  Reading' = Reading
BY DEF Reading

\* A byte is asked for again only when none waits; an unplugged keyboard has
\* nothing to say; and two keys of one modifier were down together only if the
\* history says so.
Shared(j, k, pairs) == BitOf(j) \cap BitOf(k) \subseteq pairs
Heard ==
    /\ decoder \in Decoders
    /\ HasData => tx # PS2_CODE_RESEND
    /\ ~kbd.plugged => Quiet
    /\ \A j, k \in kbd.down : j # k => Shared(j, k, paired)

\* Reading r ends between two keys, knows the modifiers of the keys that are
\* down, and has the text of the words.
Follows(r, down, pairs, words) ==
    /\ At(r, 0, 0, r.decoder.mask, r.text)
    /\ r.decoder.mask \subseteq Held(down)
    /\ Held(down) \ r.decoder.mask \subseteq pairs
    /\ CapsPrinted /\ pairs = {} => r.text = words

ReadInv == Heard /\ (~lost => Follows(Reading, kbd.down, paired, typed))

\* The modifiers of the keys that are down.
LEMMA HeldFacts ==
    ASSUME NEW down \in SUBSET Keys, NEW k \in Keys
    PROVE  /\ Held(down) \subseteq Bits
           /\ Held(down \cup {k}) = Held(down) \cup BitOf(k)
           /\ Held(down \ {k}) \subseteq Held(down)
           /\ Held(down) \subseteq Held(down \ {k}) \cup BitOf(k)
<1>1. \A j \in Keys : BitOf(j) \in SUBSET Bits
  BY KeyCodes, ModifierKeys
<1>2. \A b, d : b \in Held(d) <=> \E j \in d : b \in BitOf(j)
  BY DEF Held
<1>3. Held(down) \subseteq Bits
  BY <1>1, <1>2
<1>4. ASSUME NEW b PROVE b \in Held(down \cup {k}) <=> b \in Held(down) \/ b \in BitOf(k)
  <2>1. b \in Held(down \cup {k}) <=> \E j \in down \cup {k} : b \in BitOf(j)
    BY <1>2
  <2>2. b \in Held(down) <=> \E j \in down : b \in BitOf(j)
    BY <1>2
  <2> QED
    BY <2>1, <2>2
<1>5. ASSUME NEW b, b \in Held(down \ {k}) PROVE b \in Held(down)
  BY <1>2, <1>5
<1>6. ASSUME NEW b, b \in Held(down) PROVE b \in Held(down \ {k}) \/ b \in BitOf(k)
  BY <1>2, <1>6
<1> QED
  BY <1>3, <1>4, <1>5, <1>6

\* What a key means to the user is what the decoder makes of it.
LEMMA MeantIs ==
    ASSUME NEW down \in SUBSET Keys, NEW k \in Keys, CapsPrinted
    PROVE  KeyStruck(k) # 0 /\ Meant(k, down) = Ascii(Held(down), KeyStruck(k))
<1>1. PICK held, key : held = Held(down) /\ key = KeyStruck(k)
  OBVIOUS
<1>2. /\ key # 0 /\ KeyCaps[k].key = key
      /\ KeyCaps[k].plain = ps2_keymap[key] /\ KeyCaps[k].shifted = ps2_keymap_shift[key]
  BY <1>1 DEF CapsPrinted
<1>3. held \subseteq {"SHIFT"} <=> held \cap {"WIN", "ALT", "CTRL"} = {}
  BY <1>1, HeldFacts DEF Bits
<1> DEFINE char == IF "SHIFT" \in held THEN ps2_keymap_shift[key] ELSE ps2_keymap[key]
<1>4. Meant(k, down) = IF held \subseteq {"SHIFT"} /\ char # 0 THEN char
                       ELSE PS2_ASCII_SCANCODE_MASK + key
  BY <1>1, <1>2 DEF Meant
<1>5. Ascii(held, key) = IF held \cap {"WIN", "ALT", "CTRL"} = {} /\ char # 0 THEN char
                         ELSE PS2_ASCII_SCANCODE_MASK + key
  BY DEF Ascii
<1> HIDE DEF char
<1> QED
  BY <1>1, <1>2, <1>3, <1>4, <1>5

\* A key that goes down is read as the user means it.
LEMMA FollowsPress ==
    ASSUME NEW r, NEW q, NEW down \in SUBSET Keys, NEW k \in Keys, NEW pairs, NEW more, NEW words,
           Follows(r, down, pairs, words),
           At(q, 0, 0, r.decoder.mask \cup BitOf(k),
              Written(k, r.decoder.mask \cup BitOf(k), r.text))
    PROVE  Follows(q, down \cup {k}, pairs \cup more, Append(words, Meant(k, down \cup {k})))
<1>1. PICK mask, text : mask = r.decoder.mask /\ text = r.text
  OBVIOUS
<1>2. /\ mask \subseteq Held(down) /\ Held(down) \ mask \subseteq pairs
      /\ (CapsPrinted /\ pairs = {} => text = words)
  BY <1>1 DEF Follows
<1>3. /\ q.decoder.mask = mask \cup BitOf(k)
      /\ q.text = Written(k, mask \cup BitOf(k), text)
  BY <1>1 DEF At
<1>4. At(q, 0, 0, q.decoder.mask, q.text)
  BY <1>1, <1>3
<1>5. Held(down \cup {k}) = Held(down) \cup BitOf(k)
  BY HeldFacts
<1>6. ASSUME CapsPrinted, pairs \cup more = {}
      PROVE  q.text = Append(words, Meant(k, down \cup {k}))
  <2>1. pairs = {}
    BY <1>6
  <2>2. text = words /\ mask \cup BitOf(k) = Held(down \cup {k})
    BY <1>2, <1>5, <1>6, <2>1
  <2>3. down \cup {k} \in SUBSET Keys
    OBVIOUS
  <2>4. KeyStruck(k) # 0 /\ Meant(k, down \cup {k}) = Ascii(Held(down \cup {k}), KeyStruck(k))
    BY <1>6, <2>3, MeantIs
  <2> QED
    BY <1>3, <2>2, <2>4 DEF Written
<1> QED
  BY <1>2, <1>3, <1>4, <1>5, <1>6 DEF Follows

\* A key that goes up is known to be up.
LEMMA FollowsRelease ==
    ASSUME NEW r, NEW q, NEW down \in SUBSET Keys, NEW k \in Keys, NEW pairs, NEW words,
           Follows(r, down, pairs, words), k \in down,
           \A j, i \in down : j # i => Shared(j, i, pairs),
           At(q, 0, 0, r.decoder.mask \ BitOf(k), r.text)
    PROVE  Follows(q, down \ {k}, pairs, words)
<1>1. PICK mask, text : mask = r.decoder.mask /\ text = r.text
  OBVIOUS
<1>2. /\ mask \subseteq Held(down) /\ Held(down) \ mask \subseteq pairs
      /\ (CapsPrinted /\ pairs = {} => text = words)
  BY <1>1 DEF Follows
<1>3. q.decoder.mask = mask \ BitOf(k) /\ q.text = text
  BY <1>1 DEF At
<1>4. At(q, 0, 0, q.decoder.mask, q.text)
  BY <1>1, <1>3
<1>5. /\ Held(down \ {k}) \subseteq Held(down)
      /\ Held(down) \subseteq Held(down \ {k}) \cup BitOf(k)
  BY HeldFacts
<1>6. mask \ BitOf(k) \subseteq Held(down \ {k})
  BY <1>2, <1>5
<1>7. ASSUME NEW b \in Held(down \ {k}), b \notin mask \ BitOf(k) PROVE b \in pairs
  <2>1. CASE b \in BitOf(k)
    <3>1. PICK j \in down \ {k} : b \in BitOf(j)
      BY <1>7 DEF Held
    <3>2. Shared(j, k, pairs)
      BY <3>1
    <3> QED
      BY <2>1, <3>1, <3>2 DEF Shared
  <2>2. CASE b \notin BitOf(k)
    BY <1>2, <1>5, <1>7, <2>2
  <2> QED
    BY <2>1, <2>2
<1> QED
  BY <1>2, <1>3, <1>4, <1>6, <1>7 DEF Follows

-----------------------------------------------------------------------------
(***************************************************************************)
(* The steps and the codes under way.                                      *)
(***************************************************************************)
\* Nothing that matters to the reading changes, unless a code is lost.
LEMMA KeepReading ==
    ASSUME ReadInv, Heard', UNCHANGED <<decoder, typed, paired>>, ~lost' => ~lost,
           ~lost' => Outstanding' = Outstanding /\ kbd'.down = kbd.down
    PROVE  ReadInv'
<1>1. ASSUME ~lost' PROVE Follows(Reading, kbd.down, paired, typed)'
  <2>1. PICK r : r = Reading
    OBVIOUS
  <2>2. Reading' = r
    BY <1>1, <2>1, SameReading
  <2>3. Follows(r, kbd.down, paired, typed)
    BY <1>1, <2>1 DEF ReadInv
  <2>4. Follows(r, kbd'.down, paired', typed')
    BY <1>1, <2>3
  <2> QED
    BY <2>2, <2>4
<1> QED
  BY <1>1 DEF ReadInv

\* What the keyboard queues comes after what is under way.
LEMMA QueuedUnder ==
    ASSUME Types, NEW more \in Seq(Codes)
    PROVE  Under(port.byte, tx, kbd.last, kbd.queue \o more) = Outstanding \o more
BY UnderMore, OutstandingIs

\* More codes come after those under way.
LEMMA MoreUnder ==
    ASSUME Types, Types', NEW more \in Seq(Codes), UNCHANGED <<port, tx, decoder>>,
           kbd'.last = kbd.last, kbd'.queue = kbd.queue \o more
    PROVE  Reading' = ReadingOf(decoder, Outstanding \o more)
<1>1. /\ Outstanding = Under(port.byte, tx, kbd.last, kbd.queue)
      /\ Outstanding' = Under(port'.byte, tx', kbd'.last, kbd'.queue)
  <2>1. Outstanding = Under(port.byte, tx, kbd.last, kbd.queue)
    BY OutstandingIs
  <2>2. Outstanding' = Under(port'.byte, tx', kbd'.last, kbd'.queue)
    BY DEF Outstanding, Under, HasData
  <2> QED
    BY <2>1, <2>2
<1>2. Outstanding' = Under(port.byte, tx, kbd.last, kbd.queue \o more)
  BY <1>1
<1>4. Outstanding' = Outstanding \o more
  BY <1>2, QueuedUnder
<1> QED
  BY <1>4 DEF Reading

\* The scancodes of a key are codes.
LEMMA KeySent ==
    ASSUME NEW k \in Keys
    PROVE  MakeCode(k) \in Seq(Codes) /\ BreakCode(k) \in Seq(Codes)
<1>1. k[2] \in Codes /\ \hE0 \in Codes /\ \hF0 \in Codes
  BY KeyCodes, CodeFacts DEF Codes, Answers, IsAnswer
<1>2. <<>> \in Seq(Codes) /\ <<\hE0>> \in Seq(Codes) /\ <<k[2]>> \in Seq(Codes)
      /\ <<\hF0, k[2]>> \in Seq(Codes)
  BY <1>1
<1>3. \A x, y \in Seq(Codes) : x \o y \in Seq(Codes)
  OBVIOUS
<1> QED
  BY <1>2, <1>3 DEF MakeCode, BreakCode

\* A key is pressed.
LEMMA PressRead ==
    ASSUME Types, Types', ReadInv, NEW k \in Keys, Press(k)
    PROVE  ReadInv'
<1>1. PICK codes \in Seq(Codes) : codes = MakeCode(k)
  BY KeySent
<1>2. kbd \in KbdType /\ kbd.down \in SUBSET Keys /\ kbd.queue \in Seq(Codes)
  BY Fields DEF Types
<1>3. /\ kbd.plugged /\ UNCHANGED <<port, tx, decoder>> /\ lost' = (lost \/ ~Fits(codes))
      /\ typed' = Append(typed, Meant(k, kbd.down \cup {k}))
      /\ paired' = paired \cup UNION {BitOf(k) \cap BitOf(j) : j \in kbd.down \ {k}}
  BY <1>1 DEF Press, Struck, hostVars
<1>4. kbd' = [kbd EXCEPT !.down = kbd.down \cup {k}, !.queue = Queued(codes)]
  BY <1>1 DEF Press
<1>5. /\ kbd'.plugged = kbd.plugged /\ kbd'.last = kbd.last
      /\ kbd'.down = kbd.down \cup {k} /\ kbd'.queue = Queued(codes)
  BY <1>2, <1>4 DEF KbdType
<1>6. \A j \in kbd.down \ {k} : Shared(j, k, paired') /\ Shared(k, j, paired')
  BY <1>3 DEF Shared
<1>7. \A j, i : Shared(j, i, paired) => Shared(j, i, paired')
  BY <1>3 DEF Shared
<1>8. Heard'
  <2>1. \A j, i \in kbd'.down : j # i => Shared(j, i, paired')
    BY <1>5, <1>6, <1>7 DEF ReadInv, Heard
  <2>2. (HasData => tx # PS2_CODE_RESEND)'
    BY <1>3 DEF ReadInv, Heard, HasData
  <2>3. decoder' \in Decoders
    BY <1>3 DEF ReadInv, Heard
  <2> QED
    BY <1>3, <1>5, <2>1, <2>2, <2>3 DEF Heard
<1>9. ASSUME ~lost' PROVE Follows(Reading, kbd.down, paired, typed)'
  <2>1. kbd'.queue = kbd.queue \o codes /\ ~lost
    BY <1>3, <1>5, <1>9 DEF Queued
  <2>2. PICK q : q = ReadingOf(decoder, Outstanding \o codes)
    OBVIOUS
  <2>3. Reading' = q
    BY <1>3, <1>5, <2>1, <2>2, MoreUnder
  <2>4. PICK r : r = Reading /\ r = ReadingOf(decoder, Outstanding)
    BY DEF Reading
  <2>5. Follows(r, kbd.down, paired, typed)
    BY <2>1, <2>4 DEF ReadInv
  <2>6. At(r, 0, 0, r.decoder.mask, r.text)
    BY <2>5 DEF Follows
  <2>7. Outstanding \in Seq(0 .. 255) /\ decoder \in Decoders
    BY OutstandingIs DEF ReadInv, Heard
  <2>8. At(q, 0, 0, r.decoder.mask \cup BitOf(k), Written(k, r.decoder.mask \cup BitOf(k), r.text))
    BY <1>1, <2>2, <2>4, <2>6, <2>7, KeysRead
  <2>9. PICK more : more = UNION {BitOf(k) \cap BitOf(j) : j \in kbd.down \ {k}}
    OBVIOUS
  <2>10. Follows(q, kbd.down \cup {k}, paired \cup more, Append(typed, Meant(k, kbd.down \cup {k})))
    BY <1>2, <2>5, <2>8, FollowsPress
  <2>11. Follows(q, kbd'.down, paired', typed')
    BY <1>3, <1>5, <2>9, <2>10
  <2> QED
    BY <2>3, <2>11
<1> QED
  BY <1>8, <1>9 DEF ReadInv

\* A key is released.
LEMMA ReleaseRead ==
    ASSUME Types, Types', ReadInv, NEW k \in Keys, Release(k)
    PROVE  ReadInv'
<1>1. PICK codes \in Seq(Codes) : codes = BreakCode(k)
  BY KeySent
<1>2. kbd \in KbdType /\ kbd.down \in SUBSET Keys /\ kbd.queue \in Seq(Codes)
  BY Fields DEF Types
<1>3. /\ kbd.plugged /\ UNCHANGED <<port, tx, decoder, typed, paired>>
      /\ lost' = (lost \/ ~Fits(codes)) /\ k \in kbd.down
  BY <1>1 DEF Release, Struck, hostVars
<1>4. kbd' = [kbd EXCEPT !.down = kbd.down \ {k}, !.queue = Queued(codes)]
  BY <1>1 DEF Release
<1>5. /\ kbd'.plugged = kbd.plugged /\ kbd'.last = kbd.last
      /\ kbd'.down = kbd.down \ {k} /\ kbd'.queue = Queued(codes)
  BY <1>2, <1>4 DEF KbdType
<1>6. \A j, i \in kbd.down : j # i => Shared(j, i, paired)
  BY DEF ReadInv, Heard
<1>7. Heard'
  <2>1. \A j, i \in kbd'.down : j # i => Shared(j, i, paired')
    BY <1>3, <1>5, <1>6
  <2>2. (HasData => tx # PS2_CODE_RESEND)'
    BY <1>3 DEF ReadInv, Heard, HasData
  <2>3. decoder' \in Decoders
    BY <1>3 DEF ReadInv, Heard
  <2> QED
    BY <1>3, <1>5, <2>1, <2>2, <2>3 DEF Heard
<1>8. ASSUME ~lost' PROVE Follows(Reading, kbd.down, paired, typed)'
  <2>1. kbd'.queue = kbd.queue \o codes /\ ~lost
    BY <1>3, <1>5, <1>8 DEF Queued
  <2>2. PICK q : q = ReadingOf(decoder, Outstanding \o codes)
    OBVIOUS
  <2>3. Reading' = q
    BY <1>3, <1>5, <2>1, <2>2, MoreUnder
  <2>4. PICK r : r = Reading /\ r = ReadingOf(decoder, Outstanding)
    BY DEF Reading
  <2>5. Follows(r, kbd.down, paired, typed)
    BY <2>1, <2>4 DEF ReadInv
  <2>6. At(r, 0, 0, r.decoder.mask, r.text)
    BY <2>5 DEF Follows
  <2>7. Outstanding \in Seq(0 .. 255) /\ decoder \in Decoders
    BY OutstandingIs DEF ReadInv, Heard
  <2>8. At(q, 0, 0, r.decoder.mask \ BitOf(k), r.text)
    BY <1>1, <2>2, <2>4, <2>6, <2>7, KeysRead
  <2>9. Follows(q, kbd.down \ {k}, paired, typed)
    BY <1>2, <1>3, <1>6, <2>5, <2>8, FollowsRelease
  <2>10. Follows(q, kbd'.down, paired', typed')
    BY <1>3, <1>5, <2>9
  <2> QED
    BY <2>3, <2>10
<1> QED
  BY <1>7, <1>8 DEF ReadInv

\* What will be under way.
LEMMA NextUnder ==
    ASSUME Types'
    PROVE  /\ Outstanding' = Under(port'.byte, tx', kbd'.last, kbd'.queue)
           /\ kbd'.queue \in Seq(Codes) /\ kbd'.last \in Codes \cup Answers
           /\ port'.byte \in Codes \cup Answers \cup {NoByte}
<1>1. Outstanding' = Under(port'.byte, tx', kbd'.last, kbd'.queue)
  BY DEF Outstanding, Under, HasData
<1>2. port' \in PortType /\ kbd' \in KbdType
  BY DEF Types
<1> QED
  BY <1>1, <1>2 DEF PortType, KbdType

\* An empty port: a byte that waits, or is asked for again, is no code.
LEMMA OnlyQueued ==
    ASSUME Types, port.byte \notin Codes, ~(tx = PS2_CODE_RESEND /\ kbd.last \in Codes)
    PROVE  Outstanding = kbd.queue
<1>1. /\ kbd.queue \in Seq(Codes) /\ kbd.last \in Codes \cup Answers
      /\ port.byte \in Codes \cup Answers \cup {NoByte}
  BY Fields
<1>2. Outstanding = Under(port.byte, tx, kbd.last, kbd.queue)
  BY OutstandingIs
<1> QED
  BY <1>1, <1>2, UnderQueue

\* One code waits in the port.
LEMMA OneWaits ==
    ASSUME Types, port.byte \in Codes, ~(tx = PS2_CODE_RESEND /\ kbd.last \in Codes)
    PROVE  Outstanding = <<port.byte>> \o kbd.queue
<1>1. /\ kbd.queue \in Seq(Codes) /\ kbd.last \in Codes \cup Answers
      /\ port.byte \in Codes \cup Answers \cup {NoByte}
  BY Fields
<1>2. Outstanding = Under(port.byte, tx, kbd.last, kbd.queue)
  BY OutstandingIs
<1> QED
  BY <1>1, <1>2, UnderOne

\* One code is asked for again.
LEMMA OneAgain ==
    ASSUME Types, port.byte \notin Codes, tx = PS2_CODE_RESEND, kbd.last \in Codes
    PROVE  Outstanding = <<kbd.last>> \o kbd.queue
<1>1. /\ kbd.queue \in Seq(Codes) /\ kbd.last \in Codes \cup Answers
      /\ port.byte \in Codes \cup Answers \cup {NoByte}
  BY Fields
<1>2. Outstanding = Under(port.byte, tx, kbd.last, kbd.queue)
  BY OutstandingIs
<1> QED
  BY <1>1, <1>2, UnderAgain

\* What is a code, and what is none.
LEMMA WhatIsCode ==
    ASSUME Types
    PROVE  /\ kbd.last \in Codes <=> ~IsAnswer(kbd.last)
           /\ port.byte \in Codes <=> HasData /\ ~IsAnswer(port.byte)
           /\ NoByte \notin Codes /\ NoByte # PS2_CODE_RESEND
           /\ \A a \in Answers : a \notin Codes /\ IsAnswer(a)
           /\ kbd.resp \in Answers \cup {NoByte}
<1>1. kbd.last \in Codes \cup Answers /\ port.byte \in Codes \cup Answers \cup {NoByte}
      /\ kbd.resp \in Answers \cup {NoByte}
  BY Fields
<1>2. NoByte \notin Codes /\ NoByte # PS2_CODE_RESEND /\ \A a \in Answers : a \notin Codes /\ IsAnswer(a)
      /\ ~IsAnswer(NoByte)
  BY CodeFacts DEF Codes, Answers, IsAnswer
<1>3. \A c \in Codes : ~IsAnswer(c)
  BY DEF Codes, Answers, IsAnswer
<1> QED
  BY <1>1, <1>2, <1>3 DEF HasData

\* The keyboard sends what it has.
LEMMA SendRead ==
    ASSUME Types, Types', ReadInv, KeyboardSends
    PROVE  ReadInv'
<1>0. kbd \in KbdType /\ kbd.queue \in Seq(Codes) /\ kbd.resp \in Answers \cup {NoByte}
  BY Fields DEF Types
<1>1. /\ kbd.plugged /\ ~HasData /\ tx = NoByte
      /\ UNCHANGED <<tx, decoder, typed, lost, paired>>
  BY DEF KeyboardSends, hostVars, history
<1>2. port'.byte = kbd'.last
  <2>1. PICK v \in BOOLEAN : port' = [byte |-> kbd'.last, valid |-> v]
    BY DEF KeyboardSends
  <2> QED
    BY <2>1
<1>3. Outstanding = kbd.queue
  BY <1>1, OnlyQueued, WhatIsCode
<1>4. /\ kbd'.plugged = kbd.plugged /\ kbd'.down = kbd.down
      /\ Outstanding' = kbd.queue
  <2>1. CASE kbd.resp # NoByte /\ kbd' = [kbd EXCEPT !.resp = NoByte, !.last = kbd.resp]
    <3>1. /\ kbd'.plugged = kbd.plugged /\ kbd'.down = kbd.down /\ kbd'.queue = kbd.queue
          /\ kbd'.last = kbd.resp
      BY <1>0, <2>1 DEF KbdType
    <3>2. kbd'.last \notin Codes
      BY <1>0, <2>1, <3>1, WhatIsCode
    <3>3. port'.byte \notin Codes /\ ~(tx' = PS2_CODE_RESEND /\ kbd'.last \in Codes)
      BY <1>2, <3>2
    <3>4. Outstanding' = kbd'.queue
      BY <3>3, NextUnder, UnderQueue
    <3> QED
      BY <3>1, <3>4
  <2>2. CASE /\ kbd.resp = NoByte /\ kbd.queue # <<>>
             /\ kbd' = [kbd EXCEPT !.queue = Tail(@), !.last = Head(kbd.queue)]
    <3>0. kbd' = [kbd EXCEPT !.queue = Tail(kbd.queue), !.last = Head(kbd.queue)]
      BY <1>0, <2>2 DEF KbdType
    <3>1. /\ kbd'.plugged = kbd.plugged /\ kbd'.down = kbd.down /\ kbd'.queue = Tail(kbd.queue)
          /\ kbd'.last = Head(kbd.queue)
      BY <1>0, <3>0 DEF KbdType
    <3>2. Head(kbd.queue) \in Codes /\ <<Head(kbd.queue)>> \o Tail(kbd.queue) = kbd.queue
      BY <1>0, <2>2
    <3>3. port'.byte \in Codes /\ ~(tx' = PS2_CODE_RESEND /\ kbd'.last \in Codes)
      BY <1>1, <1>2, <3>1, <3>2, WhatIsCode
    <3>4. Outstanding' = <<port'.byte>> \o kbd'.queue
      BY <3>3, NextUnder, UnderOne
    <3> QED
      BY <1>2, <3>1, <3>2, <3>4
  <2> QED
    BY <2>1, <2>2 DEF KeyboardSends
<1>5. Heard'
  <2>1. tx' # PS2_CODE_RESEND
    BY <1>1, WhatIsCode
  <2> QED
    BY <1>1, <1>4, <2>1 DEF ReadInv, Heard
<1> QED
  BY <1>1, <1>3, <1>4, <1>5, KeepReading

\* What a byte from the driver does to the codes the keyboard holds.
LEMMA ObeyedCodes ==
    ASSUME Types, NEW b \in Sent
    PROVE  /\ b # PS2_CODE_RESEND /\ b # \hFF =>
                Obeyed(b).queue = kbd.queue /\ Obeyed(b).down = kbd.down
           /\ b = PS2_CODE_RESEND =>
                /\ Obeyed(b).down = kbd.down
                /\ IsAnswer(kbd.last) => Obeyed(b).queue = kbd.queue
                /\ ~IsAnswer(kbd.last) => Obeyed(b).queue = <<kbd.last>> \o kbd.queue
           /\ b = \hFF => Obeyed(b).queue = <<PS2_CODE_BAT_PASSED>> /\ Obeyed(b).down = {}
<1>1. kbd \in KbdType
  BY DEF Types
<1>2. kbd.mode \in {"scan", "led", "rate"}
  BY Fields
<1> DEFINE o == Obeyed(b)
           a == [kbd EXCEPT !.resp = PS2_CODE_ACK]
<1>a. a.queue = kbd.queue /\ a.down = kbd.down /\ a \in KbdType
  BY <1>1 DEF KbdType, Answers
<1>3. CASE b = PS2_CODE_RESEND
  <2>1. b # \hFF /\ b # \hED /\ b # \hF3 /\ ~(b < 128)
    BY <1>3, CodeFacts
  <2>2. CASE IsAnswer(kbd.last)
    <3>1. o = [kbd EXCEPT !.resp = kbd.last]
      BY <1>3, <2>1, <2>2 DEF Obeyed
    <3> HIDE DEF o
    <3>2. o.queue = kbd.queue /\ o.down = kbd.down
      BY <1>1, <3>1 DEF KbdType
    <3> QED
      BY <1>3, <2>1, <2>2, <3>2 DEF o
  <2>3. CASE ~IsAnswer(kbd.last)
    <3>1. o = [kbd EXCEPT !.queue = <<kbd.last>> \o @]
      BY <1>3, <2>1, <2>3 DEF Obeyed
    <3> HIDE DEF o
    <3>2. o.queue = <<kbd.last>> \o kbd.queue /\ o.down = kbd.down
      BY <1>1, <3>1 DEF KbdType
    <3> QED
      BY <1>3, <2>1, <2>3, <3>2 DEF o
  <2> QED
    BY <2>2, <2>3
<1>4. CASE b = \hFF
  <2>1. b # PS2_CODE_RESEND /\ b # \hED /\ b # \hF3
    BY <1>4, CodeFacts
  <2>2. o = [a EXCEPT !.queue = <<PS2_CODE_BAT_PASSED>>, !.down = {}, !.mode = "scan", !.leds = 0]
    BY <1>4, <2>1 DEF Obeyed
  <2> HIDE DEF o, a
  <2>3. o.queue = <<PS2_CODE_BAT_PASSED>> /\ o.down = {}
    BY <1>a, <2>2 DEF KbdType
  <2> QED
    BY <1>4, <2>1, <2>3 DEF o
<1>5. CASE b = \hED \/ b = \hF3
  <2>1. b # PS2_CODE_RESEND /\ b # \hFF /\ \hED # \hF3
    BY <1>5, CodeFacts
  <2>2. PICK to \in {"led", "rate"} : o = [a EXCEPT !.mode = to]
    <3>1. CASE b = \hED
      BY <2>1, <3>1 DEF Obeyed
    <3>2. CASE b = \hF3
      BY <2>1, <3>2 DEF Obeyed
    <3> QED
      BY <1>5, <3>1, <3>2
  <2> HIDE DEF o, a
  <2>3. o.queue = kbd.queue /\ o.down = kbd.down
    BY <1>a, <2>2 DEF KbdType
  <2> QED
    BY <2>1, <2>3 DEF o
<1>6. CASE b \in 0 .. 127
  <2>1. b < 128 /\ b # PS2_CODE_RESEND /\ b # \hFF /\ b # \hED /\ b # \hF3
    BY <1>6, CodeFacts
  <2>2. CASE kbd.mode = "led"
    <3>1. o = [a EXCEPT !.mode = "scan", !.leds = b]
      BY <2>1, <2>2 DEF Obeyed
    <3> HIDE DEF o, a
    <3>2. o.queue = kbd.queue /\ o.down = kbd.down
      BY <1>a, <3>1 DEF KbdType
    <3> QED
      BY <2>1, <3>2 DEF o
  <2>3. CASE kbd.mode = "rate"
    <3>1. o = [a EXCEPT !.mode = "scan"]
      BY <2>1, <2>3 DEF Obeyed
    <3> HIDE DEF o, a
    <3>2. o.queue = kbd.queue /\ o.down = kbd.down
      BY <1>a, <3>1 DEF KbdType
    <3> QED
      BY <2>1, <3>2 DEF o
  <2>4. CASE kbd.mode = "scan"
    <3>1. o = [kbd EXCEPT !.resp = PS2_CODE_RESEND]
      BY <2>1, <2>4 DEF Obeyed
    <3> HIDE DEF o
    <3>2. o.queue = kbd.queue /\ o.down = kbd.down
      BY <1>1, <3>1 DEF KbdType
    <3> QED
      BY <2>1, <3>2 DEF o
  <2> QED
    BY <1>2, <2>2, <2>3, <2>4
<1> QED
  BY <1>3, <1>4, <1>5, <1>6 DEF Sent

\* What the port, the request and the keyboard's last byte are stays; or none of
\* them matters.
LEMMA SameUnder ==
    ASSUME Types, Types', port'.byte = port.byte, kbd'.last = kbd.last, kbd'.queue = kbd.queue,
           tx # PS2_CODE_RESEND <=> tx' # PS2_CODE_RESEND
    PROVE  Outstanding' = Outstanding
<1>1. Outstanding = Under(port.byte, tx, kbd.last, kbd.queue)
  BY OutstandingIs
<1>2. Outstanding' = Under(port.byte, tx', kbd.last, kbd.queue)
  BY NextUnder
<1>3. Under(port.byte, tx', kbd.last, kbd.queue) = Under(port.byte, tx, kbd.last, kbd.queue)
  BY DEF Under
<1> QED
  BY <1>1, <1>2, <1>3

\* The start of a keyboard's conversation, after nothing was under way.
LEMMA BatRead ==
    ASSUME Types, Types', ReadInv, Heard', UNCHANGED <<port, decoder, typed, paired>>,
           tx # PS2_CODE_RESEND <=> tx' # PS2_CODE_RESEND,
           ~lost' => ~lost /\ Quiet /\ kbd'.down = {},
           kbd'.last = kbd.last, kbd'.queue = <<PS2_CODE_BAT_PASSED>>
    PROVE  ReadInv'
<1>1. PICK c \in 0 .. 255 : c = PS2_CODE_BAT_PASSED
  BY CodeFacts
<1>2. c \in Codes
  BY <1>1, CodeFacts DEF Codes, Answers
<1>3. PICK more \in Seq(Codes) : more = <<c>>
  <2>1. <<c>> \in Seq(Codes)
    BY <1>2
  <2> QED
    BY <2>1
<1>5. ASSUME ~lost' PROVE Follows(Reading, kbd.down, paired, typed)'
  <2>1. kbd.queue = <<>> /\ kbd.down = {} /\ kbd'.down = kbd.down
    BY <1>5 DEF Quiet
  <2>2. kbd'.queue = kbd.queue \o more
    BY <1>1, <1>3, <2>1
  <2>3. Outstanding = Under(port.byte, tx, kbd.last, kbd.queue) /\ Outstanding \in Seq(0 .. 255)
    BY OutstandingIs
  <2>4. Outstanding' = Under(port.byte, tx', kbd.last, kbd.queue \o more)
    BY <2>2, NextUnder
  <2>5. Under(port.byte, tx', kbd.last, kbd.queue \o more)
          = Under(port.byte, tx, kbd.last, kbd.queue \o more)
    BY DEF Under
  <2>6. Outstanding' = Outstanding \o more
    BY <1>3, <2>4, <2>5, QueuedUnder
  <2>7. Outstanding \o <<c>> = Append(Outstanding, c)
    BY <2>3, Joined
  <2>8. PICK r, q : r = Reading /\ q = Read(r, c)
    OBVIOUS
  <2>9. decoder \in Decoders
    BY DEF ReadInv, Heard
  <2>10. ReadingOf(decoder, Append(Outstanding, c)) = Read(ReadingOf(decoder, Outstanding), c)
    BY <2>3, <2>9, ReadLast
  <2>11. Reading' = q
    BY <1>3, <2>6, <2>7, <2>8, <2>10 DEF Reading
  <2>12. Follows(r, kbd.down, paired, typed)
    BY <1>5, <2>8 DEF ReadInv
  <2>13. At(q, 0, 0, r.decoder.mask, r.text)
    BY <1>1, <2>8, <2>12, PrefixRead DEF Follows
  <2>14. Follows(q, kbd.down, paired, typed)
    BY <2>12, <2>13 DEF Follows, At
  <2>15. Follows(q, kbd'.down, paired', typed')
    BY <2>1, <2>14
  <2> QED
    BY <2>11, <2>15
<1> QED
  BY <1>5 DEF ReadInv

\* Nothing the history of modifiers is about changes.
LEMMA KeepHeard ==
    ASSUME ReadInv, UNCHANGED <<decoder, paired>>, (HasData => tx # PS2_CODE_RESEND)',
           ~kbd'.plugged => Quiet', kbd'.down \subseteq kbd.down
    PROVE  Heard'
BY DEF ReadInv, Heard

\* The keyboard gets a byte.
LEMMA ReceiveRead ==
    ASSUME Types, Types', ReadInv, KeyboardReceives
    PROVE  ReadInv'
<1>0. kbd \in KbdType /\ kbd.queue \in Seq(Codes) /\ tx \in Sent
  BY Fields DEF Types, KeyboardReceives
<1>1. /\ kbd.plugged /\ tx' = NoByte /\ tx' # PS2_CODE_RESEND
      /\ UNCHANGED <<port, decoder, typed, paired>>
  BY WhatIsCode DEF KeyboardReceives, hostVars
<1>2. CASE Fault /\ kbd' = [kbd EXCEPT !.resp = PS2_CODE_RESEND]
           /\ lost' = (lost \/ tx = PS2_CODE_RESEND)
  <2>1. /\ kbd'.plugged = kbd.plugged /\ kbd'.down = kbd.down /\ kbd'.queue = kbd.queue
        /\ kbd'.last = kbd.last
    BY <1>0, <1>2 DEF KbdType
  <2>2. Heard'
    BY <1>1, <2>1, KeepHeard
  <2>3. ~lost' => Outstanding' = Outstanding
    BY <1>1, <1>2, <2>1, SameUnder
  <2> QED
    BY <1>1, <1>2, <2>1, <2>2, <2>3, KeepReading
<1>3. CASE Clean /\ kbd' = Obeyed(tx) /\ lost' = (lost \/ (tx = \hFF /\ ~Quiet))
  <2>1. kbd'.plugged = kbd.plugged /\ kbd'.last = kbd.last
    BY <1>0, <1>3, ObeyedType
  <2>2. CASE tx = \hFF
    <3>1. kbd'.queue = <<PS2_CODE_BAT_PASSED>> /\ kbd'.down = {} /\ tx # PS2_CODE_RESEND
      BY <1>0, <1>3, <2>2, ObeyedCodes, CodeFacts
    <3>2. Heard'
      BY <1>1, <2>1, <3>1, KeepHeard
    <3> QED
      BY <1>1, <1>3, <2>1, <2>2, <3>1, <3>2, BatRead
  <2>3. CASE tx # \hFF /\ tx # PS2_CODE_RESEND
    <3>1. kbd'.queue = kbd.queue /\ kbd'.down = kbd.down
      BY <1>0, <1>3, <2>3, ObeyedCodes
    <3>2. Heard'
      BY <1>1, <2>1, <3>1, KeepHeard
    <3>3. Outstanding' = Outstanding
      BY <1>1, <2>1, <2>3, <3>1, SameUnder
    <3> QED
      BY <1>1, <1>3, <3>1, <3>2, <3>3, KeepReading
  <2>4. CASE tx = PS2_CODE_RESEND
    <3>0. kbd'.down = kbd.down /\ ~HasData
      BY <1>0, <1>3, <2>4, ObeyedCodes DEF ReadInv, Heard
    <3>1. Heard'
      BY <1>1, <2>1, <3>0, KeepHeard
    <3>2. port.byte \notin Codes
      BY <3>0, WhatIsCode
    <3>3. Outstanding' = kbd'.queue
      BY <1>1, <3>2, NextUnder, UnderQueue
    <3>4. kbd'.queue = Outstanding
      <4>1. CASE IsAnswer(kbd.last)
        <5>1. Outstanding = kbd.queue
          BY <3>2, <4>1, WhatIsCode, OnlyQueued
        <5> QED
          BY <1>0, <1>3, <2>4, <4>1, <5>1, ObeyedCodes
      <4>2. CASE ~IsAnswer(kbd.last)
        <5>1. Outstanding = <<kbd.last>> \o kbd.queue
          BY <2>4, <3>2, <4>2, WhatIsCode, OneAgain
        <5> QED
          BY <1>0, <1>3, <2>4, <4>2, <5>1, ObeyedCodes
      <4> QED
        BY <4>1, <4>2
    <3>5. ~lost' => ~lost
      BY <1>3
    <3> QED
      BY <1>1, <3>0, <3>1, <3>3, <3>4, <3>5, KeepReading
  <2> QED
    BY <2>2, <2>3, <2>4
<1> QED
  BY <1>2, <1>3 DEF KeyboardReceives

\* The keyboard is pulled out.
LEMMA UnplugRead ==
    ASSUME Types, Types', ReadInv, Unplug
    PROVE  ReadInv'
<1>0. kbd \in KbdType
  BY DEF Types
<1>1. /\ tx' = NoByte /\ tx' # PS2_CODE_RESEND /\ UNCHANGED <<port, decoder, typed, paired>>
      /\ lost' = (lost \/ ~Quiet \/ tx = PS2_CODE_RESEND)
  BY WhatIsCode DEF Unplug
<1>2. /\ ~kbd'.plugged /\ kbd'.queue = <<>> /\ kbd'.down = {} /\ kbd'.last = kbd.last
  <2>1. kbd' = [kbd EXCEPT !.plugged = FALSE, !.queue = <<>>, !.resp = NoByte, !.down = {}]
    BY DEF Unplug
  <2> QED
    BY <1>0, <2>1 DEF KbdType
<1>3. Heard'
  <2>1. Quiet'
    BY <1>2 DEF Quiet
  <2> QED
    BY <1>1, <1>2, <2>1, KeepHeard
<1>4. ASSUME ~lost' PROVE Outstanding' = Outstanding /\ kbd'.down = kbd.down /\ ~lost
  <2>1. ~lost /\ kbd.queue = <<>> /\ kbd.down = {} /\ tx # PS2_CODE_RESEND
    BY <1>1, <1>4 DEF Quiet
  <2>2. Outstanding' = Outstanding
    BY <1>1, <1>2, <2>1, SameUnder
  <2> QED
    BY <1>2, <2>1, <2>2
<1> QED
  BY <1>1, <1>3, <1>4, KeepReading

\* Another keyboard is plugged in.
LEMMA PlugRead ==
    ASSUME Types, Types', ReadInv, Plug
    PROVE  ReadInv'
<1>0. kbd \in KbdType
  BY DEF Types
<1>1. /\ ~kbd.plugged /\ UNCHANGED <<port, tx, decoder, typed, lost, paired>>
  BY DEF Plug, hostVars, history
<1>2. /\ kbd'.plugged /\ kbd'.queue = <<PS2_CODE_BAT_PASSED>> /\ kbd'.down = kbd.down
      /\ kbd'.last = kbd.last
  <2>1. kbd' = [kbd EXCEPT !.plugged = TRUE, !.queue = <<PS2_CODE_BAT_PASSED>>,
                           !.mode = "scan", !.leds = 0]
    BY DEF Plug
  <2>2. kbd'.plugged = TRUE /\ kbd'.queue = <<PS2_CODE_BAT_PASSED>>
    BY <1>0, <2>1 DEF KbdType
  <2>3. kbd'.down = kbd.down /\ kbd'.last = kbd.last
    BY <1>0, <2>1 DEF KbdType
  <2> QED
    BY <2>2, <2>3
<1>3. Quiet /\ kbd.down = {} /\ kbd.queue = <<>>
  BY <1>1 DEF ReadInv, Heard, Quiet
<1>4. Heard'
  <2>1. (HasData => tx # PS2_CODE_RESEND)'
    BY <1>1 DEF ReadInv, Heard, HasData
  <2> QED
    BY <1>1, <1>2, <2>1, KeepHeard
<1> QED
  BY <1>1, <1>2, <1>3, <1>4, BatRead

\* Only the port, the request and the driver's own state change.
LEMMA SentRead ==
    ASSUME Types, Types', ReadInv, UNCHANGED <<kbd, decoder, typed, paired>>,
           (HasData => tx # PS2_CODE_RESEND)', ~lost' => ~lost,
           ~lost' => Outstanding' = Outstanding
    PROVE  ReadInv'
<1>1. Heard'
  <2>1. ~kbd'.plugged => Quiet'
    BY DEF ReadInv, Heard, Quiet
  <2> QED
    BY <2>1, KeepHeard
<1> QED
  BY <1>1, KeepReading

\* A byte that was read leaves the words that were not reported.
LEMMA FollowsRead ==
    ASSUME NEW rest \in Readings, NEW char \in Seq(Chars), NEW down, NEW pairs, NEW words,
           Follows(Preceded(char, rest), down, pairs, words), NEW left,
           char \in {<<>>} \cup {<<c>> : c \in Chars},
           left = IF char # <<>> /\ words # <<>> THEN Tail(words) ELSE words
    PROVE  Follows(rest, down, pairs, left)
<1>1. PICK text \in Seq(Chars) : text = rest.text
  BY DEF Readings
<1>2. PICK d \in Decoders : d = rest.decoder
  BY DEF Readings
<1>3. Preceded(char, rest) = [decoder |-> d, text |-> char \o text]
  BY <1>1, <1>2 DEF Preceded
<1>4. /\ (d.extended <=> 0 = 1) /\ (d.release <=> 0 = 1)
      /\ d.mask \subseteq Held(down) /\ Held(down) \ d.mask \subseteq pairs
      /\ (CapsPrinted /\ pairs = {} => char \o text = words)
  BY <1>3 DEF Follows, At
<1>5. At(rest, 0, 0, rest.decoder.mask, rest.text)
  BY <1>2, <1>4 DEF At
<1>6. ASSUME CapsPrinted, pairs = {} PROVE text = left
  <2>1. CASE char = <<>>
    <3>1. char \o text = text
      BY <2>1
    <3> QED
      BY <1>4, <1>6, <2>1, <3>1
  <2>2. CASE char # <<>>
    <3>1. PICK c \in Chars : char = <<c>>
      BY <2>2
    <3>2. <<c>> \o text # <<>> /\ Tail(<<c>> \o text) = text
      OBVIOUS
    <3>3. words = <<c>> \o text
      BY <1>4, <1>6, <3>1
    <3> QED
      BY <2>2, <3>2, <3>3
  <2> QED
    BY <2>1, <2>2
<1> QED
  BY <1>1, <1>2, <1>4, <1>5, <1>6 DEF Follows

\* What the first code is read as.
LEMMA FirstRead ==
    ASSUME NEW d \in Decoders, NEW c \in 0 .. 255, NEW first, first = Read(Fresh(d), c)
    PROVE  /\ first \in Readings /\ first.decoder = Decoded(d, c)
           /\ first.text \in Seq(Chars)
           /\ IsPress(Event(d, c)) => first.text \in {<<x>> : x \in Chars} /\ first.text # <<>>
           /\ ~IsPress(Event(d, c)) => first.text = <<>>
<1>1. PICK e, m : e = Event(d, c) /\ m = Decoded(d, c).mask
  OBVIOUS
<1>2. Fresh(d).decoder = d /\ Fresh(d).text = <<>>
  BY DEF Fresh
<1>3. /\ first.decoder = Decoded(d, c)
      /\ first.text = IF IsPress(e) THEN Append(<<>>, Ascii(m, e)) ELSE <<>>
  BY <1>1, <1>2 DEF Read
<1>4. ASSUME IsPress(e) PROVE Ascii(m, e) \in Chars
  BY <1>1, <1>4, DecodedType, CharRead DEF Decoders
<1>5. Append(<<>>, Ascii(m, e)) = <<Ascii(m, e)>>
  OBVIOUS
<1>6. Decoded(d, c) \in Decoders
  BY DecodedType
<1>7. first.text \in Seq(Chars)
  <2>1. \A x \in Chars : <<x>> \in Seq(Chars)
    OBVIOUS
  <2>2. <<>> \in Seq(Chars)
    OBVIOUS
  <2> QED
    BY <1>3, <1>4, <1>5, <2>1, <2>2
<1>8. first \in Readings
  <2>1. first = [decoder |-> first.decoder, text |-> first.text]
    BY DEF Read
  <2> QED
    BY <1>3, <1>6, <1>7, <2>1 DEF Readings
<1>9. ASSUME IsPress(e) PROVE first.text \in {<<x>> : x \in Chars} /\ first.text # <<>>
  BY <1>3, <1>4, <1>5, <1>9
<1> QED
  BY <1>1, <1>3, <1>7, <1>8, <1>9

\* The program reads a code that waits.
LEMMA CodeTaken ==
    ASSUME Types, Types', ReadInv, ~lost, port.byte \in Codes, tx # PS2_CODE_RESEND,
           port'.byte = NoByte, UNCHANGED <<tx, kbd, paired>>,
           decoder' = Decoded(decoder, port.byte), Reports(Event(decoder, port.byte))
    PROVE  Follows(Reading, kbd.down, paired, typed)'
<1>1. PICK c \in 0 .. 255 : c = port.byte
  BY DEF Codes
<1>2. PICK first : first = Read(Fresh(decoder), c)
  OBVIOUS
<1>3. PICK queue \in Seq(0 .. 255) : queue = kbd.queue
  BY Fields, CodesAreBytes
<1>4. decoder \in Decoders
  BY DEF ReadInv, Heard
<1>5. PICK rest : rest = ReadingOf(first.decoder, queue)
  OBVIOUS
<1>6. Reading = Preceded(first.text, rest)
  <2>1. Outstanding = <<c>> \o queue
    BY <1>1, <1>3, OneWaits
  <2>2. ReadingOf(decoder, <<c>> \o queue) = Preceded(first.text, rest)
    BY <1>2, <1>4, <1>5, ReadFirst
  <2> QED
    BY <2>1, <2>2 DEF Reading
<1>7. /\ first \in Readings /\ first.decoder = decoder'
      /\ first.text \in Seq(Chars)
      /\ IsPress(Event(decoder, c)) => first.text \in {<<x>> : x \in Chars} /\ first.text # <<>>
      /\ ~IsPress(Event(decoder, c)) => first.text = <<>>
  BY <1>1, <1>2, <1>4, FirstRead
<1>8. Reading' = rest /\ rest \in Readings
  <2>1. port'.byte \notin Codes
    BY WhatIsCode
  <2>2. Outstanding' = kbd'.queue
    BY <2>1, NextUnder, UnderQueue
  <2>3. Outstanding' = queue
    BY <1>3, <2>2
  <2>4. first.decoder \in Decoders
    BY <1>7 DEF Readings
  <2>5. rest \in Readings
    BY <1>5, <2>4, ReadLast, CodeFacts
  <2> QED
    BY <1>5, <1>7, <2>3, <2>5 DEF Reading
<1>9. Follows(Preceded(first.text, rest), kbd.down, paired, typed)
  BY <1>6 DEF ReadInv
<1>10. typed' = IF first.text # <<>> /\ typed # <<>> THEN Tail(typed) ELSE typed
  BY <1>1, <1>7 DEF Reports
<1>11. first.text \in {<<>>} \cup {<<x>> : x \in Chars}
  BY <1>7
<1>12. Follows(rest, kbd.down, paired, typed')
  BY <1>7, <1>8, <1>9, <1>10, <1>11, FollowsRead
<1>13. Follows(rest, kbd'.down, paired', typed')
  BY <1>12
<1> QED
  BY <1>8, <1>13

\* The program reads the port.
LEMMA ReadRead ==
    ASSUME IInv, Types', ReadInv, ps2_get_key_event \/ ps2_wait_key_pressed
    PROVE  ReadInv'
<1>0. Types /\ Wired
  BY DEF IInv
<1>1. /\ pc \in {"idle", "wait_key"} /\ UNCHANGED <<kbd, lost, paired>> /\ port' = Empty
      /\ tx' = IF HasData /\ ~port.valid THEN PS2_CODE_RESEND ELSE tx
  BY DEF ps2_get_key_event, ps2_wait_key_pressed, ps2_read
<1>2. PICK code :
        /\ code = IF HasData /\ port.valid THEN port.byte ELSE PS2_READ_EMPTY
        /\ decoder' = Decoded(decoder, code) /\ Reports(Event(decoder, code))
  BY DEF ps2_get_key_event, ps2_wait_key_pressed, ps2_read
<1>3. port'.byte = NoByte
  BY <1>1 DEF Empty
<1>4. code \in 0 .. 255
  <2>1. PS2_READ_EMPTY \in 0 .. 255
    BY DEF PS2_READ_EMPTY
  <2>2. HasData => port.byte \in 0 .. 255
    BY <1>0, Fields, CodeFacts DEF HasData, Codes, Answers
  <2> QED
    BY <1>2, <2>1, <2>2
<1>5. Heard'
  <2>1. decoder' \in Decoders
    BY <1>2, <1>4, DecodedType DEF ReadInv, Heard
  <2>2. (HasData => tx # PS2_CODE_RESEND)'
    BY <1>3 DEF HasData
  <2>3. ~kbd'.plugged => Quiet'
    BY <1>1 DEF ReadInv, Heard, Quiet
  <2>4. \A j, k \in kbd'.down : j # k => Shared(j, k, paired')
    BY <1>1 DEF ReadInv, Heard
  <2> QED
    BY <2>1, <2>2, <2>3, <2>4 DEF Heard
<1>6. ~lost => ~IsAnswer(port.byte)
  BY <1>1 DEF IInv, InStep, Calm, NoAnswer
<1>7. CASE HasData /\ port.valid
  <2>1. code = port.byte /\ tx # PS2_CODE_RESEND /\ tx' = tx
    BY <1>1, <1>2, <1>7 DEF ReadInv, Heard
  <2>2. ASSUME ~lost' PROVE Follows(Reading, kbd.down, paired, typed)'
    <3>1. ~lost /\ port.byte \in Codes
      BY <1>0, <1>1, <1>6, <1>7, <2>2, WhatIsCode
    <3> QED
      BY <1>0, <1>1, <1>2, <1>3, <2>1, <3>1, CodeTaken
  <2> QED
    BY <1>5, <2>2 DEF ReadInv
<1>8. CASE ~(HasData /\ port.valid)
  <2>1. code = PS2_READ_EMPTY
    BY <1>2, <1>8
  <2>2. ~Completes(code)
    BY <2>1 DEF Completes
  <2>3. Event(decoder, code) = 0
    BY <2>2 DEF Event
  <2>4. typed' = typed
    BY <1>2, <2>3 DEF Reports, IsPress
  <2>5. decoder' = decoder
    <3>1. /\ code \notin {PS2_CODE_BAT_PASSED, PS2_CODE_BUFFER_OVERRUN}
          /\ code # \hF0 /\ code \notin {\hE0, \hE1}
      BY <2>1, CodeFacts DEF PS2_READ_EMPTY
    <3>2. Decoded(decoder, code) = decoder
      BY <2>1, <2>2, <3>1 DEF Decoded
    <3> QED
      BY <1>2, <3>2
  <2>6. ASSUME ~lost' PROVE Outstanding' = Outstanding
    <3>1. CASE HasData
      <4>1. tx' = PS2_CODE_RESEND /\ port.byte = kbd.last /\ tx # PS2_CODE_RESEND
        BY <1>0, <1>1, <1>8, <3>1 DEF Wired, ReadInv, Heard
      <4>2. port.byte \in Codes
        BY <1>0, <1>1, <1>6, <2>6, <3>1, WhatIsCode
      <4>3. Outstanding = <<port.byte>> \o kbd.queue
        BY <1>0, <4>1, <4>2, OneWaits
      <4>4. Outstanding' = <<kbd'.last>> \o kbd'.queue
        <5>1. kbd'.last \in Codes /\ port'.byte \notin Codes
          BY <1>0, <1>1, <1>3, <4>1, <4>2, WhatIsCode
        <5> QED
          BY <4>1, <5>1, NextUnder, UnderAgain
      <4> QED
        BY <1>1, <4>1, <4>3, <4>4
    <3>2. CASE ~HasData
      <4>1. port'.byte = port.byte /\ tx' = tx
        BY <1>1, <1>3, <3>2 DEF HasData
      <4> QED
        BY <1>0, <1>1, <4>1, SameUnder
    <3> QED
      BY <3>1, <3>2
  <2> QED
    BY <1>1, <1>5, <2>4, <2>5, <2>6, KeepReading
<1> QED
  BY <1>7, <1>8

\* The driver begins to send a byte.
LEMMA StartRead ==
    ASSUME IInv, Types', ReadInv, Start
    PROVE  ReadInv'
<1>0. Types
  BY DEF IInv
<1>1. /\ pc = "start" /\ tx' = Head(todo) /\ UNCHANGED <<port, kbd, decoder, typed, paired>>
      /\ lost' = (lost \/ tx = PS2_CODE_RESEND)
  BY DEF Start
<1>2. tx' # PS2_CODE_RESEND
  BY <1>0, <1>1, HeadOfTodo DEF Sending
<1>3. ~lost' => Outstanding' = Outstanding
  BY <1>0, <1>1, <1>2, SameUnder
<1> QED
  BY <1>0, <1>1, <1>2, <1>3, SentRead

\* The driver takes an answer.
LEMMA AnswerRead ==
    ASSUME IInv, Types', ReadInv, TakesAnswer
    PROVE  ReadInv'
<1>0. Types
  BY DEF IInv
<1>1. /\ HasData /\ port' = Empty /\ UNCHANGED <<tx, kbd, decoder, typed, paired>>
      /\ lost' = (lost \/ ~IsAnswer(port.byte))
  BY DEF TakesAnswer
<1>2. port'.byte = NoByte /\ tx # PS2_CODE_RESEND
  BY <1>1 DEF Empty, ReadInv, Heard
<1>3. ASSUME ~lost' PROVE Outstanding' = Outstanding
  <2>1. port.byte \notin Codes
    BY <1>0, <1>1, <1>3, WhatIsCode
  <2>2. Outstanding = kbd.queue
    BY <1>0, <1>2, <2>1, OnlyQueued
  <2>3. port'.byte \notin Codes /\ ~(tx' = PS2_CODE_RESEND /\ kbd'.last \in Codes)
    BY <1>0, <1>1, <1>2, WhatIsCode
  <2>4. Outstanding' = kbd'.queue
    BY <2>3, NextUnder, UnderQueue
  <2> QED
    BY <1>1, <2>2, <2>4
<1>4. (HasData => tx # PS2_CODE_RESEND)'
  BY <1>2 DEF HasData
<1> QED
  BY <1>0, <1>1, <1>3, <1>4, SentRead

\* The driver asks for a damaged byte again.
LEMMA AgainRead ==
    ASSUME IInv, Types', ReadInv, AsksAgain
    PROVE  ReadInv'
<1>0. Types /\ Wired
  BY DEF IInv
<1>1. /\ HasData /\ port' = Empty /\ tx' = PS2_CODE_RESEND
      /\ UNCHANGED <<kbd, decoder, typed, paired, lost>>
  BY DEF AsksAgain, history, hostVars
<1>2. port'.byte = NoByte /\ tx # PS2_CODE_RESEND /\ port.byte = kbd.last
  BY <1>0, <1>1 DEF Empty, ReadInv, Heard, Wired
<1>3. NoByte \notin Codes
  BY <1>0, WhatIsCode
<1>4. Outstanding' = Outstanding
  <2>1. CASE kbd.last \in Codes
    <3>1. Outstanding = <<port.byte>> \o kbd.queue
      BY <1>0, <1>2, <2>1, OneWaits
    <3>2. Outstanding' = <<kbd'.last>> \o kbd'.queue
      BY <1>1, <1>2, <1>3, <2>1, NextUnder, UnderAgain, ZenonT(40)
    <3> QED
      BY <1>1, <1>2, <3>1, <3>2
  <2>2. CASE kbd.last \notin Codes
    <3>1. Outstanding = kbd.queue
      BY <1>0, <1>2, <2>2, OnlyQueued
    <3>2. Outstanding' = kbd'.queue
      BY <1>1, <1>2, <1>3, <2>2, NextUnder, UnderQueue
    <3> QED
      BY <1>1, <3>1, <3>2
  <2> QED
    BY <2>1, <2>2
<1>5. (HasData => tx # PS2_CODE_RESEND)'
  BY <1>2 DEF HasData
<1> QED
  BY <1>0, <1>1, <1>4, <1>5, SentRead

\* The keyboard's first word is read between two keys.
LEMMA InitRead == Init => ReadInv
<1> SUFFICES ASSUME Init PROVE ReadInv
  OBVIOUS
<1>1. Types
  BY InitInStep DEF IInv
<1>2. PICK c \in 0 .. 255 : c = PS2_CODE_BAT_PASSED
  BY CodeFacts
<1>3. /\ port.byte = NoByte /\ tx = NoByte /\ kbd.plugged /\ kbd.down = {} /\ kbd.queue = <<c>>
      /\ decoder = DecoderStart /\ typed = <<>> /\ paired = {}
  BY <1>2 DEF Init, Empty
<1>4. decoder \in Decoders /\ decoder.mask = {} /\ ~decoder.extended /\ ~decoder.release
  BY <1>3 DEF DecoderStart, Decoders
<1>5. Outstanding = Append(<<>>, c)
  <2>1. port.byte \notin Codes /\ tx # PS2_CODE_RESEND
    BY <1>1, <1>3, WhatIsCode
  <2>2. Outstanding = kbd.queue
    BY <1>1, <2>1, OnlyQueued
  <2> QED
    BY <1>3, <2>2
<1>6. PICK none \in Seq(0 .. 255) : none = <<>>
  <2>1. <<>> \in Seq(0 .. 255)
    OBVIOUS
  <2> QED
    BY <2>1
<1>7. ReadingOf(decoder, none) = Fresh(decoder)
  <2>1. Len(none) = 0
    BY <1>6
  <2>2. PICK g : Reads(g, decoder, none, 0) /\ ReadingOf(decoder, none) = g[0]
    BY <2>1, ReadSteps
  <2> QED
    BY <2>2 DEF Reads
<1>8. Reading = Read(Fresh(decoder), c)
  <2>1. ReadingOf(decoder, Append(none, c)) = Read(ReadingOf(decoder, none), c)
    BY <1>4, ReadLast
  <2> QED
    BY <1>5, <1>6, <1>7, <2>1 DEF Reading
<1>9. At(Fresh(decoder), 0, 0, {}, <<>>)
  <2>1. Fresh(decoder).decoder = decoder /\ Fresh(decoder).text = <<>>
    BY DEF Fresh
  <2>2. Fresh(decoder) \in Readings
    <3>1. <<>> \in Seq(Chars)
      OBVIOUS
    <3> QED
      BY <1>4, <3>1 DEF Fresh, Readings
  <2> QED
    BY <1>4, <2>1, <2>2 DEF At
<1>10. PICK r : r = Reading
  OBVIOUS
<1>11. At(r, 0, 0, {}, <<>>)
  BY <1>2, <1>8, <1>9, <1>10, PrefixRead
<1>12. Held({}) = {}
  BY DEF Held
<1>13. Follows(r, kbd.down, paired, typed)
  <2>1. r.decoder.mask = {} /\ r.text = <<>>
    BY <1>11 DEF At
  <2> QED
    BY <1>3, <1>11, <1>12, <2>1 DEF Follows
<1>14. Heard
  <2>1. ~HasData
    BY <1>3 DEF HasData
  <2> QED
    BY <1>3, <1>4, <2>1 DEF Heard
<1> QED
  BY <1>10, <1>13, <1>14 DEF ReadInv

\* Every step leaves what will be read and what the user did in agreement.
LEMMA NextRead == IInv /\ ReadInv /\ [Next]_vars => ReadInv'
<1> SUFFICES ASSUME IInv, ReadInv, [Next]_vars PROVE ReadInv'
  OBVIOUS
<1>0. Types /\ Types'
  BY NextInStep DEF IInv
<1>1. ASSUME UNCHANGED <<port, tx, kbd, decoder, typed, lost, paired>> PROVE ReadInv'
  <2>1. Outstanding' = Outstanding
    BY <1>0, <1>1, SameUnder
  <2>2. (HasData => tx # PS2_CODE_RESEND)'
    BY <1>1 DEF HasData, ReadInv, Heard
  <2> QED
    BY <1>0, <1>1, <2>1, <2>2, SentRead
<1>2. CASE UNCHANGED vars
  BY <1>1, <1>2 DEF vars
<1>3. ASSUME NEW bytes, Begin(bytes) PROVE ReadInv'
  BY <1>1, <1>3 DEF Begin, history
<1>4. CASE Next
  <2>1. ASSUME NEW k \in Keys, Press(k) \/ Release(k) PROVE ReadInv'
    BY <1>0, <2>1, PressRead, ReleaseRead
  <2>2. CASE KeyboardSends \/ KeyboardReceives
    BY <1>0, <2>2, SendRead, ReceiveRead
  <2>3. CASE Unplug \/ Plug
    BY <1>0, <2>3, UnplugRead, PlugRead
  <2>4. CASE ps2_get_key_event \/ ps2_wait_key_pressed
    BY <1>0, <2>4, ReadRead
  <2>5. CASE WaitKey
    BY <1>1, <2>5 DEF WaitKey, history
  <2>6. CASE ps2_reset
    BY <1>3, <2>6 DEF ps2_reset
  <2>7. ASSUME NEW a \in Args, ps2_set_led_mask(a) \/ ps2_set_rate(a) PROVE ReadInv'
    BY <1>3, <2>7 DEF ps2_set_led_mask, ps2_set_rate
  <2>8. CASE Check
    BY <1>1, <2>8 DEF Check, history
  <2>9. CASE Start \/ TakesAnswer \/ AsksAgain
    BY <1>0, <2>9, StartRead, AnswerRead, AgainRead
  <2> QED
    BY <1>4, <2>1, <2>2, <2>3, <2>4, <2>5, <2>6, <2>7, <2>8, <2>9 DEF Next
<1> QED
  BY <1>2, <1>4

\* Once the codes under way are read, ps2_modifiers_mask knows the modifiers of
\* the keys that are down and no other, however often transfers were garbled,
\* bytes asked for again, commands sent in between or the keyboard exchanged;
\* it misses one only if both keys of that modifier were down together.
THEOREM MaskAlwaysFollows == Spec => []MaskFollowsKeys
<1>1. ReadInv => MaskFollowsKeys
  BY DEF ReadInv, Follows, MaskFollowsKeys
<1> QED
  BY <1>1, InitInStep, NextInStep, InitRead, NextRead, PTL DEF Spec

\* What ps2_get_ascii and ps2_wait_key_pressed will report of the codes under
\* way is exactly what the user typed and was not told yet, in that order and
\* each key with the modifiers held when it was struck, if the caps of the keys
\* show what the tables have for them.
THEOREM TypedAlwaysArrives == ASSUME CapsPrinted PROVE Spec => []TypedTextArrives
<1>1. ReadInv => TypedTextArrives
  BY DEF ReadInv, Follows, TypedTextArrives
<1> QED
  BY <1>1, InitInStep, NextInStep, InitRead, NextRead, PTL DEF Spec
=============================================================================
